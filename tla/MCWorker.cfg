CONSTANTS
  None = None
  Reactor = Reactor
  Session = Session
  CommandLine = CommandLine
  Names = {a, b}
  Workers = {w1}
  Slots = {s1}
  Specs = {Reactor, Session, CommandLine}
  KindOf <- Kinds
  MaxUp = 1
  MaxBeats = 1
  MaxLoads = 1

SPECIFICATION Spec
SYMMETRY Symmetry
INVARIANTS
  TypeOK
  MemoryMirrorsDisk
  OkThenRunning
