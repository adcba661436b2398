CONSTANTS
  None = None
  Int32 = 16
  Word = 22
  Mantissa = 21
  Addrs = {a1, a2, a3}
  MaxRows = 2
  Values <- MCValues
  Raw <- MCRaw

SPECIFICATION Spec
SYMMETRY Symmetry
INVARIANTS
  ErrorsAreErrors
