----------------------------- MODULE WorkerProofs -----------------------------
(***************************************************************************)
(* The invariants of Worker, proved for any number of computers, disks,    *)
(* names and specs and any bounds on heartbeats.                           *)
(***************************************************************************)
EXTENDS Worker, TLAPS

Reports == [Slots -> Slot]

\* The computers with any gateway and any network: commands of any kind come and
\* go, and the next message of each computer may be taken, or lost.
Outside ==
  /\ UNCHANGED <<power, slots, tasks>>
  /\ wire' \in [Workers -> Seq(Command)]
  /\ uplink' \in [Workers -> Seq(Message)]
  /\ \A w \in Workers : \/ uplink'[w] = uplink[w]
                        \/ uplink[w] # <<>> /\ uplink'[w] = Tail(uplink[w])

OpenNext ==
  \/ \E w \in Workers : \/ WorkerStep(w) \/ PowerStep(w)
                         \/ \E s \in Slots : SlotStep(w, s)
  \/ Outside

OpenSpec == Init /\ [][OpenNext]_vars
-----------------------------------------------------------------------------
(* The operators of the model. *)

\* A report names a state exactly where it names a workload.
LEMMA ReportType ==
  ASSUME NEW ms \in Reports
  PROVE  SlotList(ms) \in SlotReport
<1>1. \A s \in Slots : ms[s] \in Slot
  BY DEF Reports
<1>2. \A m \in Slot : /\ StateOf(m) \in {"none", "loading", "running"}
                      /\ m.meta = None <=> StateOf(m) = "none"
  BY DEF StateOf
<1>3. \A m \in Slot : m.meta # None => m.meta.name \in Names /\ m.meta.name # None
  BY NoneAssumption DEF Slot, Image
<1>4. \A s \in Slots :
        LET r == SlotList(ms)[s]
        IN /\ r \in [workload : Names \cup {None}, state : {"none", "loading", "running"}]
           /\ r.workload = None <=> r.state = "none"
  BY <1>1, <1>2, <1>3 DEF SlotList
<1>5. QED BY <1>4 DEF SlotList, SlotReport

\* Sending well-formed messages keeps the links well-formed.
LEMMA SendType ==
  ASSUME uplink \in [Workers -> Seq(Message)], NEW w \in Workers,
         NEW msgs \in Seq(Message), Send(w, msgs)
  PROVE  uplink' \in [Workers -> Seq(Message)]
BY DEF Send

LEMMA BeatType ==
  ASSUME NEW ms \in Reports
  PROVE  Beat(ms) \in Message
BY ReportType DEF Beat, Message

\* The answer to an assign and the heartbeat after it.
LEMMA ReplyType ==
  ASSUME TypeOK, NEW w \in Workers, NEW s \in Slots, NEW ok \in BOOLEAN, NEW m \in Slot,
         task[w][s].img \in Image, Reply(w, s, ok, m)
  PROVE  uplink' \in [Workers -> Seq(Message)]
<1> DEFINE told == [type |-> "assigned", name |-> task[w][s].img.name, ok |-> ok]
           beat == Beat([mem[w] EXCEPT ![s] = m])
<1>1. told \in Message
  BY DEF Image, Message
<1>2. [mem[w] EXCEPT ![s] = m] \in Reports
  BY DEF TypeOK, Reports
<1>3. beat \in Message
  BY <1>2, BeatType
<1>4. <<told, beat>> \in Seq(Message)
  BY <1>1, <1>3
<1>5. Send(w, <<told, beat>>)
  BY DEF Reply
<1>6. QED BY <1>4, <1>5, SendType DEF TypeOK

\* A start leaves the meta and the module of its slot alone, whatever other tasks did meanwhile.
LEMMA WarmedType ==
  ASSUME NEW m \in Slot, NEW img \in Image, NEW warm \in Warmed(m, img)
  PROVE  warm \in Slot /\ warm.meta = m.meta /\ warm.module = m.module
<1>1. \A i \in {img, m.meta} \ {None} : Kind(i) \in {"reactor", "command", "session"}
  BY KindAssumption DEF Kind, Slot, Image
<1>2. {img, m.module} \ {None} \subseteq Image
  BY DEF Slot
<1>3. \/ warm = m
      \/ \E i \in {img, m.meta} \ {None} : warm \in Stored(Kind(i), m, img)
  BY DEF Warmed
<1>4. ASSUME NEW kind \in {"reactor", "command", "session"}, warm \in Stored(kind, m, img)
      PROVE  warm \in Slot /\ warm.meta = m.meta /\ warm.module = m.module
  BY <1>2, <1>4 DEF Stored, Slot
<1>5. QED BY <1>1, <1>3, <1>4

LEMMA BegunType ==
  ASSUME NEW m \in Slot, NEW img \in Image
  PROVE  Begun(m, img) \in Slot /\ Begun(m, img).meta = m.meta
BY DEF Begun, Slot

LEMMA EmptyType == EmptySlot \in Slot /\ EmptyDisk \in Files /\ Idle \in Task /\ Booted \in Boot
BY DEF EmptySlot, EmptyDisk, Idle, Booted, Slot, Files, Task, Boot
-----------------------------------------------------------------------------
(* Type correctness. *)

\* A slot's task that is not idle carries out the assignment of some image.
Busy == \A w \in Workers, s \in Slots : task[w][s].stage # "idle" => task[w][s].img # None

\* Switching off leaves memory, queues and tasks as they are before a boot.
LEMMA PowerDownType ==
  ASSUME TypeOK, Busy, NEW w \in Workers, PowerDown(w),
         disk' \in [Workers -> [Slots -> Files]]
  PROVE  TypeOK' /\ Busy'
<1>1. /\ power' \in [Workers -> {"off", "booting", "up"}]
      /\ wire' \in [Workers -> Seq(Command)] /\ uplink' \in [Workers -> Seq(Message)]
  BY DEF PowerDown, TypeOK
<1>2. mem' \in [Workers -> [Slots -> Slot]]
  BY EmptyType DEF PowerDown, TypeOK
<1>3. queue' \in [Workers -> [Slots -> Seq(Command)]]
  BY DEF PowerDown, TypeOK
<1>4. task' \in [Workers -> [Slots -> Task]]
  BY EmptyType DEF PowerDown, TypeOK
<1>5. boot' \in [Workers -> Boot]
  BY EmptyType DEF PowerDown, TypeOK
<1>6. Busy'
  BY DEF PowerDown, TypeOK, Busy, Idle
<1>7. QED BY <1>1, <1>2, <1>3, <1>4, <1>5, <1>6 DEF TypeOK

LEMMA ReceiveType ==
  ASSUME TypeOK, Busy, NEW w \in Workers, Receive(w)
  PROVE  TypeOK' /\ Busy'
<1>1. wire[w] \in Seq(Command) /\ wire[w] # <<>>
  BY DEF Receive, TypeOK
<1>2. Head(wire[w]) \in Command /\ Tail(wire[w]) \in Seq(Command)
  BY <1>1
<1>3. Head(wire[w]).type \in {"assign", "drain"} => Head(wire[w]).slot \in Slots
  BY <1>2 DEF Command
<1>4. queue' \in [Workers -> [Slots -> Seq(Command)]]
  BY <1>2, <1>3 DEF Receive, TypeOK
<1>5. wire' \in [Workers -> Seq(Command)]
  BY <1>2 DEF Receive, TypeOK
<1>6. QED BY <1>4, <1>5 DEF Receive, TypeOK, Busy, slots

LEMMA ReceiveUpdateType ==
  ASSUME TypeOK, Busy, NEW w \in Workers, ReceiveUpdate(w)
  PROVE  TypeOK' /\ Busy'
<1>1. CASE PowerDown(w) /\ UNCHANGED disk
  BY <1>1, PowerDownType DEF TypeOK
<1>2. CASE wire' = [wire EXCEPT ![w] = Tail(@)] /\ UNCHANGED <<power, slots, tasks, uplink>>
  <2>1. wire' \in [Workers -> Seq(Command)]
    BY <1>2 DEF ReceiveUpdate, TypeOK
  <2>2. QED BY <1>2, <2>1 DEF TypeOK, Busy, slots, tasks
<1>3. QED BY <1>1, <1>2 DEF ReceiveUpdate

LEMMA AssignBeginsType ==
  ASSUME TypeOK, Busy, NEW w \in Workers, NEW s \in Slots, AssignBegins(w, s)
  PROVE  TypeOK' /\ Busy'
<1> DEFINE c == Head(queue[w][s])
           img == [name |-> c.name, spec |-> c.spec]
<1>1. queue[w][s] \in Seq(Command) /\ queue[w][s] # <<>> /\ c.type = "assign"
  BY DEF AssignBegins, Ready, TypeOK
<1>2. c \in Command /\ Tail(queue[w][s]) \in Seq(Command)
  BY <1>1
<1>3. img \in Image /\ img # None
  BY <1>1, <1>2, NoneAssumption DEF Command, Image
<1>4. [stage |-> "fetch", img |-> img, beats |-> 0] \in Task
  BY <1>3 DEF Task
<1>5. task' = [task EXCEPT ![w][s] = [stage |-> "fetch", img |-> img, beats |-> 0]]
  BY DEF AssignBegins, SetTask
<1>6. task' \in [Workers -> [Slots -> Task]] /\ Busy'
  BY <1>3, <1>4, <1>5 DEF TypeOK, Busy
<1>7. queue' \in [Workers -> [Slots -> Seq(Command)]]
  BY <1>2 DEF AssignBegins, Pop, TypeOK
<1>8. QED BY <1>6, <1>7 DEF AssignBegins, TypeOK, slots

LEMMA FetchFailsType ==
  ASSUME TypeOK, Busy, NEW w \in Workers, NEW s \in Slots, FetchFails(w, s)
  PROVE  TypeOK' /\ Busy'
<1>1. task[w][s].img \in Image /\ mem[w][s] \in Slot
  BY DEF FetchFails, TypeOK, Busy, Task
<1>2. uplink' \in [Workers -> Seq(Message)]
  BY <1>1, ReplyType DEF FetchFails
<1>3. task' \in [Workers -> [Slots -> Task]] /\ Busy'
  BY EmptyType DEF FetchFails, SetTask, TypeOK, Busy, Idle
<1>4. QED BY <1>2, <1>3 DEF FetchFails, TypeOK, slots

LEMMA FetchArrivesType ==
  ASSUME TypeOK, Busy, NEW w \in Workers, NEW s \in Slots, FetchArrives(w, s)
  PROVE  TypeOK' /\ Busy'
<1> DEFINE img == task[w][s].img
           let == [mem[w][s] EXCEPT !.meta = img, !.w = None, !.module = None]
<1>1. img \in Image /\ img # None /\ mem[w][s] \in Slot
  BY DEF FetchArrives, TypeOK, Busy, Task
<1>2. let \in Slot
  BY <1>1 DEF Slot
<1>3. Begun(let, img) \in Slot
  BY <1>1, <1>2, BegunType
<1>4. mem' \in [Workers -> [Slots -> Slot]]
  BY <1>3 DEF FetchArrives, SetMem, TypeOK
<1>5. disk' \in [Workers -> [Slots -> Files]]
  BY <1>1 DEF FetchArrives, SetDisk, Installed, Files, TypeOK
<1>6. [stage |-> "start", img |-> img, beats |-> 0] \in Task
  BY <1>1 DEF Task
<1>7. task' \in [Workers -> [Slots -> Task]] /\ Busy'
  BY <1>1, <1>6 DEF FetchArrives, SetTask, TypeOK, Busy
<1>8. QED BY <1>4, <1>5, <1>7 DEF FetchArrives, TypeOK

LEMMA StartEndsType ==
  ASSUME TypeOK, Busy, NEW w \in Workers, NEW s \in Slots, StartEnds(w, s)
  PROVE  TypeOK' /\ Busy'
<1>1. task[w][s].img \in Image /\ mem[w][s] \in Slot
  BY DEF StartEnds, TypeOK, Busy, Task
<1>2. PICK m \in Warmed(mem[w][s], task[w][s].img) : SetMem(w, s, m) /\ Reply(w, s, TRUE, m)
  BY DEF StartEnds
<1>3. m \in Slot
  BY <1>1, WarmedType
<1>4. mem' \in [Workers -> [Slots -> Slot]]
  BY <1>2, <1>3 DEF SetMem, TypeOK
<1>5. uplink' \in [Workers -> Seq(Message)]
  BY <1>1, <1>2, <1>3, ReplyType
<1>6. task' \in [Workers -> [Slots -> Task]] /\ Busy'
  BY EmptyType DEF StartEnds, SetTask, TypeOK, Busy, Idle
<1>7. QED BY <1>4, <1>5, <1>6 DEF StartEnds, TypeOK

LEMMA StartFailsType ==
  ASSUME TypeOK, Busy, NEW w \in Workers, NEW s \in Slots, StartFails(w, s)
  PROVE  TypeOK' /\ Busy'
<1>1. task[w][s].img \in Image
  BY DEF StartFails, TypeOK, Busy, Task
<1>2. uplink' \in [Workers -> Seq(Message)]
  BY <1>1, EmptyType, ReplyType DEF StartFails
<1>3. mem' \in [Workers -> [Slots -> Slot]] /\ disk' \in [Workers -> [Slots -> Files]]
  BY EmptyType DEF StartFails, SetMem, SetDisk, TypeOK
<1>4. task' \in [Workers -> [Slots -> Task]] /\ Busy'
  BY EmptyType DEF StartFails, SetTask, TypeOK, Busy, Idle
<1>5. QED BY <1>2, <1>3, <1>4 DEF StartFails, TypeOK

LEMMA DrainType ==
  ASSUME TypeOK, Busy, NEW w \in Workers, NEW s \in Slots, Drain(w, s)
  PROVE  TypeOK' /\ Busy'
<1>1. mem' \in [Workers -> [Slots -> Slot]] /\ disk' \in [Workers -> [Slots -> Files]]
  BY EmptyType DEF Drain, SetMem, SetDisk, TypeOK
<1>2. queue' \in [Workers -> [Slots -> Seq(Command)]]
  <2>1. queue[w][s] \in Seq(Command) /\ queue[w][s] # <<>>
    BY DEF Drain, Ready, TypeOK
  <2>2. Tail(queue[w][s]) \in Seq(Command)
    BY <2>1
  <2>3. QED BY <2>2 DEF Drain, Pop, TypeOK
<1>3. uplink' \in [Workers -> Seq(Message)]
  <2>1. [mem[w] EXCEPT ![s] = EmptySlot] \in Reports
    BY EmptyType DEF TypeOK, Reports
  <2>2. <<Beat([mem[w] EXCEPT ![s] = EmptySlot])>> \in Seq(Message)
    BY <2>1, BeatType
  <2>3. QED BY <2>2, SendType DEF Drain, TypeOK
<1>4. QED BY <1>1, <1>2, <1>3 DEF Drain, TypeOK, Busy

\* What the boot task starts is the image it read from the disk.
Starting == \A w \in Workers : boot[w].slot # None => boot[w].img # None

LEMMA BootVisitsType ==
  ASSUME TypeOK, Busy, NEW w \in Workers, NEW s \in Slots, BootVisits(w, s)
  PROVE  TypeOK' /\ Busy'
<1> DEFINE m == mem[w][s]
           img == disk[w][s].wasm
<1>1. m \in Slot /\ boot[w].left \subseteq Slots /\ boot[w] \in Boot
  BY DEF TypeOK, Boot
<1>2. CASE m.meta # None /\ img # None
  <2> DEFINE b == [left |-> boot[w].left \ {s}, slot |-> s, img |-> img]
  <2>1. img \in Image
    BY <1>2 DEF TypeOK, Files
  <2>2. Begun(m, img) \in Slot
    BY <1>1, <2>1, BegunType
  <2>3. mem' = [mem EXCEPT ![w][s] = Begun(m, img)] /\ boot' = [boot EXCEPT ![w] = b]
    BY <1>2 DEF BootVisits, SetMem
  <2>4. b \in Boot
    BY <1>1, <2>1 DEF Boot
  <2>5. mem' \in [Workers -> [Slots -> Slot]]
    BY <2>2, <2>3 DEF TypeOK
  <2>6. boot' \in [Workers -> Boot]
    <3> HIDE DEF b
    <3>1. QED BY <2>3, <2>4 DEF TypeOK
  <2>7. QED BY <2>5, <2>6 DEF BootVisits, TypeOK, Busy
<1>3. CASE ~(m.meta # None /\ img # None)
  <2> DEFINE n == [m EXCEPT !.meta = None]
             b == [boot[w] EXCEPT !.left = @ \ {s}]
  <2>1. mem' = [mem EXCEPT ![w][s] = n] /\ boot' = [boot EXCEPT ![w] = b]
    <3>1. mem' = [mem EXCEPT ![w][s] = n]
      BY <1>3 DEF BootVisits, SetMem
    <3>2. boot' = [boot EXCEPT ![w].left = @ \ {s}]
      BY <1>3 DEF BootVisits
    <3>3. QED BY <3>1, <3>2
  <2>2. n \in Slot
    BY <1>1 DEF Slot
  <2>3. b \in Boot
    BY <1>1 DEF Boot
  <2>4. mem' \in [Workers -> [Slots -> Slot]] /\ boot' \in [Workers -> Boot]
    <3> HIDE DEF n, b
    <3>1. QED BY <2>1, <2>2, <2>3 DEF TypeOK
  <2>5. QED BY <2>4 DEF BootVisits, TypeOK, Busy
<1>4. QED BY <1>2, <1>3

LEMMA BootEndsType ==
  ASSUME TypeOK, Busy, Starting, NEW w \in Workers, BootStartEnds(w) \/ BootStartFails(w)
  PROVE  TypeOK' /\ Busy'
<1> DEFINE s == boot[w].slot
           b == [boot[w] EXCEPT !.slot = None, !.img = None]
<1>1. s \in Slots /\ boot[w].img \in Image /\ mem[w][s] \in Slot
  BY DEF BootStartEnds, BootStartFails, TypeOK, Boot, Starting
<1>2. boot' \in [Workers -> Boot]
  <2>1. boot' = [boot EXCEPT ![w] = b]
    BY DEF BootStartEnds, BootStartFails, BootLeaves
  <2>2. b \in Boot
    BY DEF TypeOK, Boot
  <2> HIDE DEF b
  <2>3. QED BY <2>1, <2>2 DEF TypeOK
<1>3. mem' \in [Workers -> [Slots -> Slot]]
  <2>1. CASE BootStartEnds(w)
    <3>1. PICK m \in Warmed(mem[w][s], boot[w].img) : SetMem(w, s, m)
      BY <2>1 DEF BootStartEnds
    <3>2. m \in Slot
      BY <1>1, WarmedType
    <3>3. QED BY <3>1, <3>2 DEF SetMem, TypeOK
  <2>2. CASE BootStartFails(w)
    BY <2>2 DEF BootStartFails, slots, TypeOK
  <2>3. QED BY <2>1, <2>2
<1>4. QED BY <1>2, <1>3 DEF BootStartEnds, BootStartFails, slots, TypeOK, Busy

LEMMA RegisterType ==
  ASSUME TypeOK, Busy, NEW w \in Workers, Register(w)
  PROVE  TypeOK' /\ Busy'
<1>1. SlotList(mem[w]) \in SlotReport
  BY ReportType DEF TypeOK, Reports
<1>2. <<[type |-> "register", slots |-> SlotList(mem[w])]>> \in Seq(Message)
  BY <1>1 DEF Message
<1>3. uplink' \in [Workers -> Seq(Message)]
  BY <1>2, SendType DEF Register, TypeOK
<1>4. QED BY <1>3 DEF Register, slots, tasks, TypeOK, Busy

LEMMA HeartbeatType ==
  ASSUME TypeOK, Busy, NEW w \in Workers, Heartbeat(w)
  PROVE  TypeOK' /\ Busy'
<1> DEFINE counted == [s \in Slots |-> IF task[w][s].stage = "idle" THEN task[w][s]
                                       ELSE [task[w][s] EXCEPT !.beats = @ + 1]]
<1>1. task' = [task EXCEPT ![w] = counted]
  BY DEF Heartbeat
<1>2. \A s \in Slots : /\ counted[s] \in Task
                       /\ counted[s].stage = task[w][s].stage
                       /\ counted[s].img = task[w][s].img
  <2> TAKE s \in Slots
  <2>1. task[w][s] \in Task
    BY DEF TypeOK
  <2>2. [task[w][s] EXCEPT !.beats = @ + 1] \in Task
    BY <2>1 DEF Task
  <2>3. QED BY <2>1, <2>2 DEF Task
<1>3. task' \in [Workers -> [Slots -> Task]] /\ Busy'
  <2>1. counted \in [Slots -> Task]
    BY <1>2
  <2> HIDE DEF counted
  <2>2. QED BY <1>1, <1>2, <2>1 DEF TypeOK, Busy
<1>4. <<Beat(mem[w])>> \in Seq(Message)
  BY BeatType DEF TypeOK, Reports
<1>5. uplink' \in [Workers -> Seq(Message)]
  BY <1>4, SendType DEF Heartbeat, TypeOK
<1>6. QED BY <1>3, <1>5 DEF Heartbeat, slots, TypeOK

LEMMA PowerOffInstallingType ==
  ASSUME TypeOK, Busy, NEW w \in Workers, NEW s \in Slots, PowerOffInstalling(w, s)
  PROVE  TypeOK' /\ Busy'
<1>1. task[w][s].img \in Image /\ disk[w][s] \in Files
  BY DEF PowerOffInstalling, TypeOK, Busy, Task
<1>2. [disk[w][s] EXCEPT !.wasm = task[w][s].img] \in Files
  BY <1>1 DEF Files
<1>3. disk' \in [Workers -> [Slots -> Files]]
  BY <1>2 DEF PowerOffInstalling, TypeOK
<1>4. QED BY <1>3, PowerDownType DEF PowerOffInstalling

LEMMA PowerOnType ==
  ASSUME TypeOK, Busy, NEW w \in Workers, PowerOn(w)
  PROVE  TypeOK' /\ Busy'
<1>1. \A s \in Slots : [EmptySlot EXCEPT !.meta = disk[w][s].meta] \in Slot
  BY DEF TypeOK, Files, EmptySlot, Slot
<1>2. mem' \in [Workers -> [Slots -> Slot]]
  BY <1>1 DEF PowerOn, TypeOK
<1>3. [Booted EXCEPT !.left = Slots] \in Boot
  BY DEF Booted, Boot
<1>4. boot' \in [Workers -> Boot]
  BY <1>3 DEF PowerOn, TypeOK
<1>5. wire' \in [Workers -> Seq(Command)]
  BY DEF PowerOn, TypeOK
<1>6. QED BY <1>2, <1>4, <1>5 DEF PowerOn, TypeOK, Busy

LEMMA OutsideType ==
  ASSUME TypeOK, Busy, Outside
  PROVE  TypeOK' /\ Busy'
BY DEF Outside, slots, tasks, TypeOK, Busy

\* The gateway of Worker is one of the gateways a computer may have.
LEMMA GatewayIsOutside ==
  ASSUME TypeOK, NEW w \in Workers, GatewaySends(w) \/ GatewayTakes(w)
  PROVE  Outside
<1>1. CASE GatewaySends(w)
  <2>1. PICK c \in Command : wire' = [wire EXCEPT ![w] = <<c>>]
    BY <1>1 DEF GatewaySends
  <2>2. wire' \in [Workers -> Seq(Command)]
    BY <2>1 DEF TypeOK
  <2>3. QED BY <1>1, <2>2 DEF GatewaySends, TypeOK, Outside
<1>2. CASE GatewayTakes(w)
  <2>1. uplink[w] \in Seq(Message) /\ uplink[w] # <<>>
    BY <1>2 DEF GatewayTakes, TypeOK
  <2>2. Tail(uplink[w]) \in Seq(Message)
    BY <2>1
  <2>3. uplink' = [uplink EXCEPT ![w] = Tail(@)]
    BY <1>2 DEF GatewayTakes
  <2>4. uplink' \in [Workers -> Seq(Message)]
    BY <2>2, <2>3 DEF TypeOK
  <2>5. \A v \in Workers : uplink'[v] = IF v = w THEN Tail(uplink[w]) ELSE uplink[v]
    BY <2>3 DEF TypeOK
  <2>6. wire' = wire /\ UNCHANGED <<power, slots, tasks>>
    BY <1>2 DEF GatewayTakes
  <2>7. wire' \in [Workers -> Seq(Command)]
    BY <2>6 DEF TypeOK
  <2>8. QED BY <2>1, <2>4, <2>5, <2>6, <2>7 DEF Outside
<1>3. QED BY <1>1, <1>2

\* A computer puts nothing on the wire to it.
LEMMA WireOnlyTaken ==
  ASSUME TypeOK, NEW w \in Workers,
         WorkerStep(w) \/ PowerStep(w) \/ \E s \in Slots : SlotStep(w, s), NEW v \in Workers
  PROVE  Len(wire'[v]) <= Len(wire[v])
<1>1. wire[v] \in Seq(Command) /\ Len(wire[v]) \in Nat
  BY DEF TypeOK
<1>2. CASE wire' = wire
  BY <1>1, <1>2
<1>3. CASE wire' = [wire EXCEPT ![w] = <<>>]
  BY <1>1, <1>3 DEF TypeOK
<1>4. CASE wire' = [wire EXCEPT ![w] = Tail(@)] /\ wire[w] # <<>>
  <2>1. wire'[v] = IF v = w THEN Tail(wire[v]) ELSE wire[v]
    BY <1>4 DEF TypeOK
  <2>2. v = w => Len(Tail(wire[v])) = Len(wire[v]) - 1
    BY <1>1, <1>4
  <2>3. QED BY <1>1, <2>1, <2>2
<1>5. ASSUME WorkerStep(w)
      PROVE  \/ wire' = wire \/ wire' = [wire EXCEPT ![w] = <<>>]
             \/ wire' = [wire EXCEPT ![w] = Tail(@)] /\ wire[w] # <<>>
  BY <1>5 DEF WorkerStep, Receive, ReceiveUpdate, PowerDown, Heartbeat, BootStartEnds,
              BootStartFails, Register
<1>6. ASSUME PowerStep(w)
      PROVE  wire' = [wire EXCEPT ![w] = <<>>]
  BY <1>6 DEF PowerStep, PowerOff, PowerOffInstalling, PowerDown, PowerOn
<1>7. ASSUME NEW s \in Slots, SlotStep(w, s)
      PROVE  wire' = wire
  BY <1>7 DEF SlotStep, AssignBegins, FetchArrives, FetchFails, StartEnds, StartFails,
              Drain, BootVisits
<1>8. QED BY <1>2, <1>3, <1>4, <1>5, <1>6, <1>7

LEMMA NextIsOpen == TypeOK /\ [Next]_vars => [OpenNext]_vars
BY GatewayIsOutside DEF Next, OpenNext

LEMMA StartingStep ==
  ASSUME TypeOK, Starting, [OpenNext]_vars
  PROVE  Starting'
<1>1. CASE boot' = boot
  BY <1>1 DEF Starting
<1>2. ASSUME NEW w \in Workers, PowerDown(w) \/ PowerOn(w)
      PROVE  Starting'
  <2>1. /\ boot'[w].slot = None
        /\ \A v \in Workers : v # w => boot'[v] = boot[v]
    BY <1>2 DEF PowerDown, PowerOn, Booted, TypeOK
  <2>2. QED BY <2>1 DEF Starting
<1>3. ASSUME NEW w \in Workers, NEW s \in Slots, BootVisits(w, s)
      PROVE  Starting'
  <2>1. CASE mem[w][s].meta # None /\ disk[w][s].wasm # None
    <3>1. boot' = [boot EXCEPT ![w] = [left |-> boot[w].left \ {s}, slot |-> s,
                                        img |-> disk[w][s].wasm]]
      BY <1>3, <2>1 DEF BootVisits
    <3>2. boot'[w].img # None
      BY <2>1, <3>1 DEF TypeOK
    <3>3. \A v \in Workers : v # w => boot'[v] = boot[v]
      BY <3>1 DEF TypeOK
    <3>4. QED BY <3>2, <3>3 DEF Starting
  <2>2. CASE ~(mem[w][s].meta # None /\ disk[w][s].wasm # None)
    <3>1. boot' = [boot EXCEPT ![w].left = @ \ {s}] /\ boot[w].slot = None
      BY <1>3, <2>2 DEF BootVisits
    <3>2. boot'[w].slot = None
      BY <3>1 DEF TypeOK, Boot
    <3>3. \A v \in Workers : v # w => boot'[v] = boot[v]
      BY <3>1 DEF TypeOK
    <3>4. QED BY <3>2, <3>3 DEF Starting
  <2>3. QED BY <2>1, <2>2
<1>4. ASSUME NEW w \in Workers, BootLeaves(w)
      PROVE  Starting'
  <2>1. boot' = [boot EXCEPT ![w] = [boot[w] EXCEPT !.slot = None, !.img = None]]
    BY <1>4 DEF BootLeaves
  <2>2. [boot[w] EXCEPT !.slot = None, !.img = None].slot = None
    BY DEF TypeOK, Boot
  <2>3. QED BY <2>1, <2>2 DEF Starting, TypeOK
<1>5. ASSUME NEW w \in Workers, WorkerStep(w)
      PROVE  boot' = boot \/ PowerDown(w) \/ BootLeaves(w)
  BY <1>5 DEF WorkerStep, Receive, ReceiveUpdate, Heartbeat, BootStartEnds,
              BootStartFails, Register, tasks
<1>6. ASSUME NEW w \in Workers, NEW s \in Slots, SlotStep(w, s)
      PROVE  boot' = boot \/ BootVisits(w, s)
  BY <1>6 DEF SlotStep, AssignBegins, FetchArrives, FetchFails, StartEnds, StartFails,
              Drain
<1>7. ASSUME NEW w \in Workers, PowerStep(w)
      PROVE  PowerDown(w) \/ PowerOn(w)
  BY <1>7 DEF PowerStep, PowerOff, PowerOffInstalling
<1>8. CASE Outside
  BY <1>1, <1>8 DEF Outside, tasks
<1>9. ASSUME NEW w \in Workers, WorkerStep(w)
      PROVE  Starting'
  BY <1>1, <1>2, <1>4, <1>5, <1>9
<1>10. ASSUME NEW w \in Workers, NEW s \in Slots, SlotStep(w, s)
       PROVE  Starting'
  BY <1>1, <1>3, <1>6, <1>10
<1>11. ASSUME NEW w \in Workers, PowerStep(w)
       PROVE  Starting'
  BY <1>2, <1>7, <1>11
<1>12. CASE UNCHANGED vars
  BY <1>1, <1>12 DEF vars, tasks
<1>13. QED BY <1>8, <1>9, <1>10, <1>11, <1>12 DEF OpenNext

\* Every step keeps the types, the tasks busy and the boot task's start in place.
Typed == TypeOK /\ Busy /\ Starting

LEMMA TypedInit == Init => Typed
<1> SUFFICES ASSUME Init PROVE Typed
  OBVIOUS
<1>1. [Booted EXCEPT !.left = Slots] \in Boot
  BY DEF Booted, Boot
<1>2. TypeOK
  BY <1>1, EmptyType DEF Init, TypeOK
<1>3. Busy /\ Starting
  BY DEF Init, Busy, Starting, Idle, Booted
<1>4. QED BY <1>2, <1>3 DEF Typed

LEMMA TypedStep == Typed /\ [OpenNext]_vars => Typed'
<1> SUFFICES ASSUME TypeOK, Busy, Starting, [OpenNext]_vars PROVE Typed'
  BY DEF Typed
<1>1. Starting'
  BY StartingStep
<1>2. CASE UNCHANGED vars
  BY <1>1, <1>2 DEF vars, slots, tasks, TypeOK, Busy, Typed
<1>3. ASSUME NEW w \in Workers, WorkerStep(w)
      PROVE  TypeOK' /\ Busy'
  BY <1>3, ReceiveType, ReceiveUpdateType, HeartbeatType, BootEndsType, RegisterType
     DEF WorkerStep
<1>4. ASSUME NEW w \in Workers, NEW s \in Slots, SlotStep(w, s)
      PROVE  TypeOK' /\ Busy'
  BY <1>4, AssignBeginsType, FetchArrivesType, FetchFailsType, StartEndsType,
     StartFailsType, DrainType, BootVisitsType DEF SlotStep
<1>5. ASSUME NEW w \in Workers, PowerStep(w)
      PROVE  TypeOK' /\ Busy'
  <2>1. PowerOff(w) => disk' \in [Workers -> [Slots -> Files]]
    BY DEF PowerOff, TypeOK
  <2>2. QED BY <1>5, <2>1, PowerDownType, PowerOnType, PowerOffInstallingType
            DEF PowerStep, PowerOff
<1>6. QED BY <1>1, <1>2, <1>3, <1>4, <1>5, OutsideType DEF OpenNext, Typed

\* What is proved of the computers with any gateway holds of Worker.
THEOREM GatewayIsAny == Spec => OpenSpec
<1>1. Typed /\ [Next]_vars => [OpenNext]_vars
  BY NextIsOpen DEF Typed
<1>2. Typed /\ [Next]_vars => Typed'
  BY <1>1, TypedStep
<1>3. QED BY TypedInit, <1>1, <1>2, PTL DEF Spec, OpenSpec

LEMMA OpenTyped == OpenSpec => []Typed
BY TypedInit, TypedStep, PTL DEF OpenSpec

\* Whatever computers, disks, names and bounds there are, every step of the data
\* plane keeps the state well-formed; in particular a report names a workload
\* exactly where it states one, and a task that is not idle has an image.
THEOREM TypeCorrect == Spec => []TypeOK
<1>1. Typed => TypeOK
  BY DEF Typed
<1>2. QED BY OpenTyped, GatewayIsAny, <1>1, PTL
-----------------------------------------------------------------------------
(* The boot task. *)

\* Only a computer that has not registered yet runs its boot task.
Boots == \A w \in Workers : boot[w].slot # None => power[w] = "booting"

LEMMA BootsStep == TypeOK /\ Boots /\ [OpenNext]_vars => Boots'
<1> SUFFICES ASSUME TypeOK, Boots, [OpenNext]_vars PROVE Boots'
  OBVIOUS
<1>1. CASE UNCHANGED <<power, boot>>
  BY <1>1 DEF Boots
<1>2. ASSUME NEW w \in Workers,
             \A v \in Workers : v # w => power'[v] = power[v] /\ boot'[v] = boot[v],
             boot'[w].slot # None => power'[w] = "booting"
      PROVE  Boots'
  BY <1>2 DEF Boots
<1>3. ASSUME NEW w \in Workers, PowerDown(w) \/ PowerOn(w)
      PROVE  Boots'
  <2>1. /\ boot'[w].slot = None
        /\ \A v \in Workers : v # w => power'[v] = power[v] /\ boot'[v] = boot[v]
    BY <1>3 DEF PowerDown, PowerOn, Booted, TypeOK
  <2>2. QED BY <1>2, <2>1
<1>4. ASSUME NEW w \in Workers, NEW s \in Slots, BootVisits(w, s)
      PROVE  Boots'
  <2>1. /\ power' = power /\ power[w] = "booting"
        /\ \A v \in Workers : v # w => boot'[v] = boot[v]
    BY <1>4 DEF BootVisits, TypeOK
  <2>2. QED BY <1>2, <2>1
<1>5. ASSUME NEW w \in Workers, BootStartEnds(w) \/ BootStartFails(w)
      PROVE  Boots'
  <2>1. BootLeaves(w) /\ power' = power
    BY <1>5 DEF BootStartEnds, BootStartFails
  <2>2. /\ boot' = [boot EXCEPT ![w] = [boot[w] EXCEPT !.slot = None, !.img = None]]
        /\ [boot[w] EXCEPT !.slot = None, !.img = None].slot = None
    BY <2>1 DEF BootLeaves, TypeOK, Boot
  <2>3. boot'[w].slot = None /\ \A v \in Workers : v # w => boot'[v] = boot[v]
    BY <2>2 DEF TypeOK
  <2>4. QED BY <1>2, <2>1, <2>3
<1>6. ASSUME NEW w \in Workers, Register(w)
      PROVE  Boots'
  <2>1. /\ boot' = boot /\ boot[w].slot = None
        /\ \A v \in Workers : v # w => power'[v] = power[v]
    BY <1>6 DEF Register, tasks, TypeOK
  <2>2. QED BY <1>2, <2>1
<1>7. ASSUME NEW w \in Workers, WorkerStep(w)
      PROVE  Boots'
  <2>1. \/ UNCHANGED <<power, boot>> \/ PowerDown(w)
        \/ BootStartEnds(w) \/ BootStartFails(w) \/ Register(w)
    BY <1>7 DEF WorkerStep, Receive, ReceiveUpdate, Heartbeat, tasks
  <2>2. QED BY <1>1, <1>3, <1>5, <1>6, <2>1
<1>8. ASSUME NEW w \in Workers, NEW s \in Slots, SlotStep(w, s)
      PROVE  Boots'
  <2>1. UNCHANGED <<power, boot>> \/ BootVisits(w, s)
    BY <1>8 DEF SlotStep, AssignBegins, FetchArrives, FetchFails, StartEnds, StartFails,
                Drain
  <2>2. QED BY <1>1, <1>4, <2>1
<1>9. ASSUME NEW w \in Workers, PowerStep(w)
      PROVE  PowerDown(w) \/ PowerOn(w)
  BY <1>9 DEF PowerStep, PowerOff, PowerOffInstalling
<1>10. CASE Outside \/ UNCHANGED vars
  BY <1>1, <1>10 DEF Outside, vars, tasks
<1>11. QED BY <1>3, <1>7, <1>8, <1>9, <1>10 DEF OpenNext

LEMMA OpenBoots == OpenSpec => []Boots
<1>1. Init => Boots
  BY DEF Init, Boots, Booted
<1>2. Typed /\ Boots /\ [OpenNext]_vars => Boots'
  BY BootsStep DEF Typed
<1>3. QED BY <1>1, <1>2, OpenTyped, PTL DEF OpenSpec
-----------------------------------------------------------------------------
(* Memory and disk. *)

\* A disk with a crab-meta.json holds the wasm it describes as well: the files are
\* written in that order and deleted together.
Whole == \A w \in Workers, s \in Slots : disk[w][s].meta # None => disk[w][s].wasm # None

Mirrored == Whole /\ MemoryMirrorsDisk

\* Steps that write at most one slot, its fields and its files.
LEMMA OneSlotMirrored ==
  ASSUME TypeOK, Mirrored, NEW w \in Workers, NEW s \in Slots, NEW m, NEW d, power' = power,
         mem' = [mem EXCEPT ![w][s] = m], disk' = [disk EXCEPT ![w][s] = d],
         power[w] # "off" => m.meta = d.meta, d.meta # None => d.wasm # None
  PROVE  Mirrored'
<1>1. /\ mem'[w][s] = m /\ disk'[w][s] = d
      /\ \A v \in Workers, x \in Slots : <<v, x>> # <<w, s>> =>
           mem'[v][x] = mem[v][x] /\ disk'[v][x] = disk[v][x]
  BY DEF TypeOK
<1>2. QED BY <1>1 DEF Mirrored, Whole, MemoryMirrorsDisk

\* The same for steps that leave the files alone and the meta where the disk has one.
LEMMA KeptDiskMirrored ==
  ASSUME TypeOK, Mirrored, NEW w \in Workers, NEW s \in Slots, NEW m, power' = power,
         mem' = [mem EXCEPT ![w][s] = m], disk' = disk,
         power[w] # "off" => m.meta = disk[w][s].meta
  PROVE  Mirrored'
<1>1. disk' = [disk EXCEPT ![w][s] = disk[w][s]]
  BY DEF TypeOK
<1>2. disk[w][s].meta # None => disk[w][s].wasm # None
  BY DEF Mirrored, Whole
<1>3. QED BY <1>1, <1>2, OneSlotMirrored

LEMMA SlotStepMirrored ==
  ASSUME Typed, Mirrored, NEW w \in Workers, NEW s \in Slots, SlotStep(w, s)
  PROVE  Mirrored'
<1>0. TypeOK /\ Busy /\ mem[w][s] \in Slot /\ disk[w][s] \in Files
  BY DEF Typed, TypeOK
<1>1. CASE AssignBegins(w, s) \/ FetchFails(w, s)
  BY <1>1 DEF AssignBegins, FetchFails, slots, Mirrored, Whole, MemoryMirrorsDisk
<1>2. CASE FetchArrives(w, s)
  <2> DEFINE img == task[w][s].img
             m == [mem[w][s] EXCEPT !.meta = img, !.w = None, !.module = None]
  <2>1. img \in Image /\ img # None
    BY <1>0, <1>2 DEF FetchArrives, TypeOK, Busy, Task
  <2>2. m \in Slot /\ m.meta = img
    BY <1>0, <2>1 DEF Slot
  <2>3. Begun(m, img).meta = Installed(img).meta /\ Installed(img).wasm # None
    BY <2>1, <2>2, BegunType DEF Installed
  <2>4. /\ mem' = [mem EXCEPT ![w][s] = Begun(m, img)]
        /\ disk' = [disk EXCEPT ![w][s] = Installed(img)] /\ power' = power
    BY <1>2 DEF FetchArrives, SetMem, SetDisk
  <2>5. QED BY <1>0, <2>3, <2>4, OneSlotMirrored
<1>3. CASE StartEnds(w, s)
  <2>1. PICK m \in Warmed(mem[w][s], task[w][s].img) : SetMem(w, s, m)
    BY <1>3 DEF StartEnds
  <2>2. m.meta = mem[w][s].meta
    <3>1. task[w][s].img \in Image
      BY <1>0, <1>3 DEF StartEnds, TypeOK, Busy, Task
    <3>2. QED BY <1>0, <3>1, WarmedType
  <2>3. power[w] # "off" => m.meta = disk[w][s].meta
    BY <2>2 DEF Mirrored, MemoryMirrorsDisk
  <2>4. mem' = [mem EXCEPT ![w][s] = m] /\ disk' = disk /\ power' = power
    BY <1>3, <2>1 DEF StartEnds, SetMem
  <2>5. QED BY <1>0, <2>3, <2>4, KeptDiskMirrored
<1>4. CASE StartFails(w, s) \/ Drain(w, s)
  <2>1. /\ mem' = [mem EXCEPT ![w][s] = EmptySlot]
        /\ disk' = [disk EXCEPT ![w][s] = EmptyDisk] /\ power' = power
    BY <1>4 DEF StartFails, Drain, SetMem, SetDisk
  <2>2. EmptySlot.meta = EmptyDisk.meta /\ EmptyDisk.meta = None
    BY DEF EmptySlot, EmptyDisk
  <2>3. QED BY <1>0, <2>1, <2>2, OneSlotMirrored
<1>5. CASE BootVisits(w, s)
  <2> DEFINE m == mem[w][s]
             img == disk[w][s].wasm
  <2>0. m.meta = disk[w][s].meta /\ disk' = disk /\ power' = power
    BY <1>5 DEF BootVisits, Mirrored, MemoryMirrorsDisk
  <2>1. CASE m.meta # None /\ img # None
    <3>1. img \in Image
      BY <1>0, <2>1 DEF Files
    <3>2. Begun(m, img).meta = disk[w][s].meta
      BY <1>0, <2>0, <3>1, BegunType
    <3>3. mem' = [mem EXCEPT ![w][s] = Begun(m, img)]
      BY <1>5, <2>1 DEF BootVisits, SetMem
    <3>4. QED BY <1>0, <2>0, <3>2, <3>3, KeptDiskMirrored
  <2>2. CASE ~(m.meta # None /\ img # None)
    <3> DEFINE n == [m EXCEPT !.meta = None]
    <3>1. n.meta = None
      BY <1>0 DEF Slot
    <3>2. disk[w][s].meta = None
      BY <2>0, <2>2 DEF Mirrored, Whole
    <3>3. mem' = [mem EXCEPT ![w][s] = n]
      BY <1>5, <2>2 DEF BootVisits, SetMem
    <3> HIDE DEF n
    <3>4. QED BY <1>0, <2>0, <3>1, <3>2, <3>3, KeptDiskMirrored
  <2>3. QED BY <2>1, <2>2
<1>6. QED BY <1>1, <1>2, <1>3, <1>4, <1>5 DEF SlotStep

LEMMA PowerDownMirrored ==
  ASSUME TypeOK, Mirrored, NEW w \in Workers, PowerDown(w), Whole',
         \A v \in Workers : v # w => disk'[v] = disk[v]
  PROVE  Mirrored'
<1>1. /\ power'[w] = "off"
      /\ \A v \in Workers : v # w => power'[v] = power[v] /\ mem'[v] = mem[v]
  BY DEF PowerDown, TypeOK
<1>2. QED BY <1>1 DEF Mirrored, MemoryMirrorsDisk

LEMMA WorkerStepMirrored ==
  ASSUME Typed, Mirrored, NEW w \in Workers, WorkerStep(w)
  PROVE  Mirrored'
<1>0. TypeOK /\ Starting
  BY DEF Typed
<1>1. CASE UNCHANGED <<power, slots>>
  BY <1>1 DEF slots, Mirrored, Whole, MemoryMirrorsDisk
<1>2. CASE PowerDown(w) /\ UNCHANGED disk
  BY <1>0, <1>2, PowerDownMirrored DEF Mirrored, Whole
<1>3. CASE BootStartEnds(w)
  <2> DEFINE s == boot[w].slot
  <2>1. PICK m \in Warmed(mem[w][s], boot[w].img) : SetMem(w, s, m)
    BY <1>3 DEF BootStartEnds
  <2>2. s \in Slots /\ boot[w].img \in Image /\ mem[w][s] \in Slot
    BY <1>0, <1>3 DEF BootStartEnds, TypeOK, Boot, Starting
  <2>3. power[w] # "off" => m.meta = disk[w][s].meta
    BY <2>2, WarmedType DEF Mirrored, MemoryMirrorsDisk
  <2>4. mem' = [mem EXCEPT ![w][s] = m] /\ disk' = disk /\ power' = power
    BY <1>3, <2>1 DEF BootStartEnds, SetMem
  <2>5. QED BY <1>0, <2>2, <2>3, <2>4, KeptDiskMirrored
<1>4. CASE Register(w)
  <2>1. /\ power[w] # "off" /\ UNCHANGED slots
        /\ \A v \in Workers : v # w => power'[v] = power[v]
    BY <1>0, <1>4 DEF Register, TypeOK
  <2>2. QED BY <2>1 DEF slots, Mirrored, Whole, MemoryMirrorsDisk
<1>5. QED BY <1>1, <1>2, <1>3, <1>4
          DEF WorkerStep, Receive, ReceiveUpdate, Heartbeat, BootStartFails, slots

LEMMA PowerStepMirrored ==
  ASSUME Typed, Mirrored, NEW w \in Workers, PowerStep(w)
  PROVE  Mirrored'
<1>0. TypeOK /\ Busy
  BY DEF Typed
<1>1. CASE PowerOff(w)
  BY <1>0, <1>1, PowerDownMirrored DEF PowerOff, Mirrored, Whole
<1>2. CASE PowerOn(w)
  <2>1. /\ \A s \in Slots : mem'[w][s].meta = disk[w][s].meta
        /\ \A v \in Workers : v # w => power'[v] = power[v] /\ mem'[v] = mem[v]
        /\ disk' = disk
    BY <1>0, <1>2 DEF PowerOn, TypeOK, EmptySlot
  <2>2. QED BY <2>1 DEF Mirrored, Whole, MemoryMirrorsDisk
<1>3. ASSUME NEW s \in Slots, PowerOffInstalling(w, s)
      PROVE  Mirrored'
  <2>1. task[w][s].img # None
    BY <1>0, <1>3 DEF PowerOffInstalling, Busy
  <2>2. disk' = [disk EXCEPT ![w][s] = [disk[w][s] EXCEPT !.wasm = task[w][s].img]]
    BY <1>3 DEF PowerOffInstalling
  <2>3. disk'[w][s].wasm # None
    BY <1>0, <2>1, <2>2 DEF TypeOK, Files
  <2>4. \A v \in Workers, x \in Slots : <<v, x>> # <<w, s>> => disk'[v][x] = disk[v][x]
    BY <1>0, <2>2 DEF TypeOK
  <2>5. Whole'
    BY <2>3, <2>4 DEF Mirrored, Whole
  <2>6. \A v \in Workers : v # w => disk'[v] = disk[v]
    BY <1>0, <2>2 DEF TypeOK
  <2>7. QED BY <1>0, <1>3, <2>5, <2>6, PowerDownMirrored DEF PowerOffInstalling
<1>4. QED BY <1>1, <1>2, <1>3 DEF PowerStep

LEMMA MirroredStep == Typed /\ Mirrored /\ [OpenNext]_vars => Mirrored'
<1> SUFFICES ASSUME Typed, Mirrored, [OpenNext]_vars PROVE Mirrored'
  OBVIOUS
<1>1. CASE UNCHANGED <<power, slots>>
  BY <1>1 DEF slots, Mirrored, Whole, MemoryMirrorsDisk
<1>2. QED BY <1>1, SlotStepMirrored, WorkerStepMirrored, PowerStepMirrored
          DEF OpenNext, Outside, vars

LEMMA OpenMirrored == OpenSpec => []Mirrored
<1>1. Init => Mirrored
  BY DEF Init, Mirrored, Whole, MemoryMirrorsDisk, EmptyDisk, EmptySlot
<1>2. QED BY <1>1, TypedInit, TypedStep, MirroredStep, PTL DEF OpenSpec

\* What a running computer holds in memory is what its disks say, through
\* interleaved assigns, drains, boots and failed starts, and with power lost at any
\* point, between the two writes of an install included.
THEOREM DisksMirrored == Spec => []MemoryMirrorsDisk
<1>1. Mirrored => MemoryMirrorsDisk
  BY DEF Mirrored
<1>2. QED BY OpenMirrored, GatewayIsAny, <1>1, PTL
-----------------------------------------------------------------------------
(* Answers. *)

\* OkThenRunning for one link.
Told(u) ==
  \A k \in DOMAIN u :
    u[k].type = "assigned" /\ u[k].ok =>
      /\ k < Len(u) /\ u[k + 1].type = "heartbeat"
      /\ \E s \in Slots : u[k + 1].slots[s] = [workload |-> u[k].name, state |-> "running"]

LEMMA ToldLinks == OkThenRunning => \A w \in Workers : Told(uplink[w])
BY DEF OkThenRunning, Told

\* A task that starts holds the meta of its image, and the module if nothing but
\* the module makes the workload live.
Loaded(m, t) ==
  t.stage = "start" =>
    /\ m.meta = t.img
    /\ Kind(t.img) = "command" => m.module # None
Launched == \A w \in Workers, s \in Slots : Loaded(mem[w][s], task[w][s])

\* A computer that is off runs no task.
Asleep == \A w \in Workers, s \in Slots : power[w] = "off" => task[w][s].stage = "idle"

LEMMA ToldAppend ==
  ASSUME NEW u \in Seq(Message), NEW msgs \in Seq(Message), Told(u), Told(msgs)
  PROVE  Told(u \o msgs)
<1> DEFINE v == u \o msgs
<1>1. /\ Len(v) = Len(u) + Len(msgs)
      /\ \A k \in 1..Len(u) : v[k] = u[k]
      /\ \A k \in 1..Len(msgs) : v[Len(u) + k] = msgs[k]
  OBVIOUS
<1>2. DOMAIN v = 1..Len(v) /\ DOMAIN u = 1..Len(u) /\ DOMAIN msgs = 1..Len(msgs)
      /\ Len(u) \in Nat /\ Len(msgs) \in Nat
  OBVIOUS
<1> SUFFICES ASSUME NEW k \in 1..Len(v), v[k].type = "assigned", v[k].ok
             PROVE  /\ k < Len(v) /\ v[k + 1].type = "heartbeat"
                    /\ \E s \in Slots :
                         v[k + 1].slots[s] = [workload |-> v[k].name, state |-> "running"]
  BY <1>2 DEF Told
<1> HIDE DEF v
<1>3. CASE k \in 1..Len(u)
  <2>1. /\ k < Len(u) /\ u[k + 1].type = "heartbeat"
        /\ \E s \in Slots : u[k + 1].slots[s] = [workload |-> u[k].name, state |-> "running"]
    BY <1>1, <1>2, <1>3 DEF Told
  <2>2. v[k] = u[k] /\ v[k + 1] = u[k + 1] /\ k < Len(v)
    BY <1>1, <1>2, <1>3, <2>1
  <2>3. QED BY <2>1, <2>2
<1>4. CASE k \notin 1..Len(u)
  <2> DEFINE j == k - Len(u)
  <2>1. j \in 1..Len(msgs) /\ v[k] = msgs[j]
    BY <1>1, <1>2, <1>4
  <2>2. /\ j < Len(msgs) /\ msgs[j + 1].type = "heartbeat"
        /\ \E s \in Slots : msgs[j + 1].slots[s] = [workload |-> msgs[j].name, state |-> "running"]
    BY <1>2, <2>1 DEF Told
  <2>3. v[k + 1] = msgs[j + 1] /\ k < Len(v)
    BY <1>1, <1>2, <2>1, <2>2
  <2>4. QED BY <2>1, <2>2, <2>3
<1>5. QED BY <1>3, <1>4

LEMMA ToldTail ==
  ASSUME NEW u \in Seq(Message), u # <<>>, Told(u)
  PROVE  Told(Tail(u))
<1> DEFINE v == Tail(u)
<1>1. /\ v \in Seq(Message) /\ Len(u) \in Nat \ {0} /\ Len(v) = Len(u) - 1
      /\ DOMAIN v = 1..Len(v) /\ DOMAIN u = 1..Len(u)
      /\ \A k \in 1..Len(v) : v[k] = u[k + 1]
  OBVIOUS
<1> HIDE DEF v
<1> SUFFICES ASSUME NEW k \in 1..Len(v), v[k].type = "assigned", v[k].ok
             PROVE  /\ k < Len(v) /\ v[k + 1].type = "heartbeat"
                    /\ \E s \in Slots :
                         v[k + 1].slots[s] = [workload |-> v[k].name, state |-> "running"]
  BY <1>1 DEF Told, v
<1>2. k + 1 \in 1..Len(u) /\ v[k] = u[k + 1]
  BY <1>1
<1>3. /\ k + 1 < Len(u) /\ u[(k + 1) + 1].type = "heartbeat"
      /\ \E s \in Slots :
           u[(k + 1) + 1].slots[s] = [workload |-> u[k + 1].name, state |-> "running"]
  BY <1>1, <1>2 DEF Told
<1>4. k < Len(v) /\ v[k + 1] = u[(k + 1) + 1]
  BY <1>1, <1>3
<1>5. QED BY <1>2, <1>3, <1>4

\* What a step sends besides an ok answer asks for nothing.
LEMMA ToldOther ==
  ASSUME NEW msg \in Message, msg.type # "assigned"
  PROVE  Told(<<msg>>)
BY DEF Told

LEMMA ToldReply ==
  ASSUME TypeOK, NEW w \in Workers, NEW s \in Slots, NEW ok \in BOOLEAN, NEW m \in Slot,
         task[w][s].img \in Image, Reply(w, s, ok, m), OkThenRunning,
         ok => m.meta = task[w][s].img /\ StateOf(m) = "running"
  PROVE  OkThenRunning'
<1> DEFINE told == [type |-> "assigned", name |-> task[w][s].img.name, ok |-> ok]
           ms == [mem[w] EXCEPT ![s] = m]
           beat == Beat(ms)
<1>1. told \in Message /\ ms \in Reports /\ mem[w] \in [Slots -> Slot]
  BY DEF Image, Message, TypeOK, Reports
<1>2. beat \in Message /\ beat.type = "heartbeat"
  BY <1>1, BeatType DEF Beat
<1>3. ms[s] = m
  BY <1>1
<1>4. ok => beat.slots[s] = [workload |-> told.name, state |-> "running"]
  <2>1. SUFFICES ASSUME ok PROVE SlotList(ms)[s] = [workload |-> told.name, state |-> "running"]
    BY DEF Beat
  <2>2. m.meta = task[w][s].img /\ m.meta # None /\ StateOf(m) = "running"
    BY <2>1, NoneAssumption DEF Image
  <2>3. m.meta.name = told.name
    BY <2>2
  <2> HIDE DEF ms, told
  <2>4. QED BY <1>3, <2>2, <2>3 DEF SlotList
<1> HIDE DEF ms, beat
<1>5. Told(<<told, beat>>)
  BY <1>2, <1>4 DEF Told
<1>6. <<told, beat>> \in Seq(Message)
  BY <1>1, <1>2
<1>7. uplink' = [uplink EXCEPT ![w] = @ \o <<told, beat>>]
  BY DEF Reply, Send, beat, ms
<1> HIDE DEF told
<1>8. uplink[w] \in Seq(Message) /\ \A v \in Workers : Told(uplink[v])
  BY ToldLinks DEF TypeOK
<1>9. Told(uplink[w] \o <<told, beat>>)
  BY <1>5, <1>6, <1>8, ToldAppend
<1>10. \A v \in Workers : Told(uplink'[v])
  BY <1>7, <1>8, <1>9 DEF TypeOK
<1>11. QED BY <1>10 DEF OkThenRunning, Told

LEMMA ToldSend ==
  ASSUME TypeOK, OkThenRunning, NEW w \in Workers, NEW msg \in Message,
         msg.type # "assigned", Send(w, <<msg>>)
  PROVE  OkThenRunning'
<1>1. uplink' = [uplink EXCEPT ![w] = @ \o <<msg>>]
  BY DEF Send
<1>2. /\ uplink[w] \in Seq(Message) /\ <<msg>> \in Seq(Message)
      /\ \A v \in Workers : Told(uplink[v])
  BY ToldLinks DEF TypeOK
<1>3. Told(uplink[w] \o <<msg>>)
  BY <1>2, ToldAppend, ToldOther
<1>4. \A v \in Workers : Told(uplink'[v])
  BY <1>1, <1>2, <1>3 DEF TypeOK
<1>5. QED BY <1>4 DEF OkThenRunning, Told

\* The handle that a start stores makes the workload it was begun for live.
LEMMA WarmedLive ==
  ASSUME NEW m \in Slot, NEW img \in Image, NEW warm \in Warmed(m, img), m.meta = img,
         Kind(img) = "command" => m.module # None
  PROVE  StateOf(warm) = "running"
<1>1. img # None /\ Kind(img) \in {"reactor", "command", "session"}
  BY KindAssumption, NoneAssumption DEF Kind, Image
<1>2. warm \in Stored(Kind(img), m, img)
  BY <1>1 DEF Warmed
<1>3. warm.meta = img
  BY WarmedType
<1>4. CASE Kind(img) = "reactor"
  <2>1. PICK i \in {img, m.module} \ {None} : warm = [m EXCEPT !.w = i]
    BY <1>2, <1>4 DEF Stored
  <2>2. warm.w # None
    BY <2>1 DEF Slot
  <2>3. QED BY <1>1, <1>3, <2>2 DEF StateOf, Live
<1>5. CASE Kind(img) = "session"
  <2>1. warm = [m EXCEPT !.sessions = img]
    BY <1>2, <1>5 DEF Stored
  <2>2. warm.sessions # None
    BY <1>1, <2>1 DEF Slot
  <2>3. QED BY <1>1, <1>3, <2>2 DEF StateOf, Live
<1>6. CASE Kind(img) = "command"
  <2>1. warm = m
    BY <1>2, <1>6 DEF Stored
  <2>2. QED BY <1>1, <1>3, <1>6, <2>1 DEF StateOf, Live
<1>7. QED BY <1>1, <1>4, <1>5, <1>6

LEMMA OkSlotStep ==
  ASSUME Typed, Launched, OkThenRunning, NEW w \in Workers, NEW s \in Slots, SlotStep(w, s)
  PROVE  OkThenRunning'
<1>0. TypeOK /\ Busy /\ mem[w][s] \in Slot
  BY DEF Typed, TypeOK
<1>1. CASE AssignBegins(w, s) \/ FetchArrives(w, s) \/ BootVisits(w, s)
  <2>1. uplink' = uplink
    BY <1>1 DEF AssignBegins, FetchArrives, BootVisits
  <2>2. QED BY <2>1 DEF OkThenRunning
<1>2. CASE FetchFails(w, s)
  <2>1. task[w][s].img \in Image /\ Reply(w, s, FALSE, mem[w][s])
    BY <1>0, <1>2 DEF FetchFails, TypeOK, Busy, Task
  <2>2. QED BY <1>0, <2>1, ToldReply
<1>3. CASE StartEnds(w, s)
  <2>1. task[w][s].img \in Image /\ task[w][s].stage = "start"
    BY <1>0, <1>3 DEF StartEnds, TypeOK, Busy, Task
  <2>2. PICK m \in Warmed(mem[w][s], task[w][s].img) : Reply(w, s, TRUE, m)
    BY <1>3 DEF StartEnds
  <2>3. /\ mem[w][s].meta = task[w][s].img
        /\ Kind(task[w][s].img) = "command" => mem[w][s].module # None
    BY <2>1 DEF Launched, Loaded
  <2>4. m \in Slot /\ m.meta = task[w][s].img
    BY <1>0, <2>1, <2>3, WarmedType
  <2>5. StateOf(m) = "running"
    BY <1>0, <2>1, <2>3, WarmedLive
  <2>6. QED BY <1>0, <2>1, <2>2, <2>4, <2>5, ToldReply
<1>4. CASE StartFails(w, s)
  <2>1. task[w][s].img \in Image
    BY <1>0, <1>4 DEF StartFails, TypeOK, Busy, Task
  <2>2. Reply(w, s, FALSE, EmptySlot)
    BY <1>4 DEF StartFails
  <2>3. QED BY <1>0, <2>1, <2>2, EmptyType, ToldReply
<1>5. CASE Drain(w, s)
  <2> DEFINE ms == [mem[w] EXCEPT ![s] = EmptySlot]
             beat == Beat(ms)
  <2>1. ms \in Reports
    BY <1>0, EmptyType DEF TypeOK, Reports
  <2>2. beat \in Message /\ beat.type # "assigned"
    <3> HIDE DEF ms
    <3>1. QED BY <2>1, BeatType DEF Beat
  <2>3. Send(w, <<beat>>)
    BY <1>5 DEF Drain
  <2> HIDE DEF beat
  <2>4. QED BY <1>0, <2>2, <2>3, ToldSend
<1>6. QED BY <1>1, <1>2, <1>3, <1>4, <1>5 DEF SlotStep

LEMMA OkStep == Typed /\ Launched /\ OkThenRunning /\ [OpenNext]_vars => OkThenRunning'
<1> SUFFICES ASSUME Typed, Launched, OkThenRunning, [OpenNext]_vars PROVE OkThenRunning'
  OBVIOUS
<1>0. TypeOK
  BY DEF Typed
<1>1. CASE uplink' = uplink
  BY <1>1 DEF OkThenRunning
<1>2. ASSUME NEW w \in Workers, Heartbeat(w)
      PROVE  OkThenRunning'
  <2>1. Beat(mem[w]) \in Message /\ Beat(mem[w]).type # "assigned"
    BY <1>0, BeatType DEF TypeOK, Reports, Beat
  <2>2. Send(w, <<Beat(mem[w])>>)
    BY <1>2 DEF Heartbeat
  <2>3. QED BY <1>0, <2>1, <2>2, ToldSend
<1>3. ASSUME NEW w \in Workers, Register(w)
      PROVE  OkThenRunning'
  <2> DEFINE msg == [type |-> "register", slots |-> SlotList(mem[w])]
  <2>1. msg \in Message /\ msg.type # "assigned"
    BY <1>0, ReportType DEF TypeOK, Reports, Message
  <2>2. Send(w, <<msg>>)
    BY <1>3 DEF Register
  <2> HIDE DEF msg
  <2>3. QED BY <1>0, <2>1, <2>2, ToldSend
<1>4. CASE Outside
  <2>1. SUFFICES ASSUME NEW w \in Workers PROVE Told(uplink'[w])
    BY DEF OkThenRunning, Told
  <2>2. uplink[w] \in Seq(Message) /\ Told(uplink[w])
    BY <1>0, ToldLinks DEF TypeOK
  <2>3. QED BY <1>4, <2>2, ToldTail DEF Outside
<1>5. ASSUME NEW w \in Workers, NEW s \in Slots, SlotStep(w, s)
      PROVE  OkThenRunning'
  BY <1>5, OkSlotStep
<1>6. ASSUME NEW w \in Workers, WorkerStep(w)
      PROVE  uplink' = uplink \/ Heartbeat(w) \/ Register(w)
  BY <1>6 DEF WorkerStep, Receive, ReceiveUpdate, PowerDown, BootStartEnds, BootStartFails
<1>7. ASSUME NEW w \in Workers, PowerStep(w)
      PROVE  uplink' = uplink
  BY <1>7 DEF PowerStep, PowerOff, PowerOn, PowerDown, PowerOffInstalling
<1>8. CASE UNCHANGED vars
  BY <1>1, <1>8 DEF vars
<1>9. QED BY <1>1, <1>2, <1>3, <1>4, <1>5, <1>6, <1>7, <1>8 DEF OpenNext

LEMMA AsleepStep == Typed /\ Asleep /\ [OpenNext]_vars => Asleep'
<1> SUFFICES ASSUME Typed, Asleep, [OpenNext]_vars PROVE Asleep'
  OBVIOUS
<1>0. TypeOK
  BY DEF Typed
<1>1. CASE UNCHANGED <<power, task>>
  BY <1>1 DEF Asleep
<1>2. ASSUME NEW w \in Workers, PowerDown(w)
      PROVE  Asleep'
  <2>1. /\ \A s \in Slots : task'[w][s].stage = "idle"
        /\ \A v \in Workers : v # w => power'[v] = power[v] /\ task'[v] = task[v]
    BY <1>0, <1>2 DEF PowerDown, Idle, TypeOK
  <2>2. QED BY <2>1 DEF Asleep
<1>3. ASSUME NEW w \in Workers, task' = task, power'[w] # "off",
             \A v \in Workers : v # w => power'[v] = power[v]
      PROVE  Asleep'
  BY <1>3 DEF Asleep
<1>4. ASSUME NEW w \in Workers, power' = power, power[w] # "off",
             \A v \in Workers : v # w => task'[v] = task[v]
      PROVE  Asleep'
  BY <1>4 DEF Asleep
<1>5. ASSUME NEW w \in Workers, Register(w) \/ PowerOn(w)
      PROVE  Asleep'
  <2>1. /\ task' = task /\ power'[w] # "off"
        /\ \A v \in Workers : v # w => power'[v] = power[v]
    BY <1>0, <1>5 DEF Register, PowerOn, tasks, TypeOK
  <2>2. QED BY <2>1, <1>3
<1>6. ASSUME NEW w \in Workers, Heartbeat(w)
      PROVE  Asleep'
  <2>1. /\ power' = power /\ power[w] # "off"
        /\ \A v \in Workers : v # w => task'[v] = task[v]
    BY <1>0, <1>6 DEF Heartbeat, TypeOK
  <2>2. QED BY <2>1, <1>4
<1>7. ASSUME NEW w \in Workers, NEW s \in Slots, SlotStep(w, s)
      PROVE  Asleep'
  <2>1. CASE UNCHANGED task
    BY <1>1, <1>7, <2>1
       DEF SlotStep, AssignBegins, FetchArrives, FetchFails, StartEnds, StartFails,
           Drain, BootVisits
  <2>2. CASE task' # task
    <3>1. power' = power
      BY <1>7 DEF SlotStep, AssignBegins, FetchArrives, FetchFails, StartEnds,
                  StartFails, Drain, BootVisits
    <3>2. power[w] # "off"
      BY <1>7, <2>2 DEF SlotStep, AssignBegins, Ready, FetchArrives, FetchFails,
                         StartEnds, StartFails, Drain, BootVisits, Asleep
    <3>3. \A v \in Workers : v # w => task'[v] = task[v]
      BY <1>0, <1>7, <2>2
         DEF SlotStep, AssignBegins, FetchArrives, FetchFails, StartEnds, StartFails,
             Drain, BootVisits, SetTask, TypeOK
    <3>4. QED BY <3>1, <3>2, <3>3, <1>4
  <2>3. QED BY <2>1, <2>2
<1>8. ASSUME NEW w \in Workers, WorkerStep(w)
      PROVE  UNCHANGED <<power, task>> \/ PowerDown(w) \/ Register(w) \/ Heartbeat(w)
  BY <1>8 DEF WorkerStep, Receive, ReceiveUpdate, BootStartEnds, BootStartFails, tasks
<1>9. ASSUME NEW w \in Workers, PowerStep(w)
      PROVE  PowerDown(w) \/ PowerOn(w)
  BY <1>9 DEF PowerStep, PowerOff, PowerOffInstalling
<1>10. CASE Outside \/ UNCHANGED vars
  BY <1>1, <1>10 DEF Outside, vars, tasks
<1>11. QED BY <1>1, <1>2, <1>5, <1>6, <1>7, <1>8, <1>9, <1>10 DEF OpenNext

LEMMA OneSlotLaunched ==
  ASSUME TypeOK, Launched, NEW w \in Workers, NEW s \in Slots, NEW m, NEW t,
         mem' = [mem EXCEPT ![w][s] = m], task' = [task EXCEPT ![w][s] = t], Loaded(m, t)
  PROVE  Launched'
<1>1. /\ mem'[w][s] = m /\ task'[w][s] = t
      /\ \A v \in Workers, x \in Slots : <<v, x>> # <<w, s>> =>
           mem'[v][x] = mem[v][x] /\ task'[v][x] = task[v][x]
  BY DEF TypeOK
<1>2. \A v \in Workers, x \in Slots : Loaded(mem'[v][x], task'[v][x])
  BY <1>1 DEF Launched
<1>3. QED BY <1>2 DEF Launched, Loaded, Kind

\* The boot task's start, and its visit, leave a starting task what it needs.
LEMMA KeptTaskLaunched ==
  ASSUME TypeOK, Launched, NEW w \in Workers, NEW s \in Slots, NEW m, task' = task,
         mem' = [mem EXCEPT ![w][s] = m],
         task[w][s].stage = "start" =>
           m.meta = mem[w][s].meta /\ (mem[w][s].module # None => m.module # None)
  PROVE  Launched'
<1>1. task' = [task EXCEPT ![w][s] = task[w][s]]
  BY DEF TypeOK
<1>2. Loaded(m, task[w][s])
  BY DEF Launched, Loaded
<1>3. QED BY <1>1, <1>2, OneSlotLaunched

LEMMA SlotStepLaunched ==
  ASSUME Typed, Mirrored, Launched, NEW w \in Workers, NEW s \in Slots, SlotStep(w, s)
  PROVE  Launched'
<1>0. TypeOK /\ Busy /\ mem[w][s] \in Slot /\ disk[w][s] \in Files
  BY DEF Typed, TypeOK
<1>1. ASSUME NEW t, t.stage # "start", SetTask(w, s, t), NEW m, mem' = [mem EXCEPT ![w][s] = m]
      PROVE  Launched'
  <2>1. Loaded(m, t)
    BY <1>1 DEF Loaded
  <2>2. task' = [task EXCEPT ![w][s] = t]
    BY <1>1 DEF SetTask
  <2>3. QED BY <1>0, <1>1, <2>1, <2>2, OneSlotLaunched
<1>2. CASE AssignBegins(w, s)
  <2>1. PICK c : SetTask(w, s, [stage |-> "fetch", img |-> [name |-> c.name, spec |-> c.spec],
                                beats |-> 0])
    BY <1>2 DEF AssignBegins
  <2>2. mem' = [mem EXCEPT ![w][s] = mem[w][s]]
    BY <1>0, <1>2 DEF AssignBegins, slots, TypeOK
  <2>3. QED BY <1>1, <2>1, <2>2
<1>3. CASE FetchFails(w, s) \/ StartEnds(w, s) \/ StartFails(w, s)
  <2>1. SetTask(w, s, Idle) /\ Idle.stage # "start"
    BY <1>3 DEF FetchFails, StartEnds, StartFails, Idle
  <2>2. \E m : mem' = [mem EXCEPT ![w][s] = m]
    <3>1. FetchFails(w, s) => mem' = [mem EXCEPT ![w][s] = mem[w][s]]
      BY <1>0 DEF FetchFails, slots, TypeOK
    <3>2. QED BY <1>3, <3>1 DEF StartEnds, StartFails, SetMem
  <2>3. QED BY <1>1, <2>1, <2>2
<1>4. CASE FetchArrives(w, s)
  <2> DEFINE img == task[w][s].img
             m == [mem[w][s] EXCEPT !.meta = img, !.w = None, !.module = None]
             t == [stage |-> "start", img |-> img, beats |-> 0]
  <2>1. img \in Image /\ img # None
    BY <1>0, <1>4 DEF FetchArrives, TypeOK, Busy, Task
  <2>2. m \in Slot /\ m.meta = img
    BY <1>0, <2>1 DEF Slot
  <2>3. Begun(m, img).meta = img
    BY <2>1, <2>2, BegunType
  <2>4. Kind(img) = "command" => Begun(m, img).module = img
    <3> HIDE DEF m
    <3>1. QED BY <2>1, <2>2 DEF Begun, Slot
  <2>5. mem' = [mem EXCEPT ![w][s] = Begun(m, img)] /\ task' = [task EXCEPT ![w][s] = t]
    BY <1>4 DEF FetchArrives, SetMem, SetTask
  <2>6. Loaded(Begun(m, img), t)
    BY <2>1, <2>3, <2>4 DEF Loaded
  <2>7. QED BY <1>0, <2>5, <2>6, OneSlotLaunched
<1>5. CASE Drain(w, s)
  <2>1. mem' = [mem EXCEPT ![w][s] = EmptySlot] /\ task' = task /\ task[w][s].stage = "idle"
    BY <1>5 DEF Drain, SetMem, Ready
  <2>2. QED BY <1>0, <2>1, KeptTaskLaunched
<1>6. CASE BootVisits(w, s)
  <2> DEFINE m == mem[w][s]
             img == disk[w][s].wasm
  <2>0. m.meta = disk[w][s].meta /\ task' = task
    BY <1>6 DEF BootVisits, Mirrored, MemoryMirrorsDisk
  <2>1. CASE m.meta # None /\ img # None
    <3>1. img \in Image
      BY <1>0, <2>1 DEF Files
    <3>2. Begun(m, img).meta = m.meta /\ (m.module # None => Begun(m, img).module # None)
      BY <1>0, <2>1, <3>1, BegunType DEF Begun, Slot
    <3>3. mem' = [mem EXCEPT ![w][s] = Begun(m, img)]
      BY <1>6, <2>1 DEF BootVisits, SetMem
    <3>4. QED BY <1>0, <2>0, <3>2, <3>3, KeptTaskLaunched
  <2>2. CASE ~(m.meta # None /\ img # None)
    <3> DEFINE n == [m EXCEPT !.meta = None]
    <3>1. m.meta = None
      BY <2>0, <2>2 DEF Mirrored, Whole
    <3>2. task[w][s].stage # "start"
      BY <1>0, <3>1 DEF Launched, Loaded, Busy
    <3>3. mem' = [mem EXCEPT ![w][s] = n]
      BY <1>6, <2>2 DEF BootVisits, SetMem
    <3> HIDE DEF n
    <3>4. QED BY <1>0, <2>0, <3>2, <3>3, KeptTaskLaunched
  <2>3. QED BY <2>1, <2>2
<1>7. QED BY <1>2, <1>3, <1>4, <1>5, <1>6 DEF SlotStep

LEMMA LaunchedStep == Typed /\ Mirrored /\ Asleep /\ Launched /\ [OpenNext]_vars => Launched'
<1> SUFFICES ASSUME Typed, Mirrored, Asleep, Launched, [OpenNext]_vars PROVE Launched'
  OBVIOUS
<1>0. TypeOK /\ Starting
  BY DEF Typed
<1>1. CASE UNCHANGED <<mem, task>>
  BY <1>1 DEF Launched, Loaded, Kind
<1>2. ASSUME NEW w \in Workers, \A s \in Slots : task'[w][s].stage # "start",
             \A v \in Workers : v # w => mem'[v] = mem[v] /\ task'[v] = task[v]
      PROVE  Launched'
  BY <1>2 DEF Launched, Loaded, Kind
<1>3. ASSUME NEW w \in Workers, PowerDown(w)
      PROVE  Launched'
  <2>1. /\ \A s \in Slots : task'[w][s].stage # "start"
        /\ \A v \in Workers : v # w => mem'[v] = mem[v] /\ task'[v] = task[v]
    BY <1>0, <1>3 DEF PowerDown, Idle, TypeOK
  <2>2. QED BY <1>2, <2>1
<1>4. ASSUME NEW w \in Workers, PowerOn(w)
      PROVE  Launched'
  <2>1. /\ \A s \in Slots : task'[w][s].stage # "start"
        /\ \A v \in Workers : v # w => mem'[v] = mem[v] /\ task'[v] = task[v]
    BY <1>0, <1>4 DEF PowerOn, Asleep, TypeOK
  <2>2. QED BY <1>2, <2>1
<1>5. ASSUME NEW w \in Workers, Heartbeat(w)
      PROVE  Launched'
  <2>1. \A s \in Slots : task'[w][s].stage = task[w][s].stage /\ task'[w][s].img = task[w][s].img
    <3> TAKE s \in Slots
    <3>1. task[w][s] \in Task
      BY <1>0 DEF TypeOK
    <3>2. task'[w][s] = IF task[w][s].stage = "idle" THEN task[w][s]
                        ELSE [task[w][s] EXCEPT !.beats = @ + 1]
      BY <1>0, <1>5 DEF Heartbeat, TypeOK
    <3>3. QED BY <3>1, <3>2 DEF Task
  <2>2. mem' = mem /\ \A v \in Workers : v # w => task'[v] = task[v]
    BY <1>0, <1>5 DEF Heartbeat, slots, TypeOK
  <2>3. QED BY <2>1, <2>2 DEF Launched, Loaded, Kind
<1>6. ASSUME NEW w \in Workers, BootStartEnds(w)
      PROVE  Launched'
  <2> DEFINE s == boot[w].slot
  <2>1. PICK m \in Warmed(mem[w][s], boot[w].img) : SetMem(w, s, m)
    BY <1>6 DEF BootStartEnds
  <2>2. s \in Slots /\ boot[w].img \in Image /\ mem[w][s] \in Slot
    BY <1>0, <1>6 DEF BootStartEnds, TypeOK, Boot, Starting
  <2>3. m.meta = mem[w][s].meta /\ m.module = mem[w][s].module
    BY <2>2, WarmedType
  <2>4. mem' = [mem EXCEPT ![w][s] = m] /\ task' = task
    BY <1>6, <2>1 DEF BootStartEnds, SetMem
  <2>5. QED BY <1>0, <2>2, <2>3, <2>4, KeptTaskLaunched
<1>7. ASSUME NEW w \in Workers, NEW s \in Slots, SlotStep(w, s)
      PROVE  Launched'
  BY <1>7, SlotStepLaunched
<1>8. ASSUME NEW w \in Workers, WorkerStep(w)
      PROVE  UNCHANGED <<mem, task>> \/ PowerDown(w) \/ Heartbeat(w) \/ BootStartEnds(w)
  BY <1>8 DEF WorkerStep, Receive, ReceiveUpdate, BootStartFails, Register, slots, tasks
<1>9. ASSUME NEW w \in Workers, PowerStep(w)
      PROVE  PowerDown(w) \/ PowerOn(w)
  BY <1>9 DEF PowerStep, PowerOff, PowerOffInstalling
<1>10. CASE Outside \/ UNCHANGED vars
  BY <1>1, <1>10 DEF Outside, vars, slots, tasks
<1>11. QED BY <1>1, <1>3, <1>4, <1>5, <1>6, <1>7, <1>8, <1>9, <1>10 DEF OpenNext

LEMMA OpenOk == OpenSpec => []OkThenRunning
<1> DEFINE Inv == Typed /\ Mirrored /\ Asleep /\ Launched /\ OkThenRunning
<1>1. Init => Inv
  <2> SUFFICES ASSUME Init PROVE Inv
    OBVIOUS
  <2>1. Mirrored
    BY DEF Init, Mirrored, Whole, MemoryMirrorsDisk, EmptyDisk, EmptySlot
  <2>2. Asleep /\ Launched /\ OkThenRunning
    BY DEF Init, Asleep, Launched, Loaded, Idle, OkThenRunning
  <2>3. QED BY <2>1, <2>2, TypedInit
<1>2. Inv /\ [OpenNext]_vars => Inv'
  BY TypedStep, MirroredStep, AsleepStep, LaunchedStep, OkStep
<1>3. Inv => OkThenRunning
  OBVIOUS
<1>4. QED BY <1>1, <1>2, <1>3, PTL DEF OpenSpec

\* An ok reply to an assign is followed by a heartbeat that shows the workload
\* running, whatever the other tasks, the boot and power did while it started.
THEOREM OkMeansRunning == Spec => []OkThenRunning
BY OpenOk, GatewayIsAny, PTL
=============================================================================
