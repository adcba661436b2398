-------------------------------- MODULE Worker --------------------------------
(***************************************************************************)
(* The data plane, host/worker.lua: computers whose disks are slots.  Each *)
(* computer runs coroutines that interleave where they yield: the receiver,*)
(* one task per slot (assign, drain), the boot task that restarts what the *)
(* disks hold and then registers, and the heartbeat timer.  A start yields *)
(* while the engine compiles and instantiates, an assign also yields in    *)
(* http.get; everything between two yields is one action.                  *)
(*                                                                         *)
(* A workload is named by the assignment that describes it, its image: a   *)
(* handle is the image it was built from, and workload.wasm the image whose*)
(* bytes it holds.  Invocations are not part of this module.               *)
(***************************************************************************)
EXTENDS Integers, Sequences

CONSTANTS
  Names, Workers, Slots, Specs, None,
  KindOf,    \* spec -> "reactor", "command" or "session"
  MaxUp,     \* bound: no heartbeat is sent with this many messages in flight
  MaxBeats,  \* bound: heartbeats a worker sends during one fetch,
  MaxLoads   \* and during one start

ASSUME KindAssumption == KindOf \in [Specs -> {"reactor", "command", "session"}]
ASSUME NoneAssumption == None \notin Names \cup [name : Names, spec : Specs]
ASSUME BoundsAssumption == MaxUp \in Nat /\ MaxBeats \in Nat /\ MaxLoads \in Nat

VARIABLES
  power,   \* worker -> "off", "booting" (not yet registered) or "up"
  disk,    \* worker -> slot -> the files workload.wasm and crab-meta.json
  mem,     \* worker -> slot -> the fields of slots[slot]
  queue,   \* worker -> slot -> commands waiting for the slot's task
  task,    \* worker -> slot -> what the slot's task is in the middle of
  boot,    \* worker -> the slots the boot task has to visit, and its start
  wire,    \* worker -> commands on their way from the gateway
  uplink   \* worker -> messages on their way to the gateway

slots == <<disk, mem>>
tasks == <<queue, task, boot>>
vars  == <<power, slots, tasks, wire, uplink>>
-----------------------------------------------------------------------------
Image   == [name : Names, spec : Specs]
Files   == [wasm : Image \cup {None}, meta : Image \cup {None}]
Slot    == [meta : Image \cup {None}, w : Image \cup {None},
            module : Image \cup {None}, sessions : Image \cup {None}]
Command == [type : {"assign"}, slot : Slots, name : Names, spec : Specs]
             \cup [type : {"drain"}, slot : Slots] \cup [type : {"update"}]
SlotReport ==
  {r \in [Slots -> [workload : Names \cup {None},
                    state : {"none", "loading", "running"}]] :
     \A s \in Slots : r[s].workload = None <=> r[s].state = "none"}
Message == [type : {"heartbeat", "register"}, slots : SlotReport]
             \cup [type : {"assigned"}, name : Names, ok : BOOLEAN]
Task    == [stage : {"idle", "fetch", "start"}, img : Image \cup {None},
            beats : Nat]
Boot    == [left : SUBSET Slots, slot : Slots \cup {None}, img : Image \cup {None}]

TypeOK ==
  /\ power \in [Workers -> {"off", "booting", "up"}]
  /\ disk \in [Workers -> [Slots -> Files]]
  /\ mem \in [Workers -> [Slots -> Slot]]
  /\ queue \in [Workers -> [Slots -> Seq(Command)]]
  /\ task \in [Workers -> [Slots -> Task]]
  /\ boot \in [Workers -> Boot]
  /\ wire \in [Workers -> Seq(Command)]
  /\ uplink \in [Workers -> Seq(Message)]

EmptyDisk == [wasm |-> None, meta |-> None]
EmptySlot == [meta |-> None, w |-> None, module |-> None, sessions |-> None]
Idle      == [stage |-> "idle", img |-> None, beats |-> 0]
Booted    == [left |-> {}, slot |-> None, img |-> None]

\* Fresh computers with blank disks, about to boot.
Init ==
  /\ power = [w \in Workers |-> "booting"]
  /\ disk = [w \in Workers |-> [s \in Slots |-> EmptyDisk]]
  /\ mem = [w \in Workers |-> [s \in Slots |-> EmptySlot]]
  /\ queue = [w \in Workers |-> [s \in Slots |-> <<>>]]
  /\ task = [w \in Workers |-> [s \in Slots |-> Idle]]
  /\ boot = [w \in Workers |-> [Booted EXCEPT !.left = Slots]]
  /\ wire = [w \in Workers |-> <<>>]
  /\ uplink = [w \in Workers |-> <<>>]
-----------------------------------------------------------------------------
(* Helpers. *)

Kind(img) == KindOf[img.spec]

\* slot_list: a workload runs once it has a handle of any sort.
Live(m) == m.w # None \/ m.sessions # None
             \/ (Kind(m.meta) = "command" /\ m.module # None)
\* Mutant: an empty slot has a state too.
StateOfAny(m) == IF m.w # None \/ m.sessions # None THEN "running" ELSE "loading"
StateOf(m) == IF m.meta = None THEN "none" ELSE IF Live(m) THEN "running" ELSE "loading"
SlotList(ms) ==
  [s \in Slots |-> [workload |-> IF ms[s].meta = None THEN None ELSE ms[s].meta.name,
                    state |-> StateOf(ms[s])]]

Beat(ms) == [type |-> "heartbeat", slots |-> SlotList(ms)]
Send(w, msgs) == uplink' = [uplink EXCEPT ![w] = @ \o msgs]

SetMem(w, s, m)  == mem' = [mem EXCEPT ![w][s] = m]
SetDisk(w, s, d) == disk' = [disk EXCEPT ![w][s] = d]
SetTask(w, s, t) == task' = [task EXCEPT ![w][s] = t]


\* Mutant: the meta is kept in memory only.
InstalledUnsaved(img) == [wasm |-> img, meta |-> None]
Installed(img) == [wasm |-> img, meta |-> img]

\* start_slot up to its first yield: the module is loaded from the wasm file.
\* Only then may another task of the computer run.
Begun(m, img) == IF Kind(m.meta) = "session" THEN m ELSE [m EXCEPT !.module = img]

\* The handle that start_slot stores: a reactor is built from the module found in
\* the slot, or from img when another task took it away or it was read before.
Stored(kind, m, img) ==
  CASE kind = "reactor" -> {[m EXCEPT !.w = i] : i \in {img, m.module} \ {None}}
    [] kind = "session" -> {[m EXCEPT !.sessions = img]}
    [] kind = "command" -> {m}

\* start_slot after its yields, begun for img.  It reads the slot again: the
\* kind is that of img or of the workload the slot holds by now; with the workload
\* drained it may stop before or after it has stored its handle.
Warmed(m, img) ==
  (UNION {Stored(Kind(i), m, img) : i \in {img, m.meta} \ {None}})
    \cup (IF m.meta = None THEN {m} ELSE {})
-----------------------------------------------------------------------------
(* The receiver. *)

Receive(w) ==
  /\ power[w] # "off" /\ wire[w] # <<>>
  /\ LET c == Head(wire[w]) IN
       /\ c.type \in {"assign", "drain"}
       /\ queue' = [queue EXCEPT ![w][c.slot] = Append(@, c)]
  /\ wire' = [wire EXCEPT ![w] = Tail(@)]
  /\ UNCHANGED <<power, slots, task, boot, uplink>>

\* Everything in memory, on the wire to it and in its queues goes.
PowerDown(w) ==
  /\ power' = [power EXCEPT ![w] = "off"]
  /\ mem' = [mem EXCEPT ![w] = [s \in Slots |-> EmptySlot]]
  /\ queue' = [queue EXCEPT ![w] = [s \in Slots |-> <<>>]]
  /\ task' = [task EXCEPT ![w] = [s \in Slots |-> Idle]]
  /\ boot' = [boot EXCEPT ![w] = Booted]
  /\ wire' = [wire EXCEPT ![w] = <<>>]
  /\ UNCHANGED uplink

\* A rollout: the program is fetched again and the computer reboots, or the
\* fetch fails and nothing happens.
ReceiveUpdate(w) ==
  /\ power[w] # "off" /\ wire[w] # <<>> /\ Head(wire[w]).type = "update"
  /\ \/ PowerDown(w) /\ UNCHANGED disk
     \/ /\ wire' = [wire EXCEPT ![w] = Tail(@)]
        /\ UNCHANGED <<power, slots, tasks, uplink>>
-----------------------------------------------------------------------------
(* The task of a slot. *)

Ready(w, s, type) ==
  /\ power[w] # "off" /\ task[w][s].stage = "idle"
  /\ queue[w][s] # <<>> /\ Head(queue[w][s]).type = type

Pop(w, s) == queue' = [queue EXCEPT ![w][s] = Tail(@)]

\* assign, up to http.get.
AssignBegins(w, s) ==
  /\ Ready(w, s, "assign")
  /\ LET c == Head(queue[w][s]) IN
       SetTask(w, s, [stage |-> "fetch", img |-> [name |-> c.name, spec |-> c.spec],
                      beats |-> 0])
  /\ Pop(w, s)
  /\ UNCHANGED <<power, slots, boot, wire, uplink>>

\* The reply to an assign, and the heartbeat that follows it.
\* Mutant: the heartbeat was put together before the start.
EarlyReply(w, s, ok, m) ==
  Send(w, <<[type |-> "assigned", name |-> task[w][s].img.name, ok |-> ok],
            Beat(mem[w])>>)
Reply(w, s, ok, m) ==
  Send(w, <<[type |-> "assigned", name |-> task[w][s].img.name, ok |-> ok],
            Beat([mem[w] EXCEPT ![s] = m])>>)

FetchFails(w, s) ==
  /\ task[w][s].stage = "fetch"
  /\ SetTask(w, s, Idle)
  /\ Reply(w, s, FALSE, mem[w][s])
  /\ UNCHANGED <<power, slots, queue, boot, wire>>

\* Both files are written, the old reactor and module are let go (a session is
\* not), and start_slot begins.
FetchArrives(w, s) ==
  LET img == task[w][s].img IN
  /\ task[w][s].stage = "fetch"
  /\ SetDisk(w, s, Installed(img))
  /\ SetMem(w, s, Begun([mem[w][s] EXCEPT !.meta = img, !.w = None, !.module = None], img))
  /\ SetTask(w, s, [stage |-> "start", img |-> img, beats |-> 0])
  /\ UNCHANGED <<power, queue, boot, wire, uplink>>

StartEnds(w, s) ==
  /\ task[w][s].stage = "start"
  /\ \E m \in Warmed(mem[w][s], task[w][s].img) :
       SetMem(w, s, m) /\ Reply(w, s, TRUE, m)
  /\ SetTask(w, s, Idle)
  /\ UNCHANGED <<power, disk, queue, boot, wire>>

StartFails(w, s) ==
  /\ task[w][s].stage = "start"
  /\ SetMem(w, s, EmptySlot)
  /\ SetDisk(w, s, EmptyDisk)
  /\ Reply(w, s, FALSE, EmptySlot)
  /\ SetTask(w, s, Idle)
  /\ UNCHANGED <<power, queue, boot, wire>>

Drain(w, s) ==
  /\ Ready(w, s, "drain")
  /\ SetMem(w, s, EmptySlot)
  /\ SetDisk(w, s, EmptyDisk)
  /\ Send(w, <<Beat([mem[w] EXCEPT ![s] = EmptySlot])>>)
  /\ Pop(w, s)
  /\ UNCHANGED <<power, task, boot, wire>>
-----------------------------------------------------------------------------
(* The boot task. *)

BootVisits(w, s) ==
  LET m == mem[w][s] IN
  /\ power[w] = "booting" /\ boot[w].slot = None /\ s \in boot[w].left
  /\ IF m.meta # None /\ disk[w][s].wasm # None
     THEN /\ SetMem(w, s, Begun(m, disk[w][s].wasm))
          /\ boot' = [boot EXCEPT ![w] = [left |-> @.left \ {s}, slot |-> s,
                                          img |-> disk[w][s].wasm]]
     ELSE /\ SetMem(w, s, [m EXCEPT !.meta = None])
          /\ boot' = [boot EXCEPT ![w].left = @ \ {s}]
  /\ UNCHANGED <<power, disk, queue, task, wire, uplink>>

BootLeaves(w) == boot' = [boot EXCEPT ![w] = [@ EXCEPT !.slot = None, !.img = None]]

BootStartEnds(w) ==
  LET s == boot[w].slot IN
  /\ s # None
  /\ \E m \in Warmed(mem[w][s], boot[w].img) : SetMem(w, s, m)
  /\ BootLeaves(w)
  /\ UNCHANGED <<power, disk, queue, task, wire, uplink>>

\* The error is printed and the slot keeps its meta without a handle.
BootStartFails(w) ==
  /\ boot[w].slot # None
  /\ BootLeaves(w)
  /\ UNCHANGED <<power, slots, queue, task, wire, uplink>>

Register(w) ==
  /\ power[w] = "booting" /\ boot[w].left = {} /\ boot[w].slot = None
  /\ power' = [power EXCEPT ![w] = "up"]
  /\ Send(w, <<[type |-> "register", slots |-> SlotList(mem[w])]>>)
  /\ UNCHANGED <<slots, tasks, wire>>
-----------------------------------------------------------------------------
(* The heartbeat timer, which runs from the start, and power. *)

BeatsIn(stage) == CASE stage = "idle" -> 1 [] stage = "fetch" -> MaxBeats
                    [] stage = "start" -> MaxLoads

Heartbeat(w) ==
  /\ power[w] # "off"
  /\ Len(uplink[w]) < MaxUp
  /\ \A s \in Slots : task[w][s].beats < BeatsIn(task[w][s].stage)
  /\ task' = [task EXCEPT ![w] = [s \in Slots |->
                IF task[w][s].stage = "idle" THEN task[w][s]
                ELSE [task[w][s] EXCEPT !.beats = @ + 1]]]
  /\ Send(w, <<Beat(mem[w])>>)
  /\ UNCHANGED <<power, slots, queue, boot, wire>>

PowerOff(w) == power[w] # "off" /\ PowerDown(w) /\ UNCHANGED disk

\* Power goes between the two writes of an assign.
PowerOffInstalling(w, s) ==
  /\ task[w][s].stage = "fetch"
  /\ PowerDown(w)
  /\ disk' = [disk EXCEPT ![w][s].wasm = task[w][s].img]

\* What was sent to the computer while it was off is lost.
PowerOn(w) ==
  /\ power[w] = "off"
  /\ power' = [power EXCEPT ![w] = "booting"]
  /\ mem' = [mem EXCEPT ![w] = [s \in Slots |-> [EmptySlot EXCEPT !.meta = disk[w][s].meta]]]
  /\ boot' = [boot EXCEPT ![w] = [Booted EXCEPT !.left = Slots]]
  /\ wire' = [wire EXCEPT ![w] = <<>>]
  /\ UNCHANGED <<disk, queue, task, uplink>>
-----------------------------------------------------------------------------
(* The open worker: the gateway may send it any command. *)

SlotStep(w, s) ==
  \/ AssignBegins(w, s) \/ FetchArrives(w, s) \/ FetchFails(w, s)
  \/ StartEnds(w, s) \/ StartFails(w, s) \/ Drain(w, s)
  \/ BootVisits(w, s)

WorkerStep(w) ==
  \/ Receive(w) \/ ReceiveUpdate(w) \/ Heartbeat(w)
  \/ BootStartEnds(w) \/ BootStartFails(w) \/ Register(w)

PowerStep(w) ==
  \/ PowerOff(w) \/ PowerOn(w)
  \/ \E s \in Slots : PowerOffInstalling(w, s)

GatewaySends(w) ==
  /\ wire[w] = <<>> /\ \A s \in Slots : queue[w][s] = <<>>
  /\ \E c \in Command : wire' = [wire EXCEPT ![w] = <<c>>]
  /\ UNCHANGED <<power, slots, tasks, uplink>>

GatewayTakes(w) ==
  /\ uplink[w] # <<>> /\ uplink' = [uplink EXCEPT ![w] = Tail(@)]
  /\ UNCHANGED <<power, slots, tasks, wire>>

\* The bound on the uplink, for the steps that report.
Room(w) == Len(uplink[w]) <= MaxUp

Next ==
  \E w \in Workers :
    \/ Room(w) /\ (WorkerStep(w) \/ \E s \in Slots : SlotStep(w, s))
    \/ PowerStep(w) \/ GatewaySends(w) \/ GatewayTakes(w)

Spec == Init /\ [][Next]_vars
-----------------------------------------------------------------------------
(* Properties. *)

\* What a running computer holds and advertises is what its disks say, so that
\* a restart brings back what was assigned and nothing that was drained or that
\* failed: assign and drain keep memory and disk in step across their yields,
\* their failures and a power loss between two writes.
MemoryMirrorsDisk ==
  \A w \in Workers, s \in Slots : power[w] # "off" => mem[w][s].meta = disk[w][s].meta

\* An ok reply to an assign is followed by a heartbeat that shows the workload
\* running: the gateway, which confirms by the reply, is not told otherwise by
\* the next message, and never hears of a start that a later one undid.
OkThenRunning ==
  \A w \in Workers : \A k \in DOMAIN uplink[w] :
    uplink[w][k].type = "assigned" /\ uplink[w][k].ok =>
      /\ k < Len(uplink[w]) /\ uplink[w][k + 1].type = "heartbeat"
      /\ \E s \in Slots : uplink[w][k + 1].slots[s] =
                             [workload |-> uplink[w][k].name, state |-> "running"]

\* A slot serves the workload it names: the handle an invocation would reach was
\* built from the assignment the slot holds.
Serving(m) == CASE Kind(m.meta) = "reactor" -> m.w
                [] Kind(m.meta) = "session" -> m.sessions
                [] Kind(m.meta) = "command" -> m.module

ServesItsName ==
  \A w \in Workers, s \in Slots :
    mem[w][s].meta # None => Serving(mem[w][s]) \in {None, mem[w][s].meta}
=============================================================================
