------------------------------- MODULE Cluster -------------------------------
(***************************************************************************)
(* The orchestration loop: the gateway of Gateway and the computers of     *)
(* Worker, joined by rednet, which keeps the order of the messages between *)
(* two computers.  What an operator asks for and what goes wrong is        *)
(* budgeted, so that it stops at last; the program's own steps are not.    *)
(* Invocations, and the gateway's own update, are not part of this module. *)
(***************************************************************************)
EXTENDS Integers, Sequences, FiniteSets, Functions

CONSTANTS
  Names, Workers, Slots, Specs, None, KindOf, MaxWire, MaxUp, MaxBeats, MaxLoads,
  Timely,       \* whether rednet is fast against timers, fetches and starts, see Slow
  Initial,      \* the registry file the gateway finds
  Faults,       \* what may go wrong, of FaultKinds
  MaxQueue,     \* bound: a command is delivered while each queue is shorter
  MaxFaults,    \* bound: how many faults
  MaxRequests   \* bound: how many requests of an operator

FaultKinds == {"crash", "torn write", "gateway reboot", "torn save", "loss",
               "fetch", "start", "restart", "silence"}

ASSUME FaultsAssumption == Faults \subseteq FaultKinds
ASSUME TimelyAssumption == Timely \in BOOLEAN
ASSUME BudgetAssumption == MaxQueue \in Nat \ {0} /\ MaxFaults \in Nat /\ MaxRequests \in Nat

\* What Gateway and Worker assume of their constants.
ASSUME KindAssumption == KindOf \in [Specs -> {"reactor", "command", "session"}]
ASSUME FiniteAssumption == IsFiniteSet(Names) /\ IsFiniteSet(Slots)
ASSUME BoundsAssumption == MaxWire \in Nat /\ MaxUp \in Nat /\ MaxBeats \in Nat /\ MaxLoads \in Nat

VARIABLES
  registry, regfile, known, fresh, view, vstate, placements, cooldown,  \* gateway
  power, disk, mem, queue, task, boot,                                  \* workers
  wire, uplink,                                                         \* rednet
  faults, requests                                                      \* budgets left

G == INSTANCE Gateway WITH Ids <- {}, Calls <- {}, inflight <- <<>>,
                           replies <- <<>>, mode <- "serving"
W == INSTANCE Worker

ASSUME NoneAssumption ==
  None \notin Names \cup Specs \cup Workers \cup (Workers \X Slots) \cup G!Placement \cup W!Image

gateway == <<registry, regfile, known, fresh, view, vstate, placements, cooldown>>
workers == <<power, disk, mem, queue, task, boot>>
budgets == <<faults, requests>>
vars    == <<gateway, workers, wire, uplink, budgets>>

Init ==
  /\ G!Init /\ registry = Initial
  /\ W!Init
  /\ faults = MaxFaults /\ requests = MaxRequests
-----------------------------------------------------------------------------
(* The gateway's steps. *)

GatewayHears(w) ==
  /\ uplink[w] # <<>>
  /\ uplink' = [uplink EXCEPT ![w] = Tail(@)]
  /\ UNCHANGED <<workers, budgets>>
  /\ LET m == Head(uplink[w]) IN
       \/ m.type = "heartbeat" /\ G!HandleHeartbeat(w, m.slots)
       \/ m.type = "register" /\ G!HandleRegister(w, m.slots)
       \/ m.type = "assigned" /\ m.ok /\ G!HandleAssignOk(w, m.name)
       \/ m.type = "assigned" /\ ~m.ok /\ G!HandleAssignFailed(w, m.name)

Tick == UNCHANGED <<workers, uplink, budgets>> /\ G!ReconcileTick

CooldownEnds(n, w) == G!CooldownEnds(n, w) /\ UNCHANGED <<workers, uplink, budgets>>

\* A live worker is heard of every 5 s; one that is off goes stale.
WorkerLost(w) ==
  power[w] = "off" /\ G!WorkerSilent(w) /\ UNCHANGED <<workers, uplink, budgets>>

Request(A) ==
  /\ requests > 0 /\ requests' = requests - 1
  /\ A
  /\ UNCHANGED <<workers, uplink, faults>>

Operator ==
  \/ \E n \in Names, sp \in Specs : Request(G!HandleDeploy(n, sp, registry[n] # None))
  \/ \E n \in Names : registry[n] # None /\ Request(G!HandleRemove(n))
  \/ Request(G!HandlePurge)
  \/ Request(G!HandleUpdateWorkers)
-----------------------------------------------------------------------------
(* The workers' steps. *)

Of(A) == UNCHANGED <<gateway, budgets>> /\ A

\* If Timely, what takes seconds ends on a worker only while its links are idle:
\* no message in flight and no command waiting for an idle task.
LinksIdle(w) ==
  /\ wire[w] = <<>> /\ uplink[w] = <<>>
  /\ \A s \in Slots : task[w][s].stage = "idle" => queue[w][s] = <<>>

Slow(w, A) == (Timely => LinksIdle(w)) /\ Of(A)

Heartbeat(w)    == Slow(w, W!Heartbeat(w))
Receive(w)      == (\A s \in Slots : Len(queue[w][s]) < MaxQueue) /\ Of(W!Receive(w))
Update(w)       == Of(W!ReceiveUpdate(w))
Fetch(w, s)     == Of(W!AssignBegins(w, s))
Drain(w, s)     == Of(W!Drain(w, s))
PowerOn(w)      == Of(W!PowerOn(w))
Register(w)     == Slow(w, W!Register(w))
BootStart(w, s) == Slow(w, W!BootVisits(w, s))
BootEnd(w)      == Slow(w, W!BootStartEnds(w))
Install(w, s)   == Slow(w, W!FetchArrives(w, s))
Start(w, s)     == Slow(w, W!StartEnds(w, s))
-----------------------------------------------------------------------------
(* What may go wrong. *)

Fault(kind, A) == kind \in Faults /\ faults > 0 /\ faults' = faults - 1
                    /\ A /\ UNCHANGED requests

WorkerFault(kind, A) == Fault(kind, A /\ UNCHANGED gateway)

LoseCommand(w) ==
  wire[w] # <<>> /\ wire' = [wire EXCEPT ![w] = Tail(@)] /\ UNCHANGED <<workers, uplink>>
LoseMessage(w) ==
  uplink[w] # <<>> /\ uplink' = [uplink EXCEPT ![w] = Tail(@)] /\ UNCHANGED <<workers, wire>>

Fail ==
  \/ \E w \in Workers :
       \/ WorkerFault("crash", W!PowerOff(w))
       \/ WorkerFault("loss", LoseCommand(w) \/ LoseMessage(w))
       \/ WorkerFault("restart", W!BootStartFails(w))
       \/ Fault("silence", G!WorkerSilent(w) /\ UNCHANGED <<workers, uplink>>)
       \/ \E s \in Slots :
            \/ WorkerFault("torn write", W!PowerOffInstalling(w, s))
            \/ WorkerFault("fetch", W!FetchFails(w, s))
            \/ WorkerFault("start", W!StartFails(w, s))
  \/ Fault("gateway reboot", G!Reboot /\ UNCHANGED <<workers, uplink>>)
  \/ Fault("torn save", G!CrashInSave /\ UNCHANGED <<workers, uplink>>)
-----------------------------------------------------------------------------
Next ==
  \/ Tick
  \/ \E w \in Workers :
       \/ GatewayHears(w) \/ WorkerLost(w)
       \/ Receive(w) \/ Update(w) \/ Heartbeat(w) \/ Register(w) \/ PowerOn(w)
       \/ BootEnd(w)
       \/ \E s \in Slots : BootStart(w, s) \/ Fetch(w, s) \/ Install(w, s)
                             \/ Start(w, s) \/ Drain(w, s)
       \/ \E n \in Names : CooldownEnds(n, w)
  \/ Operator
  \/ Fail

Spec == Init /\ [][Next]_vars

\* The program's own steps are fair: the timers fire, coroutines are resumed,
\* http.get and the engine return, messages that are not lost arrive, and a
\* computer that is off is started again.
Work(w) ==
  Register(w) \/ BootEnd(w) \/ \E s \in Slots : BootStart(w, s) \/ Install(w, s) \/ Start(w, s)

Fairness ==
  /\ WF_vars(Tick)
  /\ \A w \in Workers :
       /\ WF_vars(GatewayHears(w)) /\ WF_vars(Receive(w)) /\ WF_vars(Update(w))
       /\ WF_vars(Heartbeat(w)) /\ WF_vars(PowerOn(w)) /\ SF_vars(Work(w))
       /\ \A s \in Slots : WF_vars(Fetch(w, s)) /\ WF_vars(Drain(w, s))
       /\ \A n \in Names : WF_vars(CooldownEnds(n, w))

FairSpec == Spec /\ Fairness
-----------------------------------------------------------------------------
(* Properties. *)

\* The gateway and the workers only ever say to each other what the other's
\* handlers expect.
TypeOK == G!TypeOK /\ W!TypeOK

RunsAt(n, w, s) ==
  LET m == mem[w][s] IN m.meta # None /\ m.meta.name = n /\ W!Live(m)

\* Every registered workload runs in the one slot where it is placed, and no
\* slot holds anything else.
Converged ==
  /\ \A w \in Workers, s \in Slots :
       mem[w][s].meta # None => G!At(placements[mem[w][s].meta.name], w, s)
  /\ \A n \in Names : registry[n] # None =>
       placements[n] # None /\ RunsAt(n, placements[n].worker, placements[n].slot)

\* When requests and faults stop, the cluster converges and stays so.
Convergence == <>[]Converged

\* A cluster at rest: it has converged, the gateway's view is true, and nothing
\* is in flight but heartbeats that say so.
AtRest ==
  /\ Converged
  /\ fresh = Workers
  /\ \A n \in Names : placements[n] # None =>
       placements[n].state = "running" /\ placements[n].hbm = 0
  /\ \A w \in Workers :
       LET truth == W!SlotList(mem[w]) IN
       /\ power[w] = "up" /\ wire[w] = <<>>
       /\ \A s \in Slots : /\ task[w][s].stage = "idle" /\ queue[w][s] = <<>>
                            /\ view[w][s] = truth[s].workload
       /\ \A k \in DOMAIN uplink[w] : uplink[w][k] = W!Beat(mem[w])

\* Left alone, a cluster at rest stays there: no tick, heartbeat or cooldown
\* moves, drains or restarts anything, whatever requests and faults, in whatever
\* order, led to it.
StaysAtRest == [][AtRest /\ UNCHANGED budgets => AtRest']_vars

ServesItsName == W!ServesItsName

\* A restart that failed is repaired: a slot never stays "loading" with nothing
\* loading it.
Phantom(w, s) ==
  /\ mem[w][s].meta # None /\ ~W!Live(mem[w][s])
  /\ power[w] = "up" /\ task[w][s].stage = "idle" /\ queue[w][s] = <<>>

PhantomsGo == \A w \in Workers, s \in Slots : Phantom(w, s) ~> ~Phantom(w, s)

\* n is at home in that slot: held there, being installed, or its assignment is
\* on the way.
AtHome(n, w, s) ==
  \/ mem[w][s].meta # None /\ mem[w][s].meta.name = n
  \/ task[w][s].img # None /\ task[w][s].img.name = n
  \/ \E c \in Range(queue[w][s]) \cup Range(wire[w]) :
       c.type = "assign" /\ c.slot = s /\ c.name = n

\* The garbage collection of a tick drains no slot where a workload that stays
\* placed there is at home.
GarbageOnly ==
  [][\A n \in Names, w \in Workers, s \in Slots :
       Tick /\ G!At(placements[n], w, s) /\ G!At(placements'[n], w, s) /\ AtHome(n, w, s) =>
         \A k \in DOMAIN wire'[w] :
           k > Len(wire[w]) => wire'[w][k] # G!DrainOf(s)]_vars
=============================================================================
