-------------------------------- MODULE Calls --------------------------------
(***************************************************************************)
(* Invocations, from a client or a guest through the gateway to a workload  *)
(* and back: the relay of Gateway, one worker with reactors, whose guests   *)
(* call one another through the mesh, and the slot of a session workload    *)
(* (Sessions).  The placements are the gateway's; an operator removes and   *)
(* deploys the session workload again, and messages may be lost.            *)
(***************************************************************************)
EXTENDS Integers, Sequences, FiniteSets

CONSTANTS
  Reactors,     \* workloads whose guests use the mesh
  Pool,         \* the session workload
  Names, Main,  \* sessions, and the one booted first
  Tasks, None,
  Clients,      \* requests of clients
  Targets,      \* bound: which workloads they are for
  MeshIds,      \* bound: the ids that mesh_seq numbers, in order
  Uses,         \* workload -> those its guest may call
  Spec1,        \* what is deployed
  Faults,       \* what may go wrong: "link", "reply", "assignment", "gateway"
  MaxTroubles,  \* bound: faults, cancellations and operator's requests together
  MaxWire

Mesh == {MeshIds[k] : k \in DOMAIN MeshIds}
Ids  == Clients \cup Mesh
Workloads == Reactors \cup {Pool}
Payloads == [session : Names, call : {"run", "reset"}]
Worker == "worker"

ASSUME UsesAssumption == Uses \in [Reactors -> SUBSET Workloads] /\ Pool \notin Reactors
ASSUME BudgetAssumption == {MaxTroubles, MaxWire} \subseteq Nat
ASSUME MainAssumption == Main \in Names
ASSUME TargetsAssumption == Targets \subseteq [Clients -> Workloads]
ASSUME MeshIdsAssumption ==
  /\ MeshIds \in Seq(Mesh) /\ Clients \cap Mesh = {}
  /\ \A j, k \in DOMAIN MeshIds : MeshIds[j] = MeshIds[k] => j = k
ASSUME FiniteAssumption == IsFiniteSet(Reactors)

VARIABLES
  registry, regfile, known, fresh, view, vstate, placements, cooldown,  \* gateway
  inflight, replies, wire,
  queue, stage, held, booted, sessq, task,                              \* session slot
  sent,                                                                 \* worker to gateway
  jobs,          \* reactor -> s.queue of its slot
  run,           \* reactor -> the invocation its slot's task is in, or None
  mesh_seq,      \* mesh ids given out
  mesh_replies,  \* ids whose reply has arrived and nobody has taken
  target,        \* client's request -> its workload
  asked,         \* client's request -> "unsent", "waiting" or "told"
  faults,        \* what has gone wrong
  troubles       \* how much trouble is left

G == INSTANCE Gateway WITH Names <- Workloads, Workers <- {Worker}, Slots <- Workloads,
                           Specs <- {Spec1}, Calls <- Payloads, mode <- "serving"
S == INSTANCE Sessions

ASSUME NoneAssumption ==
  None \notin UNION {Workloads, {Spec1}, {Worker}, {Worker} \X Workloads, G!Placement,
                     Names, Ids}

relay    == <<inflight, replies>>
plan     == <<registry, regfile, known, fresh, view, vstate, placements, cooldown>>
pool     == <<queue, stage, held, booted, sessq, task>>
reactors == <<jobs, run, mesh_seq, mesh_replies>>
budgets  == <<faults, troubles>>
gateway  == <<plan, relay, wire>>
worker   == <<pool, sent, reactors>>
clients  == <<target, asked>>
vars     == <<gateway, worker, clients, budgets>>

\* Every workload runs in the slot of its name, and the gateway knows.
Report == [s \in Workloads |->
  IF s = Pool THEN [workload |-> IF held THEN s ELSE None,
                    state |-> IF ~held THEN "none" ELSE IF booted = None THEN "loading" ELSE "running"]
  ELSE [workload |-> s, state |-> "running"]]

Init ==
  /\ registry = [n \in Workloads |-> Spec1] /\ regfile = registry
  /\ known = {Worker} /\ fresh = {Worker} /\ cooldown = {}
  /\ view = [w \in {Worker} |-> [s \in Workloads |-> s]]
  /\ vstate = [w \in {Worker} |-> [s \in Workloads |-> "running"]]
  /\ placements = [n \in Workloads |->
       [worker |-> Worker, slot |-> n, state |-> "running", hbm |-> 0]]
  /\ inflight = [i \in Ids |-> "none"] /\ replies = [i \in Ids |-> <<>>]
  /\ wire = [w \in {Worker} |-> <<>>]
  /\ S!Init
  /\ jobs = [n \in Reactors |-> <<>>] /\ run = [n \in Reactors |-> None]
  /\ mesh_seq = 0 /\ mesh_replies = {}
  /\ target \in Targets /\ asked = [c \in Clients |-> "unsent"]
  /\ faults = {} /\ troubles = MaxTroubles
-----------------------------------------------------------------------------
(* Clients and the operator. *)

Trouble == troubles > 0 /\ troubles' = troubles - 1

Request(c, call) ==
  /\ asked[c] = "unsent" /\ asked' = [asked EXCEPT ![c] = "waiting"]
  /\ target[c] # Pool => call = [session |-> Main, call |-> "run"]
  /\ G!HandleInvoke(c, target[c], call)
  /\ UNCHANGED <<worker, target, budgets>>

Hears(c) ==
  /\ G!TakeReply(c)
  /\ asked' = [asked EXCEPT ![c] = "told"]
  /\ UNCHANGED <<worker, target, budgets>>

\* bound: the operator and the dashboard meddle when a client uses the sessions.
PoolUsed == \E c \in Clients : target[c] = Pool

\* bound: only the session workload is removed and deployed again.
Operator ==
  /\ PoolUsed /\ Trouble
  /\ IF registry[Pool] = None THEN G!HandleDeploy(Pool, Spec1, FALSE) ELSE G!HandleRemove(Pool)
  /\ UNCHANGED <<worker, clients, faults>>
-----------------------------------------------------------------------------
(* The gateway. *)

Uplink(m) == sent # <<>> /\ Head(sent).type = m /\ sent' = Tail(sent)

GatewayHears ==
  /\ \/ /\ Uplink("invoke-reply")
        /\ LET m == Head(sent) IN
           IF inflight[m.id] = "none" THEN UNCHANGED gateway
           ELSE G!HandleInvokeReply(m.id, m.answer)
     \/ Uplink("invoke") /\ G!HandleInvoke(Head(sent).id, Head(sent).name,
                                           [session |-> Main, call |-> "run"])
     \/ Uplink("assigned") /\ Head(sent).ok /\ G!HandleAssignOk(Worker, Pool)
     \/ Uplink("assigned") /\ ~Head(sent).ok /\ G!HandleAssignFailed(Worker, Pool)
     \/ Uplink("heartbeat") /\ G!HandleHeartbeat(Worker, Head(sent).slots)
  /\ UNCHANGED <<pool, reactors, clients, budgets>>

Tick == UNCHANGED <<worker, clients, budgets>> /\ G!ReconcileTick

\* 120 s in the gateway: longer than the 60 s of a mesh call.
Overdue(id) ==
  /\ \A n \in Reactors : run[n] # None /\ run[n].mesh = id => run[n].late
  /\ G!InvokeOverdue(id)
  /\ UNCHANGED <<worker, clients, budgets>>
-----------------------------------------------------------------------------
(* The worker's receiver. *)

Command(m) ==
  IF m.type = "invoke" THEN [type |-> "invoke", id |-> m.id, session |-> m.call.session,
                             call |-> m.call.call]
  ELSE [type |-> m.type]

Receive ==
  /\ wire[Worker] # <<>>
  /\ wire' = [wire EXCEPT ![Worker] = Tail(@)]
  /\ LET m == Head(wire[Worker])
         n == IF m.type = "invoke" THEN m.name ELSE m.slot
     IN IF n = Pool THEN S!Receive(Command(m)) /\ UNCHANGED reactors
        ELSE /\ jobs' = [jobs EXCEPT ![n] = Append(@, m.id)]
             /\ UNCHANGED <<pool, sent, run, mesh_seq, mesh_replies>>
  /\ UNCHANGED <<plan, relay, clients, budgets>>

Asking(n) == run[n] # None /\ run[n].mesh # None

\* Mutant: a reply wakes nobody.
NotWoken == run
Woken == [n \in Reactors |-> IF Asking(n) THEN [run[n] EXCEPT !.woken = TRUE] ELSE run[n]]

\* The reply is kept, and whoever waits for one is woken.
HearsMesh(id) ==
  /\ G!TakeReply(id)
  /\ mesh_replies' = mesh_replies \cup {id}
  /\ run' = Woken
  /\ UNCHANGED <<pool, sent, jobs, mesh_seq, clients, budgets>>

\* The dashboard cancels a session.
Cancel(nm) ==
  /\ PoolUsed /\ Trouble
  /\ S!Cancel(nm)
  /\ UNCHANGED <<gateway, reactors, clients, faults>>

\* bound: a heartbeat is sent to a gateway that has forgotten the worker.
Heartbeat ==
  /\ known = {} /\ \A k \in DOMAIN sent : sent[k].type # "heartbeat"
  /\ S!Send(<<[type |-> "heartbeat", slots |-> Report]>>)
  /\ UNCHANGED <<gateway, pool, reactors, clients, budgets>>
-----------------------------------------------------------------------------
(* The task of a reactor's slot. *)

Local == UNCHANGED <<gateway, pool, clients, budgets>>

Start(n) ==
  /\ run[n] = None /\ jobs[n] # <<>>
  /\ jobs' = [jobs EXCEPT ![n] = Tail(@)]
  /\ run' = [run EXCEPT ![n] = [id |-> Head(jobs[n]), mesh |-> None, called |-> FALSE,
                                late |-> FALSE, woken |-> FALSE]]
  /\ UNCHANGED <<sent, mesh_seq, mesh_replies>> /\ Local

\* bound: a guest calls once in an invocation, while there are ids.
MeshCall(n) ==
  /\ run[n] # None /\ ~run[n].called /\ mesh_seq < Len(MeshIds)
  /\ mesh_seq' = mesh_seq + 1
  /\ LET id == MeshIds[mesh_seq']
     IN /\ run' = [run EXCEPT ![n].mesh = id, ![n].called = TRUE]
        /\ \E m \in Uses[n] : S!Send(<<[type |-> "invoke", id |-> id, name |-> m]>>)
  /\ UNCHANGED <<jobs, mesh_replies>> /\ Local

\* 60 s: nothing happens before the next reply to any mesh call wakes the task.
Deadline(n) ==
  /\ Asking(n) /\ ~run[n].late
  /\ run' = [run EXCEPT ![n].late = TRUE]
  /\ UNCHANGED <<sent, jobs, mesh_seq, mesh_replies>> /\ Local

\* The deadline comes first; a reply is then left where it is.
Wake(n) ==
  /\ Asking(n) /\ run[n].woken
  /\ LET here == ~run[n].late /\ run[n].mesh \in mesh_replies
     IN /\ run' = [run EXCEPT ![n].mesh = IF here \/ run[n].late THEN None ELSE @,
                              ![n].woken = FALSE]
        /\ mesh_replies' = IF here THEN mesh_replies \ {run[n].mesh} ELSE mesh_replies
  /\ UNCHANGED <<sent, jobs, mesh_seq>> /\ Local

Finish(n) ==
  /\ run[n] # None /\ ~Asking(n)
  /\ S!Send(<<S!Reply(run[n].id, "ok")>>)
  /\ run' = [run EXCEPT ![n] = None]
  /\ UNCHANGED <<jobs, mesh_seq, mesh_replies>> /\ Local
-----------------------------------------------------------------------------
(* The session slot. *)

Slot(A) == UNCHANGED <<gateway, reactors, clients, budgets>> /\ A

SlotTask == \/ Slot(S!Drain) \/ Slot(S!AssignBegins) \/ Slot(S!FetchArrives)
            \/ Slot(S!StartEnds) \/ \E nm \in Names : Slot(S!Route(nm))
Session(t) == Slot(S!Step(t))
SessionBootFails(t) == Slot(S!BootFails(t))
-----------------------------------------------------------------------------
(* What may go wrong. *)

\* bound: one fault.
Fault(kind) == kind \in Faults /\ faults = {} /\ faults' = {kind} /\ Trouble /\ UNCHANGED clients

\* Between the gateway and the worker, either way.
LinkLoses ==
  /\ Fault("link")
  /\ \/ /\ wire[Worker] # <<>> /\ wire' = [wire EXCEPT ![Worker] = Tail(@)]
        /\ UNCHANGED <<plan, relay, worker>>
     \/ sent # <<>> /\ sent' = Tail(sent) /\ UNCHANGED <<gateway, pool, reactors>>

ReplyLost == Fault("reply") /\ (\E id \in Ids : G!TakeReply(id)) /\ UNCHANGED worker

\* The fetch, or the start of what it brought.
AssignmentFails ==
  Fault("assignment") /\ (S!FetchFails \/ S!StartFails) /\ UNCHANGED <<gateway, reactors>>

\* bound: the gateway restarts while it relays a mesh call or every client's request.
Rebooted ==
  /\ (\E id \in Mesh : inflight[id] # "none") \/ (\A c \in Clients : inflight[c] # "none")
  /\ Fault("gateway") /\ G!Reboot /\ UNCHANGED worker
-----------------------------------------------------------------------------
\* Messages that are not lost arrive, time passes, the gateway ticks, coroutines
\* are resumed, and guests and interpreters end.
System ==
  \/ GatewayHears \/ Receive \/ Heartbeat \/ SlotTask
  \/ \E id \in Ids : Overdue(id)
  \/ \E id \in Mesh : HearsMesh(id)
  \/ \E c \in Clients : Hears(c)
  \/ \E n \in Reactors : Start(n) \/ MeshCall(n) \/ Deadline(n) \/ Wake(n) \/ Finish(n)
  \/ \E t \in Tasks : Session(t) \/ SessionBootFails(t)
  \/ Tick

Next ==
  \/ System
  \/ \E c \in Clients, call \in Payloads : Request(c, call)
  \/ Operator \/ \E nm \in Names : Cancel(nm)
  \/ LinkLoses \/ ReplyLost \/ AssignmentFails \/ Rebooted

Spec == Init /\ [][Next]_vars

\* While some of it can happen, some of it does: no more is needed, for a request
\* takes finitely many steps.
FairSpec == Spec /\ WF_vars(System)
-----------------------------------------------------------------------------
(* Properties. *)

Maybe(X)  == X \cup {None}
Job       == [type : {"invoke"}, id : Ids, session : Names, call : {"run", "reset"}]
Queue     == [jobs : Seq(Job), current : {<<>>} \cup {<<job>> : job \in Job}]
Coroutine == [session : Names, doing : {"waiting", "booting", "running"},
              job : Maybe(Ids), own : BOOLEAN]
Invocation == [id : Ids, mesh : Maybe(Mesh), called : BOOLEAN, late : BOOLEAN, woken : BOOLEAN]

ASSUME RecordsAssumption == None \notin Queue \cup Coroutine \cup Invocation \cup [Names -> BOOLEAN]

\* The state of the relay, the slots and the clients has its shape.
TypeOK ==
  /\ queue \in Seq(Job \cup [type : {"assign", "drain"}])
  /\ stage \in {"idle", "fetching", "starting"} /\ held \in BOOLEAN
  /\ booted \in Maybe([Names -> BOOLEAN])
  /\ sessq \in [Names -> Maybe(Queue)]
  /\ task \in [Tasks -> Maybe(Coroutine)]
  /\ jobs \in [Reactors -> Seq(Ids)] /\ run \in [Reactors -> Maybe(Invocation)]
  /\ mesh_seq \in 0..Len(MeshIds) /\ mesh_replies \subseteq Mesh
  /\ inflight \in [Ids -> {"none", "waiting", "overdue"}]
  /\ asked \in [Clients -> {"unsent", "waiting", "told"}]
  /\ faults \subseteq Faults

About(id, msgs) == Cardinality({k \in DOMAIN msgs : "id" \in DOMAIN msgs[k] /\ msgs[k].id = id})

\* Where the request is on its way, waits, is worked on, or has its reply.
Copies(id) ==
  LET waiting == {p \in Names \X (1..Cardinality(Ids)) :
                    /\ sessq[p[1]] # None /\ p[2] \in DOMAIN sessq[p[1]].jobs
                    /\ sessq[p[1]].jobs[p[2]].id = id}
  IN About(id, wire[Worker]) + About(id, queue) + About(id, sent)
       + Cardinality(waiting)
       + Cardinality({t \in Tasks : task[t] # None /\ task[t].job = id})
       + Cardinality({p \in Reactors \X (1..Cardinality(Ids)) :
                        p[2] \in DOMAIN jobs[p[1]] /\ jobs[p[1]][p[2]] = id})
       + Cardinality({n \in Reactors : run[n] # None /\ run[n].id = id})

\* A request is worked on once: who is cancelled is not run as well, and none
\* is left in a queue while a coroutine has it.
OneCopy == \A id \in Ids : Copies(id) <= 1

\* A session's queue has a coroutine that will come back to it, whatever resets,
\* cancellations, drains and assignments met: no job waits in a queue nobody
\* serves.
QueueServed ==
  \A nm \in Names : sessq[nm] # None =>
    \E t \in S!Of(nm) : task[t].doing = "waiting" \/ task[t].own

\* Every request gets one answer (Gateway), with real workers that serve it.
AnsweredOnce == G!AnsweredOnce

\* A client hears of its request, also when a drain or a reset dropped the job or
\* the network lost it on the way to the worker or back: the gateway answers for
\* whoever did not.
AskedEnds == []<>(faults \subseteq {"link"} => \A c \in Clients : asked[c] # "waiting")

\* When nothing is lost, no invocation holds a slot for good, not even those of
\* workloads that call one another.
SlotsServe == []<>(faults = {} => \A n \in Reactors : run[n] = None)

\* "mesh call timed out": a call through the mesh ends, whatever was lost.
MeshCallsEnd == []<>(\A n \in Reactors : run[n] = None \/ ~Asking(n))

\* "Each named session gets its own queue + coroutine": no two serve one queue.
OneCoroutine ==
  \A nm \in Names : \A t, u \in S!Of(nm) :
    task[t].own /\ task[u].own /\ ~S!Doing(t, "waiting") /\ ~S!Doing(u, "waiting") => t = u
=============================================================================
