------------------------------ MODULE CallsProofs ------------------------------
(***************************************************************************)
(* Invocations through the gateway of Gateway and a worker, proved for any  *)
(* number of reactors, sessions, coroutines, requests and mesh calls, and   *)
(* for any budget of faults and of meddling.                                *)
(***************************************************************************)
EXTENDS Calls, FiniteSetTheorems, TLAPS

\* The gateway, with the workers' answers among the payloads.
GP == INSTANCE GatewayProofs
        WITH Names <- Workloads, Workers <- {Worker}, Slots <- Workloads, Specs <- {Spec1},
             Calls <- Payloads \cup {"ok"}, mode <- "serving"
-----------------------------------------------------------------------------
(* The instance. *)

LEMMA GatewayAssumptions ==
  GP!NoneAssumption /\ GP!LocationAssumption /\ GP!MaxWireAssumption
    /\ GP!FiniteAssumption /\ GP!PlacementAssumption
<1>1. None \notin Workloads \cup {Spec1} \cup {Worker} /\ None \notin {Worker} \X Workloads
  BY NoneAssumption
<1>2. None \notin GP!Placement
  BY NoneAssumption DEF G!Placement, GP!Placement
<1>3. IsFiniteSet(Workloads)
  BY FiniteAssumption, FS_AddElement DEF Workloads
<1>4. QED BY <1>1, <1>2, <1>3, BudgetAssumption
          DEF GP!NoneAssumption, GP!LocationAssumption, GP!MaxWireAssumption,
              GP!FiniteAssumption, GP!PlacementAssumption, GP!IsFiniteSet, IsFiniteSet

\* Calls instantiates the module, this one its proofs.
LEMMA SameReconcile ==
  ASSUME NEW reg, NEW plc, NEW vw, NEW cool
  PROVE  G!Reconcile(reg, plc, vw, cool) <=> GP!Reconcile(reg, plc, vw, cool)
BY DEF G!Reconcile, GP!Reconcile, G!Kept, GP!Kept, G!Cooled, GP!Cooled, G!Adoptions,
       GP!Adoptions, G!Settle, GP!Settle, G!Garbage, GP!Garbage, G!Clear, GP!Clear,
       G!Assignments, GP!Assignments, G!FreeFor, GP!FreeFor, G!Occupy, GP!Occupy,
       G!SentTo, GP!SentTo, G!Overdue, GP!Overdue, G!Unplaced, GP!Unplaced,
       G!Registered, GP!Registered, G!At, GP!At, G!AssignTo, GP!AssignTo, G!DrainOf,
       GP!DrainOf, G!NewPlacement, GP!NewPlacement, G!InSomeOrder, GP!InSomeOrder,
       G!Lost, GP!Lost, G!Contradicted, GP!Contradicted, G!Cardinality, GP!Cardinality,
       G!IsFiniteSet, GP!IsFiniteSet

LEMMA SamePlan ==
  /\ G!ReconcileTick <=> GP!ReconcileTick
  /\ \A r : G!HandleHeartbeat(Worker, r) => GP!HandleHeartbeat(Worker, r)
  /\ G!HandleAssignOk(Worker, Pool) => GP!HandleAssignOk(Worker, Pool)
  /\ G!HandleAssignFailed(Worker, Pool) => GP!HandleAssignFailed(Worker, Pool)
  /\ G!HandleDeploy(Pool, Spec1, FALSE) => GP!HandleDeploy(Pool, Spec1, FALSE)
  /\ G!HandleRemove(Pool) => GP!HandleRemove(Pool)
  /\ G!Reboot => GP!Reboot
<1> USE DEF G!Serving, GP!Serving, G!Room, GP!Room, G!desired, GP!desired, G!views,
            GP!views, G!calls, GP!calls, G!Save, GP!Save
<1>1. G!ReconcileTick <=> GP!ReconcileTick
  BY SameReconcile DEF G!ReconcileTick, GP!ReconcileTick
<1>2. \A r : G!HandleHeartbeat(Worker, r) => GP!HandleHeartbeat(Worker, r)
  BY DEF G!HandleHeartbeat, GP!HandleHeartbeat, G!Judged, GP!Judged, G!Hear, GP!Hear,
         G!Seen, GP!Seen, G!Stated, GP!Stated, G!Adoptions, GP!Adoptions, G!Settle,
         GP!Settle, G!NewPlacement, GP!NewPlacement, G!Unplaced, GP!Unplaced,
         G!Registered, GP!Registered
<1>3. G!HandleAssignOk(Worker, Pool) => GP!HandleAssignOk(Worker, Pool)
  BY DEF G!HandleAssignOk, GP!HandleAssignOk
<1>4. G!HandleAssignFailed(Worker, Pool) => GP!HandleAssignFailed(Worker, Pool)
  BY SameReconcile DEF G!HandleAssignFailed, GP!HandleAssignFailed
<1>5. G!HandleDeploy(Pool, Spec1, FALSE) => GP!HandleDeploy(Pool, Spec1, FALSE)
  BY SameReconcile DEF G!HandleDeploy, GP!HandleDeploy
<1>6. G!HandleRemove(Pool) => GP!HandleRemove(Pool)
  BY DEF G!HandleRemove, GP!HandleRemove, G!Undeploy, GP!Undeploy, G!Clear, GP!Clear,
         G!At, GP!At, G!DrainOf, GP!DrainOf, G!InSomeOrder, GP!InSomeOrder,
         G!Cardinality, GP!Cardinality, G!IsFiniteSet, GP!IsFiniteSet
<1>7. G!Reboot => GP!Reboot
  BY DEF G!Reboot, GP!Reboot, G!Forgotten, GP!Forgotten, G!EmptyView, GP!EmptyView,
         G!NoStates, GP!NoStates
<1>8. QED BY <1>1, <1>2, <1>3, <1>4, <1>5, <1>6, <1>7

LEMMA SameRelay ==
  ASSUME NEW id
  PROVE  /\ \A n, c : G!HandleInvoke(id, n, c) <=> GP!HandleInvoke(id, n, c)
         /\ \A a : G!HandleInvokeReply(id, a) => GP!HandleInvokeReply(id, a)
         /\ G!InvokeOverdue(id) => GP!InvokeOverdue(id)
         /\ G!TakeReply(id) => GP!TakeReply(id)
<1> USE DEF G!Serving, GP!Serving, G!Room, GP!Room, G!desired, GP!desired, G!views,
            GP!views, G!plan, GP!plan, G!Answer, GP!Answer
<1>1. \A n, c : G!HandleInvoke(id, n, c) <=> GP!HandleInvoke(id, n, c)
  BY DEF G!HandleInvoke, GP!HandleInvoke
<1>2. \A a : G!HandleInvokeReply(id, a) => GP!HandleInvokeReply(id, a)
  BY DEF G!HandleInvokeReply, GP!HandleInvokeReply
<1>3. G!InvokeOverdue(id) => GP!InvokeOverdue(id)
  BY DEF G!InvokeOverdue, GP!InvokeOverdue
<1>4. G!TakeReply(id) => GP!TakeReply(id)
  BY DEF G!TakeReply, GP!TakeReply
<1>5. QED BY <1>1, <1>2, <1>3, <1>4
-----------------------------------------------------------------------------
(* The invariant: where the reactors are, and what is said. *)

HomeOf(n) == [worker |-> Worker, slot |-> n, state |-> "running", hbm |-> 0]

\* A gateway that knows the worker has every reactor placed, confirmed, in the slot
\* of its name and in view there, and the session workload nowhere but in its own
\* slot; one that has just restarted has placed nothing.
HomeAt(reg, plc, vw) ==
  /\ \A n \in Reactors : reg[n] # None
  /\ known = {} => plc = [n \in Workloads |-> None]
  /\ known # {} =>
       /\ \A n \in Reactors : plc[n] = HomeOf(n) /\ vw[Worker][n] = n
       /\ vw[Worker][Pool] \in {Pool, None}
       /\ plc[Pool] # None => plc[Pool].slot = Pool

Home == regfile = registry /\ fresh = known /\ HomeAt(registry, placements, view)

\* A report of the worker: every reactor runs in its slot.
TrueReport ==
  {r \in GP!Reports : /\ \A n \in Reactors : r[n] = [workload |-> n, state |-> "running"]
                      /\ r[Pool].workload \in {Pool, None}}

\* So the gateway assigns and drains the slot of the session workload only ...
Order ==
  [type : {"invoke"}, id : Ids, name : Workloads, call : Payloads]
    \cup [type : {"assign"}, slot : {Pool}, name : {Pool}, spec : {Spec1}]
    \cup [type : {"drain"}, slot : {Pool}]

\* ... and the worker says:
Message ==
  [type : {"invoke-reply"}, id : Ids, answer : {"ok", "error"}]
    \cup [type : {"invoke"}, id : Mesh, name : Workloads]
    \cup [type : {"assigned"}, ok : BOOLEAN]
    \cup [type : {"heartbeat"}, slots : TrueReport]

Ordered == \A k \in DOMAIN wire[Worker] : wire[Worker][k] \in Order

SlotCommand == Job \cup [type : {"assign", "drain"}]

\* A coroutine that boots or runs has a job.
Worked == {c \in Coroutine : c.doing # "waiting" => c.job \in Ids}

SlotOK ==
  /\ queue \in Seq(SlotCommand)
  /\ stage \in {"idle", "fetching", "starting"} /\ held \in BOOLEAN
  /\ booted \in Maybe([Names -> BOOLEAN])
  /\ sessq \in [Names -> Maybe(Queue)]
  /\ task \in [Tasks -> Maybe(Worked)]

\* A coroutine that boots or runs for the queue its session has: there is one.
Owned ==
  \A t \in Tasks : task[t] # None /\ task[t].doing # "waiting" /\ task[t].own
                    => sessq[task[t].session] # None

Inv ==
  /\ TypeOK /\ GP!TypeOK /\ Home /\ Ordered
  /\ SlotOK /\ Owned /\ sent \in Seq(Message) /\ target \in [Clients -> Workloads]
-----------------------------------------------------------------------------
(* The gateway's side. *)

GatewayActs ==
  \/ GP!ReconcileTick
  \/ \E r \in TrueReport : GP!HandleHeartbeat(Worker, r)
  \/ GP!HandleAssignOk(Worker, Pool) \/ GP!HandleAssignFailed(Worker, Pool)
  \/ registry[Pool] = None /\ GP!HandleDeploy(Pool, Spec1, FALSE)
  \/ GP!HandleRemove(Pool)
  \/ \E id \in Ids, n \in Workloads, c \in Payloads : GP!HandleInvoke(id, n, c)
  \/ \E id \in Ids, a \in {"ok", "error"} : GP!HandleInvokeReply(id, a)
  \/ \E id \in Ids : GP!InvokeOverdue(id) \/ GP!TakeReply(id)
  \/ GP!Reboot

CommandTaken ==
  /\ wire[Worker] # <<>> /\ wire' = [wire EXCEPT ![Worker] = Tail(@)]
  /\ UNCHANGED <<plan, relay>>

GatewaySide == GatewayActs \/ CommandTaken \/ UNCHANGED gateway

LEMMA HearsActs ==
  ASSUME sent \in Seq(Message), GatewayHears
  PROVE  GatewaySide
<1> DEFINE m == Head(sent)
<1>1. /\ sent # <<>>
      /\ \/ m.type = "invoke-reply" /\ inflight[m.id] = "none" /\ UNCHANGED gateway
         \/ m.type = "invoke-reply" /\ G!HandleInvokeReply(m.id, m.answer)
         \/ /\ m.type = "invoke"
            /\ G!HandleInvoke(m.id, m.name, [session |-> Main, call |-> "run"])
         \/ m.type = "assigned" /\ G!HandleAssignOk(Worker, Pool)
         \/ m.type = "assigned" /\ G!HandleAssignFailed(Worker, Pool)
         \/ m.type = "heartbeat" /\ G!HandleHeartbeat(Worker, m.slots)
  BY DEF GatewayHears, Uplink
<1>2. m \in Message
  BY <1>1
<1> HIDE DEF m
<1>3. /\ m.type = "invoke-reply" => m.id \in Ids /\ m.answer \in {"ok", "error"}
      /\ m.type = "invoke" => m.id \in Ids /\ m.name \in Workloads
      /\ m.type = "heartbeat" => m.slots \in TrueReport
  BY <1>2 DEF Message, Ids
<1>4. [session |-> Main, call |-> "run"] \in Payloads
  BY MainAssumption DEF Payloads
<1>5. QED BY <1>1, <1>3, <1>4, SamePlan, SameRelay DEF GatewaySide, GatewayActs

\* Every step is one of the gateway's, takes a command off the link, or leaves the
\* gateway alone.
LEMMA StepActs ==
  ASSUME TypeOK, sent \in Seq(Message), target \in [Clients -> Workloads], [Next]_vars
  PROVE  GatewaySide
<1>1. CASE UNCHANGED vars
  BY <1>1 DEF vars, GatewaySide
<1>2. ASSUME NEW c \in Clients, NEW call \in Payloads, Request(c, call)
      PROVE  GatewayActs
  <2>1. target[c] \in Workloads /\ c \in Ids /\ G!HandleInvoke(c, target[c], call)
    BY <1>2 DEF Request, Ids
  <2>2. GP!HandleInvoke(c, target[c], call)
    BY <2>1, SameRelay
  <2>3. QED BY <2>1, <2>2 DEF GatewayActs
<1>3. CASE Operator
  BY <1>3, SamePlan DEF Operator, GatewayActs, GatewaySide
<1>4. CASE Tick
  BY <1>4, SamePlan DEF Tick, GatewayActs, GatewaySide
<1>5. ASSUME NEW id \in Ids, Overdue(id)
      PROVE  GatewayActs
  BY <1>5, SameRelay DEF Overdue, GatewayActs
<1>6. ASSUME NEW id \in Ids, G!TakeReply(id)
      PROVE  GatewayActs
  BY <1>6, SameRelay DEF GatewayActs
<1>7. ASSUME NEW id \in Mesh, HearsMesh(id)
      PROVE  GatewayActs
  BY <1>6, <1>7 DEF HearsMesh, Ids
<1>8. ASSUME NEW c \in Clients, Hears(c)
      PROVE  GatewayActs
  BY <1>6, <1>8 DEF Hears, Ids
<1>9. CASE ReplyLost \/ Rebooted
  BY <1>6, <1>9, SamePlan DEF ReplyLost, Rebooted, GatewayActs, GatewaySide
<1>10. CASE Receive
  BY <1>10 DEF Receive, CommandTaken, GatewaySide
<1>11. CASE LinkLoses
  BY <1>11 DEF LinkLoses, CommandTaken, GatewaySide
<1>12. ASSUME \/ Heartbeat \/ SlotTask
              \/ \E n \in Reactors : Start(n) \/ MeshCall(n) \/ Deadline(n) \/ Wake(n) \/ Finish(n)
              \/ \E t \in Tasks : Session(t) \/ SessionBootFails(t)
              \/ \E nm \in Names : Cancel(nm)
              \/ AssignmentFails
       PROVE  UNCHANGED gateway
  BY <1>12 DEF Heartbeat, SlotTask, Slot, Start, MeshCall, Deadline, Wake, Finish, Local,
               Session, SessionBootFails, Cancel, AssignmentFails
<1>13. QED BY <1>1, <1>2, <1>3, <1>4, <1>5, <1>7, <1>8, <1>9, <1>10, <1>11, <1>12, HearsActs
           DEF Next, System, GatewaySide

LEMMA GatewayStep == Inv /\ [Next]_vars => [GP!OpenNext]_(GP!vars)
<1> SUFFICES ASSUME Inv, [Next]_vars PROVE [GP!OpenNext]_(GP!vars)
  OBVIOUS
<1>1. GatewaySide
  BY StepActs DEF Inv
<1>2. CASE UNCHANGED gateway
  BY <1>2 DEF gateway, plan, relay, GP!vars, GP!desired, GP!views, GP!plan, GP!calls
<1>3. CASE CommandTaken
  <2>1. /\ wire \in [{Worker} -> Seq(GP!Command)]
        /\ wire[Worker] # <<>> /\ wire' = [wire EXCEPT ![Worker] = Tail(wire[Worker])]
    BY <1>3 DEF CommandTaken, Inv, GP!TypeOK
  <2>2. /\ wire' \in [{Worker} -> Seq(GP!Command)] /\ wire'[Worker] = Tail(wire[Worker])
        /\ wire[Worker] \in Seq(GP!Command)
    BY <2>1
  <2>3. Len(wire'[Worker]) <= Len(wire[Worker])
    BY <2>1, <2>2
  <2>4. GP!Outside
    BY <1>3, <2>2, <2>3
       DEF CommandTaken, plan, relay, GP!Outside, GP!desired, GP!views, GP!plan, GP!calls
  <2>5. QED BY <2>4 DEF GP!OpenNext
<1>4. CASE GatewayActs
  <2>1. ASSUME NEW r \in TrueReport, GP!HandleHeartbeat(Worker, r)
        PROVE  GP!WorkerMessage
    BY <2>1 DEF GP!WorkerMessage, TrueReport
  <2>2. CASE GP!HandleAssignOk(Worker, Pool) \/ GP!HandleAssignFailed(Worker, Pool)
    BY <2>2 DEF GP!WorkerMessage, Workloads, GP!OpenNext, GP!Next, GP!PlanNext
  <2>3. CASE registry[Pool] = None /\ GP!HandleDeploy(Pool, Spec1, FALSE)
    <3>1. (registry[Pool] # None) = FALSE
      BY <2>3
    <3>2. GP!HandleDeploy(Pool, Spec1, registry[Pool] # None)
      BY <2>3, <3>1
    <3>3. GP!ClientRequest
      BY <3>2 DEF GP!ClientRequest, Workloads
    <3>4. QED BY <3>3 DEF GP!OpenNext, GP!Next, GP!PlanNext
  <2>4. CASE GP!HandleRemove(Pool)
    BY <2>4 DEF GP!ClientRequest, Workloads, GP!OpenNext, GP!Next, GP!PlanNext
  <2>5. CASE \/ \E id \in Ids, n \in Workloads, c \in Payloads : GP!HandleInvoke(id, n, c)
             \/ \E id \in Ids, a \in {"ok", "error"} : GP!HandleInvokeReply(id, a)
             \/ \E id \in Ids : GP!InvokeOverdue(id) \/ GP!TakeReply(id)
    <3>1. GP!CallNext
      BY <2>5 DEF GP!CallNext
    <3>2. QED BY <3>1 DEF GP!OpenNext, GP!Next
  <2>6. QED BY <1>4, <2>1, <2>2, <2>3, <2>4, <2>5
            DEF GatewayActs, GP!OpenNext, GP!Next, GP!PlanNext
<1>5. QED BY <1>1, <1>2, <1>3, <1>4 DEF GatewaySide
-----------------------------------------------------------------------------
(* The reactors stay where they are. *)

LEMMA ReconcileHome ==
  ASSUME GP!TypeOK, Ordered, fresh = known,
         NEW reg \in GP!Registry, NEW plc \in GP!Plan, NEW vw \in GP!View,
         NEW cool \in SUBSET (Workloads \X {Worker}), GP!Reconcile(reg, plc, vw, cool),
         HomeAt(reg, plc, vw), UNCHANGED <<known, fresh>>, registry' = reg, regfile' = reg
  PROVE  Home' /\ Ordered'
<1>1. CASE known = {}
  <2>1. wire' = wire /\ placements' = [n \in Workloads |-> None]
    BY <1>1, GatewayAssumptions, GP!NobodyHeard
  <2>2. QED BY <1>1, <2>1 DEF Home, HomeAt, Ordered
<1>2. CASE known # {}
  <2>1. fresh = {Worker}
    BY <1>2 DEF GP!TypeOK
  <2>2. /\ \A n \in Reactors : plc[n] = HomeOf(n) /\ vw[Worker][n] = n
        /\ vw[Worker][Pool] \in {Pool, None}
        /\ plc[Pool] # None => plc[Pool].slot = Pool
    BY <1>2 DEF HomeAt
  <2>3. placements' \in GP!Plan /\ view' \in GP!View
    BY GatewayAssumptions, GP!ReconcileType
  <2>4. ASSUME NEW n \in Reactors
        PROVE  /\ placements'[n] = plc[n] /\ view'[Worker][n] = n
               /\ view'[Worker][Pool] = n => vw[Worker][Pool] = n
               /\ GP!At(placements'[Pool], Worker, n) => placements'[Pool] = plc[Pool]
               /\ \A k \in DOMAIN wire'[Worker] :
                    \/ k <= Len(wire[Worker]) /\ wire'[Worker][k] = wire[Worker][k]
                    \/ /\ wire'[Worker][k] \in GP!Command
                       /\ wire'[Worker][k].type \in {"assign", "drain"}
                       /\ wire'[Worker][k].slot # n
                       /\ wire'[Worker][k].type = "assign" => wire'[Worker][k].name # n
    <3>1. n \in Workloads /\ Pool \in Workloads /\ Worker \in {Worker}
      BY DEF Workloads
    <3>2. plc[n] = HomeOf(n) /\ HomeOf(n) # None /\ vw[Worker][n] = n
      <4>1. HomeOf(n) \in GP!Placement
        BY <3>1 DEF HomeOf, GP!Placement
      <4>2. QED BY <2>2, <4>1, GatewayAssumptions DEF GP!PlacementAssumption
    <3>3. GP!At(plc[n], Worker, n) /\ ~GP!Lost(plc[n]) /\ ~GP!Contradicted(plc[n])
      BY <2>1, <3>2 DEF HomeOf, GP!At, GP!Lost, GP!Contradicted
    <3>4. QED BY <3>1, <3>2, <3>3, GatewayAssumptions, GP!LeftAlone
  <2>5. view'[Worker][Pool] \in {Pool, None}
    <3>1. view'[Worker][Pool] \in Workloads \cup {None}
      BY <2>3 DEF GP!View, Workloads
    <3>2. \A n \in Reactors : view'[Worker][Pool] # n
      BY <2>2, <2>4, UsesAssumption, NoneAssumption DEF Workloads
    <3>3. QED BY <3>1, <3>2 DEF Workloads
  <2>6. placements'[Pool] # None => placements'[Pool].slot = Pool
    <3> SUFFICES ASSUME placements'[Pool] # None PROVE placements'[Pool].slot = Pool
      OBVIOUS
    <3>1. placements'[Pool].worker = Worker /\ placements'[Pool].slot \in Workloads
      BY <2>3 DEF GP!Plan, GP!Placement, Workloads
    <3>2. ASSUME NEW n \in Reactors, placements'[Pool].slot = n
          PROVE  FALSE
      <4>1. placements'[Pool] = plc[Pool]
        BY <2>4, <3>1, <3>2 DEF GP!At
      <4>2. QED BY <2>2, <3>2, <4>1, UsesAssumption
    <3>3. QED BY <3>1, <3>2 DEF Workloads
  <2>7. ASSUME NEW k \in DOMAIN wire'[Worker]
        PROVE  wire'[Worker][k] \in Order
    <3>1. wire[Worker] \in Seq(GP!Command) /\ wire'[Worker] \in Seq(GP!Command)
      BY GatewayAssumptions, GP!ReconcileType DEF GP!TypeOK
    <3>2. \/ k <= Len(wire[Worker]) /\ wire'[Worker][k] = wire[Worker][k]
          \/ /\ wire'[Worker][k] \in GP!Command
             /\ wire'[Worker][k].type \in {"assign", "drain"}
      BY <2>7, GatewayAssumptions, GP!ReconcileAdds
    <3>3. CASE k <= Len(wire[Worker]) /\ wire'[Worker][k] = wire[Worker][k]
      <4>1. k \in DOMAIN wire[Worker]
        BY <2>7, <3>1, <3>3
      <4>2. QED BY <3>3, <4>1 DEF Ordered
    <3>4. CASE ~ (k <= Len(wire[Worker]) /\ wire'[Worker][k] = wire[Worker][k])
      <4> DEFINE c == wire'[Worker][k]
      <4>1. c \in GP!Command /\ c.type \in {"assign", "drain"}
        BY <3>2, <3>4
      <4>2. \A n \in Reactors : c.slot # n /\ (c.type = "assign" => c.name # n)
        BY <2>4, <3>4
      <4> HIDE DEF c
      <4>3. CASE c.type = "assign"
        <5>1. c \in [type : {"assign"}, slot : Workloads, name : Workloads, spec : {Spec1}]
          BY <4>1, <4>3 DEF GP!Command
        <5>2. c \in [type : {"assign"}, slot : {Pool}, name : {Pool}, spec : {Spec1}]
          BY <4>2, <4>3, <5>1 DEF Workloads
        <5>3. QED BY <5>2 DEF c, Order
      <4>4. CASE c.type = "drain"
        <5>1. c \in [type : {"drain"}, slot : Workloads]
          BY <4>1, <4>4 DEF GP!Command
        <5>2. c \in [type : {"drain"}, slot : {Pool}]
          BY <4>2, <5>1 DEF Workloads
        <5>3. QED BY <5>2 DEF c, Order
      <4>5. QED BY <4>1, <4>3, <4>4
    <3>5. QED BY <3>3, <3>4
  <2>8. Ordered'
    BY <2>7 DEF Ordered
  <2>9. \A n \in Reactors : placements'[n] = HomeOf(n) /\ view'[Worker][n] = n
    BY <2>2, <2>4
  <2>10. HomeAt(registry, placements, view)'
    BY <1>2, <2>5, <2>6, <2>9 DEF HomeAt, HomeOf
  <2>11. QED BY <2>8, <2>10 DEF Home
<1>3. QED BY <1>1, <1>2

LEMMA PlanKept ==
  ASSUME Home, UNCHANGED <<registry, regfile, known, fresh, view, placements>>
  PROVE  Home'
BY DEF Home, HomeAt, HomeOf

LEMMA OrderedAppend ==
  ASSUME Ordered, NEW A, wire[Worker] \in Seq(A), NEW q \in Seq(Order),
         wire'[Worker] = wire[Worker] \o q
  PROVE  Ordered'
<1> SUFFICES ASSUME NEW k \in DOMAIN (wire[Worker] \o q)
             PROVE  (wire[Worker] \o q)[k] \in Order
  BY DEF Ordered
<1>1. CASE k <= Len(wire[Worker])
  BY <1>1 DEF Ordered
<1>2. CASE k > Len(wire[Worker])
  BY <1>2
<1>3. QED BY <1>1, <1>2

LEMMA RemoveHome ==
  ASSUME GP!TypeOK, Home, Ordered, GP!HandleRemove(Pool)
  PROVE  Home' /\ Ordered'
<1> DEFINE locs == {l \in {Worker} \X Workloads : \E n \in {Pool} : GP!At(placements[n], l[1], l[2])}
           T == {t \in Workloads : <<Worker, t>> \in locs}
<1>1. /\ placements' = [n \in Workloads |-> IF n \in {Pool} THEN None ELSE placements[n]]
      /\ view' = GP!Clear(view, locs)
      /\ wire' = [w \in {Worker} |-> wire[w] \o
                    GP!InSomeOrder({GP!DrainOf(s) : s \in {t \in Workloads : <<w, t>> \in locs}})]
      /\ registry' = [n \in Workloads |-> IF n \in {Pool} THEN None ELSE registry[n]]
      /\ regfile' = registry' /\ known' = known /\ fresh' = fresh
  BY DEF GP!HandleRemove, GP!Undeploy, GP!Save
<1>2. placements \in [Workloads -> GP!Placement \cup {None}] /\ wire[Worker] \in Seq(GP!Command)
  BY DEF GP!TypeOK
<1>3. \A l \in locs : known # {} /\ l = <<Worker, Pool>>
  <2>1. ASSUME NEW l \in locs
        PROVE  known # {} /\ l = <<Worker, Pool>>
    <3>1. placements[Pool] # None /\ placements[Pool].slot = l[2] /\ l \in {Worker} \X Workloads
      BY DEF GP!At
    <3>2. known # {}
      BY <3>1 DEF Home, HomeAt, Workloads
    <3>3. QED BY <3>1, <3>2 DEF Home, HomeAt
  <2>2. QED BY <2>1
<1>4. Ordered'
  <2> DEFINE D == {GP!DrainOf(s) : s \in T}
  <2>1. GP!InSomeOrder(D) \in Seq(D)
    BY GatewayAssumptions, GP!DrainsType
  <2>2. T \subseteq {Pool}
    <3> HIDE DEF locs
    <3>1. QED BY <1>3
  <2>3. D \subseteq Order
    <3>1. ASSUME NEW t \in T
          PROVE  GP!DrainOf(t) \in Order
      <4> HIDE DEF T
      <4>1. GP!DrainOf(t) \in [type : {"drain"}, slot : {Pool}]
        BY <2>2 DEF GP!DrainOf
      <4>2. QED BY <4>1 DEF Order
    <3> HIDE DEF T
    <3>2. QED BY <3>1
  <2>4. wire'[Worker] = wire[Worker] \o GP!InSomeOrder(D)
    BY <1>1
  <2> HIDE DEF D
  <2>5. GP!InSomeOrder(D) \in Seq(Order)
    BY <2>1, <2>3
  <2>6. QED BY <1>2, <2>4, <2>5, OrderedAppend
<1> HIDE DEF locs
<1>5. Pool \notin Reactors /\ Pool \in Workloads /\ Reactors \subseteq Workloads
  BY UsesAssumption DEF Workloads
<1>6. \A n \in Reactors : registry'[n] # None
  BY <1>1, <1>5 DEF Home, HomeAt
<1>7. CASE known = {}
  <2>1. placements' = [n \in Workloads |-> None]
    BY <1>1, <1>7 DEF Home, HomeAt
  <2>2. QED BY <1>1, <1>4, <1>6, <1>7, <2>1 DEF Home, HomeAt
<1>8. CASE known # {}
  <2>1. \A n \in Reactors : placements'[n] = HomeOf(n) /\ view'[Worker][n] = n
    BY <1>1, <1>3, <1>5, <1>8 DEF Home, HomeAt, GP!Clear
  <2>2. view'[Worker][Pool] \in {Pool, None} /\ placements'[Pool] = None
    BY <1>1, <1>5, <1>8 DEF Home, HomeAt, GP!Clear
  <2>3. QED BY <1>1, <1>4, <1>6, <1>8, <2>1, <2>2 DEF Home, HomeAt, HomeOf
<1>9. QED BY <1>7, <1>8

\* A placement at home that is confirmed is HomeOf.
LEMMA ConfirmedHome ==
  ASSUME NEW n, NEW p \in GP!Placement, p.worker = Worker, p.slot = n
  PROVE  [p EXCEPT !.state = "running", !.hbm = 0] = HomeOf(n)
<1> DEFINE q == [p EXCEPT !.state = "running", !.hbm = 0]
<1>1. q.worker = Worker /\ q.slot = n /\ q.state = "running" /\ q.hbm = 0
  BY DEF GP!Placement
<1>2. q \in GP!Placement
  <2>1. "running" \in {"assigning", "loading", "running"} /\ 0 \in 0..2
    OBVIOUS
  <2>2. \A st \in {"assigning", "loading", "running"}, h \in 0..2 :
          [p EXCEPT !.state = st, !.hbm = h] \in GP!Placement
    BY GatewayAssumptions, GP!PlacementExcept
  <2>3. QED BY <2>1, <2>2
<1> HIDE DEF q
<1>3. q = [worker |-> q.worker, slot |-> q.slot, state |-> q.state, hbm |-> q.hbm]
  BY <1>2 DEF GP!Placement
<1>4. QED BY <1>1, <1>3 DEF HomeOf, q

LEMMA HeartbeatHome ==
  ASSUME GP!TypeOK, Home, NEW r \in TrueReport, GP!HandleHeartbeat(Worker, r)
  PROVE  Home'
<1> DEFINE ws == IF Worker \in known THEN {} ELSE {Worker}
           vw == GP!Seen(Worker, r)
           st == GP!Stated(Worker, r)
           ok == {"loading", "running"}
<1>1. /\ known' = known \cup {Worker} /\ fresh' = fresh \cup {Worker}
      /\ view' = vw /\ UNCHANGED <<registry, regfile>>
  BY DEF GP!HandleHeartbeat, GP!Hear, GP!desired
<1>2. PICK f \in GP!Adoptions(registry, placements, vw, st, ws, ok) :
        placements' = [n \in Workloads |->
           IF /\ GP!Settle(placements, f, "assigning")[n] # None
              /\ GP!Settle(placements, f, "assigning")[n].worker = Worker
           THEN GP!Judged(GP!Settle(placements, f, "assigning")[n], n, r)
           ELSE GP!Settle(placements, f, "assigning")[n]]
  BY DEF GP!HandleHeartbeat
<1> DEFINE settled == GP!Settle(placements, f, "assigning")
           U == GP!Unplaced(registry, placements)
<1>3. known' = {Worker} /\ fresh' = known'
  BY <1>1 DEF GP!TypeOK, Home
<1>4. /\ \A n \in Reactors : r[n].workload = n /\ r[n].state = "running"
      /\ r[Pool].workload \in {Pool, None}
  <2>1. ASSUME NEW n \in Reactors
        PROVE  r[n].workload = n /\ r[n].state = "running"
    <3>1. r[n] = [workload |-> n, state |-> "running"]
      BY DEF TrueReport
    <3>2. QED BY <3>1
  <2>2. QED BY <2>1 DEF TrueReport
<1>5. Pool \notin Reactors /\ Pool \in Workloads /\ Reactors \subseteq Workloads
      /\ None \notin Workloads
  BY UsesAssumption, NoneAssumption DEF Workloads
<1>6. \A s \in Workloads : vw[Worker][s] = r[s].workload /\ st[Worker][s] = r[s].state
  BY DEF GP!Seen, GP!Stated, GP!TypeOK
<1>7. /\ \A n \in Reactors : view'[Worker][n] = n
      /\ view'[Worker][Pool] \in {Pool, None}
  <2> HIDE DEF vw
  <2>1. QED BY <1>1, <1>4, <1>5, <1>6
<1>8. ASSUME NEW n \in Workloads, settled[n] # None
      PROVE  settled[n] \in GP!Placement
  <2>1. placements \in GP!Plan /\ ws \subseteq {Worker}
    BY DEF GP!TypeOK, GP!Plan
  <2>2. f \in [U -> GP!Locs \cup {None}]
    <3> HIDE DEF vw, st, ws, ok
    <3>1. QED BY <2>1, GatewayAssumptions, GP!AdoptionsType
  <2>3. settled \in GP!Plan
    <3>1. U \in SUBSET Workloads
      BY DEF GP!Unplaced, GP!Registered
    <3> HIDE DEF U
    <3>2. QED BY <2>1, <2>2, <3>1, GatewayAssumptions, GP!SettleType
  <2>4. QED BY <1>8, <2>3 DEF GP!Plan
\* Everything settled is at home.
<1>9. /\ \A n \in Reactors : /\ settled[n] # None
                            /\ settled[n].worker = Worker /\ settled[n].slot = n
      /\ settled[Pool] # None => settled[Pool].slot = Pool
  <2>1. CASE known # {}
    <3>1. ws = {}
      BY <2>1 DEF GP!TypeOK
    <3>2. \A n \in U : f[n] = None
      BY <3>1 DEF GP!Adoptions
    <3>3. \A n \in Workloads : settled[n] = placements[n]
      BY <3>2 DEF GP!Settle, GP!Adoptions
    <3>4. \A n \in Reactors : placements[n] = HomeOf(n) /\ HomeOf(n) \in GP!Placement
      BY <1>5, <2>1 DEF Home, HomeAt, HomeOf, GP!Placement
    <3> HIDE DEF settled
    <3>5. \A n \in Reactors : settled[n] = HomeOf(n) /\ HomeOf(n) # None
      BY <1>5, <3>3, <3>4, GatewayAssumptions DEF GP!PlacementAssumption
    <3>6. ASSUME NEW n \in Reactors
          PROVE  settled[n] # None /\ settled[n].worker = Worker /\ settled[n].slot = n
      <4>1. HomeOf(n).worker = Worker /\ HomeOf(n).slot = n
        BY DEF HomeOf
      <4>2. settled[n] = HomeOf(n) /\ HomeOf(n) # None
        BY <3>5
      <4>3. QED BY <4>1, <4>2
    <3>7. settled[Pool] # None => settled[Pool].slot = Pool
      BY <1>5, <2>1, <3>3 DEF Home, HomeAt
    <3>8. QED BY <3>6, <3>7
  <2>2. CASE known = {}
    <3>1. ws = {Worker}
      BY <2>2
    <3>2. \A n \in Workloads : placements[n] = None
      BY <2>2 DEF Home, HomeAt
    <3>3. ASSUME NEW n \in U, f[n] # None
          PROVE  f[n] = <<Worker, n>>
      <4>1. f[n] \in {Worker} \X Workloads /\ vw[f[n][1]][f[n][2]] = n
        BY <3>1, <3>3 DEF GP!Adoptions
      <4>2. n \in Workloads
        BY DEF GP!Unplaced, GP!Registered
      <4>3. r[f[n][2]].workload = n
        <5> HIDE DEF vw
        <5>1. QED BY <1>6, <4>1
      <4>4. f[n][2] = n
        BY <1>4, <1>5, <4>1, <4>2, <4>3 DEF Workloads
      <4>5. QED BY <4>1, <4>4
    <3>4. ASSUME NEW n \in Reactors
          PROVE  n \in U /\ f[n] # None
      <4>1. n \in U
        BY <1>5, <2>2, <3>2 DEF Home, HomeAt, GP!Unplaced, GP!Registered
      <4> DEFINE copies == {l \in ws \X Workloads : vw[l[1]][l[2]] = n /\ st[l[1]][l[2]] \in ok}
      <4>2. IF copies = {} THEN f[n] = None ELSE f[n] \in copies
        BY <4>1 DEF GP!Adoptions
      <4>3. <<Worker, n>> \in copies
        <5>1. <<Worker, n>> \in ws \X Workloads /\ n \in Workloads
          BY <1>5, <3>1
        <5>2. vw[Worker][n] = n /\ st[Worker][n] \in ok
          <6> HIDE DEF vw, st
          <6>1. QED BY <1>4, <1>6, <5>1
        <5> HIDE DEF vw, st, ws, ok
        <5>3. QED BY <5>1, <5>2
      <4>4. None \notin copies
        <5>1. None \notin ws \X Workloads
          BY NoneAssumption
        <5>2. QED BY <5>1
      <4> HIDE DEF copies
      <4>5. QED BY <4>1, <4>2, <4>3, <4>4
    <3>5. DOMAIN f = U
      BY DEF GP!Adoptions
    <3>6. ASSUME NEW n \in Workloads
          PROVE  settled[n] = IF n \in U /\ f[n] # None
                              THEN GP!NewPlacement(<<Worker, n>>, "assigning") ELSE None
      <4> HIDE DEF U
      <4>1. QED BY <3>2, <3>3, <3>5 DEF GP!Settle
    <3> HIDE DEF settled, U
    <3>7. ASSUME NEW n \in Reactors
          PROVE  settled[n] # None /\ settled[n].worker = Worker /\ settled[n].slot = n
      <4>1. settled[n] = GP!NewPlacement(<<Worker, n>>, "assigning") /\ n \in Workloads
        BY <1>5, <3>4, <3>6
      <4>2. GP!NewPlacement(<<Worker, n>>, "assigning") \in GP!Placement
        BY <4>1 DEF GP!NewPlacement, GP!Placement
      <4>3. QED BY <4>1, <4>2, GatewayAssumptions
                DEF GP!NewPlacement, GP!PlacementAssumption
    <3>8. settled[Pool] # None => settled[Pool].slot = Pool
      <4>1. settled[Pool] = None \/ settled[Pool] = GP!NewPlacement(<<Worker, Pool>>, "assigning")
        BY <1>5, <3>6
      <4>2. GP!NewPlacement(<<Worker, Pool>>, "assigning").slot = Pool
        BY DEF GP!NewPlacement
      <4>3. QED BY <4>1, <4>2
    <3>9. QED BY <3>7, <3>8
  <2>3. QED BY <2>1, <2>2
<1> HIDE DEF settled, vw, st, ws, U
<1>10. \A n \in Workloads :
         placements'[n] = IF settled[n] # None /\ settled[n].worker = Worker
                          THEN GP!Judged(settled[n], n, r) ELSE settled[n]
  BY <1>2 DEF settled
<1>11. ASSUME NEW n \in Reactors
       PROVE  placements'[n] = HomeOf(n)
  <2>1. /\ settled[n] \in GP!Placement /\ settled[n].worker = Worker /\ settled[n].slot = n
        /\ placements'[n] = GP!Judged(settled[n], n, r)
    BY <1>5, <1>8, <1>9, <1>10
  <2>2. GP!Judged(settled[n], n, r) = [settled[n] EXCEPT !.state = "running", !.hbm = 0]
    BY <1>4, <2>1 DEF GP!Judged
  <2>3. [settled[n] EXCEPT !.state = "running", !.hbm = 0] = HomeOf(n)
    BY <2>1, ConfirmedHome
  <2>4. QED BY <2>1, <2>2, <2>3
<1>12. placements'[Pool] # None => placements'[Pool].slot = Pool
  <2> SUFFICES ASSUME placements'[Pool] # None
               PROVE  placements'[Pool].slot = Pool
    OBVIOUS
  <2>1. settled[Pool] # None
    BY <1>5, <1>10
  <2>2. settled[Pool] \in GP!Placement /\ settled[Pool].slot = Pool
    BY <1>5, <1>8, <1>9, <2>1
  <2>3. GP!Judged(settled[Pool], Pool, r).slot = Pool
    BY <2>2 DEF GP!Judged, GP!Placement
  <2>4. QED BY <1>5, <1>10, <2>2, <2>3
<1>13. HomeAt(registry, placements, view)'
  <2>1. \A n \in Reactors : registry'[n] # None
    BY <1>1 DEF Home, HomeAt
  <2>2. QED BY <1>3, <1>7, <1>11, <1>12, <2>1 DEF HomeAt, HomeOf
<1>14. QED BY <1>1, <1>3, <1>13 DEF Home

\* No step of the gateway moves a reactor, and no command goes to one's slot but
\* invocations.
LEMMA HomeStep ==
  ASSUME Inv, [Next]_vars
  PROVE  Home' /\ Ordered'
<1>1. GatewaySide
  BY StepActs DEF Inv
<1>2. GP!TypeOK /\ Home /\ Ordered /\ GP!TypeOK'
  BY GatewayStep, GatewayAssumptions, GP!TypeStep DEF Inv
<1>3. /\ placements \in GP!Plan /\ view \in GP!View /\ registry \in GP!Registry
      /\ cooldown \in SUBSET (Workloads \X {Worker}) /\ known \subseteq {Worker}
      /\ wire[Worker] \in Seq(GP!Command) /\ wire \in [{Worker} -> Seq(GP!Command)]
  BY <1>2 DEF GP!TypeOK, GP!Plan, GP!View
<1>4. Pool \notin Reactors /\ Pool \in Workloads /\ Reactors \subseteq Workloads
  BY UsesAssumption DEF Workloads
<1>5. fresh = known /\ regfile = registry /\ HomeAt(registry, placements, view)
  BY <1>2 DEF Home
<1>6. CASE UNCHANGED gateway
  BY <1>2, <1>6, PlanKept DEF gateway, plan, Ordered
<1>7. CASE CommandTaken
  <2>1. Home'
    BY <1>2, <1>7, PlanKept DEF CommandTaken, plan
  <2>2. wire'[Worker] = Tail(wire[Worker]) /\ wire[Worker] # <<>>
    BY <1>3, <1>7 DEF CommandTaken
  <2>3. \A k \in DOMAIN Tail(wire[Worker]) :
          k + 1 \in DOMAIN wire[Worker] /\ Tail(wire[Worker])[k] = wire[Worker][k + 1]
    BY <1>3, <2>2
  <2>4. Ordered'
    BY <1>2, <2>2, <2>3 DEF Ordered
  <2>5. QED BY <2>1, <2>4
<1>8. CASE GP!ReconcileTick
  <2>1. GP!Reconcile(registry, placements, view, cooldown) /\ UNCHANGED <<registry, regfile, known, fresh>>
    BY <1>8 DEF GP!ReconcileTick, GP!desired
  <2>2. QED BY <1>2, <1>3, <1>5, <2>1, ReconcileHome
<1>9. CASE \E r \in TrueReport : GP!HandleHeartbeat(Worker, r)
  BY <1>2, <1>9, HeartbeatHome DEF GP!HandleHeartbeat, Ordered
<1>10. CASE GP!HandleAssignOk(Worker, Pool)
  <2>1. /\ UNCHANGED <<registry, regfile, known, fresh, view, wire>>
        /\ placements' = IF placements[Pool] # None /\ placements[Pool].worker = Worker
                         THEN [placements EXCEPT ![Pool].state = "running", ![Pool].hbm = 0]
                         ELSE placements
    BY <1>10 DEF GP!HandleAssignOk, GP!desired, GP!views
  <2>2. CASE placements' = placements
    BY <1>2, <2>1, <2>2, PlanKept DEF Ordered
  <2>3. CASE /\ placements[Pool] # None
             /\ placements' = [placements EXCEPT ![Pool].state = "running", ![Pool].hbm = 0]
    <3>1. known # {}
      BY <1>4, <1>5, <2>3 DEF HomeAt
    <3>2. \A n \in Reactors : placements'[n] = placements[n]
      BY <1>3, <1>4, <2>3 DEF GP!Plan
    <3>3. placements[Pool] \in GP!Placement
      BY <1>3, <1>4, <2>3 DEF GP!Plan
    <3>4. placements'[Pool].slot = placements[Pool].slot
      <4>1. placements'[Pool] = [placements[Pool] EXCEPT !.state = "running", !.hbm = 0]
        BY <1>3, <1>4, <2>3 DEF GP!Plan
      <4>2. QED BY <3>3, <4>1 DEF GP!Placement
    <3>5. QED BY <1>2, <1>5, <2>1, <2>3, <3>1, <3>2, <3>4 DEF Home, HomeAt, HomeOf, Ordered
  <2>4. QED BY <2>1, <2>2, <2>3
<1>11. CASE GP!HandleAssignFailed(Worker, Pool)
  <2> DEFINE mine == placements[Pool] # None /\ placements[Pool].worker = Worker
             plc == IF mine THEN [placements EXCEPT ![Pool] = None] ELSE placements
             vw == IF mine THEN [view EXCEPT ![Worker][placements[Pool].slot] = None] ELSE view
             cool == cooldown \cup {<<Pool, Worker>>}
  <2>1. GP!Reconcile(registry, plc, vw, cool) /\ UNCHANGED <<registry, regfile, known, fresh>>
    BY <1>11 DEF GP!HandleAssignFailed, GP!desired
  <2>2. plc \in GP!Plan
    BY <1>3, <1>4 DEF GP!Plan
  <2>3. vw \in GP!View
    BY <1>3, <1>4 DEF GP!View
  <2>4. cool \in SUBSET (Workloads \X {Worker})
    BY <1>3, <1>4
  <2>5. HomeAt(registry, plc, vw)
    <3>1. CASE ~mine
      BY <1>5, <3>1
    <3>2. CASE mine
      <4>1. known # {} /\ placements[Pool].slot = Pool
        BY <1>4, <1>5, <3>2 DEF HomeAt
      <4>2. /\ \A n \in Reactors : plc[n] = placements[n] /\ vw[Worker][n] = view[Worker][n]
            /\ plc[Pool] = None /\ vw[Worker][Pool] = None
        BY <1>3, <1>4, <3>2, <4>1 DEF GP!Plan, GP!View
      <4> HIDE DEF plc, vw
      <4>3. QED BY <1>5, <4>1, <4>2 DEF HomeAt
    <3>3. QED BY <3>1, <3>2
  <2> HIDE DEF plc, vw, cool
  <2>6. QED BY <1>2, <1>3, <1>5, <2>1, <2>2, <2>3, <2>4, <2>5, ReconcileHome
<1>12. CASE GP!HandleDeploy(Pool, Spec1, FALSE)
  <2> DEFINE reg == [registry EXCEPT ![Pool] = Spec1]
  <2>1. /\ GP!Reconcile(reg, placements, view, cooldown)
        /\ registry' = reg /\ regfile' = reg /\ UNCHANGED <<known, fresh>>
    BY <1>12 DEF GP!HandleDeploy, GP!Save
  <2>2. reg \in GP!Registry
    BY <1>3, <1>4 DEF GP!Registry
  <2>3. HomeAt(reg, placements, view)
    BY <1>3, <1>4, <1>5 DEF HomeAt, GP!Registry
  <2> HIDE DEF reg
  <2>4. QED BY <1>2, <1>3, <1>5, <2>1, <2>2, <2>3, ReconcileHome
<1>13. CASE GP!HandleRemove(Pool)
  BY <1>2, <1>13, RemoveHome
<1>14. ASSUME NEW id \in Ids, NEW n \in Workloads, NEW c \in Payloads, GP!HandleInvoke(id, n, c)
       PROVE  Home' /\ Ordered'
  <2>1. Home'
    BY <1>2, <1>14, PlanKept DEF GP!HandleInvoke, GP!desired, GP!views, GP!plan
  <2> DEFINE m == [type |-> "invoke", id |-> id, name |-> n, call |-> c]
  <2>2. CASE wire' = wire
    BY <1>2, <2>1, <2>2 DEF Ordered
  <2>3. CASE /\ placements[n] # None
             /\ wire' = [wire EXCEPT ![placements[n].worker] = Append(@, m)]
    <3>1. placements[n].worker = Worker
      BY <1>3, <2>3 DEF GP!Plan, GP!Placement
    <3>2. <<m>> \in Seq(Order)
      <4>1. m \in Order
        BY DEF Order
      <4> HIDE DEF m
      <4>2. QED BY <4>1
    <3>3. wire'[Worker] = wire[Worker] \o <<m>>
      <4> HIDE DEF m
      <4>1. QED BY <1>3, <2>3, <3>1
    <3> HIDE DEF m
    <3>4. QED BY <1>2, <1>3, <2>1, <3>2, <3>3, OrderedAppend
  <2>4. QED BY <1>14, <2>2, <2>3 DEF GP!HandleInvoke
<1>15. ASSUME NEW id \in Ids,
              \/ \E a \in {"ok", "error"} : GP!HandleInvokeReply(id, a)
              \/ GP!InvokeOverdue(id) \/ GP!TakeReply(id)
       PROVE  Home' /\ Ordered'
  BY <1>2, <1>15, PlanKept
     DEF GP!HandleInvokeReply, GP!InvokeOverdue, GP!TakeReply, GP!desired, GP!views,
         GP!plan, Ordered
<1>16. CASE GP!Reboot
  BY <1>2, <1>5, <1>16 DEF GP!Reboot, GP!Forgotten, Home, HomeAt, Ordered
<1>17. QED BY <1>1, <1>6, <1>7, <1>8, <1>9, <1>10, <1>11, <1>12, <1>13, <1>14, <1>15, <1>16
           DEF GatewaySide, GatewayActs
-----------------------------------------------------------------------------
(* The worker's side: the slot of the session workload. *)

LEMMA SendType ==
  ASSUME sent \in Seq(Message), NEW m \in Message, S!Send(<<m>>)
  PROVE  sent' \in Seq(Message)
BY DEF S!Send

LEMMA ReplyType ==
  ASSUME NEW id \in Ids, NEW a \in {"ok", "error"}
  PROVE  S!Reply(id, a) \in Message
<1>1. S!Reply(id, a) \in [type : {"invoke-reply"}, id : Ids, answer : {"ok", "error"}]
  BY DEF S!Reply
<1>2. QED BY <1>1 DEF Message

LEMMA AssignedType ==
  ASSUME NEW ok \in BOOLEAN
  PROVE  S!Assigned(ok) \in Message
<1>1. S!Assigned(ok) \in [type : {"assigned"}, ok : BOOLEAN]
  BY DEF S!Assigned
<1>2. QED BY <1>1 DEF Message

\* Everybody in a queue is told.
LEMMA ToldType ==
  ASSUME NEW q \in Seq(Job)
  PROVE  S!Told(q, "error") \in Seq(Message)
<1>1. ASSUME NEW j \in DOMAIN q
      PROVE  S!Reply(q[j].id, "error") \in Message
  <2>1. q[j] \in Job
    OBVIOUS
  <2>2. q[j].id \in Ids
    BY <2>1 DEF Job
  <2>3. QED BY <2>2, ReplyType
<1>2. DOMAIN q = 1..Len(q) /\ Len(q) \in Nat
  OBVIOUS
<1>3. S!Told(q, "error") \in [1..Len(q) -> Message]
  BY <1>1, <1>2 DEF S!Told
<1>4. QED BY <1>2, <1>3

LEMMA ReceiveType ==
  ASSUME SlotOK, sent \in Seq(Message), NEW cmd \in SlotCommand, S!Receive(cmd)
  PROVE  SlotOK' /\ sent' \in Seq(Message)
<1>1. UNCHANGED <<stage, held, booted, sessq, task>>
  BY DEF S!Receive, S!sessions
<1>2. CASE cmd.type = "invoke" /\ S!Send(<<S!Reply(cmd.id, "error")>>) /\ UNCHANGED queue
  <2>1. cmd.id \in Ids
    BY <1>2 DEF SlotCommand, Job
  <2>2. QED BY <1>1, <1>2, <2>1, ReplyType, SendType DEF SlotOK
<1>3. CASE queue' = Append(queue, cmd) /\ UNCHANGED sent
  BY <1>1, <1>3 DEF SlotOK
<1>4. QED BY <1>2, <1>3 DEF S!Receive

LEMMA CancelType ==
  ASSUME SlotOK, sent \in Seq(Message), NEW nm \in Names, S!Cancel(nm)
  PROVE  SlotOK' /\ sent' \in Seq(Message)
<1>1. UNCHANGED <<queue, stage, held>>
  BY DEF S!Cancel, S!slot
<1>2. CASE UNCHANGED <<booted, sessq, task, sent>>
  BY <1>1, <1>2 DEF SlotOK
<1>3. CASE held /\ booted # None
  <2>1. /\ task' = S!Killed(nm) /\ sessq' = S!Dropped(nm)
        /\ booted' = [booted EXCEPT ![nm] = FALSE]
        /\ S!Send(IF sessq[nm] = None THEN <<>>
                  ELSE S!Told(sessq[nm].current \o sessq[nm].jobs, "error"))
    BY <1>3 DEF S!Cancel
  <2>2. task' \in [Tasks -> Maybe(Worked)]
    BY <2>1 DEF SlotOK, S!Killed, Maybe
  <2>3. sessq' \in [Names -> Maybe(Queue)] /\ booted' \in Maybe([Names -> BOOLEAN])
    BY <1>3, <2>1 DEF SlotOK, S!Dropped, Maybe
  <2>4. sent' \in Seq(Message)
    <3>1. CASE sessq[nm] = None
      BY <2>1, <3>1 DEF S!Send
    <3>2. CASE sessq[nm] # None
      <4>1. sessq[nm] \in Queue
        BY <3>2 DEF SlotOK, Maybe
      <4>2. sessq[nm].jobs \in Seq(Job)
            /\ sessq[nm].current \in {<<>>} \cup {<<job>> : job \in Job}
        BY <4>1 DEF Queue
      <4>3. sessq[nm].current \in Seq(Job)
        <5>1. CASE sessq[nm].current = <<>>
          BY <5>1
        <5>2. ASSUME NEW job \in Job, sessq[nm].current = <<job>>
              PROVE  sessq[nm].current \in Seq(Job)
          <6>1. <<job>> \in Seq(Job)
            OBVIOUS
          <6>2. QED BY <5>2, <6>1
        <5>3. QED BY <4>2, <5>1, <5>2
      <4> DEFINE told == sessq[nm].current \o sessq[nm].jobs
      <4>5. told \in Seq(Job)
        BY <4>2, <4>3
      <4>6. S!Send(S!Told(told, "error"))
        BY <2>1, <3>2
      <4> HIDE DEF told
      <4>7. S!Told(told, "error") \in Seq(Message)
        BY <4>5, ToldType
      <4>8. QED BY <4>6, <4>7 DEF S!Send
    <3>3. QED BY <3>1, <3>2
  <2>5. QED BY <1>1, <2>2, <2>3, <2>4 DEF SlotOK
<1>4. QED BY <1>2, <1>3 DEF S!Cancel, S!sessions

LEMMA TurnType ==
  ASSUME SlotOK, NEW type, S!Turn(type)
  PROVE  /\ queue' \in Seq(SlotCommand) /\ Head(queue) \in SlotCommand
         /\ type = "invoke" => Head(queue) \in Job
<1>1. queue' \in Seq(SlotCommand) /\ Head(queue) \in SlotCommand /\ Head(queue).type = type
  BY DEF S!Turn, SlotOK
<1>2. QED BY <1>1 DEF SlotCommand

\* A queue that gets a job is a queue.
LEMMA QueueType ==
  ASSUME NEW job \in Job
  PROVE  /\ S!NewQueue(job) \in Queue
         /\ \A q \in Queue : [q EXCEPT !.jobs = Append(q.jobs, job)] \in Queue
<1>1. <<job>> \in Seq(Job)
  OBVIOUS
<1>2. S!NewQueue(job) \in Queue
  BY <1>1 DEF S!NewQueue, Queue
<1>3. ASSUME NEW q \in Queue
      PROVE  [q EXCEPT !.jobs = Append(q.jobs, job)] \in Queue
  <2>1. q.jobs \in Seq(Job)
    BY DEF Queue
  <2>2. Append(q.jobs, job) \in Seq(Job)
    BY <2>1
  <2>3. QED BY <2>2 DEF Queue
<1>4. QED BY <1>2, <1>3

LEMMA RouteType ==
  ASSUME SlotOK, sent \in Seq(Message), NEW nm \in Names, S!Route(nm)
  PROVE  SlotOK' /\ sent' \in Seq(Message)
<1> DEFINE job == Head(queue)
<1>1. S!Turn("invoke") /\ UNCHANGED <<stage, held>>
  BY DEF S!Route
<1>2. queue' \in Seq(SlotCommand) /\ job \in Job
  BY <1>1, TurnType
<1>3. job.id \in Ids
  BY <1>2 DEF Job
<1>4. CASE S!Send(<<S!Reply(job.id, "error")>>) /\ UNCHANGED <<booted, sessq, task>>
  <2> HIDE DEF job
  <2>1. sent' \in Seq(Message)
    BY <1>3, <1>4, ReplyType, SendType
  <2>2. QED BY <1>1, <1>2, <1>4, <2>1 DEF SlotOK
<1>5. CASE /\ sessq[nm] # None
           /\ sessq' = [sessq EXCEPT ![nm].jobs = Append(@, job)]
           /\ UNCHANGED <<booted, task, sent>>
  <2>1. sessq[nm] \in Queue
    BY <1>5 DEF SlotOK, Maybe
  <2>2. sessq' = [sessq EXCEPT ![nm] = [sessq[nm] EXCEPT !.jobs = Append(sessq[nm].jobs, job)]]
    BY <1>5
  <2> HIDE DEF job
  <2>3. [sessq[nm] EXCEPT !.jobs = Append(sessq[nm].jobs, job)] \in Queue
    BY <1>2, <2>1, QueueType
  <2>4. sessq' \in [Names -> Maybe(Queue)]
    BY <2>2, <2>3 DEF SlotOK, Maybe
  <2>5. QED BY <1>1, <1>2, <1>5, <2>4 DEF SlotOK
<1>6. CASE /\ sessq' = [sessq EXCEPT ![nm] = S!NewQueue(job)]
           /\ \E t \in Tasks : task[t] = None
           /\ task' = [task EXCEPT ![CHOOSE t \in Tasks : task[t] = None] =
                         [session |-> nm, doing |-> "waiting", job |-> None, own |-> TRUE]]
           /\ UNCHANGED <<booted, sent>>
  <2>1. [session |-> nm, doing |-> "waiting", job |-> None, own |-> TRUE] \in Worked
    BY DEF Worked, Coroutine, Maybe
  <2>2. task' \in [Tasks -> Maybe(Worked)]
    BY <1>6, <2>1 DEF SlotOK, Maybe
  <2> HIDE DEF job
  <2>3. S!NewQueue(job) \in Queue
    BY <1>2, QueueType
  <2>4. sessq' \in [Names -> Maybe(Queue)]
    BY <1>6, <2>3 DEF SlotOK, Maybe
  <2>5. QED BY <1>1, <1>2, <1>6, <2>2, <2>4 DEF SlotOK
<1>7. QED BY <1>4, <1>5, <1>6 DEF S!Route, S!sessions

LEMMA SlotTaskType ==
  ASSUME SlotOK, sent \in Seq(Message),
         \/ S!Drain \/ S!AssignBegins \/ S!FetchArrives \/ S!FetchFails
         \/ S!StartEnds \/ S!StartFails
  PROVE  SlotOK' /\ sent' \in Seq(Message)
<1>1. CASE S!Drain
  <2>1. queue' \in Seq(SlotCommand)
    BY <1>1, TurnType DEF S!Drain
  <2>2. ASSUME NEW t \in Tasks, task[t] # None
        PROVE  [task[t] EXCEPT !.own = FALSE] \in Worked
    BY <2>2 DEF SlotOK, Maybe, Worked, Coroutine
  <2>3. task' \in [Tasks -> Maybe(Worked)]
    BY <1>1, <2>2 DEF S!Drain, Maybe
  <2>4. sessq' \in [Names -> Maybe(Queue)]
    BY <1>1 DEF S!Drain, S!NoQueues, Maybe
  <2>5. QED BY <1>1, <2>1, <2>3, <2>4 DEF S!Drain, SlotOK, Maybe
<1>2. CASE S!AssignBegins
  <2>1. queue' \in Seq(SlotCommand)
    BY <1>2, TurnType DEF S!AssignBegins
  <2>2. QED BY <1>2, <2>1 DEF S!AssignBegins, S!sessions, SlotOK
<1>3. CASE S!FetchArrives
  BY <1>3 DEF S!FetchArrives, S!sessions, SlotOK
<1>4. CASE S!FetchFails
  BY <1>4, AssignedType, SendType DEF S!FetchFails, S!sessions, SlotOK
<1>5. CASE S!StartEnds
  <2>1. booted' \in Maybe([Names -> BOOLEAN])
    BY <1>5 DEF S!StartEnds, S!Booted, Maybe
  <2>2. QED BY <1>5, <2>1, AssignedType, SendType DEF S!StartEnds, SlotOK
<1>6. CASE S!StartFails
  BY <1>6, AssignedType, SendType DEF S!StartFails, SlotOK, Maybe
<1>7. QED BY <1>1, <1>2, <1>3, <1>4, <1>5, <1>6

LEMMA AnswersType ==
  ASSUME SlotOK, Owned, sent \in Seq(Message), NEW t \in Tasks, NEW answer \in {"ok", "error"},
         task[t] # None, task[t].doing # "waiting", S!Answers(t, answer)
  PROVE  SlotOK' /\ sent' \in Seq(Message)
<1>1. UNCHANGED <<queue, stage, held, booted>>
  BY DEF S!Answers, S!slot
<1>2. task[t] \in Coroutine /\ task[t].job \in Ids /\ task[t].session \in Names
  BY DEF SlotOK, Maybe, Worked, Coroutine
<1>3. sent' \in Seq(Message)
  <2>1. S!Reply(task[t].job, answer) \in Message
    BY <1>2, ReplyType
  <2>2. QED BY <2>1, SendType DEF S!Answers
<1>4. task' \in [Tasks -> Maybe(Worked)]
  <2>1. task' = [task EXCEPT ![t] = [task[t] EXCEPT !.doing = "waiting", !.job = None]]
    BY DEF S!Answers
  <2>2. [task[t] EXCEPT !.doing = "waiting", !.job = None] \in Worked
    BY <1>2 DEF Worked, Coroutine, Maybe
  <2>3. QED BY <2>1, <2>2 DEF SlotOK, Maybe
<1>5. sessq' \in [Names -> Maybe(Queue)]
  <2>1. CASE sessq' = sessq
    BY <2>1 DEF SlotOK
  <2>2. CASE /\ task[t].own
             /\ sessq' = [sessq EXCEPT ![task[t].session].current = <<>>]
    <3>1. sessq[task[t].session] \in Queue
      BY <1>2, <2>2 DEF SlotOK, Owned, Maybe
    <3>2. [sessq[task[t].session] EXCEPT !.current = <<>>] \in Queue
      BY <3>1 DEF Queue
    <3>3. sessq' = [sessq EXCEPT ![task[t].session] =
                      [sessq[task[t].session] EXCEPT !.current = <<>>]]
      BY <2>2
    <3>4. QED BY <1>2, <3>2, <3>3 DEF SlotOK, Maybe
  <2>3. QED BY <2>1, <2>2 DEF S!Answers
<1>6. QED BY <1>1, <1>3, <1>4, <1>5 DEF SlotOK

LEMMA FirstType ==
  ASSUME SlotOK, NEW t \in Tasks, NEW call, S!First(t, call)
  PROVE  /\ task[t] \in Worked /\ task[t].session \in Names
         /\ sessq[task[t].session] \in Queue
         /\ sessq[task[t].session].jobs \in Seq(Job)
         /\ sessq[task[t].session].jobs # <<>>
         /\ Head(sessq[task[t].session].jobs) \in Job
         /\ Head(sessq[task[t].session].jobs).id \in Ids
<1>1. task[t] \in Worked /\ task[t].session \in Names
  BY DEF SlotOK, S!First, S!Doing, Maybe, Worked, Coroutine
<1>2. /\ sessq[task[t].session] \in Queue /\ sessq[task[t].session].jobs # <<>>
  BY <1>1 DEF SlotOK, S!First, Maybe
<1>3. sessq[task[t].session].jobs \in Seq(Job)
  BY <1>2 DEF Queue
<1>4. Head(sessq[task[t].session].jobs) \in Job
  BY <1>2, <1>3
<1>5. QED BY <1>1, <1>2, <1>3, <1>4 DEF Job

LEMMA ResetsType ==
  ASSUME SlotOK, sent \in Seq(Message), NEW t \in Tasks, S!Resets(t)
  PROVE  SlotOK' /\ sent' \in Seq(Message)
<1> DEFINE nm == task[t].session
<1>1. S!First(t, "reset") /\ UNCHANGED <<queue, stage, held>>
  BY DEF S!Resets, S!slot
<1>2. nm \in Names /\ Head(sessq[nm].jobs).id \in Ids
  BY <1>1, FirstType
<1>3. booted' \in Maybe([Names -> BOOLEAN])
  BY <1>2 DEF S!Resets, SlotOK, Maybe
<1>4. sessq' \in [Names -> Maybe(Queue)]
  BY <1>2 DEF S!Resets, S!Dropped, SlotOK, Maybe
<1>5. task' \in [Tasks -> Maybe(Worked)]
  <2>1. ASSUME NEW u \in Tasks, task[u] # None
        PROVE  [task[u] EXCEPT !.own = FALSE] \in Worked
    BY <2>1 DEF SlotOK, Maybe, Worked, Coroutine
  <2>2. task' = [u \in Tasks |-> IF u = t THEN None
                                  ELSE IF u \in S!Of(nm) THEN [task[u] EXCEPT !.own = FALSE]
                                  ELSE task[u]]
    BY DEF S!Resets
  <2> HIDE DEF nm
  <2>3. ASSUME NEW u \in Tasks
        PROVE  task'[u] \in Maybe(Worked)
    BY <2>1, <2>2 DEF S!Of, SlotOK, Maybe
  <2>4. QED BY <2>2, <2>3
<1>6. sent' \in Seq(Message)
  BY <1>2, ReplyType, SendType DEF S!Resets
<1>7. QED BY <1>1, <1>3, <1>4, <1>5, <1>6 DEF SlotOK

LEMMA TakesType ==
  ASSUME SlotOK, sent \in Seq(Message), NEW t \in Tasks, S!Takes(t)
  PROVE  SlotOK' /\ sent' \in Seq(Message)
<1> DEFINE nm == task[t].session
           job == Head(sessq[nm].jobs)
           rest == Tail(sessq[nm].jobs)
<1>1. S!First(t, "run") /\ UNCHANGED <<queue, stage, held, booted>>
  BY DEF S!Takes, S!slot
<1>2. nm \in Names /\ job \in Job /\ job.id \in Ids /\ sessq[nm].jobs \in Seq(Job)
      /\ sessq[nm].jobs # <<>>
  BY <1>1, FirstType
<1>3. rest \in Seq(Job)
  BY <1>2
<1>4. /\ [jobs |-> rest, current |-> <<>>] \in Queue
      /\ [jobs |-> rest, current |-> <<job>>] \in Queue
  <2> HIDE DEF rest, job
  <2>1. QED BY <1>2, <1>3 DEF Queue
<1>5. CASE /\ sessq' = [sessq EXCEPT ![nm] = [jobs |-> rest, current |-> <<>>]]
           /\ S!Send(<<S!Reply(job.id, "error")>>)
           /\ UNCHANGED task
  <2> HIDE DEF job, rest, nm
  <2>1. sessq' \in [Names -> Maybe(Queue)]
    BY <1>4, <1>5 DEF SlotOK, Maybe
  <2>2. sent' \in Seq(Message)
    BY <1>2, <1>5, ReplyType, SendType
  <2>3. QED BY <1>1, <1>5, <2>1, <2>2 DEF SlotOK
<1>6. CASE /\ sessq' = [sessq EXCEPT ![nm] = [jobs |-> rest, current |-> <<job>>]]
           /\ task' = [task EXCEPT ![t] =
                         [session |-> nm, job |-> job.id, own |-> TRUE,
                          doing |-> IF S!Up(nm) THEN "running" ELSE "booting"]]
           /\ UNCHANGED sent
  <2> HIDE DEF job, rest, nm
  <2>1. sessq' \in [Names -> Maybe(Queue)]
    BY <1>4, <1>6 DEF SlotOK, Maybe
  <2>2. [session |-> nm, job |-> job.id, own |-> TRUE,
         doing |-> IF S!Up(nm) THEN "running" ELSE "booting"] \in Worked
    BY <1>2 DEF Worked, Coroutine, Maybe
  <2>3. task' \in [Tasks -> Maybe(Worked)]
    BY <1>6, <2>2 DEF SlotOK, Maybe
  <2>4. QED BY <1>1, <1>6, <2>1, <2>3 DEF SlotOK
<1>7. QED BY <1>5, <1>6 DEF S!Takes

LEMMA StepType ==
  ASSUME SlotOK, Owned, sent \in Seq(Message), NEW t \in Tasks,
         S!Step(t) \/ S!BootFails(t)
  PROVE  SlotOK' /\ sent' \in Seq(Message)
<1>1. CASE S!Ends(t)
  BY <1>1 DEF S!Ends, S!slot, SlotOK, Maybe
<1>2. CASE S!BootEnds(t)
  <2>1. UNCHANGED <<queue, stage, held, sessq, sent>> /\ task[t] # None
        /\ task[t].doing = "booting"
    BY <1>2 DEF S!BootEnds, S!slot, S!Doing
  <2>2. task[t].session \in Names /\ [task[t] EXCEPT !.doing = "running"] \in Worked
    BY <2>1 DEF SlotOK, Maybe, Worked, Coroutine
  <2>3. CASE task' = [task EXCEPT ![t] = None] /\ UNCHANGED booted
    BY <2>1, <2>3 DEF SlotOK, Maybe
  <2>4. CASE /\ booted # None /\ booted' = [booted EXCEPT ![task[t].session] = TRUE]
             /\ task' = [task EXCEPT ![t].doing = "running"]
    <3>1. booted' \in Maybe([Names -> BOOLEAN])
      BY <2>2, <2>4 DEF SlotOK, Maybe
    <3>2. task' \in [Tasks -> Maybe(Worked)]
      BY <2>2, <2>4 DEF SlotOK, Maybe
    <3>3. QED BY <2>1, <3>1, <3>2 DEF SlotOK
  <2>5. QED BY <1>2, <2>3, <2>4 DEF S!BootEnds
<1>3. CASE S!RunEnds(t) \/ S!BootFails(t)
  BY <1>3, AnswersType DEF S!RunEnds, S!BootFails, S!Doing
<1>4. QED BY <1>1, <1>2, <1>3, ResetsType, TakesType DEF S!Step

\* What happens to the slot.
SlotActs ==
  \/ \E cmd \in SlotCommand : S!Receive(cmd)
  \/ \E nm \in Names : S!Cancel(nm) \/ S!Route(nm)
  \/ S!Drain \/ S!AssignBegins \/ S!FetchArrives \/ S!FetchFails \/ S!StartEnds \/ S!StartFails
  \/ \E t \in Tasks : S!Step(t) \/ S!BootFails(t)

LEMMA OwnedStep ==
  ASSUME SlotOK, Owned, SlotActs
  PROVE  Owned'
<1> USE DEF Owned
<1>1. CASE UNCHANGED <<sessq, task>>
  BY <1>1
<1>2. ASSUME NEW nm \in Names, S!Cancel(nm)
      PROVE  Owned'
  <2>1. CASE task' = S!Killed(nm) /\ sessq' = S!Dropped(nm)
    <3>1. \A t \in Tasks : task'[t] # None => task'[t] = task[t] /\ task[t].session # nm
      BY <2>1 DEF S!Killed, S!Of
    <3>2. \A o \in Names : o # nm => sessq'[o] = sessq[o]
      BY <2>1 DEF S!Dropped, SlotOK
    <3>3. \A t \in Tasks : task[t] # None => task[t].session \in Names
      BY DEF SlotOK, Maybe, Worked, Coroutine
    <3>4. QED BY <3>1, <3>2, <3>3
  <2>2. QED BY <1>1, <1>2, <2>1 DEF S!Cancel, S!sessions
<1>3. ASSUME NEW nm \in Names, S!Route(nm)
      PROVE  Owned'
  <2>1. CASE UNCHANGED task /\ sessq[nm] # None
             /\ sessq' = [sessq EXCEPT ![nm].jobs = Append(@, Head(queue))]
    <3>1. sessq'[nm] # None
      <4> DEFINE q == [sessq[nm] EXCEPT !.jobs = Append(sessq[nm].jobs, Head(queue))]
      <4>1. sessq'[nm] = q
        BY <2>1 DEF SlotOK
      <4>2. sessq[nm] \in Queue /\ Head(queue) \in Job
        BY <1>3, <2>1, TurnType DEF S!Route, SlotOK, Maybe
      <4>3. q \in Queue
        BY <4>2, QueueType
      <4>4. None \notin Queue
        BY RecordsAssumption
      <4>5. QED BY <4>1, <4>3, <4>4
    <3>2. \A o \in Names : sessq[o] # None => sessq'[o] # None
      BY <2>1, <3>1 DEF SlotOK
    <3>3. \A t \in Tasks : task[t] # None => task[t].session \in Names
      BY DEF SlotOK, Maybe, Worked, Coroutine
    <3>4. QED BY <2>1, <3>2, <3>3
  <2>2. CASE /\ sessq' = [sessq EXCEPT ![nm] = S!NewQueue(Head(queue))]
             /\ \E t \in Tasks : task[t] = None
             /\ task' = [task EXCEPT ![CHOOSE t \in Tasks : task[t] = None] =
                           [session |-> nm, doing |-> "waiting", job |-> None, own |-> TRUE]]
    <3>1. S!NewQueue(Head(queue)) # None
      BY <1>3, TurnType, QueueType, RecordsAssumption DEF S!Route
    <3>2. \A o \in Names : sessq[o] # None => sessq'[o] # None
      BY <2>2, <3>1 DEF SlotOK
    <3>3. \A t \in Tasks : task'[t] = task[t] \/ task'[t].doing = "waiting"
      BY <2>2 DEF SlotOK
    <3>4. \A t \in Tasks : task[t] # None => task[t].session \in Names
      BY DEF SlotOK, Maybe, Worked, Coroutine
    <3>5. QED BY <3>2, <3>3, <3>4
  <2>3. QED BY <1>1, <1>3, <2>1, <2>2 DEF S!Route, S!sessions
<1>4. CASE S!Drain
  <2>1. \A t \in Tasks : task'[t] # None => task'[t] = [task[t] EXCEPT !.own = FALSE] /\ task[t] # None
    BY <1>4 DEF S!Drain
  <2>2. \A t \in Tasks : task[t] # None => ~[task[t] EXCEPT !.own = FALSE].own
    BY DEF SlotOK, Maybe, Worked, Coroutine
  <2>3. QED BY <2>1, <2>2
<1>5. ASSUME NEW t \in Tasks, S!Ends(t)
      PROVE  Owned'
  BY <1>5 DEF S!Ends, SlotOK
<1>6. ASSUME NEW t \in Tasks, S!Resets(t)
      PROVE  Owned'
  <2> DEFINE nm == task[t].session
  <2>1. nm \in Names
    BY <1>6, FirstType DEF S!Resets
  <2>2. sessq' = S!Dropped(nm)
    BY <1>6 DEF S!Resets
  <2>3. task' = [u \in Tasks |-> IF u = t THEN None
                                  ELSE IF u \in S!Of(nm) THEN [task[u] EXCEPT !.own = FALSE]
                                  ELSE task[u]]
    BY <1>6 DEF S!Resets
  <2> HIDE DEF nm
  <2>4. ASSUME NEW u \in Tasks, task'[u] # None
        PROVE  \/ ~task'[u].own
               \/ task'[u] = task[u] /\ task[u] # None /\ task[u].session # nm
    <3>1. task[u] # None => ~[task[u] EXCEPT !.own = FALSE].own
      BY DEF SlotOK, Maybe, Worked, Coroutine
    <3>2. QED BY <2>3, <2>4, <3>1 DEF S!Of
  <2>5. \A o \in Names : o # nm => sessq'[o] = sessq[o]
    BY <2>2 DEF S!Dropped, SlotOK
  <2>6. \A u \in Tasks : task[u] # None => task[u].session \in Names
    BY DEF SlotOK, Maybe, Worked, Coroutine
  <2>7. QED BY <2>4, <2>5, <2>6
<1>7. ASSUME NEW t \in Tasks, S!Takes(t)
      PROVE  Owned'
  <2> DEFINE nm == task[t].session
             job == Head(sessq[nm].jobs)
  <2>1. nm \in Names /\ sessq[nm].jobs \in Seq(Job) /\ sessq[nm].jobs # <<>> /\ job \in Job
        /\ Tail(sessq[nm].jobs) \in Seq(Job)
    <3>1. S!First(t, "run")
      BY <1>7 DEF S!Takes
    <3>2. nm \in Names /\ sessq[nm].jobs \in Seq(Job) /\ sessq[nm].jobs # <<>> /\ job \in Job
      BY <3>1, FirstType
    <3>3. \A q \in Seq(Job) : q # <<>> => Tail(q) \in Seq(Job)
      OBVIOUS
    <3>4. QED BY <3>2, <3>3
  <2>2. \E c \in {<<>>, <<job>>} :
          sessq' = [sessq EXCEPT ![nm] = [jobs |-> Tail(sessq[nm].jobs), current |-> c]]
    BY <1>7 DEF S!Takes
  <2>3. task' = task \/ task' = [task EXCEPT ![t] =
                           [session |-> nm, job |-> job.id, own |-> TRUE,
                            doing |-> IF S!Up(nm) THEN "running" ELSE "booting"]]
    BY <1>7 DEF S!Takes
  <2> HIDE DEF job
  <2>4. ASSUME NEW c \in {<<>>, <<job>>}
        PROVE  [jobs |-> Tail(sessq[nm].jobs), current |-> c] # None
    <3>1. [jobs |-> Tail(sessq[nm].jobs), current |-> c] \in Queue
      BY <2>1 DEF Queue
    <3>2. QED BY <3>1, RecordsAssumption
  <2> HIDE DEF nm
  <2>5. \A o \in Names : sessq[o] # None => sessq'[o] # None
    BY <2>1, <2>2, <2>4 DEF SlotOK
  <2>6. sessq'[nm] # None
    BY <2>1, <2>2, <2>4 DEF SlotOK
  <2>7. \A u \in Tasks : task'[u] = task[u] \/ task'[u].session = nm
    BY <2>3 DEF SlotOK
  <2>8. \A u \in Tasks : task[u] # None => task[u].session \in Names
    BY DEF SlotOK, Maybe, Worked, Coroutine
  <2>9. QED BY <2>5, <2>6, <2>7, <2>8
<1>8. ASSUME NEW t \in Tasks, S!BootEnds(t)
      PROVE  Owned'
  <2>1. task[t] # None /\ task[t].doing = "booting" /\ task[t] \in Worked /\ sessq' = sessq
    BY <1>8 DEF S!BootEnds, S!Doing, SlotOK, Maybe
  <2>2. task' = [task EXCEPT ![t] = None] \/ task' = [task EXCEPT ![t].doing = "running"]
    BY <1>8 DEF S!BootEnds
  <2>3. \A u \in Tasks : u # t => task'[u] = task[u]
    BY <2>2 DEF SlotOK
  <2>4. task'[t] = None \/ task'[t] = [task[t] EXCEPT !.doing = "running"]
    BY <2>2 DEF SlotOK
  <2>5. task'[t] # None => task'[t].own = task[t].own /\ task'[t].session = task[t].session
    BY <2>1, <2>4 DEF Worked, Coroutine
  <2>6. QED BY <2>1, <2>3, <2>5
<1>9. ASSUME NEW t \in Tasks, S!RunEnds(t) \/ S!BootFails(t)
      PROVE  Owned'
  <2>1. /\ task[t] # None /\ task[t].doing # "waiting" /\ task[t] \in Worked
        /\ task[t].session \in Names
        /\ task' = [task EXCEPT ![t].doing = "waiting", ![t].job = None]
        /\ sessq' = IF task[t].own THEN [sessq EXCEPT ![task[t].session].current = <<>>]
                    ELSE sessq
    BY <1>9 DEF S!RunEnds, S!BootFails, S!Answers, S!Doing, SlotOK, Maybe, Worked, Coroutine
  <2>2. \A u \in Tasks : u # t => task'[u] = task[u]
    BY <2>1 DEF SlotOK
  <2>3. task'[t].doing = "waiting"
    <3>1. task'[t] = [task[t] EXCEPT !.doing = "waiting", !.job = None]
      BY <2>1 DEF SlotOK
    <3>2. QED BY <2>1, <3>1 DEF Worked, Coroutine
  <2>4. \A o \in Names : sessq[o] # None => sessq'[o] # None
    <3>1. CASE sessq' = sessq
      BY <3>1
    <3>2. CASE task[t].own
      <4>1. sessq[task[t].session] \in Queue
        BY <2>1, <3>2 DEF SlotOK, Maybe
      <4>2. [sessq[task[t].session] EXCEPT !.current = <<>>] \in Queue
        BY <4>1 DEF Queue
      <4>3. sessq' = [sessq EXCEPT ![task[t].session] =
                        [sessq[task[t].session] EXCEPT !.current = <<>>]]
        BY <2>1, <3>2
      <4>4. QED BY <4>2, <4>3, RecordsAssumption DEF SlotOK
    <3>3. QED BY <2>1, <3>1, <3>2
  <2>5. \A u \in Tasks : task[u] # None => task[u].session \in Names
    BY DEF SlotOK, Maybe, Worked, Coroutine
  <2>6. QED BY <2>2, <2>3, <2>4, <2>5
<1>10. CASE \/ \E cmd \in SlotCommand : S!Receive(cmd)
            \/ S!AssignBegins \/ S!FetchArrives \/ S!FetchFails \/ S!StartEnds \/ S!StartFails
  BY <1>1, <1>10 DEF S!Receive, S!AssignBegins, S!FetchArrives, S!FetchFails, S!StartEnds,
                     S!StartFails, S!sessions
<1>11. QED BY <1>2, <1>3, <1>4, <1>5, <1>6, <1>7, <1>8, <1>9, <1>10 DEF SlotActs, S!Step

LEMMA SlotStep ==
  ASSUME SlotOK, Owned, sent \in Seq(Message), SlotActs
  PROVE  SlotOK' /\ Owned' /\ sent' \in Seq(Message)
<1>1. SlotOK' /\ sent' \in Seq(Message)
  BY ReceiveType, CancelType, RouteType, SlotTaskType, StepType DEF SlotActs
<1>2. QED BY <1>1, OwnedStep
-----------------------------------------------------------------------------
(* The worker's side: the slots of the reactors. *)

ReactorsOK ==
  /\ jobs \in [Reactors -> Seq(Ids)] /\ run \in [Reactors -> Maybe(Invocation)]
  /\ mesh_seq \in 0..Len(MeshIds) /\ mesh_replies \subseteq Mesh

LEMMA ReactorStep ==
  ASSUME ReactorsOK, sent \in Seq(Message), NEW n \in Reactors,
         Start(n) \/ MeshCall(n) \/ Deadline(n) \/ Wake(n) \/ Finish(n)
  PROVE  ReactorsOK' /\ sent' \in Seq(Message)
<1> USE DEF ReactorsOK
<1>1. CASE Start(n)
  <2>1. jobs[n] \in Seq(Ids) /\ jobs[n] # <<>> /\ Tail(jobs[n]) \in Seq(Ids) /\ Head(jobs[n]) \in Ids
    BY <1>1 DEF Start
  <2>2. [id |-> Head(jobs[n]), mesh |-> None, called |-> FALSE, late |-> FALSE, woken |-> FALSE]
          \in Invocation
    BY <2>1 DEF Invocation, Maybe
  <2>3. jobs' \in [Reactors -> Seq(Ids)]
    BY <1>1, <2>1 DEF Start
  <2>4. run' \in [Reactors -> Maybe(Invocation)]
    BY <1>1, <2>2 DEF Start, Maybe
  <2>5. QED BY <1>1, <2>3, <2>4 DEF Start
<1>2. ASSUME NEW r \in Invocation
      PROVE  /\ \A id \in Maybe(Mesh), c \in BOOLEAN, w \in BOOLEAN :
                   /\ [r EXCEPT !.mesh = id, !.called = c] \in Invocation
                   /\ [r EXCEPT !.mesh = id, !.woken = w] \in Invocation
             /\ [r EXCEPT !.late = TRUE] \in Invocation
             /\ r.id \in Ids /\ r.mesh \in Maybe(Mesh)
  BY DEF Invocation
<1>3. CASE MeshCall(n)
  <2> DEFINE id == MeshIds[mesh_seq']
  <2>1. mesh_seq' \in 1..Len(MeshIds)
    BY <1>3, MeshIdsAssumption DEF MeshCall
  <2>2. id \in Mesh
    BY <2>1, MeshIdsAssumption DEF Mesh
  <2>3. run[n] \in Invocation
    BY <1>3 DEF MeshCall, Maybe
  <2>4. run' = [run EXCEPT ![n] = [run[n] EXCEPT !.mesh = id, !.called = TRUE]]
    BY <1>3 DEF MeshCall
  <2>5. \E m \in Uses[n] : S!Send(<<[type |-> "invoke", id |-> id, name |-> m]>>)
    BY <1>3 DEF MeshCall
  <2> HIDE DEF id
  <2>6. run' \in [Reactors -> Maybe(Invocation)]
    <3>1. [run[n] EXCEPT !.mesh = id, !.called = TRUE] \in Invocation
      BY <1>2, <2>2, <2>3 DEF Maybe
    <3>2. QED BY <2>4, <3>1 DEF Maybe
  <2>7. sent' \in Seq(Message)
    <3>1. PICK m \in Uses[n] : S!Send(<<[type |-> "invoke", id |-> id, name |-> m]>>)
      BY <2>5
    <3>2. m \in Workloads
      BY UsesAssumption
    <3>3. [type |-> "invoke", id |-> id, name |-> m] \in [type : {"invoke"}, id : Mesh, name : Workloads]
      BY <2>2, <3>2
    <3>4. [type |-> "invoke", id |-> id, name |-> m] \in Message
      BY <3>3 DEF Message
    <3>5. QED BY <3>1, <3>4, SendType
  <2>8. QED BY <1>3, <2>1, <2>6, <2>7 DEF MeshCall
<1>4. CASE Deadline(n)
  <2>1. run[n] \in Invocation /\ run' = [run EXCEPT ![n] = [run[n] EXCEPT !.late = TRUE]]
    BY <1>4 DEF Deadline, Asking, Maybe
  <2>2. run' \in [Reactors -> Maybe(Invocation)]
    <3>1. [run[n] EXCEPT !.late = TRUE] \in Invocation
      BY <1>2, <2>1
    <3>2. QED BY <2>1, <3>1 DEF Maybe
  <2>3. QED BY <1>4, <2>2 DEF Deadline
<1>5. CASE Wake(n)
  <2>1. PICK id \in {None, run[n].mesh} :
          run' = [run EXCEPT ![n] = [run[n] EXCEPT !.mesh = id, !.woken = FALSE]]
    BY <1>5 DEF Wake
  <2>2. run[n] \in Invocation
    BY <1>5 DEF Wake, Asking, Maybe
  <2>3. run' \in [Reactors -> Maybe(Invocation)]
    <3>1. [run[n] EXCEPT !.mesh = id, !.woken = FALSE] \in Invocation
      BY <1>2, <2>2 DEF Maybe
    <3>2. QED BY <2>1, <3>1 DEF Maybe
  <2>4. mesh_replies' \subseteq Mesh
    BY <1>5 DEF Wake
  <2>5. QED BY <1>5, <2>3, <2>4 DEF Wake
<1>6. CASE Finish(n)
  <2>1. run[n].id \in Ids
    BY <1>2, <1>6 DEF Finish, Maybe
  <2>2. sent' \in Seq(Message)
    BY <1>6, <2>1, ReplyType, SendType DEF Finish
  <2>3. run' \in [Reactors -> Maybe(Invocation)]
    BY <1>6 DEF Finish, Maybe
  <2>4. QED BY <1>6, <2>2, <2>3 DEF Finish
<1>7. QED BY <1>1, <1>3, <1>4, <1>5, <1>6

LEMMA MeshReplyStep ==
  ASSUME ReactorsOK, NEW id \in Mesh, HearsMesh(id)
  PROVE  ReactorsOK'
<1>1. ASSUME NEW r \in Invocation
      PROVE  [r EXCEPT !.woken = TRUE] \in Invocation
  BY DEF Invocation
<1>2. ASSUME NEW n \in Reactors
      PROVE  Woken[n] \in Maybe(Invocation)
  BY <1>1 DEF Woken, Asking, ReactorsOK, Maybe
<1>3. run' \in [Reactors -> Maybe(Invocation)]
  BY <1>2 DEF HearsMesh, Woken
<1>4. QED BY <1>3 DEF HearsMesh, ReactorsOK

\* A command that arrives.
LEMMA CommandType ==
  ASSUME NEW m \in Order
  PROVE  /\ Command(m) \in SlotCommand
         /\ (IF m.type = "invoke" THEN m.name ELSE m.slot) # Pool
              => m.type = "invoke" /\ m.name \in Reactors /\ m.id \in Ids
<1>1. CASE m \in [type : {"invoke"}, id : Ids, name : Workloads, call : Payloads]
  <2>1. m.type = "invoke" /\ m.id \in Ids /\ m.name \in Workloads /\ m.call \in Payloads
    BY <1>1
  <2>2. m.call.session \in Names /\ m.call.call \in {"run", "reset"}
    BY <2>1 DEF Payloads
  <2>3. Command(m) = [type |-> "invoke", id |-> m.id, session |-> m.call.session,
                      call |-> m.call.call]
    BY <2>1 DEF Command
  <2>4. Command(m) \in Job
    BY <2>1, <2>2, <2>3 DEF Job
  <2>5. QED BY <2>1, <2>4 DEF SlotCommand, Workloads
<1>2. CASE \/ m \in [type : {"assign"}, slot : {Pool}, name : {Pool}, spec : {Spec1}]
           \/ m \in [type : {"drain"}, slot : {Pool}]
  <2>1. m.type \in {"assign", "drain"} /\ m.slot = Pool
    BY <1>2
  <2>2. Command(m) \in [type : {"assign", "drain"}]
    BY <2>1 DEF Command
  <2>3. QED BY <2>1, <2>2 DEF SlotCommand
<1>3. QED BY <1>1, <1>2 DEF Order

LEMMA HeadInOrder ==
  ASSUME GP!TypeOK, Ordered, wire[Worker] # <<>>
  PROVE  Head(wire[Worker]) \in Order
<1>1. wire[Worker] \in Seq(GP!Command)
  BY DEF GP!TypeOK
<1>2. 1 \in DOMAIN wire[Worker] /\ Head(wire[Worker]) = wire[Worker][1]
  BY <1>1
<1>3. QED BY <1>2 DEF Ordered

LEMMA ReportIsTrue ==
  ASSUME held \in BOOLEAN
  PROVE  Report \in TrueReport
<1>1. Pool \in Workloads /\ Pool \notin Reactors /\ Reactors \subseteq Workloads /\ None \notin Workloads
  BY UsesAssumption, NoneAssumption DEF Workloads
<1>2. ASSUME NEW s \in Workloads
      PROVE  /\ Report[s] \in [workload : Workloads \cup {None}, state : {"none", "loading", "running"}]
             /\ Report[s].workload = None <=> Report[s].state = "none"
  BY <1>1 DEF Report
<1>3. Report \in GP!Reports
  <2>1. Report = [s \in Workloads |-> Report[s]]
    BY DEF Report
  <2> HIDE DEF Report
  <2>2. QED BY <1>2, <2>1 DEF GP!Reports
<1>4. /\ \A n \in Reactors : Report[n] = [workload |-> n, state |-> "running"]
      /\ Report[Pool].workload \in {Pool, None}
  BY <1>1 DEF Report
<1>5. QED BY <1>3, <1>4 DEF TrueReport
-----------------------------------------------------------------------------
(* The invariant is inductive. *)

LEMMA WorkerStep ==
  ASSUME Inv, [Next]_vars
  PROVE  SlotOK' /\ Owned' /\ ReactorsOK' /\ sent' \in Seq(Message)
<1>1. GP!TypeOK /\ Ordered /\ SlotOK /\ Owned /\ ReactorsOK /\ sent \in Seq(Message)
  BY DEF Inv, TypeOK, ReactorsOK
<1>2. ASSUME SlotActs, UNCHANGED reactors
      PROVE  SlotOK' /\ Owned' /\ ReactorsOK' /\ sent' \in Seq(Message)
  BY <1>1, <1>2, SlotStep DEF reactors, ReactorsOK
<1>3. ASSUME UNCHANGED pool, ReactorsOK', sent' \in Seq(Message)
      PROVE  SlotOK' /\ Owned' /\ ReactorsOK' /\ sent' \in Seq(Message)
  BY <1>1, <1>3 DEF pool, SlotOK, Owned
<1>4. ASSUME UNCHANGED <<pool, reactors>>, sent' \in Seq(Message)
      PROVE  SlotOK' /\ Owned' /\ ReactorsOK' /\ sent' \in Seq(Message)
  <2>1. ReactorsOK'
    BY <1>1, <1>4 DEF reactors, ReactorsOK
  <2>2. QED BY <1>3, <1>4, <2>1
<1>5. UNCHANGED worker => UNCHANGED <<pool, reactors>> /\ sent' \in Seq(Message)
  BY <1>1 DEF worker
<1>6. sent # <<>> /\ sent' = Tail(sent) => sent' \in Seq(Message)
  BY <1>1
<1>7. CASE UNCHANGED worker
  BY <1>4, <1>5, <1>7
<1>8. CASE GatewayHears
  BY <1>4, <1>6, <1>8 DEF GatewayHears, Uplink
<1>9. CASE Receive
  <2> DEFINE m == Head(wire[Worker])
             n == IF m.type = "invoke" THEN m.name ELSE m.slot
  <2>1. wire[Worker] # <<>>
        /\ IF n = Pool THEN S!Receive(Command(m)) /\ UNCHANGED reactors
           ELSE /\ jobs' = [jobs EXCEPT ![n] = Append(@, m.id)]
                /\ UNCHANGED <<pool, sent, run, mesh_seq, mesh_replies>>
    BY <1>9 DEF Receive
  <2>2. m \in Order
    BY <1>1, <2>1, HeadInOrder
  <2>3. Command(m) \in SlotCommand /\ (n # Pool => n \in Reactors /\ m.id \in Ids)
    BY <2>2, CommandType
  <2> HIDE DEF m, n
  <2>4. CASE n = Pool
    BY <1>2, <2>1, <2>3, <2>4 DEF SlotActs
  <2>5. CASE n # Pool
    <3>1. /\ jobs' = [jobs EXCEPT ![n] = Append(jobs[n], m.id)]
          /\ UNCHANGED <<pool, sent, run, mesh_seq, mesh_replies>>
      BY <2>1, <2>5
    <3>2. jobs' \in [Reactors -> Seq(Ids)]
      <4>1. Append(jobs[n], m.id) \in Seq(Ids)
        BY <1>1, <2>3, <2>5 DEF ReactorsOK
      <4>2. QED BY <1>1, <3>1, <4>1 DEF ReactorsOK
    <3>3. ReactorsOK'
      BY <1>1, <3>1, <3>2 DEF ReactorsOK
    <3>4. QED BY <1>1, <1>3, <3>1, <3>3
  <2>6. QED BY <2>4, <2>5
<1>10. CASE Heartbeat
  <2>1. held \in BOOLEAN
    BY <1>1 DEF SlotOK
  <2>2. [type |-> "heartbeat", slots |-> Report] \in Message
    BY <2>1, ReportIsTrue DEF Message
  <2> DEFINE m == [type |-> "heartbeat", slots |-> Report]
  <2>3. S!Send(<<m>>) /\ UNCHANGED <<pool, reactors>>
    BY <1>10 DEF Heartbeat
  <2> HIDE DEF m
  <2>4. sent' \in Seq(Message)
    BY <1>1, <2>2, <2>3, SendType DEF m
  <2>5. QED BY <1>4, <2>3, <2>4
<1>11. CASE \/ SlotTask \/ \E t \in Tasks : Session(t) \/ SessionBootFails(t)
            \/ \E nm \in Names : Cancel(nm)
  <2>1. SlotActs /\ UNCHANGED reactors
    BY <1>11 DEF SlotTask, Slot, Session, SessionBootFails, Cancel, SlotActs
  <2>2. QED BY <1>2, <2>1
<1>12. CASE AssignmentFails
  BY <1>2, <1>12 DEF AssignmentFails, SlotActs
<1>13. ASSUME NEW n \in Reactors, Start(n) \/ MeshCall(n) \/ Deadline(n) \/ Wake(n) \/ Finish(n)
       PROVE  SlotOK' /\ Owned' /\ ReactorsOK' /\ sent' \in Seq(Message)
  <2>1. ReactorsOK' /\ sent' \in Seq(Message)
    BY <1>1, <1>13, ReactorStep
  <2>2. UNCHANGED pool
    BY <1>13 DEF Start, MeshCall, Deadline, Wake, Finish, Local
  <2>3. QED BY <1>3, <2>1, <2>2
<1>14. ASSUME NEW id \in Mesh, HearsMesh(id)
       PROVE  SlotOK' /\ Owned' /\ ReactorsOK' /\ sent' \in Seq(Message)
  <2>1. ReactorsOK' /\ UNCHANGED <<pool, sent>>
    BY <1>1, <1>14, MeshReplyStep DEF HearsMesh
  <2>2. QED BY <1>1, <1>3, <2>1
<1>15. CASE LinkLoses
  BY <1>4, <1>5, <1>6, <1>15 DEF LinkLoses
<1>16. CASE \/ UNCHANGED vars \/ Tick \/ Operator \/ ReplyLost \/ Rebooted
            \/ \E id \in Ids : Overdue(id)
            \/ \E c \in Clients : Hears(c) \/ \E call \in Payloads : Request(c, call)
  BY <1>7, <1>16 DEF vars, Tick, Operator, ReplyLost, Rebooted, Overdue, Hears, Request
<1>17. QED BY <1>8, <1>9, <1>10, <1>11, <1>12, <1>13, <1>14, <1>15, <1>16 DEF Next, System

LEMMA ClientStep ==
  ASSUME TypeOK, target \in [Clients -> Workloads], [Next]_vars
  PROVE  /\ asked' \in [Clients -> {"unsent", "waiting", "told"}] /\ faults' \subseteq Faults
         /\ target' \in [Clients -> Workloads]
<1>1. UNCHANGED target
  BY DEF Next, System, vars, clients, GatewayHears, Receive, Heartbeat, SlotTask, Slot, Overdue,
         HearsMesh, Hears, Start, MeshCall, Deadline, Wake, Finish, Local, Session,
         SessionBootFails, Tick, Request, Operator, Cancel, LinkLoses, ReplyLost,
         AssignmentFails, Rebooted, Fault
<1>2. \/ UNCHANGED asked \/ \E c \in Clients : asked' = [asked EXCEPT ![c] = "waiting"]
      \/ \E c \in Clients : asked' = [asked EXCEPT ![c] = "told"]
  BY DEF Next, System, vars, clients, GatewayHears, Receive, Heartbeat, SlotTask, Slot, Overdue,
         HearsMesh, Hears, Start, MeshCall, Deadline, Wake, Finish, Local, Session,
         SessionBootFails, Tick, Request, Operator, Cancel, LinkLoses, ReplyLost,
         AssignmentFails, Rebooted, Fault
<1>3. UNCHANGED faults \/ \E kind \in Faults : faults' = {kind}
  BY DEF Next, System, vars, budgets, GatewayHears, Receive, Heartbeat, SlotTask, Slot, Overdue,
         HearsMesh, Hears, Start, MeshCall, Deadline, Wake, Finish, Local, Session,
         SessionBootFails, Tick, Request, Operator, Cancel, LinkLoses, ReplyLost,
         AssignmentFails, Rebooted, Fault
<1>4. QED BY <1>1, <1>2, <1>3 DEF TypeOK

LEMMA InvStep == Inv /\ [Next]_vars => Inv'
<1> SUFFICES ASSUME Inv, [Next]_vars PROVE Inv'
  OBVIOUS
<1>1. GP!TypeOK'
  BY GatewayStep, GatewayAssumptions, GP!TypeStep DEF Inv
<1>2. Home' /\ Ordered'
  BY HomeStep
<1>3. SlotOK' /\ Owned' /\ ReactorsOK' /\ sent' \in Seq(Message)
  BY WorkerStep
<1>4. /\ asked' \in [Clients -> {"unsent", "waiting", "told"}] /\ faults' \subseteq Faults
      /\ target' \in [Clients -> Workloads]
  BY ClientStep DEF Inv
<1>5. inflight' \in [Ids -> {"none", "waiting", "overdue"}]
  BY <1>1 DEF GP!TypeOK
<1>6. queue' \in Seq(Job \cup [type : {"assign", "drain"}])
  BY <1>3 DEF SlotOK, SlotCommand
<1>7. task' \in [Tasks -> Maybe(Coroutine)]
  BY <1>3 DEF SlotOK, Worked, Maybe
<1>8. TypeOK'
  BY <1>3, <1>4, <1>5, <1>6, <1>7 DEF TypeOK, SlotOK, ReactorsOK
<1>9. QED BY <1>1, <1>2, <1>3, <1>4, <1>8 DEF Inv

LEMMA InvInit == Init => Inv
<1> SUFFICES ASSUME Init PROVE Inv
  OBVIOUS
<1>1. Pool \notin Reactors /\ Reactors \subseteq Workloads /\ Pool \in Workloads
  BY UsesAssumption DEF Workloads
<1>2. SlotOK /\ Owned
  <2>1. task = [t \in Tasks |-> None] /\ queue = <<>> /\ stage = "idle" /\ held = TRUE
        /\ booted = S!Booted /\ sessq = S!NoQueues
    BY DEF Init, S!Init
  <2>2. QED BY <2>1 DEF SlotOK, Owned, S!Booted, S!NoQueues, Maybe
<1>3. ReactorsOK
  BY MeshIdsAssumption DEF Init, ReactorsOK, Maybe
<1>4. sent \in Seq(Message)
  BY DEF Init, S!Init
<1>5. target \in [Clients -> Workloads]
  BY TargetsAssumption DEF Init
<1>6. GP!TypeOK
  <2>1. placements \in [Workloads -> GP!Placement]
    BY DEF Init, GP!Placement
  <2>2. /\ registry \in GP!Registry /\ regfile \in GP!Registry
        /\ view \in [{Worker} -> [Workloads -> Workloads \cup {None}]]
        /\ vstate \in [{Worker} -> [Workloads -> {"none", "loading", "running"}]]
    BY DEF Init, GP!Registry
  <2>3. /\ wire \in [{Worker} -> Seq(GP!Command)] /\ replies \in [Ids -> Seq(GP!Answers)]
        /\ inflight \in [Ids -> {"none", "waiting", "overdue"}]
    BY DEF Init
  <2>4. known = {Worker} /\ fresh = {Worker} /\ cooldown = {}
    BY DEF Init
  <2>5. QED BY <2>1, <2>2, <2>3, <2>4 DEF GP!TypeOK
<1>7. Home /\ Ordered
  <2>1. /\ registry = [n \in Workloads |-> Spec1] /\ regfile = registry /\ known = {Worker}
        /\ fresh = {Worker} /\ view[Worker] = [s \in Workloads |-> s]
        /\ placements = [n \in Workloads |-> HomeOf(n)] /\ wire[Worker] = <<>>
    BY DEF Init, HomeOf
  <2>2. \A n \in Reactors : registry[n] # None
    BY <1>1, <2>1, NoneAssumption
  <2>3. placements[Pool].slot = Pool
    BY <1>1, <2>1 DEF HomeOf
  <2>4. HomeAt(registry, placements, view)
    BY <1>1, <2>1, <2>2, <2>3 DEF HomeAt
  <2>5. QED BY <2>1, <2>4 DEF Home, Ordered
<1>8. TypeOK
  <2>1. inflight \in [Ids -> {"none", "waiting", "overdue"}]
    BY <1>6 DEF GP!TypeOK
  <2>2. asked \in [Clients -> {"unsent", "waiting", "told"}] /\ faults \subseteq Faults
    BY DEF Init
  <2>3. queue \in Seq(Job \cup [type : {"assign", "drain"}]) /\ task \in [Tasks -> Maybe(Coroutine)]
    BY <1>2 DEF SlotOK, SlotCommand, Worked, Maybe
  <2>4. QED BY <1>2, <1>3, <2>1, <2>2, <2>3 DEF TypeOK, SlotOK, ReactorsOK
<1>9. QED BY <1>2, <1>4, <1>5, <1>6, <1>7, <1>8 DEF Inv

LEMMA Invariance == Spec => []Inv
BY InvInit, InvStep, PTL DEF Spec

\* Requests, queues, coroutines and invocations keep their shape: Send, Receive and
\* the handlers never read a field that is not there.
THEOREM TypeCorrect == Spec => []TypeOK
<1>1. Inv => TypeOK
  BY DEF Inv
<1>2. QED BY <1>1, Invariance, PTL

\* The reactors keep their slots: no reconcile, adoption, report, failed assignment
\* or restart moves or drains one, whatever is lost and whatever becomes of the
\* session workload.
THEOREM ReactorsStay == Spec => []Home
<1>1. Inv => Home
  BY DEF Inv
<1>2. QED BY <1>1, Invariance, PTL

\* Every request gets one answer, from real workers over links that lose messages.
THEOREM RequestsAnsweredOnce == Spec => AnsweredOnce
<1>1. Inv /\ [Next]_vars => [\A id \in Ids : G!OneAnswer(id)]_(G!vars)
  <2> SUFFICES ASSUME Inv, [Next]_vars, NEW id \in Ids, ~UNCHANGED G!vars
               PROVE  G!OneAnswer(id)
    OBVIOUS
  <2>1. GP!OpenNext
    BY GatewayStep DEF G!vars, GP!vars, G!desired, GP!desired, G!views, GP!views,
                       G!plan, GP!plan, G!calls, GP!calls
  <2>2. GP!OneAnswer(id)
    BY <2>1, GatewayAssumptions, GP!AnswerStep DEF Inv
  <2>3. ASSUME NEW n \in Workloads, NEW c, GP!HandleInvoke(id, n, c),
               Len(replies'[id]) > Len(replies[id])
        PROVE  \E d \in Payloads : G!HandleInvoke(id, n, d)
    <3>1. replies[id] \in Seq(GP!Answers)
      BY DEF Inv, GP!TypeOK
    <3>2. ~(placements[n] # None /\ placements[n].state = "running")
      BY <2>3, <3>1 DEF GP!HandleInvoke
    <3>3. [session |-> Main, call |-> "run"] \in Payloads
      BY MainAssumption DEF Payloads
    <3>4. ASSUME NEW d \in Payloads
          PROVE  G!HandleInvoke(id, n, d)
      <4>1. GP!HandleInvoke(id, n, d)
        BY <2>3, <3>2 DEF GP!HandleInvoke
      <4>2. QED BY <4>1, SameRelay
    <3>5. QED BY <3>3, <3>4
  <2>4. QED BY <2>2, <2>3 DEF G!OneAnswer, GP!OneAnswer
<1>2. QED BY <1>1, Invariance, PTL DEF Spec, AnsweredOnce, G!AnsweredOnce
-----------------------------------------------------------------------------
(* No session's queue is left with nobody to serve it, while no assignment has *)
(* failed: a start that fails leaves the queues of the workload before.        *)

\* A coroutine that will come back to the session's queue.
Attends(t, nm) ==
  /\ task[t] # None /\ task[t].session = nm
  /\ task[t].doing = "waiting" \/ task[t].own

Attended(nm) == sessq[nm] # None => \E t \in Tasks : Attends(t, nm)

\* Queues without s.sessions would not survive: a coroutine that boots its
\* interpreter then dies, and its queue stays.
Seated == booted = None => \A nm \in Names : sessq[nm] = None

Attention == Seated /\ \A nm \in Names : Attended(nm)

LEMMA AttentionKept ==
  ASSUME Attention, UNCHANGED <<booted, sessq, task>>
  PROVE  Attention'
BY DEF Attention, Seated, Attended, Attends

\* A cancellation takes the queue with its coroutines.
LEMMA CancelAttends ==
  ASSUME SlotOK, Attention, NEW nm \in Names, S!Cancel(nm)
  PROVE  Attention'
<1>1. CASE UNCHANGED <<booted, sessq, task>>
  BY <1>1, AttentionKept
<1>2. CASE /\ booted # None /\ booted' = [booted EXCEPT ![nm] = FALSE]
           /\ task' = S!Killed(nm) /\ sessq' = S!Dropped(nm)
  <2>1. booted' # None
    BY <1>2, RecordsAssumption DEF SlotOK, Maybe
  <2>2. \A o \in Names : sessq'[o] = IF o = nm THEN None ELSE sessq[o]
    BY <1>2 DEF S!Dropped, SlotOK
  <2>3. \A t \in Tasks, o \in Names : Attends(t, o) /\ o # nm => Attends(t, o)'
    BY <1>2 DEF S!Killed, S!Of, Attends
  <2>4. QED BY <2>1, <2>2, <2>3 DEF Attention, Seated, Attended
<1>3. QED BY <1>1, <1>2 DEF S!Cancel, S!sessions

\* A queue is made with its coroutine.
LEMMA RouteAttends ==
  ASSUME SlotOK, Attention, NEW nm \in Names, S!Route(nm)
  PROVE  Attention'
<1>1. CASE UNCHANGED <<booted, sessq, task>>
  BY <1>1, AttentionKept
<1>2. CASE /\ booted # None /\ sessq[nm] # None /\ UNCHANGED <<booted, task>>
           /\ sessq' = [sessq EXCEPT ![nm].jobs = Append(@, Head(queue))]
  <2>1. \A o \in Names : o # nm => sessq'[o] = sessq[o]
    BY <1>2 DEF SlotOK
  <2>2. \A t \in Tasks, o \in Names : Attends(t, o) => Attends(t, o)'
    BY <1>2 DEF Attends
  <2>3. QED BY <1>2, <2>1, <2>2 DEF Attention, Seated, Attended
<1>3. CASE /\ booted # None /\ UNCHANGED booted
           /\ sessq' = [sessq EXCEPT ![nm] = S!NewQueue(Head(queue))]
           /\ \E t \in Tasks : task[t] = None
           /\ task' = [task EXCEPT ![CHOOSE t \in Tasks : task[t] = None] =
                         [session |-> nm, doing |-> "waiting", job |-> None, own |-> TRUE]]
  <2> DEFINE u == CHOOSE t \in Tasks : task[t] = None
             new == [session |-> nm, doing |-> "waiting", job |-> None, own |-> TRUE]
  <2>1. u \in Tasks /\ task[u] = None
    BY <1>3
  <2>2. new \in Coroutine
    BY DEF Coroutine, Maybe
  <2>3. task' = [task EXCEPT ![u] = new]
    BY <1>3
  <2>4. new # None /\ new.session = nm /\ new.doing = "waiting"
    BY <2>2, RecordsAssumption
  <2> HIDE DEF u, new
  <2>5. \A o \in Names : o # nm => sessq'[o] = sessq[o]
    BY <1>3 DEF SlotOK
  <2>6. task'[u] = new /\ \A t \in Tasks : t # u => task'[t] = task[t]
    BY <2>1, <2>3 DEF SlotOK
  <2>7. ASSUME NEW o \in Names, sessq'[o] # None
        PROVE  \E t \in Tasks : Attends(t, o)'
    <3>1. CASE o = nm
      <4>1. \A t \in Tasks : t = u => Attends(t, o)'
        BY <2>4, <2>6, <3>1 DEF Attends
      <4>2. QED BY <2>1, <4>1
    <3>2. CASE o # nm
      <4>1. PICK t \in Tasks : Attends(t, o)
        BY <2>5, <2>7, <3>2 DEF Attention, Attended
      <4>2. t # u
        BY <2>1, <4>1 DEF Attends
      <4>3. QED BY <2>6, <4>1, <4>2 DEF Attends
    <3>3. QED BY <3>1, <3>2
  <2>8. QED BY <1>3, <2>7 DEF Attention, Seated, Attended
<1>4. QED BY <1>1, <1>2, <1>3 DEF S!Route, S!sessions

\* What the slot's task does to the sessions it finds.
LEMMA SlotTaskAttends ==
  ASSUME SlotOK, Attention,
         \/ S!Drain \/ S!AssignBegins \/ S!FetchArrives \/ S!FetchFails \/ S!StartEnds
  PROVE  Attention'
<1>1. CASE S!AssignBegins \/ S!FetchArrives \/ S!FetchFails
  BY <1>1, AttentionKept DEF S!AssignBegins, S!FetchArrives, S!FetchFails, S!sessions
<1>2. CASE S!Drain
  BY <1>2 DEF S!Drain, S!NoQueues, Attention, Seated, Attended
<1>3. CASE S!StartEnds
  <2>1. UNCHANGED <<sessq, task>> /\ booted' \in [Names -> BOOLEAN]
    BY <1>3 DEF S!StartEnds, S!Booted
  <2>2. booted' # None
    BY <2>1, RecordsAssumption
  <2>3. \A nm \in Names : Attended(nm)'
    BY <2>1 DEF Attention, Attended, Attends
  <2>4. QED BY <2>2, <2>3 DEF Attention, Seated
<1>4. QED BY <1>1, <1>2, <1>3

\* The coroutine that dies finds no queue, or has just dropped it.
LEMMA LeavesAttends ==
  ASSUME SlotOK, Attention, NEW t \in Tasks, S!Ends(t) \/ S!Resets(t)
  PROVE  Attention'
<1> DEFINE nm == task[t].session
<1>1. task[t] # None /\ nm \in Names
  BY DEF S!Ends, S!Resets, S!First, S!Doing, SlotOK, Maybe, Worked, Coroutine
<1>2. CASE S!Ends(t)
  <2>1. UNCHANGED <<booted, sessq>> /\ sessq[nm] = None /\ task' = [task EXCEPT ![t] = None]
    BY <1>2 DEF S!Ends
  <2>2. \A u \in Tasks : u # t => task'[u] = task[u]
    BY <2>1 DEF SlotOK
  <2>3. ASSUME NEW o \in Names, sessq'[o] # None
        PROVE  \E u \in Tasks : Attends(u, o)'
    <3>1. PICK u \in Tasks : Attends(u, o)
      BY <2>1, <2>3 DEF Attention, Attended
    <3>2. u # t
      BY <2>1, <2>3, <3>1 DEF Attends
    <3>3. QED BY <2>2, <3>1, <3>2 DEF Attends
  <2>4. QED BY <2>1, <2>3 DEF Attention, Seated, Attended
<1>3. CASE S!Resets(t)
  <2>1. /\ booted' = IF booted = None THEN None ELSE [booted EXCEPT ![nm] = FALSE]
        /\ sessq' = S!Dropped(nm)
        /\ task' = [u \in Tasks |-> IF u = t THEN None
                                    ELSE IF u \in S!Of(nm) THEN [task[u] EXCEPT !.own = FALSE]
                                    ELSE task[u]]
    BY <1>3 DEF S!Resets
  <2>2. booted # None => booted' # None
    BY <2>1, RecordsAssumption DEF SlotOK, Maybe
  <2>3. \A o \in Names : sessq'[o] = IF o = nm THEN None ELSE sessq[o]
    BY <2>1 DEF S!Dropped, SlotOK
  <2>4. ASSUME NEW o \in Names, sessq'[o] # None
        PROVE  \E u \in Tasks : Attends(u, o)'
    <3>1. o # nm /\ sessq[o] # None
      BY <2>3, <2>4
    <3>2. PICK u \in Tasks : Attends(u, o)
      BY <3>1 DEF Attention, Attended
    <3>3. u # t /\ u \notin S!Of(nm)
      BY <3>1, <3>2 DEF Attends, S!Of
    <3>4. task'[u] = task[u]
      BY <2>1, <3>3
    <3>5. QED BY <3>2, <3>4 DEF Attends
  <2>5. Seated'
    BY <2>2, <2>3 DEF Attention, Seated
  <2>6. QED BY <2>4, <2>5 DEF Attention, Attended
<1>4. QED BY <1>2, <1>3

\* One that takes a job or answers one stays.
LEMMA StaysAttends ==
  ASSUME SlotOK, Attention, NEW t \in Tasks, NEW nm \in Names,
         task[t] # None /\ task[t].session = nm,
         sessq[nm] = None => sessq'[nm] = None,
         \A o \in Names : o # nm => sessq'[o] = sessq[o],
         \A u \in Tasks : u # t => task'[u] = task[u],
         Attends(t, nm) => Attends(t, nm)',
         UNCHANGED booted \/ booted' # None
  PROVE  Attention'
<1>1. ASSUME NEW o \in Names, sessq'[o] # None
      PROVE  \E u \in Tasks : Attends(u, o)'
  <2>1. sessq[o] # None
    BY <1>1
  <2>2. PICK u \in Tasks : Attends(u, o)
    BY <2>1 DEF Attention, Attended
  <2>3. CASE u = t
    <3>1. o = nm
      BY <2>2, <2>3 DEF Attends
    <3>2. QED BY <2>2, <2>3, <3>1
  <2>4. CASE u # t
    BY <2>2, <2>4 DEF Attends
  <2>5. QED BY <2>3, <2>4
<1>2. Seated'
  BY DEF Attention, Seated
<1>3. QED BY <1>1, <1>2 DEF Attention, Attended

LEMMA WorksAttends ==
  ASSUME SlotOK, Owned, Attention, NEW t \in Tasks,
         S!Takes(t) \/ S!BootEnds(t) \/ S!RunEnds(t) \/ S!BootFails(t)
  PROVE  Attention'
<1> DEFINE nm == task[t].session
<1>1. task[t] # None /\ task[t] \in Worked /\ nm \in Names
  BY DEF S!Takes, S!First, S!BootEnds, S!RunEnds, S!BootFails, S!Doing, SlotOK, Maybe, Worked, Coroutine
<1>2. CASE S!Takes(t)
  <2> DEFINE job == Head(sessq[nm].jobs)
             new == [session |-> nm, job |-> job.id, own |-> TRUE,
                     doing |-> IF S!Up(nm) THEN "running" ELSE "booting"]
  <2>1. /\ sessq[nm] # None /\ booted # None /\ UNCHANGED booted
        /\ sessq' = [sessq EXCEPT ![nm] = [jobs |-> Tail(sessq[nm].jobs), current |-> <<job>>]]
        /\ task' = [task EXCEPT ![t] = new]
    BY <1>1, <1>2 DEF S!Takes, S!First, Attention, Seated
  <2>2. new \in Coroutine
    BY <1>1, <1>2, FirstType DEF S!Takes, Coroutine, Maybe
  <2>3. new # None /\ new.session = nm /\ new.own
    BY <2>2, RecordsAssumption
  <2> HIDE DEF nm, job, new
  <2>4. \A o \in Names : o # nm => sessq'[o] = sessq[o]
    BY <2>1 DEF SlotOK
  <2>5. task'[t] = new /\ \A u \in Tasks : u # t => task'[u] = task[u]
    BY <2>1 DEF SlotOK
  <2>6. \A o : o = nm => Attends(t, o)'
    BY <2>3, <2>5 DEF Attends
  <2>7. QED BY <1>1, <2>1, <2>4, <2>5, <2>6, StaysAttends DEF nm
<1>3. CASE S!BootEnds(t) /\ booted # None
  <2>1. UNCHANGED sessq /\ booted' = [booted EXCEPT ![nm] = TRUE]
        /\ task' = [task EXCEPT ![t] = [task[t] EXCEPT !.doing = "running"]]
        /\ task[t].doing = "booting"
    BY <1>3 DEF S!BootEnds, S!Doing
  <2>2. booted' # None
    BY <1>3, <2>1, RecordsAssumption DEF SlotOK, Maybe
  <2>3. \A u \in Tasks : u # t => task'[u] = task[u]
    BY <2>1 DEF SlotOK
  <2>4. task'[t] = [task[t] EXCEPT !.doing = "running"]
    BY <2>1 DEF SlotOK
  <2>5. [task[t] EXCEPT !.doing = "running"] \in Coroutine
    BY <1>1 DEF Worked, Coroutine
  <2>6. task'[t] # None /\ task'[t].session = task[t].session /\ task'[t].own = task[t].own
    BY <1>1, <2>4, <2>5, RecordsAssumption DEF Worked, Coroutine
  <2>7. \A o \in Names : Attends(t, o) => Attends(t, o)'
    BY <2>1, <2>6 DEF Attends
  <2>8. QED BY <1>1, <2>1, <2>2, <2>3, <2>7, StaysAttends
<1>4. CASE S!BootEnds(t) /\ booted = None
  <2>1. /\ UNCHANGED <<booted, sessq>>
        /\ \A o \in Names : sessq[o] = None
    BY <1>4 DEF S!BootEnds, Attention, Seated
  <2>2. QED BY <2>1 DEF Attention, Seated, Attended
<1>5. CASE S!RunEnds(t) \/ S!BootFails(t)
  <2>1. /\ task' = [task EXCEPT ![t] = [task[t] EXCEPT !.doing = "waiting", !.job = None]]
        /\ sessq' = IF task[t].own THEN [sessq EXCEPT ![nm].current = <<>>] ELSE sessq
        /\ UNCHANGED booted /\ task[t].doing # "waiting"
    BY <1>5 DEF S!RunEnds, S!BootFails, S!Answers, S!Doing
  <2>2. task'[t] = [task[t] EXCEPT !.doing = "waiting", !.job = None]
        /\ \A u \in Tasks : u # t => task'[u] = task[u]
    BY <2>1 DEF SlotOK
  <2>3. [task[t] EXCEPT !.doing = "waiting", !.job = None] \in Coroutine
    BY <1>1 DEF Worked, Coroutine, Maybe
  <2>4. task'[t] # None /\ task'[t].session = task[t].session /\ task'[t].doing = "waiting"
    BY <1>1, <2>2, <2>3, RecordsAssumption DEF Worked, Coroutine
  <2>5. \A o \in Names : Attends(t, o) => Attends(t, o)'
    BY <2>4 DEF Attends
  <2>6. \A o \in Names : o # nm => sessq'[o] = sessq[o]
    BY <2>1 DEF SlotOK
  <2>7. sessq[nm] = None => sessq'[nm] = None
    BY <1>1, <2>1 DEF Owned
  <2>8. QED BY <1>1, <2>1, <2>2, <2>5, <2>6, <2>7, StaysAttends
<1>6. QED BY <1>2, <1>3, <1>4, <1>5
-----------------------------------------------------------------------------
\* Every step but a start that fails.
LEMMA AttendsStep ==
  ASSUME Inv, [Next]_vars, "assignment" \notin faults', Attention
  PROVE  Attention'
<1>1. SlotOK /\ Owned
  BY DEF Inv
<1>2. CASE UNCHANGED <<booted, sessq, task>>
  BY <1>2, AttentionKept
<1>3. CASE UNCHANGED pool
  BY <1>2, <1>3 DEF pool
<1>4. CASE Receive
  BY <1>2, <1>4 DEF Receive, S!Receive, S!sessions, pool
<1>5. CASE \/ SlotTask \/ (\E t \in Tasks : Session(t) \/ SessionBootFails(t))
           \/ \E nm \in Names : Cancel(nm)
  <2>1. \/ S!Drain \/ S!AssignBegins \/ S!FetchArrives \/ S!StartEnds
        \/ \E nm \in Names : S!Route(nm) \/ S!Cancel(nm)
        \/ \E t \in Tasks : S!Step(t) \/ S!BootFails(t)
    BY <1>5 DEF SlotTask, Slot, Session, SessionBootFails, Cancel
  <2>2. QED BY <1>1, <2>1, SlotTaskAttends, RouteAttends, CancelAttends, LeavesAttends,
               WorksAttends DEF S!Step
<1>6. ~AssignmentFails
  <2>1. AssignmentFails => faults' = {"assignment"}
    BY DEF AssignmentFails, Fault
  <2>2. QED BY <2>1
<1>7. CASE \/ GatewayHears \/ Heartbeat \/ Tick \/ Operator \/ LinkLoses \/ ReplyLost \/ Rebooted
           \/ (\E id \in Ids : Overdue(id)) \/ (\E id \in Mesh : HearsMesh(id))
           \/ (\E c \in Clients : Hears(c) \/ \E call \in Payloads : Request(c, call))
           \/ \E n \in Reactors : Start(n) \/ MeshCall(n) \/ Deadline(n) \/ Wake(n) \/ Finish(n)
           \/ UNCHANGED vars
  BY <1>3, <1>7 DEF GatewayHears, Heartbeat, Tick, Operator, LinkLoses, ReplyLost, Rebooted,
                    Overdue, HearsMesh, Hears, Request, Start, MeshCall, Deadline, Wake, Finish,
                    Local, worker, vars
<1>8. QED BY <1>4, <1>5, <1>6, <1>7 DEF Next, System

\* A session's queue has a coroutine that will come back to it, until a fetch or a
\* start fails: through resets, cancellations, drains and assignments, interpreters
\* that do not boot, lost messages and a restart of the gateway.
THEOREM QueuesServed == Spec => []("assignment" \in faults \/ QueueServed)
<1> DEFINE Held == "assignment" \in faults \/ Attention
<1>1. Init => Held
  BY DEF Init, S!Init, S!NoQueues, S!Booted, Attention, Seated, Attended
<1>2. Inv /\ Held /\ [Next]_vars => Held'
  <2>1. [Next]_vars /\ "assignment" \in faults => "assignment" \in faults'
    BY DEF Next, System, vars, budgets, GatewayHears, Receive, Heartbeat, SlotTask, Slot, Overdue,
           HearsMesh, Hears, Start, MeshCall, Deadline, Wake, Finish, Local, Session,
           SessionBootFails, Tick, Request, Operator, Cancel, LinkLoses, ReplyLost,
           AssignmentFails, Rebooted, Fault
  <2>2. QED BY <2>1, AttendsStep
<1>3. Held => ("assignment" \in faults \/ QueueServed)
  BY DEF Attention, Attended, Attends, QueueServed, S!Of
<1> HIDE DEF Held
<1>4. QED BY <1>1, <1>2, <1>3, Invariance, PTL DEF Spec
=============================================================================
