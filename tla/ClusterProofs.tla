----------------------------- MODULE ClusterProofs -----------------------------
(***************************************************************************)
(* The composition of Gateway and Worker, proved for any number of workers *)
(* and disks, any finite set of names and any budget of requests and       *)
(* faults: every step of the cluster is a step of the gateway and of the   *)
(* computers, each with the other as its environment, so what is proved of *)
(* either holds of the whole; and a cluster at rest stays at rest.         *)
(***************************************************************************)
EXTENDS Cluster, TLAPS

GP == INSTANCE GatewayProofs WITH Ids <- {}, Calls <- {}, inflight <- <<>>,
                                  replies <- <<>>, mode <- "serving"
WP == INSTANCE WorkerProofs
-----------------------------------------------------------------------------
(* The instances. *)

\* The constants of the cluster are as Gateway and Worker assume.
LEMMA GatewayAssumptions ==
  GP!NoneAssumption /\ GP!LocationAssumption /\ GP!MaxWireAssumption
    /\ GP!FiniteAssumption /\ GP!PlacementAssumption
<1>1. None \notin Names \cup Specs \cup Workers /\ None \notin Workers \X Slots
  BY NoneAssumption
<1>2. None \notin GP!Placement
  BY NoneAssumption DEF G!Placement, GP!Placement
<1>3. QED BY <1>1, <1>2, FiniteAssumption, BoundsAssumption
          DEF GP!NoneAssumption, GP!LocationAssumption, GP!MaxWireAssumption,
              GP!FiniteAssumption, GP!PlacementAssumption, GP!IsFiniteSet, IsFiniteSet

LEMMA WorkerAssumptions == WP!KindAssumption /\ WP!NoneAssumption /\ WP!BoundsAssumption
BY KindAssumption, NoneAssumption, BoundsAssumption
   DEF WP!KindAssumption, WP!NoneAssumption, WP!BoundsAssumption, W!Image, WP!Image

\* Cluster instantiates the modules, this one their proofs: the definitions of the
\* two instances are the same, and the next lemmas say so of those that matter.
LEMMA SameReconcile ==
  ASSUME NEW reg, NEW plc, NEW vw, NEW cool
  PROVE  G!Reconcile(reg, plc, vw, cool) <=> GP!Reconcile(reg, plc, vw, cool)
BY DEF G!Reconcile, GP!Reconcile, G!Kept, GP!Kept, G!Cooled, GP!Cooled, G!Adoptions,
       GP!Adoptions, G!Settle, GP!Settle, G!Garbage, GP!Garbage, G!Clear, GP!Clear,
       G!Assignments, GP!Assignments, G!FreeFor, GP!FreeFor, G!Occupy, GP!Occupy,
       G!SentTo, GP!SentTo, G!Overdue, GP!Overdue, G!Unplaced, GP!Unplaced,
       G!Registered, GP!Registered, G!At, GP!At, G!AssignTo, GP!AssignTo, G!DrainOf,
       GP!DrainOf, G!NewPlacement, GP!NewPlacement, G!InSomeOrder, GP!InSomeOrder,
       G!Lost, GP!Lost, G!Contradicted, GP!Contradicted, G!Cardinality, GP!Cardinality,
       G!IsFiniteSet, GP!IsFiniteSet

LEMMA SameWorkerMessage ==
  ASSUME NEW w \in Workers
  PROVE  /\ \A r : G!HandleHeartbeat(w, r) => GP!HandleHeartbeat(w, r)
         /\ \A r : G!HandleRegister(w, r) => GP!HandleRegister(w, r)
         /\ \A n \in Names : G!HandleAssignOk(w, n) => GP!HandleAssignOk(w, n)
         /\ \A n \in Names : G!HandleAssignFailed(w, n) => GP!HandleAssignFailed(w, n)
<1> USE DEF G!Serving, GP!Serving, G!Room, GP!Room, G!desired, GP!desired, G!views,
            GP!views, G!calls, GP!calls, G!Hear, GP!Hear, G!Seen, GP!Seen, G!Stated,
            GP!Stated, G!Adoptions, GP!Adoptions, G!Settle, GP!Settle, G!NewPlacement,
            GP!NewPlacement, G!Unplaced, GP!Unplaced, G!Registered, GP!Registered
<1>1. \A r : G!HandleHeartbeat(w, r) => GP!HandleHeartbeat(w, r)
  BY DEF G!HandleHeartbeat, GP!HandleHeartbeat, G!Judged, GP!Judged
<1>2. \A r : G!HandleRegister(w, r) => GP!HandleRegister(w, r)
  BY DEF G!HandleRegister, GP!HandleRegister, G!NoStates, GP!NoStates
<1>3. \A n \in Names : G!HandleAssignOk(w, n) => GP!HandleAssignOk(w, n)
  BY DEF G!HandleAssignOk, GP!HandleAssignOk
<1>4. \A n \in Names : G!HandleAssignFailed(w, n) => GP!HandleAssignFailed(w, n)
  BY SameReconcile DEF G!HandleAssignFailed, GP!HandleAssignFailed
<1>5. QED BY <1>1, <1>2, <1>3, <1>4

LEMMA SameTick == G!ReconcileTick <=> GP!ReconcileTick
BY SameReconcile DEF G!ReconcileTick, GP!ReconcileTick, G!Room, GP!Room, G!desired, GP!desired

LEMMA SameClientRequest ==
  /\ \A n \in Names, sp \in Specs, force \in BOOLEAN :
       G!HandleDeploy(n, sp, force) => GP!HandleDeploy(n, sp, force)
  /\ \A n \in Names : G!HandleRemove(n) => GP!HandleRemove(n)
  /\ G!HandlePurge => GP!HandlePurge
  /\ G!HandleUpdateWorkers => GP!HandleUpdateWorkers
<1> USE DEF G!Serving, GP!Serving, G!Room, GP!Room, G!desired, GP!desired, G!views,
            GP!views, G!plan, GP!plan, G!calls, GP!calls, G!Save, GP!Save
<1>1. \A n \in Names, sp \in Specs, force \in BOOLEAN :
        G!HandleDeploy(n, sp, force) => GP!HandleDeploy(n, sp, force)
  BY SameReconcile DEF G!HandleDeploy, GP!HandleDeploy
<1>2. ASSUME NEW T
      PROVE  G!Undeploy(T) => GP!Undeploy(T)
  BY DEF G!Undeploy, GP!Undeploy, G!Clear, GP!Clear, G!At, GP!At, G!DrainOf, GP!DrainOf,
         G!InSomeOrder, GP!InSomeOrder, G!Cardinality, GP!Cardinality, G!IsFiniteSet,
         GP!IsFiniteSet
<1>3. \A n \in Names : G!HandleRemove(n) => GP!HandleRemove(n)
  BY <1>2 DEF G!HandleRemove, GP!HandleRemove
<1>4. G!HandlePurge => GP!HandlePurge
  BY <1>2 DEF G!HandlePurge, GP!HandlePurge
<1>5. G!HandleUpdateWorkers => GP!HandleUpdateWorkers
  BY DEF G!HandleUpdateWorkers, GP!HandleUpdateWorkers
<1>6. QED BY <1>1, <1>3, <1>4, <1>5

LEMMA SameTimeAndRestarts ==
  /\ \A w \in Workers : G!WorkerSilent(w) => GP!WorkerSilent(w)
  /\ \A n \in Names, w \in Workers : G!CooldownEnds(n, w) => GP!CooldownEnds(n, w)
  /\ G!Reboot => GP!Reboot
  /\ G!CrashInSave => GP!CrashInSave
<1> USE DEF G!Room, GP!Room, G!desired, GP!desired, G!views, GP!views, G!plan, GP!plan,
            G!calls, GP!calls, G!Forgotten, GP!Forgotten, G!EmptyView, GP!EmptyView,
            G!NoStates, GP!NoStates, G!EmptyRegistry, GP!EmptyRegistry
<1>1. \A w \in Workers : G!WorkerSilent(w) => GP!WorkerSilent(w)
  BY DEF G!WorkerSilent, GP!WorkerSilent
<1>2. \A n \in Names, w \in Workers : G!CooldownEnds(n, w) => GP!CooldownEnds(n, w)
  BY DEF G!CooldownEnds, GP!CooldownEnds
<1>3. (G!Reboot => GP!Reboot) /\ (G!CrashInSave => GP!CrashInSave)
  BY DEF G!Reboot, GP!Reboot, G!CrashInSave, GP!CrashInSave
<1>4. QED BY <1>1, <1>2, <1>3

LEMMA SameSlotStep ==
  ASSUME NEW w \in Workers, NEW s \in Slots
  PROVE  W!SlotStep(w, s) <=> WP!SlotStep(w, s)
<1> USE DEF W!slots, WP!slots, W!tasks, WP!tasks, W!SetMem, WP!SetMem, W!SetDisk,
            WP!SetDisk, W!SetTask, WP!SetTask, W!Send, WP!Send, W!Reply, WP!Reply, W!Beat,
            WP!Beat, W!SlotList, WP!SlotList, W!StateOf, WP!StateOf, W!Live, WP!Live,
            W!Kind, WP!Kind, W!Ready, WP!Ready, W!Pop, WP!Pop, W!Idle, WP!Idle,
            W!EmptySlot, WP!EmptySlot, W!EmptyDisk, WP!EmptyDisk, W!Begun, WP!Begun
<1>1. W!AssignBegins(w, s) <=> WP!AssignBegins(w, s)
  BY DEF W!AssignBegins, WP!AssignBegins
<1>2. W!FetchArrives(w, s) <=> WP!FetchArrives(w, s)
  BY DEF W!FetchArrives, WP!FetchArrives, W!Installed, WP!Installed
<1>3. W!FetchFails(w, s) <=> WP!FetchFails(w, s)
  BY DEF W!FetchFails, WP!FetchFails
<1>4. W!StartEnds(w, s) <=> WP!StartEnds(w, s)
  BY DEF W!StartEnds, WP!StartEnds, W!Warmed, WP!Warmed, W!Stored, WP!Stored
<1>5. W!StartFails(w, s) <=> WP!StartFails(w, s)
  BY DEF W!StartFails, WP!StartFails
<1>6. W!Drain(w, s) <=> WP!Drain(w, s)
  BY DEF W!Drain, WP!Drain
<1>7. W!BootVisits(w, s) <=> WP!BootVisits(w, s)
  BY DEF W!BootVisits, WP!BootVisits
<1>8. QED BY <1>1, <1>2, <1>3, <1>4, <1>5, <1>6, <1>7 DEF W!SlotStep, WP!SlotStep

LEMMA SameWorkerStep ==
  ASSUME NEW w \in Workers
  PROVE  /\ W!WorkerStep(w) <=> WP!WorkerStep(w)
         /\ W!PowerStep(w) <=> WP!PowerStep(w)
<1> USE DEF W!slots, WP!slots, W!tasks, WP!tasks, W!SetMem, WP!SetMem, W!Send, WP!Send,
            W!Beat, WP!Beat, W!SlotList, WP!SlotList, W!StateOf, WP!StateOf, W!Live,
            WP!Live, W!Kind, WP!Kind, W!Idle, WP!Idle, W!Booted, WP!Booted, W!EmptySlot,
            WP!EmptySlot, W!BootLeaves, WP!BootLeaves, W!PowerDown, WP!PowerDown
<1>1. W!Receive(w) <=> WP!Receive(w)
  BY DEF W!Receive, WP!Receive
<1>2. W!ReceiveUpdate(w) <=> WP!ReceiveUpdate(w)
  BY DEF W!ReceiveUpdate, WP!ReceiveUpdate
<1>3. W!Heartbeat(w) <=> WP!Heartbeat(w)
  BY DEF W!Heartbeat, WP!Heartbeat, W!BeatsIn, WP!BeatsIn
<1>4. W!BootStartEnds(w) <=> WP!BootStartEnds(w)
  BY DEF W!BootStartEnds, WP!BootStartEnds, W!Warmed, WP!Warmed, W!Stored, WP!Stored
<1>5. W!BootStartFails(w) <=> WP!BootStartFails(w)
  BY DEF W!BootStartFails, WP!BootStartFails
<1>6. W!Register(w) <=> WP!Register(w)
  BY DEF W!Register, WP!Register
<1>7. W!PowerOff(w) <=> WP!PowerOff(w)
  BY DEF W!PowerOff, WP!PowerOff
<1>8. W!PowerOn(w) <=> WP!PowerOn(w)
  BY DEF W!PowerOn, WP!PowerOn
<1>9. \A s \in Slots : W!PowerOffInstalling(w, s) <=> WP!PowerOffInstalling(w, s)
  BY DEF W!PowerOffInstalling, WP!PowerOffInstalling
<1>10. W!WorkerStep(w) <=> WP!WorkerStep(w)
  BY <1>1, <1>2, <1>3, <1>4, <1>5, <1>6 DEF W!WorkerStep, WP!WorkerStep
<1>11. W!PowerStep(w) <=> WP!PowerStep(w)
  BY <1>7, <1>8, <1>9 DEF W!PowerStep, WP!PowerStep
<1>12. QED BY <1>10, <1>11

\* The states are well-formed in the same sense ...
LEMMA SameTypes == GP!TypeOK /\ WP!TypeOK <=> TypeOK
<1>1. GP!TypeOK <=> G!TypeOK
  BY DEF G!TypeOK, GP!TypeOK, G!Registry, GP!Registry, G!Placement, GP!Placement,
         G!Command, GP!Command, G!Answers, GP!Answers
<1>2. WP!TypeOK <=> W!TypeOK
  BY DEF W!TypeOK, WP!TypeOK, W!Files, WP!Files, W!Slot, WP!Slot, W!Command, WP!Command,
         W!Message, WP!Message, W!SlotReport, WP!SlotReport, W!Image, WP!Image, W!Task,
         WP!Task, W!Boot, WP!Boot
<1>3. QED BY <1>1, <1>2 DEF TypeOK

\* ... and begin the same.
LEMMA SameInit == (G!Init <=> GP!Init) /\ (W!Init <=> WP!Init)
<1>1. G!Init <=> GP!Init
  BY DEF G!Init, GP!Init, G!Registry, GP!Registry, G!EmptyView, GP!EmptyView, G!NoStates,
         GP!NoStates
<1>2. W!Init <=> WP!Init
  BY DEF W!Init, WP!Init, W!EmptyDisk, WP!EmptyDisk, W!EmptySlot, WP!EmptySlot, W!Idle,
         WP!Idle, W!Booted, WP!Booted
<1>3. QED BY <1>1, <1>2

\* The two sides speak of the same commands, and of the same reports.
LEMMA SameMessages == GP!Command = WP!Command /\ GP!Reports = WP!SlotReport
<1>1. GP!Command = WP!Command
  BY DEF GP!Command, WP!Command
<1>2. GP!Reports = WP!SlotReport
  BY DEF GP!Reports, WP!SlotReport
<1>3. QED BY <1>1, <1>2
-----------------------------------------------------------------------------
(* Every step is one of the gateway, of a computer or of the network. *)

WorkerActs(w) ==
  /\ UNCHANGED gateway
  /\ WP!WorkerStep(w) \/ WP!PowerStep(w) \/ \E s \in Slots : WP!SlotStep(w, s)

GatewayActs ==
  /\ UNCHANGED workers
  /\ GP!PlanNext
  /\ \/ uplink' = uplink
     \/ \E w \in Workers : uplink[w] # <<>> /\ uplink' = [uplink EXCEPT ![w] = Tail(@)]

NetworkActs ==
  /\ UNCHANGED <<gateway, workers>>
  /\ \E w \in Workers : LoseCommand(w) \/ LoseMessage(w)

\* A message from a computer is what the gateway's handlers expect.
LEMMA HearsActs ==
  ASSUME WP!TypeOK, NEW w \in Workers, GatewayHears(w)
  PROVE  GatewayActs
<1> DEFINE m == Head(uplink[w])
<1>1. /\ uplink[w] # <<>> /\ uplink' = [uplink EXCEPT ![w] = Tail(@)] /\ UNCHANGED workers
      /\ \/ m.type = "heartbeat" /\ G!HandleHeartbeat(w, m.slots)
         \/ m.type = "register" /\ G!HandleRegister(w, m.slots)
         \/ m.type = "assigned" /\ G!HandleAssignOk(w, m.name)
         \/ m.type = "assigned" /\ G!HandleAssignFailed(w, m.name)
  BY DEF GatewayHears
<1>2. m \in WP!Message
  <2>1. uplink[w] \in Seq(WP!Message)
    BY DEF WP!TypeOK
  <2>2. QED BY <1>1, <2>1
<1> HIDE DEF m
<1>3. /\ m.type \in {"heartbeat", "register"} => m.slots \in GP!Reports
      /\ m.type = "assigned" => m.name \in Names
  BY <1>2, SameMessages DEF WP!Message
<1>4. GP!WorkerMessage
  BY <1>1, <1>3, SameWorkerMessage DEF GP!WorkerMessage
<1>5. QED BY <1>1, <1>4 DEF GatewayActs, GP!PlanNext

LEMMA OperatorActs ==
  ASSUME Operator
  PROVE  GatewayActs
<1>1. UNCHANGED <<workers, uplink>>
  BY DEF Operator, Request
<1>2. GP!ClientRequest
  <2>1. ASSUME NEW n \in Names, NEW sp \in Specs, G!HandleDeploy(n, sp, registry[n] # None)
        PROVE  GP!HandleDeploy(n, sp, registry[n] # None)
    BY <2>1, SameClientRequest
  <2>2. QED BY <2>1, SameClientRequest DEF Operator, Request, GP!ClientRequest
<1>3. QED BY <1>1, <1>2 DEF GatewayActs, GP!PlanNext

LEMMA FailActs ==
  ASSUME Fail
  PROVE  GatewayActs \/ NetworkActs \/ \E w \in Workers : WorkerActs(w)
<1>1. CASE Fault("gateway reboot", G!Reboot /\ UNCHANGED <<workers, uplink>>)
           \/ Fault("torn save", G!CrashInSave /\ UNCHANGED <<workers, uplink>>)
  BY <1>1, SameTimeAndRestarts DEF Fault, GatewayActs, GP!PlanNext
<1>2. ASSUME NEW w \in Workers,
             Fault("silence", G!WorkerSilent(w) /\ UNCHANGED <<workers, uplink>>)
      PROVE  GatewayActs
  BY <1>2, SameTimeAndRestarts DEF Fault, GatewayActs, GP!PlanNext
<1>3. ASSUME NEW w \in Workers, WorkerFault("loss", LoseCommand(w) \/ LoseMessage(w))
      PROVE  NetworkActs
  BY <1>3 DEF WorkerFault, Fault, NetworkActs, LoseCommand, LoseMessage
<1>4. ASSUME NEW w \in Workers, WorkerFault("crash", W!PowerOff(w))
                                 \/ WorkerFault("restart", W!BootStartFails(w))
      PROVE  WorkerActs(w)
  BY <1>4, SameWorkerStep DEF WorkerFault, Fault, WorkerActs, W!WorkerStep, W!PowerStep
<1>5. ASSUME NEW w \in Workers, NEW s \in Slots,
             \/ WorkerFault("torn write", W!PowerOffInstalling(w, s))
             \/ WorkerFault("fetch", W!FetchFails(w, s))
             \/ WorkerFault("start", W!StartFails(w, s))
      PROVE  WorkerActs(w)
  BY <1>5, SameWorkerStep, SameSlotStep
     DEF WorkerFault, Fault, WorkerActs, W!PowerStep, W!SlotStep
<1>6. QED BY <1>1, <1>2, <1>3, <1>4, <1>5 DEF Fail

LEMMA StepActs ==
  ASSUME WP!TypeOK, Next
  PROVE  GatewayActs \/ NetworkActs \/ \E w \in Workers : WorkerActs(w)
<1>1. CASE Tick
  BY <1>1, SameTick DEF Tick, GatewayActs, GP!PlanNext
<1>2. ASSUME NEW w \in Workers, WorkerLost(w) \/ \E n \in Names : CooldownEnds(n, w)
      PROVE  GatewayActs
  BY <1>2, SameTimeAndRestarts DEF WorkerLost, CooldownEnds, GatewayActs, GP!PlanNext
<1>3. ASSUME NEW w \in Workers,
             \/ Receive(w) \/ Update(w) \/ Heartbeat(w) \/ Register(w)
             \/ PowerOn(w) \/ BootEnd(w)
      PROVE  WorkerActs(w)
  BY <1>3, SameWorkerStep
     DEF Receive, Update, Heartbeat, Register, PowerOn, BootEnd, Slow, Of, WorkerActs,
         W!WorkerStep, W!PowerStep
<1>4. ASSUME NEW w \in Workers, NEW s \in Slots,
             \/ BootStart(w, s) \/ Fetch(w, s) \/ Install(w, s) \/ Start(w, s)
             \/ Drain(w, s)
      PROVE  WorkerActs(w)
  BY <1>4, SameSlotStep
     DEF BootStart, Fetch, Install, Start, Drain, Slow, Of, WorkerActs, W!SlotStep
<1>5. QED BY <1>1, <1>2, <1>3, <1>4, HearsActs, OperatorActs, FailActs DEF Next
-----------------------------------------------------------------------------
(* The cluster implements the gateway and the computers. *)

\* Well-formed, on both sides of the network.
Typed == GP!TypeOK /\ WP!Typed

LEMMA GatewayStep == Typed /\ [Next]_vars => [GP!OpenNext]_(GP!vars)
<1> SUFFICES ASSUME Typed, [Next]_vars PROVE [GP!OpenNext]_(GP!vars)
  OBVIOUS
<1>0. GP!TypeOK /\ WP!TypeOK
  BY DEF Typed, WP!Typed
<1> USE DEF GP!vars, GP!desired, GP!views, GP!plan, GP!calls
<1>1. CASE UNCHANGED vars
  BY <1>1 DEF vars, gateway
<1>2. CASE GatewayActs
  BY <1>2 DEF GatewayActs, GP!OpenNext, GP!Next
<1>3. ASSUME UNCHANGED gateway, wire' \in [Workers -> Seq(GP!Command)],
             \A v \in Workers : Len(wire'[v]) <= Len(wire[v])
      PROVE  GP!OpenNext
  BY <1>3 DEF gateway, GP!Outside, GP!OpenNext
<1>4. ASSUME NEW w \in Workers, WorkerActs(w)
      PROVE  GP!OpenNext
  <2>1. WP!OpenNext
    BY <1>4 DEF WorkerActs, WP!OpenNext
  <2>2. WP!TypeOK'
    BY <2>1, WorkerAssumptions, WP!TypedStep DEF Typed, WP!Typed
  <2>3. wire' \in [Workers -> Seq(GP!Command)]
    BY <2>2, SameMessages DEF WP!TypeOK
  <2>4. \A v \in Workers : Len(wire'[v]) <= Len(wire[v])
    BY <1>0, <1>4, WorkerAssumptions, WP!WireOnlyTaken DEF WorkerActs
  <2>5. QED BY <1>3, <1>4, <2>3, <2>4 DEF WorkerActs
<1>5. CASE NetworkActs
  <2>1. PICK w \in Workers : LoseCommand(w) \/ LoseMessage(w)
    BY <1>5 DEF NetworkActs
  <2>2. CASE LoseMessage(w)
    <3>1. wire' = wire /\ \A v \in Workers : Len(wire[v]) \in Nat
      BY <1>0, <2>2 DEF LoseMessage, GP!TypeOK
    <3>2. QED BY <1>0, <1>3, <1>5, <3>1 DEF NetworkActs, GP!TypeOK
  <2>3. CASE LoseCommand(w)
    <3>1. /\ wire[w] \in Seq(GP!Command) /\ wire[w] # <<>>
          /\ wire' = [wire EXCEPT ![w] = Tail(wire[w])]
      BY <1>0, <2>3 DEF LoseCommand, GP!TypeOK
    <3>2. Tail(wire[w]) \in Seq(GP!Command) /\ Len(Tail(wire[w])) = Len(wire[w]) - 1
          /\ Len(wire[w]) \in Nat
      BY <3>1
    <3>3. wire' \in [Workers -> Seq(GP!Command)]
      BY <1>0, <3>1, <3>2 DEF GP!TypeOK
    <3>4. \A v \in Workers : Len(wire[v]) \in Nat
                           /\ wire'[v] = IF v = w THEN Tail(wire[w]) ELSE wire[v]
      BY <1>0, <3>1 DEF GP!TypeOK
    <3>5. ASSUME NEW v \in Workers
          PROVE  Len(wire'[v]) <= Len(wire[v])
      <4>1. CASE v = w
        <5>1. wire'[v] = Tail(wire[w]) /\ wire[v] = wire[w]
          BY <3>4, <4>1
        <5>2. QED BY <3>2, <5>1
      <4>2. CASE v # w
        <5>1. wire'[v] = wire[v] /\ Len(wire[v]) \in Nat
          BY <3>4, <4>2
        <5>2. QED BY <5>1
      <4>3. QED BY <4>1, <4>2
    <3>6. QED BY <1>3, <1>5, <3>3, <3>5 DEF NetworkActs
  <2>4. QED BY <2>1, <2>2, <2>3
<1>6. QED BY <1>0, <1>1, <1>2, <1>4, <1>5, StepActs

LEMMA WorkersStep == Typed /\ [Next]_vars => [WP!OpenNext]_(WP!vars)
<1> SUFFICES ASSUME Typed, [Next]_vars PROVE [WP!OpenNext]_(WP!vars)
  OBVIOUS
<1>0. GP!TypeOK /\ WP!TypeOK
  BY DEF Typed, WP!Typed
<1>1. CASE UNCHANGED vars
  BY <1>1 DEF vars, workers, WP!vars, WP!slots, WP!tasks
<1>2. ASSUME NEW w \in Workers, WorkerActs(w)
      PROVE  WP!OpenNext
  BY <1>2 DEF WorkerActs, WP!OpenNext
\* What the gateway sends is a command.
<1>3. wire' \in [Workers -> Seq(WP!Command)]
  <2>1. GP!TypeOK'
    BY <1>0, GatewayStep, GatewayAssumptions, GP!TypeStep
  <2>2. QED BY <2>1, SameMessages DEF GP!TypeOK
<1>4. ASSUME UNCHANGED workers,
             uplink' = uplink \/ \E w \in Workers : /\ uplink[w] # <<>>
                                                   /\ uplink' = [uplink EXCEPT ![w] = Tail(@)]
      PROVE  WP!OpenNext
  <2>1. UNCHANGED <<power, WP!slots, WP!tasks>>
    BY <1>4 DEF workers, WP!slots, WP!tasks
  <2>2. CASE uplink' = uplink
    BY <1>0, <1>3, <2>1, <2>2 DEF WP!TypeOK, WP!Outside, WP!OpenNext
  <2>3. ASSUME NEW w \in Workers, uplink[w] # <<>>, uplink' = [uplink EXCEPT ![w] = Tail(uplink[w])]
        PROVE  WP!OpenNext
    <3>1. uplink[w] \in Seq(WP!Message)
      BY <1>0 DEF WP!TypeOK
    <3>2. Tail(uplink[w]) \in Seq(WP!Message)
      BY <2>3, <3>1
    <3>3. uplink' \in [Workers -> Seq(WP!Message)]
      BY <1>0, <2>3, <3>2 DEF WP!TypeOK
    <3>4. \A v \in Workers : uplink'[v] = IF v = w THEN Tail(uplink[w]) ELSE uplink[v]
      BY <1>0, <2>3 DEF WP!TypeOK
    <3>5. QED BY <1>3, <2>1, <2>3, <3>3, <3>4 DEF WP!Outside, WP!OpenNext
  <2>4. QED BY <1>4, <2>2, <2>3
<1>5. CASE GatewayActs
  BY <1>4, <1>5 DEF GatewayActs
<1>6. CASE NetworkActs
  BY <1>4, <1>6 DEF NetworkActs, LoseCommand, LoseMessage
<1>7. QED BY <1>0, <1>1, <1>2, <1>5, <1>6, StepActs

LEMMA TypedInvariant == Spec => []Typed
<1>1. Init => GP!Init /\ WP!Init
  BY SameInit DEF Init
<1>2. GP!Init => GP!TypeOK
  BY GatewayAssumptions, GP!InitTyped
<1>3. WP!Init => WP!Typed
  BY WorkerAssumptions, WP!TypedInit
<1>4. Typed /\ [Next]_vars => Typed'
  BY GatewayStep, WorkersStep, GatewayAssumptions, WorkerAssumptions, GP!TypeStep,
     WP!TypedStep DEF Typed
<1>5. QED BY <1>1, <1>2, <1>3, <1>4, PTL DEF Spec, Typed

\* The gateway and the workers of the cluster keep well-formed states, and only
\* ever say to each other what the other's handlers expect: HearsActs is where a
\* message of worker.lua meets the handler of gateway.lua.
THEOREM TypeCorrect == Spec => []TypeOK
<1>1. Typed => TypeOK
  BY SameTypes DEF Typed, WP!Typed
<1>2. QED BY <1>1, TypedInvariant, PTL

\* The cluster implements the gateway of Gateway with any environment: the steps
\* of the computers and of the network are stutters or steps of Outside, whatever
\* is lost, torn or restarted.
THEOREM GatewayImplemented == Spec => GP!OpenSpec
<1>1. Init => GP!Init
  BY SameInit DEF Init
<1>2. QED BY <1>1, TypedInvariant, GatewayStep, PTL DEF Spec, GP!OpenSpec

\* The cluster implements the computers of Worker with any gateway: commands of
\* gateway.lua are commands that receive() of worker.lua dispatches.
THEOREM WorkersImplemented == Spec => WP!OpenSpec
<1>1. Init => WP!Init
  BY SameInit DEF Init
<1>2. QED BY <1>1, TypedInvariant, WorkersStep, PTL DEF Spec, WP!OpenSpec
-----------------------------------------------------------------------------
(* What is proved of either side holds of the cluster. *)

\* Only registered workloads are placed, and only on computers that have an entry,
\* whatever the computers, the network and the restarts do.
THEOREM PlacementsAccounted == Spec => [](G!PlacedIsRegistered /\ G!PlacedIsKnown)
<1>1. GP!PlacedIsRegistered /\ GP!PlacedIsKnown => G!PlacedIsRegistered /\ G!PlacedIsKnown
  BY DEF GP!PlacedIsRegistered, GP!PlacedIsKnown, G!PlacedIsRegistered, G!PlacedIsKnown
<1>2. QED BY <1>1, GatewayImplemented, GP!OpenAccounted, GatewayAssumptions, PTL

\* What a computer of the cluster holds and advertises is what its disks say.
THEOREM DisksMirrored == Spec => []W!MemoryMirrorsDisk
<1>1. WP!Mirrored => W!MemoryMirrorsDisk
  BY DEF WP!Mirrored, WP!MemoryMirrorsDisk, W!MemoryMirrorsDisk
<1>2. QED BY <1>1, WorkersImplemented, WP!OpenMirrored, WorkerAssumptions, PTL

\* An ok reply on its way to the gateway is followed by a heartbeat that shows the
\* workload running, even when the network loses messages.
THEOREM OkMeansRunning == Spec => []W!OkThenRunning
<1>1. WP!OkThenRunning => W!OkThenRunning
  BY DEF WP!OkThenRunning, W!OkThenRunning
<1>2. QED BY <1>1, WorkersImplemented, WP!OpenOk, WorkerAssumptions, PTL

\* After a tick the plan of the cluster is settled, whatever the tick found.
THEOREM TicksSettle == Spec => [][Tick => G!Settled']_vars
<1>1. ASSUME GP!TypeOK, Tick
      PROVE  G!Settled'
  <2>1. GP!Settled'
    BY <1>1, SameTick, GP!TickSettled, GatewayAssumptions DEF Tick
  <2>2. (GP!Settled <=> G!Settled)'
    BY DEF GP!Settled, G!Settled, GP!Garbage, G!Garbage, GP!Unplaced, G!Unplaced,
           GP!Registered, G!Registered, GP!FreeFor, G!FreeFor, GP!At, G!At
  <2>3. QED BY <2>1, <2>2
<1>2. Typed /\ [Next]_vars => [Tick => G!Settled']_vars
  BY <1>1 DEF Typed
<1>3. QED BY <1>2, TypedInvariant, PTL DEF Spec
-----------------------------------------------------------------------------
(* Rest. *)

\* The budgets are counted down.
Budgeted == faults \in Nat /\ requests \in Nat

\* What a step that is neither a request nor a fault leaves of the budgets.
LEMMA BudgetsKept == Next => UNCHANGED budgets \/ Operator \/ Fail
<1>1. ASSUME NEW w \in Workers,
             \/ Receive(w) \/ Update(w) \/ Heartbeat(w) \/ Register(w)
             \/ PowerOn(w) \/ BootEnd(w) \/ GatewayHears(w) \/ WorkerLost(w)
      PROVE  UNCHANGED budgets
  BY <1>1 DEF Receive, Update, Heartbeat, Register, PowerOn, BootEnd, Slow, Of,
              GatewayHears, WorkerLost, budgets
<1>2. ASSUME NEW w \in Workers, NEW s \in Slots,
             \/ BootStart(w, s) \/ Fetch(w, s) \/ Install(w, s) \/ Start(w, s)
             \/ Drain(w, s)
      PROVE  UNCHANGED budgets
  BY <1>2 DEF BootStart, Fetch, Install, Start, Drain, Slow, Of, budgets
<1>3. QED BY <1>1, <1>2 DEF Next, Tick, CooldownEnds, budgets

LEMMA OperatorSpends == Budgeted /\ Operator => requests' \in Nat /\ requests' < requests /\ faults' = faults
<1> SUFFICES ASSUME Budgeted, requests > 0, requests' = requests - 1, faults' = faults
             PROVE  requests' \in Nat /\ requests' < requests
  BY DEF Operator, Request
<1>1. QED BY DEF Budgeted

LEMMA FailSpends == Budgeted /\ Fail => faults' \in Nat /\ faults' < faults /\ requests' = requests
<1> SUFFICES ASSUME Budgeted, faults > 0, faults' = faults - 1, requests' = requests
             PROVE  faults' \in Nat /\ faults' < faults
  BY DEF Fail, WorkerFault, Fault
<1>1. QED BY DEF Budgeted

LEMMA BudgetedInvariant == Spec => []Budgeted
<1>1. Init => Budgeted
  BY BudgetAssumption DEF Init, Budgeted
<1>2. Budgeted /\ [Next]_vars => Budgeted'
  BY BudgetsKept, OperatorSpends, FailSpends DEF Budgeted, budgets, vars
<1>3. QED BY <1>1, <1>2, PTL DEF Spec

\* A step is quiet when it moves no workload and says nothing but true heartbeats.
Quiet ==
  /\ UNCHANGED <<registry, placements, fresh, view, power, mem, queue, task, wire>>
  /\ \A w \in Workers : \A k \in DOMAIN uplink'[w] : uplink'[w][k] = W!Beat(mem[w])

LEMMA QuietRests == AtRest /\ Quiet => AtRest'
<1> SUFFICES ASSUME AtRest, Quiet PROVE AtRest'
  OBVIOUS
<1>1. Converged'
  <2>1. registry' = registry /\ placements' = placements /\ mem' = mem /\ Converged
    BY DEF AtRest, Quiet
  <2>2. \A w \in Workers, s \in Slots :
          mem'[w][s].meta # None => G!At(placements'[mem'[w][s].meta.name], w, s)
    BY <2>1 DEF Converged
  <2>3. ASSUME NEW n \in Names, registry'[n] # None
        PROVE  placements'[n] # None /\ RunsAt(n, placements[n].worker, placements[n].slot)'
    BY <2>1, <2>3 DEF Converged, RunsAt, W!Live, W!Kind
  <2>4. QED BY <2>1, <2>2, <2>3 DEF Converged, RunsAt, W!Live, W!Kind, G!At
<1>2. /\ fresh' = Workers
      /\ \A n \in Names : placements'[n] # None =>
           placements'[n].state = "running" /\ placements'[n].hbm = 0
  BY DEF AtRest, Quiet
<1>3. \A w \in Workers :
        /\ W!SlotList(mem[w])' = W!SlotList(mem[w])
        /\ W!Beat(mem[w])' = W!Beat(mem[w])
  BY DEF Quiet, W!SlotList, W!Beat, W!StateOf, W!Live, W!Kind
<1>4. ASSUME NEW w \in Workers
      PROVE  /\ power'[w] = "up" /\ wire'[w] = <<>>
             /\ \A s \in Slots :
                  /\ task'[w][s].stage = "idle" /\ queue'[w][s] = <<>>
                  /\ view'[w][s] = W!SlotList(mem[w])'[s].workload
             /\ \A k \in DOMAIN uplink'[w] : uplink'[w][k] = W!Beat(mem[w])'
  BY <1>3 DEF AtRest, Quiet
<1>5. QED BY <1>1, <1>2, <1>4 DEF AtRest

\* What the gateway of a cluster at rest knows: everything that is wanted is placed,
\* where the view shows it, and nothing else is in view.
LEMMA RestPlan ==
  ASSUME G!TypeOK, G!PlacedIsRegistered, AtRest
  PROVE  /\ GP!Unplaced(registry, placements) = {}
         /\ GP!Garbage(registry, placements, view) = {}
         /\ \A n \in Names : placements[n] # None =>
              /\ placements[n].worker \in Workers /\ placements[n].slot \in Slots
              /\ RunsAt(n, placements[n].worker, placements[n].slot)
              /\ ~GP!Lost(placements[n]) /\ ~GP!Contradicted(placements[n])
<1>1. GP!Unplaced(registry, placements) = {}
  BY DEF AtRest, Converged, GP!Unplaced, GP!Registered
<1>2. ASSUME NEW w \in Workers, NEW s \in Slots, view[w][s] # None
      PROVE  G!At(placements[view[w][s]], w, s)
  <2>1. view[w][s] = IF mem[w][s].meta = None THEN None ELSE mem[w][s].meta.name
    BY DEF AtRest, W!SlotList
  <2>2. QED BY <1>2, <2>1 DEF AtRest, Converged
<1>3. GP!Garbage(registry, placements, view) = {}
  <2>1. ASSUME NEW l \in fresh \X Slots, view[l[1]][l[2]] # None
        PROVE  GP!At(placements[view[l[1]][l[2]]], l[1], l[2])
    <3>1. l[1] \in Workers /\ l[2] \in Slots
      BY DEF AtRest
    <3>2. QED BY <1>2, <2>1, <3>1 DEF G!At, GP!At
  <2>2. QED BY <2>1 DEF GP!Garbage
<1>4. ASSUME NEW n \in Names, placements[n] # None
      PROVE  /\ placements[n].worker \in Workers /\ placements[n].slot \in Slots
             /\ RunsAt(n, placements[n].worker, placements[n].slot)
             /\ ~GP!Lost(placements[n]) /\ ~GP!Contradicted(placements[n])
  <2>1. placements[n] \in G!Placement
    BY <1>4 DEF G!TypeOK
  <2>2. placements[n].worker \in Workers /\ placements[n].slot \in Slots
    BY <2>1 DEF G!Placement
  <2>3. RunsAt(n, placements[n].worker, placements[n].slot)
    BY <1>4 DEF G!PlacedIsRegistered, AtRest, Converged
  <2>4. ~GP!Lost(placements[n]) /\ ~GP!Contradicted(placements[n])
    BY <1>4, <2>2 DEF AtRest, GP!Lost, GP!Contradicted
  <2>5. QED BY <2>2, <2>3, <2>4
<1>5. QED BY <1>1, <1>3, <1>4

\* At rest a tick finds nothing to do ...
LEMMA TickIsQuiet ==
  ASSUME GP!TypeOK, G!TypeOK, G!PlacedIsRegistered, AtRest, Tick
  PROVE  Quiet
<1>1. GP!ReconcileTick /\ UNCHANGED <<workers, uplink>>
  BY SameTick DEF Tick
<1>2. UNCHANGED <<placements, view, cooldown, wire>>
  BY <1>1, RestPlan, GP!IdleReconcile, GatewayAssumptions DEF GP!ReconcileTick
<1>3. UNCHANGED <<registry, fresh>>
  BY <1>1 DEF GP!ReconcileTick, GP!desired
<1>4. QED BY <1>1, <1>2, <1>3 DEF workers, AtRest, Quiet

\* ... what the gateway hears it knows already ...
LEMMA HearingIsQuiet ==
  ASSUME GP!TypeOK, G!TypeOK, WP!TypeOK, G!PlacedIsRegistered, AtRest,
         NEW w \in Workers, GatewayHears(w)
  PROVE  Quiet
<1> DEFINE m == Head(uplink[w])
<1>1. /\ uplink[w] # <<>> /\ uplink' = [uplink EXCEPT ![w] = Tail(uplink[w])]
      /\ UNCHANGED workers
      /\ \/ m.type = "heartbeat" /\ G!HandleHeartbeat(w, m.slots)
         \/ m.type = "register" /\ G!HandleRegister(w, m.slots)
         \/ m.type = "assigned" /\ G!HandleAssignOk(w, m.name)
         \/ m.type = "assigned" /\ G!HandleAssignFailed(w, m.name)
  BY DEF GatewayHears
<1>2. uplink[w] \in Seq(WP!Message) /\ \A v \in Workers : uplink[v] \in Seq(WP!Message)
  BY DEF WP!TypeOK
<1>3. m = W!Beat(mem[w]) /\ m \in WP!Message
  <2>1. m = uplink[w][1] /\ 1 \in DOMAIN uplink[w] /\ m \in WP!Message
    BY <1>1, <1>2
  <2>2. QED BY <2>1 DEF AtRest
<1>4. m.type = "heartbeat" /\ m.slots = W!SlotList(mem[w])
  BY <1>3 DEF W!Beat
<1>5. W!SlotList(mem[w]) \in GP!Reports
  BY <1>3, <1>4, SameMessages DEF WP!Message
<1>6. GP!HandleHeartbeat(w, W!SlotList(mem[w]))
  <2>1. G!HandleHeartbeat(w, W!SlotList(mem[w]))
    BY <1>1, <1>4
  <2>2. QED BY <2>1, SameWorkerMessage
<1>7. \A s \in Slots : view[w][s] = W!SlotList(mem[w])[s].workload
  BY DEF AtRest
<1>8. ASSUME NEW n \in Names, placements[n] # None, placements[n].worker = w
      PROVE  /\ placements[n].state = "running" /\ placements[n].hbm = 0
             /\ W!SlotList(mem[w])[placements[n].slot] = [workload |-> n, state |-> "running"]
  <2>1. placements[n].slot \in Slots /\ RunsAt(n, w, placements[n].slot)
    BY <1>8, RestPlan
  <2>2. W!SlotList(mem[w])[placements[n].slot] = [workload |-> n, state |-> "running"]
    BY <2>1 DEF RunsAt, W!SlotList, W!StateOf
  <2>3. QED BY <1>8, <2>2 DEF AtRest
<1>9. UNCHANGED <<registry, placements, fresh, view, wire>>
  <2>1. w \in fresh
    BY DEF AtRest
  <2>2. GP!Unplaced(registry, placements) = {}
    BY RestPlan
  <2> HIDE DEF m
  <2>3. UNCHANGED <<GP!desired, known, fresh, view, GP!plan, wire>>
    BY <1>5, <1>6, <1>7, <1>8, <2>1, <2>2, GP!IdleHeartbeat, GatewayAssumptions
  <2>4. QED BY <2>3 DEF GP!desired, GP!plan
<1>10. \A v \in Workers : \A k \in DOMAIN uplink'[v] : uplink'[v][k] = W!Beat(mem[v])
  <2> HIDE DEF m
  <2>1. ASSUME NEW v \in Workers, v # w
        PROVE  uplink'[v] = uplink[v]
    BY <1>1, <2>1 DEF WP!TypeOK
  <2>2. uplink'[w] = Tail(uplink[w])
    BY <1>1 DEF WP!TypeOK
  <2>3. ASSUME NEW k \in DOMAIN Tail(uplink[w])
        PROVE  Tail(uplink[w])[k] = W!Beat(mem[w])
    <3>1. k + 1 \in DOMAIN uplink[w] /\ Tail(uplink[w])[k] = uplink[w][k + 1]
      BY <1>1, <1>2
    <3>2. QED BY <3>1 DEF AtRest
  <2>4. ASSUME NEW v \in Workers, v # w, NEW k \in DOMAIN uplink'[v]
        PROVE  uplink'[v][k] = W!Beat(mem[v])
    BY <2>1, <2>4 DEF AtRest
  <2>5. QED BY <2>2, <2>3, <2>4
<1>11. QED BY <1>1, <1>9, <1>10 DEF workers, Quiet

\* ... and a computer says it again.
LEMMA BeatIsQuiet ==
  ASSUME WP!TypeOK, AtRest, NEW w \in Workers, Heartbeat(w)
  PROVE  Quiet
<1>1. /\ UNCHANGED gateway /\ UNCHANGED <<power, mem, queue, wire>>
      /\ task' = [task EXCEPT ![w] = [s \in Slots |->
                    IF task[w][s].stage = "idle" THEN task[w][s]
                    ELSE [task[w][s] EXCEPT !.beats = @ + 1]]]
      /\ uplink' = [uplink EXCEPT ![w] = uplink[w] \o <<W!Beat(mem[w])>>]
  BY DEF Heartbeat, Slow, Of, W!Heartbeat, W!slots, W!Send
<1>2. task' = task
  <2>1. task[w] = [s \in Slots |-> task[w][s]]
    BY DEF WP!TypeOK
  <2>2. \A s \in Slots : task[w][s].stage = "idle"
    BY DEF AtRest
  <2>3. task' = [task EXCEPT ![w] = task[w]]
    BY <1>1, <2>1, <2>2
  <2>4. QED BY <2>3 DEF WP!TypeOK
<1>3. ASSUME NEW v \in Workers, NEW k \in DOMAIN uplink'[v]
      PROVE  uplink'[v][k] = W!Beat(mem[v])
  <2>1. \A j \in DOMAIN uplink[v] : uplink[v][j] = W!Beat(mem[v])
    BY DEF AtRest
  <2>2. CASE v = w
    <3>1. uplink[w] \in Seq(WP!Message)
      BY DEF WP!TypeOK
    <3>2. uplink'[w] = uplink[w] \o <<W!Beat(mem[w])>>
      BY <1>1 DEF WP!TypeOK
    <3>3. /\ k \in 1..(Len(uplink[w]) + 1)
          /\ uplink'[w][k] = IF k <= Len(uplink[w]) THEN uplink[w][k] ELSE W!Beat(mem[w])
          /\ DOMAIN uplink[w] = 1..Len(uplink[w]) /\ Len(uplink[w]) \in Nat
      BY <1>3, <2>2, <3>1, <3>2
    <3>4. QED BY <2>1, <2>2, <3>3
  <2>3. CASE v # w
    <3>1. uplink'[v] = uplink[v]
      BY <1>1, <2>3 DEF WP!TypeOK
    <3>2. QED BY <1>3, <2>1, <3>1
  <2>4. QED BY <2>2, <2>3
<1>4. QED BY <1>1, <1>2, <1>3 DEF gateway, Quiet

\* No other step of a computer is possible at rest.
LEMMA RestIsIdle ==
  ASSUME WP!Boots, AtRest, NEW w \in Workers
  PROVE  /\ ~Receive(w) /\ ~Update(w) /\ ~Register(w) /\ ~PowerOn(w) /\ ~BootEnd(w)
         /\ ~WorkerLost(w)
         /\ \A s \in Slots : /\ ~BootStart(w, s) /\ ~Fetch(w, s) /\ ~Install(w, s)
                             /\ ~Start(w, s) /\ ~Drain(w, s)
<1>1. /\ power[w] = "up" /\ wire[w] = <<>> /\ boot[w].slot = None
      /\ \A s \in Slots : task[w][s].stage = "idle" /\ queue[w][s] = <<>>
  BY DEF AtRest, WP!Boots
<1>2. /\ ~Receive(w) /\ ~Update(w) /\ ~Register(w) /\ ~PowerOn(w) /\ ~BootEnd(w)
      /\ ~WorkerLost(w)
  BY <1>1 DEF Receive, Update, Register, PowerOn, BootEnd, Slow, Of, WorkerLost, W!Receive,
              W!ReceiveUpdate, W!Register, W!PowerOn, W!BootStartEnds
<1>3. ASSUME NEW s \in Slots
      PROVE  /\ ~BootStart(w, s) /\ ~Fetch(w, s) /\ ~Install(w, s)
             /\ ~Start(w, s) /\ ~Drain(w, s)
  BY <1>1 DEF BootStart, Fetch, Install, Start, Drain, Slow, Of, W!BootVisits,
              W!AssignBegins, W!FetchArrives, W!StartEnds, W!Drain, W!Ready
<1>4. QED BY <1>2, <1>3

\* A cluster that has come to rest stays so until somebody asks for something or
\* something fails: reconcile, the heartbeats of worker.lua and the answers they get
\* have a common fixed point, and no history leads to a state that only looks like it.
THEOREM RestIsStable == Spec => StaysAtRest
<1> DEFINE Inv == Typed /\ Budgeted /\ WP!Boots /\ G!PlacedIsRegistered
<1>1. Spec => []Inv
  <2>1. Spec => []WP!Boots
    BY WorkersImplemented, WP!OpenBoots, WorkerAssumptions, PTL
  <2>2. QED BY <2>1, TypedInvariant, BudgetedInvariant, PlacementsAccounted, PTL
<1>2. ASSUME Inv, Next, AtRest, UNCHANGED budgets
      PROVE  AtRest'
  <2>0. GP!TypeOK /\ WP!TypeOK /\ G!TypeOK
    BY <1>2, SameTypes DEF Typed, WP!Typed, TypeOK
  <2>1. ~Operator /\ ~Fail
    BY <1>2, OperatorSpends, FailSpends DEF budgets, Budgeted
  <2>2. CASE Tick
    BY <1>2, <2>0, <2>2, TickIsQuiet, QuietRests
  <2>3. ASSUME NEW w \in Workers, GatewayHears(w) \/ Heartbeat(w)
        PROVE  AtRest'
    BY <1>2, <2>0, <2>3, HearingIsQuiet, BeatIsQuiet, QuietRests
  <2>4. ASSUME NEW w \in Workers, NEW n \in Names, CooldownEnds(n, w)
        PROVE  AtRest'
    <3>1. Quiet
      BY <1>2, <2>4 DEF CooldownEnds, G!CooldownEnds, G!desired, G!views, workers, AtRest,
                         Quiet
    <3>2. QED BY <1>2, <3>1, QuietRests
  <2>5. QED BY <1>2, <2>1, <2>2, <2>3, <2>4, RestIsIdle DEF Next
<1>3. Inv /\ [Next]_vars => [AtRest /\ UNCHANGED budgets => AtRest']_vars
  BY <1>2
<1>4. QED BY <1>1, <1>3, PTL DEF Spec, StaysAtRest
=============================================================================
