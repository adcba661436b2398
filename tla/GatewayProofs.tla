----------------------------- MODULE GatewayProofs -----------------------------
(***************************************************************************)
(* The invariants of Gateway, proved for any number of workers, any finite *)
(* set of names and slots and any bound on the links.                      *)
(***************************************************************************)
EXTENDS Gateway, FiniteSetTheorems, TLAPS

Locs == Workers \X Slots
View == [Workers -> [Slots -> Names \cup {None}]]
Plan == [Names -> Placement \cup {None}]

\* The gateway with any network: messages on their way to a worker are taken or
\* lost, one by one or all at once, and it need not be the Take of Gateway.
Outside ==
  /\ UNCHANGED <<desired, views, plan, calls, mode>>
  /\ wire' \in [Workers -> Seq(Command)]
  /\ \A w \in Workers : Len(wire'[w]) <= Len(wire[w])

OpenNext == Next \/ Outside
OpenSpec == Init /\ [][OpenNext]_vars

LEMMA NetworkIsAny == Spec => OpenSpec
<1>1. [Next]_vars => [OpenNext]_vars
  BY DEF OpenNext
<1>2. QED BY <1>1, PTL DEF Spec, OpenSpec
-----------------------------------------------------------------------------
(* The operators of the model. *)

\* InSomeOrder puts a finite set in a sequence.
LEMMA InSomeOrderType ==
  ASSUME NEW S, IsFiniteSet(S)
  PROVE  InSomeOrder(S) \in Seq(S)
<1> DEFINE n == Cardinality(S)
           P(q) == \A c \in S : \E k \in DOMAIN q : q[k] = c
<1>1. n \in Nat /\ ExistsBijection(1..n, S)
  BY FS_CardinalityType
<1>2. PICK q \in [1..n -> S] : P(q)
  BY <1>1 DEF ExistsBijection, Bijection, Surjection
<1>3. (CHOOSE q1 \in [1..n -> S] : P(q1)) \in [1..n -> S]
  BY <1>2
<1>4. InSomeOrder(S) \in [1..n -> S]
  BY <1>3 DEF InSomeOrder
<1>5. QED BY <1>1, <1>4

\* The drains of a set of slots are commands, and so is their sequence.
LEMMA DrainsType ==
  ASSUME NEW T \in SUBSET Slots
  PROVE  /\ InSomeOrder({DrainOf(s) : s \in T}) \in Seq(Command)
         /\ InSomeOrder({DrainOf(s) : s \in T}) \in Seq({DrainOf(s) : s \in T})
<1> DEFINE D == {DrainOf(s) : s \in T}
           f == [s \in T |-> DrainOf(s)]
<1>1. IsFiniteSet(T)
  BY FiniteAssumption, FS_Subset
<1>2. f \in Surjection(T, D)
  BY DEF Surjection
<1>3. IsFiniteSet(D)
  BY <1>1, <1>2, FS_Surjection
<1>4. D \subseteq Command
  BY DEF DrainOf, Command
<1>5. InSomeOrder(D) \in Seq(D)
  BY <1>3, InSomeOrderType
<1>6. QED BY <1>4, <1>5

\* So are the assignments of f, as far as they are to one worker.
LEMMA AssignsType ==
  ASSUME NEW reg \in Registry, NEW U \in SUBSET Registered(reg),
         NEW f \in [U -> Locs \cup {None}], NEW M \in SUBSET {m \in U : f[m] # None}
  PROVE  LET assigns == {AssignTo(f[n][2], n, reg[n]) : n \in M}
         IN InSomeOrder(assigns) \in Seq(Command) /\ InSomeOrder(assigns) \in Seq(assigns)
<1> DEFINE D == {AssignTo(f[n][2], n, reg[n]) : n \in M}
           g == [n \in M |-> AssignTo(f[n][2], n, reg[n])]
<1>1. IsFiniteSet(M)
  <2>1. M \subseteq Names
    BY DEF Registered
  <2>2. QED BY <2>1, FiniteAssumption, FS_Subset
<1>2. g \in Surjection(M, D)
  BY DEF Surjection
<1>3. IsFiniteSet(D)
  BY <1>1, <1>2, FS_Surjection
<1>4. ASSUME NEW n \in M PROVE AssignTo(f[n][2], n, reg[n]) \in Command
  <2>1. n \in Names /\ reg[n] \in Specs
    BY DEF Registered, Registry
  <2>2. f[n][2] \in Slots
    BY DEF Locs
  <2>3. QED BY <2>1, <2>2 DEF AssignTo, Command
<1>5. D \subseteq Command
  BY <1>4
<1>6. InSomeOrder(D) \in Seq(D)
  BY <1>3, InSomeOrderType
<1>7. QED BY <1>5, <1>6

\* Adoptions and assignments locate workloads; settling them gives a plan.
LEMMA SettleType ==
  ASSUME NEW plc \in Plan, NEW U \in SUBSET Names, NEW f \in [U -> Locs \cup {None}],
         NEW st \in {"assigning", "loading", "running"}
  PROVE  Settle(plc, f, st) \in Plan
<1> SUFFICES ASSUME NEW n \in Names, n \in U, f[n] # None
             PROVE  NewPlacement(f[n], st) \in Placement
  BY DEF Settle, Plan
<1>1. f[n][1] \in Workers /\ f[n][2] \in Slots
  BY DEF Locs
<1>2. QED BY <1>1 DEF NewPlacement, Placement

\* Settling f puts a workload that f locates where f says ...
LEMMA SettleAt ==
  ASSUME NEW plc, NEW U, NEW f \in [U -> Locs \cup {None}], NEW st, NEW n \in Names,
         n \in U, f[n] # None
  PROVE  Settle(plc, f, st)[n] = NewPlacement(f[n], st)
BY DEF Settle

\* ... and leaves every other placement as it was.
LEMMA SettleElse ==
  ASSUME NEW plc, NEW U, NEW f \in [U -> Locs \cup {None}], NEW st, NEW n \in Names,
         n \notin U \/ f[n] = None
  PROVE  Settle(plc, f, st)[n] = plc[n]
BY DEF Settle

\* Occupying slots keeps a view a view ...
LEMMA OccupyType ==
  ASSUME NEW vw \in View, NEW U \in SUBSET Names, NEW f \in [U -> Locs \cup {None}]
  PROVE  Occupy(vw, f) \in View
<1> SUFFICES ASSUME NEW w \in Workers, NEW s \in Slots
             PROVE  Occupy(vw, f)[w][s] \in Names \cup {None}
  BY DEF Occupy, View
<1>1. CASE \E n \in U : f[n] = <<w, s>>
  <2>1. (CHOOSE n \in U : f[n] = <<w, s>>) \in Names
    BY <1>1
  <2>2. QED BY <1>1, <2>1 DEF Occupy
<1>2. CASE ~ \E n \in U : f[n] = <<w, s>>
  BY <1>2 DEF Occupy, View
<1>3. QED BY <1>1, <1>2

\* ... and so does clearing them.
LEMMA ClearType ==
  ASSUME NEW vw \in View, NEW L
  PROVE  Clear(vw, L) \in View
BY DEF Clear, View

\* Dropping placements leaves a plan.
LEMMA KeptType ==
  ASSUME NEW plc \in Plan
  PROVE  Kept(plc) \in Plan
BY DEF Kept, Plan

\* Adoptions are located in U == Unplaced(reg, plc) and keep to ws.
LEMMA AdoptionsType ==
  ASSUME NEW reg, NEW plc, NEW vw, NEW st, NEW ws \in SUBSET Workers, NEW ok,
         NEW f \in Adoptions(reg, plc, vw, st, ws, ok)
  PROVE  /\ f \in [Unplaced(reg, plc) -> Locs \cup {None}]
         /\ \A n \in Unplaced(reg, plc) : f[n] # None => f[n] \in ws \X Slots
BY DEF Adoptions, Locs

\* Assignments are located in U == Unplaced(reg, plc), on live workers.
LEMMA AssignmentsType ==
  ASSUME fresh \subseteq Workers,
         NEW reg, NEW plc, NEW vw, NEW cool, NEW f \in Assignments(reg, plc, vw, cool)
  PROVE  /\ f \in [Unplaced(reg, plc) -> Locs \cup {None}]
         /\ \A n \in Unplaced(reg, plc) : f[n] # None => f[n] \in fresh \X Slots
BY DEF Assignments, FreeFor, Locs

\* What a reconcile sends to a worker is a sequence of commands.
LEMMA SentToType ==
  ASSUME NEW w \in Workers, NEW reg \in Registry, NEW gc,
         NEW U \in SUBSET Registered(reg), NEW f \in [U -> Locs \cup {None}]
  PROVE  SentTo(w, reg, gc, f) \in Seq(Command)
<1> DEFINE T == {t \in Slots : <<w, t>> \in gc}
           M == {m \in DOMAIN f : f[m] # None /\ f[m][1] = w}
<1>1. InSomeOrder({DrainOf(s) : s \in T}) \in Seq(Command)
  BY DrainsType
<1>2. M \in SUBSET {m \in U : f[m] # None}
  OBVIOUS
<1>3. InSomeOrder({AssignTo(f[n][2], n, reg[n]) : n \in M}) \in Seq(Command)
  BY <1>2, AssignsType
<1>4. QED BY <1>1, <1>3 DEF SentTo
-----------------------------------------------------------------------------
(* reconcile. *)

\* The plan between adoption and assignment.
Held(plc, adopted) == Settle(Kept(plc), adopted, "running")
Swept(reg, plc, vw, adopted) == Clear(vw, Garbage(reg, Held(plc, adopted), vw))

\* What a reconcile that adopts and assigns so writes.
Reconciled(reg, plc, vw, cool, adopted, assigned) ==
  /\ adopted \in Adoptions(reg, Kept(plc), vw, vstate, fresh, {"running"})
  /\ assigned \in Assignments(reg, Held(plc, adopted), Swept(reg, plc, vw, adopted),
                              Cooled(plc, cool))
  /\ placements' = Settle(Held(plc, adopted), assigned, "assigning")
  /\ view' = Occupy(Swept(reg, plc, vw, adopted), assigned)
  /\ cooldown' = Cooled(plc, cool)
  /\ wire' = [w \in Workers |-> wire[w] \o
               SentTo(w, reg, Garbage(reg, Held(plc, adopted), vw), assigned)]
  /\ inflight' = [i \in Ids |-> IF i \in Overdue THEN "none" ELSE inflight[i]]
  /\ replies' = [i \in Ids |-> IF i \in Overdue THEN Append(replies[i], "timeout")
                               ELSE replies[i]]

\* A reconcile is Reconciled for some choice of adoptions and of assignments.
LEMMA ReconcileSteps ==
  ASSUME NEW reg, NEW plc, NEW vw, NEW cool, Reconcile(reg, plc, vw, cool)
  PROVE  \E adopted, assigned : Reconciled(reg, plc, vw, cool, adopted, assigned)
BY DEF Reconcile, Reconciled, Held, Swept

\* What both choices are, and the plan between them.
LEMMA HeldType ==
  ASSUME TypeOK, NEW reg \in Registry, NEW plc \in Plan, NEW vw \in View, NEW cool,
         NEW adopted, NEW assigned, Reconciled(reg, plc, vw, cool, adopted, assigned)
  PROVE  /\ adopted \in [Unplaced(reg, Kept(plc)) -> Locs \cup {None}]
         /\ \A n \in Unplaced(reg, Kept(plc)) : adopted[n] # None => adopted[n] \in fresh \X Slots
         /\ Held(plc, adopted) \in Plan
         /\ Swept(reg, plc, vw, adopted) \in View
         /\ assigned \in [Unplaced(reg, Held(plc, adopted)) -> Locs \cup {None}]
         /\ \A n \in Unplaced(reg, Held(plc, adopted)) :
              assigned[n] # None => assigned[n] \in fresh \X Slots
         /\ Unplaced(reg, Held(plc, adopted)) \in SUBSET Registered(reg)
         /\ Unplaced(reg, Held(plc, adopted)) \in SUBSET Names
<1> DEFINE held == Held(plc, adopted)
<1>1. fresh \in SUBSET Workers
  BY DEF TypeOK
<1>2. /\ adopted \in [Unplaced(reg, Kept(plc)) -> Locs \cup {None}]
      /\ \A n \in Unplaced(reg, Kept(plc)) : adopted[n] # None => adopted[n] \in fresh \X Slots
  BY <1>1, AdoptionsType DEF Reconciled
<1>3. Unplaced(reg, Kept(plc)) \in SUBSET Names
  BY DEF Unplaced, Registered
<1>4. held \in Plan
  BY <1>2, <1>3, KeptType, SettleType DEF Held
<1>5. Swept(reg, plc, vw, adopted) \in View
  BY ClearType DEF Swept
<1>6. /\ assigned \in [Unplaced(reg, held) -> Locs \cup {None}]
      /\ \A n \in Unplaced(reg, held) : assigned[n] # None => assigned[n] \in fresh \X Slots
  BY <1>1, AssignmentsType DEF Reconciled
<1>7. Unplaced(reg, held) \in SUBSET Registered(reg) /\ Registered(reg) \in SUBSET Names
  BY DEF Unplaced, Registered
<1>8. QED BY <1>2, <1>4, <1>5, <1>6, <1>7

\* What reconcile writes has the type it should have.
LEMMA ReconcileType ==
  ASSUME TypeOK, NEW reg \in Registry, NEW plc \in Plan, NEW vw \in View,
         NEW cool \in SUBSET (Names \X Workers), Reconcile(reg, plc, vw, cool)
  PROVE  /\ placements' \in Plan
         /\ view' \in View
         /\ cooldown' \subseteq Names \X Workers
         /\ wire' \in [Workers -> Seq(Command)]
         /\ inflight' \in [Ids -> {"none", "waiting", "overdue"}]
         /\ replies' \in [Ids -> Seq(Answers)]
<1>1. PICK adopted, assigned : Reconciled(reg, plc, vw, cool, adopted, assigned)
  BY ReconcileSteps
<1> DEFINE held == Held(plc, adopted)
           gc == Garbage(reg, held, vw)
<1>2. /\ held \in Plan /\ Swept(reg, plc, vw, adopted) \in View
      /\ assigned \in [Unplaced(reg, held) -> Locs \cup {None}]
      /\ Unplaced(reg, held) \in SUBSET Registered(reg)
      /\ Unplaced(reg, held) \in SUBSET Names
  BY <1>1, HeldType
<1>3. placements' \in Plan
  BY <1>1, <1>2, SettleType DEF Reconciled
<1>4. view' \in View
  BY <1>1, <1>2, OccupyType DEF Reconciled
<1>5. cooldown' \subseteq Names \X Workers
  BY <1>1 DEF Reconciled, Cooled
<1>6. wire' \in [Workers -> Seq(Command)]
  <2>1. \A w \in Workers : SentTo(w, reg, gc, assigned) \in Seq(Command)
    BY <1>2, SentToType
  <2>2. \A w \in Workers : wire[w] \in Seq(Command)
    BY DEF TypeOK
  <2>3. \A w \in Workers : wire[w] \o SentTo(w, reg, gc, assigned) \in Seq(Command)
    BY <2>1, <2>2
  <2>4. QED BY <1>1, <2>3 DEF Reconciled
<1>7. inflight' \in [Ids -> {"none", "waiting", "overdue"}]
  BY <1>1 DEF TypeOK, Reconciled
<1>8. replies' \in [Ids -> Seq(Answers)]
  BY <1>1 DEF TypeOK, Answers, Reconciled
<1>9. QED BY <1>3, <1>4, <1>5, <1>6, <1>7, <1>8

\* A placement that reconcile leaves is the one it found, on a live worker and
\* not contradicted, or a fresh one of a registered workload on a live worker.
LEMMA ReconcilePlaces ==
  ASSUME TypeOK, NEW reg \in Registry, NEW plc \in Plan, NEW vw \in View,
         NEW cool \in SUBSET (Names \X Workers), Reconcile(reg, plc, vw, cool),
         NEW n \in Names, placements'[n] # None
  PROVE  /\ placements'[n].worker \in fresh /\ placements'[n].hbm < 2
         /\ placements'[n] = plc[n] \/ reg[n] # None
<1>1. PICK adopted, assigned : Reconciled(reg, plc, vw, cool, adopted, assigned)
  BY ReconcileSteps
<1> DEFINE held == Held(plc, adopted)
           U == Unplaced(reg, Kept(plc))
           V == Unplaced(reg, held)
<1>a. /\ adopted \in [U -> Locs \cup {None}]
      /\ \A m \in U : adopted[m] # None => adopted[m] \in fresh \X Slots
      /\ assigned \in [V -> Locs \cup {None}]
      /\ \A m \in V : assigned[m] # None => assigned[m] \in fresh \X Slots
  BY <1>1, HeldType
<1>b. placements' = Settle(held, assigned, "assigning") /\ held = Settle(Kept(plc), adopted, "running")
  BY <1>1 DEF Reconciled, Held
<1>c. \A m \in U \cup V : reg[m] # None
  BY DEF Unplaced, Registered
<1> HIDE DEF held, U, V
<1>2. CASE n \in V /\ assigned[n] # None
  <2>1. placements'[n] = NewPlacement(assigned[n], "assigning")
    BY <1>a, <1>b, <1>2, SettleAt
  <2>2. assigned[n] \in fresh \X Slots /\ reg[n] # None
    BY <1>a, <1>c, <1>2
  <2>3. QED BY <2>1, <2>2 DEF NewPlacement
<1>3. CASE n \notin V \/ assigned[n] = None
  <2>1. placements'[n] = held[n]
    BY <1>a, <1>b, <1>3, SettleElse
  <2>2. CASE n \in U /\ adopted[n] # None
    <3>1. held[n] = NewPlacement(adopted[n], "running")
      BY <1>a, <1>b, <2>2, SettleAt
    <3>2. adopted[n] \in fresh \X Slots /\ reg[n] # None
      BY <1>a, <1>c, <2>2
    <3>3. QED BY <2>1, <3>1, <3>2 DEF NewPlacement
  <2>3. CASE n \notin U \/ adopted[n] = None
    <3>1. held[n] = Kept(plc)[n]
      BY <1>a, <1>b, <2>3, SettleElse
    <3>2. plc[n] # None /\ held[n] = plc[n] /\ ~Lost(plc[n]) /\ ~Contradicted(plc[n])
      BY <2>1, <3>1 DEF Kept
    <3>3. plc[n].hbm \in 0..2
      BY <3>2 DEF Plan, Placement
    <3>4. QED BY <2>1, <3>2, <3>3 DEF Lost, Contradicted
  <2>4. QED BY <2>2, <2>3
<1>4. QED BY <1>2, <1>3
-----------------------------------------------------------------------------
(* The handlers keep the types. *)

\* A report written into the view and the states keeps their types.
LEMMA SeenType ==
  ASSUME TypeOK, NEW w \in Workers, NEW r \in Reports
  PROVE  /\ Seen(w, r) \in View
         /\ Stated(w, r) \in [Workers -> [Slots -> {"none", "loading", "running"}]]
BY DEF Seen, Stated, Reports, View, TypeOK

\* Changing the state or the count of a placement gives a placement.
LEMMA PlacementExcept ==
  ASSUME NEW p \in Placement, NEW st \in {"assigning", "loading", "running"},
         NEW h \in 0..2
  PROVE  /\ [p EXCEPT !.state = st] \in Placement
         /\ [p EXCEPT !.hbm = h] \in Placement
         /\ [p EXCEPT !.state = st, !.hbm = h] \in Placement
<1>1. /\ [p EXCEPT !.state = st] \in Placement
      /\ [p EXCEPT !.hbm = h] \in Placement
  BY DEF Placement
<1> DEFINE q == [p EXCEPT !.state = st]
<1>2. \A pl \in Placement : [pl EXCEPT !.hbm = h] \in Placement
  BY DEF Placement
<1>3. [q EXCEPT !.hbm = h] \in Placement
  BY <1>1, <1>2
<1>4. [p EXCEPT !.state = st, !.hbm = h] = [q EXCEPT !.hbm = h]
  OBVIOUS
<1>5. QED BY <1>1, <1>3, <1>4

\* A placement that a report judges stays one: a report names a state wherever
\* it names a workload.
LEMMA JudgedType ==
  ASSUME NEW p \in Placement, NEW n \in Names, NEW r \in Reports
  PROVE  Judged(p, n, r) \in Placement
<1>1. p.slot \in Slots /\ p.hbm \in 0..2
  BY DEF Placement
<1>2. CASE r[p.slot].workload # n
  <2>1. (IF p.hbm < 2 THEN p.hbm + 1 ELSE 2) \in 0..2
    BY <1>1
  <2>2. QED BY <1>2, <2>1, PlacementExcept DEF Judged
<1>3. CASE r[p.slot].workload = n
  <2>1. r[p.slot].state \in {"loading", "running"}
    <3>1. n # None
      BY NoneAssumption
    <3>2. QED BY <1>1, <1>3, <3>1 DEF Reports
  <2>2. 0 \in 0..2
    OBVIOUS
  <2>3. QED BY <1>3, <2>1, <2>2, PlacementExcept DEF Judged
<1>4. QED BY <1>2, <1>3

\* Adopting leaves a plan.
LEMMA AdoptedType ==
  ASSUME TypeOK, NEW vw, NEW st, NEW ws \in SUBSET Workers, NEW ok,
         NEW f \in Adoptions(registry, placements, vw, st, ws, ok),
         NEW state \in {"assigning", "loading", "running"}
  PROVE  Settle(placements, f, state) \in Plan
<1>1. f \in [Unplaced(registry, placements) -> Locs \cup {None}]
  BY AdoptionsType
<1>2. Unplaced(registry, placements) \in SUBSET Names
  BY DEF Unplaced, Registered
<1>3. QED BY <1>1, <1>2, SettleType DEF TypeOK, Plan

\* One lemma per handler: a registration keeps the types.
LEMMA RegisterType ==
  ASSUME TypeOK, NEW w \in Workers, NEW r \in Reports, HandleRegister(w, r)
  PROVE  TypeOK'
<1>1. placements' \in Plan
  <2>1. PICK f \in Adoptions(registry, placements, Seen(w, r), Stated(w, r), {w}, {"running"}) :
          placements' = Settle(placements, f, "running")
    BY DEF HandleRegister
  <2>2. {w} \in SUBSET Workers
    OBVIOUS
  <2>3. QED BY <2>1, <2>2, AdoptedType
<1>2. view' \in View
  BY SeenType DEF HandleRegister
<1>3. vstate' \in [Workers -> [Slots -> {"none", "loading", "running"}]]
  BY DEF HandleRegister, NoStates, TypeOK
<1>4. QED BY <1>1, <1>2, <1>3
      DEF TypeOK, HandleRegister, Hear, desired, calls, Plan, View

\* A heartbeat keeps the types.
LEMMA HeartbeatType ==
  ASSUME TypeOK, NEW w \in Workers, NEW r \in Reports, HandleHeartbeat(w, r)
  PROVE  TypeOK'
<1> DEFINE ws == IF w \in known THEN {} ELSE {w}
<1>1. placements' \in Plan
  <2>1. PICK f \in Adoptions(registry, placements, Seen(w, r), Stated(w, r), ws,
                             {"loading", "running"}) :
          LET held == Settle(placements, f, "assigning") IN
          placements' = [n \in Names |->
            IF held[n] # None /\ held[n].worker = w THEN Judged(held[n], n, r) ELSE held[n]]
    BY DEF HandleHeartbeat
  <2>2. ws \in SUBSET Workers
    OBVIOUS
  <2>3. Settle(placements, f, "assigning") \in Plan
    BY <2>2, AdoptedType
  <2>4. QED BY <2>1, <2>3, JudgedType DEF Plan
<1>2. view' \in View /\ vstate' \in [Workers -> [Slots -> {"none", "loading", "running"}]]
  BY SeenType DEF HandleHeartbeat
<1>3. QED BY <1>1, <1>2
      DEF TypeOK, HandleHeartbeat, Hear, desired, calls, Plan, View

\* The reply to a successful assignment keeps the types.
LEMMA AssignOkType ==
  ASSUME TypeOK, NEW w \in Workers, NEW n \in Names, HandleAssignOk(w, n)
  PROVE  TypeOK'
<1>1. placements' \in Plan
  <2>1. CASE placements[n] # None /\ placements[n].worker = w
    <3>1. placements[n] \in Placement
      BY <2>1 DEF TypeOK
    <3>2. [placements[n] EXCEPT !.state = "running", !.hbm = 0] \in Placement
      <4>1. 0 \in 0..2 /\ "running" \in {"assigning", "loading", "running"}
        OBVIOUS
      <4>2. QED BY <3>1, <4>1, PlacementExcept
    <3>3. placements' = [placements EXCEPT ![n] =
                           [placements[n] EXCEPT !.state = "running", !.hbm = 0]]
      BY <2>1 DEF HandleAssignOk, TypeOK
    <3>4. QED BY <3>2, <3>3 DEF TypeOK, Plan
  <2>2. CASE ~(placements[n] # None /\ placements[n].worker = w)
    BY <2>2 DEF HandleAssignOk, TypeOK, Plan
  <2>3. QED BY <2>1, <2>2
<1>2. QED BY <1>1 DEF TypeOK, HandleAssignOk, desired, views, calls, Plan

\* The reply to a failed assignment, with its reconcile, keeps the types.
LEMMA AssignFailedType ==
  ASSUME TypeOK, NEW w \in Workers, NEW n \in Names, HandleAssignFailed(w, n)
  PROVE  TypeOK'
<1> DEFINE p == placements[n]
           mine == p # None /\ p.worker = w
           plc == IF mine THEN [placements EXCEPT ![n] = None] ELSE placements
           vw == IF mine THEN [view EXCEPT ![w][p.slot] = None] ELSE view
           cool == cooldown \cup {<<n, w>>}
<1>1. Reconcile(registry, plc, vw, cool)
  BY DEF HandleAssignFailed
<1>2. plc \in Plan /\ vw \in View /\ cool \in SUBSET (Names \X Workers)
  BY DEF TypeOK, Plan, View, Placement
<1> HIDE DEF plc, vw, cool
<1>3. registry \in Registry
  BY DEF TypeOK
<1>4. QED BY <1>1, <1>2, <1>3, ReconcileType
      DEF TypeOK, HandleAssignFailed, desired, Plan, View

\* A deploy, with its save and its reconcile, keeps the types.
LEMMA DeployType ==
  ASSUME TypeOK, NEW n \in Names, NEW sp \in Specs, NEW force, HandleDeploy(n, sp, force)
  PROVE  TypeOK'
<1> DEFINE reg == [registry EXCEPT ![n] = sp]
<1>1. reg \in Registry
  BY DEF TypeOK, Registry
<1>2. registry' = reg /\ regfile' = reg /\ Reconcile(reg, placements, view, cooldown)
  BY DEF HandleDeploy, Save
<1> HIDE DEF reg
<1>3. placements \in Plan /\ view \in View /\ cooldown \in SUBSET (Names \X Workers)
  BY DEF TypeOK, Plan, View
<1>4. QED BY <1>1, <1>2, <1>3, ReconcileType DEF TypeOK, HandleDeploy, Plan, View

\* Remove and purge keep the types.
LEMMA UndeployType ==
  ASSUME TypeOK, NEW S \in SUBSET Names, Undeploy(S)
  PROVE  TypeOK'
<1> DEFINE locs == {l \in Workers \X Slots : \E n \in S : At(placements[n], l[1], l[2])}
           D(w) == InSomeOrder({DrainOf(s) : s \in {t \in Slots : <<w, t>> \in locs}})
<1>1. view' \in View
  <2>1. view' = Clear(view, locs) /\ view \in View
    BY DEF Undeploy, TypeOK, View
  <2>2. QED BY <2>1, ClearType
<1>2. wire' \in [Workers -> Seq(Command)]
  <2>1. \A w \in Workers : D(w) \in Seq(Command)
    BY DrainsType
  <2>2. wire' = [w \in Workers |-> wire[w] \o D(w)]
    BY DEF Undeploy
  <2> HIDE DEF D
  <2>3. \A w \in Workers : wire[w] \in Seq(Command)
    BY DEF TypeOK
  <2>4. \A w \in Workers : wire[w] \o D(w) \in Seq(Command)
    BY <2>1, <2>3
  <2>5. QED BY <2>2, <2>4
<1>3. placements' \in Plan
  BY DEF Undeploy, TypeOK, Plan
<1>4. registry' \in Registry /\ regfile' = registry'
  BY DEF Undeploy, Save, TypeOK, Registry
<1>5. QED BY <1>1, <1>2, <1>3, <1>4 DEF TypeOK, Undeploy, calls, Plan, View

\* The update broadcast keeps the types.
LEMMA UpdateWorkersType ==
  ASSUME TypeOK, HandleUpdateWorkers
  PROVE  TypeOK'
<1>1. [type |-> "update"] \in Command
  BY DEF Command
<1>2. wire' \in [Workers -> Seq(Command)]
  BY <1>1 DEF HandleUpdateWorkers, TypeOK
<1>3. QED BY <1>2 DEF TypeOK, HandleUpdateWorkers, desired, views, plan, calls

\* An invocation, relayed or refused, keeps the types.
LEMMA InvokeType ==
  ASSUME TypeOK, NEW id \in Ids, NEW n \in Names, NEW c \in Calls, HandleInvoke(id, n, c)
  PROVE  TypeOK'
<1>1. CASE placements[n] # None /\ placements[n].state = "running"
  <2> DEFINE m == [type |-> "invoke", id |-> id, name |-> n, call |-> c]
  <2>1. m \in Command
    BY DEF Command
  <2>2. /\ inflight' = [inflight EXCEPT ![id] = "waiting"]
        /\ wire' = [wire EXCEPT ![placements[n].worker] = Append(@, m)]
        /\ UNCHANGED <<desired, views, plan, mode, replies>>
    BY <1>1 DEF HandleInvoke
  <2> HIDE DEF m
  <2>3. placements[n].worker \in Workers /\ wire \in [Workers -> Seq(Command)]
    BY <1>1 DEF TypeOK, Placement
  <2>4. wire' \in [Workers -> Seq(Command)]
    BY <2>1, <2>2, <2>3
  <2>5. QED BY <2>2, <2>4 DEF TypeOK, desired, views, plan
<1>2. CASE ~(placements[n] # None /\ placements[n].state = "running")
  <2>1. /\ replies' = [replies EXCEPT ![id] = Append(@, "error")]
        /\ UNCHANGED <<desired, views, plan, mode, inflight, wire>>
    BY <1>2 DEF HandleInvoke, Answer
  <2>2. QED BY <2>1 DEF TypeOK, Answers, desired, views, plan
<1>3. QED BY <1>1, <1>2

\* A reconcile tick keeps the types.
LEMMA TickType ==
  ASSUME TypeOK, ReconcileTick
  PROVE  TypeOK'
<1>1. Reconcile(registry, placements, view, cooldown)
  BY DEF ReconcileTick
<1>2. /\ placements \in Plan /\ view \in View /\ cooldown \in SUBSET (Names \X Workers)
      /\ registry \in Registry
  BY DEF TypeOK, Plan, View
<1>3. QED BY <1>1, <1>2, ReconcileType DEF TypeOK, ReconcileTick, desired, Plan, View

\* A start forgets everything but the registry.
LEMMA ForgottenType ==
  ASSUME TypeOK, Forgotten, registry' \in Registry, regfile' \in Registry,
         UNCHANGED <<wire, replies>>
  PROVE  TypeOK'
BY DEF TypeOK, Forgotten, EmptyView, NoStates, View
-----------------------------------------------------------------------------
(* Type correctness. *)

\* Every step keeps the types.
LEMMA TypeStep == TypeOK /\ [OpenNext]_vars => TypeOK'
<1> SUFFICES ASSUME TypeOK, [OpenNext]_vars
             PROVE  TypeOK'
  OBVIOUS
<1>1. ASSUME NEW w \in Workers, NEW r \in Reports, HandleRegister(w, r)
      PROVE  TypeOK'
  BY <1>1, RegisterType
<1>2. ASSUME NEW w \in Workers, NEW r \in Reports, HandleHeartbeat(w, r)
      PROVE  TypeOK'
  BY <1>2, HeartbeatType
<1>3. ASSUME NEW w \in Workers, NEW n \in Names, HandleAssignOk(w, n)
      PROVE  TypeOK'
  BY <1>3, AssignOkType
<1>4. ASSUME NEW w \in Workers, NEW n \in Names, HandleAssignFailed(w, n)
      PROVE  TypeOK'
  BY <1>4, AssignFailedType
<1>5. ASSUME NEW n \in Names, NEW sp \in Specs, HandleDeploy(n, sp, registry[n] # None)
      PROVE  TypeOK'
  BY <1>5, DeployType
<1>6. ASSUME NEW n \in Names, HandleRemove(n)
      PROVE  TypeOK'
  <2>1. {n} \in SUBSET Names /\ Undeploy({n})
    BY <1>6 DEF HandleRemove
  <2>2. QED BY <2>1, UndeployType
<1>7. CASE HandlePurge
  <2>1. Names \in SUBSET Names /\ Undeploy(Names)
    BY <1>7 DEF HandlePurge
  <2>2. QED BY <2>1, UndeployType
<1>8. CASE HandleUpdateWorkers
  BY <1>8, UpdateWorkersType
<1>9. CASE HandleUpdateGateway
  BY <1>9 DEF TypeOK, HandleUpdateGateway, desired, views, plan, calls
<1>10. ASSUME NEW id \in Ids, NEW n \in Names, NEW c \in Calls, HandleInvoke(id, n, c)
       PROVE  TypeOK'
  BY <1>10, InvokeType
<1>11. ASSUME NEW id \in Ids, NEW a \in Calls \cup {"error"}, HandleInvokeReply(id, a)
       PROVE  TypeOK'
  <2>1. replies' \in [Ids -> Seq(Answers)]
    BY <1>11 DEF TypeOK, HandleInvokeReply, Answer, Answers
  <2>2. QED BY <1>11, <2>1 DEF TypeOK, HandleInvokeReply, desired, views, plan
<1>12. CASE UpdateGatewayFails
  BY <1>12 DEF TypeOK, UpdateGatewayFails, desired, views, plan, calls
<1>13. CASE ReconcileTick
  BY <1>13, TickType
<1>14. ASSUME NEW w \in Workers, WorkerSilent(w)
       PROVE  TypeOK'
  BY <1>14 DEF TypeOK, WorkerSilent, desired, plan, calls
<1>15. ASSUME NEW n \in Names, NEW w \in Workers, CooldownEnds(n, w)
       PROVE  TypeOK'
  BY <1>15 DEF TypeOK, CooldownEnds, desired, views, calls
<1>16. ASSUME NEW id \in Ids, InvokeOverdue(id)
       PROVE  TypeOK'
  BY <1>16 DEF TypeOK, InvokeOverdue, desired, views, plan
<1>17. ASSUME NEW id \in Ids, TakeReply(id)
       PROVE  TypeOK'
  <2>1. replies' \in [Ids -> Seq(Answers)]
    BY <1>17 DEF TypeOK, TakeReply
  <2>2. QED BY <1>17, <2>1 DEF TypeOK, TakeReply, desired, views, plan
<1>18. CASE Reboot
  <2>1. registry' \in Registry /\ regfile' \in Registry
    BY <1>18 DEF Reboot, TypeOK
  <2>2. QED BY <1>18, <2>1, ForgottenType DEF Reboot
<1>19. CASE CrashInSave
  <2>1. registry' \in Registry /\ regfile' \in Registry
    BY <1>19 DEF CrashInSave, EmptyRegistry, Registry
  <2>2. QED BY <1>19, <2>1, ForgottenType DEF CrashInSave
<1>20. CASE Take
  <2>1. wire' \in [Workers -> Seq(Command)]
    BY <1>20 DEF Take
  <2>2. QED BY <1>20, <2>1 DEF TypeOK, Take, desired, views, plan, calls
<1>21. CASE UNCHANGED vars
  BY <1>21 DEF TypeOK, vars, desired, views, plan, calls
<1>22. CASE Outside
  BY <1>22 DEF TypeOK, Outside, desired, views, plan, calls
<1>23. QED
  BY <1>1, <1>2, <1>3, <1>4, <1>5, <1>6, <1>7, <1>8, <1>9, <1>10, <1>11, <1>12, <1>13,
     <1>14, <1>15, <1>16, <1>17, <1>18, <1>19, <1>20, <1>21, <1>22
     DEF OpenNext, Next, PlanNext, CallNext, WorkerMessage, ClientRequest

LEMMA InitTyped == Init => TypeOK
BY DEF Init, TypeOK, Registry, EmptyView, NoStates

LEMMA OpenTyped == OpenSpec => []TypeOK
BY InitTyped, TypeStep, PTL DEF OpenSpec

\* The gateway's state is always of its type: no handler, whatever a worker or
\* a client says, writes a malformed placement, view or command.
THEOREM TypeCorrect == Spec => []TypeOK
BY OpenTyped, NetworkIsAny, PTL
-----------------------------------------------------------------------------
(* What is placed. *)

\* What adoption adds to a plan is registered and on a worker of ws.
LEMMA AdoptedPlaces ==
  ASSUME NEW vw, NEW st, NEW ws \in SUBSET Workers, NEW ok,
         NEW f \in Adoptions(registry, placements, vw, st, ws, ok), NEW state,
         NEW n \in Names
  PROVE  LET q == Settle(placements, f, state)[n]
         IN  q = placements[n] \/ (registry[n] # None /\ q.worker \in ws)
<1> DEFINE U == Unplaced(registry, placements)
<1>1. /\ f \in [U -> Locs \cup {None}]
      /\ \A m \in U : f[m] # None => f[m] \in ws \X Slots
  BY AdoptionsType
<1>2. \A m \in U : registry[m] # None
  BY DEF Unplaced, Registered
<1> HIDE DEF U
<1>3. CASE n \in U /\ f[n] # None
  <2>1. Settle(placements, f, state)[n] = NewPlacement(f[n], state)
    BY <1>1, <1>3, SettleAt
  <2>2. f[n] \in ws \X Slots /\ registry[n] # None
    BY <1>1, <1>2, <1>3
  <2>3. QED BY <2>1, <2>2 DEF NewPlacement
<1>4. CASE n \notin U \/ f[n] = None
  BY <1>1, <1>4, SettleElse
<1>5. QED BY <1>3, <1>4

\* Judging a placement does not move it.
LEMMA JudgedWorker ==
  ASSUME NEW p \in Placement, NEW n, NEW r
  PROVE  Judged(p, n, r).worker = p.worker
BY DEF Judged, Placement

\* Everything placed is registered, on a worker with an entry.
Accounted(n) == placements[n] # None => registry[n] # None /\ placements[n].worker \in known

\* A reconcile keeps that, for the registry, plan and view it is given.
LEMMA ReconcileAccounts ==
  ASSUME TypeOK, NEW reg \in Registry, NEW plc \in Plan, NEW vw \in View,
         NEW cool \in SUBSET (Names \X Workers), Reconcile(reg, plc, vw, cool),
         registry' = reg, known' = known,
         NEW n \in Names, plc[n] # None => reg[n] # None
  PROVE  Accounted(n)'
<1> SUFFICES ASSUME placements'[n] # None
             PROVE  reg[n] # None /\ placements'[n].worker \in known
  BY DEF Accounted
<1>1. placements'[n].worker \in fresh /\ (placements'[n] = plc[n] \/ reg[n] # None)
  BY ReconcilePlaces
<1>2. fresh \subseteq known
  BY DEF TypeOK
<1>3. QED BY <1>1, <1>2

\* Every step keeps placements registered and on known workers.
LEMMA AccountedStep ==
  ASSUME TypeOK, \A n \in Names : Accounted(n), [OpenNext]_vars, NEW n \in Names
  PROVE  Accounted(n)'
<1>0. /\ registry \in Registry /\ placements \in Plan /\ view \in View
      /\ cooldown \in SUBSET (Names \X Workers)
  BY DEF TypeOK, Plan, View
<1>1. ASSUME NEW w \in Workers, NEW r \in Reports, HandleRegister(w, r)
      PROVE  Accounted(n)'
  <2>1. PICK f \in Adoptions(registry, placements, Seen(w, r), Stated(w, r), {w}, {"running"}) :
          placements' = Settle(placements, f, "running")
    BY <1>1 DEF HandleRegister
  <2>2. {w} \in SUBSET Workers
    OBVIOUS
  <2>3. placements'[n] = placements[n]
          \/ (registry[n] # None /\ placements'[n].worker \in {w})
    BY <2>1, <2>2, AdoptedPlaces
  <2>4. QED BY <1>1, <2>3 DEF Accounted, HandleRegister, Hear, desired
<1>2. ASSUME NEW w \in Workers, NEW r \in Reports, HandleHeartbeat(w, r)
      PROVE  Accounted(n)'
  <2> DEFINE ws == IF w \in known THEN {} ELSE {w}
  <2>1. PICK f \in Adoptions(registry, placements, Seen(w, r), Stated(w, r), ws,
                             {"loading", "running"}) :
          LET held == Settle(placements, f, "assigning") IN
          placements' = [m \in Names |->
            IF held[m] # None /\ held[m].worker = w THEN Judged(held[m], m, r) ELSE held[m]]
    BY <1>2 DEF HandleHeartbeat
  <2> DEFINE held == Settle(placements, f, "assigning")
  <2>2. ws \in SUBSET Workers
    OBVIOUS
  <2>3. held \in Plan
    BY <2>2, AdoptedType
  <2>4. held[n] = placements[n] \/ (registry[n] # None /\ held[n].worker \in ws)
    BY <2>2, AdoptedPlaces
  <2>5. placements'[n] # None => held[n] # None /\ placements'[n].worker = held[n].worker
    BY <2>1, <2>3, JudgedWorker DEF Plan
  <2> HIDE DEF held
  <2>6. QED BY <1>2, <2>4, <2>5 DEF Accounted, HandleHeartbeat, Hear, desired
<1>3. ASSUME NEW w \in Workers, NEW m \in Names, HandleAssignOk(w, m)
      PROVE  Accounted(n)'
  <2>1. placements'[n] # None => placements[n] # None
                                 /\ placements'[n].worker = placements[n].worker
    BY <1>0, <1>3 DEF HandleAssignOk, Plan, Placement
  <2>2. QED BY <1>3, <2>1 DEF Accounted, HandleAssignOk, desired, views
<1>4. ASSUME NEW w \in Workers, NEW m \in Names, HandleAssignFailed(w, m)
      PROVE  Accounted(n)'
  <2> DEFINE p == placements[m]
             mine == p # None /\ p.worker = w
             plc == IF mine THEN [placements EXCEPT ![m] = None] ELSE placements
             vw == IF mine THEN [view EXCEPT ![w][p.slot] = None] ELSE view
             cool == cooldown \cup {<<m, w>>}
  <2>1. Reconcile(registry, plc, vw, cool) /\ registry' = registry /\ known' = known
    BY <1>4 DEF HandleAssignFailed, desired
  <2>2. plc \in Plan /\ vw \in View /\ cool \in SUBSET (Names \X Workers)
    BY DEF TypeOK, Plan, View, Placement
  <2>3. plc[n] # None => registry[n] # None
    BY <1>0 DEF Accounted, Plan
  <2> HIDE DEF plc, vw, cool
  <2>4. QED BY <1>0, <2>1, <2>2, <2>3, ReconcileAccounts
<1>5. ASSUME NEW m \in Names, NEW sp \in Specs, HandleDeploy(m, sp, registry[m] # None)
      PROVE  Accounted(n)'
  <2> DEFINE reg == [registry EXCEPT ![m] = sp]
  <2>1. Reconcile(reg, placements, view, cooldown) /\ registry' = reg /\ known' = known
    BY <1>5 DEF HandleDeploy, Save
  <2>2. reg \in Registry /\ (placements[n] # None => reg[n] # None)
    BY <1>0, NoneAssumption DEF Registry, Accounted
  <2> HIDE DEF reg
  <2>3. QED BY <1>0, <2>1, <2>2, ReconcileAccounts
<1>6. ASSUME NEW S \in SUBSET Names, Undeploy(S)
      PROVE  Accounted(n)'
  BY <1>6 DEF Accounted, Undeploy, Save
<1>7. CASE ReconcileTick
  <2>1. /\ Reconcile(registry, placements, view, cooldown)
        /\ registry' = registry /\ known' = known
    BY <1>7 DEF ReconcileTick, desired
  <2>2. placements[n] # None => registry[n] # None
    BY DEF Accounted
  <2>3. QED BY <1>0, <2>1, <2>2, ReconcileAccounts
<1>8. CASE Forgotten
  BY <1>8 DEF Accounted, Forgotten
<1>9. CASE UNCHANGED <<registry, placements, known>>
  BY <1>9 DEF Accounted
<1>10. CASE ClientRequest
  <2>1. Names \in SUBSET Names /\ \A m \in Names : {m} \in SUBSET Names
    OBVIOUS
  <2>2. ASSUME NEW m \in Names, HandleRemove(m)
        PROVE  Accounted(n)'
    BY <1>6, <2>1, <2>2 DEF HandleRemove
  <2>3. CASE HandlePurge
    BY <1>6, <2>3 DEF HandlePurge
  <2>4. CASE HandleUpdateWorkers
    BY <1>9, <2>4 DEF HandleUpdateWorkers, desired, views, plan
  <2>5. CASE HandleUpdateGateway
    BY <1>9, <2>5 DEF HandleUpdateGateway, desired, views, plan
  <2>6. QED BY <1>5, <1>10, <2>2, <2>3, <2>4, <2>5 DEF ClientRequest
<1>11. CASE WorkerMessage
  BY <1>1, <1>2, <1>3, <1>4, <1>11 DEF WorkerMessage
<1>12. CASE Reboot \/ CrashInSave
  BY <1>8, <1>12 DEF Reboot, CrashInSave
<1>13. ASSUME NEW id \in Ids, NEW a \in Calls \cup {"error"}, HandleInvokeReply(id, a)
       PROVE  Accounted(n)'
  BY <1>9, <1>13 DEF HandleInvokeReply, desired, views, plan
<1>14. CASE UpdateGatewayFails \/ Take
  BY <1>9, <1>14 DEF UpdateGatewayFails, Take, desired, views, plan
<1>15. ASSUME NEW w \in Workers, WorkerSilent(w)
       PROVE  Accounted(n)'
  BY <1>9, <1>15 DEF WorkerSilent, desired, plan
<1>16. ASSUME NEW m \in Names, NEW w \in Workers, CooldownEnds(m, w)
       PROVE  Accounted(n)'
  BY <1>9, <1>16 DEF CooldownEnds, desired, views
<1>17. ASSUME NEW id \in Ids, InvokeOverdue(id) \/ TakeReply(id)
       PROVE  Accounted(n)'
  BY <1>9, <1>17 DEF InvokeOverdue, TakeReply, desired, views, plan
<1>18. CASE Outside \/ UNCHANGED vars
  BY <1>9, <1>18 DEF Outside, vars, desired, views, plan
<1>20. ASSUME NEW id \in Ids, NEW m \in Names, NEW c \in Calls, HandleInvoke(id, m, c)
       PROVE  Accounted(n)'
  BY <1>9, <1>20 DEF HandleInvoke, desired, views, plan
<1>21. QED
  BY <1>7, <1>10, <1>11, <1>12, <1>13, <1>14, <1>15, <1>16, <1>17, <1>18, <1>20
     DEF OpenNext, Next, PlanNext, CallNext

LEMMA OpenAccounted == OpenSpec => [](PlacedIsRegistered /\ PlacedIsKnown)
<1> DEFINE Inv == \A n \in Names : Accounted(n)
<1>1. Init => Inv
  BY DEF Init, Accounted
<1>2. TypeOK /\ Inv /\ [OpenNext]_vars => Inv'
  BY AccountedStep
<1>3. Inv => PlacedIsRegistered /\ PlacedIsKnown
  BY DEF Accounted, PlacedIsRegistered, PlacedIsKnown
<1> HIDE DEF Inv
<1>4. QED BY <1>1, <1>2, <1>3, OpenTyped, PTL DEF OpenSpec

\* Nothing is placed that is not deployed, by any interleaving of reports, requests,
\* restarts and torn saves ...
THEOREM PlacedAreRegistered == Spec => []PlacedIsRegistered
BY OpenAccounted, NetworkIsAny, PTL

\* ... and nothing on a worker without an entry in workers, which free_slot and
\* reconcile index unchecked.
THEOREM PlacedAreKnown == Spec => []PlacedIsKnown
BY OpenAccounted, NetworkIsAny, PTL
-----------------------------------------------------------------------------
(* The registry file. *)

LEMMA OpenSaved == OpenSpec => []RegistryIsSaved
<1>1. Init => RegistryIsSaved
  BY DEF Init, RegistryIsSaved
<1>2. RegistryIsSaved /\ [OpenNext]_vars => RegistryIsSaved'
  <2> SUFFICES ASSUME RegistryIsSaved, [OpenNext]_vars
               PROVE  regfile' = registry'
    BY DEF RegistryIsSaved
  <2>1. CASE UNCHANGED desired
    BY <2>1 DEF RegistryIsSaved, desired
  <2>2. CASE WorkerMessage
    BY <2>1, <2>2 DEF WorkerMessage, HandleRegister, HandleHeartbeat, HandleAssignOk,
                      HandleAssignFailed
  <2>3. CASE ClientRequest
    <3>1. ASSUME NEW n \in Names, NEW sp \in Specs, HandleDeploy(n, sp, registry[n] # None)
          PROVE  regfile' = registry'
      BY <3>1 DEF HandleDeploy, Save
    <3>2. ASSUME NEW S, Undeploy(S)
          PROVE  regfile' = registry'
      BY <3>2 DEF Undeploy, Save
    <3>3. CASE HandleUpdateWorkers \/ HandleUpdateGateway
      BY <2>1, <3>3 DEF HandleUpdateWorkers, HandleUpdateGateway
    <3>4. QED BY <2>3, <3>1, <3>2, <3>3 DEF ClientRequest, HandleRemove, HandlePurge
  <2>4. CASE Reboot \/ CrashInSave
    BY <2>4 DEF Reboot, CrashInSave, RegistryIsSaved
  <2>5. ASSUME NEW id \in Ids, \/ \E n \in Names, c \in Calls : HandleInvoke(id, n, c)
                              \/ \E a \in Calls \cup {"error"} : HandleInvokeReply(id, a)
                              \/ InvokeOverdue(id) \/ TakeReply(id)
        PROVE  regfile' = registry'
    BY <2>1, <2>5 DEF HandleInvoke, HandleInvokeReply, InvokeOverdue, TakeReply
  <2>6. ASSUME NEW w \in Workers, WorkerSilent(w) \/ \E n \in Names : CooldownEnds(n, w)
        PROVE  regfile' = registry'
    BY <2>1, <2>6 DEF WorkerSilent, CooldownEnds
  <2>7. CASE UpdateGatewayFails \/ ReconcileTick \/ Take \/ Outside \/ UNCHANGED vars
    BY <2>1, <2>7 DEF UpdateGatewayFails, ReconcileTick, Take, Outside, vars
  <2>8. QED BY <2>2, <2>3, <2>4, <2>5, <2>6, <2>7 DEF OpenNext, Next, PlanNext, CallNext
<1>3. QED BY <1>1, <1>2, PTL DEF OpenSpec

\* Between two handlers the registry file holds the registry that handle()
\* acknowledged: the invariant is inductive without the types.
THEOREM RegistrySaved == Spec => []RegistryIsSaved
BY OpenSaved, NetworkIsAny, PTL
-----------------------------------------------------------------------------
(* A tick settles the plan. *)

\* What a slot shows after an assignment: the workload assigned to it, or what
\* it showed before.
LEMMA OccupyAt ==
  ASSUME NEW vw, NEW U, NEW f \in [U -> Locs \cup {None}],
         NEW w \in Workers, NEW s \in Slots
  PROVE  \/ Occupy(vw, f)[w][s] \in U /\ f[Occupy(vw, f)[w][s]] = <<w, s>>
         \/ (\A m \in U : f[m] # <<w, s>>) /\ Occupy(vw, f)[w][s] = vw[w][s]
<1>1. CASE \E m \in U : f[m] = <<w, s>>
  <2> DEFINE m == CHOOSE m \in U : f[m] = <<w, s>>
  <2>1. m \in U /\ f[m] = <<w, s>>
    BY <1>1
  <2>2. Occupy(vw, f)[w][s] = m
    BY <1>1 DEF Occupy
  <2>3. QED BY <2>1, <2>2
<1>2. CASE ~ \E m \in U : f[m] = <<w, s>>
  BY <1>2 DEF Occupy
<1>3. QED BY <1>1, <1>2

\* A slot that still shows a workload after clearing was not cleared.
LEMMA ClearAt ==
  ASSUME NEW vw, NEW L, NEW w \in Workers, NEW s \in Slots, Clear(vw, L)[w][s] # None
  PROVE  <<w, s>> \notin L /\ Clear(vw, L)[w][s] = vw[w][s]
BY DEF Clear

\* Garbage that is left after a reconcile is a copy of a workload that has just
\* been assigned elsewhere; nothing is unplaced while a slot is free for it.
LEMMA ReconcileSettles ==
  ASSUME TypeOK, NEW reg \in Registry, NEW plc \in Plan, NEW vw \in View,
         NEW cool \in SUBSET (Names \X Workers), Reconcile(reg, plc, vw, cool),
         registry' = reg, fresh' = fresh
  PROVE  Settled'
<1>1. PICK adopted, assigned : Reconciled(reg, plc, vw, cool, adopted, assigned)
  BY ReconcileSteps
<1> DEFINE held == Held(plc, adopted)
           gc == Garbage(reg, held, vw)
           swept == Swept(reg, plc, vw, adopted)
           cooled == Cooled(plc, cool)
           V == Unplaced(reg, held)
<1>2. /\ assigned \in [V -> Locs \cup {None}]
      /\ held \in Plan /\ V \in SUBSET Names /\ swept \in View
  BY <1>1, HeldType
<1>3. /\ placements' = Settle(held, assigned, "assigning")
      /\ view' = Occupy(swept, assigned)
      /\ cooldown' = cooled
      /\ assigned \in Assignments(reg, held, swept, cooled)
  BY <1>1 DEF Reconciled
<1>4. \A n \in Names : n \in V <=> reg[n] # None /\ held[n] = None
  BY DEF Unplaced, Registered
<1>5. placements' \in Plan /\ view' \in View
  BY ReconcileType
<1>6. \A n \in V : assigned[n] # None => placements'[n] = NewPlacement(assigned[n], "assigning")
  <2> SUFFICES ASSUME NEW n \in V, assigned[n] # None
               PROVE  placements'[n] = NewPlacement(assigned[n], "assigning")
    OBVIOUS
  <2> HIDE DEF held, V
  <2>1. n \in Names
    BY <1>2
  <2>2. QED BY <1>2, <1>3, <2>1, SettleAt
<1>7. \A n \in Names : n \notin V \/ assigned[n] = None => placements'[n] = held[n]
  <2> HIDE DEF held, V
  <2>1. QED BY <1>2, <1>3, SettleElse
<1>8. swept = Clear(vw, gc)
  BY DEF Swept
<1>9. \A w \in Workers, s \in Slots :
        \/ view'[w][s] \in V /\ assigned[view'[w][s]] = <<w, s>>
        \/ (\A m \in V : assigned[m] # <<w, s>>) /\ view'[w][s] = swept[w][s]
  <2> HIDE DEF held, V, swept
  <2>1. QED BY <1>2, <1>3, OccupyAt
<1>10. fresh \in SUBSET Workers
  BY DEF TypeOK
<1>11. ASSUME NEW n \in Names, placements'[n] # None
       PROVE  placements'[n].worker \in fresh' /\ placements'[n].hbm < 2
  BY <1>11, ReconcilePlaces
<1>12. ASSUME NEW w \in fresh, NEW s \in Slots, NEW n, n = view'[w][s], n # None,
              ~At(placements'[n], w, s), reg[n] = None \/ placements'[n] # None
       PROVE  reg[n] # None /\ placements'[n].state = "assigning"
  <2>1. w \in Workers /\ n \in Names
    BY <1>5, <1>10, <1>12 DEF View
  <2>2. CASE n \in V /\ assigned[n] = <<w, s>>
    <3>1. placements'[n] = NewPlacement(<<w, s>>, "assigning")
      <4>1. assigned[n] # None
        BY <2>1, <2>2, LocationAssumption
      <4>2. QED BY <1>6, <2>2, <4>1
    <3>2. QED BY <1>12, <2>1, <3>1, PlacementAssumption DEF At, NewPlacement, Placement
  <2>3. CASE (\A m \in V : assigned[m] # <<w, s>>) /\ n = swept[w][s]
    <3>1. <<w, s>> \notin gc /\ n = vw[w][s]
      BY <1>8, <1>12, <2>1, <2>3, ClearAt
    <3>2. At(held[n], w, s) \/ (reg[n] # None /\ held[n] = None)
      BY <1>12, <3>1 DEF Garbage
    <3>3. CASE At(held[n], w, s)
      BY <1>4, <1>7, <1>12, <2>1, <3>3 DEF At
    <3>4. CASE reg[n] # None /\ held[n] = None
      <4>1. assigned[n] # None /\ n \in V
        BY <1>4, <1>7, <1>12, <2>1, <3>4
      <4>2. placements'[n] = NewPlacement(assigned[n], "assigning")
        BY <1>6, <4>1
      <4>3. QED BY <3>4, <4>2 DEF NewPlacement
    <3>5. QED BY <3>2, <3>3, <3>4
  <2>4. QED BY <1>9, <1>12, <2>1, <2>2, <2>3
<1>13. ASSUME NEW n \in Names, reg[n] # None, placements'[n] = None
       PROVE  FreeFor(n, view', cooled) = {}
  <2>1. n \in V /\ assigned[n] = None
    <3>1. CASE n \in V /\ assigned[n] # None
      <4>1. assigned[n][1] \in Workers /\ assigned[n][2] \in Slots
        BY <1>2, <3>1 DEF Locs
      <4>2. NewPlacement(assigned[n], "assigning") \in Placement
        BY <4>1 DEF NewPlacement, Placement
      <4>3. QED BY <1>6, <1>13, <3>1, <4>2, PlacementAssumption
    <3>2. QED BY <1>4, <1>7, <1>13, <3>1
  <2>2. SUFFICES ASSUME NEW w \in fresh, NEW s \in Slots, view'[w][s] = None,
                        <<n, w>> \notin cooled
                 PROVE  FALSE
    BY DEF FreeFor
  <2>3. w \in Workers /\ None \notin V
    BY <1>2, <1>10, NoneAssumption
  <2>4. (\A m \in V : assigned[m] # <<w, s>>) /\ swept[w][s] = None
    BY <1>9, <2>2, <2>3
  <2>5. <<w, s>> \in FreeFor(n, swept, cooled)
    BY <2>2, <2>4 DEF FreeFor
  <2>6. \A l \in FreeFor(n, swept, cooled) : \E m \in V : assigned[m] = l
    BY <1>3, <2>1 DEF Assignments
  <2>7. QED BY <2>4, <2>5, <2>6
<1> HIDE DEF held, gc, swept, cooled, V
<1>14. (\A l \in Garbage(registry, placements, view) :
          LET n == view[l[1]][l[2]] IN
            registry[n] # None /\ placements[n].state = "assigning")'
  <2> SUFFICES ASSUME NEW l \in fresh' \X Slots, view'[l[1]][l[2]] # None,
                      ~At(placements'[view'[l[1]][l[2]]], l[1], l[2]),
                      \/ registry'[view'[l[1]][l[2]]] = None
                      \/ placements'[view'[l[1]][l[2]]] # None
               PROVE  /\ registry'[view'[l[1]][l[2]]] # None
                      /\ placements'[view'[l[1]][l[2]]].state = "assigning"
    BY DEF Garbage, At
  <2>1. l[1] \in fresh /\ l[2] \in Slots
    OBVIOUS
  <2>2. QED BY <1>12, <2>1
<1>15. (\A n \in Unplaced(registry, placements) : FreeFor(n, view, cooldown) = {})'
  <2> SUFFICES ASSUME NEW n \in Names, reg[n] # None, placements'[n] = None
               PROVE  FreeFor(n, view, cooldown)' = {}
    BY DEF Unplaced, Registered
  <2>1. FreeFor(n, view, cooldown)' = FreeFor(n, view', cooled)
    BY <1>3 DEF FreeFor
  <2>2. QED BY <1>13, <2>1
<1>16. QED BY <1>11, <1>14, <1>15 DEF Settled

LEMMA TickSettled ==
  ASSUME TypeOK, ReconcileTick
  PROVE  Settled'
<1>1. /\ registry' = registry /\ fresh' = fresh
      /\ Reconcile(registry, placements, view, cooldown)
  BY DEF ReconcileTick, desired
<1>2. /\ registry \in Registry /\ placements \in Plan /\ view \in View
      /\ cooldown \in SUBSET (Names \X Workers)
  BY DEF TypeOK, Plan, View
<1>3. QED BY <1>1, <1>2, ReconcileSettles

\* After a reconcile tick the plan is settled, whatever state the tick finds:
\* no placement is on a lost or twice contradicted worker, no free slot is left
\* unused, and garbage is only a copy of a workload assigned by this very tick.
THEOREM TicksSettle == Spec => TickSettles
<1>1. TypeOK /\ [Next]_vars => [ReconcileTick => Settled']_vars
  BY TickSettled
<1>2. QED BY <1>1, TypeCorrect, PTL DEF Spec, TickSettles

\* Nothing to say is said by the empty sequence.
LEMMA NothingInOrder == InSomeOrder({}) = <<>>
<1>1. InSomeOrder({}) \in Seq({})
  BY InSomeOrderType, FS_EmptySet
<1>2. QED BY <1>1

\* Locating nothing settles and occupies nothing.
LEMMA NothingSettled ==
  ASSUME NEW plc \in Plan, NEW vw \in View, NEW f, DOMAIN f = {}, NEW st
  PROVE  Settle(plc, f, st) = plc /\ Occupy(vw, f) = vw
BY DEF Settle, Occupy, Plan, View

\* A reconcile of a settled plan is a stutter: with every registered workload
\* placed on a live worker, uncontradicted, and no garbage in view, it moves,
\* drains and assigns nothing.
LEMMA IdleReconcile ==
  ASSUME TypeOK, Reconcile(registry, placements, view, cooldown),
         Unplaced(registry, placements) = {},
         Garbage(registry, placements, view) = {},
         \A n \in Names : placements[n] # None =>
           ~Lost(placements[n]) /\ ~Contradicted(placements[n])
  PROVE  UNCHANGED <<placements, view, cooldown, wire>>
<1>1. PICK adopted, assigned :
        Reconciled(registry, placements, view, cooldown, adopted, assigned)
  BY ReconcileSteps
<1>2. placements \in Plan /\ view \in View /\ cooldown \in SUBSET (Names \X Workers)
  BY DEF TypeOK, Plan, View
<1>3. Kept(placements) = placements
  BY <1>2 DEF Kept, Plan
<1>4. Cooled(placements, cooldown) = cooldown
  BY <1>2 DEF Cooled
<1>5. Held(placements, adopted) = placements
  <2>1. DOMAIN adopted = {}
    BY <1>1, <1>3 DEF Reconciled, Adoptions
  <2>2. QED BY <1>2, <1>3, <2>1, NothingSettled DEF Held
<1>6. Swept(registry, placements, view, adopted) = view
  BY <1>2, <1>5 DEF Swept, Clear, View
<1>7. DOMAIN assigned = {}
  BY <1>1, <1>5 DEF Reconciled, Assignments
<1>8. placements' = placements /\ view' = view
  BY <1>1, <1>2, <1>5, <1>6, <1>7, NothingSettled DEF Reconciled
<1>9. wire' = wire
  <2>1. ASSUME NEW w \in Workers
        PROVE  SentTo(w, registry, {}, assigned) = <<>>
    <3> DEFINE D == {DrainOf(s) : s \in {t \in Slots : <<w, t>> \in {}}}
               A == {AssignTo(assigned[n][2], n, registry[n]) :
                       n \in {m \in DOMAIN assigned :
                                assigned[m] # None /\ assigned[m][1] = w}}
    <3>1. D = {}
      OBVIOUS
    <3>2. A = {}
      BY <1>7
    <3>3. SentTo(w, registry, {}, assigned) = InSomeOrder(D) \o InSomeOrder(A)
      BY DEF SentTo
    <3> HIDE DEF D, A
    <3>4. QED BY <3>1, <3>2, <3>3, NothingInOrder
  <2>2. wire' = [w \in Workers |-> wire[w] \o SentTo(w, registry, {}, assigned)]
    BY <1>1, <1>5 DEF Reconciled
  <2>3. wire' = [w \in Workers |-> wire[w]]
    <3>1. \A w \in Workers : wire[w] \o <<>> = wire[w]
      BY DEF TypeOK
    <3>2. QED BY <2>1, <2>2, <3>1
  <2>4. QED BY <2>3 DEF TypeOK
<1>10. cooldown' = cooldown
  BY <1>1, <1>4 DEF Reconciled
<1>11. QED BY <1>8, <1>9, <1>10

\* So is a heartbeat that says of a live worker what the gateway has in view, as far
\* as the plan and the view go.
LEMMA IdleHeartbeat ==
  ASSUME TypeOK, NEW w \in Workers, NEW r \in Reports, HandleHeartbeat(w, r), w \in fresh,
         Unplaced(registry, placements) = {},
         \A s \in Slots : view[w][s] = r[s].workload,
         \A n \in Names : placements[n] # None /\ placements[n].worker = w =>
           /\ placements[n].state = "running" /\ placements[n].hbm = 0
           /\ r[placements[n].slot] = [workload |-> n, state |-> "running"]
  PROVE  UNCHANGED <<desired, known, fresh, view, plan, wire>>
<1>1. placements \in Plan /\ view \in View /\ fresh \subseteq known
  BY DEF TypeOK, Plan, View
<1>2. known' = known /\ fresh' = fresh /\ UNCHANGED <<desired, cooldown, wire>>
  BY <1>1 DEF HandleHeartbeat, Hear
<1>3. view' = view
  BY <1>1 DEF HandleHeartbeat, Seen, View
<1>4. placements' = [n \in Names |->
                       IF placements[n] # None /\ placements[n].worker = w
                       THEN Judged(placements[n], n, r) ELSE placements[n]]
  <2> DEFINE ws == IF w \in known THEN {} ELSE {w}
  <2>1. PICK f \in Adoptions(registry, placements, Seen(w, r), Stated(w, r), ws,
                             {"loading", "running"}) :
          placements' = [n \in Names |->
             IF /\ Settle(placements, f, "assigning")[n] # None
                /\ Settle(placements, f, "assigning")[n].worker = w
             THEN Judged(Settle(placements, f, "assigning")[n], n, r)
             ELSE Settle(placements, f, "assigning")[n]]
    BY DEF HandleHeartbeat
  <2>2. DOMAIN f = {}
    BY <2>1 DEF Adoptions
  <2>3. Settle(placements, f, "assigning") = placements
    BY <1>1, <2>2, NothingSettled
  <2>4. QED BY <2>1, <2>3
<1>5. ASSUME NEW n \in Names, placements[n] # None, placements[n].worker = w
      PROVE  Judged(placements[n], n, r) = placements[n]
  <2>1. placements[n] \in Placement
    BY <1>1, <1>5 DEF Plan
  <2>2. [placements[n] EXCEPT !.state = "running", !.hbm = 0] = placements[n]
    BY <1>5, <2>1 DEF Placement
  <2>3. /\ r[placements[n].slot].workload = n
        /\ r[placements[n].slot].state = "running"
    <3>1. r[placements[n].slot] = [workload |-> n, state |-> "running"]
      BY <1>5
    <3>2. QED BY <3>1
  <2>4. QED BY <2>2, <2>3 DEF Judged
<1>6. placements' = placements
  BY <1>1, <1>4, <1>5 DEF Plan
<1>7. QED BY <1>2, <1>3, <1>6 DEF plan
-----------------------------------------------------------------------------
(* Requests. *)

\* A reconcile ends the overdue requests, each with an answer, and no other.
LEMMA ReconcileAnswers ==
  ASSUME TypeOK, NEW reg, NEW plc, NEW vw, NEW cool, Reconcile(reg, plc, vw, cool),
         NEW id \in Ids
  PROVE  OneAnswer(id)
<1>1. /\ inflight'[id] = IF id \in Overdue THEN "none" ELSE inflight[id]
      /\ replies'[id] = IF id \in Overdue THEN Append(replies[id], "timeout") ELSE replies[id]
  BY DEF Reconcile
<1>2. replies[id] \in Seq(Answers)
  BY DEF TypeOK
<1>3. CASE id \in Overdue
  <2>1. inflight[id] # "none" /\ inflight'[id] = "none"
    BY <1>1, <1>3 DEF Overdue
  <2>2. Len(replies'[id]) > Len(replies[id])
    BY <1>1, <1>2, <1>3
  <2>3. QED BY <2>1, <2>2 DEF OneAnswer
<1>4. CASE id \notin Overdue
  <2>1. inflight'[id] = inflight[id] /\ Len(replies'[id]) = Len(replies[id])
    BY <1>1, <1>4
  <2>2. Len(replies[id]) \in Nat
    BY <1>2
  <2>3. QED BY <2>1, <2>2 DEF OneAnswer
<1>5. QED BY <1>3, <1>4

\* A request that is not touched has no answer to it either.
LEMMA NoAnswer ==
  ASSUME TypeOK, NEW id \in Ids, inflight'[id] = inflight[id], replies'[id] = replies[id]
  PROVE  OneAnswer(id)
<1>1. Len(replies[id]) \in Nat
  BY DEF TypeOK
<1>2. QED BY <1>1 DEF OneAnswer

\* An invocation is relayed without an answer, or refused with one.
LEMMA InvokeAnswers ==
  ASSUME TypeOK, NEW i \in Ids, NEW n \in Names, NEW c \in Calls, HandleInvoke(i, n, c),
         NEW id \in Ids
  PROVE  OneAnswer(id)
<1>1. \/ inflight' = [inflight EXCEPT ![i] = "waiting"] /\ replies' = replies
      \/ inflight' = inflight /\ Answer(i, "error")
  BY DEF HandleInvoke
<1>2. replies \in [Ids -> Seq(Answers)] /\ inflight \in [Ids -> {"none", "waiting", "overdue"}]
  BY DEF TypeOK
<1>3. Len(replies[id]) \in Nat
  BY <1>2
<1>4. CASE id # i
  <2>1. inflight'[id] = inflight[id] /\ replies'[id] = replies[id]
    BY <1>1, <1>2, <1>4 DEF Answer
  <2>2. QED BY <2>1, NoAnswer
<1>5. CASE id = i /\ inflight' = inflight
  BY <1>5 DEF OneAnswer
<1>6. CASE id = i /\ inflight' = [inflight EXCEPT ![i] = "waiting"] /\ replies' = replies
  BY <1>2, <1>3, <1>6 DEF OneAnswer
<1>7. QED BY <1>1, <1>4, <1>5, <1>6

\* A worker's reply ends its request, with one answer.
LEMMA ReplyAnswers ==
  ASSUME TypeOK, NEW i \in Ids, NEW a, HandleInvokeReply(i, a), NEW id \in Ids
  PROVE  OneAnswer(id)
<1>1. /\ inflight[i] # "none" /\ inflight' = [inflight EXCEPT ![i] = "none"]
      /\ replies' = [replies EXCEPT ![i] = Append(@, a)]
  BY DEF HandleInvokeReply, Answer
<1>2. replies \in [Ids -> Seq(Answers)] /\ inflight \in [Ids -> {"none", "waiting", "overdue"}]
  BY DEF TypeOK
<1>3. CASE id # i
  BY <1>1, <1>2, <1>3, NoAnswer
<1>4. CASE id = i
  <2>1. inflight[id] # "none" /\ inflight'[id] = "none"
    BY <1>1, <1>2, <1>4
  <2>2. Len(replies'[id]) > Len(replies[id])
    BY <1>1, <1>2, <1>4
  <2>3. QED BY <2>1, <2>2 DEF OneAnswer
<1>5. QED BY <1>3, <1>4

\* Whoever takes an answer leaves fewer.
LEMMA TakeReplyAnswers ==
  ASSUME TypeOK, NEW i \in Ids, TakeReply(i), NEW id \in Ids
  PROVE  OneAnswer(id)
<1>1. /\ inflight' = inflight
      /\ replies[i] # <<>> /\ replies' = [replies EXCEPT ![i] = Tail(@)]
  BY DEF TakeReply
<1>2. replies \in [Ids -> Seq(Answers)]
  BY DEF TypeOK
<1>3. CASE id # i
  BY <1>1, <1>2, <1>3, NoAnswer
<1>4. CASE id = i
  <2>1. replies'[id] = Tail(replies[id]) /\ replies[id] \in Seq(Answers) /\ replies[id] # <<>>
    BY <1>1, <1>2, <1>4
  <2>2. Len(replies'[id]) = Len(replies[id]) - 1 /\ Len(replies[id]) \in Nat
    BY <2>1
  <2>3. ~(Len(replies'[id]) > Len(replies[id]))
    BY <2>2
  <2>4. QED BY <1>1, <2>3 DEF OneAnswer
<1>5. QED BY <1>3, <1>4

\* Every step answers each request as OneAnswer says.
LEMMA AnswerStep ==
  ASSUME TypeOK, OpenNext, NEW id \in Ids
  PROVE  OneAnswer(id)
<1>1. CASE UNCHANGED calls
  BY <1>1, NoAnswer DEF calls
<1>2. CASE WorkerMessage
  <2>1. ASSUME NEW w \in Workers, NEW n \in Names, HandleAssignFailed(w, n)
        PROVE  OneAnswer(id)
    BY <2>1, ReconcileAnswers DEF HandleAssignFailed
  <2>2. QED BY <1>1, <1>2, <2>1 DEF WorkerMessage, HandleRegister, HandleHeartbeat,
                                    HandleAssignOk
<1>3. CASE ClientRequest
  <2>1. ASSUME NEW n \in Names, NEW sp \in Specs, HandleDeploy(n, sp, registry[n] # None)
        PROVE  OneAnswer(id)
    BY <2>1, ReconcileAnswers DEF HandleDeploy
  <2>2. QED BY <1>1, <1>3, <2>1 DEF ClientRequest, HandleRemove, HandlePurge, Undeploy,
                                    HandleUpdateWorkers, HandleUpdateGateway
<1>4. CASE ReconcileTick
  BY <1>4, ReconcileAnswers DEF ReconcileTick
<1>5. CASE Reboot \/ CrashInSave
  <2>1. known' = {} /\ replies' = replies
    BY <1>5 DEF Reboot, CrashInSave, Forgotten
  <2>2. Len(replies[id]) \in Nat
    BY DEF TypeOK
  <2>3. QED BY <2>1, <2>2 DEF OneAnswer
<1>6. CASE UpdateGatewayFails \/ Take \/ Outside
  BY <1>1, <1>6 DEF UpdateGatewayFails, Take, Outside
<1>7. ASSUME NEW w \in Workers, \/ WorkerSilent(w)
                               \/ \E n \in Names : CooldownEnds(n, w)
      PROVE  OneAnswer(id)
  BY <1>1, <1>7 DEF WorkerSilent, CooldownEnds
<1>8. ASSUME NEW i \in Ids, InvokeOverdue(i)
      PROVE  OneAnswer(id)
  <2>1. inflight'[id] = "overdue" \/ inflight'[id] = inflight[id]
    BY <1>8 DEF InvokeOverdue, TypeOK
  <2>2. replies' = replies /\ Len(replies[id]) \in Nat
    BY <1>8 DEF InvokeOverdue, TypeOK
  <2>3. QED BY <2>1, <2>2 DEF OneAnswer
<1>9. QED BY <1>2, <1>3, <1>4, <1>5, <1>6, <1>7, <1>8, InvokeAnswers, ReplyAnswers,
             TakeReplyAnswers DEF OpenNext, Next, PlanNext, CallNext

\* A request that is relayed is answered once and then forgotten, whatever order
\* the replies, the timeout and the refusals come in; the gateway's restart is the
\* one way to forget it unanswered.
THEOREM RequestsAnsweredOnce == Spec => AnsweredOnce
<1>1. TypeOK /\ [Next]_vars => [\A id \in Ids : OneAnswer(id)]_vars
  BY AnswerStep DEF OpenNext
<1>2. QED BY <1>1, TypeCorrect, PTL DEF Spec, AnsweredOnce
-----------------------------------------------------------------------------
(* Adoption comes before assignment. *)

LEMMA ElementType ==
  ASSUME NEW S, NEW q \in Seq(S), NEW k \in DOMAIN q
  PROVE  q[k] \in S
OBVIOUS

\* What adoption leaves has no copy to adopt.
LEMMA NothingToAdopt ==
  ASSUME NEW reg, NEW plc, NEW vw, NEW st, NEW ws \in SUBSET Workers, NEW ok,
         NEW f \in Adoptions(reg, plc, vw, st, ws, ok), NEW n \in Unplaced(reg, plc),
         f[n] = None, NEW w \in ws, NEW s \in Slots, vw[w][s] = n
  PROVE  st[w][s] \notin ok
<1> DEFINE copies == {l \in ws \X Slots : vw[l[1]][l[2]] = n /\ st[l[1]][l[2]] \in ok}
<1>1. IF copies = {} THEN f[n] = None ELSE f[n] \in copies
  BY DEF Adoptions
<1>2. None \notin copies
  BY LocationAssumption
<1>3. <<w, s>> \notin copies
  <2> HIDE DEF copies
  <2>1. QED BY <1>1, <1>2
<1>4. QED BY <1>3

\* A drain is no assignment.
LEMMA DrainsAssignNothing ==
  ASSUME NEW T \in SUBSET Slots, NEW k \in DOMAIN InSomeOrder({DrainOf(s) : s \in T})
  PROVE  InSomeOrder({DrainOf(s) : s \in T})[k].type # "assign"
<1> DEFINE D == {DrainOf(s) : s \in T}
<1>1. InSomeOrder(D) \in Seq(D)
  BY DrainsType
<1>2. InSomeOrder(D)[k] \in D
  BY <1>1, ElementType
<1>3. \A d \in D : d.type # "assign"
  BY DEF DrainOf
<1> HIDE DEF D
<1>4. QED BY <1>2, <1>3 DEF D

\* What a reconcile assigns by a message, it has located on that worker.
LEMMA SentAssigns ==
  ASSUME NEW w \in Workers, NEW reg \in Registry, NEW gc,
         NEW U \in SUBSET Registered(reg), NEW f \in [U -> Locs \cup {None}],
         NEW k \in DOMAIN SentTo(w, reg, gc, f), SentTo(w, reg, gc, f)[k].type = "assign"
  PROVE  SentTo(w, reg, gc, f)[k].name \in U /\ f[SentTo(w, reg, gc, f)[k].name] # None
<1> DEFINE T == {t \in Slots : <<w, t>> \in gc}
           M == {m \in DOMAIN f : f[m] # None /\ f[m][1] = w}
           A == {AssignTo(f[n][2], n, reg[n]) : n \in M}
           drains == InSomeOrder({DrainOf(s) : s \in T})
           assigns == InSomeOrder(A)
<1>1. drains \in Seq(Command) /\ \A j \in DOMAIN drains : drains[j].type # "assign"
  BY DrainsType, DrainsAssignNothing
<1>2. M \in SUBSET {m \in U : f[m] # None}
  OBVIOUS
<1>3. assigns \in Seq(A)
  BY <1>2, AssignsType
<1>4. SentTo(w, reg, gc, f) = drains \o assigns
  BY DEF SentTo
<1>5. PICK j \in DOMAIN assigns : (drains \o assigns)[k] = assigns[j]
  <2> HIDE DEF drains, assigns, A
  <2>1. k \in 1..(Len(drains) + Len(assigns))
    BY <1>1, <1>3, <1>4
  <2>2. CASE k <= Len(drains)
    BY <1>1, <1>3, <1>4, <2>1, <2>2
  <2>3. CASE k > Len(drains)
    BY <1>1, <1>3, <2>1, <2>3
  <2>4. QED BY <1>1, <1>3, <2>1, <2>2, <2>3
<1>6. assigns[j] \in A
  <2> HIDE DEF assigns, A
  <2>1. QED BY <1>3, <1>5
<1>7. PICK n \in M : assigns[j] = AssignTo(f[n][2], n, reg[n])
  BY <1>6
<1>8. SentTo(w, reg, gc, f)[k].name = n
  BY <1>4, <1>5, <1>7 DEF AssignTo
<1>9. QED BY <1>2, <1>8

\* The messages that a step adds to a link are those of what it appends.
LEMMA AddedMessage ==
  ASSUME NEW q \in Seq(Command), NEW added \in Seq(Command),
         NEW k \in DOMAIN (q \o added), k > Len(q)
  PROVE  k - Len(q) \in DOMAIN added /\ (q \o added)[k] = added[k - Len(q)]
OBVIOUS

\* AdoptsBeforeAssigning for one step.
Adopts == \A n \in Names : SendsAssign(n) =>
            \A w \in fresh', s \in Slots :
              At(placements'[n], w, s) \/ view'[w][s] # n \/ vstate'[w][s] # "running"

LEMMA ReconcileAdopts ==
  ASSUME TypeOK, NEW reg \in Registry, NEW plc \in Plan, NEW vw \in View, NEW cool,
         Reconcile(reg, plc, vw, cool), fresh' = fresh, vstate' = vstate
  PROVE  Adopts
<1> SUFFICES ASSUME NEW n \in Names, SendsAssign(n), NEW w \in fresh, NEW s \in Slots,
                    view'[w][s] = n, vstate[w][s] = "running"
             PROVE  At(placements'[n], w, s)
  BY DEF Adopts
<1>1. PICK adopted, assigned : Reconciled(reg, plc, vw, cool, adopted, assigned)
  BY ReconcileSteps
<1> DEFINE held == Held(plc, adopted)
           gc == Garbage(reg, held, vw)
           swept == Swept(reg, plc, vw, adopted)
           V == Unplaced(reg, held)
           U == Unplaced(reg, Kept(plc))
<1>2. /\ assigned \in [V -> Locs \cup {None}] /\ V \in SUBSET Registered(reg)
      /\ adopted \in [U -> Locs \cup {None}] /\ held \in Plan /\ V \in SUBSET Names
  BY <1>1, HeldType
<1>3. w \in Workers /\ n # None
  BY NoneAssumption DEF TypeOK
<1>4. n \in V /\ assigned[n] # None
  <2>1. PICK x \in Workers : \E k \in DOMAIN wire'[x] :
          k > Len(wire[x]) /\ wire'[x][k].type = "assign" /\ wire'[x][k].name = n
    BY DEF SendsAssign
  <2>2. PICK k \in DOMAIN wire'[x] :
          k > Len(wire[x]) /\ wire'[x][k].type = "assign" /\ wire'[x][k].name = n
    BY <2>1
  <2>3. wire'[x] = wire[x] \o SentTo(x, reg, gc, assigned)
    BY <1>1 DEF Reconciled
  <2>4. wire[x] \in Seq(Command) /\ SentTo(x, reg, gc, assigned) \in Seq(Command)
    <3> HIDE DEF V, gc
    <3>1. QED BY <1>2, SentToType DEF TypeOK
  <2> DEFINE sent == SentTo(x, reg, gc, assigned)
             j == k - Len(wire[x])
  <2>5. j \in DOMAIN sent /\ wire'[x][k] = sent[j]
    <3> HIDE DEF gc, sent
    <3>1. QED BY <2>2, <2>3, <2>4, AddedMessage DEF sent
  <2>6. sent[j].type = "assign" /\ sent[j].name = n
    BY <2>2, <2>5
  <2>7. sent[j].name \in V /\ assigned[sent[j].name] # None
    <3> HIDE DEF V, gc, j
    <3>1. QED BY <1>2, <2>5, <2>6, SentAssigns
  <2>8. QED BY <2>6, <2>7
<1>5. placements'[n] = NewPlacement(assigned[n], "assigning")
  <2>1. placements' = Settle(held, assigned, "assigning")
    BY <1>1 DEF Reconciled
  <2> HIDE DEF held, V
  <2>2. QED BY <1>2, <1>4, <2>1, SettleAt
<1>6. CASE assigned[n] = <<w, s>>
  BY <1>3, <1>5, <1>6, PlacementAssumption DEF At, NewPlacement, Placement
<1>7. CASE assigned[n] # <<w, s>>
  <2>1. view' = Occupy(swept, assigned)
    BY <1>1 DEF Reconciled
  <2>2. swept[w][s] = n
    <3> HIDE DEF V, swept
    <3>1. QED BY <1>2, <1>3, <1>7, <2>1, OccupyAt
  <2>3. vw[w][s] = n
    <3>1. swept = Clear(vw, gc)
      BY DEF Swept
    <3>2. Clear(vw, gc)[w][s] # None /\ Clear(vw, gc)[w][s] = n
      BY <1>3, <2>2, <3>1
    <3>3. Clear(vw, gc)[w][s] = IF <<w, s>> \in gc THEN None ELSE vw[w][s]
      BY <1>3 DEF Clear
    <3> HIDE DEF gc
    <3>4. QED BY <3>2, <3>3
  <2>4. n \in U /\ adopted[n] = None
    <3>1. held[n] = None /\ reg[n] # None
      BY <1>4 DEF Unplaced, Registered
    <3>2. held = Settle(Kept(plc), adopted, "running")
      BY DEF Held
    <3>3. CASE n \in U /\ adopted[n] # None
      <4>1. held[n] = NewPlacement(adopted[n], "running")
        <5> HIDE DEF held, U
        <5>1. QED BY <1>2, <3>2, <3>3, SettleAt DEF U
      <4>2. adopted[n] \in Locs
        BY <1>2, <3>3
      <4>3. NewPlacement(adopted[n], "running") \in Placement
        BY <4>2 DEF Locs, NewPlacement, Placement
      <4>4. QED BY <3>1, <4>1, <4>3, PlacementAssumption
    <3>4. CASE n \notin U
      <4>1. Kept(plc)[n] = held[n]
        <5> HIDE DEF held, U
        <5>1. QED BY <1>2, <3>2, <3>4, SettleElse DEF U
      <4>2. QED BY <3>1, <3>4, <4>1 DEF Unplaced, Registered
    <3>5. QED BY <3>3, <3>4
  <2>5. adopted \in Adoptions(reg, Kept(plc), vw, vstate, fresh, {"running"})
    BY <1>1 DEF Reconciled
  <2> DEFINE ok == {"running"}
  <2>6. vstate[w][s] \notin ok
    <3> HIDE DEF ok
    <3>1. fresh \in SUBSET Workers /\ n \in Unplaced(reg, Kept(plc))
      BY <2>4 DEF TypeOK
    <3>2. adopted \in Adoptions(reg, Kept(plc), vw, vstate, fresh, ok)
      BY <2>5 DEF ok
    <3>3. QED BY <2>3, <2>4, <3>1, <3>2, NothingToAdopt
  <2>7. QED BY <2>6
<1>8. QED BY <1>6, <1>7

\* Steps that send nothing, or only drains, updates and invocations, assign nothing.
LEMMA NoAssign ==
  ASSUME TypeOK, \A x \in Workers : \E added \in Seq(Command) :
           /\ wire'[x] = wire[x] \o added
           /\ \A k \in DOMAIN added : added[k].type # "assign"
  PROVE  Adopts
<1> SUFFICES ASSUME NEW n \in Names, SendsAssign(n) PROVE FALSE
  BY DEF Adopts
<1>1. PICK x \in Workers : \E k \in DOMAIN wire'[x] :
        k > Len(wire[x]) /\ wire'[x][k].type = "assign"
  BY DEF SendsAssign
<1>2. PICK k \in DOMAIN wire'[x] : k > Len(wire[x]) /\ wire'[x][k].type = "assign"
  BY <1>1
<1>3. PICK added \in Seq(Command) : /\ wire'[x] = wire[x] \o added
                                    /\ \A j \in DOMAIN added : added[j].type # "assign"
  OBVIOUS
<1>4. wire[x] \in Seq(Command)
  BY DEF TypeOK
<1>5. k - Len(wire[x]) \in DOMAIN added /\ wire'[x][k] = added[k - Len(wire[x])]
  BY <1>2, <1>3, <1>4, AddedMessage
<1>6. QED BY <1>2, <1>3, <1>5

LEMMA QuietAdopts ==
  ASSUME TypeOK, wire' = wire
  PROVE  Adopts
<1> SUFFICES ASSUME NEW x \in Workers
             PROVE  \E added \in Seq(Command) :
                      /\ wire'[x] = wire[x] \o added
                      /\ \A k \in DOMAIN added : added[k].type # "assign"
  BY NoAssign
<1>1. wire'[x] = wire[x] \o <<>>
  BY DEF TypeOK
<1>2. <<>> \in Seq(Command) /\ \A k \in DOMAIN <<>> : <<>>[k].type # "assign"
  OBVIOUS
<1>3. QED BY <1>1, <1>2

LEMMA UndeployAdopts ==
  ASSUME TypeOK, NEW S, Undeploy(S)
  PROVE  Adopts
<1> DEFINE locs == {l \in Workers \X Slots : \E n \in S : At(placements[n], l[1], l[2])}
           T(w) == {t \in Slots : <<w, t>> \in locs}
<1> SUFFICES ASSUME NEW x \in Workers
             PROVE  \E added \in Seq(Command) :
                      /\ wire'[x] = wire[x] \o added
                      /\ \A k \in DOMAIN added : added[k].type # "assign"
  BY NoAssign
<1>1. wire'[x] = wire[x] \o InSomeOrder({DrainOf(s) : s \in T(x)})
  BY DEF Undeploy
<1>2. T(x) \in SUBSET Slots
  OBVIOUS
<1>3. /\ InSomeOrder({DrainOf(s) : s \in T(x)}) \in Seq(Command)
      /\ \A k \in DOMAIN InSomeOrder({DrainOf(s) : s \in T(x)}) :
           InSomeOrder({DrainOf(s) : s \in T(x)})[k].type # "assign"
  BY <1>2, DrainsType, DrainsAssignNothing
<1>4. QED BY <1>1, <1>3

LEMMA AppendAdopts ==
  ASSUME TypeOK, NEW c \in Command, c.type # "assign",
         \A x \in Workers : wire'[x] \in {wire[x], Append(wire[x], c)}
  PROVE  Adopts
<1>1. ASSUME NEW x \in Workers
      PROVE  \E added \in Seq(Command) : /\ wire'[x] = wire[x] \o added
                                         /\ \A k \in DOMAIN added : added[k].type # "assign"
  <2>1. wire[x] \in Seq(Command)
    BY DEF TypeOK
  <2>2. CASE wire'[x] = wire[x]
    <3>1. wire'[x] = wire[x] \o <<>>
      BY <2>1, <2>2
    <3>2. <<>> \in Seq(Command) /\ \A k \in DOMAIN <<>> : <<>>[k].type # "assign"
      OBVIOUS
    <3>3. QED BY <3>1, <3>2
  <2>3. CASE wire'[x] = Append(wire[x], c)
    <3>1. wire'[x] = wire[x] \o <<c>>
      BY <2>1, <2>3
    <3>2. <<c>> \in Seq(Command) /\ \A k \in DOMAIN <<c>> : <<c>>[k].type # "assign"
      OBVIOUS
    <3>3. QED BY <3>1, <3>2
  <2>4. QED BY <2>2, <2>3
<1>2. QED BY <1>1, NoAssign

LEMMA AdoptsStep ==
  ASSUME TypeOK, OpenNext
  PROVE  Adopts
<1>0. /\ registry \in Registry /\ placements \in Plan /\ view \in View
  BY DEF TypeOK, Plan, View
<1>1. CASE wire' = wire
  BY <1>1, QuietAdopts
<1>2. CASE WorkerMessage
  <2>1. ASSUME NEW w \in Workers, NEW n \in Names, HandleAssignFailed(w, n)
        PROVE  Adopts
    <3> DEFINE p == placements[n]
               mine == p # None /\ p.worker = w
               plc == IF mine THEN [placements EXCEPT ![n] = None] ELSE placements
               vw == IF mine THEN [view EXCEPT ![w][p.slot] = None] ELSE view
    <3>1. plc \in Plan /\ vw \in View
      BY <1>0 DEF Plan, View
    <3>2. Reconcile(registry, plc, vw, cooldown \cup {<<n, w>>}) /\ fresh' = fresh
          /\ vstate' = vstate
      BY <2>1 DEF HandleAssignFailed
    <3> HIDE DEF plc, vw
    <3>3. QED BY <1>0, <3>1, <3>2, ReconcileAdopts
  <2>2. QED BY <1>1, <1>2, <2>1 DEF WorkerMessage, HandleRegister, HandleHeartbeat,
                                    HandleAssignOk
<1>3. CASE ClientRequest
  <2>1. ASSUME NEW n \in Names, NEW sp \in Specs, HandleDeploy(n, sp, registry[n] # None)
        PROVE  Adopts
    <3> DEFINE reg == [registry EXCEPT ![n] = sp]
    <3>1. reg \in Registry
      BY <1>0 DEF Registry
    <3>2. Reconcile(reg, placements, view, cooldown) /\ fresh' = fresh /\ vstate' = vstate
      BY <2>1 DEF HandleDeploy
    <3> HIDE DEF reg
    <3>3. QED BY <1>0, <3>1, <3>2, ReconcileAdopts
  <2>2. CASE HandleUpdateWorkers
    <3>1. [type |-> "update"] \in Command
      BY DEF Command
    <3>2. \A x \in Workers : wire'[x] \in {wire[x], Append(wire[x], [type |-> "update"])}
      BY <2>2 DEF HandleUpdateWorkers
    <3>3. QED BY <3>1, <3>2, AppendAdopts
  <2>3. QED BY <1>1, <1>3, <2>1, <2>2, UndeployAdopts
            DEF ClientRequest, HandleRemove, HandlePurge, HandleUpdateGateway
<1>4. CASE ReconcileTick
  BY <1>0, <1>4, ReconcileAdopts DEF ReconcileTick
<1>5. ASSUME wire' \in [Workers -> Seq(Command)],
             \A x \in Workers : Len(wire'[x]) <= Len(wire[x])
      PROVE  Adopts
  <2>1. ASSUME NEW x \in Workers, NEW k \in DOMAIN wire'[x]
        PROVE  ~(k > Len(wire[x]))
    <3>1. wire[x] \in Seq(Command) /\ wire'[x] \in Seq(Command)
      BY <1>5 DEF TypeOK
    <3>2. /\ Len(wire[x]) \in Nat /\ Len(wire'[x]) \in Nat
          /\ DOMAIN wire'[x] = 1..Len(wire'[x]) /\ Len(wire'[x]) <= Len(wire[x])
      BY <1>5, <3>1
    <3>3. QED BY <3>2
  <2>2. QED BY <2>1 DEF Adopts, SendsAssign
<1>10. CASE Take \/ Outside
  <2>1. Take => wire' \in [Workers -> Seq(Command)] /\ \A x \in Workers : wire'[x] = <<>>
    BY DEF Take
  <2>2. \A x \in Workers : wire[x] \in Seq(Command)
    BY DEF TypeOK
  <2>3. \A x \in Workers : 0 <= Len(wire[x])
    BY <2>2
  <2>4. Len(<<>>) = 0
    OBVIOUS
  <2>5. QED BY <1>5, <1>10, <2>1, <2>3, <2>4 DEF Outside
<1>6. CASE UpdateGatewayFails \/ Reboot \/ CrashInSave
  BY <1>1, <1>6 DEF UpdateGatewayFails, Reboot, CrashInSave
<1>7. ASSUME NEW w \in Workers, \/ WorkerSilent(w)
                               \/ \E n \in Names : CooldownEnds(n, w)
      PROVE  Adopts
  BY <1>1, <1>7 DEF WorkerSilent, CooldownEnds
<1>8. ASSUME NEW i \in Ids, NEW n \in Names, NEW c \in Calls, HandleInvoke(i, n, c)
      PROVE  Adopts
  <2> DEFINE m == [type |-> "invoke", id |-> i, name |-> n, call |-> c]
  <2>1. m \in Command /\ m.type # "assign"
    BY DEF Command
  <2>2. CASE wire' = wire
    BY <1>1, <2>2
  <2>3. CASE wire' = [wire EXCEPT ![placements[n].worker] = Append(@, m)]
    <3> HIDE DEF m
    <3>1. \A x \in Workers : wire'[x] \in {wire[x], Append(wire[x], m)}
      BY <2>3 DEF TypeOK
    <3>2. QED BY <2>1, <3>1, AppendAdopts
  <2>4. QED BY <1>8, <2>2, <2>3 DEF HandleInvoke
<1>9. ASSUME NEW i \in Ids, \/ \E a \in Calls \cup {"error"} : HandleInvokeReply(i, a)
                            \/ InvokeOverdue(i) \/ TakeReply(i)
      PROVE  Adopts
  BY <1>1, <1>9 DEF HandleInvokeReply, InvokeOverdue, TakeReply
<1>11. QED BY <1>2, <1>3, <1>4, <1>6, <1>7, <1>8, <1>9, <1>10
           DEF OpenNext, Next, PlanNext, CallNext

\* A second copy of a running workload is never started knowingly, for any number of
\* workers and slots: whatever is assigned had no running copy in the view, because
\* the same reconcile would have adopted it.
THEOREM NoKnownDuplicate == Spec => AdoptsBeforeAssigning
<1>1. TypeOK /\ [Next]_vars => [Adopts]_vars
  BY AdoptsStep DEF OpenNext
<1>2. QED BY <1>1, TypeCorrect, PTL DEF Spec, AdoptsBeforeAssigning, Adopts
-----------------------------------------------------------------------------
(* What a reconcile leaves alone. *)

\* A drain of a slot of gc, or an assignment that f located, to w.
Sends(w, reg, gc, f, c) ==
  \/ \E t \in Slots : <<w, t>> \in gc /\ c = DrainOf(t)
  \/ \E m \in DOMAIN f : f[m] # None /\ f[m][1] = w /\ c = AssignTo(f[m][2], m, reg[m])

\* A reconcile sends nothing else.
LEMMA SentElements ==
  ASSUME NEW w \in Workers, NEW reg \in Registry, NEW gc,
         NEW U \in SUBSET Registered(reg), NEW f \in [U -> Locs \cup {None}],
         NEW k \in DOMAIN SentTo(w, reg, gc, f)
  PROVE  Sends(w, reg, gc, f, SentTo(w, reg, gc, f)[k])
<1> DEFINE T == {t \in Slots : <<w, t>> \in gc}
           M == {m \in DOMAIN f : f[m] # None /\ f[m][1] = w}
           D == {DrainOf(s) : s \in T}
           A == {AssignTo(f[n][2], n, reg[n]) : n \in M}
           drains == InSomeOrder(D)
           assigns == InSomeOrder(A)
<1>1. drains \in Seq(D)
  BY DrainsType
<1>2. M \in SUBSET {m \in U : f[m] # None}
  OBVIOUS
<1>3. assigns \in Seq(A)
  BY <1>2, AssignsType
<1>4. SentTo(w, reg, gc, f) = drains \o assigns
  BY DEF SentTo
<1>5. SentTo(w, reg, gc, f)[k] \in D \cup A
  <2> HIDE DEF drains, assigns, A, D
  <2>1. drains \o assigns \in Seq(D \cup A)
    BY <1>1, <1>3
  <2>2. QED BY <1>4, <2>1, ElementType
<1>6. CASE SentTo(w, reg, gc, f)[k] \in D
  <2>1. PICK t \in T : SentTo(w, reg, gc, f)[k] = DrainOf(t)
    BY <1>6
  <2>2. QED BY <2>1 DEF Sends
<1>7. CASE SentTo(w, reg, gc, f)[k] \in A
  <2>1. PICK m \in M : SentTo(w, reg, gc, f)[k] = AssignTo(f[m][2], m, reg[m])
    BY <1>7
  <2>2. QED BY <2>1 DEF Sends
<1>8. QED BY <1>5, <1>6, <1>7

\* The commands a reconcile adds to the links.
LEMMA ReconcileSends ==
  ASSUME TypeOK, NEW reg \in Registry, NEW plc \in Plan, NEW vw \in View, NEW cool,
         NEW adopted, NEW assigned, Reconciled(reg, plc, vw, cool, adopted, assigned),
         NEW w \in Workers
  PROVE  \E sent \in Seq(Command) :
           /\ wire'[w] = wire[w] \o sent
           /\ \A k \in DOMAIN sent :
                Sends(w, reg, Garbage(reg, Held(plc, adopted), vw), assigned, sent[k])
<1> DEFINE held == Held(plc, adopted)
           gc == Garbage(reg, held, vw)
           V == Unplaced(reg, held)
           sent == SentTo(w, reg, gc, assigned)
<1>1. V \in SUBSET Registered(reg) /\ assigned \in [V -> Locs \cup {None}]
  BY HeldType
<1>2. wire'[w] = wire[w] \o sent
  BY DEF Reconciled
<1> HIDE DEF V, gc
<1>3. sent \in Seq(Command)
  BY <1>1, SentToType
<1>4. \A k \in DOMAIN sent : Sends(w, reg, gc, assigned, sent[k])
  BY <1>1, SentElements
<1> HIDE DEF sent
<1>5. QED BY <1>2, <1>3, <1>4 DEF gc

\* What is on a link stays, and drains and assignments are added.
LEMMA ReconcileAdds ==
  ASSUME TypeOK, NEW reg \in Registry, NEW plc \in Plan, NEW vw \in View, NEW cool,
         Reconcile(reg, plc, vw, cool), NEW w \in Workers, NEW k \in DOMAIN wire'[w]
  PROVE  \/ k <= Len(wire[w]) /\ wire'[w][k] = wire[w][k]
         \/ wire'[w][k] \in Command /\ wire'[w][k].type \in {"assign", "drain"}
<1>1. PICK adopted, assigned : Reconciled(reg, plc, vw, cool, adopted, assigned)
  BY ReconcileSteps
<1> DEFINE gc == Garbage(reg, Held(plc, adopted), vw)
<1>2. PICK sent \in Seq(Command) :
        wire'[w] = wire[w] \o sent /\ \A j \in DOMAIN sent : Sends(w, reg, gc, assigned, sent[j])
  BY <1>1, ReconcileSends
<1> HIDE DEF gc
<1>3. wire[w] \in Seq(Command)
  BY DEF TypeOK
<1>4. CASE k <= Len(wire[w])
  BY <1>2, <1>3, <1>4
<1>5. CASE k > Len(wire[w])
  <2>1. k - Len(wire[w]) \in DOMAIN sent /\ wire'[w][k] = sent[k - Len(wire[w])]
    BY <1>2, <1>3, <1>5, AddedMessage
  <2> DEFINE c == sent[k - Len(wire[w])]
  <2>2. c \in Command /\ Sends(w, reg, gc, assigned, c)
    BY <1>2, <2>1, ElementType
  <2> HIDE DEF c
  <2>3. CASE \E t \in Slots : <<w, t>> \in gc /\ c = DrainOf(t)
    BY <2>1, <2>2, <2>3 DEF c, DrainOf
  <2>4. ASSUME NEW m, c = AssignTo(assigned[m][2], m, reg[m])
        PROVE  c.type = "assign"
    BY <2>4 DEF AssignTo
  <2>5. QED BY <2>1, <2>2, <2>3, <2>4 DEF c, Sends
<1>6. QED BY <1>2, <1>3, <1>4, <1>5

\* A gateway that has heard of nobody places nothing and sends nothing.
LEMMA NobodyHeard ==
  ASSUME TypeOK, NEW reg \in Registry, NEW plc \in Plan, NEW vw \in View,
         NEW cool \in SUBSET (Names \X Workers), Reconcile(reg, plc, vw, cool), fresh = {}
  PROVE  wire' = wire /\ placements' = [n \in Names |-> None]
<1>1. \A n \in Names : placements'[n] = None
  BY ReconcilePlaces
<1>2. PICK adopted, assigned : Reconciled(reg, plc, vw, cool, adopted, assigned)
  BY ReconcileSteps
<1>3. placements' = [n \in Names |-> None]
  BY <1>1, <1>2 DEF Reconciled, Settle
<1>4. ASSUME NEW w \in Workers
      PROVE  wire'[w] = wire[w]
  <2> DEFINE gc == Garbage(reg, Held(plc, adopted), vw)
  <2>1. PICK sent \in Seq(Command) : /\ wire'[w] = wire[w] \o sent
                                     /\ \A k \in DOMAIN sent : Sends(w, reg, gc, assigned, sent[k])
    BY <1>2, ReconcileSends
  <2>2. \A t \in Slots : <<w, t>> \notin gc
    BY DEF Garbage
  <2>3. \A m \in DOMAIN assigned : assigned[m] = None
    BY <1>2, HeldType
  <2> HIDE DEF gc
  <2>4. DOMAIN sent = {}
    BY <2>1, <2>2, <2>3 DEF Sends
  <2>5. sent = <<>> /\ wire[w] \in Seq(Command)
    BY <2>4 DEF TypeOK
  <2>6. QED BY <2>1, <2>5
<1>5. wire' = wire
  <2>1. wire' = [w \in Workers |-> wire'[w]] /\ wire = [w \in Workers |-> wire[w]]
    BY <1>2 DEF Reconciled, TypeOK
  <2>2. QED BY <1>4, <2>1
<1>6. QED BY <1>3, <1>5

\* A placement on a live worker, confirmed and in view, is left alone: it stays, no
\* other workload is put in its slot nor is it put anywhere else, and no command
\* goes to its slot.
LEMMA LeftAlone ==
  ASSUME TypeOK, NEW reg \in Registry, NEW plc \in Plan, NEW vw \in View, NEW cool,
         Reconcile(reg, plc, vw, cool), NEW n \in Names, NEW w \in Workers, NEW s \in Slots,
         At(plc[n], w, s), ~Lost(plc[n]), ~Contradicted(plc[n]), vw[w][s] = n
  PROVE  /\ placements'[n] = plc[n] /\ view'[w][s] = n
         /\ \A v \in Workers, t \in Slots : view'[v][t] = n => vw[v][t] = n
         /\ \A m \in Names : At(placements'[m], w, s) => placements'[m] = plc[m]
         /\ \A v \in Workers : \A k \in DOMAIN wire'[v] :
              \/ k <= Len(wire[v]) /\ wire'[v][k] = wire[v][k]
              \/ /\ wire'[v][k] \in Command /\ wire'[v][k].type \in {"assign", "drain"}
                 /\ v = w => wire'[v][k].slot # s
                 /\ wire'[v][k].type = "assign" => wire'[v][k].name # n
<1>1. PICK adopted, assigned : Reconciled(reg, plc, vw, cool, adopted, assigned)
  BY ReconcileSteps
<1> DEFINE held == Held(plc, adopted)
           gc == Garbage(reg, held, vw)
           swept == Swept(reg, plc, vw, adopted)
           U == Unplaced(reg, Kept(plc))
           V == Unplaced(reg, held)
<1>2. /\ adopted \in [U -> Locs \cup {None}] /\ assigned \in [V -> Locs \cup {None}]
      /\ held \in Plan /\ swept \in View /\ V \in SUBSET Names
  BY <1>1, HeldType
<1>3. plc[n] # None /\ plc[n].worker = w /\ plc[n].slot = s /\ n # None
  BY NoneAssumption DEF At
<1>4. /\ placements' = Settle(held, assigned, "assigning")
      /\ view' = Occupy(swept, assigned)
      /\ held = Settle(Kept(plc), adopted, "running")
      /\ swept = Clear(vw, gc)
  BY <1>1 DEF Reconciled, Held, Swept
<1>5. Kept(plc)[n] = plc[n]
  BY DEF Kept
<1>6. n \notin U /\ held[n] = plc[n]
  <2>1. n \notin U
    BY <1>3, <1>5 DEF Unplaced
  <2> HIDE DEF held, U
  <2>2. QED BY <1>2, <1>4, <1>5, <2>1, SettleElse
<1>7. n \notin V
  BY <1>3, <1>6 DEF Unplaced
<1>8. <<w, s>> \notin gc
  <2>1. At(held[n], w, s)
    BY <1>6
  <2>2. QED BY <2>1 DEF Garbage
<1>9. swept[w][s] = n
  BY <1>4, <1>8 DEF Clear
<1>10. \A m \in V : assigned[m] # <<w, s>>
  <2>1. ASSUME NEW m \in V, assigned[m] = <<w, s>>
        PROVE  FALSE
    <3>1. assigned[m] # None
      BY <2>1, LocationAssumption
    <3>2. assigned[m] \in FreeFor(m, swept, Cooled(plc, cool))
      <4> HIDE DEF held, swept
      <4>1. QED BY <1>1, <3>1 DEF Reconciled, Assignments, held, swept
    <3> HIDE DEF swept
    <3>3. swept[w][s] = None
      BY <2>1, <3>2 DEF FreeFor
    <3>4. QED BY <1>3, <1>9, <3>3
  <2>2. QED BY <2>1
<1>11. \A m \in U : adopted[m] # <<w, s>>
  <2>1. ASSUME NEW m \in U, adopted[m] = <<w, s>>
        PROVE  FALSE
    <3>1. adopted[m] # None
      BY <2>1, LocationAssumption
    <3>2. vw[adopted[m][1]][adopted[m][2]] = m
      BY <1>1, <3>1 DEF Reconciled, Adoptions
    <3>3. m = n
      BY <2>1, <3>2
    <3>4. QED BY <1>6, <3>3
  <2>2. QED BY <2>1
<1>s. ASSUME NEW v \in Workers
      PROVE  \E sent \in Seq(Command) :
               /\ wire'[v] = wire[v] \o sent
               /\ \A j \in DOMAIN sent : Sends(v, reg, gc, assigned, sent[j])
  BY <1>1, ReconcileSends
<1> HIDE DEF held, swept, U, V, gc
<1>12. placements'[n] = plc[n]
  BY <1>2, <1>4, <1>6, <1>7, SettleElse
<1>13. view'[w][s] = n
  BY <1>2, <1>4, <1>9, <1>10 DEF Occupy
<1>14. ASSUME NEW v \in Workers, NEW t \in Slots, view'[v][t] = n
       PROVE  vw[v][t] = n
  <2>1. ASSUME NEW m \in V, assigned[m] = <<v, t>>
        PROVE  FALSE
    <3>1. (CHOOSE x \in V : assigned[x] = <<v, t>>) \in V
      BY <2>1
    <3>2. DOMAIN assigned = V
      BY <1>2
    <3>3. view'[v][t] = CHOOSE x \in V : assigned[x] = <<v, t>>
      BY <1>4, <2>1, <3>2 DEF Occupy
    <3>4. QED BY <1>7, <1>14, <3>1, <3>3
  <2>2. view'[v][t] = swept[v][t]
    <3>1. DOMAIN assigned = V
      BY <1>2
    <3>2. QED BY <1>4, <2>1, <3>1 DEF Occupy
  <2>3. QED BY <1>3, <1>4, <1>14, <2>2 DEF Clear
<1>15. ASSUME NEW m \in Names, At(placements'[m], w, s)
       PROVE  placements'[m] = plc[m]
  <2>1. CASE m \in V /\ assigned[m] # None
    <3>1. placements'[m] = NewPlacement(assigned[m], "assigning") /\ assigned[m] \in Locs
      BY <1>2, <1>4, <2>1, SettleAt
    <3>2. assigned[m] = <<w, s>>
      BY <1>15, <3>1 DEF At, NewPlacement, Locs
    <3>3. QED BY <1>10, <2>1, <3>2
  <2>2. CASE m \notin V \/ assigned[m] = None
    <3>1. placements'[m] = held[m]
      BY <1>2, <1>4, <2>2, SettleElse
    <3>2. CASE m \in U /\ adopted[m] # None
      <4>1. held[m] = NewPlacement(adopted[m], "running") /\ adopted[m] \in Locs
        BY <1>2, <1>4, <3>2, SettleAt
      <4>2. adopted[m] = <<w, s>>
        BY <1>15, <3>1, <4>1 DEF At, NewPlacement, Locs
      <4>3. QED BY <1>11, <3>2, <4>2
    <3>3. CASE m \notin U \/ adopted[m] = None
      <4>1. held[m] = Kept(plc)[m]
        BY <1>2, <1>4, <3>3, SettleElse
      <4>2. QED BY <1>15, <3>1, <4>1 DEF Kept, At
    <3>4. QED BY <3>2, <3>3
  <2>3. QED BY <2>1, <2>2
<1>16. ASSUME NEW v \in Workers, NEW k \in DOMAIN wire'[v]
       PROVE  \/ k <= Len(wire[v]) /\ wire'[v][k] = wire[v][k]
              \/ /\ wire'[v][k] \in Command /\ wire'[v][k].type \in {"assign", "drain"}
                 /\ v = w => wire'[v][k].slot # s
                 /\ wire'[v][k].type = "assign" => wire'[v][k].name # n
  <2>1. PICK sent \in Seq(Command) :
          wire'[v] = wire[v] \o sent /\ \A j \in DOMAIN sent : Sends(v, reg, gc, assigned, sent[j])
    BY <1>s
  <2>0. wire[v] \in Seq(Command)
    BY DEF TypeOK
  <2>2. CASE k <= Len(wire[v])
    BY <2>0, <2>1, <2>2
  <2>3. CASE k > Len(wire[v])
    <3> DEFINE j == k - Len(wire[v])
    <3>1. j \in DOMAIN sent /\ wire'[v][k] = sent[j]
      BY <2>0, <2>1, <2>3, AddedMessage
    <3>2. sent[j] \in Command
      BY <2>1, <3>1, ElementType
    <3> HIDE DEF j
    <3>3. CASE \E t \in Slots : <<v, t>> \in gc /\ sent[j] = DrainOf(t)
      BY <1>8, <3>1, <3>2, <3>3 DEF DrainOf
    <3>4. ASSUME NEW m \in DOMAIN assigned, assigned[m] # None, assigned[m][1] = v,
                 sent[j] = AssignTo(assigned[m][2], m, reg[m])
          PROVE  /\ sent[j].type = "assign" /\ (v = w => sent[j].slot # s)
                 /\ sent[j].name # n
      <4>1. sent[j].type = "assign" /\ sent[j].slot = assigned[m][2] /\ sent[j].name = m
        BY <3>4 DEF AssignTo
      <4>2. assigned[m] = <<assigned[m][1], assigned[m][2]>> /\ m \in V
        BY <1>2, <3>4 DEF Locs
      <4>3. v = w => assigned[m][2] # s
        BY <1>10, <3>4, <4>2
      <4>4. QED BY <1>7, <4>1, <4>2, <4>3
    <3>5. QED BY <2>1, <3>1, <3>2, <3>3, <3>4 DEF Sends
  <2>4. QED BY <2>0, <2>1, <2>2, <2>3
<1>17. QED BY <1>12, <1>13, <1>14, <1>15, <1>16
=============================================================================
