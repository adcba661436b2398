------------------------------- MODULE Gateway -------------------------------
(***************************************************************************)
(* The control plane, host/gateway.lua: the registry of desired workloads, *)
(* the view of the workers, the placements, and the relay of invocations.  *)
(*                                                                         *)
(* The gateway is one event loop.  Every handler and every reconcile tick  *)
(* runs to its end before the next event, so each is one action here.  The *)
(* module is open: workers and clients may say anything a message can say. *)
(* Cluster composes it with the real worker.                               *)
(*                                                                         *)
(* Time is abstracted to what the code asks of it: whether a worker was    *)
(* heard of in the last 20 s (fresh), whether a failed assignment is less  *)
(* than 60 s old (cooldown), whether a request is over 120 s old (overdue).*)
(***************************************************************************)
EXTENDS Integers, Sequences, FiniteSets

CONSTANTS
  Names,     \* workload names
  Workers,   \* worker computers
  Slots,     \* disks of a worker
  Specs,     \* what a deploy asks for: url, kind, schema, warm, args
  Ids,       \* request ids of invocations; an id also names its requester
  Calls,     \* payloads of invocations
  None,      \* Lua's nil, and the false of a free slot
  MaxWire    \* bound: steps are taken while no link to a worker holds more

ASSUME NoneAssumption == None \notin Names \cup Specs \cup Workers
ASSUME LocationAssumption == None \notin Workers \X Slots
ASSUME MaxWireAssumption == MaxWire \in Nat
ASSUME FiniteAssumption == IsFiniteSet(Names) /\ IsFiniteSet(Slots)

VARIABLES
  registry,    \* name -> spec, in memory
  regfile,     \* name -> spec, in .crab_registry
  known,       \* workers that have an entry
  fresh,       \* known workers heard of less than 20 s ago
  view,        \* worker -> slot -> the workload it is believed to hold
  vstate,      \* worker -> slot -> the state last reported for it
  placements,  \* name -> where it is, or None
  cooldown,    \* <<name, worker>> pairs whose last assignment failed lately
  inflight,    \* id -> "none", "waiting" or "overdue"
  mode,        \* "updating" while the receiver is inside http.get
  wire,        \* worker -> commands on their way to it
  replies      \* id -> answers on their way to its requester

desired == <<registry, regfile>>
views   == <<known, fresh, view, vstate>>
plan    == <<placements, cooldown>>
calls   == <<inflight, replies>>
vars    == <<desired, views, plan, calls, mode, wire>>
-----------------------------------------------------------------------------
Placement == [worker : Workers, slot : Slots,
              state : {"assigning", "loading", "running"}, hbm : 0..2]

ASSUME PlacementAssumption == None \notin Placement

Command ==
  [type : {"assign"}, slot : Slots, name : Names, spec : Specs]
    \cup [type : {"drain"}, slot : Slots]
    \cup [type : {"invoke"}, id : Ids, name : Names, call : Calls]
    \cup [type : {"update"}]

Answers == Calls \cup {"error", "timeout"}

\* What a worker says of its slots: a state exactly where there is a workload.
Reports ==
  {r \in [Slots -> [workload : Names \cup {None},
                    state : {"none", "loading", "running"}]] :
     \A s \in Slots : r[s].workload = None <=> r[s].state = "none"}

Registry == [Names -> Specs \cup {None}]

TypeOK ==
  /\ registry \in Registry
  /\ regfile \in Registry
  /\ known \subseteq Workers
  /\ fresh \subseteq known
  /\ view \in [Workers -> [Slots -> Names \cup {None}]]
  /\ vstate \in [Workers -> [Slots -> {"none", "loading", "running"}]]
  /\ placements \in [Names -> Placement \cup {None}]
  /\ cooldown \subseteq Names \X Workers
  /\ inflight \in [Ids -> {"none", "waiting", "overdue"}]
  /\ mode \in {"serving", "updating"}
  /\ wire \in [Workers -> Seq(Command)]
  /\ replies \in [Ids -> Seq(Answers)]

EmptyRegistry == [n \in Names |-> None]
EmptyView     == [s \in Slots |-> None]
NoStates      == [s \in Slots |-> "none"]

\* Everything the gateway keeps in memory only, as a start leaves it.
Forgotten ==
  /\ known' = {} /\ fresh' = {}
  /\ view' = [w \in Workers |-> EmptyView]
  /\ vstate' = [w \in Workers |-> NoStates]
  /\ placements' = [n \in Names |-> None]
  /\ cooldown' = {}
  /\ inflight' = [i \in Ids |-> "none"]
  /\ mode' = "serving"

Init ==
  /\ registry \in Registry /\ regfile = registry
  /\ known = {} /\ fresh = {}
  /\ view = [w \in Workers |-> EmptyView]
  /\ vstate = [w \in Workers |-> NoStates]
  /\ placements = [n \in Names |-> None]
  /\ cooldown = {}
  /\ inflight = [i \in Ids |-> "none"]
  /\ mode = "serving"
  /\ wire = [w \in Workers |-> <<>>]
  /\ replies = [i \in Ids |-> <<>>]
-----------------------------------------------------------------------------
(* Helpers. *)

Registered(reg) == {n \in Names : reg[n] # None}
\* Mutant: anything unplaced may be adopted or placed, deployed or not.
UnplacedOrUnknown(reg, plc) == {n \in Names : plc[n] = None}
Unplaced(reg, plc) == {n \in Registered(reg) : plc[n] = None}
At(p, w, s) == p # None /\ p.worker = w /\ p.slot = s

AssignTo(s, n, sp) == [type |-> "assign", slot |-> s, name |-> n, spec |-> sp]
DrainOf(s) == [type |-> "drain", slot |-> s]
NewPlacement(l, st) == [worker |-> l[1], slot |-> l[2], state |-> st, hbm |-> 0]

\* The commands of a set in the order pairs() happens to give.  Each slot has a
\* queue of its own at the worker, so the order between slots has no effect.
InSomeOrder(S) ==
  CHOOSE q \in [1..Cardinality(S) -> S] : \A c \in S : \E k \in DOMAIN q : q[k] = c

\* The bound on the links, in the guard of every action but the delivery.
Room ==
  /\ \A w \in Workers : Len(wire[w]) <= MaxWire
  /\ \A i \in Ids : Len(replies[i]) <= MaxWire

Answer(id, a) == replies' = [replies EXCEPT ![id] = Append(@, a)]
-----------------------------------------------------------------------------
(* reconcile.  Its callers pass the registry, placements, view and cooldown *)
(* they have just written.                                                  *)

\* A placement goes when its worker is lost or two heartbeats contradicted it.
Lost(p) == p.worker \notin fresh
\* Mutant: off by one.
ContradictedThrice(p) == p.worker \in fresh /\ p.hbm > 2
Contradicted(p) == p.worker \in fresh /\ p.hbm >= 2

Kept(plc) ==
  [n \in Names |->
     IF plc[n] # None /\ (Lost(plc[n]) \/ Contradicted(plc[n])) THEN None
     ELSE plc[n]]

Cooled(plc, cool) ==
  cool \cup {c \in Names \X Workers :
               /\ plc[c[1]] # None
               /\ plc[c[1]].worker = c[2]
               /\ Contradicted(plc[c[1]])}

\* Mutant: a workload without a placement is always assigned afresh.
NoAdoptions(reg, plc, vw, st, ws, ok) == {[n \in Unplaced(reg, plc) |-> None]}

\* Adoption: every unplaced workload that a slot of ws holds, in a state of ok,
\* is placed at one of those slots.
Adoptions(reg, plc, vw, st, ws, ok) ==
  LET U == Unplaced(reg, plc)
      Copies(n) == {l \in ws \X Slots : vw[l[1]][l[2]] = n /\ st[l[1]][l[2]] \in ok}
  IN {f \in [U -> (ws \X Slots) \cup {None}] :
        \A n \in U : IF Copies(n) = {} THEN f[n] = None ELSE f[n] \in Copies(n)}

\* Puts every workload that f locates there, in state st.
Settle(plc, f, st) ==
  [n \in Names |-> IF n \in DOMAIN f /\ f[n] # None THEN NewPlacement(f[n], st)
                   ELSE plc[n]]

\* Mutant: duplicates are left running.
UnknownOnly(reg, plc, vw) ==
  {l \in fresh \X Slots : vw[l[1]][l[2]] # None /\ reg[vw[l[1]][l[2]]] = None}

\* Slots that hold an unregistered workload, or a copy beside the placement.
Garbage(reg, plc, vw) ==
  {l \in fresh \X Slots :
     LET n == vw[l[1]][l[2]] IN
       /\ n # None
       /\ ~At(plc[n], l[1], l[2])
       /\ reg[n] = None \/ plc[n] # None}

Clear(vw, locs) ==
  [w \in Workers |-> [s \in Slots |-> IF <<w, s>> \in locs THEN None ELSE vw[w][s]]]

\* free_slot: where n may be assigned.
FreeFor(n, vw, cool) ==
  {l \in fresh \X Slots : vw[l[1]][l[2]] = None /\ <<n, l[1]>> \notin cool}

\* Greedy placement in any order: distinct slots, and nothing that could still
\* have been placed is left out.
Assignments(reg, plc, vw, cool) ==
  LET U == Unplaced(reg, plc) IN
  {f \in [U -> (fresh \X Slots) \cup {None}] :
     /\ \A n \in U : f[n] # None => f[n] \in FreeFor(n, vw, cool)
     /\ \A n, m \in U : n # m /\ f[n] # None => f[n] # f[m]
     /\ \A n \in U : f[n] = None =>
          \A l \in FreeFor(n, vw, cool) : \E m \in U : f[m] = l}

Occupy(vw, f) ==
  [w \in Workers |-> [s \in Slots |->
     IF \E n \in DOMAIN f : f[n] = <<w, s>>
     THEN CHOOSE n \in DOMAIN f : f[n] = <<w, s>> ELSE vw[w][s]]]

\* Everything a reconcile sends w: the drains, then the assignments.
SentTo(w, reg, gc, f) ==
  InSomeOrder({DrainOf(s) : s \in {t \in Slots : <<w, t>> \in gc}})
    \o InSomeOrder({AssignTo(f[n][2], n, reg[n]) :
                      n \in {m \in DOMAIN f : f[m] # None /\ f[m][1] = w}})

\* Mutant: nobody is answered for.
NoneOverdue == {}
Overdue == {i \in Ids : inflight[i] = "overdue"}

Reconcile(reg, plc, vw, cool) ==
  \E adopted \in Adoptions(reg, Kept(plc), vw, vstate, fresh, {"running"}) :
    LET held == Settle(Kept(plc), adopted, "running")
        gc   == Garbage(reg, held, vw)
        swept == Clear(vw, gc)
        cooled == Cooled(plc, cool)
    IN \E assigned \in Assignments(reg, held, swept, cooled) :
         /\ placements' = Settle(held, assigned, "assigning")
         /\ view' = Occupy(swept, assigned)
         /\ cooldown' = cooled
         /\ wire' = [w \in Workers |-> wire[w] \o
                       SentTo(w, reg, gc, assigned)]
         /\ inflight' = [i \in Ids |-> IF i \in Overdue THEN "none" ELSE inflight[i]]
         /\ replies' = [i \in Ids |->
                          IF i \in Overdue THEN Append(replies[i], "timeout")
                          ELSE replies[i]]
-----------------------------------------------------------------------------
(* Messages from workers. *)

Serving == mode = "serving" /\ Room

\* The view and the states with what r says of w.
Seen(w, r)   == [view EXCEPT ![w] = [s \in Slots |-> r[s].workload]]
Stated(w, r) == [vstate EXCEPT ![w] = [s \in Slots |-> r[s].state]]
\* Mutant: a heartbeat updates an entry that may not be there.
HearWithoutEntry(w) == known' = known /\ fresh' = fresh \cup {w}
Hear(w)      == known' = known \cup {w} /\ fresh' = fresh \cup {w}

\* A registration replaces the worker's entry, states included, but its running
\* workloads are adopted.
HandleRegister(w, r) ==
  /\ Serving
  /\ Hear(w)
  /\ view' = Seen(w, r)
  /\ vstate' = [vstate EXCEPT ![w] = NoStates]
  /\ \E f \in Adoptions(registry, placements, Seen(w, r), Stated(w, r), {w}, {"running"}) :
       placements' = Settle(placements, f, "running")
  /\ UNCHANGED <<desired, cooldown, calls, mode, wire>>

\* Mutant: the reported state is taken whatever workload it is about.
JudgedByState(p, n, r) ==
  [p EXCEPT !.state = r[p.slot].state, !.hbm = IF r[p.slot].workload = n THEN 0 ELSE @]
\* Mutant: a heartbeat that is no news of a start counts as a contradiction.
JudgedAlways(p, n, r) == [p EXCEPT !.hbm = IF @ < 2 THEN @ + 1 ELSE 2]

\* A heartbeat confirms a placement, holds it while the workload loads, or
\* counts one contradiction (two are as good as any number).
Judged(p, n, r) ==
  IF r[p.slot].workload # n
  THEN [p EXCEPT !.hbm = IF @ < 2 THEN @ + 1 ELSE 2]
  ELSE IF r[p.slot].state = "running"
       THEN [p EXCEPT !.state = "running", !.hbm = 0]
       ELSE [p EXCEPT !.state = r[p.slot].state]

\* A heartbeat from a worker without an entry also adopts, loading or running.
HandleHeartbeat(w, r) ==
  /\ Serving
  /\ Hear(w)
  /\ view' = Seen(w, r) /\ vstate' = Stated(w, r)
  /\ LET ws == IF w \in known THEN {} ELSE {w} IN
     \E f \in Adoptions(registry, placements, Seen(w, r), Stated(w, r), ws,
                        {"loading", "running"}) :
       LET held == Settle(placements, f, "assigning") IN
       placements' = [n \in Names |->
                        IF held[n] # None /\ held[n].worker = w THEN Judged(held[n], n, r)
                        ELSE held[n]]
  /\ UNCHANGED <<desired, cooldown, calls, mode, wire>>

HandleAssignOk(w, n) ==
  /\ Serving
  /\ placements' = IF placements[n] # None /\ placements[n].worker = w
                   THEN [placements EXCEPT ![n].state = "running", ![n].hbm = 0]
                   ELSE placements
  /\ UNCHANGED <<desired, views, cooldown, calls, mode, wire>>

HandleAssignFailed(w, n) ==
  LET p == placements[n]
      mine == p # None /\ p.worker = w
  IN /\ Serving
     /\ Reconcile(registry,
                  IF mine THEN [placements EXCEPT ![n] = None] ELSE placements,
                  IF mine THEN [view EXCEPT ![w][p.slot] = None] ELSE view,
                  cooldown \cup {<<n, w>>})
     /\ UNCHANGED <<desired, known, fresh, vstate, mode>>
-----------------------------------------------------------------------------
(* Requests from clients. *)

\* Mutant: the registry is written some time later.
SaveLater(reg) == registry' = reg /\ UNCHANGED regfile
Save(reg) == registry' = reg /\ regfile' = reg

HandleDeploy(n, spec, force) ==
  /\ Serving
  /\ registry[n] = None \/ force
  /\ LET reg == [registry EXCEPT ![n] = spec] IN
       Save(reg) /\ Reconcile(reg, placements, view, cooldown)
  /\ UNCHANGED <<known, fresh, vstate, mode>>

\* Drains and frees the slots of the placements of the names in S.
Undeploy(S) ==
  LET locs == {l \in Workers \X Slots : \E n \in S : At(placements[n], l[1], l[2])} IN
    /\ placements' = [n \in Names |-> IF n \in S THEN None ELSE placements[n]]
    /\ view' = Clear(view, locs)
    /\ wire' = [w \in Workers |-> wire[w] \o
                  InSomeOrder({DrainOf(s) : s \in {t \in Slots : <<w, t>> \in locs}})]
    /\ Save([n \in Names |-> IF n \in S THEN None ELSE registry[n]])
    /\ UNCHANGED <<known, fresh, vstate, cooldown, calls, mode>>

HandleRemove(n) == Serving /\ Undeploy({n})
HandlePurge     == Serving /\ Undeploy(Names)

HandleUpdateWorkers ==
  /\ Serving
  /\ wire' = [w \in Workers |->
                IF w \in known THEN Append(wire[w], [type |-> "update"]) ELSE wire[w]]
  /\ UNCHANGED <<desired, views, plan, calls, mode>>

\* The receiver is inside http.get: nothing is handled until it returns.
HandleUpdateGateway ==
  /\ Serving
  /\ mode' = "updating"
  /\ UNCHANGED <<desired, views, plan, calls, wire>>

UpdateGatewayFails ==
  /\ Room
  /\ mode = "updating" /\ mode' = "serving"
  /\ UNCHANGED <<desired, views, plan, calls, wire>>

HandleInvoke(id, n, call) ==
  /\ Serving
  /\ IF placements[n] # None /\ placements[n].state = "running"
     THEN /\ inflight' = [inflight EXCEPT ![id] = "waiting"]
          /\ wire' = [wire EXCEPT ![placements[n].worker] = Append(@,
                        [type |-> "invoke", id |-> id, name |-> n, call |-> call])]
          /\ UNCHANGED replies
     ELSE Answer(id, "error") /\ UNCHANGED <<inflight, wire>>
  /\ UNCHANGED <<desired, views, plan, mode>>

\* Mutant: a second reply to the same request is passed on as well.
RelayedAgain(id, answer) ==
  /\ Serving
  /\ inflight[id] # "none" /\ UNCHANGED inflight
  /\ Answer(id, answer)
  /\ UNCHANGED <<desired, views, plan, mode, wire>>

HandleInvokeReply(id, answer) ==
  /\ Serving
  /\ inflight[id] # "none"
  /\ inflight' = [inflight EXCEPT ![id] = "none"]
  /\ Answer(id, answer)
  /\ UNCHANGED <<desired, views, plan, mode, wire>>
-----------------------------------------------------------------------------
(* Time, restarts and the links. *)

ReconcileTick ==
  /\ Room
  /\ UNCHANGED <<desired, known, fresh, vstate, mode>>
  /\ Reconcile(registry, placements, view, cooldown)

WorkerSilent(w) ==
  /\ Room
  /\ w \in fresh /\ fresh' = fresh \ {w}
  /\ UNCHANGED <<desired, known, view, vstate, plan, calls, mode, wire>>

CooldownEnds(n, w) ==
  /\ Room
  /\ <<n, w>> \in cooldown /\ cooldown' = cooldown \ {<<n, w>>}
  /\ UNCHANGED <<desired, views, placements, calls, mode, wire>>

InvokeOverdue(id) ==
  /\ Room
  /\ inflight[id] = "waiting"
  /\ inflight' = [inflight EXCEPT ![id] = "overdue"]
  /\ UNCHANGED <<desired, views, plan, replies, mode, wire>>

\* A crash, a chunk unload or the end of update-gateway: back to the file.
Reboot ==
  /\ Room
  /\ registry' = regfile
  /\ Forgotten
  /\ UNCHANGED <<regfile, wire, replies>>

\* A crash inside save_registry, after fs.open truncated the file: the next
\* start cannot read it and begins with an empty registry.
CrashInSave ==
  /\ Room
  /\ registry' = EmptyRegistry /\ regfile' = EmptyRegistry
  /\ Forgotten
  /\ UNCHANGED <<wire, replies>>

\* The environment takes what was sent.
Take ==
  /\ \E w \in Workers : wire[w] # <<>>
  /\ wire' = [w \in Workers |-> <<>>]
  /\ UNCHANGED <<desired, views, plan, calls, mode>>

TakeReply(id) ==
  /\ replies[id] # <<>> /\ replies' = [replies EXCEPT ![id] = Tail(@)]
  /\ UNCHANGED <<desired, views, plan, inflight, mode, wire>>

WorkerMessage ==
  \E w \in Workers :
    \/ \E r \in Reports : HandleRegister(w, r) \/ HandleHeartbeat(w, r)
    \/ \E n \in Names : HandleAssignOk(w, n) \/ HandleAssignFailed(w, n)

ClientRequest ==
  \/ \E n \in Names, sp \in Specs : HandleDeploy(n, sp, registry[n] # None)
  \/ \E n \in Names : HandleRemove(n)
  \/ HandlePurge
  \/ HandleUpdateWorkers
  \/ HandleUpdateGateway

\* The steps that move the plan.
PlanNext ==
  \/ WorkerMessage
  \/ ClientRequest
  \/ UpdateGatewayFails
  \/ ReconcileTick
  \/ \E w \in Workers : WorkerSilent(w)
  \/ \E n \in Names, w \in Workers : CooldownEnds(n, w)
  \/ Reboot
  \/ CrashInSave
  \/ Take

\* The steps of the relay, which leave the plan alone.
CallNext ==
  \E id \in Ids :
    \/ \E n \in Names, c \in Calls : HandleInvoke(id, n, c)
    \/ \E a \in Calls \cup {"error"} : HandleInvokeReply(id, a)
    \/ InvokeOverdue(id) \/ TakeReply(id)

Next == PlanNext \/ CallNext

Spec == Init /\ [][Next]_vars
PlanSpec == Init /\ [][PlanNext]_vars
-----------------------------------------------------------------------------
(* Properties. *)

\* Only a registered workload is placed: remove, purge, a reboot or a torn
\* registry never leave a placement of something nobody asked for.
PlacedIsRegistered == \A n \in Names : placements[n] # None => registry[n] # None

\* Every placement names a worker that has an entry: the handlers index
\* workers[p.worker].slots without a check in free_slot and reconcile.
PlacedIsKnown == \A n \in Names : placements[n] # None => placements[n].worker \in known

\* Between two handlers the file holds the registry that was acknowledged, so a
\* reboot at any such moment loses no deploy and revives no removed workload.
RegistryIsSaved == regfile = registry

\* After a tick the plan is settled: no placement on a lost worker or twice
\* contradicted, nothing pending while a slot it may use is free, and no slot of
\* a live worker left holding an unknown or duplicate workload, except a copy
\* that was still loading when its workload was assigned elsewhere.
Settled ==
  /\ \A n \in Names : placements[n] # None =>
       placements[n].worker \in fresh /\ placements[n].hbm < 2
  /\ \A l \in Garbage(registry, placements, view) :
       LET n == view[l[1]][l[2]] IN
         registry[n] # None /\ placements[n].state = "assigning"
  /\ \A n \in Unplaced(registry, placements) : FreeFor(n, view, cooldown) = {}

TickSettles == [][ReconcileTick => Settled']_vars

\* A second copy is never started knowingly: when n is assigned, by a tick, a
\* deploy or after a failure, no other slot of a live worker is left in view as
\* running n.
SendsAssign(n) ==
  \E w \in Workers : \E k \in DOMAIN wire'[w] :
    k > Len(wire[w]) /\ wire'[w][k].type = "assign" /\ wire'[w][k].name = n

AdoptsBeforeAssigning ==
  [][\A n \in Names : SendsAssign(n) =>
       \A w \in fresh', s \in Slots :
         At(placements'[n], w, s) \/ view'[w][s] # n \/ vstate'[w][s] # "running"]_vars

\* Every request that is being relayed gets one answer, from the worker or when
\* it is overdue, and is then forgotten; the only other answer is a refusal,
\* which leaves nothing behind.  A request goes unanswered only when the gateway
\* restarts and forgets it.
OneAnswer(id) ==
  LET sent == Len(replies'[id]) > Len(replies[id])
      ends == inflight[id] # "none" /\ inflight'[id] = "none"
  IN /\ ends => sent \/ known' = {}
     /\ sent => ends \/ (inflight'[id] = inflight[id]
                        /\ \E n \in Names, c \in Calls : HandleInvoke(id, n, c))

AnsweredOnce == [][\A id \in Ids : OneAnswer(id)]_vars
=============================================================================
