------------------------------ MODULE CopiesProofs -----------------------------
(***************************************************************************)
(* A request is worked on once, proved for any number of requests, mesh     *)
(* calls, reactors, sessions and coroutines, and for any amount of meddling *)
(* and loss: the ids are followed through the links, the queues and         *)
(* the coroutines that hold them.                                           *)
(***************************************************************************)
EXTENDS CallsProofs
-----------------------------------------------------------------------------
(* Sequences in which an element of X comes at most once. *)

Has(X, q) == \E k \in DOMAIN q : q[k] \in X
One(X, q) == \A j, k \in DOMAIN q : q[j] \in X /\ q[k] \in X => j = k

LEMMA NothingHas ==
  ASSUME NEW X
  PROVE  ~Has(X, <<>>) /\ One(X, <<>>)
BY DEF Has, One

LEMMA ConcatHas ==
  ASSUME NEW A, NEW p \in Seq(A), NEW q \in Seq(A), NEW X
  PROVE  /\ Has(X, p \o q) <=> Has(X, p) \/ Has(X, q)
         /\ One(X, p) /\ One(X, q) /\ ~(Has(X, p) /\ Has(X, q)) => One(X, p \o q)
<1>1. /\ DOMAIN p = 1..Len(p) /\ DOMAIN q = 1..Len(q) /\ Len(p) \in Nat /\ Len(q) \in Nat
      /\ DOMAIN (p \o q) = 1..(Len(p) + Len(q))
  OBVIOUS
<1>2. \A k \in DOMAIN p : k \in DOMAIN (p \o q) /\ (p \o q)[k] = p[k]
  BY <1>1
<1>3. \A k \in DOMAIN q : Len(p) + k \in DOMAIN (p \o q) /\ (p \o q)[Len(p) + k] = q[k]
  BY <1>1
<1>4. \A k \in DOMAIN (p \o q) : k \in DOMAIN p \/ (k > Len(p) /\ k - Len(p) \in DOMAIN q)
  BY <1>1
<1>5. \A k \in DOMAIN (p \o q) :
        (p \o q)[k] = IF k \in DOMAIN p THEN p[k] ELSE q[k - Len(p)]
  BY <1>1
<1>6. Has(X, p \o q) <=> Has(X, p) \/ Has(X, q)
  <2>1. Has(X, p) => Has(X, p \o q)
    BY <1>2 DEF Has
  <2>2. Has(X, q) => Has(X, p \o q)
    BY <1>3 DEF Has
  <2>3. Has(X, p \o q) => Has(X, p) \/ Has(X, q)
    BY <1>4, <1>5 DEF Has
  <2>4. QED BY <2>1, <2>2, <2>3
<1>7. ASSUME One(X, p), One(X, q), ~(Has(X, p) /\ Has(X, q)),
             NEW j \in DOMAIN (p \o q), NEW k \in DOMAIN (p \o q),
             (p \o q)[j] \in X, (p \o q)[k] \in X
      PROVE  j = k
  <2>1. CASE j \in DOMAIN p /\ k \in DOMAIN p
    BY <1>5, <1>7, <2>1 DEF One
  <2>2. CASE j \notin DOMAIN p /\ k \notin DOMAIN p
    <3>1. j - Len(p) \in DOMAIN q /\ k - Len(p) \in DOMAIN q
      BY <1>4, <2>2
    <3>2. q[j - Len(p)] \in X /\ q[k - Len(p)] \in X
      BY <1>5, <1>7, <2>2
    <3>3. j - Len(p) = k - Len(p)
      BY <1>7, <3>1, <3>2 DEF One
    <3>4. QED BY <1>1, <3>3
  <2>3. CASE (j \in DOMAIN p) # (k \in DOMAIN p)
    BY <1>4, <1>5, <1>7, <2>3 DEF Has
  <2>4. QED BY <2>1, <2>2, <2>3
<1>8. QED BY <1>6, <1>7 DEF One

LEMMA AppendHas ==
  ASSUME NEW A, NEW q \in Seq(A), NEW m \in A, NEW X
  PROVE  /\ Has(X, Append(q, m)) <=> Has(X, q) \/ m \in X
         /\ One(X, q) /\ ~(Has(X, q) /\ m \in X) => One(X, Append(q, m))
<1> DEFINE last == <<m>>
<1>1. last \in Seq(A) /\ Append(q, m) = q \o last
  OBVIOUS
<1>2. (Has(X, last) <=> m \in X) /\ One(X, last)
  BY DEF Has, One
<1> HIDE DEF last
<1>3. QED BY <1>1, <1>2, ConcatHas

LEMMA TailHas ==
  ASSUME NEW A, NEW q \in Seq(A), q # <<>>, NEW X
  PROVE  /\ Has(X, q) <=> Has(X, Tail(q)) \/ Head(q) \in X
         /\ One(X, q) => One(X, Tail(q)) /\ ~(Has(X, Tail(q)) /\ Head(q) \in X)
<1>1. /\ \A k \in DOMAIN Tail(q) : k + 1 \in DOMAIN q /\ k \in Nat \ {0} /\ Tail(q)[k] = q[k + 1]
      /\ 1 \in DOMAIN q /\ Head(q) = q[1]
      /\ \A k \in DOMAIN q : k = 1 \/ (k - 1 \in DOMAIN Tail(q) /\ Tail(q)[k - 1] = q[k])
  OBVIOUS
<1>2. Has(X, q) <=> Has(X, Tail(q)) \/ Head(q) \in X
  BY <1>1 DEF Has
<1>3. ASSUME One(X, q)
      PROVE  One(X, Tail(q)) /\ ~(Has(X, Tail(q)) /\ Head(q) \in X)
  <2>1. One(X, Tail(q))
    <3>1. ASSUME NEW j \in DOMAIN Tail(q), NEW k \in DOMAIN Tail(q),
                 Tail(q)[j] \in X, Tail(q)[k] \in X
          PROVE  j = k
      <4>1. j + 1 = k + 1
        BY <1>1, <1>3, <3>1 DEF One
      <4>2. QED BY <1>1, <4>1
    <3>2. QED BY <3>1 DEF One
  <2>2. ASSUME NEW k \in DOMAIN Tail(q), Tail(q)[k] \in X, Head(q) \in X
        PROVE  FALSE
    <3>1. k + 1 = 1
      BY <1>1, <1>3, <2>2 DEF One
    <3>2. QED BY <1>1, <3>1
  <2>3. QED BY <2>1, <2>2 DEF Has
<1>4. QED BY <1>2, <1>3
-----------------------------------------------------------------------------
(* Who has a request. *)

\* Messages, commands and jobs that are about a request.
For(id) ==
  {m \in Message \cup Order \cup SlotCommand :
     m.type \in {"invoke", "invoke-reply"} /\ m.id = id}

LEMMA AboutType ==
  ASSUME NEW id \in Ids
  PROVE  /\ \A i \in Ids, a \in {"ok", "error"} : S!Reply(i, a) \in For(id) <=> i = id
         /\ \A ok \in BOOLEAN : S!Assigned(ok) \notin For(id)
         /\ \A job \in Job : job \in For(id) <=> job.id = id
         /\ \A m \in Order : m.type # "invoke" => m \notin For(id)
         /\ \A m \in Message : m.type \notin {"invoke", "invoke-reply"} => m \notin For(id)
<1>1. ASSUME NEW i \in Ids, NEW a \in {"ok", "error"}
      PROVE  S!Reply(i, a) \in For(id) <=> i = id
  <2>1. S!Reply(i, a) \in Message /\ S!Reply(i, a).type = "invoke-reply" /\ S!Reply(i, a).id = i
    BY ReplyType DEF S!Reply
  <2>2. QED BY <2>1 DEF For
<1>2. \A ok \in BOOLEAN : S!Assigned(ok) \notin For(id)
  BY DEF S!Assigned, For
<1>3. ASSUME NEW job \in Job
      PROVE  job \in For(id) <=> job.id = id
  <2>1. job \in SlotCommand /\ job.type = "invoke"
    BY DEF SlotCommand, Job
  <2>2. QED BY <2>1 DEF For
<1>4. \A m \in Order : m.type # "invoke" => m \notin For(id)
  <2>1. \A m \in Order : m.type # "invoke-reply"
    BY DEF Order
  <2>2. QED BY <2>1 DEF For
<1>5. QED BY <1>1, <1>2, <1>3, <1>4 DEF For

\* It waits in a session's queue, the queue's field says that it is served, a
\* coroutine serves it, it waits for a reactor, a reactor serves it.
Waits(id, nm)   == sessq[nm] # None /\ Has(For(id), sessq[nm].jobs)
Current(id, nm) == sessq[nm] # None /\ Has(For(id), sessq[nm].current)
Serves(id, t)   == task[t] # None /\ task[t].job = id
Lined(id, n)    == Has({id}, jobs[n])
Runs(id, n)     == run[n] # None /\ run[n].id = id

OnWire(id)  == Has(For(id), wire[Worker])
InQueue(id) == Has(For(id), queue)
OnUplink(id) == Has(For(id), sent)
Waiting(id) == \E nm \in Names : Waits(id, nm)
Served(id)  == (\E t \in Tasks : Serves(id, t)) \/ \E nm \in Names : Current(id, nm)
InLine(id)  == \E n \in Reactors : Lined(id, n)
Running(id) == \E n \in Reactors : Runs(id, n)

\* In one of these at most ...
Apart(id) ==
  /\ OnWire(id)   => ~(InQueue(id) \/ OnUplink(id) \/ Waiting(id) \/ Served(id) \/ InLine(id) \/ Running(id))
  /\ InQueue(id)  => ~(OnUplink(id) \/ Waiting(id) \/ Served(id) \/ InLine(id) \/ Running(id))
  /\ OnUplink(id) => ~(Waiting(id) \/ Served(id) \/ InLine(id) \/ Running(id))
  /\ Waiting(id)  => ~(Served(id) \/ InLine(id) \/ Running(id))
  /\ Served(id)   => ~(InLine(id) \/ Running(id))
  /\ InLine(id)   => ~Running(id)

\* ... and there once; the queue that says it is served is that of its coroutine,
\* unless the coroutine has died.
LoneOnLinks(id) == One(For(id), wire[Worker]) /\ One(For(id), sent)

LoneInSlot(id) ==
  /\ One(For(id), queue)
  /\ \A nm \in Names : sessq[nm] # None => One(For(id), sessq[nm].jobs)
  /\ \A nm, o \in Names : Waits(id, nm) /\ Waits(id, o) => nm = o
  /\ \A nm, o \in Names : Current(id, nm) /\ Current(id, o) => nm = o
  /\ \A t, u \in Tasks : Serves(id, t) /\ Serves(id, u) => t = u
  /\ \A t \in Tasks, nm \in Names :
       Serves(id, t) /\ Current(id, nm) => task[t].own /\ task[t].session = nm

LoneAtReactors(id) ==
  /\ \A n \in Reactors : One({id}, jobs[n])
  /\ \A n, o \in Reactors : Lined(id, n) /\ Lined(id, o) => n = o
  /\ \A n, o \in Reactors : Runs(id, n) /\ Runs(id, o) => n = o

Lone(id) == LoneOnLinks(id) /\ LoneInSlot(id) /\ LoneAtReactors(id) /\ Apart(id)

Somewhere(id) ==
  OnWire(id) \/ InQueue(id) \/ OnUplink(id) \/ Waiting(id) \/ Served(id) \/ InLine(id) \/ Running(id)
\* A request that a step moves is not left where it was, and none comes from nowhere.
Carried(id) == Lone(id)' /\ (Somewhere(id)' => Somewhere(id))
-----------------------------------------------------------------------------
(* One place loses a request or gets one. *)

\* At most one job is served, and everybody who is told is told once.
LEMMA CurrentOne ==
  ASSUME NEW q \in Queue, NEW X
  PROVE  q.current \in Seq(Job) /\ q.jobs \in Seq(Job) /\ One(X, q.current)
<1>1. q.jobs \in Seq(Job) /\ q.current \in {<<>>} \cup {<<job>> : job \in Job}
  BY DEF Queue
<1>2. CASE q.current = <<>>
  BY <1>1, <1>2 DEF One
<1>3. ASSUME NEW job \in Job, q.current = <<job>>
      PROVE  q.current \in Seq(Job) /\ One(X, q.current)
  <2>1. <<job>> \in Seq(Job)
    OBVIOUS
  <2>2. QED BY <1>3, <2>1 DEF One
<1>4. QED BY <1>1, <1>2, <1>3

LEMMA ToldHas ==
  ASSUME NEW q \in Seq(Job), NEW id \in Ids
  PROVE  /\ Has(For(id), S!Told(q, "error")) <=> Has(For(id), q)
         /\ One(For(id), q) => One(For(id), S!Told(q, "error"))
<1>1. ASSUME NEW k \in DOMAIN q
      PROVE  S!Told(q, "error")[k] \in For(id) <=> q[k] \in For(id)
  <2>1. q[k] \in Job /\ S!Told(q, "error")[k] = S!Reply(q[k].id, "error")
    BY DEF S!Told
  <2>2. q[k].id \in Ids
    BY <2>1 DEF Job
  <2>3. S!Reply(q[k].id, "error") \in For(id) <=> q[k].id = id
    BY <2>2, AboutType
  <2>4. QED BY <2>1, <2>3, AboutType
<1>2. DOMAIN S!Told(q, "error") = DOMAIN q
  BY DEF S!Told
<1>3. QED BY <1>1, <1>2 DEF Has, One

LEMMA WireTail ==
  ASSUME GP!TypeOK, wire[Worker] # <<>>, wire' = [wire EXCEPT ![Worker] = Tail(wire[Worker])],
         NEW id \in Ids, One(For(id), wire[Worker])
  PROVE  /\ One(For(id), wire'[Worker])
         /\ OnWire(id)' => OnWire(id)
         /\ Head(wire[Worker]) \in For(id) => OnWire(id) /\ ~OnWire(id)'
<1>1. wire[Worker] \in Seq(GP!Command) /\ wire'[Worker] = Tail(wire[Worker])
  BY DEF GP!TypeOK
<1>2. QED BY <1>1, TailHas DEF OnWire

LEMMA SentTail ==
  ASSUME sent \in Seq(Message), sent # <<>>, sent' = Tail(sent),
         NEW id \in Ids, One(For(id), sent)
  PROVE  /\ One(For(id), sent')
         /\ OnUplink(id)' => OnUplink(id)
         /\ Head(sent) \in For(id) => OnUplink(id) /\ ~OnUplink(id)'
BY TailHas DEF OnUplink

LEMMA SentAppend ==
  ASSUME sent \in Seq(Message), NEW m \in Message, S!Send(<<m>>),
         NEW id \in Ids, One(For(id), sent)
  PROVE  /\ OnUplink(id)' <=> OnUplink(id) \/ m \in For(id)
         /\ ~(OnUplink(id) /\ m \in For(id)) => One(For(id), sent')
<1>1. sent' = Append(sent, m)
  BY DEF S!Send
<1>2. QED BY <1>1, AppendHas DEF OnUplink

LEMMA QueueTail ==
  ASSUME SlotOK, NEW type, S!Turn(type), NEW id \in Ids, One(For(id), queue)
  PROVE  /\ One(For(id), queue')
         /\ InQueue(id)' => InQueue(id)
         /\ Head(queue) \in For(id) => InQueue(id) /\ ~InQueue(id)'
BY TailHas DEF InQueue, S!Turn, SlotOK

LEMMA ReactorsKept ==
  ASSUME UNCHANGED <<jobs, run>>, NEW id \in Ids
  PROVE  /\ LoneAtReactors(id) => LoneAtReactors(id)'
         /\ (InLine(id)' <=> InLine(id)) /\ (Running(id)' <=> Running(id))
BY DEF LoneAtReactors, InLine, Running, Lined, Runs

LEMMA SlotKept ==
  ASSUME UNCHANGED <<sessq, task>>, NEW id \in Ids
  PROVE  /\ LoneInSlot(id) /\ One(For(id), queue') => LoneInSlot(id)'
         /\ (Waiting(id)' <=> Waiting(id)) /\ (Served(id)' <=> Served(id))
BY DEF LoneInSlot, Waiting, Served, Waits, Current, Serves
-----------------------------------------------------------------------------
(* The session slot. *)

\* What comes by the link.
LEMMA ReceiveCarries ==
  ASSUME GP!TypeOK, Ordered, SlotOK, ReactorsOK, sent \in Seq(Message), Receive,
         NEW id \in Ids, Lone(id)
  PROVE  Carried(id)
<1> DEFINE m == Head(wire[Worker])
           n == IF m.type = "invoke" THEN m.name ELSE m.slot
<1>1. /\ wire[Worker] # <<>> /\ wire' = [wire EXCEPT ![Worker] = Tail(wire[Worker])]
      /\ IF n = Pool THEN S!Receive(Command(m)) /\ UNCHANGED reactors
         ELSE /\ jobs' = [jobs EXCEPT ![n] = Append(@, m.id)]
              /\ UNCHANGED <<pool, sent, run, mesh_seq, mesh_replies>>
  BY DEF Receive
<1>2. m \in Order
  BY <1>1, HeadInOrder
<1>3. Command(m) \in SlotCommand /\ (n # Pool => m.type = "invoke" /\ n \in Reactors /\ m.id \in Ids)
  BY <1>2, CommandType
<1>4. LoneOnLinks(id) /\ LoneInSlot(id) /\ LoneAtReactors(id) /\ Apart(id)
  BY DEF Lone
<1>5. /\ One(For(id), wire'[Worker]) /\ (OnWire(id)' => OnWire(id))
      /\ m \in For(id) => OnWire(id) /\ ~OnWire(id)'
  BY <1>1, <1>4, WireTail DEF LoneOnLinks
<1>6. /\ Command(m) \in For(id) => m \in For(id)
      /\ Command(m).type = "invoke" => Command(m) \in Job /\ Command(m).id = m.id
      /\ m.type = "invoke" /\ m.id = id => m \in For(id)
  <2>1. m.type = "invoke" => Command(m).id = m.id /\ Command(m).type = "invoke"
    BY DEF Command
  <2>2. m.type # "invoke" => Command(m).type = m.type
    BY DEF Command
  <2>3. m.type # "invoke-reply"
    BY <1>2 DEF Order
  <2>4. Command(m).type = "invoke" => Command(m) \in Job
    BY <1>3 DEF SlotCommand
  <2> HIDE DEF m, n
  <2>5. QED BY <1>2, <2>1, <2>2, <2>3, <2>4 DEF For
<1> HIDE DEF m, n
<1>7. CASE n = Pool /\ queue' = Append(queue, Command(m)) /\ UNCHANGED <<sent, sessq, task, jobs, run>>
  <2>1. /\ InQueue(id)' <=> InQueue(id) \/ Command(m) \in For(id)
        /\ ~(InQueue(id) /\ Command(m) \in For(id)) => One(For(id), queue')
    BY <1>3, <1>4, <1>7, AppendHas DEF InQueue, SlotOK, LoneInSlot
  <2>2. One(For(id), queue')
    BY <1>4, <1>5, <1>6, <2>1 DEF Apart
  <2>3. LoneInSlot(id)' /\ (Waiting(id)' <=> Waiting(id)) /\ (Served(id)' <=> Served(id))
    BY <1>4, <1>7, <2>2, SlotKept
  <2>4. LoneAtReactors(id)' /\ (InLine(id)' <=> InLine(id)) /\ (Running(id)' <=> Running(id))
    BY <1>4, <1>7, ReactorsKept
  <2>5. LoneOnLinks(id)' /\ (OnUplink(id)' <=> OnUplink(id))
    BY <1>4, <1>5, <1>7 DEF LoneOnLinks, OnUplink
  <2>6. QED BY <1>4, <1>5, <1>6, <2>1, <2>3, <2>4, <2>5 DEF Carried, Lone, Apart, Somewhere
<1>8. CASE /\ n = Pool /\ Command(m).type = "invoke" /\ S!Send(<<S!Reply(Command(m).id, "error")>>)
           /\ UNCHANGED <<queue, sessq, task, jobs, run>>
  <2>1. Command(m).id \in Ids
    BY <1>6, <1>8 DEF Job
  <2>2. S!Reply(Command(m).id, "error") \in Message
        /\ (S!Reply(Command(m).id, "error") \in For(id) => m \in For(id))
    BY <1>2, <1>6, <1>8, <2>1, ReplyType, AboutType
  <2>3. /\ OnUplink(id)' => OnUplink(id) \/ m \in For(id)
        /\ One(For(id), sent')
    BY <1>4, <1>5, <1>8, <2>2, SentAppend DEF LoneOnLinks, Apart
  <2>4. LoneOnLinks(id)'
    BY <1>5, <2>3 DEF LoneOnLinks
  <2>5. /\ LoneInSlot(id)' /\ (Waiting(id)' <=> Waiting(id)) /\ (Served(id)' <=> Served(id))
        /\ InQueue(id)' <=> InQueue(id)
    BY <1>4, <1>8, SlotKept DEF InQueue, LoneInSlot
  <2>6. LoneAtReactors(id)' /\ (InLine(id)' <=> InLine(id)) /\ (Running(id)' <=> Running(id))
    BY <1>4, <1>8, ReactorsKept
  <2>7. QED BY <1>4, <1>5, <2>3, <2>4, <2>5, <2>6 DEF Carried, Lone, Apart, Somewhere
<1>9. CASE /\ n # Pool /\ jobs' = [jobs EXCEPT ![n] = Append(jobs[n], m.id)]
           /\ UNCHANGED <<sent, queue, sessq, task, run>>
  <2>1. m.id = id => m \in For(id)
    BY <1>3, <1>6, <1>9
  <2>2. /\ Has({id}, jobs'[n]) <=> Has({id}, jobs[n]) \/ m.id = id
        /\ ~(Has({id}, jobs[n]) /\ m.id = id) => One({id}, jobs'[n])
    <3>1. jobs[n] \in Seq(Ids) /\ m.id \in Ids /\ jobs'[n] = Append(jobs[n], m.id) /\ One({id}, jobs[n])
      BY <1>3, <1>4, <1>9 DEF ReactorsOK, LoneAtReactors
    <3>2. m.id \in {id} <=> m.id = id
      OBVIOUS
    <3> DEFINE X == {id}
    <3>3. One(X, jobs[n]) /\ (m.id \in X <=> m.id = id)
      BY <3>1
    <3> HIDE DEF X
    <3>4. /\ Has(X, jobs'[n]) <=> Has(X, jobs[n]) \/ m.id = id
          /\ ~(Has(X, jobs[n]) /\ m.id = id) => One(X, jobs'[n])
      BY <3>1, <3>3, AppendHas
    <3>5. QED BY <3>4 DEF X
  <2>3. \A o \in Reactors : o # n => jobs'[o] = jobs[o]
    BY <1>9 DEF ReactorsOK
  <2>4. \A o \in Reactors : Lined(id, o)' <=> Lined(id, o) \/ (o = n /\ m.id = id)
    BY <2>2, <2>3 DEF Lined
  <2>5. m.id = id => ~InLine(id)
    BY <1>4, <1>5, <2>1 DEF Apart
  <2>6. /\ InLine(id)' => InLine(id) \/ m.id = id
        /\ \A o, p \in Reactors : Lined(id, o)' /\ Lined(id, p)' => o = p
    BY <1>4, <2>4, <2>5 DEF InLine, LoneAtReactors
  <2>7. \A o \in Reactors : One({id}, jobs'[o])
    BY <1>3, <1>4, <1>9, <2>2, <2>3, <2>5 DEF LoneAtReactors, InLine, Lined
  <2>8. /\ \A o, p \in Reactors : Runs(id, o)' /\ Runs(id, p)' => o = p
        /\ Running(id)' <=> Running(id)
    BY <1>4, <1>9 DEF LoneAtReactors, Running, Runs
  <2>9. LoneAtReactors(id)'
    BY <2>6, <2>7, <2>8 DEF LoneAtReactors
  <2>10. /\ LoneInSlot(id)' /\ (Waiting(id)' <=> Waiting(id)) /\ (Served(id)' <=> Served(id))
         /\ InQueue(id)' <=> InQueue(id)
    BY <1>4, <1>9, SlotKept DEF InQueue, LoneInSlot
  <2>11. LoneOnLinks(id)' /\ (OnUplink(id)' <=> OnUplink(id))
    BY <1>4, <1>5, <1>9 DEF LoneOnLinks, OnUplink
  <2>12. QED BY <1>4, <1>5, <2>1, <2>6, <2>8, <2>9, <2>10, <2>11
             DEF Carried, Lone, Apart, Somewhere
<1>10. QED BY <1>1, <1>7, <1>8, <1>9 DEF S!Receive, S!sessions, pool, reactors

\* The rest of what the slot does leaves the link to it and the reactors alone.
Aside == UNCHANGED <<wire, jobs, run>>

LEMMA AsideKeeps ==
  ASSUME Aside, NEW id \in Ids, Lone(id)
  PROVE  /\ One(For(id), sent') => LoneOnLinks(id)'
         /\ LoneAtReactors(id)' /\ (InLine(id)' <=> InLine(id)) /\ (Running(id)' <=> Running(id))
         /\ OnWire(id)' <=> OnWire(id)
         /\ LoneOnLinks(id) /\ LoneInSlot(id) /\ LoneAtReactors(id) /\ Apart(id)
         /\ One(For(id), sent) /\ One(For(id), queue) /\ One(For(id), wire[Worker])
BY ReactorsKept DEF Aside, Lone, LoneOnLinks, LoneInSlot, OnWire

\* An answer to a request that is taken from where it was.
LEMMA ReplyCarries ==
  ASSUME sent \in Seq(Message), Aside, NEW job \in Ids, NEW a \in {"ok", "error"},
         S!Send(<<S!Reply(job, a)>>), NEW id \in Ids, Lone(id), LoneInSlot(id)',
         InQueue(id)' => InQueue(id), Waiting(id)' => Waiting(id), Served(id)' => Served(id),
         job = id => (InQueue(id) \/ Waiting(id) \/ Served(id))
                       /\ ~InQueue(id)' /\ ~Waiting(id)' /\ ~Served(id)'
  PROVE  Carried(id)
<1>1. S!Reply(job, a) \in Message /\ (S!Reply(job, a) \in For(id) <=> job = id)
  BY ReplyType, AboutType
<1>2. /\ OnUplink(id)' <=> OnUplink(id) \/ job = id
      /\ ~(OnUplink(id) /\ job = id) => One(For(id), sent')
  BY <1>1, AsideKeeps, SentAppend
<1>3. One(For(id), sent')
  BY <1>2, AsideKeeps DEF Apart
<1>4. QED BY <1>2, <1>3, AsideKeeps DEF Carried, Lone, Apart, Somewhere

\* Nothing is said of a request.
LEMMA SilentCarries ==
  ASSUME Aside, NEW id \in Ids, Lone(id), LoneInSlot(id)', One(For(id), sent'),
         OnUplink(id)' => OnUplink(id),
         InQueue(id)' => InQueue(id), Waiting(id)' => Waiting(id), Served(id)' => Served(id)
  PROVE  Carried(id)
BY AsideKeeps DEF Carried, Lone, Apart, Somewhere

LEMMA RouteCarries ==
  ASSUME SlotOK, sent \in Seq(Message), Aside, NEW nm \in Names, S!Route(nm),
         NEW id \in Ids, Lone(id)
  PROVE  Carried(id)
<1> DEFINE job == Head(queue)
<1>1. S!Turn("invoke")
  BY DEF S!Route
<1>2. job \in Job /\ job.id \in Ids
  BY <1>1, TurnType DEF Job
<1>3. LoneInSlot(id) /\ Apart(id) /\ One(For(id), sent)
  BY AsideKeeps
<1>4. /\ One(For(id), queue') /\ (InQueue(id)' => InQueue(id))
      /\ job \in For(id) => InQueue(id) /\ ~InQueue(id)'
  BY <1>1, AsideKeeps, QueueTail
<1>5. job \in For(id) <=> job.id = id
  BY <1>2, AboutType
<1> HIDE DEF job
<1>6. CASE S!Send(<<S!Reply(job.id, "error")>>) /\ UNCHANGED <<sessq, task>>
  <2>1. LoneInSlot(id)' /\ (Waiting(id)' <=> Waiting(id)) /\ (Served(id)' <=> Served(id))
    BY <1>3, <1>4, <1>6, SlotKept
  <2>2. job.id = id => ~Waiting(id) /\ ~Served(id)
    BY <1>3, <1>4, <1>5 DEF Apart
  <2>3. QED BY <1>2, <1>4, <1>5, <1>6, <2>1, <2>2, ReplyCarries
<1>7. ASSUME NEW q \in Queue, sessq' = [sessq EXCEPT ![nm] = q], UNCHANGED sent,
             Has(For(id), q.jobs) <=> Waits(id, nm) \/ job.id = id,
             ~(Waits(id, nm) /\ job.id = id) => One(For(id), q.jobs),
             Has(For(id), q.current) => Current(id, nm),
             \A t \in Tasks : task'[t] = task[t] \/ (task[t] = None /\ task'[t].job = None)
      PROVE  Carried(id)
  <2>1. sessq'[nm] = q /\ q # None /\ \A o \in Names : o # nm => sessq'[o] = sessq[o]
    BY <1>7, RecordsAssumption DEF SlotOK
  <2>2. \A o \in Names : Waits(id, o)' <=> Waits(id, o) \/ (o = nm /\ job.id = id)
    BY <1>7, <2>1 DEF Waits
  <2>3. \A o \in Names : Current(id, o)' => Current(id, o)
    BY <1>7, <2>1 DEF Current
  <2>4. job.id = id => ~Waiting(id) /\ ~Served(id) /\ ~OnUplink(id)
    BY <1>3, <1>4, <1>5 DEF Apart
  <2>5. \A o \in Names : sessq'[o] # None => One(For(id), sessq'[o].jobs)
    BY <1>3, <1>7, <2>1, <2>4 DEF LoneInSlot, Waiting
  <2>6. ASSUME NEW o \in Names, NEW p \in Names, Waits(id, o)', Waits(id, p)'
        PROVE  o = p
    <3>1. CASE job.id = id
      BY <2>2, <2>4, <2>6, <3>1 DEF Waiting
    <3>2. CASE job.id # id
      <4>1. Waits(id, o) /\ Waits(id, p)
        BY <2>2, <2>6, <3>2
      <4>2. QED BY <1>3, <4>1 DEF LoneInSlot
    <3>3. QED BY <3>1, <3>2
  <2>7. \A t \in Tasks : /\ Serves(id, t)' <=> Serves(id, t)
                         /\ Serves(id, t) => task'[t] = task[t]
    BY <1>7, NoneAssumption DEF Serves
  <2>8. LoneInSlot(id)'
    BY <1>3, <1>4, <2>3, <2>5, <2>6, <2>7 DEF LoneInSlot
  <2>9. (Served(id)' => Served(id)) /\ (Waiting(id)' => Waiting(id) \/ job.id = id)
    BY <2>2, <2>3, <2>7 DEF Served, Waiting
  <2>10. OnUplink(id)' = OnUplink(id) /\ One(For(id), sent')
    BY <1>3, <1>7 DEF OnUplink
  <2>11. QED BY <1>4, <1>5, <2>4, <2>8, <2>9, <2>10, AsideKeeps DEF Carried, Lone, Apart, Somewhere
<1>8. CASE /\ sessq[nm] # None /\ UNCHANGED <<task, sent>>
           /\ sessq' = [sessq EXCEPT ![nm].jobs = Append(@, job)]
  <2> DEFINE q == [sessq[nm] EXCEPT !.jobs = Append(sessq[nm].jobs, job)]
  <2>1. sessq[nm] \in Queue
    BY <1>8 DEF SlotOK, Maybe
  <2>2. q \in Queue
    BY <1>2, <2>1, QueueType
  <2>3. sessq[nm].jobs \in Seq(Job) /\ q.jobs = Append(sessq[nm].jobs, job)
        /\ q.current = sessq[nm].current
    BY <2>1 DEF Queue
  <2>4. One(For(id), sessq[nm].jobs)
    BY <1>3, <1>8 DEF LoneInSlot
  <2>5. /\ Has(For(id), q.jobs) <=> Has(For(id), sessq[nm].jobs) \/ job \in For(id)
        /\ ~(Has(For(id), sessq[nm].jobs) /\ job \in For(id)) => One(For(id), q.jobs)
    <3> HIDE DEF q
    <3>1. QED BY <1>2, <2>3, <2>4, AppendHas
  <2>6. sessq' = [sessq EXCEPT ![nm] = q]
    BY <1>8
  <2>7. \A t \in Tasks : task'[t] = task[t]
    BY <1>8
  <2> HIDE DEF q
  <2>8. QED BY <1>5, <1>7, <1>8, <2>2, <2>3, <2>5, <2>6, <2>7 DEF Waits, Current
<1>9. CASE /\ sessq[nm] = None /\ UNCHANGED sent
           /\ sessq' = [sessq EXCEPT ![nm] = S!NewQueue(job)]
           /\ \E t \in Tasks : task[t] = None
           /\ task' = [task EXCEPT ![CHOOSE t \in Tasks : task[t] = None] =
                         [session |-> nm, doing |-> "waiting", job |-> None, own |-> TRUE]]
  <2> DEFINE q == S!NewQueue(job)
             one == <<job>>
  <2>1. q \in Queue /\ q.jobs = one /\ q.current = <<>>
    BY <1>2, QueueType DEF S!NewQueue
  <2>2. (Has(For(id), one) <=> job \in For(id)) /\ One(For(id), one)
    BY DEF Has, One
  <2>3. ~Has(For(id), q.current)
    BY <2>1, NothingHas
  <2>4. ~Waits(id, nm)
    BY <1>9 DEF Waits
  <2>5. ASSUME NEW t \in Tasks
        PROVE  task'[t] = task[t] \/ (task[t] = None /\ task'[t].job = None)
    <3> DEFINE u == CHOOSE v \in Tasks : task[v] = None
               new == [session |-> nm, doing |-> "waiting", job |-> None, own |-> TRUE]
    <3>1. u \in Tasks /\ task[u] = None
      BY <1>9
    <3>2. task' = [task EXCEPT ![u] = new] /\ new.job = None
      BY <1>9
    <3> HIDE DEF u, new
    <3>3. task'[u] = new /\ (t # u => task'[t] = task[t])
      BY <3>1, <3>2 DEF SlotOK
    <3>4. QED BY <3>1, <3>2, <3>3
  <2>6. sessq' = [sessq EXCEPT ![nm] = q]
    BY <1>9
  <2> HIDE DEF q, one
  <2>7. QED BY <1>5, <1>7, <1>9, <2>1, <2>2, <2>3, <2>4, <2>5, <2>6
<1>10. QED BY <1>6, <1>8, <1>9 DEF S!Route, S!sessions, job

LEMMA TurnCarries ==
  ASSUME SlotOK, sent \in Seq(Message), Aside, S!Drain \/ S!AssignBegins,
         NEW id \in Ids, Lone(id)
  PROVE  Carried(id)
<1>1. One(For(id), queue') /\ (InQueue(id)' => InQueue(id)) /\ UNCHANGED sent
  BY AsideKeeps, QueueTail DEF S!Drain, S!AssignBegins
<1>2. One(For(id), sent') /\ (OnUplink(id)' => OnUplink(id)) /\ LoneInSlot(id)
  BY <1>1, AsideKeeps DEF OnUplink
<1>3. CASE S!Drain
  <2>1. \A nm \in Names : sessq'[nm] = None
    BY <1>3 DEF S!Drain, S!NoQueues
  <2>2. \A nm \in Names : ~Waits(id, nm)' /\ ~Current(id, nm)'
    BY <2>1 DEF Waits, Current
  <2>3. ASSUME NEW t \in Tasks, Serves(id, t)'
        PROVE  Serves(id, t)
    <3>1. task[t] # None /\ task'[t] = [task[t] EXCEPT !.own = FALSE]
      BY <1>3, <2>3 DEF S!Drain, Serves
    <3>2. task'[t].job = task[t].job
      BY <3>1 DEF SlotOK, Maybe, Worked, Coroutine
    <3>3. QED BY <2>3, <3>1, <3>2 DEF Serves
  <2>4. (Waiting(id)' => Waiting(id)) /\ (Served(id)' => Served(id))
    BY <2>2, <2>3 DEF Waiting, Served
  <2>5. LoneInSlot(id)'
    BY <1>1, <1>2, <2>1, <2>2, <2>3 DEF LoneInSlot
  <2>6. QED BY <1>1, <1>2, <2>4, <2>5, SilentCarries
<1>4. CASE S!AssignBegins
  <2>1. LoneInSlot(id)' /\ (Waiting(id)' <=> Waiting(id)) /\ (Served(id)' <=> Served(id))
    BY <1>1, <1>2, <1>4, SlotKept DEF S!AssignBegins, S!sessions
  <2>2. QED BY <1>1, <1>2, <2>1, SilentCarries
<1>5. QED BY <1>3, <1>4

\* The messages of an assignment are about no request.
LEMMA AssignmentCarries ==
  ASSUME SlotOK, sent \in Seq(Message), Aside,
         S!FetchArrives \/ S!FetchFails \/ S!StartEnds \/ S!StartFails,
         NEW id \in Ids, Lone(id)
  PROVE  Carried(id)
<1>1. UNCHANGED <<queue, sessq, task>>
  BY DEF S!FetchArrives, S!FetchFails, S!StartEnds, S!StartFails, S!sessions
<1>2. /\ LoneInSlot(id)' /\ (Waiting(id)' => Waiting(id)) /\ (Served(id)' => Served(id))
      /\ InQueue(id)' => InQueue(id)
  BY <1>1, AsideKeeps, SlotKept DEF InQueue
<1>3. One(For(id), sent') /\ (OnUplink(id)' => OnUplink(id))
  <2>1. CASE UNCHANGED sent
    BY <2>1, AsideKeeps DEF OnUplink
  <2>2. ASSUME NEW ok \in BOOLEAN, S!Send(<<S!Assigned(ok)>>)
        PROVE  One(For(id), sent') /\ (OnUplink(id)' => OnUplink(id))
    <3>1. S!Assigned(ok) \in Message /\ S!Assigned(ok) \notin For(id)
      BY AssignedType, AboutType
    <3>2. QED BY <2>2, <3>1, AsideKeeps, SentAppend
  <2>3. QED BY <2>1, <2>2 DEF S!FetchArrives, S!FetchFails, S!StartEnds, S!StartFails
<1>4. QED BY <1>2, <1>3, SilentCarries

\* Who is killed by a cancellation is not answered as well as told.
LEMMA CancelCarries ==
  ASSUME SlotOK, sent \in Seq(Message), Aside, NEW nm \in Names, S!Cancel(nm),
         NEW id \in Ids, Lone(id)
  PROVE  Carried(id)
<1>1. LoneInSlot(id) /\ Apart(id) /\ One(For(id), sent) /\ One(For(id), queue)
      /\ queue' = queue /\ (InQueue(id)' <=> InQueue(id))
  BY AsideKeeps DEF S!Cancel, S!slot, InQueue
<1>2. CASE UNCHANGED <<sessq, task, sent>>
  <2>1. LoneInSlot(id)' /\ (Waiting(id)' <=> Waiting(id)) /\ (Served(id)' <=> Served(id))
    BY <1>1, <1>2, SlotKept
  <2>2. QED BY <1>1, <1>2, <2>1, SilentCarries DEF OnUplink
<1>3. CASE /\ task' = S!Killed(nm) /\ sessq' = S!Dropped(nm)
           /\ S!Send(IF sessq[nm] = None THEN <<>>
                     ELSE S!Told(sessq[nm].current \o sessq[nm].jobs, "error"))
  <2>1. /\ ~Waits(id, nm)' /\ ~Current(id, nm)' /\ sessq'[nm] = None
        /\ \A o \in Names : o # nm => sessq'[o] = sessq[o]
    BY <1>3 DEF S!Dropped, SlotOK, Waits, Current
  <2>2. \A o \in Names : /\ Waits(id, o)' <=> Waits(id, o) /\ o # nm
                         /\ Current(id, o)' <=> Current(id, o) /\ o # nm
    BY <2>1 DEF Waits, Current
  <2>3. \A t \in Tasks : Serves(id, t)' => Serves(id, t) /\ task[t].session # nm /\ task'[t] = task[t]
    BY <1>3 DEF S!Killed, S!Of, Serves
  <2>4. (Waiting(id)' => Waiting(id)) /\ (Served(id)' => Served(id))
    BY <2>2, <2>3 DEF Waiting, Served
  <2>5. LoneInSlot(id)'
    BY <1>1, <2>1, <2>2, <2>3 DEF LoneInSlot
  <2>6. CASE sessq[nm] = None
    <3>1. sent' = sent
      BY <1>3, <2>6 DEF S!Send
    <3>2. QED BY <1>1, <2>4, <2>5, <3>1, SilentCarries DEF OnUplink
  <2>7. CASE sessq[nm] # None
    <3> DEFINE q == sessq[nm].current \o sessq[nm].jobs
    <3>1. sessq[nm].current \in Seq(Job) /\ sessq[nm].jobs \in Seq(Job) /\ One(For(id), sessq[nm].current)
      BY <2>7, CurrentOne DEF SlotOK, Maybe
    <3>2. ~(Waits(id, nm) /\ Current(id, nm))
      BY <1>1 DEF Apart, Waiting, Served
    <3>3. /\ q \in Seq(Job) /\ One(For(id), q)
          /\ Has(For(id), q) <=> Waits(id, nm) \/ Current(id, nm)
      BY <1>1, <2>7, <3>1, <3>2, ConcatHas DEF Waits, Current, LoneInSlot
    <3>4. S!Send(S!Told(q, "error"))
      BY <1>3, <2>7
    <3> HIDE DEF q
    <3>5. /\ S!Told(q, "error") \in Seq(Message)
          /\ One(For(id), S!Told(q, "error"))
          /\ Has(For(id), S!Told(q, "error")) <=> Waits(id, nm) \/ Current(id, nm)
      BY <3>3, ToldType, ToldHas
    <3>6. Waits(id, nm) \/ Current(id, nm) => ~OnUplink(id) /\ ~InQueue(id)
      BY <1>1 DEF Apart, Waiting, Served
    <3>7. /\ One(For(id), sent')
          /\ OnUplink(id)' <=> OnUplink(id) \/ Waits(id, nm) \/ Current(id, nm)
      BY <1>1, <3>4, <3>5, <3>6, ConcatHas DEF S!Send, OnUplink
    <3>8. Waits(id, nm) => ~Waiting(id)' /\ ~Served(id)'
      <4>1. Waits(id, nm) => ~Served(id)
        BY <1>1 DEF Apart, Waiting
      <4>2. Waits(id, nm) => ~Waiting(id)'
        BY <1>1, <2>2 DEF LoneInSlot, Waiting
      <4>3. QED BY <2>4, <4>1, <4>2
    <3>9. Current(id, nm) => ~Waiting(id)' /\ ~Served(id)'
      <4>1. Current(id, nm) => ~Waiting(id)
        BY <1>1 DEF Apart, Served
      <4>2. Current(id, nm) => \A o \in Names : ~Current(id, o)'
        BY <1>1, <2>2 DEF LoneInSlot
      <4>3. Current(id, nm) => \A t \in Tasks : ~Serves(id, t)'
        BY <1>1, <2>3 DEF LoneInSlot
      <4>4. QED BY <2>4, <4>1, <4>2, <4>3 DEF Served
    <3>10. Waits(id, nm) \/ Current(id, nm) => Somewhere(id)
      BY DEF Somewhere, Waiting, Served
    <3>11. Waits(id, nm) \/ Current(id, nm) => ~OnWire(id) /\ ~InLine(id) /\ ~Running(id)
      BY <1>1 DEF Apart, Waiting, Served
    <3>12. QED BY <1>1, <2>4, <2>5, <3>6, <3>7, <3>8, <3>9, <3>10, <3>11, AsideKeeps
               DEF Carried, Lone, Apart, Somewhere
  <2>8. QED BY <2>6, <2>7
<1>4. QED BY <1>2, <1>3 DEF S!Cancel, S!sessions
-----------------------------------------------------------------------------
(* The coroutines of the sessions. *)

\* A coroutine ends, or its interpreter is up.
LEMMA EndsCarries ==
  ASSUME SlotOK, sent \in Seq(Message), Aside, NEW t \in Tasks, S!Ends(t) \/ S!BootEnds(t),
         NEW id \in Ids, Lone(id)
  PROVE  Carried(id)
<1>1. UNCHANGED <<queue, sessq, sent>> /\ task[t] # None /\ task[t] \in Worked
  BY DEF S!Ends, S!BootEnds, S!Doing, S!slot, SlotOK, Maybe
<1>2. \/ task' = [task EXCEPT ![t] = None]
      \/ task' = [task EXCEPT ![t] = [task[t] EXCEPT !.doing = "running"]]
  BY DEF S!Ends, S!BootEnds
<1>3. ASSUME NEW u \in Tasks, task'[u] # None
      PROVE  /\ task[u] # None /\ task'[u].job = task[u].job
             /\ task'[u].own = task[u].own /\ task'[u].session = task[u].session
  <2>1. CASE u = t
    <3>1. task'[t] = [task[t] EXCEPT !.doing = "running"]
      BY <1>2, <1>3, <2>1 DEF SlotOK
    <3>2. QED BY <1>1, <2>1, <3>1 DEF Worked, Coroutine
  <2>2. CASE u # t
    BY <1>2, <1>3, <2>2 DEF SlotOK
  <2>3. QED BY <2>1, <2>2
<1>4. \A u \in Tasks : Serves(id, u)' => Serves(id, u) /\ task'[u].own = task[u].own
                                                    /\ task'[u].session = task[u].session
  BY <1>3 DEF Serves
<1>5. \A nm \in Names : (Waits(id, nm)' <=> Waits(id, nm)) /\ (Current(id, nm)' <=> Current(id, nm))
  BY <1>1 DEF Waits, Current
<1>6. LoneInSlot(id) /\ One(For(id), sent)
  BY AsideKeeps
<1>7. LoneInSlot(id)'
  BY <1>1, <1>4, <1>5, <1>6 DEF LoneInSlot
<1>8. (Waiting(id)' => Waiting(id)) /\ (Served(id)' => Served(id))
  BY <1>4, <1>5 DEF Waiting, Served
<1>9. QED BY <1>1, <1>6, <1>7, <1>8, SilentCarries DEF OnUplink, InQueue

\* The first job of a session's queue, and what is left without it.
LEMMA FirstHas ==
  ASSUME SlotOK, NEW t \in Tasks, NEW call, S!First(t, call), NEW id \in Ids, LoneInSlot(id), Apart(id)
  PROVE  LET nm == task[t].session
             q == sessq[nm].jobs
         IN /\ Head(q).id = id => Waits(id, nm) /\ Waiting(id) /\ ~Served(id) /\ ~InQueue(id) /\ ~Has(For(id), Tail(q))
            /\ Has(For(id), Tail(q)) => Waits(id, nm)
            /\ One(For(id), Tail(q))
            /\ Head(q) \in For(id) <=> Head(q).id = id
<1> DEFINE nm == task[t].session
           q == sessq[nm].jobs
<1>1. nm \in Names /\ sessq[nm] # None /\ q \in Seq(Job) /\ q # <<>> /\ Head(q) \in Job
  BY FirstType DEF S!First
<1>2. One(For(id), q) /\ (Waits(id, nm) <=> Has(For(id), q))
  BY <1>1 DEF LoneInSlot, Waits
<1>3. Head(q) \in For(id) <=> Head(q).id = id
  BY <1>1, AboutType
<1> HIDE DEF nm, q
<1>4. /\ Has(For(id), q) <=> Has(For(id), Tail(q)) \/ Head(q) \in For(id)
      /\ One(For(id), Tail(q)) /\ ~(Has(For(id), Tail(q)) /\ Head(q) \in For(id))
  BY <1>1, <1>2, TailHas
<1>5. Waits(id, nm) => Waiting(id)
  BY <1>1 DEF Waiting
<1>6. Waiting(id) => ~Served(id) /\ ~InQueue(id)
  BY DEF Apart
<1>7. QED BY <1>2, <1>3, <1>4, <1>5, <1>6 DEF nm, q

LEMMA ResetsCarries ==
  ASSUME SlotOK, sent \in Seq(Message), Aside, NEW t \in Tasks, S!Resets(t),
         NEW id \in Ids, Lone(id)
  PROVE  Carried(id)
<1> DEFINE nm == task[t].session
           job == Head(sessq[nm].jobs)
<1>1. LoneInSlot(id) /\ Apart(id)
  BY AsideKeeps
<1>2. nm \in Names /\ job.id \in Ids
  BY FirstType DEF S!Resets
<1>3. job.id = id => Waits(id, nm) /\ Waiting(id) /\ ~Served(id) /\ ~InQueue(id)
  BY <1>1, FirstHas DEF S!Resets
<1>4. /\ sessq' = S!Dropped(nm) /\ S!Send(<<S!Reply(job.id, "ok")>>) /\ queue' = queue
      /\ task' = [u \in Tasks |-> IF u = t THEN None
                                  ELSE IF u \in S!Of(nm) THEN [task[u] EXCEPT !.own = FALSE]
                                  ELSE task[u]]
  BY DEF S!Resets, S!slot
<1> HIDE DEF nm, job
<1>5. \A o \in Names : sessq'[o] = IF o = nm THEN None ELSE sessq[o]
  BY <1>4 DEF S!Dropped, SlotOK
<1>6. \A o \in Names : /\ Waits(id, o)' <=> Waits(id, o) /\ o # nm
                       /\ Current(id, o)' <=> Current(id, o) /\ o # nm
  BY <1>5 DEF Waits, Current
<1>7. ASSUME NEW u \in Tasks, Serves(id, u)'
      PROVE  Serves(id, u) /\ (task[u].session = nm \/ task'[u] = task[u])
  <2>1. CASE u # t /\ task[u] # None /\ task[u].session = nm /\ task'[u] = [task[u] EXCEPT !.own = FALSE]
    <3>1. task'[u].job = task[u].job
      BY <2>1 DEF SlotOK, Maybe, Worked, Coroutine
    <3>2. QED BY <1>7, <2>1, <3>1 DEF Serves
  <2>2. CASE task'[u] = task[u]
    BY <1>7, <2>2 DEF Serves
  <2>3. QED BY <1>4, <1>7, <2>1, <2>2 DEF S!Of, Serves
<1>8. \A u \in Tasks, o \in Names :
        Serves(id, u)' /\ Current(id, o)' => task'[u].own /\ task'[u].session = o
  BY <1>1, <1>6, <1>7 DEF LoneInSlot
<1>9. LoneInSlot(id)'
  <2>1. One(For(id), queue')
    BY <1>1, <1>4 DEF LoneInSlot
  <2>2. \A o \in Names : sessq'[o] # None => One(For(id), sessq'[o].jobs)
    BY <1>1, <1>5 DEF LoneInSlot
  <2>3. QED BY <1>1, <1>6, <1>7, <1>8, <2>1, <2>2 DEF LoneInSlot
<1>10. /\ Waiting(id)' => Waiting(id)
       /\ Served(id)' => Served(id)
       /\ InQueue(id)' <=> InQueue(id)
  BY <1>4, <1>6, <1>7 DEF Waiting, Served, InQueue
<1>11. job.id = id => ~Waiting(id)'
  BY <1>1, <1>2, <1>3, <1>6 DEF LoneInSlot, Waiting
<1>12. QED BY <1>2, <1>3, <1>4, <1>9, <1>10, <1>11, ReplyCarries

LEMMA TakesCarries ==
  ASSUME SlotOK, sent \in Seq(Message), Aside, NEW t \in Tasks, S!Takes(t),
         NEW id \in Ids, Lone(id)
  PROVE  Carried(id)
<1> DEFINE nm == task[t].session
           job == Head(sessq[nm].jobs)
           rest == Tail(sessq[nm].jobs)
<1>1. LoneInSlot(id) /\ Apart(id) /\ One(For(id), sent)
  BY AsideKeeps
<1>2. nm \in Names /\ job.id \in Ids /\ job \in Job
  BY FirstType DEF S!Takes
<1>3. /\ job.id = id => Waits(id, nm) /\ Waiting(id) /\ ~Served(id) /\ ~InQueue(id) /\ ~Has(For(id), rest)
      /\ Has(For(id), rest) => Waits(id, nm)
      /\ One(For(id), rest)
      /\ job \in For(id) <=> job.id = id
  BY <1>1, FirstHas DEF S!Takes
<1>4. queue' = queue /\ rest \in Seq(Job)
  <2>1. sessq[nm].jobs \in Seq(Job) /\ sessq[nm].jobs # <<>>
    BY FirstType DEF S!Takes
  <2>2. QED BY <2>1 DEF S!Takes, S!slot
<1>5. ASSUME NEW c \in {<<>>, <<job>>},
             sessq' = [sessq EXCEPT ![nm] = [jobs |-> rest, current |-> c]]
      PROVE  /\ \A o \in Names : Waits(id, o)' <=> Waits(id, o) /\ (o = nm => Has(For(id), rest))
             /\ \A o \in Names : Current(id, o)' <=> IF o = nm THEN Has(For(id), c) ELSE Current(id, o)
             /\ \A o \in Names : sessq'[o] # None => One(For(id), sessq'[o].jobs)
  <2> HIDE DEF job, rest, nm
  <2>1. [jobs |-> rest, current |-> c] # None
    <3>1. [jobs |-> rest, current |-> c] \in Queue
      BY <1>2, <1>4 DEF Queue
    <3>2. QED BY <3>1, RecordsAssumption
  <2>2. sessq'[nm] = [jobs |-> rest, current |-> c] /\ \A o \in Names : o # nm => sessq'[o] = sessq[o]
    BY <1>2, <1>5 DEF SlotOK
  <2>3. \A o \in Names : o = nm => (Waits(id, o)' <=> Has(For(id), rest))
    BY <2>1, <2>2 DEF Waits
  <2>4. \A o \in Names : o # nm => (Waits(id, o)' <=> Waits(id, o)) /\ (Current(id, o)' <=> Current(id, o))
    BY <2>2 DEF Waits, Current
  <2>5. \A o \in Names : o = nm => (Current(id, o)' <=> Has(For(id), c))
    BY <2>1, <2>2 DEF Current
  <2>6. \A o \in Names : sessq'[o] # None => One(For(id), sessq'[o].jobs)
    BY <1>1, <1>3, <2>2 DEF LoneInSlot
  <2>7. QED BY <1>3, <2>3, <2>4, <2>5, <2>6
<1>6. /\ ~Has(For(id), <<>>)
      /\ Has(For(id), <<job>>) <=> job.id = id
  BY <1>3, NothingHas DEF Has
<1>7. CASE /\ sessq' = [sessq EXCEPT ![nm] = [jobs |-> rest, current |-> <<>>]]
           /\ S!Send(<<S!Reply(job.id, "error")>>)
           /\ UNCHANGED task
  <2>1. \A o \in Names : /\ Waits(id, o)' <=> Waits(id, o) /\ (o = nm => Has(For(id), rest))
                         /\ Current(id, o)' => Current(id, o)
                         /\ sessq'[o] # None => One(For(id), sessq'[o].jobs)
    BY <1>5, <1>6, <1>7
  <2> HIDE DEF job, rest, nm
  <2>2. \A u \in Tasks : Serves(id, u)' <=> Serves(id, u)
    BY <1>7 DEF Serves
  <2>3. LoneInSlot(id)'
    BY <1>1, <1>4, <1>7, <2>1, <2>2 DEF LoneInSlot
  <2>4. /\ Waiting(id)' => Waiting(id)
        /\ Served(id)' => Served(id)
        /\ InQueue(id)' <=> InQueue(id)
    BY <1>4, <2>1, <2>2 DEF Waiting, Served, InQueue
  <2>5. job.id = id => ~Waiting(id)'
    BY <1>1, <1>2, <1>3, <2>1 DEF LoneInSlot, Waiting
  <2>6. QED BY <1>2, <1>3, <1>7, <2>3, <2>4, <2>5, ReplyCarries
<1>8. CASE /\ sessq' = [sessq EXCEPT ![nm] = [jobs |-> rest, current |-> <<job>>]]
           /\ task' = [task EXCEPT ![t] =
                         [session |-> nm, job |-> job.id, own |-> TRUE,
                          doing |-> IF S!Up(nm) THEN "running" ELSE "booting"]]
           /\ UNCHANGED sent
  <2>1. /\ \A o \in Names : Waits(id, o)' <=> Waits(id, o) /\ (o = nm => Has(For(id), rest))
        /\ \A o \in Names : Current(id, o)' <=> IF o = nm THEN job.id = id ELSE Current(id, o)
        /\ \A o \in Names : sessq'[o] # None => One(For(id), sessq'[o].jobs)
    BY <1>5, <1>6, <1>8
  <2> DEFINE new == [session |-> nm, job |-> job.id, own |-> TRUE,
                     doing |-> IF S!Up(nm) THEN "running" ELSE "booting"]
  <2>2. new.job = job.id /\ new.own /\ new.session = nm /\ new # None
    <3>1. new \in Coroutine
      BY <1>2 DEF Coroutine, Maybe
    <3>2. QED BY <3>1, RecordsAssumption
  <2>3. task' = [task EXCEPT ![t] = new]
    BY <1>8
  <2> HIDE DEF job, rest, nm, new
  <2>4. task'[t] = new /\ \A u \in Tasks : u # t => task'[u] = task[u]
    BY <2>3 DEF SlotOK
  <2>5. (Serves(id, t)' <=> job.id = id) /\ \A u \in Tasks : u # t => (Serves(id, u)' <=> Serves(id, u))
    BY <2>2, <2>4 DEF Serves
  <2>6. job.id = id => /\ \A u \in Tasks : Serves(id, u)' <=> u = t
                       /\ \A o \in Names : Current(id, o)' <=> o = nm
                       /\ \A o \in Names : ~Waits(id, o)'
    <3>1. job.id = id => /\ \A u \in Tasks : ~Serves(id, u)
                         /\ \A o \in Names : ~Current(id, o)
                         /\ \A o \in Names : Waits(id, o) => o = nm
      BY <1>1, <1>2, <1>3 DEF LoneInSlot, Served
    <3>2. QED BY <1>3, <2>1, <2>5, <3>1
  <2>7. job.id # id => /\ \A u \in Tasks : Serves(id, u)' => Serves(id, u) /\ task'[u] = task[u]
                       /\ \A o \in Names : Current(id, o)' => Current(id, o)
                       /\ \A o \in Names : Waits(id, o)' => Waits(id, o)
    BY <2>1, <2>4, <2>5
  <2>8. One(For(id), queue') /\ (InQueue(id)' <=> InQueue(id)) /\ (OnUplink(id)' <=> OnUplink(id))
        /\ One(For(id), sent')
    BY <1>1, <1>4, <1>8 DEF LoneInSlot, InQueue, OnUplink
  <2>9. CASE job.id = id
    <3>1. LoneInSlot(id)'
      BY <2>1, <2>2, <2>4, <2>6, <2>8, <2>9 DEF LoneInSlot
    <3>2. ~Waiting(id)'
      BY <2>6, <2>9 DEF Waiting
    <3>3. QED BY <1>1, <1>3, <2>8, <2>9, <3>1, <3>2, AsideKeeps DEF Carried, Lone, Apart, Somewhere
  <2>10. CASE job.id # id
    <3>1. LoneInSlot(id)'
      BY <1>1, <2>1, <2>7, <2>8, <2>10 DEF LoneInSlot
    <3>2. (Waiting(id)' => Waiting(id)) /\ (Served(id)' => Served(id))
      BY <2>7, <2>10 DEF Waiting, Served
    <3>3. QED BY <2>8, <3>1, <3>2, SilentCarries
  <2>11. QED BY <2>9, <2>10
<1>9. QED BY <1>7, <1>8 DEF S!Takes

LEMMA AnswersCarry ==
  ASSUME SlotOK, Owned, sent \in Seq(Message), Aside, NEW t \in Tasks, S!RunEnds(t) \/ S!BootFails(t),
         NEW id \in Ids, Lone(id)
  PROVE  Carried(id)
<1> DEFINE job == task[t].job
           nm == task[t].session
<1>1. LoneInSlot(id) /\ Apart(id)
  BY AsideKeeps
<1>2. PICK a \in {"ok", "error"} : S!Answers(t, a)
  BY DEF S!RunEnds, S!BootFails
<1>3. task[t] # None /\ task[t] \in Worked /\ task[t].doing # "waiting" /\ job \in Ids /\ nm \in Names
  BY DEF S!RunEnds, S!BootFails, S!Doing, SlotOK, Maybe, Worked, Coroutine
<1>4. /\ S!Send(<<S!Reply(job, a)>>) /\ queue' = queue
      /\ task' = [task EXCEPT ![t] = [task[t] EXCEPT !.doing = "waiting", !.job = None]]
      /\ task[t].own => sessq' = [sessq EXCEPT ![nm] = [sessq[nm] EXCEPT !.current = <<>>]]
      /\ ~task[t].own => sessq' = sessq
  BY <1>2 DEF S!Answers, S!slot
<1>5. Serves(id, t) <=> job = id
  BY <1>3 DEF Serves
<1>6. ~Serves(id, t)' /\ \A u \in Tasks : u # t => task'[u] = task[u] /\ (Serves(id, u)' <=> Serves(id, u))
  <2>1. task'[t] = [task[t] EXCEPT !.doing = "waiting", !.job = None]
    BY <1>4 DEF SlotOK
  <2>2. task'[t].job = None
    BY <1>3, <2>1 DEF Worked, Coroutine
  <2>3. \A u \in Tasks : u # t => task'[u] = task[u]
    BY <1>4 DEF SlotOK
  <2>4. QED BY <2>2, <2>3, NoneAssumption DEF Serves
<1> HIDE DEF job, nm
<1>7. /\ \A o \in Names : /\ Waits(id, o)' <=> Waits(id, o)
                          /\ Current(id, o)' => Current(id, o)
                          /\ sessq'[o] # None => One(For(id), sessq'[o].jobs)
      /\ task[t].own => \A o \in Names : o = nm => ~Current(id, o)'
  <2>1. CASE ~task[t].own
    BY <1>1, <1>4, <2>1 DEF Waits, Current, LoneInSlot
  <2>2. CASE task[t].own
    <3> DEFINE q == [sessq[nm] EXCEPT !.current = <<>>]
    <3>1. sessq[nm] \in Queue /\ sessq[nm] # None
      BY <1>3, <2>2 DEF SlotOK, Owned, Maybe, nm
    <3>2. q \in Queue /\ q.jobs = sessq[nm].jobs /\ q.current = <<>>
      BY <3>1 DEF Queue
    <3>3. q # None
      BY <3>2, RecordsAssumption
    <3>4. sessq' = [sessq EXCEPT ![nm] = q]
      BY <1>4, <2>2
    <3> HIDE DEF q
    <3>5. sessq'[nm] = q /\ \A o \in Names : o # nm => sessq'[o] = sessq[o]
      BY <1>3, <3>4 DEF SlotOK
    <3>6. \A o \in Names : o = nm => (Waits(id, o)' <=> Waits(id, o)) /\ ~Current(id, o)'
      BY <3>1, <3>2, <3>3, <3>5, NothingHas DEF Waits, Current
    <3>7. \A o \in Names : o # nm => (Waits(id, o)' <=> Waits(id, o)) /\ (Current(id, o)' <=> Current(id, o))
      BY <3>5 DEF Waits, Current
    <3>8. \A o \in Names : sessq'[o] # None => One(For(id), sessq'[o].jobs)
      BY <1>1, <3>1, <3>2, <3>5 DEF LoneInSlot
    <3>9. QED BY <3>6, <3>7, <3>8
  <2>3. QED BY <2>1, <2>2
<1>8. LoneInSlot(id)'
  <2>1. One(For(id), queue')
    BY <1>1, <1>4 DEF LoneInSlot
  <2>2. QED BY <1>1, <1>6, <1>7, <2>1 DEF LoneInSlot
<1>9. /\ Waiting(id)' => Waiting(id)
      /\ Served(id)' => Served(id)
      /\ InQueue(id)' <=> InQueue(id)
  BY <1>4, <1>6, <1>7 DEF Waiting, Served, InQueue
<1>10. ASSUME job = id
       PROVE  Served(id) /\ ~InQueue(id)' /\ ~Waiting(id)' /\ ~Served(id)'
  <2>1. Served(id)
    BY <1>5, <1>10 DEF Served
  <2>2. ~InQueue(id) /\ ~Waiting(id)
    BY <1>1, <2>1 DEF Apart
  <2>3. \A u \in Tasks : ~Serves(id, u)'
    BY <1>1, <1>5, <1>6, <1>10 DEF LoneInSlot
  <2>4. \A o \in Names : ~Current(id, o)'
    <3>1. \A o \in Names : Current(id, o) => task[t].own /\ o = nm
      BY <1>1, <1>5, <1>10 DEF LoneInSlot, nm
    <3>2. QED BY <1>7, <3>1
  <2>5. QED BY <1>9, <2>1, <2>2, <2>3, <2>4 DEF Served
<1>11. QED BY <1>3, <1>4, <1>8, <1>9, <1>10, ReplyCarries
-----------------------------------------------------------------------------
(* The reactors. *)

\* What leaves the session slot and the link to the worker alone.
LEMMA SlotAside ==
  ASSUME UNCHANGED <<pool, wire>>, NEW id \in Ids, Lone(id)
  PROVE  /\ LoneInSlot(id)' /\ (Waiting(id)' <=> Waiting(id)) /\ (Served(id)' <=> Served(id))
         /\ (InQueue(id)' <=> InQueue(id)) /\ (OnWire(id)' <=> OnWire(id))
         /\ One(For(id), sent') => LoneOnLinks(id)'
         /\ LoneOnLinks(id) /\ LoneAtReactors(id) /\ LoneInSlot(id) /\ Apart(id)
         /\ One(For(id), sent)
BY SlotKept DEF pool, Lone, LoneInSlot, LoneOnLinks, InQueue, OnWire

\* Neither do the reactors take or end an invocation.
LEMMA RunsKept ==
  ASSUME UNCHANGED jobs,
         \A n \in Reactors : IF run[n] = None THEN run'[n] = None
                            ELSE run'[n] # None /\ run'[n].id = run[n].id,
         NEW id \in Ids, LoneAtReactors(id)
  PROVE  LoneAtReactors(id)' /\ (InLine(id)' <=> InLine(id)) /\ (Running(id)' <=> Running(id))
<1>1. \A n \in Reactors : (Runs(id, n)' <=> Runs(id, n)) /\ (Lined(id, n)' <=> Lined(id, n))
  BY DEF Runs, Lined
<1>2. QED BY <1>1 DEF LoneAtReactors, InLine, Running

LEMMA StartCarries ==
  ASSUME ReactorsOK, NEW n \in Reactors, Start(n), NEW id \in Ids, Lone(id)
  PROVE  Carried(id)
<1> DEFINE X == {id}
           head == Head(jobs[n])
           new == [id |-> head, mesh |-> None, called |-> FALSE, late |-> FALSE, woken |-> FALSE]
<1>1. UNCHANGED <<pool, wire, sent>> /\ run[n] = None /\ jobs[n] # <<>> /\ jobs[n] \in Seq(Ids)
      /\ head \in Ids
  BY DEF Start, Local, gateway, ReactorsOK
<1>2. /\ LoneInSlot(id)' /\ (Waiting(id)' <=> Waiting(id)) /\ (Served(id)' <=> Served(id))
      /\ (InQueue(id)' <=> InQueue(id)) /\ (OnWire(id)' <=> OnWire(id))
      /\ LoneOnLinks(id)' /\ LoneAtReactors(id) /\ Apart(id) /\ (OnUplink(id)' <=> OnUplink(id))
  BY <1>1, SlotAside DEF OnUplink
<1>3. new # None /\ new.id = head
  <2>1. new \in Invocation
    BY <1>1 DEF Invocation, Maybe
  <2>2. QED BY <2>1, RecordsAssumption
<1>4. run' = [run EXCEPT ![n] = new] /\ jobs' = [jobs EXCEPT ![n] = Tail(jobs[n])]
  BY DEF Start
<1>5. head \in X <=> head = id
  OBVIOUS
<1>6. One(X, jobs[n])
  BY <1>2 DEF LoneAtReactors
<1> HIDE DEF X, head, new
<1>7. jobs'[n] = Tail(jobs[n]) /\ \A o \in Reactors : o # n => jobs'[o] = jobs[o]
  BY <1>4 DEF ReactorsOK
<1>8. run'[n] = new /\ \A o \in Reactors : o # n => run'[o] = run[o]
  BY <1>4 DEF ReactorsOK
<1>9. /\ Has(X, jobs[n]) <=> Has(X, Tail(jobs[n])) \/ head = id
      /\ One(X, Tail(jobs[n])) /\ ~(Has(X, Tail(jobs[n])) /\ head = id)
  BY <1>1, <1>5, <1>6, TailHas DEF head
<1>10. \A o \in Reactors : Lined(id, o)' => Lined(id, o) /\ (o = n => head # id)
  BY <1>7, <1>9 DEF Lined, X
<1>11. head = id => Lined(id, n) /\ InLine(id)
  BY <1>9 DEF Lined, InLine, X
<1>12. /\ \A o \in Reactors : o # n => (Runs(id, o)' <=> Runs(id, o))
       /\ Runs(id, n)' <=> head = id
  BY <1>3, <1>8 DEF Runs
<1>13. head = id => /\ ~InLine(id)'
                    /\ \A o \in Reactors : ~Runs(id, o)
  <2>1. head = id => \A o \in Reactors : Lined(id, o) => o = n
    BY <1>2, <1>11 DEF LoneAtReactors
  <2>2. head = id => ~InLine(id)'
    BY <1>10, <2>1 DEF InLine
  <2>3. QED BY <1>2, <1>11, <2>2 DEF Apart, Running
<1>14. LoneAtReactors(id)'
  <2>1. \A o \in Reactors : One({id}, jobs'[o])
    BY <1>2, <1>7, <1>9 DEF LoneAtReactors, X
  <2>2. \A o, p \in Reactors : Lined(id, o)' /\ Lined(id, p)' => o = p
    BY <1>2, <1>10 DEF LoneAtReactors
  <2>3. \A o, p \in Reactors : Runs(id, o)' /\ Runs(id, p)' => o = p
    BY <1>2, <1>12, <1>13 DEF LoneAtReactors
  <2>4. QED BY <2>1, <2>2, <2>3 DEF LoneAtReactors
<1>15. /\ InLine(id)' => InLine(id)
       /\ Running(id)' => Running(id) \/ head = id
  BY <1>10, <1>12 DEF InLine, Running
<1>16. QED BY <1>2, <1>11, <1>13, <1>14, <1>15 DEF Carried, Lone, Apart, Somewhere

LEMMA FinishCarries ==
  ASSUME ReactorsOK, sent \in Seq(Message), NEW n \in Reactors, Finish(n), NEW id \in Ids, Lone(id)
  PROVE  Carried(id)
<1> DEFINE done == run[n].id
<1>1. /\ UNCHANGED <<pool, wire, jobs>> /\ run[n] # None /\ S!Send(<<S!Reply(done, "ok")>>)
      /\ run' = [run EXCEPT ![n] = None]
  BY DEF Finish, Local, gateway
<1>2. done \in Ids
  BY <1>1 DEF ReactorsOK, Maybe, Invocation
<1> HIDE DEF done
<1>3. /\ LoneInSlot(id)' /\ (Waiting(id)' <=> Waiting(id)) /\ (Served(id)' <=> Served(id))
      /\ (InQueue(id)' <=> InQueue(id)) /\ (OnWire(id)' <=> OnWire(id))
      /\ One(For(id), sent') => LoneOnLinks(id)'
      /\ LoneAtReactors(id) /\ Apart(id) /\ One(For(id), sent)
  BY <1>1, SlotAside
<1>4. S!Reply(done, "ok") \in Message /\ (S!Reply(done, "ok") \in For(id) <=> done = id)
  BY <1>2, ReplyType, AboutType
<1>5. /\ OnUplink(id)' <=> OnUplink(id) \/ done = id
      /\ ~(OnUplink(id) /\ done = id) => One(For(id), sent')
  BY <1>1, <1>3, <1>4, SentAppend
<1>6. done = id => Runs(id, n)
  BY <1>1 DEF Runs, done
<1>7. Runs(id, n) => Running(id)
  BY DEF Running
<1>8. \A o \in Reactors : Runs(id, o)' <=> Runs(id, o) /\ o # n
  BY <1>1 DEF Runs, ReactorsOK
<1>9. \A o \in Reactors : Lined(id, o)' <=> Lined(id, o)
  BY <1>1 DEF Lined
<1>10. LoneAtReactors(id)'
  BY <1>1, <1>3, <1>8, <1>9 DEF LoneAtReactors
<1>11. /\ InLine(id)' <=> InLine(id)
       /\ Running(id)' => Running(id)
  BY <1>8, <1>9 DEF InLine, Running
<1>12. done = id => ~Running(id)'
  BY <1>3, <1>6, <1>8 DEF LoneAtReactors, Running
<1>13. One(For(id), sent')
  BY <1>3, <1>5, <1>6, <1>7 DEF Apart
<1>14. QED BY <1>3, <1>5, <1>6, <1>7, <1>10, <1>11, <1>12, <1>13 DEF Carried, Lone, Apart, Somewhere

\* Time passes in an invocation.
LEMMA WaitsCarry ==
  ASSUME ReactorsOK, UNCHANGED sent,
         \/ \E n \in Reactors : Deadline(n) \/ Wake(n)
         \/ /\ UNCHANGED <<pool, wire>> /\ run' = Woken /\ UNCHANGED jobs,
         NEW id \in Ids, Lone(id)
  PROVE  Carried(id)
<1>1. UNCHANGED <<pool, wire, jobs>>
  BY DEF Deadline, Wake, Local, gateway
<1>2. ASSUME NEW r \in Invocation
      PROVE  /\ [r EXCEPT !.late = TRUE] # None /\ [r EXCEPT !.late = TRUE].id = r.id
             /\ [r EXCEPT !.woken = TRUE] # None /\ [r EXCEPT !.woken = TRUE].id = r.id
             /\ \A m \in Maybe(Mesh) : /\ [r EXCEPT !.mesh = m, !.woken = FALSE] # None
                                     /\ [r EXCEPT !.mesh = m, !.woken = FALSE].id = r.id
  <2>1. /\ [r EXCEPT !.late = TRUE] \in Invocation /\ [r EXCEPT !.woken = TRUE] \in Invocation
        /\ \A m \in Maybe(Mesh) : [r EXCEPT !.mesh = m, !.woken = FALSE] \in Invocation
    BY DEF Invocation
  <2>2. QED BY <2>1, RecordsAssumption DEF Invocation
<1>3. ASSUME NEW n \in Reactors
      PROVE  IF run[n] = None THEN run'[n] = None ELSE run'[n] # None /\ run'[n].id = run[n].id
  <2>1. run[n] # None => run[n] \in Invocation /\ run[n].mesh \in Maybe(Mesh)
    BY DEF ReactorsOK, Maybe, Invocation
  <2>2. ASSUME NEW o \in Reactors, Deadline(o)
        PROVE  IF run[n] = None THEN run'[n] = None ELSE run'[n] # None /\ run'[n].id = run[n].id
    <3>1. run[o] # None /\ run' = [run EXCEPT ![o] = [run[o] EXCEPT !.late = TRUE]]
      BY <2>2 DEF Deadline, Asking
    <3>2. QED BY <1>2, <2>1, <3>1 DEF ReactorsOK
  <2>3. ASSUME NEW o \in Reactors, Wake(o)
        PROVE  IF run[n] = None THEN run'[n] = None ELSE run'[n] # None /\ run'[n].id = run[n].id
    <3>1. run[o] # None
          /\ \E m \in {None, run[o].mesh} : run' = [run EXCEPT ![o] = [run[o] EXCEPT !.mesh = m, !.woken = FALSE]]
      BY <2>3 DEF Wake, Asking
    <3>2. PICK m \in Maybe(Mesh) : run' = [run EXCEPT ![o] = [run[o] EXCEPT !.mesh = m, !.woken = FALSE]]
      BY <3>1 DEF ReactorsOK, Maybe, Invocation
    <3> DEFINE new == [run[o] EXCEPT !.mesh = m, !.woken = FALSE]
    <3>3. new # None /\ new.id = run[o].id
      <4>1. run[o] \in Invocation
        BY <3>1 DEF ReactorsOK, Maybe
      <4>2. QED BY <1>2, <4>1
    <3>4. run' = [run EXCEPT ![o] = new]
      BY <3>2
    <3> HIDE DEF new
    <3>5. QED BY <3>1, <3>3, <3>4 DEF ReactorsOK
  <2>4. CASE run' = Woken
    BY <1>2, <2>1, <2>4 DEF Woken, Asking
  <2>5. QED BY <2>2, <2>3, <2>4
<1>4. /\ LoneInSlot(id)' /\ (Waiting(id)' <=> Waiting(id)) /\ (Served(id)' <=> Served(id))
      /\ (InQueue(id)' <=> InQueue(id)) /\ (OnWire(id)' <=> OnWire(id))
      /\ LoneOnLinks(id)' /\ LoneAtReactors(id) /\ Apart(id)
      /\ (OnUplink(id)' <=> OnUplink(id))
  BY <1>1, SlotAside DEF OnUplink
<1>5. LoneAtReactors(id)' /\ (InLine(id)' <=> InLine(id)) /\ (Running(id)' <=> Running(id))
  BY <1>1, <1>3, <1>4, RunsKept
<1>6. QED BY <1>4, <1>5 DEF Carried, Lone, Apart, Somewhere
-----------------------------------------------------------------------------
(* The links, seen from the gateway. *)

\* Commands that are for no request may be added to the link to the worker.
WireKept ==
  \A k \in DOMAIN wire'[Worker] :
    \/ k \in DOMAIN wire[Worker] /\ wire'[Worker][k] = wire[Worker][k]
    \/ wire'[Worker][k].type # "invoke"

LEMMA KeptHas ==
  ASSUME WireKept, Ordered', NEW id \in Ids, One(For(id), wire[Worker])
  PROVE  One(For(id), wire'[Worker]) /\ (OnWire(id)' => OnWire(id))
<1>1. ASSUME NEW k \in DOMAIN wire'[Worker], wire'[Worker][k] \in For(id)
      PROVE  k \in DOMAIN wire[Worker] /\ wire[Worker][k] \in For(id)
  <2>1. wire'[Worker][k] \in Order
    BY DEF Ordered
  <2>2. wire'[Worker][k].type = "invoke"
    BY <1>1, <2>1, AboutType
  <2>3. QED BY <1>1, <2>2 DEF WireKept
<1>2. QED BY <1>1 DEF One, OnWire, Has

LEMMA ReconcileKeeps ==
  ASSUME GP!TypeOK, NEW reg \in GP!Registry, NEW plc \in GP!Plan, NEW vw \in GP!View, NEW cool,
         GP!Reconcile(reg, plc, vw, cool), wire'[Worker] \in Seq(GP!Command)
  PROVE  WireKept
<1>1. ASSUME NEW k \in DOMAIN wire'[Worker]
      PROVE  \/ k \in DOMAIN wire[Worker] /\ wire'[Worker][k] = wire[Worker][k]
             \/ wire'[Worker][k].type # "invoke"
  <2>1. \/ k <= Len(wire[Worker]) /\ wire'[Worker][k] = wire[Worker][k]
        \/ wire'[Worker][k].type \in {"assign", "drain"}
    BY GatewayAssumptions, GP!ReconcileAdds
  <2>2. wire[Worker] \in Seq(GP!Command) /\ k \in 1..Len(wire'[Worker])
    BY DEF GP!TypeOK
  <2>3. QED BY <2>1, <2>2
<1>2. QED BY <1>1 DEF WireKept

\* What the gateway does but relaying a request to the worker.
PlanActs ==
  \/ GP!ReconcileTick
  \/ \E r \in TrueReport : GP!HandleHeartbeat(Worker, r)
  \/ GP!HandleAssignOk(Worker, Pool) \/ GP!HandleAssignFailed(Worker, Pool)
  \/ GP!HandleDeploy(Pool, Spec1, FALSE) \/ GP!HandleRemove(Pool)
  \/ \E id \in Ids, a \in {"ok", "error"} : GP!HandleInvokeReply(id, a)
  \/ \E id \in Ids : GP!InvokeOverdue(id) \/ GP!TakeReply(id)
  \/ GP!Reboot
  \/ UNCHANGED wire

LEMMA PlanActsKeep ==
  ASSUME Inv, GP!TypeOK', PlanActs
  PROVE  WireKept
<1>1. /\ GP!TypeOK /\ placements \in GP!Plan /\ view \in GP!View /\ registry \in GP!Registry
      /\ wire'[Worker] \in Seq(GP!Command) /\ wire[Worker] \in Seq(GP!Command)
  BY DEF Inv, GP!TypeOK, GP!Plan, GP!View
<1>2. CASE UNCHANGED wire
  BY <1>2 DEF WireKept
<1>3. CASE GP!ReconcileTick
  BY <1>1, <1>3, ReconcileKeeps DEF GP!ReconcileTick
<1>4. CASE GP!HandleAssignFailed(Worker, Pool)
  <2> DEFINE mine == placements[Pool] # None /\ placements[Pool].worker = Worker
             plc == IF mine THEN [placements EXCEPT ![Pool] = None] ELSE placements
             vw == IF mine THEN [view EXCEPT ![Worker][placements[Pool].slot] = None] ELSE view
             cool == cooldown \cup {<<Pool, Worker>>}
  <2>1. GP!Reconcile(registry, plc, vw, cool)
    BY <1>4 DEF GP!HandleAssignFailed
  <2>2. plc \in GP!Plan
    BY <1>1 DEF GP!Plan
  <2>3. vw \in GP!View
    BY <1>1 DEF GP!View
  <2> HIDE DEF plc, vw, cool
  <2>4. QED BY <1>1, <2>1, <2>2, <2>3, ReconcileKeeps
<1>5. CASE GP!HandleDeploy(Pool, Spec1, FALSE)
  <2>1. [registry EXCEPT ![Pool] = Spec1] \in GP!Registry
    BY <1>1 DEF GP!Registry
  <2>2. GP!Reconcile([registry EXCEPT ![Pool] = Spec1], placements, view, cooldown)
    BY <1>5 DEF GP!HandleDeploy
  <2>3. QED BY <1>1, <2>1, <2>2, ReconcileKeeps
<1>6. CASE GP!HandleRemove(Pool)
  <2> DEFINE locs == {l \in {Worker} \X Workloads : \E n \in {Pool} : GP!At(placements[n], l[1], l[2])}
             T == {t \in Workloads : <<Worker, t>> \in locs}
             D == {GP!DrainOf(s) : s \in T}
             q == GP!InSomeOrder(D)
  <2>1. wire'[Worker] = wire[Worker] \o q
    BY <1>6 DEF GP!HandleRemove, GP!Undeploy
  <2>2. q \in Seq(D)
    BY GatewayAssumptions, GP!DrainsType
  <2>3. \A d \in D : d.type # "invoke"
    <3>1. \A s \in Workloads : GP!DrainOf(s).type # "invoke"
      BY DEF GP!DrainOf
    <3> HIDE DEF locs
    <3>2. QED BY <3>1
  <2> HIDE DEF D, q
  <2>4. ASSUME NEW k \in DOMAIN (wire[Worker] \o q)
        PROVE  \/ k \in DOMAIN wire[Worker] /\ (wire[Worker] \o q)[k] = wire[Worker][k]
               \/ (wire[Worker] \o q)[k].type # "invoke"
    <3>1. CASE k <= Len(wire[Worker])
      BY <1>1, <2>2, <3>1
    <3>2. CASE k > Len(wire[Worker])
      <4>1. (wire[Worker] \o q)[k] \in D
        BY <1>1, <2>2, <3>2
      <4>2. QED BY <2>3, <4>1
    <3>3. QED BY <1>1, <2>2, <3>1, <3>2
  <2>5. QED BY <2>1, <2>4 DEF WireKept
<1>7. CASE \/ \E r \in TrueReport : GP!HandleHeartbeat(Worker, r)
           \/ GP!HandleAssignOk(Worker, Pool)
           \/ \E id \in Ids, a \in {"ok", "error"} : GP!HandleInvokeReply(id, a)
           \/ \E id \in Ids : GP!InvokeOverdue(id) \/ GP!TakeReply(id)
           \/ GP!Reboot
  BY <1>2, <1>7 DEF GP!HandleHeartbeat, GP!HandleAssignOk, GP!HandleInvokeReply,
                    GP!InvokeOverdue, GP!TakeReply, GP!Reboot
<1>8. QED BY <1>2, <1>3, <1>4, <1>5, <1>6, <1>7 DEF PlanActs

\* A request that is relayed is on the link; one that is refused is nowhere.
LEMMA InvokeHas ==
  ASSUME GP!TypeOK, NEW i \in Ids, NEW n \in Workloads, NEW c \in Payloads, GP!HandleInvoke(i, n, c),
         NEW id \in Ids, One(For(id), wire[Worker])
  PROVE  /\ OnWire(id)' => OnWire(id) \/ i = id
         /\ ~(OnWire(id) /\ i = id) => One(For(id), wire'[Worker])
<1> DEFINE m == [type |-> "invoke", id |-> i, name |-> n, call |-> c]
<1>1. CASE wire' = wire
  BY <1>1 DEF OnWire
<1>2. CASE placements[n] # None /\ wire' = [wire EXCEPT ![placements[n].worker] = Append(@, m)]
  <2>1. placements[n].worker = Worker
    BY <1>2 DEF GP!TypeOK, GP!Placement
  <2>2. m \in GP!Command
    BY DEF GP!Command
  <2>3. m \in For(id) <=> i = id
    <3>1. m \in Order
      BY DEF Order
    <3>2. QED BY <3>1 DEF For
  <2> HIDE DEF m
  <2>4. wire[Worker] \in Seq(GP!Command) /\ wire'[Worker] = Append(wire[Worker], m)
    BY <1>2, <2>1 DEF GP!TypeOK
  <2>5. QED BY <2>2, <2>3, <2>4, AppendHas DEF OnWire
<1>3. QED BY <1>1, <1>2 DEF GP!HandleInvoke

\* What leaves the worker alone, but for what it sends.
LEMMA WorkerAside ==
  ASSUME UNCHANGED <<pool, jobs, run>>, NEW id \in Ids, Lone(id)
  PROVE  /\ LoneInSlot(id)' /\ (Waiting(id)' <=> Waiting(id)) /\ (Served(id)' <=> Served(id))
         /\ InQueue(id)' <=> InQueue(id)
         /\ LoneAtReactors(id)' /\ (InLine(id)' <=> InLine(id)) /\ (Running(id)' <=> Running(id))
         /\ LoneOnLinks(id) /\ Apart(id) /\ One(For(id), sent) /\ One(For(id), wire[Worker])
BY SlotKept, ReactorsKept DEF pool, Lone, LoneInSlot, LoneOnLinks, InQueue

\* Nothing is said for the request, or what is said of it is dropped.
LEMMA LinksCarry ==
  ASSUME UNCHANGED <<pool, jobs, run>>, NEW id \in Ids, Lone(id),
         One(For(id), wire'[Worker]), One(For(id), sent'),
         OnWire(id)' => OnWire(id), OnUplink(id)' => OnUplink(id)
  PROVE  Carried(id)
<1>1. LoneOnLinks(id)'
  BY DEF LoneOnLinks
<1>2. QED BY <1>1, WorkerAside DEF Carried, Lone, Apart, Somewhere

LEMMA PlanCarries ==
  ASSUME Inv, GP!TypeOK', Ordered', PlanActs, UNCHANGED <<pool, jobs, run>>,
         sent' = sent \/ (sent # <<>> /\ sent' = Tail(sent)),
         NEW id \in Ids, Lone(id)
  PROVE  Carried(id)
<1>1. One(For(id), sent) /\ One(For(id), wire[Worker])
  BY WorkerAside
<1>2. One(For(id), wire'[Worker]) /\ (OnWire(id)' => OnWire(id))
  BY <1>1, PlanActsKeep, KeptHas
<1>3. One(For(id), sent') /\ (OnUplink(id)' => OnUplink(id))
  <2>1. CASE sent' = sent
    BY <1>1, <2>1 DEF OnUplink
  <2>2. CASE sent # <<>> /\ sent' = Tail(sent)
    BY <1>1, <2>2, SentTail DEF Inv
  <2>3. QED BY <2>1, <2>2
<1>4. QED BY <1>2, <1>3, LinksCarry

\* A request of a guest goes from the one link to the other.
LEMMA HearsCarries ==
  ASSUME Inv, GP!TypeOK', Ordered', GatewayHears, NEW id \in Ids, Lone(id)
  PROVE  Carried(id)
<1> DEFINE m == Head(sent)
           call == [session |-> Main, call |-> "run"]
<1>1. /\ UNCHANGED <<pool, jobs, run>> /\ sent # <<>> /\ sent' = Tail(sent)
      /\ \/ m.type = "invoke-reply" /\ UNCHANGED wire
         \/ m.type = "invoke-reply" /\ G!HandleInvokeReply(m.id, m.answer)
         \/ m.type = "invoke" /\ G!HandleInvoke(m.id, m.name, call)
         \/ m.type = "assigned" /\ G!HandleAssignOk(Worker, Pool)
         \/ m.type = "assigned" /\ G!HandleAssignFailed(Worker, Pool)
         \/ m.type = "heartbeat" /\ G!HandleHeartbeat(Worker, m.slots)
  BY DEF GatewayHears, Uplink, gateway, reactors
<1>2. m \in Message
  BY <1>1 DEF Inv
<1>3. One(For(id), sent) /\ One(For(id), wire[Worker]) /\ Apart(id)
  BY <1>1, WorkerAside
<1>4. call \in Payloads
  BY MainAssumption DEF Payloads
<1> HIDE DEF m, call
<1>5. /\ m.type = "invoke-reply" => m.id \in Ids /\ m.answer \in {"ok", "error"}
      /\ m.type = "invoke" => m.id \in Ids /\ m.name \in Workloads
      /\ m.type = "heartbeat" => m.slots \in TrueReport
  BY <1>2 DEF Message, Ids
<1>6. CASE m.type = "invoke" /\ G!HandleInvoke(m.id, m.name, call)
  <2>1. /\ One(For(id), sent') /\ (OnUplink(id)' => OnUplink(id))
        /\ m \in For(id) => OnUplink(id) /\ ~OnUplink(id)'
    BY <1>1, <1>3, SentTail DEF Inv, m
  <2>2. m.id = id => m \in For(id)
    BY <1>2, <1>6 DEF For
  <2>3. GP!HandleInvoke(m.id, m.name, call)
    BY <1>6, SameRelay
  <2>4. /\ OnWire(id)' => OnWire(id) \/ m.id = id
        /\ ~(OnWire(id) /\ m.id = id) => One(For(id), wire'[Worker])
    BY <1>3, <1>4, <1>5, <1>6, <2>3, InvokeHas DEF Inv
  <2>5. One(For(id), wire'[Worker])
    BY <1>3, <2>1, <2>2, <2>4 DEF Apart
  <2>6. LoneOnLinks(id)'
    BY <2>1, <2>5 DEF LoneOnLinks
  <2>7. QED BY <1>1, <2>1, <2>2, <2>4, <2>6, WorkerAside DEF Carried, Lone, Apart, Somewhere
<1>7. CASE m.type # "invoke"
  <2>1. PlanActs
    BY <1>1, <1>5, <1>7, SamePlan, SameRelay DEF PlanActs
  <2>2. QED BY <1>1, <2>1, PlanCarries
<1>8. QED BY <1>1, <1>6, <1>7

LEMMA HeartbeatCarries ==
  ASSUME Inv, Heartbeat, NEW id \in Ids, Lone(id)
  PROVE  Carried(id)
<1> DEFINE m == [type |-> "heartbeat", slots |-> Report]
<1>1. UNCHANGED <<pool, jobs, run>> /\ UNCHANGED wire /\ S!Send(<<m>>)
  BY DEF Heartbeat, gateway, reactors
<1>2. m \in Message /\ m.type = "heartbeat"
  <2>1. Report \in TrueReport
    BY ReportIsTrue DEF Inv, SlotOK
  <2>2. QED BY <2>1 DEF Message
<1> HIDE DEF m
<1>3. m \notin For(id)
  BY <1>2, AboutType
<1>4. One(For(id), sent') /\ (OnUplink(id)' => OnUplink(id)) /\ One(For(id), wire[Worker])
  BY <1>1, <1>2, <1>3, SentAppend, WorkerAside DEF Inv
<1>5. One(For(id), wire'[Worker]) /\ (OnWire(id)' => OnWire(id))
  BY <1>1, <1>4 DEF OnWire
<1>6. QED BY <1>1, <1>4, <1>5, LinksCarry

\* What is lost is a message, either way.
LEMMA LossCarries ==
  ASSUME Inv, LinkLoses, NEW id \in Ids, Lone(id)
  PROVE  Carried(id)
<1>1. UNCHANGED <<pool, jobs, run>>
  BY DEF LinkLoses, worker, reactors
<1>2. One(For(id), sent) /\ One(For(id), wire[Worker])
  BY <1>1, WorkerAside
<1>3. CASE wire[Worker] # <<>> /\ wire' = [wire EXCEPT ![Worker] = Tail(wire[Worker])] /\ UNCHANGED sent
  <2>1. One(For(id), wire'[Worker]) /\ (OnWire(id)' => OnWire(id))
    BY <1>2, <1>3, WireTail DEF Inv
  <2>2. One(For(id), sent') /\ (OnUplink(id)' => OnUplink(id))
    BY <1>2, <1>3 DEF OnUplink
  <2>3. QED BY <1>1, <2>1, <2>2, LinksCarry
<1>4. CASE sent # <<>> /\ sent' = Tail(sent) /\ UNCHANGED wire
  <2>1. One(For(id), sent') /\ (OnUplink(id)' => OnUplink(id))
    BY <1>2, <1>4, SentTail DEF Inv
  <2>2. One(For(id), wire'[Worker]) /\ (OnWire(id)' => OnWire(id))
    BY <1>2, <1>4 DEF OnWire
  <2>3. QED BY <1>1, <2>1, <2>2, LinksCarry
<1>5. QED BY <1>3, <1>4 DEF LinkLoses, worker, gateway
-----------------------------------------------------------------------------
(* Requests that are made. *)

\* The id of a request that was sent; no other is anywhere.
Given(id) ==
  /\ id \in Clients => asked[id] # "unsent"
  /\ id \in Mesh => \E k \in 1..mesh_seq : MeshIds[k] = id

Followed(id) == Lone(id) /\ (Somewhere(id) => Given(id))

LEMMA GivenStays ==
  ASSUME Inv, [Next]_vars, NEW id \in Ids, Given(id)
  PROVE  Given(id)'
<1>1. \/ UNCHANGED asked \/ \E c \in Clients : asked' = [asked EXCEPT ![c] = "waiting"]
      \/ \E c \in Clients : asked' = [asked EXCEPT ![c] = "told"]
  BY DEF Next, System, vars, clients, GatewayHears, Receive, Heartbeat, SlotTask, Slot, Overdue,
         HearsMesh, Hears, Start, MeshCall, Deadline, Wake, Finish, Local, Session,
         SessionBootFails, Tick, Request, Operator, Cancel, LinkLoses, ReplyLost,
         AssignmentFails, Rebooted, Fault
<1>2. UNCHANGED mesh_seq \/ mesh_seq' = mesh_seq + 1
  BY DEF Next, System, vars, worker, reactors, GatewayHears, Receive, Heartbeat, SlotTask, Slot,
         Overdue, HearsMesh, Hears, Start, MeshCall, Deadline, Wake, Finish, Session,
         SessionBootFails, Tick, Request, Operator, Cancel, LinkLoses, ReplyLost,
         AssignmentFails, Rebooted
<1>3. mesh_seq \in Nat
  BY MeshIdsAssumption DEF Inv, TypeOK
<1>4. id \in Clients => asked'[id] # "unsent"
  BY <1>1 DEF Given, Inv, TypeOK
<1>5. id \in Mesh => \E k \in 1..mesh_seq' : MeshIds[k] = id
  BY <1>2, <1>3 DEF Given
<1>6. QED BY <1>4, <1>5 DEF Given

\* A client's.
LEMMA RequestFollowed ==
  ASSUME Inv, NEW c \in Clients, NEW call \in Payloads, Request(c, call),
         NEW id \in Ids, Followed(id)
  PROVE  Lone(id)' /\ (Somewhere(id)' => Somewhere(id) \/ Given(id)')
<1>1. /\ UNCHANGED <<pool, jobs, run, sent>> /\ UNCHANGED mesh_seq
      /\ asked[c] = "unsent" /\ asked' = [asked EXCEPT ![c] = "waiting"]
      /\ G!HandleInvoke(c, target[c], call)
  BY DEF Request, worker, reactors
<1>2. c \in Ids /\ target[c] \in Workloads /\ c \notin Mesh
  BY MeshIdsAssumption DEF Ids, Inv
<1>3. GP!HandleInvoke(c, target[c], call)
  BY <1>1, SameRelay
<1>4. Lone(id) /\ (id = c => ~Somewhere(id))
  BY <1>1 DEF Followed, Given
<1>5. /\ LoneInSlot(id)' /\ (Waiting(id)' <=> Waiting(id)) /\ (Served(id)' <=> Served(id))
      /\ InQueue(id)' <=> InQueue(id)
      /\ LoneAtReactors(id)' /\ (InLine(id)' <=> InLine(id)) /\ (Running(id)' <=> Running(id))
      /\ LoneOnLinks(id) /\ Apart(id) /\ One(For(id), sent) /\ One(For(id), wire[Worker])
  BY <1>1, <1>4, WorkerAside
<1>6. /\ OnWire(id)' => OnWire(id) \/ c = id
      /\ ~(OnWire(id) /\ c = id) => One(For(id), wire'[Worker])
  BY <1>2, <1>3, <1>5, InvokeHas DEF Inv
<1>7. OnUplink(id)' <=> OnUplink(id)
  BY <1>1 DEF OnUplink
<1>8. LoneOnLinks(id)'
  BY <1>1, <1>4, <1>5, <1>6 DEF LoneOnLinks, Somewhere
<1>9. id = c => Given(id)'
  BY <1>1, <1>2 DEF Given, Inv, TypeOK
<1>10. QED BY <1>4, <1>5, <1>6, <1>7, <1>8, <1>9 DEF Lone, Apart, Somewhere

\* A guest's: the ids that mesh_seq numbers are used once.
LEMMA MeshCallFollowed ==
  ASSUME Inv, NEW n \in Reactors, MeshCall(n), NEW id \in Ids, Followed(id)
  PROVE  Lone(id)' /\ (Somewhere(id)' => Somewhere(id) \/ Given(id)')
<1> DEFINE i == MeshIds[mesh_seq']
<1>1. /\ UNCHANGED <<pool, jobs, wire>> /\ run[n] # None
      /\ mesh_seq < Len(MeshIds) /\ mesh_seq' = mesh_seq + 1
      /\ run' = [run EXCEPT ![n] = [run[n] EXCEPT !.mesh = i, !.called = TRUE]]
      /\ \E w \in Uses[n] : S!Send(<<[type |-> "invoke", id |-> i, name |-> w]>>)
  BY DEF MeshCall, Local, gateway
<1>2. PICK w \in Uses[n] : S!Send(<<[type |-> "invoke", id |-> i, name |-> w]>>)
  BY <1>1
<1>3. mesh_seq \in Nat /\ mesh_seq' \in DOMAIN MeshIds
  BY <1>1, MeshIdsAssumption DEF Inv, TypeOK
<1>4. i \in Mesh /\ i \notin Clients
  BY <1>3, MeshIdsAssumption DEF Mesh
<1>5. ~(\E k \in 1..mesh_seq : MeshIds[k] = i)
  <2>1. \A k \in 1..mesh_seq : k \in DOMAIN MeshIds /\ k # mesh_seq'
    BY <1>1, <1>3, MeshIdsAssumption
  <2>2. QED BY <1>3, <2>1, MeshIdsAssumption
<1>6. \E k \in 1..mesh_seq' : MeshIds[k] = i
  BY <1>1, <1>3
<1>7. ReactorsOK /\ sent \in Seq(Message)
  BY DEF Inv, TypeOK, ReactorsOK
<1>8. w \in Workloads
  BY UsesAssumption
<1> HIDE DEF i
<1> DEFINE m == [type |-> "invoke", id |-> i, name |-> w]
<1>9. m \in Message /\ (m \in For(id) <=> i = id)
  <2>1. m \in [type : {"invoke"}, id : Mesh, name : Workloads]
    BY <1>4, <1>8
  <2>2. m \in Message /\ m.type = "invoke" /\ m.id = i
    BY <2>1 DEF Message
  <2>3. QED BY <2>2 DEF For
<1>10. Lone(id) /\ (id = i => ~Somewhere(id))
  BY <1>4, <1>5 DEF Followed, Given
<1>11. /\ LoneInSlot(id)' /\ (Waiting(id)' <=> Waiting(id)) /\ (Served(id)' <=> Served(id))
       /\ (InQueue(id)' <=> InQueue(id)) /\ (OnWire(id)' <=> OnWire(id))
       /\ One(For(id), sent') => LoneOnLinks(id)'
       /\ LoneAtReactors(id) /\ Apart(id) /\ One(For(id), sent)
  BY <1>1, <1>10, SlotAside
<1>12. /\ OnUplink(id)' <=> OnUplink(id) \/ i = id
       /\ ~(OnUplink(id) /\ i = id) => One(For(id), sent')
  <2> HIDE DEF m
  <2>1. S!Send(<<m>>)
    BY <1>2 DEF m
  <2>2. QED BY <1>7, <1>9, <1>11, <2>1, SentAppend
<1>13. ASSUME NEW o \in Reactors
       PROVE  IF run[o] = None THEN run'[o] = None ELSE run'[o] # None /\ run'[o].id = run[o].id
  <2> DEFINE new == [run[n] EXCEPT !.mesh = i, !.called = TRUE]
  <2>1. new \in Invocation /\ new.id = run[n].id
    BY <1>1, <1>4, <1>7 DEF ReactorsOK, Maybe, Invocation
  <2>2. run' = [run EXCEPT ![n] = new]
    BY <1>1
  <2> HIDE DEF new
  <2>3. QED BY <1>1, <1>7, <2>1, <2>2, RecordsAssumption DEF ReactorsOK
<1>14. LoneAtReactors(id)' /\ (InLine(id)' <=> InLine(id)) /\ (Running(id)' <=> Running(id))
  BY <1>1, <1>11, <1>13, RunsKept
<1>15. One(For(id), sent')
  BY <1>10, <1>11, <1>12 DEF Somewhere
<1>16. id = i => Given(id)'
  BY <1>4, <1>6 DEF Given, i
<1>17. QED BY <1>10, <1>11, <1>12, <1>14, <1>15, <1>16 DEF Lone, Apart, Somewhere
-----------------------------------------------------------------------------
(* Every step carries every request. *)

LEMMA StepFollows ==
  ASSUME Inv, [Next]_vars, NEW id \in Ids, Followed(id)
  PROVE  Followed(id)'
<1>1. GP!TypeOK' /\ Ordered'
  BY GatewayStep, GatewayAssumptions, GP!TypeStep, HomeStep DEF Inv
<1>2. /\ Lone(id) /\ GP!TypeOK /\ Ordered /\ SlotOK /\ Owned /\ ReactorsOK
      /\ sent \in Seq(Message)
  BY DEF Followed, Inv, TypeOK, ReactorsOK
<1>3. CASE Carried(id)
  BY <1>3, GivenStays DEF Carried, Followed
<1>4. CASE GatewayHears \/ Heartbeat \/ LinkLoses
  BY <1>1, <1>2, <1>3, <1>4, HearsCarries, HeartbeatCarries, LossCarries
<1>5. CASE Receive
  BY <1>2, <1>3, <1>5, ReceiveCarries
<1>6. ASSUME NEW c \in Clients, NEW call \in Payloads, Request(c, call)
      PROVE  Followed(id)'
  BY <1>6, RequestFollowed, GivenStays DEF Followed
<1>7. ASSUME NEW n \in Reactors, Start(n) \/ MeshCall(n) \/ Deadline(n) \/ Wake(n) \/ Finish(n)
      PROVE  Followed(id)'
  <2>1. CASE Start(n)
    BY <1>2, <1>3, <2>1, StartCarries
  <2>2. CASE MeshCall(n)
    BY <2>2, MeshCallFollowed, GivenStays DEF Followed
  <2>3. CASE Deadline(n) \/ Wake(n)
    <3>1. UNCHANGED sent
      BY <2>3 DEF Deadline, Wake
    <3>2. QED BY <1>2, <1>3, <2>3, <3>1, WaitsCarry
  <2>4. CASE Finish(n)
    BY <1>2, <1>3, <2>4, FinishCarries
  <2>5. QED BY <1>7, <2>1, <2>2, <2>3, <2>4
<1>8. CASE \/ SlotTask \/ \E t \in Tasks : Session(t) \/ SessionBootFails(t)
           \/ (\E nm \in Names : Cancel(nm)) \/ AssignmentFails
  <2>1. Aside
    BY <1>8 DEF Aside, SlotTask, Slot, Session, SessionBootFails, Cancel, AssignmentFails,
                gateway, reactors
  <2>2. \/ S!Drain \/ S!AssignBegins \/ S!FetchArrives \/ S!FetchFails \/ S!StartEnds
        \/ S!StartFails \/ (\E nm \in Names : S!Route(nm) \/ S!Cancel(nm))
        \/ \E t \in Tasks : S!Step(t) \/ S!BootFails(t)
    BY <1>8 DEF SlotTask, Slot, Session, SessionBootFails, Cancel, AssignmentFails
  <2>3. CASE S!Drain \/ S!AssignBegins
    BY <1>2, <1>3, <2>1, <2>3, TurnCarries
  <2>4. CASE S!FetchArrives \/ S!FetchFails \/ S!StartEnds \/ S!StartFails
    BY <1>2, <1>3, <2>1, <2>4, AssignmentCarries
  <2>5. ASSUME NEW nm \in Names, S!Route(nm) \/ S!Cancel(nm)
        PROVE  Followed(id)'
    BY <1>2, <1>3, <2>1, <2>5, RouteCarries, CancelCarries
  <2>6. ASSUME NEW t \in Tasks, S!Step(t) \/ S!BootFails(t)
        PROVE  Followed(id)'
    BY <1>2, <1>3, <2>1, <2>6, EndsCarries, ResetsCarries, TakesCarries, AnswersCarry DEF S!Step
  <2>7. QED BY <2>2, <2>3, <2>4, <2>5, <2>6
<1>9. ASSUME NEW i \in Mesh, HearsMesh(i)
      PROVE  Followed(id)'
  <2>1. G!TakeReply(i) /\ UNCHANGED <<pool, sent, jobs>> /\ run' = Woken
    BY <1>9 DEF HearsMesh
  <2>2. UNCHANGED wire
    BY <2>1 DEF G!TakeReply
  <2>3. QED BY <1>2, <1>3, <2>1, <2>2, WaitsCarry
<1>10. CASE \/ UNCHANGED vars \/ Tick \/ Operator \/ ReplyLost \/ Rebooted
            \/ (\E i \in Ids : Overdue(i)) \/ \E c \in Clients : Hears(c)
  <2>1. UNCHANGED <<pool, jobs, run, sent>>
    BY <1>10 DEF vars, Tick, Operator, ReplyLost, Rebooted, Overdue, Hears, worker, reactors
  <2>2. PlanActs
    <3>1. CASE UNCHANGED vars
      BY <3>1 DEF vars, gateway, PlanActs
    <3>2. CASE Tick \/ Operator \/ Rebooted
      BY <3>2, SamePlan DEF Tick, Operator, Rebooted, PlanActs
    <3>3. CASE ReplyLost \/ (\E i \in Ids : Overdue(i)) \/ \E c \in Clients : Hears(c)
      BY <3>3, SameRelay DEF ReplyLost, Overdue, Hears, Ids, PlanActs
    <3>4. QED BY <1>10, <3>1, <3>2, <3>3
  <2>3. QED BY <1>1, <1>2, <1>3, <2>1, <2>2, PlanCarries
<1>11. QED BY <1>4, <1>5, <1>6, <1>7, <1>8, <1>9, <1>10 DEF Next, System

LEMMA FollowedInit ==
  ASSUME Init, NEW id \in Ids
  PROVE  Followed(id)
<1>1. /\ wire[Worker] = <<>> /\ queue = <<>> /\ sent = <<>>
      /\ task = [t \in Tasks |-> None] /\ sessq = [nm \in Names |-> None]
      /\ jobs = [n \in Reactors |-> <<>>] /\ run = [n \in Reactors |-> None]
  BY DEF Init, S!Init, S!NoQueues
<1>2. ~Somewhere(id)
  BY <1>1, NothingHas
     DEF Somewhere, OnWire, InQueue, OnUplink, Waiting, Served, InLine, Running,
         Waits, Current, Serves, Lined, Runs
<1>3. LoneOnLinks(id) /\ LoneAtReactors(id)
  BY <1>1, NothingHas DEF LoneOnLinks, LoneAtReactors, Lined, Runs
<1>4. LoneInSlot(id)
  BY <1>1, NothingHas DEF LoneInSlot, Waits, Current, Serves
<1>5. QED BY <1>2, <1>3, <1>4 DEF Followed, Lone, Apart, Somewhere
-----------------------------------------------------------------------------
(* Counting. *)

LEMMA AtMostOne ==
  ASSUME NEW A, \A x, y \in A : x = y
  PROVE  Cardinality(A) \in {0, 1} /\ (Cardinality(A) = 1 => A # {})
<1>1. CASE A = {}
  BY <1>1, FS_EmptySet
<1>2. ASSUME NEW x \in A
      PROVE  Cardinality(A) = 1
  <2>1. A = {x}
    OBVIOUS
  <2>2. QED BY <2>1, FS_Singleton
<1>3. QED BY <1>1, <1>2

LEMMA AboutFor ==
  ASSUME NEW id \in Ids, NEW m \in Message \cup Order \cup SlotCommand
  PROVE  ("id" \in DOMAIN m /\ m.id = id) <=> m \in For(id)
<1>1. CASE m \in [type : {"invoke-reply"}, id : Ids, answer : {"ok", "error"}]
  BY <1>1 DEF For
<1>2. CASE \/ m \in [type : {"invoke"}, id : Mesh, name : Workloads]
           \/ m \in [type : {"invoke"}, id : Ids, name : Workloads, call : Payloads]
           \/ m \in Job
  BY <1>2 DEF For, Job
<1>3. CASE \/ m \in [type : {"assigned"}, ok : BOOLEAN]
           \/ m \in [type : {"heartbeat"}, slots : TrueReport]
           \/ m \in [type : {"assign"}, slot : {Pool}, name : {Pool}, spec : {Spec1}]
           \/ m \in [type : {"drain"}, slot : {Pool}]
           \/ m \in [type : {"assign", "drain"}]
  BY <1>3 DEF For
<1>4. QED BY <1>1, <1>2, <1>3 DEF Message, Order, SlotCommand

LEMMA AboutOne ==
  ASSUME NEW id \in Ids, NEW msgs,
         \A k \in DOMAIN msgs : msgs[k] \in Message \cup Order \cup SlotCommand, One(For(id), msgs)
  PROVE  About(id, msgs) \in {0, 1} /\ (About(id, msgs) = 1 => Has(For(id), msgs))
<1> DEFINE K == {k \in DOMAIN msgs : "id" \in DOMAIN msgs[k] /\ msgs[k].id = id}
<1>1. K = {k \in DOMAIN msgs : msgs[k] \in For(id)}
  BY AboutFor
<1>2. \A j, k \in K : j = k
  BY <1>1 DEF One
<1>3. K # {} => Has(For(id), msgs)
  BY <1>1 DEF Has
<1>4. About(id, msgs) = Cardinality(K)
  BY DEF About
<1> HIDE DEF K
<1>5. QED BY <1>2, <1>3, <1>4, AtMostOne

LEMMA LoneIsOne ==
  ASSUME Inv, NEW id \in Ids, Lone(id)
  PROVE  Copies(id) <= 1
<1> DEFINE N == Names \X (1..Cardinality(Ids))
           R == Reactors \X (1..Cardinality(Ids))
           waiting == {p \in N : /\ sessq[p[1]] # None /\ p[2] \in DOMAIN sessq[p[1]].jobs
                                 /\ sessq[p[1]].jobs[p[2]].id = id}
           served == {t \in Tasks : task[t] # None /\ task[t].job = id}
           lined == {p \in R : p[2] \in DOMAIN jobs[p[1]] /\ jobs[p[1]][p[2]] = id}
           running == {n \in Reactors : run[n] # None /\ run[n].id = id}
           a == About(id, wire[Worker])
           b == About(id, queue)
           c == About(id, sent)
<1>1. LoneOnLinks(id) /\ LoneInSlot(id) /\ LoneAtReactors(id) /\ Apart(id)
  BY DEF Lone
<1>2. Ordered /\ SlotOK /\ sent \in Seq(Message)
  BY DEF Inv
<1>3. a \in {0, 1} /\ (a = 1 => OnWire(id))
  <2>1. \A k \in DOMAIN wire[Worker] : wire[Worker][k] \in Message \cup Order \cup SlotCommand
    BY <1>2 DEF Ordered
  <2>2. QED BY <1>1, <2>1, AboutOne DEF LoneOnLinks, OnWire
<1>4. b \in {0, 1} /\ (b = 1 => InQueue(id))
  <2>1. \A k \in DOMAIN queue : queue[k] \in Message \cup Order \cup SlotCommand
    BY <1>2 DEF SlotOK
  <2>2. QED BY <1>1, <2>1, AboutOne DEF LoneInSlot, InQueue
<1>5. c \in {0, 1} /\ (c = 1 => OnUplink(id))
  <2>1. \A k \in DOMAIN sent : sent[k] \in Message \cup Order \cup SlotCommand
    BY <1>2
  <2>2. QED BY <1>1, <2>1, AboutOne DEF LoneOnLinks, OnUplink
<1>6. Cardinality(waiting) \in {0, 1} /\ (Cardinality(waiting) = 1 => Waiting(id))
  <2>1. ASSUME NEW p \in waiting
        PROVE  /\ p[1] \in Names /\ p = <<p[1], p[2]>> /\ Waits(id, p[1])
               /\ p[2] \in DOMAIN sessq[p[1]].jobs /\ sessq[p[1]].jobs[p[2]] \in For(id)
    <3>1. /\ p[1] \in Names /\ p = <<p[1], p[2]>> /\ sessq[p[1]] # None
          /\ p[2] \in DOMAIN sessq[p[1]].jobs /\ sessq[p[1]].jobs[p[2]].id = id
      OBVIOUS
    <3>2. sessq[p[1]].jobs \in Seq(Job)
      BY <1>2, <3>1 DEF SlotOK, Maybe, Queue
    <3>3. sessq[p[1]].jobs[p[2]] \in Job
      BY <3>1, <3>2
    <3>4. sessq[p[1]].jobs[p[2]] \in For(id)
      BY <3>1, <3>3, AboutType
    <3>5. QED BY <3>1, <3>4 DEF Waits, Has
  <2>2. ASSUME NEW p \in waiting, NEW q \in waiting
        PROVE  p = q
    <3> HIDE DEF waiting
    <3>1. p[1] = q[1]
      BY <1>1, <2>1 DEF LoneInSlot
    <3>2. One(For(id), sessq[p[1]].jobs)
      BY <1>1, <2>1 DEF LoneInSlot, Waits
    <3>3. p[2] = q[2]
      BY <2>1, <3>1, <3>2 DEF One
    <3>4. QED BY <2>1, <3>1, <3>3
  <2>3. waiting # {} => Waiting(id)
    <3> HIDE DEF waiting
    <3>1. QED BY <2>1 DEF Waiting
  <2> HIDE DEF waiting
  <2>4. QED BY <2>2, <2>3, AtMostOne
<1>7. Cardinality(served) \in {0, 1} /\ (Cardinality(served) = 1 => Served(id))
  <2>1. \A t, u \in served : t = u
    BY <1>1 DEF LoneInSlot, Serves
  <2>2. served # {} => Served(id)
    BY DEF Served, Serves
  <2> HIDE DEF served
  <2>3. QED BY <2>1, <2>2, AtMostOne
<1>8. Cardinality(lined) \in {0, 1} /\ (Cardinality(lined) = 1 => InLine(id))
  <2>1. ASSUME NEW p \in lined
        PROVE  /\ p[1] \in Reactors /\ p = <<p[1], p[2]>> /\ Lined(id, p[1])
               /\ p[2] \in DOMAIN jobs[p[1]] /\ jobs[p[1]][p[2]] \in {id}
    BY DEF Lined, Has
  <2>2. ASSUME NEW p \in lined, NEW q \in lined
        PROVE  p = q
    <3> HIDE DEF lined
    <3>1. p[1] = q[1]
      BY <1>1, <2>1 DEF LoneAtReactors
    <3>2. One({id}, jobs[p[1]])
      BY <1>1, <2>1 DEF LoneAtReactors
    <3>3. p[2] = q[2]
      BY <2>1, <3>1, <3>2 DEF One
    <3>4. QED BY <2>1, <3>1, <3>3
  <2>3. lined # {} => InLine(id)
    <3> HIDE DEF lined
    <3>1. QED BY <2>1 DEF InLine
  <2> HIDE DEF lined
  <2>4. QED BY <2>2, <2>3, AtMostOne
<1>9. Cardinality(running) \in {0, 1} /\ (Cardinality(running) = 1 => Running(id))
  <2>1. \A m, n \in running : m = n
    BY <1>1 DEF LoneAtReactors, Runs
  <2>2. running # {} => Running(id)
    BY DEF Running, Runs
  <2> HIDE DEF running
  <2>3. QED BY <2>1, <2>2, AtMostOne
<1>10. Copies(id) = a + b + c + Cardinality(waiting) + Cardinality(served)
                      + Cardinality(lined) + Cardinality(running)
  BY DEF Copies
<1> DEFINE d == Cardinality(waiting)
           e == Cardinality(served)
           f == Cardinality(lined)
           g == Cardinality(running)
<1>11. /\ a = 1 => b = 0 /\ c = 0 /\ d = 0 /\ e = 0 /\ f = 0 /\ g = 0
       /\ b = 1 => c = 0 /\ d = 0 /\ e = 0 /\ f = 0 /\ g = 0
       /\ c = 1 => d = 0 /\ e = 0 /\ f = 0 /\ g = 0
       /\ d = 1 => e = 0 /\ f = 0 /\ g = 0
       /\ e = 1 => f = 0 /\ g = 0
       /\ f = 1 => g = 0
  BY <1>1, <1>3, <1>4, <1>5, <1>6, <1>7, <1>8, <1>9 DEF Apart
<1>12. d \in {0, 1} /\ e \in {0, 1} /\ f \in {0, 1} /\ g \in {0, 1}
  BY <1>6, <1>7, <1>8, <1>9
<1> HIDE DEF a, b, c, d, e, f, g
<1>13. a + b + c + d + e + f + g <= 1
  BY <1>3, <1>4, <1>5, <1>11, <1>12
<1>14. QED BY <1>10, <1>13 DEF d, e, f, g
-----------------------------------------------------------------------------
\* A request is in one place at a time, from the gateway's link to its answer: it is
\* worked on once, whatever cancellations, resets, drains and assignments it meets,
\* and whatever calls its guest makes through the mesh.
THEOREM WorkedOnOnce == Spec => []OneCopy
<1> DEFINE All == \A id \in Ids : Followed(id)
<1>1. Init => All
  BY FollowedInit
<1>2. Inv /\ All /\ [Next]_vars => All'
  BY StepFollows
<1>3. Inv /\ All => OneCopy
  BY LoneIsOne DEF OneCopy, Followed
<1> HIDE DEF All
<1>4. QED BY <1>1, <1>2, <1>3, Invariance, PTL DEF Spec
=============================================================================
