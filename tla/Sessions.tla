------------------------------- MODULE Sessions ------------------------------
(***************************************************************************)
(* The slot of a session workload on a worker (worker.lua): its commands,   *)
(* and for every named session a queue of jobs and a coroutine that boots   *)
(* an interpreter and runs them.  Coroutines give way only where they wait: *)
(* in a fetch, in a boot and in a run.  A job is the id of its request.     *)
(***************************************************************************)
EXTENDS Integers, Sequences, FiniteSets

CONSTANTS
  Ids,       \* requests
  Names,     \* sessions a request may name
  Main,      \* the one that an assignment boots
  Tasks,     \* bound: coroutines of sessions
  None

VARIABLES
  queue,     \* s.queue: commands that wait for the slot's task
  stage,     \* what the slot's task does: "idle", "fetching" or "starting"
  held,      \* s.meta: does the slot hold the workload
  booted,    \* s.sessions: session -> is its interpreter up; None without the table
  sessq,     \* s.sessq: session -> its queue, or None
  task,      \* the coroutines of sessions
  sent       \* messages to the gateway

slot     == <<queue, stage, held>>
sessions == <<booted, sessq, task>>
vars     == <<slot, sessions, sent>>
-----------------------------------------------------------------------------
Reply(id, answer) == [type |-> "invoke-reply", id |-> id, answer |-> answer]
Assigned(ok)      == [type |-> "assigned", ok |-> ok]
Send(msgs)        == sent' = sent \o msgs

Booted == [nm \in Names |-> nm = Main]
NoQueues == [nm \in Names |-> None]

\* As an assignment leaves it.
Init ==
  /\ queue = <<>> /\ stage = "idle" /\ held = TRUE
  /\ booted = Booted /\ sessq = NoQueues
  /\ task = [t \in Tasks |-> None]
  /\ sent = <<>>
-----------------------------------------------------------------------------
(* The receiver. *)

\* An invocation is for the slot that holds the workload.
Receive(cmd) ==
  /\ IF cmd.type = "invoke" /\ ~held
     THEN Send(<<Reply(cmd.id, "error")>>) /\ UNCHANGED queue
     ELSE queue' = Append(queue, cmd) /\ UNCHANGED sent
  /\ UNCHANGED <<stage, held, sessions>>

Told(jobs, answer) == [j \in DOMAIN jobs |-> Reply(jobs[j].id, answer)]

Of(nm) == {t \in Tasks : task[t] # None /\ task[t].session = nm}

\* Mutant: nobody is killed.
KilledNone(nm) == task
Killed(nm) == [t \in Tasks |-> IF t \in Of(nm) THEN None ELSE task[t]]

\* Mutant: the queue stays.
QueueKept(nm) == sessq
Dropped(nm) == [sessq EXCEPT ![nm] = None]

\* The coroutines of the session die, and who waits in its queue is told.
Cancel(nm) ==
  /\ IF held /\ booted # None
     THEN /\ task' = Killed(nm)
          /\ Send(IF sessq[nm] = None THEN <<>>
                  ELSE Told(sessq[nm].current \o sessq[nm].jobs, "error"))
          /\ sessq' = Dropped(nm)
          /\ booted' = [booted EXCEPT ![nm] = FALSE]
     ELSE UNCHANGED <<sessions, sent>>
  /\ UNCHANGED slot
-----------------------------------------------------------------------------
(* The task of the slot. *)

Turn(type) == stage = "idle" /\ queue # <<>> /\ Head(queue).type = type /\ queue' = Tail(queue)

\* Mutant: without the field.
BareQueue(job) == [jobs |-> <<job>>]
NewQueue(job) == [jobs |-> <<job>>, current |-> <<>>]

\* route_session_invoke: into the session's queue, which is made, with its
\* coroutine, if there is none.
Route(nm) ==
  /\ Turn("invoke")
  /\ Head(queue).session = nm
  /\ LET job == Head(queue)
     IN IF ~held \/ booted = None
        THEN Send(<<Reply(job.id, "error")>>) /\ UNCHANGED sessions
        ELSE IF sessq[nm] # None
        THEN /\ sessq' = [sessq EXCEPT ![nm].jobs = Append(@, job)]
             /\ UNCHANGED <<booted, task, sent>>
        ELSE /\ sessq' = [sessq EXCEPT ![nm] = NewQueue(job)]
             /\ \E t \in Tasks : task[t] = None
             /\ task' = [task EXCEPT ![CHOOSE t \in Tasks : task[t] = None] =
                           [session |-> nm, doing |-> "waiting", job |-> None, own |-> TRUE]]
             /\ UNCHANGED <<booted, sent>>
  /\ UNCHANGED <<stage, held>>

\* The queues go, with the jobs in them, and the coroutines that wait: the others
\* are left with a queue that is no longer the session's.
Drain ==
  /\ Turn("drain")
  /\ held' = FALSE /\ booted' = None
  /\ sessq' = NoQueues
  /\ task' = [t \in Tasks |-> IF task[t] = None \/ task[t].doing = "waiting" THEN None
                              ELSE [task[t] EXCEPT !.own = FALSE]]
  /\ UNCHANGED <<stage, sent>>

AssignBegins ==
  /\ Turn("assign")
  /\ stage' = "fetching"
  /\ UNCHANGED <<held, sessions, sent>>

FetchArrives ==
  /\ stage = "fetching" /\ stage' = "starting" /\ held' = TRUE
  /\ UNCHANGED <<queue, sessions, sent>>

FetchFails ==
  /\ stage = "fetching" /\ stage' = "idle" /\ Send(<<Assigned(FALSE)>>)
  /\ UNCHANGED <<queue, held, sessions>>

StartEnds ==
  /\ stage = "starting" /\ stage' = "idle"
  /\ booted' = Booted
  /\ Send(<<Assigned(TRUE)>>)
  /\ UNCHANGED <<queue, held, sessq, task>>

\* The queues stay.
StartFails ==
  /\ stage = "starting" /\ stage' = "idle"
  /\ held' = FALSE /\ booted' = None
  /\ Send(<<Assigned(FALSE)>>)
  /\ UNCHANGED <<queue, sessq, task>>
-----------------------------------------------------------------------------
(* The coroutine of a session. *)

Doing(t, what) == task[t] # None /\ task[t].doing = what
Up(nm) == booted # None /\ booted[nm]

\* The queue of the session has gone: so does the coroutine.
Ends(t) ==
  /\ Doing(t, "waiting") /\ sessq[task[t].session] = None
  /\ task' = [task EXCEPT ![t] = None]
  /\ UNCHANGED <<slot, booted, sessq, sent>>

\* The first job of the session's queue, whichever queue that now is.
First(t, call) ==
  /\ Doing(t, "waiting")
  /\ LET q == sessq[task[t].session]
     IN q # None /\ q.jobs # <<>> /\ Head(q.jobs).call = call

\* A reset closes the interpreter and drops the queue, with the jobs in it.
Resets(t) ==
  /\ First(t, "reset")
  /\ LET nm == task[t].session
     IN /\ booted' = IF booted = None THEN None ELSE [booted EXCEPT ![nm] = FALSE]
        /\ sessq' = Dropped(nm)
        /\ task' = [u \in Tasks |-> IF u = t THEN None
                                    ELSE IF u \in Of(nm) THEN [task[u] EXCEPT !.own = FALSE]
                                    ELSE task[u]]
        /\ Send(<<Reply(Head(sessq[nm].jobs).id, "ok")>>)
  /\ UNCHANGED slot

Takes(t) ==
  /\ First(t, "run")
  /\ LET nm == task[t].session
         q == sessq[nm]
         job == Head(q.jobs)
     IN IF booted = None
        THEN /\ sessq' = [sessq EXCEPT ![nm] = [jobs |-> Tail(q.jobs), current |-> <<>>]]
             /\ Send(<<Reply(job.id, "error")>>)
             /\ UNCHANGED task
        ELSE /\ sessq' = [sessq EXCEPT ![nm] = [jobs |-> Tail(q.jobs), current |-> <<job>>]]
             /\ task' = [task EXCEPT ![t] =
                           [session |-> nm, job |-> job.id, own |-> TRUE,
                            doing |-> IF Up(nm) THEN "running" ELSE "booting"]]
             /\ UNCHANGED sent
  /\ UNCHANGED <<slot, booted>>

\* The job is answered, and the queue it came from says that it is not busy.
Answers(t, answer) ==
  /\ Send(<<Reply(task[t].job, answer)>>)
  /\ task' = [task EXCEPT ![t].doing = "waiting", ![t].job = None]
  /\ sessq' = IF task[t].own THEN [sessq EXCEPT ![task[t].session].current = <<>>] ELSE sessq
  /\ UNCHANGED <<slot, booted>>

\* Without the table of sessions the assignment raises an error, which ends the
\* coroutine; nobody answers the job.
BootEnds(t) ==
  /\ Doing(t, "booting")
  /\ IF booted = None
     THEN task' = [task EXCEPT ![t] = None] /\ UNCHANGED booted
     ELSE /\ booted' = [booted EXCEPT ![task[t].session] = TRUE]
          /\ task' = [task EXCEPT ![t].doing = "running"]
  /\ UNCHANGED <<slot, sessq, sent>>

BootFails(t) == Doing(t, "booting") /\ Answers(t, "error")
RunEnds(t)   == Doing(t, "running") /\ Answers(t, "ok")

Step(t) == Ends(t) \/ Resets(t) \/ Takes(t) \/ BootEnds(t) \/ RunEnds(t)
=============================================================================
