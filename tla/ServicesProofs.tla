---------------------------- MODULE ServicesProofs -----------------------------
(***************************************************************************)
(* Safety of Services, for every set of addresses and every input: what a  *)
(* warm instance keeps pinned, what the sqlite guest keeps prepared, and   *)
(* whom its answers go to, that they are whole, what a guest takes for a   *)
(* text, and that a caller is told what the peer said: by report of its     *)
(* failure or success, by relay a whole document or one message.  Of the   *)
(* handlers that need nobody, that what their caller reads is what the     *)
(* handler made of the value the caller wrote, or a refusal.               *)
(***************************************************************************)
EXTENDS Services, BindingsProofs

CallFields == {"phase", "fn", "params", "bufs", "mesh", "heard"}

\* The instance: the buffers of the invocation are apart from each other and from
\* what trapped invocations left behind.
PinsInv ==
  /\ pins \subseteq Addrs
  /\ \/ call.phase = "idle"
     \/ /\ DOMAIN call = CallFields
        /\ call.phase \in {"entering", "asking", "answered", "returned"}
        /\ call.bufs \subseteq Addrs
        /\ call.bufs \cap abandoned = {}
        /\ call.phase = "answered" => call.mesh \notin abandoned \cup call.bufs
        /\ call.phase = "returned" => call.bufs = {}
  /\ G!PinsReleased

\* Its actions, whoever takes them.
GuestStep ==
  \/ \E fn, params : G!Invoke(fn, params) \/ G!AllocFails(fn, params)
  \/ G!Dispatch \/ G!Resume \/ G!Trap \/ G!Copies \/ G!Forget \/ G!Restart
  \/ \E payload : G!MeshReplies(payload)
  \/ UNCHANGED guestVars

\* An invocation enters with buffers that were free, and finds no memory only when
\* no other is going on.
LEMMA EntersPinned ==
  ASSUME PinsInv, NEW fn, NEW params, G!Invoke(fn, params) \/ G!AllocFails(fn, params)
  PROVE  PinsInv'
<1>1. CASE G!Invoke(fn, params)
  <2>1. PICK a \in G!Free, b \in G!Free \cup {None} :
          /\ pins' = pins \cup ({a, b} \ {None})
          /\ call' = [phase |-> "entering", fn |-> fn, params |-> params,
                      bufs |-> {a, b} \ {None}, mesh |-> None, heard |-> <<>>]
    BY <1>1 DEF G!Invoke
  <2>2. abandoned' = abandoned /\ pins = abandoned
    BY <1>1 DEF G!Invoke, PinsInv, G!PinsReleased
  <2>3. ({a, b} \ {None}) \subseteq Addrs /\ ({a, b} \ {None}) \cap pins = {}
    BY DEF G!Free
  <2>4. QED BY <2>1, <2>2, <2>3 DEF PinsInv, G!PinsReleased, G!In, CallFields
<1>2. CASE G!AllocFails(fn, params)
  BY <1>2 DEF G!AllocFails, G!In, PinsInv, G!PinsReleased, G!Free
<1>3. QED BY <1>1, <1>2

\* A reply lets go of the host's buffers.
LEMMA ReturnsReleased ==
  ASSUME PinsInv, call.phase # "idle", NEW payload, NEW held,
         held = abandoned \cup call.bufs, G!Return(payload, held)
  PROVE  PinsInv'
<1>1. /\ pins' = held \ call.bufs /\ abandoned' = abandoned
      /\ call' = [call EXCEPT !.phase = "returned", !.bufs = {}]
  BY DEF G!Return
<1>2. abandoned \subseteq Addrs
  BY DEF PinsInv, G!PinsReleased
<1>3. pins' = abandoned
  BY <1>1 DEF PinsInv
<1>4. DOMAIN call' = CallFields /\ call'.phase = "returned" /\ call'.bufs = {}
  BY <1>1 DEF PinsInv, CallFields
<1>5. QED BY <1>1, <1>2, <1>3, <1>4 DEF PinsInv, G!PinsReleased, G!In

LEMMA DispatchReleased ==
  ASSUME PinsInv, G!Dispatch
  PROVE  PinsInv'
<1>1. call.phase = "entering" /\ pins = abandoned \cup call.bufs
  BY DEF G!Dispatch, G!In, PinsInv, G!PinsReleased
<1>2. CASE \E payload : G!Return(payload, pins)
  BY <1>1, <1>2, ReturnsReleased
<1>3. CASE /\ call' = [call EXCEPT !.phase = "asking"]
           /\ UNCHANGED <<pins, reply, last, abandoned>>
  BY <1>1, <1>3 DEF PinsInv, G!PinsReleased, G!In, CallFields
<1>4. QED BY <1>2, <1>3 DEF G!Dispatch

LEMMA MeshReleased ==
  ASSUME PinsInv, (\E payload : G!MeshReplies(payload)) \/ G!Resume
  PROVE  PinsInv'
<1>1. CASE G!Resume
  <2>1. call.phase = "answered"
    BY <1>1 DEF G!Resume, G!In
  <2>2. pins \ {call.mesh} = abandoned \cup call.bufs
    BY <2>1 DEF PinsInv, G!PinsReleased, G!In
  <2>3. QED BY <1>1, <2>1, <2>2, ReturnsReleased DEF G!Resume
<1>2. CASE \E payload : G!MeshReplies(payload)
  <2> PICK payload : G!MeshReplies(payload)
    BY <1>2
  <2>1. PICK a \in G!Free :
          /\ pins' = pins \cup {a} /\ abandoned' = abandoned
          /\ call' = [call EXCEPT !.phase = "answered", !.heard = G!Lenbuf(payload),
                                  !.mesh = a]
    BY DEF G!MeshReplies
  <2>2. call.phase = "asking" /\ pins = abandoned \cup call.bufs
    BY DEF G!MeshReplies, G!In, PinsInv, G!PinsReleased
  <2>3. a \in Addrs /\ a \notin pins
    BY DEF G!Free
  <2>4. /\ DOMAIN call' = CallFields /\ call'.phase = "answered"
        /\ call'.mesh = a /\ call'.bufs = call.bufs
    BY <2>1, <2>2 DEF PinsInv, CallFields
  <2>5. QED BY <2>1, <2>2, <2>3, <2>4 DEF PinsInv, G!PinsReleased, G!In
<1>3. QED BY <1>1, <1>2

\* Every step of the instance keeps its invariant: one that traps leaves what it
\* had pinned, which is abandoned with it.
LEMMA GuestReleases ==
  ASSUME PinsInv, GuestStep
  PROVE  PinsInv'
<1>1. CASE G!Trap
  BY <1>1 DEF G!Trap, G!Idle, G!In, PinsInv, G!PinsReleased
<1>2. CASE G!Copies
  BY <1>2 DEF G!Copies, G!Idle, G!In, PinsInv, G!PinsReleased
<1>3. CASE G!Forget \/ UNCHANGED guestVars
  BY <1>3 DEF G!Forget, guestVars, G!In, PinsInv, G!PinsReleased
<1>4. CASE G!Restart
  BY <1>4 DEF G!Restart, G!Idle, G!In, PinsInv, G!PinsReleased
<1>5. QED BY <1>1, <1>2, <1>3, <1>4, EntersPinned, DispatchReleased, MeshReleased DEF GuestStep

\* Every step of Services is one of the instance's, or leaves it alone.
LEMMA StepsOfGuest ==
  ASSUME [Next]_vars
  PROVE  GuestStep
<1>1. CASE ClientInvokes
  BY <1>1 DEF ClientInvokes, GuestStep
<1>2. CASE GuestStarts \/ GuestEnds \/ GuestRestarts
  BY <1>2 DEF GuestStarts, GuestEnds, GuestRestarts, GuestStep
<1>3. CASE ClientExecs \/ SqliteSteps \/ SqliteRestarts \/ Delivered \/ Lost
  BY <1>3 DEF ClientExecs, SqliteSteps, SqliteRestarts, Delivered, Lost, GuestStep
<1>4. ASSUME NEW payload, Reach(payload) PROVE GuestStep
  BY <1>4 DEF Reach, GuestStep
<1>5. CASE Answered \/ MeshFails \/ OthersReply
  BY <1>4, <1>5 DEF Answered, MeshFails, OthersReply, GuestStep
<1>6. CASE UNCHANGED vars
  BY <1>6 DEF vars, GuestStep
<1>7. QED BY <1>1, <1>2, <1>3, <1>5, <1>6 DEF Next

\* A warm instance keeps no buffer of an invocation or a mesh call that is over
\* (crab.cpp: "warm reactors would otherwise leak one pin per call").
THEOREM BuffersReleased == Spec => []PinsReleased
<1>1. Init => PinsInv
  BY DEF Init, G!Init, G!Idle, G!In, PinsInv, G!PinsReleased
<1>2. PinsInv /\ [Next]_vars => PinsInv'
  BY StepsOfGuest, GuestReleases
<1>3. PinsInv => PinsReleased
  BY DEF PinsInv, PinsReleased
<1>4. QED BY <1>1, <1>2, <1>3, PTL DEF Spec
-----------------------------------------------------------------------------
(* The sqlite guest. *)

\* Only while a statement is stepped is it prepared, and the database is open.
StatementsInv ==
  /\ job.phase = "idle" \/ DOMAIN job = {"caller", "phase", "sql", "reply"}
  /\ job.phase \in {"preparing", "stepping"} => db
  /\ S!StatementsClosed

\* Its actions, and the loss of who asked.
SqliteStep ==
  \/ \E caller, known, params : S!CrabInvoke(caller, known, params)
  \/ S!Step \/ S!Taken \/ S!Restart
  \/ Disown
  \/ UNCHANGED sqliteVars

\* Answering finalizes, or there was no statement.
LEMMA AnswersClosed ==
  ASSUME StatementsInv, job.phase # "idle", NEW err, NEW text, S!Answer(err, text),
         ~stmt'
  PROVE  StatementsInv'
<1>1. job' = [job EXCEPT !.phase = "answered", !.reply = S!reply_result(err, text)]
  BY DEF S!Answer
<1>2. DOMAIN job' = {"caller", "phase", "sql", "reply"} /\ job'.phase = "answered"
  BY <1>1 DEF StatementsInv
<1>3. QED BY <1>2 DEF StatementsInv, S!StatementsClosed, S!In

LEMMA PrepareCloses ==
  ASSUME StatementsInv, S!Prepare
  PROVE  StatementsInv'
<1>1. job.phase = "preparing" /\ db /\ ~stmt /\ db' = db
  BY DEF S!Prepare, S!In, StatementsInv, S!StatementsClosed
<1>2. CASE \E err, text : S!Answer(err, text) /\ UNCHANGED stmt
  BY <1>1, <1>2, AnswersClosed
<1>3. CASE stmt' /\ job' = [job EXCEPT !.phase = "stepping"]
  <2>1. DOMAIN job' = {"caller", "phase", "sql", "reply"} /\ job'.phase = "stepping"
    BY <1>1, <1>3 DEF StatementsInv
  <2>2. QED BY <1>1, <1>3, <2>1 DEF StatementsInv, S!StatementsClosed, S!In
<1>4. QED BY <1>2, <1>3 DEF S!Prepare

\* Every way out of an exec leaves no statement.
LEMMA SqliteCloses ==
  ASSUME StatementsInv, SqliteStep
  PROVE  StatementsInv'
<1>1. CASE \E caller, known, params : S!CrabInvoke(caller, known, params)
  BY <1>1 DEF S!CrabInvoke, StatementsInv, S!StatementsClosed, S!In
<1>2. CASE S!OpenFails
  <2>1. job.phase # "idle" /\ ~stmt'
    BY <1>2 DEF S!OpenFails, S!In, StatementsInv, S!StatementsClosed
  <2>2. QED BY <1>2, <2>1, AnswersClosed DEF S!OpenFails
<1>3. CASE S!Opens
  <2>1. job.phase # "idle" /\ ~stmt' /\ db'
        /\ job' = [job EXCEPT !.phase = "preparing"]
    BY <1>3 DEF S!Opens, S!In, StatementsInv, S!StatementsClosed
  <2>2. DOMAIN job' = {"caller", "phase", "sql", "reply"} /\ job'.phase = "preparing"
    BY <2>1 DEF StatementsInv
  <2>3. QED BY <2>1, <2>2 DEF StatementsInv, S!StatementsClosed, S!In
<1>4. CASE S!Prepare
  BY <1>4, PrepareCloses
<1>5. CASE S!StepRow
  BY <1>5 DEF S!StepRow, StatementsInv, S!StatementsClosed, S!In
<1>6. CASE S!StepDone \/ S!StepFails
  <2>1. job.phase # "idle" /\ ~stmt'
    BY <1>6 DEF S!StepDone, S!StepFails, S!In
  <2>2. PICK err, text : S!Answer(err, text)
    BY <1>6 DEF S!StepDone, S!StepFails
  <2>3. QED BY <2>1, <2>2, AnswersClosed
<1>7. CASE S!Taken \/ S!Restart
  BY <1>7 DEF S!Taken, S!Restart, S!Idle, S!In, StatementsInv, S!StatementsClosed
<1>8. CASE Disown
  <2>1. db' = db /\ stmt' = stmt /\ job'.phase = job.phase
        /\ DOMAIN job' = DOMAIN job
    BY <1>8 DEF Disown, StatementsInv
  <2>2. QED BY <2>1 DEF StatementsInv, S!StatementsClosed, S!In
<1>9. CASE UNCHANGED sqliteVars
  BY <1>9 DEF sqliteVars, StatementsInv, S!StatementsClosed, S!In
<1>10. QED BY <1>1, <1>2, <1>3, <1>4, <1>5, <1>6, <1>7, <1>8, <1>9 DEF SqliteStep, S!Step

\* Every step of Services is one of the sqlite guest's, or leaves it alone.
LEMMA StepsOfSqlite ==
  ASSUME [Next]_vars
  PROVE  SqliteStep
<1>1. CASE ClientInvokes \/ GuestStarts \/ GuestEnds \/ Lost \/ OthersReply
  BY <1>1 DEF ClientInvokes, GuestStarts, GuestEnds, Lost, OthersReply, SqliteStep
<1>2. CASE GuestRestarts \/ MeshFails
  BY <1>2 DEF GuestRestarts, MeshFails, SqliteStep
<1>3. CASE ClientExecs \/ SqliteSteps \/ SqliteRestarts \/ Delivered
  BY <1>3 DEF ClientExecs, SqliteSteps, SqliteRestarts, Delivered, SqliteStep
<1>4. CASE Answered
  BY <1>4 DEF Answered, SqliteStep
<1>5. CASE UNCHANGED vars
  BY <1>5 DEF vars, SqliteStep
<1>6. QED BY <1>1, <1>2, <1>3, <1>4, <1>5 DEF Next

\* A statement is finalized on every way out of an exec, and prepared only on an
\* open database (main.c: each return of guest_exec after sqlite3_prepare_v2).
THEOREM StatementsFinalized == Spec => []StatementsClosed
<1>1. Init => StatementsInv
  BY DEF Init, S!Init, S!Idle, StatementsInv, S!StatementsClosed, S!In
<1>2. StatementsInv /\ [Next]_vars => StatementsInv'
  BY StepsOfSqlite, SqliteCloses
<1>3. StatementsInv => StatementsClosed
  BY DEF StatementsInv, StatementsClosed
<1>4. QED BY <1>1, <1>2, <1>3, PTL DEF Spec
-----------------------------------------------------------------------------
(* Between the two. *)

\* What the sqlite guest is asked in relay's name: on its way, or worked on.
Mailed == mail # None /\ mail.wanted
Served == job.phase # "idle" /\ job.caller = "relay"
Waits  == call.phase = "asking" /\ call.fn = "relay"

MailInv ==
  /\ mail = None \/ DOMAIN mail = {"params", "wanted"}
  /\ AnswersAreAwaited

LEMMA AwaitedMeans ==
  AnswersAreAwaited <=> ~(Mailed /\ Served) /\ (Mailed \/ Served => Waits)
BY DEF AnswersAreAwaited, Mailed, Served, Waits, S!In, G!In

\* When nobody waits, nothing is asked in its name ...
LEMMA NobodyWaits ==
  ASSUME MailInv, ~Waits, UNCHANGED <<mail, job>>
  PROVE  MailInv'
<1>1. ~Mailed /\ ~Served
  BY AwaitedMeans DEF MailInv
<1>2. ~Mailed' /\ ~Served'
  BY <1>1 DEF Mailed, Served
<1>3. AnswersAreAwaited'
  BY <1>2 DEF AnswersAreAwaited, Mailed, Served, S!In
<1>4. QED BY <1>3 DEF MailInv

\* ... and who gives up leaves nothing in its name.
LEMMA DisownLeaves ==
  ASSUME StatementsInv, MailInv, Disown
  PROVE  MailInv'
<1>1. ~Mailed' /\ (mail' = None \/ DOMAIN mail' = {"params", "wanted"})
  BY DEF Disown, MailInv, Mailed
<1>2. ~Served'
  <2>1. CASE Served
    BY <2>1 DEF Disown, StatementsInv, Served, S!In
  <2>2. CASE ~Served
    BY <2>2 DEF Disown, Served, S!In
  <2>3. QED BY <2>1, <2>2
<1>3. AnswersAreAwaited'
  BY <1>1, <1>2 DEF AnswersAreAwaited, Mailed, Served, S!In
<1>4. QED BY <1>1, <1>3 DEF MailInv

\* Steps of the instance.
LEMMA GuestAwaits ==
  ASSUME PinsInv, StatementsInv, MailInv, ClientInvokes \/ GuestStarts \/ GuestEnds
  PROVE  MailInv'
<1>1. CASE ClientInvokes
  BY <1>1, NobodyWaits DEF ClientInvokes, Waits, G!In, sqliteVars
<1>2. CASE GuestStarts
  <2>1. call.phase = "entering" /\ job' = job
    BY <1>2 DEF GuestStarts, G!Dispatch, G!In, sqliteVars
  <2>2. ~Mailed /\ ~Served /\ ~Served'
    BY <2>1, AwaitedMeans DEF MailInv, Waits, Served
  <2>3. CASE mail' = mail
    BY <2>1, <2>3, NobodyWaits DEF Waits
  <2>4. CASE /\ call'.phase = "asking" /\ call.fn = "relay"
             /\ mail' = [params |-> G!Asked, wanted |-> TRUE]
    <3>1. call' = [call EXCEPT !.phase = "asking"]
      BY <1>2, <2>1, <2>4 DEF GuestStarts, G!Dispatch, G!Return, PinsInv, CallFields
    <3>2. Waits'
      BY <2>1, <2>4, <3>1 DEF Waits, PinsInv, CallFields
    <3>3. AnswersAreAwaited'
      BY <2>2, <3>2 DEF AnswersAreAwaited, Mailed, Served, Waits, S!In, G!In
    <3>4. DOMAIN mail' = {"params", "wanted"}
      BY <2>4
    <3>5. QED BY <3>3, <3>4 DEF MailInv
  <2>5. QED BY <1>2, <2>3, <2>4 DEF GuestStarts
<1>3. CASE GuestEnds
  <2>1. UNCHANGED <<mail, job>>
    BY <1>3 DEF GuestEnds, sqliteVars
  <2>2. CASE call' = call
    <3>1. (Mailed' <=> Mailed) /\ (Served' <=> Served) /\ (Waits' <=> Waits)
      BY <2>1, <2>2 DEF Mailed, Served, Waits
    <3>2. AnswersAreAwaited'
      BY <3>1, AwaitedMeans DEF AnswersAreAwaited, Mailed, Served, Waits, S!In, G!In, MailInv
    <3>3. QED BY <2>1, <3>2 DEF MailInv
  <2>3. CASE call.phase # "asking"
    BY <2>1, <2>3, NobodyWaits DEF Waits
  <2>4. QED BY <1>3, <2>2, <2>3 DEF GuestEnds, G!Resume, G!Copies, G!Forget, G!In
<1>4. QED BY <1>1, <1>2, <1>3

\* Steps that leave the instance alone and ask nothing more in its name.
LEMMA FewerAsked ==
  ASSUME MailInv, UNCHANGED guestVars,
         Mailed' \/ Served' => Mailed \/ Served, ~(Mailed' /\ Served'),
         mail' = None \/ DOMAIN mail' = {"params", "wanted"}
  PROVE  MailInv'
<1>1. Waits' <=> Waits
  BY DEF Waits, guestVars
<1>2. AnswersAreAwaited'
  BY <1>1, AwaitedMeans DEF AnswersAreAwaited, Mailed, Served, Waits, S!In, G!In, MailInv
<1>3. QED BY <1>2 DEF MailInv

\* An exec that goes on is the same caller's.
LEMMA StepsForSame ==
  ASSUME StatementsInv, S!Step
  PROVE  Served' <=> Served
<1>1. job.phase # "idle" /\ DOMAIN job = {"caller", "phase", "sql", "reply"}
  BY DEF S!Step, S!OpenFails, S!Opens, S!Prepare, S!StepRow, S!StepDone, S!StepFails,
         S!In, StatementsInv
<1>2. ASSUME NEW err, NEW text, S!Answer(err, text)
      PROVE  job'.phase # "idle" /\ job'.caller = job.caller
  BY <1>1, <1>2 DEF S!Answer
<1>3. job'.phase # "idle" /\ job'.caller = job.caller
  <2>1. CASE S!OpenFails \/ S!StepDone \/ S!StepFails
    BY <1>2, <2>1 DEF S!OpenFails, S!StepDone, S!StepFails
  <2>2. CASE S!Opens \/ S!StepRow
    BY <1>1, <2>2 DEF S!Opens, S!StepRow
  <2>3. CASE S!Prepare
    BY <1>1, <1>2, <2>3 DEF S!Prepare
  <2>4. QED BY <2>1, <2>2, <2>3 DEF S!Step
<1>4. QED BY <1>1, <1>3 DEF Served

LEMMA SqliteAwaits ==
  ASSUME StatementsInv, MailInv,
         ClientExecs \/ SqliteSteps \/ SqliteRestarts \/ Delivered \/ Lost
  PROVE  MailInv'
<1>1. CASE ClientExecs
  <2>1. PICK known, params : S!CrabInvoke("client", known, params)
    BY <1>1 DEF ClientExecs
  <2>2. ~Served'
    BY <2>1 DEF S!CrabInvoke, Served
  <2>3. QED BY <1>1, <2>2, FewerAsked DEF ClientExecs, Mailed, MailInv
<1>2. CASE SqliteSteps
  <2>1. Served' <=> Served
    BY <1>2, StepsForSame DEF SqliteSteps
  <2>2. mail' = mail /\ (Mailed' <=> Mailed)
    BY <1>2 DEF SqliteSteps, Mailed
  <2>3. QED BY <1>2, <2>1, <2>2, AwaitedMeans, FewerAsked DEF SqliteSteps, MailInv
<1>3. CASE SqliteRestarts
  <2>1. ~Served'
    BY <1>3 DEF SqliteRestarts, S!Restart, S!Idle, Served
  <2>2. QED BY <1>3, <2>1, FewerAsked DEF SqliteRestarts, Mailed, MailInv
<1>4. CASE Delivered
  <2>1. S!CrabInvoke(IF mail.wanted THEN "relay" ELSE "nobody", TRUE, mail.params)
        /\ mail # None /\ mail' = None
    BY <1>4 DEF Delivered
  <2>2. job'.caller = IF mail.wanted THEN "relay" ELSE "nobody"
    BY <2>1 DEF S!CrabInvoke
  <2>3. (Served' => Mailed) /\ ~Mailed'
    BY <2>1, <2>2 DEF Served, Mailed
  <2>4. QED BY <1>4, <2>1, <2>3, FewerAsked DEF Delivered
<1>5. CASE Lost
  <2>1. ~Mailed' /\ (Served' <=> Served)
    BY <1>5 DEF Lost, Mailed, Served, sqliteVars
  <2>2. QED BY <1>5, <2>1, FewerAsked DEF Lost
<1>6. QED BY <1>1, <1>2, <1>3, <1>4, <1>5

\* The answer for relay takes the one thing that was asked in its name with it.
LEMMA AnsweredAwaits ==
  ASSUME MailInv, Answered
  PROVE  MailInv'
<1>1. ~Served' /\ mail' = mail /\ (Mailed' <=> Mailed)
  BY DEF Answered, S!Taken, S!Idle, Served, Mailed
<1>2. job.phase = "answered"
  BY DEF Answered, S!Taken, S!In
<1>3. CASE job.caller = "relay"
  <2>1. ~Mailed'
    BY <1>1, <1>2, <1>3, AwaitedMeans DEF MailInv, Served
  <2>2. AnswersAreAwaited'
    BY <1>1, <2>1 DEF AnswersAreAwaited, Mailed, Served, S!In
  <2>3. QED BY <1>1, <2>2 DEF MailInv
<1>4. CASE job.caller # "relay"
  BY <1>1, <1>4, FewerAsked DEF Answered, MailInv
<1>5. QED BY <1>3, <1>4

LEMMA MailKept ==
  ASSUME PinsInv, StatementsInv, MailInv, [Next]_vars
  PROVE  MailInv'
<1>1. CASE GuestRestarts \/ MeshFails
  BY <1>1, DisownLeaves DEF GuestRestarts, MeshFails
<1>2. CASE OthersReply
  BY <1>2, NobodyWaits DEF OthersReply, Waits, sqliteVars
<1>3. CASE UNCHANGED vars
  BY <1>3, FewerAsked, AwaitedMeans DEF vars, sqliteVars, Mailed, Served, MailInv
<1>4. QED BY <1>1, <1>2, <1>3, GuestAwaits, SqliteAwaits, AnsweredAwaits DEF Next

\* An exec in relay's name is under way or worked on only while relay waits for it,
\* and one at most: no answer meets a later invocation.
THEOREM AnswersAwaited == Spec => []AnswersAreAwaited
<1>1. Init => PinsInv /\ StatementsInv /\ MailInv
  BY DEF Init, G!Init, G!Idle, G!In, S!Init, S!Idle, S!In, PinsInv, G!PinsReleased,
         StatementsInv, S!StatementsClosed, MailInv, AnswersAreAwaited
<1>2. PinsInv /\ StatementsInv /\ MailInv /\ [Next]_vars
        => (PinsInv /\ StatementsInv /\ MailInv)'
  BY StepsOfGuest, GuestReleases, StepsOfSqlite, SqliteCloses, MailKept
<1>3. MailInv => AnswersAreAwaited
  BY DEF MailInv
<1>4. QED BY <1>1, <1>2, <1>3, PTL DEF Spec
-----------------------------------------------------------------------------
(* What the sqlite guest answers. *)

\* A document of which so many rows are written.
Begun(n) == <<S!Columns>> \o [r \in 1..n |-> S!Row]

LEMMA BegunGrows ==
  ASSUME NEW n \in Nat
  PROVE  /\ Append(Begun(n), S!Row) = Begun(n + 1)
         /\ Append(Begun(n), S!Changes) = S!Document(n)
         /\ Len(Begun(n)) = n + 1
<1> DEFINE Part == Int
           rows1 == [r \in 1..n |-> S!Row]
           rows2 == [r \in 1..n + 1 |-> S!Row]
<1>1. /\ rows1 \in Seq(Part) /\ rows2 \in Seq(Part) /\ Len(rows1) = n /\ Len(rows2) = n + 1
      /\ (\A i \in 1..n : rows1[i] = S!Row) /\ \A i \in 1..n + 1 : rows2[i] = S!Row
      /\ <<S!Columns>> \in Seq(Part) /\ S!Row \in Part /\ S!Changes \in Part
  BY DEF S!Row, S!Columns, S!Changes
<1>2. rows2 = Append(rows1, S!Row)
  <2> HIDE DEF rows1, rows2
  <2>1. QED BY <1>1, SMT
<1> HIDE DEF rows1, rows2, Part
<1>3. Begun(n) = <<S!Columns>> \o rows1 /\ Begun(n + 1) = <<S!Columns>> \o rows2
      /\ S!Document(n) = (<<S!Columns>> \o rows1) \o <<S!Changes>>
  BY DEF Begun, S!Document, rows1, rows2
<1> DEFINE head == <<S!Columns>>
           begun == head \o rows1
<1>4. head \in Seq(Part) /\ Len(head) = 1 /\ S!Row \in Part /\ S!Changes \in Part
  BY <1>1
<1> HIDE DEF head
<1>5. begun \in Seq(Part) /\ Len(begun) = n + 1
  <2>1. rows1 \in Seq(Part) /\ Len(rows1) = n
    BY <1>1
  <2>2. head \o rows1 \in Seq(Part) /\ Len(head \o rows1) = Len(head) + Len(rows1)
    BY <1>4, <2>1, ConcatProperties
  <2>3. QED BY <1>4, <2>1, <2>2
<1>6. /\ Append(begun, S!Row) = begun \o <<S!Row>> /\ Append(begun, S!Changes) = begun \o <<S!Changes>>
      /\ Append(rows1, S!Row) = rows1 \o <<S!Row>>
  BY <1>1, <1>4, <1>5, AppendIsConcat
<1>7. <<S!Row>> \in Seq(Part)
  BY <1>4
<1>8. begun \o <<S!Row>> = head \o (rows1 \o <<S!Row>>)
  <2> DEFINE row == <<S!Row>>
  <2>1. row \in Seq(Part) /\ rows1 \in Seq(Part) /\ head \in Seq(Part)
    BY <1>1, <1>4, <1>7
  <2> HIDE DEF row
  <2>2. (head \o rows1) \o row = head \o (rows1 \o row)
    BY <2>1, ConcatAssociative
  <2>3. QED BY <2>2 DEF row
<1>9. Begun(n) = begun /\ Begun(n + 1) = head \o rows2 /\ S!Document(n) = begun \o <<S!Changes>>
  BY <1>3 DEF head
<1> HIDE DEF begun
<1>10. QED BY <1>2, <1>5, <1>6, <1>8, <1>9

LEMMA Pair ==
  ASSUME NEW a \in Int, NEW b \in Int
  PROVE  Append(<<a>>, b) = <<a, b>>
<1> DEFINE p == Append(<<a>>, b)
           q == <<a, b>>
<1>1. p \in Seq(Int) /\ Len(p) = 2 /\ p[1] = a /\ p[2] = b
  OBVIOUS
<1>2. q \in Seq(Int) /\ Len(q) = 2 /\ q[1] = a /\ q[2] = b
  OBVIOUS
<1> HIDE DEF p, q
<1>3. \A i \in 1..Len(p) : i = 1 \/ i = 2
  BY <1>1
<1>4. p = q
  BY <1>1, <1>2, <1>3, SeqEqual
<1>5. QED BY <1>4 DEF p, q

LEMMA NoneBegun == Begun(0) = <<S!Columns>> /\ S!Document(0) = <<S!Columns, S!Changes>>
<1>1. [r \in 1..0 |-> S!Row] = <<>>
  <2> DEFINE none == [r \in 1..0 |-> S!Row]
  <2>1. none \in Seq(Int) /\ Len(none) = 0
    BY DEF S!Row
  <2> HIDE DEF none
  <2>2. none = <<>>
    BY <2>1, EmptySeq
  <2>3. QED BY <2>2 DEF none
<1>2. Begun(0) = <<S!Columns>> \o <<>> /\ S!Document(0) = (<<S!Columns>> \o <<>>) \o <<S!Changes>>
  BY <1>1 DEF Begun, S!Document
<1>3. <<S!Columns>> \o <<>> = <<S!Columns>> /\ <<S!Columns>> \o <<S!Changes>> = <<S!Columns, S!Changes>>
  <2>1. <<S!Columns>> \in Seq(Int) /\ S!Changes \in Int
    BY DEF S!Columns, S!Changes
  <2>2. <<S!Columns>> \o <<>> = <<S!Columns>>
    BY <2>1, ConcatEmptySeq
  <2>3. <<S!Columns>> \o <<S!Changes>> = Append(<<S!Columns>>, S!Changes)
    BY <2>1, AppendIsConcat
  <2>4. Append(<<S!Columns>>, S!Changes) = <<S!Columns, S!Changes>>
    <3>1. S!Columns \in Int /\ S!Changes \in Int
      BY DEF S!Columns, S!Changes
    <3>2. QED BY <3>1, Pair
  <2>5. QED BY <2>2, <2>3, <2>4
<1>4. QED BY <1>2, <1>3

\* The buffer is empty before a statement is prepared, and while it is stepped the
\* beginning of a document of no more rows than the table has.
DocumentsInv ==
  /\ rows \in 0..MaxRows
  /\ job.phase = "preparing" => out = <<>>
  /\ job.phase = "stepping" => \E n \in 0..rows : out = Begun(n)
  /\ WholeAnswers

\* An exec ends with a message or a document.
LEMMA AnswersWhole ==
  ASSUME StatementsInv, job.phase # "idle", NEW err, NEW text, S!Answer(err, text),
         rows' \in 0..MaxRows,
         \/ err = TRUE /\ text \in {<<S!Cannot>>, <<S!Only>>, <<S!Sqlite3Message>>}
         \/ err = FALSE /\ \E n \in 0..MaxRows : text = S!Document(n)
  PROVE  DocumentsInv'
<1>1. job' = [job EXCEPT !.phase = "answered", !.reply = S!reply_result(err, text)]
  BY DEF S!Answer
<1>2. job'.phase = "answered" /\ job'.reply = S!reply_result(err, text)
  BY <1>1 DEF StatementsInv
<1>3. WholeAnswers'
  BY <1>2 DEF WholeAnswers, S!WholeAnswers, S!In
<1>4. QED BY <1>2, <1>3 DEF DocumentsInv

LEMMA PrepareAnswers ==
  ASSUME StatementsInv, DocumentsInv, S!Prepare
  PROVE  DocumentsInv'
<1>1. job.phase = "preparing" /\ out = <<>> /\ rows' = rows /\ rows \in 0..MaxRows
  BY DEF S!Prepare, S!In, DocumentsInv
<1>2. \A text : out \o <<text>> = <<text>>
  BY <1>1
<1>3. CASE S!Answer(TRUE, out \o <<S!Sqlite3Message>>) \/ S!Answer(TRUE, out \o <<S!Only>>)
  BY <1>1, <1>2, <1>3, AnswersWhole
<1>4. CASE S!Answer(FALSE, out \o <<S!Columns, S!Changes>>)
  <2>1. out \o <<S!Columns, S!Changes>> = S!Document(0)
    BY <1>1, NoneBegun
  <2>2. 0 \in 0..MaxRows
    BY RowsAssumption
  <2>3. QED BY <1>1, <1>4, <2>1, <2>2, AnswersWhole
<1>5. CASE out' = out \o <<S!Columns>> /\ job' = [job EXCEPT !.phase = "stepping"]
  <2>1. job'.phase = "stepping"
    BY <1>1, <1>5 DEF StatementsInv
  <2>2. out' = Begun(0) /\ 0 \in 0..rows'
    BY <1>1, <1>2, <1>5, NoneBegun
  <2>3. WholeAnswers'
    BY <2>1 DEF WholeAnswers, S!WholeAnswers, S!In
  <2>4. QED BY <1>1, <2>1, <2>2, <2>3 DEF DocumentsInv
<1>6. QED BY <1>3, <1>4, <1>5 DEF S!Prepare

\* Rows are written one by one, an update adds one to the table, and whatever fails
\* between two rows leaves none of them in the answer.
LEMMA StepsAnswer ==
  ASSUME StatementsInv, DocumentsInv, S!StepRow \/ S!StepDone \/ S!StepFails
  PROVE  DocumentsInv'
<1>1. /\ job.phase = "stepping" /\ rows \in 0..MaxRows
      /\ \E n \in 0..rows : out = Begun(n)
  BY DEF S!StepRow, S!StepDone, S!StepFails, S!In, DocumentsInv
<1> PICK n \in 0..rows : out = Begun(n)
  BY <1>1
<1>2. n \in Nat /\ rows \in Nat /\ n <= rows /\ MaxRows \in Nat /\ rows <= MaxRows
      /\ n \in 0..MaxRows
  BY <1>1, RowsAssumption
<1>3. /\ Append(out, S!Row) = Begun(n + 1) /\ Append(out, S!Changes) = S!Document(n)
      /\ Len(out) = n + 1
  BY <1>2, BegunGrows
<1>4. CASE S!StepRow
  <2>1. job' = job /\ rows' = rows /\ out' = Begun(n + 1) /\ S!Given < rows
    BY <1>3, <1>4 DEF S!StepRow
  <2>2. n + 1 \in 0..rows'
    BY <1>2, <1>3, <2>1 DEF S!Given
  <2>3. WholeAnswers'
    BY <1>1, <2>1 DEF WholeAnswers, S!WholeAnswers, S!In
  <2>4. QED BY <1>1, <2>1, <2>2, <2>3 DEF DocumentsInv
<1>5. CASE S!StepDone
  <2>1. S!Answer(FALSE, S!Document(n)) /\ (rows' = rows \/ (rows < MaxRows /\ rows' = rows + 1))
    BY <1>3, <1>5 DEF S!StepDone
  <2>2. rows' \in 0..MaxRows
    BY <1>2, <2>1
  <2>3. QED BY <1>1, <1>2, <2>1, <2>2, AnswersWhole
<1>6. CASE S!StepFails
  BY <1>1, <1>6, AnswersWhole DEF S!StepFails
<1>7. QED BY <1>4, <1>5, <1>6

LEMMA SqliteAnswers ==
  ASSUME StatementsInv, DocumentsInv, SqliteStep
  PROVE  DocumentsInv'
<1>1. CASE \E caller, known, params : S!CrabInvoke(caller, known, params)
  <2>1. /\ rows' = rows
        /\ job'.phase = "opening" \/ (job'.phase = "answered" /\ job'.reply = S!reply_abi_err)
    BY <1>1 DEF S!CrabInvoke
  <2>2. WholeAnswers'
    BY <2>1 DEF WholeAnswers, S!WholeAnswers, S!In
  <2>3. QED BY <2>1, <2>2 DEF DocumentsInv
<1>2. CASE S!OpenFails
  <2>1. job.phase = "opening" /\ rows' \in 0..MaxRows /\ S!Answer(TRUE, <<S!Cannot>>)
    BY <1>2 DEF S!OpenFails, S!In, DocumentsInv
  <2>2. QED BY <2>1, AnswersWhole
<1>3. CASE S!Opens
  <2>1. job'.phase = "preparing" /\ out' = <<>> /\ rows' = rows
    BY <1>3 DEF S!Opens, S!In, StatementsInv
  <2>2. WholeAnswers'
    BY <2>1 DEF WholeAnswers, S!WholeAnswers, S!In
  <2>3. QED BY <2>1, <2>2 DEF DocumentsInv
<1>4. CASE S!Taken \/ S!Restart
  <2>1. job'.phase = "idle" /\ rows' = rows
    BY <1>4 DEF S!Taken, S!Restart, S!Idle
  <2>2. WholeAnswers'
    BY <2>1 DEF WholeAnswers, S!WholeAnswers, S!In
  <2>3. QED BY <2>1, <2>2 DEF DocumentsInv
<1>5. CASE Disown
  <2>1. UNCHANGED <<out, rows>> /\ job'.phase = job.phase
        /\ (job.phase # "idle" => job'.reply = job.reply)
    BY <1>5 DEF Disown, StatementsInv
  <2>2. WholeAnswers'
    BY <2>1 DEF WholeAnswers, S!WholeAnswers, S!In, DocumentsInv
  <2>3. QED BY <2>1, <2>2 DEF DocumentsInv
<1>6. CASE UNCHANGED sqliteVars
  BY <1>6 DEF sqliteVars, DocumentsInv, WholeAnswers, S!WholeAnswers, S!In
<1>7. QED BY <1>1, <1>2, <1>3, <1>4, <1>5, <1>6, PrepareAnswers, StepsAnswer
          DEF SqliteStep, S!Step

\* The answer of an exec is a whole document, of no more rows than the table may
\* have, or one message: never the beginning of a document, and nothing that a
\* former exec left in the static buffer (main.c: each breset and reply_result).
THEOREM AnswersAreWhole == Spec => []WholeAnswers
<1>1. Init => StatementsInv /\ DocumentsInv
  <2> SUFFICES ASSUME Init PROVE StatementsInv /\ DocumentsInv
    OBVIOUS
  <2>1. StatementsInv /\ job.phase = "idle" /\ rows = 0
    BY DEF Init, S!Init, S!Idle, StatementsInv, S!StatementsClosed, S!In
  <2>2. rows \in 0..MaxRows
    BY <2>1, RowsAssumption
  <2>3. QED BY <2>1, <2>2 DEF DocumentsInv, WholeAnswers, S!WholeAnswers, S!In
<1>2. StatementsInv /\ DocumentsInv /\ [Next]_vars => (StatementsInv /\ DocumentsInv)'
  BY StepsOfSqlite, SqliteCloses, SqliteAnswers
<1>3. DocumentsInv => WholeAnswers
  BY DEF DocumentsInv
<1>4. QED BY <1>1, <1>2, <1>3, PTL DEF Spec
-----------------------------------------------------------------------------
(* What the guest takes for a text. *)

\* What the ranges of the table come to, by the length of a character.
Ascii == 0..127
Lead2 == 192..223
Lead3 == 224..239
Lead4 == 240..247
Trail == 128..191
Two(a) == a \in 194..223
Three(a, b) == (a = 224 /\ b >= 160) \/ a \in 225..236 \cup 238..239 \/ (a = 237 /\ b <= 159)
Four(a, b) == (a = 240 /\ b >= 144) \/ a \in 241..243 \/ (a = 244 /\ b <= 143)

LEMMA LowBits ==
  /\ \A x \in 128..191 : x % 64 = x - 128
  /\ \A x \in 192..223 : x % 32 = x - 192
  /\ \A x \in 224..239 : x % 16 = x - 224
  /\ \A x \in 240..247 : x % 8 = x - 240
BY SMT

LEMMA Widths ==
  ASSUME NEW x \in AnyByte
  PROVE  /\ Width(x) \in Nat /\ Width(x) <= 4
         /\ Width(x) = 1 <=> x \in Ascii
         /\ Width(x) = 2 <=> x \in Lead2
         /\ Width(x) = 3 <=> x \in Lead3
         /\ Width(x) = 4 <=> x \in Lead4
<1>1. CASE x < 128
  BY <1>1 DEF Width, AnyByte, Ascii, Lead2, Lead3, Lead4
<1>2. CASE x \in 192..223
  BY <1>2 DEF Width, AnyByte, Ascii, Lead2, Lead3, Lead4
<1>3. CASE x \in 224..239
  BY <1>3 DEF Width, AnyByte, Ascii, Lead2, Lead3, Lead4
<1>4. CASE x \in 240..247
  BY <1>4 DEF Width, AnyByte, Ascii, Lead2, Lead3, Lead4
<1>5. CASE x \in 128..191 \cup 248..255
  BY <1>5 DEF Width, AnyByte, Ascii, Lead2, Lead3, Lead4
<1>6. QED BY <1>1, <1>2, <1>3, <1>4, <1>5 DEF AnyByte

LEMMA OneByte ==
  ASSUME NEW a \in Ascii
  PROVE  a >= 0 /\ IsScalar(a)
BY SMT DEF IsScalar, Ascii

LEMMA TwoBytes ==
  ASSUME NEW a \in Lead2, NEW b \in Trail, NEW n, n = (a % 32) * 64 + (b % 64)
  PROVE  n >= 128 /\ IsScalar(n) <=> Two(a)
<1>1. n = (a - 192) * 64 + (b - 128)
  BY LowBits, SMT DEF Trail, Lead2, Lead3, Lead4
<1>2. QED BY <1>1, SMT DEF IsScalar, Two, Trail, Lead2, Lead3, Lead4

LEMMA ThreeBytes ==
  ASSUME NEW a \in Lead3, NEW b \in Trail, NEW d \in Trail,
         NEW n, n = ((a % 16) * 64 + (b % 64)) * 64 + (d % 64)
  PROVE  n >= 2048 /\ IsScalar(n) <=> Three(a, b)
<1>1. n = ((a - 224) * 64 + (b - 128)) * 64 + (d - 128)
  BY LowBits, SMT DEF Trail, Lead2, Lead3, Lead4
<1>2. QED BY <1>1, SMT DEF IsScalar, Three, Trail, Lead2, Lead3, Lead4

LEMMA FourBytes ==
  ASSUME NEW a \in Lead4, NEW b \in Trail, NEW d \in Trail, NEW e \in Trail,
         NEW n, n = (((a % 8) * 64 + (b % 64)) * 64 + (d % 64)) * 64 + (e % 64)
  PROVE  n >= 65536 /\ IsScalar(n) <=> Four(a, b)
<1>1. n = (((a - 240) * 64 + (b - 128)) * 64 + (d - 128)) * 64 + (e - 128)
  BY LowBits, SMT DEF Trail, Lead2, Lead3, Lead4
<1>2. QED BY <1>1, SMT DEF IsScalar, Four, Trail, Lead2, Lead3, Lead4

LEMMA CharacterIs ==
  ASSUME NEW c \in Seq(0..255), c # <<>>
  PROVE  Character(c) <=> Width(c[1]) = Len(c) /\ ScalarValid(c)
<1> DEFINE w == Width(c[1])
           n == Scalar(c)
<1>1. Len(c) \in Nat \ {0} /\ \A i \in 1..Len(c) : c[i] \in AnyByte
  <2>1. Len(c) \in Nat /\ \A i \in 1..Len(c) : c[i] \in AnyByte
    BY BufferType DEF AnyByte
  <2>2. Len(c) # 0
    BY EmptySeq
  <2>3. QED BY <2>1, <2>2
<1>2. c[1] \in AnyByte
  <2>1. 1 \in 1..Len(c)
    BY <1>1
  <2>2. QED BY <1>1, <2>1
<1>3. /\ w \in Nat /\ w <= 4 /\ (w = 1 <=> c[1] \in Ascii) /\ (w = 2 <=> c[1] \in Lead2)
      /\ (w = 3 <=> c[1] \in Lead3) /\ (w = 4 <=> c[1] \in Lead4)
  BY <1>2, Widths
<1> HIDE DEF w
<1> DEFINE trails == \A i \in 2..Len(c) : c[i] \in Trail
<1>4. ScalarValid(c) <=> trails /\ n >= Least(Len(c)) /\ IsScalar(n)
  BY Zenon DEF ScalarValid, Trail
<1> HIDE DEF n, trails
<1>5. CASE Len(c) = 1
  <2>1. trails /\ Least(Len(c)) = 0 /\ n = c[1]
    BY <1>5, SMT DEF Least, Scalar, trails, n
  <2>2. w = 1 => n >= Least(Len(c)) /\ IsScalar(n)
    BY <1>3, <2>1, OneByte
  <2>3. Character(c) <=> c[1] \in Ascii
    <3>1. Len(c) \notin 2..4
      BY <1>5
    <3>2. Character(c) <=> c[1] <= 127
      BY <1>5, <3>1, Zenon DEF Character
    <3>3. \A x \in AnyByte : x <= 127 <=> x \in Ascii
      BY DEF AnyByte, Ascii
    <3>4. QED BY <1>2, <3>2, <3>3
  <2>4. QED BY <1>3, <1>4, <1>5, <2>1, <2>2, <2>3 DEF w
<1>6. CASE Len(c) = 2
  <2>1. trails <=> c[2] \in Trail
    <3>1. \A i \in 2..2 : i = 2
      OBVIOUS
    <3>2. 2 \in 2..2
      OBVIOUS
    <3>3. QED BY <1>6, <3>1, <3>2, Zenon DEF trails
  <2>2. n = (c[1] % 32) * 64 + (c[2] % 64) /\ Least(Len(c)) = 128
    BY <1>6, SMT DEF Scalar, Least, n
  <2>3. Character(c) <=> trails /\ Two(c[1])
    <3>1. Len(c) \in 2..4 /\ Len(c) # 1 /\ Len(c) # 3 /\ Len(c) # 4
      BY <1>6
    <3>2. QED BY <1>6, <3>1, Zenon DEF Character, trails, Two, Trail
  <2>4. w = 2 /\ trails => (n >= Least(Len(c)) /\ IsScalar(n) <=> Two(c[1]))
    <3>1. c[1] \in Lead2 /\ c[2] \in Trail => (n >= 128 /\ IsScalar(n) <=> Two(c[1]))
      BY <2>2, TwoBytes
    <3>2. QED BY <1>3, <2>1, <2>2, <3>1
  <2>5. Two(c[1]) => w = 2
    <3>1. \A a \in 194..223 : a \in Lead2
      BY DEF Lead2
    <3>2. QED BY <1>3, <3>1 DEF Two
  <2>6. QED BY <1>4, <1>6, <2>3, <2>4, <2>5 DEF w
<1>7. CASE Len(c) = 3
  <2>1. trails <=> c[2] \in Trail /\ c[3] \in Trail
    <3>1. \A i \in 2..3 : i = 2 \/ i = 3
      OBVIOUS
    <3>2. 2 \in 2..3 /\ 3 \in 2..3
      OBVIOUS
    <3>3. QED BY <1>7, <3>1, <3>2, Zenon DEF trails
  <2>2. n = ((c[1] % 16) * 64 + (c[2] % 64)) * 64 + (c[3] % 64) /\ Least(Len(c)) = 2048
    BY <1>7, SMT DEF Scalar, Least, n
  <2>3. Character(c) <=> trails /\ Three(c[1], c[2])
    <3>1. Len(c) \in 2..4 /\ Len(c) # 1 /\ Len(c) # 2 /\ Len(c) # 4
      BY <1>7
    <3>2. QED BY <1>7, <3>1, Zenon DEF Character, trails, Three, Trail
  <2>4. w = 3 /\ trails => (n >= Least(Len(c)) /\ IsScalar(n) <=> Three(c[1], c[2]))
    <3>1. c[1] \in Lead3 /\ c[2] \in Trail /\ c[3] \in Trail
            => (n >= 2048 /\ IsScalar(n) <=> Three(c[1], c[2]))
      BY <2>2, ThreeBytes
    <3>2. QED BY <1>3, <2>1, <2>2, <3>1
  <2>5. Three(c[1], c[2]) => w = 3
    <3>1. c[1] = 224 \/ c[1] \in 225..236 \cup 238..239 \/ c[1] = 237 => c[1] \in Lead3
      BY DEF Lead3
    <3>2. QED BY <1>3, <3>1, Zenon DEF Three
  <2>6. QED BY <1>4, <1>7, <2>3, <2>4, <2>5 DEF w
<1>8. CASE Len(c) = 4
  <2>1. trails <=> c[2] \in Trail /\ c[3] \in Trail /\ c[4] \in Trail
    <3>1. \A i \in 2..4 : i = 2 \/ i = 3 \/ i = 4
      OBVIOUS
    <3>2. 2 \in 2..4 /\ 3 \in 2..4 /\ 4 \in 2..4
      OBVIOUS
    <3>3. QED BY <1>8, <3>1, <3>2, Zenon DEF trails
  <2>2. /\ n = (((c[1] % 8) * 64 + (c[2] % 64)) * 64 + (c[3] % 64)) * 64 + (c[4] % 64)
        /\ Least(Len(c)) = 65536
    BY <1>8, SMT DEF Scalar, Least, n
  <2>3. Character(c) <=> trails /\ Four(c[1], c[2])
    <3>1. Len(c) \in 2..4 /\ Len(c) # 1 /\ Len(c) # 2 /\ Len(c) # 3
      BY <1>8
    <3>2. QED BY <1>8, <3>1, Zenon DEF Character, trails, Four, Trail
  <2>4. w = 4 /\ trails => (n >= Least(Len(c)) /\ IsScalar(n) <=> Four(c[1], c[2]))
    <3>1. c[1] \in Lead4 /\ c[2] \in Trail /\ c[3] \in Trail /\ c[4] \in Trail
            => (n >= Least(Len(c)) /\ IsScalar(n) <=> Four(c[1], c[2]))
      BY <2>2, FourBytes, SMT
    <3>2. QED BY <1>3, <2>1, <3>1, Zenon
  <2>5. Four(c[1], c[2]) => w = 4
    <3>1. c[1] = 240 \/ c[1] \in 241..243 \/ c[1] = 244 => c[1] \in Lead4
      BY DEF Lead4
    <3>2. QED BY <1>3, <3>1, Zenon DEF Four
  <2>6. QED BY <1>4, <1>8, <2>3, <2>4, <2>5 DEF w
<1>9. CASE Len(c) > 4
  <2>1. Len(c) # 1 /\ Len(c) \notin 2..4 /\ Len(c) # w
    BY <1>1, <1>3, <1>9
  <2>2. QED BY <2>1, Zenon DEF Character, w
<1>10. Len(c) = 1 \/ Len(c) = 2 \/ Len(c) = 3 \/ Len(c) = 4 \/ Len(c) > 4
  <2>1. \A k \in Nat \ {0} : k = 1 \/ k = 2 \/ k = 3 \/ k = 4 \/ k > 4
    OBVIOUS
  <2>2. QED BY <1>1, <2>1
<1>11. QED BY <1>5, <1>6, <1>7, <1>8, <1>9, <1>10

\* The one character that may stand at a place ends where the lead byte says.
LEMMA StepIs ==
  ASSUME NEW s \in Seq(AnyByte), NEW i \in Nat, NEW j \in Nat, i < j, j <= Len(s)
  PROVE  Character(SubSeq(s, i + 1, j)) <=> Sound(s, i) /\ j = i + Width(s[i + 1])
<1> DEFINE lo == i + 1
           c == SubSeq(s, lo, j)
           w == Width(s[i + 1])
<1>1. Len(s) \in Nat /\ \A k \in 1..Len(s) : s[k] \in AnyByte
  BY BufferType DEF AnyByte
<1>2. lo \in Int /\ j \in Int /\ (\A k \in lo..j : s[k] \in AnyByte) /\ j - lo + 1 = j - i /\ lo <= j
      /\ i + 1 \in 1..Len(s)
  BY <1>1
<1>3. c \in Seq(AnyByte) /\ Len(c) = j - i /\ \A k \in 1..j - i : c[k] = s[lo + k - 1]
  <2> HIDE DEF lo
  <2>1. QED BY <1>2, SubSeqProperties
<1>4. c # <<>> /\ c[1] = s[i + 1]
  <2>1. 1 \in 1..j - i /\ lo + 1 - 1 = i + 1
    BY <1>2
  <2>2. j - i # 0
    OBVIOUS
  <2> HIDE DEF c, lo
  <2>3. c[1] = s[i + 1]
    BY <1>3, <2>1
  <2>4. c # <<>>
    BY <1>3, <2>2
  <2>5. QED BY <2>3, <2>4
<1>5. w \in Nat
  BY <1>1, <1>2, Widths
<1> HIDE DEF c
<1>6. Character(c) <=> w = j - i /\ ScalarValid(c)
  <2>1. c \in Seq(0..255)
    BY <1>3 DEF AnyByte
  <2>2. QED BY <1>3, <1>4, <2>1, CharacterIs
<1>7. w = j - i <=> j = i + w
  <2> HIDE DEF w
  <2>1. QED BY <1>5
<1>8. j = i + w => (Sound(s, i) <=> ScalarValid(c))
  <2>1. j = i + w => w # 0 /\ i + w <= Len(s)
    <3> HIDE DEF w
    <3>1. QED BY <1>5
  <2>2. j = i + w => c = SubSeq(s, i + 1, i + w)
    BY DEF c
  <2>3. Sound(s, i) <=> w # 0 /\ i + w <= Len(s) /\ ScalarValid(SubSeq(s, i + 1, i + w))
    BY Zenon DEF Sound
  <2> HIDE DEF w
  <2>4. QED BY <2>1, <2>2, <2>3
<1>9. QED BY <1>6, <1>7, <1>8 DEF c

\* What the guest takes for a text is what the Unicode standard takes for one: its
\* check by lead byte, continuation bytes and code point (Utf8Valid) is the
\* standard's table of well-formed byte sequences.
THEOREM Utf8IsUnicode ==
  ASSUME NEW s \in Seq(0..255)
  PROVE  (Utf8Valid(s) <=> Unicode(s)) /\ Unicode(s) \in BOOLEAN
<1> DEFINE n == Len(s)
           next(i) == i + Width(s[i + 1])
           Table(f, i) == i = n \/ \E j \in i+1..n : Character(SubSeq(s, i + 1, j)) /\ f[j]
           Body(f) == [i \in 0..Len(s) |->
              i = Len(s) \/ \E j \in i+1..Len(s) : Character(SubSeq(s, i + 1, j)) /\ f[j]]
           from == CHOOSE f : f = Body(f)
<1>1. n \in Nat /\ s \in Seq(AnyByte)
  BY BufferType DEF AnyByte
<1>2. PICK f \in [0..n -> BOOLEAN] :
        /\ Utf8Valid(s) <=> f[0]
        /\ \A i \in 0..n : f[i] <=> (i = n \/ (Sound(s, i) /\ f[next(i)]))
  BY Utf8Is
<1>3. ASSUME NEW i \in 0..n, i # n
      PROVE  /\ \A j \in i+1..n : Character(SubSeq(s, i + 1, j)) <=> Sound(s, i) /\ j = next(i)
             /\ Sound(s, i) => next(i) \in i+1..n
  <2>1. i \in Nat /\ \A j \in i+1..n : j \in Nat /\ i < j /\ j <= n
    BY <1>1
  <2>2. \A j \in i+1..n : Character(SubSeq(s, i + 1, j)) <=> Sound(s, i) /\ j = next(i)
    <3> HIDE DEF n
    <3>1. ASSUME NEW j \in i+1..n
          PROVE  Character(SubSeq(s, i + 1, j)) <=> Sound(s, i) /\ j = next(i)
      <4>1. j \in Nat /\ i < j /\ j <= Len(s)
        BY <2>1 DEF n
      <4>2. QED BY <1>1, <2>1, <4>1, StepIs
    <3>2. QED BY <3>1
  <2>3. Sound(s, i) => next(i) \in i+1..n
    <3> DEFINE w == Width(s[i + 1])
    <3>1. i + 1 \in 1..n
      BY <1>1, <1>3
    <3>2. w \in Nat
      <4>1. s[i + 1] \in AnyByte
        BY <3>1, BufferType DEF AnyByte
      <4>2. QED BY <4>1, Widths
    <3>3. Sound(s, i) => w # 0 /\ i + w <= n
      BY Zenon DEF Sound
    <3> HIDE DEF w, n
    <3>4. QED BY <1>1, <3>2, <3>3 DEF w
  <2>4. QED BY <2>2, <2>3
<1>4. ASSUME NEW g, NEW i \in 0..n, i # n
      PROVE  Table(g, i) <=> Sound(s, i) /\ g[next(i)]
  <2> HIDE DEF n, next
  <2>1. QED BY <1>3, <1>4, Zenon
<1>5. ASSUME NEW g, NEW i \in 0..n, i = n
      PROVE  Table(g, i)
  BY <1>5
<1> HIDE DEF next
<1>6. \E g : g = Body(g)
  <2>1. \A i \in 0..n : f[i] \in BOOLEAN
    OBVIOUS
  <2>2. ASSUME NEW i \in 0..n
        PROVE  f[i] <=> Table(f, i)
    <3> HIDE DEF n, Table
    <3>1. CASE i = n
      BY <1>2, <1>5, <3>1
    <3>2. CASE i # n
      <4>1. f[i] <=> Sound(s, i) /\ f[next(i)]
        BY <1>2, <3>2
      <4>2. QED BY <1>4, <3>2, <4>1
    <3>3. QED BY <3>1, <3>2
  <2>3. \A i \in 0..n : Body(f)[i] = Table(f, i)
    BY Zenon
  <2>4. \A i \in 0..n : Table(f, i) \in BOOLEAN
    BY Zenon
  <2>5. Body(f) = [i \in 0..n |-> Body(f)[i]]
    BY Zenon
  <2>6. f = [i \in 0..n |-> f[i]]
    OBVIOUS
  <2> HIDE DEF Body, Table, n
  <2>7. \A i \in 0..n : f[i] = Body(f)[i]
    BY <2>1, <2>2, <2>3, <2>4
  <2>8. f = Body(f)
    BY <2>5, <2>6, <2>7
  <2>9. QED BY <2>8
<1>7. Unicode(s) = from[0]
  BY Zenon DEF Unicode
<1>8. from = Body(from)
  <2> HIDE DEF Body
  <2>1. QED BY <1>6
<1> HIDE DEF from
<1>9. \A i \in 0..n : from[i] = Table(from, i)
  BY <1>8, Zenon
<1> DEFINE A == {k \in Nat : \A i \in 0..n : n - i < k => (f[i] <=> from[i])}
<1> HIDE DEF Body, Table
<1>10. ASSUME NEW k \in Nat, k \in A
       PROVE  k + 1 \in A
  <2> SUFFICES ASSUME NEW i \in 0..n, n - i < k + 1
               PROVE  f[i] <=> from[i]
    OBVIOUS
  <2>1. CASE i = n
    BY <1>2, <1>5, <1>9, <2>1
  <2>2. CASE i # n
    <3>1. /\ f[i] <=> Sound(s, i) /\ f[next(i)]
          /\ from[i] <=> Sound(s, i) /\ from[next(i)]
      BY <1>2, <1>4, <1>9, <2>2
    <3>2. Sound(s, i) => (f[next(i)] <=> from[next(i)])
      <4>1. Sound(s, i) => next(i) \in i+1..n
        BY <1>3, <2>2
      <4>2. \A j \in i+1..n : j \in 0..n /\ n - j < k
        <5> HIDE DEF n
        <5>1. QED BY <1>1
      <4>3. QED BY <1>10, <4>1, <4>2
    <3>3. QED BY <3>1, <3>2
  <2>3. QED BY <2>1, <2>2
<1>11. 0 \in A
  <2>1. \A i \in 0..n : ~(n - i < 0)
    <3> HIDE DEF n
    <3>1. QED BY <1>1
  <2>2. QED BY <2>1
<1>12. n + 1 \in A
  <2> HIDE DEF A
  <2>1. Nat \subseteq A
    BY <1>10, <1>11, Induction
  <2>2. n + 1 \in Nat
    BY <1>1
  <2>3. QED BY <2>1, <2>2
<1>13. 0 \in 0..n /\ n - 0 < n + 1
  <2> HIDE DEF n
  <2>1. QED BY <1>1
<1>14. f[0] <=> from[0]
  BY <1>12, <1>13
<1>15. from[0] \in BOOLEAN
  <2>1. from[0] = Table(from, 0)
    BY <1>9, <1>13
  <2>2. Table(from, 0) \in BOOLEAN
    BY Zenon DEF Table
  <2>3. QED BY <2>1, <2>2
<1>16. QED BY <1>2, <1>7, <1>14, <1>15

\* A text of one-byte characters is one ...
LEMMA AsciiIsText ==
  ASSUME NEW s \in Seq(0..255), \A i \in 1..Len(s) : s[i] \in Ascii
  PROVE  Utf8Valid(s)
<1> DEFINE n == Len(s)
<1>1. n \in Nat /\ s \in Seq(AnyByte)
  BY BufferType DEF AnyByte
<1>2. PICK f \in [0..n -> BOOLEAN] :
        /\ Utf8Valid(s) <=> f[0]
        /\ \A i \in 0..n : f[i] <=> (i = n \/ (Sound(s, i) /\ f[i + Width(s[i + 1])]))
  BY Utf8Is
<1>3. ASSUME NEW i \in 0..n, i # n
      PROVE  Sound(s, i) /\ i + Width(s[i + 1]) = i + 1 /\ i + 1 \in 0..n
  <2>1. i \in Nat /\ i + 1 \in 1..n /\ i + 1 \in 0..n /\ i + 1 \in Nat /\ i < i + 1 /\ i + 1 <= Len(s)
    BY <1>1, <1>3
  <2>2. s[i + 1] \in Ascii /\ s[i + 1] \in AnyByte
    BY <2>1 DEF Ascii, AnyByte
  <2>3. Width(s[i + 1]) = 1
    BY <2>2, Widths
  <2> DEFINE lo == i + 1
             c == SubSeq(s, lo, lo)
  <2>4. lo \in Int /\ (\A k \in lo..lo : s[k] \in Ascii) /\ lo <= lo /\ lo - lo + 1 = 1
    <3>1. lo \in Int /\ lo <= lo /\ lo - lo + 1 = 1 /\ \A k \in lo..lo : k = lo
      BY <2>1
    <3>2. QED BY <2>2, <3>1
  <2>5. Len(c) = 1 /\ c[1] = s[lo]
    <3> HIDE DEF lo
    <3>1. Len(c) = 1 /\ \A k \in 1..1 : c[k] = s[lo + k - 1]
      BY <2>4, SubSeqProperties
    <3>2. 1 \in 1..1 /\ lo + 1 - 1 = lo
      BY <2>4
    <3> HIDE DEF c
    <3>3. QED BY <3>1, <3>2
  <2>6. c[1] <= 127
    <3>1. \A x \in Ascii : x <= 127
      BY DEF Ascii
    <3>2. QED BY <2>2, <2>5, <3>1
  <2>7. Character(SubSeq(s, i + 1, i + 1))
    <3>1. Character(c)
      <4> HIDE DEF c
      <4>1. QED BY <2>5, <2>6 DEF Character
    <3>2. QED BY <3>1
  <2>8. Sound(s, i)
    <3> HIDE DEF c, lo, n
    <3>1. QED BY <1>1, <2>1, <2>7, StepIs
  <2>9. QED BY <2>1, <2>3, <2>8
<1> DEFINE A == {k \in Nat : \A i \in 0..n : n - i < k => f[i]}
<1>4. 0 \in A
  <2>1. \A i \in 0..n : ~(n - i < 0)
    <3> HIDE DEF n
    <3>1. QED BY <1>1
  <2>2. QED BY <2>1
<1>5. ASSUME NEW k \in Nat, k \in A
      PROVE  k + 1 \in A
  <2> SUFFICES ASSUME NEW i \in 0..n, n - i < k + 1
               PROVE  f[i]
    OBVIOUS
  <2>1. CASE i = n
    BY <1>2, <2>1
  <2>2. CASE i # n
    <3>1. f[i] <=> f[i + 1]
      <4> HIDE DEF n
      <4>1. QED BY <1>2, <1>3, <2>2
    <3>2. i + 1 \in 0..n /\ n - (i + 1) < k
      <4> HIDE DEF n
      <4>1. QED BY <1>1, <1>3, <2>2
    <3>3. f[i + 1]
      <4> HIDE DEF n
      <4>1. QED BY <1>5, <3>2
    <3>4. QED BY <3>1, <3>3
  <2>3. QED BY <2>1, <2>2
<1>6. n + 1 \in A
  <2> HIDE DEF A
  <2>1. Nat \subseteq A
    BY <1>4, <1>5, Induction
  <2>2. n + 1 \in Nat
    BY <1>1
  <2>3. QED BY <2>1, <2>2
<1>7. 0 \in 0..n /\ n - 0 < n + 1
  <2> HIDE DEF n
  <2>1. QED BY <1>1
<1>8. QED BY <1>2, <1>6, <1>7

\* ... and no other byte is one by itself.
LEMMA OneTextIsAscii ==
  ASSUME NEW c \in AnyByte, Utf8Valid(<<c>>)
  PROVE  c \in Ascii
<1> DEFINE s == <<c>>
<1>1. s \in Seq(0..255) /\ Len(s) = 1 /\ s[0 + 1] = c
  BY DEF AnyByte
<1> HIDE DEF s
<1>2. PICK f \in [0..Len(s) -> BOOLEAN] :
        /\ Utf8Valid(s) <=> f[0]
        /\ \A i \in 0..Len(s) : f[i] <=> (i = Len(s) \/ (Sound(s, i) /\ f[i + Width(s[i + 1])]))
  BY <1>1, Utf8Is
<1>3. 0 \in 0..Len(s) /\ 0 # Len(s)
  BY <1>1
<1>4. Sound(s, 0)
  BY <1>2, <1>3 DEF s
<1>5. Width(c) # 0 /\ 0 + Width(c) <= 1
  BY <1>1, <1>4, Zenon DEF Sound
<1>6. Width(c) = 1
  <2>1. Width(c) \in Nat
    BY Widths
  <2>2. QED BY <1>5, <2>1
<1>7. QED BY <1>6, Widths
-----------------------------------------------------------------------------
(* What the guest says of a mesh call that failed. *)

\* The guest's codec is the one that CodecProofs is about.
LEMMA GuestCodec ==
  /\ G!EncodeUleb = EncodeUleb
  /\ \A s : G!EncodeString(s) = EncodeString(s)
  /\ \A s : G!Utf8Valid(s) = Utf8Valid(s)
  /\ \A buf, pos : G!String(buf, pos) = String(buf, pos)
<1>1. G!EncodeUleb = EncodeUleb
  BY DEF G!EncodeUleb, EncodeUleb
<1>2. \A s : G!EncodeString(s) = EncodeString(s)
  BY <1>1 DEF G!EncodeString, EncodeString
<1>3. \A s : G!Utf8Valid(s) = Utf8Valid(s)
  BY SMT DEF G!Utf8Valid, Utf8Valid, G!Width, Width, G!ScalarValid, ScalarValid, G!Least, Least,
    G!Scalar, Scalar, G!IsScalar, IsScalar
<1>4. \A bits, buf, pos : G!Uleb(bits, buf, pos) = Uleb(bits, buf, pos)
  <2>1. \A groups, buf, pos : G!Span(groups, buf, pos) = Span(groups, buf, pos)
    BY DEF G!Span, Span, G!Remaining, Remaining, G!Min, Min
  <2>2. G!Pow2 = Pow2 /\ G!Value = Value
    BY DEF G!Pow2, Pow2, G!Value, Value
  <2>3. \A k, bits, buf, pos : G!UlebOf(k, bits, buf, pos) = UlebOf(k, bits, buf, pos)
    <3>1. \A k, buf, pos : G!Payload(k, buf, pos) = Payload(k, buf, pos)
      BY <2>2 DEF G!Payload, Payload
    <3>2. G!Fail = Fail
      BY DEF G!Fail, Fail
    <3>3. \A val, pos : G!Ok(val, pos) = Ok(val, pos)
      BY DEF G!Ok, Ok
    <3>4. QED BY <2>2, <3>1, <3>2, <3>3 DEF G!UlebOf, UlebOf
  <2>4. \A bits : G!Groups(bits) = Groups(bits)
    BY DEF G!Groups, Groups
  <2>5. QED BY <2>1, <2>3, <2>4, Zenon DEF G!Uleb, Uleb
<1>5. \A n, buf, pos : G!Bytes(n, buf, pos) = Bytes(n, buf, pos)
  BY Zenon DEF G!Bytes, Bytes, G!Remaining, Remaining, G!Ok, Ok, G!Fail, Fail
<1>6. G!Fail = Fail
  BY Zenon DEF G!Fail, Fail
<1>7. \A buf, pos : G!String(buf, pos) = String(buf, pos)
  BY <1>3, <1>4, <1>5, <1>6, Zenon DEF G!String, String, G!Then, Then
<1>8. QED BY <1>1, <1>2, <1>3, <1>7

\* What a frame can hold: its length has 32 bits.
Frameable(payload) == payload \in Octets /\ Len(payload) < 4294967296

LEMMA Joined ==
  ASSUME NEW a \in Int, NEW b \in Int
  PROVE  <<a>> \o <<b>> = <<a, b>>
<1>1. <<a>> \in Seq(Int)
  OBVIOUS
<1>2. <<a>> \o <<b>> = Append(<<a>>, b)
  BY <1>1, AppendIsConcat
<1>3. QED BY <1>2, Pair

\* A frame is read back.
LEMMA LenbufReadsBack ==
  ASSUME NEW payload, Frameable(payload)
  PROVE  G!ReadLenbuf(G!Lenbuf(payload)) = payload
<1> DEFINE n == Len(payload)
           b1 == n % 256
           b2 == (n \div 256) % 256
           b3 == (n \div 65536) % 256
           b4 == (n \div 16777216) % 256
           head == <<b1, b2, b3, b4>>
           buf == head \o payload
           Octet == 0..255
<1>1. n \in Nat /\ payload \in Seq(Octet)
  BY DEF Frameable, Octets
<1>2. b1 \in Octet /\ b2 \in Octet /\ b3 \in Octet /\ b4 \in Octet
  <2>1. \A m \in Nat : m % 256 \in Octet
    BY SMT
  <2>2. n \div 256 \in Nat /\ n \div 65536 \in Nat /\ n \div 16777216 \in Nat
    <3>1. \A m \in Nat : m \div 256 \in Nat /\ m \div 65536 \in Nat /\ m \div 16777216 \in Nat
      BY SMT
    <3>2. QED BY <1>1, <3>1, SMT
  <2> HIDE DEF Octet
  <2>3. QED BY <1>1, <2>1, <2>2, SMT
<1>3. b1 + b2 * 256 + b3 * 65536 + b4 * 16777216 = n
  <2>1. \A m \in Nat : m < 4294967296 =>
          (m % 256) + ((m \div 256) % 256) * 256 + ((m \div 65536) % 256) * 65536
            + ((m \div 16777216) % 256) * 16777216 = m
    BY SMT
  <2>2. n < 4294967296
    BY SMT DEF Frameable
  <2>3. QED BY <1>1, <2>1, <2>2, SMT
<1> HIDE DEF Octet, b1, b2, b3, b4
<1>4. head \in Seq(Octet) /\ Len(head) = 4 /\ head[1] = b1 /\ head[2] = b2 /\ head[3] = b3 /\ head[4] = b4
  BY <1>2
<1> HIDE DEF head
<1>5. /\ buf \in Seq(Octet) /\ Len(buf) = 4 + n
      /\ \A i \in 1..4 + n : buf[i] = IF i <= 4 THEN head[i] ELSE payload[i - 4]
  <2>1. /\ buf \in Seq(Octet) /\ Len(buf) = Len(head) + n
        /\ \A i \in 1..Len(head) + n :
             buf[i] = IF i <= Len(head) THEN head[i] ELSE payload[i - Len(head)]
    BY <1>1, <1>4, ConcatProperties
  <2> HIDE DEF buf, n
  <2>2. QED BY <1>4, <2>1
<1>6. G!Lenbuf(payload) = buf
  BY SMT DEF G!Lenbuf, head, b1, b2, b3, b4
<1> HIDE DEF buf
<1>7. buf[1] = b1 /\ buf[2] = b2 /\ buf[3] = b3 /\ buf[4] = b4
  BY <1>1, <1>4, <1>5
<1>8. SubSeq(buf, 5, 4 + n) = payload
  <2> DEFINE q == SubSeq(buf, 5, 4 + n)
  <2>1. /\ 5 \in Int /\ 4 + n \in Int /\ (\A i \in 5..4 + n : buf[i] \in Octet)
        /\ (4 + n) - 5 + 1 = n
    <3>1. \A i \in 1..Len(buf) : buf[i] \in Octet
      BY <1>5, ElementOfSeq
    <3>2. QED BY <1>1, <1>5, <3>1
  <2>2. /\ q \in Seq(Octet) /\ Len(q) = n
        /\ \A i \in 1..n : q[i] = buf[5 + i - 1]
    <3> DEFINE lo == 5
               hi == 4 + n
    <3>1. /\ lo \in Int /\ hi \in Int /\ (\A i \in lo..hi : buf[i] \in Octet)
          /\ hi - lo + 1 = n /\ (lo <= hi \/ n = 0)
      BY <1>1, <2>1
    <3> HIDE DEF lo, hi
    <3>2. /\ SubSeq(buf, lo, hi) \in Seq(Octet) /\ Len(SubSeq(buf, lo, hi)) = n
          /\ \A i \in 1..n : SubSeq(buf, lo, hi)[i] = buf[lo + i - 1]
      BY <1>1, <3>1, SubSeqProperties
    <3>3. QED BY <3>2 DEF lo, hi
  <2> HIDE DEF q
  <2>3. \A i \in 1..n : q[i] = payload[i]
    <3>1. \A i \in 1..n : 5 + i - 1 = 4 + i /\ 4 + i \in 1..4 + n /\ ~(4 + i <= 4) /\ (4 + i) - 4 = i
      BY <1>1
    <3>2. QED BY <1>5, <2>2, <3>1
  <2>4. q = payload
    BY <1>1, <2>2, <2>3, SeqEqual
  <2>5. QED BY <2>4 DEF q
<1>9. G!ReadLenbuf(buf) = SubSeq(buf, 5, 4 + (buf[1] + buf[2] * 256 + buf[3] * 65536 + buf[4] * 16777216))
  BY SMT DEF G!ReadLenbuf
<1>10. QED BY <1>3, <1>6, <1>7, <1>8, <1>9, SMT

\* A message is short enough for one byte to tell its length.
Short(m) == m \in Octets /\ Len(m) < 128 /\ Len(m) < Pow2[Int32]

\* An error as a reply or as a result tells it.
Error(m) == <<1>> \o EncodeString(m)

LEMMA ErrorIs ==
  ASSUME NEW m, Short(m)
  PROVE  /\ Error(m) \in Octets /\ Len(Error(m)) = Len(m) + 2 /\ Len(m) \in Nat
         /\ EncodeString(m) \in Octets /\ Len(EncodeString(m)) = Len(m) + 1
         /\ Error(m)[1] = 1 /\ Tail(Error(m)) = EncodeString(m) /\ Tail(Tail(Error(m))) = m
         /\ Holds(Error(m), 1, EncodeString(m))
         /\ \A i \in 1..Len(m) : Error(m)[i + 2] = m[i]
<1> DEFINE n == Len(m)
           e == EncodeString(m)
           p == Error(m)
<1>1. n \in Nat /\ n < 128 /\ n \in 0..255 /\ m \in Octets
  <2>1. m \in Octets /\ n < 128
    BY DEF Short
  <2>2. n \in Nat
    BY <2>1, BufferType DEF Octets
  <2> HIDE DEF n
  <2>3. QED BY <2>1, <2>2
<1>2. e = <<n>> \o m
  BY <1>1, EncodeUlebIs DEF EncodeString
<1>3. p = <<1>> \o e
  BY DEF Error
<1> HIDE DEF n, e, p
<1>4. e \in Octets /\ Len(e) = n + 1 /\ Tail(e) = m
  BY <1>1, <1>2, Prefixed DEF n
<1>5. \A i \in 1..n : e[i + 1] = m[i]
  BY <1>1, <1>2, Prefixed DEF n
<1>6. 1 \in 0..255
  OBVIOUS
<1>7. p \in Octets /\ Len(p) = Len(e) + 1 /\ p[1] = 1 /\ Tail(p) = e
  BY <1>3, <1>4, <1>6, Prefixed
<1>8. \A i \in 1..Len(e) : p[i + 1] = e[i]
  BY <1>3, <1>4, <1>6, Prefixed
<1>9. Len(e) = n + 1 /\ Len(p) = n + 2 /\ n \in Nat
  BY <1>1, <1>4, <1>7
<1>10. Holds(p, 1, e)
  <2>1. 1 + Len(e) <= Len(p) /\ 1 \in Nat
    BY <1>9
  <2>2. p \in Seq(0..255)
    BY <1>7 DEF Octets
  <2>3. \A i \in 1..Len(e) : p[1 + i] = e[i]
    <3>1. \A i \in 1..Len(e) : 1 + i = i + 1
      BY <1>9
    <3>2. QED BY <1>8, <3>1
  <2>4. QED BY <2>1, <2>2, <2>3 DEF Holds
<1>11. \A i \in 1..n : p[i + 2] = m[i]
  <2>1. \A i \in 1..n : i + 1 \in 1..Len(e) /\ (i + 1) + 1 = i + 2
    BY <1>9
  <2>2. ASSUME NEW i \in 1..n
        PROVE  p[i + 2] = m[i]
    <3>1. p[(i + 1) + 1] = e[i + 1]
      BY <1>8, <2>1
    <3>2. QED BY <1>5, <2>1, <3>1
  <2>3. QED BY <2>2
<1>12. Tail(Tail(p)) = m
  BY <1>4, <1>7
<1>13. QED BY <1>4, <1>7, <1>9, <1>10, <1>11, <1>12, Zenon DEF n, e, p

\* A guest reads from an error the message it tells, if it is one.
LEMMA ErrorReadsBack ==
  ASSUME NEW m, Short(m)
  PROVE  G!Finished(Error(m), G!String(Error(m), 1))
           = IF Utf8Valid(m) THEN Ok(m, Len(m) + 2) ELSE Fail
<1>1. /\ m \in Seq(0..255) /\ Len(m) < Pow2[Int32] /\ Holds(Error(m), 1, EncodeString(m))
      /\ Len(EncodeString(m)) = Len(m) + 1 /\ Len(Error(m)) = Len(m) + 2 /\ Len(m) \in Nat
  BY ErrorIs DEF Short, Octets
<1>2. String(Error(m), 1) = IF Utf8Valid(m) THEN Ok(m, 1 + Len(EncodeString(m))) ELSE Fail
  BY <1>1, StringReadsBack
<1>3. 1 + Len(EncodeString(m)) = Len(m) + 2 /\ Len(Error(m)) - (Len(m) + 2) = 0
  BY <1>1
<1>4. G!String(Error(m), 1) = IF Utf8Valid(m) THEN Ok(m, Len(m) + 2) ELSE Fail
  BY <1>2, <1>3, GuestCodec
<1>5. G!Fail = Fail /\ ~Fail.ok /\ Ok(m, Len(m) + 2).ok /\ Ok(m, Len(m) + 2).pos = Len(m) + 2
  BY DEF G!Fail, Fail, Ok
<1>6. CASE Utf8Valid(m)
  BY <1>3, <1>4, <1>5, <1>6 DEF G!Finished, G!Remaining
<1>7. CASE ~Utf8Valid(m)
  BY <1>4, <1>5, <1>7 DEF G!Finished
<1>8. QED BY <1>6, <1>7

LEMMA OneFits == 1 < Pow2[Int32] /\ Pow2[Int32] \in Nat
<1>1. Int32 \in Nat /\ 1 \in 0..Int32 /\ 1 \in Nat /\ 0 \in Nat
  BY WidthAssumption
<1>2. Pow2[1] <= Pow2[Int32] /\ Pow2[Int32] \in Nat
  BY <1>1, Pow2Grows, Pow2Type
<1>3. Pow2[0] = 1 /\ Pow2[0 + 1] = 2 * Pow2[0] /\ 0 + 1 = 1
  BY <1>1, Pow2Is
<1>4. QED BY <1>2, <1>3

\* What is told of a message: itself, or that it was none.
Retold(m) == IF Utf8Valid(m) THEN m ELSE G!Message.mesh

LEMMA RetoldShort ==
  ASSUME NEW m, Short(m)
  PROVE  Short(Retold(m)) /\ (m # <<>> => Retold(m) # <<>>)
<1>1. 1 < Pow2[Int32]
  BY OneFits
<1>2. G!Message.mesh = <<3>>
  BY DEF G!Message
<1>3. <<3>> \in Octets /\ Len(<<3>>) = 1 /\ <<3>> # <<>>
  BY DEF Octets
<1>4. Short(G!Message.mesh) /\ G!Message.mesh # <<>>
  <2>1. Len(<<3>>) < 128
    BY <1>3
  <2>2. QED BY <1>1, <1>2, <1>3, <2>1 DEF Short
<1>5. QED BY <1>4 DEF Retold

LEMMA BitRead ==
  ASSUME NEW x, NEW b, b = [ok |-> TRUE, val |-> x, pos |-> 1],
         NEW tag, tag = [b EXCEPT !.val = @ = 1]
  PROVE  tag.ok /\ (tag.val <=> x = 1) /\ tag.pos = 1
BY Zenon

\* Both ways in which a failure arrives tell the message: as that of the call, ...
LEMMA ErrorParsed ==
  ASSUME NEW m, Short(m), m # <<>>, NEW silent
  PROVE  G!Wrapped(G!ParseMeshReply(Error(m)), silent) = [ok |-> FALSE, val |-> Retold(m)]
<1> DEFINE p == Error(m)
           f == G!Finished(p, G!String(p, 1))
<1>1. p[1] = 1
  BY ErrorIs
<1>2. f = IF Utf8Valid(m) THEN Ok(m, Len(m) + 2) ELSE Fail
  BY ErrorReadsBack
<1> HIDE DEF p, f
<1>3. G!Said(f) = Retold(m)
  BY <1>2 DEF G!Said, Retold, Ok, Fail
<1>4. G!ParseMeshReply(p) = G!Failed(G!Said(f))
  BY <1>1 DEF G!ParseMeshReply, f
<1>5. G!ParseMeshReply(p) = [ok |-> FALSE, val |-> Retold(m)]
  BY <1>3, <1>4, RetoldShort DEF G!Failed
<1>6. QED BY <1>5 DEF G!Wrapped, p

\* ... or as the err of a result.
LEMMA ResultTold ==
  ASSUME NEW m, Short(m), NEW silent
  PROVE  G!Wrapped(G!ParseMeshReply(<<0>> \o Error(m)), silent) = G!Failed(Retold(m))
<1> DEFINE p == Error(m)
           s == <<0>> \o p
           f == G!Finished(p, G!String(p, 1))
           tag == G!PrefixBit(p, 0)
<1>1. p \in Octets /\ p[1] = 1 /\ Len(p) = Len(m) + 2 /\ Len(m) \in Nat
  BY ErrorIs
<1>2. f = IF Utf8Valid(m) THEN Ok(m, Len(m) + 2) ELSE Fail
  BY ErrorReadsBack
<1> HIDE DEF p
<1>3. s[1] = 0 /\ Tail(s) = p
  <2>1. 0 \in 0..255
    OBVIOUS
  <2>2. QED BY <1>1, <2>1, Prefixed
<1> HIDE DEF s, f
<1>4. G!ParseMeshReply(s) = [ok |-> TRUE, val |-> p]
  BY <1>3 DEF G!ParseMeshReply, G!Done
<1>5. tag.ok /\ tag.val /\ tag.pos = 1
  <2>1. ~(Len(p) - 0 < 1) /\ p[0 + 1] = 1 /\ 0 + 1 = 1
    BY <1>1
  <2>2. G!Byte(p, 0) = [ok |-> TRUE, val |-> 1, pos |-> 1]
    BY <2>1 DEF G!Byte, G!Remaining, G!Ok
  <2>3. tag = [G!Byte(p, 0) EXCEPT !.val = @ = 1]
    BY <2>2 DEF G!PrefixBit, G!Then
  <2>4. QED BY <2>2, <2>3, BitRead
<1> HIDE DEF tag
<1>6. G!TaggedResult(p, tag, silent) = IF f.ok THEN G!Failed(f.val) ELSE G!Failed(G!Message.mesh)
  <2>1. G!Then(tag, LAMBDA t : G!Finished(p, IF silent /\ ~t.val THEN G!Ok(<<>>, t.pos)
                                             ELSE G!String(p, t.pos))) = f
    BY <1>5 DEF G!Then, f
  <2>2. QED BY <1>5, <2>1 DEF G!TaggedResult
<1>7. G!TaggedResult(p, tag, silent) = G!Failed(Retold(m))
  BY <1>2, <1>6 DEF Retold, Ok, Fail
<1>8. G!Wrapped(G!ParseMeshReply(s), silent) = G!TaggedResult(p, tag, silent)
  BY <1>4 DEF G!Wrapped, tag
<1>9. QED BY <1>7, <1>8 DEF s, p

LEMMA ResultParsed ==
  ASSUME NEW m, Short(m), m # <<>>, NEW silent
  PROVE  G!Wrapped(G!ParseMeshReply(<<0>> \o Error(m)), silent) = [ok |-> FALSE, val |-> Retold(m)]
BY ResultTold, RetoldShort DEF G!Failed

LEMMA ReportReplies ==
  ASSUME NEW p, NEW v
  PROVE  /\ G!Wrapped(G!ParseMeshReply(p), TRUE) = [ok |-> TRUE, val |-> v]
              => G!Relayed("report", p) = G!ReplyOK(<<0>>)
         /\ G!Wrapped(G!ParseMeshReply(p), TRUE) = [ok |-> FALSE, val |-> v]
              => G!Relayed("report", p) = G!ReplyOK(<<1>> \o G!EncodeString(v))
<1> DEFINE r == G!Wrapped(G!ParseMeshReply(p), TRUE)
<1>1. ("report" = "report") = TRUE
  OBVIOUS
<1>2. G!Relayed("report", p)
        = G!ReplyOK(IF r.ok THEN <<0>> ELSE <<1>> \o G!EncodeString(r.val))
  BY <1>1, Zenon DEF G!Relayed
<1> HIDE DEF r
<1>3. r = [ok |-> TRUE, val |-> v] => r.ok
  OBVIOUS
<1>4. r = [ok |-> FALSE, val |-> v] => ~r.ok /\ r.val = v
  OBVIOUS
<1>5. QED BY <1>2, <1>3, <1>4 DEF r

\* What a peer of report may answer with: success, or a failure of either kind.
Answering(p) ==
  \/ p = <<0, 0>>
  \/ \E m : Short(m) /\ (p = Error(m) \/ p = <<0>> \o Error(m))

Reported(p) == G!ReadLenbuf(G!Lenbuf(G!Relayed("report", p)))

LEMMA FailureReported ==
  ASSUME NEW m, Short(m), m # <<>>, NEW p, p = Error(m) \/ p = << 0 >> \o Error(m)
  PROVE  Reported(p) = <<0, 1>> \o G!EncodeString(IF G!Utf8Valid(m) THEN m ELSE G!Message.mesh)
<1> DEFINE told == Error(Retold(m))
           e == EncodeString(Retold(m))
<1>1. G!Wrapped(G!ParseMeshReply(p), TRUE) = [ok |-> FALSE, val |-> Retold(m)]
  BY ErrorParsed, ResultParsed
<1>2. G!Relayed("report", p) = <<0>> \o told
  <2>1. G!Relayed("report", p) = G!ReplyOK(<<1>> \o G!EncodeString(Retold(m)))
    BY <1>1, ReportReplies
  <2>2. QED BY <2>1, GuestCodec DEF G!ReplyOK, Error
<1>3. /\ told \in Octets /\ Len(told) = Len(Retold(m)) + 2 /\ Len(Retold(m)) \in Nat
      /\ e \in Octets /\ told = <<1>> \o e /\ Len(Retold(m)) < 128
  BY RetoldShort, ErrorIs DEF Error, Short
<1> HIDE DEF told, e
<1>4. <<0>> \o told \in Octets /\ Len(<<0>> \o told) = Len(told) + 1
  <2>1. 0 \in 0..255
    OBVIOUS
  <2>2. QED BY <1>3, <2>1, Prefixed
<1>5. Frameable(<<0>> \o told)
  <2> DEFINE s == <<0>> \o told
  <2>1. s \in Octets /\ Len(s) < 131 /\ Len(s) \in Nat
    BY <1>3, <1>4
  <2>2. \A n \in Nat : n < 131 => n < 4294967296
    BY SMT
  <2> HIDE DEF s
  <2>3. QED BY <2>1, <2>2 DEF Frameable, s
<1>6. Reported(p) = <<0>> \o told
  BY <1>2, <1>5, LenbufReadsBack DEF Reported
<1>7. <<0>> \o (<<1>> \o e) = <<0, 1>> \o e
  <2> DEFINE Octet == 0..255
             a == <<0>>
             b == <<1>>
  <2>1. a \in Seq(Octet) /\ b \in Seq(Octet)
    OBVIOUS
  <2>2. e \in Seq(Octet)
    BY <1>3 DEF Octets
  <2>3. a \o b = <<0, 1>>
    BY Joined
  <2> HIDE DEF Octet, a, b
  <2>4. (a \o b) \o e = a \o (b \o e)
    BY <2>1, <2>2, ConcatAssociative
  <2>5. QED BY <2>3, <2>4 DEF a, b
<1>8. e = G!EncodeString(IF G!Utf8Valid(m) THEN m ELSE G!Message.mesh)
  BY GuestCodec DEF e, Retold
<1>9. QED BY <1>3, <1>6, <1>7, <1>8

LEMMA SuccessReplied == G!Relayed("report", <<0, 0>>) = <<0>> \o <<0>>
<1> DEFINE s == <<0, 0>>
           p == <<0>>
           tag == G!PrefixBit(p, 0)
<1>1. s[1] = 0 /\ Tail(s) = p
  OBVIOUS
<1>2. p[0 + 1] = 0 /\ ~(Len(p) - 0 < 1) /\ Len(p) - 1 = 0 /\ 0 + 1 = 1
  OBVIOUS
<1> HIDE DEF s, p
<1>3. G!ParseMeshReply(s) = [ok |-> TRUE, val |-> p]
  BY <1>1 DEF G!ParseMeshReply, G!Done
<1>4. tag.ok /\ ~tag.val /\ tag.pos = 1
  <2>1. G!Byte(p, 0) = [ok |-> TRUE, val |-> 0, pos |-> 1]
    BY <1>2 DEF G!Byte, G!Remaining, G!Ok
  <2>2. tag = [G!Byte(p, 0) EXCEPT !.val = @ = 1]
    BY <2>1 DEF G!PrefixBit, G!Then
  <2>3. 0 # 1
    OBVIOUS
  <2>4. QED BY <2>1, <2>2, <2>3, BitRead
<1> HIDE DEF tag
<1>5. G!TaggedResult(p, tag, TRUE) = [ok |-> TRUE, val |-> <<>>]
  <2>1. G!Then(tag, LAMBDA t : G!Finished(p, IF TRUE /\ ~t.val THEN G!Ok(<<>>, t.pos)
                                             ELSE G!String(p, t.pos)))
          = G!Finished(p, G!Ok(<<>>, 1))
    BY <1>4 DEF G!Then
  <2>2. G!Finished(p, G!Ok(<<>>, 1)) = G!Ok(<<>>, 1) /\ G!Ok(<<>>, 1).ok /\ G!Ok(<<>>, 1).val = <<>>
    BY <1>2 DEF G!Finished, G!Remaining, G!Ok
  <2>3. QED BY <1>4, <2>1, <2>2 DEF G!TaggedResult, G!Done
<1>6. G!Wrapped(G!ParseMeshReply(s), TRUE) = [ok |-> TRUE, val |-> <<>>]
  <2>1. G!Wrapped(G!ParseMeshReply(s), TRUE) = G!TaggedResult(p, tag, TRUE)
    BY <1>3 DEF G!Wrapped, tag
  <2>2. QED BY <1>5, <2>1
<1>7. G!Relayed("report", s) = <<0>> \o <<0>>
  <2>1. G!Relayed("report", s) = G!ReplyOK(<<0>>)
    BY <1>6, ReportReplies
  <2>2. QED BY <2>1 DEF G!ReplyOK
<1>8. QED BY <1>7 DEF s

LEMMA SuccessReported == Reported(<<0, 0>>) = <<0, 0>>
<1>1. <<0>> \o <<0>> = <<0, 0>>
  BY Joined
<1>2. Frameable(<<0, 0>>)
  <2>1. <<0, 0>> \in Octets
    BY DEF Octets
  <2>2. Len(<<0, 0>>) = 2
    OBVIOUS
  <2>3. 2 < 4294967296
    BY SMT
  <2>4. QED BY <2>1, <2>2, <2>3 DEF Frameable
<1>3. QED BY <1>1, <1>2, SuccessReplied, LenbufReadsBack DEF Reported

\* An answer fits a frame, and what report replies to it is what FailuresAreTold says.
LEMMA ReportTells ==
  ASSUME NEW p, Answering(p)
  PROVE  LET message == IF p[1] = 1 THEN Tail(Tail(p)) ELSE SubSeq(p, 4, Len(p))
         IN /\ Frameable(p)
            /\ p = <<0, 0>> => Reported(p) = <<0, 0>>
            /\ p # <<0, 0>> /\ message # <<>> =>
                 Reported(p) = <<0, 1>> \o
                   G!EncodeString(IF G!Utf8Valid(message) THEN message ELSE G!Message.mesh)
<1> DEFINE message == IF p[1] = 1 THEN Tail(Tail(p)) ELSE SubSeq(p, 4, Len(p))
<1>1. CASE p = <<0, 0>>
  <2>1. <<0, 0>> \in Octets /\ Len(<<0, 0>>) = 2
    BY DEF Octets
  <2>2. 2 < 4294967296
    BY SMT
  <2>3. QED BY <1>1, <2>1, <2>2, SuccessReported DEF Frameable
<1>2. ASSUME NEW m, Short(m), p = Error(m) \/ p = << 0 >> \o Error(m)
      PROVE  p \in Octets /\ Len(p) < 131 /\ Len(p) \in Nat /\ message = m
  <2> DEFINE e == Error(m)
  <2>1. /\ e \in Octets /\ Len(e) = Len(m) + 2 /\ Len(m) \in Nat /\ Len(m) < 128
        /\ e[1] = 1 /\ Tail(Tail(e)) = m /\ m \in Octets
        /\ \A i \in 1..Len(m) : e[i + 2] = m[i]
    BY <1>2, ErrorIs DEF Short
  <2>2. CASE p = e
    BY <2>1, <2>2
  <2>3. CASE p = <<0>> \o e
    <3> HIDE DEF e
    <3>1. /\ p \in Octets /\ Len(p) = Len(e) + 1 /\ p[1] = 0
          /\ \A i \in 1..Len(e) : p[i + 1] = e[i]
      <4>1. 0 \in 0..255
        OBVIOUS
      <4>2. /\ <<0>> \o e \in Octets /\ Len(<<0>> \o e) = Len(e) + 1 /\ (<<0>> \o e)[1] = 0
            /\ \A i \in 1..Len(e) : (<<0>> \o e)[i + 1] = e[i]
        BY <2>1, <4>1, Prefixed
      <4>3. QED BY <2>3, <4>2
    <3>2. \A i \in 1..Len(m) : p[3 + i] = m[i]
      <4>1. \A i \in 1..Len(m) : i + 2 \in 1..Len(e) /\ (i + 2) + 1 = 3 + i
        BY <2>1
      <4>2. QED BY <2>1, <3>1, <4>1
    <3>3. Holds(p, 3, m)
      BY <2>1, <3>1, <3>2 DEF Holds, Octets
    <3>4. SubSeq(p, 3 + 1, 3 + Len(m)) = m
      <4>1. m \in Seq(0..255)
        BY <2>1 DEF Octets
      <4>2. QED BY <3>3, <4>1, SliceIs
    <3>5. 3 + 1 = 4 /\ 3 + Len(m) = Len(p) /\ ~(0 = 1) /\ Len(p) < 131 /\ Len(p) \in Nat
      BY <2>1, <3>1
    <3>6. message = SubSeq(p, 4, Len(p))
      BY <3>1, <3>5
    <3> HIDE DEF message
    <3>7. QED BY <3>1, <3>4, <3>5, <3>6
  <2> HIDE DEF e, message
  <2>4. QED BY <1>2, <2>2, <2>3 DEF e
<1>3. ASSUME NEW m, Short(m), p = Error(m) \/ p = << 0 >> \o Error(m)
      PROVE  Frameable(p) /\ (m # <<>> =>
               Reported(p) = <<0, 1>> \o G!EncodeString(IF G!Utf8Valid(m) THEN m ELSE G!Message.mesh))
  <2>1. \A n \in Nat : n < 131 => n < 4294967296
    BY SMT
  <2>2. p \in Octets /\ Len(p) < 131 /\ Len(p) \in Nat
    BY <1>2, <1>3
  <2>3. Frameable(p)
    BY <2>1, <2>2 DEF Frameable
  <2>4. QED BY <1>3, <2>3, FailureReported
<1> HIDE DEF message
<1>4. CASE \E m : Short(m) /\ (p = Error(m) \/ p = <<0>> \o Error(m))
  <2> PICK m : Short(m) /\ (p = Error(m) \/ p = <<0>> \o Error(m))
    BY <1>4
  <2>1. message = m
    BY <1>2
  <2>2. Frameable(p) /\ (m # <<>> =>
           Reported(p) = <<0, 1>> \o G!EncodeString(IF G!Utf8Valid(m) THEN m ELSE G!Message.mesh))
    BY <1>3
  <2>3. p # <<0, 0>>
    <3>1. Error(m)[1] = 1 /\ Error(m) \in Octets /\ Len(Error(m)) = Len(m) + 2 /\ Len(m) \in Nat
      BY ErrorIs
    <3>2. CASE p = Error(m)
      <4>1. <<0, 0>>[1] = 0 /\ 0 # 1
        OBVIOUS
      <4>2. QED BY <3>1, <3>2, <4>1
    <3>3. CASE p = <<0>> \o Error(m)
      <4>1. 0 \in 0..255 /\ 1 \in 1..Len(Error(m)) /\ 1 + 1 = 2
        BY <3>1
      <4>2. p[2] = 1
        <5>1. \A i \in 1..Len(Error(m)) : p[i + 1] = Error(m)[i]
          BY <3>1, <3>3, <4>1, Prefixed
        <5>2. p[1 + 1] = Error(m)[1]
          BY <4>1, <5>1
        <5>3. QED BY <3>1, <4>1, <5>2
      <4>3. <<0, 0>>[2] = 0 /\ 0 # 1
        OBVIOUS
      <4>4. QED BY <4>2, <4>3
    <3>4. QED BY <3>2, <3>3
  <2>4. QED BY <2>1, <2>2, <2>3 DEF message
<1>5. QED BY <1>1, <1>4 DEF Answering, message

\* While report waits it has heard nothing; then it has heard an answer, and its
\* reply is what it makes of it.
TellsInv ==
  call.phase # "idle" /\ call.fn = "report" =>
    /\ call.phase \in {"entering", "asking"} => call.heard = <<>>
    /\ call.phase = "answered" => \E p : Answering(p) /\ call.heard = G!Lenbuf(p)
    /\ call.phase = "returned" =>
         \/ call.heard = <<>>
         \/ \E p : /\ Answering(p) /\ call.heard = G!Lenbuf(p)
                   /\ reply = G!Lenbuf(G!Relayed("report", p))

\* What is written to the links of the mesh in the model is an answer.
LEMMA MessagesShort ==
  /\ \A m \in {<<>>, G!Message.memory, <<255>>, <<69>>} : Short(m)
  /\ \A m : G!ReplyErr(m) = Error(m) /\ <<1>> \o EncodeString(m) = Error(m)
<1>1. 1 < Pow2[Int32] /\ Pow2[Int32] \in Nat
  BY OneFits
<1>2. ASSUME NEW c \in 0..255
      PROVE  Short(<<c>>)
  <2>1. <<c>> \in Octets /\ Len(<<c>>) = 1
    BY DEF Octets
  <2>2. 1 < 128
    OBVIOUS
  <2>3. QED BY <1>1, <2>1, <2>2 DEF Short
<1>3. Short(<<>>)
  <2>1. <<>> \in Octets /\ Len(<<>>) = 0 /\ 0 < 128 /\ 0 < Pow2[Int32]
    BY <1>1 DEF Octets
  <2>2. QED BY <2>1 DEF Short
<1>4. G!Message.memory = <<5>> /\ 5 \in 0..255 /\ 255 \in 0..255 /\ 69 \in 0..255
  BY DEF G!Message
<1>5. Short(<<5>>) /\ Short(<<255>>) /\ Short(<<69>>)
  BY <1>2, <1>4
<1>6. \A m : G!ReplyErr(m) = Error(m) /\ <<1>> \o EncodeString(m) = Error(m)
  BY GuestCodec DEF G!ReplyErr, Error
<1>7. QED BY <1>3, <1>4, <1>5, <1>6

\* A reply that the guest writes itself leaves nothing heard.
LEMMA ReturnTells ==
  ASSUME PinsInv, TellsInv, call.phase = "entering", NEW payload, NEW held,
         G!Return(payload, held)
  PROVE  TellsInv'
<1>1. call' = [call EXCEPT !.phase = "returned", !.bufs = {}] /\ DOMAIN call = CallFields
  BY DEF G!Return, PinsInv
<1>2. call'.phase = "returned" /\ call'.fn = call.fn /\ call'.heard = call.heard
  BY <1>1 DEF CallFields
<1>3. QED BY <1>2 DEF TellsInv

LEMMA ReachTells ==
  ASSUME PinsInv, TellsInv, NEW payload, Reach(payload),
         call.fn = "report" => Answering(payload)
  PROVE  TellsInv'
<1>1. CASE G!Trap
  BY <1>1 DEF G!Trap, G!Idle, TellsInv
<1>2. CASE G!MeshReplies(payload)
  <2>1. /\ call.phase = "asking" /\ DOMAIN call = CallFields
        /\ \E a \in G!Free : call' = [call EXCEPT !.phase = "answered", !.heard = G!Lenbuf(payload),
                                                  !.mesh = a]
    BY <1>2 DEF G!MeshReplies, G!In, PinsInv
  <2>2. call'.phase = "answered" /\ call'.fn = call.fn /\ call'.heard = G!Lenbuf(payload)
    BY <2>1 DEF CallFields
  <2>3. QED BY <2>2 DEF TellsInv
<1>3. QED BY <1>1, <1>2 DEF Reach

LEMMA GuestTells ==
  ASSUME PinsInv, TellsInv, ClientInvokes \/ GuestStarts \/ GuestEnds \/ GuestRestarts
  PROVE  TellsInv'
<1>1. ASSUME NEW fn, NEW params, G!Invoke(fn, params) \/ G!AllocFails(fn, params)
      PROVE  TellsInv'
  <2>1. CASE G!Invoke(fn, params)
    <3>1. call'.phase = "entering" /\ call'.heard = <<>>
      BY <2>1 DEF G!Invoke
    <3>2. QED BY <3>1 DEF TellsInv
  <2>2. CASE G!AllocFails(fn, params)
    BY <2>2 DEF G!AllocFails, G!In, TellsInv
  <2>3. QED BY <1>1, <2>1, <2>2
<1>2. CASE G!Dispatch
  <2>1. call.phase = "entering" /\ DOMAIN call = CallFields
    BY <1>2 DEF G!Dispatch, G!In, PinsInv
  <2>2. CASE \E payload : G!Return(payload, pins)
    BY <2>1, <2>2, ReturnTells
  <2>3. CASE call' = [call EXCEPT !.phase = "asking"]
    <3>1. call'.phase = "asking" /\ call'.fn = call.fn /\ call'.heard = call.heard
      BY <2>1, <2>3 DEF CallFields
    <3>2. QED BY <2>1, <3>1 DEF TellsInv
  <2>4. QED BY <1>2, <2>2, <2>3 DEF G!Dispatch
<1>3. CASE G!Resume
  <2>1. /\ call.phase = "answered" /\ DOMAIN call = CallFields
        /\ reply' = G!Lenbuf(G!Relayed(call.fn, G!ReadLenbuf(call.heard)))
        /\ call' = [call EXCEPT !.phase = "returned", !.bufs = {}]
    BY <1>3 DEF G!Resume, G!Return, G!In, PinsInv
  <2>2. call'.phase = "returned" /\ call'.fn = call.fn /\ call'.heard = call.heard
    BY <2>1 DEF CallFields
  <2>3. CASE call.fn = "report"
    <3>1. PICK p : Answering(p) /\ call.heard = G!Lenbuf(p)
      BY <2>1, <2>3 DEF TellsInv
    <3>2. Frameable(p)
      BY <3>1, ReportTells
    <3>3. G!ReadLenbuf(call.heard) = p
      BY <3>1, <3>2, LenbufReadsBack
    <3>4. reply' = G!Lenbuf(G!Relayed("report", p))
      BY <2>1, <2>3, <3>3
    <3>5. QED BY <2>2, <3>1, <3>4 DEF TellsInv
  <2>4. QED BY <2>2, <2>3 DEF TellsInv
<1>4. CASE G!Copies \/ G!Trap \/ G!Restart
  <2>1. call' = G!Idle
    <3>1. G!Copies => call' = G!Idle
      BY Zenon DEF G!Copies
    <3>2. G!Trap => call' = G!Idle
      BY Zenon DEF G!Trap
    <3>3. G!Restart => call' = G!Idle
      BY Zenon DEF G!Restart
    <3>4. QED BY <1>4, <3>1, <3>2, <3>3
  <2>2. call'.phase = "idle"
    BY <2>1 DEF G!Idle
  <2>3. QED BY <2>2 DEF TellsInv
<1>5. CASE G!Forget
  BY <1>5 DEF G!Forget, TellsInv
<1>6. QED BY <1>1, <1>2, <1>3, <1>4, <1>5 DEF ClientInvokes, GuestStarts, GuestEnds, GuestRestarts

LEMMA StepsTell ==
  ASSUME PinsInv, StatementsInv, MailInv, TellsInv, [Next]_vars
  PROVE  TellsInv'
<1>1. CASE ClientExecs \/ SqliteSteps \/ SqliteRestarts \/ Delivered \/ Lost \/ UNCHANGED vars
  <2>1. call' = call /\ reply' = reply
    BY <1>1 DEF ClientExecs, SqliteSteps, SqliteRestarts, Delivered, Lost, vars, guestVars
  <2>2. QED BY <2>1 DEF TellsInv
<1>2. CASE Answered
  <2>1. CASE job.caller = "relay"
    <3>1. Served
      BY <1>2, <2>1 DEF Answered, S!Taken, S!In, Served
    <3>2. call.fn # "report"
      BY <3>1, AwaitedMeans DEF MailInv, Waits
    <3>3. QED BY <1>2, <2>1, <3>2, ReachTells DEF Answered
  <2>2. CASE job.caller # "relay"
    <3>1. call' = call /\ reply' = reply
      BY <1>2, <2>2 DEF Answered, guestVars
    <3>2. QED BY <3>1 DEF TellsInv
  <2>3. QED BY <2>1, <2>2
<1>3. CASE MeshFails
  <2> PICK message \in {<<>>, G!Message.memory, <<255>>} : Reach(G!ReplyErr(message))
    BY <1>3 DEF MeshFails
  <2>1. Answering(G!ReplyErr(message))
    BY MessagesShort DEF Answering
  <2>2. QED BY <2>1, ReachTells
<1>4. CASE OthersReply
  <2>1. PICK body \in {<<0>>} \cup {<<1>> \o EncodeString(m) : m \in {<<>>, <<69>>, <<255>>}} :
          Reach(<<0>> \o body)
    BY <1>4 DEF OthersReply
  <2>2. CASE body = <<0>>
    <3>1. <<0>> \o body = <<0, 0>>
      BY <2>2, Joined
    <3>2. QED BY <2>1, <3>1, ReachTells DEF Answering
  <2>3. CASE \E m \in {<<>>, <<69>>, <<255>>} : body = <<1>> \o EncodeString(m)
    <3> PICK m \in {<<>>, <<69>>, <<255>>} : body = <<1>> \o EncodeString(m)
      BY <2>3
    <3>1. Short(m) /\ body = Error(m)
      BY MessagesShort
    <3>2. Answering(<<0>> \o body)
      BY <3>1 DEF Answering
    <3>3. QED BY <2>1, <3>2, ReachTells
  <2>4. QED BY <2>1, <2>2, <2>3
<1>5. QED BY <1>1, <1>2, <1>3, <1>4, GuestTells DEF Next

\* What report tells its caller is what the peer said, of its failure or of its
\* success; only a text that is none is replaced (mesh.cpp, and the wrapper that
\* crabgen writes for a result).
THEOREM FailuresTold == Spec => []FailuresAreTold
<1>1. Init => PinsInv /\ StatementsInv /\ MailInv /\ TellsInv
  BY DEF Init, G!Init, G!Idle, G!In, S!Init, S!Idle, S!In, PinsInv, G!PinsReleased,
         StatementsInv, S!StatementsClosed, MailInv, AnswersAreAwaited, TellsInv
<1>2. PinsInv /\ StatementsInv /\ MailInv /\ TellsInv /\ [Next]_vars
        => (PinsInv /\ StatementsInv /\ MailInv /\ TellsInv)'
  BY StepsOfGuest, GuestReleases, StepsOfSqlite, SqliteCloses, MailKept, StepsTell
<1>3. TellsInv => FailuresAreTold
  <2> SUFFICES ASSUME TellsInv, call.phase = "returned", call.fn = "report", call.heard # <<>>
               PROVE  G!FailuresAreTold
    BY DEF FailuresAreTold, G!FailuresAreTold, G!In
  <2>1. PICK p : /\ Answering(p) /\ call.heard = G!Lenbuf(p)
                 /\ reply = G!Lenbuf(G!Relayed("report", p))
    BY DEF TellsInv
  <2>2. G!ReadLenbuf(call.heard) = p
    BY <2>1, ReportTells, LenbufReadsBack
  <2>3. G!ReadLenbuf(reply) = Reported(p)
    BY <2>1 DEF Reported
  <2>4. QED BY <2>1, <2>2, <2>3, ReportTells DEF G!FailuresAreTold
<1>4. QED BY <1>1, <1>2, <1>3, PTL DEF Spec
-----------------------------------------------------------------------------
(* What relay hears and says. *)

\* The groups of a number are no more than one more than the number.
LEMMA UlebLength == \A v \in Nat : Len(EncodeUleb[v]) \in Nat /\ Len(EncodeUleb[v]) <= v + 1
<1> DEFINE L(v) == Len(EncodeUleb[v])
           A == {n \in Nat : \A v \in Nat : v < n => L(v) <= v + 1}
<1>1. \A v \in Nat : EncodeUleb[v] \in Seq(0..255) /\ L(v) \in Nat
  BY UlebWritten, BufferType DEF Grouped
<1>2. ASSUME NEW n \in Nat, n \in A
      PROVE  n + 1 \in A
  <2> SUFFICES ASSUME NEW v \in Nat, v < n + 1
               PROVE  L(v) <= v + 1
    OBVIOUS
  <2>1. CASE v < 128
    <3>1. EncodeUleb[v] = <<v>>
      BY <2>1, EncodeUlebIs, Zenon
    <3>2. L(v) = 1
      BY <3>1
    <3> HIDE DEF L
    <3>3. QED BY <3>2
  <2>2. CASE ~(v < 128)
    <3> DEFINE x == (v % 128) + 128
               t == EncodeUleb[v \div 128]
               Byte256 == 0..255
    <3>1. x \in Byte256 /\ v \div 128 \in Nat /\ v \div 128 < n /\ (v \div 128) + 2 <= v + 1
      BY <2>2
    <3>2. EncodeUleb[v] = <<x>> \o t
      BY <2>2, EncodeUlebIs, Zenon
    <3>3. t \in Seq(Byte256) /\ Len(t) \in Nat /\ Len(t) <= (v \div 128) + 1
      <4>1. L(v \div 128) <= (v \div 128) + 1
        BY <1>2, <3>1
      <4>2. QED BY <1>1, <3>1, <4>1
    <3> HIDE DEF x, t, Byte256
    <3>4. Len(<<x>> \o t) = Len(t) + 1
      BY <3>1, <3>3
    <3>5. L(v) = Len(t) + 1
      BY <3>2, <3>4
    <3> HIDE DEF L
    <3>6. QED BY <3>1, <3>3, <3>5
  <2>3. QED BY <2>1, <2>2
<1>3. 0 \in A
  OBVIOUS
<1>4. \A v \in Nat : v + 1 \in A
  <2> HIDE DEF A
  <2>1. Nat \subseteq A
    BY <1>2, <1>3, Induction
  <2>2. QED BY <2>1
<1>5. \A v \in Nat : v < v + 1
  OBVIOUS
<1>6. QED BY <1>1, <1>4, <1>5

\* The host reads back a string as well.
LEMMA TextDecoded ==
  ASSUME NEW s \in Seq(0..255), Len(s) < Pow2[Int32],
         NEW buf, NEW pos, Holds(buf, pos, EncodeString(s))
  PROVE  string_dec(buf, pos) = Ok(s, pos + Len(EncodeString(s)))
<1>1. Len(s) \in Nat /\ Len(s) < Pow2[Word]
  BY BufferType, NumbersFit
<1>2. QED BY <1>1, StringDecoded

\* The hosts have one codec, and the guests one.
LEMMA CodecsAgree ==
  /\ \A buf, pos : G!string_dec(buf, pos) = string_dec(buf, pos)
  /\ \A s : S!EncodeString(s) = EncodeString(s)
<1>1. S!EncodeUleb = EncodeUleb
  BY DEF S!EncodeUleb, EncodeUleb
<1>2. \A groups, buf, pos : G!Span(groups, buf, pos) = Span(groups, buf, pos)
  BY DEF G!Span, Span, G!Remaining, Remaining, G!Min, Min
<1>3. \A k, buf, pos : G!Payload(k, buf, pos) = Payload(k, buf, pos)
  BY DEF G!Value, Value, G!Payload, Payload
<1>4. \A buf, pos : G!uleb_dec(buf, pos) = uleb_dec(buf, pos)
  BY <1>2, <1>3, Zenon DEF G!uleb_dec, uleb_dec, G!Groups, Groups, G!Ok, Ok, G!Fail, Fail
<1>5. \A n, buf, pos : G!Bytes(n, buf, pos) = Bytes(n, buf, pos)
  BY Zenon DEF G!Bytes, Bytes, G!Remaining, Remaining, G!Ok, Ok, G!Fail, Fail
<1>6. G!Fail = Fail
  BY Zenon DEF G!Fail, Fail
<1>7. QED BY <1>1, <1>4, <1>5, <1>6, Zenon
          DEF G!string_dec, string_dec, G!Then, Then, S!EncodeString, EncodeString

\* A document is a text, of a length that a frame and a string can tell.
LEMMA DocumentIs ==
  ASSUME NEW n \in 0..MaxRows
  PROVE  LET d == S!Document(n)
         IN /\ d \in Octets /\ Len(d) = n + 2 /\ Len(d) < Pow2[Int32] /\ Utf8Valid(d)
            /\ EncodeString(d) \in Octets /\ Len(EncodeString(d)) \in Nat
            /\ Len(EncodeString(d)) <= 2 * MaxRows + 5
<1> DEFINE d == S!Document(n)
           rows1 == [r \in 1..n |-> S!Row]
           head == <<S!Columns>>
           tail == <<S!Changes>>
           begun == head \o rows1
<1>1. n \in Nat /\ n <= MaxRows /\ MaxRows \in Nat
  BY RowsAssumption
<1>2. /\ head \in Seq(Ascii) /\ tail \in Seq(Ascii) /\ rows1 \in Seq(Ascii)
      /\ Len(head) = 1 /\ Len(tail) = 1 /\ Len(rows1) = n
  <2>1. S!Columns \in Ascii /\ S!Changes \in Ascii /\ S!Row \in Ascii
    BY DEF S!Columns, S!Changes, S!Row, Ascii
  <2>2. \A x \in Ascii : <<x>> \in Seq(Ascii) /\ Len(<<x>>) = 1
    OBVIOUS
  <2>3. rows1 \in Seq(Ascii) /\ Len(rows1) = n
    BY <1>1, <2>1
  <2>4. QED BY <2>1, <2>2, <2>3
<1>3. d = begun \o tail
  BY DEF S!Document
<1> HIDE DEF d, rows1, head, tail, begun
<1>4. begun \in Seq(Ascii) /\ Len(begun) = n + 1
  <2>1. begun \in Seq(Ascii) /\ Len(begun) = Len(head) + Len(rows1)
    BY <1>2, ConcatProperties DEF begun
  <2>2. QED BY <1>1, <1>2, <2>1
<1> HIDE DEF begun
<1>5. d \in Seq(Ascii) /\ Len(d) = n + 2
  <2>1. d \in Seq(Ascii) /\ Len(d) = Len(begun) + Len(tail)
    BY <1>2, <1>3, <1>4, ConcatProperties
  <2>2. QED BY <1>1, <1>2, <1>4, <2>1
<1>6. d \in Seq(0..255)
  <2>1. Ascii \subseteq AnyByte
    BY DEF Ascii, AnyByte
  <2>2. \A i \in 1..Len(d) : d[i] \in AnyByte
    BY <1>5, <2>1, ElementOfSeq
  <2>3. d \in Seq(AnyByte)
    <3>1. Len(d) \in Nat /\ d = [i \in 1..Len(d) |-> d[i]]
      BY <1>5, LenProperties
    <3>2. QED BY <2>2, <3>1
  <2>4. QED BY <2>3 DEF AnyByte
<1>7. Utf8Valid(d)
  <2>1. \A i \in 1..Len(d) : d[i] \in Ascii
    BY <1>5, ElementOfSeq
  <2>2. QED BY <1>6, <2>1, AsciiIsText
<1>8. Len(d) < Pow2[Int32]
  <2>1. MaxRows + 2 < Pow2[Int32] /\ Pow2[Int32] \in Nat
    BY RowsAssumption, OneFits
  <2>2. QED BY <1>1, <1>5, <2>1
<1> DEFINE e == EncodeUleb[Len(d)]
<1>9. e \in Seq(0..255) /\ Len(e) \in Nat /\ Len(e) <= n + 3
  <2>1. n + 2 \in Nat /\ (n + 2) + 1 = n + 3
    BY <1>1
  <2>2. e \in Seq(0..255) /\ Len(e) \in Nat /\ Len(e) <= (n + 2) + 1
    BY <1>5, <2>1, UlebLength, UlebWritten DEF Grouped
  <2>3. QED BY <2>1, <2>2
<1>10. e \o d \in Octets /\ Len(e \o d) = Len(e) + Len(d)
  <2>1. e \in Octets /\ d \in Octets
    BY <1>6, <1>9 DEF Octets
  <2> HIDE DEF e
  <2>2. \A Part : \A p, q \in Seq(Part) : p \o q \in Seq(Part) /\ Len(p \o q) = Len(p) + Len(q)
    BY ConcatProperties
  <2>3. QED BY <2>1, <2>2 DEF Octets
<1>11. EncodeString(d) = e \o d
  BY DEF EncodeString
<1> HIDE DEF e
<1>12. Len(EncodeString(d)) \in Nat /\ Len(EncodeString(d)) <= 2 * MaxRows + 5
  BY <1>1, <1>5, <1>9, <1>10, <1>11
<1>13. QED BY <1>5, <1>6, <1>7, <1>8, <1>10, <1>11, <1>12 DEF d, Octets

\* Two bytes before others, and a reply to what asked for a result.
LEMMA FlagRead ==
  ASSUME NEW x \in {0, 1}, NEW s \in Octets
  PROVE  LET tag == G!PrefixBit(<<x>> \o s, 0)
         IN tag.ok /\ (tag.val <=> x = 1) /\ tag.pos = 1
<1> DEFINE p == <<x>> \o s
           tag == G!PrefixBit(p, 0)
<1>1. x \in 0..255
  OBVIOUS
<1>2. p \in Octets /\ Len(p) = Len(s) + 1 /\ p[1] = x /\ Len(s) \in Nat
  BY <1>1, Prefixed
<1> HIDE DEF p
<1>3. ~(Len(p) - 0 < 1) /\ p[0 + 1] = x /\ 0 + 1 = 1
  BY <1>2
<1>4. G!Byte(p, 0) = [ok |-> TRUE, val |-> x, pos |-> 1]
  BY <1>3 DEF G!Byte, G!Remaining, G!Ok
<1>5. tag = [G!Byte(p, 0) EXCEPT !.val = @ = 1]
  BY <1>4 DEF G!PrefixBit, G!Then
<1>6. tag.ok /\ (tag.val <=> x = 1) /\ tag.pos = 1
  BY <1>4, <1>5, BitRead
<1>7. QED BY <1>6 DEF p

\* A document, or any other text, that the peer of relay gives.
LEMMA TextParsed ==
  ASSUME NEW s \in Octets, Len(s) < Pow2[Int32], Utf8Valid(s), EncodeString(s) \in Octets,
         NEW silent, ~silent
  PROVE  G!Wrapped(G!ParseMeshReply(<<0>> \o (<<0>> \o EncodeString(s))), silent)
           = [ok |-> TRUE, val |-> s]
<1> DEFINE e == EncodeString(s)
           p == <<0>> \o e
           q == <<0>> \o p
           tag == G!PrefixBit(p, 0)
           text == G!String(p, 1)
<1>1. 0 \in 0..255 /\ 0 \in {0, 1} /\ e \in Octets /\ s \in Seq(0..255)
  BY DEF Octets
<1>2. /\ p \in Octets /\ Len(p) = Len(e) + 1 /\ Len(e) \in Nat
      /\ \A i \in 1..Len(e) : p[i + 1] = e[i]
  <2> HIDE DEF e
  <2>1. QED BY <1>1, Prefixed
<1>3. tag.ok /\ ~tag.val /\ tag.pos = 1
  <2>1. ~(0 = 1)
    OBVIOUS
  <2> HIDE DEF e
  <2>2. QED BY <1>1, <2>1, FlagRead
<1>4. q[1] = 0 /\ Tail(q) = p
  <2> HIDE DEF p
  <2>1. QED BY <1>1, <1>2, Prefixed
<1>5. Holds(p, 1, e)
  <2> HIDE DEF p, e
  <2>1. \A i \in 1..Len(e) : p[1 + i] = e[i]
    <3>1. \A i \in 1..Len(e) : 1 + i = i + 1
      BY <1>2
    <3>2. QED BY <1>2, <3>1
  <2>2. 1 \in Nat /\ 1 + Len(e) <= Len(p) /\ p \in Seq(0..255)
    BY <1>2 DEF Octets
  <2>3. QED BY <2>1, <2>2 DEF Holds
<1>6. text = Ok(s, 1 + Len(e))
  <2>1. String(p, 1) = Ok(s, 1 + Len(EncodeString(s)))
    <3>1. Holds(p, 1, EncodeString(s))
      BY <1>5 DEF e
    <3> HIDE DEF p
    <3>2. QED BY <1>1, <3>1, StringReadsBack
  <2> HIDE DEF p
  <2>2. QED BY <2>1, GuestCodec DEF e
<1> HIDE DEF e, p, q, tag, text
<1>7. G!ParseMeshReply(q) = [ok |-> TRUE, val |-> p]
  BY <1>4 DEF G!ParseMeshReply, G!Done
<1>8. text.ok /\ text.val = s /\ text.pos = 1 + Len(e) /\ Len(p) - (1 + Len(e)) = 0
  BY <1>2, <1>6 DEF Ok
<1>9. G!Finished(p, text) = text
  BY <1>8 DEF G!Finished, G!Remaining
<1>10. G!Then(tag, LAMBDA t : G!Finished(p, IF silent /\ ~t.val THEN G!Ok(<<>>, t.pos)
                                            ELSE G!String(p, t.pos))) = text
  BY <1>3, <1>9 DEF G!Then, text
<1>11. G!TaggedResult(p, tag, silent) = [ok |-> TRUE, val |-> s]
  BY <1>3, <1>8, <1>10 DEF G!TaggedResult, G!Done
<1>12. G!Wrapped(G!ParseMeshReply(q), silent) = [ok |-> TRUE, val |-> s]
  BY <1>7, <1>11 DEF G!Wrapped, tag
<1>13. QED BY <1>12 DEF q, p, e

\* A failure without a message is one for relay: there is no tag to read.
LEMMA NothingParsed ==
  ASSUME NEW silent
  PROVE  G!Wrapped(G!ParseMeshReply(Error(<<>>)), silent) = [ok |-> FALSE, val |-> <<3>>]
<1> DEFINE p == Error(<<>>)
           f == G!Finished(p, G!String(p, 1))
           tag == G!PrefixBit(<<>>, 0)
           r == G!ParseMeshReply(p)
<1>1. Short(<<>>)
  BY MessagesShort
<1>2. p[1] = 1 /\ f = IF Utf8Valid(<<>>) THEN Ok(<<>>, Len(<<>>) + 2) ELSE Fail
  BY <1>1, ErrorIs, ErrorReadsBack
<1> HIDE DEF p, f
<1>3. r = G!Failed(G!Said(f))
  BY <1>2 DEF G!ParseMeshReply, f
<1>4. G!Said(f) = <<>> \/ G!Said(f) = <<3>>
  BY <1>2 DEF G!Said, Ok, Fail, G!Message
<1>5. <<3>> # <<>>
  OBVIOUS
<1>6. G!Failed(<<3>>) = [ok |-> FALSE, val |-> <<3>>] /\ G!Failed(<<>>) = [ok |-> TRUE, val |-> <<>>]
  BY <1>5 DEF G!Failed
<1> HIDE DEF r
<1>7. CASE r = [ok |-> FALSE, val |-> <<3>>]
  <2>1. ~r.ok
    BY <1>7
  <2>2. G!Wrapped(r, silent) = r
    BY <2>1 DEF G!Wrapped
  <2>3. QED BY <1>7, <2>2 DEF r, p
<1>8. CASE r = [ok |-> TRUE, val |-> <<>>]
  <2>1. ~tag.ok
    <3>1. Len(<<>>) - 0 < 1
      OBVIOUS
    <3>2. G!Byte(<<>>, 0) = G!Fail
      BY <3>1 DEF G!Byte, G!Remaining
    <3>3. QED BY <3>2 DEF G!PrefixBit, G!Then, G!Fail
  <2> HIDE DEF tag
  <2>2. ~G!Then(tag, LAMBDA t : G!Finished(<<>>, IF silent /\ ~t.val THEN G!Ok(<<>>, t.pos)
                                                ELSE G!String(<<>>, t.pos))).ok
    BY <2>1 DEF G!Then, G!Fail
  <2>3. G!TaggedResult(<<>>, tag, silent) = G!Failed(<<3>>)
    BY <2>2 DEF G!TaggedResult, G!Message
  <2>4. G!Wrapped(r, silent) = G!TaggedResult(<<>>, tag, silent)
    BY <1>8 DEF G!Wrapped, tag
  <2>5. QED BY <1>6, <2>3, <2>4 DEF r, p
<1>9. QED BY <1>3, <1>4, <1>6, <1>7, <1>8

\* The reply that relay makes of what its wrapper returns.
LEMMA RelayReplies ==
  ASSUME NEW p, NEW v
  PROVE  /\ G!Wrapped(G!ParseMeshReply(p), FALSE) = [ok |-> TRUE, val |-> v]
              => G!Relayed("relay", p) = <<0>> \o EncodeString(v)
         /\ G!Wrapped(G!ParseMeshReply(p), FALSE) = [ok |-> FALSE, val |-> v]
              => G!Relayed("relay", p) = Error(v)
<1> DEFINE r == G!Wrapped(G!ParseMeshReply(p), FALSE)
<1>1. ("relay" = "report") = FALSE
  OBVIOUS
<1>2. G!Relayed("relay", p)
        = IF r.ok THEN G!ReplyOK(G!EncodeString(r.val)) ELSE G!ReplyErr(r.val)
  BY <1>1, Zenon DEF G!Relayed
<1> HIDE DEF r
<1>3. r = [ok |-> TRUE, val |-> v] => r.ok /\ r.val = v
  OBVIOUS
<1>4. r = [ok |-> FALSE, val |-> v] => ~r.ok /\ r.val = v
  OBVIOUS
<1>5. G!ReplyOK(G!EncodeString(v)) = <<0>> \o EncodeString(v) /\ G!ReplyErr(v) = Error(v)
  BY GuestCodec, MessagesShort DEF G!ReplyOK
<1>6. QED BY <1>2, <1>3, <1>4, <1>5 DEF r

\* What relay hears: a document or a message in a result, or that the call failed.
Hears(p) ==
  \/ \E n \in 0..MaxRows : p = <<0>> \o (<<0>> \o EncodeString(S!Document(n)))
  \/ \E c \in Ascii : p = <<0>> \o Error(<<c>>)
  \/ p = Error(<<>>)
  \/ \E c \in AnyByte : p = Error(<<c>>)

\* What it replies: the document, or one message that is a text.
Replies(q) ==
  \/ \E n \in 0..MaxRows : q = <<0>> \o EncodeString(S!Document(n))
  \/ \E c \in Ascii : q = Error(<<c>>)

\* A message of one byte is short.
LEMMA OneShort ==
  ASSUME NEW c \in AnyByte
  PROVE  Short(<<c>>) /\ <<c>> # <<>> /\ <<c>> \in Octets /\ Len(<<c>>) = 1
<1>1. 1 < Pow2[Int32] /\ 1 < 128
  BY OneFits
<1>2. <<c>> \in Octets /\ Len(<<c>>) = 1 /\ <<c>> # <<>>
  BY DEF Octets, AnyByte
<1>3. QED BY <1>1, <1>2 DEF Short

\* One of ASCII is a text.
LEMMA AsciiTexts == Ascii \subseteq AnyByte /\ \A c \in Ascii : Utf8Valid(<<c>>)
<1>1. Ascii \subseteq AnyByte
  BY DEF Ascii, AnyByte
<1>2. ASSUME NEW c \in Ascii
      PROVE  Utf8Valid(<<c>>)
  <2> DEFINE s == <<c>>
  <2>1. s \in Octets /\ Len(s) = 1
    BY <1>1, OneShort
  <2>2. s[1] = c
    OBVIOUS
  <2> HIDE DEF s
  <2>3. s \in Seq(0..255) /\ \A i \in 1..Len(s) : s[i] \in Ascii
    BY <2>1, <2>2 DEF Octets
  <2>4. Utf8Valid(s)
    BY <2>3, AsciiIsText
  <2>5. QED BY <2>4 DEF s
<1>3. QED BY <1>1, <1>2

\* Of any byte it tells one that is a text.
LEMMA RetoldAscii ==
  ASSUME NEW c \in AnyByte
  PROVE  \E d \in Ascii : Retold(<<c>>) = <<d>>
<1>1. 3 \in Ascii /\ G!Message.mesh = <<3>>
  BY DEF Ascii, G!Message
<1>2. CASE Utf8Valid(<<c>>)
  BY <1>2, OneTextIsAscii DEF Retold
<1>3. CASE ~Utf8Valid(<<c>>)
  BY <1>1, <1>3 DEF Retold
<1>4. QED BY <1>2, <1>3

\* What fits a frame: a message ...
LEMMA ShortFrames ==
  ASSUME NEW m, Short(m)
  PROVE  Frameable(Error(m)) /\ Frameable(<<0>> \o Error(m))
<1>1. Error(m) \in Octets /\ Len(Error(m)) = Len(m) + 2 /\ Len(m) \in Nat /\ Len(m) < 128
  BY ErrorIs DEF Short
<1>2. 0 \in 0..255
  OBVIOUS
<1>3. <<0>> \o Error(m) \in Octets /\ Len(<<0>> \o Error(m)) = Len(Error(m)) + 1
  BY <1>1, <1>2, Prefixed
<1>4. \A n \in Nat : n < 131 => n < 4294967296
  BY SMT
<1>5. Len(Error(m)) \in Nat /\ Len(Error(m)) < 131
      /\ Len(<<0>> \o Error(m)) \in Nat /\ Len(<<0>> \o Error(m)) < 131
  BY <1>1, <1>3
<1>6. QED BY <1>1, <1>3, <1>4, <1>5 DEF Frameable

\* ... and a document.
LEMMA DocumentFrames ==
  ASSUME NEW n \in 0..MaxRows
  PROVE  LET e == EncodeString(S!Document(n))
         IN /\ Frameable(<<0>> \o e) /\ Frameable(<<0>> \o (<<0>> \o e))
            /\ (<<0>> \o e)[1] = 0 /\ Tail(<<0>> \o e) = e
<1> DEFINE e == EncodeString(S!Document(n))
           p == <<0>> \o e
           q == <<0>> \o p
<1>1. e \in Octets /\ Len(e) \in Nat /\ Len(e) <= 2 * MaxRows + 5
  BY DocumentIs
<1>2. 0 \in 0..255
  OBVIOUS
<1> HIDE DEF e
<1>3. p \in Octets /\ Len(p) = Len(e) + 1 /\ p[1] = 0 /\ Tail(p) = e
  BY <1>1, <1>2, Prefixed
<1> HIDE DEF p
<1>4. q \in Octets /\ Len(q) = Len(p) + 1
  BY <1>2, <1>3, Prefixed
<1> HIDE DEF q
<1>5. MaxRows \in Nat /\ MaxRows < 2147483640
  BY RowsAssumption
<1>6. \A k, x \in Nat : x < 2147483640 /\ k <= 2 * x + 5 => k + 1 < 4294967296 /\ k + 2 < 4294967296
  BY SMT
<1>7. Len(e) + 1 < 4294967296 /\ Len(e) + 2 < 4294967296
  BY <1>1, <1>5, <1>6
<1>8. Len(q) = Len(e) + 2
  BY <1>1, <1>3, <1>4
<1>9. Frameable(p) /\ Frameable(q)
  BY <1>3, <1>4, <1>7, <1>8 DEF Frameable
<1>10. QED BY <1>3, <1>9 DEF e, p, q

\* What it heard fits a frame, and it replies with what Replies says.
LEMMA HearsReplies ==
  ASSUME NEW p, Hears(p)
  PROVE  Frameable(p) /\ Replies(G!Relayed("relay", p))
<1>1. CASE \E n \in 0..MaxRows : p = <<0>> \o (<<0>> \o EncodeString(S!Document(n)))
  <2> PICK n \in 0..MaxRows : p = <<0>> \o (<<0>> \o EncodeString(S!Document(n)))
    BY <1>1
  <2> DEFINE d == S!Document(n)
  <2>1. d \in Octets /\ Len(d) < Pow2[Int32] /\ Utf8Valid(d) /\ EncodeString(d) \in Octets
    BY DocumentIs
  <2>2. p = <<0>> \o (<<0>> \o EncodeString(d))
    OBVIOUS
  <2>3. Frameable(p)
    BY DocumentFrames
  <2> HIDE DEF d
  <2>4. G!Wrapped(G!ParseMeshReply(p), FALSE) = [ok |-> TRUE, val |-> d]
    BY <2>1, <2>2, TextParsed
  <2>5. G!Relayed("relay", p) = <<0>> \o EncodeString(d)
    BY <2>4, RelayReplies
  <2>6. QED BY <2>3, <2>5 DEF Replies, d
<1>2. ASSUME NEW m, Short(m), m # <<>>, \E d \in Ascii : Retold(m) = <<d>>,
             p = Error(m) \/ p = << 0 >> \o Error(m)
      PROVE  Frameable(p) /\ Replies(G!Relayed("relay", p))
  <2>1. Frameable(p)
    BY <1>2, ShortFrames
  <2>2. G!Wrapped(G!ParseMeshReply(p), FALSE) = [ok |-> FALSE, val |-> Retold(m)]
    BY <1>2, ErrorParsed, ResultParsed
  <2>3. G!Relayed("relay", p) = Error(Retold(m))
    BY <2>2, RelayReplies
  <2>4. QED BY <1>2, <2>1, <2>3 DEF Replies
<1>3. CASE \E c \in Ascii : p = <<0>> \o Error(<<c>>)
  <2> PICK c \in Ascii : p = <<0>> \o Error(<<c>>)
    BY <1>3
  <2>1. c \in AnyByte
    BY AsciiTexts
  <2>2. QED BY <1>2, <2>1, OneShort, RetoldAscii
<1>4. CASE p = Error(<<>>)
  <2>1. Frameable(p)
    BY <1>4, MessagesShort, ShortFrames
  <2>2. G!Wrapped(G!ParseMeshReply(p), FALSE) = [ok |-> FALSE, val |-> <<3>>]
    BY <1>4, NothingParsed
  <2>3. G!Relayed("relay", p) = Error(<<3>>)
    BY <2>2, RelayReplies
  <2>4. 3 \in Ascii
    BY DEF Ascii
  <2>5. QED BY <2>1, <2>3, <2>4 DEF Replies
<1>5. CASE \E c \in AnyByte : p = Error(<<c>>)
  <2> PICK c \in AnyByte : p = Error(<<c>>)
    BY <1>5
  <2>1. QED BY <1>2, OneShort, RetoldAscii
<1>6. QED BY <1>1, <1>3, <1>4, <1>5 DEF Hears

\* The host of the client takes the reply apart: the document, or the message.
LEMMA RepliesRead ==
  ASSUME NEW q, Replies(q)
  PROVE  /\ Frameable(q)
         /\ \/ q[1] = 0 /\ \E n \in 0..MaxRows : Tail(q) = EncodeString(S!Document(n))
            \/ q[1] # 0 /\ \E c \in Ascii : G!string_dec(q, 1).val = <<c>>
<1>1. CASE \E n \in 0..MaxRows : q = <<0>> \o EncodeString(S!Document(n))
  BY <1>1, DocumentFrames
<1>2. CASE \E c \in Ascii : q = Error(<<c>>)
  <2> PICK c \in Ascii : q = Error(<<c>>)
    BY <1>2
  <2> DEFINE m == <<c>>
  <2>1. Short(m)
    BY AsciiTexts, OneShort
  <2>2. q = Error(m)
    OBVIOUS
  <2> HIDE DEF m
  <2>3. Frameable(q)
    BY <2>1, <2>2, ShortFrames
  <2>4. q[1] = 1 /\ Holds(q, 1, EncodeString(m))
    BY <2>1, <2>2, ErrorIs
  <2>5. m \in Seq(0..255) /\ Len(m) < Pow2[Int32]
    BY <2>1 DEF Short, Octets
  <2>6. string_dec(q, 1) = Ok(m, 1 + Len(EncodeString(m)))
    BY <2>4, <2>5, TextDecoded
  <2>7. G!string_dec(q, 1).val = m
    BY <2>6, CodecsAgree DEF Ok
  <2>8. q[1] # 0
    BY <2>4
  <2>9. QED BY <2>3, <2>7, <2>8 DEF m
<1>3. QED BY <1>1, <1>2 DEF Replies
-----------------------------------------------------------------------------
(* What reaches the client of relay. *)

\* What the sqlite guest answers, as the mesh brings it to relay.
LEMMA AnswersHeard ==
  ASSUME WholeAnswers, job.phase = "answered"
  PROVE  Hears(IF job.reply[1] = 0 THEN job.reply ELSE G!ReplyErr(string_dec(job.reply, 1).val))
<1> DEFINE r == job.reply
<1>1. CASE r = S!reply_abi_err
  <2> DEFINE m == <<1>>
  <2>1. 1 \in AnyByte /\ Short(m)
    <3>1. 1 \in AnyByte
      BY DEF AnyByte
    <3>2. QED BY <3>1, OneShort
  <2>2. r = Error(m)
    BY <1>1, CodecsAgree DEF S!reply_abi_err, Error
  <2> HIDE DEF m, r
  <2>3. r[1] = 1 /\ Holds(r, 1, EncodeString(m))
    BY <2>1, <2>2, ErrorIs
  <2>4. m \in Seq(0..255) /\ Len(m) < Pow2[Int32]
    BY <2>1 DEF Short, Octets
  <2>5. string_dec(r, 1) = Ok(m, 1 + Len(EncodeString(m)))
    BY <2>3, <2>4, TextDecoded
  <2>6. string_dec(r, 1).val = m /\ ~(r[1] = 0)
    BY <2>3, <2>5 DEF Ok
  <2>7. G!ReplyErr(string_dec(r, 1).val) = Error(m)
    BY <2>6, MessagesShort
  <2>8. Hears(Error(m))
    BY <2>1 DEF Hears, m
  <2>9. QED BY <2>6, <2>7, <2>8 DEF r
<1>2. ASSUME NEW x \in {0, 1}, NEW s, r = (<< 0 >> \o << x >>) \o EncodeString(s),
             EncodeString(s) \in Octets
      PROVE  r = <<0>> \o (<<x>> \o EncodeString(s)) /\ r[1] = 0
  <2> DEFINE e == EncodeString(s)
             a == <<0>>
             b == <<x>>
             Part == 0..255
  <2>1. a \in Seq(Part) /\ b \in Seq(Part)
    OBVIOUS
  <2>2. e \in Seq(Part) /\ r = (a \o b) \o e
    BY <1>2 DEF Octets
  <2>3. 0 \in 0..255 /\ x \in 0..255 /\ e \in Octets
    BY <1>2
  <2>4. b \o e \in Octets
    <3> HIDE DEF e
    <3>1. QED BY <2>3, Prefixed
  <2>5. (a \o (b \o e))[1] = 0
    <3> DEFINE t == b \o e
    <3>1. t \in Octets
      BY <2>4
    <3> HIDE DEF t
    <3>2. (<<0>> \o t)[1] = 0
      BY <2>3, <3>1, Prefixed
    <3>3. QED BY <3>2 DEF t
  <2> HIDE DEF a, b, e, Part, r
  <2>6. (a \o b) \o e = a \o (b \o e)
    BY <2>1, <2>2, ConcatAssociative
  <2>7. r = a \o (b \o e) /\ r[1] = 0
    BY <2>2, <2>5, <2>6
  <2>8. QED BY <2>7 DEF a, b, e
<1>3. /\ \A s : S!reply_result(FALSE, s) = (<<0>> \o <<0>>) \o EncodeString(s)
      /\ \A s : S!reply_result(TRUE, s) = (<<0>> \o <<1>>) \o EncodeString(s)
  BY CodecsAgree DEF S!reply_result, S!EncodeBool
<1>4. CASE \E n \in 0..MaxRows : r = S!reply_result(FALSE, S!Document(n))
  <2> PICK n \in 0..MaxRows : r = S!reply_result(FALSE, S!Document(n))
    BY <1>4
  <2> DEFINE d == S!Document(n)
  <2>1. EncodeString(d) \in Octets
    BY DocumentIs
  <2>2. r = S!reply_result(FALSE, d)
    OBVIOUS
  <2> HIDE DEF d, r
  <2>3. r = (<<0>> \o <<0>>) \o EncodeString(d)
    BY <1>3, <2>2
  <2>4. r = <<0>> \o (<<0>> \o EncodeString(d)) /\ r[1] = 0
    BY <1>2, <2>1, <2>3
  <2>5. Hears(r)
    BY <2>4 DEF Hears, d
  <2>6. QED BY <2>4, <2>5 DEF r
<1>5. CASE \E text \in {<<S!Cannot>>, <<S!Only>>, <<S!Sqlite3Message>>} : r = S!reply_result(TRUE, text)
  <2>1. PICK c \in Ascii : r = S!reply_result(TRUE, <<c>>)
    <3>1. S!Cannot \in Ascii /\ S!Only \in Ascii /\ S!Sqlite3Message \in Ascii
      BY DEF S!Cannot, S!Only, S!Sqlite3Message, Ascii
    <3>2. QED BY <1>5, <3>1
  <2> DEFINE m == <<c>>
  <2>2. EncodeString(m) \in Octets
    BY AsciiTexts, OneShort, ErrorIs
  <2>3. r = S!reply_result(TRUE, m)
    BY <2>1
  <2> HIDE DEF m, r
  <2>4. r = (<<0>> \o <<1>>) \o EncodeString(m)
    BY <1>3, <2>3
  <2>5. r = <<0>> \o (<<1>> \o EncodeString(m)) /\ r[1] = 0
    BY <1>2, <2>2, <2>4
  <2>6. Hears(r)
    BY <2>5 DEF Hears, Error, m
  <2>7. QED BY <2>5, <2>6 DEF r
<1>6. QED BY <1>1, <1>4, <1>5 DEF WholeAnswers, S!WholeAnswers, S!In

\* What relay gave: the string of a document, or one message.
Given(l) ==
  IF l.ok THEN \E n \in 0..MaxRows : l.val = EncodeString(S!Document(n))
  ELSE \E c \in Ascii : l.val = <<c>>

\* From what it heard to what its caller has.
RelayInv ==
  /\ call.phase # "idle" /\ call.fn = "relay" =>
       /\ call.phase = "answered" => \E p : Hears(p) /\ call.heard = G!Lenbuf(p)
       /\ call.phase = "returned" => \E q : Replies(q) /\ reply = G!Lenbuf(q)
  /\ last # None /\ last.fn = "relay" => Given(last)

\* A reply of the guest, a trap, and a reply that reaches it keep it.
LEMMA ReturnRelays ==
  ASSUME PinsInv, RelayInv, call.phase # "idle", NEW payload, NEW held,
         G!Return(payload, held), call.fn = "relay" => Replies(payload)
  PROVE  RelayInv'
<1>1. /\ call' = [call EXCEPT !.phase = "returned", !.bufs = {}] /\ DOMAIN call = CallFields
      /\ reply' = G!Lenbuf(payload) /\ last' = last
  BY DEF G!Return, PinsInv
<1>2. call'.phase = "returned" /\ call'.fn = call.fn
  BY <1>1 DEF CallFields
<1>3. QED BY <1>1, <1>2 DEF RelayInv, Given

LEMMA TrapGives ==
  ASSUME RelayInv, G!Trap
  PROVE  RelayInv'
<1>1. call' = G!Idle /\ last' = [fn |-> call.fn, params |-> call.params, ok |-> FALSE, val |-> <<4>>]
  BY Zenon DEF G!Trap, G!Told, G!Message
<1>2. call'.phase = "idle" /\ ~last'.ok /\ last'.val = <<4>> /\ 4 \in Ascii
  BY <1>1 DEF G!Idle, Ascii
<1>3. Given(last')
  BY <1>2 DEF Given
<1>4. QED BY <1>2, <1>3 DEF RelayInv

LEMMA ReachRelays ==
  ASSUME PinsInv, RelayInv, NEW payload, Reach(payload),
         call.fn = "relay" => Hears(payload)
  PROVE  RelayInv'
<1>1. CASE G!Trap
  BY <1>1, TrapGives
<1>2. CASE G!MeshReplies(payload)
  <2>1. /\ call.phase = "asking" /\ DOMAIN call = CallFields /\ last' = last
        /\ \E a \in G!Free : call' = [call EXCEPT !.phase = "answered", !.heard = G!Lenbuf(payload),
                                                  !.mesh = a]
    BY <1>2 DEF G!MeshReplies, G!In, PinsInv
  <2>2. call'.phase = "answered" /\ call'.fn = call.fn /\ call'.heard = G!Lenbuf(payload)
    BY <2>1 DEF CallFields
  <2>3. QED BY <2>1, <2>2 DEF RelayInv, Given
<1>3. QED BY <1>1, <1>2 DEF Reach

\* The client reads it.
LEMMA CopiesGive ==
  ASSUME RelayInv, G!Copies
  PROVE  RelayInv'
<1> DEFINE payload == G!ReadLenbuf(reply)
<1>1. call.phase = "returned" /\ call' = G!Idle
  BY Zenon DEF G!Copies, G!In
<1>2. last' = IF payload[1] = 0 THEN G!Told(TRUE, Tail(payload))
              ELSE G!Told(FALSE, G!string_dec(payload, 1).val)
  BY Zenon DEF G!Copies
<1> HIDE DEF payload
<1>3. last'.fn = call.fn
  <2>1. \A ok, val : G!Told(ok, val).fn = call.fn
    BY DEF G!Told
  <2>2. QED BY <1>2, <2>1
<1>4. call'.phase = "idle"
  BY <1>1 DEF G!Idle
<1>5. CASE call.fn = "relay"
  <2>1. PICK q : Replies(q) /\ reply = G!Lenbuf(q)
    BY <1>1, <1>5 DEF RelayInv
  <2>2. payload = q
    BY <2>1, RepliesRead, LenbufReadsBack DEF payload
  <2>3. \A ok, val : G!Told(ok, val) = [fn |-> call.fn, params |-> call.params, ok |-> ok, val |-> val]
    BY Zenon DEF G!Told
  <2>4. CASE q[1] = 0 /\ \E n \in 0..MaxRows : Tail(q) = EncodeString(S!Document(n))
    <3>1. last' = [fn |-> call.fn, params |-> call.params, ok |-> TRUE, val |-> Tail(q)]
      BY <1>2, <2>2, <2>3, <2>4
    <3>2. last'.ok /\ last'.val = Tail(q)
      BY <3>1
    <3>3. QED BY <1>4, <2>4, <3>2 DEF RelayInv, Given
  <2>5. CASE q[1] # 0 /\ \E c \in Ascii : G!string_dec(q, 1).val = <<c>>
    <3>1. last' = [fn |-> call.fn, params |-> call.params, ok |-> FALSE,
                   val |-> G!string_dec(q, 1).val]
      BY <1>2, <2>2, <2>3, <2>5
    <3>2. ~last'.ok /\ last'.val = G!string_dec(q, 1).val
      BY <3>1
    <3>3. QED BY <1>4, <2>5, <3>2 DEF RelayInv, Given
  <2>6. QED BY <2>1, <2>4, <2>5, RepliesRead
<1>6. CASE call.fn # "relay"
  BY <1>3, <1>4, <1>6 DEF RelayInv
<1>7. QED BY <1>5, <1>6

LEMMA GuestRelays ==
  ASSUME PinsInv, RelayInv, ClientInvokes \/ GuestStarts \/ GuestEnds \/ GuestRestarts
  PROVE  RelayInv'
<1>1. ASSUME NEW fn, NEW params, G!Invoke(fn, params) \/ G!AllocFails(fn, params)
      PROVE  RelayInv'
  <2>1. CASE G!Invoke(fn, params)
    <3>1. call'.phase = "entering" /\ last' = last
      BY <2>1 DEF G!Invoke
    <3>2. QED BY <3>1 DEF RelayInv, Given
  <2>2. CASE G!AllocFails(fn, params)
    <3>1. /\ call' = call /\ call.phase = "idle"
          /\ last' = [fn |-> fn, params |-> params, ok |-> FALSE, val |-> <<5>>]
      BY <2>2, Zenon DEF G!AllocFails, G!In, G!Message
    <3>2. ~last'.ok /\ last'.val = <<5>> /\ 5 \in Ascii
      BY <3>1 DEF Ascii
    <3>3. Given(last')
      BY <3>2 DEF Given
    <3>4. QED BY <3>1, <3>3 DEF RelayInv
  <2>3. QED BY <1>1, <2>1, <2>2
<1>2. CASE G!Dispatch
  <2>1. call.phase = "entering" /\ DOMAIN call = CallFields
    BY <1>2 DEF G!Dispatch, G!In, PinsInv
  <2>2. CASE \E payload : G!Return(payload, pins) /\ (call.fn = "relay" => Replies(payload))
    BY <2>1, <2>2, ReturnRelays
  <2>3. CASE call' = [call EXCEPT !.phase = "asking"] /\ last' = last
    <3>1. call'.phase = "asking"
      BY <2>1, <2>3 DEF CallFields
    <3>2. QED BY <2>3, <3>1 DEF RelayInv, Given
  <2>4. Replies(G!ReplyErr(G!Message.unknown)) /\ Replies(G!ReplyErr(G!Message.params))
    <3>1. G!Message.unknown = <<1>> /\ G!Message.params = <<2>> /\ 1 \in Ascii /\ 2 \in Ascii
      BY DEF G!Message, Ascii
    <3>2. QED BY <3>1, MessagesShort DEF Replies
  <2>5. "relay" \in G!Asking
    BY DEF G!Asking
  <2>6. QED BY <1>2, <2>2, <2>3, <2>4, <2>5 DEF G!Dispatch
<1>3. CASE G!Resume
  <2>1. /\ call.phase = "answered"
        /\ G!Return(G!Relayed(call.fn, G!ReadLenbuf(call.heard)), pins \ {call.mesh})
    BY <1>3 DEF G!Resume, G!In
  <2>2. CASE call.fn = "relay"
    <3>1. PICK p : Hears(p) /\ call.heard = G!Lenbuf(p)
      BY <2>1, <2>2 DEF RelayInv
    <3>2. Frameable(p) /\ Replies(G!Relayed("relay", p))
      BY <3>1, HearsReplies
    <3>3. G!ReadLenbuf(call.heard) = p
      BY <3>1, <3>2, LenbufReadsBack
    <3>4. Replies(G!Relayed(call.fn, G!ReadLenbuf(call.heard)))
      BY <2>2, <3>2, <3>3
    <3>5. QED BY <2>1, <3>4, ReturnRelays
  <2>3. QED BY <2>1, <2>2, ReturnRelays
<1>4. CASE G!Copies
  BY <1>4, CopiesGive
<1>5. CASE G!Trap
  BY <1>5, TrapGives
<1>6. CASE G!Restart
  BY <1>6 DEF G!Restart, G!Idle, RelayInv
<1>7. CASE G!Forget
  BY <1>7 DEF G!Forget, RelayInv
<1>8. QED BY <1>1, <1>2, <1>3, <1>4, <1>5, <1>6, <1>7
          DEF ClientInvokes, GuestStarts, GuestEnds, GuestRestarts

LEMMA StepsRelay ==
  ASSUME PinsInv, DocumentsInv, MailInv, RelayInv, [Next]_vars
  PROVE  RelayInv'
<1>1. CASE ClientExecs \/ SqliteSteps \/ SqliteRestarts \/ Delivered \/ Lost \/ UNCHANGED vars
  <2>1. call' = call /\ reply' = reply /\ last' = last
    BY <1>1 DEF ClientExecs, SqliteSteps, SqliteRestarts, Delivered, Lost, vars, guestVars
  <2>2. QED BY <2>1 DEF RelayInv, Given
<1>2. CASE Answered
  <2>1. CASE job.caller = "relay"
    <3>1. job.phase = "answered" /\ WholeAnswers
      BY <1>2 DEF Answered, S!Taken, S!In, DocumentsInv
    <3>2. QED BY <1>2, <2>1, <3>1, AnswersHeard, ReachRelays DEF Answered
  <2>2. CASE job.caller # "relay"
    <3>1. call' = call /\ reply' = reply /\ last' = last
      BY <1>2, <2>2 DEF Answered, guestVars
    <3>2. QED BY <3>1 DEF RelayInv, Given
  <2>3. QED BY <2>1, <2>2
<1>3. CASE MeshFails
  <2> PICK message \in {<<>>, G!Message.memory, <<255>>} : Reach(G!ReplyErr(message))
    BY <1>3 DEF MeshFails
  <2>1. G!Message.memory = <<5>> /\ 5 \in AnyByte /\ 255 \in AnyByte
    BY DEF G!Message, AnyByte
  <2>2. Hears(G!ReplyErr(message))
    BY <2>1, MessagesShort DEF Hears
  <2>3. QED BY <2>2, ReachRelays
<1>4. CASE OthersReply
  <2>1. call.fn # "relay" /\ \E payload : Reach(payload)
    BY <1>4 DEF OthersReply
  <2>2. QED BY <2>1, ReachRelays
<1>5. QED BY <1>1, <1>2, <1>3, <1>4, GuestRelays DEF Next

\* From the database to the client of another workload, whatever is lost, late, given
\* up or restarted on the way: what relay gives is a whole document, or one message
\* in Unicode (main.c's guest_exec, the mesh call of crabgen's wrapper, and
\* crab.cpp's check of a text).
THEOREM DocumentsWhole == Spec => []WholeDocuments
<1> DEFINE Inv == PinsInv /\ StatementsInv /\ DocumentsInv /\ MailInv /\ RelayInv
<1>1. Init => Inv
  <2>1. Init => PinsInv /\ StatementsInv /\ MailInv /\ RelayInv
    BY DEF Init, G!Init, G!Idle, G!In, S!Init, S!Idle, S!In, PinsInv, G!PinsReleased,
           StatementsInv, S!StatementsClosed, MailInv, AnswersAreAwaited, RelayInv
  <2>2. 0 \in 0..MaxRows
    BY RowsAssumption
  <2>3. Init => DocumentsInv
    BY <2>2 DEF Init, S!Init, S!Idle, S!In, DocumentsInv, WholeAnswers, S!WholeAnswers
  <2>4. QED BY <2>1, <2>3
<1>2. Inv /\ [Next]_vars => Inv'
  BY StepsOfGuest, GuestReleases, StepsOfSqlite, SqliteCloses, SqliteAnswers, MailKept, StepsRelay
<1>3. Inv => WholeDocuments
  <2> SUFFICES ASSUME RelayInv, last # None, last.fn = "relay"
               PROVE  IF last.ok THEN \E n \in 0..MaxRows : string_dec(last.val, 0).val = S!Document(n)
                      ELSE Len(last.val) = 1 /\ Unicode(last.val)
    BY DEF WholeDocuments
  <2>1. Given(last)
    BY DEF RelayInv
  <2>2. CASE last.ok
    <3>1. PICK n \in 0..MaxRows : last.val = EncodeString(S!Document(n))
      BY <2>1, <2>2 DEF Given
    <3> DEFINE d == S!Document(n)
               e == EncodeString(d)
    <3>2. d \in Octets /\ Len(d) < Pow2[Int32] /\ e \in Octets
      BY DocumentIs
    <3>3. last.val = e
      BY <3>1
    <3>4. Holds(e, 0, e)
      <4> HIDE DEF e
      <4>1. e \in Seq(0..255) /\ Len(e) \in Nat
        BY <3>2 DEF Octets
      <4>2. 0 \in Nat /\ 0 + Len(e) <= Len(e) /\ \A i \in 1..Len(e) : 0 + i = i
        BY <4>1
      <4>3. QED BY <4>1, <4>2 DEF Holds
    <3> HIDE DEF d
    <3>5. string_dec(e, 0) = Ok(d, 0 + Len(e))
      BY <3>2, <3>4, TextDecoded DEF Octets
    <3>6. string_dec(last.val, 0).val = d
      BY <3>3, <3>5 DEF Ok
    <3>7. QED BY <2>2, <3>6 DEF d
  <2>3. CASE ~last.ok
    <3>1. PICK c \in Ascii : last.val = <<c>>
      BY <2>1, <2>3 DEF Given
    <3> DEFINE s == <<c>>
    <3>2. s \in Seq(0..255) /\ Utf8Valid(s) /\ Len(s) = 1
      BY AsciiTexts, OneShort DEF Octets
    <3> HIDE DEF s
    <3>3. Unicode(s)
      BY <3>2, Utf8IsUnicode
    <3>4. QED BY <2>3, <3>1, <3>2, <3>3 DEF s
  <2>4. QED BY <2>2, <2>3
<1>4. QED BY <1>1, <1>2, <1>3, PTL DEF Spec

-----------------------------------------------------------------------------
(* What a handler that needs nobody is given, and what its caller learns. *)

\* The guest's bindings are those that BindingsProofs is about.
LEMMA BindingsAgree ==
  /\ G!Exports = Exports /\ G!Asking = Asking /\ G!Functions = Functions
  /\ \A fn, buf : G!Params(fn, buf) = Params(fn, buf)
  /\ \A fn, v : G!Result(fn, v) = Result(fn, v)
<1>1. G!Exports = Exports /\ G!Asking = Asking /\ G!Functions = Functions /\ G!Echo = Echo
      /\ G!Signed = Signed /\ G!Unsigned = Unsigned
  <2>1. G!Signed = Signed /\ G!Unsigned = Unsigned
    BY DEF G!Signed, Signed, G!Unsigned, Unsigned
  <2>2. G!Echo = Echo /\ G!Asking = Asking
    BY <2>1 DEF G!Echo, Echo, G!Asking, Asking
  <2>3. QED BY <2>1, <2>2 DEF G!Exports, Exports, G!Functions, Functions
<1>2. G!Fail = Fail /\ (\A x, y : G!Ok(x, y) = Ok(x, y)) /\ G!Pow2 = Pow2
      /\ (\A buf, pos : G!Remaining(buf, pos) = Remaining(buf, pos))
      /\ (\A t : G!Bits(t) = Bits(t))
  <2>1. G!Fail = Fail
    BY Zenon DEF G!Fail, Fail
  <2>2. \A x, y : G!Ok(x, y) = Ok(x, y)
    BY Zenon DEF G!Ok, Ok
  <2>3. G!Pow2 = Pow2
    BY DEF G!Pow2, Pow2
  <2>4. \A buf, pos : G!Remaining(buf, pos) = Remaining(buf, pos)
    BY Zenon DEF G!Remaining, Remaining
  <2>5. \A t : G!Bits(t) = Bits(t)
    BY Zenon DEF G!Bits, Bits
  <2>6. QED BY <2>1, <2>2, <2>3, <2>4, <2>5
<1>3. \A groups, buf, pos : G!Span(groups, buf, pos) = Span(groups, buf, pos)
  BY DEF G!Span, Span, G!Remaining, Remaining, G!Min, Min
<1>4. \A k, buf, pos : G!Payload(k, buf, pos) = Payload(k, buf, pos)
  BY DEF G!Value, Value, G!Payload, Payload
<1>5. \A bits : G!Groups(bits) = Groups(bits)
  BY DEF G!Groups, Groups
<1>6. \A bits, buf, pos : G!Uleb(bits, buf, pos) = Uleb(bits, buf, pos)
  <2>1. \A k, bits, buf, pos : G!UlebOf(k, bits, buf, pos) = UlebOf(k, bits, buf, pos)
    BY <1>2, <1>4, SMT DEF G!UlebOf, UlebOf
  <2>2. QED BY <1>3, <1>5, <2>1, Zenon DEF G!Uleb, Uleb
<1>7. \A bits, buf, pos : G!Sleb(bits, buf, pos) = Sleb(bits, buf, pos)
  <2>1. \A k, bits, buf, pos : G!SlebOf(k, bits, buf, pos) = SlebOf(k, bits, buf, pos)
    BY <1>2, <1>4, SMT DEF G!SlebOf, SlebOf
  <2>2. QED BY <1>3, <1>5, <2>1, Zenon DEF G!Sleb, Sleb
<1>8. \A buf, pos : G!PrefixBit(buf, pos) = PrefixBit(buf, pos)
  BY <1>2, Zenon DEF G!PrefixBit, PrefixBit, G!Then, Then, G!Byte, Byte
<1>9. \A buf, pos : G!Char(buf, pos) = Char(buf, pos)
  <2>1. \A n : G!IsScalar(n) = IsScalar(n)
    BY SMT DEF G!IsScalar, IsScalar
  <2>2. QED BY <1>2, <1>6, <2>1, Zenon DEF G!Char, Char, G!Then, Then
<1>10. \A n, buf, pos : G!Case(n, buf, pos) = Case(n, buf, pos)
  BY <1>2, <1>6, Zenon DEF G!Case, Case, G!Then, Then
<1>11. \A n, buf, pos : G!Flags(n, buf, pos) = Flags(n, buf, pos)
  <2>1. \A n, bytes : G!FlagsOf(n, bytes) = FlagsOf(n, bytes)
    BY <1>2, Zenon DEF G!FlagsOf, FlagsOf
  <2>2. \A n, buf, pos : G!Bytes(n, buf, pos) = Bytes(n, buf, pos)
    BY <1>2, Zenon DEF G!Bytes, Bytes
  <2> SUFFICES ASSUME NEW n, NEW buf, NEW pos
               PROVE  G!Flags(n, buf, pos) = Flags(n, buf, pos)
    OBVIOUS
  <2> DEFINE size == (n + 7) \div 8
             b == Bytes(size, buf, pos)
             c == G!Bytes(size, buf, pos)
  <2>3. c = b /\ G!FlagsOf(n, c.val) = FlagsOf(n, b.val)
    BY <2>1, <2>2, Zenon
  <2>4. G!Flags(n, buf, pos) = IF c.ok THEN IF n % 8 # 0 /\ c.val[size] >= G!Pow2[n % 8] THEN G!Fail
                                            ELSE [c EXCEPT !.val = G!FlagsOf(n, c.val)]
                               ELSE G!Fail
    BY Zenon DEF G!Flags, G!Then
  <2>5. Flags(n, buf, pos) = IF b.ok THEN IF n % 8 # 0 /\ b.val[size] >= Pow2[n % 8] THEN Fail
                                            ELSE [b EXCEPT !.val = FlagsOf(n, b.val)]
                               ELSE Fail
    BY Zenon DEF Flags, Then
  <2> HIDE DEF b, c
  <2>6. G!Fail = Fail /\ G!Pow2 = Pow2
    BY <1>2
  <2> DEFINE f == FlagsOf(n, b.val)
             big == b.val[size] >= Pow2[n % 8]
  <2>7. (c.val[size] >= G!Pow2[n % 8]) <=> big
    BY <2>3, <2>6
  <2>8. G!Flags(n, buf, pos) = IF b.ok THEN IF n % 8 # 0 /\ big THEN Fail ELSE [b EXCEPT !.val = f]
                               ELSE Fail
    <3>1. G!FlagsOf(n, c.val) = f /\ c = b
      BY <2>3
    <3> HIDE DEF f, big
    <3>2. QED BY <2>4, <2>6, <2>7, <3>1
  <2>9. QED BY <2>5, <2>8
<1>12. \A buf, pos : G!Option(buf, pos) = Option(buf, pos)
  BY <1>2, <1>6, <1>8, Zenon DEF G!Option, Option, G!Then, Then
<1>13. \A buf, pos : G!List(buf, pos) = List(buf, pos)
  <2>1. \A n, pos, read : G!Elements(n, pos, read) = Elements(n, pos, read)
    BY Zenon DEF G!Elements, Elements, G!Then, Then, G!Ok, Ok, G!Fail, Fail
  <2>2. QED BY <1>2, <1>6, <2>1, Zenon DEF G!List, List, G!Then, Then
<1>14. \A t, buf, pos : G!Decode(t, buf, pos) = Decode(t, buf, pos)
  BY <1>1, <1>2, <1>6, <1>7, <1>8, <1>9, <1>10, <1>11, <1>12, <1>13, GuestCodec, Zenon DEF G!Decode, Decode
<1>15. \A buf : G!decodeAdd(buf) = decodeAdd(buf)
  BY <1>2, <1>6, Zenon DEF G!decodeAdd, decodeAdd, G!Then, Then
<1>16. \A buf : G!decodeGreetRequest(buf) = decodeGreetRequest(buf)
  BY <1>2, <1>8, GuestCodec, Zenon DEF G!decodeGreetRequest, decodeGreetRequest, G!Then, Then
<1>17. \A buf, r : G!Finished(buf, r) = Finished(buf, r)
  BY <1>2, Zenon DEF G!Finished, Finished
<1>18. \A fn, buf : G!Params(fn, buf) = Params(fn, buf)
  BY <1>1, <1>2, <1>14, <1>15, <1>16, <1>17, GuestCodec, Zenon DEF G!Params, Params
<1>19. \A t, v : G!Encode(t, v) = Encode(t, v)
  <2>1. G!EncodeSleb = EncodeSleb /\ G!EncodeElements = EncodeElements
    BY DEF G!EncodeSleb, EncodeSleb, G!EncodeElements, EncodeElements, G!EncodeUleb, EncodeUleb
  <2>2. \A n, v : G!EncodeFlags(n, v) = EncodeFlags(n, v)
    BY Zenon DEF G!EncodeFlags, EncodeFlags
  <2>3. \A v : G!EncodeBool(v) = EncodeBool(v)
    BY Zenon DEF G!EncodeBool, EncodeBool
  <2>4. QED BY <1>1, <2>1, <2>2, <2>3, GuestCodec, Zenon DEF G!Encode, Encode, G!EncodeOption, EncodeOption,
               G!EncodeList, EncodeList
<1>20. \A fn, v : G!Result(fn, v) = Result(fn, v)
  BY <1>1, <1>2, <1>19, GuestCodec, Zenon DEF G!Result, Result, G!add, add, G!greet, greet
<1>21. QED BY <1>1, <1>18, <1>20

\* Bytes, fewer than half of a guest's memory.
Sized(params) == params \in Octets /\ Len(params) <= Half

LEMMA HalfIs == Half \in Nat
BY SMT DEF Half

\* What a client sends is that.
LEMMA InputsSized ==
  ASSUME NEW fn \in Functions, NEW params, params \in Written[fn] \/ params \in Inputs[fn]
  PROVE  Sized(params)
<1>1. ASSUME NEW p, p \in Written[fn] \/ p \in Raw[fn]
      PROVE  p \in Octets /\ Len(p) < Half
  BY <1>1, InputsAssumption DEF Octets
<1>2. ASSUME NEW p \in Octets, Len(p) < Half, NEW d \in Damaged(p)
      PROVE  Sized(d)
  <2> DEFINE n == Len(p)
  <2>0. n \in Nat /\ 0 \in AnyByte /\ Half \in Nat
    BY <1>2, OctetsIs, HalfIs DEF AnyByte
  <2>1. CASE d = p \o <<0>>
    <3>1. <<0>> \in Octets /\ Len(<<0>>) = 1
      BY DEF Octets
    <3>2. d \in Octets /\ Len(d) = Len(p) + 1
      BY <2>1, <3>1, <1>2, Concat
    <3>3. n + 1 <= Half
      BY <1>2, <2>0, SMT
    <3>4. QED BY <3>2, <3>3 DEF Sized
  <2>2. CASE p # <<>> /\ (d = Front(p) \/ d = Front(p) \o <<(Last(p) % 128) + 128, 0>>)
    <3> DEFINE f == Front(p)
               x == (Last(p) % 128) + 128
               e == <<x, 0>>
    <3>1. n # 0
      BY <2>2, EmptySeq, <1>2 DEF Octets
    <3>2. f \in Octets /\ Len(f) = n - 1 /\ Last(p) \in AnyByte
      <4> DEFINE k == n - 1
                 z == 0
                 g == SubSeq(p, z + 1, z + k)
      <4>1. k \in Nat /\ z \in Nat /\ z + k <= Len(p)
        BY <2>0, <3>1
      <4> HIDE DEF k, z
      <4>2. g \in Octets /\ Len(g) = k
        BY <1>2, <4>1, PartIs
      <4>3. f = SubSeq(p, 1, n - 1)
        BY DEF Front
      <4>4. z + 1 = 1 /\ z + k = n - 1
        BY <2>0 DEF z, k
      <4>5. g = f
        BY <4>3, <4>4
      <4>6. Last(p) = p[n] /\ n \in 1..n
        BY <2>0, <3>1 DEF Last
      <4>7. p[n] \in 0..255
        BY <4>6, <1>2, OctetsIs
      <4>8. QED BY <4>2, <4>5, <4>6, <4>7 DEF k, AnyByte
    <3> HIDE DEF f
    <3>3. e \in Octets /\ Len(e) = 2
      <4>1. x \in 0..255
        <5>1. \A y \in 0..255 : (y % 128) + 128 \in 0..255
          BY SMT
        <5>2. QED BY <3>2, <5>1 DEF AnyByte
      <4> HIDE DEF x
      <4>2. QED BY <4>1 DEF Octets
    <3> HIDE DEF e
    <3>4. f \o e \in Octets /\ Len(f \o e) = (n - 1) + 2
      BY <3>2, <3>3, Concat
    <3>5. n - 1 <= Half /\ (n - 1) + 2 <= Half
      BY <1>2, <2>0, SMT
    <3>6. QED BY <2>2, <3>2, <3>4, <3>5 DEF Sized, f, e, x
  <2>3. QED BY <1>2, <2>1, <2>2 DEF Damaged
<1>3. ASSUME NEW p \in Octets, Len(p) < Half
      PROVE  Sized(p)
  <2> DEFINE n == Len(p)
  <2>1. n \in Nat /\ Half \in Nat
    BY <1>3, OctetsIs, HalfIs
  <2>2. n <= Half
    BY <1>3, <2>1, SMT
  <2>3. QED BY <2>2 DEF Sized
<1>4. CASE params \in Written[fn] \/ params \in Raw[fn]
  BY <1>1, <1>3, <1>4
<1>5. CASE params \in UNION {Damaged(p) : p \in Written[fn]}
  BY <1>1, <1>2, <1>5
<1>6. Inputs[fn] = Written[fn] \cup (UNION {Damaged(p) : p \in Written[fn]}) \cup Raw[fn]
  BY DEF Inputs
<1>7. QED BY <1>4, <1>5, <1>6

\* A frame is bytes.
LEMMA LenbufTyped ==
  ASSUME NEW payload \in Octets
  PROVE  G!Lenbuf(payload) \in Octets
<1> DEFINE n == Len(payload)
           b1 == n % 256
           b2 == (n \div 256) % 256
           b3 == (n \div 65536) % 256
           b4 == (n \div 16777216) % 256
           head == <<b1, b2, b3, b4>>
<1>1. n \in Nat
  BY OctetsIs
<1> HIDE DEF n
<1>2. b1 \in 0..255 /\ b2 \in 0..255 /\ b3 \in 0..255 /\ b4 \in 0..255
  <2>1. \A m \in Nat : m % 256 \in 0..255 /\ (m \div 256) % 256 \in 0..255
                       /\ (m \div 65536) % 256 \in 0..255 /\ (m \div 16777216) % 256 \in 0..255
    BY SMT
  <2>2. QED BY <1>1, <2>1
<1> HIDE DEF b1, b2, b3, b4
<1>3. head \in Octets
  BY <1>2 DEF Octets
<1> HIDE DEF head
<1>4. head \o payload \in Octets
  BY <1>3, Concat
<1>5. G!Lenbuf(payload) = head \o payload
  BY SMT DEF G!Lenbuf, head, b1, b2, b3, b4, n
<1>6. QED BY <1>4, <1>5

\* The result of a handler, written: no longer than twice what it was sent.
LEMMA ResultIs ==
  ASSUME NEW fn \in Handled, NEW v
  PROVE  /\ fn \in Echo => Result(fn, v) = Encode(fn, v)
         /\ fn = "add" => Result(fn, v) = EncodeUleb[add(v[1], v[2])]
         /\ fn = "greet" => Result(fn, v) = EncodeString(greet(v))
BY HandledIs DEF Result

LEMMA SumIs ==
  ASSUME NEW a \in Nat, NEW b \in Nat
  PROVE  add(a, b) \in Nat /\ add(a, b) < Pow2[Int32]
<1>1. Pow2[Int32] \in Nat \ {0}
  BY OneFits
<1>2. \A x \in Nat : \A y \in Nat \ {0} : x % y \in Nat /\ x % y < y
  BY SMT
<1>3. QED BY <1>1, <1>2 DEF add

\* How it greets: two or three more bytes.
LEMMA GreetingIs ==
  ASSUME NEW v, v.name \in Octets
  PROVE  /\ greet(v) \in Octets /\ Len(v.name) \in Nat
         /\ Len(greet(v)) = Len(v.name) + 2 \/ Len(greet(v)) = Len(v.name) + 3
<1> DEFINE s == v.name
           a == <<72>>
           z == IF v.excited = TRUE THEN <<33, 33>> ELSE <<33>>
<1>1. a \in Octets /\ Len(a) = 1
  BY DEF Octets
<1>2. z \in Octets /\ (Len(z) = 1 \/ Len(z) = 2)
  <2>1. <<33, 33>> \in Octets /\ <<33>> \in Octets /\ Len(<<33>>) = 1 /\ Len(<<33, 33>>) = 2
    BY DEF Octets
  <2>2. z = <<33, 33>> \/ z = <<33>>
    OBVIOUS
  <2>3. QED BY <2>1, <2>2
<1>3. s \in Octets
  OBVIOUS
<1>4. greet(v) = a \o s \o z
  BY DEF greet
<1> HIDE DEF a, s, z
<1>5. (a \o s) \in Octets /\ Len(a \o s) = Len(a) + Len(s) /\ Len(s) \in Nat
  BY <1>1, <1>3, Concat
<1>6. (a \o s) \o z \in Octets /\ Len((a \o s) \o z) = Len(a \o s) + Len(z)
  BY <1>2, <1>5, Concat
<1> DEFINE g == (a \o s) \o z
<1>7. greet(v) = g /\ g \in Octets /\ Len(g) = (1 + Len(s)) + Len(z)
  BY <1>1, <1>4, <1>5, <1>6
<1> HIDE DEF g
<1>8. Len(greet(v)) = Len(s) + 2 \/ Len(greet(v)) = Len(s) + 3
  <2> DEFINE k == Len(s)
             m == Len(z)
  <2>1. Len(greet(v)) = (1 + k) + m /\ k \in Nat /\ (m = 1 \/ m = 2)
    BY <1>2, <1>5, <1>7
  <2> HIDE DEF k, m
  <2>2. (1 + k) + m = k + 2 \/ (1 + k) + m = k + 3
    BY <2>1
  <2>3. QED BY <2>1, <2>2 DEF k
<1>9. QED BY <1>5, <1>7, <1>8 DEF s

LEMMA ResultWritten ==
  ASSUME NEW fn \in Handled, NEW v, Takes(fn, v), Sent(fn, v) \in Octets, Len(Sent(fn, v)) <= Half
  PROVE  Result(fn, v) \in Octets /\ Len(Result(fn, v)) <= 2 * Half + 16
<1> DEFINE r == Result(fn, v)
<1>0. Half \in Nat
  BY HalfIs
<1>1. CASE fn \in Echo
  <2>1. r = Sent(fn, v)
    BY <1>1, ResultIs, ReadIsOf
  <2>2. r \in Octets /\ Len(r) <= Half /\ Len(r) \in Nat
    BY <2>1, OctetsIs
  <2> HIDE DEF r
  <2>3. Len(r) <= 2 * Half + 16
    BY <1>0, <2>2
  <2>4. QED BY <2>2, <2>3 DEF r
<1>2. CASE fn = "add"
  <2> DEFINE n == add(v[1], v[2])
             w == EncodeUleb[n]
  <2>1. r = w /\ v[1] \in Nat /\ v[2] \in Nat
    BY <1>2, ResultIs, HandledIs DEF Takes
  <2>2. n \in Nat /\ n < Pow2[Int32]
    BY <2>1, SumIs
  <2>3. Int32 \in Nat \ {0} /\ Int32 <= 32
    BY WidthAssumption
  <2> HIDE DEF n
  <2>4. w \in Octets /\ Len(w) \in Nat
    BY <2>2, NumbersWritten
  <2>5. Fitting(w, Int32)
    BY <2>2, <2>3, UlebFits
  <2> HIDE DEF w, r
  <2>6. 7 * (Len(w) - 1) < Int32
    BY <2>5 DEF Fitting
  <2>7. Len(w) <= 2 * Half + 16
    BY <1>0, <2>3, <2>4, <2>6
  <2>8. QED BY <2>1, <2>4, <2>7 DEF r
<1>3. CASE fn = "greet"
  <2> DEFINE g == greet(v)
             w == EncodeUleb[Len(g)]
             s == v.name
             u == EncodeUleb[Len(s)]
  <2>1. v \in GreetRequests /\ Sent(fn, v) = EncodeString(s) \o EncodeOptionalBit(v.excited)
    BY <1>3, ReadIsOf, GreetWritten, HandledIs DEF Takes
  <2>2. s \in Octets /\ (v.excited = None \/ v.excited \in BOOLEAN)
    BY <2>1 DEF GreetRequests
  <2>3. g \in Octets /\ Len(s) \in Nat /\ (Len(g) = Len(s) + 2 \/ Len(g) = Len(s) + 3)
    BY <2>2, GreetingIs
  <2>4. u \in Octets /\ EncodeString(s) = u \o s
    BY <2>3, NumbersWritten DEF EncodeString
  <2> HIDE DEF u
  <2>5. Len(EncodeString(s)) = Len(u) + Len(s) /\ Len(u) \in Nat /\ EncodeString(s) \in Octets
    BY <2>2, <2>4, Concat
  <2> DEFINE o == EncodeOptionalBit(v.excited)
             e == EncodeString(s)
  <2>6. o \in Octets /\ Len(o) \in Nat
    <3>1. o \in Octets
      BY <2>2, OptionalBitWritten
    <3>2. QED BY <3>1, OctetsIs
  <2> HIDE DEF o, e
  <2>7. Len(e \o o) = Len(e) + Len(o)
    BY <2>5, <2>6, Concat DEF e
  <2>8. Len(s) <= Half
    <3>1. Len(e \o o) <= Half
      BY <2>1 DEF e, o
    <3>2. Len(e) = Len(u) + Len(s)
      BY <2>5 DEF e
    <3>3. QED BY <1>0, <2>3, <2>5, <2>6, <2>7, <3>1, <3>2
  <2> HIDE DEF g, s
  <2>9. w \in Octets /\ Len(w) <= Len(g) + 1 /\ Len(w) \in Nat /\ Len(g) \in Nat
    <3>1. Len(g) \in Nat
      BY <2>3, OctetsIs
    <3>2. QED BY <3>1, NumbersWritten, UlebLength
  <2>10. r = w \o g
    BY <1>3, ResultIs DEF EncodeString, g
  <2> HIDE DEF w, r
  <2>11. r \in Octets /\ Len(r) = Len(w) + Len(g)
    BY <2>3, <2>9, <2>10, Concat
  <2>12. Len(r) <= 2 * Half + 16
    BY <1>0, <2>3, <2>8, <2>9, <2>11
  <2>13. QED BY <2>11, <2>12 DEF r
<1>4. QED BY <1>1, <1>2, <1>3, HandledIs

\* What a guest may reply: a result, or an error that tells one short message.
Readable(q) ==
  /\ Frameable(q)
  /\ \/ \E body \in Octets : q = <<0>> \o body
     \/ \E m : Short(m) /\ q = Error(m)

\* What the host makes of either.
LEMMA ErrorSays ==
  ASSUME NEW m, Short(m)
  PROVE  Error(m)[1] # 0 /\ G!string_dec(Error(m), 1).val = m /\ m \in Octets
<1> DEFINE q == Error(m)
<1>1. q[1] = 1 /\ Holds(q, 1, EncodeString(m))
  BY ErrorIs
<1>2. m \in Seq(0..255) /\ Len(m) < Pow2[Int32]
  BY DEF Short, Octets
<1> HIDE DEF q
<1>3. string_dec(q, 1) = Ok(m, 1 + Len(EncodeString(m)))
  BY <1>1, <1>2, TextDecoded
<1>4. G!string_dec(q, 1).val = m
  BY <1>3, CodecsAgree, OkIs
<1>5. q[1] # 0
  BY <1>1
<1>6. QED BY <1>2, <1>4, <1>5 DEF q, Octets

LEMMA ResultSays ==
  ASSUME NEW body \in Octets
  PROVE  (<<0>> \o body)[1] = 0 /\ Tail(<<0>> \o body) = body
<1>1. 0 \in 0..255
  OBVIOUS
<1>2. QED BY <1>1, Prefixed

LEMMA ReadableRead ==
  ASSUME NEW q, Readable(q)
  PROVE  /\ G!ReadLenbuf(G!Lenbuf(q)) = q /\ G!Lenbuf(q) \in Octets
         /\ \/ q[1] = 0 /\ Tail(q) \in Octets
            \/ q[1] # 0 /\ G!string_dec(q, 1).val \in Octets
<1>1. Frameable(q) /\ q \in Octets
  BY DEF Readable, Frameable
<1>2. ASSUME NEW body \in Octets, q = << 0 >> \o body
      PROVE  q[1] = 0 /\ Tail(q) \in Octets
  <2>1. (<<0>> \o body)[1] = 0 /\ Tail(<<0>> \o body) = body
    BY ResultSays
  <2>2. QED BY <1>2, <2>1
<1>3. ASSUME NEW m, Short(m), q = Error(m)
      PROVE  q[1] # 0 /\ G!string_dec(q, 1).val \in Octets
  <2>1. Error(m)[1] # 0 /\ G!string_dec(Error(m), 1).val = m /\ m \in Octets
    BY <1>3, ErrorSays
  <2>2. QED BY <1>3, <2>1
<1>4. G!ReadLenbuf(G!Lenbuf(q)) = q /\ G!Lenbuf(q) \in Octets
  BY <1>1, LenbufReadsBack, LenbufTyped
<1>5. QED BY <1>2, <1>3, <1>4 DEF Readable

\* Errors and small results are readable.
LEMMA SmallReadable ==
  /\ \A m : Short(m) => Readable(Error(m)) /\ Readable(<<0>> \o Error(m))
  /\ Readable(<<0>> \o <<0>>)
<1>1. ASSUME NEW m, Short(m)
      PROVE  Readable(Error(m)) /\ Readable(<<0>> \o Error(m))
  <2>1. Frameable(Error(m)) /\ Frameable(<<0>> \o Error(m)) /\ Error(m) \in Octets
    BY <1>1, ShortFrames, ErrorIs
  <2>2. QED BY <1>1, <2>1 DEF Readable
<1>2. Readable(<<0>> \o <<0>>)
  <2>1. <<0>> \in Octets /\ Len(<<0>>) = 1
    BY DEF Octets
  <2> DEFINE q == <<0>> \o <<0>>
  <2>2. q \in Octets /\ Len(q) = 1 + 1
    BY <2>1, Concat
  <2>3. Len(q) < 4294967296
    <3> HIDE DEF q
    <3>1. QED BY <2>2, SMT
  <2>4. \E body \in Octets : q = <<0>> \o body
    BY <2>1
  <2> HIDE DEF q
  <2>5. Frameable(q)
    BY <2>2, <2>3, SMT DEF Frameable
  <2>6. QED BY <2>4, <2>5 DEF Readable, q
<1>3. QED BY <1>1, <1>2

\* What relay and report reply.
LEMMA RepliesReadable ==
  ASSUME NEW q, Replies(q)
  PROVE  Readable(q)
<1>1. Frameable(q)
  BY RepliesRead
<1>2. CASE \E n \in 0..MaxRows : q = <<0>> \o EncodeString(S!Document(n))
  <2> PICK n \in 0..MaxRows : q = <<0>> \o EncodeString(S!Document(n))
    BY <1>2
  <2>1. EncodeString(S!Document(n)) \in Octets
    BY DocumentIs
  <2>2. QED BY <1>1, <2>1 DEF Readable
<1>3. CASE \E c \in Ascii : q = Error(<<c>>)
  BY <1>3, AsciiTexts, OneShort, SmallReadable
<1>4. QED BY <1>2, <1>3 DEF Replies

LEMMA ReportReadable ==
  ASSUME NEW p, Answering(p)
  PROVE  Readable(G!Relayed("report", p))
<1>1. CASE p = <<0, 0>>
  BY <1>1, SuccessReplied, SmallReadable
<1>2. ASSUME NEW m, Short(m), p = Error(m) \/ p = << 0 >> \o Error(m)
      PROVE  Readable(G!Relayed("report", p))
  <2>1. ASSUME NEW d, Short(d), G!Wrapped(G!ParseMeshReply(p), TRUE) = [ok |-> FALSE, val |-> d]
        PROVE  Readable(G!Relayed("report", p))
    <3>1. G!Relayed("report", p) = G!ReplyOK(<<1>> \o G!EncodeString(d))
      BY <2>1, ReportReplies
    <3>2. G!Relayed("report", p) = <<0>> \o Error(d)
      BY <3>1, GuestCodec DEF G!ReplyOK, Error
    <3>3. QED BY <2>1, <3>2, SmallReadable
  <2>2. ASSUME NEW d, G!Wrapped(G!ParseMeshReply(p), TRUE) = [ok |-> TRUE, val |-> d]
        PROVE  Readable(G!Relayed("report", p))
    <3>1. G!Relayed("report", p) = G!ReplyOK(<<0>>)
      BY <2>2, ReportReplies
    <3>2. G!Relayed("report", p) = <<0>> \o <<0>>
      BY <3>1 DEF G!ReplyOK
    <3>3. QED BY <3>2, SmallReadable
  <2>3. CASE m # <<>>
    BY <1>2, <2>1, <2>3, ErrorParsed, ResultParsed, RetoldShort
  <2>4. CASE m = <<>> /\ p = Error(m)
    <3>1. G!Wrapped(G!ParseMeshReply(p), TRUE) = [ok |-> FALSE, val |-> <<3>>]
      BY <2>4, NothingParsed
    <3>2. 3 \in Ascii /\ 3 \in AnyByte
      BY DEF Ascii, AnyByte
    <3>3. Short(<<3>>)
      BY <3>2, OneShort
    <3>4. QED BY <2>1, <3>1, <3>3
  <2>5. CASE m = <<>> /\ p = <<0>> \o Error(m)
    <3>1. G!Wrapped(G!ParseMeshReply(p), TRUE) = G!Failed(Retold(m))
      BY <1>2, <2>5, ResultTold
    <3>2. CASE Retold(m) = <<>>
      <4>1. G!Wrapped(G!ParseMeshReply(p), TRUE) = [ok |-> TRUE, val |-> <<>>]
        BY <3>1, <3>2 DEF G!Failed
      <4>2. QED BY <2>2, <4>1
    <3>3. CASE Retold(m) # <<>>
      <4>1. G!Wrapped(G!ParseMeshReply(p), TRUE) = [ok |-> FALSE, val |-> Retold(m)]
        BY <3>1, <3>3 DEF G!Failed
      <4>2. QED BY <1>2, <2>1, <4>1, RetoldShort
    <3>4. QED BY <3>2, <3>3
  <2>6. QED BY <1>2, <2>3, <2>4, <2>5
<1>3. QED BY <1>1, <1>2 DEF Answering

\* What a handler that needs nobody replies.
Handles(fn, params) ==
  IF Params(fn, params).ok THEN <<0>> \o Result(fn, Params(fn, params).val) ELSE Error(<<2>>)

LEMMA TwoShort == Short(<<2>>) /\ Short(<<1>>)
<1>1. 2 \in AnyByte /\ 1 \in AnyByte
  BY DEF AnyByte
<1>2. QED BY <1>1, OneShort

LEMMA HandlesReadable ==
  ASSUME NEW fn \in Handled, NEW params, Sized(params)
  PROVE  /\ Readable(Handles(fn, params))
         /\ Params(fn, params).ok => Result(fn, Params(fn, params).val) \in Octets
<1> DEFINE r == Params(fn, params)
           v == r.val
<1>0. params \in Octets /\ Len(params) <= Half /\ Half \in Nat /\ Len(params) \in Nat
  BY HalfIs, OctetsIs DEF Sized
<1>1. CASE r.ok
  <2>1. Takes(fn, v) /\ Sent(fn, v) \in Octets /\ Len(Sent(fn, v)) <= Len(params)
    BY <1>0, <1>1, ParamsTyped
  <2>2. Handles(fn, params) = <<0>> \o Result(fn, v)
    BY <1>1 DEF Handles
  <2> HIDE DEF v
  <2>3. Len(Sent(fn, v)) <= Half
    <3>1. Len(Sent(fn, v)) \in Nat
      BY <2>1, OctetsIs
    <3>2. QED BY <1>0, <2>1, <3>1
  <2> DEFINE b == Result(fn, v)
             q == <<0>> \o b
  <2>4. b \in Octets /\ Len(b) <= 2 * Half + 16
    BY <2>1, <2>3, ResultWritten
  <2> HIDE DEF b
  <2>5. 0 \in 0..255
    OBVIOUS
  <2>6. q \in Octets /\ Len(q) = Len(b) + 1 /\ Len(b) \in Nat
    BY <2>4, <2>5, Prefixed
  <2>7. Len(q) < 4294967296
    <3> HIDE DEF q
    <3>1. \A n \in Nat : n <= 2 * Half + 16 => n + 1 < 4294967296
      BY SMT DEF Half
    <3>2. Len(b) + 1 < 4294967296
      BY <1>0, <2>4, <2>6, <3>1, SMT
    <3>3. QED BY <2>6, <3>2, SMT
  <2>8. Readable(q)
    <3>1. \E body \in Octets : q = <<0>> \o body
      BY <2>4
    <3> HIDE DEF q
    <3>2. Frameable(q)
      BY <2>6, <2>7, SMT DEF Frameable
    <3>3. QED BY <3>1, <3>2 DEF Readable
  <2>9. QED BY <2>2, <2>4, <2>8 DEF b, v
<1>2. CASE ~r.ok
  BY <1>2, TwoShort, SmallReadable DEF Handles
<1>3. QED BY <1>1, <1>2

\* What the caller of a handler that needs nobody learned: that the guest could not go
\* on, the result, or that its parameters were refused.
Learned(l) ==
  \/ ~l.ok /\ l.val \in {G!Message.trap, G!Message.memory}
  \/ l.ok /\ Params(l.fn, l.params).ok /\ l.val = Result(l.fn, Params(l.fn, l.params).val)
  \/ ~l.ok /\ ~Params(l.fn, l.params).ok /\ l.val = G!Message.params

LastTyped(l) ==
  /\ l.fn \in Functions /\ l.ok \in BOOLEAN /\ l.val \in Octets
  /\ l.fn \in Handled => Sized(l.params) /\ Learned(l)

\* A reply is the one of the handler, until its caller has it.
RepliesInv ==
  /\ reply \in Octets
  /\ call.phase # "idle" =>
       /\ call.fn \in Functions /\ Sized(call.params) /\ call.heard \in Octets
       /\ call.phase \in {"asking", "answered"} => call.fn \in Asking
       /\ call.phase = "returned" =>
            \E q : /\ Readable(q) /\ reply = G!Lenbuf(q)
                   /\ call.fn \in Handled => q = Handles(call.fn, call.params)
  /\ last # None => LastTyped(last)

LEMMA MessagesAre ==
  /\ G!Message.unknown = <<1>> /\ G!Message.params = <<2>> /\ G!Message.trap = <<4>> /\ G!Message.memory = <<5>>
  /\ G!Message.trap \in Octets /\ G!Message.memory \in Octets
BY DEF G!Message, Octets

LEMMA ToldIs ==
  ASSUME NEW l, NEW fn, NEW params, NEW val
  PROVE  /\ l = [fn |-> fn, params |-> params, ok |-> TRUE, val |-> val]
              => l.fn = fn /\ l.params = params /\ l.ok /\ l.ok \in BOOLEAN /\ l.val = val
         /\ l = [fn |-> fn, params |-> params, ok |-> FALSE, val |-> val]
              => l.fn = fn /\ l.params = params /\ ~l.ok /\ l.ok \in BOOLEAN /\ l.val = val
<1>1. ASSUME NEW ok \in BOOLEAN, l = [fn |-> fn, params |-> params, ok |-> ok, val |-> val]
      PROVE  l.fn = fn /\ l.params = params /\ l.ok = ok /\ l.val = val
  BY <1>1, Zenon
<1>2. ASSUME NEW ok \in BOOLEAN, l.ok = ok
      PROVE  l.ok \in BOOLEAN /\ (l.ok <=> ok)
  BY <1>2, Zenon
<1>3. ASSUME l = [fn |-> fn, params |-> params, ok |-> TRUE, val |-> val]
      PROVE  l.fn = fn /\ l.params = params /\ l.ok /\ l.ok \in BOOLEAN /\ l.val = val
  <2>1. l.fn = fn /\ l.params = params /\ l.ok = TRUE /\ l.val = val
    BY <1>1, <1>3
  <2>2. QED BY <1>2, <2>1, Zenon
<1>4. ASSUME l = [fn |-> fn, params |-> params, ok |-> FALSE, val |-> val]
      PROVE  l.fn = fn /\ l.params = params /\ ~l.ok /\ l.ok \in BOOLEAN /\ l.val = val
  <2>1. l.fn = fn /\ l.params = params /\ l.ok = FALSE /\ l.val = val
    BY <1>1, <1>4
  <2>2. QED BY <1>2, <2>1, Zenon
<1>5. QED BY <1>3, <1>4

\* A caller that is told of a trap, or of no memory.
LEMMA FailureTyped ==
  ASSUME NEW fn \in Functions, NEW params, Sized(params), NEW m \in {G!Message.trap, G!Message.memory}, NEW l,
         l = [fn |-> fn, params |-> params, ok |-> FALSE, val |-> m]
  PROVE  LastTyped(l)
<1>1. l.fn = fn /\ l.params = params /\ ~l.ok /\ l.ok \in BOOLEAN /\ l.val = m
  BY ToldIs
<1>2. m \in Octets
  BY MessagesAre
<1>3. QED BY <1>1, <1>2 DEF LastTyped, Learned

LEMMA ReturnReplies ==
  ASSUME PinsInv, RepliesInv, call.phase # "idle", NEW payload, NEW held, G!Return(payload, held),
         Readable(payload), call.fn \in Handled => payload = Handles(call.fn, call.params)
  PROVE  RepliesInv'
<1>1. /\ call' = [call EXCEPT !.phase = "returned", !.bufs = {}] /\ DOMAIN call = CallFields
      /\ reply' = G!Lenbuf(payload) /\ last' = last
  BY DEF G!Return, PinsInv
<1>2. call'.phase = "returned" /\ call'.fn = call.fn /\ call'.params = call.params /\ call'.heard = call.heard
  BY <1>1 DEF CallFields
<1>3. reply' \in Octets
  BY <1>1, ReadableRead
<1>4. /\ call.fn \in Functions /\ Sized(call.params) /\ call.heard \in Octets
      /\ last # None => LastTyped(last)
  BY DEF RepliesInv
<1>5. (call.fn \in Functions /\ Sized(call.params) /\ call.heard \in Octets)'
  BY <1>2, <1>4 DEF Sized
<1>6. (last # None => LastTyped(last))'
  BY <1>1, <1>4 DEF LastTyped, Learned, Sized
<1>7. (\E q : /\ Readable(q) /\ reply = G!Lenbuf(q)
              /\ call.fn \in Handled => q = Handles(call.fn, call.params))'
  <2>1. call'.fn \in Handled => payload = Handles(call'.fn, call'.params)
    BY <1>2
  <2>2. QED BY <1>1, <2>1
<1>8. call'.phase \notin {"asking", "answered"}
  BY <1>2
<1>9. QED BY <1>2, <1>3, <1>5, <1>6, <1>7, <1>8 DEF RepliesInv

\* The caller is told what the reply says.
LEMMA CopiesLearn ==
  ASSUME RepliesInv, G!Copies
  PROVE  RepliesInv'
<1>1. call.phase = "returned" /\ call' = G!Idle /\ reply' = <<>>
  BY Zenon DEF G!Copies, G!In
<1>2. call'.phase = "idle" /\ reply' \in Octets
  BY <1>1 DEF G!Idle, Octets
<1>3. PICK q : /\ Readable(q) /\ reply = G!Lenbuf(q)
               /\ call.fn \in Handled => q = Handles(call.fn, call.params)
  BY <1>1 DEF RepliesInv
<1>4. call.fn \in Functions /\ Sized(call.params)
  BY <1>1 DEF RepliesInv
<1>5. G!ReadLenbuf(reply) = q
  BY <1>3, ReadableRead
<1>6. last' = IF q[1] = 0 THEN G!Told(TRUE, Tail(q)) ELSE G!Told(FALSE, G!string_dec(q, 1).val)
  BY <1>5, Zenon DEF G!Copies
<1>7. \A ok, val : G!Told(ok, val) = [fn |-> call.fn, params |-> call.params, ok |-> ok, val |-> val]
  BY Zenon DEF G!Told
<1>8. CASE q[1] = 0 /\ Tail(q) \in Octets
  <2>1. last' = [fn |-> call.fn, params |-> call.params, ok |-> TRUE, val |-> Tail(q)]
    BY <1>6, <1>7, <1>8
  <2>2. last'.fn = call.fn /\ last'.params = call.params /\ last'.ok /\ last'.ok \in BOOLEAN
        /\ last'.val = Tail(q)
    BY <2>1, ToldIs
  <2>3. ASSUME call.fn \in Handled
        PROVE  /\ Params(call.fn, call.params).ok
               /\ Tail(q) = Result(call.fn, Params(call.fn, call.params).val)
    <3> DEFINE b == Result(call.fn, Params(call.fn, call.params).val)
    <3>1. q = Handles(call.fn, call.params)
      BY <1>3, <2>3
    <3>2. CASE Params(call.fn, call.params).ok
      <4>1. b \in Octets /\ q = <<0>> \o b
        BY <1>4, <2>3, <3>1, <3>2, HandlesReadable DEF Handles
      <4> HIDE DEF b
      <4>2. Tail(q) = b
        BY <4>1, ResultSays
      <4>3. QED BY <3>2, <4>2 DEF b
    <3>3. CASE ~Params(call.fn, call.params).ok
      <4>1. q = Error(<<2>>)
        BY <3>1, <3>3 DEF Handles
      <4>2. q[1] # 0
        BY <4>1, TwoShort, ErrorSays
      <4>3. QED BY <1>8, <4>2
    <3>4. QED BY <3>2, <3>3
  <2>4. LastTyped(last')
    <3>1. last'.fn \in Functions /\ last'.val \in Octets
      BY <1>4, <1>8, <2>2
    <3>2. last'.fn \in Handled => Sized(last'.params) /\ Learned(last')
      BY <1>4, <2>2, <2>3 DEF Learned
    <3>3. QED BY <2>2, <3>1, <3>2 DEF LastTyped
  <2>5. QED BY <1>2, <2>4 DEF RepliesInv
<1>9. CASE q[1] # 0 /\ G!string_dec(q, 1).val \in Octets
  <2> DEFINE m == G!string_dec(q, 1).val
  <2>1. last' = [fn |-> call.fn, params |-> call.params, ok |-> FALSE, val |-> m]
    BY <1>6, <1>7, <1>9
  <2>2. last'.fn = call.fn /\ last'.params = call.params /\ ~last'.ok /\ last'.ok \in BOOLEAN
        /\ last'.val = m
    BY <2>1, ToldIs
  <2>3. ASSUME call.fn \in Handled
        PROVE  ~Params(call.fn, call.params).ok /\ m = G!Message.params
    <3> DEFINE b == Result(call.fn, Params(call.fn, call.params).val)
    <3>1. q = Handles(call.fn, call.params)
      BY <1>3, <2>3
    <3>2. CASE Params(call.fn, call.params).ok
      <4>1. b \in Octets /\ q = <<0>> \o b
        BY <1>4, <2>3, <3>1, <3>2, HandlesReadable DEF Handles
      <4> HIDE DEF b
      <4>2. q[1] = 0
        BY <4>1, ResultSays
      <4>3. QED BY <1>9, <4>2
    <3>3. CASE ~Params(call.fn, call.params).ok
      <4>1. q = Error(<<2>>)
        BY <3>1, <3>3 DEF Handles
      <4>2. m = <<2>>
        BY <4>1, TwoShort, ErrorSays
      <4>3. QED BY <3>3, <4>2, MessagesAre
    <3>4. QED BY <3>2, <3>3
  <2>4. LastTyped(last')
    <3>1. last'.fn \in Functions /\ last'.val \in Octets
      BY <1>4, <1>9, <2>2
    <3>2. last'.fn \in Handled => Sized(last'.params) /\ Learned(last')
      BY <1>4, <2>2, <2>3 DEF Learned
    <3>3. QED BY <2>2, <3>1, <3>2 DEF LastTyped
  <2>5. QED BY <1>2, <2>4 DEF RepliesInv
<1>10. QED BY <1>3, <1>8, <1>9, ReadableRead

\* A trap ends the invocation.
LEMMA TrapLearns ==
  ASSUME RepliesInv, G!Trap
  PROVE  RepliesInv'
<1>1. /\ call' = G!Idle /\ reply' = reply
      /\ last' = [fn |-> call.fn, params |-> call.params, ok |-> FALSE, val |-> G!Message.trap]
  BY Zenon DEF G!Trap, G!Told
<1>2. call.phase # "idle"
  BY Zenon DEF G!Trap, G!In
<1>3. call.fn \in Functions /\ Sized(call.params) /\ reply \in Octets
  BY <1>2 DEF RepliesInv
<1>4. LastTyped(last')
  BY <1>1, <1>3, FailureTyped
<1>5. call'.phase = "idle"
  BY <1>1 DEF G!Idle
<1>6. QED BY <1>1, <1>3, <1>4, <1>5 DEF RepliesInv

\* Handlers: refused, at an end, or asking.
LEMMA DispatchReplies ==
  ASSUME PinsInv, RepliesInv, G!Dispatch
  PROVE  RepliesInv'
<1> DEFINE v == Params(call.fn, call.params)
<1>1. call.phase = "entering" /\ DOMAIN call = CallFields
  BY DEF G!Dispatch, G!In, PinsInv
<1>2. /\ call.fn \in Functions /\ Sized(call.params) /\ call.heard \in Octets
      /\ last # None => LastTyped(last)
  BY <1>1 DEF RepliesInv
<1>3. G!Params(call.fn, call.params) = v /\ G!Exports = Exports /\ G!Asking = Asking
      /\ G!Result(call.fn, v.val) = Result(call.fn, v.val)
  BY BindingsAgree
<1>4. G!ReplyErr(G!Message.unknown) = Error(<<1>>) /\ G!ReplyErr(G!Message.params) = Error(<<2>>)
      /\ \A b : G!ReplyOK(b) = <<0>> \o b
  BY MessagesAre, MessagesShort DEF G!ReplyOK
<1>5. /\ call.phase = "entering"
      /\ \/ call.fn \notin Exports /\ G!Return(Error(<<1>>), pins)
         \/ call.fn \in Exports /\ ~v.ok /\ G!Return(Error(<<2>>), pins)
         \/ call.fn \in Exports \ Asking /\ v.ok /\ G!Return(<<0>> \o Result(call.fn, v.val), pins)
         \/ /\ call.fn \in Asking /\ v.ok
            /\ call' = [call EXCEPT !.phase = "asking"]
            /\ UNCHANGED <<pins, reply, last, abandoned>>
  <2> HIDE DEF v
  <2>1. QED BY <1>3, <1>4, Zenon DEF G!Dispatch, G!In
<1>6. CASE call.fn \notin Exports /\ G!Return(Error(<<1>>), pins)
  <2>1. call.fn \notin Handled
    BY <1>6 DEF Handled
  <2>2. QED BY <1>1, <1>6, <2>1, ReturnReplies, SmallReadable, TwoShort
<1>7. CASE ~v.ok /\ G!Return(Error(<<2>>), pins)
  <2>1. Handles(call.fn, call.params) = Error(<<2>>)
    BY <1>7 DEF Handles
  <2>2. QED BY <1>1, <1>7, <2>1, ReturnReplies, SmallReadable, TwoShort
<1>8. CASE call.fn \in Exports \ Asking /\ v.ok /\ G!Return(<<0>> \o Result(call.fn, v.val), pins)
  <2>1. Handles(call.fn, call.params) = <<0>> \o Result(call.fn, v.val)
    BY <1>8 DEF Handles
  <2>2. call.fn \in Handled
    BY <1>8 DEF Handled
  <2>3. Readable(Handles(call.fn, call.params))
    BY <1>2, <2>2, HandlesReadable
  <2>4. G!Return(Handles(call.fn, call.params), pins)
    BY <1>8, <2>1
  <2>5. QED BY <1>1, <2>3, <2>4, ReturnReplies
<1>9. CASE /\ call.fn \in Asking /\ call' = [call EXCEPT !.phase = "asking"]
           /\ UNCHANGED <<pins, reply, last, abandoned>>
  <2>1. call'.phase = "asking" /\ call'.fn = call.fn /\ call'.params = call.params /\ call'.heard = call.heard
    BY <1>1, <1>9 DEF CallFields
  <2>2. reply' = reply /\ reply \in Octets /\ last' = last
    BY <1>9 DEF RepliesInv
  <2>3. (last # None => LastTyped(last))'
    BY <1>2, <2>2 DEF LastTyped, Learned, Sized
  <2>4. (call.fn \in Functions /\ Sized(call.params) /\ call.heard \in Octets)'
    BY <1>2, <2>1 DEF Sized
  <2>5. QED BY <1>9, <2>1, <2>2, <2>3, <2>4 DEF RepliesInv
<1>10. QED BY <1>5, <1>6, <1>7, <1>8, <1>9

\* Handlers that asked.
LEMMA ResumeReplies ==
  ASSUME PinsInv, RelayInv, TellsInv, RepliesInv, G!Resume
  PROVE  RepliesInv'
<1>1. /\ call.phase = "answered"
      /\ G!Return(G!Relayed(call.fn, G!ReadLenbuf(call.heard)), pins \ {call.mesh})
  BY DEF G!Resume, G!In
<1>2. call.fn \in Asking /\ call.fn \notin Handled
  BY <1>1 DEF RepliesInv, Handled
<1>3. Readable(G!Relayed(call.fn, G!ReadLenbuf(call.heard)))
  <2>1. CASE call.fn = "relay"
    <3>1. PICK p : Hears(p) /\ call.heard = G!Lenbuf(p)
      BY <1>1, <2>1 DEF RelayInv
    <3>2. Frameable(p) /\ Replies(G!Relayed("relay", p))
      BY <3>1, HearsReplies
    <3>3. G!ReadLenbuf(call.heard) = p
      BY <3>1, <3>2, LenbufReadsBack
    <3>4. QED BY <2>1, <3>2, <3>3, RepliesReadable
  <2>2. CASE call.fn = "report"
    <3>1. PICK p : Answering(p) /\ call.heard = G!Lenbuf(p)
      BY <1>1, <2>2 DEF TellsInv
    <3>2. G!ReadLenbuf(call.heard) = p
      BY <3>1, ReportTells, LenbufReadsBack
    <3>3. QED BY <2>2, <3>1, <3>2, ReportReadable
  <2>3. QED BY <1>2, <2>1, <2>2 DEF Asking
<1>4. QED BY <1>1, <1>2, <1>3, ReturnReplies

\* What the mesh brings.
LEMMA MeshLearns ==
  ASSUME PinsInv, RepliesInv, RelayInv', TellsInv', NEW payload, G!MeshReplies(payload)
  PROVE  RepliesInv'
<1>1. /\ call.phase = "asking" /\ DOMAIN call = CallFields /\ last' = last /\ reply' = reply
      /\ \E a \in G!Free : call' = [call EXCEPT !.phase = "answered", !.heard = G!Lenbuf(payload),
                                                !.mesh = a]
  BY DEF G!MeshReplies, G!In, PinsInv
<1>2. call'.phase = "answered" /\ call'.fn = call.fn /\ call'.params = call.params
  BY <1>1 DEF CallFields
<1>3. /\ call.fn \in Functions /\ Sized(call.params) /\ call.fn \in Asking /\ reply \in Octets
      /\ last # None => LastTyped(last)
  BY <1>1 DEF RepliesInv
<1>4. call'.heard \in Octets
  <2>1. CASE call.fn = "relay"
    <3>1. \E p : Hears(p) /\ call'.heard = G!Lenbuf(p)
      BY <1>2, <2>1 DEF RelayInv, Hears
    <3>2. PICK p : Hears(p) /\ call'.heard = G!Lenbuf(p)
      BY <3>1
    <3>3. p \in Octets
      BY <3>2, HearsReplies DEF Frameable
    <3>4. QED BY <3>2, <3>3, LenbufTyped
  <2>2. CASE call.fn = "report"
    <3>1. \E p : Answering(p) /\ call'.heard = G!Lenbuf(p)
      BY <1>2, <2>2 DEF TellsInv, Answering
    <3>2. PICK p : Answering(p) /\ call'.heard = G!Lenbuf(p)
      BY <3>1
    <3>3. p \in Octets
      BY <3>2, ReportTells DEF Frameable
    <3>4. QED BY <3>2, <3>3, LenbufTyped
  <2>3. QED BY <1>3, <2>1, <2>2 DEF Asking
<1>5. (last # None => LastTyped(last))'
  BY <1>1, <1>3 DEF LastTyped, Learned, Sized
<1>6. (call.fn \in Functions /\ Sized(call.params))'
  BY <1>2, <1>3 DEF Sized
<1>7. QED BY <1>1, <1>2, <1>3, <1>4, <1>5, <1>6 DEF RepliesInv

\* An invocation begins, or cannot.
LEMMA InvokeReplies ==
  ASSUME RepliesInv, NEW fn \in Functions, NEW params, Sized(params),
         G!Invoke(fn, params) \/ G!AllocFails(fn, params)
  PROVE  RepliesInv'
<1>0. reply \in Octets /\ (last # None => LastTyped(last))
  BY DEF RepliesInv
<1>1. CASE G!Invoke(fn, params)
  <2>1. /\ call'.phase = "entering" /\ call'.fn = fn /\ call'.params = params /\ call'.heard = <<>>
        /\ reply' = reply /\ last' = last
    BY <1>1 DEF G!Invoke
  <2>2. (call.fn \in Functions /\ Sized(call.params) /\ call.heard \in Octets)'
    BY <2>1 DEF Sized, Octets
  <2>3. (last # None => LastTyped(last))'
    BY <1>0, <2>1 DEF LastTyped, Learned, Sized
  <2>4. QED BY <1>0, <2>1, <2>2, <2>3 DEF RepliesInv
<1>2. CASE G!AllocFails(fn, params)
  <2>1. /\ call' = call /\ call.phase = "idle" /\ reply' = reply
        /\ last' = [fn |-> fn, params |-> params, ok |-> FALSE, val |-> G!Message.memory]
    BY <1>2, Zenon DEF G!AllocFails, G!In
  <2>2. LastTyped(last')
    BY <2>1, FailureTyped
  <2>3. QED BY <1>0, <2>1, <2>2 DEF RepliesInv
<1>3. QED BY <1>1, <1>2

LEMMA ReachReplies ==
  ASSUME PinsInv, RepliesInv, RelayInv', TellsInv', NEW payload, Reach(payload)
  PROVE  RepliesInv'
BY TrapLearns, MeshLearns DEF Reach

LEMMA GuestReplies ==
  ASSUME PinsInv, RelayInv, TellsInv, RepliesInv,
         ClientInvokes \/ GuestStarts \/ GuestEnds \/ GuestRestarts
  PROVE  RepliesInv'
<1>1. CASE ClientInvokes
  <2>1. \E fn \in IF Untouched THEN Functions ELSE Asking :
          \E params \in IF Untouched THEN Inputs[fn] ELSE Written[fn] :
            G!Invoke(fn, params) \/ G!AllocFails(fn, params)
    BY <1>1, Zenon DEF ClientInvokes
  <2>2. Asking \subseteq Functions
    BY DEF Asking, Functions, Exports
  <2>3. \E fn \in Functions : \E params : /\ params \in Written[fn] \/ params \in Inputs[fn]
                                          /\ G!Invoke(fn, params) \/ G!AllocFails(fn, params)
    <3>1. CASE Untouched
      BY <2>1, <3>1, Zenon
    <3>2. CASE ~Untouched
      BY <2>1, <2>2, <3>2, Zenon
    <3>3. QED BY <3>1, <3>2
  <2>4. QED BY <2>3, InputsSized, InvokeReplies
<1>2. CASE G!Forget
  <2>1. call' = call /\ reply' = reply /\ last' = None
    BY <1>2, Zenon DEF G!Forget
  <2>2. QED BY <2>1 DEF RepliesInv, Sized
<1>3. CASE G!Restart
  <2>1. call' = G!Idle /\ reply' = <<>> /\ last' = None
    BY <1>3, Zenon DEF G!Restart
  <2>2. call'.phase = "idle" /\ reply' \in Octets
    BY <2>1 DEF G!Idle, Octets
  <2>3. QED BY <2>1, <2>2 DEF RepliesInv
<1>4. QED BY <1>1, <1>2, <1>3, DispatchReplies, ResumeReplies, CopiesLearn, TrapLearns
          DEF GuestStarts, GuestEnds, GuestRestarts

LEMMA StepsReply ==
  ASSUME PinsInv, StatementsInv, MailInv, DocumentsInv, RelayInv, TellsInv, RepliesInv, [Next]_vars
  PROVE  RepliesInv'
<1>0. RelayInv' /\ TellsInv'
  BY StepsRelay, StepsTell
<1>1. CASE ClientExecs \/ SqliteSteps \/ SqliteRestarts \/ Delivered \/ Lost \/ UNCHANGED vars
           \/ UNCHANGED guestVars
  <2>1. call' = call /\ reply' = reply /\ last' = last
    BY <1>1 DEF ClientExecs, SqliteSteps, SqliteRestarts, Delivered, Lost, vars, guestVars
  <2>2. QED BY <2>1 DEF RepliesInv, LastTyped, Learned, Sized
<1>2. CASE Answered \/ MeshFails \/ OthersReply
  <2>1. UNCHANGED guestVars \/ \E payload : Reach(payload)
    BY <1>2, Zenon DEF Answered, MeshFails, OthersReply
  <2>2. QED BY <1>0, <1>1, <2>1, ReachReplies
<1>3. QED BY <1>1, <1>2, GuestReplies DEF Next

\* What all the proofs about replies rest on.
RepliesTogether == PinsInv /\ StatementsInv /\ DocumentsInv /\ MailInv /\ RelayInv /\ TellsInv /\ RepliesInv

LEMMA RepliesStart == Init => RepliesTogether
<1>1. Init => PinsInv /\ StatementsInv /\ MailInv /\ RelayInv /\ TellsInv
  BY DEF Init, G!Init, G!Idle, G!In, S!Init, S!Idle, S!In, PinsInv, G!PinsReleased,
         StatementsInv, S!StatementsClosed, MailInv, AnswersAreAwaited, RelayInv, TellsInv
<1>2. 0 \in 0..MaxRows
  BY RowsAssumption
<1>3. Init => DocumentsInv
  BY <1>2 DEF Init, S!Init, S!Idle, S!In, DocumentsInv, WholeAnswers, S!WholeAnswers
<1>4. Init => RepliesInv
  BY DEF Init, G!Init, G!Idle, RepliesInv, Octets
<1>5. QED BY <1>1, <1>3, <1>4 DEF RepliesTogether

LEMMA RepliesStep == RepliesTogether /\ [Next]_vars => RepliesTogether'
BY StepsOfGuest, GuestReleases, StepsOfSqlite, SqliteCloses, SqliteAnswers, MailKept, StepsRelay,
   StepsTell, StepsReply DEF RepliesTogether

-----------------------------------------------------------------------------
(* What handlers take. *)

\* What a host writes for the value of a handler that needs nobody.
LEMMA EncIs ==
  ASSUME NEW fn \in Handled, NEW v
  PROVE  enc(fn, v) = Sent(fn, v)
<1>1. fn \notin {"relay", "report"}
  BY DEF Handled, Asking
<1>2. CASE fn = "add" \/ fn = "greet"
  BY <1>2, Zenon DEF enc, Sent, EncodeAdd
<1>3. CASE fn # "add" /\ fn # "greet"
  BY <1>1, <1>3, Zenon DEF enc, Sent
<1>4. QED BY <1>2, <1>3

\* A handler takes nothing that a host could not send.
LEMMA TakesSendable ==
  ASSUME NEW fn \in Handled, NEW v, Takes(fn, v)
  PROVE  Sendable(fn, v)
BY DEF Takes, Sendable, OfType, Writable

\* What a handler that needs nobody was sent, and what its caller was told of it.
LEMMA HeardIs ==
  ASSUME RepliesInv, Heard
  PROVE  /\ last.fn \in Handled /\ Sized(last.params) /\ last.params \in Octets
         /\ last.ok => Params(last.fn, last.params).ok
                       /\ last.val = Result(last.fn, Params(last.fn, last.params).val)
         /\ ~last.ok => ~Params(last.fn, last.params).ok
<1>1. last # None /\ last.fn \in Handled /\ (last.ok \/ last.val \notin {G!Message.trap, G!Message.memory})
  BY DEF Heard, Handled
<1>2. Sized(last.params) /\ Learned(last)
  BY <1>1 DEF RepliesInv, LastTyped
<1>3. QED BY <1>1, <1>2 DEF Learned, Sized

\* Parameters that a handler takes have no part that it would take too, and no shorter
\* form than the one a host writes for the same value, which is what the handler makes
\* of that form (the checks at the end of every handler in bindings.cpp, and crab.cpp's
\* readers).
THEOREM EncodingUnambiguous == Spec => []Unambiguous
<1>1. RepliesTogether => Unambiguous
  <2> SUFFICES ASSUME RepliesInv, Heard, last.ok
               PROVE  LET value == Params(last.fn, last.params).val
                      IN /\ \A n \in 0..Len(last.params) - 1 :
                              ~Params(last.fn, SubSeq(last.params, 1, n)).ok
                         /\ Len(enc(last.fn, value)) <= Len(last.params)
                         /\ Params(last.fn, enc(last.fn, value)).val = value
    BY Zenon DEF RepliesTogether, Unambiguous
  <2> DEFINE fn == last.fn
             buf == last.params
             v == Params(fn, buf).val
             w == Sent(fn, v)
  <2>1. fn \in Handled /\ buf \in Octets /\ Params(fn, buf).ok
    BY HeardIs
  <2> HIDE DEF fn, buf
  <2>2. Takes(fn, v) /\ w \in Octets /\ Len(w) <= Len(buf)
    BY <2>1, ParamsTyped
  <2>3. \A n \in 0..Len(buf) - 1 : ~Params(fn, SubSeq(buf, 1, n)).ok
    <3>1. TAKE n \in 0..Len(buf) - 1
    <3>2. n \in Nat /\ n < Len(buf)
      BY <2>1, OctetsIs
    <3>3. QED BY <2>1, <3>2, NoPartIsTaken
  <2> HIDE DEF v
  <2>4. enc(fn, v) = w
    BY <2>1, EncIs
  <2>5. Params(fn, w) = Ok(v, Len(w))
    BY <2>1, <2>2, TakesSendable, ParamsReadBack
  <2>6. Params(fn, w).val = v
    BY <2>5, OkIs
  <2>7. Len(enc(fn, v)) <= Len(buf) /\ Params(fn, enc(fn, v)).val = v
    BY <2>2, <2>4, <2>6
  <2>8. QED BY <2>3, <2>7 DEF fn, buf, v
<1>2. QED BY <1>1, RepliesStart, RepliesStep, PTL DEF Spec

-----------------------------------------------------------------------------
(* Types. *)

\* What the sqlite guest keeps is bytes, and somebody asked for the exec going on.
SqliteTyped ==
  /\ db \in BOOLEAN /\ stmt \in BOOLEAN /\ out \in Octets
  /\ job.phase # "idle" =>
       /\ job.phase \in {"opening", "preparing", "stepping", "answered"}
       /\ job.sql \in Octets /\ job.reply \in Octets
       /\ job.caller \in {"client", "relay", "nobody"}

MailTyped == mail # None => mail.params \in Octets /\ mail.wanted \in BOOLEAN

\* The sqlite guest reads numbers and bytes as the other does (main.c's uleb_get32).
LEMMA ExecParams ==
  ASSUME NEW buf
  PROVE  S!sql_params(buf) =
           Then(Uleb(Int32, buf, 0), LAMBDA n :
             IF n.pos + n.val = Len(buf) THEN Bytes(n.val, buf, n.pos) ELSE Fail)
<1>1. S!Fail = Fail /\ (\A x, y : S!Ok(x, y) = Ok(x, y)) /\ S!Pow2 = Pow2
  <2>1. S!Fail = Fail
    BY Zenon DEF S!Fail, Fail
  <2>2. \A x, y : S!Ok(x, y) = Ok(x, y)
    BY Zenon DEF S!Ok, Ok
  <2>3. S!Pow2 = Pow2
    BY DEF S!Pow2, Pow2
  <2>4. QED BY <2>1, <2>2, <2>3
<1>2. \A groups, b, pos : S!Span(groups, b, pos) = Span(groups, b, pos)
  BY DEF S!Span, Span, S!Remaining, Remaining, S!Min, Min
<1>3. \A k, b, pos : S!Payload(k, b, pos) = Payload(k, b, pos)
  BY DEF S!Value, Value, S!Payload, Payload
<1>4. \A bits : S!Groups(bits) = Groups(bits)
  BY DEF S!Groups, Groups
<1>5. \A bits, b, pos : S!Uleb(bits, b, pos) = Uleb(bits, b, pos)
  <2>1. \A k, bits, b, pos : S!UlebOf(k, bits, b, pos) = UlebOf(k, bits, b, pos)
    BY <1>1, <1>3, SMT DEF S!UlebOf, UlebOf
  <2>2. QED BY <1>2, <1>4, <2>1, Zenon DEF S!Uleb, Uleb
<1>6. \A n, b, pos : S!Bytes(n, b, pos) = Bytes(n, b, pos)
  BY <1>1, Zenon DEF S!Bytes, Bytes, S!Remaining, Remaining
<1>7. QED BY <1>1, <1>5, <1>6, Zenon DEF S!sql_params, S!Then, Then

LEMMA ExecRead ==
  ASSUME NEW buf \in Octets, S!sql_params(buf).ok
  PROVE  S!sql_params(buf).val \in Octets
<1> DEFINE n == Uleb(Int32, buf, 0)
           b == Bytes(n.val, buf, n.pos)
<1>1. n.ok /\ b.ok /\ S!sql_params(buf) = b
  <2>1. S!sql_params(buf) = IF n.ok THEN IF n.pos + n.val = Len(buf) THEN b ELSE Fail ELSE Fail
    BY ExecParams, Zenon DEF Then
  <2>2. ~Fail.ok
    BY OkIs
  <2> HIDE DEF n, b
  <2>3. QED BY <2>1, <2>2
<1>2. 0 \in Nat /\ 0 <= Len(buf) /\ Int32 \in Nat \ {0}
  BY OctetsIs, WidthAssumption
<1>3. n.val \in Nat /\ n.pos \in Nat /\ n.pos <= Len(buf)
  <2>1. n.val \in Nat /\ ReadOf(n, buf, 0, EncodeUleb[n.val])
    BY <1>1, <1>2, UlebRead
  <2>2. QED BY <2>1 DEF ReadOf
<1> HIDE DEF n
<1>4. b.val \in Octets
  BY <1>1, <1>3, BytesAre
<1>5. QED BY <1>1, <1>4

\* Its replies are bytes.
LEMMA ExecReplies ==
  /\ S!reply_abi_err \in Octets
  /\ \A err : \A text \in Octets : S!reply_result(err, text) \in Octets
<1>1. <<1>> \in Octets /\ <<0>> \in Octets /\ \A err : S!EncodeBool(err) \in Octets
  <2>1. \A err : S!EncodeBool(err) = <<1>> \/ S!EncodeBool(err) = <<0>>
    BY DEF S!EncodeBool
  <2>2. 0 \in 0..255 /\ 1 \in 0..255
    OBVIOUS
  <2>3. <<1>> \in Octets /\ <<0>> \in Octets
    BY <2>2, OneByteWritten
  <2>4. QED BY <2>1, <2>3
<1>2. \A s \in Octets : S!EncodeString(s) \in Octets
  BY StringWritten, CodecsAgree
<1>3. S!reply_abi_err \in Octets
  <2>1. S!EncodeString(<<1>>) \in Octets
    BY <1>1, <1>2
  <2>2. <<1>> \o S!EncodeString(<<1>>) \in Octets
    BY <1>1, <2>1, Concat
  <2>3. QED BY <2>2 DEF S!reply_abi_err
<1>4. ASSUME NEW err, NEW text \in Octets
      PROVE  S!reply_result(err, text) \in Octets
  <2> DEFINE e == S!EncodeBool(err)
             t == S!EncodeString(text)
             z == <<0>>
  <2>1. z \in Octets /\ e \in Octets /\ t \in Octets
    BY <1>1, <1>2
  <2>2. S!reply_result(err, text) = (z \o e) \o t
    BY DEF S!reply_result
  <2> HIDE DEF z, e, t
  <2>3. z \o e \in Octets
    BY <2>1, Concat
  <2>4. (z \o e) \o t \in Octets
    BY <2>1, <2>3, Concat
  <2>5. QED BY <2>2, <2>4
<1>5. QED BY <1>3, <1>4

LEMMA InvokeTyped ==
  ASSUME SqliteTyped, NEW caller \in {"client", "relay", "nobody"}, NEW known, NEW params \in Octets,
         S!CrabInvoke(caller, known, params)
  PROVE  SqliteTyped'
<1> DEFINE sql == S!sql_params(params)
<1>1. db' = db /\ stmt' = stmt /\ out' = out
      /\ \/ /\ sql.ok
            /\ job' = [caller |-> caller, phase |-> "opening", sql |-> sql.val, reply |-> <<>>]
         \/ job' = [caller |-> caller, phase |-> "answered", sql |-> <<>>, reply |-> S!reply_abi_err]
  <2> HIDE DEF sql
  <2>1. job' = IF known /\ sql.ok
               THEN [caller |-> caller, phase |-> "opening", sql |-> sql.val, reply |-> <<>>]
               ELSE [caller |-> caller, phase |-> "answered", sql |-> <<>>, reply |-> S!reply_abi_err]
    BY Zenon DEF S!CrabInvoke, sql
  <2>2. db' = db /\ stmt' = stmt /\ out' = out
    BY Zenon DEF S!CrabInvoke
  <2>3. QED BY <2>1, <2>2, Zenon
<1>2. sql.ok => sql.val \in Octets
  BY ExecRead
<1> HIDE DEF sql
<1>3. <<>> \in Octets /\ S!reply_abi_err \in Octets
  BY ExecReplies DEF Octets
<1>4. \E ph \in {"opening", "answered"}, q \in Octets, r \in Octets :
        job' = [caller |-> caller, phase |-> ph, sql |-> q, reply |-> r]
  BY <1>1, <1>2, <1>3
<1>5. job'.phase \in {"opening", "answered"} /\ job'.sql \in Octets /\ job'.reply \in Octets
      /\ job'.caller = caller
  BY <1>4
<1>6. QED BY <1>1, <1>5 DEF SqliteTyped

LEMMA AnswerTyped ==
  ASSUME StatementsInv, SqliteTyped, job.phase # "idle", NEW err, NEW text \in Octets,
         S!Answer(err, text), db' = db, stmt' \in BOOLEAN
  PROVE  SqliteTyped'
<1>1. out' = text /\ job' = [job EXCEPT !.phase = "answered", !.reply = S!reply_result(err, text)]
      /\ DOMAIN job = {"caller", "phase", "sql", "reply"}
  BY DEF S!Answer, StatementsInv
<1>2. job'.phase = "answered" /\ job'.sql = job.sql /\ job'.caller = job.caller
      /\ job'.reply = S!reply_result(err, text)
  BY <1>1
<1>3. QED BY <1>1, <1>2, ExecReplies DEF SqliteTyped

LEMMA PhaseTyped ==
  ASSUME StatementsInv, SqliteTyped, job.phase # "idle", out' \in Octets, db' \in BOOLEAN, stmt' \in BOOLEAN,
         NEW phase \in {"preparing", "stepping"}, job' = [job EXCEPT !.phase = phase]
  PROVE  SqliteTyped'
<1>1. DOMAIN job = {"caller", "phase", "sql", "reply"}
  BY DEF StatementsInv
<1>2. job'.phase = phase /\ job'.sql = job.sql /\ job'.caller = job.caller /\ job'.reply = job.reply
  BY <1>1
<1>3. QED BY <1>2 DEF SqliteTyped

\* A document is bytes, a part at a time.
LEMMA PartsTyped ==
  /\ \A c \in {S!Columns, S!Row, S!Changes, S!Sqlite3Message, S!Only, S!Cannot} :
       <<c>> \in Octets /\ \A s \in Octets : s \o <<c>> \in Octets /\ Append(s, c) \in Octets
  /\ \A s \in Octets : s \o <<S!Columns, S!Changes>> \in Octets
<1>1. \A c \in {S!Columns, S!Row, S!Changes, S!Sqlite3Message, S!Only, S!Cannot} : c \in 0..255
  BY DEF S!Columns, S!Row, S!Changes, S!Sqlite3Message, S!Only, S!Cannot
<1>2. ASSUME NEW c \in 0..255
      PROVE  <<c>> \in Octets /\ \A s \in Octets : s \o <<c>> \in Octets /\ Append(s, c) \in Octets
  <2>1. <<c>> \in Octets
    BY OneByteWritten
  <2>2. \A s \in Octets : Append(s, c) \in Octets
    BY DEF Octets
  <2>3. QED BY <2>1, <2>2, Concat
<1>3. <<S!Columns, S!Changes>> \in Octets
  BY <1>1 DEF Octets
<1>4. \A s \in Octets : s \o <<S!Columns, S!Changes>> \in Octets
  BY <1>3, Concat
<1>5. ASSUME NEW c \in {S!Columns, S!Row, S!Changes, S!Sqlite3Message, S!Only, S!Cannot}
      PROVE  <<c>> \in Octets /\ \A s \in Octets : s \o <<c>> \in Octets /\ Append(s, c) \in Octets
  <2>1. c \in 0..255
    BY <1>1
  <2>2. QED BY <1>2, <2>1
<1>6. QED BY <1>4, <1>5, Zenon

LEMMA ExecTyped ==
  ASSUME StatementsInv, SqliteTyped,
         S!Step \/ S!Taken \/ S!Restart \/ Disown \/ UNCHANGED sqliteVars
  PROVE  SqliteTyped'
<1>0. out \in Octets /\ db \in BOOLEAN /\ stmt \in BOOLEAN /\ <<>> \in Octets
  BY DEF SqliteTyped, Octets
<1>1. CASE S!OpenFails
  BY <1>0, <1>1, PartsTyped, AnswerTyped DEF S!OpenFails, S!In
<1>2. CASE S!Opens
  BY <1>0, <1>2, PhaseTyped DEF S!Opens, S!In
<1>3. CASE S!Prepare
  <2>1. job.phase # "idle" /\ db' = db
    BY <1>3 DEF S!Prepare, S!In
  <2>2. CASE \E err : \E text \in Octets : S!Answer(err, text) /\ UNCHANGED stmt
    BY <1>0, <2>1, <2>2, AnswerTyped
  <2>3. CASE stmt' = TRUE /\ out' = out \o <<S!Columns>> /\ job' = [job EXCEPT !.phase = "stepping"]
    <3>1. out' \in Octets
      BY <1>0, <2>3, PartsTyped
    <3>2. QED BY <1>0, <2>1, <2>3, <3>1, PhaseTyped
  <2>4. out \o <<S!Sqlite3Message>> \in Octets /\ out \o <<S!Only>> \in Octets
        /\ out \o <<S!Columns, S!Changes>> \in Octets
    BY <1>0, PartsTyped
  <2>5. QED BY <1>3, <2>2, <2>3, <2>4, Zenon DEF S!Prepare
<1>4. CASE S!StepRow
  <2>1. db' = db /\ stmt' = stmt /\ job' = job /\ out' = Append(out, S!Row)
    BY <1>4 DEF S!StepRow
  <2>2. out' \in Octets
    BY <1>0, <2>1, PartsTyped
  <2>3. QED BY <2>1, <2>2 DEF SqliteTyped
<1>5. CASE S!StepDone \/ S!StepFails
  <2>1. job.phase # "idle" /\ db' = db /\ stmt' = FALSE
    BY <1>5 DEF S!StepDone, S!StepFails, S!In
  <2>2. Append(out, S!Changes) \in Octets /\ <<S!Sqlite3Message>> \in Octets
    BY <1>0, PartsTyped
  <2>3. \E err : \E text \in Octets : S!Answer(err, text)
    BY <1>5, <2>2, Zenon DEF S!StepDone, S!StepFails
  <2>4. QED BY <2>1, <2>3, AnswerTyped
<1>6. CASE S!Taken
  <2>1. job'.phase = "idle" /\ UNCHANGED <<db, stmt, out>>
    BY <1>6 DEF S!Taken, S!Idle
  <2>2. QED BY <1>0, <2>1 DEF SqliteTyped
<1>7. CASE S!Restart
  <2>1. job'.phase = "idle" /\ db' = FALSE /\ stmt' = FALSE /\ out' = <<>>
    BY <1>7 DEF S!Restart, S!Idle
  <2>2. QED BY <1>0, <2>1 DEF SqliteTyped
<1>8. CASE Disown
  <2>1. UNCHANGED <<db, stmt, out>> /\ job'.phase = job.phase
        /\ (job.phase # "idle" => job'.reply = job.reply /\ job'.sql = job.sql
                                  /\ (job'.caller = job.caller \/ job'.caller = "nobody"))
    BY <1>8 DEF Disown, StatementsInv
  <2>2. QED BY <2>1 DEF SqliteTyped
<1>9. CASE UNCHANGED sqliteVars
  BY <1>9 DEF sqliteVars, SqliteTyped
<1>10. QED BY <1>1, <1>2, <1>3, <1>4, <1>5, <1>6, <1>7, <1>8, <1>9 DEF S!Step

\* What relay asks is bytes.
LEMMA AskedTyped ==
  ASSUME call.params \in Octets, G!Params("relay", call.params).ok
  PROVE  G!Asked \in Octets
<1> DEFINE buf == call.params
           r == String(buf, 0)
           s == G!Params("relay", buf).val
<1>1. G!Params("relay", buf) = Finished(buf, r)
  <2>1. Params("relay", buf) = Finished(buf, r)
    <3>1. \A fn, b : fn = "relay" => Params(fn, b) = Finished(b, String(b, 0))
      <4>1. "relay" \notin Echo
        BY DEF Echo, Signed, Unsigned
      <4>2. QED BY <4>1 DEF Params
    <3>2. QED BY <3>1
  <2>2. QED BY <2>1, BindingsAgree, Zenon
<1>2. buf \in Octets /\ Finished(buf, r).ok
  BY <1>1
<1>3. r.ok /\ s = r.val
  <2> HIDE DEF buf, r
  <2>1. Finished(buf, r) = r /\ r.ok
    BY <1>2, FinishedIs
  <2>2. QED BY <1>1, <2>1
<1>4. r.val \in Octets
  <2>1. 0 \in Nat /\ 0 <= Len(buf)
    BY <1>2, OctetsIs
  <2>2. QED BY <1>2, <1>3, <2>1, StringRead
<1>5. EncodeString(s) \in Octets
  <2> HIDE DEF r, s
  <2>1. QED BY <1>3, <1>4, StringWritten
<1>6. QED BY <1>5, GuestCodec DEF G!Asked

LEMMA MailTypes ==
  ASSUME PinsInv, MailInv, RepliesInv, MailTyped, [Next]_vars
  PROVE  MailTyped'
<1>1. CASE mail' = mail \/ mail' = None
  BY <1>1 DEF MailTyped
<1>2. CASE Disown
  <2>1. mail # None => DOMAIN mail = {"params", "wanted"}
    BY DEF MailInv
  <2>2. mail' = IF mail = None THEN None ELSE [mail EXCEPT !.wanted = FALSE]
    BY <1>2, Zenon DEF Disown
  <2>3. mail # None => mail'.params = mail.params /\ mail'.wanted = FALSE
    BY <2>1, <2>2
  <2>4. QED BY <2>2, <2>3 DEF MailTyped
<1>3. CASE GuestStarts
  <2>1. CASE call'.phase = "asking" /\ call.fn = "relay"
    <3>1. mail' = [params |-> G!Asked, wanted |-> TRUE]
      BY <1>3, <2>1, Zenon DEF GuestStarts
    <3>2. G!Params("relay", call.params).ok
      <4>1. G!Dispatch /\ call.phase = "entering" /\ DOMAIN call = CallFields
        BY <1>3 DEF GuestStarts, G!Dispatch, G!In, PinsInv
      <4>2. ASSUME NEW payload, G!Return(payload, pins) PROVE FALSE
        <5>1. call' = [call EXCEPT !.phase = "returned", !.bufs = {}]
          BY <4>2 DEF G!Return
        <5>2. QED BY <2>1, <4>1, <5>1 DEF CallFields
      <4>3. QED BY <2>1, <4>1, <4>2, Zenon DEF G!Dispatch
    <3>3. call.params \in Octets
      <4>1. call.phase # "idle"
        BY <1>3 DEF GuestStarts, G!Dispatch, G!In
      <4>2. QED BY <4>1 DEF RepliesInv, Sized
    <3>4. G!Asked \in Octets
      BY <3>2, <3>3, AskedTyped
    <3>5. QED BY <3>1, <3>4 DEF MailTyped
  <2>2. CASE ~(call'.phase = "asking" /\ call.fn = "relay")
    BY <1>1, <1>3, <2>2, Zenon DEF GuestStarts
  <2>3. QED BY <2>1, <2>2
<1>4. mail' = mail \/ mail' = None \/ Disown \/ GuestStarts
  BY Zenon DEF Next, vars, ClientInvokes, GuestEnds, GuestRestarts, ClientExecs, SqliteSteps,
     SqliteRestarts, Delivered, Lost, Answered, MeshFails, OthersReply
<1>5. QED BY <1>1, <1>2, <1>3, <1>4

LEMMA SqliteTypes ==
  ASSUME StatementsInv, SqliteTyped, MailTyped, [Next]_vars
  PROVE  SqliteTyped'
<1>1. CASE ClientExecs
  <2>1. PICK known \in BOOLEAN, params \in Written["relay"] \cup Raw["relay"] :
          S!CrabInvoke("client", known, params)
    BY <1>1 DEF ClientExecs
  <2>2. "relay" \in Functions
    BY DEF Functions, Exports, Asking
  <2>3. Raw["relay"] \subseteq Inputs["relay"]
    BY <2>2 DEF Inputs
  <2>4. params \in Octets
    BY <2>1, <2>2, <2>3, InputsSized DEF Sized
  <2>5. QED BY <2>1, <2>4, InvokeTyped
<1>2. CASE Delivered
  <2>1. S!CrabInvoke(IF mail.wanted THEN "relay" ELSE "nobody", TRUE, mail.params) /\ mail # None
    BY <1>2 DEF Delivered
  <2>2. mail.params \in Octets
    BY <2>1 DEF MailTyped
  <2>3. (IF mail.wanted THEN "relay" ELSE "nobody") \in {"client", "relay", "nobody"}
    OBVIOUS
  <2>4. QED BY <2>1, <2>2, <2>3, InvokeTyped
<1>3. ASSUME ~ClientExecs, ~Delivered
      PROVE  S!Step \/ S!Taken \/ S!Restart \/ Disown \/ UNCHANGED sqliteVars
  BY <1>3, Zenon DEF Next, vars, ClientInvokes, GuestStarts, GuestEnds, GuestRestarts, SqliteSteps,
     SqliteRestarts, Lost, Answered, MeshFails, OthersReply
<1>4. QED BY <1>1, <1>2, <1>3, ExecTyped

\* The types of the two guests and of what is between them.
THEOREM ServicesTyped == Spec => []TypeOK
<1> DEFINE Inv == RepliesTogether /\ SqliteTyped /\ MailTyped
<1>1. Init => Inv
  <2>1. Init => SqliteTyped /\ MailTyped
    <3>1. <<>> \in Octets
      BY DEF Octets
    <3>2. ASSUME Init
          PROVE  db = FALSE /\ stmt = FALSE /\ out = <<>> /\ job.phase = "idle" /\ mail = None
      BY <3>2 DEF Init, S!Init, S!Idle
    <3>3. QED BY <3>1, <3>2 DEF SqliteTyped, MailTyped
  <2>2. QED BY <2>1, RepliesStart
<1>2. Inv /\ [Next]_vars => Inv'
  BY RepliesStep, MailTypes, SqliteTypes DEF RepliesTogether
<1>3. Inv => TypeOK
  <2> SUFFICES ASSUME RepliesTogether, SqliteTyped, MailTyped
               PROVE  TypeOK
    OBVIOUS
  <2>1. PinsInv /\ RepliesInv /\ DocumentsInv /\ G!PinsReleased
    BY DEF RepliesTogether, PinsInv
  <2>2. pins \subseteq Addrs /\ abandoned \subseteq pins
    BY <2>1 DEF PinsInv, G!PinsReleased
  <2>3. call.phase # "idle" =>
          /\ call.phase \in {"entering", "asking", "answered", "returned"}
          /\ call.bufs \subseteq pins /\ (call.phase = "answered" => call.mesh \in pins)
    BY <2>1 DEF PinsInv, G!PinsReleased, G!In
  <2>4. /\ reply \in Octets
        /\ call.phase # "idle" => call.fn \in Functions /\ call.params \in Octets /\ call.heard \in Octets
        /\ last # None => last.fn \in Functions /\ last.ok \in BOOLEAN /\ last.val \in Octets
    BY <2>1 DEF RepliesInv, LastTyped, Sized
  <2>5. G!Functions = Functions /\ Seq(G!Byte255) = Octets
    BY BindingsAgree DEF G!Byte255, Octets
  <2>6. G!TypeOK
    BY <2>2, <2>3, <2>4, <2>5, Zenon DEF G!TypeOK, G!In
  <2>7. S!TypeOK
    BY <2>1 DEF SqliteTyped, DocumentsInv, S!TypeOK, S!In, Octets
  <2>8. QED BY <2>6, <2>7 DEF TypeOK, SqliteTyped, MailTyped, S!In
<1>4. QED BY <1>1, <1>2, <1>3, PTL DEF Spec

-----------------------------------------------------------------------------
(* What a host writes, and which of it fits. *)

LEMMA WritesIs ==
  ASSUME NEW v
  PROVE  /\ \A t \in Unsigned : Writes(t, v) => v \in Nat
         /\ \A t \in Signed : Writes(t, v) => v \in Int
         /\ Writes("bool", v) => v \in BOOLEAN
         /\ Writes("char", v) => v \in Nat
         /\ Writes("string", v) => v \in Octets /\ Len(v) < Pow2[Int32]
         /\ Writes("enum", v) => v \in 0..2
         /\ Writes("option", v) => v = None \/ v \in Nat
         /\ Writes("list", v) => v \in Seq(Nat) /\ Len(v) < Pow2[Int32]
         /\ Writes("flags", v) => v \in SUBSET (0..9)
         /\ Writes("add", v) => v \in Nat \X Nat
         /\ Writes("greet", v) => v \in GreetRequests /\ Len(v.name) < Pow2[Int32]
BY DEF Writes, Unsigned, Signed, Octets, GreetRequests

LEMMA FitsIs ==
  ASSUME NEW v
  PROVE  /\ \A t \in Unsigned : Fits(t, v) = (v < Pow2[Bits(t)])
         /\ \A t \in Signed : Fits(t, v) = InRange(v, Bits(t))
         /\ Fits("bool", v) /\ Fits("enum", v) /\ Fits("flags", v)
         /\ Fits("bool", v) \in BOOLEAN /\ Fits("enum", v) \in BOOLEAN /\ Fits("flags", v) \in BOOLEAN
         /\ Fits("char", v) = IsScalar(v)
         /\ Fits("string", v) = Unicode(v)
         /\ Fits("option", v) = (v = None \/ v < 256)
         /\ Fits("list", v) = \A i \in 1..Len(v) : v[i] < 256
         /\ Fits("add", v) = (v[1] < Pow2[Int32] /\ v[2] < Pow2[Int32])
         /\ Fits("greet", v) = Unicode(v.name)
BY DEF Fits, Unsigned, Signed, InRange, IsScalar

\* Comparisons of numbers and of bytes.
LEMMA Compared ==
  /\ \A a, b : (a < b) \in BOOLEAN /\ (a <= b) \in BOOLEAN
  /\ \A v, bits : InRange(v, bits) \in BOOLEAN
  /\ \A v : IsScalar(v) \in BOOLEAN
BY DEF InRange, IsScalar

\* A value that fits is one of the type of the handler's parameters, and the other
\* way round.
LEMMA FittingIsTaken ==
  ASSUME NEW fn \in Handled, NEW v, Writes(fn, v)
  PROVE  Sendable(fn, v) /\ Fits(fn, v) \in BOOLEAN /\ (Fits(fn, v) <=> Takes(fn, v))
<1>1. ASSUME NEW s, s \in Octets
      PROVE  (Utf8Valid(s) <=> Unicode(s)) /\ Unicode(s) \in BOOLEAN
  BY <1>1, Utf8IsUnicode DEF Octets
<1>2. CASE fn \in Echo
  <2>1. fn # "add" /\ fn # "greet"
    BY <1>2, HandledIs
  <2>2. SUFFICES Writable(fn, v) /\ Fits(fn, v) \in BOOLEAN /\ (Fits(fn, v) <=> OfType(fn, v))
    BY <1>2, <2>1 DEF Sendable, Takes
  <2>3. CASE fn \in Unsigned
    <3>1. v \in Nat /\ Fits(fn, v) = (v < Pow2[Bits(fn)])
      BY <2>3, WritesIs, FitsIs
    <3>2. QED BY <2>3, <3>1, TypesApart, Compared DEF Writable, OfType
  <2>4. CASE fn \in Signed
    <3>1. v \in Int /\ Fits(fn, v) = InRange(v, Bits(fn))
      BY <2>4, WritesIs, FitsIs
    <3>2. QED BY <2>4, <3>1, TypesApart, Compared DEF Writable, OfType
  <2>5. CASE fn = "bool"
    <3>1. v \in BOOLEAN /\ Fits(fn, v) /\ Fits(fn, v) \in BOOLEAN
      BY <2>5, WritesIs, FitsIs
    <3>2. QED BY <2>5, <3>1, TypesApart DEF Writable, OfType
  <2>6. CASE fn = "char"
    <3>1. v \in Nat /\ Fits(fn, v) = IsScalar(v)
      BY <2>6, WritesIs, FitsIs
    <3>2. QED BY <2>6, <3>1, TypesApart, Compared DEF Writable, OfType
  <2>7. CASE fn = "string"
    <3>1. v \in Octets /\ Len(v) < Pow2[Int32] /\ Fits(fn, v) = Unicode(v)
      BY <2>7, WritesIs, FitsIs
    <3>2. QED BY <1>1, <2>7, <3>1, TypesApart DEF Writable, OfType
  <2>8. CASE fn = "enum"
    <3>1. v \in 0..2 /\ Fits(fn, v) /\ Fits(fn, v) \in BOOLEAN
      BY <2>8, WritesIs, FitsIs
    <3>2. QED BY <2>8, <3>1, TypesApart DEF Writable, OfType
  <2>9. CASE fn = "option"
    <3>1. (v = None \/ v \in Nat) /\ Fits(fn, v) = (v = None \/ v < 256)
      BY <2>9, WritesIs, FitsIs
    <3>2. Fits(fn, v) \in BOOLEAN
      BY <3>1
    <3>3. QED BY <2>9, <3>1, <3>2, TypesApart DEF Writable, OfType
  <2>10. CASE fn = "list"
    <3>1. v \in Seq(Nat) /\ Len(v) < Pow2[Int32] /\ Fits(fn, v) = \A i \in 1..Len(v) : v[i] < 256
      BY <2>10, WritesIs, FitsIs
    <3>2. (\A i \in 1..Len(v) : v[i] < 256) <=> \A i \in 1..Len(v) : v[i] \in AnyByte
      <4>1. \A i \in 1..Len(v) : v[i] \in Nat
        BY <3>1
      <4>2. \A n \in Nat : n < 256 <=> n \in AnyByte
        BY DEF AnyByte
      <4>3. QED BY <4>1, <4>2
    <3>3. Fits(fn, v) \in BOOLEAN
      BY <3>1
    <3>4. QED BY <2>10, <3>1, <3>2, <3>3, TypesApart DEF Writable, OfType
  <2>11. CASE fn = "flags"
    <3>1. v \in SUBSET (0..9) /\ Fits(fn, v) /\ Fits(fn, v) \in BOOLEAN
      BY <2>11, WritesIs, FitsIs
    <3>2. QED BY <2>11, <3>1, TypesApart DEF Writable, OfType
  <2>12. QED BY <1>2, <2>3, <2>4, <2>5, <2>6, <2>7, <2>8, <2>9, <2>10, <2>11, EchoTypes
<1>3. CASE fn = "add"
  <2>1. fn \notin Echo
    BY <1>3, HandledIs
  <2>2. v \in Nat \X Nat /\ Fits(fn, v) = (v[1] < Pow2[Int32] /\ v[2] < Pow2[Int32])
    BY <1>3, WritesIs, FitsIs
  <2>3. Fits(fn, v) \in BOOLEAN
    BY <2>2
  <2>4. QED BY <1>3, <2>1, <2>2, <2>3 DEF Sendable, Takes
<1>4. CASE fn = "greet"
  <2>1. fn \notin Echo
    BY <1>4, HandledIs
  <2>2. v \in GreetRequests /\ Len(v.name) < Pow2[Int32] /\ Fits(fn, v) = Unicode(v.name)
    BY <1>4, WritesIs, FitsIs
  <2>3. v.name \in Octets
    BY <2>2 DEF GreetRequests
  <2>4. QED BY <1>1, <1>4, <2>1, <2>2, <2>3 DEF Sendable, Takes
<1>5. QED BY <1>2, <1>3, <1>4, HandledIs

\* Whatever a host can send is bytes.
LEMMA SentIsBytes ==
  ASSUME NEW fn \in Handled, NEW v \in Values[fn]
  PROVE  /\ Writes(fn, v) /\ enc(fn, v) = Sent(fn, v) /\ Sent(fn, v) \in Octets
<1>1. fn \in Functions /\ fn \in Exports /\ fn \in Exports \ Asking
  BY DEF Functions, Handled
<1>2. enc(fn, v) \in Written[fn]
  BY <1>1, Zenon DEF Written
<1>3. Sized(enc(fn, v))
  BY <1>1, <1>2, InputsSized
<1>4. Writes(fn, v)
  BY <1>1, ValuesAssumption
<1>5. QED BY <1>3, <1>4, EncIs DEF Sized

-----------------------------------------------------------------------------
(* What the caller reads. *)

LEMMA OutcomeIs ==
  ASSUME NEW fn, NEW v
  PROVE  /\ fn # "add" /\ fn # "greet" => Outcome(fn, v) = v /\ Type(fn) = fn
         /\ fn = "add" => Outcome(fn, v) = add(v[1], v[2]) /\ Type(fn) = "u32"
         /\ fn = "greet" => Outcome(fn, v) = greet(v) /\ Type(fn) = "string"
BY DEF Outcome, Type, add, greet

\* A greeting is longer than the name by a few bytes, which a length has room for.
LEMMA GreetingFits ==
  ASSUME NEW v, v.name \in Octets, Len(v.name) < Pow2[Int32]
  PROVE  greet(v) \in Octets /\ Len(greet(v)) < Pow2[Word]
<1>1. /\ Pow2[Int32 + 1] = 2 * Pow2[Int32] /\ Pow2[Int32 + 1] <= Pow2[Word]
      /\ Pow2[Int32] \in Nat /\ Pow2[Word] \in Nat /\ Pow2[Int32 + 1] \in Nat
  <2>1. Int32 \in Nat /\ Int32 + 1 \in Nat /\ Int32 + 1 <= Word
    BY WordIs
  <2>2. QED BY <2>1, WordIs, Pow2Is, Pow2Type
<1>2. 2 < Pow2[Int32]
  BY SmallFits
<1>3. Len(v.name) \in Nat /\ greet(v) \in Octets
      /\ (Len(greet(v)) = Len(v.name) + 2 \/ Len(greet(v)) = Len(v.name) + 3)
  BY GreetingIs
<1>4. QED BY <1>1, <1>2, <1>3

\* The caller reads the outcome for the value that the handler was given.
LEMMA OutcomeRead ==
  ASSUME NEW fn \in Handled, NEW v, Takes(fn, v), Exact(fn, v)
  PROVE  dec(Type(fn), Result(fn, v)) = Ok(Outcome(fn, v), Len(Result(fn, v)))
<1>0. ASSUME NEW q \in Octets
      PROVE  Holds(q, 0, q) /\ 0 + Len(q) = Len(q)
  BY <1>0, HoldsItself, OctetsIs
<1>1. CASE fn \in Echo
  <2>1. fn # "add" /\ fn # "greet" /\ OfType(fn, v)
    BY <1>1, HandledIs DEF Takes
  <2>2. Type(fn) = fn /\ Outcome(fn, v) = v /\ Result(fn, v) = Encode(fn, v)
    BY <1>1, <2>1, OutcomeIs, ResultIs
  <2>3. fn = "s64" => Exactly64(v)
    BY DEF Exact, Exactly64
  <2>4. QED BY <1>1, <2>1, <2>2, <2>3, ResultsReadBack
<1>2. CASE fn = "add"
  <2> DEFINE n == add(v[1], v[2])
             w == EncodeUleb[n]
  <2>1. v[1] \in Nat /\ v[2] \in Nat
    BY <1>2 DEF Takes
  <2>2. n \in Nat /\ n < Pow2[Int32]
    BY <2>1, SumIs
  <2>3. Type(fn) = "u32" /\ Outcome(fn, v) = n /\ Result(fn, v) = w
    BY <1>2, OutcomeIs, ResultIs
  <2> HIDE DEF n
  <2>4. n < Pow2[Word]
    BY <2>2, NumbersFit
  <2>5. w \in Octets
    BY <2>2, NumbersWritten
  <2>6. dec("u32", w) = uleb_dec(w, 0)
    <3>1. "u32" \in Unsigned
      BY DEF Unsigned
    <3>2. QED BY <3>1, DecIs
  <2>7. uleb_dec(w, 0) = Ok(n, 0 + Len(w))
    BY <1>0, <2>2, <2>4, <2>5, UlebDecoded
  <2> HIDE DEF w
  <2>8. uleb_dec(w, 0) = Ok(n, Len(w))
    BY <1>0, <2>5, <2>7
  <2>9. QED BY <2>3, <2>6, <2>8
<1>3. CASE fn = "greet"
  <2> DEFINE s == greet(v)
             w == EncodeString(s)
  <2>1. v.name \in Octets /\ Len(v.name) < Pow2[Int32]
    BY <1>3 DEF Takes, GreetRequests
  <2>2. s \in Octets /\ Len(s) < Pow2[Word]
    BY <2>1, GreetingFits
  <2>3. Type(fn) = "string" /\ Outcome(fn, v) = s /\ Result(fn, v) = w
    BY <1>3, OutcomeIs, ResultIs
  <2> HIDE DEF s
  <2>4. s \in Seq(0..255) /\ w \in Octets
    BY <2>2, StringWritten DEF Octets
  <2>5. dec("string", w) = string_dec(w, 0)
    BY DecIs
  <2>6. string_dec(w, 0) = Ok(s, 0 + Len(w))
    BY <1>0, <2>2, <2>4, StringDecoded
  <2> HIDE DEF w
  <2>7. string_dec(w, 0) = Ok(s, Len(w))
    BY <1>0, <2>4, <2>6
  <2>8. QED BY <2>3, <2>5, <2>7
<1>4. QED BY <1>1, <1>2, <1>3, HandledIs

\* A value of its type that a host writes reaches the handler, and the result reaches
\* the caller, unchanged; any other value is refused and never taken for one that fits
\* (cmval.lua's enc and dec against bindings.cpp's handlers and crab.cpp's readers).
THEOREM ValuesFaithful == Spec => []Faithful
<1>1. RepliesTogether => Faithful
  <2> SUFFICES ASSUME RepliesInv, Heard, NEW v \in Values[last.fn], enc(last.fn, v) = last.params
               PROVE  /\ last.ok = Fits(last.fn, v)
                      /\ last.ok /\ Exact(last.fn, v) =>
                           dec(Type(last.fn), last.val) = Ok(Outcome(last.fn, v), Len(last.val))
    BY Zenon DEF RepliesTogether, Faithful
  <2> DEFINE fn == last.fn
             buf == last.params
             r == Params(fn, buf)
  <2>1. /\ fn \in Handled
        /\ last.ok => r.ok /\ last.val = Result(fn, r.val)
        /\ ~last.ok => ~r.ok
    BY HeardIs
  <2>2. last.ok \in BOOLEAN
    <3>1. last # None
      BY DEF Heard
    <3>2. QED BY <3>1 DEF RepliesInv, LastTyped
  <2> HIDE DEF fn
  <2>3. Writes(fn, v) /\ buf = Sent(fn, v) /\ Sent(fn, v) \in Octets
    BY <2>1, SentIsBytes DEF fn
  <2>4. Sendable(fn, v) /\ Fits(fn, v) \in BOOLEAN /\ (Fits(fn, v) <=> Takes(fn, v))
    BY <2>1, <2>3, FittingIsTaken
  <2>5. /\ Takes(fn, v) => r = Ok(v, Len(Sent(fn, v)))
        /\ ~Takes(fn, v) => ~r.ok
    <3> HIDE DEF buf
    <3>1. QED BY <2>1, <2>3, <2>4, ParamsReadBack
  <2> HIDE DEF r
  <2>6. Takes(fn, v) => r.ok /\ r.val = v
    BY <2>5, OkIs
  <2>7. last.ok = Fits(fn, v)
    BY <2>1, <2>2, <2>4, <2>5, <2>6
  <2>8. ASSUME last.ok, Exact(fn, v)
        PROVE  dec(Type(fn), last.val) = Ok(Outcome(fn, v), Len(last.val))
    <3>1. Takes(fn, v) /\ last.val = Result(fn, v)
      BY <2>1, <2>5, <2>6, <2>8
    <3>2. QED BY <2>1, <2>8, <3>1, OutcomeRead
  <2>9. QED BY <2>7, <2>8 DEF fn
<1>2. QED BY <1>1, RepliesStart, RepliesStep, PTL DEF Spec
=============================================================================
