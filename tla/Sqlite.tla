-------------------------------- MODULE Sqlite -------------------------------
(***************************************************************************)
(* The sqlite guest (sqlite-c/main.c): exec(sql) runs one statement on a   *)
(* database file of its volume and gives a JSON document or sqlite's       *)
(* message.  The SQLite library is external: what it answers is any outcome *)
(* the code can see.  A statement is a text of one byte, and each part of a *)
(* document is one byte as well.                                           *)
(***************************************************************************)
EXTENDS Codec

CONSTANT MaxRows  \* bound: rows the table holds

VARIABLES db,    \* DB: is the database open
          stmt,  \* is a statement prepared and not finalized
          out,   \* the static buffer a document is built in
          job,   \* the invocation going on, if any
          rows   \* rows of the table, on disk

vars == <<db, stmt, out, job, rows>>

Sql == [query |-> <<81>>, update |-> <<85>>, blank |-> <<32>>,
        several |-> <<59>>]

\* What sqlite can prepare; of any other text it says what is wrong.
Statements == {<<>>, Sql.query, Sql.update, Sql.blank, Sql.several}

\* The parts of a document, and the messages in its place.
Columns == 67
Row == 82
Changes == 71
Sqlite3Message == 77
Only == 79
Cannot == 78
-----------------------------------------------------------------------------
\* Between two invocations.
Idle == [phase |-> "idle"]

Init == db = FALSE /\ stmt = FALSE /\ out = <<>> /\ job = Idle /\ rows = 0

In(phase) == job.phase = phase

\* uleb_get32 and the two comparisons: a length and exactly as many bytes.
sql_params(buf) ==
  Then(Uleb(Int32, buf, 0), LAMBDA n :
       IF n.pos + n.val = Len(buf) THEN Bytes(n.val, buf, n.pos) ELSE Fail)

reply_abi_err == <<1>> \o EncodeString(<<1>>)
reply_result(err, text) == <<0>> \o EncodeBool(err) \o EncodeString(text)

\* crab_invoke of exec, or of a function it does not have.
CrabInvoke(caller, known, params) ==
  /\ In("idle")
  /\ LET sql == sql_params(params)
     IN job' = IF known /\ sql.ok
               THEN [caller |-> caller, phase |-> "opening", sql |-> sql.val, reply |-> <<>>]
               ELSE [caller |-> caller, phase |-> "answered", sql |-> <<>>, reply |-> reply_abi_err]
  /\ UNCHANGED <<db, stmt, out, rows>>

Answer(err, text) ==
  /\ out' = text
  /\ job' = [job EXCEPT !.phase = "answered", !.reply = reply_result(err, text)]

\* db_open: the handle is opened once, and closed again when that fails.
OpenFails ==
  /\ In("opening") /\ ~db
  /\ Answer(TRUE, <<Cannot>>)
  /\ UNCHANGED <<db, stmt, rows>>

\* Mutant: the buffer keeps what it had.
OpensUnreset ==
  /\ In("opening")
  /\ db' = TRUE
  /\ job' = [job EXCEPT !.phase = "preparing"]
  /\ UNCHANGED <<stmt, out, rows>>

Opens ==
  /\ In("opening")
  /\ db' = TRUE /\ out' = <<>>
  /\ job' = [job EXCEPT !.phase = "preparing"]
  /\ UNCHANGED <<stmt, rows>>

\* sqlite3_prepare_v2 and the check that nothing follows the statement.
Prepare ==
  /\ In("preparing")
  /\ \/ job.sql \notin Statements /\ Answer(TRUE, out \o <<Sqlite3Message>>) /\ UNCHANGED stmt
     \/ job.sql = Sql.several /\ Answer(TRUE, out \o <<Only>>) /\ UNCHANGED stmt
     \/ job.sql \in {<<>>, Sql.blank} /\ Answer(FALSE, out \o <<Columns, Changes>>) /\ UNCHANGED stmt
     \/ /\ job.sql \in {Sql.query, Sql.update}
        /\ stmt' = TRUE
        /\ out' = out \o <<Columns>>
        /\ job' = [job EXCEPT !.phase = "stepping"]
  /\ UNCHANGED <<db, rows>>

\* The rows that sqlite has given so far, after the columns.
Given == Len(out) - 1

StepRow ==
  /\ In("stepping") /\ job.sql = Sql.query
  /\ Given < rows
  /\ out' = Append(out, Row)
  /\ UNCHANGED <<db, stmt, job, rows>>

\* SQLITE_DONE: an update has taken effect.
StepDone ==
  /\ In("stepping")
  /\ \/ job.sql = Sql.query /\ Given = rows /\ UNCHANGED rows
     \/ job.sql = Sql.update /\ rows < MaxRows /\ rows' = rows + 1
  /\ stmt' = FALSE
  /\ Answer(FALSE, Append(out, Changes))
  /\ UNCHANGED db

\* Mutants: the statement stays prepared; what was built stays in the buffer.
StepFailsUnfinalized ==
  In("stepping") /\ Answer(TRUE, <<Sqlite3Message>>) /\ UNCHANGED <<db, stmt, rows>>
StepFailsUnreset ==
  /\ In("stepping") /\ stmt' = FALSE
  /\ Answer(TRUE, Append(out, Sqlite3Message)) /\ UNCHANGED <<db, rows>>

\* Any other result, also between two rows: what was built is dropped.
StepFails ==
  /\ In("stepping")
  /\ stmt' = FALSE
  /\ Answer(TRUE, <<Sqlite3Message>>)
  /\ UNCHANGED <<db, rows>>

\* The host has copied the reply.
Taken ==
  /\ In("answered")
  /\ job' = Idle
  /\ UNCHANGED <<db, stmt, out, rows>>

\* The computer restarts: the file remains.
Restart ==
  /\ db' = FALSE /\ stmt' = FALSE /\ out' = <<>> /\ job' = Idle
  /\ UNCHANGED rows

Step == OpenFails \/ Opens \/ Prepare \/ StepRow \/ StepDone \/ StepFails
-----------------------------------------------------------------------------
(* Properties. *)

TypeOK ==
  /\ db \in BOOLEAN /\ stmt \in BOOLEAN
  /\ out \in Seq(0..255) /\ rows \in 0..MaxRows
  /\ In("idle") \/
       /\ job.phase \in {"opening", "preparing", "stepping", "answered"}
       /\ job.sql \in Seq(0..255) /\ job.reply \in Seq(0..255)

\* A prepared statement is finalized on every way out, whatever fails: the next
\* exec finds none left to hold a lock, and one is prepared only on an open
\* database.
StatementsClosed ==
  /\ stmt => In("stepping")
  /\ stmt => db

\* The document of so many rows.
Document(n) == <<Columns>> \o [r \in 1..n |-> Row] \o <<Changes>>

\* The answer of an exec is a whole document or one message, never the beginning
\* of a document, or what a former exec left in the buffer.
WholeAnswers ==
  In("answered") =>
    \/ job.reply = reply_abi_err
    \/ \E n \in 0..MaxRows : job.reply = reply_result(FALSE, Document(n))
    \/ \E text \in {<<Cannot>>, <<Only>>, <<Sqlite3Message>>} :
         job.reply = reply_result(TRUE, text)
=============================================================================
