------------------------------- MODULE Services -----------------------------
(***************************************************************************)
(* Two workloads and the client of both: a C++ guest (Guest), and the      *)
(* sqlite guest (Sqlite), which the C++ guest asks through the mesh and the *)
(* client directly.  The request that crosses the network may be lost or   *)
(* late, its caller may give up, and either computer may restart.          *)
(***************************************************************************)
EXTENDS Bindings, SequencesExt

CONSTANTS Addrs, MaxRows,
          Values,   \* bound: for each function, values its caller may send
          Raw       \* bound: for each function, other bytes it may send

VARIABLES pins, reply, call, last, abandoned,  \* Guest
          db, stmt, out, job, rows,            \* Sqlite
          mail                                 \* the mesh request on its way, or None

\* A document, a byte or more for a row, is in the memory of a 32-bit guest, in a
\* buffer that doubles (bput), and its length fits the width of a length.
ASSUME RowsAssumption == /\ MaxRows \in Nat /\ MaxRows < 2147483640
                         /\ MaxRows + 2 < Pow2[Int32]

guestVars == <<pins, reply, call, last, abandoned>>
sqliteVars == <<db, stmt, out, job, rows>>
vars == <<guestVars, sqliteVars, mail>>

G == INSTANCE Guest
S == INSTANCE Sqlite
-----------------------------------------------------------------------------
(* What the client sends. *)

\* The parameters a host writes for a value; it does not check their width.
enc(fn, v) ==
  CASE fn = "add" -> EncodeUleb[v[1]] \o EncodeUleb[v[2]]
    [] fn = "greet" -> encodeGreetRequest(v)
    [] fn = "relay" -> EncodeString(v)
    [] fn = "report" -> <<>>
    [] OTHER -> Encode(fn, v)

Written == [fn \in Functions |->
  IF fn \in Exports THEN {enc(fn, v) : v \in Values[fn]} ELSE {}]

\* Cut short, followed by a byte, and with a number that ends in an empty group.
Damaged(params) ==
  {params \o <<0>>} \cup
  (IF params = <<>> THEN {} ELSE {Front(params), Front(params) \o <<(Last(params) % 128) + 128, 0>>})

Inputs == [fn \in Functions |->
  Written[fn] \cup (UNION {Damaged(params) : params \in Written[fn]}) \cup Raw[fn]]

\* Bytes, which fill less than half of the memory of a 32-bit guest: its reply is
\* there too.
Half == 2000000000
ASSUME InputsAssumption ==
  \A fn \in Functions : \A params \in Written[fn] \cup Raw[fn] :
    params \in Seq(0..255) /\ Len(params) < Half

\* Values that a host can write, whether or not they are of the type: its numbers
\* have no width, and its texts may be none.
Writes(fn, v) ==
  CASE fn \in Unsigned \cup {"char"} -> v \in Nat
    [] fn \in Signed -> v \in Int
    [] fn = "bool" -> v \in BOOLEAN
    [] fn = "string" -> v \in Seq(0..255) /\ Len(v) < Pow2[Int32]
    [] fn = "enum" -> v \in 0..2
    [] fn = "option" -> v = None \/ v \in Nat
    [] fn = "list" -> v \in Seq(Nat) /\ Len(v) < Pow2[Int32]
    [] fn = "flags" -> v \in SUBSET (0..9)
    [] fn = "add" -> v \in Nat \X Nat
    [] fn = "greet" -> /\ v \in [name : Seq(0..255), excited : BOOLEAN \cup {None}]
                       /\ Len(v.name) < Pow2[Int32]

ASSUME ValuesAssumption ==
  \A fn \in Exports \ Asking : \A v \in Values[fn] : Writes(fn, v)
-----------------------------------------------------------------------------
Init == G!Init /\ S!Init /\ mail = None

\* bound: the functions that need nobody are called, and damaged parameters sent,
\* before the database is used and before a trap.
Untouched == ~db /\ S!In("idle") /\ out = <<>> /\ rows = 0 /\ abandoned = {}

\* bound: one mesh request under way.
ClientInvokes ==
  /\ G!In("idle") /\ last = None
  /\ \E fn \in IF Untouched THEN Functions ELSE Asking :
       \E params \in IF Untouched THEN Inputs[fn] ELSE Written[fn] :
         /\ fn \in Asking => mail = None
         /\ G!Invoke(fn, params) \/ G!AllocFails(fn, params)
  /\ UNCHANGED <<sqliteVars, mail>>

GuestStarts ==
  /\ G!Dispatch
  /\ mail' = IF call'.phase = "asking" /\ call.fn = "relay" THEN [params |-> G!Asked, wanted |-> TRUE] ELSE mail
  /\ UNCHANGED sqliteVars

GuestEnds ==
  /\ G!Resume \/ G!Copies \/ G!Forget \/ (~G!In("asking") /\ G!Trap)
  /\ UNCHANGED <<sqliteVars, mail>>

\* Mutant: the job goes on for a caller that has gone.
DisownMail ==
  /\ mail' = IF mail = None THEN None ELSE [mail EXCEPT !.wanted = FALSE]
  /\ UNCHANGED <<db, stmt, out, job, rows>>

\* Nobody waits any longer for the request under way.
Disown ==
  /\ mail' = IF mail = None THEN None ELSE [mail EXCEPT !.wanted = FALSE]
  /\ job' = IF ~S!In("idle") /\ job.caller = "relay" THEN [job EXCEPT !.caller = "nobody"] ELSE job
  /\ UNCHANGED <<db, stmt, out, rows>>

GuestRestarts == G!Restart /\ Disown

\* bound: and so is the database used after them.
ClientExecs ==
  /\ ~G!In("idle") => call.fn \in Asking
  /\ last # None => last.fn \in Asking
  /\ \E known \in BOOLEAN, params \in Written["relay"] \cup Raw["relay"] :
       S!CrabInvoke("client", known, params)
  /\ UNCHANGED <<guestVars, mail>>

Delivered ==
  /\ mail # None
  /\ S!CrabInvoke(IF mail.wanted THEN "relay" ELSE "nobody", TRUE, mail.params)
  /\ mail' = None
  /\ UNCHANGED guestVars

Lost == mail # None /\ mail' = None /\ UNCHANGED <<guestVars, sqliteVars>>

SqliteSteps == S!Step /\ UNCHANGED <<guestVars, mail>>

SqliteRestarts == S!Restart /\ UNCHANGED <<guestVars, mail>>

\* The host of the caller makes a payload of a reply; if the guest has no memory
\* left for it, the guest traps.
Reach(payload) == G!MeshReplies(payload) \/ (G!In("asking") /\ G!Trap)

\* The host of the sqlite guest takes a reply and sends it to who asked.
Answered ==
  /\ S!Taken
  /\ IF job.caller = "relay"
     THEN Reach(IF job.reply[1] = 0 THEN job.reply ELSE G!ReplyErr(string_dec(job.reply, 1).val))
     ELSE UNCHANGED guestVars
  /\ UNCHANGED mail

\* The caller's host or its gateway gives up, or says that it cannot; the message
\* holds whatever bytes the host put there.
MeshFails ==
  /\ \E message \in {<<>>, G!Message.memory, <<255>>} : Reach(G!ReplyErr(message))
  /\ Disown

\* The workload that report asks is any other: it answers as it likes, but by the
\* rules.
OthersReply ==
  /\ G!In("asking") /\ call.fn = "report"
  /\ \E body \in {<<0>>} \cup {<<1>> \o EncodeString(m) : m \in {<<>>, <<69>>, <<255>>}} :
       Reach(<<0>> \o body)
  /\ UNCHANGED <<sqliteVars, mail>>

Next == \/ ClientInvokes \/ GuestStarts \/ GuestEnds \/ GuestRestarts
        \/ ClientExecs \/ SqliteSteps \/ SqliteRestarts
        \/ Delivered \/ Lost \/ Answered \/ MeshFails \/ OthersReply

Spec == Init /\ [][Next]_vars
-----------------------------------------------------------------------------
(* Properties. *)

TypeOK ==
  /\ G!TypeOK /\ S!TypeOK
  /\ mail = None \/ mail.wanted \in BOOLEAN
  /\ ~S!In("idle") => job.caller \in {"client", "relay", "nobody"}

\* Of all that the sqlite guest is asked in relay's name, one exec at most is under
\* way or worked on, and only while relay waits for it: an answer never meets a
\* later invocation, whatever was lost, given up or restarted.
AnswersAreAwaited ==
  LET mailed == mail # None /\ mail.wanted
      served == ~S!In("idle") /\ job.caller = "relay"
  IN /\ ~(mailed /\ served)
     /\ mailed \/ served => G!In("asking") /\ call.fn = "relay"

PinsReleased == G!PinsReleased
FailuresAreTold == G!FailuresAreTold
ErrorsAreErrors == G!ErrorsAreErrors
StatementsClosed == S!StatementsClosed
WholeAnswers == S!WholeAnswers

\* A handler ran to its end, or refused what it was sent.
Heard == last # None /\ last.fn \in Exports \ Asking
         /\ (last.ok \/ last.val \notin {G!Message.trap, G!Message.memory})

\* The table of well-formed UTF-8 of the Unicode standard, for one character.
Character(c) ==
  LET first == c[1]
      second == c[2]
  IN \/ Len(c) = 1 /\ first <= 127
     \/ /\ Len(c) \in 2..4 /\ \A i \in 2..Len(c) : c[i] \in 128..191
        /\ \/ Len(c) = 2 /\ first \in 194..223
           \/ Len(c) = 3 /\ first = 224 /\ second >= 160
           \/ Len(c) = 3 /\ first \in 225..236 \cup 238..239
           \/ Len(c) = 3 /\ first = 237 /\ second <= 159
           \/ Len(c) = 4 /\ first = 240 /\ second >= 144
           \/ Len(c) = 4 /\ first \in 241..243
           \/ Len(c) = 4 /\ first = 244 /\ second <= 143

Unicode(s) ==
  LET From[i \in 0..Len(s)] ==
        i = Len(s) \/ \E j \in i+1..Len(s) : Character(SubSeq(s, i + 1, j)) /\ From[j]
  IN From[0]

\* The values of the type of a function's parameters.
Fits(fn, v) ==
  CASE fn \in Unsigned -> v < Pow2[Bits(fn)]
    [] fn \in Signed -> -Pow2[Bits(fn) - 1] <= v /\ v < Pow2[Bits(fn) - 1]
    [] fn = "char" -> v <= 1114111 /\ v \notin 55296..57343
    [] fn = "string" -> Unicode(v)
    [] fn = "add" -> v[1] < Pow2[Int32] /\ v[2] < Pow2[Int32]
    [] fn = "greet" -> Unicode(v.name)
    [] fn = "list" -> \A i \in 1..Len(v) : v[i] < 256
    [] fn = "option" -> v = None \/ v < 256
    [] OTHER -> TRUE

\* bound: where the host reads a negative s64 exactly; it loses low bits of the
\* others (cmval.lua's sleb_dec adds the groups before it takes the sign away).
Exact(fn, v) == fn = "s64" => -Pow2[7 * (Mantissa \div 7) - 1] <= v /\ v <= Pow2[Mantissa]

Outcome(fn, v) ==
  CASE fn = "add" -> (v[1] + v[2]) % Pow2[Int32]
    [] fn = "greet" -> <<72>> \o v.name \o (IF v.excited = TRUE THEN <<33, 33>> ELSE <<33>>)
    [] OTHER -> v

Type(fn) == CASE fn = "add" -> "u32" [] fn = "greet" -> "string" [] OTHER -> fn

\* A value of its type that a host writes reaches the handler, and the result
\* reaches the caller, unchanged; any other value is refused and never taken for
\* one that fits.
Faithful ==
  Heard => \A v \in Values[last.fn] : enc(last.fn, v) = last.params =>
    /\ last.ok = Fits(last.fn, v)
    /\ last.ok /\ Exact(last.fn, v) =>
         dec(Type(last.fn), last.val) = Ok(Outcome(last.fn, v), Len(last.val))

\* Parameters that a handler takes have no part that it would take too, and no
\* shorter form than the one a host writes for the same value.
Unambiguous ==
  Heard /\ last.ok =>
    LET value == Params(last.fn, last.params).val
    IN /\ \A n \in 0..Len(last.params) - 1 : ~Params(last.fn, SubSeq(last.params, 1, n)).ok
       /\ Len(enc(last.fn, value)) <= Len(last.params)
       /\ Params(last.fn, enc(last.fn, value)).val = value

\* From the database to the client of another workload, over a network that loses
\* and delays, through a caller that gave up or restarted and ones that asked
\* meanwhile: what relay gives is a whole document, or one message in Unicode.
WholeDocuments ==
  last # None /\ last.fn = "relay" =>
    IF last.ok THEN \E n \in 0..MaxRows : string_dec(last.val, 0).val = S!Document(n)
    ELSE Len(last.val) = 1 /\ Unicode(last.val)
=============================================================================
