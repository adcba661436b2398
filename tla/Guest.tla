-------------------------------- MODULE Guest --------------------------------
(***************************************************************************)
(* A C++ guest as crabgen generates it (crab.cpp, mesh.cpp, bindings.cpp), *)
(* and the runtime of the host that invokes it (runtime.lua).  An instance *)
(* serves one invocation at a time and keeps its memory between them.      *)
(*                                                                         *)
(* The functions are those of hello-cpp, one echo for each kind of type,   *)
(* and two that ask another workload through the mesh: relay for a string, *)
(* as crabgen's wrapper of result<string, string> gives it, and report for *)
(* the result<_, string> of the generator's own test world.  A message is  *)
(* one byte long.                                                          *)
(***************************************************************************)
EXTENDS Bindings

CONSTANT Addrs  \* where crab_alloc may put a buffer

VARIABLES pins,       \* Allocs: addresses the guest keeps a buffer at
          reply,      \* the static LENBUF, until the host has copied it
          call,       \* the invocation going on, if any
          last,       \* what its caller was told, until it looks
          abandoned   \* history: what was pinned when an invocation trapped

vars == <<pins, reply, call, last, abandoned>>

Message == [unknown |-> <<1>>, params |-> <<2>>, mesh |-> <<3>>,
            trap |-> <<4>>, memory |-> <<5>>, sql |-> <<6>>]
-----------------------------------------------------------------------------
(* LENBUF and its payloads. *)

\* A length of 32 bits, least significant byte first, and as many bytes.
Lenbuf(payload) ==
  LET len == Len(payload)
  IN <<len % 256, (len \div 256) % 256, (len \div 65536) % 256, (len \div 16777216) % 256>> \o payload
ReadLenbuf(buf) ==
  SubSeq(buf, 5, 4 + (buf[1] + buf[2] * 256 + buf[3] * 65536 + buf[4] * 16777216))

ReplyOK(result) == <<0>> \o result
ReplyErr(message) == <<1>> \o EncodeString(message)

\* Res<T>: failure is a message that is not empty.
Done(val) == [ok |-> TRUE, val |-> val]
Failed(message) == [ok |-> message = <<>>, val |-> message]

Said(r) == IF r.ok THEN r.val ELSE Message.mesh

\* The body of a good reply, or the message of a bad one.
ParseMeshReply(payload) ==
  IF payload[1] = 0 THEN Done(Tail(payload))
  ELSE Failed(Said(Finished(payload, String(payload, 1))))

\* Mutant: the tag of the result is skipped.
UntaggedResult(body, tag, silent) ==
  IF silent THEN Done(<<>>) ELSE Done(Said(String(body, 1)))

\* A result<string, string> or, if it has nothing to say of success, a
\* result<_, string>.
TaggedResult(body, tag, silent) ==
  LET text == Then(tag, LAMBDA t : Finished(body, IF silent /\ ~t.val THEN Ok(<<>>, t.pos)
                                                  ELSE String(body, t.pos)))
  IN IF ~text.ok THEN Failed(Message.mesh)
     ELSE IF tag.val THEN Failed(text.val) ELSE Done(text.val)

\* The wrapper of a mesh call that gives one.
Wrapped(peer, silent) ==
  IF peer.ok THEN TaggedResult(peer.val, PrefixBit(peer.val, 0), silent) ELSE peer

\* What the two handlers reply: report has an err case of its own for a failure.
Relayed(fn, payload) ==
  LET r == Wrapped(ParseMeshReply(payload), fn = "report")
  IN IF fn = "report" THEN ReplyOK(IF r.ok THEN <<0>> ELSE <<1>> \o EncodeString(r.val))
     ELSE IF r.ok THEN ReplyOK(EncodeString(r.val)) ELSE ReplyErr(r.val)
-----------------------------------------------------------------------------
\* Between two invocations.
Idle == [phase |-> "idle"]

Init ==
  /\ pins = {} /\ abandoned = {}
  /\ reply = <<>>
  /\ call = Idle /\ last = None

Free == Addrs \ pins

Told(ok, val) == [fn |-> call.fn, params |-> call.params, ok |-> ok, val |-> val]
In(phase) == call.phase = phase

\* The host puts the name and, if there are any, the parameters into buffers
\* of the guest's.
Invoke(fn, params) ==
  /\ In("idle") /\ last = None
  /\ \E a \in Free, b \in Free \cup {None} :
       /\ b # a /\ (b = None) = (params = <<>>)
       /\ pins' = pins \cup ({a, b} \ {None})
       /\ call' = [phase |-> "entering", fn |-> fn, params |-> params,
                   bufs |-> {a, b} \ {None}, mesh |-> None, heard |-> <<>>]
  /\ UNCHANGED <<reply, last, abandoned>>

\* The guest has no memory for one of them: crab_alloc traps, and the host keeps
\* the instance with what it had allocated for the name.
AllocFails(fn, params) ==
  /\ In("idle") /\ last = None
  /\ Cardinality(Free) < (IF params = <<>> THEN 1 ELSE 2)
  /\ pins' = Addrs
  /\ abandoned' = abandoned \cup Free
  /\ last' = [fn |-> fn, params |-> params, ok |-> FALSE, val |-> Message.memory]
  /\ UNCHANGED <<reply, call>>

\* The reply is written; the Unpin destructor lets go of both buffers of the
\* host's.
Return(payload, held) ==
  /\ reply' = Lenbuf(payload)
  /\ pins' = held \ call.bufs
  /\ call' = [call EXCEPT !.phase = "returned", !.bufs = {}]
  /\ UNCHANGED <<last, abandoned>>

\* crab_invoke: find the handler and run it, to its end or to its mesh call.
Dispatch ==
  /\ In("entering")
  /\ LET v == Params(call.fn, call.params)
     IN \/ call.fn \notin Exports /\ Return(ReplyErr(Message.unknown), pins)
        \/ call.fn \in Exports /\ ~v.ok /\ Return(ReplyErr(Message.params), pins)
        \/ call.fn \in Exports \ Asking /\ v.ok
           /\ Return(ReplyOK(Result(call.fn, v.val)), pins)
        \/ /\ call.fn \in Asking /\ v.ok
           /\ call' = [call EXCEPT !.phase = "asking"]
           /\ UNCHANGED <<pins, reply, last, abandoned>>

\* What relay asks the other workload: its text is passed on.
Asked == EncodeString(Params("relay", call.params).val)

\* Mutant: the guest does not record the buffer.
MeshRepliesUnpinned(payload) ==
  /\ In("asking")
  /\ \E a \in Free : call' = [call EXCEPT !.phase = "answered", !.heard = Lenbuf(payload),
                                          !.mesh = a]
  /\ UNCHANGED <<pins, reply, last, abandoned>>

\* crabcraft.call returns: the host wrote the reply into a buffer it had the
\* guest allocate.
MeshReplies(payload) ==
  /\ In("asking")
  /\ \E a \in Free :
       /\ pins' = pins \cup {a}
       /\ call' = [call EXCEPT !.phase = "answered", !.heard = Lenbuf(payload),
                               !.mesh = a]
  /\ UNCHANGED <<reply, last, abandoned>>

\* Mutant: the buffer of the mesh reply stays pinned.
ResumePinned == In("answered") /\ Return(Relayed(call.fn, ReadLenbuf(call.heard)), pins)

\* MeshCall copies the reply out, unpins it, and the handler ends.
Resume ==
  In("answered") /\ Return(Relayed(call.fn, ReadLenbuf(call.heard)), pins \ {call.mesh})

\* The guest traps: no destructor runs, and the host keeps the instance.
Trap ==
  /\ In("entering") \/ In("answered") \/ (In("asking") /\ Free = {})
  /\ call' = Idle /\ abandoned' = pins
  /\ last' = Told(FALSE, Message.trap)
  /\ UNCHANGED <<pins, reply>>

\* The host copies the reply and tells its caller.
Copies ==
  /\ In("returned")
  /\ LET payload == ReadLenbuf(reply)
     IN last' = IF payload[1] = 0 THEN Told(TRUE, Tail(payload))
                ELSE Told(FALSE, string_dec(payload, 1).val)
  /\ reply' = <<>> /\ call' = Idle
  /\ UNCHANGED <<pins, abandoned>>

\* The caller has looked.
Forget == last # None /\ last' = None /\ UNCHANGED <<pins, reply, call, abandoned>>

\* The computer restarts: a new instance.
Restart ==
  /\ pins' = {} /\ abandoned' = {}
  /\ reply' = <<>> /\ call' = Idle /\ last' = None
-----------------------------------------------------------------------------
(* Properties. *)

Byte255 == 0..255

TypeOK ==
  /\ pins \subseteq Addrs /\ abandoned \subseteq pins
  /\ reply \in Seq(Byte255)
  /\ In("idle") \/
       /\ call.phase \in {"entering", "asking", "answered", "returned"}
       /\ call.fn \in Functions /\ call.params \in Seq(Byte255)
       /\ call.bufs \subseteq pins /\ call.heard \in Seq(Byte255)
       /\ call.phase = "answered" => call.mesh \in pins
  /\ last = None \/
       (last.fn \in Functions /\ last.ok \in BOOLEAN /\ last.val \in Seq(Byte255))

\* A warm instance keeps no buffer of an invocation that is over (crab.cpp: "warm
\* reactors would otherwise leak one pin per call"), of a mesh call neither, and
\* lets go of none that is in use; a trap is the one way to leave some behind.
PinsReleased ==
  pins = abandoned \cup
    (IF In("idle") \/ In("returned") THEN {}
     ELSE call.bufs \cup (IF In("answered") THEN {call.mesh} ELSE {}))

\* What the peer said of its own failure, or of its success, is what the caller of
\* report is told; only a text that is none is replaced.  It is stated for
\* messages that are not empty, see ErrorsAreErrors.
FailuresAreTold ==
  In("returned") /\ call.fn = "report" /\ call.heard # <<>> =>
    LET said == ReadLenbuf(call.heard)
        told == ReadLenbuf(reply)
        message == IF said[1] = 1 THEN Tail(Tail(said)) ELSE SubSeq(said, 4, Len(said))
    IN IF said = <<0, 0>> THEN told = <<0, 0>>
       ELSE message # <<>> =>
              told = <<0, 1>> \o EncodeString(IF Utf8Valid(message) THEN message ELSE Message.mesh)

\* crab.hpp: "an empty err always means success", and the generated wrapper: "The
\* returned .err covers transport failures, remote status-1 failures, AND the WIT
\* result err case": success is told only of a success.
ErrorsAreErrors ==
  In("returned") /\ call.fn = "report" /\ call.heard # <<>> =>
    (ReadLenbuf(reply) = <<0, 0>> => ReadLenbuf(call.heard) = <<0, 0>>)
=============================================================================
