------------------------------- MODULE Bindings -------------------------------
(***************************************************************************)
(* What crabgen's bindings of hello-cpp make of the codec (bindings.cpp):   *)
(* which functions there are, what each takes for its parameters, and what *)
(* it gives.  The functions are an echo for each kind of type, add and      *)
(* greet, and two that ask another workload.                               *)
(***************************************************************************)
EXTENDS HostCodec

Echo == Signed \cup Unsigned \cup {"bool", "char", "string", "enum", "option", "list", "flags"}
Asking == {"relay", "report"}
Exports == Echo \cup Asking \cup {"add", "greet"}
Functions == Exports \cup {"unheard"}
-----------------------------------------------------------------------------
(* Values and their bytes. *)

\* option<u8>
Option(buf, pos) ==
  Then(PrefixBit(buf, pos), LAMBDA tag :
       IF tag.val THEN Uleb(8, buf, tag.pos) ELSE [tag EXCEPT !.val = None])

\* list<u8>
List(buf, pos) ==
  Then(Uleb(Int32, buf, pos), LAMBDA n :
    Elements(n.val, n.pos, [at \in 0..Len(buf) |-> Uleb(8, buf, at)]))

EncodeOption(v) == IF v = None THEN <<0>> ELSE <<1>> \o EncodeUleb[v]
EncodeList(v) == EncodeUleb[Len(v)] \o EncodeElements[v]

Decode(type, buf, pos) ==
  CASE type \in Signed -> Sleb(Bits(type), buf, pos)
    [] type \in Unsigned -> Uleb(Bits(type), buf, pos)
    [] type = "bool" -> PrefixBit(buf, pos)
    [] type = "char" -> Char(buf, pos)
    [] type = "string" -> String(buf, pos)
    [] type = "enum" -> Case(3, buf, pos)
    [] type = "option" -> Option(buf, pos)
    [] type = "list" -> List(buf, pos)
    [] type = "flags" -> Flags(10, buf, pos)

Encode(type, v) ==
  CASE type \in Signed -> EncodeSleb[v]
    [] type \in Unsigned \cup {"char", "enum"} -> EncodeUleb[v]
    [] type = "bool" -> EncodeBool(v)
    [] type = "string" -> EncodeString(v)
    [] type = "option" -> EncodeOption(v)
    [] type = "list" -> EncodeList(v)
    [] type = "flags" -> EncodeFlags(10, v)

\* Mutant: bytes may follow.
Unfinished(buf, r) == r

\* Parameters must end where the buffer does.
Finished(buf, r) == IF r.ok /\ Remaining(buf, r.pos) = 0 THEN r ELSE Fail

decodeGreetRequest(buf) ==
  Then(String(buf, 0), LAMBDA name :
  Then(PrefixBit(buf, name.pos), LAMBDA tag :
  Then(IF tag.val THEN PrefixBit(buf, tag.pos) ELSE [tag EXCEPT !.val = None], LAMBDA excited :
       [excited EXCEPT !.val = [name |-> name.val, excited |-> @]])))

encodeGreetRequest(req) ==
  EncodeString(req.name) \o
    (IF req.excited = None THEN <<0>> ELSE <<1>> \o EncodeBool(req.excited))

decodeAdd(buf) ==
  Then(Uleb(Int32, buf, 0), LAMBDA a :
  Then(Uleb(Int32, buf, a.pos), LAMBDA b : [b EXCEPT !.val = <<a.val, @>>]))

greet(req) == <<72>> \o req.name \o (IF req.excited = TRUE THEN <<33, 33>> ELSE <<33>>)
add(a, b) == (a + b) % Pow2[Int32]

\* The parameters of a handler, checked to the last byte.
Params(fn, buf) ==
  Finished(buf, CASE fn = "add" -> decodeAdd(buf)
                  [] fn = "greet" -> decodeGreetRequest(buf)
                  [] fn = "relay" -> String(buf, 0)
                  [] fn = "report" -> Ok(<<>>, 0)
                  [] fn \in Echo -> Decode(fn, buf, 0))

\* The encoded result of a handler that needs nobody else.
Result(fn, v) ==
  CASE fn = "add" -> EncodeUleb[add(v[1], v[2])]
    [] fn = "greet" -> EncodeString(greet(v))
    [] fn \in Echo -> Encode(fn, v)
=============================================================================
