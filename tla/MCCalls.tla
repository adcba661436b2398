------------------------------- MODULE MCCalls -------------------------------
(* Instances of Calls for TLC. *)
EXTENDS Calls, TLC

CONSTANTS a, b, c1, c2, c3

\* Both clients use the sessions, or each a reactor of its own.
MCTargets == {(c1 :> Pool @@ c2 :> Pool), (c1 :> a @@ c2 :> b)}

AllPool == {[c \in Clients |-> Pool]}
OneReactor == {(c1 :> a)}

\* Every reactor may call every other.
MCUses == [n \in Reactors |-> Reactors \ {n}]
MCMeshIds == <<"m1", "m2">>
NoMeshIds == <<>>
=============================================================================
