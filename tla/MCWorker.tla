------------------------------- MODULE MCWorker -------------------------------
(* Instance of Worker for TLC: one computer with one disk, and one workload *)
(* of each kind.                                                            *)
EXTENDS Worker, TLC

CONSTANTS Reactor, Session, CommandLine

Kinds == Reactor :> "reactor" @@ Session :> "session" @@ CommandLine :> "command"
Symmetry == Permutations(Names)
=============================================================================
