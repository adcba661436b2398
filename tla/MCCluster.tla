------------------------------- MODULE MCCluster -------------------------------
(* Instances of Cluster for TLC: one or two workers of one disk each, reactors. *)
EXTENDS Cluster, TLC

Symmetry == Permutations(Names)

Reactors   == [sp \in Specs |-> "reactor"]
NoneYet    == [n \in Names |-> None]
AllWanted  == [n \in Names |-> CHOOSE sp \in Specs : TRUE]
=============================================================================
