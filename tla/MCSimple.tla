------------------------------- MODULE MCSimple -------------------------------
(* Three addresses: enough for a node, its child and a dead node, for an    *)
(* address to be reused, and for a collection and a growth to be due.       *)
EXTENDS BDDsimple, TLC

CONSTANTS a1, a2, a3

MCAddr == {a1, a2, a3}
Symmetry == Permutations(MCAddr)
===============================================================================
