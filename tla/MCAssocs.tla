------------------------------ MODULE MCAssocs --------------------------------
(* A table of two slots that may double to four, and clients enough to fill *)
(* it.                                                                      *)
EXTENDS BDDsimpleAssocs, TLC

CONSTANTS c1, c2, c3, c4, s1, s2, s3

MCClients == {c1, c2, c3, c4}
MCSubs == {s1, s2, s3}
Symmetry == Permutations(MCClients) \cup Permutations(MCSubs)
===============================================================================
