----------------------------- MODULE MCPredicates -----------------------------
(* The node store, as in MCSimple, and the operations on predicates of two    *)
(* variables whose type has three values and four codes.  The two share no    *)
(* state: each moves while the other rests.                                   *)
EXTENDS MCSimple, Predicates

CONSTANTS var1, var2, slot1, slot2

MCVars == {var1, var2}
MCSlots == {slot1, slot2}
MCSizes == [i \in MCVars |-> 3]

\* A number n of a type is represented as the standard encoding of n - min
\* (doc/types.html): so it is for all types that the table of logarithms reaches.
ASSUME StandardEncoding == \A size \in 1 .. 256 : Standard(size)

\* ld_ceiling32 gives the next types, up to 511, a bit too few.
ASSUME BitsMissing == \A size \in 257 .. 263 : codes(size) = 256 /\ ~ Standard(size)

SessionSymmetry ==
  Symmetry \cup {f @@ g : f \in Permutations(MCVars), g \in Permutations(MCSlots)}

SessionInit == Init /\ PredicatesInit

\* The predicates that are held while the store moves.
Resting == \E i \in MCVars : held = [s \in MCSlots |-> FromBool(FALSE, {i})]

SessionNext ==
  \/ Resting /\ Next /\ UNCHANGED held
  \/ Init /\ PredicatesNext /\ UNCHANGED vars

SessionSpec == SessionInit /\ [][SessionNext]_<<vars, held>>
===============================================================================
