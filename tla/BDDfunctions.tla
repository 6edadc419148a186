----------------------------- MODULE BDDfunctions -----------------------------
(***************************************************************************)
(* The Boolean function that a BDD stands for, given by the valuations of  *)
(* the variables that satisfy it, and what quantification and substitution *)
(* mean for such functions.                                                *)
(***************************************************************************)
EXTENDS BDDalgorithms

Valuations == [Vars -> BOOLEAN]

Holds_rec[p \in BDD \X Valuations] ==
  IF isConstant(p[1]) THEN p[1] = True
  ELSE Holds_rec[IF p[2][var(p[1])] THEN right(p[1]) ELSE left(p[1]), p[2]]

\* The path of v through a ends in True.
Holds(a, v) == Holds_rec[<<a, v>>]

Sat(a) == {v \in Valuations : Holds(a, v)}

Support_rec[a \in BDD] ==
  IF isConstant(a) THEN {}
  ELSE {var(a)} \cup Support_rec[left(a)] \cup Support_rec[right(a)]

\* The variables that a mentions.
Support(a) == Support_rec[a]

\* v and w differ in variables of xs at most.
SameBut(v, w, xs) == \A i \in Vars \ xs : v[i] = w[i]

ExistsSat(sat, xs) == {v \in Valuations : \E w \in sat : SameBut(v, w, xs)}
ForallSat(sat, xs) == Valuations \ ExistsSat(Valuations \ sat, xs)

\* The valuation that a, with s applied, reads where v is given.
Under(v, s) == [i \in Vars |-> Holds(dest(s, i), v)]

ComposeSat(a, s) == {v \in Valuations : Holds(a, Under(v, s))}

\* s is by variables on those of a, and keeps them apart.
Injective(a, s) ==
  /\ \A i \in Support(a) : isVariable(dest(s, i))
  /\ \A i, j \in Support(a) : dest(s, i) = dest(s, j) => i = j

===============================================================================
