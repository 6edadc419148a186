---------------------------- MODULE BDDalgorithms ----------------------------
(***************************************************************************)
(* The operations of the BDD library as functions from BDDs to BDDs.  A    *)
(* BDD is the tree that its node unfolds to: BDDsimple.tla shows that      *)
(* nodes and functions correspond one to one, so that == on pointers is    *)
(* equality of trees.  The computed cache and the reference counts are in  *)
(* that module too and are left out here.  So is the exchange of operands  *)
(* by address, which only makes cache hits of symmetric calls likelier.    *)
(*                                                                         *)
(* The build is the default one: USE_CITEEXISTS is defined and             *)
(* USE_RESTRICT_AS_BASIS, USE_NAIVE_EXISTS_IMPLEMENTATION and the          *)
(* other alternatives in BDDsimple.cc are not.                             *)
(*                                                                         *)
(* Each recursive routine f of the program is three definitions: f_body is *)
(* what one call does, with rec for the calls it makes to itself; f_rec is *)
(* the function that this recursion defines; f is a call from outside.     *)
(***************************************************************************)
EXTENDS Integers, FiniteSetsExt

CONSTANT NumVars      \* the variables are numbered from 0

ASSUME NumVarsAssumption == NumVars \in Nat \ {0}

Vars == 0 .. NumVars - 1

(***************************************************************************)
(* Nodes.  A constant has a negative variable.                             *)
(***************************************************************************)
False == <<-2>>
True  == <<-1>>

var(a)   == a[1]
left(a)  == a[2]
right(a) == a[3]

isConstant(a) == var(a) < 0

isVariable(a) ==
  /\ ~ isConstant(a)
  /\ isConstant(left(a))
  /\ isConstant(right(a))

\* The BDDs over the last k variables: ordered and without redundant tests.
BDDs[k \in 0 .. NumVars] ==
  IF k = 0 THEN {False, True}
  ELSE BDDs[k - 1] \cup
         {<<NumVars - k, q[1], q[2]>> :
            q \in {r \in BDDs[k - 1] \X BDDs[k - 1] : r[1] # r[2]}}

BDD == BDDs[NumVars]

\* a mentions only variables greater than m
Above(a, m) == isConstant(a) \/ m < var(a)

find(m, l, r) == IF l = r THEN l ELSE <<m, l, r>>
find_var(m)   == find(m, False, True)

cf_left(a, m)  == IF m = var(a) THEN left(a) ELSE a
cf_right(a, m) == IF m = var(a) THEN right(a) ELSE a

\* The least top variable of those that are not constant.
minVar(a, b) ==
  IF isConstant(a) THEN var(b)
  ELSE IF isConstant(b) THEN var(a)
  ELSE IF var(a) < var(b) THEN var(a) ELSE var(b)

minVar3(a, b, c) ==
  IF isConstant(a) THEN minVar(b, c)
  ELSE IF isConstant(b) THEN minVar(a, c)
  ELSE IF isConstant(c) THEN minVar(a, b)
  ELSE Min({var(a), var(b), var(c)})

(***************************************************************************)
(* The recursion that most operations share: cofactors of the operands     *)
(* with respect to their first variable, the operation on each pair, and   *)
(* a node of the two results.                                              *)
(***************************************************************************)
Shannon(rec, a, b) ==
  LET m == minVar(a, b)
  IN  find(m, rec[<<cf_left(a, m), cf_left(b, m)>>], rec[<<cf_right(a, m), cf_right(b, m)>>])

\* (mutant) one of the two comparisons is forgotten
Crossed_OneSided(a, b) ==
  LET m == minVar(a, b) IN cf_left(a, m) = cf_right(b, m)

\* Each operand's one cofactor is the other's other one.
Crossed(a, b) ==
  LET m == minVar(a, b)
  IN  cf_left(a, m) = cf_right(b, m) /\ cf_right(a, m) = cf_left(b, m)

OneSide(a, b) == cf_left(a, minVar(a, b))
OtherSide(a, b) == cf_right(a, minVar(a, b))

andop_body(rec, a, b) ==
  IF a = True THEN b
  ELSE IF b = True THEN a
  ELSE IF a = False \/ b = False THEN False
  ELSE IF a = b THEN a
  ELSE IF Crossed(a, b) THEN rec[<<OneSide(a, b), OtherSide(a, b)>>]
  ELSE Shannon(rec, a, b)

andop_rec[p \in BDD \X BDD] == andop_body(andop_rec, p[1], p[2])
andop(a, b) == andop_rec[<<a, b>>]

orop_body(rec, a, b) ==
  IF a = False THEN b
  ELSE IF b = False THEN a
  ELSE IF a = True \/ b = True THEN True
  ELSE IF a = b THEN a
  ELSE IF Crossed(a, b) THEN rec[<<OneSide(a, b), OtherSide(a, b)>>]
  ELSE Shannon(rec, a, b)

orop_rec[p \in BDD \X BDD] == orop_body(orop_rec, p[1], p[2])
orop(a, b) == orop_rec[<<a, b>>]

notop_body(rec, a) ==
  IF a = False THEN True
  ELSE IF a = True THEN False
  ELSE find(var(a), rec[left(a)], rec[right(a)])

notop_rec[a \in BDD] == notop_body(notop_rec, a)
notop(a) == notop_rec[a]

equiv_body(rec, a, b) ==
  IF a = True THEN b
  ELSE IF b = True THEN a
  ELSE IF b = False THEN notop(a)
  ELSE IF a = False THEN notop(b)
  ELSE IF a = b THEN True
  ELSE Shannon(rec, a, b)

equiv_rec[p \in BDD \X BDD] == equiv_body(equiv_rec, p[1], p[2])
equiv(a, b) == equiv_rec[<<a, b>>]

notequiv_body(rec, a, b) ==
  IF a = False THEN b
  ELSE IF b = False THEN a
  ELSE IF b = True THEN notop(a)
  ELSE IF a = True THEN notop(b)
  ELSE IF a = b THEN False
  ELSE Shannon(rec, a, b)

notequiv_rec[p \in BDD \X BDD] == notequiv_body(notequiv_rec, p[1], p[2])
notequiv(a, b) == notequiv_rec[<<a, b>>]

implies_body(rec, a, b) ==
  IF a = True THEN b
  ELSE IF b = True \/ a = False THEN True
  ELSE IF b = False THEN notop(a)
  ELSE IF a = b THEN True
  ELSE Shannon(rec, a, b)

implies_rec[p \in BDD \X BDD] == implies_body(implies_rec, p[1], p[2])
implies(a, b) == implies_rec[<<a, b>>]

notimplies_body(rec, a, b) ==
  IF a = True THEN notop(b)
  ELSE IF a = False \/ b = True THEN False
  ELSE IF b = False THEN a
  ELSE IF a = b THEN False
  ELSE Shannon(rec, a, b)

notimplies_rec[p \in BDD \X BDD] == notimplies_body(notimplies_rec, p[1], p[2])
notimplies(a, b) == notimplies_rec[<<a, b>>]

(***************************************************************************)
(* ite(a, b, c) = if a then b else c                                       *)
(***************************************************************************)

ite_body(rec, a, b, c) ==
  IF a = False THEN c
  ELSE IF a = True THEN b
  ELSE IF b = False THEN notimplies(c, a)
  ELSE IF b = True THEN orop(a, c)
  ELSE IF c = False THEN andop(a, b)
  ELSE IF c = True THEN implies(a, b)
  ELSE IF a = b THEN orop(a, c)
  ELSE IF a = c THEN andop(a, b)
  ELSE IF b = c THEN c
  ELSE LET m == minVar3(a, b, c)
       IN  find(m, rec[<<cf_left(a, m), cf_left(b, m), cf_left(c, m)>>],
                   rec[<<cf_right(a, m), cf_right(b, m), cf_right(c, m)>>])

ite_rec[p \in BDD \X BDD \X BDD] == ite_body(ite_rec, p[1], p[2], p[3])
ite(a, b, c) == ite_rec[<<a, b, c>>]

(***************************************************************************)
(* Don't cares: the result need agree with a only where b holds.           *)
(***************************************************************************)

\* (mutant) only one cofactor of the assumption is kept
simplify_assuming_body_LeftOnly(rec, a, b) ==
  IF b = False THEN False
  ELSE IF b = True \/ isConstant(a) THEN a
  ELSE IF var(a) > var(b) THEN rec[<<a, left(b)>>]
  ELSE Shannon(rec, a, b)

simplify_assuming_body(rec, a, b) ==
  IF b = False THEN False
  ELSE IF b = True \/ isConstant(a) THEN a
  ELSE IF var(a) > var(b) THEN rec[<<a, orop(left(b), right(b))>>]
  ELSE LET m == var(a)
       IN  IF cf_left(b, m) = False
           THEN rec[<<right(a), cf_right(b, m)>>]
           ELSE IF cf_right(b, m) = False
           THEN rec[<<left(a), cf_left(b, m)>>]
           ELSE Shannon(rec, a, b)

simplify_assuming_rec[p \in BDD \X BDD] ==
  simplify_assuming_body(simplify_assuming_rec, p[1], p[2])
simplify_assuming(a, b) == simplify_assuming_rec[<<a, b>>]

cofactor_body(rec, a, b) ==
  IF b = False THEN False
  ELSE IF b = True \/ isConstant(a) THEN a
  ELSE LET m == minVar(a, b)
       IN  IF cf_left(b, m) = False
           THEN rec[<<cf_right(a, m), cf_right(b, m)>>]
           ELSE IF cf_right(b, m) = False
           THEN rec[<<cf_left(a, m), cf_left(b, m)>>]
           ELSE Shannon(rec, a, b)

cofactor_rec[p \in BDD \X BDD] == cofactor_body(cofactor_rec, p[1], p[2])
cofactor(a, b) == cofactor_rec[<<a, b>>]

\* (mutant) the node is made without asking whether its children are one now
restrict0_body_Unreduced(rec, a, x) ==
  IF Above(a, x) THEN a
  ELSE IF var(a) = x THEN left(a)
  ELSE <<var(a), rec[<<left(a), x>>], rec[<<right(a), x>>]>>

restrict0_body(rec, a, x) ==
  IF Above(a, x) THEN a
  ELSE IF var(a) = x THEN left(a)
  ELSE find(var(a), rec[<<left(a), x>>], rec[<<right(a), x>>])

restrict0_rec[p \in BDD \X Vars] == restrict0_body(restrict0_rec, p[1], p[2])
restrict0(a, x) == restrict0_rec[<<a, x>>]

restrict1_body(rec, a, x) ==
  IF Above(a, x) THEN a
  ELSE IF var(a) = x THEN right(a)
  ELSE find(var(a), rec[<<left(a), x>>], rec[<<right(a), x>>])

restrict1_rec[p \in BDD \X Vars] == restrict1_body(restrict1_rec, p[1], p[2])
restrict1(a, x) == restrict1_rec[<<a, x>>]

\* exists(a, x) and forall(a, x) for one variable
existsVar_body(rec, a, x) ==
  IF Above(a, x) THEN a
  ELSE IF var(a) = x THEN orop(left(a), right(a))
  ELSE find(var(a), rec[<<left(a), x>>], rec[<<right(a), x>>])

existsVar_rec[p \in BDD \X Vars] == existsVar_body(existsVar_rec, p[1], p[2])
existsVar(a, x) == existsVar_rec[<<a, x>>]

forallVar_body(rec, a, x) ==
  IF Above(a, x) THEN a
  ELSE IF var(a) = x THEN andop(left(a), right(a))
  ELSE find(var(a), rec[<<left(a), x>>], rec[<<right(a), x>>])

forallVar_rec[p \in BDD \X Vars] == forallVar_body(forallVar_rec, p[1], p[2])
forallVar(a, x) == forallVar_rec[<<a, x>>]

(***************************************************************************)
(* A set of variables is given to the operations as the BDD of their       *)
(* conjunction, which the wrapper builds from the least variable on.       *)
(***************************************************************************)
Cube_body(rec, xs) ==
  IF xs = {} THEN True ELSE andop(find_var(Max(xs)), rec[xs \ {Max(xs)}])

Cube_rec[xs \in SUBSET Vars] == Cube_body(Cube_rec, xs)
Cube(xs) == Cube_rec[xs]

Cubes == {Cube(xs) : xs \in SUBSET Vars}

(***************************************************************************)
(* Quantification.  The head of the set of variables is skipped while it   *)
(* lies above all operands.                                                *)
(***************************************************************************)

\* (mutant) the variable at the top of the operands is skipped as well
Skip_body_TooFar(rec, x, m) == IF x = True \/ var(x) > m THEN x ELSE rec[<<right(x), m>>]

Skip_body(rec, x, m) == IF x = True \/ var(x) >= m THEN x ELSE rec[<<right(x), m>>]

Skip_rec[p \in Cubes \X Nat] == Skip_body(Skip_rec, p[1], p[2])
Skip(x, m) == Skip_rec[<<x, m>>]

setcontainsvar(x, i) ==
  LET p == Skip(x, i) IN p # True /\ var(p) = i

\* op of the cofactors of a and b, joined where the variable is quantified.
QuantifiedShannon(rec, join(_, _), a, b, x) ==
  LET m == minVar(a, b)
      l == rec[<<cf_left(a, m), cf_left(b, m), x>>]
      r == rec[<<cf_right(a, m), cf_right(b, m), x>>]
  IN  IF var(x) = m THEN join(l, r) ELSE find(m, l, r)

exists_body(rec, a, xs) ==
  LET x == Skip(xs, var(a))
  IN  IF isConstant(a) \/ x = True THEN a
      ELSE IF var(x) = var(a)
      THEN orop(rec[<<left(a), right(x)>>], rec[<<right(a), right(x)>>])
      ELSE find(var(a), rec[<<left(a), x>>], rec[<<right(a), x>>])

exists_rec[p \in BDD \X Cubes] == exists_body(exists_rec, p[1], p[2])
exists(a, xs) == exists_rec[<<a, xs>>]

forall_body(rec, a, xs) ==
  LET x == Skip(xs, var(a))
  IN  IF isConstant(a) \/ x = True THEN a
      ELSE IF var(x) = var(a)
      THEN andop(rec[<<left(a), right(x)>>], rec[<<right(a), right(x)>>])
      ELSE find(var(a), rec[<<left(a), x>>], rec[<<right(a), x>>])

forall_rec[p \in BDD \X Cubes] == forall_body(forall_rec, p[1], p[2])
forall(a, xs) == forall_rec[<<a, xs>>]

relProd_body(rec, a, b, xs) ==
  LET x == Skip(xs, minVar(a, b))
  IN  IF a = False \/ b = False THEN False
      ELSE IF a = True THEN exists(b, xs)
      ELSE IF b = True \/ a = b THEN exists(a, xs)
      ELSE IF x = True THEN andop(a, b)
      ELSE IF Crossed(a, b) THEN rec[<<OneSide(a, b), OtherSide(a, b), x>>]
      ELSE QuantifiedShannon(rec, orop, a, b, x)

relProd_rec[p \in BDD \X BDD \X Cubes] == relProd_body(relProd_rec, p[1], p[2], p[3])
relProd(a, b, xs) == relProd_rec[<<a, b, xs>>]

orExists_body(rec, a, b, xs) ==
  LET x == Skip(xs, minVar(a, b))
  IN  IF a = False THEN exists(b, xs)
      ELSE IF b = False THEN exists(a, xs)
      ELSE IF a = True \/ b = True THEN True
      ELSE IF a = b THEN exists(a, xs)
      ELSE IF x = True THEN orop(a, b)
      ELSE IF Crossed(a, b) THEN rec[<<OneSide(a, b), OtherSide(a, b), x>>]
      ELSE QuantifiedShannon(rec, orop, a, b, x)

orExists_rec[p \in BDD \X BDD \X Cubes] == orExists_body(orExists_rec, p[1], p[2], p[3])
orExists(a, b, xs) == orExists_rec[<<a, b, xs>>]

notExists_body(rec, a, xs) ==
  LET x == Skip(xs, var(a))
      l == rec[<<left(a), x>>]
      r == rec[<<right(a), x>>]
  IN  IF a = False THEN True
      ELSE IF a = True THEN False
      ELSE IF x = True THEN notop(a)
      ELSE IF var(x) = var(a) THEN orop(l, r) ELSE find(var(a), l, r)

notExists_rec[p \in BDD \X Cubes] == notExists_body(notExists_rec, p[1], p[2])
notExists(a, xs) == notExists_rec[<<a, xs>>]

impliesExists_body(rec, a, b, xs) ==
  LET x == Skip(xs, minVar(a, b))
  IN  IF a = True THEN exists(b, xs)
      ELSE IF b = True \/ a = False THEN True
      ELSE IF b = False THEN notExists(a, xs)
      ELSE IF a = b THEN True
      ELSE IF x = True THEN implies(a, b)
      ELSE QuantifiedShannon(rec, orop, a, b, x)

impliesExists_rec[p \in BDD \X BDD \X Cubes] ==
  impliesExists_body(impliesExists_rec, p[1], p[2], p[3])
impliesExists(a, b, xs) == impliesExists_rec[<<a, b, xs>>]

notimpliesExists_body(rec, a, b, xs) ==
  LET x == Skip(xs, minVar(a, b))
  IN  IF a = True THEN notExists(b, xs)
      ELSE IF a = False \/ b = True THEN False
      ELSE IF b = False THEN exists(a, xs)
      ELSE IF a = b THEN False
      ELSE IF x = True THEN notimplies(a, b)
      ELSE QuantifiedShannon(rec, orop, a, b, x)

notimpliesExists_rec[p \in BDD \X BDD \X Cubes] ==
  notimpliesExists_body(notimpliesExists_rec, p[1], p[2], p[3])
notimpliesExists(a, b, xs) == notimpliesExists_rec[<<a, b, xs>>]

forallImplies_body(rec, a, b, xs) ==
  LET x == Skip(xs, minVar(a, b))
  IN  IF a = False \/ b = True \/ a = b THEN True
      ELSE IF a = True THEN forall(b, xs)
      ELSE IF b = False THEN notop(exists(a, xs))
      ELSE IF x = True THEN implies(a, b)
      ELSE QuantifiedShannon(rec, andop, a, b, x)

forallImplies_rec[p \in BDD \X BDD \X Cubes] ==
  forallImplies_body(forallImplies_rec, p[1], p[2], p[3])
forallImplies(a, b, xs) == forallImplies_rec[<<a, b, xs>>]

forallOr_body(rec, a, b, xs) ==
  LET x == Skip(xs, minVar(a, b))
  IN  IF a = True \/ b = True THEN True
      ELSE IF a = False THEN forall(b, xs)
      ELSE IF b = False \/ a = b THEN forall(a, xs)
      ELSE IF x = True THEN orop(a, b)
      ELSE IF Crossed(a, b) THEN rec[<<OneSide(a, b), OtherSide(a, b), x>>]
      ELSE QuantifiedShannon(rec, andop, a, b, x)

forallOr_rec[p \in BDD \X BDD \X Cubes] == forallOr_body(forallOr_rec, p[1], p[2], p[3])
forallOr(a, b, xs) == forallOr_rec[<<a, b, xs>>]

(***************************************************************************)
(* exists x. ite(a, b, c).  The inlined entry treats a variable a at the   *)
(* top without recursion, whichever its polarity.                          *)
(***************************************************************************)

iteExists_recursive_body(rec, a, b, c, xs) ==
  LET m == minVar3(a, b, c)
      x == Skip(xs, m)
      l == rec[<<cf_left(a, m), cf_left(b, m), cf_left(c, m), x>>]
      r == rec[<<cf_right(a, m), cf_right(b, m), cf_right(c, m), x>>]
  IN  IF a = False THEN exists(c, xs)
      ELSE IF a = True THEN exists(b, xs)
      ELSE IF b = False THEN notimpliesExists(c, a, xs)
      ELSE IF b = True THEN orExists(a, c, xs)
      ELSE IF c = False THEN relProd(a, b, xs)
      ELSE IF c = True THEN impliesExists(a, b, xs)
      ELSE IF a = b THEN orExists(a, c, xs)
      ELSE IF a = c THEN relProd(a, b, xs)
      ELSE IF b = c THEN exists(c, xs)
      ELSE IF x = True THEN ite(a, b, c)
      ELSE IF var(x) = m THEN orop(l, r) ELSE find(m, l, r)

iteExists_recursive_rec[p \in BDD \X BDD \X BDD \X Cubes] ==
  iteExists_recursive_body(iteExists_recursive_rec, p[1], p[2], p[3], p[4])
iteExists_recursive(a, b, c, xs) == iteExists_recursive_rec[<<a, b, c, xs>>]

OnTopOf(a, b, c) == isVariable(a) /\ Above(b, var(a)) /\ Above(c, var(a))

iteExistsVar(a, b, c, xs) ==
  LET x  == Skip(xs, var(a))
      qb == exists(b, x)
      qc == exists(c, x)
  IN  IF x # True /\ var(x) = var(a)
      THEN IF right(x) = True THEN orop(b, c) ELSE orExists(b, c, right(x))
      ELSE IF right(a) = True THEN find(var(a), qc, qb) ELSE find(var(a), qb, qc)

iteExists(a, b, c, x) ==
  IF OnTopOf(a, b, c) THEN iteExistsVar(a, b, c, x)
  ELSE iteExists_recursive(a, b, c, x)

(***************************************************************************)
(* Substitutions (class BDDsimpleIntToBDDAssoc): a BDD for a variable, or  *)
(* Unmapped, which stands for the variable itself.  The program maps to    *)
(* variables and to constants only (brepr.cc, prepare), so that a target   *)
(* is a constant or satisfies isVariable.                                  *)
(***************************************************************************)
Unmapped == <<>>

Assocs == [Vars -> {Unmapped, False, True} \cup {find_var(i) : i \in Vars}]

IsUnmapped(s, i) == i \notin DOMAIN s \/ s[i] = Unmapped

isIdentity(s) == \A i \in DOMAIN s : IsUnmapped(s, i)
isVarSub(s)   == \A i \in DOMAIN s : IsUnmapped(s, i) \/ isVariable(s[i])

size(s) == Max({i \in DOMAIN s : ~ IsUnmapped(s, i)})

\* What operator [] returns, with the variable for an unmapped one.
dest(s, i) == IF IsUnmapped(s, i) THEN find_var(i) ELSE s[i]

\* (mutant) the images of the greater variables are not looked at
min_var_OwnImage(s, i) ==
  IF isIdentity(s) \/ i > size(s) \/ isConstant(dest(s, i)) THEN i ELSE var(dest(s, i))

\* The least variable that the images of i and of all greater ones mention.
min_var(s, i) ==
  IF isIdentity(s) \/ i > size(s) THEN i
  ELSE Min({size(s) + 1} \cup
           {var(dest(s, j)) : j \in {k \in i .. size(s) : ~ isConstant(dest(s, k))}})

\* x without the variables that neither the image of a nor bs mentions.
SkipImage(s, a, bs, x) ==
  Skip(x, Min({min_var(s, var(a))} \cup {var(b) : b \in {c \in bs : ~ isConstant(c)}}))

\* (mutant) the children of a variable that is mapped to a constant are swapped
_compose_body_Swapped(rec, a, s) ==
  IF isConstant(a) THEN a
  ELSE LET d == dest(s, var(a))
           l == rec[<<left(a), s>>]
           r == rec[<<right(a), s>>]
       IN  IF d = True THEN l ELSE IF d = False THEN r ELSE ite(d, r, l)

_compose_body(rec, a, s) ==
  IF isConstant(a) THEN a
  ELSE LET d == dest(s, var(a))
           l == rec[<<left(a), s>>]
           r == rec[<<right(a), s>>]
       IN  IF d = True THEN r
           ELSE IF d = False THEN l
           ELSE IF l = r THEN r
           ELSE IF isVariable(d) /\ Above(l, var(d)) /\ Above(r, var(d))
           THEN find(var(d), l, r)
           ELSE ite(d, r, l)

_compose_rec[p \in BDD \X Assocs] == _compose_body(_compose_rec, p[1], p[2])
_compose(a, s) == _compose_rec[<<a, s>>]

compose(a, s) == IF isIdentity(s) THEN a ELSE _compose(a, s)

composeITE(a, b, c, s) == ite(compose(a, s), b, c)

_composeExists_body(rec, a, xs, s) ==
  LET d == dest(s, var(a))
      x == SkipImage(s, a, {}, xs)
      l == rec[<<left(a), x, s>>]
      r == rec[<<right(a), x, s>>]
  IN  IF isConstant(a) THEN a
      ELSE IF d = True THEN rec[<<right(a), xs, s>>]
      ELSE IF d = False THEN rec[<<left(a), xs, s>>]
      ELSE IF x = True THEN compose(a, s)
      ELSE IF l = r THEN r
      ELSE IF setcontainsvar(x, var(d)) THEN orop(l, r)
      ELSE IF Above(l, var(d)) /\ Above(r, var(d)) THEN find(var(d), l, r)
      ELSE ite(d, r, l)

_composeExists_rec[p \in BDD \X Cubes \X Assocs] ==
  _composeExists_body(_composeExists_rec, p[1], p[2], p[3])
_composeExists(a, xs, s) == _composeExists_rec[<<a, xs, s>>]

_subtract_vars_body(rec, x, m) ==
  IF x = True \/ m < var(x) THEN x
  ELSE IF var(x) = m THEN right(x)
  ELSE find(var(x), False, rec[<<right(x), m>>])

_subtract_vars_rec[p \in Cubes \X Vars] ==
  _subtract_vars_body(_subtract_vars_rec, p[1], p[2])
_subtract_vars(x, m) == _subtract_vars_rec[<<x, m>>]

\* exists m, if x has it, of: if variable m then t else e.
fastIteExistsWithVar(m, t, e, x) ==
  LET top == Above(t, m) /\ Above(e, m)
      f   == find_var(m)
  IN  IF setcontainsvar(x, m)
      THEN IF top THEN orop(e, t) ELSE iteExists(f, t, e, f)
      ELSE IF top THEN find(m, e, t) ELSE ite(f, t, e)

\* The substitution is for the first argument.

_composeRelProd_body(rec, a, b, xs, s) ==
  LET x == SkipImage(s, a, {b}, xs)
      d == dest(s, var(a))
      m == minVar(d, b)
      z == _subtract_vars(x, m)
      a0 == IF var(d) = m THEN left(a) ELSE a
      a1 == IF var(d) = m THEN right(a) ELSE a
      e == rec[<<a0, cf_left(b, m), z, s>>]
      t == rec[<<a1, cf_right(b, m), z, s>>]
  IN  IF a = False THEN False
      ELSE IF a = True THEN exists(b, xs)
      ELSE IF b = False THEN False
      ELSE IF b = True THEN _composeExists(a, xs, s)
      ELSE IF x = True THEN composeITE(a, b, False, s)
      ELSE fastIteExistsWithVar(m, t, e, x)

_composeRelProd_rec[p \in BDD \X BDD \X Cubes \X Assocs] ==
  _composeRelProd_body(_composeRelProd_rec, p[1], p[2], p[3], p[4])
_composeRelProd(a, b, xs, s) == _composeRelProd_rec[<<a, b, xs, s>>]

\* exists x. ite(a under s, b, c)

cITEexists_body(rec, a, b, c, xs, s) ==
  LET d == dest(s, var(a))
      x == SkipImage(s, a, {b, c}, xs)
      m == minVar3(d, b, c)
      z == _subtract_vars(x, m)
      a0 == IF var(d) = m THEN left(a) ELSE a
      a1 == IF var(d) = m THEN right(a) ELSE a
      e == rec[<<a0, cf_left(b, m), cf_left(c, m), z, s>>]
      t == rec[<<a1, cf_right(b, m), cf_right(c, m), z, s>>]
  IN  IF a = False THEN exists(c, xs)
      ELSE IF a = True THEN exists(b, xs)
      ELSE IF c = False /\ b = False THEN False
      ELSE IF c = False /\ b = True THEN _composeExists(a, xs, s)
      ELSE IF c = True /\ b = True THEN True
      ELSE IF c = True /\ b = False THEN _composeExists(notop(a), xs, s)
      ELSE IF d = False THEN exists(c, xs)
      ELSE IF d = True THEN exists(b, xs)
      ELSE IF x = True THEN composeITE(a, b, c, s)
      ELSE fastIteExistsWithVar(m, t, e, x)

cITEexists_rec[p \in BDD \X BDD \X BDD \X Cubes \X Assocs] ==
  cITEexists_body(cITEexists_rec, p[1], p[2], p[3], p[4], p[5])
cITEexists(a, b, c, xs, s) == cITEexists_rec[<<a, b, c, xs, s>>]

\* The substitution is for the second argument.
composeRelProd(a, b, x, s) ==
  IF isIdentity(s) THEN relProd(a, b, x)
  ELSE IF isVarSub(s) THEN _composeRelProd(b, a, x, s)
  ELSE cITEexists(b, a, False, x, s)

composeForallImplies(a, b, x, s) ==
  IF isIdentity(s) THEN forallImplies(a, b, x)
  ELSE notop(cITEexists(b, False, a, x, s))

(***************************************************************************)
(* Cubes                                                                   *)
(***************************************************************************)

extract_body(rec, a) ==
  IF isConstant(a) THEN a
  ELSE LET l == left(a)
           r == right(a)
       IN  IF l = True THEN find(var(a), l, False)
           ELSE IF r = True THEN find(var(a), False, r)
           ELSE IF l = False THEN find(var(a), l, rec[r])
           ELSE IF r = False THEN find(var(a), rec[l], r)
           ELSE IF var(l) < var(r) THEN find(var(a), False, rec[r])
           ELSE find(var(a), rec[l], False)

extract_rec[a \in BDD] == extract_body(extract_rec, a)
extract(a) == extract_rec[a]

\* (mutant) the left child is taken even when it is False
onecube_body_Left(rec, a, domain) ==
  IF isConstant(domain) THEN True
  ELSE IF Above(a, var(domain))
  THEN find(var(domain), False, rec[<<a, right(domain)>>])
  ELSE find(var(domain), rec[<<left(a), right(domain)>>], False)

\* domain starts at or above a
onecube_body(rec, a, domain) ==
  IF isConstant(domain) THEN True
  ELSE IF Above(a, var(domain))
  THEN find(var(domain), False, rec[<<a, right(domain)>>])
  ELSE IF left(a) # False
  THEN find(var(domain), rec[<<left(a), right(domain)>>], False)
  ELSE find(var(domain), False, rec[<<right(a), right(domain)>>])

onecube_rec[p \in BDD \X Cubes] == onecube_body(onecube_rec, p[1], p[2])
onecube(a, domain) == onecube_rec[<<a, domain>>]

===============================================================================
