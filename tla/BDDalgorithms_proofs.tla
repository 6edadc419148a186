------------------------- MODULE BDDalgorithms_proofs -------------------------
(***************************************************************************)
(* Every operation of the BDD library returns the BDD of the function that *)
(* it is meant to compute, for every number of variables.                  *)
(*                                                                         *)
(* The plan.  A BDD is determined by its function, and every function has  *)
(* one (TreeOf).  An operation whose result is determined by its operands' *)
(* functions satisfies the equation of its recursion exactly when it       *)
(* returns TreeOf of the intended function; its body is shown to do so if  *)
(* its recursive calls do, and the rest is induction on the rank of the    *)
(* operands.                                                               *)
(***************************************************************************)
EXTENDS BDDfunctions, WellFoundedInduction, TLAPS

-------------------------------------------------------------------------------
\* Induction and recursion over a set whose members have ranks.

\* A non-empty set of naturals has a least element.
LEMMA Least == ASSUME NEW S \in SUBSET Nat, S # {} PROVE \E m \in S : \A k \in S : m <= k
<1>1. PICK m \in S : \A k \in S : ~(<<k, m>> \in OpToRel(<, Nat))
  BY NatLessThanWellFounded, WFMin
<1>2. \A k \in S : ~(k < m)
  BY <1>1 DEF OpToRel
<1>3. QED
  BY <1>2

\* What passes from the lower ranks to the next one holds of every member.
LEMMA Induction ==
  ASSUME NEW S, NEW P, NEW rank, \A x \in S : rank[x] \in Nat,
         \A x \in S : (\A y \in S : rank[y] < rank[x] => y \in P) => x \in P
  PROVE  \A x \in S : x \in P
<1> DEFINE Bad == {x \in S : x \notin P}
           Ranks == {rank[x] : x \in Bad}
<1> SUFFICES ASSUME Bad # {} PROVE FALSE
  OBVIOUS
<1>1. Ranks \in SUBSET Nat /\ Ranks # {}
  OBVIOUS
<1>2. PICK m \in Ranks : \A k \in Ranks : m <= k
  <2> HIDE DEF Ranks
  <2>1. QED
    BY <1>1, Least
<1>3. PICK x \in Bad : m = rank[x]
  OBVIOUS
<1>4. ASSUME NEW y \in S, rank[y] < rank[x], y \notin P PROVE FALSE
  <2>1. rank[y] \in Ranks
    BY <1>4
  <2>2. rank[y] \in Nat /\ rank[x] \in Nat
    OBVIOUS
  <2> HIDE DEF Ranks
  <2>3. QED
    BY <1>2, <1>3, <1>4, <2>1, <2>2
<1>5. QED
  BY <1>3, <1>4

\* Two functions that agree at a member when they agree below it are the same.
AgreeBelow(S, ranks, f, g, x) == \A y \in S : ranks[y] < ranks[x] => f[y] = g[y]

\* They agree everywhere.
LEMMA Agreement ==
  ASSUME NEW S, NEW f, NEW g, NEW rank, \A x \in S : rank[x] \in Nat,
         \A x \in S : AgreeBelow(S, rank, f, g, x) => f[x] = g[x]
  PROVE  \A x \in S : f[x] = g[x]
<1> DEFINE P == {x \in S : f[x] = g[x]}
<1>1. \A x \in S : (\A y \in S : rank[y] < rank[x] => y \in P) => x \in P
  BY DEF AgreeBelow
<1>2. \A x \in S : x \in P
  <2> HIDE DEF P
  <2>1. QED
    BY <1>1, Induction
<1>3. QED
  BY <1>2

\* A recursion by H over S with results in T.  A call depends on calls of lower
\* rank only; P is what it may count on of their results.
Recursive(S, T, ranks, H, P) ==
  /\ T # {}
  /\ \E N \in Nat : \A x \in S : ranks[x] \in Nat /\ ranks[x] <= N
  /\ \A g \in [S -> T], x \in S :
       (\A y \in S : ranks[y] < ranks[x] => <<y, g[y]>> \in P)
          => H[<<g, x>>] \in T /\ <<x, H[<<g, x>>]>> \in P
  /\ \A g, h \in [S -> T], x \in S :
       (\A y \in S : ranks[y] < ranks[x] => g[y] = h[y] /\ <<y, g[y]>> \in P)
          => H[<<g, x>>] = H[<<h, x>>]

Solvable(S, T, H, P) ==
  \E f \in [S -> T] : \A x \in S : f[x] = H[<<f, x>>] /\ <<x, f[x]>> \in P

\* Such a recursion has a solution.
LEMMA Recursion ==
  ASSUME NEW S, NEW T, NEW rank, NEW H, NEW P, Recursive(S, T, rank, H, P)
  PROVE  Solvable(S, T, H, P)
<1>a. PICK t0 \in T : TRUE
  BY DEF Recursive
<1>b. PICK N \in Nat : \A x \in S : rank[x] \in Nat /\ rank[x] <= N
  BY DEF Recursive
<1>c. \A g \in [S -> T], x \in S :
        (\A y \in S : rank[y] < rank[x] => <<y, g[y]>> \in P)
           => H[<<g, x>>] \in T /\ <<x, H[<<g, x>>]>> \in P
  BY DEF Recursive
<1>d. \A g, h \in [S -> T], x \in S :
        (\A y \in S : rank[y] < rank[x] => g[y] = h[y] /\ <<y, g[y]>> \in P)
           => H[<<g, x>>] = H[<<h, x>>]
  BY DEF Recursive
<1> USE <1>b
<1> DEFINE Solves(f, n) == \A x \in S : rank[x] < n => f[x] = H[<<f, x>>] /\ <<x, f[x]>> \in P
           Open == {n \in 0 .. N + 1 : ~ \E f \in [S -> T] : Solves(f, n)}
<1>1. Open = {}
  <2> SUFFICES ASSUME Open # {} PROVE FALSE
    OBVIOUS
  <2>1. PICK n \in Open : \A k \in Open : n <= k
    <3>1. Open \in SUBSET Nat
      OBVIOUS
    <3> HIDE DEF Open
    <3>2. QED
      BY <3>1, Least
  <2>2. n # 0
    <3>1. [x \in S |-> t0] \in [S -> T]
      OBVIOUS
    <3>2. Solves([x \in S |-> t0], 0)
      OBVIOUS
    <3>3. QED
      BY <3>1, <3>2
  <2>3. n - 1 \in 0 .. N + 1 /\ n - 1 \notin Open
    BY <2>1, <2>2
  <2>4. PICK f \in [S -> T] : Solves(f, n - 1)
    BY <2>3
  <2> DEFINE h == [x \in S |-> IF rank[x] = n - 1 THEN H[<<f, x>>] ELSE f[x]]
  <2>5. \A x \in S : rank[x] < n => H[<<f, x>>] \in T /\ <<x, H[<<f, x>>]>> \in P
    <3> TAKE x \in S
    <3> HAVE rank[x] < n
    <3>1. \A y \in S : rank[y] < rank[x] => rank[y] < n - 1
      BY <2>1
    <3>2. \A y \in S : rank[y] < rank[x] => <<y, f[y]>> \in P
      BY <2>4, <3>1
    <3>3. QED
      BY <1>c, <3>2, Zenon
  <2>6. h \in [S -> T]
    <3>1. \A x \in S : rank[x] = n - 1 => rank[x] < n
      BY <2>1
    <3>2. \A x \in S : h[x] \in T
      BY <2>5, <3>1
    <3>3. QED
      BY <3>2
  <2>7. \A x \in S : rank[x] < n - 1 => h[x] = f[x]
    OBVIOUS
  <2>8. Solves(h, n)
    <3> SUFFICES ASSUME NEW x \in S, rank[x] < n
                 PROVE  h[x] = H[<<h, x>>] /\ <<x, h[x]>> \in P
      OBVIOUS
    <3>1. h[x] = H[<<f, x>>]
      <4>1. CASE rank[x] = n - 1
        BY <4>1
      <4>2. CASE rank[x] # n - 1
        <5>1. rank[x] < n - 1
          <6>1. n \in Int /\ rank[x] \in Int
            BY <2>1
          <6>2. QED
            BY <4>2, <6>1
        <5>2. QED
          BY <2>4, <2>7, <5>1
      <4>3. QED
        BY <4>1, <4>2
    <3>2. \A y \in S : rank[y] < rank[x] => f[y] = h[y] /\ <<y, f[y]>> \in P
      BY <2>1, <2>4, <2>7
    <3>3. H[<<f, x>>] = H[<<h, x>>]
      <4> HIDE DEF h
      <4>1. QED
        BY <1>d, <2>6, <3>2, Zenon
    <3>4. QED
      BY <2>5, <3>1, <3>3
  <2>9. QED
    <3> HIDE DEF h
    <3>1. QED
      BY <2>6, <2>8
<1>2. PICK f \in [S -> T] : Solves(f, N + 1)
  BY <1>1
<1>3. \A x \in S : rank[x] < N + 1
  OBVIOUS
<1>4. QED
  BY <1>2, <1>3 DEF Solvable

-------------------------------------------------------------------------------
\* What a BDD is.

LevelBody(D, k) ==
  IF k = 0 THEN {False, True}
  ELSE D[k - 1] \cup
         {<<NumVars - k, q[1], q[2]>> : q \in {r \in D[k - 1] \X D[k - 1] : r[1] # r[2]}}

\* The recursion that defines the levels has a solution.
LEMMA LevelsExist == \E D : D = [k \in 0 .. NumVars |-> LevelBody(D, k)]
<1> DEFINE Levels(D, n) == D = [k \in 0 .. n |-> LevelBody(D, k)]
           Open == {n \in 0 .. NumVars : ~ \E D : Levels(D, n)}
<1> USE NumVarsAssumption
<1> SUFFICES ASSUME Open # {} PROVE FALSE
  OBVIOUS
<1>1. PICK n \in Open : \A k \in Open : n <= k
  <2>1. Open \in SUBSET Nat
    OBVIOUS
  <2> HIDE DEF Open
  <2>2. QED
    BY <2>1, Least
<1>2. n # 0
  <2> DEFINE D == [k \in 0 .. 0 |-> {False, True}]
  <2>1. Levels(D, 0)
    BY DEF LevelBody
  <2>2. QED
    <3> HIDE DEF D
    <3>1. QED
      BY <2>1
<1>3. n \in Nat /\ n - 1 \in 0 .. NumVars /\ n - 1 \notin Open
  BY <1>1, <1>2
<1>4. PICK E : Levels(E, n - 1)
  BY <1>3
<1> DEFINE D == [k \in 0 .. n |-> IF k = n THEN LevelBody(E, n) ELSE E[k]]
<1>5. \A k \in 0 .. n : k # n => k \in 0 .. n - 1
  BY <1>3
<1>6. \A k \in 0 .. n : k # 0 => k - 1 \in 0 .. n /\ k - 1 # n
  BY <1>3
<1>7. \A k \in 0 .. n : LevelBody(D, k) = LevelBody(E, k)
  <2> TAKE k \in 0 .. n
  <2>1. k # 0 => D[k - 1] = E[k - 1]
    BY <1>6
  <2>2. QED
    <3> HIDE DEF D
    <3>1. QED
      BY <2>1 DEF LevelBody
<1>8. \A k \in 0 .. n : k # n => E[k] = LevelBody(E, k)
  <2> TAKE k \in 0 .. n
  <2> HAVE k # n
  <2>1. k \in 0 .. n - 1
    BY <1>5
  <2>2. E = [j \in 0 .. n - 1 |-> LevelBody(E, j)]
    BY <1>4
  <2>3. QED
    BY <2>1, <2>2
<1>9. Levels(D, n)
  <2>1. \A k \in 0 .. n : D[k] = LevelBody(D, k)
    BY <1>7, <1>8
  <2>2. D = [k \in 0 .. n |-> D[k]]
    OBVIOUS
  <2>3. QED
    <3> HIDE DEF D
    <3>1. [k \in 0 .. n |-> D[k]] = [k \in 0 .. n |-> LevelBody(D, k)]
      BY <2>1
    <3>2. QED
      BY <2>2, <3>1
<1>10. QED
  <2> HIDE DEF D
  <2>1. QED
    BY <1>1, <1>9

\* The levels of BDDs satisfy the equation that defines them.
LEMMA LevelsEquation == BDDs = [k \in 0 .. NumVars |-> LevelBody(BDDs, k)]
<1> DEFINE P(D) == D = [k \in 0 .. NumVars |-> LevelBody(D, k)]
<1>1. \E D : P(D)
  BY LevelsExist
<1>2. BDDs = CHOOSE D : P(D)
  BY Zenon DEF BDDs, LevelBody
<1>3. QED
  BY <1>1, <1>2

\* A member of level k is a constant or a node of two members of a lower level.
NodeOfLevel(a, j) ==
  \E l, r \in BDDs[j - 1] : l # r /\ a = <<NumVars - j, l, r>>

\* The BDDs of a level are the constants and the nodes of the levels up to it.
LEMMA LevelMembers ==
  ASSUME NEW k \in 0 .. NumVars
  PROVE  \A a : a \in BDDs[k] <=> a \in {False, True} \/ \E j \in 1 .. k : NodeOfLevel(a, j)
<1> DEFINE P(n) == \A a : a \in BDDs[n] <=>
                      a \in {False, True} \/ \E j \in 1 .. n : NodeOfLevel(a, j)
           Open == {n \in 0 .. NumVars : ~P(n)}
<1> USE NumVarsAssumption
<1> SUFFICES ASSUME Open # {} PROVE FALSE
  OBVIOUS
<1>1. PICK n \in Open : \A i \in Open : n <= i
  <2>1. Open \in SUBSET Nat
    OBVIOUS
  <2> HIDE DEF Open
  <2>2. QED
    BY <2>1, Least
<1>2. BDDs[n] = LevelBody(BDDs, n)
  BY <1>1, LevelsEquation
<1>3. n # 0
  <2> SUFFICES ASSUME n = 0 PROVE FALSE
    OBVIOUS
  <2>1. BDDs[0] = {False, True}
    BY <1>2 DEF LevelBody
  <2>2. 1 .. 0 = {}
    OBVIOUS
  <2>3. P(0)
    BY <2>1, <2>2
  <2>4. QED
    BY <1>1, <2>3
<1>4. n - 1 \in 0 .. NumVars /\ n - 1 \notin Open
  BY <1>1, <1>3
<1>5. P(n - 1)
  BY <1>4
<1>6. BDDs[n] = BDDs[n - 1] \cup
         {<<NumVars - n, q[1], q[2]>> : q \in {r \in BDDs[n - 1] \X BDDs[n - 1] : r[1] # r[2]}}
  BY <1>2, <1>3 DEF LevelBody
<1>7. \A a : a \in BDDs[n] <=> a \in BDDs[n - 1] \/ NodeOfLevel(a, n)
  <2> TAKE a
  <2>1. NodeOfLevel(a, n) <=>
          a \in {<<NumVars - n, q[1], q[2]>> :
                   q \in {r \in BDDs[n - 1] \X BDDs[n - 1] : r[1] # r[2]}}
    <3>1. ASSUME NodeOfLevel(a, n)
          PROVE  \E q \in {r \in BDDs[n - 1] \X BDDs[n - 1] : r[1] # r[2]} :
                    a = <<NumVars - n, q[1], q[2]>>
      <4>1. PICK l \in BDDs[n - 1], r \in BDDs[n - 1] : l # r /\ a = <<NumVars - n, l, r>>
        BY <3>1 DEF NodeOfLevel
      <4>2. <<l, r>> \in {q \in BDDs[n - 1] \X BDDs[n - 1] : q[1] # q[2]}
        BY <4>1
      <4>3. QED
        BY <4>1, <4>2
    <3>2. QED
      BY <3>1 DEF NodeOfLevel
  <2>2. QED
    BY <1>6, <2>1
<1>8. \A j : j \in 1 .. n <=> j \in 1 .. n - 1 \/ j = n
  BY <1>1, <1>3
<1>9. P(n)
  BY <1>5, <1>7, <1>8
<1>10. QED
  BY <1>1, <1>9

\* A lower level is part of a higher one.
LEMMA LevelsGrow ==
  ASSUME NEW k \in 0 .. NumVars, NEW n \in 0 .. k
  PROVE  BDDs[n] \subseteq BDDs[k]
<1>1. n \in 0 .. NumVars /\ \A j \in 1 .. n : j \in 1 .. k
  BY NumVarsAssumption
<1>2. \A a \in BDDs[n] : a \in BDDs[k]
  BY <1>1, LevelMembers
<1>3. QED
  BY <1>2

\* a is a node with two different BDDs below it.
IsNode(a) ==
  /\ a = <<var(a), left(a), right(a)>>
  /\ var(a) \in Vars
  /\ left(a) \in BDD /\ right(a) \in BDD
  /\ left(a) # right(a)
  /\ Above(left(a), var(a)) /\ Above(right(a), var(a))

\* The constants are two BDDs.
LEMMA ConstantFacts ==
  /\ False \in BDD /\ True \in BDD /\ False # True
  /\ isConstant(False) /\ isConstant(True)
<1>1. NumVars \in 0 .. NumVars
  BY NumVarsAssumption
<1>2. QED
  BY <1>1, LevelMembers DEF BDD, isConstant, var, False, True

\* A node of a level is a node, and the level gives its variable.
LEMMA NodeOfLevelIsNode ==
  ASSUME NEW j \in 1 .. NumVars, NEW a, NodeOfLevel(a, j)
  PROVE  IsNode(a) /\ var(a) = NumVars - j
<1> USE NumVarsAssumption
<1>1. PICK l \in BDDs[j - 1], r \in BDDs[j - 1] : l # r /\ a = <<NumVars - j, l, r>>
  BY DEF NodeOfLevel
<1>2. var(a) = NumVars - j /\ left(a) = l /\ right(a) = r
  BY <1>1 DEF var, left, right
<1>3. var(a) \in Vars
  BY <1>2 DEF Vars
<1>4. l \in BDD /\ r \in BDD
  <2>1. j - 1 \in 0 .. NumVars /\ NumVars \in 0 .. NumVars
    OBVIOUS
  <2>2. QED
    BY <2>1, LevelsGrow DEF BDD
<1>5. \A b \in BDDs[j - 1] : Above(b, NumVars - j)
  <2> TAKE b \in BDDs[j - 1]
  <2>1. j - 1 \in 0 .. NumVars
    OBVIOUS
  <2>2. CASE b \in {False, True}
    BY <2>2, ConstantFacts DEF Above
  <2>3. ASSUME NEW i \in 1 .. j - 1, NodeOfLevel(b, i)
        PROVE  Above(b, NumVars - j)
    <3>1. var(b) = NumVars - i
      BY <2>3 DEF NodeOfLevel, var
    <3>2. NumVars - j < NumVars - i
      OBVIOUS
    <3>3. QED
      BY <3>1, <3>2 DEF Above
  <2>4. QED
    BY <2>1, <2>2, <2>3, LevelMembers
<1>6. QED
  BY <1>1, <1>2, <1>3, <1>4, <1>5 DEF IsNode

\* Every BDD is a constant or a node.
LEMMA BDDElim ==
  ASSUME NEW a \in BDD
  PROVE  /\ a = False \/ a = True \/ IsNode(a)
         /\ isConstant(a) <=> a \in {False, True}
         /\ ~isConstant(a) <=> IsNode(a)
<1>1. a \in {False, True} \/ IsNode(a)
  <2>1. NumVars \in 0 .. NumVars
    BY NumVarsAssumption
  <2>2. QED
    BY <2>1, LevelMembers, NodeOfLevelIsNode DEF BDD
<1>2. IsNode(a) => ~isConstant(a)
  BY NumVarsAssumption DEF IsNode, isConstant, Vars
<1>3. QED
  BY <1>1, <1>2, ConstantFacts

\* find puts a variable on top of two BDDs of greater variables.
LEMMA BDDIntro ==
  ASSUME NEW m \in Vars, NEW l \in BDD, NEW r \in BDD, Above(l, m), Above(r, m)
  PROVE  /\ find(m, l, r) \in BDD
         /\ l = r => find(m, l, r) = l
         /\ l # r => IsNode(find(m, l, r)) /\ var(find(m, l, r)) = m
                     /\ left(find(m, l, r)) = l /\ right(find(m, l, r)) = r
<1> USE NumVarsAssumption
<1>1. CASE l = r
  BY <1>1 DEF find
<1>2. CASE l # r
  <2> DEFINE j == NumVars - m
             a == <<m, l, r>>
  <2>1. j \in 1 .. NumVars /\ NumVars - j = m /\ j - 1 \in 0 .. NumVars
    BY DEF Vars
  <2>2. \A b \in BDD : Above(b, m) => b \in BDDs[j - 1]
    <3> SUFFICES ASSUME NEW b \in BDD, Above(b, m) PROVE b \in BDDs[j - 1]
      OBVIOUS
    <3>1. CASE b \in {False, True}
      BY <2>1, <3>1, LevelMembers
    <3>2. ASSUME NEW i \in 1 .. NumVars, NodeOfLevel(b, i)
          PROVE  b \in BDDs[j - 1]
      <4>1. var(b) = NumVars - i
        BY <3>2 DEF NodeOfLevel, var
      <4>2. m < NumVars - i
        BY <4>1 DEF Above, isConstant
      <4>3. i \in 1 .. j - 1
        BY <4>2 DEF Vars
      <4>4. QED
        BY <2>1, <3>2, <4>3, LevelMembers
    <3>3. QED
      <4>1. NumVars \in 0 .. NumVars
        OBVIOUS
      <4>2. QED
        BY <3>1, <3>2, <4>1, LevelMembers DEF BDD
  <2>3. NodeOfLevel(a, j)
    BY <1>2, <2>1, <2>2 DEF NodeOfLevel
  <2>4. IsNode(a)
    BY <2>1, <2>3, NodeOfLevelIsNode
  <2>5. a \in BDD
    <3>1. NumVars \in 0 .. NumVars
      OBVIOUS
    <3>2. QED
      BY <2>1, <2>3, <3>1, LevelMembers DEF BDD
  <2>6. find(m, l, r) = a
    BY <1>2 DEF find
  <2>7. QED
    BY <1>2, <2>4, <2>5, <2>6 DEF var, left, right
<1>3. QED
  BY <1>1, <1>2

-------------------------------------------------------------------------------
\* The function of a BDD.

\* How far a is from the constants.
rank(a) == IF isConstant(a) THEN 0 ELSE NumVars - var(a)

\* The subgraphs of a node have lower ranks: what every recursion on BDDs descends by.
LEMMA RankFacts ==
  ASSUME NEW a \in BDD
  PROVE  /\ rank(a) \in 0 .. NumVars
         /\ IsNode(a) => rank(left(a)) < rank(a) /\ rank(right(a)) < rank(a)
<1> USE NumVarsAssumption
<1>1. \A b \in BDD : rank(b) \in 0 .. NumVars
  BY BDDElim DEF rank, IsNode, Vars
<1>2. ASSUME IsNode(a), NEW b \in BDD, Above(b, var(a)) PROVE rank(b) < rank(a)
  <2>1. ~isConstant(a) /\ var(a) \in Vars
    BY <1>2, BDDElim DEF IsNode
  <2>2. CASE isConstant(b)
    BY <2>1, <2>2 DEF rank, Vars
  <2>3. CASE ~isConstant(b)
    BY <1>2, <2>1, <2>3, BDDElim DEF rank, Above, IsNode, Vars
  <2>4. QED
    BY <2>2, <2>3
<1>3. QED
  BY <1>1, <1>2 DEF IsNode

HoldsBody(f, a, v) ==
  IF isConstant(a) THEN a = True ELSE f[<<IF v[var(a)] THEN right(a) ELSE left(a), v>>]

\* The recursion of Holds has a solution.
LEMMA HoldsEquation ==
  Holds_rec = [p \in BDD \X Valuations |-> HoldsBody(Holds_rec, p[1], p[2])]
<1> DEFINE S == BDD \X Valuations
           R == [p \in S |-> rank(p[1])]
           H == [q \in [S -> BOOLEAN] \X S |-> HoldsBody(q[1], q[2][1], q[2][2])]
           P == S \X BOOLEAN
           Solves(f) == f = [p \in S |-> HoldsBody(f, p[1], p[2])]
<1>1. \A x \in S : R[x] \in Nat /\ R[x] <= NumVars
  BY RankFacts, NumVarsAssumption
<1>2. \A x \in S : IsNode(x[1]) =>
        LET y == <<IF x[2][var(x[1])] THEN right(x[1]) ELSE left(x[1]), x[2]>>
        IN  y \in S /\ R[y] < R[x]
  BY RankFacts DEF IsNode
<1>3. \A g, h \in [S -> BOOLEAN], x \in S :
        (\A y \in S : R[y] < R[x] => g[y] = h[y]) => H[<<g, x>>] = H[<<h, x>>]
  <2> SUFFICES ASSUME NEW g \in [S -> BOOLEAN], NEW h \in [S -> BOOLEAN], NEW x \in S,
                      \A y \in S : R[y] < R[x] => g[y] = h[y]
               PROVE  H[<<g, x>>] = H[<<h, x>>]
    OBVIOUS
  <2>1. HoldsBody(g, x[1], x[2]) = HoldsBody(h, x[1], x[2])
    <3>1. isConstant(x[1]) \/ IsNode(x[1])
      BY BDDElim
    <3>2. QED
      BY <1>2, <3>1 DEF HoldsBody
  <2>2. QED
    BY <2>1
<1>4. \A g \in [S -> BOOLEAN], x \in S : H[<<g, x>>] \in BOOLEAN
  <2> TAKE g \in [S -> BOOLEAN], x \in S
  <2>1. isConstant(x[1]) \/ IsNode(x[1])
    BY BDDElim
  <2>2. HoldsBody(g, x[1], x[2]) \in BOOLEAN
    BY <1>2, <2>1 DEF HoldsBody
  <2>3. QED
    BY <2>2
<1>5. PICK f \in [S -> BOOLEAN] : \A x \in S : f[x] = H[<<f, x>>]
  <2> HIDE DEF R, H
  <2>1. Recursive(S, BOOLEAN, R, H, P)
    <3>1. \E N \in Nat : \A x \in S : R[x] \in Nat /\ R[x] <= N
      BY <1>1, NumVarsAssumption
    <3>2. BOOLEAN # {}
      OBVIOUS
    <3>3. \A g \in [S -> BOOLEAN], x \in S :
            (\A y \in S : R[y] < R[x] => <<y, g[y]>> \in P)
               => H[<<g, x>>] \in BOOLEAN /\ <<x, H[<<g, x>>]>> \in P
      BY <1>4
    <3> HIDE DEF S, P
    <3>4. QED
      BY <1>3, <3>1, <3>2, <3>3, Zenon DEF Recursive
  <2> HIDE DEF S, P
  <2>2. Solvable(S, BOOLEAN, H, P)
    BY <2>1, Recursion
  <2>3. QED
    BY <2>2 DEF Solvable
<1>6. Solves(f)
  <2>1. \A x \in S : f[x] = HoldsBody(f, x[1], x[2])
    BY <1>5
  <2>2. f = [x \in S |-> f[x]]
    OBVIOUS
  <2>3. QED
    BY <2>1, <2>2
<1>7. Holds_rec = CHOOSE g : Solves(g)
  BY Zenon DEF Holds_rec, HoldsBody
<1>8. QED
  BY <1>6, <1>7

\* The value of a BDD under a valuation, from the top.
LEMMA HoldsFacts ==
  ASSUME NEW v \in Valuations
  PROVE  /\ Holds(False, v) = FALSE /\ Holds(True, v) = TRUE
         /\ \A a \in BDD : Holds(a, v) \in BOOLEAN
         /\ \A a \in BDD : IsNode(a) =>
              Holds(a, v) = IF v[var(a)] THEN Holds(right(a), v) ELSE Holds(left(a), v)
<1>1. \A a \in BDD : Holds(a, v) = HoldsBody(Holds_rec, a, v)
  BY HoldsEquation DEF Holds
<1>2. Holds(False, v) = FALSE /\ Holds(True, v) = TRUE
  BY <1>1, ConstantFacts DEF HoldsBody
<1>3. \A a \in BDD : IsNode(a) =>
         Holds(a, v) = IF v[var(a)] THEN Holds(right(a), v) ELSE Holds(left(a), v)
  BY <1>1, BDDElim DEF HoldsBody, Holds
<1> DEFINE P == {a \in BDD : Holds(a, v) \in BOOLEAN}
           R == [a \in BDD |-> rank(a)]
<1>4. \A a \in BDD : R[a] \in Nat
  BY RankFacts
<1>5. \A a \in BDD : (\A b \in BDD : R[b] < R[a] => b \in P) => a \in P
  <2> SUFFICES ASSUME NEW a \in BDD, \A b \in BDD : R[b] < R[a] => b \in P PROVE a \in P
    OBVIOUS
  <2>1. CASE a \in {False, True}
    BY <1>2, <2>1
  <2>2. CASE IsNode(a)
    <3>1. left(a) \in P /\ right(a) \in P
      BY <2>2, RankFacts DEF IsNode
    <3>2. QED
      BY <1>3, <2>2, <3>1
  <2>3. QED
    BY <2>1, <2>2, BDDElim
<1>6. \A a \in BDD : a \in P
  <2> HIDE DEF P, R
  <2>1. QED
    BY <1>4, <1>5, Induction
<1>7. QED
  BY <1>2, <1>3, <1>6

\* a mentions no variable less than m.
StartsAt(a, m) == isConstant(a) \/ m <= var(a)

\* The functions that do not look at the variables less than m, and the two
\* functions that remain of one when m is given a value.
From(A, m) ==
  \A v, w \in Valuations :
    (\A i \in Vars : m <= i => v[i] = w[i]) => (v \in A <=> w \in A)

Low(A, m)  == {v \in Valuations : [v EXCEPT ![m] = FALSE] \in A}
High(A, m) == {v \in Valuations : [v EXCEPT ![m] = TRUE] \in A}

\* A BDD does not look at variables that it does not mention.
LEMMA SatFrom ==
  ASSUME NEW a \in BDD, NEW m \in Int, StartsAt(a, m)
  PROVE  From(Sat(a), m)
<1> SUFFICES ASSUME NEW v \in Valuations, NEW w \in Valuations,
                    \A i \in Vars : m <= i => v[i] = w[i]
             PROVE  Holds(a, v) = Holds(a, w)
  BY DEF From, Sat
<1> DEFINE P == {b \in BDD : StartsAt(b, m) => Holds(b, v) = Holds(b, w)}
           R == [b \in BDD |-> rank(b)]
<1>1. \A b \in BDD : R[b] \in Nat
  BY RankFacts
<1>2. \A b \in BDD : (\A c \in BDD : R[c] < R[b] => c \in P) => b \in P
  <2> SUFFICES ASSUME NEW b \in BDD, \A c \in BDD : R[c] < R[b] => c \in P, StartsAt(b, m)
               PROVE  Holds(b, v) = Holds(b, w)
    OBVIOUS
  <2>1. CASE b \in {False, True}
    BY <2>1, HoldsFacts
  <2>2. CASE IsNode(b)
    <3>1. left(b) \in P /\ right(b) \in P
      BY <2>2, RankFacts DEF IsNode
    <3>2. StartsAt(left(b), m) /\ StartsAt(right(b), m)
      <4>1. m <= var(b) /\ var(b) \in Int
        BY <2>2, BDDElim, NumVarsAssumption DEF StartsAt, IsNode, Vars
      <4>2. \A c \in BDD : Above(c, var(b)) => StartsAt(c, m)
        BY <4>1, BDDElim DEF Above, StartsAt, IsNode, Vars
      <4>3. QED
        BY <2>2, <4>2 DEF IsNode
    <3>3. v[var(b)] = w[var(b)]
      BY <2>2, BDDElim DEF StartsAt, IsNode
    <3>4. QED
      BY <2>2, <3>1, <3>2, <3>3, HoldsFacts
  <2>3. QED
    BY <2>1, <2>2, BDDElim
<1>3. \A b \in BDD : b \in P
  <2> HIDE DEF P, R
  <2>1. QED
    BY <1>1, <1>2, Induction
<1>4. QED
  BY <1>3

\* Changing one variable of a valuation gives a valuation.
LEMMA Update ==
  ASSUME NEW v \in Valuations, NEW m \in Vars, NEW x \in BOOLEAN
  PROVE  /\ [v EXCEPT ![m] = x] \in Valuations
         /\ [v EXCEPT ![m] = x][m] = x
         /\ \A i \in Vars : i # m => [v EXCEPT ![m] = x][i] = v[i]
         /\ x = v[m] => [v EXCEPT ![m] = x] = v
BY DEF Valuations

\* A set of valuations is determined by its two cofactors.
LEMMA LowHigh ==
  ASSUME NEW A \in SUBSET Valuations, NEW m \in Vars
  PROVE  /\ Low(A, m) \in SUBSET Valuations /\ High(A, m) \in SUBSET Valuations
         /\ From(A, m) => From(Low(A, m), m + 1) /\ From(High(A, m), m + 1)
         /\ \A v \in Valuations : v \in A <=> IF v[m] THEN v \in High(A, m) ELSE v \in Low(A, m)
         /\ From(A, m + 1) => Low(A, m) = A /\ High(A, m) = A
<1>1. Low(A, m) \in SUBSET Valuations /\ High(A, m) \in SUBSET Valuations
  BY DEF Low, High
<1>2. ASSUME From(A, m), NEW v \in Valuations, NEW w \in Valuations, NEW x \in BOOLEAN,
             \A i \in Vars : m + 1 <= i => v[i] = w[i]
      PROVE  [v EXCEPT ![m] = x] \in A <=> [w EXCEPT ![m] = x] \in A
  <2>1. \A i \in Vars : m <= i => [v EXCEPT ![m] = x][i] = [w EXCEPT ![m] = x][i]
    <3> TAKE i \in Vars
    <3> HAVE m <= i
    <3>1. CASE i = m
      <4>1. [v EXCEPT ![m] = x][m] = x /\ [w EXCEPT ![m] = x][m] = x
        BY <1>2 DEF Valuations
      <4>2. QED
        BY <3>1, <4>1
    <3>2. CASE i # m
      <4>1. m + 1 <= i
        BY <3>2, NumVarsAssumption DEF Vars
      <4>2. QED
        BY <1>2, <3>2, <4>1, Update
    <3>3. QED
      BY <3>1, <3>2
  <2>2. [v EXCEPT ![m] = x] \in Valuations /\ [w EXCEPT ![m] = x] \in Valuations
    BY Update
  <2>3. QED
    BY <1>2, <2>1, <2>2 DEF From
<1>3. From(A, m) => From(Low(A, m), m + 1) /\ From(High(A, m), m + 1)
  BY <1>2 DEF From, Low, High
<1>4. \A v \in Valuations : v \in A <=> IF v[m] THEN v \in High(A, m) ELSE v \in Low(A, m)
  <2> TAKE v \in Valuations
  <2>1. v[m] \in BOOLEAN
    BY DEF Valuations
  <2>2. CASE v[m] = TRUE
    <3>1. [v EXCEPT ![m] = TRUE] = v
      BY <2>2 DEF Valuations
    <3>2. QED
      BY <2>2, <3>1 DEF High
  <2>3. CASE v[m] = FALSE
    <3>1. [v EXCEPT ![m] = FALSE] = v
      BY <2>3 DEF Valuations
    <3>2. QED
      BY <2>3, <3>1 DEF Low
  <2>4. QED
    BY <2>1, <2>2, <2>3
<1>5. ASSUME From(A, m + 1), NEW v \in Valuations, NEW x \in BOOLEAN
      PROVE  [v EXCEPT ![m] = x] \in A <=> v \in A
  <2>1. \A i \in Vars : m + 1 <= i => [v EXCEPT ![m] = x][i] = v[i]
    <3>1. \A i \in Vars : m + 1 <= i => i # m
      BY NumVarsAssumption DEF Vars
    <3>2. QED
      BY <3>1, Update
  <2>2. QED
    BY <1>5, <2>1, Update DEF From
<1>6. From(A, m + 1) => Low(A, m) = A /\ High(A, m) = A
  BY <1>5 DEF Low, High
<1>7. QED
  BY <1>1, <1>3, <1>4, <1>6

\* The function of a BDD is a set of valuations.
LEMMA SatType == \A a \in BDD : Sat(a) \in SUBSET Valuations
BY DEF Sat

\* The functions of the constants.
LEMMA SatConstants == Sat(False) = {} /\ Sat(True) = Valuations
BY HoldsFacts DEF Sat

\* The cofactors of a with respect to a variable at its top or above it.
LEMMA CofactorFacts ==
  ASSUME NEW a \in BDD, NEW m \in Vars, StartsAt(a, m)
  PROVE  /\ cf_left(a, m) \in BDD /\ cf_right(a, m) \in BDD
         /\ Above(cf_left(a, m), m) /\ Above(cf_right(a, m), m)
         /\ StartsAt(cf_left(a, m), m + 1) /\ StartsAt(cf_right(a, m), m + 1)
         /\ Sat(cf_left(a, m)) = Low(Sat(a), m) /\ Sat(cf_right(a, m)) = High(Sat(a), m)
         /\ rank(cf_left(a, m)) <= rank(a) /\ rank(cf_right(a, m)) <= rank(a)
         /\ m = var(a) => rank(cf_left(a, m)) < rank(a) /\ rank(cf_right(a, m)) < rank(a)
         /\ m # var(a) => cf_left(a, m) = a /\ cf_right(a, m) = a
<1> USE NumVarsAssumption
<1>0. m \in Nat
  BY DEF Vars
<1>1. CASE m = var(a)
  <2>1. IsNode(a)
    BY <1>0, <1>1, BDDElim DEF isConstant
  <2>2. cf_left(a, m) = left(a) /\ cf_right(a, m) = right(a)
    BY <1>1 DEF cf_left, cf_right
  <2>3. left(a) \in BDD /\ right(a) \in BDD /\ Above(left(a), m) /\ Above(right(a), m)
    BY <1>1, <2>1 DEF IsNode
  <2>4. \A b \in BDD : Above(b, m) => StartsAt(b, m + 1)
    BY <1>0, BDDElim DEF Above, StartsAt, IsNode, Vars
  <2>5. From(Sat(left(a)), m + 1) /\ From(Sat(right(a)), m + 1)
    BY <1>0, <2>3, <2>4, SatFrom
  <2>6. ASSUME NEW v \in Valuations, NEW x \in BOOLEAN
        PROVE  /\ [v EXCEPT ![m] = x] \in Valuations
               /\ Holds(a, [v EXCEPT ![m] = x]) = IF x THEN Holds(right(a), v) ELSE Holds(left(a), v)
    <3> DEFINE w == [v EXCEPT ![m] = x]
    <3>1. w \in Valuations /\ w[m] = x
      BY Update
    <3>2. Holds(a, w) = IF x THEN Holds(right(a), w) ELSE Holds(left(a), w)
      <4> HIDE DEF w
      <4>1. Holds(a, w) = IF w[var(a)] THEN Holds(right(a), w) ELSE Holds(left(a), w)
        BY <2>1, <3>1, HoldsFacts
      <4>2. QED
        BY <1>1, <3>1, <4>1
    <3>3. \A i \in Vars : m + 1 <= i => w[i] = v[i]
      <4>1. \A i \in Vars : m + 1 <= i => i # m
        BY <1>0 DEF Vars
      <4>2. QED
        BY <4>1, Update
    <3>4. \A b \in {left(a), right(a)} : Holds(b, w) = Holds(b, v)
      <4> TAKE b \in {left(a), right(a)}
      <4>1. w \in Sat(b) <=> v \in Sat(b)
        BY <2>5, <3>1, <3>3 DEF From
      <4>2. Holds(b, w) \in BOOLEAN /\ Holds(b, v) \in BOOLEAN
        BY <2>3, <3>1, HoldsFacts
      <4>3. QED
        BY <3>1, <4>1, <4>2 DEF Sat
    <3>5. QED
      BY <3>1, <3>2, <3>4
  <2>7. Sat(left(a)) = Low(Sat(a), m) /\ Sat(right(a)) = High(Sat(a), m)
    BY <2>6 DEF Sat, Low, High
  <2>8. rank(a) \in Nat /\ rank(left(a)) \in Nat /\ rank(right(a)) \in Nat
    BY <2>3, RankFacts
  <2>9. QED
    BY <1>1, <2>1, <2>2, <2>3, <2>4, <2>7, <2>8, RankFacts
<1>2. CASE m # var(a)
  <2>1. cf_left(a, m) = a /\ cf_right(a, m) = a
    BY <1>2 DEF cf_left, cf_right
  <2>2. Above(a, m) /\ StartsAt(a, m + 1)
    BY <1>0, <1>2, BDDElim DEF StartsAt, Above, IsNode, Vars
  <2>3. Low(Sat(a), m) = Sat(a) /\ High(Sat(a), m) = Sat(a)
    <3>1. From(Sat(a), m + 1)
      BY <1>0, <2>2, SatFrom
    <3>2. QED
      BY <3>1, SatType, LowHigh
  <2>4. rank(a) \in Nat
    BY RankFacts
  <2>5. QED
    BY <1>2, <2>1, <2>2, <2>3, <2>4
<1>3. QED
  BY <1>1, <1>2

-------------------------------------------------------------------------------
\* One BDD for every function.

\* The ranks of calls with one, two and three BDDs among their arguments.
Rank1(S) == [p \in S |-> rank(p[1])]
Rank2(S) == [p \in S |-> rank(p[1]) + rank(p[2])]
Rank3(S) == [p \in S |-> rank(p[1]) + rank(p[2]) + rank(p[3])]

\* The ranks of tuples of operands are naturals.
LEMMA RankTypes ==
  /\ \A X : \A p \in BDD \X X : Rank1(BDD \X X)[p] \in Nat
  /\ \A p \in BDD \X BDD : Rank2(BDD \X BDD)[p] \in Nat
  /\ \A X : \A p \in BDD \X BDD \X X : Rank2(BDD \X BDD \X X)[p] \in Nat
  /\ \A p \in BDD \X BDD \X BDD : Rank3(BDD \X BDD \X BDD)[p] \in Nat
  /\ \A X : \A p \in BDD \X BDD \X BDD \X X : Rank3(BDD \X BDD \X BDD \X X)[p] \in Nat
BY RankFacts DEF Rank1, Rank2, Rank3

\* Two BDDs of the same function are the same.
LEMMA Canonicity == \A a, b \in BDD : Sat(a) = Sat(b) => a = b
<1> USE NumVarsAssumption
<1> DEFINE S == BDD \X BDD
           P == {p \in S : Sat(p[1]) = Sat(p[2]) => p[1] = p[2]}
<1>1. ASSUME NEW a \in BDD, NEW b \in BDD,
             \A c, d \in BDD : rank(c) + rank(d) < rank(a) + rank(b) => <<c, d>> \in P
      PROVE  <<a, b>> \in P
  <2> SUFFICES ASSUME Sat(a) = Sat(b) PROVE a = b
    OBVIOUS
  <2>0. \A c, d \in BDD : rank(c) + rank(d) < rank(a) + rank(b) /\ Sat(c) = Sat(d) => c = d
    <3> TAKE c, d \in BDD
    <3>1. rank(c) + rank(d) < rank(a) + rank(b) => <<c, d>> \in P
      BY <1>1
    <3>2. QED
      BY <3>1
  <2>1. CASE isConstant(a) /\ isConstant(b)
    <3>1. PICK v \in Valuations : TRUE
      <4>1. [i \in Vars |-> TRUE] \in Valuations
        BY DEF Valuations
      <4>2. QED
        BY <4>1
    <3>2. Valuations # {}
      BY <3>1
    <3>3. QED
      BY <2>1, <3>2, BDDElim, SatConstants
  <2>2. ASSUME ~isConstant(a) \/ ~isConstant(b) PROVE a = b
    <3> DEFINE m == minVar(a, b)
    <3>1. m \in Vars /\ StartsAt(a, m) /\ StartsAt(b, m) /\ (m = var(a) \/ m = var(b))
      BY <2>2, BDDElim DEF minVar, StartsAt, IsNode, Vars
    <3> HIDE DEF m
    <3>2. /\ cf_left(a, m) \in BDD /\ cf_left(b, m) \in BDD
          /\ cf_right(a, m) \in BDD /\ cf_right(b, m) \in BDD
          /\ Sat(cf_left(a, m)) = Sat(cf_left(b, m))
          /\ Sat(cf_right(a, m)) = Sat(cf_right(b, m))
      BY <3>1, CofactorFacts
    <3>3. /\ rank(cf_left(a, m)) + rank(cf_left(b, m)) < rank(a) + rank(b)
          /\ rank(cf_right(a, m)) + rank(cf_right(b, m)) < rank(a) + rank(b)
      <4>1. \A c \in BDD : rank(c) \in Nat
        BY RankFacts
      <4>2. /\ rank(cf_left(a, m)) <= rank(a) /\ rank(cf_left(b, m)) <= rank(b)
            /\ rank(cf_right(a, m)) <= rank(a) /\ rank(cf_right(b, m)) <= rank(b)
            /\ m = var(a) => rank(cf_left(a, m)) < rank(a) /\ rank(cf_right(a, m)) < rank(a)
            /\ m = var(b) => rank(cf_left(b, m)) < rank(b) /\ rank(cf_right(b, m)) < rank(b)
        BY <3>1, CofactorFacts
      <4>3. QED
        BY <3>1, <3>2, <4>1, <4>2
    <3>4. cf_left(a, m) = cf_left(b, m) /\ cf_right(a, m) = cf_right(b, m)
      BY <2>0, <3>2, <3>3
    <3>5. CASE m = var(a) /\ m = var(b)
      <4>1. ~isConstant(a) /\ ~isConstant(b)
        BY <3>1, <3>5 DEF isConstant, Vars
      <4>2. QED
        <5>1. IsNode(a) /\ IsNode(b)
          BY <4>1, BDDElim
        <5>2. left(a) = left(b) /\ right(a) = right(b)
          BY <3>4, <3>5 DEF cf_left, cf_right
        <5>3. QED
          BY <3>5, <5>1, <5>2 DEF IsNode
    <3>6. CASE m = var(a) /\ m # var(b)
      <4>1. left(a) = b /\ right(a) = b
        BY <3>4, <3>6 DEF cf_left, cf_right
      <4>2. IsNode(a)
        BY <3>1, <3>6, BDDElim DEF isConstant, Vars
      <4>3. QED
        BY <4>1, <4>2 DEF IsNode
    <3>7. CASE m # var(a) /\ m = var(b)
      <4>1. left(b) = a /\ right(b) = a
        BY <3>4, <3>7 DEF cf_left, cf_right
      <4>2. IsNode(b)
        BY <3>1, <3>7, BDDElim DEF isConstant, Vars
      <4>3. QED
        BY <4>1, <4>2 DEF IsNode
    <3>8. QED
      BY <3>1, <3>5, <3>6, <3>7
  <2>3. QED
    BY <2>1, <2>2
<1>2. \A p \in S : (\A q \in S : Rank2(S)[q] < Rank2(S)[p] => q \in P) => p \in P
  <2> SUFFICES ASSUME NEW p \in S,
                      \A q \in S : Rank2(S)[q] < Rank2(S)[p] => q \in P
               PROVE  p \in P
    OBVIOUS
  <2>0. PICK a \in BDD, b \in BDD : p = <<a, b>>
    OBVIOUS
  <2>1. \A c, d \in BDD : rank(c) + rank(d) < rank(a) + rank(b) => <<c, d>> \in P
    <3> HIDE DEF P
    <3>1. QED
      BY <2>0 DEF Rank2
  <2> HIDE DEF P
  <2>2. QED
    BY <1>1, <2>0, <2>1
<1>3. \A p \in S : p \in P
  <2>1. \A p \in S : Rank2(S)[p] \in Nat
    BY RankTypes
  <2> HIDE DEF S, P
  <2>2. QED
    BY <1>2, <2>1, Induction
<1>4. ASSUME NEW a \in BDD, NEW b \in BDD PROVE Sat(a) = Sat(b) => a = b
  <2>1. <<a, b>> \in P
    BY <1>3
  <2>2. QED
    BY <2>1
<1>5. QED
  BY <1>4

\* find(m, l, r) reads m and goes on with l or r.
LEMMA SatFind ==
  ASSUME NEW C \in SUBSET Valuations, NEW m \in Vars, NEW l \in BDD, NEW r \in BDD,
         Above(l, m), Above(r, m), Sat(l) = Low(C, m), Sat(r) = High(C, m)
  PROVE  find(m, l, r) \in BDD /\ Sat(find(m, l, r)) = C
<1> DEFINE a == find(m, l, r)
<1>1. a \in BDD
  BY BDDIntro
<1>2. \A v \in Valuations : Holds(a, v) = IF v[m] THEN Holds(r, v) ELSE Holds(l, v)
  <2> TAKE v \in Valuations
  <2>1. CASE l = r
    <3>1. a = l
      BY <2>1, BDDIntro
    <3>2. QED
      BY <2>1, <3>1
  <2>2. CASE l # r
    <3>1. IsNode(a) /\ var(a) = m /\ left(a) = l /\ right(a) = r
      BY <2>2, BDDIntro
    <3> HIDE DEF a
    <3>2. QED
      BY <1>1, <3>1, HoldsFacts
  <2>3. QED
    BY <2>1, <2>2
<1>3. \A v \in Valuations : v \in C <=> IF v[m] THEN v \in Sat(r) ELSE v \in Sat(l)
  BY LowHigh
<1>4. \A v \in Valuations : v \in C <=> Holds(a, v)
  <2> HIDE DEF a
  <2>1. QED
    BY <1>2, <1>3 DEF Sat
<1>5. QED
  <2> HIDE DEF a
  <2>1. Sat(a) = C
    BY <1>4 DEF Sat
  <2>2. QED
    BY <1>1, <2>1 DEF a

\* Every function that looks at variables from m on only has a BDD that does.
LEMMA Completeness ==
  ASSUME NEW m \in 0 .. NumVars, NEW A \in SUBSET Valuations, From(A, m)
  PROVE  \E a \in BDD : Sat(a) = A /\ StartsAt(a, m)
<1> USE NumVarsAssumption
<1> DEFINE Has(B, n) == \E a \in BDD : Sat(a) = B /\ StartsAt(a, n)
           Solved(k) == \A B \in SUBSET Valuations : From(B, NumVars - k) => Has(B, NumVars - k)
           Open == {k \in 0 .. NumVars : ~Solved(k)}
<1>1. Solved(0)
  <2> SUFFICES ASSUME NEW B \in SUBSET Valuations, From(B, NumVars) PROVE Has(B, NumVars)
    OBVIOUS
  <2>1. \A v, w \in Valuations : v \in B <=> w \in B
    BY DEF From, Vars
  <2>2. B = {} \/ B = Valuations
    BY <2>1
  <2>3. StartsAt(False, NumVars) /\ StartsAt(True, NumVars)
    BY ConstantFacts DEF StartsAt
  <2>4. QED
    BY <2>2, <2>3, SatConstants, ConstantFacts
<1>2. ASSUME Open # {} PROVE FALSE
  <2>1. PICK k \in Open : \A j \in Open : k <= j
    <3>1. Open \in SUBSET Nat
      OBVIOUS
    <3> HIDE DEF Open
    <3>2. QED
      BY <1>2, <3>1, Least
  <2>2. k # 0
    BY <1>1, <2>1
  <2>3. k \in 0 .. NumVars /\ k - 1 \in 0 .. NumVars /\ k - 1 \notin Open
    BY <2>1, <2>2
  <2>4. Solved(k - 1)
    BY <2>3
  <2> DEFINE n == NumVars - k
  <2>5. n \in Vars /\ n + 1 = NumVars - (k - 1) /\ n \in Nat
    BY <2>2, <2>3 DEF Vars
  <2>6. ASSUME NEW B \in SUBSET Valuations, From(B, n) PROVE Has(B, n)
    <3>1. From(Low(B, n), n + 1) /\ From(High(B, n), n + 1)
      BY <2>5, <2>6, LowHigh
    <3>2. Low(B, n) \in SUBSET Valuations /\ High(B, n) \in SUBSET Valuations
      BY <2>5, LowHigh
    <3>3. PICK l \in BDD : Sat(l) = Low(B, n) /\ StartsAt(l, n + 1)
      BY <2>4, <2>5, <3>1, <3>2
    <3>4. PICK r \in BDD : Sat(r) = High(B, n) /\ StartsAt(r, n + 1)
      BY <2>4, <2>5, <3>1, <3>2
    <3>5. Above(l, n) /\ Above(r, n)
      BY <2>5, <3>3, <3>4, BDDElim DEF StartsAt, Above, IsNode, Vars
    <3>6. find(n, l, r) \in BDD /\ Sat(find(n, l, r)) = B
      BY <2>5, <3>3, <3>4, <3>5, SatFind
    <3>7. StartsAt(find(n, l, r), n)
      <4>1. CASE l = r
        <5>1. find(n, l, r) = l
          BY <4>1 DEF find
        <5>2. StartsAt(l, n)
          BY <2>5, <3>3, BDDElim DEF StartsAt, IsNode, Vars
        <5>3. QED
          BY <5>1, <5>2
      <4>2. CASE l # r
        <5>1. var(find(n, l, r)) = n
          BY <4>2 DEF find, var
        <5>2. QED
          BY <2>5, <5>1 DEF StartsAt
      <4>3. QED
        BY <4>1, <4>2
    <3>8. QED
      BY <3>6, <3>7
  <2>7. QED
    BY <2>1, <2>6
<1>3. NumVars - m \in 0 .. NumVars /\ NumVars - (NumVars - m) = m
  OBVIOUS
<1>4. Solved(NumVars - m)
  BY <1>2, <1>3
<1>5. QED
  BY <1>3, <1>4

\* The BDD of a function.
TreeOf(A) == CHOOSE a \in BDD : Sat(a) = A

\* TreeOf returns the one BDD of a function, and its top is below the variables that do not matter.
LEMMA TreeOfFacts ==
  ASSUME NEW A \in SUBSET Valuations
  PROVE  /\ TreeOf(A) \in BDD /\ Sat(TreeOf(A)) = A
         /\ \A a \in BDD : Sat(a) = A => a = TreeOf(A)
         /\ \A m \in 0 .. NumVars : From(A, m) => StartsAt(TreeOf(A), m)
<1>1. From(A, 0)
  <2> SUFFICES ASSUME NEW v \in Valuations, NEW w \in Valuations,
                      \A i \in Vars : 0 <= i => v[i] = w[i]
               PROVE  v = w
    BY DEF From
  <2>1. \A i \in Vars : v[i] = w[i]
    BY DEF Vars
  <2>2. QED
    BY <2>1 DEF Valuations
<1>2. \E a \in BDD : Sat(a) = A
  <2>1. 0 \in 0 .. NumVars
    BY NumVarsAssumption
  <2>2. QED
    BY <1>1, <2>1, Completeness
<1>3. TreeOf(A) \in BDD /\ Sat(TreeOf(A)) = A
  BY <1>2 DEF TreeOf
<1>4. \A a \in BDD : Sat(a) = A => a = TreeOf(A)
  BY <1>3, Canonicity
<1>5. \A m \in 0 .. NumVars : From(A, m) => StartsAt(TreeOf(A), m)
  BY <1>4, Completeness
<1>6. QED
  BY <1>3, <1>4, <1>5

\* A BDD is the tree of its function.
LEMMA TreeOfSat == \A a \in BDD : TreeOf(Sat(a)) = a
BY TreeOfFacts, SatType

\* Every BDD looks at its top variable first: a function of which only variables
\* above m matter has a BDD above m.
LEMMA AboveFrom ==
  ASSUME NEW a \in BDD, NEW m \in Vars, From(Sat(a), m + 1)
  PROVE  Above(a, m)
<1>1. m + 1 \in 0 .. NumVars /\ m \in Nat
  BY NumVarsAssumption DEF Vars
<1>2. StartsAt(a, m + 1)
  BY <1>1, TreeOfFacts, TreeOfSat, SatType
<1>3. QED
  BY <1>1, <1>2, BDDElim DEF StartsAt, Above, IsNode, Vars

\* The step that the recursions share: a node of the BDDs of the two cofactors.
LEMMA FindTree ==
  ASSUME NEW C \in SUBSET Valuations, NEW m \in Vars, From(C, m)
  PROVE  find(m, TreeOf(Low(C, m)), TreeOf(High(C, m))) = TreeOf(C)
<1> DEFINE l == TreeOf(Low(C, m))
           r == TreeOf(High(C, m))
<1>1. Low(C, m) \in SUBSET Valuations /\ High(C, m) \in SUBSET Valuations
  BY LowHigh
<1>2. l \in BDD /\ r \in BDD /\ Sat(l) = Low(C, m) /\ Sat(r) = High(C, m)
  BY <1>1, TreeOfFacts
<1> HIDE DEF l, r
<1>3. From(Sat(l), m + 1) /\ From(Sat(r), m + 1)
  BY <1>2, LowHigh
<1>4. Above(l, m) /\ Above(r, m)
  BY <1>2, <1>3, AboveFrom
<1>5. find(m, l, r) \in BDD /\ Sat(find(m, l, r)) = C
  BY <1>2, <1>4, SatFind
<1>6. QED
  BY <1>5, TreeOfFacts DEF l, r

-------------------------------------------------------------------------------
\* The connectives.

\* The cofactors of two operands with respect to the first of their variables.
LEMMA MinVarFacts ==
  ASSUME NEW a \in BDD, NEW b \in BDD, ~isConstant(a) \/ ~isConstant(b),
         NEW m, m = minVar(a, b)
  PROVE  /\ m \in Vars /\ StartsAt(a, m) /\ StartsAt(b, m)
         /\ From(Sat(a), m) /\ From(Sat(b), m)
         /\ cf_left(a, m) \in BDD /\ cf_left(b, m) \in BDD
         /\ cf_right(a, m) \in BDD /\ cf_right(b, m) \in BDD
         /\ Sat(cf_left(a, m)) = Low(Sat(a), m) /\ Sat(cf_left(b, m)) = Low(Sat(b), m)
         /\ Sat(cf_right(a, m)) = High(Sat(a), m) /\ Sat(cf_right(b, m)) = High(Sat(b), m)
         /\ rank(cf_left(a, m)) + rank(cf_left(b, m)) < rank(a) + rank(b)
         /\ rank(cf_right(a, m)) + rank(cf_right(b, m)) < rank(a) + rank(b)
<1> USE NumVarsAssumption
<1>1. m \in Vars /\ StartsAt(a, m) /\ StartsAt(b, m) /\ (m = var(a) \/ m = var(b))
  BY BDDElim DEF minVar, StartsAt, IsNode, Vars
<1>2. From(Sat(a), m) /\ From(Sat(b), m)
  BY <1>1, SatFrom DEF Vars
<1>3. /\ cf_left(a, m) \in BDD /\ cf_left(b, m) \in BDD
      /\ cf_right(a, m) \in BDD /\ cf_right(b, m) \in BDD
      /\ Sat(cf_left(a, m)) = Low(Sat(a), m) /\ Sat(cf_left(b, m)) = Low(Sat(b), m)
      /\ Sat(cf_right(a, m)) = High(Sat(a), m) /\ Sat(cf_right(b, m)) = High(Sat(b), m)
  BY <1>1, CofactorFacts
<1>4. /\ rank(cf_left(a, m)) + rank(cf_left(b, m)) < rank(a) + rank(b)
      /\ rank(cf_right(a, m)) + rank(cf_right(b, m)) < rank(a) + rank(b)
  <2>1. \A c \in BDD : rank(c) \in Nat
    BY RankFacts
  <2>2. /\ rank(cf_left(a, m)) <= rank(a) /\ rank(cf_left(b, m)) <= rank(b)
        /\ rank(cf_right(a, m)) <= rank(a) /\ rank(cf_right(b, m)) <= rank(b)
        /\ m = var(a) => rank(cf_left(a, m)) < rank(a) /\ rank(cf_right(a, m)) < rank(a)
        /\ m = var(b) => rank(cf_left(b, m)) < rank(b) /\ rank(cf_right(b, m)) < rank(b)
    BY <1>1, CofactorFacts
  <2>3. QED
    BY <1>1, <1>3, <2>1, <2>2
<1>5. QED
  BY <1>1, <1>2, <1>3, <1>4

\* A node made of the results for the cofactors is the result, whatever the connective.
LEMMA ShannonTree ==
  ASSUME NEW rec, NEW a \in BDD, NEW b \in BDD, ~isConstant(a) \/ ~isConstant(b),
         NEW C \in SUBSET Valuations, NEW m, m = minVar(a, b), From(C, m),
         rec[<<cf_left(a, m), cf_left(b, m)>>] = TreeOf(Low(C, m)),
         rec[<<cf_right(a, m), cf_right(b, m)>>] = TreeOf(High(C, m))
  PROVE  Shannon(rec, a, b) = TreeOf(C)
<1>1. m \in Vars
  BY MinVarFacts
<1>2. find(m, TreeOf(Low(C, m)), TreeOf(High(C, m))) = TreeOf(C)
  BY <1>1, FindTree
<1>3. QED
  BY <1>2 DEF Shannon

\* Of crossed operands and the cofactors of one of them the same number is true.
LEMMA CrossedFacts ==
  ASSUME NEW a \in BDD, NEW b \in BDD, ~isConstant(a) \/ ~isConstant(b), Crossed(a, b)
  PROVE  /\ OneSide(a, b) \in BDD /\ OtherSide(a, b) \in BDD
         /\ rank(OneSide(a, b)) + rank(OtherSide(a, b)) < rank(a) + rank(b)
         /\ Sat(OneSide(a, b)) \cap Sat(OtherSide(a, b)) = Sat(a) \cap Sat(b)
         /\ Sat(OneSide(a, b)) \cup Sat(OtherSide(a, b)) = Sat(a) \cup Sat(b)
<1> DEFINE m == minVar(a, b)
<1>1. /\ OneSide(a, b) = cf_left(a, m) /\ OneSide(a, b) = cf_right(b, m)
      /\ OtherSide(a, b) = cf_right(a, m) /\ OtherSide(a, b) = cf_left(b, m)
  BY DEF Crossed, OneSide, OtherSide
<1> HIDE DEF m
<1>2. /\ m \in Vars /\ cf_left(a, m) \in BDD /\ cf_right(a, m) \in BDD
      /\ Sat(cf_left(a, m)) = Low(Sat(a), m) /\ Sat(cf_left(b, m)) = Low(Sat(b), m)
      /\ Sat(cf_right(a, m)) = High(Sat(a), m) /\ Sat(cf_right(b, m)) = High(Sat(b), m)
      /\ rank(cf_left(a, m)) + rank(cf_left(b, m)) < rank(a) + rank(b)
  BY MinVarFacts DEF m
<1>3. /\ Low(Sat(a), m) = High(Sat(b), m) /\ High(Sat(a), m) = Low(Sat(b), m)
      /\ Sat(OneSide(a, b)) = Low(Sat(a), m) /\ Sat(OtherSide(a, b)) = High(Sat(a), m)
  BY <1>1, <1>2
<1>4. \A v \in Valuations :
        /\ v \in Sat(a) <=> IF v[m] THEN v \in High(Sat(a), m) ELSE v \in Low(Sat(a), m)
        /\ v \in Sat(b) <=> IF v[m] THEN v \in Low(Sat(a), m) ELSE v \in High(Sat(a), m)
  BY <1>2, <1>3, SatType, LowHigh
<1>5. /\ Sat(a) \in SUBSET Valuations /\ Sat(b) \in SUBSET Valuations
      /\ Low(Sat(a), m) \in SUBSET Valuations /\ High(Sat(a), m) \in SUBSET Valuations
  BY <1>2, SatType, LowHigh
<1>6. \A v : /\ v \in Low(Sat(a), m) /\ v \in High(Sat(a), m) <=> v \in Sat(a) /\ v \in Sat(b)
             /\ v \in Low(Sat(a), m) \/ v \in High(Sat(a), m) <=> v \in Sat(a) \/ v \in Sat(b)
  BY <1>4, <1>5
<1>7. QED
  BY <1>1, <1>2, <1>3, <1>6

\* A connective, as a function of the sets of satisfying valuations: what it says of
\* a valuation follows from what its operands say of it.
SatSets == SUBSET Valuations

Connectives ==
  {conn \in [SatSets \X SatSets -> SatSets] :
     \A A1, B1, A2, B2 \in SatSets, v, w \in Valuations :
       (v \in A1 <=> w \in A2) /\ (v \in B1 <=> w \in B2)
          => (v \in conn[<<A1, B1>>] <=> w \in conn[<<A2, B2>>])}

\* What an operation for the connective returns.
ConnectiveOf(conn) == [p \in BDD \X BDD |-> TreeOf(conn[<<Sat(p[1]), Sat(p[2])>>])]

\* A connective goes through cofactors.
LEMMA ConnectiveFacts ==
  ASSUME NEW conn \in Connectives, NEW A \in SatSets, NEW B \in SatSets
  PROVE  /\ conn[<<A, B>>] \in SatSets
         /\ \A m \in Vars :
              /\ Low(conn[<<A, B>>], m) = conn[<<Low(A, m), Low(B, m)>>]
              /\ High(conn[<<A, B>>], m) = conn[<<High(A, m), High(B, m)>>]
         /\ \A m : From(A, m) /\ From(B, m) => From(conn[<<A, B>>], m)
<1>1. \A A1, B1 \in SatSets : conn[<<A1, B1>>] \in SatSets
  BY DEF Connectives
<1>2. \A A1, B1, A2, B2 \in SatSets, v, w \in Valuations :
        (v \in A1 <=> w \in A2) /\ (v \in B1 <=> w \in B2)
           => (v \in conn[<<A1, B1>>] <=> w \in conn[<<A2, B2>>])
  BY DEF Connectives
<1>3. ASSUME NEW m \in Vars
      PROVE  /\ Low(conn[<<A, B>>], m) = conn[<<Low(A, m), Low(B, m)>>]
             /\ High(conn[<<A, B>>], m) = conn[<<High(A, m), High(B, m)>>]
  <2>1. /\ Low(A, m) \in SatSets /\ Low(B, m) \in SatSets
        /\ High(A, m) \in SatSets /\ High(B, m) \in SatSets
    BY LowHigh DEF SatSets
  <2>2. ASSUME NEW v \in Valuations
        PROVE  /\ v \in Low(conn[<<A, B>>], m) <=> v \in conn[<<Low(A, m), Low(B, m)>>]
               /\ v \in High(conn[<<A, B>>], m) <=> v \in conn[<<High(A, m), High(B, m)>>]
    <3> DEFINE v0 == [v EXCEPT ![m] = FALSE]
               v1 == [v EXCEPT ![m] = TRUE]
    <3>1. v0 \in Valuations /\ v1 \in Valuations
      BY Update
    <3>2. \A D \in SatSets : (v \in Low(D, m) <=> v0 \in D) /\ (v \in High(D, m) <=> v1 \in D)
      BY DEF Low, High
    <3> HIDE DEF v0, v1
    <3>3. v0 \in conn[<<A, B>>] <=> v \in conn[<<Low(A, m), Low(B, m)>>]
      BY <1>2, <2>1, <3>1, <3>2
    <3>4. v1 \in conn[<<A, B>>] <=> v \in conn[<<High(A, m), High(B, m)>>]
      BY <1>2, <2>1, <3>1, <3>2
    <3>5. QED
      BY <1>1, <3>2, <3>3, <3>4
  <2>3. /\ conn[<<Low(A, m), Low(B, m)>>] \in SatSets
        /\ conn[<<High(A, m), High(B, m)>>] \in SatSets
        /\ conn[<<A, B>>] \in SatSets
    BY <1>1, <2>1
  <2>4. Low(conn[<<A, B>>], m) \subseteq Valuations /\ High(conn[<<A, B>>], m) \subseteq Valuations
    BY DEF Low, High
  <2>5. QED
    BY <2>2, <2>3, <2>4 DEF SatSets
<1>4. \A m : From(A, m) /\ From(B, m) => From(conn[<<A, B>>], m)
  BY <1>2 DEF From
<1>5. QED
  BY <1>1, <1>3, <1>4

\* The step that the operations for connectives share.
LEMMA ConnectiveShannon ==
  ASSUME NEW conn \in Connectives, NEW rec, NEW a \in BDD, NEW b \in BDD,
         ~isConstant(a) \/ ~isConstant(b),
         AgreeBelow(BDD \X BDD, Rank2(BDD \X BDD), rec, ConnectiveOf(conn), <<a, b>>)
  PROVE  Shannon(rec, a, b) = ConnectiveOf(conn)[<<a, b>>]
<1> DEFINE m == minVar(a, b)
           C == conn[<<Sat(a), Sat(b)>>]
<1>1. /\ cf_left(a, m) \in BDD /\ cf_left(b, m) \in BDD
      /\ cf_right(a, m) \in BDD /\ cf_right(b, m) \in BDD
      /\ Sat(cf_left(a, m)) = Low(Sat(a), m) /\ Sat(cf_left(b, m)) = Low(Sat(b), m)
      /\ Sat(cf_right(a, m)) = High(Sat(a), m) /\ Sat(cf_right(b, m)) = High(Sat(b), m)
      /\ rank(cf_left(a, m)) + rank(cf_left(b, m)) < rank(a) + rank(b)
      /\ rank(cf_right(a, m)) + rank(cf_right(b, m)) < rank(a) + rank(b)
      /\ From(Sat(a), m) /\ From(Sat(b), m) /\ m \in Vars
  BY MinVarFacts
<1>2. Sat(a) \in SatSets /\ Sat(b) \in SatSets
  BY SatType DEF SatSets
<1>3. /\ C \in SUBSET Valuations /\ From(C, m)
      /\ Low(C, m) = conn[<<Low(Sat(a), m), Low(Sat(b), m)>>]
      /\ High(C, m) = conn[<<High(Sat(a), m), High(Sat(b), m)>>]
  <2> HIDE DEF m
  <2>1. QED
    BY <1>1, <1>2, ConnectiveFacts DEF SatSets
<1>4. \A c, d \in BDD : rank(c) + rank(d) < rank(a) + rank(b)
         => rec[<<c, d>>] = TreeOf(conn[<<Sat(c), Sat(d)>>])
  BY DEF AgreeBelow, Rank2, ConnectiveOf
<1> HIDE DEF m
<1>5. /\ rec[<<cf_left(a, m), cf_left(b, m)>>] = TreeOf(Low(C, m))
      /\ rec[<<cf_right(a, m), cf_right(b, m)>>] = TreeOf(High(C, m))
  BY <1>1, <1>3, <1>4
<1>6. m = minVar(a, b)
  BY DEF m
<1> HIDE DEF C
<1>7. Shannon(rec, a, b) = TreeOf(C)
  BY <1>3, <1>5, <1>6, ShannonTree
<1>8. ConnectiveOf(conn)[<<a, b>>] = TreeOf(C)
  BY DEF ConnectiveOf, C
<1>9. QED
  BY <1>7, <1>8

\* Conjunction.
AndConn == [p \in SatSets \X SatSets |-> p[1] \cap p[2]]

\* The connective of andop.
LEMMA AndConnective ==
  /\ AndConn \in Connectives
  /\ \A A, B \in SatSets : AndConn[<<A, B>>] = A \cap B
BY DEF AndConn, Connectives, SatSets

\* The body of andop returns what it is meant to when its calls do.
LEMMA AndStep ==
  ASSUME NEW rec, NEW p \in BDD \X BDD,
         AgreeBelow(BDD \X BDD, Rank2(BDD \X BDD), rec, ConnectiveOf(AndConn), p)
  PROVE  andop_body(rec, p[1], p[2]) = ConnectiveOf(AndConn)[p]
<1> PICK a \in BDD, b \in BDD : p = <<a, b>>
  OBVIOUS
<1> DEFINE C == Sat(a) \cap Sat(b)
<1>1. /\ C \in SUBSET Valuations /\ Sat(a) \in SUBSET Valuations /\ Sat(b) \in SUBSET Valuations
      /\ ConnectiveOf(AndConn)[p] = TreeOf(C)
  <2>1. Sat(a) \in SatSets /\ Sat(b) \in SatSets
    BY SatType DEF SatSets
  <2>2. AndConn[<<Sat(a), Sat(b)>>] = C
    BY <2>1, AndConnective
  <2>3. QED
    BY <2>1, <2>2 DEF ConnectiveOf, SatSets
<1>2. SUFFICES andop_body(rec, a, b) = TreeOf(C)
  BY <1>1
<1>3. \A c \in BDD : Sat(c) = C => c = TreeOf(C)
  BY <1>1, TreeOfFacts
<1>4. CASE a = True
  <2>1. andop_body(rec, a, b) = b
    BY <1>4, ConstantFacts DEF andop_body
  <2>2. b \in BDD /\ Sat(b) = C
    BY <1>1, <1>4, SatConstants, ConstantFacts
  <2>3. QED
    BY <1>3, <2>1, <2>2
<1>5. CASE b = True /\ a # True
  <2>1. andop_body(rec, a, b) = a
    BY <1>5, ConstantFacts DEF andop_body
  <2>2. a \in BDD /\ Sat(a) = C
    BY <1>1, <1>5, SatConstants, ConstantFacts
  <2>3. QED
    BY <1>3, <2>1, <2>2
<1>6. CASE (a = False \/ b = False) /\ a # True /\ b # True
  <2>1. andop_body(rec, a, b) = False
    BY <1>6, ConstantFacts DEF andop_body
  <2>2. False \in BDD /\ Sat(False) = C
    BY <1>1, <1>6, SatConstants, ConstantFacts
  <2>3. QED
    BY <1>3, <2>1, <2>2
<1>7. CASE a = b /\ ~isConstant(a)
  <2>1. andop_body(rec, a, b) = a
    BY <1>7, ConstantFacts DEF andop_body
  <2>2. a \in BDD /\ Sat(a) = C
    BY <1>1, <1>7, SatConstants, ConstantFacts
  <2>3. QED
    BY <1>3, <2>1, <2>2
<1>8. CASE ~isConstant(a) /\ ~isConstant(b) /\ a # b /\ Crossed(a, b)
  <2> DEFINE c == OneSide(a, b)
             d == OtherSide(a, b)
  <2>1. andop_body(rec, a, b) = rec[<<c, d>>]
    BY <1>8, ConstantFacts DEF andop_body
  <2>2. /\ c \in BDD /\ d \in BDD /\ rank(c) + rank(d) < rank(a) + rank(b)
        /\ Sat(c) \cap Sat(d) = C
    BY <1>8, CrossedFacts
  <2> HIDE DEF c, d
  <2>3. rec[<<c, d>>] = ConnectiveOf(AndConn)[<<c, d>>]
    BY <2>2 DEF AgreeBelow, Rank2
  <2>4. AndConn[<<Sat(c), Sat(d)>>] = C
    BY <2>2, SatType, AndConnective DEF SatSets
  <2>5. QED
    BY <2>1, <2>2, <2>3, <2>4 DEF ConnectiveOf
<1>9. CASE ~isConstant(a) /\ ~isConstant(b) /\ a # b /\ ~Crossed(a, b)
  <2>1. andop_body(rec, a, b) = Shannon(rec, a, b)
    BY <1>9, ConstantFacts DEF andop_body
  <2>2. AndConn \in Connectives
    BY AndConnective
  <2>3. AgreeBelow(BDD \X BDD, Rank2(BDD \X BDD), rec, ConnectiveOf(AndConn), <<a, b>>)
    OBVIOUS
  <2>4. Shannon(rec, a, b) = ConnectiveOf(AndConn)[<<a, b>>]
    BY <1>9, <2>2, <2>3, ConnectiveShannon
  <2>5. QED
    BY <1>1, <2>1, <2>4
<1>10. QED
  BY <1>4, <1>5, <1>6, <1>7, <1>8, <1>9, BDDElim

\* andop computes conjunction.
THEOREM AndMeaning ==
  \A a, b \in BDD : andop(a, b) \in BDD /\ Sat(andop(a, b)) = Sat(a) \cap Sat(b)
<1> DEFINE S == BDD \X BDD
           F == ConnectiveOf(AndConn)
           Solves(g) == g = [p \in S |-> andop_body(g, p[1], p[2])]
<1>1. Solves(F)
  <2>1. \A p \in S : andop_body(F, p[1], p[2]) = F[p]
    BY AndStep DEF AgreeBelow
  <2>2. F = [p \in S |-> F[p]]
    BY DEF ConnectiveOf
  <2>3. QED
    BY <2>1, <2>2
<1>2. andop_rec = CHOOSE g : Solves(g)
  BY Zenon DEF andop_rec
<1>3. Solves(andop_rec)
  BY <1>1, <1>2
<1>4. \A p \in S : AgreeBelow(S, Rank2(S), andop_rec, F, p) => andop_rec[p] = F[p]
  BY <1>3, AndStep
<1>5. \A p \in S : andop_rec[p] = F[p]
  <2>1. \A p \in S : Rank2(S)[p] \in Nat
    BY RankTypes
  <2> HIDE DEF S, F
  <2>2. QED
    BY <1>4, <2>1, Agreement
<1>6. ASSUME NEW a \in BDD, NEW b \in BDD
      PROVE  andop(a, b) \in BDD /\ Sat(andop(a, b)) = Sat(a) \cap Sat(b)
  <2>1. Sat(a) \in SatSets /\ Sat(b) \in SatSets
    BY SatType DEF SatSets
  <2>2. andop(a, b) = TreeOf(Sat(a) \cap Sat(b))
    BY <1>5, <2>1, AndConnective DEF andop, ConnectiveOf
  <2>3. Sat(a) \cap Sat(b) \in SUBSET Valuations
    BY <2>1 DEF SatSets
  <2>4. QED
    BY <2>2, <2>3, TreeOfFacts
<1>7. QED
  BY <1>6

\* Disjunction.
OrConn == [p \in SatSets \X SatSets |-> p[1] \cup p[2]]

\* The connective of orop.
LEMMA OrConnective ==
  /\ OrConn \in Connectives
  /\ \A A, B \in SatSets : OrConn[<<A, B>>] = A \cup B
BY DEF OrConn, Connectives, SatSets

\* The body of orop returns what it is meant to when its calls do.
LEMMA OrStep ==
  ASSUME NEW rec, NEW p \in BDD \X BDD,
         AgreeBelow(BDD \X BDD, Rank2(BDD \X BDD), rec, ConnectiveOf(OrConn), p)
  PROVE  orop_body(rec, p[1], p[2]) = ConnectiveOf(OrConn)[p]
<1> PICK a \in BDD, b \in BDD : p = <<a, b>>
  OBVIOUS
<1> DEFINE C == Sat(a) \cup Sat(b)
<1>1. /\ C \in SUBSET Valuations /\ Sat(a) \in SUBSET Valuations /\ Sat(b) \in SUBSET Valuations
      /\ ConnectiveOf(OrConn)[p] = TreeOf(C)
  <2>1. Sat(a) \in SatSets /\ Sat(b) \in SatSets
    BY SatType DEF SatSets
  <2>2. OrConn[<<Sat(a), Sat(b)>>] = C
    BY <2>1, OrConnective
  <2>3. QED
    BY <2>1, <2>2 DEF ConnectiveOf, SatSets
<1>2. SUFFICES orop_body(rec, a, b) = TreeOf(C)
  BY <1>1
<1>3. \A c \in BDD : Sat(c) = C => c = TreeOf(C)
  BY <1>1, TreeOfFacts
<1>4. CASE a = False
  <2>1. orop_body(rec, a, b) = b
    BY <1>4, ConstantFacts DEF orop_body
  <2>2. b \in BDD /\ Sat(b) = C
    BY <1>1, <1>4, SatConstants, ConstantFacts
  <2>3. QED
    BY <1>3, <2>1, <2>2
<1>5. CASE b = False /\ a # False
  <2>1. orop_body(rec, a, b) = a
    BY <1>5, ConstantFacts DEF orop_body
  <2>2. a \in BDD /\ Sat(a) = C
    BY <1>1, <1>5, SatConstants, ConstantFacts
  <2>3. QED
    BY <1>3, <2>1, <2>2
<1>6. CASE (a = True \/ b = True) /\ a # False /\ b # False
  <2>1. orop_body(rec, a, b) = True
    BY <1>6, ConstantFacts DEF orop_body
  <2>2. True \in BDD /\ Sat(True) = C
    BY <1>1, <1>6, SatConstants, ConstantFacts
  <2>3. QED
    BY <1>3, <2>1, <2>2
<1>7. CASE a = b /\ ~isConstant(a)
  <2>1. orop_body(rec, a, b) = a
    BY <1>7, ConstantFacts DEF orop_body
  <2>2. a \in BDD /\ Sat(a) = C
    BY <1>1, <1>7, SatConstants, ConstantFacts
  <2>3. QED
    BY <1>3, <2>1, <2>2
<1>8. CASE ~isConstant(a) /\ ~isConstant(b) /\ a # b /\ Crossed(a, b)
  <2> DEFINE c == OneSide(a, b)
             d == OtherSide(a, b)
  <2>1. orop_body(rec, a, b) = rec[<<c, d>>]
    BY <1>8, ConstantFacts DEF orop_body
  <2>2. /\ c \in BDD /\ d \in BDD /\ rank(c) + rank(d) < rank(a) + rank(b)
        /\ Sat(c) \cup Sat(d) = C
    BY <1>8, CrossedFacts
  <2> HIDE DEF c, d
  <2>3. rec[<<c, d>>] = ConnectiveOf(OrConn)[<<c, d>>]
    BY <2>2 DEF AgreeBelow, Rank2
  <2>4. OrConn[<<Sat(c), Sat(d)>>] = C
    BY <2>2, SatType, OrConnective DEF SatSets
  <2>5. QED
    BY <2>1, <2>2, <2>3, <2>4 DEF ConnectiveOf
<1>9. CASE ~isConstant(a) /\ ~isConstant(b) /\ a # b /\ ~Crossed(a, b)
  <2>1. orop_body(rec, a, b) = Shannon(rec, a, b)
    BY <1>9, ConstantFacts DEF orop_body
  <2>2. OrConn \in Connectives
    BY OrConnective
  <2>3. AgreeBelow(BDD \X BDD, Rank2(BDD \X BDD), rec, ConnectiveOf(OrConn), <<a, b>>)
    OBVIOUS
  <2>4. Shannon(rec, a, b) = ConnectiveOf(OrConn)[<<a, b>>]
    BY <1>9, <2>2, <2>3, ConnectiveShannon
  <2>5. QED
    BY <1>1, <2>1, <2>4
<1>10. QED
  BY <1>4, <1>5, <1>6, <1>7, <1>8, <1>9, BDDElim

\* orop computes disjunction.
THEOREM OrMeaning ==
  \A a, b \in BDD : orop(a, b) \in BDD /\ Sat(orop(a, b)) = Sat(a) \cup Sat(b)
<1> DEFINE S == BDD \X BDD
           F == ConnectiveOf(OrConn)
           Solves(g) == g = [p \in S |-> orop_body(g, p[1], p[2])]
<1>1. Solves(F)
  <2>1. \A p \in S : orop_body(F, p[1], p[2]) = F[p]
    BY OrStep DEF AgreeBelow
  <2>2. F = [p \in S |-> F[p]]
    BY DEF ConnectiveOf
  <2>3. QED
    BY <2>1, <2>2
<1>2. orop_rec = CHOOSE g : Solves(g)
  BY Zenon DEF orop_rec
<1>3. Solves(orop_rec)
  BY <1>1, <1>2
<1>4. \A p \in S : AgreeBelow(S, Rank2(S), orop_rec, F, p) => orop_rec[p] = F[p]
  BY <1>3, OrStep
<1>5. \A p \in S : orop_rec[p] = F[p]
  <2>1. \A p \in S : Rank2(S)[p] \in Nat
    BY RankTypes
  <2> HIDE DEF S, F
  <2>2. QED
    BY <1>4, <2>1, Agreement
<1>6. ASSUME NEW a \in BDD, NEW b \in BDD
      PROVE  orop(a, b) \in BDD /\ Sat(orop(a, b)) = Sat(a) \cup Sat(b)
  <2>1. Sat(a) \in SatSets /\ Sat(b) \in SatSets
    BY SatType DEF SatSets
  <2>2. orop(a, b) = TreeOf(Sat(a) \cup Sat(b))
    BY <1>5, <2>1, OrConnective DEF orop, ConnectiveOf
  <2>3. Sat(a) \cup Sat(b) \in SUBSET Valuations
    BY <2>1 DEF SatSets
  <2>4. QED
    BY <2>2, <2>3, TreeOfFacts
<1>7. QED
  BY <1>6

\* Negation.
NotOf == [a \in BDD |-> TreeOf(Valuations \ Sat(a))]

\* The body of notop returns what it is meant to when its calls do.
LEMMA NotStep ==
  ASSUME NEW rec, NEW a \in BDD, AgreeBelow(BDD, [b \in BDD |-> rank(b)], rec, NotOf, a)
  PROVE  notop_body(rec, a) = NotOf[a]
<1> DEFINE C == Valuations \ Sat(a)
<1>1. C \in SUBSET Valuations /\ NotOf[a] = TreeOf(C)
  BY DEF NotOf
<1>2. CASE a \in {False, True}
  <2>1. \A c \in BDD : Sat(c) = C => c = TreeOf(C)
    BY <1>1, TreeOfFacts
  <2>2. CASE a = False
    BY <1>1, <2>1, <2>2, SatConstants, ConstantFacts DEF notop_body
  <2>3. CASE a = True
    BY <1>1, <2>1, <2>3, SatConstants, ConstantFacts DEF notop_body
  <2>4. QED
    BY <1>2, <2>2, <2>3
<1>3. CASE IsNode(a)
  <2> DEFINE m == var(a)
  <2>1. m \in Vars /\ StartsAt(a, m) /\ cf_left(a, m) = left(a) /\ cf_right(a, m) = right(a)
    BY <1>3, NumVarsAssumption DEF IsNode, StartsAt, cf_left, cf_right, Vars
  <2>2. notop_body(rec, a) = find(m, rec[left(a)], rec[right(a)])
    BY <1>3, BDDElim, ConstantFacts DEF notop_body
  <2> HIDE DEF m
  <2>3. /\ left(a) \in BDD /\ right(a) \in BDD
        /\ Sat(left(a)) = Low(Sat(a), m) /\ Sat(right(a)) = High(Sat(a), m)
        /\ rank(left(a)) < rank(a) /\ rank(right(a)) < rank(a)
    <3>1. left(a) \in BDD /\ right(a) \in BDD /\ rank(left(a)) < rank(a) /\ rank(right(a)) < rank(a)
      BY <1>3, RankFacts DEF IsNode
    <3>2. QED
      BY <2>1, <3>1, CofactorFacts
  <2>4. rec[left(a)] = TreeOf(Valuations \ Low(Sat(a), m)) /\
        rec[right(a)] = TreeOf(Valuations \ High(Sat(a), m))
    BY <2>3 DEF AgreeBelow, NotOf
  <2>5. Low(C, m) = Valuations \ Low(Sat(a), m) /\ High(C, m) = Valuations \ High(Sat(a), m)
    BY <2>1, Update DEF Low, High
  <2>6. From(C, m)
    <3>1. From(Sat(a), m)
      BY <2>1, SatFrom DEF Vars
    <3>2. QED
      BY <3>1 DEF From
  <2> HIDE DEF C
  <2>7. find(m, TreeOf(Low(C, m)), TreeOf(High(C, m))) = TreeOf(C)
    BY <1>1, <2>1, <2>6, FindTree
  <2>8. QED
    BY <1>1, <2>2, <2>4, <2>5, <2>7
<1>4. QED
  BY <1>2, <1>3, BDDElim

\* notop computes negation.
THEOREM NotMeaning ==
  \A a \in BDD : notop(a) \in BDD /\ Sat(notop(a)) = Valuations \ Sat(a)
<1> DEFINE R == [b \in BDD |-> rank(b)]
           Solves(g) == g = [a \in BDD |-> notop_body(g, a)]
<1>1. Solves(NotOf)
  <2>1. \A a \in BDD : notop_body(NotOf, a) = NotOf[a]
    BY NotStep DEF AgreeBelow
  <2>2. NotOf = [a \in BDD |-> NotOf[a]]
    BY DEF NotOf
  <2>3. QED
    BY <2>1, <2>2
<1>2. notop_rec = CHOOSE g : Solves(g)
  BY Zenon DEF notop_rec
<1>3. Solves(notop_rec)
  BY <1>1, <1>2
<1>4. \A a \in BDD : AgreeBelow(BDD, R, notop_rec, NotOf, a) => notop_rec[a] = NotOf[a]
  <2> TAKE a \in BDD
  <2>1. notop_rec[a] = notop_body(notop_rec, a)
    BY <1>3
  <2>2. QED
    BY <2>1, NotStep
<1>5. \A a \in BDD : notop_rec[a] = NotOf[a]
  <2>1. \A a \in BDD : R[a] \in Nat
    BY RankFacts
  <2> HIDE DEF R
  <2>2. QED
    BY <1>4, <2>1, Agreement
<1>6. \A a \in BDD : notop(a) = TreeOf(Valuations \ Sat(a))
  BY <1>5 DEF notop, NotOf
<1>7. QED
  BY <1>6, TreeOfFacts

\* Equivalence.
EquivConn == [p \in SatSets \X SatSets |-> Valuations \ ((p[1] \ p[2]) \cup (p[2] \ p[1]))]

\* The connective of equiv.
LEMMA EquivConnective ==
  /\ EquivConn \in Connectives
  /\ \A A, B \in SatSets : EquivConn[<<A, B>>] = Valuations \ ((A \ B) \cup (B \ A))
BY DEF EquivConn, Connectives, SatSets

\* The body of equiv returns what it is meant to when its calls do.
LEMMA EquivStep ==
  ASSUME NEW rec, NEW p \in BDD \X BDD,
         AgreeBelow(BDD \X BDD, Rank2(BDD \X BDD), rec, ConnectiveOf(EquivConn), p)
  PROVE  equiv_body(rec, p[1], p[2]) = ConnectiveOf(EquivConn)[p]
<1> PICK a \in BDD, b \in BDD : p = <<a, b>>
  OBVIOUS
<1> DEFINE C == Valuations \ ((Sat(a) \ Sat(b)) \cup (Sat(b) \ Sat(a)))
<1>1. /\ C \in SUBSET Valuations /\ Sat(a) \in SUBSET Valuations /\ Sat(b) \in SUBSET Valuations
      /\ ConnectiveOf(EquivConn)[p] = TreeOf(C)
  <2>1. Sat(a) \in SatSets /\ Sat(b) \in SatSets
    BY SatType DEF SatSets
  <2>2. EquivConn[<<Sat(a), Sat(b)>>] = C
    BY <2>1, EquivConnective
  <2>3. QED
    BY <2>1, <2>2 DEF ConnectiveOf, SatSets
<1>2. SUFFICES equiv_body(rec, a, b) = TreeOf(C)
  BY <1>1
<1>3. \A c \in BDD : Sat(c) = C => c = TreeOf(C)
  BY <1>1, TreeOfFacts
<1>4. CASE a = True
  <2>1. equiv_body(rec, a, b) = b
    BY <1>4, ConstantFacts DEF equiv_body
  <2>2. b \in BDD /\ Sat(b) = C
    BY <1>1, <1>4, SatConstants, ConstantFacts, NotMeaning
  <2>3. QED
    BY <1>3, <2>1, <2>2
<1>5. CASE b = True /\ a # True
  <2>1. equiv_body(rec, a, b) = a
    BY <1>5, ConstantFacts DEF equiv_body
  <2>2. a \in BDD /\ Sat(a) = C
    BY <1>1, <1>5, SatConstants, ConstantFacts, NotMeaning
  <2>3. QED
    BY <1>3, <2>1, <2>2
<1>6. CASE b = False /\ a # True
  <2>1. equiv_body(rec, a, b) = notop(a)
    BY <1>6, ConstantFacts DEF equiv_body
  <2>2. notop(a) \in BDD /\ Sat(notop(a)) = C
    BY <1>1, <1>6, SatConstants, ConstantFacts, NotMeaning
  <2>3. QED
    BY <1>3, <2>1, <2>2
<1>7. CASE a = False /\ ~isConstant(b)
  <2>1. equiv_body(rec, a, b) = notop(b)
    BY <1>7, ConstantFacts DEF equiv_body
  <2>2. notop(b) \in BDD /\ Sat(notop(b)) = C
    BY <1>1, <1>7, SatConstants, ConstantFacts, NotMeaning
  <2>3. QED
    BY <1>3, <2>1, <2>2
<1>8. CASE a = b /\ ~isConstant(a)
  <2>1. equiv_body(rec, a, b) = True
    BY <1>8, ConstantFacts DEF equiv_body
  <2>2. True \in BDD /\ Sat(True) = C
    BY <1>1, <1>8, SatConstants, ConstantFacts, NotMeaning
  <2>3. QED
    BY <1>3, <2>1, <2>2
<1>9. CASE ~isConstant(a) /\ ~isConstant(b) /\ a # b
  <2>1. equiv_body(rec, a, b) = Shannon(rec, a, b)
    BY <1>9, ConstantFacts DEF equiv_body
  <2>2. EquivConn \in Connectives
    BY EquivConnective
  <2>3. AgreeBelow(BDD \X BDD, Rank2(BDD \X BDD), rec, ConnectiveOf(EquivConn), <<a, b>>)
    OBVIOUS
  <2>4. Shannon(rec, a, b) = ConnectiveOf(EquivConn)[<<a, b>>]
    BY <1>9, <2>2, <2>3, ConnectiveShannon
  <2>5. QED
    BY <1>1, <2>1, <2>4
<1>10. QED
  BY <1>4, <1>5, <1>6, <1>7, <1>8, <1>9, BDDElim

\* equiv computes equivalence.
THEOREM EquivMeaning ==
  \A a, b \in BDD : equiv(a, b) \in BDD /\ Sat(equiv(a, b)) = Valuations \ ((Sat(a) \ Sat(b)) \cup (Sat(b) \ Sat(a)))
<1> DEFINE S == BDD \X BDD
           F == ConnectiveOf(EquivConn)
           Solves(g) == g = [p \in S |-> equiv_body(g, p[1], p[2])]
<1>1. Solves(F)
  <2>1. \A p \in S : equiv_body(F, p[1], p[2]) = F[p]
    BY EquivStep DEF AgreeBelow
  <2>2. F = [p \in S |-> F[p]]
    BY DEF ConnectiveOf
  <2>3. QED
    BY <2>1, <2>2
<1>2. equiv_rec = CHOOSE g : Solves(g)
  BY Zenon DEF equiv_rec
<1>3. Solves(equiv_rec)
  BY <1>1, <1>2
<1>4. \A p \in S : AgreeBelow(S, Rank2(S), equiv_rec, F, p) => equiv_rec[p] = F[p]
  BY <1>3, EquivStep
<1>5. \A p \in S : equiv_rec[p] = F[p]
  <2>1. \A p \in S : Rank2(S)[p] \in Nat
    BY RankTypes
  <2> HIDE DEF S, F
  <2>2. QED
    BY <1>4, <2>1, Agreement
<1>6. ASSUME NEW a \in BDD, NEW b \in BDD
      PROVE  equiv(a, b) \in BDD /\ Sat(equiv(a, b)) = Valuations \ ((Sat(a) \ Sat(b)) \cup (Sat(b) \ Sat(a)))
  <2>1. Sat(a) \in SatSets /\ Sat(b) \in SatSets
    BY SatType DEF SatSets
  <2>2. equiv(a, b) = TreeOf(Valuations \ ((Sat(a) \ Sat(b)) \cup (Sat(b) \ Sat(a))))
    BY <1>5, <2>1, EquivConnective DEF equiv, ConnectiveOf
  <2>3. Valuations \ ((Sat(a) \ Sat(b)) \cup (Sat(b) \ Sat(a))) \in SUBSET Valuations
    BY <2>1 DEF SatSets
  <2>4. QED
    BY <2>2, <2>3, TreeOfFacts
<1>7. QED
  BY <1>6

\* Exclusive disjunction.
NotequivConn == [p \in SatSets \X SatSets |-> (p[1] \ p[2]) \cup (p[2] \ p[1])]

\* The connective of notequiv.
LEMMA NotequivConnective ==
  /\ NotequivConn \in Connectives
  /\ \A A, B \in SatSets : NotequivConn[<<A, B>>] = (A \ B) \cup (B \ A)
BY DEF NotequivConn, Connectives, SatSets

\* The body of notequiv returns what it is meant to when its calls do.
LEMMA NotequivStep ==
  ASSUME NEW rec, NEW p \in BDD \X BDD,
         AgreeBelow(BDD \X BDD, Rank2(BDD \X BDD), rec, ConnectiveOf(NotequivConn), p)
  PROVE  notequiv_body(rec, p[1], p[2]) = ConnectiveOf(NotequivConn)[p]
<1> PICK a \in BDD, b \in BDD : p = <<a, b>>
  OBVIOUS
<1> DEFINE C == (Sat(a) \ Sat(b)) \cup (Sat(b) \ Sat(a))
<1>1. /\ C \in SUBSET Valuations /\ Sat(a) \in SUBSET Valuations /\ Sat(b) \in SUBSET Valuations
      /\ ConnectiveOf(NotequivConn)[p] = TreeOf(C)
  <2>1. Sat(a) \in SatSets /\ Sat(b) \in SatSets
    BY SatType DEF SatSets
  <2>2. NotequivConn[<<Sat(a), Sat(b)>>] = C
    BY <2>1, NotequivConnective
  <2>3. QED
    BY <2>1, <2>2 DEF ConnectiveOf, SatSets
<1>2. SUFFICES notequiv_body(rec, a, b) = TreeOf(C)
  BY <1>1
<1>3. \A c \in BDD : Sat(c) = C => c = TreeOf(C)
  BY <1>1, TreeOfFacts
<1>4. CASE a = False
  <2>1. notequiv_body(rec, a, b) = b
    BY <1>4, ConstantFacts DEF notequiv_body
  <2>2. b \in BDD /\ Sat(b) = C
    BY <1>1, <1>4, SatConstants, ConstantFacts, NotMeaning
  <2>3. QED
    BY <1>3, <2>1, <2>2
<1>5. CASE b = False /\ a # False
  <2>1. notequiv_body(rec, a, b) = a
    BY <1>5, ConstantFacts DEF notequiv_body
  <2>2. a \in BDD /\ Sat(a) = C
    BY <1>1, <1>5, SatConstants, ConstantFacts, NotMeaning
  <2>3. QED
    BY <1>3, <2>1, <2>2
<1>6. CASE b = True /\ a # False
  <2>1. notequiv_body(rec, a, b) = notop(a)
    BY <1>6, ConstantFacts DEF notequiv_body
  <2>2. notop(a) \in BDD /\ Sat(notop(a)) = C
    BY <1>1, <1>6, SatConstants, ConstantFacts, NotMeaning
  <2>3. QED
    BY <1>3, <2>1, <2>2
<1>7. CASE a = True /\ ~isConstant(b)
  <2>1. notequiv_body(rec, a, b) = notop(b)
    BY <1>7, ConstantFacts DEF notequiv_body
  <2>2. notop(b) \in BDD /\ Sat(notop(b)) = C
    BY <1>1, <1>7, SatConstants, ConstantFacts, NotMeaning
  <2>3. QED
    BY <1>3, <2>1, <2>2
<1>8. CASE a = b /\ ~isConstant(a)
  <2>1. notequiv_body(rec, a, b) = False
    BY <1>8, ConstantFacts DEF notequiv_body
  <2>2. False \in BDD /\ Sat(False) = C
    BY <1>1, <1>8, SatConstants, ConstantFacts, NotMeaning
  <2>3. QED
    BY <1>3, <2>1, <2>2
<1>9. CASE ~isConstant(a) /\ ~isConstant(b) /\ a # b
  <2>1. notequiv_body(rec, a, b) = Shannon(rec, a, b)
    BY <1>9, ConstantFacts DEF notequiv_body
  <2>2. NotequivConn \in Connectives
    BY NotequivConnective
  <2>3. AgreeBelow(BDD \X BDD, Rank2(BDD \X BDD), rec, ConnectiveOf(NotequivConn), <<a, b>>)
    OBVIOUS
  <2>4. Shannon(rec, a, b) = ConnectiveOf(NotequivConn)[<<a, b>>]
    BY <1>9, <2>2, <2>3, ConnectiveShannon
  <2>5. QED
    BY <1>1, <2>1, <2>4
<1>10. QED
  BY <1>4, <1>5, <1>6, <1>7, <1>8, <1>9, BDDElim

\* notequiv computes exclusive or.
THEOREM NotequivMeaning ==
  \A a, b \in BDD : notequiv(a, b) \in BDD /\ Sat(notequiv(a, b)) = (Sat(a) \ Sat(b)) \cup (Sat(b) \ Sat(a))
<1> DEFINE S == BDD \X BDD
           F == ConnectiveOf(NotequivConn)
           Solves(g) == g = [p \in S |-> notequiv_body(g, p[1], p[2])]
<1>1. Solves(F)
  <2>1. \A p \in S : notequiv_body(F, p[1], p[2]) = F[p]
    BY NotequivStep DEF AgreeBelow
  <2>2. F = [p \in S |-> F[p]]
    BY DEF ConnectiveOf
  <2>3. QED
    BY <2>1, <2>2
<1>2. notequiv_rec = CHOOSE g : Solves(g)
  BY Zenon DEF notequiv_rec
<1>3. Solves(notequiv_rec)
  BY <1>1, <1>2
<1>4. \A p \in S : AgreeBelow(S, Rank2(S), notequiv_rec, F, p) => notequiv_rec[p] = F[p]
  BY <1>3, NotequivStep
<1>5. \A p \in S : notequiv_rec[p] = F[p]
  <2>1. \A p \in S : Rank2(S)[p] \in Nat
    BY RankTypes
  <2> HIDE DEF S, F
  <2>2. QED
    BY <1>4, <2>1, Agreement
<1>6. ASSUME NEW a \in BDD, NEW b \in BDD
      PROVE  notequiv(a, b) \in BDD /\ Sat(notequiv(a, b)) = (Sat(a) \ Sat(b)) \cup (Sat(b) \ Sat(a))
  <2>1. Sat(a) \in SatSets /\ Sat(b) \in SatSets
    BY SatType DEF SatSets
  <2>2. notequiv(a, b) = TreeOf((Sat(a) \ Sat(b)) \cup (Sat(b) \ Sat(a)))
    BY <1>5, <2>1, NotequivConnective DEF notequiv, ConnectiveOf
  <2>3. (Sat(a) \ Sat(b)) \cup (Sat(b) \ Sat(a)) \in SUBSET Valuations
    BY <2>1 DEF SatSets
  <2>4. QED
    BY <2>2, <2>3, TreeOfFacts
<1>7. QED
  BY <1>6

\* Implication.
ImpliesConn == [p \in SatSets \X SatSets |-> Valuations \ (p[1] \ p[2])]

\* The connective of implies.
LEMMA ImpliesConnective ==
  /\ ImpliesConn \in Connectives
  /\ \A A, B \in SatSets : ImpliesConn[<<A, B>>] = Valuations \ (A \ B)
BY DEF ImpliesConn, Connectives, SatSets

\* The body of implies returns what it is meant to when its calls do.
LEMMA ImpliesStep ==
  ASSUME NEW rec, NEW p \in BDD \X BDD,
         AgreeBelow(BDD \X BDD, Rank2(BDD \X BDD), rec, ConnectiveOf(ImpliesConn), p)
  PROVE  implies_body(rec, p[1], p[2]) = ConnectiveOf(ImpliesConn)[p]
<1> PICK a \in BDD, b \in BDD : p = <<a, b>>
  OBVIOUS
<1> DEFINE C == Valuations \ (Sat(a) \ Sat(b))
<1>1. /\ C \in SUBSET Valuations /\ Sat(a) \in SUBSET Valuations /\ Sat(b) \in SUBSET Valuations
      /\ ConnectiveOf(ImpliesConn)[p] = TreeOf(C)
  <2>1. Sat(a) \in SatSets /\ Sat(b) \in SatSets
    BY SatType DEF SatSets
  <2>2. ImpliesConn[<<Sat(a), Sat(b)>>] = C
    BY <2>1, ImpliesConnective
  <2>3. QED
    BY <2>1, <2>2 DEF ConnectiveOf, SatSets
<1>2. SUFFICES implies_body(rec, a, b) = TreeOf(C)
  BY <1>1
<1>3. \A c \in BDD : Sat(c) = C => c = TreeOf(C)
  BY <1>1, TreeOfFacts
<1>4. CASE a = True
  <2>1. implies_body(rec, a, b) = b
    BY <1>4, ConstantFacts DEF implies_body
  <2>2. b \in BDD /\ Sat(b) = C
    BY <1>1, <1>4, SatConstants, ConstantFacts, NotMeaning
  <2>3. QED
    BY <1>3, <2>1, <2>2
<1>5. CASE (b = True \/ a = False) /\ a # True
  <2>1. implies_body(rec, a, b) = True
    BY <1>5, ConstantFacts DEF implies_body
  <2>2. True \in BDD /\ Sat(True) = C
    BY <1>1, <1>5, SatConstants, ConstantFacts, NotMeaning
  <2>3. QED
    BY <1>3, <2>1, <2>2
<1>6. CASE b = False /\ a # True /\ a # False
  <2>1. implies_body(rec, a, b) = notop(a)
    BY <1>6, ConstantFacts DEF implies_body
  <2>2. notop(a) \in BDD /\ Sat(notop(a)) = C
    BY <1>1, <1>6, SatConstants, ConstantFacts, NotMeaning
  <2>3. QED
    BY <1>3, <2>1, <2>2
<1>7. CASE a = b /\ ~isConstant(a)
  <2>1. implies_body(rec, a, b) = True
    BY <1>7, ConstantFacts DEF implies_body
  <2>2. True \in BDD /\ Sat(True) = C
    BY <1>1, <1>7, SatConstants, ConstantFacts, NotMeaning
  <2>3. QED
    BY <1>3, <2>1, <2>2
<1>8. CASE ~isConstant(a) /\ ~isConstant(b) /\ a # b
  <2>1. implies_body(rec, a, b) = Shannon(rec, a, b)
    BY <1>8, ConstantFacts DEF implies_body
  <2>2. ImpliesConn \in Connectives
    BY ImpliesConnective
  <2>3. AgreeBelow(BDD \X BDD, Rank2(BDD \X BDD), rec, ConnectiveOf(ImpliesConn), <<a, b>>)
    OBVIOUS
  <2>4. Shannon(rec, a, b) = ConnectiveOf(ImpliesConn)[<<a, b>>]
    BY <1>8, <2>2, <2>3, ConnectiveShannon
  <2>5. QED
    BY <1>1, <2>1, <2>4
<1>9. QED
  BY <1>4, <1>5, <1>6, <1>7, <1>8, BDDElim

\* implies computes implication.
THEOREM ImpliesMeaning ==
  \A a, b \in BDD : implies(a, b) \in BDD /\ Sat(implies(a, b)) = Valuations \ (Sat(a) \ Sat(b))
<1> DEFINE S == BDD \X BDD
           F == ConnectiveOf(ImpliesConn)
           Solves(g) == g = [p \in S |-> implies_body(g, p[1], p[2])]
<1>1. Solves(F)
  <2>1. \A p \in S : implies_body(F, p[1], p[2]) = F[p]
    BY ImpliesStep DEF AgreeBelow
  <2>2. F = [p \in S |-> F[p]]
    BY DEF ConnectiveOf
  <2>3. QED
    BY <2>1, <2>2
<1>2. implies_rec = CHOOSE g : Solves(g)
  BY Zenon DEF implies_rec
<1>3. Solves(implies_rec)
  BY <1>1, <1>2
<1>4. \A p \in S : AgreeBelow(S, Rank2(S), implies_rec, F, p) => implies_rec[p] = F[p]
  BY <1>3, ImpliesStep
<1>5. \A p \in S : implies_rec[p] = F[p]
  <2>1. \A p \in S : Rank2(S)[p] \in Nat
    BY RankTypes
  <2> HIDE DEF S, F
  <2>2. QED
    BY <1>4, <2>1, Agreement
<1>6. ASSUME NEW a \in BDD, NEW b \in BDD
      PROVE  implies(a, b) \in BDD /\ Sat(implies(a, b)) = Valuations \ (Sat(a) \ Sat(b))
  <2>1. Sat(a) \in SatSets /\ Sat(b) \in SatSets
    BY SatType DEF SatSets
  <2>2. implies(a, b) = TreeOf(Valuations \ (Sat(a) \ Sat(b)))
    BY <1>5, <2>1, ImpliesConnective DEF implies, ConnectiveOf
  <2>3. Valuations \ (Sat(a) \ Sat(b)) \in SUBSET Valuations
    BY <2>1 DEF SatSets
  <2>4. QED
    BY <2>2, <2>3, TreeOfFacts
<1>7. QED
  BY <1>6

\* Conjunction with the negation.
NotimpliesConn == [p \in SatSets \X SatSets |-> p[1] \ p[2]]

\* The connective of notimplies.
LEMMA NotimpliesConnective ==
  /\ NotimpliesConn \in Connectives
  /\ \A A, B \in SatSets : NotimpliesConn[<<A, B>>] = A \ B
BY DEF NotimpliesConn, Connectives, SatSets

\* The body of notimplies returns what it is meant to when its calls do.
LEMMA NotimpliesStep ==
  ASSUME NEW rec, NEW p \in BDD \X BDD,
         AgreeBelow(BDD \X BDD, Rank2(BDD \X BDD), rec, ConnectiveOf(NotimpliesConn), p)
  PROVE  notimplies_body(rec, p[1], p[2]) = ConnectiveOf(NotimpliesConn)[p]
<1> PICK a \in BDD, b \in BDD : p = <<a, b>>
  OBVIOUS
<1> DEFINE C == Sat(a) \ Sat(b)
<1>1. /\ C \in SUBSET Valuations /\ Sat(a) \in SUBSET Valuations /\ Sat(b) \in SUBSET Valuations
      /\ ConnectiveOf(NotimpliesConn)[p] = TreeOf(C)
  <2>1. Sat(a) \in SatSets /\ Sat(b) \in SatSets
    BY SatType DEF SatSets
  <2>2. NotimpliesConn[<<Sat(a), Sat(b)>>] = C
    BY <2>1, NotimpliesConnective
  <2>3. QED
    BY <2>1, <2>2 DEF ConnectiveOf, SatSets
<1>2. SUFFICES notimplies_body(rec, a, b) = TreeOf(C)
  BY <1>1
<1>3. \A c \in BDD : Sat(c) = C => c = TreeOf(C)
  BY <1>1, TreeOfFacts
<1>4. CASE a = True
  <2>1. notimplies_body(rec, a, b) = notop(b)
    BY <1>4, ConstantFacts DEF notimplies_body
  <2>2. notop(b) \in BDD /\ Sat(notop(b)) = C
    BY <1>1, <1>4, SatConstants, ConstantFacts, NotMeaning
  <2>3. QED
    BY <1>3, <2>1, <2>2
<1>5. CASE (a = False \/ b = True) /\ a # True
  <2>1. notimplies_body(rec, a, b) = False
    BY <1>5, ConstantFacts DEF notimplies_body
  <2>2. False \in BDD /\ Sat(False) = C
    BY <1>1, <1>5, SatConstants, ConstantFacts, NotMeaning
  <2>3. QED
    BY <1>3, <2>1, <2>2
<1>6. CASE b = False /\ ~isConstant(a)
  <2>1. notimplies_body(rec, a, b) = a
    BY <1>6, ConstantFacts DEF notimplies_body
  <2>2. a \in BDD /\ Sat(a) = C
    BY <1>1, <1>6, SatConstants, ConstantFacts, NotMeaning
  <2>3. QED
    BY <1>3, <2>1, <2>2
<1>7. CASE a = b /\ ~isConstant(a)
  <2>1. notimplies_body(rec, a, b) = False
    BY <1>7, ConstantFacts DEF notimplies_body
  <2>2. False \in BDD /\ Sat(False) = C
    BY <1>1, <1>7, SatConstants, ConstantFacts, NotMeaning
  <2>3. QED
    BY <1>3, <2>1, <2>2
<1>8. CASE ~isConstant(a) /\ ~isConstant(b) /\ a # b
  <2>1. notimplies_body(rec, a, b) = Shannon(rec, a, b)
    BY <1>8, ConstantFacts DEF notimplies_body
  <2>2. NotimpliesConn \in Connectives
    BY NotimpliesConnective
  <2>3. AgreeBelow(BDD \X BDD, Rank2(BDD \X BDD), rec, ConnectiveOf(NotimpliesConn), <<a, b>>)
    OBVIOUS
  <2>4. Shannon(rec, a, b) = ConnectiveOf(NotimpliesConn)[<<a, b>>]
    BY <1>8, <2>2, <2>3, ConnectiveShannon
  <2>5. QED
    BY <1>1, <2>1, <2>4
<1>9. QED
  BY <1>4, <1>5, <1>6, <1>7, <1>8, BDDElim

\* notimplies computes "a and not b".
THEOREM NotimpliesMeaning ==
  \A a, b \in BDD : notimplies(a, b) \in BDD /\ Sat(notimplies(a, b)) = Sat(a) \ Sat(b)
<1> DEFINE S == BDD \X BDD
           F == ConnectiveOf(NotimpliesConn)
           Solves(g) == g = [p \in S |-> notimplies_body(g, p[1], p[2])]
<1>1. Solves(F)
  <2>1. \A p \in S : notimplies_body(F, p[1], p[2]) = F[p]
    BY NotimpliesStep DEF AgreeBelow
  <2>2. F = [p \in S |-> F[p]]
    BY DEF ConnectiveOf
  <2>3. QED
    BY <2>1, <2>2
<1>2. notimplies_rec = CHOOSE g : Solves(g)
  BY Zenon DEF notimplies_rec
<1>3. Solves(notimplies_rec)
  BY <1>1, <1>2
<1>4. \A p \in S : AgreeBelow(S, Rank2(S), notimplies_rec, F, p) => notimplies_rec[p] = F[p]
  BY <1>3, NotimpliesStep
<1>5. \A p \in S : notimplies_rec[p] = F[p]
  <2>1. \A p \in S : Rank2(S)[p] \in Nat
    BY RankTypes
  <2> HIDE DEF S, F
  <2>2. QED
    BY <1>4, <2>1, Agreement
<1>6. ASSUME NEW a \in BDD, NEW b \in BDD
      PROVE  notimplies(a, b) \in BDD /\ Sat(notimplies(a, b)) = Sat(a) \ Sat(b)
  <2>1. Sat(a) \in SatSets /\ Sat(b) \in SatSets
    BY SatType DEF SatSets
  <2>2. notimplies(a, b) = TreeOf(Sat(a) \ Sat(b))
    BY <1>5, <2>1, NotimpliesConnective DEF notimplies, ConnectiveOf
  <2>3. Sat(a) \ Sat(b) \in SUBSET Valuations
    BY <2>1 DEF SatSets
  <2>4. QED
    BY <2>2, <2>3, TreeOfFacts
<1>7. QED
  BY <1>6

\* If-then-else.
IteSat(A, B, C) == (A \cap B) \cup (C \ A)

\* The cofactors of three operands with respect to the first of their variables.
LEMMA MinVar3Facts ==
  ASSUME NEW a \in BDD, NEW b \in BDD, NEW c \in BDD,
         ~isConstant(a) \/ ~isConstant(b) \/ ~isConstant(c), NEW m, m = minVar3(a, b, c)
  PROVE  /\ m \in Vars
         /\ \A d \in {a, b, c} :
              /\ cf_left(d, m) \in BDD /\ cf_right(d, m) \in BDD /\ From(Sat(d), m)
              /\ Sat(cf_left(d, m)) = Low(Sat(d), m) /\ Sat(cf_right(d, m)) = High(Sat(d), m)
         /\ rank(cf_left(a, m)) + rank(cf_left(b, m)) + rank(cf_left(c, m))
              < rank(a) + rank(b) + rank(c)
         /\ rank(cf_right(a, m)) + rank(cf_right(b, m)) + rank(cf_right(c, m))
              < rank(a) + rank(b) + rank(c)
<1> USE NumVarsAssumption
<1>1. /\ m \in Vars /\ StartsAt(a, m) /\ StartsAt(b, m) /\ StartsAt(c, m)
      /\ m = var(a) \/ m = var(b) \/ m = var(c)
  <2>1. CASE isConstant(a) \/ isConstant(b) \/ isConstant(c)
    <3>1. \A d \in BDD : ~isConstant(d) => var(d) \in Vars
      BY BDDElim DEF IsNode
    <3>2. QED
      BY <2>1, <3>1 DEF minVar3, minVar, StartsAt, Vars
  <2>2. CASE ~isConstant(a) /\ ~isConstant(b) /\ ~isConstant(c)
    <3>1. var(a) \in Vars /\ var(b) \in Vars /\ var(c) \in Vars
      BY <2>2, BDDElim DEF IsNode
    <3>2. m = Min({var(a), var(b), var(c)})
      BY <2>2 DEF minVar3
    <3>3. \E i \in {var(a), var(b), var(c)} : \A j \in {var(a), var(b), var(c)} : i <= j
      BY <3>1 DEF Vars
    <3>4. m \in {var(a), var(b), var(c)} /\ \A j \in {var(a), var(b), var(c)} : m <= j
      BY <3>2, <3>3 DEF Min
    <3>5. QED
      BY <3>1, <3>4 DEF StartsAt
  <2>3. QED
    BY <2>1, <2>2
<1>2. \A d \in {a, b, c} :
        /\ cf_left(d, m) \in BDD /\ cf_right(d, m) \in BDD /\ From(Sat(d), m)
        /\ Sat(cf_left(d, m)) = Low(Sat(d), m) /\ Sat(cf_right(d, m)) = High(Sat(d), m)
        /\ rank(cf_left(d, m)) <= rank(d) /\ rank(cf_right(d, m)) <= rank(d)
        /\ m = var(d) => rank(cf_left(d, m)) < rank(d) /\ rank(cf_right(d, m)) < rank(d)
        /\ rank(d) \in Nat /\ rank(cf_left(d, m)) \in Nat /\ rank(cf_right(d, m)) \in Nat
  <2> TAKE d \in {a, b, c}
  <2>1. d \in BDD /\ StartsAt(d, m) /\ m \in Int
    BY <1>1 DEF Vars
  <2>2. From(Sat(d), m)
    BY <2>1, SatFrom
  <2>3. QED
    BY <1>1, <2>1, <2>2, CofactorFacts, RankFacts
<1>3. /\ rank(cf_left(a, m)) + rank(cf_left(b, m)) + rank(cf_left(c, m))
           < rank(a) + rank(b) + rank(c)
      /\ rank(cf_right(a, m)) + rank(cf_right(b, m)) + rank(cf_right(c, m))
           < rank(a) + rank(b) + rank(c)
  BY <1>1, <1>2
<1>4. QED
  BY <1>1, <1>2, <1>3

\* The choice between two functions goes through cofactors.
LEMMA IteSatFacts ==
  ASSUME NEW A \in SatSets, NEW B \in SatSets, NEW C \in SatSets
  PROVE  /\ IteSat(A, B, C) \in SatSets
         /\ \A m \in Vars :
              /\ Low(IteSat(A, B, C), m) = IteSat(Low(A, m), Low(B, m), Low(C, m))
              /\ High(IteSat(A, B, C), m) = IteSat(High(A, m), High(B, m), High(C, m))
         /\ \A m : From(A, m) /\ From(B, m) /\ From(C, m) => From(IteSat(A, B, C), m)
<1>1. IteSat(A, B, C) \in SatSets
  BY DEF IteSat, SatSets
<1>2. \A m \in Vars :
        /\ Low(IteSat(A, B, C), m) = IteSat(Low(A, m), Low(B, m), Low(C, m))
        /\ High(IteSat(A, B, C), m) = IteSat(High(A, m), High(B, m), High(C, m))
  BY DEF IteSat, Low, High
<1>3. \A m : From(A, m) /\ From(B, m) /\ From(C, m) => From(IteSat(A, B, C), m)
  BY DEF IteSat, From
<1>4. QED
  BY <1>1, <1>2, <1>3

IteOf ==
  [p \in BDD \X BDD \X BDD |-> TreeOf(IteSat(Sat(p[1]), Sat(p[2]), Sat(p[3])))]

\* The body of ite returns what it is meant to when its calls do.
LEMMA IteStep ==
  ASSUME NEW rec, NEW p \in BDD \X BDD \X BDD,
         AgreeBelow(BDD \X BDD \X BDD, Rank3(BDD \X BDD \X BDD), rec, IteOf, p)
  PROVE  ite_body(rec, p[1], p[2], p[3]) = IteOf[p]
<1> PICK a \in BDD, b \in BDD, c \in BDD : p = <<a, b, c>>
  OBVIOUS
<1> DEFINE C == IteSat(Sat(a), Sat(b), Sat(c))
<1>1. /\ C \in SUBSET Valuations /\ IteOf[p] = TreeOf(C)
      /\ Sat(a) \in SatSets /\ Sat(b) \in SatSets /\ Sat(c) \in SatSets
  BY SatType DEF IteOf, IteSat, SatSets
<1>2. SUFFICES ite_body(rec, a, b, c) = TreeOf(C)
  BY <1>1
<1>3. \A d \in BDD : Sat(d) = C => d = TreeOf(C)
  BY <1>1, TreeOfFacts
<1>4. CASE a = False
  <2>1. ite_body(rec, a, b, c) = c
    BY <1>4, ConstantFacts DEF ite_body
  <2>2. c \in BDD /\ Sat(c) = C
    BY <1>1, <1>4, SatConstants, ConstantFacts DEF IteSat, SatSets
  <2>3. QED
    BY <1>3, <2>1, <2>2
<1>5. CASE a = True
  <2>1. ite_body(rec, a, b, c) = b
    BY <1>5, ConstantFacts DEF ite_body
  <2>2. b \in BDD /\ Sat(b) = C
    BY <1>1, <1>5, SatConstants, ConstantFacts DEF IteSat, SatSets
  <2>3. QED
    BY <1>3, <2>1, <2>2
<1>6. CASE b = False /\ ~isConstant(a)
  <2>1. ite_body(rec, a, b, c) = notimplies(c, a)
    BY <1>6, ConstantFacts DEF ite_body
  <2>2. notimplies(c, a) \in BDD /\ Sat(notimplies(c, a)) = C
    BY <1>1, <1>6, SatConstants, ConstantFacts, NotimpliesMeaning DEF IteSat, SatSets
  <2>3. QED
    BY <1>3, <2>1, <2>2
<1>7. CASE b = True /\ ~isConstant(a)
  <2>1. ite_body(rec, a, b, c) = orop(a, c)
    BY <1>7, ConstantFacts DEF ite_body
  <2>2. orop(a, c) \in BDD /\ Sat(orop(a, c)) = C
    BY <1>1, <1>7, SatConstants, ConstantFacts, OrMeaning DEF IteSat, SatSets
  <2>3. QED
    BY <1>3, <2>1, <2>2
<1>8. CASE c = False /\ ~isConstant(a) /\ ~isConstant(b)
  <2>1. ite_body(rec, a, b, c) = andop(a, b)
    BY <1>8, ConstantFacts DEF ite_body
  <2>2. andop(a, b) \in BDD /\ Sat(andop(a, b)) = C
    BY <1>1, <1>8, SatConstants, ConstantFacts, AndMeaning DEF IteSat, SatSets
  <2>3. QED
    BY <1>3, <2>1, <2>2
<1>9. CASE c = True /\ ~isConstant(a) /\ ~isConstant(b)
  <2>1. ite_body(rec, a, b, c) = implies(a, b)
    BY <1>9, ConstantFacts DEF ite_body
  <2>2. implies(a, b) \in BDD /\ Sat(implies(a, b)) = C
    BY <1>1, <1>9, SatConstants, ConstantFacts, ImpliesMeaning DEF IteSat, SatSets
  <2>3. QED
    BY <1>3, <2>1, <2>2
<1>10. CASE a = b /\ ~isConstant(a) /\ ~isConstant(c)
  <2>1. ite_body(rec, a, b, c) = orop(a, c)
    BY <1>10, ConstantFacts DEF ite_body
  <2>2. orop(a, c) \in BDD /\ Sat(orop(a, c)) = C
    BY <1>1, <1>10, SatConstants, ConstantFacts, OrMeaning DEF IteSat, SatSets
  <2>3. QED
    BY <1>3, <2>1, <2>2
<1>11. CASE a = c /\ a # b /\ ~isConstant(a) /\ ~isConstant(b)
  <2>1. ite_body(rec, a, b, c) = andop(a, b)
    BY <1>11, ConstantFacts DEF ite_body
  <2>2. andop(a, b) \in BDD /\ Sat(andop(a, b)) = C
    BY <1>1, <1>11, SatConstants, ConstantFacts, AndMeaning DEF IteSat, SatSets
  <2>3. QED
    BY <1>3, <2>1, <2>2
<1>12. CASE b = c /\ a # b /\ ~isConstant(a) /\ ~isConstant(b)
  <2>1. ite_body(rec, a, b, c) = c
    BY <1>12, ConstantFacts DEF ite_body
  <2>2. c \in BDD /\ Sat(c) = C
    BY <1>1, <1>12, SatConstants, ConstantFacts DEF IteSat, SatSets
  <2>3. QED
    BY <1>3, <2>1, <2>2
<1>13. CASE /\ ~isConstant(a) /\ ~isConstant(b) /\ ~isConstant(c)
           /\ a # b /\ a # c /\ b # c
  <2> DEFINE m == minVar3(a, b, c)
             l == rec[<<cf_left(a, m), cf_left(b, m), cf_left(c, m)>>]
             r == rec[<<cf_right(a, m), cf_right(b, m), cf_right(c, m)>>]
  <2>1. ite_body(rec, a, b, c) = find(m, l, r)
    BY <1>13, ConstantFacts DEF ite_body
  <2>2. m = minVar3(a, b, c)
    OBVIOUS
  <2> HIDE DEF m
  <2>3. l = TreeOf(Low(C, m)) /\ r = TreeOf(High(C, m)) /\ m \in Vars /\ From(C, m)
    <3>1. \A d, e, f \in BDD : rank(d) + rank(e) + rank(f) < rank(a) + rank(b) + rank(c)
            => rec[<<d, e, f>>] = TreeOf(IteSat(Sat(d), Sat(e), Sat(f)))
      BY DEF AgreeBelow, Rank3, IteOf
    <3>2. ~isConstant(a) \/ ~isConstant(b) \/ ~isConstant(c)
      BY <1>13
    <3>3. /\ m \in Vars
          /\ \A d \in {a, b, c} :
               /\ cf_left(d, m) \in BDD /\ cf_right(d, m) \in BDD /\ From(Sat(d), m)
               /\ Sat(cf_left(d, m)) = Low(Sat(d), m) /\ Sat(cf_right(d, m)) = High(Sat(d), m)
          /\ rank(cf_left(a, m)) + rank(cf_left(b, m)) + rank(cf_left(c, m))
               < rank(a) + rank(b) + rank(c)
          /\ rank(cf_right(a, m)) + rank(cf_right(b, m)) + rank(cf_right(c, m))
               < rank(a) + rank(b) + rank(c)
      BY <2>2, <3>2, MinVar3Facts
    <3>4. /\ l = TreeOf(IteSat(Low(Sat(a), m), Low(Sat(b), m), Low(Sat(c), m)))
          /\ r = TreeOf(IteSat(High(Sat(a), m), High(Sat(b), m), High(Sat(c), m)))
      BY <3>1, <3>3
    <3>5. QED
      BY <1>1, <3>3, <3>4, IteSatFacts
  <2> HIDE DEF l, r, C
  <2>4. QED
    BY <1>1, <2>1, <2>3, FindTree
<1>14. QED
  BY <1>4, <1>5, <1>6, <1>7, <1>8, <1>9, <1>10, <1>11, <1>12, <1>13, BDDElim

\* ite computes the choice between its second and third operand.
THEOREM IteMeaning ==
  \A a \in BDD, b \in BDD, c \in BDD :
    ite(a, b, c) \in BDD /\ Sat(ite(a, b, c)) = IteSat(Sat(a), Sat(b), Sat(c))
<1> DEFINE S == BDD \X BDD \X BDD
           F == IteOf
           Solves(g) == g = [p \in S |-> ite_body(g, p[1], p[2], p[3])]
<1>1. Solves(F)
  <2>1. \A p \in S : ite_body(F, p[1], p[2], p[3]) = F[p]
    BY IteStep DEF AgreeBelow
  <2>2. F = [p \in S |-> F[p]]
    BY DEF IteOf
  <2>3. QED
    BY <2>1, <2>2
<1>2. ite_rec = CHOOSE g : Solves(g)
  BY Zenon DEF ite_rec
<1>3. Solves(ite_rec)
  BY <1>1, <1>2
<1>4. \A p \in S : AgreeBelow(S, Rank3(S), ite_rec, F, p) => ite_rec[p] = F[p]
  <2> SUFFICES ASSUME NEW p \in S, AgreeBelow(S, Rank3(S), ite_rec, F, p)
               PROVE  ite_rec[p] = F[p]
    OBVIOUS
  <2>1. ite_rec[p] = ite_body(ite_rec, p[1], p[2], p[3])
    BY <1>3
  <2>2. ite_body(ite_rec, p[1], p[2], p[3]) = F[p]
    BY IteStep
  <2>3. QED
    BY <2>1, <2>2
<1>5. \A p \in S : ite_rec[p] = F[p]
  <2>1. \A p \in S : Rank3(S)[p] \in Nat
    BY RankTypes
  <2> HIDE DEF S, F
  <2>2. QED
    BY <1>4, <2>1, Agreement
<1>6. ASSUME NEW a \in BDD, NEW b \in BDD, NEW c \in BDD
      PROVE  ite(a, b, c) \in BDD /\ Sat(ite(a, b, c)) = IteSat(Sat(a), Sat(b), Sat(c))
  <2>1. <<a, b, c>> \in S
    OBVIOUS
  <2>2. ite(a, b, c) = TreeOf(IteSat(Sat(a), Sat(b), Sat(c)))
    BY <1>5, <2>1 DEF ite, IteOf
  <2>3. IteSat(Sat(a), Sat(b), Sat(c)) \in SUBSET Valuations
    BY SatType DEF IteSat
  <2>4. QED
    BY <2>2, <2>3, TreeOfFacts
<1>7. QED
  BY <1>6

-------------------------------------------------------------------------------
\* Sets of variables.

\* The BDD of a variable.
LEMMA FindVar ==
  ASSUME NEW i \in Vars
  PROVE  /\ find_var(i) \in BDD /\ Sat(find_var(i)) = {v \in Valuations : v[i]}
         /\ IsNode(find_var(i)) /\ var(find_var(i)) = i
         /\ left(find_var(i)) = False /\ right(find_var(i)) = True
<1> DEFINE C == {v \in Valuations : v[i]}
<1>1. Above(False, i) /\ Above(True, i)
  BY ConstantFacts DEF Above
<1>2. Low(C, i) = {} /\ High(C, i) = Valuations
  BY Update DEF Low, High
<1>3. C \in SUBSET Valuations
  OBVIOUS
<1> HIDE DEF C
<1>4. find(i, False, True) \in BDD /\ Sat(find(i, False, True)) = C
  BY <1>1, <1>2, <1>3, SatFind, SatConstants, ConstantFacts
<1>5. /\ IsNode(find(i, False, True)) /\ var(find(i, False, True)) = i
      /\ left(find(i, False, True)) = False /\ right(find(i, False, True)) = True
  BY <1>1, BDDIntro, ConstantFacts
<1>6. QED
  BY <1>4, <1>5 DEF find_var, C

\* A non-empty bounded set of integers has a least and a greatest element.
LEMMA MinMax ==
  ASSUME NEW xs \in SUBSET Int, xs # {}, NEW N \in Nat, \A i \in xs : i \in 0 .. N
  PROVE  /\ Min(xs) \in xs /\ \A i \in xs : Min(xs) <= i
         /\ Max(xs) \in xs /\ \A i \in xs : i <= Max(xs)
<1>1. \E i \in xs : \A j \in xs : i <= j
  <2>1. xs \in SUBSET Nat
    OBVIOUS
  <2>2. QED
    BY <2>1, Least
<1>2. \E i \in xs : \A j \in xs : i >= j
  <2> DEFINE ys == {N - i : i \in xs}
  <2>1. ys \in SUBSET Nat /\ ys # {}
    <3>1. \A i \in xs : N - i \in Nat
      OBVIOUS
    <3>2. QED
      BY <3>1
  <2>2. PICK m \in ys : \A j \in ys : m <= j
    <3> HIDE DEF ys
    <3>1. QED
      BY <2>1, Least
  <2>3. PICK i \in xs : m = N - i
    OBVIOUS
  <2>4. \A j \in xs : N - i <= N - j
    BY <2>2, <2>3
  <2>5. \A j \in xs : i >= j
    BY <2>4
  <2>6. QED
    BY <2>5
<1>3. QED
  BY <1>1, <1>2 DEF Min, Max

\* So has a non-empty set of variables.
LEMMA MinMaxVars ==
  ASSUME NEW xs \in SUBSET Vars, xs # {}
  PROVE  /\ Min(xs) \in xs /\ \A i \in xs : Min(xs) <= i
         /\ Max(xs) \in xs /\ \A i \in xs : i <= Max(xs)
         /\ Max(xs) \in Nat
<1>1. xs \in SUBSET Int /\ NumVars \in Nat /\ \A i \in xs : i \in 0 .. NumVars
  BY NumVarsAssumption DEF Vars
<1>2. /\ Min(xs) \in xs /\ \A i \in xs : Min(xs) <= i
      /\ Max(xs) \in xs /\ \A i \in xs : i <= Max(xs)
  BY <1>1, MinMax
<1>3. Max(xs) \in 0 .. NumVars
  BY <1>1, <1>2, Zenon
<1>4. QED
  BY <1>1, <1>2, <1>3

\* The conjunction of the variables of xs.
CubeSat(xs) == {v \in Valuations : \A i \in xs : v[i]}

\* The function of a cube determines its variables.
LEMMA CubeSatFacts ==
  ASSUME NEW xs \in SUBSET Vars
  PROVE  /\ CubeSat(xs) \in SUBSET Valuations /\ CubeSat(xs) # {}
         /\ CubeSat({}) = Valuations
         /\ \A ys \in SUBSET Vars : CubeSat(xs) = CubeSat(ys) => xs = ys
         /\ \A m \in xs : Low(CubeSat(xs), m) = {}
         /\ \A m \in Vars : High(CubeSat(xs), m) = CubeSat(xs \ {m})
         /\ \A m : (\A i \in xs : m <= i) => From(CubeSat(xs), m)
<1> DEFINE one(ys) == [i \in Vars |-> IF i \in ys THEN TRUE ELSE FALSE]
<1>1. \A ys \in SUBSET Vars : one(ys) \in CubeSat(ys)
  BY DEF CubeSat, Valuations
<1>2. \A ys \in SUBSET Vars : CubeSat(xs) = CubeSat(ys) => xs = ys
  <2> SUFFICES ASSUME NEW ys \in SUBSET Vars, CubeSat(xs) = CubeSat(ys) PROVE xs = ys
    OBVIOUS
  <2>1. one(ys) \in CubeSat(xs) /\ one(xs) \in CubeSat(ys)
    BY <1>1
  <2>2. (\A i \in xs : i \in ys) /\ (\A i \in ys : i \in xs)
    BY <2>1 DEF CubeSat
  <2>3. QED
    BY <2>2
<1>3. \A m \in xs : Low(CubeSat(xs), m) = {}
  BY Update DEF Low, CubeSat
<1>4. ASSUME NEW m \in Vars PROVE High(CubeSat(xs), m) = CubeSat(xs \ {m})
  <2>1. ASSUME NEW v \in Valuations
        PROVE  v \in High(CubeSat(xs), m) <=> v \in CubeSat(xs \ {m})
    <3> DEFINE w == [v EXCEPT ![m] = TRUE]
    <3>1. w \in Valuations /\ w[m] = TRUE /\ \A i \in Vars : i # m => w[i] = v[i]
      BY Update
    <3>2. v \in High(CubeSat(xs), m) <=> w \in CubeSat(xs)
      BY DEF High
    <3> HIDE DEF w
    <3>3. w \in CubeSat(xs) <=> v \in CubeSat(xs \ {m})
      BY <3>1 DEF CubeSat
    <3>4. QED
      BY <3>2, <3>3
  <2>2. QED
    BY <2>1 DEF High, CubeSat
<1>5. \A m : (\A i \in xs : m <= i) => From(CubeSat(xs), m)
  BY DEF From, CubeSat
<1>6. CubeSat(xs) \in SUBSET Valuations /\ CubeSat({}) = Valuations
  BY DEF CubeSat
<1>7. CubeSat(xs) # {}
  BY <1>1
<1> HIDE DEF one
<1>8. QED
  BY <1>2, <1>3, <1>4, <1>5, <1>6, <1>7

CubeOf == [xs \in SUBSET Vars |-> TreeOf(CubeSat(xs))]

\* The body of Cube returns what it is meant to when its calls do.
LEMMA CubeStep ==
  ASSUME NEW rec, NEW xs \in SUBSET Vars,
         xs # {} => rec[xs \ {Max(xs)}] = CubeOf[xs \ {Max(xs)}]
  PROVE  Cube_body(rec, xs) = CubeOf[xs]
<1>1. CASE xs = {}
  BY <1>1, CubeSatFacts, TreeOfSat, SatConstants, ConstantFacts DEF Cube_body, CubeOf
<1>2. CASE xs # {}
  <2> DEFINE m == Max(xs)
  <2>1. m \in xs /\ m \in Vars
    BY <1>2, MinMaxVars
  <2>2. Cube_body(rec, xs) = andop(find_var(m), CubeOf[xs \ {m}])
    BY <1>2 DEF Cube_body
  <2> HIDE DEF m
  <2>3. CubeOf[xs \ {m}] \in BDD /\ Sat(CubeOf[xs \ {m}]) = CubeSat(xs \ {m})
    BY CubeSatFacts, TreeOfFacts DEF CubeOf
  <2>4. {v \in Valuations : v[m]} \cap CubeSat(xs \ {m}) = CubeSat(xs)
    BY <2>1 DEF CubeSat
  <2>5. find_var(m) \in BDD /\ Sat(find_var(m)) = {v \in Valuations : v[m]}
    BY <2>1, FindVar
  <2>6. /\ andop(find_var(m), CubeOf[xs \ {m}]) \in BDD
        /\ Sat(andop(find_var(m), CubeOf[xs \ {m}]))
             = Sat(find_var(m)) \cap Sat(CubeOf[xs \ {m}])
    BY <2>3, <2>5, AndMeaning
  <2>7. Sat(andop(find_var(m), CubeOf[xs \ {m}])) = CubeSat(xs)
    BY <2>3, <2>4, <2>5, <2>6
  <2>8. QED
    BY <2>2, <2>6, <2>7, CubeSatFacts, TreeOfFacts DEF CubeOf
<1>3. QED
  BY <1>1, <1>2

\* Cube returns the BDD of the conjunction of its variables.
LEMMA CubeIs ==
  ASSUME NEW xs \in SUBSET Vars
  PROVE  /\ Cube(xs) = TreeOf(CubeSat(xs)) /\ Cube(xs) \in BDD /\ Sat(Cube(xs)) = CubeSat(xs)
         /\ Cube(xs) \in Cubes
         /\ \A ys \in SUBSET Vars : Cube(xs) = Cube(ys) => xs = ys
<1> DEFINE S == SUBSET Vars
           R == [ys \in S |-> IF ys = {} THEN 0 ELSE Max(ys) + 1]
           Solves(g) == g = [ys \in S |-> Cube_body(g, ys)]
<1>1. Solves(CubeOf)
  <2>1. \A ys \in S : Cube_body(CubeOf, ys) = CubeOf[ys]
    BY CubeStep
  <2>2. CubeOf = [ys \in S |-> CubeOf[ys]]
    BY DEF CubeOf
  <2>3. QED
    BY <2>1, <2>2
<1>2. Cube_rec = CHOOSE g : Solves(g)
  BY Zenon DEF Cube_rec
<1>3. Solves(Cube_rec)
  BY <1>1, <1>2
<1>4. \A ys \in S : R[ys] \in Nat
  BY MinMaxVars
<1>5. \A ys \in S : ys # {} => R[ys \ {Max(ys)}] < R[ys]
  <2> SUFFICES ASSUME NEW ys \in S, ys # {} PROVE R[ys \ {Max(ys)}] < R[ys]
    OBVIOUS
  <2> DEFINE zs == ys \ {Max(ys)}
  <2>1. Max(ys) \in Nat /\ \A i \in ys : i <= Max(ys)
    BY MinMaxVars
  <2>2. CASE zs = {}
    BY <2>1, <2>2
  <2>3. CASE zs # {}
    <3>1. Max(zs) \in zs /\ Max(zs) \in Nat
      BY <2>3, MinMaxVars
    <3>2. Max(zs) < Max(ys)
      BY <2>1, <3>1
    <3>3. QED
      BY <2>1, <2>3, <3>1, <3>2
  <2>4. QED
    BY <2>2, <2>3
<1>6. \A ys \in S : AgreeBelow(S, R, Cube_rec, CubeOf, ys) => Cube_rec[ys] = CubeOf[ys]
  <2> SUFFICES ASSUME NEW ys \in S, AgreeBelow(S, R, Cube_rec, CubeOf, ys)
               PROVE  Cube_rec[ys] = CubeOf[ys]
    OBVIOUS
  <2>1. ys # {} => Cube_rec[ys \ {Max(ys)}] = CubeOf[ys \ {Max(ys)}]
    <3> HIDE DEF R
    <3>1. QED
      BY <1>5 DEF AgreeBelow
  <2>2. Cube_rec[ys] = Cube_body(Cube_rec, ys)
    BY <1>3
  <2>3. QED
    BY <2>1, <2>2, CubeStep
<1>7. \A ys \in S : Cube_rec[ys] = CubeOf[ys]
  <2> HIDE DEF S, R
  <2>1. QED
    BY <1>4, <1>6, Agreement
<1>8. ASSUME NEW ys \in SUBSET Vars
      PROVE  Cube(ys) = TreeOf(CubeSat(ys)) /\ Cube(ys) \in BDD /\ Sat(Cube(ys)) = CubeSat(ys)
  <2>1. Cube(ys) = TreeOf(CubeSat(ys))
    BY <1>7 DEF Cube, CubeOf
  <2>2. CubeSat(ys) \in SUBSET Valuations
    BY CubeSatFacts
  <2>3. QED
    BY <2>1, <2>2, TreeOfFacts
<1>9. \A ys \in SUBSET Vars : Cube(xs) = Cube(ys) => xs = ys
  BY <1>8, CubeSatFacts
<1>10. QED
  BY <1>8, <1>9 DEF Cubes

\* The variables that a cube is made of.
VarsOf(x) == CHOOSE xs \in SUBSET Vars : Cube(xs) = x

\* The variables of a cube are those it was made of.
LEMMA VarsOfCube == \A xs \in SUBSET Vars : VarsOf(Cube(xs)) = xs
BY CubeIs DEF VarsOf

\* A cube is True, or its least variable on top of the cube of the others.
LEMMA CubeElim ==
  ASSUME NEW x \in Cubes
  PROVE  /\ VarsOf(x) \in SUBSET Vars /\ Cube(VarsOf(x)) = x
         /\ x \in BDD /\ Sat(x) = CubeSat(VarsOf(x))
         /\ x = True <=> VarsOf(x) = {}
         /\ x # True =>
              /\ var(x) \in VarsOf(x) /\ \A i \in VarsOf(x) : var(x) <= i
              /\ right(x) \in Cubes /\ VarsOf(right(x)) = VarsOf(x) \ {var(x)}
              /\ left(x) = False /\ x = find(var(x), False, right(x))
              /\ IsNode(x) /\ rank(right(x)) < rank(x)
<1> DEFINE xs == VarsOf(x)
<1>1. xs \in SUBSET Vars /\ Cube(xs) = x
  BY DEF VarsOf, Cubes
<1> HIDE DEF xs
<1>2. x \in BDD /\ Sat(x) = CubeSat(xs)
  BY <1>1, CubeIs
<1>3. Cube({}) = True
  BY CubeIs, CubeSatFacts, TreeOfSat, SatConstants, ConstantFacts
<1>4. x = True <=> xs = {}
  BY <1>1, <1>3, CubeIs
<1>5. ASSUME x # True
      PROVE  /\ var(x) \in xs /\ \A i \in xs : var(x) <= i
             /\ right(x) \in Cubes /\ VarsOf(right(x)) = xs \ {var(x)}
             /\ left(x) = False /\ x = find(var(x), False, right(x))
             /\ IsNode(x)
  <2> DEFINE m == Min(xs)
             y == Cube(xs \ {m})
  <2>1. m \in xs /\ m \in Vars /\ \A i \in xs : m <= i
    BY <1>1, <1>4, <1>5, MinMaxVars
  <2> HIDE DEF m
  <2>2. y \in BDD /\ y \in Cubes /\ Sat(y) = CubeSat(xs \ {m}) /\ VarsOf(y) = xs \ {m}
    BY <1>1, CubeIs, VarsOfCube
  <2>3. /\ CubeSat(xs) \in SUBSET Valuations /\ From(CubeSat(xs), m)
        /\ Low(CubeSat(xs), m) = {} /\ High(CubeSat(xs), m) = CubeSat(xs \ {m})
    BY <1>1, <2>1, CubeSatFacts
  <2> HIDE DEF y
  <2>4. TreeOf(Low(CubeSat(xs), m)) = False /\ TreeOf(High(CubeSat(xs), m)) = y
    BY <2>2, <2>3, TreeOfSat, SatConstants, ConstantFacts
  <2>5. find(m, False, y) = x
    BY <1>2, <2>1, <2>3, <2>4, FindTree, TreeOfSat
  <2>6. y # False
    BY <1>1, <2>2, SatConstants, CubeSatFacts
  <2>7. Above(False, m) /\ Above(y, m)
    <3>1. From(Sat(y), m + 1)
      BY <2>1, <2>2, <2>3, LowHigh
    <3>2. QED
      BY <2>1, <2>2, <3>1, AboveFrom, ConstantFacts DEF Above
  <2>8. IsNode(x) /\ var(x) = m /\ left(x) = False /\ right(x) = y
    BY <2>1, <2>2, <2>5, <2>6, <2>7, BDDIntro, ConstantFacts
  <2>9. QED
    BY <2>1, <2>2, <2>5, <2>8
<1>6. IsNode(x) => rank(right(x)) < rank(x)
  BY <1>2, RankFacts
<1>7. QED
  BY <1>1, <1>2, <1>4, <1>5, <1>6 DEF xs

\* What the operations read of a node.
LEMMA NodeFacts ==
  ASSUME NEW a \in BDD, ~isConstant(a), NEW m, m = var(a)
  PROVE  /\ m \in Vars /\ m \in Nat /\ From(Sat(a), m) /\ StartsAt(a, m)
         /\ left(a) \in BDD /\ right(a) \in BDD
         /\ Sat(left(a)) = Low(Sat(a), m) /\ Sat(right(a)) = High(Sat(a), m)
         /\ rank(left(a)) < rank(a) /\ rank(right(a)) < rank(a)
         /\ a = find(m, left(a), right(a)) /\ left(a) # right(a)
<1> USE NumVarsAssumption
<1>1. IsNode(a)
  BY BDDElim
<1>2. /\ m \in Vars /\ m \in Int /\ m \in Nat /\ StartsAt(a, m)
      /\ cf_left(a, m) = left(a) /\ cf_right(a, m) = right(a)
  BY <1>1 DEF IsNode, StartsAt, cf_left, cf_right, Vars
<1>3. From(Sat(a), m)
  BY <1>2, SatFrom
<1>4. Sat(left(a)) = Low(Sat(a), m) /\ Sat(right(a)) = High(Sat(a), m)
  BY <1>2, CofactorFacts
<1>5. rank(left(a)) < rank(a) /\ rank(right(a)) < rank(a)
  BY <1>1, RankFacts
<1>6. QED
  BY <1>1, <1>2, <1>3, <1>4, <1>5 DEF IsNode, find

\* The head of a set of variables is skipped up to m.
SkipOf == [p \in Cubes \X Nat |-> Cube({i \in VarsOf(p[1]) : p[2] <= i})]

\* The body of Skip returns what it is meant to when its calls do.
LEMMA SkipStep ==
  ASSUME NEW rec, NEW p \in Cubes \X Nat,
         AgreeBelow(Cubes \X Nat, Rank1(Cubes \X Nat), rec, SkipOf, p)
  PROVE  Skip_body(rec, p[1], p[2]) = SkipOf[p]
<1> PICK x \in Cubes, m \in Nat : p = <<x, m>>
  OBVIOUS
<1> DEFINE ys == {i \in VarsOf(x) : m <= i}
<1>1. SkipOf[p] = Cube(ys)
  BY DEF SkipOf
<1>2. \A i \in VarsOf(x) : i \in Nat
  BY CubeElim, NumVarsAssumption DEF Vars
<1>3. CASE x = True
  <2>1. ys = VarsOf(x)
    BY <1>3, CubeElim
  <2>2. QED
    BY <1>1, <1>3, <2>1, CubeElim DEF Skip_body
<1>4. CASE x # True /\ var(x) >= m
  <2>1. var(x) \in VarsOf(x) /\ \A i \in VarsOf(x) : var(x) <= i
    BY <1>4, CubeElim
  <2>2. ys = VarsOf(x)
    BY <1>2, <1>4, <2>1
  <2>3. QED
    BY <1>1, <1>4, <2>2, CubeElim DEF Skip_body
<1>5. CASE x # True /\ ~(var(x) >= m)
  <2>1. /\ var(x) \in VarsOf(x) /\ right(x) \in Cubes
        /\ VarsOf(right(x)) = VarsOf(x) \ {var(x)} /\ rank(right(x)) < rank(x)
    BY <1>5, CubeElim
  <2>2. {i \in VarsOf(right(x)) : m <= i} = ys
    BY <1>2, <1>5, <2>1
  <2>3. rec[<<right(x), m>>] = SkipOf[<<right(x), m>>]
    BY <2>1 DEF AgreeBelow, Rank1
  <2>4. SkipOf[<<right(x), m>>] = Cube(ys)
    BY <2>1, <2>2 DEF SkipOf
  <2>5. Skip_body(rec, x, m) = rec[<<right(x), m>>]
    BY <1>5 DEF Skip_body
  <2>6. QED
    BY <1>1, <2>3, <2>4, <2>5
<1>6. QED
  BY <1>3, <1>4, <1>5

\* Ranks of pairs that start with a cube.
LEMMA CubeRanks == \A X : \A p \in Cubes \X X : Rank1(Cubes \X X)[p] \in Nat
BY CubeElim, RankFacts DEF Rank1

\* Skip: the recursion has a solution, and it is the intended function.
LEMMA SkipSolved == \A p \in Cubes \X Nat : Skip_rec[p] = SkipOf[p]
<1> DEFINE S == Cubes \X Nat
           F == SkipOf
           Solves(g) == g = [p \in S |-> Skip_body(g, p[1], p[2])]
<1>1. Solves(F)
  <2>1. \A p \in S : Skip_body(F, p[1], p[2]) = F[p]
    BY SkipStep DEF AgreeBelow
  <2>2. F = [p \in S |-> F[p]]
    BY DEF SkipOf
  <2>3. QED
    BY <2>1, <2>2
<1>2. Skip_rec = CHOOSE g : Solves(g)
  BY Zenon DEF Skip_rec
<1>3. Solves(Skip_rec)
  BY <1>1, <1>2
<1>4. \A p \in S : AgreeBelow(S, Rank1(S), Skip_rec, F, p) => Skip_rec[p] = F[p]
  <2> SUFFICES ASSUME NEW p \in S, AgreeBelow(S, Rank1(S), Skip_rec, F, p)
               PROVE  Skip_rec[p] = F[p]
    OBVIOUS
  <2>1. Skip_rec[p] = Skip_body(Skip_rec, p[1], p[2])
    BY <1>3
  <2>2. Skip_body(Skip_rec, p[1], p[2]) = F[p]
    BY SkipStep
  <2>3. QED
    BY <2>1, <2>2
<1>5. \A p \in S : Rank1(S)[p] \in Nat
  BY CubeRanks
<1>6. \A p \in S : Skip_rec[p] = F[p]
  <2> HIDE DEF S, F
  <2>1. QED
    BY <1>4, <1>5, Agreement
<1>7. QED
  BY <1>6

\* Skip drops the variables of a cube above the given one.
LEMMA SkipFacts ==
  ASSUME NEW x \in Cubes, NEW m \in Nat
  PROVE  /\ Skip(x, m) = Cube({i \in VarsOf(x) : m <= i})
         /\ Skip(x, m) \in Cubes /\ VarsOf(Skip(x, m)) = {i \in VarsOf(x) : m <= i}
<1>1. Skip(x, m) = Cube({i \in VarsOf(x) : m <= i})
  BY SkipSolved DEF Skip, SkipOf
<1>2. {i \in VarsOf(x) : m <= i} \in SUBSET Vars
  BY CubeElim
<1>3. QED
  BY <1>1, <1>2, CubeIs, VarsOfCube

\* setcontainsvar is membership.
LEMMA SetContainsVar ==
  ASSUME NEW x \in Cubes, NEW i \in Vars
  PROVE  setcontainsvar(x, i) <=> i \in VarsOf(x)
<1> DEFINE y == Skip(x, i)
<1>1. i \in Nat
  BY NumVarsAssumption DEF Vars
<1>2. y \in Cubes /\ VarsOf(y) = {j \in VarsOf(x) : i <= j}
  BY <1>1, SkipFacts
<1>3. setcontainsvar(x, i) <=> y # True /\ var(y) = i
  BY DEF setcontainsvar
<1> HIDE DEF y
<1>4. y # True => var(y) \in VarsOf(y) /\ \A j \in VarsOf(y) : var(y) <= j
  BY <1>2, CubeElim
<1>5. \A j \in VarsOf(x) : j \in Nat
  BY CubeElim, NumVarsAssumption DEF Vars
<1>6. i \in VarsOf(x) => i \in VarsOf(y)
  BY <1>1, <1>2
<1>7. y = True <=> VarsOf(y) = {}
  BY <1>2, CubeElim
<1>8. QED
  BY <1>1, <1>2, <1>3, <1>4, <1>5, <1>6, <1>7

\* A variable is taken out of a set.
SubtractOf == [p \in Cubes \X Vars |-> Cube(VarsOf(p[1]) \ {p[2]})]

\* The body of _subtract_vars returns what it is meant to when its calls do.
LEMMA SubtractStep ==
  ASSUME NEW rec, NEW p \in Cubes \X Vars,
         AgreeBelow(Cubes \X Vars, Rank1(Cubes \X Vars), rec, SubtractOf, p)
  PROVE  _subtract_vars_body(rec, p[1], p[2]) = SubtractOf[p]
<1> PICK x \in Cubes, m \in Vars : p = <<x, m>>
  OBVIOUS
<1> DEFINE ys == VarsOf(x) \ {m}
<1>1. SubtractOf[p] = Cube(ys)
  BY DEF SubtractOf
<1>2. m \in Nat /\ \A i \in VarsOf(x) : i \in Nat
  BY CubeElim, NumVarsAssumption DEF Vars
<1>3. CASE x = True
  <2>1. ys = VarsOf(x)
    BY <1>3, CubeElim
  <2>2. QED
    BY <1>1, <1>3, <2>1, CubeElim DEF _subtract_vars_body
<1>4. CASE x # True /\ m < var(x)
  <2>1. var(x) \in VarsOf(x) /\ \A i \in VarsOf(x) : var(x) <= i
    BY <1>4, CubeElim
  <2>2. ys = VarsOf(x)
    BY <1>2, <1>4, <2>1
  <2>3. QED
    BY <1>1, <1>4, <2>2, CubeElim DEF _subtract_vars_body
<1>5. CASE x # True /\ var(x) = m
  <2>1. right(x) \in Cubes /\ VarsOf(right(x)) = ys
    BY <1>5, CubeElim
  <2>2. Cube(ys) = right(x)
    BY <2>1, CubeElim
  <2>3. QED
    BY <1>1, <1>2, <1>5, <2>2 DEF _subtract_vars_body
<1>6. CASE x # True /\ ~(m < var(x)) /\ var(x) # m
  <2> DEFINE y == Cube(ys)
  <2>1. /\ var(x) \in VarsOf(x) /\ right(x) \in Cubes /\ \A i \in VarsOf(x) : var(x) <= i
        /\ VarsOf(right(x)) = VarsOf(x) \ {var(x)} /\ rank(right(x)) < rank(x)
    BY <1>6, CubeElim
  <2>2. rec[<<right(x), m>>] = SubtractOf[<<right(x), m>>]
    BY <2>1 DEF AgreeBelow, Rank1
  <2>3. SubtractOf[<<right(x), m>>] = Cube(ys \ {var(x)})
    <3>1. VarsOf(right(x)) \ {m} = ys \ {var(x)}
      BY <2>1
    <3>2. QED
      BY <2>1, <3>1 DEF SubtractOf
  <2>4. _subtract_vars_body(rec, x, m) = find(var(x), False, rec[<<right(x), m>>])
    BY <1>6 DEF _subtract_vars_body
  <2>5. ys \in SUBSET Vars /\ ys # {} /\ var(x) \in ys
    BY <1>6, <2>1, CubeElim
  <2>6. y \in Cubes /\ VarsOf(y) = ys
    BY <2>5, CubeIs, VarsOfCube
  <2> HIDE DEF y
  <2>7. /\ y # True /\ var(y) \in ys /\ \A i \in ys : var(y) <= i
        /\ y = find(var(y), False, right(y)) /\ right(y) \in Cubes
        /\ VarsOf(right(y)) = ys \ {var(y)}
    BY <2>5, <2>6, CubeElim
  <2>8. var(y) = var(x)
    BY <1>2, <2>1, <2>5, <2>7
  <2>9. right(y) = Cube(ys \ {var(x)})
    BY <2>7, <2>8, CubeElim
  <2>10. QED
    BY <1>1, <2>2, <2>3, <2>4, <2>7, <2>8, <2>9 DEF y
<1>7. QED
  BY <1>3, <1>4, <1>5, <1>6

\* _subtract_vars: the recursion has a solution, and it is the intended function.
LEMMA SubtractSolved == \A p \in Cubes \X Vars : _subtract_vars_rec[p] = SubtractOf[p]
<1> DEFINE S == Cubes \X Vars
           F == SubtractOf
           Solves(g) == g = [p \in S |-> _subtract_vars_body(g, p[1], p[2])]
<1>1. Solves(F)
  <2>1. \A p \in S : _subtract_vars_body(F, p[1], p[2]) = F[p]
    BY SubtractStep DEF AgreeBelow
  <2>2. F = [p \in S |-> F[p]]
    BY DEF SubtractOf
  <2>3. QED
    BY <2>1, <2>2
<1>2. _subtract_vars_rec = CHOOSE g : Solves(g)
  BY Zenon DEF _subtract_vars_rec
<1>3. Solves(_subtract_vars_rec)
  BY <1>1, <1>2
<1>4. \A p \in S : AgreeBelow(S, Rank1(S), _subtract_vars_rec, F, p) => _subtract_vars_rec[p] = F[p]
  <2> SUFFICES ASSUME NEW p \in S, AgreeBelow(S, Rank1(S), _subtract_vars_rec, F, p)
               PROVE  _subtract_vars_rec[p] = F[p]
    OBVIOUS
  <2>1. _subtract_vars_rec[p] = _subtract_vars_body(_subtract_vars_rec, p[1], p[2])
    BY <1>3
  <2>2. _subtract_vars_body(_subtract_vars_rec, p[1], p[2]) = F[p]
    BY SubtractStep
  <2>3. QED
    BY <2>1, <2>2
<1>5. \A p \in S : Rank1(S)[p] \in Nat
  BY CubeRanks
<1>6. \A p \in S : _subtract_vars_rec[p] = F[p]
  <2> HIDE DEF S, F
  <2>1. QED
    BY <1>4, <1>5, Agreement
<1>7. QED
  BY <1>6

\* _subtract_vars removes one variable from a cube.
LEMMA SubtractFacts ==
  ASSUME NEW x \in Cubes, NEW m \in Vars
  PROVE  _subtract_vars(x, m) \in Cubes /\ VarsOf(_subtract_vars(x, m)) = VarsOf(x) \ {m}
<1>1. _subtract_vars(x, m) = Cube(VarsOf(x) \ {m})
  BY SubtractSolved DEF _subtract_vars, SubtractOf
<1>2. VarsOf(x) \ {m} \in SUBSET Vars
  BY CubeElim
<1>3. QED
  BY <1>1, <1>2, CubeIs, VarsOfCube

-------------------------------------------------------------------------------
\* Quantification of functions.

\* Quantification of functions: its type, monotonicity and the trivial cases.
LEMMA ExistsSatFacts ==
  ASSUME NEW A \in SatSets, NEW X \in SUBSET Vars
  PROVE  /\ ExistsSat(A, X) \in SatSets
         /\ ExistsSat({}, X) = {} /\ ExistsSat(Valuations, X) = Valuations
         /\ ExistsSat(A, {}) = A
         /\ \A B \in SatSets : ExistsSat(A \cup B, X) = ExistsSat(A, X) \cup ExistsSat(B, X)
<1>1. \A v \in Valuations : SameBut(v, v, X)
  BY DEF SameBut
<1>2. \A v, w \in Valuations : SameBut(v, w, {}) => v = w
  BY DEF SameBut, Valuations
<1>3. \A v \in Valuations : SameBut(v, v, {})
  BY DEF SameBut
<1>4. ExistsSat(A, {}) = A
  BY <1>2, <1>3 DEF ExistsSat, SatSets
<1>5. QED
  BY <1>1, <1>4 DEF ExistsSat, SatSets

\* What starts at m is not changed by quantifiers over the variables less than m,
\* nor does quantification bring in any.
LEMMA ExistsSatFrom ==
  ASSUME NEW A \in SatSets, NEW X \in SUBSET Vars, NEW m \in Int, From(A, m)
  PROVE  /\ From(ExistsSat(A, X), m)
         /\ ExistsSat(A, X) = ExistsSat(A, {i \in X : m <= i})
<1> DEFINE Mix(u, w) == [i \in Vars |-> IF m <= i THEN u[i] ELSE w[i]]
<1>1. ASSUME NEW u \in A, NEW w \in Valuations
      PROVE  /\ Mix(u, w) \in A /\ \A i \in Vars : m <= i => Mix(u, w)[i] = u[i]
             /\ \A i \in Vars : ~(m <= i) => Mix(u, w)[i] = w[i]
  <2>1. u \in Valuations
    BY DEF SatSets
  <2>2. Mix(u, w) \in Valuations /\ \A i \in Vars : m <= i => Mix(u, w)[i] = u[i]
    BY <2>1 DEF Valuations
  <2>3. \A i \in Vars : ~(m <= i) => Mix(u, w)[i] = w[i]
    OBVIOUS
  <2> HIDE DEF Mix
  <2>4. Mix(u, w) \in A
    BY <2>1, <2>2 DEF From
  <2>5. QED
    BY <2>2, <2>3, <2>4
<1> HIDE DEF Mix
<1>2. ASSUME NEW v \in Valuations, NEW w \in Valuations,
             \A i \in Vars : m <= i => v[i] = w[i], v \in ExistsSat(A, X)
      PROVE  w \in ExistsSat(A, X)
  <2>1. PICK u \in A : SameBut(v, u, X)
    BY <1>2 DEF ExistsSat
  <2>2. Mix(u, w) \in A /\ SameBut(w, Mix(u, w), X)
    BY <1>1, <1>2, <2>1 DEF SameBut
  <2>3. QED
    BY <2>2 DEF ExistsSat
<1>3. From(ExistsSat(A, X), m)
  BY <1>2 DEF From
<1>4. ASSUME NEW v \in ExistsSat(A, X) PROVE v \in ExistsSat(A, {i \in X : m <= i})
  <2>1. v \in Valuations
    BY DEF ExistsSat
  <2>2. PICK u \in A : SameBut(v, u, X)
    BY DEF ExistsSat
  <2>3. SameBut(v, Mix(u, v), {i \in X : m <= i}) /\ Mix(u, v) \in A
    BY <1>1, <2>1, <2>2 DEF SameBut
  <2>4. QED
    BY <2>1, <2>3 DEF ExistsSat
<1>5. ASSUME NEW v \in ExistsSat(A, {i \in X : m <= i}) PROVE v \in ExistsSat(A, X)
  BY DEF ExistsSat, SameBut
<1>6. QED
  BY <1>3, <1>4, <1>5

\* Quantification and cofactors commute, or the cofactors are joined.
LEMMA ExistsSatCofactors ==
  ASSUME NEW A \in SatSets, NEW X \in SUBSET Vars, NEW m \in Vars
  PROVE  /\ m \notin X => /\ Low(ExistsSat(A, X), m) = ExistsSat(Low(A, m), X)
                          /\ High(ExistsSat(A, X), m) = ExistsSat(High(A, m), X)
         /\ m \in X => ExistsSat(A, X) = ExistsSat(Low(A, m), X) \cup ExistsSat(High(A, m), X)
<1> DEFINE Cof(B, x) == {v \in Valuations : [v EXCEPT ![m] = x] \in B}
<1>1. ASSUME NEW x \in BOOLEAN, m \notin X PROVE Cof(ExistsSat(A, X), x) = ExistsSat(Cof(A, x), X)
  <2>1. ASSUME NEW v \in Valuations, [v EXCEPT ![m] = x] \in ExistsSat(A, X)
        PROVE  v \in ExistsSat(Cof(A, x), X)
    <3>1. PICK u \in A : SameBut([v EXCEPT ![m] = x], u, X)
      BY <2>1 DEF ExistsSat
    <3>2. u \in Valuations
      BY DEF SatSets
    <3>3. u[m] = x /\ \A i \in Vars : i # m /\ i \notin X => u[i] = v[i]
      <4> DEFINE z == [v EXCEPT ![m] = x]
      <4>1. z \in Valuations /\ z[m] = x /\ \A i \in Vars : i # m => z[i] = v[i]
        BY DEF Valuations
      <4>2. \A i \in Vars \ X : z[i] = u[i]
        BY <3>1 DEF SameBut
      <4> HIDE DEF z
      <4>3. QED
        BY <1>1, <4>1, <4>2
    <3> DEFINE w == [u EXCEPT ![m] = v[m]]
    <3>4. v[m] \in BOOLEAN
      BY DEF Valuations
    <3>5. w \in Valuations /\ w[m] = v[m] /\ \A i \in Vars : i # m => w[i] = u[i]
      BY <3>2, <3>4, Update
    <3>6. [w EXCEPT ![m] = x] = u
      BY <3>2, <3>3 DEF Valuations
    <3> HIDE DEF w
    <3>7. SameBut(v, w, X)
      BY <1>1, <3>3, <3>5 DEF SameBut
    <3>8. w \in Cof(A, x)
      BY <3>5, <3>6
    <3>9. QED
      BY <3>7, <3>8 DEF ExistsSat
  <2>2. ASSUME NEW v \in Valuations, v \in ExistsSat(Cof(A, x), X)
        PROVE  [v EXCEPT ![m] = x] \in ExistsSat(A, X)
    <3>1. PICK w \in Cof(A, x) : SameBut(v, w, X)
      BY <2>2 DEF ExistsSat
    <3> DEFINE u == [w EXCEPT ![m] = x]
               z == [v EXCEPT ![m] = x]
    <3>2. u \in A /\ w \in Valuations
      OBVIOUS
    <3>3. /\ z \in Valuations /\ z[m] = x /\ \A i \in Vars : i # m => z[i] = v[i]
          /\ u[m] = x /\ \A i \in Vars : i # m => u[i] = w[i]
      BY <3>2, Update
    <3> HIDE DEF u, z
    <3>4. SameBut(z, u, X)
      BY <3>1, <3>3 DEF SameBut
    <3>5. z \in ExistsSat(A, X)
      BY <3>2, <3>3, <3>4 DEF ExistsSat
    <3>6. QED
      BY <3>5 DEF z
  <2>3. ExistsSat(Cof(A, x), X) \subseteq Valuations
    BY DEF ExistsSat
  <2>4. QED
    BY <2>1, <2>2, <2>3
<1>2. ASSUME m \in X, NEW v \in ExistsSat(A, X)
      PROVE  v \in ExistsSat(Low(A, m), X) \cup ExistsSat(High(A, m), X)
  <2>1. PICK u \in A : SameBut(v, u, X)
    BY DEF ExistsSat
  <2>2. u \in Valuations /\ v \in Valuations
    BY DEF SatSets, ExistsSat
  <2>3. u \in Low(A, m) \/ u \in High(A, m)
    BY <2>2, LowHigh DEF SatSets
  <2>4. QED
    BY <2>1, <2>2, <2>3 DEF ExistsSat
<1>3. ASSUME m \in X, NEW x \in BOOLEAN, NEW v \in ExistsSat(Cof(A, x), X)
      PROVE  v \in ExistsSat(A, X)
  <2>1. PICK w \in Cof(A, x) : SameBut(v, w, X)
    BY DEF ExistsSat
  <2> DEFINE u == [w EXCEPT ![m] = x]
  <2>2. u \in A /\ w \in Valuations /\ v \in Valuations
    BY DEF ExistsSat
  <2>3. \A i \in Vars : i # m => u[i] = w[i]
    BY <2>2, Update
  <2> HIDE DEF u
  <2>4. SameBut(v, u, X)
    BY <1>3, <2>1, <2>3 DEF SameBut
  <2>5. QED
    BY <2>2, <2>4 DEF ExistsSat
<1>4. \A B : Low(B, m) = Cof(B, FALSE) /\ High(B, m) = Cof(B, TRUE)
  BY DEF Low, High
<1> HIDE DEF Cof
<1>5. QED
  BY <1>1, <1>2, <1>3, <1>4

\* The cofactors with respect to two variables can be taken in either order.
LEMMA CofactorsCommute ==
  ASSUME NEW A \in SatSets, NEW m \in Vars, NEW n \in Vars, m # n
  PROVE  /\ Low(Low(A, n), m) = Low(Low(A, m), n) /\ High(Low(A, n), m) = Low(High(A, m), n)
         /\ Low(High(A, n), m) = High(Low(A, m), n) /\ High(High(A, n), m) = High(High(A, m), n)
<1>1. \A v \in Valuations, x, y \in BOOLEAN :
        [[v EXCEPT ![m] = x] EXCEPT ![n] = y] = [[v EXCEPT ![n] = y] EXCEPT ![m] = x]
  BY DEF Valuations
<1>2. \A v \in Valuations, x \in BOOLEAN :
        [v EXCEPT ![m] = x] \in Valuations /\ [v EXCEPT ![n] = x] \in Valuations
  BY Update
<1>3. QED
  BY <1>1, <1>2 DEF Low, High

\* A cofactor of what starts at m starts there too.
LEMMA CofactorsFrom ==
  ASSUME NEW A \in SatSets, NEW m \in Int, NEW n \in Vars, From(A, m)
  PROVE  From(Low(A, n), m) /\ From(High(A, n), m)
<1>1. ASSUME NEW v \in Valuations, NEW w \in Valuations, NEW x \in BOOLEAN,
             \A i \in Vars : m <= i => v[i] = w[i]
      PROVE  [v EXCEPT ![n] = x] \in A <=> [w EXCEPT ![n] = x] \in A
  <2> DEFINE y == [v EXCEPT ![n] = x]
             z == [w EXCEPT ![n] = x]
  <2>1. /\ y \in Valuations /\ y[n] = x /\ \A i \in Vars : i # n => y[i] = v[i]
        /\ z \in Valuations /\ z[n] = x /\ \A i \in Vars : i # n => z[i] = w[i]
    BY Update
  <2> HIDE DEF y, z
  <2>2. \A i \in Vars : m <= i => y[i] = z[i]
    BY <1>1, <2>1
  <2>3. y \in A <=> z \in A
    BY <2>1, <2>2 DEF From
  <2>4. QED
    BY <2>3 DEF y, z
<1>2. QED
  BY <1>1 DEF From, Low, High

\* Quantification of one variable.
LEMMA OneVariableSat ==
  ASSUME NEW A \in SatSets, NEW n \in Vars
  PROVE  /\ ExistsSat(A, {n}) = Low(A, n) \cup High(A, n)
         /\ ForallSat(A, {n}) = Low(A, n) \cap High(A, n)
<1>1. ASSUME NEW B \in SatSets PROVE ExistsSat(B, {n}) = Low(B, n) \cup High(B, n)
  <2>1. ASSUME NEW v \in Valuations, NEW w \in B, SameBut(v, w, {n})
        PROVE  v \in Low(B, n) \cup High(B, n)
    <3>1. w \in Valuations /\ w[n] \in BOOLEAN
      BY DEF SatSets, Valuations
    <3>2. [v EXCEPT ![n] = w[n]] = w
      BY <2>1, <3>1 DEF SameBut, Valuations
    <3>3. QED
      BY <3>1, <3>2 DEF Low, High
  <2>2. ASSUME NEW v \in Valuations, NEW x \in BOOLEAN, [v EXCEPT ![n] = x] \in B
        PROVE  \E w \in B : SameBut(v, w, {n})
    <3>1. \A i \in Vars : i # n => [v EXCEPT ![n] = x][i] = v[i]
      BY Update
    <3>2. SameBut(v, [v EXCEPT ![n] = x], {n})
      BY <3>1 DEF SameBut
    <3>3. QED
      BY <2>2, <3>2
  <2>3. QED
    BY <2>1, <2>2 DEF ExistsSat, Low, High
<1>2. Valuations \ A \in SatSets
  BY DEF SatSets
<1>3. Low(Valuations \ A, n) = Valuations \ Low(A, n) /\ High(Valuations \ A, n) = Valuations \ High(A, n)
  BY Update DEF Low, High
<1>4. QED
  BY <1>1, <1>2, <1>3 DEF ForallSat, Low, High

-------------------------------------------------------------------------------
\* The operations for one variable.

\* The cofactor for the variable being FALSE.
Restrict0Sat(A, n) == Low(A, n)

Restrict0Of == [p \in BDD \X Vars |-> TreeOf(Restrict0Sat(Sat(p[1]), p[2]))]

\* The function that restrict0 is meant to compute.
LEMMA Restrict0SatFacts ==
  ASSUME NEW A \in SatSets, NEW n \in Vars
  PROVE  /\ Restrict0Sat(A, n) \in SatSets
         /\ From(A, n + 1) => Restrict0Sat(A, n) = A
         /\ \A m \in Int : From(A, m) => From(Restrict0Sat(A, n), m)
         /\ \A m \in Vars : m # n =>
              /\ Low(Restrict0Sat(A, n), m) = Restrict0Sat(Low(A, m), n)
              /\ High(Restrict0Sat(A, n), m) = Restrict0Sat(High(A, m), n)
<1>1. Restrict0Sat(A, n) \in SatSets /\ (From(A, n + 1) => Restrict0Sat(A, n) = A)
  <2>1. /\ Low(A, n) \in SUBSET Valuations /\ High(A, n) \in SUBSET Valuations
        /\ From(A, n + 1) => Low(A, n) = A /\ High(A, n) = A
    BY LowHigh DEF SatSets
  <2>2. QED
    BY <2>1 DEF Restrict0Sat, SatSets
<1>2. \A m \in Int : From(A, m) => From(Restrict0Sat(A, n), m)
  <2> TAKE m \in Int
  <2> HAVE From(A, m)
  <2>1. From(Low(A, n), m) /\ From(High(A, n), m)
    BY CofactorsFrom
  <2>2. QED
    BY <2>1 DEF Restrict0Sat, From
<1>3. ASSUME NEW m \in Vars, m # n
      PROVE  /\ Low(Restrict0Sat(A, n), m) = Restrict0Sat(Low(A, m), n)
             /\ High(Restrict0Sat(A, n), m) = Restrict0Sat(High(A, m), n)
  <2>1. /\ Low(Low(A, n), m) = Low(Low(A, m), n) /\ High(Low(A, n), m) = Low(High(A, m), n)
        /\ Low(High(A, n), m) = High(Low(A, m), n) /\ High(High(A, n), m) = High(High(A, m), n)
    BY <1>3, CofactorsCommute
  <2>2. \A B, D : /\ Low(B \cup D, m) = Low(B, m) \cup Low(D, m)
                 /\ High(B \cup D, m) = High(B, m) \cup High(D, m)
                 /\ Low(B \cap D, m) = Low(B, m) \cap Low(D, m)
                 /\ High(B \cap D, m) = High(B, m) \cap High(D, m)
    BY DEF Low, High
  <2>3. QED
    BY <2>1, <2>2 DEF Restrict0Sat
<1>4. QED
  BY <1>1, <1>2, <1>3

\* The body of restrict0 returns what it is meant to when its calls do.
LEMMA Restrict0Step ==
  ASSUME NEW rec, NEW p \in BDD \X Vars,
         AgreeBelow(BDD \X Vars, Rank1(BDD \X Vars), rec, Restrict0Of, p)
  PROVE  restrict0_body(rec, p[1], p[2]) = Restrict0Of[p]
<1> PICK a \in BDD, n \in Vars : p = <<a, n>>
  OBVIOUS
<1> DEFINE C == Restrict0Sat(Sat(a), n)
<1>1. Sat(a) \in SatSets /\ C \in SUBSET Valuations /\ Restrict0Of[p] = TreeOf(C)
  BY SatType, Restrict0SatFacts DEF Restrict0Of, SatSets
<1>2. CASE Above(a, n)
  <2>1. StartsAt(a, n + 1) /\ n + 1 \in Int
    BY <1>2, BDDElim, NumVarsAssumption DEF Above, StartsAt, IsNode, Vars
  <2>2. C = Sat(a)
    BY <1>1, <2>1, SatFrom, Restrict0SatFacts
  <2>3. restrict0_body(rec, a, n) = a
    BY <1>2 DEF restrict0_body
  <2>4. QED
    BY <1>1, <2>2, <2>3, TreeOfSat
<1>3. CASE ~Above(a, n) /\ var(a) = n
  <2>1. restrict0_body(rec, a, n) = left(a)
    BY <1>3 DEF restrict0_body
  <2>2. ~isConstant(a)
    BY <1>3 DEF Above
  <2>3. /\ left(a) \in BDD /\ right(a) \in BDD
        /\ Sat(left(a)) = Low(Sat(a), n) /\ Sat(right(a)) = High(Sat(a), n)
    BY <1>3, <2>2, NodeFacts
  <2>4. left(a) \in BDD /\ Sat(left(a)) = C
    BY <2>3 DEF Restrict0Sat
  <2>5. QED
    BY <1>1, <2>1, <2>4, TreeOfFacts
<1>4. CASE ~Above(a, n) /\ var(a) # n
  <2> DEFINE m == var(a)
             l == rec[<<left(a), n>>]
             r == rec[<<right(a), n>>]
  <2>1. restrict0_body(rec, a, n) = find(m, l, r)
    BY <1>4 DEF restrict0_body
  <2>2. ~isConstant(a) /\ m = var(a) /\ m # n
    BY <1>4 DEF Above
  <2> HIDE DEF m
  <2>3. /\ m \in Vars /\ m \in Nat /\ From(Sat(a), m)
        /\ left(a) \in BDD /\ right(a) \in BDD
        /\ Sat(left(a)) = Low(Sat(a), m) /\ Sat(right(a)) = High(Sat(a), m)
        /\ rank(left(a)) < rank(a) /\ rank(right(a)) < rank(a)
    BY <2>2, NodeFacts
  <2>4. \A b \in BDD : rank(b) < rank(a) => rec[<<b, n>>] = TreeOf(Restrict0Sat(Sat(b), n))
    BY DEF AgreeBelow, Rank1, Restrict0Of
  <2>5. l = TreeOf(Restrict0Sat(Low(Sat(a), m), n)) /\ r = TreeOf(Restrict0Sat(High(Sat(a), m), n))
    BY <2>3, <2>4
  <2>6. l = TreeOf(Low(C, m)) /\ r = TreeOf(High(C, m)) /\ From(C, m)
    BY <1>1, <2>2, <2>3, <2>5, Restrict0SatFacts
  <2> HIDE DEF l, r, C
  <2>7. find(m, l, r) = TreeOf(C)
    BY <1>1, <2>3, <2>6, FindTree
  <2>8. QED
    BY <1>1, <2>1, <2>7
<1>5. QED
  BY <1>2, <1>3, <1>4

\* restrict0: the recursion has a solution, and it is the intended function.
LEMMA Restrict0Solved == \A p \in BDD \X Vars : restrict0_rec[p] = Restrict0Of[p]
<1> DEFINE S == BDD \X Vars
           F == Restrict0Of
           Solves(g) == g = [p \in S |-> restrict0_body(g, p[1], p[2])]
<1>1. Solves(F)
  <2>1. \A p \in S : restrict0_body(F, p[1], p[2]) = F[p]
    BY Restrict0Step DEF AgreeBelow
  <2>2. F = [p \in S |-> F[p]]
    BY DEF Restrict0Of
  <2>3. QED
    BY <2>1, <2>2
<1>2. restrict0_rec = CHOOSE g : Solves(g)
  BY Zenon DEF restrict0_rec
<1>3. Solves(restrict0_rec)
  BY <1>1, <1>2
<1>4. \A p \in S : AgreeBelow(S, Rank1(S), restrict0_rec, F, p) => restrict0_rec[p] = F[p]
  <2> SUFFICES ASSUME NEW p \in S, AgreeBelow(S, Rank1(S), restrict0_rec, F, p)
               PROVE  restrict0_rec[p] = F[p]
    OBVIOUS
  <2>1. restrict0_rec[p] = restrict0_body(restrict0_rec, p[1], p[2])
    BY <1>3
  <2>2. restrict0_body(restrict0_rec, p[1], p[2]) = F[p]
    BY Restrict0Step
  <2>3. QED
    BY <2>1, <2>2
<1>5. \A p \in S : Rank1(S)[p] \in Nat
  BY RankTypes
<1>6. \A p \in S : restrict0_rec[p] = F[p]
  <2> HIDE DEF S, F
  <2>1. QED
    BY <1>4, <1>5, Agreement
<1>7. QED
  BY <1>6

\* restrict0 fixes a variable to false.
THEOREM Restrict0Meaning ==
  \A a \in BDD, n \in Vars :
    restrict0(a, n) \in BDD /\ Sat(restrict0(a, n)) = Restrict0Sat(Sat(a), n)
<1> TAKE a \in BDD, n \in Vars
<1>1. restrict0(a, n) = TreeOf(Restrict0Sat(Sat(a), n))
  BY Restrict0Solved DEF restrict0, Restrict0Of
<1>2. Restrict0Sat(Sat(a), n) \in SUBSET Valuations
  BY SatType, Restrict0SatFacts DEF SatSets
<1>3. QED
  BY <1>1, <1>2, TreeOfFacts

\* The cofactor for the variable being TRUE.
Restrict1Sat(A, n) == High(A, n)

Restrict1Of == [p \in BDD \X Vars |-> TreeOf(Restrict1Sat(Sat(p[1]), p[2]))]

\* The function that restrict1 is meant to compute.
LEMMA Restrict1SatFacts ==
  ASSUME NEW A \in SatSets, NEW n \in Vars
  PROVE  /\ Restrict1Sat(A, n) \in SatSets
         /\ From(A, n + 1) => Restrict1Sat(A, n) = A
         /\ \A m \in Int : From(A, m) => From(Restrict1Sat(A, n), m)
         /\ \A m \in Vars : m # n =>
              /\ Low(Restrict1Sat(A, n), m) = Restrict1Sat(Low(A, m), n)
              /\ High(Restrict1Sat(A, n), m) = Restrict1Sat(High(A, m), n)
<1>1. Restrict1Sat(A, n) \in SatSets /\ (From(A, n + 1) => Restrict1Sat(A, n) = A)
  <2>1. /\ Low(A, n) \in SUBSET Valuations /\ High(A, n) \in SUBSET Valuations
        /\ From(A, n + 1) => Low(A, n) = A /\ High(A, n) = A
    BY LowHigh DEF SatSets
  <2>2. QED
    BY <2>1 DEF Restrict1Sat, SatSets
<1>2. \A m \in Int : From(A, m) => From(Restrict1Sat(A, n), m)
  <2> TAKE m \in Int
  <2> HAVE From(A, m)
  <2>1. From(Low(A, n), m) /\ From(High(A, n), m)
    BY CofactorsFrom
  <2>2. QED
    BY <2>1 DEF Restrict1Sat, From
<1>3. ASSUME NEW m \in Vars, m # n
      PROVE  /\ Low(Restrict1Sat(A, n), m) = Restrict1Sat(Low(A, m), n)
             /\ High(Restrict1Sat(A, n), m) = Restrict1Sat(High(A, m), n)
  <2>1. /\ Low(Low(A, n), m) = Low(Low(A, m), n) /\ High(Low(A, n), m) = Low(High(A, m), n)
        /\ Low(High(A, n), m) = High(Low(A, m), n) /\ High(High(A, n), m) = High(High(A, m), n)
    BY <1>3, CofactorsCommute
  <2>2. \A B, D : /\ Low(B \cup D, m) = Low(B, m) \cup Low(D, m)
                 /\ High(B \cup D, m) = High(B, m) \cup High(D, m)
                 /\ Low(B \cap D, m) = Low(B, m) \cap Low(D, m)
                 /\ High(B \cap D, m) = High(B, m) \cap High(D, m)
    BY DEF Low, High
  <2>3. QED
    BY <2>1, <2>2 DEF Restrict1Sat
<1>4. QED
  BY <1>1, <1>2, <1>3

\* The body of restrict1 returns what it is meant to when its calls do.
LEMMA Restrict1Step ==
  ASSUME NEW rec, NEW p \in BDD \X Vars,
         AgreeBelow(BDD \X Vars, Rank1(BDD \X Vars), rec, Restrict1Of, p)
  PROVE  restrict1_body(rec, p[1], p[2]) = Restrict1Of[p]
<1> PICK a \in BDD, n \in Vars : p = <<a, n>>
  OBVIOUS
<1> DEFINE C == Restrict1Sat(Sat(a), n)
<1>1. Sat(a) \in SatSets /\ C \in SUBSET Valuations /\ Restrict1Of[p] = TreeOf(C)
  BY SatType, Restrict1SatFacts DEF Restrict1Of, SatSets
<1>2. CASE Above(a, n)
  <2>1. StartsAt(a, n + 1) /\ n + 1 \in Int
    BY <1>2, BDDElim, NumVarsAssumption DEF Above, StartsAt, IsNode, Vars
  <2>2. C = Sat(a)
    BY <1>1, <2>1, SatFrom, Restrict1SatFacts
  <2>3. restrict1_body(rec, a, n) = a
    BY <1>2 DEF restrict1_body
  <2>4. QED
    BY <1>1, <2>2, <2>3, TreeOfSat
<1>3. CASE ~Above(a, n) /\ var(a) = n
  <2>1. restrict1_body(rec, a, n) = right(a)
    BY <1>3 DEF restrict1_body
  <2>2. ~isConstant(a)
    BY <1>3 DEF Above
  <2>3. /\ left(a) \in BDD /\ right(a) \in BDD
        /\ Sat(left(a)) = Low(Sat(a), n) /\ Sat(right(a)) = High(Sat(a), n)
    BY <1>3, <2>2, NodeFacts
  <2>4. right(a) \in BDD /\ Sat(right(a)) = C
    BY <2>3 DEF Restrict1Sat
  <2>5. QED
    BY <1>1, <2>1, <2>4, TreeOfFacts
<1>4. CASE ~Above(a, n) /\ var(a) # n
  <2> DEFINE m == var(a)
             l == rec[<<left(a), n>>]
             r == rec[<<right(a), n>>]
  <2>1. restrict1_body(rec, a, n) = find(m, l, r)
    BY <1>4 DEF restrict1_body
  <2>2. ~isConstant(a) /\ m = var(a) /\ m # n
    BY <1>4 DEF Above
  <2> HIDE DEF m
  <2>3. /\ m \in Vars /\ m \in Nat /\ From(Sat(a), m)
        /\ left(a) \in BDD /\ right(a) \in BDD
        /\ Sat(left(a)) = Low(Sat(a), m) /\ Sat(right(a)) = High(Sat(a), m)
        /\ rank(left(a)) < rank(a) /\ rank(right(a)) < rank(a)
    BY <2>2, NodeFacts
  <2>4. \A b \in BDD : rank(b) < rank(a) => rec[<<b, n>>] = TreeOf(Restrict1Sat(Sat(b), n))
    BY DEF AgreeBelow, Rank1, Restrict1Of
  <2>5. l = TreeOf(Restrict1Sat(Low(Sat(a), m), n)) /\ r = TreeOf(Restrict1Sat(High(Sat(a), m), n))
    BY <2>3, <2>4
  <2>6. l = TreeOf(Low(C, m)) /\ r = TreeOf(High(C, m)) /\ From(C, m)
    BY <1>1, <2>2, <2>3, <2>5, Restrict1SatFacts
  <2> HIDE DEF l, r, C
  <2>7. find(m, l, r) = TreeOf(C)
    BY <1>1, <2>3, <2>6, FindTree
  <2>8. QED
    BY <1>1, <2>1, <2>7
<1>5. QED
  BY <1>2, <1>3, <1>4

\* restrict1: the recursion has a solution, and it is the intended function.
LEMMA Restrict1Solved == \A p \in BDD \X Vars : restrict1_rec[p] = Restrict1Of[p]
<1> DEFINE S == BDD \X Vars
           F == Restrict1Of
           Solves(g) == g = [p \in S |-> restrict1_body(g, p[1], p[2])]
<1>1. Solves(F)
  <2>1. \A p \in S : restrict1_body(F, p[1], p[2]) = F[p]
    BY Restrict1Step DEF AgreeBelow
  <2>2. F = [p \in S |-> F[p]]
    BY DEF Restrict1Of
  <2>3. QED
    BY <2>1, <2>2
<1>2. restrict1_rec = CHOOSE g : Solves(g)
  BY Zenon DEF restrict1_rec
<1>3. Solves(restrict1_rec)
  BY <1>1, <1>2
<1>4. \A p \in S : AgreeBelow(S, Rank1(S), restrict1_rec, F, p) => restrict1_rec[p] = F[p]
  <2> SUFFICES ASSUME NEW p \in S, AgreeBelow(S, Rank1(S), restrict1_rec, F, p)
               PROVE  restrict1_rec[p] = F[p]
    OBVIOUS
  <2>1. restrict1_rec[p] = restrict1_body(restrict1_rec, p[1], p[2])
    BY <1>3
  <2>2. restrict1_body(restrict1_rec, p[1], p[2]) = F[p]
    BY Restrict1Step
  <2>3. QED
    BY <2>1, <2>2
<1>5. \A p \in S : Rank1(S)[p] \in Nat
  BY RankTypes
<1>6. \A p \in S : restrict1_rec[p] = F[p]
  <2> HIDE DEF S, F
  <2>1. QED
    BY <1>4, <1>5, Agreement
<1>7. QED
  BY <1>6

\* restrict1 fixes a variable to true.
THEOREM Restrict1Meaning ==
  \A a \in BDD, n \in Vars :
    restrict1(a, n) \in BDD /\ Sat(restrict1(a, n)) = Restrict1Sat(Sat(a), n)
<1> TAKE a \in BDD, n \in Vars
<1>1. restrict1(a, n) = TreeOf(Restrict1Sat(Sat(a), n))
  BY Restrict1Solved DEF restrict1, Restrict1Of
<1>2. Restrict1Sat(Sat(a), n) \in SUBSET Valuations
  BY SatType, Restrict1SatFacts DEF SatSets
<1>3. QED
  BY <1>1, <1>2, TreeOfFacts

\* Existential quantification.
ExistsVarSat(A, n) == Low(A, n) \cup High(A, n)

ExistsVarOf == [p \in BDD \X Vars |-> TreeOf(ExistsVarSat(Sat(p[1]), p[2]))]

\* The function that existsVar is meant to compute.
LEMMA ExistsVarSatFacts ==
  ASSUME NEW A \in SatSets, NEW n \in Vars
  PROVE  /\ ExistsVarSat(A, n) \in SatSets
         /\ From(A, n + 1) => ExistsVarSat(A, n) = A
         /\ \A m \in Int : From(A, m) => From(ExistsVarSat(A, n), m)
         /\ \A m \in Vars : m # n =>
              /\ Low(ExistsVarSat(A, n), m) = ExistsVarSat(Low(A, m), n)
              /\ High(ExistsVarSat(A, n), m) = ExistsVarSat(High(A, m), n)
<1>1. ExistsVarSat(A, n) \in SatSets /\ (From(A, n + 1) => ExistsVarSat(A, n) = A)
  <2>1. /\ Low(A, n) \in SUBSET Valuations /\ High(A, n) \in SUBSET Valuations
        /\ From(A, n + 1) => Low(A, n) = A /\ High(A, n) = A
    BY LowHigh DEF SatSets
  <2>2. QED
    BY <2>1 DEF ExistsVarSat, SatSets
<1>2. \A m \in Int : From(A, m) => From(ExistsVarSat(A, n), m)
  <2> TAKE m \in Int
  <2> HAVE From(A, m)
  <2>1. From(Low(A, n), m) /\ From(High(A, n), m)
    BY CofactorsFrom
  <2>2. QED
    BY <2>1 DEF ExistsVarSat, From
<1>3. ASSUME NEW m \in Vars, m # n
      PROVE  /\ Low(ExistsVarSat(A, n), m) = ExistsVarSat(Low(A, m), n)
             /\ High(ExistsVarSat(A, n), m) = ExistsVarSat(High(A, m), n)
  <2>1. /\ Low(Low(A, n), m) = Low(Low(A, m), n) /\ High(Low(A, n), m) = Low(High(A, m), n)
        /\ Low(High(A, n), m) = High(Low(A, m), n) /\ High(High(A, n), m) = High(High(A, m), n)
    BY <1>3, CofactorsCommute
  <2>2. \A B, D : /\ Low(B \cup D, m) = Low(B, m) \cup Low(D, m)
                 /\ High(B \cup D, m) = High(B, m) \cup High(D, m)
                 /\ Low(B \cap D, m) = Low(B, m) \cap Low(D, m)
                 /\ High(B \cap D, m) = High(B, m) \cap High(D, m)
    BY DEF Low, High
  <2>3. QED
    BY <2>1, <2>2 DEF ExistsVarSat
<1>4. QED
  BY <1>1, <1>2, <1>3

\* The body of existsVar returns what it is meant to when its calls do.
LEMMA ExistsVarStep ==
  ASSUME NEW rec, NEW p \in BDD \X Vars,
         AgreeBelow(BDD \X Vars, Rank1(BDD \X Vars), rec, ExistsVarOf, p)
  PROVE  existsVar_body(rec, p[1], p[2]) = ExistsVarOf[p]
<1> PICK a \in BDD, n \in Vars : p = <<a, n>>
  OBVIOUS
<1> DEFINE C == ExistsVarSat(Sat(a), n)
<1>1. Sat(a) \in SatSets /\ C \in SUBSET Valuations /\ ExistsVarOf[p] = TreeOf(C)
  BY SatType, ExistsVarSatFacts DEF ExistsVarOf, SatSets
<1>2. CASE Above(a, n)
  <2>1. StartsAt(a, n + 1) /\ n + 1 \in Int
    BY <1>2, BDDElim, NumVarsAssumption DEF Above, StartsAt, IsNode, Vars
  <2>2. C = Sat(a)
    BY <1>1, <2>1, SatFrom, ExistsVarSatFacts
  <2>3. existsVar_body(rec, a, n) = a
    BY <1>2 DEF existsVar_body
  <2>4. QED
    BY <1>1, <2>2, <2>3, TreeOfSat
<1>3. CASE ~Above(a, n) /\ var(a) = n
  <2>1. existsVar_body(rec, a, n) = orop(left(a), right(a))
    BY <1>3 DEF existsVar_body
  <2>2. ~isConstant(a)
    BY <1>3 DEF Above
  <2>3. /\ left(a) \in BDD /\ right(a) \in BDD
        /\ Sat(left(a)) = Low(Sat(a), n) /\ Sat(right(a)) = High(Sat(a), n)
    BY <1>3, <2>2, NodeFacts
  <2>4. orop(left(a), right(a)) \in BDD /\ Sat(orop(left(a), right(a))) = C
    BY <2>3, OrMeaning DEF ExistsVarSat
  <2>5. QED
    BY <1>1, <2>1, <2>4, TreeOfFacts
<1>4. CASE ~Above(a, n) /\ var(a) # n
  <2> DEFINE m == var(a)
             l == rec[<<left(a), n>>]
             r == rec[<<right(a), n>>]
  <2>1. existsVar_body(rec, a, n) = find(m, l, r)
    BY <1>4 DEF existsVar_body
  <2>2. ~isConstant(a) /\ m = var(a) /\ m # n
    BY <1>4 DEF Above
  <2> HIDE DEF m
  <2>3. /\ m \in Vars /\ m \in Nat /\ From(Sat(a), m)
        /\ left(a) \in BDD /\ right(a) \in BDD
        /\ Sat(left(a)) = Low(Sat(a), m) /\ Sat(right(a)) = High(Sat(a), m)
        /\ rank(left(a)) < rank(a) /\ rank(right(a)) < rank(a)
    BY <2>2, NodeFacts
  <2>4. \A b \in BDD : rank(b) < rank(a) => rec[<<b, n>>] = TreeOf(ExistsVarSat(Sat(b), n))
    BY DEF AgreeBelow, Rank1, ExistsVarOf
  <2>5. l = TreeOf(ExistsVarSat(Low(Sat(a), m), n)) /\ r = TreeOf(ExistsVarSat(High(Sat(a), m), n))
    BY <2>3, <2>4
  <2>6. l = TreeOf(Low(C, m)) /\ r = TreeOf(High(C, m)) /\ From(C, m)
    BY <1>1, <2>2, <2>3, <2>5, ExistsVarSatFacts
  <2> HIDE DEF l, r, C
  <2>7. find(m, l, r) = TreeOf(C)
    BY <1>1, <2>3, <2>6, FindTree
  <2>8. QED
    BY <1>1, <2>1, <2>7
<1>5. QED
  BY <1>2, <1>3, <1>4

\* existsVar: the recursion has a solution, and it is the intended function.
LEMMA ExistsVarSolved == \A p \in BDD \X Vars : existsVar_rec[p] = ExistsVarOf[p]
<1> DEFINE S == BDD \X Vars
           F == ExistsVarOf
           Solves(g) == g = [p \in S |-> existsVar_body(g, p[1], p[2])]
<1>1. Solves(F)
  <2>1. \A p \in S : existsVar_body(F, p[1], p[2]) = F[p]
    BY ExistsVarStep DEF AgreeBelow
  <2>2. F = [p \in S |-> F[p]]
    BY DEF ExistsVarOf
  <2>3. QED
    BY <2>1, <2>2
<1>2. existsVar_rec = CHOOSE g : Solves(g)
  BY Zenon DEF existsVar_rec
<1>3. Solves(existsVar_rec)
  BY <1>1, <1>2
<1>4. \A p \in S : AgreeBelow(S, Rank1(S), existsVar_rec, F, p) => existsVar_rec[p] = F[p]
  <2> SUFFICES ASSUME NEW p \in S, AgreeBelow(S, Rank1(S), existsVar_rec, F, p)
               PROVE  existsVar_rec[p] = F[p]
    OBVIOUS
  <2>1. existsVar_rec[p] = existsVar_body(existsVar_rec, p[1], p[2])
    BY <1>3
  <2>2. existsVar_body(existsVar_rec, p[1], p[2]) = F[p]
    BY ExistsVarStep
  <2>3. QED
    BY <2>1, <2>2
<1>5. \A p \in S : Rank1(S)[p] \in Nat
  BY RankTypes
<1>6. \A p \in S : existsVar_rec[p] = F[p]
  <2> HIDE DEF S, F
  <2>1. QED
    BY <1>4, <1>5, Agreement
<1>7. QED
  BY <1>6

\* existsVar quantifies one variable.
THEOREM ExistsVarMeaning ==
  \A a \in BDD, n \in Vars :
    existsVar(a, n) \in BDD /\ Sat(existsVar(a, n)) = ExistsVarSat(Sat(a), n)
<1> TAKE a \in BDD, n \in Vars
<1>1. existsVar(a, n) = TreeOf(ExistsVarSat(Sat(a), n))
  BY ExistsVarSolved DEF existsVar, ExistsVarOf
<1>2. ExistsVarSat(Sat(a), n) \in SUBSET Valuations
  BY SatType, ExistsVarSatFacts DEF SatSets
<1>3. QED
  BY <1>1, <1>2, TreeOfFacts

\* Universal quantification.
ForallVarSat(A, n) == Low(A, n) \cap High(A, n)

ForallVarOf == [p \in BDD \X Vars |-> TreeOf(ForallVarSat(Sat(p[1]), p[2]))]

\* The function that forallVar is meant to compute.
LEMMA ForallVarSatFacts ==
  ASSUME NEW A \in SatSets, NEW n \in Vars
  PROVE  /\ ForallVarSat(A, n) \in SatSets
         /\ From(A, n + 1) => ForallVarSat(A, n) = A
         /\ \A m \in Int : From(A, m) => From(ForallVarSat(A, n), m)
         /\ \A m \in Vars : m # n =>
              /\ Low(ForallVarSat(A, n), m) = ForallVarSat(Low(A, m), n)
              /\ High(ForallVarSat(A, n), m) = ForallVarSat(High(A, m), n)
<1>1. ForallVarSat(A, n) \in SatSets /\ (From(A, n + 1) => ForallVarSat(A, n) = A)
  <2>1. /\ Low(A, n) \in SUBSET Valuations /\ High(A, n) \in SUBSET Valuations
        /\ From(A, n + 1) => Low(A, n) = A /\ High(A, n) = A
    BY LowHigh DEF SatSets
  <2>2. QED
    BY <2>1 DEF ForallVarSat, SatSets
<1>2. \A m \in Int : From(A, m) => From(ForallVarSat(A, n), m)
  <2> TAKE m \in Int
  <2> HAVE From(A, m)
  <2>1. From(Low(A, n), m) /\ From(High(A, n), m)
    BY CofactorsFrom
  <2>2. QED
    BY <2>1 DEF ForallVarSat, From
<1>3. ASSUME NEW m \in Vars, m # n
      PROVE  /\ Low(ForallVarSat(A, n), m) = ForallVarSat(Low(A, m), n)
             /\ High(ForallVarSat(A, n), m) = ForallVarSat(High(A, m), n)
  <2>1. /\ Low(Low(A, n), m) = Low(Low(A, m), n) /\ High(Low(A, n), m) = Low(High(A, m), n)
        /\ Low(High(A, n), m) = High(Low(A, m), n) /\ High(High(A, n), m) = High(High(A, m), n)
    BY <1>3, CofactorsCommute
  <2>2. \A B, D : /\ Low(B \cup D, m) = Low(B, m) \cup Low(D, m)
                 /\ High(B \cup D, m) = High(B, m) \cup High(D, m)
                 /\ Low(B \cap D, m) = Low(B, m) \cap Low(D, m)
                 /\ High(B \cap D, m) = High(B, m) \cap High(D, m)
    BY DEF Low, High
  <2>3. QED
    BY <2>1, <2>2 DEF ForallVarSat
<1>4. QED
  BY <1>1, <1>2, <1>3

\* The body of forallVar returns what it is meant to when its calls do.
LEMMA ForallVarStep ==
  ASSUME NEW rec, NEW p \in BDD \X Vars,
         AgreeBelow(BDD \X Vars, Rank1(BDD \X Vars), rec, ForallVarOf, p)
  PROVE  forallVar_body(rec, p[1], p[2]) = ForallVarOf[p]
<1> PICK a \in BDD, n \in Vars : p = <<a, n>>
  OBVIOUS
<1> DEFINE C == ForallVarSat(Sat(a), n)
<1>1. Sat(a) \in SatSets /\ C \in SUBSET Valuations /\ ForallVarOf[p] = TreeOf(C)
  BY SatType, ForallVarSatFacts DEF ForallVarOf, SatSets
<1>2. CASE Above(a, n)
  <2>1. StartsAt(a, n + 1) /\ n + 1 \in Int
    BY <1>2, BDDElim, NumVarsAssumption DEF Above, StartsAt, IsNode, Vars
  <2>2. C = Sat(a)
    BY <1>1, <2>1, SatFrom, ForallVarSatFacts
  <2>3. forallVar_body(rec, a, n) = a
    BY <1>2 DEF forallVar_body
  <2>4. QED
    BY <1>1, <2>2, <2>3, TreeOfSat
<1>3. CASE ~Above(a, n) /\ var(a) = n
  <2>1. forallVar_body(rec, a, n) = andop(left(a), right(a))
    BY <1>3 DEF forallVar_body
  <2>2. ~isConstant(a)
    BY <1>3 DEF Above
  <2>3. /\ left(a) \in BDD /\ right(a) \in BDD
        /\ Sat(left(a)) = Low(Sat(a), n) /\ Sat(right(a)) = High(Sat(a), n)
    BY <1>3, <2>2, NodeFacts
  <2>4. andop(left(a), right(a)) \in BDD /\ Sat(andop(left(a), right(a))) = C
    BY <2>3, AndMeaning DEF ForallVarSat
  <2>5. QED
    BY <1>1, <2>1, <2>4, TreeOfFacts
<1>4. CASE ~Above(a, n) /\ var(a) # n
  <2> DEFINE m == var(a)
             l == rec[<<left(a), n>>]
             r == rec[<<right(a), n>>]
  <2>1. forallVar_body(rec, a, n) = find(m, l, r)
    BY <1>4 DEF forallVar_body
  <2>2. ~isConstant(a) /\ m = var(a) /\ m # n
    BY <1>4 DEF Above
  <2> HIDE DEF m
  <2>3. /\ m \in Vars /\ m \in Nat /\ From(Sat(a), m)
        /\ left(a) \in BDD /\ right(a) \in BDD
        /\ Sat(left(a)) = Low(Sat(a), m) /\ Sat(right(a)) = High(Sat(a), m)
        /\ rank(left(a)) < rank(a) /\ rank(right(a)) < rank(a)
    BY <2>2, NodeFacts
  <2>4. \A b \in BDD : rank(b) < rank(a) => rec[<<b, n>>] = TreeOf(ForallVarSat(Sat(b), n))
    BY DEF AgreeBelow, Rank1, ForallVarOf
  <2>5. l = TreeOf(ForallVarSat(Low(Sat(a), m), n)) /\ r = TreeOf(ForallVarSat(High(Sat(a), m), n))
    BY <2>3, <2>4
  <2>6. l = TreeOf(Low(C, m)) /\ r = TreeOf(High(C, m)) /\ From(C, m)
    BY <1>1, <2>2, <2>3, <2>5, ForallVarSatFacts
  <2> HIDE DEF l, r, C
  <2>7. find(m, l, r) = TreeOf(C)
    BY <1>1, <2>3, <2>6, FindTree
  <2>8. QED
    BY <1>1, <2>1, <2>7
<1>5. QED
  BY <1>2, <1>3, <1>4

\* forallVar: the recursion has a solution, and it is the intended function.
LEMMA ForallVarSolved == \A p \in BDD \X Vars : forallVar_rec[p] = ForallVarOf[p]
<1> DEFINE S == BDD \X Vars
           F == ForallVarOf
           Solves(g) == g = [p \in S |-> forallVar_body(g, p[1], p[2])]
<1>1. Solves(F)
  <2>1. \A p \in S : forallVar_body(F, p[1], p[2]) = F[p]
    BY ForallVarStep DEF AgreeBelow
  <2>2. F = [p \in S |-> F[p]]
    BY DEF ForallVarOf
  <2>3. QED
    BY <2>1, <2>2
<1>2. forallVar_rec = CHOOSE g : Solves(g)
  BY Zenon DEF forallVar_rec
<1>3. Solves(forallVar_rec)
  BY <1>1, <1>2
<1>4. \A p \in S : AgreeBelow(S, Rank1(S), forallVar_rec, F, p) => forallVar_rec[p] = F[p]
  <2> SUFFICES ASSUME NEW p \in S, AgreeBelow(S, Rank1(S), forallVar_rec, F, p)
               PROVE  forallVar_rec[p] = F[p]
    OBVIOUS
  <2>1. forallVar_rec[p] = forallVar_body(forallVar_rec, p[1], p[2])
    BY <1>3
  <2>2. forallVar_body(forallVar_rec, p[1], p[2]) = F[p]
    BY ForallVarStep
  <2>3. QED
    BY <2>1, <2>2
<1>5. \A p \in S : Rank1(S)[p] \in Nat
  BY RankTypes
<1>6. \A p \in S : forallVar_rec[p] = F[p]
  <2> HIDE DEF S, F
  <2>1. QED
    BY <1>4, <1>5, Agreement
<1>7. QED
  BY <1>6

\* forallVar quantifies one variable universally.
THEOREM ForallVarMeaning ==
  \A a \in BDD, n \in Vars :
    forallVar(a, n) \in BDD /\ Sat(forallVar(a, n)) = ForallVarSat(Sat(a), n)
<1> TAKE a \in BDD, n \in Vars
<1>1. forallVar(a, n) = TreeOf(ForallVarSat(Sat(a), n))
  BY ForallVarSolved DEF forallVar, ForallVarOf
<1>2. ForallVarSat(Sat(a), n) \in SUBSET Valuations
  BY SatType, ForallVarSatFacts DEF SatSets
<1>3. QED
  BY <1>1, <1>2, TreeOfFacts

-------------------------------------------------------------------------------
\* Quantification.

\* Complement and quantification.
LEMMA Complement ==
  ASSUME NEW A \in SatSets
  PROVE  /\ Valuations \ A \in SatSets /\ Valuations \ (Valuations \ A) = A
         /\ \A m : From(A, m) => From(Valuations \ A, m)
         /\ \A m \in Vars : /\ Low(Valuations \ A, m) = Valuations \ Low(A, m)
                            /\ High(Valuations \ A, m) = Valuations \ High(A, m)
BY Update DEF From, Low, High, SatSets

\* Cofactors of functions are functions.
LEMMA CofactorTypes ==
  ASSUME NEW A \in SatSets, NEW m \in Vars
  PROVE  /\ Low(A, m) \in SatSets /\ High(A, m) \in SatSets
         /\ From(A, m) => From(Low(A, m), m + 1) /\ From(High(A, m), m + 1)
BY LowHigh DEF SatSets

\* Universal quantification of functions.
LEMMA ForallSatFacts ==
  ASSUME NEW A \in SatSets, NEW X \in SUBSET Vars
  PROVE  /\ ForallSat(A, X) \in SatSets
         /\ ForallSat({}, X) = {} /\ ForallSat(Valuations, X) = Valuations
         /\ ForallSat(A, {}) = A
<1>1. Valuations \ A \in SatSets /\ Valuations \ (Valuations \ A) = A /\ A \subseteq Valuations
  BY Complement DEF SatSets
<1>2. /\ ExistsSat({}, X) = {} /\ ExistsSat(Valuations, X) = Valuations
      /\ ExistsSat(Valuations \ A, {}) = Valuations \ A
  BY <1>1, ExistsSatFacts
<1>3. Valuations \ {} = Valuations /\ Valuations \ Valuations = {}
  OBVIOUS
<1>4. QED
  BY <1>1, <1>2, <1>3 DEF ForallSat, SatSets

\* Universal quantification keeps the variables that do not matter.
LEMMA ForallSatFrom ==
  ASSUME NEW A \in SatSets, NEW X \in SUBSET Vars, NEW m \in Int, From(A, m)
  PROVE  /\ From(ForallSat(A, X), m)
         /\ ForallSat(A, X) = ForallSat(A, {i \in X : m <= i})
<1>1. Valuations \ A \in SatSets /\ From(Valuations \ A, m)
  BY Complement
<1>2. /\ From(ExistsSat(Valuations \ A, X), m) /\ ExistsSat(Valuations \ A, X) \in SatSets
      /\ ExistsSat(Valuations \ A, X) = ExistsSat(Valuations \ A, {i \in X : m <= i})
  BY <1>1, ExistsSatFrom, ExistsSatFacts
<1>3. QED
  BY <1>2, Complement DEF ForallSat

\* Universal quantification and cofactors.
LEMMA ForallSatCofactors ==
  ASSUME NEW A \in SatSets, NEW X \in SUBSET Vars, NEW m \in Vars
  PROVE  /\ m \notin X => /\ Low(ForallSat(A, X), m) = ForallSat(Low(A, m), X)
                          /\ High(ForallSat(A, X), m) = ForallSat(High(A, m), X)
         /\ m \in X => ForallSat(A, X) = ForallSat(Low(A, m), X) \cap ForallSat(High(A, m), X)
<1> DEFINE B == Valuations \ A
<1>1. /\ B \in SatSets /\ Low(B, m) = Valuations \ Low(A, m)
      /\ High(B, m) = Valuations \ High(A, m)
  BY Complement
<1> HIDE DEF B
<1>2. /\ m \notin X => /\ Low(ExistsSat(B, X), m) = ExistsSat(Low(B, m), X)
                       /\ High(ExistsSat(B, X), m) = ExistsSat(High(B, m), X)
      /\ m \in X => ExistsSat(B, X) = ExistsSat(Low(B, m), X) \cup ExistsSat(High(B, m), X)
  BY <1>1, ExistsSatCofactors
<1>3. ExistsSat(B, X) \in SatSets
  BY <1>1, ExistsSatFacts
<1>4. /\ Low(Valuations \ ExistsSat(B, X), m) = Valuations \ Low(ExistsSat(B, X), m)
      /\ High(Valuations \ ExistsSat(B, X), m) = Valuations \ High(ExistsSat(B, X), m)
  BY <1>3, Complement
<1>5. ForallSat(A, X) = Valuations \ ExistsSat(B, X)
  BY DEF ForallSat, B
<1>6. /\ ForallSat(Low(A, m), X) = Valuations \ ExistsSat(Low(B, m), X)
      /\ ForallSat(High(A, m), X) = Valuations \ ExistsSat(High(B, m), X)
  BY <1>1 DEF ForallSat
<1>7. QED
  BY <1>2, <1>4, <1>5, <1>6

\* What starts after m is not changed by a quantifier over m.
LEMMA ExistsLess ==
  ASSUME NEW B \in SatSets, NEW m \in Vars, From(B, m + 1), NEW Y \in SUBSET Vars
  PROVE  ExistsSat(B, Y) = ExistsSat(B, Y \ {m})
<1>1. m + 1 \in Int /\ Y \ {m} \in SUBSET Vars /\ \A i \in Y : i \in Int /\ m \in Int
  BY NumVarsAssumption DEF Vars
<1>2. {i \in Y : m + 1 <= i} = {i \in Y \ {m} : m + 1 <= i}
  BY <1>1
<1>3. /\ ExistsSat(B, Y) = ExistsSat(B, {i \in Y : m + 1 <= i})
      /\ ExistsSat(B, Y \ {m}) = ExistsSat(B, {i \in Y \ {m} : m + 1 <= i})
  BY <1>1, ExistsSatFrom
<1>4. QED
  BY <1>2, <1>3

\* A node of an existential quantification, joined if its variable is quantified.
ExistsJoin(C, m, x) ==
  LET l == TreeOf(ExistsSat(Low(C, m), VarsOf(x)))
      r == TreeOf(ExistsSat(High(C, m), VarsOf(x)))
  IN  IF var(x) = m THEN orop(l, r) ELSE find(m, l, r)

\* A quantified node, from its quantified cofactors.
LEMMA ExistsNode ==
  ASSUME NEW C \in SatSets, NEW m \in Vars, From(C, m), NEW X \in SUBSET Vars,
         NEW x \in Cubes, VarsOf(x) = {i \in X : m <= i}
  PROVE  ExistsJoin(C, m, x) = TreeOf(ExistsSat(C, X))
<1> DEFINE Y == VarsOf(x)
           D == ExistsSat(C, Y)
           l == TreeOf(ExistsSat(Low(C, m), Y))
           r == TreeOf(ExistsSat(High(C, m), Y))
<1>1. m \in Nat /\ m \in Int /\ Y \in SUBSET Vars /\ \A i \in Y : i \in Int /\ m <= i
  <2>1. m \in Nat /\ m \in Int /\ \A i \in Vars : i \in Int
    BY NumVarsAssumption DEF Vars
  <2>2. Y \in SUBSET Vars /\ \A i \in Y : m <= i
    OBVIOUS
  <2>3. QED
    BY <2>1, <2>2
<1>2. D = ExistsSat(C, X) /\ D \in SatSets /\ From(D, m)
  BY <1>1, ExistsSatFrom, ExistsSatFacts
<1>3. Low(C, m) \in SatSets /\ High(C, m) \in SatSets
  BY CofactorTypes
<1>4. ExistsJoin(C, m, x) = IF var(x) = m THEN orop(l, r) ELSE find(m, l, r)
  BY DEF ExistsJoin
<1>5. var(x) = m <=> m \in Y
  <2>1. CASE x = True
    BY <1>1, <2>1, CubeElim DEF True, var
  <2>2. CASE x # True
    <3>1. var(x) \in Y /\ \A i \in Y : var(x) <= i
      BY <2>2, CubeElim
    <3> DEFINE n == var(x)
    <3>2. n \in Y /\ n \in Int /\ m <= n /\ \A i \in Y : n <= i
      BY <1>1, <3>1
    <3> HIDE DEF Y, n
    <3>3. n = m <=> m \in Y
      BY <1>1, <3>2
    <3>4. QED
      BY <3>3 DEF n
  <2>3. QED
    BY <2>1, <2>2
<1> HIDE DEF Y
<1>6. ExistsSat(Low(C, m), Y) \in SatSets /\ ExistsSat(High(C, m), Y) \in SatSets
  BY <1>1, <1>3, ExistsSatFacts
<1>7. /\ l \in BDD /\ Sat(l) = ExistsSat(Low(C, m), Y)
      /\ r \in BDD /\ Sat(r) = ExistsSat(High(C, m), Y)
  BY <1>6, TreeOfFacts DEF SatSets
<1> HIDE DEF D
<1>8. CASE m \in Y
  <2>1. D = Sat(l) \cup Sat(r)
    BY <1>1, <1>7, <1>8, ExistsSatCofactors DEF D
  <2>2. orop(l, r) \in BDD /\ Sat(orop(l, r)) = D
    BY <1>7, <2>1, OrMeaning
  <2>3. orop(l, r) = TreeOf(D)
    BY <1>2, <2>2, TreeOfFacts DEF SatSets
  <2>4. QED
    BY <1>2, <1>4, <1>5, <1>8, <2>3
<1>9. CASE m \notin Y
  <2>1. Low(D, m) = ExistsSat(Low(C, m), Y) /\ High(D, m) = ExistsSat(High(C, m), Y)
    BY <1>1, <1>9, ExistsSatCofactors DEF D
  <2>2. l = TreeOf(Low(D, m)) /\ r = TreeOf(High(D, m))
    BY <2>1
  <2>3. find(m, l, r) = TreeOf(D)
    BY <1>2, <2>2, FindTree DEF SatSets
  <2>4. QED
    BY <1>2, <1>4, <1>5, <1>9, <2>3
<1>10. QED
  BY <1>8, <1>9

\* What starts after m is not changed by a quantifier over m.
LEMMA ForallLess ==
  ASSUME NEW B \in SatSets, NEW m \in Vars, From(B, m + 1), NEW Y \in SUBSET Vars
  PROVE  ForallSat(B, Y) = ForallSat(B, Y \ {m})
<1>1. m + 1 \in Int /\ Y \ {m} \in SUBSET Vars /\ \A i \in Y : i \in Int /\ m \in Int
  BY NumVarsAssumption DEF Vars
<1>2. {i \in Y : m + 1 <= i} = {i \in Y \ {m} : m + 1 <= i}
  BY <1>1
<1>3. /\ ForallSat(B, Y) = ForallSat(B, {i \in Y : m + 1 <= i})
      /\ ForallSat(B, Y \ {m}) = ForallSat(B, {i \in Y \ {m} : m + 1 <= i})
  BY <1>1, ForallSatFrom
<1>4. QED
  BY <1>2, <1>3

\* A node of an universal quantification, joined if its variable is quantified.
ForallJoin(C, m, x) ==
  LET l == TreeOf(ForallSat(Low(C, m), VarsOf(x)))
      r == TreeOf(ForallSat(High(C, m), VarsOf(x)))
  IN  IF var(x) = m THEN andop(l, r) ELSE find(m, l, r)

\* A universally quantified node, from its quantified cofactors.
LEMMA ForallNode ==
  ASSUME NEW C \in SatSets, NEW m \in Vars, From(C, m), NEW X \in SUBSET Vars,
         NEW x \in Cubes, VarsOf(x) = {i \in X : m <= i}
  PROVE  ForallJoin(C, m, x) = TreeOf(ForallSat(C, X))
<1> DEFINE Y == VarsOf(x)
           D == ForallSat(C, Y)
           l == TreeOf(ForallSat(Low(C, m), Y))
           r == TreeOf(ForallSat(High(C, m), Y))
<1>1. m \in Nat /\ m \in Int /\ Y \in SUBSET Vars /\ \A i \in Y : i \in Int /\ m <= i
  <2>1. m \in Nat /\ m \in Int /\ \A i \in Vars : i \in Int
    BY NumVarsAssumption DEF Vars
  <2>2. Y \in SUBSET Vars /\ \A i \in Y : m <= i
    OBVIOUS
  <2>3. QED
    BY <2>1, <2>2
<1>2. D = ForallSat(C, X) /\ D \in SatSets /\ From(D, m)
  BY <1>1, ForallSatFrom, ForallSatFacts
<1>3. Low(C, m) \in SatSets /\ High(C, m) \in SatSets
  BY CofactorTypes
<1>4. ForallJoin(C, m, x) = IF var(x) = m THEN andop(l, r) ELSE find(m, l, r)
  BY DEF ForallJoin
<1>5. var(x) = m <=> m \in Y
  <2>1. CASE x = True
    BY <1>1, <2>1, CubeElim DEF True, var
  <2>2. CASE x # True
    <3>1. var(x) \in Y /\ \A i \in Y : var(x) <= i
      BY <2>2, CubeElim
    <3> DEFINE n == var(x)
    <3>2. n \in Y /\ n \in Int /\ m <= n /\ \A i \in Y : n <= i
      BY <1>1, <3>1
    <3> HIDE DEF Y, n
    <3>3. n = m <=> m \in Y
      BY <1>1, <3>2
    <3>4. QED
      BY <3>3 DEF n
  <2>3. QED
    BY <2>1, <2>2
<1> HIDE DEF Y
<1>6. ForallSat(Low(C, m), Y) \in SatSets /\ ForallSat(High(C, m), Y) \in SatSets
  BY <1>1, <1>3, ForallSatFacts
<1>7. /\ l \in BDD /\ Sat(l) = ForallSat(Low(C, m), Y)
      /\ r \in BDD /\ Sat(r) = ForallSat(High(C, m), Y)
  BY <1>6, TreeOfFacts DEF SatSets
<1> HIDE DEF D
<1>8. CASE m \in Y
  <2>1. D = Sat(l) \cap Sat(r)
    BY <1>1, <1>7, <1>8, ForallSatCofactors DEF D
  <2>2. andop(l, r) \in BDD /\ Sat(andop(l, r)) = D
    BY <1>7, <2>1, AndMeaning
  <2>3. andop(l, r) = TreeOf(D)
    BY <1>2, <2>2, TreeOfFacts DEF SatSets
  <2>4. QED
    BY <1>2, <1>4, <1>5, <1>8, <2>3
<1>9. CASE m \notin Y
  <2>1. Low(D, m) = ForallSat(Low(C, m), Y) /\ High(D, m) = ForallSat(High(C, m), Y)
    BY <1>1, <1>9, ForallSatCofactors DEF D
  <2>2. l = TreeOf(Low(D, m)) /\ r = TreeOf(High(D, m))
    BY <2>1
  <2>3. find(m, l, r) = TreeOf(D)
    BY <1>2, <2>2, FindTree DEF SatSets
  <2>4. QED
    BY <1>2, <1>4, <1>5, <1>9, <2>3
<1>10. QED
  BY <1>8, <1>9

ExistsOf == [p \in BDD \X Cubes |-> TreeOf(ExistsSat(Sat(p[1]), VarsOf(p[2])))]

\* The body of exists returns what it is meant to when its calls do.
LEMMA ExistsStep ==
  ASSUME NEW rec, NEW p \in BDD \X Cubes,
         AgreeBelow(BDD \X Cubes, Rank1(BDD \X Cubes), rec, ExistsOf, p)
  PROVE  exists_body(rec, p[1], p[2]) = ExistsOf[p]
<1> PICK a \in BDD, xs \in Cubes : p = <<a, xs>>
  OBVIOUS
<1> DEFINE A == Sat(a)
           X == VarsOf(xs)
           C == ExistsSat(A, X)
<1>1. A \in SatSets /\ X \in SUBSET Vars /\ C \in SatSets /\ ExistsOf[p] = TreeOf(C)
  <2>1. A \in SatSets /\ X \in SUBSET Vars
    BY SatType, CubeElim DEF SatSets
  <2>2. QED
    BY <2>1, ExistsSatFacts DEF ExistsOf
<1>2. \A b \in BDD : Sat(b) = C => b = TreeOf(C)
  BY <1>1, TreeOfFacts DEF SatSets
<1>3. CASE isConstant(a)
  <2>1. exists_body(rec, a, xs) = a
    BY <1>3 DEF exists_body
  <2>2. A = {} \/ A = Valuations
    BY <1>3, BDDElim, SatConstants
  <2>3. ExistsSat({}, X) = {} /\ ExistsSat(Valuations, X) = Valuations
    BY <1>1, ExistsSatFacts
  <2>4. Sat(a) = C
    BY <2>2, <2>3
  <2>5. QED
    BY <1>1, <1>2, <2>1, <2>4
<1>4. CASE ~isConstant(a)
  <2> DEFINE m == var(a)
             x == Skip(xs, m)
             Y == {i \in X : m <= i}
             l == TreeOf(ExistsSat(Low(A, m), Y))
             r == TreeOf(ExistsSat(High(A, m), Y))
  <2>1. m = var(a) /\ x = Skip(xs, m)
    OBVIOUS
  <2>2. x # True => exists_body(rec, a, xs)
          = IF var(x) = m THEN orop(rec[<<left(a), right(x)>>], rec[<<right(a), right(x)>>])
            ELSE find(m, rec[<<left(a), x>>], rec[<<right(a), x>>])
    BY <1>4, ConstantFacts DEF exists_body
  <2>3. x = True => exists_body(rec, a, xs) = a
    BY <1>4, ConstantFacts DEF exists_body
  <2> HIDE DEF m, x, A, X
  <2>4. /\ m \in Vars /\ m \in Nat /\ m \in Int /\ From(Sat(a), m)
        /\ left(a) \in BDD /\ right(a) \in BDD
        /\ Sat(left(a)) = Low(Sat(a), m) /\ Sat(right(a)) = High(Sat(a), m)
        /\ rank(left(a)) < rank(a) /\ rank(right(a)) < rank(a)
    BY <1>4, <2>1, NodeFacts
  <2>5. /\ From(A, m) /\ Sat(a) \in SatSets
        /\ Sat(left(a)) = Low(A, m) /\ Sat(right(a)) = High(A, m)
    BY <2>4, SatType, Complement DEF A, SatSets
  <2>6. x \in Cubes /\ VarsOf(x) = Y
    BY <2>1, <2>4, SkipFacts DEF X
  <2>7. \A b \in BDD, y \in Cubes : rank(b) < rank(a)
           => rec[<<b, y>>] = TreeOf(ExistsSat(Sat(b), VarsOf(y)))
    BY DEF AgreeBelow, Rank1, ExistsOf
  <2>8. rec[<<left(a), x>>] = l /\ rec[<<right(a), x>>] = r
    BY <2>4, <2>5, <2>6, <2>7
  <2>9. (IF var(x) = m THEN orop(l, r) ELSE find(m, l, r)) = TreeOf(C)
    <3>1. ExistsJoin(A, m, x) = TreeOf(ExistsSat(A, X))
      BY <1>1, <2>4, <2>5, <2>6, ExistsNode
    <3>2. QED
      BY <2>6, <3>1 DEF ExistsJoin
  <2>10. var(x) = m => rec[<<left(a), right(x)>>] = l /\ rec[<<right(a), right(x)>>] = r
    <3> SUFFICES ASSUME var(x) = m
                 PROVE  rec[<<left(a), right(x)>>] = l /\ rec[<<right(a), right(x)>>] = r
      OBVIOUS
    <3>1. x # True
      BY <2>4 DEF True, var
    <3>2. right(x) \in Cubes /\ VarsOf(right(x)) = Y \ {m}
      BY <2>6, <3>1, CubeElim
    <3>3. /\ rec[<<left(a), right(x)>>] = TreeOf(ExistsSat(Low(A, m), Y \ {m}))
          /\ rec[<<right(a), right(x)>>] = TreeOf(ExistsSat(High(A, m), Y \ {m}))
      BY <2>4, <2>5, <2>7, <3>2
    <3>4. /\ Low(A, m) \in SatSets /\ High(A, m) \in SatSets /\ Y \in SUBSET Vars
          /\ From(Low(A, m), m + 1) /\ From(High(A, m), m + 1)
      BY <1>1, <2>4, <2>5, CofactorTypes
    <3> HIDE DEF Y
    <3>5. /\ ExistsSat(Low(A, m), Y) = ExistsSat(Low(A, m), Y \ {m})
          /\ ExistsSat(High(A, m), Y) = ExistsSat(High(A, m), Y \ {m})
      BY <2>4, <3>4, ExistsLess
    <3>6. QED
      BY <3>3, <3>5
  <2>11. CASE x = True
    <3>1. Y = {}
      BY <2>6, <2>11, CubeElim
    <3>2. C = A
      BY <1>1, <2>4, <2>5, <3>1, ExistsSatFrom, ExistsSatFacts
    <3>3. a \in BDD /\ Sat(a) = A
      BY SatType DEF A
    <3>4. QED
      BY <1>1, <1>2, <2>3, <2>11, <3>2, <3>3
  <2>12. CASE x # True
    <3> HIDE DEF C, l, r
    <3>1. QED
      BY <1>1, <2>2, <2>8, <2>9, <2>10, <2>12
  <2>13. QED
    BY <2>11, <2>12
<1>5. QED
  BY <1>3, <1>4

\* exists: the recursion has a solution, and it is the intended function.
LEMMA ExistsSolved == \A p \in BDD \X Cubes : exists_rec[p] = ExistsOf[p]
<1> DEFINE S == BDD \X Cubes
           F == ExistsOf
           Solves(g) == g = [p \in S |-> exists_body(g, p[1], p[2])]
<1>1. Solves(F)
  <2>1. \A p \in S : exists_body(F, p[1], p[2]) = F[p]
    BY ExistsStep DEF AgreeBelow
  <2>2. F = [p \in S |-> F[p]]
    BY DEF ExistsOf
  <2>3. QED
    BY <2>1, <2>2
<1>2. exists_rec = CHOOSE g : Solves(g)
  BY Zenon DEF exists_rec
<1>3. Solves(exists_rec)
  BY <1>1, <1>2
<1>4. \A p \in S : AgreeBelow(S, Rank1(S), exists_rec, F, p) => exists_rec[p] = F[p]
  <2> SUFFICES ASSUME NEW p \in S, AgreeBelow(S, Rank1(S), exists_rec, F, p)
               PROVE  exists_rec[p] = F[p]
    OBVIOUS
  <2>1. exists_rec[p] = exists_body(exists_rec, p[1], p[2])
    BY <1>3
  <2>2. exists_body(exists_rec, p[1], p[2]) = F[p]
    BY ExistsStep
  <2>3. QED
    BY <2>1, <2>2
<1>5. \A p \in S : Rank1(S)[p] \in Nat
  BY RankTypes
<1>6. \A p \in S : exists_rec[p] = F[p]
  <2> HIDE DEF S, F
  <2>1. QED
    BY <1>4, <1>5, Agreement
<1>7. QED
  BY <1>6

\* exists quantifies the variables of a cube.
THEOREM ExistsMeaning ==
  \A a \in BDD, x \in Cubes :
    exists(a, x) \in BDD /\ Sat(exists(a, x)) = ExistsSat(Sat(a), VarsOf(x))
<1> TAKE a \in BDD, x \in Cubes
<1>1. exists(a, x) = TreeOf(ExistsSat(Sat(a), VarsOf(x)))
  BY ExistsSolved DEF exists, ExistsOf
<1>2. Sat(a) \in SatSets /\ VarsOf(x) \in SUBSET Vars
  BY SatType, CubeElim DEF SatSets
<1>3. ExistsSat(Sat(a), VarsOf(x)) \in SUBSET Valuations
  BY <1>2, ExistsSatFacts DEF SatSets
<1>4. QED
  BY <1>1, <1>3, TreeOfFacts

ForallOf == [p \in BDD \X Cubes |-> TreeOf(ForallSat(Sat(p[1]), VarsOf(p[2])))]

\* The body of forall returns what it is meant to when its calls do.
LEMMA ForallStep ==
  ASSUME NEW rec, NEW p \in BDD \X Cubes,
         AgreeBelow(BDD \X Cubes, Rank1(BDD \X Cubes), rec, ForallOf, p)
  PROVE  forall_body(rec, p[1], p[2]) = ForallOf[p]
<1> PICK a \in BDD, xs \in Cubes : p = <<a, xs>>
  OBVIOUS
<1> DEFINE A == Sat(a)
           X == VarsOf(xs)
           C == ForallSat(A, X)
<1>1. A \in SatSets /\ X \in SUBSET Vars /\ C \in SatSets /\ ForallOf[p] = TreeOf(C)
  <2>1. A \in SatSets /\ X \in SUBSET Vars
    BY SatType, CubeElim DEF SatSets
  <2>2. QED
    BY <2>1, ForallSatFacts DEF ForallOf
<1>2. \A b \in BDD : Sat(b) = C => b = TreeOf(C)
  BY <1>1, TreeOfFacts DEF SatSets
<1>3. CASE isConstant(a)
  <2>1. forall_body(rec, a, xs) = a
    BY <1>3 DEF forall_body
  <2>2. A = {} \/ A = Valuations
    BY <1>3, BDDElim, SatConstants
  <2>3. ForallSat({}, X) = {} /\ ForallSat(Valuations, X) = Valuations
    BY <1>1, ForallSatFacts
  <2>4. Sat(a) = C
    BY <2>2, <2>3
  <2>5. QED
    BY <1>1, <1>2, <2>1, <2>4
<1>4. CASE ~isConstant(a)
  <2> DEFINE m == var(a)
             x == Skip(xs, m)
             Y == {i \in X : m <= i}
             l == TreeOf(ForallSat(Low(A, m), Y))
             r == TreeOf(ForallSat(High(A, m), Y))
  <2>1. m = var(a) /\ x = Skip(xs, m)
    OBVIOUS
  <2>2. x # True => forall_body(rec, a, xs)
          = IF var(x) = m THEN andop(rec[<<left(a), right(x)>>], rec[<<right(a), right(x)>>])
            ELSE find(m, rec[<<left(a), x>>], rec[<<right(a), x>>])
    BY <1>4, ConstantFacts DEF forall_body
  <2>3. x = True => forall_body(rec, a, xs) = a
    BY <1>4, ConstantFacts DEF forall_body
  <2> HIDE DEF m, x, A, X
  <2>4. /\ m \in Vars /\ m \in Nat /\ m \in Int /\ From(Sat(a), m)
        /\ left(a) \in BDD /\ right(a) \in BDD
        /\ Sat(left(a)) = Low(Sat(a), m) /\ Sat(right(a)) = High(Sat(a), m)
        /\ rank(left(a)) < rank(a) /\ rank(right(a)) < rank(a)
    BY <1>4, <2>1, NodeFacts
  <2>5. /\ From(A, m) /\ Sat(a) \in SatSets
        /\ Sat(left(a)) = Low(A, m) /\ Sat(right(a)) = High(A, m)
    BY <2>4, SatType, Complement DEF A, SatSets
  <2>6. x \in Cubes /\ VarsOf(x) = Y
    BY <2>1, <2>4, SkipFacts DEF X
  <2>7. \A b \in BDD, y \in Cubes : rank(b) < rank(a)
           => rec[<<b, y>>] = TreeOf(ForallSat(Sat(b), VarsOf(y)))
    BY DEF AgreeBelow, Rank1, ForallOf
  <2>8. rec[<<left(a), x>>] = l /\ rec[<<right(a), x>>] = r
    BY <2>4, <2>5, <2>6, <2>7
  <2>9. (IF var(x) = m THEN andop(l, r) ELSE find(m, l, r)) = TreeOf(C)
    <3>1. ForallJoin(A, m, x) = TreeOf(ForallSat(A, X))
      BY <1>1, <2>4, <2>5, <2>6, ForallNode
    <3>2. QED
      BY <2>6, <3>1 DEF ForallJoin
  <2>10. var(x) = m => rec[<<left(a), right(x)>>] = l /\ rec[<<right(a), right(x)>>] = r
    <3> SUFFICES ASSUME var(x) = m
                 PROVE  rec[<<left(a), right(x)>>] = l /\ rec[<<right(a), right(x)>>] = r
      OBVIOUS
    <3>1. x # True
      BY <2>4 DEF True, var
    <3>2. right(x) \in Cubes /\ VarsOf(right(x)) = Y \ {m}
      BY <2>6, <3>1, CubeElim
    <3>3. /\ rec[<<left(a), right(x)>>] = TreeOf(ForallSat(Low(A, m), Y \ {m}))
          /\ rec[<<right(a), right(x)>>] = TreeOf(ForallSat(High(A, m), Y \ {m}))
      BY <2>4, <2>5, <2>7, <3>2
    <3>4. /\ Low(A, m) \in SatSets /\ High(A, m) \in SatSets /\ Y \in SUBSET Vars
          /\ From(Low(A, m), m + 1) /\ From(High(A, m), m + 1)
      BY <1>1, <2>4, <2>5, CofactorTypes
    <3> HIDE DEF Y
    <3>5. /\ ForallSat(Low(A, m), Y) = ForallSat(Low(A, m), Y \ {m})
          /\ ForallSat(High(A, m), Y) = ForallSat(High(A, m), Y \ {m})
      BY <2>4, <3>4, ForallLess
    <3>6. QED
      BY <3>3, <3>5
  <2>11. CASE x = True
    <3>1. Y = {}
      BY <2>6, <2>11, CubeElim
    <3>2. C = A
      BY <1>1, <2>4, <2>5, <3>1, ForallSatFrom, ForallSatFacts
    <3>3. a \in BDD /\ Sat(a) = A
      BY SatType DEF A
    <3>4. QED
      BY <1>1, <1>2, <2>3, <2>11, <3>2, <3>3
  <2>12. CASE x # True
    <3> HIDE DEF C, l, r
    <3>1. QED
      BY <1>1, <2>2, <2>8, <2>9, <2>10, <2>12
  <2>13. QED
    BY <2>11, <2>12
<1>5. QED
  BY <1>3, <1>4

\* forall: the recursion has a solution, and it is the intended function.
LEMMA ForallSolved == \A p \in BDD \X Cubes : forall_rec[p] = ForallOf[p]
<1> DEFINE S == BDD \X Cubes
           F == ForallOf
           Solves(g) == g = [p \in S |-> forall_body(g, p[1], p[2])]
<1>1. Solves(F)
  <2>1. \A p \in S : forall_body(F, p[1], p[2]) = F[p]
    BY ForallStep DEF AgreeBelow
  <2>2. F = [p \in S |-> F[p]]
    BY DEF ForallOf
  <2>3. QED
    BY <2>1, <2>2
<1>2. forall_rec = CHOOSE g : Solves(g)
  BY Zenon DEF forall_rec
<1>3. Solves(forall_rec)
  BY <1>1, <1>2
<1>4. \A p \in S : AgreeBelow(S, Rank1(S), forall_rec, F, p) => forall_rec[p] = F[p]
  <2> SUFFICES ASSUME NEW p \in S, AgreeBelow(S, Rank1(S), forall_rec, F, p)
               PROVE  forall_rec[p] = F[p]
    OBVIOUS
  <2>1. forall_rec[p] = forall_body(forall_rec, p[1], p[2])
    BY <1>3
  <2>2. forall_body(forall_rec, p[1], p[2]) = F[p]
    BY ForallStep
  <2>3. QED
    BY <2>1, <2>2
<1>5. \A p \in S : Rank1(S)[p] \in Nat
  BY RankTypes
<1>6. \A p \in S : forall_rec[p] = F[p]
  <2> HIDE DEF S, F
  <2>1. QED
    BY <1>4, <1>5, Agreement
<1>7. QED
  BY <1>6

\* forall quantifies the variables of a cube universally.
THEOREM ForallMeaning ==
  \A a \in BDD, x \in Cubes :
    forall(a, x) \in BDD /\ Sat(forall(a, x)) = ForallSat(Sat(a), VarsOf(x))
<1> TAKE a \in BDD, x \in Cubes
<1>1. forall(a, x) = TreeOf(ForallSat(Sat(a), VarsOf(x)))
  BY ForallSolved DEF forall, ForallOf
<1>2. Sat(a) \in SatSets /\ VarsOf(x) \in SUBSET Vars
  BY SatType, CubeElim DEF SatSets
<1>3. ForallSat(Sat(a), VarsOf(x)) \in SUBSET Valuations
  BY <1>2, ForallSatFacts DEF SatSets
<1>4. QED
  BY <1>1, <1>3, TreeOfFacts

NotExistsOf == [p \in BDD \X Cubes |-> TreeOf(ExistsSat(Valuations \ Sat(p[1]), VarsOf(p[2])))]

\* The body of notExists returns what it is meant to when its calls do.
LEMMA NotExistsStep ==
  ASSUME NEW rec, NEW p \in BDD \X Cubes,
         AgreeBelow(BDD \X Cubes, Rank1(BDD \X Cubes), rec, NotExistsOf, p)
  PROVE  notExists_body(rec, p[1], p[2]) = NotExistsOf[p]
<1> PICK a \in BDD, xs \in Cubes : p = <<a, xs>>
  OBVIOUS
<1> DEFINE A == Valuations \ Sat(a)
           X == VarsOf(xs)
           C == ExistsSat(A, X)
<1>1. A \in SatSets /\ X \in SUBSET Vars /\ C \in SatSets /\ NotExistsOf[p] = TreeOf(C)
  <2>1. A \in SatSets /\ X \in SUBSET Vars
    BY SatType, CubeElim DEF SatSets
  <2>2. QED
    BY <2>1, ExistsSatFacts DEF NotExistsOf
<1>2. \A b \in BDD : Sat(b) = C => b = TreeOf(C)
  BY <1>1, TreeOfFacts DEF SatSets
<1>3. CASE isConstant(a)
  <2>1. \/ a = False /\ notExists_body(rec, a, xs) = True
        \/ a = True /\ notExists_body(rec, a, xs) = False
    BY <1>3, BDDElim, ConstantFacts DEF notExists_body
  <2>2. a = False => A = Valuations
    BY SatConstants
  <2>3. a = True => A = {}
    BY SatConstants
  <2>4. ExistsSat({}, X) = {} /\ ExistsSat(Valuations, X) = Valuations
    BY <1>1, ExistsSatFacts
  <2> HIDE DEF A
  <2>5. QED
    BY <1>1, <1>2, <2>1, <2>2, <2>3, <2>4, SatConstants, ConstantFacts
<1>4. CASE ~isConstant(a)
  <2> DEFINE m == var(a)
             x == Skip(xs, m)
             Y == {i \in X : m <= i}
             l == TreeOf(ExistsSat(Low(A, m), Y))
             r == TreeOf(ExistsSat(High(A, m), Y))
  <2>1. m = var(a) /\ x = Skip(xs, m)
    OBVIOUS
  <2>2. x # True => notExists_body(rec, a, xs)
          = IF var(x) = m THEN orop(rec[<<left(a), x>>], rec[<<right(a), x>>])
            ELSE find(m, rec[<<left(a), x>>], rec[<<right(a), x>>])
    BY <1>4, ConstantFacts DEF notExists_body
  <2>3. x = True => notExists_body(rec, a, xs) = notop(a)
    BY <1>4, ConstantFacts DEF notExists_body
  <2> HIDE DEF m, x, A, X
  <2>4. /\ m \in Vars /\ m \in Nat /\ m \in Int /\ From(Sat(a), m)
        /\ left(a) \in BDD /\ right(a) \in BDD
        /\ Sat(left(a)) = Low(Sat(a), m) /\ Sat(right(a)) = High(Sat(a), m)
        /\ rank(left(a)) < rank(a) /\ rank(right(a)) < rank(a)
    BY <1>4, <2>1, NodeFacts
  <2>5. /\ From(A, m) /\ Sat(a) \in SatSets
        /\ Valuations \ Sat(left(a)) = Low(A, m) /\ Valuations \ Sat(right(a)) = High(A, m)
    BY <2>4, SatType, Complement DEF A, SatSets
  <2>6. x \in Cubes /\ VarsOf(x) = Y
    BY <2>1, <2>4, SkipFacts DEF X
  <2>7. \A b \in BDD, y \in Cubes : rank(b) < rank(a)
           => rec[<<b, y>>] = TreeOf(ExistsSat(Valuations \ Sat(b), VarsOf(y)))
    BY DEF AgreeBelow, Rank1, NotExistsOf
  <2>8. rec[<<left(a), x>>] = l /\ rec[<<right(a), x>>] = r
    BY <2>4, <2>5, <2>6, <2>7
  <2>9. (IF var(x) = m THEN orop(l, r) ELSE find(m, l, r)) = TreeOf(C)
    <3>1. ExistsJoin(A, m, x) = TreeOf(ExistsSat(A, X))
      BY <1>1, <2>4, <2>5, <2>6, ExistsNode
    <3>2. QED
      BY <2>6, <3>1 DEF ExistsJoin
  <2>10. CASE x = True
    <3>1. Y = {}
      BY <2>6, <2>10, CubeElim
    <3>2. C = A
      BY <1>1, <2>4, <2>5, <3>1, ExistsSatFrom, ExistsSatFacts
    <3>3. notop(a) \in BDD /\ Sat(notop(a)) = A
      BY SatType, NotMeaning DEF A
    <3>4. QED
      BY <1>1, <1>2, <2>3, <2>10, <3>2, <3>3
  <2>11. CASE x # True
    <3> HIDE DEF C, l, r
    <3>1. QED
      BY <1>1, <2>2, <2>8, <2>9, <2>11
  <2>12. QED
    BY <2>10, <2>11
<1>5. QED
  BY <1>3, <1>4

\* notExists: the recursion has a solution, and it is the intended function.
LEMMA NotExistsSolved == \A p \in BDD \X Cubes : notExists_rec[p] = NotExistsOf[p]
<1> DEFINE S == BDD \X Cubes
           F == NotExistsOf
           Solves(g) == g = [p \in S |-> notExists_body(g, p[1], p[2])]
<1>1. Solves(F)
  <2>1. \A p \in S : notExists_body(F, p[1], p[2]) = F[p]
    BY NotExistsStep DEF AgreeBelow
  <2>2. F = [p \in S |-> F[p]]
    BY DEF NotExistsOf
  <2>3. QED
    BY <2>1, <2>2
<1>2. notExists_rec = CHOOSE g : Solves(g)
  BY Zenon DEF notExists_rec
<1>3. Solves(notExists_rec)
  BY <1>1, <1>2
<1>4. \A p \in S : AgreeBelow(S, Rank1(S), notExists_rec, F, p) => notExists_rec[p] = F[p]
  <2> SUFFICES ASSUME NEW p \in S, AgreeBelow(S, Rank1(S), notExists_rec, F, p)
               PROVE  notExists_rec[p] = F[p]
    OBVIOUS
  <2>1. notExists_rec[p] = notExists_body(notExists_rec, p[1], p[2])
    BY <1>3
  <2>2. notExists_body(notExists_rec, p[1], p[2]) = F[p]
    BY NotExistsStep
  <2>3. QED
    BY <2>1, <2>2
<1>5. \A p \in S : Rank1(S)[p] \in Nat
  BY RankTypes
<1>6. \A p \in S : notExists_rec[p] = F[p]
  <2> HIDE DEF S, F
  <2>1. QED
    BY <1>4, <1>5, Agreement
<1>7. QED
  BY <1>6

\* notExists is the negation of exists.
THEOREM NotExistsMeaning ==
  \A a \in BDD, x \in Cubes :
    notExists(a, x) \in BDD /\ Sat(notExists(a, x)) = ExistsSat(Valuations \ Sat(a), VarsOf(x))
<1> TAKE a \in BDD, x \in Cubes
<1>1. notExists(a, x) = TreeOf(ExistsSat(Valuations \ Sat(a), VarsOf(x)))
  BY NotExistsSolved DEF notExists, NotExistsOf
<1>2. Valuations \ Sat(a) \in SatSets /\ VarsOf(x) \in SUBSET Vars
  BY SatType, CubeElim DEF SatSets
<1>3. ExistsSat(Valuations \ Sat(a), VarsOf(x)) \in SUBSET Valuations
  BY <1>2, ExistsSatFacts DEF SatSets
<1>4. QED
  BY <1>1, <1>3, TreeOfFacts

-------------------------------------------------------------------------------
\* Quantified connectives.

ExistsConnectiveOf(conn) ==
  [p \in BDD \X BDD \X Cubes |-> TreeOf(ExistsSat(conn[<<Sat(p[1]), Sat(p[2])>>], VarsOf(p[3])))]

ExistsShannon(rec, a, b, x) == QuantifiedShannon(rec, orop, a, b, x)

\* The same as ShannonTree, under a quantifier.
LEMMA ExistsShannonTree ==
  ASSUME NEW conn \in Connectives, NEW rec, NEW a \in BDD, NEW b \in BDD, NEW xs \in Cubes,
         ~isConstant(a) \/ ~isConstant(b),
         AgreeBelow(BDD \X BDD \X Cubes, Rank2(BDD \X BDD \X Cubes), rec,
                    ExistsConnectiveOf(conn), <<a, b, xs>>)
  PROVE  ExistsShannon(rec, a, b, Skip(xs, minVar(a, b))) = ExistsConnectiveOf(conn)[<<a, b, xs>>]
<1> DEFINE m == minVar(a, b)
           x == Skip(xs, m)
           X == VarsOf(xs)
           C == conn[<<Sat(a), Sat(b)>>]
           l == rec[<<cf_left(a, m), cf_left(b, m), x>>]
           r == rec[<<cf_right(a, m), cf_right(b, m), x>>]
<1>1. /\ cf_left(a, m) \in BDD /\ cf_left(b, m) \in BDD
      /\ cf_right(a, m) \in BDD /\ cf_right(b, m) \in BDD
      /\ Sat(cf_left(a, m)) = Low(Sat(a), m) /\ Sat(cf_left(b, m)) = Low(Sat(b), m)
      /\ Sat(cf_right(a, m)) = High(Sat(a), m) /\ Sat(cf_right(b, m)) = High(Sat(b), m)
      /\ rank(cf_left(a, m)) + rank(cf_left(b, m)) < rank(a) + rank(b)
      /\ rank(cf_right(a, m)) + rank(cf_right(b, m)) < rank(a) + rank(b)
      /\ From(Sat(a), m) /\ From(Sat(b), m) /\ m \in Vars
  BY MinVarFacts
<1>2. Sat(a) \in SatSets /\ Sat(b) \in SatSets /\ X \in SUBSET Vars
  BY SatType, CubeElim DEF SatSets
<1>3. /\ ExistsShannon(rec, a, b, x) = IF var(x) = m THEN orop(l, r) ELSE find(m, l, r)
      /\ x = Skip(xs, m)
  BY DEF ExistsShannon, QuantifiedShannon
<1> HIDE DEF m, x
<1>4. /\ C \in SatSets /\ From(C, m)
      /\ Low(C, m) = conn[<<Low(Sat(a), m), Low(Sat(b), m)>>]
      /\ High(C, m) = conn[<<High(Sat(a), m), High(Sat(b), m)>>]
  BY <1>1, <1>2, ConnectiveFacts
<1>5. x \in Cubes /\ VarsOf(x) = {i \in X : m <= i}
  <2>1. m \in Nat
    BY <1>1, NumVarsAssumption DEF Vars
  <2>2. QED
    BY <1>3, <2>1, SkipFacts
<1>6. \A c, d \in BDD : rank(c) + rank(d) < rank(a) + rank(b)
         => rec[<<c, d, x>>] = TreeOf(ExistsSat(conn[<<Sat(c), Sat(d)>>], VarsOf(x)))
  BY <1>5 DEF AgreeBelow, Rank2, ExistsConnectiveOf
<1>7. /\ l = TreeOf(ExistsSat(Low(C, m), VarsOf(x)))
      /\ r = TreeOf(ExistsSat(High(C, m), VarsOf(x)))
  BY <1>1, <1>4, <1>6
<1>8. ExistsConnectiveOf(conn)[<<a, b, xs>>] = TreeOf(ExistsSat(C, X))
  BY DEF ExistsConnectiveOf
<1> HIDE DEF C, X
<1>9. ExistsJoin(C, m, x) = TreeOf(ExistsSat(C, X))
  BY <1>1, <1>2, <1>4, <1>5, ExistsNode
<1>10. ExistsShannon(rec, a, b, x) = TreeOf(ExistsSat(C, X))
  BY <1>3, <1>7, <1>9 DEF ExistsJoin
<1>11. QED
  BY <1>8, <1>10 DEF m, x

ForallConnectiveOf(conn) ==
  [p \in BDD \X BDD \X Cubes |-> TreeOf(ForallSat(conn[<<Sat(p[1]), Sat(p[2])>>], VarsOf(p[3])))]

ForallShannon(rec, a, b, x) == QuantifiedShannon(rec, andop, a, b, x)

\* The same as ShannonTree, under a universal quantifier.
LEMMA ForallShannonTree ==
  ASSUME NEW conn \in Connectives, NEW rec, NEW a \in BDD, NEW b \in BDD, NEW xs \in Cubes,
         ~isConstant(a) \/ ~isConstant(b),
         AgreeBelow(BDD \X BDD \X Cubes, Rank2(BDD \X BDD \X Cubes), rec,
                    ForallConnectiveOf(conn), <<a, b, xs>>)
  PROVE  ForallShannon(rec, a, b, Skip(xs, minVar(a, b))) = ForallConnectiveOf(conn)[<<a, b, xs>>]
<1> DEFINE m == minVar(a, b)
           x == Skip(xs, m)
           X == VarsOf(xs)
           C == conn[<<Sat(a), Sat(b)>>]
           l == rec[<<cf_left(a, m), cf_left(b, m), x>>]
           r == rec[<<cf_right(a, m), cf_right(b, m), x>>]
<1>1. /\ cf_left(a, m) \in BDD /\ cf_left(b, m) \in BDD
      /\ cf_right(a, m) \in BDD /\ cf_right(b, m) \in BDD
      /\ Sat(cf_left(a, m)) = Low(Sat(a), m) /\ Sat(cf_left(b, m)) = Low(Sat(b), m)
      /\ Sat(cf_right(a, m)) = High(Sat(a), m) /\ Sat(cf_right(b, m)) = High(Sat(b), m)
      /\ rank(cf_left(a, m)) + rank(cf_left(b, m)) < rank(a) + rank(b)
      /\ rank(cf_right(a, m)) + rank(cf_right(b, m)) < rank(a) + rank(b)
      /\ From(Sat(a), m) /\ From(Sat(b), m) /\ m \in Vars
  BY MinVarFacts
<1>2. Sat(a) \in SatSets /\ Sat(b) \in SatSets /\ X \in SUBSET Vars
  BY SatType, CubeElim DEF SatSets
<1>3. /\ ForallShannon(rec, a, b, x) = IF var(x) = m THEN andop(l, r) ELSE find(m, l, r)
      /\ x = Skip(xs, m)
  BY DEF ForallShannon, QuantifiedShannon
<1> HIDE DEF m, x
<1>4. /\ C \in SatSets /\ From(C, m)
      /\ Low(C, m) = conn[<<Low(Sat(a), m), Low(Sat(b), m)>>]
      /\ High(C, m) = conn[<<High(Sat(a), m), High(Sat(b), m)>>]
  BY <1>1, <1>2, ConnectiveFacts
<1>5. x \in Cubes /\ VarsOf(x) = {i \in X : m <= i}
  <2>1. m \in Nat
    BY <1>1, NumVarsAssumption DEF Vars
  <2>2. QED
    BY <1>3, <2>1, SkipFacts
<1>6. \A c, d \in BDD : rank(c) + rank(d) < rank(a) + rank(b)
         => rec[<<c, d, x>>] = TreeOf(ForallSat(conn[<<Sat(c), Sat(d)>>], VarsOf(x)))
  BY <1>5 DEF AgreeBelow, Rank2, ForallConnectiveOf
<1>7. /\ l = TreeOf(ForallSat(Low(C, m), VarsOf(x)))
      /\ r = TreeOf(ForallSat(High(C, m), VarsOf(x)))
  BY <1>1, <1>4, <1>6
<1>8. ForallConnectiveOf(conn)[<<a, b, xs>>] = TreeOf(ForallSat(C, X))
  BY DEF ForallConnectiveOf
<1> HIDE DEF C, X
<1>9. ForallJoin(C, m, x) = TreeOf(ForallSat(C, X))
  BY <1>1, <1>2, <1>4, <1>5, ForallNode
<1>10. ForallShannon(rec, a, b, x) = TreeOf(ForallSat(C, X))
  BY <1>3, <1>7, <1>9 DEF ForallJoin
<1>11. QED
  BY <1>8, <1>10 DEF m, x

\* exists xs. a /\ b
LEMMA RelProdStep ==
  ASSUME NEW rec, NEW p \in BDD \X BDD \X Cubes,
         AgreeBelow(BDD \X BDD \X Cubes, Rank2(BDD \X BDD \X Cubes), rec, ExistsConnectiveOf(AndConn), p)
  PROVE  relProd_body(rec, p[1], p[2], p[3]) = ExistsConnectiveOf(AndConn)[p]
<1> PICK a \in BDD, b \in BDD, xs \in Cubes : p = <<a, b, xs>>
  OBVIOUS
<1> DEFINE m == minVar(a, b)
           x == Skip(xs, m)
           X == VarsOf(xs)
           E == Sat(a) \cap Sat(b)
           C == ExistsSat(E, X)
<1>1. /\ Sat(a) \in SatSets /\ Sat(b) \in SatSets /\ X \in SUBSET Vars
      /\ E \in SatSets /\ C \in SatSets /\ ExistsConnectiveOf(AndConn)[p] = TreeOf(C)
  <2>1. Sat(a) \in SatSets /\ Sat(b) \in SatSets /\ X \in SUBSET Vars /\ E \in SatSets
    BY SatType, CubeElim DEF SatSets
  <2>2. AndConn[<<Sat(a), Sat(b)>>] = E
    BY <2>1, AndConnective
  <2> HIDE DEF E, X
  <2>3. C \in SatSets
    BY <2>1, ExistsSatFacts
  <2>4. QED
    BY <2>1, <2>2, <2>3 DEF ExistsConnectiveOf, X
<1>2. \A c \in BDD : Sat(c) = C => c = TreeOf(C)
  BY <1>1, TreeOfFacts DEF SatSets
<1>3. ExistsSat({}, X) = {} /\ ExistsSat(Valuations, X) = Valuations
  BY <1>1, ExistsSatFacts
<1>4. SUFFICES relProd_body(rec, a, b, xs) = TreeOf(C)
  BY <1>1
<1>5. CASE a = False \/ b = False
  <2>1. relProd_body(rec, a, b, xs) = False
    BY <1>5, ConstantFacts DEF relProd_body
  <2>2. E = {}
    BY <1>1, <1>5, SatConstants DEF SatSets
  <2>3. False \in BDD /\ Sat(False) = ExistsSat({}, X)
    BY <1>1, <1>3, SatConstants, ConstantFacts
  <2> HIDE DEF E
  <2>4. QED
    BY <1>2, <2>1, <2>2, <2>3
<1>6. CASE a = True /\ b # False
  <2>1. relProd_body(rec, a, b, xs) = exists(b, xs)
    BY <1>6, ConstantFacts DEF relProd_body
  <2>2. E = Sat(b)
    BY <1>1, <1>6, SatConstants DEF SatSets
  <2>3. exists(b, xs) \in BDD /\ Sat(exists(b, xs)) = ExistsSat(Sat(b), X)
    BY <1>1, <1>3, SatConstants, ConstantFacts, ExistsMeaning
  <2> HIDE DEF E
  <2>4. QED
    BY <1>2, <2>1, <2>2, <2>3
<1>7. CASE (b = True \/ a = b) /\ ~isConstant(a)
  <2>1. relProd_body(rec, a, b, xs) = exists(a, xs)
    BY <1>7, ConstantFacts DEF relProd_body
  <2>2. E = Sat(a)
    BY <1>1, <1>7, SatConstants DEF SatSets
  <2>3. exists(a, xs) \in BDD /\ Sat(exists(a, xs)) = ExistsSat(Sat(a), X)
    BY <1>1, <1>3, SatConstants, ConstantFacts, ExistsMeaning
  <2> HIDE DEF E
  <2>4. QED
    BY <1>2, <2>1, <2>2, <2>3
<1>8. CASE ~isConstant(a) /\ ~isConstant(b) /\ a # b /\ x = True
  <2>1. relProd_body(rec, a, b, xs) = andop(a, b)
    BY <1>8, ConstantFacts DEF relProd_body
  <2>2. /\ m \in Vars /\ From(Sat(a), m) /\ From(Sat(b), m)
    BY <1>8, MinVarFacts
  <2>3. x = Skip(xs, m) /\ m \in Nat /\ m \in Int
    BY <2>2, NumVarsAssumption DEF Vars
  <2> HIDE DEF m, x
  <2>4. {i \in X : m <= i} = {}
    <3>1. x \in Cubes /\ VarsOf(x) = {i \in X : m <= i}
      BY <2>3, SkipFacts
    <3> HIDE DEF X
    <3>2. QED
      BY <1>8, <3>1, CubeElim
  <2>5. From(E, m)
    BY <2>2 DEF From
  <2>6. andop(a, b) \in BDD /\ Sat(andop(a, b)) = E
    BY AndMeaning
  <2> HIDE DEF E, X
  <2>7. C = E
    BY <1>1, <2>3, <2>4, <2>5, ExistsSatFrom, ExistsSatFacts
  <2>8. QED
    BY <1>2, <2>1, <2>6, <2>7
<1>9. CASE ~isConstant(a) /\ ~isConstant(b) /\ a # b /\ x # True /\ Crossed(a, b)
  <2> DEFINE c == OneSide(a, b)
             d == OtherSide(a, b)
  <2>1. relProd_body(rec, a, b, xs) = rec[<<c, d, x>>]
    BY <1>9, ConstantFacts DEF relProd_body
  <2>2. /\ c \in BDD /\ d \in BDD /\ rank(c) + rank(d) < rank(a) + rank(b)
        /\ Sat(c) \cap Sat(d) = E
    BY <1>9, CrossedFacts
  <2>3. /\ m \in Vars /\ From(Sat(a), m) /\ From(Sat(b), m)
    BY <1>9, MinVarFacts
  <2>4. x = Skip(xs, m) /\ m \in Nat /\ m \in Int
    BY <2>3, NumVarsAssumption DEF Vars
  <2>5. From(E, m)
    BY <2>3 DEF From
  <2>6. AndConn[<<Sat(c), Sat(d)>>] = E
    BY <2>2, SatType, AndConnective DEF SatSets
  <2> HIDE DEF c, d, m, x, E
  <2>7. x \in Cubes /\ VarsOf(x) = {i \in X : m <= i}
    BY <2>4, SkipFacts
  <2>8. rec[<<c, d, x>>] = ExistsConnectiveOf(AndConn)[<<c, d, x>>]
    BY <2>2, <2>7 DEF AgreeBelow, Rank2
  <2>9. ExistsConnectiveOf(AndConn)[<<c, d, x>>] = TreeOf(ExistsSat(E, {i \in X : m <= i}))
    BY <2>2, <2>6, <2>7 DEF ExistsConnectiveOf
  <2> HIDE DEF X
  <2>10. C = ExistsSat(E, {i \in X : m <= i})
    BY <1>1, <2>4, <2>5, ExistsSatFrom
  <2>11. QED
    BY <2>1, <2>8, <2>9, <2>10
<1>10. CASE ~isConstant(a) /\ ~isConstant(b) /\ a # b /\ x # True /\ ~Crossed(a, b)
  <2>1. relProd_body(rec, a, b, xs) = ExistsShannon(rec, a, b, x)
    BY <1>10, ConstantFacts DEF relProd_body, ExistsShannon, QuantifiedShannon
  <2>2. AndConn \in Connectives
    BY AndConnective
  <2>3. AgreeBelow(BDD \X BDD \X Cubes, Rank2(BDD \X BDD \X Cubes), rec, ExistsConnectiveOf(AndConn), <<a, b, xs>>)
    OBVIOUS
  <2>4. ExistsShannon(rec, a, b, x) = ExistsConnectiveOf(AndConn)[<<a, b, xs>>]
    BY <1>10, <2>2, <2>3, ExistsShannonTree
  <2>5. QED
    BY <1>1, <2>1, <2>4
<1>11. QED
  BY <1>5, <1>6, <1>7, <1>8, <1>9, <1>10, BDDElim

\* relProd: the recursion has a solution, and it is the intended function.
LEMMA RelProdSolved == \A p \in BDD \X BDD \X Cubes : relProd_rec[p] = ExistsConnectiveOf(AndConn)[p]
<1> DEFINE S == BDD \X BDD \X Cubes
           F == ExistsConnectiveOf(AndConn)
           Solves(g) == g = [p \in S |-> relProd_body(g, p[1], p[2], p[3])]
<1>1. Solves(F)
  <2>1. \A p \in S : relProd_body(F, p[1], p[2], p[3]) = F[p]
    BY RelProdStep DEF AgreeBelow
  <2>2. F = [p \in S |-> F[p]]
    BY DEF ExistsConnectiveOf
  <2>3. QED
    BY <2>1, <2>2
<1>2. relProd_rec = CHOOSE g : Solves(g)
  BY Zenon DEF relProd_rec
<1>3. Solves(relProd_rec)
  BY <1>1, <1>2
<1>4. \A p \in S : AgreeBelow(S, Rank2(S), relProd_rec, F, p) => relProd_rec[p] = F[p]
  <2> SUFFICES ASSUME NEW p \in S, AgreeBelow(S, Rank2(S), relProd_rec, F, p)
               PROVE  relProd_rec[p] = F[p]
    OBVIOUS
  <2>1. relProd_rec[p] = relProd_body(relProd_rec, p[1], p[2], p[3])
    BY <1>3
  <2>2. relProd_body(relProd_rec, p[1], p[2], p[3]) = F[p]
    BY RelProdStep
  <2>3. QED
    BY <2>1, <2>2
<1>5. \A p \in S : Rank2(S)[p] \in Nat
  BY RankTypes
<1>6. \A p \in S : relProd_rec[p] = F[p]
  <2> HIDE DEF S, F
  <2>1. QED
    BY <1>4, <1>5, Agreement
<1>7. QED
  BY <1>6

\* relProd quantifies a conjunction without building it.
THEOREM RelProdMeaning ==
  \A a, b \in BDD, x \in Cubes :
    relProd(a, b, x) \in BDD /\ Sat(relProd(a, b, x)) = ExistsSat(Sat(a) \cap Sat(b), VarsOf(x))
<1> TAKE a, b \in BDD, x \in Cubes
<1>1. /\ Sat(a) \in SatSets /\ Sat(b) \in SatSets /\ VarsOf(x) \in SUBSET Vars
      /\ Sat(a) \cap Sat(b) \in SatSets
  BY SatType, CubeElim DEF SatSets
<1>2. AndConn[<<Sat(a), Sat(b)>>] = Sat(a) \cap Sat(b)
  BY <1>1, AndConnective
<1>3. relProd(a, b, x) = TreeOf(ExistsSat(Sat(a) \cap Sat(b), VarsOf(x)))
  BY <1>2, RelProdSolved DEF relProd, ExistsConnectiveOf
<1>4. ExistsSat(Sat(a) \cap Sat(b), VarsOf(x)) \in SUBSET Valuations
  BY <1>1, ExistsSatFacts DEF SatSets
<1>5. QED
  BY <1>3, <1>4, TreeOfFacts

\* exists xs. a \/ b
LEMMA OrExistsStep ==
  ASSUME NEW rec, NEW p \in BDD \X BDD \X Cubes,
         AgreeBelow(BDD \X BDD \X Cubes, Rank2(BDD \X BDD \X Cubes), rec, ExistsConnectiveOf(OrConn), p)
  PROVE  orExists_body(rec, p[1], p[2], p[3]) = ExistsConnectiveOf(OrConn)[p]
<1> PICK a \in BDD, b \in BDD, xs \in Cubes : p = <<a, b, xs>>
  OBVIOUS
<1> DEFINE m == minVar(a, b)
           x == Skip(xs, m)
           X == VarsOf(xs)
           E == Sat(a) \cup Sat(b)
           C == ExistsSat(E, X)
<1>1. /\ Sat(a) \in SatSets /\ Sat(b) \in SatSets /\ X \in SUBSET Vars
      /\ E \in SatSets /\ C \in SatSets /\ ExistsConnectiveOf(OrConn)[p] = TreeOf(C)
  <2>1. Sat(a) \in SatSets /\ Sat(b) \in SatSets /\ X \in SUBSET Vars /\ E \in SatSets
    BY SatType, CubeElim DEF SatSets
  <2>2. OrConn[<<Sat(a), Sat(b)>>] = E
    BY <2>1, OrConnective
  <2> HIDE DEF E, X
  <2>3. C \in SatSets
    BY <2>1, ExistsSatFacts
  <2>4. QED
    BY <2>1, <2>2, <2>3 DEF ExistsConnectiveOf, X
<1>2. \A c \in BDD : Sat(c) = C => c = TreeOf(C)
  BY <1>1, TreeOfFacts DEF SatSets
<1>3. ExistsSat({}, X) = {} /\ ExistsSat(Valuations, X) = Valuations
  BY <1>1, ExistsSatFacts
<1>4. SUFFICES orExists_body(rec, a, b, xs) = TreeOf(C)
  BY <1>1
<1>5. CASE a = False
  <2>1. orExists_body(rec, a, b, xs) = exists(b, xs)
    BY <1>5, ConstantFacts DEF orExists_body
  <2>2. E = Sat(b)
    BY <1>1, <1>5, SatConstants DEF SatSets
  <2>3. exists(b, xs) \in BDD /\ Sat(exists(b, xs)) = ExistsSat(Sat(b), X)
    BY <1>1, <1>3, SatConstants, ConstantFacts, ExistsMeaning
  <2> HIDE DEF E
  <2>4. QED
    BY <1>2, <2>1, <2>2, <2>3
<1>6. CASE b = False /\ a # False
  <2>1. orExists_body(rec, a, b, xs) = exists(a, xs)
    BY <1>6, ConstantFacts DEF orExists_body
  <2>2. E = Sat(a)
    BY <1>1, <1>6, SatConstants DEF SatSets
  <2>3. exists(a, xs) \in BDD /\ Sat(exists(a, xs)) = ExistsSat(Sat(a), X)
    BY <1>1, <1>3, SatConstants, ConstantFacts, ExistsMeaning
  <2> HIDE DEF E
  <2>4. QED
    BY <1>2, <2>1, <2>2, <2>3
<1>7. CASE (a = True \/ b = True) /\ a # False /\ b # False
  <2>1. orExists_body(rec, a, b, xs) = True
    BY <1>7, ConstantFacts DEF orExists_body
  <2>2. E = Valuations
    BY <1>1, <1>7, SatConstants DEF SatSets
  <2>3. True \in BDD /\ Sat(True) = ExistsSat(Valuations, X)
    BY <1>1, <1>3, SatConstants, ConstantFacts
  <2> HIDE DEF E
  <2>4. QED
    BY <1>2, <2>1, <2>2, <2>3
<1>8. CASE a = b /\ ~isConstant(a)
  <2>1. orExists_body(rec, a, b, xs) = exists(a, xs)
    BY <1>8, ConstantFacts DEF orExists_body
  <2>2. E = Sat(a)
    BY <1>1, <1>8, SatConstants DEF SatSets
  <2>3. exists(a, xs) \in BDD /\ Sat(exists(a, xs)) = ExistsSat(Sat(a), X)
    BY <1>1, <1>3, SatConstants, ConstantFacts, ExistsMeaning
  <2> HIDE DEF E
  <2>4. QED
    BY <1>2, <2>1, <2>2, <2>3
<1>9. CASE ~isConstant(a) /\ ~isConstant(b) /\ a # b /\ x = True
  <2>1. orExists_body(rec, a, b, xs) = orop(a, b)
    BY <1>9, ConstantFacts DEF orExists_body
  <2>2. /\ m \in Vars /\ From(Sat(a), m) /\ From(Sat(b), m)
    BY <1>9, MinVarFacts
  <2>3. x = Skip(xs, m) /\ m \in Nat /\ m \in Int
    BY <2>2, NumVarsAssumption DEF Vars
  <2> HIDE DEF m, x
  <2>4. {i \in X : m <= i} = {}
    <3>1. x \in Cubes /\ VarsOf(x) = {i \in X : m <= i}
      BY <2>3, SkipFacts
    <3> HIDE DEF X
    <3>2. QED
      BY <1>9, <3>1, CubeElim
  <2>5. From(E, m)
    BY <2>2 DEF From
  <2>6. orop(a, b) \in BDD /\ Sat(orop(a, b)) = E
    BY OrMeaning
  <2> HIDE DEF E, X
  <2>7. C = E
    BY <1>1, <2>3, <2>4, <2>5, ExistsSatFrom, ExistsSatFacts
  <2>8. QED
    BY <1>2, <2>1, <2>6, <2>7
<1>10. CASE ~isConstant(a) /\ ~isConstant(b) /\ a # b /\ x # True /\ Crossed(a, b)
  <2> DEFINE c == OneSide(a, b)
             d == OtherSide(a, b)
  <2>1. orExists_body(rec, a, b, xs) = rec[<<c, d, x>>]
    BY <1>10, ConstantFacts DEF orExists_body
  <2>2. /\ c \in BDD /\ d \in BDD /\ rank(c) + rank(d) < rank(a) + rank(b)
        /\ Sat(c) \cup Sat(d) = E
    BY <1>10, CrossedFacts
  <2>3. /\ m \in Vars /\ From(Sat(a), m) /\ From(Sat(b), m)
    BY <1>10, MinVarFacts
  <2>4. x = Skip(xs, m) /\ m \in Nat /\ m \in Int
    BY <2>3, NumVarsAssumption DEF Vars
  <2>5. From(E, m)
    BY <2>3 DEF From
  <2>6. OrConn[<<Sat(c), Sat(d)>>] = E
    BY <2>2, SatType, OrConnective DEF SatSets
  <2> HIDE DEF c, d, m, x, E
  <2>7. x \in Cubes /\ VarsOf(x) = {i \in X : m <= i}
    BY <2>4, SkipFacts
  <2>8. rec[<<c, d, x>>] = ExistsConnectiveOf(OrConn)[<<c, d, x>>]
    BY <2>2, <2>7 DEF AgreeBelow, Rank2
  <2>9. ExistsConnectiveOf(OrConn)[<<c, d, x>>] = TreeOf(ExistsSat(E, {i \in X : m <= i}))
    BY <2>2, <2>6, <2>7 DEF ExistsConnectiveOf
  <2> HIDE DEF X
  <2>10. C = ExistsSat(E, {i \in X : m <= i})
    BY <1>1, <2>4, <2>5, ExistsSatFrom
  <2>11. QED
    BY <2>1, <2>8, <2>9, <2>10
<1>11. CASE ~isConstant(a) /\ ~isConstant(b) /\ a # b /\ x # True /\ ~Crossed(a, b)
  <2>1. orExists_body(rec, a, b, xs) = ExistsShannon(rec, a, b, x)
    BY <1>11, ConstantFacts DEF orExists_body, ExistsShannon, QuantifiedShannon
  <2>2. OrConn \in Connectives
    BY OrConnective
  <2>3. AgreeBelow(BDD \X BDD \X Cubes, Rank2(BDD \X BDD \X Cubes), rec, ExistsConnectiveOf(OrConn), <<a, b, xs>>)
    OBVIOUS
  <2>4. ExistsShannon(rec, a, b, x) = ExistsConnectiveOf(OrConn)[<<a, b, xs>>]
    BY <1>11, <2>2, <2>3, ExistsShannonTree
  <2>5. QED
    BY <1>1, <2>1, <2>4
<1>12. QED
  BY <1>5, <1>6, <1>7, <1>8, <1>9, <1>10, <1>11, BDDElim

\* orExists: the recursion has a solution, and it is the intended function.
LEMMA OrExistsSolved == \A p \in BDD \X BDD \X Cubes : orExists_rec[p] = ExistsConnectiveOf(OrConn)[p]
<1> DEFINE S == BDD \X BDD \X Cubes
           F == ExistsConnectiveOf(OrConn)
           Solves(g) == g = [p \in S |-> orExists_body(g, p[1], p[2], p[3])]
<1>1. Solves(F)
  <2>1. \A p \in S : orExists_body(F, p[1], p[2], p[3]) = F[p]
    BY OrExistsStep DEF AgreeBelow
  <2>2. F = [p \in S |-> F[p]]
    BY DEF ExistsConnectiveOf
  <2>3. QED
    BY <2>1, <2>2
<1>2. orExists_rec = CHOOSE g : Solves(g)
  BY Zenon DEF orExists_rec
<1>3. Solves(orExists_rec)
  BY <1>1, <1>2
<1>4. \A p \in S : AgreeBelow(S, Rank2(S), orExists_rec, F, p) => orExists_rec[p] = F[p]
  <2> SUFFICES ASSUME NEW p \in S, AgreeBelow(S, Rank2(S), orExists_rec, F, p)
               PROVE  orExists_rec[p] = F[p]
    OBVIOUS
  <2>1. orExists_rec[p] = orExists_body(orExists_rec, p[1], p[2], p[3])
    BY <1>3
  <2>2. orExists_body(orExists_rec, p[1], p[2], p[3]) = F[p]
    BY OrExistsStep
  <2>3. QED
    BY <2>1, <2>2
<1>5. \A p \in S : Rank2(S)[p] \in Nat
  BY RankTypes
<1>6. \A p \in S : orExists_rec[p] = F[p]
  <2> HIDE DEF S, F
  <2>1. QED
    BY <1>4, <1>5, Agreement
<1>7. QED
  BY <1>6

\* orExists quantifies a disjunction.
THEOREM OrExistsMeaning ==
  \A a, b \in BDD, x \in Cubes :
    orExists(a, b, x) \in BDD /\ Sat(orExists(a, b, x)) = ExistsSat(Sat(a) \cup Sat(b), VarsOf(x))
<1> TAKE a, b \in BDD, x \in Cubes
<1>1. /\ Sat(a) \in SatSets /\ Sat(b) \in SatSets /\ VarsOf(x) \in SUBSET Vars
      /\ Sat(a) \cup Sat(b) \in SatSets
  BY SatType, CubeElim DEF SatSets
<1>2. OrConn[<<Sat(a), Sat(b)>>] = Sat(a) \cup Sat(b)
  BY <1>1, OrConnective
<1>3. orExists(a, b, x) = TreeOf(ExistsSat(Sat(a) \cup Sat(b), VarsOf(x)))
  BY <1>2, OrExistsSolved DEF orExists, ExistsConnectiveOf
<1>4. ExistsSat(Sat(a) \cup Sat(b), VarsOf(x)) \in SUBSET Valuations
  BY <1>1, ExistsSatFacts DEF SatSets
<1>5. QED
  BY <1>3, <1>4, TreeOfFacts

\* exists xs. a => b
LEMMA ImpliesExistsStep ==
  ASSUME NEW rec, NEW p \in BDD \X BDD \X Cubes,
         AgreeBelow(BDD \X BDD \X Cubes, Rank2(BDD \X BDD \X Cubes), rec, ExistsConnectiveOf(ImpliesConn), p)
  PROVE  impliesExists_body(rec, p[1], p[2], p[3]) = ExistsConnectiveOf(ImpliesConn)[p]
<1> PICK a \in BDD, b \in BDD, xs \in Cubes : p = <<a, b, xs>>
  OBVIOUS
<1> DEFINE m == minVar(a, b)
           x == Skip(xs, m)
           X == VarsOf(xs)
           E == Valuations \ (Sat(a) \ Sat(b))
           C == ExistsSat(E, X)
<1>1. /\ Sat(a) \in SatSets /\ Sat(b) \in SatSets /\ X \in SUBSET Vars
      /\ E \in SatSets /\ C \in SatSets /\ ExistsConnectiveOf(ImpliesConn)[p] = TreeOf(C)
  <2>1. Sat(a) \in SatSets /\ Sat(b) \in SatSets /\ X \in SUBSET Vars /\ E \in SatSets
    BY SatType, CubeElim DEF SatSets
  <2>2. ImpliesConn[<<Sat(a), Sat(b)>>] = E
    BY <2>1, ImpliesConnective
  <2> HIDE DEF E, X
  <2>3. C \in SatSets
    BY <2>1, ExistsSatFacts
  <2>4. QED
    BY <2>1, <2>2, <2>3 DEF ExistsConnectiveOf, X
<1>2. \A c \in BDD : Sat(c) = C => c = TreeOf(C)
  BY <1>1, TreeOfFacts DEF SatSets
<1>3. ExistsSat({}, X) = {} /\ ExistsSat(Valuations, X) = Valuations
  BY <1>1, ExistsSatFacts
<1>4. SUFFICES impliesExists_body(rec, a, b, xs) = TreeOf(C)
  BY <1>1
<1>5. CASE a = True
  <2>1. impliesExists_body(rec, a, b, xs) = exists(b, xs)
    BY <1>5, ConstantFacts DEF impliesExists_body
  <2>2. E = Sat(b)
    BY <1>1, <1>5, SatConstants DEF SatSets
  <2>3. exists(b, xs) \in BDD /\ Sat(exists(b, xs)) = ExistsSat(Sat(b), X)
    BY <1>1, <1>3, SatConstants, ConstantFacts, ExistsMeaning
  <2> HIDE DEF E
  <2>4. QED
    BY <1>2, <2>1, <2>2, <2>3
<1>6. CASE (b = True \/ a = False) /\ a # True
  <2>1. impliesExists_body(rec, a, b, xs) = True
    BY <1>6, ConstantFacts DEF impliesExists_body
  <2>2. E = Valuations
    BY <1>1, <1>6, SatConstants DEF SatSets
  <2>3. True \in BDD /\ Sat(True) = ExistsSat(Valuations, X)
    BY <1>1, <1>3, SatConstants, ConstantFacts
  <2> HIDE DEF E
  <2>4. QED
    BY <1>2, <2>1, <2>2, <2>3
<1>7. CASE b = False /\ ~isConstant(a)
  <2>1. impliesExists_body(rec, a, b, xs) = notExists(a, xs)
    BY <1>7, ConstantFacts DEF impliesExists_body
  <2>2. E = Valuations \ Sat(a)
    BY <1>1, <1>7, SatConstants DEF SatSets
  <2>3. notExists(a, xs) \in BDD /\ Sat(notExists(a, xs)) = ExistsSat(Valuations \ Sat(a), X)
    BY <1>1, <1>3, SatConstants, ConstantFacts, NotExistsMeaning
  <2> HIDE DEF E
  <2>4. QED
    BY <1>2, <2>1, <2>2, <2>3
<1>8. CASE a = b /\ ~isConstant(a)
  <2>1. impliesExists_body(rec, a, b, xs) = True
    BY <1>8, ConstantFacts DEF impliesExists_body
  <2>2. E = Valuations
    BY <1>1, <1>8, SatConstants DEF SatSets
  <2>3. True \in BDD /\ Sat(True) = ExistsSat(Valuations, X)
    BY <1>1, <1>3, SatConstants, ConstantFacts
  <2> HIDE DEF E
  <2>4. QED
    BY <1>2, <2>1, <2>2, <2>3
<1>9. CASE ~isConstant(a) /\ ~isConstant(b) /\ a # b /\ x = True
  <2>1. impliesExists_body(rec, a, b, xs) = implies(a, b)
    BY <1>9, ConstantFacts DEF impliesExists_body
  <2>2. /\ m \in Vars /\ From(Sat(a), m) /\ From(Sat(b), m)
    BY <1>9, MinVarFacts
  <2>3. x = Skip(xs, m) /\ m \in Nat /\ m \in Int
    BY <2>2, NumVarsAssumption DEF Vars
  <2> HIDE DEF m, x
  <2>4. {i \in X : m <= i} = {}
    <3>1. x \in Cubes /\ VarsOf(x) = {i \in X : m <= i}
      BY <2>3, SkipFacts
    <3> HIDE DEF X
    <3>2. QED
      BY <1>9, <3>1, CubeElim
  <2>5. From(E, m)
    BY <2>2 DEF From
  <2>6. implies(a, b) \in BDD /\ Sat(implies(a, b)) = E
    BY ImpliesMeaning
  <2> HIDE DEF E, X
  <2>7. C = E
    BY <1>1, <2>3, <2>4, <2>5, ExistsSatFrom, ExistsSatFacts
  <2>8. QED
    BY <1>2, <2>1, <2>6, <2>7
<1>10. CASE ~isConstant(a) /\ ~isConstant(b) /\ a # b /\ x # True
  <2>1. impliesExists_body(rec, a, b, xs) = ExistsShannon(rec, a, b, x)
    BY <1>10, ConstantFacts DEF impliesExists_body, ExistsShannon, QuantifiedShannon
  <2>2. ImpliesConn \in Connectives
    BY ImpliesConnective
  <2>3. AgreeBelow(BDD \X BDD \X Cubes, Rank2(BDD \X BDD \X Cubes), rec, ExistsConnectiveOf(ImpliesConn), <<a, b, xs>>)
    OBVIOUS
  <2>4. ExistsShannon(rec, a, b, x) = ExistsConnectiveOf(ImpliesConn)[<<a, b, xs>>]
    BY <1>10, <2>2, <2>3, ExistsShannonTree
  <2>5. QED
    BY <1>1, <2>1, <2>4
<1>11. QED
  BY <1>5, <1>6, <1>7, <1>8, <1>9, <1>10, BDDElim

\* impliesExists: the recursion has a solution, and it is the intended function.
LEMMA ImpliesExistsSolved == \A p \in BDD \X BDD \X Cubes : impliesExists_rec[p] = ExistsConnectiveOf(ImpliesConn)[p]
<1> DEFINE S == BDD \X BDD \X Cubes
           F == ExistsConnectiveOf(ImpliesConn)
           Solves(g) == g = [p \in S |-> impliesExists_body(g, p[1], p[2], p[3])]
<1>1. Solves(F)
  <2>1. \A p \in S : impliesExists_body(F, p[1], p[2], p[3]) = F[p]
    BY ImpliesExistsStep DEF AgreeBelow
  <2>2. F = [p \in S |-> F[p]]
    BY DEF ExistsConnectiveOf
  <2>3. QED
    BY <2>1, <2>2
<1>2. impliesExists_rec = CHOOSE g : Solves(g)
  BY Zenon DEF impliesExists_rec
<1>3. Solves(impliesExists_rec)
  BY <1>1, <1>2
<1>4. \A p \in S : AgreeBelow(S, Rank2(S), impliesExists_rec, F, p) => impliesExists_rec[p] = F[p]
  <2> SUFFICES ASSUME NEW p \in S, AgreeBelow(S, Rank2(S), impliesExists_rec, F, p)
               PROVE  impliesExists_rec[p] = F[p]
    OBVIOUS
  <2>1. impliesExists_rec[p] = impliesExists_body(impliesExists_rec, p[1], p[2], p[3])
    BY <1>3
  <2>2. impliesExists_body(impliesExists_rec, p[1], p[2], p[3]) = F[p]
    BY ImpliesExistsStep
  <2>3. QED
    BY <2>1, <2>2
<1>5. \A p \in S : Rank2(S)[p] \in Nat
  BY RankTypes
<1>6. \A p \in S : impliesExists_rec[p] = F[p]
  <2> HIDE DEF S, F
  <2>1. QED
    BY <1>4, <1>5, Agreement
<1>7. QED
  BY <1>6

\* impliesExists quantifies an implication.
THEOREM ImpliesExistsMeaning ==
  \A a, b \in BDD, x \in Cubes :
    impliesExists(a, b, x) \in BDD /\ Sat(impliesExists(a, b, x)) = ExistsSat(Valuations \ (Sat(a) \ Sat(b)), VarsOf(x))
<1> TAKE a, b \in BDD, x \in Cubes
<1>1. /\ Sat(a) \in SatSets /\ Sat(b) \in SatSets /\ VarsOf(x) \in SUBSET Vars
      /\ Valuations \ (Sat(a) \ Sat(b)) \in SatSets
  BY SatType, CubeElim DEF SatSets
<1>2. ImpliesConn[<<Sat(a), Sat(b)>>] = Valuations \ (Sat(a) \ Sat(b))
  BY <1>1, ImpliesConnective
<1>3. impliesExists(a, b, x) = TreeOf(ExistsSat(Valuations \ (Sat(a) \ Sat(b)), VarsOf(x)))
  BY <1>2, ImpliesExistsSolved DEF impliesExists, ExistsConnectiveOf
<1>4. ExistsSat(Valuations \ (Sat(a) \ Sat(b)), VarsOf(x)) \in SUBSET Valuations
  BY <1>1, ExistsSatFacts DEF SatSets
<1>5. QED
  BY <1>3, <1>4, TreeOfFacts

\* exists xs. ~(a => b)
LEMMA NotimpliesExistsStep ==
  ASSUME NEW rec, NEW p \in BDD \X BDD \X Cubes,
         AgreeBelow(BDD \X BDD \X Cubes, Rank2(BDD \X BDD \X Cubes), rec, ExistsConnectiveOf(NotimpliesConn), p)
  PROVE  notimpliesExists_body(rec, p[1], p[2], p[3]) = ExistsConnectiveOf(NotimpliesConn)[p]
<1> PICK a \in BDD, b \in BDD, xs \in Cubes : p = <<a, b, xs>>
  OBVIOUS
<1> DEFINE m == minVar(a, b)
           x == Skip(xs, m)
           X == VarsOf(xs)
           E == Sat(a) \ Sat(b)
           C == ExistsSat(E, X)
<1>1. /\ Sat(a) \in SatSets /\ Sat(b) \in SatSets /\ X \in SUBSET Vars
      /\ E \in SatSets /\ C \in SatSets /\ ExistsConnectiveOf(NotimpliesConn)[p] = TreeOf(C)
  <2>1. Sat(a) \in SatSets /\ Sat(b) \in SatSets /\ X \in SUBSET Vars /\ E \in SatSets
    BY SatType, CubeElim DEF SatSets
  <2>2. NotimpliesConn[<<Sat(a), Sat(b)>>] = E
    BY <2>1, NotimpliesConnective
  <2> HIDE DEF E, X
  <2>3. C \in SatSets
    BY <2>1, ExistsSatFacts
  <2>4. QED
    BY <2>1, <2>2, <2>3 DEF ExistsConnectiveOf, X
<1>2. \A c \in BDD : Sat(c) = C => c = TreeOf(C)
  BY <1>1, TreeOfFacts DEF SatSets
<1>3. ExistsSat({}, X) = {} /\ ExistsSat(Valuations, X) = Valuations
  BY <1>1, ExistsSatFacts
<1>4. SUFFICES notimpliesExists_body(rec, a, b, xs) = TreeOf(C)
  BY <1>1
<1>5. CASE a = True
  <2>1. notimpliesExists_body(rec, a, b, xs) = notExists(b, xs)
    BY <1>5, ConstantFacts DEF notimpliesExists_body
  <2>2. E = Valuations \ Sat(b)
    BY <1>1, <1>5, SatConstants DEF SatSets
  <2>3. notExists(b, xs) \in BDD /\ Sat(notExists(b, xs)) = ExistsSat(Valuations \ Sat(b), X)
    BY <1>1, <1>3, SatConstants, ConstantFacts, NotExistsMeaning
  <2> HIDE DEF E
  <2>4. QED
    BY <1>2, <2>1, <2>2, <2>3
<1>6. CASE (a = False \/ b = True) /\ a # True
  <2>1. notimpliesExists_body(rec, a, b, xs) = False
    BY <1>6, ConstantFacts DEF notimpliesExists_body
  <2>2. E = {}
    BY <1>1, <1>6, SatConstants DEF SatSets
  <2>3. False \in BDD /\ Sat(False) = ExistsSat({}, X)
    BY <1>1, <1>3, SatConstants, ConstantFacts
  <2> HIDE DEF E
  <2>4. QED
    BY <1>2, <2>1, <2>2, <2>3
<1>7. CASE b = False /\ ~isConstant(a)
  <2>1. notimpliesExists_body(rec, a, b, xs) = exists(a, xs)
    BY <1>7, ConstantFacts DEF notimpliesExists_body
  <2>2. E = Sat(a)
    BY <1>1, <1>7, SatConstants DEF SatSets
  <2>3. exists(a, xs) \in BDD /\ Sat(exists(a, xs)) = ExistsSat(Sat(a), X)
    BY <1>1, <1>3, SatConstants, ConstantFacts, ExistsMeaning
  <2> HIDE DEF E
  <2>4. QED
    BY <1>2, <2>1, <2>2, <2>3
<1>8. CASE a = b /\ ~isConstant(a)
  <2>1. notimpliesExists_body(rec, a, b, xs) = False
    BY <1>8, ConstantFacts DEF notimpliesExists_body
  <2>2. E = {}
    BY <1>1, <1>8, SatConstants DEF SatSets
  <2>3. False \in BDD /\ Sat(False) = ExistsSat({}, X)
    BY <1>1, <1>3, SatConstants, ConstantFacts
  <2> HIDE DEF E
  <2>4. QED
    BY <1>2, <2>1, <2>2, <2>3
<1>9. CASE ~isConstant(a) /\ ~isConstant(b) /\ a # b /\ x = True
  <2>1. notimpliesExists_body(rec, a, b, xs) = notimplies(a, b)
    BY <1>9, ConstantFacts DEF notimpliesExists_body
  <2>2. /\ m \in Vars /\ From(Sat(a), m) /\ From(Sat(b), m)
    BY <1>9, MinVarFacts
  <2>3. x = Skip(xs, m) /\ m \in Nat /\ m \in Int
    BY <2>2, NumVarsAssumption DEF Vars
  <2> HIDE DEF m, x
  <2>4. {i \in X : m <= i} = {}
    <3>1. x \in Cubes /\ VarsOf(x) = {i \in X : m <= i}
      BY <2>3, SkipFacts
    <3> HIDE DEF X
    <3>2. QED
      BY <1>9, <3>1, CubeElim
  <2>5. From(E, m)
    BY <2>2 DEF From
  <2>6. notimplies(a, b) \in BDD /\ Sat(notimplies(a, b)) = E
    BY NotimpliesMeaning
  <2> HIDE DEF E, X
  <2>7. C = E
    BY <1>1, <2>3, <2>4, <2>5, ExistsSatFrom, ExistsSatFacts
  <2>8. QED
    BY <1>2, <2>1, <2>6, <2>7
<1>10. CASE ~isConstant(a) /\ ~isConstant(b) /\ a # b /\ x # True
  <2>1. notimpliesExists_body(rec, a, b, xs) = ExistsShannon(rec, a, b, x)
    BY <1>10, ConstantFacts DEF notimpliesExists_body, ExistsShannon, QuantifiedShannon
  <2>2. NotimpliesConn \in Connectives
    BY NotimpliesConnective
  <2>3. AgreeBelow(BDD \X BDD \X Cubes, Rank2(BDD \X BDD \X Cubes), rec, ExistsConnectiveOf(NotimpliesConn), <<a, b, xs>>)
    OBVIOUS
  <2>4. ExistsShannon(rec, a, b, x) = ExistsConnectiveOf(NotimpliesConn)[<<a, b, xs>>]
    BY <1>10, <2>2, <2>3, ExistsShannonTree
  <2>5. QED
    BY <1>1, <2>1, <2>4
<1>11. QED
  BY <1>5, <1>6, <1>7, <1>8, <1>9, <1>10, BDDElim

\* notimpliesExists: the recursion has a solution, and it is the intended function.
LEMMA NotimpliesExistsSolved == \A p \in BDD \X BDD \X Cubes : notimpliesExists_rec[p] = ExistsConnectiveOf(NotimpliesConn)[p]
<1> DEFINE S == BDD \X BDD \X Cubes
           F == ExistsConnectiveOf(NotimpliesConn)
           Solves(g) == g = [p \in S |-> notimpliesExists_body(g, p[1], p[2], p[3])]
<1>1. Solves(F)
  <2>1. \A p \in S : notimpliesExists_body(F, p[1], p[2], p[3]) = F[p]
    BY NotimpliesExistsStep DEF AgreeBelow
  <2>2. F = [p \in S |-> F[p]]
    BY DEF ExistsConnectiveOf
  <2>3. QED
    BY <2>1, <2>2
<1>2. notimpliesExists_rec = CHOOSE g : Solves(g)
  BY Zenon DEF notimpliesExists_rec
<1>3. Solves(notimpliesExists_rec)
  BY <1>1, <1>2
<1>4. \A p \in S : AgreeBelow(S, Rank2(S), notimpliesExists_rec, F, p) => notimpliesExists_rec[p] = F[p]
  <2> SUFFICES ASSUME NEW p \in S, AgreeBelow(S, Rank2(S), notimpliesExists_rec, F, p)
               PROVE  notimpliesExists_rec[p] = F[p]
    OBVIOUS
  <2>1. notimpliesExists_rec[p] = notimpliesExists_body(notimpliesExists_rec, p[1], p[2], p[3])
    BY <1>3
  <2>2. notimpliesExists_body(notimpliesExists_rec, p[1], p[2], p[3]) = F[p]
    BY NotimpliesExistsStep
  <2>3. QED
    BY <2>1, <2>2
<1>5. \A p \in S : Rank2(S)[p] \in Nat
  BY RankTypes
<1>6. \A p \in S : notimpliesExists_rec[p] = F[p]
  <2> HIDE DEF S, F
  <2>1. QED
    BY <1>4, <1>5, Agreement
<1>7. QED
  BY <1>6

\* notimpliesExists quantifies "a and not b".
THEOREM NotimpliesExistsMeaning ==
  \A a, b \in BDD, x \in Cubes :
    notimpliesExists(a, b, x) \in BDD /\ Sat(notimpliesExists(a, b, x)) = ExistsSat(Sat(a) \ Sat(b), VarsOf(x))
<1> TAKE a, b \in BDD, x \in Cubes
<1>1. /\ Sat(a) \in SatSets /\ Sat(b) \in SatSets /\ VarsOf(x) \in SUBSET Vars
      /\ Sat(a) \ Sat(b) \in SatSets
  BY SatType, CubeElim DEF SatSets
<1>2. NotimpliesConn[<<Sat(a), Sat(b)>>] = Sat(a) \ Sat(b)
  BY <1>1, NotimpliesConnective
<1>3. notimpliesExists(a, b, x) = TreeOf(ExistsSat(Sat(a) \ Sat(b), VarsOf(x)))
  BY <1>2, NotimpliesExistsSolved DEF notimpliesExists, ExistsConnectiveOf
<1>4. ExistsSat(Sat(a) \ Sat(b), VarsOf(x)) \in SUBSET Valuations
  BY <1>1, ExistsSatFacts DEF SatSets
<1>5. QED
  BY <1>3, <1>4, TreeOfFacts

\* forall xs. a => b
LEMMA ForallImpliesStep ==
  ASSUME NEW rec, NEW p \in BDD \X BDD \X Cubes,
         AgreeBelow(BDD \X BDD \X Cubes, Rank2(BDD \X BDD \X Cubes), rec, ForallConnectiveOf(ImpliesConn), p)
  PROVE  forallImplies_body(rec, p[1], p[2], p[3]) = ForallConnectiveOf(ImpliesConn)[p]
<1> PICK a \in BDD, b \in BDD, xs \in Cubes : p = <<a, b, xs>>
  OBVIOUS
<1> DEFINE m == minVar(a, b)
           x == Skip(xs, m)
           X == VarsOf(xs)
           E == Valuations \ (Sat(a) \ Sat(b))
           C == ForallSat(E, X)
<1>1. /\ Sat(a) \in SatSets /\ Sat(b) \in SatSets /\ X \in SUBSET Vars
      /\ E \in SatSets /\ C \in SatSets /\ ForallConnectiveOf(ImpliesConn)[p] = TreeOf(C)
  <2>1. Sat(a) \in SatSets /\ Sat(b) \in SatSets /\ X \in SUBSET Vars /\ E \in SatSets
    BY SatType, CubeElim DEF SatSets
  <2>2. ImpliesConn[<<Sat(a), Sat(b)>>] = E
    BY <2>1, ImpliesConnective
  <2> HIDE DEF E, X
  <2>3. C \in SatSets
    BY <2>1, ForallSatFacts
  <2>4. QED
    BY <2>1, <2>2, <2>3 DEF ForallConnectiveOf, X
<1>2. \A c \in BDD : Sat(c) = C => c = TreeOf(C)
  BY <1>1, TreeOfFacts DEF SatSets
<1>3. ForallSat({}, X) = {} /\ ForallSat(Valuations, X) = Valuations
  BY <1>1, ForallSatFacts
<1>4. SUFFICES forallImplies_body(rec, a, b, xs) = TreeOf(C)
  BY <1>1
<1>5. CASE a = False \/ b = True \/ a = b
  <2>1. forallImplies_body(rec, a, b, xs) = True
    BY <1>5, ConstantFacts DEF forallImplies_body
  <2>2. E = Valuations
    BY <1>1, <1>5, SatConstants DEF SatSets
  <2>3. True \in BDD /\ Sat(True) = ForallSat(Valuations, X)
    BY <1>1, <1>3, SatConstants, ConstantFacts
  <2> HIDE DEF E
  <2>4. QED
    BY <1>2, <2>1, <2>2, <2>3
<1>6. CASE a = True /\ b # True
  <2>1. forallImplies_body(rec, a, b, xs) = forall(b, xs)
    BY <1>6, ConstantFacts DEF forallImplies_body
  <2>2. E = Sat(b)
    BY <1>1, <1>6, SatConstants DEF SatSets
  <2>3. forall(b, xs) \in BDD /\ Sat(forall(b, xs)) = ForallSat(Sat(b), X)
    BY <1>1, <1>3, SatConstants, ConstantFacts, ForallMeaning
  <2> HIDE DEF E
  <2>4. QED
    BY <1>2, <2>1, <2>2, <2>3
<1>7. CASE b = False /\ ~isConstant(a)
  <2>1. forallImplies_body(rec, a, b, xs) = notop(exists(a, xs))
    BY <1>7, ConstantFacts DEF forallImplies_body
  <2>2. E = Valuations \ Sat(a)
    BY <1>1, <1>7, SatConstants DEF SatSets
  <2>3. notop(exists(a, xs)) \in BDD /\ Sat(notop(exists(a, xs))) = ForallSat(Valuations \ Sat(a), X)
    <3>1. exists(a, xs) \in BDD /\ Sat(exists(a, xs)) = ExistsSat(Sat(a), X)
      BY ExistsMeaning
    <3>2. Valuations \ (Valuations \ Sat(a)) = Sat(a)
      BY <1>1, Complement
    <3>3. ForallSat(Valuations \ Sat(a), X) = Valuations \ ExistsSat(Sat(a), X)
      BY <3>2 DEF ForallSat
    <3>4. QED
      BY <3>1, <3>3, NotMeaning
  <2> HIDE DEF E
  <2>4. QED
    BY <1>2, <2>1, <2>2, <2>3
<1>8. CASE ~isConstant(a) /\ ~isConstant(b) /\ a # b /\ x = True
  <2>1. forallImplies_body(rec, a, b, xs) = implies(a, b)
    BY <1>8, ConstantFacts DEF forallImplies_body
  <2>2. /\ m \in Vars /\ From(Sat(a), m) /\ From(Sat(b), m)
    BY <1>8, MinVarFacts
  <2>3. x = Skip(xs, m) /\ m \in Nat /\ m \in Int
    BY <2>2, NumVarsAssumption DEF Vars
  <2> HIDE DEF m, x
  <2>4. {i \in X : m <= i} = {}
    <3>1. x \in Cubes /\ VarsOf(x) = {i \in X : m <= i}
      BY <2>3, SkipFacts
    <3> HIDE DEF X
    <3>2. QED
      BY <1>8, <3>1, CubeElim
  <2>5. From(E, m)
    BY <2>2 DEF From
  <2>6. implies(a, b) \in BDD /\ Sat(implies(a, b)) = E
    BY ImpliesMeaning
  <2> HIDE DEF E, X
  <2>7. C = E
    BY <1>1, <2>3, <2>4, <2>5, ForallSatFrom, ForallSatFacts
  <2>8. QED
    BY <1>2, <2>1, <2>6, <2>7
<1>9. CASE ~isConstant(a) /\ ~isConstant(b) /\ a # b /\ x # True
  <2>1. forallImplies_body(rec, a, b, xs) = ForallShannon(rec, a, b, x)
    BY <1>9, ConstantFacts DEF forallImplies_body, ForallShannon, QuantifiedShannon
  <2>2. ImpliesConn \in Connectives
    BY ImpliesConnective
  <2>3. AgreeBelow(BDD \X BDD \X Cubes, Rank2(BDD \X BDD \X Cubes), rec, ForallConnectiveOf(ImpliesConn), <<a, b, xs>>)
    OBVIOUS
  <2>4. ForallShannon(rec, a, b, x) = ForallConnectiveOf(ImpliesConn)[<<a, b, xs>>]
    BY <1>9, <2>2, <2>3, ForallShannonTree
  <2>5. QED
    BY <1>1, <2>1, <2>4
<1>10. QED
  BY <1>5, <1>6, <1>7, <1>8, <1>9, BDDElim

\* forallImplies: the recursion has a solution, and it is the intended function.
LEMMA ForallImpliesSolved == \A p \in BDD \X BDD \X Cubes : forallImplies_rec[p] = ForallConnectiveOf(ImpliesConn)[p]
<1> DEFINE S == BDD \X BDD \X Cubes
           F == ForallConnectiveOf(ImpliesConn)
           Solves(g) == g = [p \in S |-> forallImplies_body(g, p[1], p[2], p[3])]
<1>1. Solves(F)
  <2>1. \A p \in S : forallImplies_body(F, p[1], p[2], p[3]) = F[p]
    BY ForallImpliesStep DEF AgreeBelow
  <2>2. F = [p \in S |-> F[p]]
    BY DEF ForallConnectiveOf
  <2>3. QED
    BY <2>1, <2>2
<1>2. forallImplies_rec = CHOOSE g : Solves(g)
  BY Zenon DEF forallImplies_rec
<1>3. Solves(forallImplies_rec)
  BY <1>1, <1>2
<1>4. \A p \in S : AgreeBelow(S, Rank2(S), forallImplies_rec, F, p) => forallImplies_rec[p] = F[p]
  <2> SUFFICES ASSUME NEW p \in S, AgreeBelow(S, Rank2(S), forallImplies_rec, F, p)
               PROVE  forallImplies_rec[p] = F[p]
    OBVIOUS
  <2>1. forallImplies_rec[p] = forallImplies_body(forallImplies_rec, p[1], p[2], p[3])
    BY <1>3
  <2>2. forallImplies_body(forallImplies_rec, p[1], p[2], p[3]) = F[p]
    BY ForallImpliesStep
  <2>3. QED
    BY <2>1, <2>2
<1>5. \A p \in S : Rank2(S)[p] \in Nat
  BY RankTypes
<1>6. \A p \in S : forallImplies_rec[p] = F[p]
  <2> HIDE DEF S, F
  <2>1. QED
    BY <1>4, <1>5, Agreement
<1>7. QED
  BY <1>6

\* forallImplies quantifies an implication universally.
THEOREM ForallImpliesMeaning ==
  \A a, b \in BDD, x \in Cubes :
    forallImplies(a, b, x) \in BDD /\ Sat(forallImplies(a, b, x)) = ForallSat(Valuations \ (Sat(a) \ Sat(b)), VarsOf(x))
<1> TAKE a, b \in BDD, x \in Cubes
<1>1. /\ Sat(a) \in SatSets /\ Sat(b) \in SatSets /\ VarsOf(x) \in SUBSET Vars
      /\ Valuations \ (Sat(a) \ Sat(b)) \in SatSets
  BY SatType, CubeElim DEF SatSets
<1>2. ImpliesConn[<<Sat(a), Sat(b)>>] = Valuations \ (Sat(a) \ Sat(b))
  BY <1>1, ImpliesConnective
<1>3. forallImplies(a, b, x) = TreeOf(ForallSat(Valuations \ (Sat(a) \ Sat(b)), VarsOf(x)))
  BY <1>2, ForallImpliesSolved DEF forallImplies, ForallConnectiveOf
<1>4. ForallSat(Valuations \ (Sat(a) \ Sat(b)), VarsOf(x)) \in SUBSET Valuations
  BY <1>1, ForallSatFacts DEF SatSets
<1>5. QED
  BY <1>3, <1>4, TreeOfFacts

\* forall xs. a \/ b
LEMMA ForallOrStep ==
  ASSUME NEW rec, NEW p \in BDD \X BDD \X Cubes,
         AgreeBelow(BDD \X BDD \X Cubes, Rank2(BDD \X BDD \X Cubes), rec, ForallConnectiveOf(OrConn), p)
  PROVE  forallOr_body(rec, p[1], p[2], p[3]) = ForallConnectiveOf(OrConn)[p]
<1> PICK a \in BDD, b \in BDD, xs \in Cubes : p = <<a, b, xs>>
  OBVIOUS
<1> DEFINE m == minVar(a, b)
           x == Skip(xs, m)
           X == VarsOf(xs)
           E == Sat(a) \cup Sat(b)
           C == ForallSat(E, X)
<1>1. /\ Sat(a) \in SatSets /\ Sat(b) \in SatSets /\ X \in SUBSET Vars
      /\ E \in SatSets /\ C \in SatSets /\ ForallConnectiveOf(OrConn)[p] = TreeOf(C)
  <2>1. Sat(a) \in SatSets /\ Sat(b) \in SatSets /\ X \in SUBSET Vars /\ E \in SatSets
    BY SatType, CubeElim DEF SatSets
  <2>2. OrConn[<<Sat(a), Sat(b)>>] = E
    BY <2>1, OrConnective
  <2> HIDE DEF E, X
  <2>3. C \in SatSets
    BY <2>1, ForallSatFacts
  <2>4. QED
    BY <2>1, <2>2, <2>3 DEF ForallConnectiveOf, X
<1>2. \A c \in BDD : Sat(c) = C => c = TreeOf(C)
  BY <1>1, TreeOfFacts DEF SatSets
<1>3. ForallSat({}, X) = {} /\ ForallSat(Valuations, X) = Valuations
  BY <1>1, ForallSatFacts
<1>4. SUFFICES forallOr_body(rec, a, b, xs) = TreeOf(C)
  BY <1>1
<1>5. CASE a = True \/ b = True
  <2>1. forallOr_body(rec, a, b, xs) = True
    BY <1>5, ConstantFacts DEF forallOr_body
  <2>2. E = Valuations
    BY <1>1, <1>5, SatConstants DEF SatSets
  <2>3. True \in BDD /\ Sat(True) = ForallSat(Valuations, X)
    BY <1>1, <1>3, SatConstants, ConstantFacts
  <2> HIDE DEF E
  <2>4. QED
    BY <1>2, <2>1, <2>2, <2>3
<1>6. CASE a = False /\ b # True
  <2>1. forallOr_body(rec, a, b, xs) = forall(b, xs)
    BY <1>6, ConstantFacts DEF forallOr_body
  <2>2. E = Sat(b)
    BY <1>1, <1>6, SatConstants DEF SatSets
  <2>3. forall(b, xs) \in BDD /\ Sat(forall(b, xs)) = ForallSat(Sat(b), X)
    BY <1>1, <1>3, SatConstants, ConstantFacts, ForallMeaning
  <2> HIDE DEF E
  <2>4. QED
    BY <1>2, <2>1, <2>2, <2>3
<1>7. CASE (b = False \/ a = b) /\ ~isConstant(a)
  <2>1. forallOr_body(rec, a, b, xs) = forall(a, xs)
    BY <1>7, ConstantFacts DEF forallOr_body
  <2>2. E = Sat(a)
    BY <1>1, <1>7, SatConstants DEF SatSets
  <2>3. forall(a, xs) \in BDD /\ Sat(forall(a, xs)) = ForallSat(Sat(a), X)
    BY <1>1, <1>3, SatConstants, ConstantFacts, ForallMeaning
  <2> HIDE DEF E
  <2>4. QED
    BY <1>2, <2>1, <2>2, <2>3
<1>8. CASE ~isConstant(a) /\ ~isConstant(b) /\ a # b /\ x = True
  <2>1. forallOr_body(rec, a, b, xs) = orop(a, b)
    BY <1>8, ConstantFacts DEF forallOr_body
  <2>2. /\ m \in Vars /\ From(Sat(a), m) /\ From(Sat(b), m)
    BY <1>8, MinVarFacts
  <2>3. x = Skip(xs, m) /\ m \in Nat /\ m \in Int
    BY <2>2, NumVarsAssumption DEF Vars
  <2> HIDE DEF m, x
  <2>4. {i \in X : m <= i} = {}
    <3>1. x \in Cubes /\ VarsOf(x) = {i \in X : m <= i}
      BY <2>3, SkipFacts
    <3> HIDE DEF X
    <3>2. QED
      BY <1>8, <3>1, CubeElim
  <2>5. From(E, m)
    BY <2>2 DEF From
  <2>6. orop(a, b) \in BDD /\ Sat(orop(a, b)) = E
    BY OrMeaning
  <2> HIDE DEF E, X
  <2>7. C = E
    BY <1>1, <2>3, <2>4, <2>5, ForallSatFrom, ForallSatFacts
  <2>8. QED
    BY <1>2, <2>1, <2>6, <2>7
<1>9. CASE ~isConstant(a) /\ ~isConstant(b) /\ a # b /\ x # True /\ Crossed(a, b)
  <2> DEFINE c == OneSide(a, b)
             d == OtherSide(a, b)
  <2>1. forallOr_body(rec, a, b, xs) = rec[<<c, d, x>>]
    BY <1>9, ConstantFacts DEF forallOr_body
  <2>2. /\ c \in BDD /\ d \in BDD /\ rank(c) + rank(d) < rank(a) + rank(b)
        /\ Sat(c) \cup Sat(d) = E
    BY <1>9, CrossedFacts
  <2>3. /\ m \in Vars /\ From(Sat(a), m) /\ From(Sat(b), m)
    BY <1>9, MinVarFacts
  <2>4. x = Skip(xs, m) /\ m \in Nat /\ m \in Int
    BY <2>3, NumVarsAssumption DEF Vars
  <2>5. From(E, m)
    BY <2>3 DEF From
  <2>6. OrConn[<<Sat(c), Sat(d)>>] = E
    BY <2>2, SatType, OrConnective DEF SatSets
  <2> HIDE DEF c, d, m, x, E
  <2>7. x \in Cubes /\ VarsOf(x) = {i \in X : m <= i}
    BY <2>4, SkipFacts
  <2>8. rec[<<c, d, x>>] = ForallConnectiveOf(OrConn)[<<c, d, x>>]
    BY <2>2, <2>7 DEF AgreeBelow, Rank2
  <2>9. ForallConnectiveOf(OrConn)[<<c, d, x>>] = TreeOf(ForallSat(E, {i \in X : m <= i}))
    BY <2>2, <2>6, <2>7 DEF ForallConnectiveOf
  <2> HIDE DEF X
  <2>10. C = ForallSat(E, {i \in X : m <= i})
    BY <1>1, <2>4, <2>5, ForallSatFrom
  <2>11. QED
    BY <2>1, <2>8, <2>9, <2>10
<1>10. CASE ~isConstant(a) /\ ~isConstant(b) /\ a # b /\ x # True /\ ~Crossed(a, b)
  <2>1. forallOr_body(rec, a, b, xs) = ForallShannon(rec, a, b, x)
    BY <1>10, ConstantFacts DEF forallOr_body, ForallShannon, QuantifiedShannon
  <2>2. OrConn \in Connectives
    BY OrConnective
  <2>3. AgreeBelow(BDD \X BDD \X Cubes, Rank2(BDD \X BDD \X Cubes), rec, ForallConnectiveOf(OrConn), <<a, b, xs>>)
    OBVIOUS
  <2>4. ForallShannon(rec, a, b, x) = ForallConnectiveOf(OrConn)[<<a, b, xs>>]
    BY <1>10, <2>2, <2>3, ForallShannonTree
  <2>5. QED
    BY <1>1, <2>1, <2>4
<1>11. QED
  BY <1>5, <1>6, <1>7, <1>8, <1>9, <1>10, BDDElim

\* forallOr: the recursion has a solution, and it is the intended function.
LEMMA ForallOrSolved == \A p \in BDD \X BDD \X Cubes : forallOr_rec[p] = ForallConnectiveOf(OrConn)[p]
<1> DEFINE S == BDD \X BDD \X Cubes
           F == ForallConnectiveOf(OrConn)
           Solves(g) == g = [p \in S |-> forallOr_body(g, p[1], p[2], p[3])]
<1>1. Solves(F)
  <2>1. \A p \in S : forallOr_body(F, p[1], p[2], p[3]) = F[p]
    BY ForallOrStep DEF AgreeBelow
  <2>2. F = [p \in S |-> F[p]]
    BY DEF ForallConnectiveOf
  <2>3. QED
    BY <2>1, <2>2
<1>2. forallOr_rec = CHOOSE g : Solves(g)
  BY Zenon DEF forallOr_rec
<1>3. Solves(forallOr_rec)
  BY <1>1, <1>2
<1>4. \A p \in S : AgreeBelow(S, Rank2(S), forallOr_rec, F, p) => forallOr_rec[p] = F[p]
  <2> SUFFICES ASSUME NEW p \in S, AgreeBelow(S, Rank2(S), forallOr_rec, F, p)
               PROVE  forallOr_rec[p] = F[p]
    OBVIOUS
  <2>1. forallOr_rec[p] = forallOr_body(forallOr_rec, p[1], p[2], p[3])
    BY <1>3
  <2>2. forallOr_body(forallOr_rec, p[1], p[2], p[3]) = F[p]
    BY ForallOrStep
  <2>3. QED
    BY <2>1, <2>2
<1>5. \A p \in S : Rank2(S)[p] \in Nat
  BY RankTypes
<1>6. \A p \in S : forallOr_rec[p] = F[p]
  <2> HIDE DEF S, F
  <2>1. QED
    BY <1>4, <1>5, Agreement
<1>7. QED
  BY <1>6

\* forallOr quantifies a disjunction universally.
THEOREM ForallOrMeaning ==
  \A a, b \in BDD, x \in Cubes :
    forallOr(a, b, x) \in BDD /\ Sat(forallOr(a, b, x)) = ForallSat(Sat(a) \cup Sat(b), VarsOf(x))
<1> TAKE a, b \in BDD, x \in Cubes
<1>1. /\ Sat(a) \in SatSets /\ Sat(b) \in SatSets /\ VarsOf(x) \in SUBSET Vars
      /\ Sat(a) \cup Sat(b) \in SatSets
  BY SatType, CubeElim DEF SatSets
<1>2. OrConn[<<Sat(a), Sat(b)>>] = Sat(a) \cup Sat(b)
  BY <1>1, OrConnective
<1>3. forallOr(a, b, x) = TreeOf(ForallSat(Sat(a) \cup Sat(b), VarsOf(x)))
  BY <1>2, ForallOrSolved DEF forallOr, ForallConnectiveOf
<1>4. ForallSat(Sat(a) \cup Sat(b), VarsOf(x)) \in SUBSET Valuations
  BY <1>1, ForallSatFacts DEF SatSets
<1>5. QED
  BY <1>3, <1>4, TreeOfFacts

\* exists xs. if a then b else c
IteExistsOf ==
  [p \in BDD \X BDD \X BDD \X Cubes |->
     TreeOf(ExistsSat(IteSat(Sat(p[1]), Sat(p[2]), Sat(p[3])), VarsOf(p[4])))]

\* The body of iteExists_recursive returns what it is meant to when its calls do.
LEMMA IteExistsStep ==
  ASSUME NEW rec, NEW p \in BDD \X BDD \X BDD \X Cubes,
         AgreeBelow(BDD \X BDD \X BDD \X Cubes, Rank3(BDD \X BDD \X BDD \X Cubes), rec, IteExistsOf, p)
  PROVE  iteExists_recursive_body(rec, p[1], p[2], p[3], p[4]) = IteExistsOf[p]
<1> PICK a \in BDD, b \in BDD, c \in BDD, xs \in Cubes : p = <<a, b, c, xs>>
  OBVIOUS
<1> DEFINE m == minVar3(a, b, c)
           x == Skip(xs, m)
           X == VarsOf(xs)
           E == IteSat(Sat(a), Sat(b), Sat(c))
           C == ExistsSat(E, X)
<1>1. /\ Sat(a) \in SatSets /\ Sat(b) \in SatSets /\ Sat(c) \in SatSets
      /\ X \in SUBSET Vars /\ E \in SatSets /\ C \in SatSets /\ IteExistsOf[p] = TreeOf(C)
  <2>1. /\ Sat(a) \in SatSets /\ Sat(b) \in SatSets /\ Sat(c) \in SatSets /\ X \in SUBSET Vars
    BY SatType, CubeElim DEF SatSets
  <2>2. E \in SatSets
    BY <2>1, IteSatFacts
  <2> HIDE DEF E, X
  <2>3. C \in SatSets
    BY <2>1, <2>2, ExistsSatFacts
  <2>4. QED
    BY <2>1, <2>2, <2>3 DEF IteExistsOf, E, X
<1>2. \A d \in BDD : Sat(d) = C => d = TreeOf(C)
  BY <1>1, TreeOfFacts DEF SatSets
<1>3. SUFFICES iteExists_recursive_body(rec, a, b, c, xs) = TreeOf(C)
  BY <1>1
<1>4. CASE a = False
  <2>1. iteExists_recursive_body(rec, a, b, c, xs) = exists(c, xs)
    BY <1>4, ConstantFacts DEF iteExists_recursive_body
  <2>2. E = Sat(c)
    BY <1>1, <1>4, SatConstants DEF SatSets, IteSat
  <2>3. exists(c, xs) \in BDD /\ Sat(exists(c, xs)) = ExistsSat(Sat(c), X)
    BY ExistsMeaning
  <2> HIDE DEF E
  <2>4. QED
    BY <1>2, <2>1, <2>2, <2>3
<1>5. CASE a = True
  <2>1. iteExists_recursive_body(rec, a, b, c, xs) = exists(b, xs)
    BY <1>5, ConstantFacts DEF iteExists_recursive_body
  <2>2. E = Sat(b)
    BY <1>1, <1>5, SatConstants DEF SatSets, IteSat
  <2>3. exists(b, xs) \in BDD /\ Sat(exists(b, xs)) = ExistsSat(Sat(b), X)
    BY ExistsMeaning
  <2> HIDE DEF E
  <2>4. QED
    BY <1>2, <2>1, <2>2, <2>3
<1>6. CASE b = False /\ ~isConstant(a)
  <2>1. iteExists_recursive_body(rec, a, b, c, xs) = notimpliesExists(c, a, xs)
    BY <1>6, ConstantFacts DEF iteExists_recursive_body
  <2>2. E = Sat(c) \ Sat(a)
    BY <1>1, <1>6, SatConstants DEF SatSets, IteSat
  <2>3. notimpliesExists(c, a, xs) \in BDD /\ Sat(notimpliesExists(c, a, xs)) = ExistsSat(Sat(c) \ Sat(a), X)
    BY NotimpliesExistsMeaning
  <2> HIDE DEF E
  <2>4. QED
    BY <1>2, <2>1, <2>2, <2>3
<1>7. CASE b = True /\ ~isConstant(a)
  <2>1. iteExists_recursive_body(rec, a, b, c, xs) = orExists(a, c, xs)
    BY <1>7, ConstantFacts DEF iteExists_recursive_body
  <2>2. E = Sat(a) \cup Sat(c)
    BY <1>1, <1>7, SatConstants DEF SatSets, IteSat
  <2>3. orExists(a, c, xs) \in BDD /\ Sat(orExists(a, c, xs)) = ExistsSat(Sat(a) \cup Sat(c), X)
    BY OrExistsMeaning
  <2> HIDE DEF E
  <2>4. QED
    BY <1>2, <2>1, <2>2, <2>3
<1>8. CASE c = False /\ ~isConstant(a) /\ ~isConstant(b)
  <2>1. iteExists_recursive_body(rec, a, b, c, xs) = relProd(a, b, xs)
    BY <1>8, ConstantFacts DEF iteExists_recursive_body
  <2>2. E = Sat(a) \cap Sat(b)
    BY <1>1, <1>8, SatConstants DEF SatSets, IteSat
  <2>3. relProd(a, b, xs) \in BDD /\ Sat(relProd(a, b, xs)) = ExistsSat(Sat(a) \cap Sat(b), X)
    BY RelProdMeaning
  <2> HIDE DEF E
  <2>4. QED
    BY <1>2, <2>1, <2>2, <2>3
<1>9. CASE c = True /\ ~isConstant(a) /\ ~isConstant(b)
  <2>1. iteExists_recursive_body(rec, a, b, c, xs) = impliesExists(a, b, xs)
    BY <1>9, ConstantFacts DEF iteExists_recursive_body
  <2>2. E = Valuations \ (Sat(a) \ Sat(b))
    BY <1>1, <1>9, SatConstants DEF SatSets, IteSat
  <2>3. impliesExists(a, b, xs) \in BDD /\ Sat(impliesExists(a, b, xs)) = ExistsSat(Valuations \ (Sat(a) \ Sat(b)), X)
    BY ImpliesExistsMeaning
  <2> HIDE DEF E
  <2>4. QED
    BY <1>2, <2>1, <2>2, <2>3
<1>10. CASE a = b /\ ~isConstant(a) /\ ~isConstant(b) /\ ~isConstant(c)
  <2>1. iteExists_recursive_body(rec, a, b, c, xs) = orExists(a, c, xs)
    BY <1>10, ConstantFacts DEF iteExists_recursive_body
  <2>2. E = Sat(a) \cup Sat(c)
    BY <1>1, <1>10, SatConstants DEF SatSets, IteSat
  <2>3. orExists(a, c, xs) \in BDD /\ Sat(orExists(a, c, xs)) = ExistsSat(Sat(a) \cup Sat(c), X)
    BY OrExistsMeaning
  <2> HIDE DEF E
  <2>4. QED
    BY <1>2, <2>1, <2>2, <2>3
<1>11. CASE a = c /\ a # b /\ ~isConstant(a) /\ ~isConstant(b)
  <2>1. iteExists_recursive_body(rec, a, b, c, xs) = relProd(a, b, xs)
    BY <1>11, ConstantFacts DEF iteExists_recursive_body
  <2>2. E = Sat(a) \cap Sat(b)
    BY <1>1, <1>11, SatConstants DEF SatSets, IteSat
  <2>3. relProd(a, b, xs) \in BDD /\ Sat(relProd(a, b, xs)) = ExistsSat(Sat(a) \cap Sat(b), X)
    BY RelProdMeaning
  <2> HIDE DEF E
  <2>4. QED
    BY <1>2, <2>1, <2>2, <2>3
<1>12. CASE b = c /\ a # b /\ ~isConstant(a) /\ ~isConstant(b)
  <2>1. iteExists_recursive_body(rec, a, b, c, xs) = exists(c, xs)
    BY <1>12, ConstantFacts DEF iteExists_recursive_body
  <2>2. E = Sat(c)
    BY <1>1, <1>12, SatConstants DEF SatSets, IteSat
  <2>3. exists(c, xs) \in BDD /\ Sat(exists(c, xs)) = ExistsSat(Sat(c), X)
    BY ExistsMeaning
  <2> HIDE DEF E
  <2>4. QED
    BY <1>2, <2>1, <2>2, <2>3
<1>13. CASE ~isConstant(a) /\ ~isConstant(b) /\ ~isConstant(c) /\ a # b /\ a # c /\ b # c
  <2> DEFINE l == rec[<<cf_left(a, m), cf_left(b, m), cf_left(c, m), x>>]
             r == rec[<<cf_right(a, m), cf_right(b, m), cf_right(c, m), x>>]
  <2>1. iteExists_recursive_body(rec, a, b, c, xs)
          = IF x = True THEN ite(a, b, c) ELSE IF var(x) = m THEN orop(l, r) ELSE find(m, l, r)
    BY <1>13, ConstantFacts DEF iteExists_recursive_body
  <2>2. m = minVar3(a, b, c) /\ x = Skip(xs, m)
    OBVIOUS
  <2> HIDE DEF m, x
  <2>3. ~isConstant(a) \/ ~isConstant(b) \/ ~isConstant(c)
    BY <1>13
  <2>4. /\ m \in Vars
        /\ \A d \in {a, b, c} :
             /\ cf_left(d, m) \in BDD /\ cf_right(d, m) \in BDD /\ From(Sat(d), m)
             /\ Sat(cf_left(d, m)) = Low(Sat(d), m) /\ Sat(cf_right(d, m)) = High(Sat(d), m)
        /\ rank(cf_left(a, m)) + rank(cf_left(b, m)) + rank(cf_left(c, m))
             < rank(a) + rank(b) + rank(c)
        /\ rank(cf_right(a, m)) + rank(cf_right(b, m)) + rank(cf_right(c, m))
             < rank(a) + rank(b) + rank(c)
    BY <2>2, <2>3, MinVar3Facts
  <2>5. m \in Nat /\ m \in Int
    BY <2>4, NumVarsAssumption DEF Vars
  <2>6. x \in Cubes /\ VarsOf(x) = {i \in X : m <= i}
    BY <2>2, <2>5, SkipFacts
  <2>7. /\ From(E, m)
        /\ Low(E, m) = IteSat(Low(Sat(a), m), Low(Sat(b), m), Low(Sat(c), m))
        /\ High(E, m) = IteSat(High(Sat(a), m), High(Sat(b), m), High(Sat(c), m))
    BY <1>1, <2>4, IteSatFacts
  <2>8. CASE x = True
    <3>1. ite(a, b, c) \in BDD /\ Sat(ite(a, b, c)) = E
      BY IteMeaning
    <3> HIDE DEF E, X
    <3>2. {i \in X : m <= i} = {}
      BY <2>6, <2>8, CubeElim
    <3>3. C = E
      BY <1>1, <2>5, <2>7, <3>2, ExistsSatFrom, ExistsSatFacts
    <3>4. QED
      BY <1>2, <2>1, <2>8, <3>1, <3>3
  <2>9. CASE x # True
    <3>1. \A d, e, f \in BDD : rank(d) + rank(e) + rank(f) < rank(a) + rank(b) + rank(c)
            => rec[<<d, e, f, x>>] = TreeOf(ExistsSat(IteSat(Sat(d), Sat(e), Sat(f)), VarsOf(x)))
      BY <2>6 DEF AgreeBelow, Rank3, IteExistsOf
    <3>2. /\ l = TreeOf(ExistsSat(IteSat(Low(Sat(a), m), Low(Sat(b), m), Low(Sat(c), m)), VarsOf(x)))
          /\ r = TreeOf(ExistsSat(IteSat(High(Sat(a), m), High(Sat(b), m), High(Sat(c), m)), VarsOf(x)))
      BY <2>4, <3>1
    <3>3. /\ l = TreeOf(ExistsSat(Low(E, m), VarsOf(x)))
          /\ r = TreeOf(ExistsSat(High(E, m), VarsOf(x)))
      BY <2>7, <3>2
    <3> HIDE DEF E, X
    <3>4. ExistsJoin(E, m, x) = TreeOf(C)
      BY <1>1, <2>4, <2>6, <2>7, ExistsNode
    <3>5. QED
      BY <2>1, <2>9, <3>3, <3>4 DEF ExistsJoin
  <2>10. QED
    BY <2>8, <2>9
<1>14. QED
  BY <1>4, <1>5, <1>6, <1>7, <1>8, <1>9, <1>10, <1>11, <1>12, <1>13, BDDElim

\* iteExists_recursive: the recursion has a solution, and it is the intended function.
LEMMA IteExistsSolved == \A p \in BDD \X BDD \X BDD \X Cubes : iteExists_recursive_rec[p] = IteExistsOf[p]
<1> DEFINE S == BDD \X BDD \X BDD \X Cubes
           F == IteExistsOf
           Solves(g) == g = [p \in S |-> iteExists_recursive_body(g, p[1], p[2], p[3], p[4])]
<1>1. Solves(F)
  <2>1. \A p \in S : iteExists_recursive_body(F, p[1], p[2], p[3], p[4]) = F[p]
    BY IteExistsStep DEF AgreeBelow
  <2>2. F = [p \in S |-> F[p]]
    BY DEF IteExistsOf
  <2>3. QED
    BY <2>1, <2>2
<1>2. iteExists_recursive_rec = CHOOSE g : Solves(g)
  BY Zenon DEF iteExists_recursive_rec
<1>3. Solves(iteExists_recursive_rec)
  BY <1>1, <1>2
<1>4. \A p \in S : AgreeBelow(S, Rank3(S), iteExists_recursive_rec, F, p) => iteExists_recursive_rec[p] = F[p]
  <2> SUFFICES ASSUME NEW p \in S, AgreeBelow(S, Rank3(S), iteExists_recursive_rec, F, p)
               PROVE  iteExists_recursive_rec[p] = F[p]
    OBVIOUS
  <2>1. iteExists_recursive_rec[p] = iteExists_recursive_body(iteExists_recursive_rec, p[1], p[2], p[3], p[4])
    BY <1>3
  <2>2. iteExists_recursive_body(iteExists_recursive_rec, p[1], p[2], p[3], p[4]) = F[p]
    BY IteExistsStep
  <2>3. QED
    BY <2>1, <2>2
<1>5. \A p \in S : Rank3(S)[p] \in Nat
  BY RankTypes
<1>6. \A p \in S : iteExists_recursive_rec[p] = F[p]
  <2> HIDE DEF S, F
  <2>1. QED
    BY <1>4, <1>5, Agreement
<1>7. QED
  BY <1>6

\* The recursion of iteExists quantifies the choice, for more variables than one.
THEOREM IteExistsRecursiveMeaning ==
  \A a, b, c \in BDD, x \in Cubes :
    /\ iteExists_recursive(a, b, c, x) \in BDD
    /\ Sat(iteExists_recursive(a, b, c, x)) = ExistsSat(IteSat(Sat(a), Sat(b), Sat(c)), VarsOf(x))
<1> TAKE a, b, c \in BDD, x \in Cubes
<1> DEFINE E == IteSat(Sat(a), Sat(b), Sat(c))
<1>1. E \in SatSets /\ VarsOf(x) \in SUBSET Vars
  BY SatType, CubeElim, IteSatFacts DEF SatSets
<1>2. iteExists_recursive(a, b, c, x) = TreeOf(ExistsSat(E, VarsOf(x)))
  BY IteExistsSolved DEF iteExists_recursive, IteExistsOf
<1> HIDE DEF E
<1>3. ExistsSat(E, VarsOf(x)) \in SUBSET Valuations
  BY <1>1, ExistsSatFacts DEF SatSets
<1>4. QED
  BY <1>2, <1>3, TreeOfFacts DEF E

\* A variable, or a negated one, above b and c needs no recursion.
THEOREM IteExistsVarMeaning ==
  ASSUME NEW a \in BDD, NEW b \in BDD, NEW c \in BDD, NEW xs \in Cubes, OnTopOf(a, b, c)
  PROVE  /\ iteExistsVar(a, b, c, xs) \in BDD
         /\ Sat(iteExistsVar(a, b, c, xs))
              = ExistsSat(IteSat(Sat(a), Sat(b), Sat(c)), VarsOf(xs))
<1> DEFINE m == var(a)
           x == Skip(xs, m)
           X == VarsOf(xs)
           Y == VarsOf(x)
           E == IteSat(Sat(a), Sat(b), Sat(c))
           qb == exists(b, x)
           qc == exists(c, x)
           pos == right(a) = True
<1>1. /\ ~isConstant(a) /\ isConstant(left(a)) /\ isConstant(right(a))
      /\ Above(b, m) /\ Above(c, m) /\ m = var(a) /\ x = Skip(xs, m)
  BY DEF OnTopOf, isVariable
<1>2. iteExistsVar(a, b, c, xs)
        = IF x # True /\ var(x) = m
          THEN IF right(x) = True THEN orop(b, c) ELSE orExists(b, c, right(x))
          ELSE IF pos THEN find(m, qc, qb) ELSE find(m, qb, qc)
  BY DEF iteExistsVar
<1> HIDE DEF m, x
<1>3. /\ m \in Vars /\ m \in Nat /\ From(Sat(a), m)
      /\ Sat(left(a)) = Low(Sat(a), m) /\ Sat(right(a)) = High(Sat(a), m)
      /\ left(a) \in BDD /\ right(a) \in BDD /\ left(a) # right(a)
  BY <1>1, NodeFacts
<1>4. x \in Cubes /\ Y = {i \in X : m <= i} /\ X \in SUBSET Vars /\ Y \in SUBSET Vars
  <2>1. Skip(xs, m) \in Cubes /\ VarsOf(Skip(xs, m)) = {i \in VarsOf(xs) : m <= i}
    BY <1>3, SkipFacts
  <2>2. VarsOf(xs) \in SUBSET Vars
    BY CubeElim
  <2>3. QED
    BY <1>1, <2>1, <2>2
<1>5. m \in Int /\ m + 1 \in Int
  BY <1>3
<1>6. /\ Sat(b) \in SatSets /\ Sat(c) \in SatSets /\ Sat(a) \in SatSets
      /\ From(Sat(b), m + 1) /\ From(Sat(c), m + 1) /\ From(Sat(b), m) /\ From(Sat(c), m)
  <2>1. \A d \in BDD : Above(d, m) => StartsAt(d, m + 1) /\ StartsAt(d, m)
    BY <1>3, BDDElim DEF Above, StartsAt, IsNode, Vars
  <2>2. QED
    BY <1>1, <1>5, <2>1, SatFrom, SatType DEF SatSets
<1>7. /\ Low(Sat(b), m) = Sat(b) /\ High(Sat(b), m) = Sat(b)
      /\ Low(Sat(c), m) = Sat(c) /\ High(Sat(c), m) = Sat(c)
  BY <1>3, <1>6, LowHigh DEF SatSets
<1>8. /\ pos => Low(Sat(a), m) = {} /\ High(Sat(a), m) = Valuations
      /\ ~pos => Low(Sat(a), m) = Valuations /\ High(Sat(a), m) = {}
  BY <1>1, <1>3, BDDElim, SatConstants, ConstantFacts
<1>9. /\ E \in SatSets /\ From(E, m)
      /\ Low(E, m) = IteSat(Low(Sat(a), m), Sat(b), Sat(c))
      /\ High(E, m) = IteSat(High(Sat(a), m), Sat(b), Sat(c))
  BY <1>3, <1>6, <1>7, IteSatFacts
<1>10. /\ IteSat({}, Sat(b), Sat(c)) = Sat(c)
       /\ IteSat(Valuations, Sat(b), Sat(c)) = Sat(b)
  BY <1>6 DEF IteSat, SatSets
<1> HIDE DEF E, X, Y
<1>11. /\ pos => Low(E, m) = Sat(c) /\ High(E, m) = Sat(b)
       /\ ~pos => Low(E, m) = Sat(b) /\ High(E, m) = Sat(c)
  BY <1>8, <1>9, <1>10
<1>12. /\ qb \in BDD /\ Sat(qb) = ExistsSat(Sat(b), Y)
       /\ qc \in BDD /\ Sat(qc) = ExistsSat(Sat(c), Y)
  BY <1>4, ExistsMeaning DEF Y
<1>13. qb = TreeOf(ExistsSat(Sat(b), Y)) /\ qc = TreeOf(ExistsSat(Sat(c), Y))
  BY <1>12, TreeOfSat
<1> HIDE DEF qb, qc, pos
<1>14. ExistsJoin(E, m, x) = TreeOf(ExistsSat(E, X))
  BY <1>3, <1>4, <1>9, ExistsNode DEF X, Y
<1>15. ExistsSat(E, X) \in SUBSET Valuations
  BY <1>4, <1>9, ExistsSatFacts DEF SatSets
<1>16. \A d \in BDD : d = TreeOf(ExistsSat(E, X)) => Sat(d) = ExistsSat(E, X)
  BY <1>15, TreeOfFacts
<1>17. TreeOf(ExistsSat(E, X)) \in BDD
  BY <1>15, TreeOfFacts
<1>18. SUFFICES iteExistsVar(a, b, c, xs) = TreeOf(ExistsSat(E, X))
  BY <1>16, <1>17 DEF E, X
<1>19. CASE x # True /\ var(x) = m
  <2>1. /\ right(x) \in Cubes /\ VarsOf(right(x)) = Y \ {m}
    BY <1>4, <1>19, CubeElim DEF Y
  <2>2. orop(qb, qc) = TreeOf(ExistsSat(E, X)) \/ orop(qc, qb) = TreeOf(ExistsSat(E, X))
    BY <1>11, <1>13, <1>14, <1>19 DEF ExistsJoin, Y
  <2>3. ExistsSat(E, X) = ExistsSat(Sat(b), Y) \cup ExistsSat(Sat(c), Y)
    <3>1. /\ Sat(orop(qb, qc)) = Sat(qb) \cup Sat(qc) /\ Sat(orop(qc, qb)) = Sat(qc) \cup Sat(qb)
          /\ orop(qb, qc) \in BDD /\ orop(qc, qb) \in BDD
      BY <1>12, OrMeaning
    <3>2. QED
      BY <1>12, <1>16, <2>2, <3>1
  <2> DEFINE B == Sat(b) \cup Sat(c)
  <2>4. ExistsSat(B, Y) = ExistsSat(E, X)
    <3>1. \A C \in SatSets :
            ExistsSat(Sat(b) \cup C, Y) = ExistsSat(Sat(b), Y) \cup ExistsSat(C, Y)
      <4>1. Sat(b) \in SatSets /\ Y \in SUBSET Vars
        BY <1>4, <1>6
      <4>2. QED
        BY <4>1, ExistsSatFacts
    <3>2. ExistsSat(B, Y) = ExistsSat(Sat(b), Y) \cup ExistsSat(Sat(c), Y)
      BY <1>6, <3>1
    <3>3. QED
      BY <2>3, <3>2
  <2>5. B \in SatSets /\ From(B, m + 1)
    BY <1>6 DEF SatSets, From
  <2> HIDE DEF B
  <2>6. ExistsSat(B, Y \ {m}) = ExistsSat(E, X)
    BY <1>3, <1>4, <2>4, <2>5, ExistsLess
  <2>7. CASE right(x) = True
    <3>1. Y \ {m} = {}
      BY <2>1, <2>7, CubeElim
    <3>2. ExistsSat(E, X) = B
      BY <1>4, <2>5, <2>6, <3>1, ExistsSatFacts
    <3>3. orop(b, c) \in BDD /\ Sat(orop(b, c)) = B
      BY OrMeaning DEF B
    <3>4. QED
      BY <1>2, <1>15, <1>19, <2>7, <3>2, <3>3, TreeOfFacts
  <2>8. CASE right(x) # True
    <3>1. /\ orExists(b, c, right(x)) \in BDD
          /\ Sat(orExists(b, c, right(x))) = ExistsSat(Sat(b) \cup Sat(c), VarsOf(right(x)))
      BY <2>1, OrExistsMeaning
    <3>2. Sat(orExists(b, c, right(x))) = ExistsSat(E, X)
      BY <2>1, <2>6, <3>1 DEF B
    <3>3. QED
      BY <1>2, <1>15, <1>19, <2>8, <3>1, <3>2, TreeOfFacts
  <2>9. QED
    BY <2>7, <2>8
<1>20. CASE ~(x # True /\ var(x) = m)
  <2>1. var(x) # m
    BY <1>3, <1>20 DEF True, var
  <2>2. QED
    BY <1>2, <1>11, <1>13, <1>14, <1>20, <2>1 DEF ExistsJoin, Y
<1>21. QED
  BY <1>19, <1>20

\* iteExists quantifies the choice between two operands, by either of its two ways.
THEOREM IteExistsMeaning ==
  \A a, b, c \in BDD, x \in Cubes :
    /\ iteExists(a, b, c, x) \in BDD
    /\ Sat(iteExists(a, b, c, x)) = ExistsSat(IteSat(Sat(a), Sat(b), Sat(c)), VarsOf(x))
<1> TAKE a, b, c \in BDD, x \in Cubes
<1>1. CASE OnTopOf(a, b, c)
  <2>1. iteExists(a, b, c, x) = iteExistsVar(a, b, c, x)
    BY <1>1 DEF iteExists
  <2>2. QED
    BY <1>1, <2>1, IteExistsVarMeaning
<1>2. CASE ~OnTopOf(a, b, c)
  <2>1. iteExists(a, b, c, x) = iteExists_recursive(a, b, c, x)
    BY <1>2 DEF iteExists
  <2>2. QED
    BY <2>1, IteExistsRecursiveMeaning
<1>3. QED
  BY <1>1, <1>2

-------------------------------------------------------------------------------
\* Substitution.

\* What a substitution gives for a variable: a constant or a variable.
LEMMA DestFacts ==
  ASSUME NEW s \in Assocs, NEW i \in Vars
  PROVE  /\ dest(s, i) \in BDD
         /\ dest(s, i) = False \/ dest(s, i) = True \/ \E j \in Vars : dest(s, i) = find_var(j)
<1>1. dest(s, i) = find_var(i) \/ (dest(s, i) = s[i] /\ s[i] # Unmapped)
  BY DEF dest, IsUnmapped, Assocs
<1>2. s[i] = Unmapped \/ s[i] = False \/ s[i] = True \/ \E j \in Vars : s[i] = find_var(j)
  BY DEF Assocs
<1>3. dest(s, i) = False \/ dest(s, i) = True \/ \E j \in Vars : dest(s, i) = find_var(j)
  BY <1>1, <1>2
<1>4. \A j \in Vars : find_var(j) \in BDD
  BY FindVar
<1>5. QED
  BY <1>3, <1>4, ConstantFacts

\* The valuation under a substitution.
LEMMA UnderFacts ==
  ASSUME NEW s \in Assocs, NEW v \in Valuations
  PROVE  /\ Under(v, s) \in Valuations
         /\ \A i \in Vars : Under(v, s)[i] = Holds(dest(s, i), v)
         /\ \A i \in Vars : Under(v, s)[i] <=> v \in Sat(dest(s, i))
<1>1. \A i \in Vars : Holds(dest(s, i), v) \in BOOLEAN
  BY DestFacts, HoldsFacts
<1>2. Under(v, s) \in Valuations /\ \A i \in Vars : Under(v, s)[i] = Holds(dest(s, i), v)
  BY <1>1 DEF Under, Valuations
<1>3. QED
  BY <1>2 DEF Sat

\* Substituting is if-then-else on the image of the top variable.
LEMMA ComposeSatFacts ==
  ASSUME NEW s \in Assocs
  PROVE  /\ ComposeSat(False, s) = {} /\ ComposeSat(True, s) = Valuations
         /\ \A a \in BDD : ComposeSat(a, s) \in SatSets
         /\ \A a \in BDD : ~isConstant(a) =>
              ComposeSat(a, s) = IteSat(Sat(dest(s, var(a))), ComposeSat(right(a), s),
                                        ComposeSat(left(a), s))
<1>1. ComposeSat(False, s) = {} /\ ComposeSat(True, s) = Valuations
  BY UnderFacts, HoldsFacts DEF ComposeSat
<1>2. \A a \in BDD : ComposeSat(a, s) \in SatSets
  BY DEF ComposeSat, SatSets
<1>3. ASSUME NEW a \in BDD, ~isConstant(a)
      PROVE  ComposeSat(a, s) = IteSat(Sat(dest(s, var(a))), ComposeSat(right(a), s),
                                       ComposeSat(left(a), s))
  <2>1. IsNode(a) /\ var(a) \in Vars
    BY <1>3, BDDElim DEF IsNode
  <2>2. \A v \in Valuations : Holds(a, Under(v, s)) =
          IF Under(v, s)[var(a)] THEN Holds(right(a), Under(v, s)) ELSE Holds(left(a), Under(v, s))
    BY <2>1, UnderFacts, HoldsFacts
  <2>3. \A v \in Valuations : Under(v, s)[var(a)] <=> v \in Sat(dest(s, var(a)))
    BY <2>1, UnderFacts
  <2>4. QED
    BY <2>2, <2>3 DEF ComposeSat, IteSat
<1>4. QED
  BY <1>1, <1>2, <1>3

\* A variable on top of two BDDs that start below it.
LEMMA FindIte ==
  ASSUME NEW j \in Vars, NEW l \in BDD, NEW r \in BDD, Above(l, j), Above(r, j)
  PROVE  /\ find(j, l, r) \in BDD
         /\ Sat(find(j, l, r)) = IteSat(Sat(find_var(j)), Sat(r), Sat(l))
<1> DEFINE D == Sat(find_var(j))
           C == IteSat(D, Sat(r), Sat(l))
<1>1. Low(D, j) = {} /\ High(D, j) = Valuations
  BY FindVar, Update DEF Low, High
<1>2. D \in SatSets /\ Sat(l) \in SatSets /\ Sat(r) \in SatSets
  BY FindVar, SatType DEF SatSets
<1>3. From(Sat(l), j + 1) /\ From(Sat(r), j + 1)
  <2>1. StartsAt(l, j + 1) /\ StartsAt(r, j + 1) /\ j + 1 \in Int
    BY BDDElim, NumVarsAssumption DEF Above, StartsAt, IsNode, Vars
  <2>2. QED
    BY <2>1, SatFrom
<1>4. /\ Low(Sat(l), j) = Sat(l) /\ High(Sat(l), j) = Sat(l)
      /\ Low(Sat(r), j) = Sat(r) /\ High(Sat(r), j) = Sat(r)
  BY <1>2, <1>3, LowHigh DEF SatSets
<1> HIDE DEF D
<1>5. /\ C \in SatSets
      /\ Low(C, j) = IteSat(Low(D, j), Low(Sat(r), j), Low(Sat(l), j))
      /\ High(C, j) = IteSat(High(D, j), High(Sat(r), j), High(Sat(l), j))
  BY <1>2, IteSatFacts
<1>6. Low(C, j) = Sat(l) /\ High(C, j) = Sat(r)
  BY <1>1, <1>2, <1>4, <1>5 DEF IteSat, SatSets
<1> HIDE DEF C
<1>7. find(j, l, r) \in BDD /\ Sat(find(j, l, r)) = C
  BY <1>5, <1>6, SatFind DEF SatSets
<1>8. QED
  BY <1>7 DEF C, D

SubstOf == [p \in BDD \X Assocs |-> TreeOf(ComposeSat(p[1], p[2]))]

\* The body of _compose returns what it is meant to when its calls do.
LEMMA SubstStep ==
  ASSUME NEW rec, NEW p \in BDD \X Assocs,
         AgreeBelow(BDD \X Assocs, Rank1(BDD \X Assocs), rec, SubstOf, p)
  PROVE  _compose_body(rec, p[1], p[2]) = SubstOf[p]
<1> PICK a \in BDD, s \in Assocs : p = <<a, s>>
  OBVIOUS
<1> DEFINE C == ComposeSat(a, s)
<1>1. C \in SatSets /\ SubstOf[p] = TreeOf(C)
  BY ComposeSatFacts DEF SubstOf
<1>2. \A b \in BDD : Sat(b) = C => b = TreeOf(C)
  BY <1>1, TreeOfFacts DEF SatSets
<1>3. CASE isConstant(a)
  <2>1. _compose_body(rec, a, s) = a
    BY <1>3 DEF _compose_body
  <2>2. Sat(a) = C
    BY <1>3, BDDElim, SatConstants, ComposeSatFacts
  <2>3. QED
    BY <1>1, <1>2, <2>1, <2>2
<1>4. CASE ~isConstant(a)
  <2> DEFINE d == dest(s, var(a))
             l == rec[<<left(a), s>>]
             r == rec[<<right(a), s>>]
  <2>1. /\ var(a) \in Vars /\ left(a) \in BDD /\ right(a) \in BDD
        /\ rank(left(a)) < rank(a) /\ rank(right(a)) < rank(a)
    BY <1>4, NodeFacts
  <2>2. \A b \in BDD : rank(b) < rank(a) => rec[<<b, s>>] = TreeOf(ComposeSat(b, s))
    BY DEF AgreeBelow, Rank1, SubstOf
  <2>3. l = TreeOf(ComposeSat(left(a), s)) /\ r = TreeOf(ComposeSat(right(a), s))
    BY <2>1, <2>2
  <2>4. /\ l \in BDD /\ Sat(l) = ComposeSat(left(a), s)
        /\ r \in BDD /\ Sat(r) = ComposeSat(right(a), s)
    BY <2>1, <2>3, ComposeSatFacts, TreeOfFacts DEF SatSets
  <2>5. d \in BDD /\ (d = False \/ d = True \/ \E j \in Vars : d = find_var(j))
    BY <2>1, DestFacts
  <2>6. C = IteSat(Sat(d), Sat(r), Sat(l))
    BY <1>4, <2>4, ComposeSatFacts
  <2>7. _compose_body(rec, a, s) =
          IF d = True THEN r
          ELSE IF d = False THEN l
          ELSE IF l = r THEN r
          ELSE IF isVariable(d) /\ Above(l, var(d)) /\ Above(r, var(d))
          THEN find(var(d), l, r)
          ELSE ite(d, r, l)
    BY <1>4 DEF _compose_body
  <2> HIDE DEF d, l, r, C
  <2>8. Sat(l) \in SatSets /\ Sat(r) \in SatSets /\ Sat(d) \in SatSets
    BY <2>4, <2>5, SatType DEF SatSets
  <2>9. CASE d = True
    <3>1. C = Sat(r)
      BY <2>6, <2>8, <2>9, SatConstants DEF IteSat, SatSets
    <3>2. QED
      BY <1>1, <1>2, <2>4, <2>7, <2>9, <3>1
  <2>10. CASE d = False
    <3>1. C = Sat(l)
      BY <2>6, <2>8, <2>10, SatConstants DEF IteSat, SatSets
    <3>2. QED
      BY <1>1, <1>2, <2>4, <2>7, <2>10, <3>1, ConstantFacts
  <2>11. CASE l = r
    <3>1. C = Sat(l)
      BY <2>6, <2>8, <2>11 DEF IteSat, SatSets
    <3>2. _compose_body(rec, a, s) = l
      BY <2>7, <2>11
    <3>3. QED
      BY <1>1, <1>2, <2>4, <3>1, <3>2
  <2>12. CASE /\ d # True /\ d # False /\ l # r
              /\ isVariable(d) /\ Above(l, var(d)) /\ Above(r, var(d))
    <3>1. PICK j \in Vars : d = find_var(j)
      BY <2>5, <2>12
    <3>2. var(d) = j
      BY <3>1, FindVar
    <3>3. find(j, l, r) \in BDD /\ Sat(find(j, l, r)) = C
      BY <2>4, <2>6, <2>12, <3>1, <3>2, FindIte
    <3>4. QED
      BY <1>1, <1>2, <2>7, <2>12, <3>2, <3>3
  <2>13. CASE /\ d # True /\ d # False /\ l # r
              /\ ~(isVariable(d) /\ Above(l, var(d)) /\ Above(r, var(d)))
    <3>1. ite(d, r, l) \in BDD /\ Sat(ite(d, r, l)) = C
      BY <2>4, <2>5, <2>6, IteMeaning
    <3>2. QED
      BY <1>1, <1>2, <2>7, <2>13, <3>1
  <2>14. QED
    BY <2>9, <2>10, <2>11, <2>12, <2>13
<1>5. QED
  BY <1>3, <1>4

\* _compose: the recursion has a solution, and it is the intended function.
LEMMA SubstSolved == \A p \in BDD \X Assocs : _compose_rec[p] = SubstOf[p]
<1> DEFINE S == BDD \X Assocs
           F == SubstOf
           Solves(g) == g = [p \in S |-> _compose_body(g, p[1], p[2])]
<1>1. Solves(F)
  <2>1. \A p \in S : _compose_body(F, p[1], p[2]) = F[p]
    BY SubstStep DEF AgreeBelow
  <2>2. F = [p \in S |-> F[p]]
    BY DEF SubstOf
  <2>3. QED
    BY <2>1, <2>2
<1>2. _compose_rec = CHOOSE g : Solves(g)
  BY Zenon DEF _compose_rec
<1>3. Solves(_compose_rec)
  BY <1>1, <1>2
<1>4. \A p \in S : AgreeBelow(S, Rank1(S), _compose_rec, F, p) => _compose_rec[p] = F[p]
  <2> SUFFICES ASSUME NEW p \in S, AgreeBelow(S, Rank1(S), _compose_rec, F, p)
               PROVE  _compose_rec[p] = F[p]
    OBVIOUS
  <2>1. _compose_rec[p] = _compose_body(_compose_rec, p[1], p[2])
    BY <1>3
  <2>2. _compose_body(_compose_rec, p[1], p[2]) = F[p]
    BY SubstStep
  <2>3. QED
    BY <2>1, <2>2
<1>5. \A p \in S : Rank1(S)[p] \in Nat
  BY RankTypes
<1>6. \A p \in S : _compose_rec[p] = F[p]
  <2> HIDE DEF S, F
  <2>1. QED
    BY <1>4, <1>5, Agreement
<1>7. QED
  BY <1>6

\* compose substitutes for all variables at once.
THEOREM SubstMeaning ==
  \A a \in BDD, s \in Assocs :
    compose(a, s) \in BDD /\ Sat(compose(a, s)) = ComposeSat(a, s)
<1> TAKE a \in BDD, s \in Assocs
<1>1. CASE isIdentity(s)
  <2>1. \A i \in Vars : dest(s, i) = find_var(i)
    BY <1>1 DEF isIdentity, dest, IsUnmapped, Assocs
  <2>2. ASSUME NEW v \in Valuations PROVE Under(v, s) = v
    <3>1. \A i \in Vars : Under(v, s)[i] <=> v[i]
      BY <2>1, UnderFacts, FindVar
    <3>2. QED
      BY <3>1, UnderFacts DEF Valuations
  <2>3. Sat(a) = ComposeSat(a, s)
    BY <2>2 DEF Sat, ComposeSat
  <2>4. QED
    BY <1>1, <2>3 DEF compose
<1>2. CASE ~isIdentity(s)
  <2>1. compose(a, s) = TreeOf(ComposeSat(a, s))
    BY <1>2, SubstSolved DEF compose, _compose, SubstOf
  <2>2. ComposeSat(a, s) \in SUBSET Valuations
    BY ComposeSatFacts DEF SatSets
  <2>3. QED
    BY <2>1, <2>2, TreeOfFacts
<1>3. QED
  BY <1>1, <1>2

-------------------------------------------------------------------------------
\* Operations whose result their operands' functions do not determine: the results
\* that the calls of lower rank return, whatever they are, are good ones.
GoodBelow(S, ranks, P, f, x) == \A y \in S : ranks[y] < ranks[x] => <<y, f[y]>> \in P

\* A recursion whose body is good whenever its calls are, and looks at smaller
\* operands only, has a solution, and every result of it is good.
LEMMA Solution ==
  ASSUME NEW S, NEW T, NEW ranks, NEW H, NEW P, NEW N \in Nat, T # {},
         \A x \in S : ranks[x] \in Nat /\ ranks[x] <= N,
         \A g \in [S -> T], x \in S : GoodBelow(S, ranks, P, g, x)
            => H[<<g, x>>] \in T /\ <<x, H[<<g, x>>]>> \in P,
         \A g, h \in [S -> T], x \in S : AgreeBelow(S, ranks, g, h, x) => H[<<g, x>>] = H[<<h, x>>]
  PROVE  Solvable(S, T, H, P)
<1>1. \A g \in [S -> T], x \in S :
        (\A y \in S : ranks[y] < ranks[x] => <<y, g[y]>> \in P)
           => H[<<g, x>>] \in T /\ <<x, H[<<g, x>>]>> \in P
  BY Zenon DEF GoodBelow
<1>2. \A g, h \in [S -> T], x \in S :
        (\A y \in S : ranks[y] < ranks[x] => g[y] = h[y] /\ <<y, g[y]>> \in P)
           => H[<<g, x>>] = H[<<h, x>>]
  BY Zenon DEF AgreeBelow
<1>3. Recursive(S, T, ranks, H, P)
  BY <1>1, <1>2, Zenon DEF Recursive
<1>4. QED
  BY <1>3, Recursion

\* Ranks of tuples are bounded by the number of variables.
LEMMA RankBounds ==
  /\ \A X : \A p \in BDD \X X : Rank1(BDD \X X)[p] \in Nat /\ Rank1(BDD \X X)[p] <= 3 * NumVars
  /\ \A p \in BDD \X BDD :
       Rank2(BDD \X BDD)[p] \in Nat /\ Rank2(BDD \X BDD)[p] <= 3 * NumVars
  /\ \A X, Y : \A p \in BDD \X X \X Y :
       Rank1(BDD \X X \X Y)[p] \in Nat /\ Rank1(BDD \X X \X Y)[p] <= 3 * NumVars
  /\ \A X, Y : \A p \in BDD \X BDD \X X \X Y :
       Rank2(BDD \X BDD \X X \X Y)[p] \in Nat /\ Rank2(BDD \X BDD \X X \X Y)[p] <= 3 * NumVars
  /\ \A X, Y : \A p \in BDD \X BDD \X BDD \X X \X Y :
       /\ Rank3(BDD \X BDD \X BDD \X X \X Y)[p] \in Nat
       /\ Rank3(BDD \X BDD \X BDD \X X \X Y)[p] <= 3 * NumVars
<1>1. \A a \in BDD : rank(a) \in Nat /\ rank(a) <= NumVars
  BY RankFacts, NumVarsAssumption
<1>2. QED
  BY <1>1, NumVarsAssumption DEF Rank1, Rank2, Rank3

\* The variables of a BDD.
Rank0(S) == [a \in S |-> rank(a)]

\* So are ranks of single operands.
LEMMA RankBound0 == \A a \in BDD : Rank0(BDD)[a] \in Nat /\ Rank0(BDD)[a] <= 3 * NumVars
BY RankFacts, NumVarsAssumption DEF Rank0

Support_body(rec, a) ==
  IF isConstant(a) THEN {} ELSE {var(a)} \cup rec[left(a)] \cup rec[right(a)]

SupportGood == BDD \X SUBSET Vars

\* The body of Support returns a good result when its calls do.
LEMMA SupportStep ==
  ASSUME NEW f, NEW a \in BDD, GoodBelow(BDD, Rank0(BDD), SupportGood, f, a)
  PROVE  <<a, Support_body(f, a)>> \in SupportGood /\ Support_body(f, a) \in SUBSET Vars
<1>1. CASE isConstant(a)
  BY <1>1 DEF Support_body, SupportGood
<1>2. CASE ~isConstant(a)
  <2>1. /\ var(a) \in Vars /\ left(a) \in BDD /\ right(a) \in BDD
        /\ rank(left(a)) < rank(a) /\ rank(right(a)) < rank(a)
    BY <1>2, NodeFacts
  <2>2. f[left(a)] \in SUBSET Vars /\ f[right(a)] \in SUBSET Vars
    BY <2>1 DEF GoodBelow, Rank0, SupportGood
  <2>3. QED
    BY <1>2, <2>1, <2>2 DEF Support_body, SupportGood
<1>3. QED
  BY <1>1, <1>2

\* The body of Support looks at smaller operands only.
LEMMA SupportLocal ==
  ASSUME NEW f, NEW g, NEW a \in BDD, AgreeBelow(BDD, Rank0(BDD), f, g, a)
  PROVE  Support_body(f, a) = Support_body(g, a)
<1>1. CASE isConstant(a)
  BY <1>1 DEF Support_body
<1>2. CASE ~isConstant(a)
  <2>1. /\ left(a) \in BDD /\ right(a) \in BDD
        /\ rank(left(a)) < rank(a) /\ rank(right(a)) < rank(a)
    BY <1>2, NodeFacts
  <2>2. f[left(a)] = g[left(a)] /\ f[right(a)] = g[right(a)]
    BY <2>1 DEF AgreeBelow, Rank0
  <2>3. QED
    BY <2>2 DEF Support_body
<1>3. QED
  BY <1>1, <1>2

\* Support: the recursion has a solution, and its results are good.
LEMMA SupportSolved ==
  \A p \in BDD : Support_rec[p] = Support_body(Support_rec, p) /\ <<p, Support_rec[p]>> \in SupportGood
<1> DEFINE S == BDD
           T == SUBSET Vars
           R == Rank0(BDD)
           H == [q \in [S -> T] \X S |-> Support_body(q[1], q[2])]
           Solves(g) == g = [p \in S |-> Support_body(g, p)]
<1>1. \A x \in S : R[x] \in Nat /\ R[x] <= 3 * NumVars
  BY RankBound0
<1>2. \A g \in [S -> T], x \in S : GoodBelow(S, R, SupportGood, g, x)
         => H[<<g, x>>] \in T /\ <<x, H[<<g, x>>]>> \in SupportGood
  <2> SUFFICES ASSUME NEW g \in [S -> T], NEW p \in S, GoodBelow(S, R, SupportGood, g, p)
               PROVE  H[<<g, p>>] \in T /\ <<p, H[<<g, p>>]>> \in SupportGood
    OBVIOUS
  <2>1. H[<<g, p>>] = Support_body(g, p)
    OBVIOUS
  <2>2. <<p, Support_body(g, p)>> \in SupportGood /\ Support_body(g, p) \in T
    BY SupportStep
  <2>3. QED
    BY <2>1, <2>2
<1>3. \A g, h \in [S -> T], x \in S : AgreeBelow(S, R, g, h, x) => H[<<g, x>>] = H[<<h, x>>]
  <2> SUFFICES ASSUME NEW g \in [S -> T], NEW h \in [S -> T], NEW p \in S,
                      AgreeBelow(S, R, g, h, p)
               PROVE  H[<<g, p>>] = H[<<h, p>>]
    OBVIOUS
  <2>1. H[<<g, p>>] = Support_body(g, p) /\ H[<<h, p>>] = Support_body(h, p)
    OBVIOUS
  <2>2. Support_body(g, p) = Support_body(h, p)
    BY SupportLocal
  <2>3. QED
    BY <2>1, <2>2
<1>4. T # {} /\ 3 * NumVars \in Nat
  BY ConstantFacts, NumVarsAssumption
<1>5. PICK f \in [S -> T] : \A x \in S : f[x] = H[<<f, x>>] /\ <<x, f[x]>> \in SupportGood
  <2> HIDE DEF S, T, R, H
  <2>1. Solvable(S, T, H, SupportGood)
    BY <1>1, <1>2, <1>3, <1>4, Solution
  <2>2. QED
    BY <2>1 DEF Solvable
<1>6. \A p \in S : f[p] = Support_body(f, p)
  BY <1>5
<1>7. Solves(f)
  <2>1. f = [p \in S |-> f[p]]
    OBVIOUS
  <2>2. QED
    BY <1>6, <2>1
<1>8. Support_rec = CHOOSE g : Solves(g)
  BY Zenon DEF Support_rec, Support_body
<1>9. Solves(Support_rec)
  BY <1>7, <1>8
<1>10. \A p \in S : Support_rec[p] = Support_body(Support_rec, p)
  BY <1>9
<1>11. \A p \in S : AgreeBelow(S, R, Support_rec, f, p) => Support_rec[p] = f[p]
  <2> SUFFICES ASSUME NEW p \in S, AgreeBelow(S, R, Support_rec, f, p)
               PROVE  Support_rec[p] = f[p]
    OBVIOUS
  <2>1. Support_body(Support_rec, p) = Support_body(f, p)
    BY SupportLocal
  <2>2. QED
    BY <1>6, <1>10, <2>1
<1>12. \A p \in S : Support_rec[p] = f[p]
  <2> HIDE DEF S, T, R
  <2>1. \A x \in S : R[x] \in Nat
    BY <1>1
  <2>2. QED
    BY <1>11, <2>1, Agreement
<1>13. QED
  BY <1>5, <1>10, <1>12

\* The support of a BDD, from the top.
LEMMA SupportFacts ==
  ASSUME NEW a \in BDD
  PROVE  /\ Support(a) \in SUBSET Vars
         /\ isConstant(a) => Support(a) = {}
         /\ ~isConstant(a) => Support(a) = {var(a)} \cup Support(left(a)) \cup Support(right(a))
BY SupportSolved DEF Support, Support_body, SupportGood

\* The top variable is the least one.
LEMMA SupportStartsAt ==
  ASSUME NEW a \in BDD, NEW m \in Int
  PROVE  /\ StartsAt(a, m) <=> \A i \in Support(a) : m <= i
         /\ Above(a, m) <=> \A i \in Support(a) : m < i
<1> DEFINE P == {b \in BDD : \A n \in Int : StartsAt(b, n) => \A i \in Support(b) : n <= i}
<1>1. ASSUME NEW b \in BDD, \A c \in BDD : Rank0(BDD)[c] < Rank0(BDD)[b] => c \in P
      PROVE  b \in P
  <2> SUFFICES ASSUME NEW n \in Int, StartsAt(b, n), NEW i \in Support(b) PROVE n <= i
    OBVIOUS
  <2>1. ~isConstant(b)
    BY SupportFacts
  <2>2. /\ var(b) \in Vars /\ left(b) \in BDD /\ right(b) \in BDD
        /\ rank(left(b)) < rank(b) /\ rank(right(b)) < rank(b)
    BY <2>1, NodeFacts
  <2>3. left(b) \in P /\ right(b) \in P
    BY <1>1, <2>2 DEF Rank0
  <2>4. n <= var(b) /\ StartsAt(left(b), n) /\ StartsAt(right(b), n)
    BY <2>1, <2>2, BDDElim, NumVarsAssumption DEF StartsAt, Above, IsNode, Vars
  <2>5. QED
    BY <2>1, <2>3, <2>4, SupportFacts
<1>2. \A b \in BDD : b \in P
  <2>1. \A b \in BDD : Rank0(BDD)[b] \in Nat
    BY RankBound0
  <2> HIDE DEF P
  <2>2. QED
    BY <1>1, <2>1, Induction
<1>3. ~isConstant(a) => var(a) \in Support(a) /\ var(a) \in Int
  BY SupportFacts, NodeFacts
<1>4. StartsAt(a, m) <=> \A i \in Support(a) : m <= i
  BY <1>2, <1>3 DEF StartsAt
<1>5. Above(a, m) <=> StartsAt(a, m + 1)
  BY <1>3 DEF Above, StartsAt
<1>6. Above(a, m) <=> \A i \in Support(a) : m < i
  <2>1. \A i \in Support(a) : i \in Int
    BY SupportFacts, NumVarsAssumption DEF Vars
  <2>2. StartsAt(a, m + 1) <=> \A i \in Support(a) : m + 1 <= i
    BY <1>2, <1>3 DEF StartsAt
  <2>3. QED
    BY <1>5, <2>1, <2>2
<1>7. QED
  BY <1>4, <1>6

\* What find adds.
LEMMA FindFacts ==
  ASSUME NEW m \in Vars, NEW l \in BDD, NEW r \in BDD, Above(l, m), Above(r, m)
  PROVE  /\ find(m, l, r) \in BDD /\ StartsAt(find(m, l, r), m)
         /\ Support(find(m, l, r)) \subseteq {m} \cup Support(l) \cup Support(r)
         /\ \A v \in Valuations :
              v \in Sat(find(m, l, r)) <=> IF v[m] THEN v \in Sat(r) ELSE v \in Sat(l)
<1> DEFINE a == find(m, l, r)
<1>1. a \in BDD /\ Sat(a) = IteSat(Sat(find_var(m)), Sat(r), Sat(l))
  BY FindIte
<1>2. \A v \in Valuations : v \in Sat(find_var(m)) <=> v[m]
  BY FindVar
<1>3. \A v \in Valuations : v \in Sat(a) <=> IF v[m] THEN v \in Sat(r) ELSE v \in Sat(l)
  BY <1>1, <1>2 DEF IteSat
<1>4. CASE l = r
  <2>1. a = l
    BY <1>4, BDDIntro
  <2>2. StartsAt(l, m)
    BY BDDElim, NumVarsAssumption DEF Above, StartsAt, IsNode, Vars
  <2>3. QED
    BY <1>1, <1>3, <2>1, <2>2
<1>5. CASE l # r
  <2>1. IsNode(a) /\ var(a) = m /\ left(a) = l /\ right(a) = r
    BY <1>5, BDDIntro
  <2> HIDE DEF a
  <2>2. StartsAt(a, m) /\ Support(a) = {m} \cup Support(l) \cup Support(r)
    BY <1>1, <2>1, BDDElim, SupportFacts, NumVarsAssumption DEF StartsAt, Vars
  <2>3. QED
    BY <1>1, <1>3, <2>2 DEF a
<1>6. QED
  BY <1>4, <1>5

-------------------------------------------------------------------------------
\* C agrees with A wherever B holds.
AgreeOn(C, A, B) == C \cap B = A \cap B

\* Such agreement follows from that of the cofactors.
LEMMA AgreeFacts ==
  ASSUME NEW A \in SatSets, NEW B \in SatSets, NEW C \in SatSets, NEW m \in Vars
  PROVE  /\ AgreeOn(A, A, B)
         /\ Low(B, m) = {} /\ AgreeOn(C, High(A, m), High(B, m)) => AgreeOn(C, A, B)
         /\ High(B, m) = {} /\ AgreeOn(C, Low(A, m), Low(B, m)) => AgreeOn(C, A, B)
         /\ AgreeOn(C, A, Low(B, m) \cup High(B, m)) => AgreeOn(C, A, B)
         /\ \A L, R \in SatSets :
              /\ AgreeOn(L, Low(A, m), Low(B, m)) /\ AgreeOn(R, High(A, m), High(B, m))
              /\ \A v \in Valuations : v \in C <=> IF v[m] THEN v \in R ELSE v \in L
              => AgreeOn(C, A, B)
<1>1. \A v \in Valuations : /\ v \in A <=> IF v[m] THEN v \in High(A, m) ELSE v \in Low(A, m)
                            /\ v \in B <=> IF v[m] THEN v \in High(B, m) ELSE v \in Low(B, m)
  BY LowHigh DEF SatSets
<1>2. /\ Low(A, m) \in SatSets /\ High(A, m) \in SatSets
      /\ Low(B, m) \in SatSets /\ High(B, m) \in SatSets
  BY LowHigh DEF SatSets
<1>3. Low(B, m) = {} /\ AgreeOn(C, High(A, m), High(B, m)) => AgreeOn(C, A, B)
  BY <1>1, <1>2 DEF AgreeOn, SatSets
<1>4. High(B, m) = {} /\ AgreeOn(C, Low(A, m), Low(B, m)) => AgreeOn(C, A, B)
  BY <1>1, <1>2 DEF AgreeOn, SatSets
<1>5. AgreeOn(C, A, Low(B, m) \cup High(B, m)) => AgreeOn(C, A, B)
  BY <1>1, <1>2 DEF AgreeOn, SatSets
<1>6. ASSUME NEW L \in SatSets, NEW R \in SatSets,
             AgreeOn(L, Low(A, m), Low(B, m)), AgreeOn(R, High(A, m), High(B, m)),
             \A v \in Valuations : v \in C <=> IF v[m] THEN v \in R ELSE v \in L
      PROVE  AgreeOn(C, A, B)
  <2>1. \A v \in Valuations : v \in B => (v \in C <=> v \in A)
    BY <1>1, <1>6 DEF AgreeOn
  <2>2. QED
    BY <2>1 DEF AgreeOn, SatSets
<1>7. QED
  BY <1>3, <1>4, <1>5, <1>6 DEF AgreeOn

\* A tree below a node has a smaller rank.
LEMMA RankAbove ==
  ASSUME NEW a \in BDD, NEW b \in BDD, ~isConstant(b), Above(a, var(b))
  PROVE  rank(a) < rank(b)
<1>1. var(b) \in Vars
  BY NodeFacts
<1>2. ~isConstant(a) => var(a) \in Vars
  BY NodeFacts
<1>3. QED
  BY <1>1, <1>2, NumVarsAssumption DEF rank, Above, Vars

\* simplify_assuming
SimplifyGood ==
  {q \in (BDD \X BDD) \X BDD :
     /\ AgreeOn(Sat(q[2]), Sat(q[1][1]), Sat(q[1][2]))
     /\ Support(q[2]) \subseteq Support(q[1][1])}

\* What makes a result of simplify_assuming good.
LEMMA SimplifyGoodFacts ==
  ASSUME NEW a \in BDD, NEW b \in BDD, NEW c
  PROVE  <<<<a, b>>, c>> \in SimplifyGood <=>
           c \in BDD /\ AgreeOn(Sat(c), Sat(a), Sat(b)) /\ Support(c) \subseteq Support(a)
BY DEF SimplifyGood

\* The body of simplify_assuming returns a good result when its calls do.
LEMMA SimplifyStep ==
  ASSUME NEW f, NEW p \in BDD \X BDD,
         GoodBelow(BDD \X BDD, Rank2(BDD \X BDD), SimplifyGood, f, p)
  PROVE  /\ <<p, simplify_assuming_body(f, p[1], p[2])>> \in SimplifyGood
         /\ simplify_assuming_body(f, p[1], p[2]) \in BDD
<1> PICK a \in BDD, b \in BDD : p = <<a, b>>
  OBVIOUS
<1> DEFINE c == simplify_assuming_body(f, a, b)
<1> SUFFICES c \in BDD /\ AgreeOn(Sat(c), Sat(a), Sat(b)) /\ Support(c) \subseteq Support(a)
  BY SimplifyGoodFacts
<1>1. Sat(a) \in SatSets /\ Sat(b) \in SatSets
  BY SatType DEF SatSets
<1>2. \A d, e \in BDD : rank(d) + rank(e) < rank(a) + rank(b) =>
        /\ f[<<d, e>>] \in BDD /\ AgreeOn(Sat(f[<<d, e>>]), Sat(d), Sat(e))
        /\ Support(f[<<d, e>>]) \subseteq Support(d)
  BY SimplifyGoodFacts DEF GoodBelow, Rank2
<1>3. CASE b = False
  <2>1. c = False /\ Support(c) = {} /\ Sat(b) = {}
    BY <1>3, ConstantFacts, SupportFacts, SatConstants DEF simplify_assuming_body
  <2>2. QED
    BY <2>1, ConstantFacts DEF AgreeOn
<1>4. CASE b # False /\ (b = True \/ isConstant(a))
  BY <1>4 DEF simplify_assuming_body, AgreeOn
<1>5. CASE b # False /\ b # True /\ ~isConstant(a) /\ var(a) > var(b)
  <2> DEFINE o == orop(left(b), right(b))
             n == var(b)
  <2>1. ~isConstant(b)
    BY <1>5, BDDElim
  <2>2. /\ n \in Vars /\ From(Sat(b), n) /\ left(b) \in BDD /\ right(b) \in BDD
        /\ Sat(left(b)) = Low(Sat(b), n) /\ Sat(right(b)) = High(Sat(b), n)
    BY <2>1, NodeFacts
  <2>3. o \in BDD /\ Sat(o) = Low(Sat(b), n) \cup High(Sat(b), n)
    BY <2>2, OrMeaning
  <2>4. From(Low(Sat(b), n), n + 1) /\ From(High(Sat(b), n), n + 1)
    BY <1>1, <2>2, CofactorTypes
  <2>5. From(Sat(o), n + 1)
    BY <2>3, <2>4, Zenon DEF From
  <2>6. Above(o, n)
    BY <2>2, <2>3, <2>5, AboveFrom
  <2>7. rank(o) < rank(b)
    BY <2>1, <2>3, <2>6, RankAbove
  <2>8. c = f[<<a, o>>]
    BY <1>5 DEF simplify_assuming_body
  <2>9. rank(a) \in Nat /\ rank(b) \in Nat /\ rank(o) \in Nat
    BY <2>3, RankFacts
  <2> HIDE DEF o, n, c
  <2>10. c \in BDD /\ AgreeOn(Sat(c), Sat(a), Sat(o)) /\ Support(c) \subseteq Support(a)
    <3>1. rank(a) + rank(o) < rank(a) + rank(b) /\ o \in BDD
      BY <2>3, <2>7, <2>9
    <3>2. QED
      BY <1>2, <2>8, <3>1, Zenon
  <2>11. Sat(c) \in SatSets
    BY <2>10, SatType DEF SatSets
  <2>12. AgreeOn(Sat(c), Sat(a), Sat(b))
    BY <1>1, <2>2, <2>3, <2>10, <2>11, AgreeFacts
  <2>13. QED
    BY <2>10, <2>12
<1>6. CASE b # False /\ b # True /\ ~isConstant(a) /\ ~(var(a) > var(b))
  <2>0. PICK m : m = var(a)
    OBVIOUS
  <2>1. ~isConstant(b) /\ var(a) \in Vars /\ var(b) \in Vars
    BY <1>6, BDDElim, NodeFacts
  <2>2. m = minVar(a, b)
    BY <1>6, <2>0, <2>1, NumVarsAssumption DEF minVar, Vars
  <2>3. /\ m \in Vars
        /\ cf_left(a, m) \in BDD /\ cf_left(b, m) \in BDD
        /\ cf_right(a, m) \in BDD /\ cf_right(b, m) \in BDD
        /\ Sat(cf_left(a, m)) = Low(Sat(a), m) /\ Sat(cf_left(b, m)) = Low(Sat(b), m)
        /\ Sat(cf_right(a, m)) = High(Sat(a), m) /\ Sat(cf_right(b, m)) = High(Sat(b), m)
        /\ rank(cf_left(a, m)) + rank(cf_left(b, m)) < rank(a) + rank(b)
        /\ rank(cf_right(a, m)) + rank(cf_right(b, m)) < rank(a) + rank(b)
    BY <1>6, <2>2, MinVarFacts
  <2>4. cf_left(a, m) = left(a) /\ cf_right(a, m) = right(a)
    BY <2>0 DEF cf_left, cf_right
  <2> DEFINE l == f[<<left(a), cf_left(b, m)>>]
             r == f[<<right(a), cf_right(b, m)>>]
  <2>5. /\ l \in BDD /\ AgreeOn(Sat(l), Low(Sat(a), m), Low(Sat(b), m))
        /\ Support(l) \subseteq Support(left(a))
        /\ r \in BDD /\ AgreeOn(Sat(r), High(Sat(a), m), High(Sat(b), m))
        /\ Support(r) \subseteq Support(right(a))
    BY <1>2, <2>3, <2>4
  <2>6. Support(a) = {m} \cup Support(left(a)) \cup Support(right(a))
    BY <1>6, <2>0, SupportFacts
  <2>7. Sat(l) \in SatSets /\ Sat(r) \in SatSets
    BY <2>5, SatType DEF SatSets
  <2>8. c = IF cf_left(b, m) = False THEN r
            ELSE IF cf_right(b, m) = False THEN l ELSE find(m, l, r)
    <3>1. Shannon(f, a, b) = find(m, l, r)
      BY <2>2, <2>4 DEF Shannon
    <3>2. QED
      BY <1>6, <2>0, <3>1 DEF simplify_assuming_body
  <2> HIDE DEF l, r, c
  <2>9. CASE cf_left(b, m) = False
    <3>1. Low(Sat(b), m) = {}
      BY <2>3, <2>9, SatConstants
    <3>2. AgreeOn(Sat(r), Sat(a), Sat(b))
      BY <1>1, <2>3, <2>5, <2>7, <3>1, AgreeFacts
    <3>3. QED
      BY <2>5, <2>6, <2>8, <2>9, <3>2
  <2>10. CASE cf_left(b, m) # False /\ cf_right(b, m) = False
    <3>1. High(Sat(b), m) = {}
      BY <2>3, <2>10, SatConstants
    <3>2. AgreeOn(Sat(l), Sat(a), Sat(b))
      BY <1>1, <2>3, <2>5, <2>7, <3>1, AgreeFacts
    <3>3. QED
      BY <2>5, <2>6, <2>8, <2>10, <3>2
  <2>11. CASE cf_left(b, m) # False /\ cf_right(b, m) # False
    <3>1. Above(left(a), m) /\ Above(right(a), m)
      BY <1>6, <2>0, BDDElim DEF IsNode
    <3>2. m \in Int
      BY <2>3, NumVarsAssumption DEF Vars
    <3>3. Above(l, m) /\ Above(r, m)
      BY <2>3, <2>4, <2>5, <3>1, <3>2, SupportStartsAt
    <3>4. /\ find(m, l, r) \in BDD
          /\ Support(find(m, l, r)) \subseteq {m} \cup Support(l) \cup Support(r)
          /\ \A v \in Valuations :
               v \in Sat(find(m, l, r)) <=> IF v[m] THEN v \in Sat(r) ELSE v \in Sat(l)
      BY <2>3, <2>5, <3>3, FindFacts
    <3>5. c = find(m, l, r)
      BY <2>8, <2>11
    <3>6. Sat(c) \in SatSets
      BY <3>4, <3>5, SatType DEF SatSets
    <3>7. AgreeOn(Sat(c), Sat(a), Sat(b))
      <4>1. \A v \in Valuations :
              v \in Sat(c) <=> IF v[m] THEN v \in Sat(r) ELSE v \in Sat(l)
        BY <3>4, <3>5
      <4>2. QED
        BY <1>1, <2>3, <2>5, <2>7, <3>6, <4>1, AgreeFacts
    <3>8. QED
      BY <2>5, <2>6, <3>4, <3>5, <3>7
  <2>12. QED
    BY <2>9, <2>10, <2>11
<1>7. QED
  BY <1>3, <1>4, <1>5, <1>6

\* The body of simplify_assuming looks at smaller operands only.
LEMMA SimplifyLocal ==
  ASSUME NEW f, NEW g, NEW p \in BDD \X BDD,
         AgreeBelow(BDD \X BDD, Rank2(BDD \X BDD), f, g, p)
  PROVE  simplify_assuming_body(f, p[1], p[2]) = simplify_assuming_body(g, p[1], p[2])
<1> PICK a \in BDD, b \in BDD : p = <<a, b>>
  OBVIOUS
<1>2. \A d, e \in BDD : rank(d) + rank(e) < rank(a) + rank(b) => f[<<d, e>>] = g[<<d, e>>]
  BY DEF AgreeBelow, Rank2
<1>3. CASE b = False \/ b = True \/ isConstant(a)
  BY <1>3 DEF simplify_assuming_body
<1>5. CASE b # False /\ b # True /\ ~isConstant(a) /\ var(a) > var(b)
  <2> DEFINE o == orop(left(b), right(b))
             n == var(b)
  <2>1. ~isConstant(b)
    BY <1>5, BDDElim
  <2>2. /\ n \in Vars /\ From(Sat(b), n) /\ left(b) \in BDD /\ right(b) \in BDD
        /\ Sat(left(b)) = Low(Sat(b), n) /\ Sat(right(b)) = High(Sat(b), n)
    BY <2>1, NodeFacts
  <2>3. o \in BDD /\ Sat(o) = Low(Sat(b), n) \cup High(Sat(b), n)
    BY <2>2, OrMeaning
  <2>4. From(Low(Sat(b), n), n + 1) /\ From(High(Sat(b), n), n + 1)
    BY <2>2, SatType, CofactorTypes DEF SatSets
  <2>5. From(Sat(o), n + 1)
    BY <2>3, <2>4, Zenon DEF From
  <2>6. Above(o, n)
    BY <2>2, <2>3, <2>5, AboveFrom
  <2>7. rank(o) < rank(b)
    BY <2>1, <2>3, <2>6, RankAbove
  <2>9. rank(a) \in Nat /\ rank(b) \in Nat /\ rank(o) \in Nat
    BY <2>3, RankFacts
  <2>10. f[<<a, o>>] = g[<<a, o>>]
    BY <1>2, <2>3, <2>7, <2>9
  <2>11. QED
    BY <1>5, <2>10 DEF simplify_assuming_body
<1>6. CASE b # False /\ b # True /\ ~isConstant(a) /\ ~(var(a) > var(b))
  <2>0. PICK m : m = var(a)
    OBVIOUS
  <2>1. ~isConstant(b) /\ var(a) \in Vars /\ var(b) \in Vars
    BY <1>6, BDDElim, NodeFacts
  <2>2. m = minVar(a, b)
    BY <1>6, <2>0, <2>1, NumVarsAssumption DEF minVar, Vars
  <2>3. /\ cf_left(a, m) \in BDD /\ cf_left(b, m) \in BDD
        /\ cf_right(a, m) \in BDD /\ cf_right(b, m) \in BDD
        /\ rank(cf_left(a, m)) + rank(cf_left(b, m)) < rank(a) + rank(b)
        /\ rank(cf_right(a, m)) + rank(cf_right(b, m)) < rank(a) + rank(b)
    BY <1>6, <2>2, MinVarFacts
  <2>4. cf_left(a, m) = left(a) /\ cf_right(a, m) = right(a)
    BY <2>0 DEF cf_left, cf_right
  <2>5. /\ f[<<left(a), cf_left(b, m)>>] = g[<<left(a), cf_left(b, m)>>]
        /\ f[<<right(a), cf_right(b, m)>>] = g[<<right(a), cf_right(b, m)>>]
    BY <1>2, <2>3, <2>4
  <2>6. Shannon(f, a, b) = Shannon(g, a, b)
    BY <2>2, <2>4, <2>5 DEF Shannon
  <2>7. QED
    BY <1>6, <2>0, <2>5, <2>6 DEF simplify_assuming_body
<1>7. QED
  BY <1>3, <1>5, <1>6

\* simplify_assuming: the recursion has a solution, and its results are good.
LEMMA SimplifySolved ==
  \A p \in BDD \X BDD : simplify_assuming_rec[p] = simplify_assuming_body(simplify_assuming_rec, p[1], p[2]) /\ <<p, simplify_assuming_rec[p]>> \in SimplifyGood
<1> DEFINE S == BDD \X BDD
           T == BDD
           R == Rank2(BDD \X BDD)
           H == [q \in [S -> T] \X S |-> simplify_assuming_body(q[1], q[2][1], q[2][2])]
           Solves(g) == g = [p \in S |-> simplify_assuming_body(g, p[1], p[2])]
<1>1. \A x \in S : R[x] \in Nat /\ R[x] <= 3 * NumVars
  BY RankBounds
<1>2. \A g \in [S -> T], x \in S : GoodBelow(S, R, SimplifyGood, g, x)
         => H[<<g, x>>] \in T /\ <<x, H[<<g, x>>]>> \in SimplifyGood
  <2> SUFFICES ASSUME NEW g \in [S -> T], NEW p \in S, GoodBelow(S, R, SimplifyGood, g, p)
               PROVE  H[<<g, p>>] \in T /\ <<p, H[<<g, p>>]>> \in SimplifyGood
    OBVIOUS
  <2>1. H[<<g, p>>] = simplify_assuming_body(g, p[1], p[2])
    OBVIOUS
  <2>2. <<p, simplify_assuming_body(g, p[1], p[2])>> \in SimplifyGood /\ simplify_assuming_body(g, p[1], p[2]) \in T
    BY SimplifyStep
  <2>3. QED
    BY <2>1, <2>2
<1>3. \A g, h \in [S -> T], x \in S : AgreeBelow(S, R, g, h, x) => H[<<g, x>>] = H[<<h, x>>]
  <2> SUFFICES ASSUME NEW g \in [S -> T], NEW h \in [S -> T], NEW p \in S,
                      AgreeBelow(S, R, g, h, p)
               PROVE  H[<<g, p>>] = H[<<h, p>>]
    OBVIOUS
  <2>1. H[<<g, p>>] = simplify_assuming_body(g, p[1], p[2]) /\ H[<<h, p>>] = simplify_assuming_body(h, p[1], p[2])
    OBVIOUS
  <2>2. simplify_assuming_body(g, p[1], p[2]) = simplify_assuming_body(h, p[1], p[2])
    BY SimplifyLocal
  <2>3. QED
    BY <2>1, <2>2
<1>4. T # {} /\ 3 * NumVars \in Nat
  BY ConstantFacts, NumVarsAssumption
<1>5. PICK f \in [S -> T] : \A x \in S : f[x] = H[<<f, x>>] /\ <<x, f[x]>> \in SimplifyGood
  <2> HIDE DEF S, T, R, H
  <2>1. Solvable(S, T, H, SimplifyGood)
    BY <1>1, <1>2, <1>3, <1>4, Solution
  <2>2. QED
    BY <2>1 DEF Solvable
<1>6. \A p \in S : f[p] = simplify_assuming_body(f, p[1], p[2])
  BY <1>5
<1>7. Solves(f)
  <2>1. f = [p \in S |-> f[p]]
    OBVIOUS
  <2>2. QED
    BY <1>6, <2>1
<1>8. simplify_assuming_rec = CHOOSE g : Solves(g)
  BY Zenon DEF simplify_assuming_rec
<1>9. Solves(simplify_assuming_rec)
  BY <1>7, <1>8
<1>10. \A p \in S : simplify_assuming_rec[p] = simplify_assuming_body(simplify_assuming_rec, p[1], p[2])
  BY <1>9
<1>11. \A p \in S : AgreeBelow(S, R, simplify_assuming_rec, f, p) => simplify_assuming_rec[p] = f[p]
  <2> SUFFICES ASSUME NEW p \in S, AgreeBelow(S, R, simplify_assuming_rec, f, p)
               PROVE  simplify_assuming_rec[p] = f[p]
    OBVIOUS
  <2>1. simplify_assuming_body(simplify_assuming_rec, p[1], p[2]) = simplify_assuming_body(f, p[1], p[2])
    BY SimplifyLocal
  <2>2. QED
    BY <1>6, <1>10, <2>1
<1>12. \A p \in S : simplify_assuming_rec[p] = f[p]
  <2> HIDE DEF S, T, R
  <2>1. \A x \in S : R[x] \in Nat
    BY <1>1
  <2>2. QED
    BY <1>11, <2>1, Agreement
<1>13. QED
  BY <1>5, <1>10, <1>12

\* simplify_assuming agrees with its first operand where the second one holds, and
\* mentions no variable that the first one does not.
THEOREM SimplifyMeaning ==
  ASSUME NEW a \in BDD, NEW b \in BDD
  PROVE  /\ simplify_assuming(a, b) \in BDD
         /\ Sat(simplify_assuming(a, b)) \cap Sat(b) = Sat(a) \cap Sat(b)
         /\ Support(simplify_assuming(a, b)) \subseteq Support(a)
BY SimplifySolved, SimplifyGoodFacts DEF simplify_assuming, AgreeOn

\* cofactor
CofactorGood ==
  {q \in (BDD \X BDD) \X BDD :
     /\ AgreeOn(Sat(q[2]), Sat(q[1][1]), Sat(q[1][2]))
     /\ \A k \in Vars : Above(q[1][1], k) /\ Above(q[1][2], k) => Above(q[2], k)}

\* What makes a result of cofactor good.
LEMMA CofactorGoodFacts ==
  ASSUME NEW a \in BDD, NEW b \in BDD, NEW c
  PROVE  <<<<a, b>>, c>> \in CofactorGood <=>
           /\ c \in BDD /\ AgreeOn(Sat(c), Sat(a), Sat(b))
           /\ \A k \in Vars : Above(a, k) /\ Above(b, k) => Above(c, k)
BY DEF CofactorGood

\* The body of cofactor returns a good result when its calls do.
LEMMA CofactorStep ==
  ASSUME NEW f, NEW p \in BDD \X BDD,
         GoodBelow(BDD \X BDD, Rank2(BDD \X BDD), CofactorGood, f, p)
  PROVE  /\ <<p, cofactor_body(f, p[1], p[2])>> \in CofactorGood
         /\ cofactor_body(f, p[1], p[2]) \in BDD
<1> PICK a \in BDD, b \in BDD : p = <<a, b>>
  OBVIOUS
<1> DEFINE c == cofactor_body(f, a, b)
<1> SUFFICES /\ c \in BDD /\ AgreeOn(Sat(c), Sat(a), Sat(b))
             /\ \A k \in Vars : Above(a, k) /\ Above(b, k) => Above(c, k)
  BY CofactorGoodFacts
<1>1. Sat(a) \in SatSets /\ Sat(b) \in SatSets
  BY SatType DEF SatSets
<1>2. \A d, e \in BDD : rank(d) + rank(e) < rank(a) + rank(b) =>
        /\ f[<<d, e>>] \in BDD /\ AgreeOn(Sat(f[<<d, e>>]), Sat(d), Sat(e))
        /\ \A k \in Vars : Above(d, k) /\ Above(e, k) => Above(f[<<d, e>>], k)
  <2> TAKE d \in BDD, e \in BDD
  <2> HAVE rank(d) + rank(e) < rank(a) + rank(b)
  <2>1. <<<<d, e>>, f[<<d, e>>]>> \in CofactorGood
    BY DEF GoodBelow, Rank2
  <2>2. QED
    BY <2>1, CofactorGoodFacts
<1>3. CASE b = False
  <2>1. c = False /\ Sat(b) = {}
    BY <1>3, SatConstants DEF cofactor_body
  <2>2. QED
    BY <2>1, ConstantFacts DEF AgreeOn, Above
<1>4. CASE b # False /\ (b = True \/ isConstant(a))
  BY <1>4 DEF cofactor_body, AgreeOn
<1>6. CASE b # False /\ b # True /\ ~isConstant(a)
  <2>0. PICK m : m = minVar(a, b)
    OBVIOUS
  <2>3. /\ m \in Vars /\ StartsAt(a, m) /\ StartsAt(b, m)
        /\ cf_left(a, m) \in BDD /\ cf_left(b, m) \in BDD
        /\ cf_right(a, m) \in BDD /\ cf_right(b, m) \in BDD
        /\ Sat(cf_left(a, m)) = Low(Sat(a), m) /\ Sat(cf_left(b, m)) = Low(Sat(b), m)
        /\ Sat(cf_right(a, m)) = High(Sat(a), m) /\ Sat(cf_right(b, m)) = High(Sat(b), m)
        /\ rank(cf_left(a, m)) + rank(cf_left(b, m)) < rank(a) + rank(b)
        /\ rank(cf_right(a, m)) + rank(cf_right(b, m)) < rank(a) + rank(b)
    BY <1>6, <2>0, MinVarFacts
  <2>4. /\ Above(cf_left(a, m), m) /\ Above(cf_right(a, m), m)
        /\ Above(cf_left(b, m), m) /\ Above(cf_right(b, m), m)
    BY <2>3, CofactorFacts
  <2> DEFINE l == f[<<cf_left(a, m), cf_left(b, m)>>]
             r == f[<<cf_right(a, m), cf_right(b, m)>>]
  <2>5. /\ l \in BDD /\ AgreeOn(Sat(l), Low(Sat(a), m), Low(Sat(b), m)) /\ Above(l, m)
        /\ r \in BDD /\ AgreeOn(Sat(r), High(Sat(a), m), High(Sat(b), m)) /\ Above(r, m)
    BY <1>2, <2>3, <2>4
  <2>7. Sat(l) \in SatSets /\ Sat(r) \in SatSets
    BY <2>5, SatType DEF SatSets
  <2>8. c = IF cf_left(b, m) = False THEN r
            ELSE IF cf_right(b, m) = False THEN l ELSE find(m, l, r)
    <3>1. Shannon(f, a, b) = find(m, l, r)
      BY <2>0 DEF Shannon
    <3>2. QED
      BY <1>6, <2>0, <3>1 DEF cofactor_body
  <2>6. ASSUME NEW k \in Vars, Above(a, k), Above(b, k), NEW d \in BDD, StartsAt(d, m)
        PROVE  Above(d, k)
    <3>1. k < m
      <4>1. m = var(a) \/ (m = var(b) /\ ~isConstant(b))
        BY <1>6, <2>0, Zenon DEF minVar
      <4>2. QED
        BY <1>6, <2>6, <4>1 DEF Above
    <3>2. ~isConstant(d) => var(d) \in Vars
      BY NodeFacts
    <3>3. QED
      BY <2>3, <2>6, <3>1, <3>2, NumVarsAssumption DEF StartsAt, Above, Vars
  <2>9. StartsAt(l, m) /\ StartsAt(r, m)
    <3>1. \A d \in BDD : Above(d, m) => StartsAt(d, m)
      BY <2>3, NodeFacts, NumVarsAssumption DEF Above, StartsAt, Vars
    <3>2. QED
      BY <2>5, <3>1
  <2> HIDE DEF l, r, c
  <2>10. CASE cf_left(b, m) = False
    <3>1. Low(Sat(b), m) = {}
      BY <2>3, <2>10, SatConstants
    <3>2. AgreeOn(Sat(r), Sat(a), Sat(b))
      BY <1>1, <2>3, <2>5, <2>7, <3>1, AgreeFacts
    <3>3. QED
      BY <2>5, <2>6, <2>8, <2>9, <2>10, <3>2
  <2>11. CASE cf_left(b, m) # False /\ cf_right(b, m) = False
    <3>1. High(Sat(b), m) = {}
      BY <2>3, <2>11, SatConstants
    <3>2. AgreeOn(Sat(l), Sat(a), Sat(b))
      BY <1>1, <2>3, <2>5, <2>7, <3>1, AgreeFacts
    <3>3. QED
      BY <2>5, <2>6, <2>8, <2>9, <2>11, <3>2
  <2>12. CASE cf_left(b, m) # False /\ cf_right(b, m) # False
    <3>4. /\ find(m, l, r) \in BDD /\ StartsAt(find(m, l, r), m)
          /\ \A v \in Valuations :
               v \in Sat(find(m, l, r)) <=> IF v[m] THEN v \in Sat(r) ELSE v \in Sat(l)
      BY <2>3, <2>5, FindFacts
    <3>5. c = find(m, l, r)
      BY <2>8, <2>12
    <3>6. Sat(c) \in SatSets
      BY <3>4, <3>5, SatType DEF SatSets
    <3>7. AgreeOn(Sat(c), Sat(a), Sat(b))
      BY <1>1, <2>3, <2>5, <2>7, <3>4, <3>5, <3>6, AgreeFacts
    <3>8. QED
      BY <2>6, <3>4, <3>5, <3>7
  <2>13. QED
    BY <2>10, <2>11, <2>12
<1>7. QED
  BY <1>3, <1>4, <1>6

\* The body of cofactor looks at smaller operands only.
LEMMA CofactorLocal ==
  ASSUME NEW f, NEW g, NEW p \in BDD \X BDD,
         AgreeBelow(BDD \X BDD, Rank2(BDD \X BDD), f, g, p)
  PROVE  cofactor_body(f, p[1], p[2]) = cofactor_body(g, p[1], p[2])
<1> PICK a \in BDD, b \in BDD : p = <<a, b>>
  OBVIOUS
<1>2. \A d, e \in BDD : rank(d) + rank(e) < rank(a) + rank(b) => f[<<d, e>>] = g[<<d, e>>]
  BY DEF AgreeBelow, Rank2
<1>3. CASE b = False \/ b = True \/ isConstant(a)
  BY <1>3 DEF cofactor_body
<1>6. CASE b # False /\ b # True /\ ~isConstant(a)
  <2>0. PICK m : m = minVar(a, b)
    OBVIOUS
  <2>3. /\ cf_left(a, m) \in BDD /\ cf_left(b, m) \in BDD
        /\ cf_right(a, m) \in BDD /\ cf_right(b, m) \in BDD
        /\ rank(cf_left(a, m)) + rank(cf_left(b, m)) < rank(a) + rank(b)
        /\ rank(cf_right(a, m)) + rank(cf_right(b, m)) < rank(a) + rank(b)
    BY <1>6, <2>0, MinVarFacts
  <2>5. /\ f[<<cf_left(a, m), cf_left(b, m)>>] = g[<<cf_left(a, m), cf_left(b, m)>>]
        /\ f[<<cf_right(a, m), cf_right(b, m)>>] = g[<<cf_right(a, m), cf_right(b, m)>>]
    BY <1>2, <2>3
  <2>6. Shannon(f, a, b) = Shannon(g, a, b)
    BY <2>0, <2>5 DEF Shannon
  <2>7. QED
    BY <1>6, <2>0, <2>5, <2>6 DEF cofactor_body
<1>7. QED
  BY <1>3, <1>6

\* cofactor: the recursion has a solution, and its results are good.
LEMMA CofactorSolved ==
  \A p \in BDD \X BDD : cofactor_rec[p] = cofactor_body(cofactor_rec, p[1], p[2]) /\ <<p, cofactor_rec[p]>> \in CofactorGood
<1> DEFINE S == BDD \X BDD
           T == BDD
           R == Rank2(BDD \X BDD)
           H == [q \in [S -> T] \X S |-> cofactor_body(q[1], q[2][1], q[2][2])]
           Solves(g) == g = [p \in S |-> cofactor_body(g, p[1], p[2])]
<1>1. \A x \in S : R[x] \in Nat /\ R[x] <= 3 * NumVars
  BY RankBounds
<1>2. \A g \in [S -> T], x \in S : GoodBelow(S, R, CofactorGood, g, x)
         => H[<<g, x>>] \in T /\ <<x, H[<<g, x>>]>> \in CofactorGood
  <2> SUFFICES ASSUME NEW g \in [S -> T], NEW p \in S, GoodBelow(S, R, CofactorGood, g, p)
               PROVE  H[<<g, p>>] \in T /\ <<p, H[<<g, p>>]>> \in CofactorGood
    OBVIOUS
  <2>1. H[<<g, p>>] = cofactor_body(g, p[1], p[2])
    OBVIOUS
  <2>2. <<p, cofactor_body(g, p[1], p[2])>> \in CofactorGood /\ cofactor_body(g, p[1], p[2]) \in T
    BY CofactorStep
  <2>3. QED
    BY <2>1, <2>2
<1>3. \A g, h \in [S -> T], x \in S : AgreeBelow(S, R, g, h, x) => H[<<g, x>>] = H[<<h, x>>]
  <2> SUFFICES ASSUME NEW g \in [S -> T], NEW h \in [S -> T], NEW p \in S,
                      AgreeBelow(S, R, g, h, p)
               PROVE  H[<<g, p>>] = H[<<h, p>>]
    OBVIOUS
  <2>1. H[<<g, p>>] = cofactor_body(g, p[1], p[2]) /\ H[<<h, p>>] = cofactor_body(h, p[1], p[2])
    OBVIOUS
  <2>2. cofactor_body(g, p[1], p[2]) = cofactor_body(h, p[1], p[2])
    BY CofactorLocal
  <2>3. QED
    BY <2>1, <2>2
<1>4. T # {} /\ 3 * NumVars \in Nat
  BY ConstantFacts, NumVarsAssumption
<1>5. PICK f \in [S -> T] : \A x \in S : f[x] = H[<<f, x>>] /\ <<x, f[x]>> \in CofactorGood
  <2> HIDE DEF S, T, R, H
  <2>1. Solvable(S, T, H, CofactorGood)
    BY <1>1, <1>2, <1>3, <1>4, Solution
  <2>2. QED
    BY <2>1 DEF Solvable
<1>6. \A p \in S : f[p] = cofactor_body(f, p[1], p[2])
  BY <1>5
<1>7. Solves(f)
  <2>1. f = [p \in S |-> f[p]]
    OBVIOUS
  <2>2. QED
    BY <1>6, <2>1
<1>8. cofactor_rec = CHOOSE g : Solves(g)
  BY Zenon DEF cofactor_rec
<1>9. Solves(cofactor_rec)
  BY <1>7, <1>8
<1>10. \A p \in S : cofactor_rec[p] = cofactor_body(cofactor_rec, p[1], p[2])
  BY <1>9
<1>11. \A p \in S : AgreeBelow(S, R, cofactor_rec, f, p) => cofactor_rec[p] = f[p]
  <2> SUFFICES ASSUME NEW p \in S, AgreeBelow(S, R, cofactor_rec, f, p)
               PROVE  cofactor_rec[p] = f[p]
    OBVIOUS
  <2>1. cofactor_body(cofactor_rec, p[1], p[2]) = cofactor_body(f, p[1], p[2])
    BY CofactorLocal
  <2>2. QED
    BY <1>6, <1>10, <2>1
<1>12. \A p \in S : cofactor_rec[p] = f[p]
  <2> HIDE DEF S, T, R
  <2>1. \A x \in S : R[x] \in Nat
    BY <1>1
  <2>2. QED
    BY <1>11, <2>1, Agreement
<1>13. QED
  BY <1>5, <1>10, <1>12

\* cofactor agrees with its first operand where the second one holds.
THEOREM CofactorMeaning ==
  ASSUME NEW a \in BDD, NEW b \in BDD
  PROVE  cofactor(a, b) \in BDD /\ Sat(cofactor(a, b)) \cap Sat(b) = Sat(a) \cap Sat(b)
BY CofactorSolved, CofactorGoodFacts DEF cofactor, AgreeOn

-------------------------------------------------------------------------------
\* extract
ExtractGood ==
  {q \in BDD \X BDD :
     /\ Sat(q[2]) \subseteq Sat(q[1])
     /\ q[2] = False => q[1] = False
     /\ \A k \in Vars : Above(q[1], k) => Above(q[2], k)}

\* What makes a result of extract good.
LEMMA ExtractGoodFacts ==
  ASSUME NEW a \in BDD, NEW c
  PROVE  <<a, c>> \in ExtractGood <=>
           /\ c \in BDD /\ Sat(c) \subseteq Sat(a) /\ (c = False => a = False)
           /\ \A k \in Vars : Above(a, k) => Above(c, k)
BY DEF ExtractGood

\* A node of parts of the children, one of which is left.
LEMMA ExtractNode ==
  ASSUME NEW a \in BDD, ~isConstant(a), NEW l \in BDD, NEW r \in BDD,
         l = False \/ <<left(a), l>> \in ExtractGood,
         r = False \/ <<right(a), r>> \in ExtractGood,
         l # False \/ r # False
  PROVE  <<a, find(var(a), l, r)>> \in ExtractGood
<1>0. PICK m : m = var(a)
  OBVIOUS
<1>1. /\ m \in Vars /\ left(a) \in BDD /\ right(a) \in BDD
      /\ Sat(left(a)) = Low(Sat(a), m) /\ Sat(right(a)) = High(Sat(a), m)
  BY <1>0, NodeFacts
<1>2. Above(left(a), m) /\ Above(right(a), m)
  BY <1>0, BDDElim DEF IsNode
<1>3. /\ Sat(l) \subseteq Low(Sat(a), m) /\ Above(l, m)
      /\ Sat(r) \subseteq High(Sat(a), m) /\ Above(r, m)
  BY <1>1, <1>2, ExtractGoodFacts, SatConstants, ConstantFacts DEF Above
<1> DEFINE c == find(m, l, r)
<1>4. /\ c \in BDD /\ StartsAt(c, m)
      /\ \A v \in Valuations : v \in Sat(c) <=> IF v[m] THEN v \in Sat(r) ELSE v \in Sat(l)
  BY <1>1, <1>3, FindFacts
<1>5. c = False => FALSE
  BY <1>1, <1>3, BDDIntro, BDDElim
<1> HIDE DEF c
<1>6. Sat(c) \subseteq Sat(a)
  <2>1. \A v \in Valuations :
          v \in Sat(a) <=> IF v[m] THEN v \in High(Sat(a), m) ELSE v \in Low(Sat(a), m)
    BY <1>1, SatType, LowHigh
  <2>2. Sat(c) \in SUBSET Valuations
    BY <1>4, SatType
  <2>3. QED
    BY <1>3, <1>4, <2>1, <2>2
<1>7. \A k \in Vars : Above(a, k) => Above(c, k)
  <2> SUFFICES ASSUME NEW k \in Vars, Above(a, k) PROVE Above(c, k)
    OBVIOUS
  <2>1. k < m
    BY <1>0 DEF Above
  <2>2. ~isConstant(c) => var(c) \in Vars
    BY <1>4, NodeFacts
  <2>3. QED
    BY <1>1, <1>4, <2>1, <2>2, NumVarsAssumption DEF StartsAt, Above, Vars
<1>8. QED
  BY <1>0, <1>4, <1>5, <1>6, <1>7, ExtractGoodFacts DEF c

\* The body of extract returns a good result when its calls do.
LEMMA ExtractStep ==
  ASSUME NEW f, NEW a \in BDD, GoodBelow(BDD, Rank0(BDD), ExtractGood, f, a)
  PROVE  <<a, extract_body(f, a)>> \in ExtractGood /\ extract_body(f, a) \in BDD
<1> SUFFICES <<a, extract_body(f, a)>> \in ExtractGood
  BY ExtractGoodFacts
<1>1. CASE isConstant(a)
  BY <1>1, ExtractGoodFacts DEF extract_body
<1>2. CASE ~isConstant(a)
  <2> DEFINE l == left(a)
             r == right(a)
  <2>1. l \in BDD /\ r \in BDD /\ rank(l) < rank(a) /\ rank(r) < rank(a) /\ l # r
    BY <1>2, NodeFacts
  <2>2. <<l, f[l]>> \in ExtractGood /\ <<r, f[r]>> \in ExtractGood
    BY <2>1 DEF GoodBelow, Rank0
  <2>3. /\ f[l] \in BDD /\ f[r] \in BDD
        /\ f[l] = False => l = False
        /\ f[r] = False => r = False
    BY <2>1, <2>2, ExtractGoodFacts
  <2>4. <<True, True>> \in ExtractGood /\ True # False /\ True \in BDD /\ False \in BDD
    BY ConstantFacts, ExtractGoodFacts
  <2>5. extract_body(f, a) \in
          {find(var(a), q[1], q[2]) :
             q \in {d \in BDD \X BDD :
                      /\ d[1] = False \/ <<l, d[1]>> \in ExtractGood
                      /\ d[2] = False \/ <<r, d[2]>> \in ExtractGood
                      /\ d[1] # False \/ d[2] # False}}
    <3> DEFINE Pairs == {d \in BDD \X BDD :
                      /\ d[1] = False \/ <<l, d[1]>> \in ExtractGood
                      /\ d[2] = False \/ <<r, d[2]>> \in ExtractGood
                      /\ d[1] # False \/ d[2] # False}
    <3>1. \A x, y \in BDD : /\ x = False \/ <<l, x>> \in ExtractGood
                            /\ y = False \/ <<r, y>> \in ExtractGood
                            /\ x # False \/ y # False
                            => <<x, y>> \in Pairs
      OBVIOUS
    <3>2. \E q \in Pairs : extract_body(f, a) = find(var(a), q[1], q[2])
      <4>1. CASE l = True
        <5>1. <<l, False>> \in Pairs
          BY <2>1, <2>4, <3>1, <4>1
        <5>2. extract_body(f, a) = find(var(a), l, False)
          BY <1>2, <4>1 DEF extract_body
        <5> HIDE DEF Pairs
        <5>3. QED
          BY <5>1, <5>2
      <4>2. CASE l # True /\ r = True
        <5>1. <<False, r>> \in Pairs
          BY <2>1, <2>4, <3>1, <4>2
        <5>2. extract_body(f, a) = find(var(a), False, r)
          BY <1>2, <4>2 DEF extract_body
        <5> HIDE DEF Pairs
        <5>3. QED
          BY <5>1, <5>2
      <4>3. CASE l # True /\ r # True /\ (l = False \/ (r # False /\ var(l) < var(r)))
        <5>1. r # False
          BY <2>1, <4>3
        <5>2. <<False, f[r]>> \in Pairs
          BY <2>1, <2>2, <2>3, <2>4, <3>1, <5>1
        <5>3. extract_body(f, a) = find(var(a), False, f[r])
          BY <1>2, <4>3 DEF extract_body
        <5> HIDE DEF Pairs
        <5>4. QED
          BY <5>2, <5>3
      <4>4. CASE l # True /\ r # True /\ l # False /\ (r = False \/ ~(var(l) < var(r)))
        <5>2. <<f[l], False>> \in Pairs
          BY <2>1, <2>2, <2>3, <2>4, <3>1, <4>4
        <5>3. extract_body(f, a) = find(var(a), f[l], False)
          BY <1>2, <4>4 DEF extract_body
        <5> HIDE DEF Pairs
        <5>4. QED
          BY <5>2, <5>3
      <4>5. QED
        BY <4>1, <4>2, <4>3, <4>4
    <3>3. QED
      BY <3>2
  <2>6. PICK x \in BDD, y \in BDD :
          /\ x = False \/ <<l, x>> \in ExtractGood
          /\ y = False \/ <<r, y>> \in ExtractGood
          /\ x # False \/ y # False
          /\ extract_body(f, a) = find(var(a), x, y)
    BY <2>5
  <2>7. QED
    BY <1>2, <2>6, ExtractNode
<1>3. QED
  BY <1>1, <1>2

\* The body of extract looks at smaller operands only.
LEMMA ExtractLocal ==
  ASSUME NEW f, NEW g, NEW a \in BDD, AgreeBelow(BDD, Rank0(BDD), f, g, a)
  PROVE  extract_body(f, a) = extract_body(g, a)
<1>1. CASE isConstant(a)
  BY <1>1 DEF extract_body
<1>2. CASE ~isConstant(a)
  <2>1. /\ left(a) \in BDD /\ right(a) \in BDD
        /\ rank(left(a)) < rank(a) /\ rank(right(a)) < rank(a)
    BY <1>2, NodeFacts
  <2>2. f[left(a)] = g[left(a)] /\ f[right(a)] = g[right(a)]
    BY <2>1 DEF AgreeBelow, Rank0
  <2>3. QED
    BY <1>2, <2>2 DEF extract_body
<1>3. QED
  BY <1>1, <1>2

\* extract: the recursion has a solution, and its results are good.
LEMMA ExtractSolved ==
  \A p \in BDD : extract_rec[p] = extract_body(extract_rec, p) /\ <<p, extract_rec[p]>> \in ExtractGood
<1> DEFINE S == BDD
           T == BDD
           R == Rank0(BDD)
           H == [q \in [S -> T] \X S |-> extract_body(q[1], q[2])]
           Solves(g) == g = [p \in S |-> extract_body(g, p)]
<1>1. \A x \in S : R[x] \in Nat /\ R[x] <= 3 * NumVars
  BY RankBound0
<1>2. \A g \in [S -> T], x \in S : GoodBelow(S, R, ExtractGood, g, x)
         => H[<<g, x>>] \in T /\ <<x, H[<<g, x>>]>> \in ExtractGood
  <2> SUFFICES ASSUME NEW g \in [S -> T], NEW p \in S, GoodBelow(S, R, ExtractGood, g, p)
               PROVE  H[<<g, p>>] \in T /\ <<p, H[<<g, p>>]>> \in ExtractGood
    OBVIOUS
  <2>1. H[<<g, p>>] = extract_body(g, p)
    OBVIOUS
  <2>2. <<p, extract_body(g, p)>> \in ExtractGood /\ extract_body(g, p) \in T
    BY ExtractStep
  <2>3. QED
    BY <2>1, <2>2
<1>3. \A g, h \in [S -> T], x \in S : AgreeBelow(S, R, g, h, x) => H[<<g, x>>] = H[<<h, x>>]
  <2> SUFFICES ASSUME NEW g \in [S -> T], NEW h \in [S -> T], NEW p \in S,
                      AgreeBelow(S, R, g, h, p)
               PROVE  H[<<g, p>>] = H[<<h, p>>]
    OBVIOUS
  <2>1. H[<<g, p>>] = extract_body(g, p) /\ H[<<h, p>>] = extract_body(h, p)
    OBVIOUS
  <2>2. extract_body(g, p) = extract_body(h, p)
    BY ExtractLocal
  <2>3. QED
    BY <2>1, <2>2
<1>4. T # {} /\ 3 * NumVars \in Nat
  BY ConstantFacts, NumVarsAssumption
<1>5. PICK f \in [S -> T] : \A x \in S : f[x] = H[<<f, x>>] /\ <<x, f[x]>> \in ExtractGood
  <2> HIDE DEF S, T, R, H
  <2>1. Solvable(S, T, H, ExtractGood)
    BY <1>1, <1>2, <1>3, <1>4, Solution
  <2>2. QED
    BY <2>1 DEF Solvable
<1>6. \A p \in S : f[p] = extract_body(f, p)
  BY <1>5
<1>7. Solves(f)
  <2>1. f = [p \in S |-> f[p]]
    OBVIOUS
  <2>2. QED
    BY <1>6, <2>1
<1>8. extract_rec = CHOOSE g : Solves(g)
  BY Zenon DEF extract_rec
<1>9. Solves(extract_rec)
  BY <1>7, <1>8
<1>10. \A p \in S : extract_rec[p] = extract_body(extract_rec, p)
  BY <1>9
<1>11. \A p \in S : AgreeBelow(S, R, extract_rec, f, p) => extract_rec[p] = f[p]
  <2> SUFFICES ASSUME NEW p \in S, AgreeBelow(S, R, extract_rec, f, p)
               PROVE  extract_rec[p] = f[p]
    OBVIOUS
  <2>1. extract_body(extract_rec, p) = extract_body(f, p)
    BY ExtractLocal
  <2>2. QED
    BY <1>6, <1>10, <2>1
<1>12. \A p \in S : extract_rec[p] = f[p]
  <2> HIDE DEF S, T, R
  <2>1. \A x \in S : R[x] \in Nat
    BY <1>1
  <2>2. QED
    BY <1>11, <2>1, Agreement
<1>13. QED
  BY <1>5, <1>10, <1>12

\* extract returns a BDD below its operand that is not empty unless that one is.
THEOREM ExtractMeaning ==
  ASSUME NEW a \in BDD
  PROVE  /\ extract(a) \in BDD /\ Sat(extract(a)) \subseteq Sat(a)
         /\ Sat(a) # {} => Sat(extract(a)) # {}
<1> DEFINE c == extract(a)
<1>1. c \in BDD /\ Sat(c) \subseteq Sat(a) /\ (c = False => a = False)
  BY ExtractSolved, ExtractGoodFacts DEF extract
<1>2. Sat(c) = {} => c = False
  <2> HIDE DEF c
  <2>1. QED
    BY <1>1, Canonicity, SatConstants, ConstantFacts
<1>3. QED
  BY <1>1, <1>2, SatConstants

\* onecube
OneCubeSat(w, xs) == {v \in Valuations : \A i \in xs : v[i] = w[i]}

OnecubeGood ==
  {q \in (BDD \X Cubes) \X BDD :
     /\ \A k \in Vars : Above(q[1][2], k) => Above(q[2], k)
     /\ Support(q[1][1]) \subseteq VarsOf(q[1][2]) /\ q[1][1] # False =>
          \E w \in Sat(q[1][1]) : Sat(q[2]) = OneCubeSat(w, VarsOf(q[1][2]))}

\* What makes a result of onecube good.
LEMMA OnecubeGoodFacts ==
  ASSUME NEW a \in BDD, NEW x \in Cubes, NEW c
  PROVE  <<<<a, x>>, c>> \in OnecubeGood <=>
           /\ c \in BDD
           /\ \A k \in Vars : Above(x, k) => Above(c, k)
           /\ Support(a) \subseteq VarsOf(x) /\ a # False =>
                \E w \in Sat(a) : Sat(c) = OneCubeSat(w, VarsOf(x))
BY DEF OnecubeGood

\* And those of an operand with a cube.
LEMMA CubeRankBounds ==
  \A p \in BDD \X Cubes :
    Rank2(BDD \X Cubes)[p] \in Nat /\ Rank2(BDD \X Cubes)[p] <= 3 * NumVars
<1>1. \A x \in BDD : rank(x) \in Nat /\ rank(x) <= NumVars
  BY RankFacts, NumVarsAssumption
<1>2. \A x \in Cubes : x \in BDD
  BY CubeElim
<1>3. QED
  BY <1>1, <1>2, NumVarsAssumption DEF Rank2

\* One more variable of the cube.
LEMMA OneCubeAdd ==
  ASSUME NEW w \in Valuations, NEW m \in Vars, NEW X \in SUBSET Vars, m \in X,
         NEW b \in BOOLEAN, NEW v \in Valuations
  PROVE  v \in OneCubeSat([w EXCEPT ![m] = b], X)
           <=> v[m] = b /\ v \in OneCubeSat(w, X \ {m})
<1>1. [w EXCEPT ![m] = b][m] = b /\ \A i \in Vars : i # m => [w EXCEPT ![m] = b][i] = w[i]
  BY DEF Valuations
<1>2. QED
  BY <1>1 DEF OneCubeSat

\* The body of onecube returns a good result when its calls do.
LEMMA OnecubeStep ==
  ASSUME NEW f, NEW p \in BDD \X Cubes,
         GoodBelow(BDD \X Cubes, Rank2(BDD \X Cubes), OnecubeGood, f, p)
  PROVE  /\ <<p, onecube_body(f, p[1], p[2])>> \in OnecubeGood
         /\ onecube_body(f, p[1], p[2]) \in BDD
<1> PICK a \in BDD, x \in Cubes : p = <<a, x>>
  OBVIOUS
<1> DEFINE c == onecube_body(f, a, x)
<1> SUFFICES <<<<a, x>>, c>> \in OnecubeGood
  BY OnecubeGoodFacts
<1>1. CASE isConstant(x)
  <2>1. x = True /\ VarsOf(x) = {}
    BY <1>1, CubeElim, BDDElim
  <2>2. c = True /\ Sat(c) = Valuations
    BY <1>1, SatConstants DEF onecube_body
  <2>3. \A w : OneCubeSat(w, {}) = Valuations
    BY DEF OneCubeSat
  <2>4. Support(a) \subseteq {} => isConstant(a)
    BY SupportFacts
  <2>5. a = True => \E w : w \in Sat(a)
    <3>1. [i \in Vars |-> TRUE] \in Valuations
      BY DEF Valuations
    <3>2. QED
      BY <3>1, SatConstants
  <2>6. isConstant(a) => a = True \/ a = False
    BY BDDElim
  <2> HIDE DEF c
  <2>7. Support(a) \subseteq VarsOf(x) /\ a # False =>
          \E w \in Sat(a) : Sat(c) = OneCubeSat(w, VarsOf(x))
    BY <2>1, <2>2, <2>3, <2>4, <2>5, <2>6
  <2>8. c \in BDD /\ \A k \in Vars : Above(c, k)
    BY <2>2, ConstantFacts DEF Above
  <2>9. QED
    BY <2>7, <2>8, OnecubeGoodFacts, Zenon
<1>2. CASE ~isConstant(x)
  <2> DEFINE m == var(x)
             X == VarsOf(x)
             y == right(x)
  <2>1. /\ x \in BDD /\ X \in SUBSET Vars /\ m \in X /\ m \in Vars /\ y \in Cubes
        /\ VarsOf(y) = X \ {m} /\ rank(y) < rank(x) /\ y \in BDD
        /\ (\A i \in X : m <= i) /\ Above(y, m) /\ IsNode(x)
    <3>1. x # True
      BY <1>2, ConstantFacts
    <3>2. QED
      BY <3>1, CubeElim DEF IsNode
  <2>2. ASSUME NEW d \in BDD, rank(d) <= rank(a)
        PROVE  /\ f[<<d, y>>] \in BDD /\ Above(f[<<d, y>>], m)
               /\ Support(d) \subseteq X \ {m} /\ d # False =>
                    \E w \in Sat(d) : Sat(f[<<d, y>>]) = OneCubeSat(w, X \ {m})
    <3>1. rank(a) \in Nat /\ rank(d) \in Nat /\ rank(x) \in Nat /\ rank(y) \in Nat
      BY <2>1, RankFacts
    <3>2. rank(d) + rank(y) < rank(a) + rank(x)
      BY <2>1, <2>2, <3>1
    <3>3. <<<<d, y>>, f[<<d, y>>]>> \in OnecubeGood
      BY <2>1, <3>2 DEF GoodBelow, Rank2
    <3> HIDE DEF y, m, X
    <3>4. /\ f[<<d, y>>] \in BDD
          /\ \A k \in Vars : Above(y, k) => Above(f[<<d, y>>], k)
          /\ Support(d) \subseteq VarsOf(y) /\ d # False =>
               \E w \in Sat(d) : Sat(f[<<d, y>>]) = OneCubeSat(w, VarsOf(y))
      BY <2>1, <3>3, OnecubeGoodFacts, Zenon
    <3>5. QED
      BY <2>1, <3>4, Zenon
  <2>3. ASSUME NEW l \in BDD, NEW r \in BDD, Above(l, m), Above(r, m)
        PROVE  /\ find(m, l, r) \in BDD
               /\ \A k \in Vars : Above(x, k) => Above(find(m, l, r), k)
               /\ \A v \in Valuations : v \in Sat(find(m, l, r))
                                          <=> IF v[m] THEN v \in Sat(r) ELSE v \in Sat(l)
    <3> DEFINE z == find(m, l, r)
    <3>1. /\ z \in BDD /\ StartsAt(z, m)
          /\ \A v \in Valuations : v \in Sat(z)
                                     <=> IF v[m] THEN v \in Sat(r) ELSE v \in Sat(l)
      BY <2>1, <2>3, FindFacts
    <3>2. ~isConstant(z) => var(z) \in Vars
      BY <3>1, NodeFacts
    <3> HIDE DEF z
    <3>3. \A k \in Vars : Above(x, k) => Above(z, k)
      BY <1>2, <2>1, <3>1, <3>2, NumVarsAssumption DEF StartsAt, Above, Vars
    <3>4. QED
      BY <3>1, <3>3 DEF z
  <2>4. ASSUME NEW d \in BDD, NEW b \in BOOLEAN, NEW l \in BDD, NEW r \in BDD,
               rank(d) <= rank(a), c = find(m, l, r),
               <<l, r>> = IF b THEN <<False, f[<<d, y>>]>> ELSE <<f[<<d, y>>], False>>,
               Support(a) \subseteq X /\ a # False =>
                 /\ Support(d) \subseteq X \ {m} /\ d # False
                 /\ \A w \in Sat(d) : [w EXCEPT ![m] = b] \in Sat(a)
        PROVE  <<<<a, x>>, c>> \in OnecubeGood
    <3>1. /\ f[<<d, y>>] \in BDD /\ Above(f[<<d, y>>], m)
          /\ Support(d) \subseteq X \ {m} /\ d # False =>
               \E w \in Sat(d) : Sat(f[<<d, y>>]) = OneCubeSat(w, X \ {m})
      BY <2>2, <2>4
    <3>2. Above(l, m) /\ Above(r, m)
      BY <2>4, <3>1, ConstantFacts DEF Above
    <3>3. /\ c \in BDD /\ \A k \in Vars : Above(x, k) => Above(c, k)
          /\ \A v \in Valuations : v \in Sat(c) <=> IF v[m] THEN v \in Sat(r) ELSE v \in Sat(l)
      BY <2>3, <2>4, <3>2
    <3>4. ASSUME Support(a) \subseteq X, a # False
          PROVE  \E w \in Sat(a) : Sat(c) = OneCubeSat(w, X)
      <4>1. PICK w \in Sat(d) : Sat(f[<<d, y>>]) = OneCubeSat(w, X \ {m})
        BY <2>4, <3>1, <3>4
      <4>2. w \in Valuations /\ [w EXCEPT ![m] = b] \in Sat(a)
        BY <2>4, <3>4, SatType
      <4> DEFINE W == [w EXCEPT ![m] = b]
                 e == f[<<d, y>>]
      <4>3. \A v \in Valuations : v \in OneCubeSat(W, X) <=> v[m] = b /\ v \in Sat(e)
        BY <2>1, <4>1, <4>2, OneCubeAdd
      <4>4. \A v \in Valuations : v \in Sat(c) <=> v[m] = b /\ v \in Sat(e)
        <5>1. \A v \in Valuations : v[m] \in BOOLEAN
          BY <2>1 DEF Valuations
        <5>2. CASE b = TRUE
          BY <2>4, <3>3, <5>1, <5>2, SatConstants
        <5>3. CASE b = FALSE
          BY <2>4, <3>3, <5>1, <5>3, SatConstants
        <5>4. QED
          BY <5>2, <5>3
      <4>5. Sat(c) \subseteq Valuations /\ OneCubeSat(W, X) \subseteq Valuations
        BY <3>3, SatType DEF OneCubeSat
      <4> HIDE DEF W, e, c
      <4>6. Sat(c) = OneCubeSat(W, X)
        BY <4>3, <4>4, <4>5
      <4>7. QED
        BY <4>2, <4>6 DEF W
    <3> HIDE DEF c, m, X, y
    <3>5. QED
      BY <3>3, <3>4, OnecubeGoodFacts DEF X
  <2>5. rank(a) \in Nat
    BY RankFacts
  <2>6. m \in Int
    BY <2>1, NumVarsAssumption DEF Vars
  <2>7. Sat(a) \in SUBSET Valuations
    BY SatType
  <2>8. CASE Above(a, m)
    <3>1. c = find(m, False, f[<<a, y>>])
      BY <1>2, <2>8 DEF onecube_body
    <3>2. f[<<a, y>>] \in BDD /\ rank(a) <= rank(a)
      BY <2>2, <2>5
    <3>3. Support(a) \subseteq X => Support(a) \subseteq X \ {m}
      BY <2>6, <2>8, SupportStartsAt
    <3>4. \A w \in Sat(a) : [w EXCEPT ![m] = TRUE] \in Sat(a)
      <4>1. StartsAt(a, m + 1)
        <5>1. ~isConstant(a) => var(a) \in Int
          BY NodeFacts
        <5>2. QED
          BY <2>6, <2>8, <5>1 DEF Above, StartsAt
      <4>2. From(Sat(a), m + 1)
        BY <2>6, <4>1, SatFrom
      <4>3. High(Sat(a), m) = Sat(a)
        BY <2>1, <2>7, <4>2, LowHigh
      <4>4. QED
        BY <4>3 DEF High
    <3> HIDE DEF c, m, X, y
    <3>5. QED
      BY <2>4, <3>1, <3>2, <3>3, <3>4, ConstantFacts
  <2>9. CASE ~Above(a, m)
    <3>1. ~isConstant(a)
      BY <2>9 DEF Above
    <3>2. /\ var(a) \in Vars /\ var(a) \in Int /\ left(a) \in BDD /\ right(a) \in BDD
          /\ left(a) # right(a)
          /\ rank(left(a)) < rank(a) /\ rank(right(a)) < rank(a)
          /\ Sat(left(a)) = Low(Sat(a), var(a)) /\ Sat(right(a)) = High(Sat(a), var(a))
      BY <3>1, NodeFacts
    <3>3. rank(left(a)) \in Nat /\ rank(right(a)) \in Nat
      BY <3>2, RankFacts
    <3>4. Support(a) = {var(a)} \cup Support(left(a)) \cup Support(right(a))
      BY <3>1, SupportFacts
    <3>5. Support(a) \subseteq X => var(a) = m
      BY <2>1, <2>6, <2>9, <3>1, <3>2, <3>4 DEF Above
    <3>6. var(a) = m => m \notin Support(left(a)) /\ m \notin Support(right(a))
      <4>1. Above(left(a), var(a)) /\ Above(right(a), var(a))
        BY <3>1, BDDElim DEF IsNode
      <4>2. (\A i \in Support(left(a)) : var(a) < i) /\ (\A i \in Support(right(a)) : var(a) < i)
        BY <3>2, <4>1, SupportStartsAt
      <4>3. QED
        BY <2>6, <3>2, <4>2
    <3>7. Support(a) \subseteq X =>
            /\ Support(left(a)) \subseteq X \ {m} /\ Support(right(a)) \subseteq X \ {m}
            /\ \A w \in Sat(left(a)) : [w EXCEPT ![m] = FALSE] \in Sat(a)
            /\ \A w \in Sat(right(a)) : [w EXCEPT ![m] = TRUE] \in Sat(a)
      BY <3>2, <3>4, <3>5, <3>6 DEF Low, High
    <3>8. rank(left(a)) <= rank(a) /\ rank(right(a)) <= rank(a)
      BY <2>5, <3>2, <3>3
    <3>9. f[<<left(a), y>>] \in BDD /\ f[<<right(a), y>>] \in BDD
      BY <2>2, <3>2, <3>8
    <3>10. c = IF left(a) # False THEN find(m, f[<<left(a), y>>], False)
               ELSE find(m, False, f[<<right(a), y>>])
      BY <1>2, <2>9 DEF onecube_body
    <3> HIDE DEF c, m, X, y
    <3>11. CASE left(a) # False
      BY <2>4, <3>2, <3>7, <3>8, <3>9, <3>10, <3>11, ConstantFacts
    <3>12. CASE left(a) = False
      BY <2>4, <3>2, <3>7, <3>8, <3>9, <3>10, <3>12, ConstantFacts
    <3>13. QED
      BY <3>11, <3>12
  <2>10. QED
    BY <2>8, <2>9
<1>3. QED
  BY <1>1, <1>2

\* The body of onecube looks at smaller operands only.
LEMMA OnecubeLocal ==
  ASSUME NEW f, NEW g, NEW p \in BDD \X Cubes,
         AgreeBelow(BDD \X Cubes, Rank2(BDD \X Cubes), f, g, p)
  PROVE  onecube_body(f, p[1], p[2]) = onecube_body(g, p[1], p[2])
<1> PICK a \in BDD, x \in Cubes : p = <<a, x>>
  OBVIOUS
<1>1. CASE isConstant(x)
  BY <1>1 DEF onecube_body
<1>2. CASE ~isConstant(x)
  <2>1. x \in BDD /\ right(x) \in Cubes /\ right(x) \in BDD /\ rank(right(x)) < rank(x)
    <3>1. x # True
      BY <1>2, ConstantFacts
    <3>2. QED
      BY <3>1, CubeElim
  <2>2. \A d \in BDD : rank(d) <= rank(a) => f[<<d, right(x)>>] = g[<<d, right(x)>>]
    <3> SUFFICES ASSUME NEW d \in BDD, rank(d) <= rank(a)
                 PROVE  f[<<d, right(x)>>] = g[<<d, right(x)>>]
      OBVIOUS
    <3>1. /\ rank(a) \in Nat /\ rank(d) \in Nat /\ rank(x) \in Nat /\ rank(right(x)) \in Nat
      BY <2>1, RankFacts
    <3>2. rank(d) + rank(right(x)) < rank(a) + rank(x)
      BY <2>1, <3>1
    <3>3. QED
      BY <2>1, <3>2 DEF AgreeBelow, Rank2
  <2>3. rank(a) \in Nat
    BY RankFacts
  <2>4. CASE Above(a, var(x))
    BY <1>2, <2>2, <2>3, <2>4 DEF onecube_body
  <2>5. CASE ~Above(a, var(x))
    <3>1. ~isConstant(a)
      BY <2>5 DEF Above
    <3>2. /\ left(a) \in BDD /\ right(a) \in BDD
          /\ rank(left(a)) < rank(a) /\ rank(right(a)) < rank(a)
      BY <3>1, NodeFacts
    <3>3. rank(left(a)) <= rank(a) /\ rank(right(a)) <= rank(a)
      BY <2>3, <3>2, RankFacts
    <3>4. QED
      BY <1>2, <2>2, <2>5, <3>2, <3>3 DEF onecube_body
  <2>6. QED
    BY <2>4, <2>5
<1>3. QED
  BY <1>1, <1>2

\* onecube: the recursion has a solution, and its results are good.
LEMMA OnecubeSolved ==
  \A p \in BDD \X Cubes : onecube_rec[p] = onecube_body(onecube_rec, p[1], p[2]) /\ <<p, onecube_rec[p]>> \in OnecubeGood
<1> DEFINE S == BDD \X Cubes
           T == BDD
           R == Rank2(BDD \X Cubes)
           H == [q \in [S -> T] \X S |-> onecube_body(q[1], q[2][1], q[2][2])]
           Solves(g) == g = [p \in S |-> onecube_body(g, p[1], p[2])]
<1>1. \A x \in S : R[x] \in Nat /\ R[x] <= 3 * NumVars
  BY CubeRankBounds
<1>2. \A g \in [S -> T], x \in S : GoodBelow(S, R, OnecubeGood, g, x)
         => H[<<g, x>>] \in T /\ <<x, H[<<g, x>>]>> \in OnecubeGood
  <2> SUFFICES ASSUME NEW g \in [S -> T], NEW p \in S, GoodBelow(S, R, OnecubeGood, g, p)
               PROVE  H[<<g, p>>] \in T /\ <<p, H[<<g, p>>]>> \in OnecubeGood
    OBVIOUS
  <2>1. H[<<g, p>>] = onecube_body(g, p[1], p[2])
    OBVIOUS
  <2>2. <<p, onecube_body(g, p[1], p[2])>> \in OnecubeGood /\ onecube_body(g, p[1], p[2]) \in T
    BY OnecubeStep
  <2>3. QED
    BY <2>1, <2>2
<1>3. \A g, h \in [S -> T], x \in S : AgreeBelow(S, R, g, h, x) => H[<<g, x>>] = H[<<h, x>>]
  <2> SUFFICES ASSUME NEW g \in [S -> T], NEW h \in [S -> T], NEW p \in S,
                      AgreeBelow(S, R, g, h, p)
               PROVE  H[<<g, p>>] = H[<<h, p>>]
    OBVIOUS
  <2>1. H[<<g, p>>] = onecube_body(g, p[1], p[2]) /\ H[<<h, p>>] = onecube_body(h, p[1], p[2])
    OBVIOUS
  <2>2. onecube_body(g, p[1], p[2]) = onecube_body(h, p[1], p[2])
    BY OnecubeLocal
  <2>3. QED
    BY <2>1, <2>2
<1>4. T # {} /\ 3 * NumVars \in Nat
  BY ConstantFacts, NumVarsAssumption
<1>5. PICK f \in [S -> T] : \A x \in S : f[x] = H[<<f, x>>] /\ <<x, f[x]>> \in OnecubeGood
  <2> HIDE DEF S, T, R, H
  <2>1. Solvable(S, T, H, OnecubeGood)
    BY <1>1, <1>2, <1>3, <1>4, Solution
  <2>2. QED
    BY <2>1 DEF Solvable
<1>6. \A p \in S : f[p] = onecube_body(f, p[1], p[2])
  BY <1>5
<1>7. Solves(f)
  <2>1. f = [p \in S |-> f[p]]
    OBVIOUS
  <2>2. QED
    BY <1>6, <2>1
<1>8. onecube_rec = CHOOSE g : Solves(g)
  BY Zenon DEF onecube_rec
<1>9. Solves(onecube_rec)
  BY <1>7, <1>8
<1>10. \A p \in S : onecube_rec[p] = onecube_body(onecube_rec, p[1], p[2])
  BY <1>9
<1>11. \A p \in S : AgreeBelow(S, R, onecube_rec, f, p) => onecube_rec[p] = f[p]
  <2> SUFFICES ASSUME NEW p \in S, AgreeBelow(S, R, onecube_rec, f, p)
               PROVE  onecube_rec[p] = f[p]
    OBVIOUS
  <2>1. onecube_body(onecube_rec, p[1], p[2]) = onecube_body(f, p[1], p[2])
    BY OnecubeLocal
  <2>2. QED
    BY <1>6, <1>10, <2>1
<1>12. \A p \in S : onecube_rec[p] = f[p]
  <2> HIDE DEF S, T, R
  <2>1. \A x \in S : R[x] \in Nat
    BY <1>1
  <2>2. QED
    BY <1>11, <2>1, Agreement
<1>13. QED
  BY <1>5, <1>10, <1>12

\* onecube returns one assignment to the variables of the set that satisfies its
\* operand, if the set has all variables of the operand.
THEOREM OnecubeMeaning ==
  ASSUME NEW a \in BDD, NEW x \in Cubes
  PROVE  /\ onecube(a, x) \in BDD
         /\ Support(a) \subseteq VarsOf(x) /\ a # False =>
              \E w \in Sat(a) :
                Sat(onecube(a, x)) = {v \in Valuations : \A i \in VarsOf(x) : v[i] = w[i]}
<1>1. <<<<a, x>>, onecube(a, x)>> \in OnecubeGood
  BY OnecubeSolved DEF onecube
<1>2. /\ onecube(a, x) \in BDD
      /\ Support(a) \subseteq VarsOf(x) /\ a # False =>
           \E w \in Sat(a) : Sat(onecube(a, x)) = OneCubeSat(w, VarsOf(x))
  BY <1>1, OnecubeGoodFacts, Zenon
<1>3. QED
  BY <1>2, Zenon DEF OneCubeSat

-------------------------------------------------------------------------------
\* Substitutions done inside a quantifier.

\* A BDD looks at the variables that it mentions only.
LEMMA SupportHolds ==
  ASSUME NEW a \in BDD, NEW v \in Valuations, NEW w \in Valuations,
         \A i \in Support(a) : v[i] = w[i]
  PROVE  v \in Sat(a) <=> w \in Sat(a)
<1> DEFINE P == {b \in BDD : (\A i \in Support(b) : v[i] = w[i]) => Holds(b, v) = Holds(b, w)}
<1>1. ASSUME NEW b \in BDD, \A c \in BDD : Rank0(BDD)[c] < Rank0(BDD)[b] => c \in P
      PROVE  b \in P
  <2> SUFFICES ASSUME \A i \in Support(b) : v[i] = w[i]
               PROVE  Holds(b, v) = Holds(b, w)
    OBVIOUS
  <2>1. CASE isConstant(b)
    BY <2>1, BDDElim, HoldsFacts
  <2>2. CASE ~isConstant(b)
    <3>1. IsNode(b) /\ left(b) \in BDD /\ right(b) \in BDD
      BY <2>2, BDDElim DEF IsNode
    <3>2. Support(b) = {var(b)} \cup Support(left(b)) \cup Support(right(b))
      BY <2>2, SupportFacts
    <3>3. left(b) \in P /\ right(b) \in P
      BY <1>1, <3>1, RankFacts DEF Rank0
    <3>4. Holds(left(b), v) = Holds(left(b), w) /\ Holds(right(b), v) = Holds(right(b), w)
      BY <3>2, <3>3
    <3>5. /\ Holds(b, v) = IF v[var(b)] THEN Holds(right(b), v) ELSE Holds(left(b), v)
          /\ Holds(b, w) = IF w[var(b)] THEN Holds(right(b), w) ELSE Holds(left(b), w)
      BY <3>1, HoldsFacts
    <3>6. v[var(b)] = w[var(b)]
      BY <3>2
    <3>7. QED
      BY <3>4, <3>5, <3>6
  <2>3. QED
    BY <2>1, <2>2
<1>2. \A b \in BDD : b \in P
  <2>1. \A b \in BDD : Rank0(BDD)[b] \in Nat
    BY RankBound0
  <2> HIDE DEF P
  <2>2. QED
    BY <1>1, <2>1, Induction
<1>3. QED
  BY <1>2 DEF Sat

\* A does not look at m.
Free(A, m) == Low(A, m) = A /\ High(A, m) = A

\* What the image of b does not look at, if s is by variables on those of b.
LEMMA FreeImage ==
  ASSUME NEW s \in Assocs, NEW b \in BDD, NEW j \in Vars,
         \A i \in Support(b) : isVariable(dest(s, i)) /\ dest(s, i) # find_var(j)
  PROVE  Free(ComposeSat(b, s), j)
<1>1. ASSUME NEW v \in Valuations, NEW x \in BOOLEAN
      PROVE  [v EXCEPT ![j] = x] \in ComposeSat(b, s) <=> v \in ComposeSat(b, s)
  <2> DEFINE w == [v EXCEPT ![j] = x]
  <2>1. w \in Valuations /\ \A i \in Vars : i # j => w[i] = v[i]
    BY Update
  <2> HIDE DEF w
  <2>2. Under(v, s) \in Valuations /\ Under(w, s) \in Valuations
    BY <2>1, UnderFacts
  <2>3. \A i \in Support(b) : Under(v, s)[i] = Under(w, s)[i]
    <3> SUFFICES ASSUME NEW i \in Support(b) PROVE Under(v, s)[i] = Under(w, s)[i]
      OBVIOUS
    <3>1. i \in Vars
      BY SupportFacts
    <3>2. isVariable(dest(s, i)) /\ dest(s, i) # find_var(j)
      OBVIOUS
    <3>3. PICK k \in Vars : dest(s, i) = find_var(k)
      BY <3>1, <3>2, DestFacts, ConstantFacts DEF isVariable
    <3>4. k # j
      BY <3>2, <3>3
    <3>5. v \in Sat(find_var(k)) <=> w \in Sat(find_var(k))
      BY <2>1, <3>4, FindVar
    <3>6. /\ Under(v, s)[i] <=> v \in Sat(dest(s, i))
          /\ Under(w, s)[i] <=> w \in Sat(dest(s, i))
      BY <2>1, <3>1, UnderFacts
    <3>7. Under(v, s)[i] \in BOOLEAN /\ Under(w, s)[i] \in BOOLEAN
      BY <2>2, <3>1 DEF Valuations
    <3>8. QED
      BY <3>3, <3>5, <3>6, <3>7
  <2>4. Under(v, s) \in Sat(b) <=> Under(w, s) \in Sat(b)
    BY <2>2, <2>3, SupportHolds
  <2>5. QED
    BY <2>1, <2>2, <2>4 DEF ComposeSat, Sat, w
<1>2. ComposeSat(b, s) \in SUBSET Valuations
  BY DEF ComposeSat
<1>3. QED
  BY <1>1, <1>2 DEF Free, Low, High

\* One more variable to quantify.
LEMMA ExistsTwice ==
  ASSUME NEW A \in SatSets, NEW X \in SUBSET Vars, NEW m \in X
  PROVE  ExistsSat(ExistsSat(A, X \ {m}), {m}) = ExistsSat(A, X)
<1> DEFINE E == ExistsSat(A, X \ {m})
<1>1. ASSUME NEW v \in ExistsSat(E, {m}) PROVE v \in ExistsSat(A, X)
  <2>1. PICK u \in E : SameBut(v, u, {m})
    BY DEF ExistsSat
  <2>2. PICK w \in A : SameBut(u, w, X \ {m})
    BY DEF ExistsSat
  <2>3. SameBut(v, w, X)
    BY <2>1, <2>2 DEF SameBut
  <2>4. QED
    BY <2>3 DEF ExistsSat
<1>2. ASSUME NEW v \in ExistsSat(A, X) PROVE v \in ExistsSat(E, {m})
  <2>1. PICK w \in A : SameBut(v, w, X)
    BY DEF ExistsSat
  <2>2. v \in Valuations /\ w \in Valuations
    BY DEF ExistsSat, SatSets
  <2> DEFINE u == [v EXCEPT ![m] = w[m]]
  <2>3. w[m] \in BOOLEAN /\ m \in Vars
    BY <2>2 DEF Valuations
  <2>4. u \in Valuations /\ u[m] = w[m] /\ \A i \in Vars : i # m => u[i] = v[i]
    BY <2>2, <2>3, Update
  <2> HIDE DEF u
  <2>5. SameBut(v, u, {m}) /\ SameBut(u, w, X \ {m})
    BY <2>1, <2>4 DEF SameBut
  <2>6. u \in E
    BY <2>4, <2>5 DEF ExistsSat
  <2>7. QED
    BY <2>2, <2>5, <2>6 DEF ExistsSat
<1>3. QED
  BY <1>1, <1>2

\* Quantifying variables other than the one that is tested.
LEMMA ExistsIte ==
  ASSUME NEW P \in SatSets, NEW Q \in SatSets, NEW m \in Vars, NEW Z \in SUBSET Vars, m \notin Z
  PROVE  ExistsSat(IteSat(Sat(find_var(m)), P, Q), Z)
           = IteSat(Sat(find_var(m)), ExistsSat(P, Z), ExistsSat(Q, Z))
<1> DEFINE M == Sat(find_var(m))
           G == IteSat(M, P, Q)
<1>1. \A v \in Valuations : v \in M <=> v[m]
  BY FindVar
<1>2. \A v, w \in Valuations : SameBut(v, w, Z) => v[m] = w[m]
  BY DEF SameBut
<1>3. P \in SUBSET Valuations /\ Q \in SUBSET Valuations /\ M \in SUBSET Valuations
  BY FindVar, SatType DEF SatSets
<1> HIDE DEF M
<1>4. \A v \in Valuations :
        v \in ExistsSat(G, Z) <=> v \in IteSat(M, ExistsSat(P, Z), ExistsSat(Q, Z))
  <2> SUFFICES ASSUME NEW v \in Valuations
               PROVE  v \in ExistsSat(G, Z) <=> v \in IteSat(M, ExistsSat(P, Z), ExistsSat(Q, Z))
    OBVIOUS
  <2>1. v \in ExistsSat(G, Z) <=> \E w \in G : SameBut(v, w, Z)
    BY DEF ExistsSat
  <2>2. /\ v \in ExistsSat(P, Z) <=> \E w \in P : SameBut(v, w, Z)
        /\ v \in ExistsSat(Q, Z) <=> \E w \in Q : SameBut(v, w, Z)
    BY DEF ExistsSat
  <2>3. \A w \in Valuations : SameBut(v, w, Z) => (w \in M <=> v \in M)
    BY <1>1, <1>2
  <2>4. QED
    BY <1>3, <2>1, <2>2, <2>3 DEF IteSat
<1>5. /\ ExistsSat(G, Z) \subseteq Valuations
      /\ IteSat(M, ExistsSat(P, Z), ExistsSat(Q, Z)) \subseteq Valuations
  BY <1>3 DEF ExistsSat, IteSat
<1>6. QED
  BY <1>4, <1>5 DEF M

\* Quantifying the variable that is tested, when the branches do not look at it.
LEMMA ExistsIteFree ==
  ASSUME NEW P \in SatSets, NEW Q \in SatSets, NEW m \in Vars, NEW Y \in SUBSET Vars,
         m \in Y, Free(P, m), Free(Q, m)
  PROVE  ExistsSat(IteSat(Sat(find_var(m)), P, Q), Y) = ExistsSat(Q, Y) \cup ExistsSat(P, Y)
<1> DEFINE M == Sat(find_var(m))
           G == IteSat(M, P, Q)
<1>1. M = {v \in Valuations : v[m]} /\ M \in SatSets
  BY FindVar, SatType DEF SatSets
<1>2. \A v \in Valuations : \A x \in BOOLEAN :
        [v EXCEPT ![m] = x] \in Valuations /\ [v EXCEPT ![m] = x][m] = x
  BY Update
<1>3. Low(M, m) = {} /\ High(M, m) = Valuations
  BY <1>1, <1>2 DEF Low, High
<1> HIDE DEF M
<1>4. G \in SatSets /\ Low(G, m) = IteSat({}, P, Q) /\ High(G, m) = IteSat(Valuations, P, Q)
  <2>1. G \in SatSets
    BY <1>1, IteSatFacts
  <2>2. /\ Low(G, m) = IteSat(Low(M, m), Low(P, m), Low(Q, m))
        /\ High(G, m) = IteSat(High(M, m), High(P, m), High(Q, m))
    BY <1>1, IteSatFacts
  <2>3. Low(P, m) = P /\ High(P, m) = P /\ Low(Q, m) = Q /\ High(Q, m) = Q
    BY DEF Free
  <2>4. QED
    BY <1>3, <2>1, <2>2, <2>3
<1>5. IteSat({}, P, Q) = Q /\ IteSat(Valuations, P, Q) = P
  BY DEF IteSat, SatSets
<1> HIDE DEF G
<1>6. ExistsSat(G, Y) = ExistsSat(Low(G, m), Y) \cup ExistsSat(High(G, m), Y)
  BY <1>4, ExistsSatCofactors
<1>7. QED
  BY <1>4, <1>5, <1>6 DEF G, M

\* min_var is a bound of the images of i and of the greater variables.
LEMMA MinVarImages ==
  ASSUME NEW s \in Assocs, NEW i \in Vars
  PROVE  /\ min_var(s, i) \in 0 .. NumVars
         /\ \A j \in Vars : i <= j /\ ~isConstant(dest(s, j)) => min_var(s, i) <= var(dest(s, j))
<1> USE NumVarsAssumption
<1>1. DOMAIN s = Vars
  BY DEF Assocs
<1>2. \A j \in Vars : IsUnmapped(s, j) => dest(s, j) = find_var(j) /\ var(dest(s, j)) = j
  BY FindVar DEF dest
<1>3. \A j \in Vars : ~isConstant(dest(s, j)) => var(dest(s, j)) \in Vars
  BY DestFacts, NodeFacts
<1>4. CASE isIdentity(s)
  <2>1. min_var(s, i) = i
    BY <1>4 DEF min_var
  <2>2. \A j \in Vars : IsUnmapped(s, j)
    BY <1>1, <1>4 DEF isIdentity
  <2>3. QED
    BY <1>2, <2>1, <2>2 DEF Vars
<1>5. CASE ~isIdentity(s)
  <2> DEFINE D == {k \in DOMAIN s : ~IsUnmapped(s, k)}
  <2>1. D \in SUBSET Vars /\ D # {}
    BY <1>1, <1>5 DEF isIdentity
  <2>2. size(s) \in D /\ \A k \in D : k <= size(s)
    BY <2>1, MinMaxVars DEF size
  <2>3. \A j \in Vars : j > size(s) => IsUnmapped(s, j)
    BY <1>1, <2>1, <2>2 DEF Vars
  <2>4. size(s) \in Vars
    BY <2>1, <2>2
  <2> HIDE DEF D
  <2>5. CASE i > size(s)
    <3>1. min_var(s, i) = i
      BY <2>5 DEF min_var
    <3>2. \A j \in Vars : i <= j => IsUnmapped(s, j)
      BY <2>3, <2>4, <2>5 DEF Vars
    <3>3. QED
      BY <1>2, <3>1, <3>2 DEF Vars
  <2>6. CASE ~(i > size(s))
    <3> DEFINE V == {size(s) + 1} \cup
                      {var(dest(s, j)) : j \in {k \in i .. size(s) : ~isConstant(dest(s, k))}}
    <3>1. min_var(s, i) = Min(V)
      BY <1>5, <2>6 DEF min_var
    <3>2. i .. size(s) \subseteq Vars
      BY <2>4 DEF Vars
    <3>3. V \subseteq 0 .. NumVars /\ V # {}
      BY <1>3, <2>4, <3>2 DEF Vars
    <3>4. Min(V) \in V /\ \A k \in V : Min(V) <= k
      <4> HIDE DEF V
      <4>1. V \in SUBSET Int /\ NumVars \in Nat
        BY <3>3
      <4>2. QED
        BY <3>3, <4>1, MinMax
    <3>5. ASSUME NEW j \in Vars, i <= j, ~isConstant(dest(s, j))
          PROVE  Min(V) <= var(dest(s, j))
      <4>1. CASE j <= size(s)
        <5>1. j \in i .. size(s)
          BY <2>4, <3>5, <4>1 DEF Vars
        <5>2. var(dest(s, j)) \in V
          BY <3>5, <5>1
        <5> HIDE DEF V
        <5>3. QED
          BY <3>4, <5>2
      <4>2. CASE ~(j <= size(s))
        <5>1. j >= size(s) + 1 /\ j > size(s)
          BY <2>4, <4>2 DEF Vars
        <5>2. var(dest(s, j)) = j
          BY <1>2, <2>3, <5>1
        <5>3. Min(V) <= size(s) + 1 /\ Min(V) \in Int
          <6>1. size(s) + 1 \in V
            OBVIOUS
          <6> HIDE DEF V
          <6>2. Min(V) <= size(s) + 1
            BY <3>4, <6>1
          <6>3. Min(V) \in 0 .. NumVars
            BY <3>3, <3>4
          <6>4. QED
            BY <6>2, <6>3
        <5> HIDE DEF V
        <5>4. QED
          BY <2>4, <5>1, <5>2, <5>3 DEF Vars
      <4>3. QED
        BY <4>1, <4>2
    <3> HIDE DEF V
    <3>6. QED
      BY <3>1, <3>3, <3>4, <3>5
  <2>7. QED
    BY <2>5, <2>6
<1>6. QED
  BY <1>4, <1>5

\* The image of a looks at no variable below that bound.
LEMMA ImageFrom ==
  ASSUME NEW s \in Assocs, NEW a \in BDD, ~isConstant(a)
  PROVE  From(ComposeSat(a, s), min_var(s, var(a)))
<1>0. PICK n : n = var(a)
  OBVIOUS
<1>1. n \in Vars /\ n \in Nat /\ From(Sat(a), n)
  BY <1>0, NodeFacts
<1> DEFINE M == min_var(s, n)
<1>2. M \in Nat /\ \A j \in Vars : n <= j /\ ~isConstant(dest(s, j)) => M <= var(dest(s, j))
  BY <1>1, MinVarImages, NumVarsAssumption
<1> HIDE DEF M
<1>3. ASSUME NEW v \in Valuations, NEW w \in Valuations, \A i \in Vars : M <= i => v[i] = w[i]
      PROVE  v \in ComposeSat(a, s) <=> w \in ComposeSat(a, s)
  <2>1. Under(v, s) \in Valuations /\ Under(w, s) \in Valuations
    BY UnderFacts
  <2>2. ASSUME NEW j \in Vars, n <= j PROVE Under(v, s)[j] = Under(w, s)[j]
    <3>1. /\ Under(v, s)[j] <=> v \in Sat(dest(s, j))
          /\ Under(w, s)[j] <=> w \in Sat(dest(s, j))
      BY UnderFacts
    <3>2. Under(v, s)[j] \in BOOLEAN /\ Under(w, s)[j] \in BOOLEAN
      BY <2>1 DEF Valuations
    <3>3. v \in Sat(dest(s, j)) <=> w \in Sat(dest(s, j))
      <4>1. CASE isConstant(dest(s, j))
        <5>1. dest(s, j) = True \/ dest(s, j) = False
          BY <4>1, DestFacts, BDDElim
        <5>2. QED
          BY <5>1, SatConstants
      <4>2. CASE ~isConstant(dest(s, j))
        <5>1. PICK k \in Vars : dest(s, j) = find_var(k)
          BY <4>2, DestFacts, ConstantFacts
        <5>2. M <= k
          BY <1>2, <2>2, <4>2, <5>1, FindVar
        <5>3. QED
          BY <1>3, <5>1, <5>2, FindVar
      <4>3. QED
        BY <4>1, <4>2
    <3>4. QED
      BY <3>1, <3>2, <3>3
  <2>3. Under(v, s) \in Sat(a) <=> Under(w, s) \in Sat(a)
    BY <1>1, <2>1, <2>2 DEF From
  <2>4. QED
    BY <2>1, <2>3 DEF ComposeSat, Sat
<1>4. From(ComposeSat(a, s), M)
  BY <1>3 DEF From
<1>5. QED
  BY <1>0, <1>4 DEF M

\* The variables that are skipped are looked at by none of the operands.
LEMMA SkipImageFacts ==
  ASSUME NEW s \in Assocs, NEW a \in BDD, ~isConstant(a), NEW bs \in SUBSET BDD, NEW xs \in Cubes
  PROVE  /\ SkipImage(s, a, bs, xs) \in Cubes
         /\ \E K \in Nat : /\ VarsOf(SkipImage(s, a, bs, xs)) = {i \in VarsOf(xs) : K <= i}
                           /\ From(ComposeSat(a, s), K)
                           /\ \A b \in bs : From(Sat(b), K)
<1> USE NumVarsAssumption
<1> DEFINE M == min_var(s, var(a))
           V == {M} \cup {var(b) : b \in {c \in bs : ~isConstant(c)}}
           K == Min(V)
<1>1. M \in 0 .. NumVars /\ From(ComposeSat(a, s), M)
  BY NodeFacts, MinVarImages, ImageFrom
<1>2. \A b \in BDD : ~isConstant(b) => var(b) \in 0 .. NumVars /\ From(Sat(b), var(b))
  BY NodeFacts DEF Vars
<1>3. V \subseteq 0 .. NumVars /\ V # {}
  BY <1>1, <1>2
<1>4. SkipImage(s, a, bs, xs) = Skip(xs, K)
  BY DEF SkipImage
<1>5. M \in V /\ \A b \in bs : ~isConstant(b) => var(b) \in V
  OBVIOUS
<1> HIDE DEF M, V
<1>6. K \in V /\ \A k \in V : K <= k
  <2>1. V \in SUBSET Int /\ NumVars \in Nat
    BY <1>3
  <2>2. QED
    BY <1>3, <2>1, MinMax
<1> HIDE DEF K
<1>7. K \in Nat /\ K <= M
  BY <1>3, <1>5, <1>6
<1>8. ASSUME NEW A, NEW n \in 0 .. NumVars, K <= n, From(A, n) PROVE From(A, K)
  BY <1>7, <1>8 DEF From, Vars
<1>9. From(ComposeSat(a, s), K)
  BY <1>1, <1>7, <1>8
<1>10. \A b \in bs : From(Sat(b), K)
  <2> SUFFICES ASSUME NEW b \in bs PROVE From(Sat(b), K)
    OBVIOUS
  <2>1. CASE isConstant(b)
    <3>1. b = True \/ b = False
      BY <2>1, BDDElim
    <3>2. QED
      BY <3>1, SatConstants DEF From
  <2>2. CASE ~isConstant(b)
    BY <1>2, <1>5, <1>6, <1>8, <2>2
  <2>3. QED
    BY <2>1, <2>2
<1>11. QED
  BY <1>4, <1>7, <1>9, <1>10, SkipFacts

\* A substitution that keeps the variables of a apart.
LEMMA InjectiveFacts ==
  ASSUME NEW s \in Assocs, NEW a \in BDD, ~isConstant(a), Injective(a, s)
  PROVE  /\ Injective(left(a), s) /\ Injective(right(a), s)
         /\ \E j \in Vars : /\ dest(s, var(a)) = find_var(j)
                            /\ Free(ComposeSat(left(a), s), j)
                            /\ Free(ComposeSat(right(a), s), j)
<1>0. PICK n : n = var(a)
  OBVIOUS
<1>1. /\ n \in Vars /\ n \in Int /\ left(a) \in BDD /\ right(a) \in BDD
      /\ Above(left(a), n) /\ Above(right(a), n)
  <2>1. IsNode(a)
    BY BDDElim
  <2>2. QED
    BY <1>0, <2>1, NumVarsAssumption DEF IsNode, Vars
<1>2. Support(a) = {n} \cup Support(left(a)) \cup Support(right(a))
  BY <1>0, SupportFacts
<1>3. \A i \in Support(left(a)) \cup Support(right(a)) : n < i
  BY <1>1, SupportStartsAt
<1>4. Injective(left(a), s) /\ Injective(right(a), s)
  BY <1>2 DEF Injective
<1>5. isVariable(dest(s, n))
  BY <1>2 DEF Injective
<1>6. PICK j \in Vars : dest(s, n) = find_var(j)
  BY <1>1, <1>5, DestFacts, ConstantFacts DEF isVariable
<1>7. \A i \in Support(left(a)) \cup Support(right(a)) :
        isVariable(dest(s, i)) /\ dest(s, i) # find_var(j)
  <2> SUFFICES ASSUME NEW i \in Support(left(a)) \cup Support(right(a))
               PROVE  isVariable(dest(s, i)) /\ dest(s, i) # find_var(j)
    OBVIOUS
  <2>1. i \in Support(a) /\ n \in Support(a) /\ i # n
    BY <1>1, <1>2, <1>3
  <2>2. QED
    BY <1>6, <2>1 DEF Injective
<1>8. Free(ComposeSat(left(a), s), j) /\ Free(ComposeSat(right(a), s), j)
  BY <1>1, <1>7, FreeImage
<1>9. QED
  BY <1>0, <1>4, <1>6, <1>8

\* A test of a variable, which is quantified if it is in x.
LEMMA FastFacts ==
  ASSUME NEW m \in Vars, NEW t \in BDD, NEW e \in BDD, NEW x \in Cubes
  PROVE  /\ fastIteExistsWithVar(m, t, e, x) \in BDD
         /\ Sat(fastIteExistsWithVar(m, t, e, x)) =
              IF m \in VarsOf(x) THEN ExistsSat(IteSat(Sat(find_var(m)), Sat(t), Sat(e)), {m})
              ELSE IteSat(Sat(find_var(m)), Sat(t), Sat(e))
<1> DEFINE f == find_var(m)
           G == IteSat(Sat(f), Sat(t), Sat(e))
           top == Above(t, m) /\ Above(e, m)
<1>1. f \in BDD /\ Sat(f) = CubeSat({m})
  BY FindVar DEF CubeSat
<1>2. f = Cube({m})
  <2>1. Cube({m}) \in BDD /\ Sat(Cube({m})) = CubeSat({m})
    BY CubeIs
  <2>2. QED
    BY <1>1, <2>1, Canonicity
<1>3. f \in Cubes /\ VarsOf(f) = {m}
  BY <1>2, CubeIs, VarsOfCube
<1>4. setcontainsvar(x, m) <=> m \in VarsOf(x)
  BY SetContainsVar
<1>5. Sat(t) \in SatSets /\ Sat(e) \in SatSets
  BY SatType DEF SatSets
<1>6. /\ ite(f, t, e) \in BDD /\ Sat(ite(f, t, e)) = G
      /\ iteExists(f, t, e, f) \in BDD /\ Sat(iteExists(f, t, e, f)) = ExistsSat(G, {m})
  <2>1. ite(f, t, e) \in BDD /\ Sat(ite(f, t, e)) = G
    BY <1>1, IteMeaning
  <2>2. iteExists(f, t, e, f) \in BDD /\ Sat(iteExists(f, t, e, f)) = ExistsSat(G, VarsOf(f))
    <3> HIDE DEF f
    <3>1. QED
      BY <1>1, <1>3, IteExistsMeaning
  <2>3. QED
    BY <1>3, <2>1, <2>2
<1>7. top => find(m, e, t) \in BDD /\ Sat(find(m, e, t)) = G
  BY FindIte
<1>8. top => orop(e, t) \in BDD /\ Sat(orop(e, t)) = ExistsSat(G, {m})
  <2> SUFFICES ASSUME top PROVE Sat(orop(e, t)) = ExistsSat(G, {m}) /\ orop(e, t) \in BDD
    OBVIOUS
  <2>0. m \in Int
    BY NumVarsAssumption DEF Vars
  <2>1. StartsAt(t, m + 1) /\ StartsAt(e, m + 1)
    <3>1. \A d \in BDD : ~isConstant(d) => var(d) \in Int
      BY NodeFacts
    <3>2. QED
      BY <2>0, <3>1 DEF Above, StartsAt
  <2>2. From(Sat(t), m + 1) /\ From(Sat(e), m + 1)
    BY <2>0, <2>1, SatFrom
  <2>3. Free(Sat(t), m) /\ Free(Sat(e), m)
    BY <1>5, <2>2, LowHigh DEF Free, SatSets
  <2>4. ExistsSat(G, {m}) = ExistsSat(Sat(e), {m}) \cup ExistsSat(Sat(t), {m})
    BY <1>5, <2>3, ExistsIteFree
  <2>5. ExistsSat(Sat(e), {m}) = Sat(e) /\ ExistsSat(Sat(t), {m}) = Sat(t)
    BY <1>5, <2>3, OneVariableSat DEF Free
  <2>6. QED
    BY <2>4, <2>5, OrMeaning
<1> HIDE DEF f, G, top
<1>9. fastIteExistsWithVar(m, t, e, x) =
        IF m \in VarsOf(x) THEN IF top THEN orop(e, t) ELSE iteExists(f, t, e, f)
        ELSE IF top THEN find(m, e, t) ELSE ite(f, t, e)
  BY <1>4 DEF fastIteExistsWithVar, f, top
<1>10. QED
  BY <1>6, <1>7, <1>8, <1>9 DEF G, f

\* Such a test of the parts of a quantified set.
LEMMA FastExists ==
  ASSUME NEW m \in Vars, NEW t \in BDD, NEW e \in BDD, NEW x \in Cubes,
         NEW P \in SatSets, NEW Q \in SatSets,
         Sat(t) = ExistsSat(P, VarsOf(x) \ {m}), Sat(e) = ExistsSat(Q, VarsOf(x) \ {m})
  PROVE  Sat(fastIteExistsWithVar(m, t, e, x))
           = ExistsSat(IteSat(Sat(find_var(m)), P, Q), VarsOf(x))
<1> DEFINE M == Sat(find_var(m))
           Y == VarsOf(x)
           G == IteSat(M, P, Q)
<1>1. Y \in SUBSET Vars
  BY CubeElim
<1>2. M \in SatSets
  BY FindVar, SatType DEF SatSets
<1>3. G \in SatSets
  BY <1>2, IteSatFacts
<1>4. ExistsSat(G, Y \ {m}) = IteSat(M, Sat(t), Sat(e))
  BY <1>1, ExistsIte
<1>5. Sat(fastIteExistsWithVar(m, t, e, x)) =
        IF m \in Y THEN ExistsSat(IteSat(M, Sat(t), Sat(e)), {m}) ELSE IteSat(M, Sat(t), Sat(e))
  BY FastFacts
<1> HIDE DEF M, Y, G
<1>6. m \in Y => ExistsSat(ExistsSat(G, Y \ {m}), {m}) = ExistsSat(G, Y)
  BY <1>1, <1>3, ExistsTwice
<1>7. m \notin Y => Y \ {m} = Y
  OBVIOUS
<1>8. QED
  BY <1>4, <1>5, <1>6, <1>7 DEF G, M, Y

\* A test split along a variable.
LEMMA IteSplit ==
  ASSUME NEW m \in Vars, NEW A0 \in SatSets, NEW A1 \in SatSets,
         NEW B \in SatSets, NEW C \in SatSets
  PROVE  IteSat(IteSat(Sat(find_var(m)), A1, A0), B, C)
           = IteSat(Sat(find_var(m)), IteSat(A1, High(B, m), High(C, m)),
                                      IteSat(A0, Low(B, m), Low(C, m)))
<1>0. B \in SUBSET Valuations /\ C \in SUBSET Valuations
  BY DEF SatSets
<1>1. /\ \A v \in Valuations : v \in Sat(find_var(m)) <=> v[m]
      /\ \A v \in Valuations : v \in B <=> IF v[m] THEN v \in High(B, m) ELSE v \in Low(B, m)
      /\ \A v \in Valuations : v \in C <=> IF v[m] THEN v \in High(C, m) ELSE v \in Low(C, m)
  <2>1. \A v \in Valuations : v \in Sat(find_var(m)) <=> v[m]
    BY FindVar
  <2>2. \A v \in Valuations : v \in B <=> IF v[m] THEN v \in High(B, m) ELSE v \in Low(B, m)
    BY <1>0, LowHigh
  <2>3. \A v \in Valuations : v \in C <=> IF v[m] THEN v \in High(C, m) ELSE v \in Low(C, m)
    BY <1>0, LowHigh
  <2>4. QED
    BY <2>1, <2>2, <2>3
<1>2. /\ Sat(find_var(m)) \in SUBSET Valuations
      /\ High(B, m) \in SUBSET Valuations /\ Low(B, m) \in SUBSET Valuations
      /\ High(C, m) \in SUBSET Valuations /\ Low(C, m) \in SUBSET Valuations
  BY FindVar, SatType, LowHigh DEF SatSets
<1>3. QED
  BY <1>1, <1>2 DEF IteSat, SatSets

\* _composeExists
ComposeExistsGood ==
  {q \in (BDD \X Cubes \X Assocs) \X BDD :
     Injective(q[1][1], q[1][3]) =>
       Sat(q[2]) = ExistsSat(ComposeSat(q[1][1], q[1][3]), VarsOf(q[1][2]))}

\* What makes a result of _composeExists good.
LEMMA ComposeExistsGoodFacts ==
  ASSUME NEW a \in BDD, NEW x \in Cubes, NEW s \in Assocs, NEW c
  PROVE  <<<<a, x, s>>, c>> \in ComposeExistsGood <=>
           /\ c \in BDD
           /\ Injective(a, s) => Sat(c) = ExistsSat(ComposeSat(a, s), VarsOf(x))
BY DEF ComposeExistsGood

\* The body of _composeExists returns a good result when its calls do.
LEMMA ComposeExistsStep ==
  ASSUME NEW f, NEW p \in BDD \X Cubes \X Assocs,
         GoodBelow(BDD \X Cubes \X Assocs, Rank1(BDD \X Cubes \X Assocs), ComposeExistsGood, f, p)
  PROVE  /\ <<p, _composeExists_body(f, p[1], p[2], p[3])>> \in ComposeExistsGood
         /\ _composeExists_body(f, p[1], p[2], p[3]) \in BDD
<1> PICK a \in BDD, xs \in Cubes, s \in Assocs : p = <<a, xs, s>>
  OBVIOUS
<1> DEFINE c == _composeExists_body(f, a, xs, s)
           X == VarsOf(xs)
<1> SUFFICES c \in BDD /\ (Injective(a, s) => Sat(c) = ExistsSat(ComposeSat(a, s), X))
  BY ComposeExistsGoodFacts
<1>1. X \in SUBSET Vars
  BY CubeElim
<1>2. CASE isConstant(a)
  <2>1. c = a
    BY <1>2 DEF _composeExists_body
  <2>2. a = True \/ a = False
    BY <1>2, BDDElim
  <2>3. /\ ComposeSat(False, s) = {} /\ ComposeSat(True, s) = Valuations
        /\ ExistsSat({}, X) = {} /\ ExistsSat(Valuations, X) = Valuations
    <3>1. {} \in SatSets
      BY DEF SatSets
    <3>2. QED
      BY <1>1, <3>1, ComposeSatFacts, ExistsSatFacts
  <2>4. QED
    BY <2>1, <2>2, <2>3, SatConstants
<1>3. CASE ~isConstant(a)
  <2> DEFINE d == dest(s, var(a))
             x == SkipImage(s, a, {}, xs)
             l == f[<<left(a), x, s>>]
             r == f[<<right(a), x, s>>]
             Y == VarsOf(x)
             A == ComposeSat(a, s)
             A0 == ComposeSat(left(a), s)
             A1 == ComposeSat(right(a), s)
  <2>1. /\ var(a) \in Vars /\ left(a) \in BDD /\ right(a) \in BDD
        /\ rank(left(a)) < rank(a) /\ rank(right(a)) < rank(a)
    BY <1>3, NodeFacts
  <2>2. ASSUME NEW b \in {left(a), right(a)}, NEW y \in Cubes
        PROVE  /\ f[<<b, y, s>>] \in BDD
               /\ Injective(b, s) => Sat(f[<<b, y, s>>]) = ExistsSat(ComposeSat(b, s), VarsOf(y))
    <3>1. <<<<b, y, s>>, f[<<b, y, s>>]>> \in ComposeExistsGood
      BY <2>1 DEF GoodBelow, Rank1
    <3>2. QED
      BY <2>1, <3>1, ComposeExistsGoodFacts
  <2>3. /\ x \in Cubes
        /\ \E K \in Nat : Y = {i \in X : K <= i} /\ From(A, K)
    BY <1>3, SkipImageFacts
  <2>4. Y \in SUBSET Vars /\ (x = True <=> Y = {})
    BY <2>3, CubeElim
  <2>5. A \in SatSets /\ A0 \in SatSets /\ A1 \in SatSets
    BY <2>1, ComposeSatFacts
  <2>6. ExistsSat(ComposeSat(a, s), X) = ExistsSat(A, Y)
    <3>0. ComposeSat(a, s) = A
      OBVIOUS
    <3>1. PICK K \in Nat : Y = {i \in X : K <= i} /\ From(A, K)
      BY <2>3
    <3> HIDE DEF x, Y, A, X
    <3>2. K \in Int
      OBVIOUS
    <3>3. QED
      BY <1>1, <2>5, <3>0, <3>1, <3>2, ExistsSatFrom
  <2>7. d \in BDD /\ (d = False \/ d = True \/ \E j \in Vars : d = find_var(j))
    BY <2>1, DestFacts
  <2>8. /\ l \in BDD /\ r \in BDD
        /\ f[<<left(a), xs, s>>] \in BDD /\ f[<<right(a), xs, s>>] \in BDD
    BY <2>2, <2>3
  <2>9. compose(a, s) \in BDD /\ Sat(compose(a, s)) = A
    BY SubstMeaning
  <2>10. c = IF d = True THEN f[<<right(a), xs, s>>]
             ELSE IF d = False THEN f[<<left(a), xs, s>>]
             ELSE IF x = True THEN compose(a, s)
             ELSE IF l = r THEN r
             ELSE IF setcontainsvar(x, var(d)) THEN orop(l, r)
             ELSE IF Above(l, var(d)) /\ Above(r, var(d)) THEN find(var(d), l, r)
             ELSE ite(d, r, l)
    BY <1>3 DEF _composeExists_body
  <2>11. A = IteSat(Sat(d), A1, A0)
    BY <1>3, ComposeSatFacts
  <2>12. Injective(a, s) =>
           /\ Injective(left(a), s) /\ Injective(right(a), s)
           /\ \E j \in Vars : d = find_var(j) /\ Free(A0, j) /\ Free(A1, j)
    BY <1>3, InjectiveFacts
  <2>13. Injective(a, s) => Sat(l) = ExistsSat(A0, Y) /\ Sat(r) = ExistsSat(A1, Y)
    BY <2>2, <2>3, <2>12
  <2> HIDE DEF d, x, l, r, Y, A, A0, A1, X, c
  <2>14. CASE d = True \/ d = False
    <3>1. \A j \in Vars : d # find_var(j)
      BY <2>14, FindVar, ConstantFacts, BDDElim
    <3>2. ~Injective(a, s)
      BY <2>12, <3>1
    <3>3. QED
      BY <2>8, <2>10, <2>14, <3>2
  <2>15. CASE d # True /\ d # False
    <3>1. PICK j \in Vars : d = find_var(j)
      BY <2>7, <2>15
    <3>2. var(d) = j
      BY <3>1, FindVar
    <3>3. Injective(a, s) => Free(A0, j) /\ Free(A1, j)
      <4> SUFFICES ASSUME Injective(a, s) PROVE Free(A0, j) /\ Free(A1, j)
        OBVIOUS
      <4>1. PICK k \in Vars : d = find_var(k) /\ Free(A0, k) /\ Free(A1, k)
        BY <2>12
      <4>2. k = j
        BY <3>2, <4>1, FindVar
      <4>3. QED
        BY <4>1, <4>2
    <3>4. setcontainsvar(x, j) <=> j \in Y
      BY <2>3, SetContainsVar DEF Y
    <3>5. Injective(a, s) => ExistsSat(A, Y) =
            IF j \in Y THEN Sat(l) \cup Sat(r) ELSE IteSat(Sat(d), Sat(r), Sat(l))
      <4>1. CASE j \in Y
        BY <2>4, <2>5, <2>11, <2>13, <3>1, <3>3, <4>1, ExistsIteFree
      <4>2. CASE j \notin Y
        BY <2>4, <2>5, <2>11, <2>13, <3>1, <4>2, ExistsIte
      <4>3. QED
        BY <4>1, <4>2
    <3>6. CASE x = True
      <4>1. ExistsSat(A, Y) = A
        BY <2>4, <2>5, <3>6, ExistsSatFacts
      <4>2. QED
        BY <2>6, <2>9, <2>10, <2>15, <3>6, <4>1
    <3>7. CASE x # True /\ l = r
      <4>1. c = r
        BY <2>10, <2>15, <3>7
      <4>2. Sat(r) \in SUBSET Valuations /\ Sat(d) \in SUBSET Valuations
        BY <2>7, <2>8, SatType
      <4>3. IteSat(Sat(d), Sat(r), Sat(r)) = Sat(r)
        BY <4>2 DEF IteSat
      <4>4. QED
        BY <2>6, <2>8, <3>5, <3>7, <4>1, <4>3
    <3>8. CASE x # True /\ l # r /\ j \in Y
      <4>1. c = orop(l, r)
        BY <2>10, <2>15, <3>2, <3>4, <3>8
      <4>2. QED
        BY <2>6, <2>8, <3>5, <3>8, <4>1, OrMeaning
    <3>9. CASE x # True /\ l # r /\ j \notin Y
      <4>1. c = IF Above(l, j) /\ Above(r, j) THEN find(j, l, r) ELSE ite(d, r, l)
        BY <2>10, <2>15, <3>2, <3>4, <3>9
      <4>2. Above(l, j) /\ Above(r, j) =>
              find(j, l, r) \in BDD /\ Sat(find(j, l, r)) = IteSat(Sat(d), Sat(r), Sat(l))
        BY <2>8, <3>1, FindIte
      <4>3. ite(d, r, l) \in BDD /\ Sat(ite(d, r, l)) = IteSat(Sat(d), Sat(r), Sat(l))
        BY <2>7, <2>8, IteMeaning
      <4>4. c \in BDD /\ Sat(c) = IteSat(Sat(d), Sat(r), Sat(l))
        BY <4>1, <4>2, <4>3
      <4>5. QED
        BY <2>6, <3>5, <3>9, <4>4
    <3>10. QED
      BY <3>6, <3>7, <3>8, <3>9
  <2>16. QED
    BY <2>14, <2>15 DEF A
<1>4. QED
  BY <1>2, <1>3

\* The body of _composeExists looks at smaller operands only.
LEMMA ComposeExistsLocal ==
  ASSUME NEW f, NEW g, NEW p \in BDD \X Cubes \X Assocs,
         AgreeBelow(BDD \X Cubes \X Assocs, Rank1(BDD \X Cubes \X Assocs), f, g, p)
  PROVE  _composeExists_body(f, p[1], p[2], p[3]) = _composeExists_body(g, p[1], p[2], p[3])
<1> PICK a \in BDD, xs \in Cubes, s \in Assocs : p = <<a, xs, s>>
  OBVIOUS
<1>1. CASE isConstant(a)
  BY <1>1 DEF _composeExists_body
<1>2. CASE ~isConstant(a)
  <2> DEFINE x == SkipImage(s, a, {}, xs)
  <2>1. /\ left(a) \in BDD /\ right(a) \in BDD
        /\ rank(left(a)) < rank(a) /\ rank(right(a)) < rank(a)
    BY <1>2, NodeFacts
  <2>2. x \in Cubes
    BY <1>2, SkipImageFacts
  <2>3. ASSUME NEW b \in {left(a), right(a)}, NEW y \in Cubes
        PROVE  f[<<b, y, s>>] = g[<<b, y, s>>]
    BY <2>1 DEF AgreeBelow, Rank1
  <2>4. /\ f[<<left(a), x, s>>] = g[<<left(a), x, s>>]
        /\ f[<<right(a), x, s>>] = g[<<right(a), x, s>>]
        /\ f[<<left(a), xs, s>>] = g[<<left(a), xs, s>>]
        /\ f[<<right(a), xs, s>>] = g[<<right(a), xs, s>>]
    BY <2>2, <2>3
  <2>5. QED
    BY <2>4 DEF _composeExists_body
<1>3. QED
  BY <1>1, <1>2

\* _composeExists: the recursion has a solution, and its results are good.
LEMMA ComposeExistsSolved ==
  \A p \in BDD \X Cubes \X Assocs : _composeExists_rec[p] = _composeExists_body(_composeExists_rec, p[1], p[2], p[3]) /\ <<p, _composeExists_rec[p]>> \in ComposeExistsGood
<1> DEFINE S == BDD \X Cubes \X Assocs
           T == BDD
           R == Rank1(BDD \X Cubes \X Assocs)
           H == [q \in [S -> T] \X S |-> _composeExists_body(q[1], q[2][1], q[2][2], q[2][3])]
           Solves(g) == g = [p \in S |-> _composeExists_body(g, p[1], p[2], p[3])]
<1>1. \A x \in S : R[x] \in Nat /\ R[x] <= 3 * NumVars
  BY RankBounds
<1>2. \A g \in [S -> T], x \in S : GoodBelow(S, R, ComposeExistsGood, g, x)
         => H[<<g, x>>] \in T /\ <<x, H[<<g, x>>]>> \in ComposeExistsGood
  <2> SUFFICES ASSUME NEW g \in [S -> T], NEW p \in S, GoodBelow(S, R, ComposeExistsGood, g, p)
               PROVE  H[<<g, p>>] \in T /\ <<p, H[<<g, p>>]>> \in ComposeExistsGood
    OBVIOUS
  <2>1. H[<<g, p>>] = _composeExists_body(g, p[1], p[2], p[3])
    OBVIOUS
  <2>2. <<p, _composeExists_body(g, p[1], p[2], p[3])>> \in ComposeExistsGood /\ _composeExists_body(g, p[1], p[2], p[3]) \in T
    BY ComposeExistsStep
  <2>3. QED
    BY <2>1, <2>2
<1>3. \A g, h \in [S -> T], x \in S : AgreeBelow(S, R, g, h, x) => H[<<g, x>>] = H[<<h, x>>]
  <2> SUFFICES ASSUME NEW g \in [S -> T], NEW h \in [S -> T], NEW p \in S,
                      AgreeBelow(S, R, g, h, p)
               PROVE  H[<<g, p>>] = H[<<h, p>>]
    OBVIOUS
  <2>1. H[<<g, p>>] = _composeExists_body(g, p[1], p[2], p[3]) /\ H[<<h, p>>] = _composeExists_body(h, p[1], p[2], p[3])
    OBVIOUS
  <2>2. _composeExists_body(g, p[1], p[2], p[3]) = _composeExists_body(h, p[1], p[2], p[3])
    BY ComposeExistsLocal
  <2>3. QED
    BY <2>1, <2>2
<1>4. T # {} /\ 3 * NumVars \in Nat
  BY ConstantFacts, NumVarsAssumption
<1>5. PICK f \in [S -> T] : \A x \in S : f[x] = H[<<f, x>>] /\ <<x, f[x]>> \in ComposeExistsGood
  <2> HIDE DEF S, T, R, H
  <2>1. Solvable(S, T, H, ComposeExistsGood)
    BY <1>1, <1>2, <1>3, <1>4, Solution
  <2>2. QED
    BY <2>1 DEF Solvable
<1>6. \A p \in S : f[p] = _composeExists_body(f, p[1], p[2], p[3])
  BY <1>5
<1>7. Solves(f)
  <2>1. f = [p \in S |-> f[p]]
    OBVIOUS
  <2>2. QED
    BY <1>6, <2>1
<1>8. _composeExists_rec = CHOOSE g : Solves(g)
  BY Zenon DEF _composeExists_rec
<1>9. Solves(_composeExists_rec)
  BY <1>7, <1>8
<1>10. \A p \in S : _composeExists_rec[p] = _composeExists_body(_composeExists_rec, p[1], p[2], p[3])
  BY <1>9
<1>11. \A p \in S : AgreeBelow(S, R, _composeExists_rec, f, p) => _composeExists_rec[p] = f[p]
  <2> SUFFICES ASSUME NEW p \in S, AgreeBelow(S, R, _composeExists_rec, f, p)
               PROVE  _composeExists_rec[p] = f[p]
    OBVIOUS
  <2>1. _composeExists_body(_composeExists_rec, p[1], p[2], p[3]) = _composeExists_body(f, p[1], p[2], p[3])
    BY ComposeExistsLocal
  <2>2. QED
    BY <1>6, <1>10, <2>1
<1>12. \A p \in S : _composeExists_rec[p] = f[p]
  <2> HIDE DEF S, T, R
  <2>1. \A x \in S : R[x] \in Nat
    BY <1>1
  <2>2. QED
    BY <1>11, <2>1, Agreement
<1>13. QED
  BY <1>5, <1>10, <1>12

\* _composeExists quantifies the image of its operand, when the substitution keeps
\* the variables of the operand apart.
THEOREM ComposeExistsMeaning ==
  ASSUME NEW a \in BDD, NEW x \in Cubes, NEW s \in Assocs
  PROVE  /\ _composeExists(a, x, s) \in BDD
         /\ Injective(a, s) =>
              Sat(_composeExists(a, x, s)) = ExistsSat(ComposeSat(a, s), VarsOf(x))
<1>1. <<<<a, x, s>>, _composeExists(a, x, s)>> \in ComposeExistsGood
  BY ComposeExistsSolved DEF _composeExists
<1>2. QED
  BY <1>1, ComposeExistsGoodFacts, Zenon

\* What is left of a where variable m is False, and where it is True, when only a
\* top variable that s maps to m is looked at.
Rest0(a, s, m) == IF var(dest(s, var(a))) = m THEN left(a) ELSE a
Rest1(a, s, m) == IF var(dest(s, var(a))) = m THEN right(a) ELSE a

\* What remains of an operand once the image of its top variable is split off.
LEMMA RestFacts ==
  ASSUME NEW a \in BDD, ~isConstant(a), NEW s \in Assocs, NEW m \in Vars
  PROVE  /\ Rest0(a, s, m) \in BDD /\ Rest1(a, s, m) \in BDD
         /\ rank(Rest0(a, s, m)) <= rank(a) /\ rank(Rest1(a, s, m)) <= rank(a)
         /\ m = var(dest(s, var(a))) =>
              rank(Rest0(a, s, m)) < rank(a) /\ rank(Rest1(a, s, m)) < rank(a)
         /\ ComposeSat(a, s) = IteSat(Sat(find_var(m)), ComposeSat(Rest1(a, s, m), s),
                                                         ComposeSat(Rest0(a, s, m), s))
         /\ Injective(a, s) => Injective(Rest0(a, s, m), s) /\ Injective(Rest1(a, s, m), s)
<1>1. /\ left(a) \in BDD /\ right(a) \in BDD /\ var(a) \in Vars
      /\ rank(left(a)) < rank(a) /\ rank(right(a)) < rank(a)
  BY NodeFacts
<1>2. rank(a) \in Nat /\ rank(left(a)) \in Nat /\ rank(right(a)) \in Nat
  BY <1>1, RankFacts
<1>3. Injective(a, s) => Injective(left(a), s) /\ Injective(right(a), s)
  BY InjectiveFacts
<1>4. CASE var(dest(s, var(a))) = m
  <2>1. Rest0(a, s, m) = left(a) /\ Rest1(a, s, m) = right(a)
    BY <1>4 DEF Rest0, Rest1
  <2>2. dest(s, var(a)) = find_var(m)
    <3>1. m >= 0
      BY NumVarsAssumption DEF Vars
    <3>2. ~isConstant(dest(s, var(a)))
      BY <1>4, <3>1, NumVarsAssumption DEF isConstant, Vars
    <3>3. PICK j \in Vars : dest(s, var(a)) = find_var(j)
      BY <1>1, <3>2, DestFacts, ConstantFacts
    <3>4. QED
      BY <1>4, <3>3, FindVar
  <2>3. ComposeSat(a, s) = IteSat(Sat(find_var(m)), ComposeSat(right(a), s), ComposeSat(left(a), s))
    BY <2>2, ComposeSatFacts
  <2>4. rank(left(a)) <= rank(a) /\ rank(right(a)) <= rank(a)
    BY <1>1, <1>2
  <2>5. QED
    BY <1>1, <1>3, <2>1, <2>3, <2>4
<1>5. CASE var(dest(s, var(a))) # m
  <2>1. Rest0(a, s, m) = a /\ Rest1(a, s, m) = a
    BY <1>5 DEF Rest0, Rest1
  <2>2. ComposeSat(a, s) \in SatSets /\ Sat(find_var(m)) \in SatSets
    BY ComposeSatFacts, FindVar, SatType DEF SatSets
  <2>3. ComposeSat(a, s) = IteSat(Sat(find_var(m)), ComposeSat(a, s), ComposeSat(a, s))
    BY <2>2 DEF IteSat, SatSets
  <2>4. rank(a) <= rank(a)
    BY <1>2
  <2>5. QED
    BY <1>5, <2>1, <2>3, <2>4
<1>6. QED
  BY <1>4, <1>5

\* The variable that is looked at next.
LEMMA RelProdArgs ==
  ASSUME NEW a \in BDD, NEW b \in BDD, ~isConstant(a), ~isConstant(b), NEW s \in Assocs,
         NEW m, m = minVar(dest(s, var(a)), b)
  PROVE  /\ m \in Vars
         /\ cf_left(b, m) \in BDD /\ Sat(cf_left(b, m)) = Low(Sat(b), m)
         /\ cf_right(b, m) \in BDD /\ Sat(cf_right(b, m)) = High(Sat(b), m)
         /\ rank(Rest0(a, s, m)) + rank(cf_left(b, m)) < rank(a) + rank(b)
         /\ rank(Rest1(a, s, m)) + rank(cf_right(b, m)) < rank(a) + rank(b)
<1>1. dest(s, var(a)) \in BDD
  BY NodeFacts, DestFacts
<1>2. /\ m \in Vars /\ StartsAt(b, m)
      /\ cf_left(b, m) \in BDD /\ Sat(cf_left(b, m)) = Low(Sat(b), m)
      /\ cf_right(b, m) \in BDD /\ Sat(cf_right(b, m)) = High(Sat(b), m)
  BY <1>1, MinVarFacts
<1>3. /\ rank(cf_left(b, m)) <= rank(b) /\ rank(cf_right(b, m)) <= rank(b)
      /\ m = var(b) => rank(cf_left(b, m)) < rank(b) /\ rank(cf_right(b, m)) < rank(b)
  BY <1>2, CofactorFacts
<1>4. /\ rank(Rest0(a, s, m)) <= rank(a) /\ rank(Rest1(a, s, m)) <= rank(a)
      /\ m = var(dest(s, var(a))) =>
           rank(Rest0(a, s, m)) < rank(a) /\ rank(Rest1(a, s, m)) < rank(a)
      /\ Rest0(a, s, m) \in BDD /\ Rest1(a, s, m) \in BDD
  BY <1>2, RestFacts
<1>5. m = var(b) \/ m = var(dest(s, var(a)))
  BY DEF minVar
<1>6. /\ rank(a) \in Nat /\ rank(b) \in Nat
      /\ rank(cf_left(b, m)) \in Nat /\ rank(cf_right(b, m)) \in Nat
      /\ rank(Rest0(a, s, m)) \in Nat /\ rank(Rest1(a, s, m)) \in Nat
  BY <1>2, <1>4, RankFacts
<1>7. QED
  BY <1>2, <1>3, <1>4, <1>5, <1>6

\* _composeRelProd
ComposeRelProdGood ==
  {q \in (BDD \X BDD \X Cubes \X Assocs) \X BDD :
     Injective(q[1][1], q[1][4]) =>
       Sat(q[2]) = ExistsSat(ComposeSat(q[1][1], q[1][4]) \cap Sat(q[1][2]), VarsOf(q[1][3]))}

\* What makes a result of _composeRelProd good.
LEMMA ComposeRelProdGoodFacts ==
  ASSUME NEW a \in BDD, NEW b \in BDD, NEW x \in Cubes, NEW s \in Assocs, NEW c
  PROVE  <<<<a, b, x, s>>, c>> \in ComposeRelProdGood <=>
           /\ c \in BDD
           /\ Injective(a, s) => Sat(c) = ExistsSat(ComposeSat(a, s) \cap Sat(b), VarsOf(x))
BY DEF ComposeRelProdGood

\* The body of _composeRelProd returns a good result when its calls do.
LEMMA ComposeRelProdStep ==
  ASSUME NEW f, NEW p \in BDD \X BDD \X Cubes \X Assocs,
         GoodBelow(BDD \X BDD \X Cubes \X Assocs, Rank2(BDD \X BDD \X Cubes \X Assocs),
                   ComposeRelProdGood, f, p)
  PROVE  /\ <<p, _composeRelProd_body(f, p[1], p[2], p[3], p[4])>> \in ComposeRelProdGood
         /\ _composeRelProd_body(f, p[1], p[2], p[3], p[4]) \in BDD
<1> PICK a \in BDD, b \in BDD, xs \in Cubes, s \in Assocs : p = <<a, b, xs, s>>
  OBVIOUS
<1> DEFINE c == _composeRelProd_body(f, a, b, xs, s)
           X == VarsOf(xs)
           A == ComposeSat(a, s)
           B == Sat(b)
<1> SUFFICES c \in BDD /\ (Injective(a, s) => Sat(c) = ExistsSat(A \cap B, X))
  BY ComposeRelProdGoodFacts
<1>1. X \in SUBSET Vars /\ A \in SatSets /\ B \in SatSets
  BY CubeElim, ComposeSatFacts, SatType DEF SatSets
<1>2. ExistsSat({}, X) = {} /\ False \in BDD /\ Sat(False) = {}
  BY <1>1, ExistsSatFacts, SatConstants, ConstantFacts
<1>3. CASE a = False \/ (a # True /\ b = False)
  <2>1. A \cap B = {}
    BY <1>3, ComposeSatFacts, SatConstants
  <2>2. c = False
    BY <1>3, ConstantFacts DEF _composeRelProd_body
  <2> HIDE DEF c, A, B, X
  <2>3. QED
    BY <1>2, <2>1, <2>2
<1>4. CASE a = True
  <2>1. A \cap B = Sat(b)
    BY <1>1, <1>4, ComposeSatFacts DEF SatSets
  <2>2. c = exists(b, xs)
    BY <1>4, ConstantFacts DEF _composeRelProd_body
  <2> HIDE DEF c, A, B
  <2>3. QED
    BY <2>1, <2>2, ExistsMeaning
<1>5. CASE ~isConstant(a) /\ b = True
  <2>1. A \cap B = A
    BY <1>1, <1>5, SatConstants DEF SatSets
  <2>2. c = _composeExists(a, xs, s)
    BY <1>5, ConstantFacts DEF _composeRelProd_body
  <2>3. c \in BDD /\ (Injective(a, s) => Sat(c) = ExistsSat(A, X))
    <3> HIDE DEF c
    <3>1. QED
      BY <2>2, ComposeExistsMeaning
  <2> HIDE DEF c, A, B, X
  <2>4. QED
    BY <2>1, <2>3
<1>6. CASE ~isConstant(a) /\ ~isConstant(b)
  <2> DEFINE x == SkipImage(s, a, {b}, xs)
             Y == VarsOf(x)
             G == A \cap B
  <2>0. PICK m : m = minVar(dest(s, var(a)), b)
    OBVIOUS
  <2> DEFINE z == _subtract_vars(x, m)
             a0 == Rest0(a, s, m)
             a1 == Rest1(a, s, m)
             b0 == cf_left(b, m)
             b1 == cf_right(b, m)
             e == f[<<a0, b0, z, s>>]
             t == f[<<a1, b1, z, s>>]
             P == ComposeSat(a1, s) \cap High(B, m)
             Q == ComposeSat(a0, s) \cap Low(B, m)
  <2>1. /\ m \in Vars
        /\ b0 \in BDD /\ Sat(b0) = Low(B, m) /\ b1 \in BDD /\ Sat(b1) = High(B, m)
        /\ rank(a0) + rank(b0) < rank(a) + rank(b)
        /\ rank(a1) + rank(b1) < rank(a) + rank(b)
    BY <1>6, <2>0, RelProdArgs
  <2>2. /\ a0 \in BDD /\ a1 \in BDD
        /\ A = IteSat(Sat(find_var(m)), ComposeSat(a1, s), ComposeSat(a0, s))
        /\ Injective(a, s) => Injective(a0, s) /\ Injective(a1, s)
    BY <1>6, <2>1, RestFacts
  <2>3. /\ x \in Cubes
        /\ \E K \in Nat : Y = {i \in X : K <= i} /\ From(A, K) /\ From(B, K)
    <3>1. {b} \in SUBSET BDD
      OBVIOUS
    <3>2. /\ x \in Cubes
          /\ \E K \in Nat : /\ Y = {i \in X : K <= i} /\ From(A, K)
                            /\ \A h \in {b} : From(Sat(h), K)
      BY <1>6, <3>1, SkipImageFacts
    <3>3. b \in {b}
      OBVIOUS
    <3> HIDE DEF x, Y, X, A
    <3>4. QED
      BY <3>2, <3>3
  <2>4. Y \in SUBSET Vars /\ (x = True <=> Y = {})
    BY <2>3, CubeElim
  <2>5. z \in Cubes /\ VarsOf(z) = Y \ {m}
    BY <2>1, <2>3, SubtractFacts
  <2>6. <<<<a0, b0, z, s>>, e>> \in ComposeRelProdGood /\ <<<<a1, b1, z, s>>, t>> \in ComposeRelProdGood
    <3> HIDE DEF z, a0, a1, b0, b1
    <3>1. QED
      BY <2>1, <2>2, <2>5 DEF GoodBelow, Rank2
  <2>7. c = IF x = True THEN composeITE(a, b, False, s) ELSE fastIteExistsWithVar(m, t, e, x)
    BY <1>6, <2>0, ConstantFacts DEF _composeRelProd_body, Rest0, Rest1
  <2>8. ExistsSat(G, X) = ExistsSat(G, Y) /\ G \in SatSets
    <3>1. PICK K \in Nat : Y = {i \in X : K <= i} /\ From(A, K) /\ From(B, K)
      BY <2>3
    <3>2. G \in SatSets
      BY <1>1 DEF SatSets
    <3> HIDE DEF x, Y, A, B, X
    <3>3. K \in Int
      OBVIOUS
    <3>4. From(G, K)
      BY <3>1, Zenon DEF From
    <3> HIDE DEF G
    <3>5. QED
      BY <1>1, <3>1, <3>2, <3>3, <3>4, ExistsSatFrom
  <2>9. compose(a, s) \in BDD /\ Sat(compose(a, s)) = A
    BY SubstMeaning
  <2>10. /\ ComposeSat(a0, s) \in SatSets /\ ComposeSat(a1, s) \in SatSets
         /\ Low(B, m) \in SatSets /\ High(B, m) \in SatSets
    BY <1>1, <2>1, <2>2, ComposeSatFacts, CofactorTypes
  <2>11. G = IteSat(Sat(find_var(m)), P, Q)
    <3>1. IteSat(A, B, {}) = IteSat(Sat(find_var(m)), IteSat(ComposeSat(a1, s), High(B, m), High({}, m)),
                                                      IteSat(ComposeSat(a0, s), Low(B, m), Low({}, m)))
      <4>1. {} \in SatSets
        BY DEF SatSets
      <4> HIDE DEF a0, a1, A, B
      <4>2. QED
        BY <1>1, <2>1, <2>2, <2>10, <4>1, IteSplit
    <3>2. High({}, m) = {} /\ Low({}, m) = {}
      BY DEF High, Low
    <3> HIDE DEF a0, a1, A, B
    <3>3. /\ IteSat(A, B, {}) = G
          /\ IteSat(ComposeSat(a1, s), High(B, m), {}) = P
          /\ IteSat(ComposeSat(a0, s), Low(B, m), {}) = Q
      BY DEF IteSat
    <3> HIDE DEF G, P, Q
    <3>4. QED
      BY <3>1, <3>2, <3>3
  <2>12. /\ e \in BDD /\ t \in BDD
         /\ Injective(a, s) => Sat(e) = ExistsSat(Q, Y \ {m}) /\ Sat(t) = ExistsSat(P, Y \ {m})
    <3>1. /\ e \in BDD /\ (Injective(a0, s) =>
                Sat(e) = ExistsSat(ComposeSat(a0, s) \cap Sat(b0), VarsOf(z)))
          /\ t \in BDD /\ (Injective(a1, s) =>
                Sat(t) = ExistsSat(ComposeSat(a1, s) \cap Sat(b1), VarsOf(z)))
      <4> HIDE DEF z, a0, a1, b0, b1, e, t
      <4>1. a0 \in BDD /\ b0 \in BDD /\ z \in Cubes /\ <<<<a0, b0, z, s>>, e>> \in ComposeRelProdGood
        BY <2>1, <2>2, <2>5, <2>6
      <4>2. a1 \in BDD /\ b1 \in BDD /\ z \in Cubes /\ <<<<a1, b1, z, s>>, t>> \in ComposeRelProdGood
        BY <2>1, <2>2, <2>5, <2>6
      <4> HIDE DEF A, B, X, Y, G, P, Q, x, c
      <4>3. e \in BDD /\ (Injective(a0, s) =>
                Sat(e) = ExistsSat(ComposeSat(a0, s) \cap Sat(b0), VarsOf(z)))
        BY <4>1, ComposeRelProdGoodFacts
      <4>4. t \in BDD /\ (Injective(a1, s) =>
                Sat(t) = ExistsSat(ComposeSat(a1, s) \cap Sat(b1), VarsOf(z)))
        BY <4>2, ComposeRelProdGoodFacts
      <4>5. QED
        BY <4>3, <4>4
    <3> HIDE DEF z, a0, a1, b0, b1, e, t
    <3>2. QED
      BY <2>1, <2>2, <2>5, <3>1
  <2>13. P \in SatSets /\ Q \in SatSets
    BY <2>10 DEF SatSets
  <2> HIDE DEF z, a0, a1, b0, b1, e, t, P, Q, G, Y, x, X, c
  <2>14. CASE x = True
    <3>1. ExistsSat(G, Y) = G
      BY <2>4, <2>8, <2>14, ExistsSatFacts
    <3>2. c = ite(compose(a, s), b, False)
      BY <2>7, <2>14 DEF composeITE
    <3>3. c \in BDD /\ Sat(c) = IteSat(A, B, {})
      <4>1. /\ ite(compose(a, s), b, False) \in BDD
            /\ Sat(ite(compose(a, s), b, False))
                 = IteSat(Sat(compose(a, s)), Sat(b), Sat(False))
        <5>1. compose(a, s) \in BDD /\ b \in BDD /\ False \in BDD
          BY <1>2, <2>9
        <5>2. QED
          BY <5>1, IteMeaning
      <4>2. QED
        BY <1>2, <2>9, <3>2, <4>1
    <3>4. Sat(c) = G
      BY <3>3 DEF IteSat, G
    <3>5. QED
      BY <2>8, <3>1, <3>3, <3>4 DEF G
  <2>15. CASE x # True
    <3>1. c = fastIteExistsWithVar(m, t, e, x)
      BY <2>7, <2>15
    <3>2. c \in BDD
      BY <2>1, <2>3, <2>12, <3>1, FastFacts
    <3>3. ASSUME Injective(a, s) PROVE Sat(c) = ExistsSat(G, Y)
      <4>1. Sat(e) = ExistsSat(Q, VarsOf(x) \ {m}) /\ Sat(t) = ExistsSat(P, VarsOf(x) \ {m})
        BY <2>12, <3>3 DEF Y
      <4>2. Sat(c) = ExistsSat(IteSat(Sat(find_var(m)), P, Q), VarsOf(x))
        BY <2>1, <2>3, <2>12, <2>13, <3>1, <4>1, FastExists
      <4>3. QED
        BY <2>11, <4>2 DEF Y
    <3>4. QED
      BY <2>8, <3>2, <3>3 DEF G
  <2>16. QED
    BY <2>14, <2>15
<1>7. QED
  BY <1>3, <1>4, <1>5, <1>6, BDDElim

\* The body of _composeRelProd looks at smaller operands only.
LEMMA ComposeRelProdLocal ==
  ASSUME NEW f, NEW g, NEW p \in BDD \X BDD \X Cubes \X Assocs,
         AgreeBelow(BDD \X BDD \X Cubes \X Assocs, Rank2(BDD \X BDD \X Cubes \X Assocs), f, g, p)
  PROVE  _composeRelProd_body(f, p[1], p[2], p[3], p[4]) = _composeRelProd_body(g, p[1], p[2], p[3], p[4])
<1> PICK a \in BDD, b \in BDD, xs \in Cubes, s \in Assocs : p = <<a, b, xs, s>>
  OBVIOUS
<1>1. CASE isConstant(a) \/ isConstant(b)
  <2>1. a = True \/ a = False \/ b = True \/ b = False
    BY <1>1, BDDElim
  <2>2. QED
    BY <2>1 DEF _composeRelProd_body
<1>2. CASE ~isConstant(a) /\ ~isConstant(b)
  <2>0. PICK m : m = minVar(dest(s, var(a)), b)
    OBVIOUS
  <2> DEFINE x == SkipImage(s, a, {b}, xs)
             z == _subtract_vars(x, m)
             a0 == Rest0(a, s, m)
             a1 == Rest1(a, s, m)
             b0 == cf_left(b, m)
             b1 == cf_right(b, m)
  <2>1. /\ m \in Vars /\ b0 \in BDD /\ b1 \in BDD
        /\ rank(a0) + rank(b0) < rank(a) + rank(b)
        /\ rank(a1) + rank(b1) < rank(a) + rank(b)
    BY <1>2, <2>0, RelProdArgs
  <2>2. a0 \in BDD /\ a1 \in BDD
    BY <1>2, <2>1, RestFacts
  <2>3. x \in Cubes
    BY <1>2, SkipImageFacts
  <2>4. z \in Cubes
    BY <2>1, <2>3, SubtractFacts
  <2>5. f[<<a0, b0, z, s>>] = g[<<a0, b0, z, s>>] /\ f[<<a1, b1, z, s>>] = g[<<a1, b1, z, s>>]
    <3> HIDE DEF z, a0, a1, b0, b1
    <3>1. QED
      BY <2>1, <2>2, <2>4 DEF AgreeBelow, Rank2
  <2>6. QED
    BY <2>0, <2>5 DEF _composeRelProd_body, Rest0, Rest1
<1>3. QED
  BY <1>1, <1>2

\* _composeRelProd: the recursion has a solution, and its results are good.
LEMMA ComposeRelProdSolved ==
  \A p \in BDD \X BDD \X Cubes \X Assocs : _composeRelProd_rec[p] = _composeRelProd_body(_composeRelProd_rec, p[1], p[2], p[3], p[4]) /\ <<p, _composeRelProd_rec[p]>> \in ComposeRelProdGood
<1> DEFINE S == BDD \X BDD \X Cubes \X Assocs
           T == BDD
           R == Rank2(BDD \X BDD \X Cubes \X Assocs)
           H == [q \in [S -> T] \X S |-> _composeRelProd_body(q[1], q[2][1], q[2][2], q[2][3], q[2][4])]
           Solves(g) == g = [p \in S |-> _composeRelProd_body(g, p[1], p[2], p[3], p[4])]
<1>1. \A x \in S : R[x] \in Nat /\ R[x] <= 3 * NumVars
  BY RankBounds
<1>2. \A g \in [S -> T], x \in S : GoodBelow(S, R, ComposeRelProdGood, g, x)
         => H[<<g, x>>] \in T /\ <<x, H[<<g, x>>]>> \in ComposeRelProdGood
  <2> SUFFICES ASSUME NEW g \in [S -> T], NEW p \in S, GoodBelow(S, R, ComposeRelProdGood, g, p)
               PROVE  H[<<g, p>>] \in T /\ <<p, H[<<g, p>>]>> \in ComposeRelProdGood
    OBVIOUS
  <2>1. H[<<g, p>>] = _composeRelProd_body(g, p[1], p[2], p[3], p[4])
    OBVIOUS
  <2>2. <<p, _composeRelProd_body(g, p[1], p[2], p[3], p[4])>> \in ComposeRelProdGood /\ _composeRelProd_body(g, p[1], p[2], p[3], p[4]) \in T
    BY ComposeRelProdStep
  <2>3. QED
    BY <2>1, <2>2
<1>3. \A g, h \in [S -> T], x \in S : AgreeBelow(S, R, g, h, x) => H[<<g, x>>] = H[<<h, x>>]
  <2> SUFFICES ASSUME NEW g \in [S -> T], NEW h \in [S -> T], NEW p \in S,
                      AgreeBelow(S, R, g, h, p)
               PROVE  H[<<g, p>>] = H[<<h, p>>]
    OBVIOUS
  <2>1. H[<<g, p>>] = _composeRelProd_body(g, p[1], p[2], p[3], p[4]) /\ H[<<h, p>>] = _composeRelProd_body(h, p[1], p[2], p[3], p[4])
    OBVIOUS
  <2>2. _composeRelProd_body(g, p[1], p[2], p[3], p[4]) = _composeRelProd_body(h, p[1], p[2], p[3], p[4])
    BY ComposeRelProdLocal
  <2>3. QED
    BY <2>1, <2>2
<1>4. T # {} /\ 3 * NumVars \in Nat
  BY ConstantFacts, NumVarsAssumption
<1>5. PICK f \in [S -> T] : \A x \in S : f[x] = H[<<f, x>>] /\ <<x, f[x]>> \in ComposeRelProdGood
  <2> HIDE DEF S, T, R, H
  <2>1. Solvable(S, T, H, ComposeRelProdGood)
    BY <1>1, <1>2, <1>3, <1>4, Solution
  <2>2. QED
    BY <2>1 DEF Solvable
<1>6. \A p \in S : f[p] = _composeRelProd_body(f, p[1], p[2], p[3], p[4])
  BY <1>5
<1>7. Solves(f)
  <2>1. f = [p \in S |-> f[p]]
    OBVIOUS
  <2>2. QED
    BY <1>6, <2>1
<1>8. _composeRelProd_rec = CHOOSE g : Solves(g)
  BY Zenon DEF _composeRelProd_rec
<1>9. Solves(_composeRelProd_rec)
  BY <1>7, <1>8
<1>10. \A p \in S : _composeRelProd_rec[p] = _composeRelProd_body(_composeRelProd_rec, p[1], p[2], p[3], p[4])
  BY <1>9
<1>11. \A p \in S : AgreeBelow(S, R, _composeRelProd_rec, f, p) => _composeRelProd_rec[p] = f[p]
  <2> SUFFICES ASSUME NEW p \in S, AgreeBelow(S, R, _composeRelProd_rec, f, p)
               PROVE  _composeRelProd_rec[p] = f[p]
    OBVIOUS
  <2>1. _composeRelProd_body(_composeRelProd_rec, p[1], p[2], p[3], p[4]) = _composeRelProd_body(f, p[1], p[2], p[3], p[4])
    BY ComposeRelProdLocal
  <2>2. QED
    BY <1>6, <1>10, <2>1
<1>12. \A p \in S : _composeRelProd_rec[p] = f[p]
  <2> HIDE DEF S, T, R
  <2>1. \A x \in S : R[x] \in Nat
    BY <1>1
  <2>2. QED
    BY <1>11, <2>1, Agreement
<1>13. QED
  BY <1>5, <1>10, <1>12

\* _composeRelProd is the relational product of the image of its first operand and
\* the second one, when the substitution keeps the variables of the first one apart.
THEOREM LazyRelProdMeaning ==
  ASSUME NEW a \in BDD, NEW b \in BDD, NEW x \in Cubes, NEW s \in Assocs
  PROVE  /\ _composeRelProd(a, b, x, s) \in BDD
         /\ Injective(a, s) =>
              Sat(_composeRelProd(a, b, x, s)) = ExistsSat(ComposeSat(a, s) \cap Sat(b), VarsOf(x))
<1>1. <<<<a, b, x, s>>, _composeRelProd(a, b, x, s)>> \in ComposeRelProdGood
  BY ComposeRelProdSolved DEF _composeRelProd
<1>2. QED
  BY <1>1, ComposeRelProdGoodFacts

\* The variable that is looked at next, of three operands.
LEMMA CITEArgs ==
  ASSUME NEW a \in BDD, NEW b \in BDD, NEW c \in BDD, ~isConstant(a), NEW s \in Assocs,
         ~isConstant(dest(s, var(a))), NEW m, m = minVar3(dest(s, var(a)), b, c)
  PROVE  /\ m \in Vars
         /\ cf_left(b, m) \in BDD /\ Sat(cf_left(b, m)) = Low(Sat(b), m)
         /\ cf_right(b, m) \in BDD /\ Sat(cf_right(b, m)) = High(Sat(b), m)
         /\ cf_left(c, m) \in BDD /\ Sat(cf_left(c, m)) = Low(Sat(c), m)
         /\ cf_right(c, m) \in BDD /\ Sat(cf_right(c, m)) = High(Sat(c), m)
         /\ rank(Rest0(a, s, m)) + rank(cf_left(b, m)) + rank(cf_left(c, m))
              < rank(a) + rank(b) + rank(c)
         /\ rank(Rest1(a, s, m)) + rank(cf_right(b, m)) + rank(cf_right(c, m))
              < rank(a) + rank(b) + rank(c)
<1>0. PICK d \in BDD : d = dest(s, var(a)) /\ ~isConstant(d)
  BY NodeFacts, DestFacts
<1>1. /\ m \in Vars /\ StartsAt(b, m) /\ StartsAt(c, m)
      /\ m = var(d) \/ m = var(b) \/ m = var(c)
  <2>1. CASE isConstant(b)
    <3>1. m = minVar(d, c)
      BY <1>0, <2>1, Zenon DEF minVar3
    <3>2. m \in Vars /\ StartsAt(c, m)
      BY <1>0, <3>1, MinVarFacts
    <3>3. m = var(d) \/ m = var(c)
      BY <3>1 DEF minVar
    <3>4. QED
      BY <2>1, <3>2, <3>3 DEF StartsAt
  <2>2. CASE ~isConstant(b) /\ isConstant(c)
    <3>1. m = minVar(d, b)
      BY <1>0, <2>2, Zenon DEF minVar3
    <3>2. m \in Vars /\ StartsAt(b, m)
      BY <1>0, <3>1, MinVarFacts
    <3>3. m = var(d) \/ m = var(b)
      BY <3>1 DEF minVar
    <3>4. QED
      BY <2>2, <3>2, <3>3 DEF StartsAt
  <2>3. CASE ~isConstant(b) /\ ~isConstant(c)
    <3> DEFINE V == {var(d), var(b), var(c)}
    <3>1. m = Min(V)
      BY <1>0, <2>3, Zenon DEF minVar3
    <3>2. V \in SUBSET Vars /\ V # {}
      BY <1>0, <2>3, NodeFacts
    <3>3. Min(V) \in V /\ \A i \in V : Min(V) <= i
      <4> HIDE DEF V
      <4>1. QED
        BY <3>2, MinMaxVars
    <3>4. QED
      BY <3>1, <3>2, <3>3 DEF StartsAt
  <2>4. QED
    BY <2>1, <2>2, <2>3
<1>2. \A h \in {b, c} :
        /\ cf_left(h, m) \in BDD /\ Sat(cf_left(h, m)) = Low(Sat(h), m)
        /\ cf_right(h, m) \in BDD /\ Sat(cf_right(h, m)) = High(Sat(h), m)
        /\ rank(cf_left(h, m)) <= rank(h) /\ rank(cf_right(h, m)) <= rank(h)
        /\ m = var(h) => rank(cf_left(h, m)) < rank(h) /\ rank(cf_right(h, m)) < rank(h)
  BY <1>1, CofactorFacts
<1>4. /\ rank(Rest0(a, s, m)) <= rank(a) /\ rank(Rest1(a, s, m)) <= rank(a)
      /\ m = var(d) => rank(Rest0(a, s, m)) < rank(a) /\ rank(Rest1(a, s, m)) < rank(a)
      /\ Rest0(a, s, m) \in BDD /\ Rest1(a, s, m) \in BDD
  BY <1>0, <1>1, RestFacts
<1>5. /\ rank(a) \in Nat /\ rank(b) \in Nat /\ rank(c) \in Nat
      /\ rank(cf_left(b, m)) \in Nat /\ rank(cf_right(b, m)) \in Nat
      /\ rank(cf_left(c, m)) \in Nat /\ rank(cf_right(c, m)) \in Nat
      /\ rank(Rest0(a, s, m)) \in Nat /\ rank(Rest1(a, s, m)) \in Nat
  BY <1>2, <1>4, RankFacts
<1>6. /\ rank(cf_left(b, m)) <= rank(b) /\ rank(cf_right(b, m)) <= rank(b)
      /\ m = var(b) => rank(cf_left(b, m)) < rank(b) /\ rank(cf_right(b, m)) < rank(b)
      /\ rank(cf_left(c, m)) <= rank(c) /\ rank(cf_right(c, m)) <= rank(c)
      /\ m = var(c) => rank(cf_left(c, m)) < rank(c) /\ rank(cf_right(c, m)) < rank(c)
  BY <1>2
<1>7. /\ rank(Rest0(a, s, m)) + rank(cf_left(b, m)) + rank(cf_left(c, m))
           < rank(a) + rank(b) + rank(c)
      /\ rank(Rest1(a, s, m)) + rank(cf_right(b, m)) + rank(cf_right(c, m))
           < rank(a) + rank(b) + rank(c)
  BY <1>1, <1>4, <1>5, <1>6
<1>8. QED
  BY <1>1, <1>2, <1>7

\* Negation brings in no variable.
LEMMA NotSupport == \A a \in BDD : Support(notop(a)) \subseteq Support(a)
<1> DEFINE P == {a \in BDD : Support(notop(a)) \subseteq Support(a)}
<1>1. ASSUME NEW a \in BDD, \A c \in BDD : Rank0(BDD)[c] < Rank0(BDD)[a] => c \in P
      PROVE  a \in P
  <2>0. notop(a) \in BDD /\ Sat(notop(a)) = Valuations \ Sat(a)
    BY NotMeaning
  <2>1. CASE isConstant(a)
    <3>1. a = True \/ a = False
      BY <2>1, BDDElim
    <3>2. Sat(notop(a)) = {} \/ Sat(notop(a)) = Valuations
      BY <2>0, <3>1, SatConstants
    <3>3. notop(a) = False \/ notop(a) = True
      BY <2>0, <3>2, SatConstants, ConstantFacts, Canonicity
    <3>4. Support(notop(a)) = {}
      BY <3>3, SupportFacts, ConstantFacts
    <3>5. QED
      BY <3>4
  <2>2. CASE ~isConstant(a)
    <3>0. PICK m : m = var(a)
      OBVIOUS
    <3> DEFINE l == notop(left(a))
               r == notop(right(a))
    <3>1. /\ m \in Vars /\ left(a) \in BDD /\ right(a) \in BDD
          /\ Sat(left(a)) = Low(Sat(a), m) /\ Sat(right(a)) = High(Sat(a), m)
          /\ rank(left(a)) < rank(a) /\ rank(right(a)) < rank(a) /\ From(Sat(a), m)
      BY <2>2, <3>0, NodeFacts
    <3>2. Support(a) = {m} \cup Support(left(a)) \cup Support(right(a))
      BY <2>2, <3>0, SupportFacts
    <3>3. Support(l) \subseteq Support(left(a)) /\ Support(r) \subseteq Support(right(a))
      BY <1>1, <3>1 DEF Rank0
    <3>4. /\ l \in BDD /\ Sat(l) = Valuations \ Low(Sat(a), m)
          /\ r \in BDD /\ Sat(r) = Valuations \ High(Sat(a), m)
      BY <3>1, NotMeaning
    <3>5. Above(left(a), m) /\ Above(right(a), m)
      BY <2>2, <3>0, BDDElim DEF IsNode
    <3>6. m \in Int
      BY <3>1, NumVarsAssumption DEF Vars
    <3> HIDE DEF l, r
    <3>7. Above(l, m) /\ Above(r, m)
      BY <3>1, <3>3, <3>4, <3>5, <3>6, SupportStartsAt
    <3>8. /\ find(m, l, r) \in BDD
          /\ Support(find(m, l, r)) \subseteq {m} \cup Support(l) \cup Support(r)
          /\ \A v \in Valuations :
               v \in Sat(find(m, l, r)) <=> IF v[m] THEN v \in Sat(r) ELSE v \in Sat(l)
      BY <3>1, <3>4, <3>7, FindFacts
    <3>9. Sat(find(m, l, r)) = Sat(notop(a))
      <4>1. \A v \in Valuations :
              v \in Sat(a) <=> IF v[m] THEN v \in High(Sat(a), m) ELSE v \in Low(Sat(a), m)
        BY <3>1, SatType, LowHigh
      <4>2. Sat(find(m, l, r)) \in SUBSET Valuations
        BY <3>8, SatType
      <4>3. QED
        BY <2>0, <3>4, <3>8, <4>1, <4>2
    <3>10. notop(a) = find(m, l, r)
      BY <2>0, <3>8, <3>9, Canonicity
    <3>11. QED
      BY <3>2, <3>3, <3>8, <3>10
  <2>3. QED
    BY <2>1, <2>2
<1>2. \A a \in BDD : a \in P
  <2>1. \A b \in BDD : Rank0(BDD)[b] \in Nat
    BY RankBound0
  <2> HIDE DEF P
  <2>2. QED
    BY <1>1, <2>1, Induction
<1>3. QED
  BY <1>2

\* Negation under a substitution.
LEMMA NotImage ==
  ASSUME NEW a \in BDD, NEW s \in Assocs
  PROVE  /\ ComposeSat(notop(a), s) = Valuations \ ComposeSat(a, s)
         /\ Injective(a, s) => Injective(notop(a), s)
<1>1. notop(a) \in BDD /\ Sat(notop(a)) = Valuations \ Sat(a)
  BY NotMeaning
<1>2. \A v \in Valuations : Under(v, s) \in Valuations
  BY UnderFacts
<1>3. \A u \in Valuations : Holds(notop(a), u) <=> ~Holds(a, u)
  BY <1>1 DEF Sat
<1>4. ComposeSat(notop(a), s) = Valuations \ ComposeSat(a, s)
  BY <1>2, <1>3 DEF ComposeSat
<1>5. QED
  BY <1>4, NotSupport DEF Injective

\* cITEexists
CITEGood ==
  {q \in (BDD \X BDD \X BDD \X Cubes \X Assocs) \X BDD :
     Injective(q[1][1], q[1][5]) =>
       Sat(q[2]) = ExistsSat(IteSat(ComposeSat(q[1][1], q[1][5]), Sat(q[1][2]), Sat(q[1][3])),
                             VarsOf(q[1][4]))}

\* What makes a result of cITEexists good.
LEMMA CITEGoodFacts ==
  ASSUME NEW a \in BDD, NEW b \in BDD, NEW c \in BDD, NEW x \in Cubes, NEW s \in Assocs, NEW r
  PROVE  <<<<a, b, c, x, s>>, r>> \in CITEGood <=>
           /\ r \in BDD
           /\ Injective(a, s) =>
                Sat(r) = ExistsSat(IteSat(ComposeSat(a, s), Sat(b), Sat(c)), VarsOf(x))
BY DEF CITEGood

\* The body of cITEexists returns a good result when its calls do.
LEMMA CITEStep ==
  ASSUME NEW f, NEW p \in BDD \X BDD \X BDD \X Cubes \X Assocs,
         GoodBelow(BDD \X BDD \X BDD \X Cubes \X Assocs,
                   Rank3(BDD \X BDD \X BDD \X Cubes \X Assocs), CITEGood, f, p)
  PROVE  /\ <<p, cITEexists_body(f, p[1], p[2], p[3], p[4], p[5])>> \in CITEGood
         /\ cITEexists_body(f, p[1], p[2], p[3], p[4], p[5]) \in BDD
<1> PICK a \in BDD, b \in BDD, c \in BDD, xs \in Cubes, s \in Assocs : p = <<a, b, c, xs, s>>
  OBVIOUS
<1> DEFINE res == cITEexists_body(f, a, b, c, xs, s)
           X == VarsOf(xs)
           A == ComposeSat(a, s)
           B == Sat(b)
           C == Sat(c)
           G == IteSat(A, B, C)
<1> SUFFICES res \in BDD /\ (Injective(a, s) => Sat(res) = ExistsSat(G, X))
  BY CITEGoodFacts
<1>1. X \in SUBSET Vars /\ A \in SatSets /\ B \in SatSets /\ C \in SatSets
  BY CubeElim, ComposeSatFacts, SatType DEF SatSets
<1>2. /\ ExistsSat({}, X) = {} /\ False \in BDD /\ Sat(False) = {}
      /\ ExistsSat(Valuations, X) = Valuations /\ True \in BDD /\ Sat(True) = Valuations
  BY <1>1, ExistsSatFacts, SatConstants, ConstantFacts
<1>3. CASE a = False
  <2>1. A = {}
    BY <1>3, ComposeSatFacts
  <2>2. G = C
    BY <2>1 DEF IteSat
  <2>3. res = exists(c, xs)
    BY <1>3, ConstantFacts DEF cITEexists_body
  <2> HIDE DEF res, G
  <2>4. QED
    BY <2>2, <2>3, ExistsMeaning
<1>4. CASE a = True
  <2>1. A = Valuations
    BY <1>4, ComposeSatFacts
  <2>2. G = B
    BY <1>1, <2>1 DEF IteSat, SatSets
  <2>3. res = exists(b, xs)
    BY <1>4, ConstantFacts DEF cITEexists_body
  <2> HIDE DEF res, G
  <2>4. QED
    BY <2>2, <2>3, ExistsMeaning
<1>5. CASE ~isConstant(a) /\ (b = True \/ b = False) /\ (c = True \/ c = False)
  <2>1. a # True /\ a # False
    BY <1>5, ConstantFacts
  <2>2. CASE c = False /\ b = False
    <3>1. G = {}
      BY <1>2, <2>2 DEF IteSat
    <3>2. res = False
      BY <2>1, <2>2 DEF cITEexists_body
    <3> HIDE DEF res, G
    <3>3. QED
      BY <1>2, <3>1, <3>2
  <2>3. CASE c = False /\ b = True
    <3>1. G = A
      BY <1>1, <1>2, <2>3 DEF IteSat, SatSets
    <3>2. res = _composeExists(a, xs, s)
      BY <2>1, <2>3, ConstantFacts DEF cITEexists_body
    <3> HIDE DEF res, G
    <3>3. QED
      BY <3>1, <3>2, ComposeExistsMeaning
  <2>4. CASE c = True /\ b = True
    <3>1. G = Valuations
      BY <1>1, <1>2, <2>4 DEF IteSat, SatSets
    <3>2. res = True
      BY <2>1, <2>4, ConstantFacts DEF cITEexists_body
    <3> HIDE DEF res, G
    <3>3. QED
      BY <1>2, <3>1, <3>2
  <2>5. CASE c = True /\ b = False
    <3>1. G = Valuations \ A
      BY <1>1, <1>2, <2>5 DEF IteSat, SatSets
    <3>2. res = _composeExists(notop(a), xs, s)
      BY <2>1, <2>5, ConstantFacts DEF cITEexists_body
    <3>3. notop(a) \in BDD /\ ComposeSat(notop(a), s) = Valuations \ A
          /\ (Injective(a, s) => Injective(notop(a), s))
      BY NotMeaning, NotImage
    <3>4. /\ _composeExists(notop(a), xs, s) \in BDD
          /\ Injective(notop(a), s) =>
               Sat(_composeExists(notop(a), xs, s)) = ExistsSat(ComposeSat(notop(a), s), X)
      BY <3>3, ComposeExistsMeaning
    <3> HIDE DEF res, G, A, X
    <3>5. QED
      BY <3>1, <3>2, <3>3, <3>4
  <2>6. QED
    BY <1>5, <2>2, <2>3, <2>4, <2>5
<1>6. CASE /\ ~isConstant(a) /\ ~((b = True \/ b = False) /\ (c = True \/ c = False))
           /\ isConstant(dest(s, var(a)))
  <2>1. a # True /\ a # False
    BY <1>6, ConstantFacts
  <2>2. dest(s, var(a)) = True \/ dest(s, var(a)) = False
    BY <1>6, NodeFacts, DestFacts, BDDElim
  <2>3. res = exists(c, xs) \/ res = exists(b, xs)
    BY <1>6, <2>1, <2>2 DEF cITEexists_body
  <2>4. ~Injective(a, s)
    <3>1. \A j \in Vars : ~isConstant(find_var(j))
      BY FindVar, BDDElim
    <3>2. QED
      BY <1>6, <3>1, InjectiveFacts
  <2> HIDE DEF res
  <2>5. QED
    BY <2>3, <2>4, ExistsMeaning
<1>7. CASE /\ ~isConstant(a) /\ ~((b = True \/ b = False) /\ (c = True \/ c = False))
           /\ ~isConstant(dest(s, var(a)))
  <2> DEFINE x == SkipImage(s, a, {b, c}, xs)
             Y == VarsOf(x)
  <2>0. PICK m : m = minVar3(dest(s, var(a)), b, c)
    OBVIOUS
  <2> DEFINE z == _subtract_vars(x, m)
             a0 == Rest0(a, s, m)
             a1 == Rest1(a, s, m)
             b0 == cf_left(b, m)
             b1 == cf_right(b, m)
             c0 == cf_left(c, m)
             c1 == cf_right(c, m)
             e == f[<<a0, b0, c0, z, s>>]
             t == f[<<a1, b1, c1, z, s>>]
             P == IteSat(ComposeSat(a1, s), High(B, m), High(C, m))
             Q == IteSat(ComposeSat(a0, s), Low(B, m), Low(C, m))
  <2>1. /\ m \in Vars
        /\ b0 \in BDD /\ Sat(b0) = Low(B, m) /\ b1 \in BDD /\ Sat(b1) = High(B, m)
        /\ c0 \in BDD /\ Sat(c0) = Low(C, m) /\ c1 \in BDD /\ Sat(c1) = High(C, m)
        /\ rank(a0) + rank(b0) + rank(c0) < rank(a) + rank(b) + rank(c)
        /\ rank(a1) + rank(b1) + rank(c1) < rank(a) + rank(b) + rank(c)
    BY <1>7, <2>0, CITEArgs
  <2>2. /\ a0 \in BDD /\ a1 \in BDD
        /\ A = IteSat(Sat(find_var(m)), ComposeSat(a1, s), ComposeSat(a0, s))
        /\ Injective(a, s) => Injective(a0, s) /\ Injective(a1, s)
    BY <1>7, <2>1, RestFacts
  <2>3. /\ x \in Cubes
        /\ \E K \in Nat : Y = {i \in X : K <= i} /\ From(A, K) /\ From(B, K) /\ From(C, K)
    <3>1. {b, c} \in SUBSET BDD
      OBVIOUS
    <3>2. /\ x \in Cubes
          /\ \E K \in Nat : /\ Y = {i \in X : K <= i} /\ From(A, K)
                            /\ \A h \in {b, c} : From(Sat(h), K)
      BY <1>7, <3>1, SkipImageFacts
    <3>3. b \in {b, c} /\ c \in {b, c}
      OBVIOUS
    <3> HIDE DEF x, Y, X, A
    <3>4. QED
      BY <3>2, <3>3
  <2>4. Y \in SUBSET Vars /\ (x = True <=> Y = {})
    BY <2>3, CubeElim
  <2>5. z \in Cubes /\ VarsOf(z) = Y \ {m}
    BY <2>1, <2>3, SubtractFacts
  <2>6. <<<<a0, b0, c0, z, s>>, e>> \in CITEGood /\ <<<<a1, b1, c1, z, s>>, t>> \in CITEGood
    <3> HIDE DEF z, a0, a1, b0, b1, c0, c1
    <3>1. QED
      BY <2>1, <2>2, <2>5 DEF GoodBelow, Rank3
  <2>7. res = IF x = True THEN composeITE(a, b, c, s) ELSE fastIteExistsWithVar(m, t, e, x)
    <3>1. /\ a # True /\ a # False /\ dest(s, var(a)) # True /\ dest(s, var(a)) # False
      BY <1>7, ConstantFacts
    <3>2. QED
      BY <1>7, <2>0, <3>1 DEF cITEexists_body, Rest0, Rest1
  <2>8. ExistsSat(G, X) = ExistsSat(G, Y) /\ G \in SatSets
    <3>1. PICK K \in Nat : Y = {i \in X : K <= i} /\ From(A, K) /\ From(B, K) /\ From(C, K)
      BY <2>3
    <3> HIDE DEF x, Y, A, B, C, X
    <3>3. K \in Int
      OBVIOUS
    <3>4. From(G, K) /\ G \in SatSets
      BY <1>1, <3>1, IteSatFacts
    <3> HIDE DEF G
    <3>5. QED
      BY <1>1, <3>1, <3>3, <3>4, ExistsSatFrom
  <2>9. compose(a, s) \in BDD /\ Sat(compose(a, s)) = A
    BY SubstMeaning
  <2>10. /\ ComposeSat(a0, s) \in SatSets /\ ComposeSat(a1, s) \in SatSets
         /\ Low(B, m) \in SatSets /\ High(B, m) \in SatSets
         /\ Low(C, m) \in SatSets /\ High(C, m) \in SatSets
    BY <1>1, <2>1, <2>2, ComposeSatFacts, CofactorTypes
  <2>11. G = IteSat(Sat(find_var(m)), P, Q)
    <3> HIDE DEF a0, a1, A, B, C
    <3>1. QED
      BY <1>1, <2>1, <2>2, <2>10, IteSplit
  <2>12. /\ e \in BDD /\ t \in BDD
         /\ Injective(a, s) => Sat(e) = ExistsSat(Q, Y \ {m}) /\ Sat(t) = ExistsSat(P, Y \ {m})
    <3>1. /\ e \in BDD /\ (Injective(a0, s) =>
                Sat(e) = ExistsSat(IteSat(ComposeSat(a0, s), Sat(b0), Sat(c0)), VarsOf(z)))
          /\ t \in BDD /\ (Injective(a1, s) =>
                Sat(t) = ExistsSat(IteSat(ComposeSat(a1, s), Sat(b1), Sat(c1)), VarsOf(z)))
      <4> HIDE DEF z, a0, a1, b0, b1, c0, c1, e, t
      <4>1. /\ a0 \in BDD /\ b0 \in BDD /\ c0 \in BDD /\ z \in Cubes
            /\ <<<<a0, b0, c0, z, s>>, e>> \in CITEGood
        BY <2>1, <2>2, <2>5, <2>6
      <4>2. /\ a1 \in BDD /\ b1 \in BDD /\ c1 \in BDD /\ z \in Cubes
            /\ <<<<a1, b1, c1, z, s>>, t>> \in CITEGood
        BY <2>1, <2>2, <2>5, <2>6
      <4> HIDE DEF A, B, C, X, Y, G, P, Q, x, res
      <4>3. e \in BDD /\ (Injective(a0, s) =>
                Sat(e) = ExistsSat(IteSat(ComposeSat(a0, s), Sat(b0), Sat(c0)), VarsOf(z)))
        BY <4>1, CITEGoodFacts
      <4>4. t \in BDD /\ (Injective(a1, s) =>
                Sat(t) = ExistsSat(IteSat(ComposeSat(a1, s), Sat(b1), Sat(c1)), VarsOf(z)))
        BY <4>2, CITEGoodFacts
      <4>5. QED
        BY <4>3, <4>4
    <3> HIDE DEF z, a0, a1, b0, b1, c0, c1, e, t
    <3>2. QED
      BY <2>1, <2>2, <2>5, <3>1
  <2>13. P \in SatSets /\ Q \in SatSets
    BY <2>10, IteSatFacts
  <2> HIDE DEF z, a0, a1, b0, b1, c0, c1, e, t, P, Q, G, Y, x, X, res
  <2>14. CASE x = True
    <3>1. ExistsSat(G, Y) = G
      BY <2>4, <2>8, <2>14, ExistsSatFacts
    <3>2. res = ite(compose(a, s), b, c)
      BY <2>7, <2>14 DEF composeITE
    <3>3. res \in BDD /\ Sat(res) = IteSat(A, B, C)
      <4>1. /\ ite(compose(a, s), b, c) \in BDD
            /\ Sat(ite(compose(a, s), b, c)) = IteSat(Sat(compose(a, s)), Sat(b), Sat(c))
        BY <2>9, IteMeaning
      <4>2. QED
        BY <2>9, <3>2, <4>1
    <3>4. QED
      BY <2>8, <3>1, <3>3 DEF G
  <2>15. CASE x # True
    <3>1. res = fastIteExistsWithVar(m, t, e, x)
      BY <2>7, <2>15
    <3>2. res \in BDD
      BY <2>1, <2>3, <2>12, <3>1, FastFacts
    <3>3. ASSUME Injective(a, s) PROVE Sat(res) = ExistsSat(G, Y)
      <4>1. Sat(e) = ExistsSat(Q, VarsOf(x) \ {m}) /\ Sat(t) = ExistsSat(P, VarsOf(x) \ {m})
        BY <2>12, <3>3 DEF Y
      <4>2. Sat(res) = ExistsSat(IteSat(Sat(find_var(m)), P, Q), VarsOf(x))
        BY <2>1, <2>3, <2>12, <2>13, <3>1, <4>1, FastExists
      <4>3. QED
        BY <2>11, <4>2 DEF Y
    <3>4. QED
      BY <2>8, <3>2, <3>3
  <2>16. QED
    BY <2>14, <2>15
<1>8. QED
  BY <1>3, <1>4, <1>5, <1>6, <1>7, BDDElim

\* The body of cITEexists looks at smaller operands only.
LEMMA CITELocal ==
  ASSUME NEW f, NEW g, NEW p \in BDD \X BDD \X BDD \X Cubes \X Assocs,
         AgreeBelow(BDD \X BDD \X BDD \X Cubes \X Assocs,
                    Rank3(BDD \X BDD \X BDD \X Cubes \X Assocs), f, g, p)
  PROVE  cITEexists_body(f, p[1], p[2], p[3], p[4], p[5])
           = cITEexists_body(g, p[1], p[2], p[3], p[4], p[5])
<1> PICK a \in BDD, b \in BDD, c \in BDD, xs \in Cubes, s \in Assocs : p = <<a, b, c, xs, s>>
  OBVIOUS
<1>1. CASE isConstant(a) \/ isConstant(dest(s, var(a)))
  <2>1. a = True \/ a = False \/ dest(s, var(a)) = True \/ dest(s, var(a)) = False
    <3>1. CASE isConstant(a)
      BY <3>1, BDDElim
    <3>2. CASE ~isConstant(a)
      BY <1>1, <3>2, NodeFacts, DestFacts, BDDElim
    <3>3. QED
      BY <3>1, <3>2
  <2>2. QED
    BY <2>1 DEF cITEexists_body
<1>2. CASE ~isConstant(a) /\ ~isConstant(dest(s, var(a)))
  <2>0. PICK m : m = minVar3(dest(s, var(a)), b, c)
    OBVIOUS
  <2> DEFINE x == SkipImage(s, a, {b, c}, xs)
             z == _subtract_vars(x, m)
             a0 == Rest0(a, s, m)
             a1 == Rest1(a, s, m)
             b0 == cf_left(b, m)
             b1 == cf_right(b, m)
             c0 == cf_left(c, m)
             c1 == cf_right(c, m)
  <2>1. /\ m \in Vars /\ b0 \in BDD /\ b1 \in BDD /\ c0 \in BDD /\ c1 \in BDD
        /\ rank(a0) + rank(b0) + rank(c0) < rank(a) + rank(b) + rank(c)
        /\ rank(a1) + rank(b1) + rank(c1) < rank(a) + rank(b) + rank(c)
    BY <1>2, <2>0, CITEArgs
  <2>2. a0 \in BDD /\ a1 \in BDD
    BY <1>2, <2>1, RestFacts
  <2>3. x \in Cubes
    <3>1. {b, c} \in SUBSET BDD
      OBVIOUS
    <3>2. QED
      BY <1>2, <3>1, SkipImageFacts
  <2>4. z \in Cubes
    BY <2>1, <2>3, SubtractFacts
  <2>5. /\ f[<<a0, b0, c0, z, s>>] = g[<<a0, b0, c0, z, s>>]
        /\ f[<<a1, b1, c1, z, s>>] = g[<<a1, b1, c1, z, s>>]
    <3> HIDE DEF z, a0, a1, b0, b1, c0, c1
    <3>1. QED
      BY <2>1, <2>2, <2>4 DEF AgreeBelow, Rank3
  <2>6. QED
    BY <2>0, <2>5 DEF cITEexists_body, Rest0, Rest1
<1>3. QED
  BY <1>1, <1>2

\* cITEexists: the recursion has a solution, and its results are good.
LEMMA CITESolved ==
  \A p \in BDD \X BDD \X BDD \X Cubes \X Assocs : cITEexists_rec[p] = cITEexists_body(cITEexists_rec, p[1], p[2], p[3], p[4], p[5]) /\ <<p, cITEexists_rec[p]>> \in CITEGood
<1> DEFINE S == BDD \X BDD \X BDD \X Cubes \X Assocs
           T == BDD
           R == Rank3(BDD \X BDD \X BDD \X Cubes \X Assocs)
           H == [q \in [S -> T] \X S |-> cITEexists_body(q[1], q[2][1], q[2][2], q[2][3], q[2][4], q[2][5])]
           Solves(g) == g = [p \in S |-> cITEexists_body(g, p[1], p[2], p[3], p[4], p[5])]
<1>1. \A x \in S : R[x] \in Nat /\ R[x] <= 3 * NumVars
  BY RankBounds
<1>2. \A g \in [S -> T], x \in S : GoodBelow(S, R, CITEGood, g, x)
         => H[<<g, x>>] \in T /\ <<x, H[<<g, x>>]>> \in CITEGood
  <2> SUFFICES ASSUME NEW g \in [S -> T], NEW p \in S, GoodBelow(S, R, CITEGood, g, p)
               PROVE  H[<<g, p>>] \in T /\ <<p, H[<<g, p>>]>> \in CITEGood
    OBVIOUS
  <2>1. H[<<g, p>>] = cITEexists_body(g, p[1], p[2], p[3], p[4], p[5])
    OBVIOUS
  <2>2. <<p, cITEexists_body(g, p[1], p[2], p[3], p[4], p[5])>> \in CITEGood /\ cITEexists_body(g, p[1], p[2], p[3], p[4], p[5]) \in T
    BY CITEStep
  <2>3. QED
    BY <2>1, <2>2
<1>3. \A g, h \in [S -> T], x \in S : AgreeBelow(S, R, g, h, x) => H[<<g, x>>] = H[<<h, x>>]
  <2> SUFFICES ASSUME NEW g \in [S -> T], NEW h \in [S -> T], NEW p \in S,
                      AgreeBelow(S, R, g, h, p)
               PROVE  H[<<g, p>>] = H[<<h, p>>]
    OBVIOUS
  <2>1. H[<<g, p>>] = cITEexists_body(g, p[1], p[2], p[3], p[4], p[5]) /\ H[<<h, p>>] = cITEexists_body(h, p[1], p[2], p[3], p[4], p[5])
    OBVIOUS
  <2>2. cITEexists_body(g, p[1], p[2], p[3], p[4], p[5]) = cITEexists_body(h, p[1], p[2], p[3], p[4], p[5])
    BY CITELocal
  <2>3. QED
    BY <2>1, <2>2
<1>4. T # {} /\ 3 * NumVars \in Nat
  BY ConstantFacts, NumVarsAssumption
<1>5. PICK f \in [S -> T] : \A x \in S : f[x] = H[<<f, x>>] /\ <<x, f[x]>> \in CITEGood
  <2> HIDE DEF S, T, R, H
  <2>1. Solvable(S, T, H, CITEGood)
    BY <1>1, <1>2, <1>3, <1>4, Solution
  <2>2. QED
    BY <2>1 DEF Solvable
<1>6. \A p \in S : f[p] = cITEexists_body(f, p[1], p[2], p[3], p[4], p[5])
  BY <1>5
<1>7. Solves(f)
  <2>1. f = [p \in S |-> f[p]]
    OBVIOUS
  <2>2. QED
    BY <1>6, <2>1
<1>8. cITEexists_rec = CHOOSE g : Solves(g)
  BY Zenon DEF cITEexists_rec
<1>9. Solves(cITEexists_rec)
  BY <1>7, <1>8
<1>10. \A p \in S : cITEexists_rec[p] = cITEexists_body(cITEexists_rec, p[1], p[2], p[3], p[4], p[5])
  BY <1>9
<1>11. \A p \in S : AgreeBelow(S, R, cITEexists_rec, f, p) => cITEexists_rec[p] = f[p]
  <2> SUFFICES ASSUME NEW p \in S, AgreeBelow(S, R, cITEexists_rec, f, p)
               PROVE  cITEexists_rec[p] = f[p]
    OBVIOUS
  <2>1. cITEexists_body(cITEexists_rec, p[1], p[2], p[3], p[4], p[5]) = cITEexists_body(f, p[1], p[2], p[3], p[4], p[5])
    BY CITELocal
  <2>2. QED
    BY <1>6, <1>10, <2>1
<1>12. \A p \in S : cITEexists_rec[p] = f[p]
  <2> HIDE DEF S, T, R
  <2>1. \A x \in S : R[x] \in Nat
    BY <1>1
  <2>2. QED
    BY <1>11, <2>1, Agreement
<1>13. QED
  BY <1>5, <1>10, <1>12

\* cITEexists quantifies the if-then-else of the image of its first operand, when the
\* substitution keeps the variables of that operand apart.
THEOREM CITEMeaning ==
  ASSUME NEW a \in BDD, NEW b \in BDD, NEW c \in BDD, NEW x \in Cubes, NEW s \in Assocs
  PROVE  /\ cITEexists(a, b, c, x, s) \in BDD
         /\ Injective(a, s) =>
              Sat(cITEexists(a, b, c, x, s))
                = ExistsSat(IteSat(ComposeSat(a, s), Sat(b), Sat(c)), VarsOf(x))
<1>1. <<<<a, b, c, x, s>>, cITEexists(a, b, c, x, s)>> \in CITEGood
  BY CITESolved DEF cITEexists
<1>2. QED
  BY <1>1, CITEGoodFacts

\* composeRelProd
THEOREM ComposeRelProdMeaning ==
  ASSUME NEW a \in BDD, NEW b \in BDD, NEW x \in Cubes, NEW s \in Assocs
  PROVE  /\ composeRelProd(a, b, x, s) \in BDD
         /\ Injective(b, s) =>
              Sat(composeRelProd(a, b, x, s)) = ExistsSat(Sat(a) \cap ComposeSat(b, s), VarsOf(x))
<1> DEFINE A == Sat(a)
           B == ComposeSat(b, s)
           r == composeRelProd(a, b, x, s)
<1>1. A \in SUBSET Valuations /\ B \in SUBSET Valuations /\ B \cap A = A \cap B
  BY SatType DEF ComposeSat
<1>2. CASE isIdentity(s)
  <2>1. Sat(b) = B
    BY <1>2, SubstMeaning DEF compose
  <2>2. r = relProd(a, b, x)
    BY <1>2 DEF composeRelProd
  <2> HIDE DEF B, r
  <2>3. QED
    BY <2>1, <2>2, RelProdMeaning DEF B, r
<1>3. CASE ~isIdentity(s) /\ isVarSub(s)
  <2>1. r = _composeRelProd(b, a, x, s)
    BY <1>3 DEF composeRelProd
  <2>2. r \in BDD /\ (Injective(b, s) => Sat(r) = ExistsSat(B \cap A, VarsOf(x)))
    BY <2>1, LazyRelProdMeaning
  <2>3. QED
    BY <1>1, <2>2
<1>4. CASE ~isIdentity(s) /\ ~isVarSub(s)
  <2>1. r = cITEexists(b, a, False, x, s)
    BY <1>4 DEF composeRelProd
  <2>2. /\ r \in BDD
        /\ Injective(b, s) => Sat(r) = ExistsSat(IteSat(B, A, Sat(False)), VarsOf(x))
    BY <2>1, ConstantFacts, CITEMeaning
  <2>3. IteSat(B, A, Sat(False)) = A \cap B
    BY <1>1, SatConstants DEF IteSat
  <2> HIDE DEF r
  <2>4. QED
    BY <2>2, <2>3 DEF r
<1>5. QED
  BY <1>2, <1>3, <1>4

\* composeForallImplies
THEOREM ComposeForallImpliesMeaning ==
  ASSUME NEW a \in BDD, NEW b \in BDD, NEW x \in Cubes, NEW s \in Assocs
  PROVE  /\ composeForallImplies(a, b, x, s) \in BDD
         /\ Injective(b, s) =>
              Sat(composeForallImplies(a, b, x, s))
                = ForallSat(Valuations \ (Sat(a) \ ComposeSat(b, s)), VarsOf(x))
<1> DEFINE A == Sat(a)
           B == ComposeSat(b, s)
           r == composeForallImplies(a, b, x, s)
<1>1. A \in SUBSET Valuations /\ B \in SUBSET Valuations
  BY SatType DEF ComposeSat
<1>2. CASE isIdentity(s)
  <2>1. Sat(b) = B
    BY <1>2, SubstMeaning DEF compose
  <2>2. r = forallImplies(a, b, x)
    BY <1>2 DEF composeForallImplies
  <2> HIDE DEF B, r
  <2>3. QED
    BY <2>1, <2>2, ForallImpliesMeaning DEF B, r
<1>3. CASE ~isIdentity(s)
  <2> DEFINE q == cITEexists(b, False, a, x, s)
  <2>1. r = notop(q)
    BY <1>3 DEF composeForallImplies
  <2>2. /\ q \in BDD
        /\ Injective(b, s) => Sat(q) = ExistsSat(IteSat(B, Sat(False), A), VarsOf(x))
    BY ConstantFacts, CITEMeaning
  <2>3. IteSat(B, Sat(False), A) = A \ B
    BY <1>1, SatConstants DEF IteSat
  <2>4. Valuations \ (Valuations \ (A \ B)) = A \ B
    BY <1>1
  <2>5. ForallSat(Valuations \ (A \ B), VarsOf(x)) = Valuations \ ExistsSat(A \ B, VarsOf(x))
    BY <2>4 DEF ForallSat
  <2> HIDE DEF r, q
  <2>6. r \in BDD /\ Sat(r) = Valuations \ Sat(q)
    BY <2>1, <2>2, NotMeaning
  <2>7. QED
    BY <2>2, <2>3, <2>5, <2>6 DEF r
<1>4. QED
  BY <1>2, <1>3

===============================================================================
