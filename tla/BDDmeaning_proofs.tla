--------------------------- MODULE BDDmeaning_proofs ---------------------------
(***************************************************************************)
(* What the nodes of the store stand for.  In a well-formed table every    *)
(* node has a Boolean function, two nodes never have the same one, and no  *)
(* step changes it while the node stays.  Hence the entries of the cache   *)
(* keep their meaning and the store implements FunctionService.            *)
(*                                                                         *)
(* The arguments are inductions from the highest variable down to the      *)
(* lowest.  Each is put as the search for a counterexample: if there is    *)
(* one, there is one with the highest variable, and the nodes below it are *)
(* no counterexamples.                                                     *)
(***************************************************************************)
EXTENDS BDDsimple_proofs

\* A non-empty set of naturals has a least element.
LEMMA Least == ASSUME NEW S \in SUBSET Nat, S # {} PROVE \E m \in S : \A k \in S : m <= k
<1>1. PICK m \in S : \A k \in S : ~(<<k, m>> \in OpToRel(<, Nat))
  BY NatLessThanWellFounded, WFMin
<1>2. \A k \in S : ~(k < m)
  BY <1>1 DEF OpToRel
<1>3. QED
  BY <1>2

\* A function into the naturals has a highest value on a finite set.
LEMMA Highest ==
  ASSUME NEW S, IsFiniteSet(S), S # {}, NEW f \in [S -> Nat]
  PROVE  \E m \in S : \A x \in S : f[x] <= f[m]
<1> DEFINE HasHighest(T) == \E m \in T : \A x \in T : f[x] <= f[m]
           Bad == {T \in SUBSET S : T # {} /\ ~HasHighest(T)}
<1> SUFFICES ASSUME Bad # {} PROVE FALSE
  OBVIOUS
<1>1. PICK T \in Bad : \A U \in Bad : ~(<<U, T>> \in StrictSubsetOrdering(S))
  <2>1. Bad \subseteq FiniteSubsetsOf(S)
    BY FS_FiniteSubsetsOfFinite
  <2>2. IsWellFoundedOn(StrictSubsetOrdering(S), FiniteSubsetsOf(S))
    BY FS_StrictSubsetOrderingWellFounded
  <2>3. QED
    BY <2>1, <2>2, WFMin
<1>2. PICK x \in T : TRUE
  OBVIOUS
<1> DEFINE U == T \ {x}
<1>3. U \notin Bad
  BY <1>1, <1>2 DEF StrictSubsetOrdering
<1>4. CASE U = {}
  <2>1. \A y \in T : f[y] <= f[x]
    BY <1>2, <1>4
  <2>2. QED
    BY <1>2, <2>1
<1>5. CASE U # {}
  <2>1. PICK m \in U : \A y \in U : f[y] <= f[m]
    BY <1>3, <1>5
  <2>2. f[x] \in Nat /\ f[m] \in Nat /\ \A y \in T : f[y] \in Nat
    BY <1>2
  <2>3. CASE f[x] <= f[m]
    BY <2>1, <2>3
  <2>4. CASE ~(f[x] <= f[m])
    <3>1. \A y \in T : f[y] <= f[x]
      BY <2>1, <2>2, <2>4
    <3>2. QED
      BY <1>2, <3>1
  <2>5. QED
    BY <2>3, <2>4
<1>6. QED
  BY <1>4, <1>5

-------------------------------------------------------------------------------
\* The tables the invariant allows, and the functions their nodes stand for.

InUse(t) == {a \in Addr : t[a] # NoNode}

WellFormed(t) ==
  /\ t \in [Addr -> Node \cup {NoNode}]
  /\ \A a, b \in InUse(t) : t[a] = t[b] => a = b
  /\ \A a \in InUse(t) :
       /\ t[a].left # t[a].right
       /\ \A c \in {t[a].left, t[a].right} \cap Addr : c \in InUse(t) /\ t[a].var < t[c].var

\* The child of x that the path under s leads to.
Child(t, x, s) == IF t[x].var \in s THEN t[x].right ELSE t[x].left

Value(t, M, x) ==
  {s \in SUBSET Vars : IF x \in Constants THEN x = True
                       ELSE t[x] # NoNode /\ s \in M[Child(t, x, s)]}

Denotes(t, M) == M = [x \in Ref |-> Value(t, M, x)]

\* x is a constant or a node whose variable is above v.
Under(t, v, x) == x \in Constants \/ (x \in InUse(t) /\ v < t[x].var)

\* What is known of one node of a well-formed table.
LEMMA NodeFacts ==
  ASSUME NEW t, WellFormed(t), NEW a \in InUse(t)
  PROVE  /\ a \in Addr /\ a \notin Constants /\ t[a] \in Node
         /\ t[a].var \in Vars /\ t[a].var \in Nat
         /\ t[a].left \in Ref /\ t[a].right \in Ref /\ t[a].left # t[a].right
         /\ Under(t, t[a].var, t[a].left) /\ Under(t, t[a].var, t[a].right)
<1>1. a \in Addr /\ a \notin Constants /\ t[a] \in Node
  BY AddrAssumption DEF WellFormed, InUse
<1>2. t[a].var \in Vars /\ t[a].left \in Ref /\ t[a].right \in Ref
  BY <1>1 DEF Node
<1>3. \A c \in {t[a].left, t[a].right} : Under(t, t[a].var, c)
  BY <1>2 DEF WellFormed, Ref, Under
<1>4. QED
  BY <1>1, <1>2, <1>3, VarsAssumption DEF WellFormed

\* Among the nodes of a set one has the highest variable.
LEMMA HighestNode ==
  ASSUME NEW t, WellFormed(t), NEW B \in SUBSET InUse(t), B # {}
  PROVE  \E b \in B : \A c \in B : ~(t[b].var < t[c].var)
<1> DEFINE f == [b \in B |-> t[b].var]
<1>1. IsFiniteSet(B)
  BY AddrAssumption, FS_Subset DEF InUse
<1>2. f \in [B -> Nat]
  BY NodeFacts
<1>3. PICK b \in B : \A c \in B : f[c] <= f[b]
  <2> HIDE DEF f
  <2>1. QED
    BY <1>1, <1>2, Highest
<1>4. \A c \in B : t[c].var \in Nat /\ t[b].var \in Nat /\ t[c].var <= t[b].var
  BY <1>3, NodeFacts
<1>5. QED
  BY <1>4

\* Every well-formed table has a meaning: it is built variable by variable,
\* from the highest one down.
LEMMA MeaningExists ==
  ASSUME NEW t, WellFormed(t)
  PROVE  \E M : Denotes(t, M)
<1> DEFINE F == [Ref -> SUBSET SUBSET Vars]
           Solved(M, k) == \A x \in Ref : (x \in InUse(t) /\ t[x].var < k) \/ M[x] = Value(t, M, x)
           K == {k \in Nat : \E M \in F : Solved(M, k)}
<1>1. K # {}
  <2> DEFINE M0 == [x \in Ref |-> {s \in SUBSET Vars : x = True}]
  <2>1. M0 \in F
    OBVIOUS
  <2>2. \A x \in Ref : x \in InUse(t) \/ M0[x] = Value(t, M0, x)
    BY AddrAssumption DEF Value, InUse, Ref, Constants
  <2>3. \E k \in Nat : \A a \in InUse(t) : t[a].var < k
    <3>1. CASE InUse(t) = {}
      BY <3>1
    <3>2. CASE InUse(t) # {}
      <4>1. PICK b \in InUse(t) : \A c \in InUse(t) : ~(t[b].var < t[c].var)
        BY <3>2, HighestNode
      <4>2. \A c \in InUse(t) : t[c].var < t[b].var + 1
        BY <4>1, NodeFacts
      <4>3. t[b].var + 1 \in Nat
        BY NodeFacts
      <4>4. QED
        BY <4>2, <4>3
    <3>3. QED
      BY <3>1, <3>2
  <2>4. PICK k \in Nat : \A a \in InUse(t) : t[a].var < k
    BY <2>3
  <2>5. Solved(M0, k)
    BY <2>2, <2>4
  <2>6. QED
    BY <2>1, <2>4, <2>5
<1>2. PICK k \in K : \A j \in K : k <= j
  <2> HIDE DEF K
  <2>1. K \in SUBSET Nat
    BY DEF K
  <2>2. QED
    BY <1>1, <2>1, Least
<1>3. PICK M \in F : Solved(M, k)
  OBVIOUS
<1>4. k = 0
  <2> SUFFICES ASSUME k # 0 PROVE FALSE
    OBVIOUS
  <2> DEFINE N == [x \in Ref |-> IF x \in InUse(t) /\ t[x].var = k - 1 THEN Value(t, M, x) ELSE M[x]]
  <2>1. k - 1 \in Nat /\ k \in Nat
    OBVIOUS
  <2>2. N \in F
    BY DEF Value
  <2>3. Solved(N, k - 1)
    <3> SUFFICES ASSUME NEW x \in Ref, ~(x \in InUse(t) /\ t[x].var < k - 1)
                 PROVE  N[x] = Value(t, N, x)
      OBVIOUS
    <3>1. CASE x \notin InUse(t)
      <4>1. N[x] = Value(t, M, x)
        BY <1>3, <3>1
      <4>2. Value(t, M, x) = Value(t, N, x)
        BY <3>1, AddrAssumption DEF Value, InUse, Ref
      <4>3. QED
        BY <4>1, <4>2
    <3>2. CASE x \in InUse(t)
      <4>1. t[x].var \in Nat /\ t[x].left \in Ref /\ t[x].right \in Ref
            /\ Under(t, t[x].var, t[x].left) /\ Under(t, t[x].var, t[x].right)
        BY <3>2, NodeFacts
      <4>2. N[x] = Value(t, M, x)
        BY <1>3, <2>1, <3>2, <4>1
      <4>3. \A c \in Ref : Under(t, t[x].var, c) => N[c] = M[c]
        <5>1. \A c \in InUse(t) : t[x].var < t[c].var => t[c].var # k - 1
          BY <2>1, <3>2, <4>1, NodeFacts
        <5>2. \A c \in Constants : c \notin InUse(t)
          BY AddrAssumption DEF InUse
        <5>3. QED
          BY <5>1, <5>2 DEF Under
      <4>4. \A s \in SUBSET Vars : N[Child(t, x, s)] = M[Child(t, x, s)]
        <5> HIDE DEF N
        <5>1. QED
          BY <4>1, <4>3 DEF Child
      <4>5. Value(t, M, x) = Value(t, N, x)
        <5> HIDE DEF N
        <5>1. QED
          BY <4>4 DEF Value
      <4>6. QED
        BY <4>2, <4>5
    <3>3. QED
      BY <3>1, <3>2
  <2>4. k - 1 \in K
    <3> HIDE DEF N, F, Solved
    <3>1. QED
      BY <2>1, <2>2, <2>3
  <2>5. k <= k - 1
    BY <1>2, <2>4
  <2>6. QED
    BY <2>1, <2>5
<1>5. \A x \in Ref : M[x] = Value(t, M, x)
  BY <1>3, <1>4, NodeFacts
<1>6. Denotes(t, M)
  <2>1. M = [x \in Ref |-> M[x]]
    BY <1>3
  <2>2. QED
    BY <1>5, <2>1 DEF Denotes
<1>7. QED
  BY <1>6

-------------------------------------------------------------------------------
\* The meaning of a table: constants, nodes and how a node depends on variables.

\* The meaning of the constants.
LEMMA ConstantMeaning ==
  ASSUME NEW t, NEW M, Denotes(t, M)
  PROVE  M[True] = SUBSET Vars /\ M[False] = {}
BY AddrAssumption DEF Denotes, Value, Ref, Constants

\* The meaning of a node, from its successors.
LEMMA NodeMeaning ==
  ASSUME NEW t, WellFormed(t), NEW M, Denotes(t, M), NEW a \in InUse(t), NEW s \in SUBSET Vars
  PROVE  s \in M[a] <=> s \in M[Child(t, a, s)]
<1>1. a \in Ref /\ a \notin Constants /\ t[a] # NoNode
  BY AddrAssumption DEF InUse, Ref
<1>2. M[a] = Value(t, M, a)
  BY <1>1 DEF Denotes
<1>3. QED
  BY <1>1, <1>2 DEF Value

\* The meaning of an address is a set of valuations.
LEMMA MeaningType ==
  ASSUME NEW t, NEW M, Denotes(t, M), NEW x \in Ref
  PROVE  M[x] \in SUBSET SUBSET Vars
BY DEF Denotes, Value

\* A function does not depend on the variables above its node.
LEMMA Independent ==
  ASSUME NEW t, WellFormed(t), NEW M, Denotes(t, M),
         NEW v \in Vars, NEW x, Under(t, v, x), NEW s \in SUBSET Vars
  PROVE  s \in M[x] <=> s \ {v} \in M[x]
<1> DEFINE Same(c) == \A u \in SUBSET Vars : u \in M[c] <=> u \ {v} \in M[c]
           B == {c \in InUse(t) : v < t[c].var /\ ~Same(c)}
<1>1. \A c \in Constants : Same(c)
  BY ConstantMeaning DEF Constants
<1>2. B = {}
  <2> SUFFICES ASSUME B # {} PROVE FALSE
    OBVIOUS
  <2>1. PICK b \in B : \A c \in B : ~(t[b].var < t[c].var)
    BY HighestNode
  <2>2. v \in Nat /\ t[b].var \in Nat /\ v < t[b].var
    BY VarsAssumption, NodeFacts
  <2>3. \A c : Under(t, t[b].var, c) => Same(c)
    <3> SUFFICES ASSUME NEW c \in InUse(t), t[b].var < t[c].var PROVE Same(c)
      BY <1>1 DEF Under
    <3>1. t[c].var \in Nat
      BY NodeFacts
    <3>2. v < t[c].var
      BY <2>2, <3>1
    <3>3. QED
      BY <2>1, <3>2
  <2>4. ASSUME NEW u \in SUBSET Vars PROVE u \in M[b] <=> u \ {v} \in M[b]
    <3>1. Child(t, b, u \ {v}) = Child(t, b, u)
      BY <2>2 DEF Child
    <3>2. Same(Child(t, b, u))
      <4>1. Under(t, t[b].var, Child(t, b, u))
        BY NodeFacts DEF Child
      <4>2. QED
        BY <2>3, <4>1
    <3>3. (u \in M[b] <=> u \in M[Child(t, b, u)])
          /\ (u \ {v} \in M[b] <=> u \ {v} \in M[Child(t, b, u \ {v})])
      BY NodeMeaning
    <3>4. QED
      BY <3>1, <3>2, <3>3
  <2>5. QED
    BY <2>4
<1>3. QED
  BY <1>1, <1>2 DEF Under

\* The two children stand for the function of the node with its variable set
\* to false and to true.
LEMMA Cofactors ==
  ASSUME NEW t, WellFormed(t), NEW M, Denotes(t, M), NEW a \in InUse(t), NEW s \in SUBSET Vars
  PROVE  /\ s \ {t[a].var} \in M[a] <=> s \in M[t[a].left]
         /\ s \cup {t[a].var} \in M[a] <=> s \in M[t[a].right]
<1> DEFINE v == t[a].var
           lo == s \ {v}
           hi == s \cup {v}
<1>1. v \in Vars /\ Under(t, v, t[a].left) /\ Under(t, v, t[a].right)
  BY NodeFacts
<1>2. lo \in SUBSET Vars /\ hi \in SUBSET Vars /\ hi \ {v} = lo
  BY <1>1
<1>3. (lo \in M[a] <=> lo \in M[t[a].left]) /\ (hi \in M[a] <=> hi \in M[t[a].right])
  <2>1. Child(t, a, lo) = t[a].left /\ Child(t, a, hi) = t[a].right
    BY DEF Child
  <2>2. (lo \in M[a] <=> lo \in M[Child(t, a, lo)]) /\ (hi \in M[a] <=> hi \in M[Child(t, a, hi)])
    <3> HIDE DEF lo, hi
    <3>1. QED
      BY <1>2, NodeMeaning
  <2>3. QED
    BY <2>1, <2>2
<1>4. (s \in M[t[a].left] <=> lo \in M[t[a].left])
  BY <1>1, Independent
<1>5. (s \in M[t[a].right] <=> lo \in M[t[a].right])
  BY <1>1, Independent
<1>6. (hi \in M[t[a].right] <=> lo \in M[t[a].right])
  BY <1>1, <1>2, Independent
<1>7. QED
  BY <1>3, <1>4, <1>5, <1>6

\* Two nodes never stand for the same function, nor does a node for a constant.
LEMMA DistinctMeanings ==
  ASSUME NEW t, WellFormed(t), NEW M, Denotes(t, M),
         NEW x \in Constants \cup InUse(t), NEW y \in Constants \cup InUse(t), M[x] = M[y]
  PROVE  x = y
<1> DEFINE Pair(b, c) == b # c /\ M[b] = M[c]
           B == {b \in InUse(t) : \E c : Pair(b, c) /\ (Under(t, t[b].var, c)
                                          \/ (c \in InUse(t) /\ t[c].var = t[b].var))}
<1>1. M[True] # M[False]
  BY ConstantMeaning
<1>2. ASSUME NEW c \in Constants \cup InUse(t), NEW d \in Constants \cup InUse(t), Pair(c, d)
      PROVE  c \in B \/ d \in B
  <2>1. c \in InUse(t) \/ d \in InUse(t)
    BY <1>1, <1>2 DEF Constants
  <2>2. (c \in InUse(t) => t[c].var \in Nat) /\ (d \in InUse(t) => t[d].var \in Nat)
    BY NodeFacts
  <2>3. CASE c \notin InUse(t) \/ d \notin InUse(t)
    BY <1>2, <2>1, <2>3 DEF Under
  <2>4. CASE c \in InUse(t) /\ d \in InUse(t)
    <3>1. CASE t[c].var <= t[d].var
      BY <1>2, <2>2, <2>4, <3>1 DEF Under
    <3>2. CASE ~(t[c].var <= t[d].var)
      BY <1>2, <2>2, <2>4, <3>2 DEF Under
    <3>3. QED
      BY <3>1, <3>2
  <2>5. QED
    BY <2>3, <2>4
<1>3. B = {}
  <2> SUFFICES ASSUME B # {} PROVE FALSE
    OBVIOUS
  <2>1. PICK b \in B : \A c \in B : ~(t[b].var < t[c].var)
    <3> HIDE DEF Pair
    <3>1. QED
      BY HighestNode
  <2> DEFINE v == t[b].var
  <2>2. v \in Vars /\ v \in Nat /\ t[b].left # t[b].right
        /\ Under(t, v, t[b].left) /\ Under(t, v, t[b].right)
    BY NodeFacts
  \* Above v, equal functions are equal references.
  <2>3. ASSUME NEW c, NEW d, Under(t, v, c), Under(t, v, d), M[c] = M[d] PROVE c = d
    <3>1. c \in Constants \cup InUse(t) /\ d \in Constants \cup InUse(t)
      BY <2>3 DEF Under
    <3>2. c \notin B /\ d \notin B
      <4> HIDE DEF B
      <4>1. \A e \in B : ~Under(t, v, e)
        <5>1. \A e \in B : e \in InUse(t) /\ e \notin Constants
          BY AddrAssumption DEF B, InUse
        <5>2. QED
          BY <2>1, <5>1 DEF Under
      <4>2. QED
        BY <2>3, <4>1
    <3>3. QED
      BY <1>2, <2>3, <3>1, <3>2
  <2>4. PICK c : Pair(b, c) /\ (Under(t, v, c) \/ (c \in InUse(t) /\ t[c].var = v))
    OBVIOUS
  <2>5. CASE Under(t, v, c)
    <3>1. ASSUME NEW s \in SUBSET Vars PROVE s \in M[t[b].left] <=> s \in M[t[b].right]
      <4>1. s \ {v} \in SUBSET Vars /\ s \cup {v} \in SUBSET Vars /\ (s \cup {v}) \ {v} = s \ {v}
        BY <2>2
      <4>2. (s \in M[t[b].left] <=> s \ {v} \in M[c]) /\ (s \in M[t[b].right] <=> s \cup {v} \in M[c])
        BY <2>4, Cofactors
      <4>3. s \cup {v} \in M[c] <=> s \ {v} \in M[c]
        BY <2>2, <2>5, <4>1, Independent
      <4>4. QED
        BY <4>2, <4>3
    <3>2. M[t[b].left] \in SUBSET SUBSET Vars /\ M[t[b].right] \in SUBSET SUBSET Vars
      BY MeaningType, NodeFacts
    <3>3. M[t[b].left] = M[t[b].right]
      BY <3>1, <3>2
    <3>4. QED
      BY <2>2, <2>3, <3>3
  <2>6. CASE c \in InUse(t) /\ t[c].var = v
    <3>1. Under(t, v, t[c].left) /\ Under(t, v, t[c].right) /\ t[b] \in Node /\ t[c] \in Node
      BY <2>6, NodeFacts
    <3>2. ASSUME NEW s \in SUBSET Vars
          PROVE  /\ s \in M[t[b].left] <=> s \in M[t[c].left]
                 /\ s \in M[t[b].right] <=> s \in M[t[c].right]
      <4>1. /\ s \ {v} \in M[b] <=> s \in M[t[b].left]
            /\ s \cup {v} \in M[b] <=> s \in M[t[b].right]
        BY Cofactors
      <4>2. /\ s \ {v} \in M[c] <=> s \in M[t[c].left]
            /\ s \cup {v} \in M[c] <=> s \in M[t[c].right]
        BY <2>6, Cofactors
      <4>3. QED
        BY <2>4, <4>1, <4>2
    <3>3. \A d \in {t[b].left, t[b].right, t[c].left, t[c].right} : M[d] \in SUBSET SUBSET Vars
      BY <2>6, MeaningType, NodeFacts
    <3>4. M[t[b].left] = M[t[c].left] /\ M[t[b].right] = M[t[c].right]
      BY <3>2, <3>3
    <3>5. t[b].left = t[c].left /\ t[b].right = t[c].right
      BY <2>2, <2>3, <3>1, <3>4
    <3>6. t[b] = t[c]
      BY <2>6, <3>1, <3>5 DEF Node
    <3>7. b = c
      BY <2>6, <3>6 DEF WellFormed
    <3>8. QED
      BY <2>4, <3>7
  <2>7. QED
    BY <2>4, <2>5, <2>6
<1>4. QED
  BY <1>2, <1>3

\* A node that is in two tables, as it is, stands for the same function in both.
LEMMA SameMeaning ==
  ASSUME NEW t, WellFormed(t), NEW M, Denotes(t, M),
         NEW u, WellFormed(u), NEW N, Denotes(u, N),
         \A a \in InUse(t) \cap InUse(u) : t[a] = u[a]
  PROVE  \A x \in Constants \cup (InUse(t) \cap InUse(u)) : M[x] = N[x]
<1> DEFINE B == {b \in InUse(t) \cap InUse(u) : M[b] # N[b]}
<1>1. \A c \in Constants : M[c] = N[c]
  BY ConstantMeaning DEF Constants
<1>2. B = {}
  <2> SUFFICES ASSUME B # {} PROVE FALSE
    OBVIOUS
  <2>1. PICK b \in B : \A c \in B : ~(t[b].var < t[c].var)
    BY HighestNode
  <2>2. \A c : Under(t, t[b].var, c) /\ Under(u, t[b].var, c) => M[c] = N[c]
    BY <1>1, <2>1 DEF Under
  <2>3. ASSUME NEW s \in SUBSET Vars PROVE s \in M[b] <=> s \in N[b]
    <3>1. t[b] = u[b]
      OBVIOUS
    <3>2. Child(t, b, s) = Child(u, b, s)
      BY <3>1 DEF Child
    <3>3. Under(t, t[b].var, Child(t, b, s))
      BY NodeFacts DEF Child
    <3>4. Under(u, t[b].var, Child(t, b, s))
      BY <3>1, NodeFacts DEF Child
    <3>5. (s \in M[b] <=> s \in M[Child(t, b, s)]) /\ (s \in N[b] <=> s \in N[Child(u, b, s)])
      BY NodeMeaning
    <3>6. QED
      BY <2>2, <3>2, <3>3, <3>4, <3>5
  <2>4. M[b] \in SUBSET SUBSET Vars /\ N[b] \in SUBSET SUBSET Vars
    BY MeaningType DEF InUse, Ref
  <2>5. QED
    BY <2>3, <2>4
<1>3. QED
  BY <1>1, <1>2

-------------------------------------------------------------------------------
\* The table of every reachable state is well-formed, and Meaning is what it
\* denotes, now and after the step.

\* The invariant of the node store says that its table is well formed.
LEMMA TableWellFormed == IInv => WellFormed(table) /\ InUse(table) = Allocated
BY AddrAssumption DEF IInv, TypeOK, Canonical, NoDangling, WellFormed, InUse, Allocated, Children

\* Meaning is the denotation of the addresses of the table.
LEMMA MeaningDenotes == ASSUME IInv PROVE Denotes(table, Meaning)
<1>1. Meaning = CHOOSE M : Denotes(table, M)
  BY Zenon DEF Meaning, Denotes, Value, Child
<1>2. QED
  BY <1>1, MeaningExists, TableWellFormed

\* The same of the next state.
LEMMA MeaningDenotesNext ==
  ASSUME IInv'
  PROVE  WellFormed(table') /\ InUse(table') = Allocated' /\ Denotes(table', Meaning')
<1>1. WellFormed(table') /\ InUse(table') = Allocated'
  BY AddrAssumption DEF IInv, TypeOK, Canonical, NoDangling, WellFormed, InUse, Allocated, Children
<1>2. Meaning' = CHOOSE M : Denotes(table', M)
  BY Zenon DEF Meaning, Denotes, Value, Child
<1>3. QED
  BY <1>1, <1>2, MeaningExists

\* A step leaves the nodes alone that it does not reclaim.
LEMMA NodesUnchanged ==
  ASSUME IInv, [Next]_vars
  PROVE  \A a \in Allocated \cap Allocated' : table'[a] = table[a]
<1> DEFINE Kept == \A a \in Allocated \cap Allocated' : table'[a] = table[a]
<1>1. CASE garbage_collection
  BY <1>1 DEF garbage_collection, IInv, TypeOK, Allocated
<1>2. ASSUME NEW v \in Vars, NEW l \in Ref, NEW r \in Ref, FindNew(v, l, r) PROVE Kept
  BY <1>2 DEF FindNew, IInv, TypeOK, Allocated
<1>3. table' = table => Kept
  OBVIOUS
<1>4. QED
  BY <1>1, <1>2, <1>3 DEF Next, Returning, find, FindFound, Reference, copy, _free, vars,
     cached, store, flush, _back_to_live, _free_recursive, NoCollection, resize, NoResize

\* A step that keeps a node keeps its meaning.
LEMMA MeaningUnchanged ==
  ASSUME IInv, IInv', [Next]_vars
  PROVE  \A x \in Constants \cup (Allocated \cap Allocated') : Meaning[x] = Meaning'[x]
<1>1. WellFormed(table) /\ InUse(table) = Allocated /\ Denotes(table, Meaning)
  BY TableWellFormed, MeaningDenotes
<1>2. WellFormed(table') /\ InUse(table') = Allocated' /\ Denotes(table', Meaning')
  BY MeaningDenotesNext
<1>3. \A a \in InUse(table) \cap InUse(table') : table[a] = table'[a]
  BY <1>1, <1>2, NodesUnchanged
<1>4. QED
  <2> HIDE DEF Meaning
  <2>1. QED
    BY <1>1, <1>2, <1>3, SameMeaning

\* An entry of the cache keeps the meaning of its operands and of its result
\* as long as it stays: its nodes are not reclaimed before it is dropped.
THEOREM CacheIsSound == Spec => CacheKeepsMeaning
<1> DEFINE Kept == \A e \in cache \cap cache' : \A x \in EntryNodes(e) : Meaning[x] = Meaning'[x]
<1>1. ASSUME IInv, IInv', [Next]_vars PROVE Kept
  <2> SUFFICES ASSUME NEW e \in cache \cap cache', NEW x \in EntryNodes(e)
               PROVE  x \in Constants \cup (Allocated \cap Allocated')
    BY <1>1, MeaningUnchanged
  <2>1. x \in Ref
    <3>1. e \in Entry
      BY <1>1 DEF IInv, TypeOK
    <3>2. e.res \in Ref /\ \A i \in 1 .. Arity : e.args[i] \in Ref
      BY <3>1 DEF Entry
    <3>3. QED
      BY <3>2 DEF EntryNodes
  <2>2. x \in Addr => x \in Allocated
    BY <1>1 DEF IInv, NoDangling
  <2>3. x \in Addr => x \in Allocated'
    BY <1>1 DEF IInv, NoDangling, EntryNodes
  <2>4. QED
    BY <2>1, <2>2, <2>3 DEF Ref
<1>2. IInv /\ [Next]_vars => [Kept]_vars
  BY <1>1, NextIInv
<1>3. QED
  BY <1>2, AlwaysIInv, PTL DEF Spec, CacheKeepsMeaning

-------------------------------------------------------------------------------
\* The store implements FunctionService.

Held == [a \in Addr |-> IF handles[a] > 0 THEN Meaning[a] ELSE NoNode]

\* An address with a handle is in use.
LEMMA HeldAllocated == IInv => \A a \in Addr : handles[a] > 0 => a \in Allocated
BY Referenced

\* What the meanings of the nodes in use after a step are.
LEMMA NextMeanings ==
  ASSUME IInv', NEW a \in Allocated'
  PROVE  /\ Meaning'[a] \in SUBSET SUBSET Vars
         /\ Meaning'[a] \notin {{}, SUBSET Vars}
         /\ \A b \in Allocated' : Meaning'[a] = Meaning'[b] => a = b
<1>1. WellFormed(table') /\ InUse(table') = Allocated' /\ Denotes(table', Meaning')
  BY MeaningDenotesNext
<1>2. a \in Addr /\ a \in Ref /\ a \notin Constants
  BY AddrAssumption DEF Allocated, Ref
<1> HIDE DEF Meaning
<1>3. Meaning'[a] \in SUBSET SUBSET Vars
  BY <1>1, <1>2, MeaningType
<1>4. \A b \in Constants \cup Allocated' : Meaning'[a] = Meaning'[b] => a = b
  BY <1>1, DistinctMeanings
<1>5. Meaning'[True] = SUBSET Vars /\ Meaning'[False] = {}
  BY <1>1, ConstantMeaning
<1>6. QED
  BY <1>2, <1>3, <1>4, <1>5 DEF Constants

\* A pointer that is held before and after a step stands for the same function.
LEMMA HeldUnchanged ==
  ASSUME IInv, IInv', [Next]_vars, NEW b \in Addr, handles[b] > 0, handles'[b] > 0
  PROVE  Meaning'[b] = Meaning[b]
<1>1. b \in Allocated /\ b \in Allocated'
  BY Referenced, HeldAllocated DEF IInv, NoDangling, TypeOK
<1>2. QED
  BY <1>1, MeaningUnchanged

\* A reference more to a: the first one acquires it, a further one is a stutter.
LEMMA AcquireStep ==
  ASSUME IInv, IInv', [Next]_vars, NEW a \in Addr,
         handles' = [handles EXCEPT ![a] = handles[a] + 1]
  PROVE  Service!Acquire(a) \/ Held' = Held
<1>1. handles \in [Addr -> Nat] /\ handles' \in [Addr -> Nat] /\ handles'[a] > 0
  BY DEF IInv, TypeOK
<1>2. \A b \in Addr : b # a => handles'[b] = handles[b]
  BY <1>1
<1>3. \A b \in Addr : handles[b] > 0 => handles'[b] > 0 /\ Meaning'[b] = Meaning[b]
  BY <1>1, <1>2, HeldUnchanged
<1>4. Held' = [b \in Addr |-> IF handles'[b] > 0 THEN Meaning'[b] ELSE NoNode]
  BY DEF Held
<1> HIDE DEF Meaning
<1>5. CASE handles[a] > 0
  BY <1>1, <1>2, <1>3, <1>4, <1>5 DEF Held
<1>6. CASE ~(handles[a] > 0)
  <2>1. Held[a] = NoNode /\ Held'[a] = Meaning'[a] /\ \A b \in Addr : b # a => Held'[b] = Held[b]
    BY <1>1, <1>2, <1>3, <1>4, <1>6 DEF Held
  <2>2. Held' = [Held EXCEPT ![a] = Held'[a]]
    BY <1>4, <2>1 DEF Held
  <2>3. \A b \in Addr : handles'[b] > 0 => b \in Allocated'
    BY HeldAllocated DEF IInv, NoDangling, TypeOK
  <2>4. /\ Meaning'[a] \in SUBSET SUBSET Vars
        /\ Meaning'[a] \notin {{}, SUBSET Vars}
        /\ \A b \in Allocated' : Meaning'[a] = Meaning'[b] => a = b
    BY <1>1, <2>3, NextMeanings
  <2>5. Held'[a] # NoNode
    BY <2>1, <2>4, NoNodeAssumption
  <2>6. \A b \in Addr : Held'[a] # Held[b]
    <3> SUFFICES ASSUME NEW b \in Addr, Held'[a] = Held[b] PROVE FALSE
      OBVIOUS
    <3>1. handles[b] > 0 /\ Held[b] = Meaning[b]
      BY <2>5 DEF Held
    <3>2. b # a /\ handles'[b] > 0 /\ Meaning'[b] = Meaning[b]
      BY <1>3, <1>6, <3>1
    <3>3. QED
      BY <2>1, <2>3, <2>4, <3>1, <3>2
  <2>7. QED
    BY <2>1, <2>2, <2>4, <2>5, <2>6 DEF Service!Acquire, Held
<1>7. QED
  BY <1>5, <1>6

\* A reference less to a: the last one releases it.
LEMMA ReleaseStep ==
  ASSUME IInv, IInv', [Next]_vars, NEW a \in Addr, handles[a] > 0,
         handles' = [handles EXCEPT ![a] = handles[a] - 1]
  PROVE  Service!Release(a) \/ Held' = Held
<1>1. handles \in [Addr -> Nat] /\ handles' \in [Addr -> Nat]
  BY DEF IInv, TypeOK
<1>2. \A b \in Addr : b # a => handles'[b] = handles[b]
  BY <1>1
<1>3. \A b \in Addr : handles[b] > 0 /\ handles'[b] > 0 => Meaning'[b] = Meaning[b]
  BY HeldUnchanged
<1>4. Held' = [b \in Addr |-> IF handles'[b] > 0 THEN Meaning'[b] ELSE NoNode]
  BY DEF Held
<1>5. a \in Allocated
  BY HeldAllocated
<1>6. Meaning[a] \in SUBSET SUBSET Vars
  BY <1>5, MeaningDenotes, MeaningType DEF Ref
<1> HIDE DEF Meaning
<1>7. Held[a] # NoNode
  BY <1>6, NoNodeAssumption DEF Held
<1>8. CASE handles'[a] > 0
  BY <1>1, <1>2, <1>3, <1>4, <1>8 DEF Held
<1>9. CASE ~(handles'[a] > 0)
  <2>1. \A b \in Addr : Held'[b] = IF b = a THEN NoNode ELSE Held[b]
    BY <1>2, <1>3, <1>4, <1>9 DEF Held
  <2>2. Held' = [Held EXCEPT ![a] = NoNode]
    BY <1>4, <2>1 DEF Held
  <2>3. QED
    BY <1>7, <2>2 DEF Service!Release, Held
<1>10. QED
  BY <1>8, <1>9

\* A step that gives the client nothing and takes nothing from it.
LEMMA StutterStep ==
  ASSUME IInv, IInv', [Next]_vars, handles' = handles
  PROVE  Held' = Held
<1>1. \A b \in Addr : handles[b] > 0 => Meaning'[b] = Meaning[b]
  BY HeldUnchanged
<1>2. Held' = [b \in Addr |-> IF handles'[b] > 0 THEN Meaning'[b] ELSE NoNode]
  BY DEF Held
<1> HIDE DEF Meaning
<1>3. QED
  BY <1>1, <1>2 DEF Held

\* How the steps change what the client holds.
LEMMA HandleSteps ==
  ASSUME IInv, [Next]_vars
  PROVE  \/ handles' = handles
         \/ \E a \in Addr : handles' = [handles EXCEPT ![a] = handles[a] + 1]
         \/ \E a \in Addr : handles[a] > 0 /\ handles' = [handles EXCEPT ![a] = handles[a] - 1]
<1> DEFINE Changes == \/ handles' = handles
                      \/ \E a \in Addr : handles' = [handles EXCEPT ![a] = handles[a] + 1]
                      \/ \E a \in Addr : handles[a] > 0
                                         /\ handles' = [handles EXCEPT ![a] = handles[a] - 1]
<1>1. ASSUME NEW a \in Addr, Reference(a) PROVE Changes
  BY <1>1 DEF Reference
<1>2. ASSUME NEW v \in Vars, NEW l \in Ref, NEW r \in Ref, FindNew(v, l, r) PROVE Changes
  <2>1. PICK a \in Addr \ Allocated : handles' = [handles EXCEPT ![a] = 1]
    BY <1>2 DEF FindNew
  <2>2. handles[a] + 1 = 1
    BY UnallocatedZero
  <2>3. handles' = [handles EXCEPT ![a] = handles[a] + 1]
    BY <2>1, <2>2
  <2>4. QED
    BY <2>3
<1>3. ASSUME NEW v \in Vars, NEW l \in Ref, NEW r \in Ref, FindFound(v, l, r) PROVE Changes
  BY <1>1, <1>3 DEF FindFound, Allocated
<1>4. ASSUME NEW b \in Ref, _free(b) PROVE Changes
  BY <1>4 DEF _free
<1>5. ASSUME NEW op \in Ops, NEW args \in [1 .. Arity -> Ref], cached(op, args) PROVE Changes
  <2>1. PICK e \in cache : e.res \in Addr /\ Reference(e.res)
    BY <1>5 DEF cached
  <2>2. QED
    BY <1>1, <2>1
<1>6. ASSUME NEW a \in Addr, copy(a) PROVE Changes
  BY <1>1, <1>6 DEF copy
<1>7. handles' = handles => Changes
  OBVIOUS
<1> HIDE DEF Changes
<1>8. QED
  BY <1>1, <1>2, <1>3, <1>4, <1>5, <1>6, <1>7 DEF Changes, Next, Returning, find, vars,
     store, flush, _back_to_live, _free_recursive, garbage_collection, NoCollection, resize, NoResize

\* The pointers a client holds are Boolean functions, equal exactly when the
\* pointers are, whatever is shared, revived and collected underneath.
THEOREM StoreImplementsFunctions == Spec => ImplementsFunctions
<1>1. Init => Service!Init
  BY DEF Init, None, Service!Init
<1>2. ASSUME IInv, IInv', [Next]_vars PROVE [Service!Next]_Held
  BY <1>2, HandleSteps, AcquireStep, ReleaseStep, StutterStep DEF Service!Next
<1>3. IInv /\ [Next]_vars => [Service!Next]_Held
  BY <1>2, NextIInv
<1>4. QED
  BY <1>1, <1>3, AlwaysIInv, PTL DEF Spec, ImplementsFunctions, Service!Spec, Held
===============================================================================
