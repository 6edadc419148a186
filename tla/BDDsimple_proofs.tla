--------------------------- MODULE BDDsimple_proofs ---------------------------
(***************************************************************************)
(* The node store keeps its counters exact and its pointers valid, for any *)
(* set of addresses, any cache and any sizes and ratios.  The properties   *)
(* of BDDsimple.tla are inductive only together: a collection is safe      *)
(* because the counters are exact, and they stay exact because a node that *)
(* dies or revives is above allocated nodes only.                          *)
(***************************************************************************)
EXTENDS BDDsimple, FiniteSetTheorems, TLAPS

\* The sets that are counted are finite.
LEMMA FiniteParts ==
  /\ \A S \in SUBSET Addr : IsFiniteSet(S) /\ Cardinality(S) \in Nat
  /\ \A a : LiveParents(a) \subseteq Addr
  /\ Allocated \subseteq Addr /\ Dead \subseteq Addr
<1>1. \A S \in SUBSET Addr : IsFiniteSet(S) /\ Cardinality(S) \in Nat
  BY AddrAssumption, FS_Subset, FS_CardinalityType
<1>2. QED
  BY <1>1 DEF LiveParents, Allocated, Dead

\* When no node dies or revives and the table stays, nothing else is counted anew.
LEMMA SameLife ==
  ASSUME table' = table,
         \A x \in Addr : (_ref[x] > 0 <=> _ref'[x] > 0) /\ (_ref[x] = 0 <=> _ref'[x] = 0)
  PROVE  /\ \A x \in Addr : LiveParents(x)' = LiveParents(x)
         /\ Dead' = Dead
         /\ Allocated' = Allocated
<1>1. Allocated' = Allocated
  BY DEF Allocated
<1>2. Dead' = Dead
  BY <1>1 DEF Dead, Allocated
<1>3. \A x \in Addr : LiveParents(x)' = LiveParents(x)
  BY <1>1 DEF LiveParents, Allocated, Children
<1>4. QED
  BY <1>1, <1>2, <1>3

\* A node that comes back to live counts for each of its children.
LEMMA Revival ==
  ASSUME TypeOK, NEW a \in Allocated, _ref[a] = 0, table' = table,
         _ref' = [_ref EXCEPT ![a] = @ + 1]
  PROVE  /\ \A x \in Addr : Cardinality(LiveParents(x)') =
              Cardinality(LiveParents(x)) + IF x \in Children(a) THEN 1 ELSE 0
         /\ Cardinality(Dead') = Cardinality(Dead) - 1
         /\ Allocated' = Allocated
<1>1. Allocated' = Allocated /\ a \in Addr
  BY DEF Allocated
<1>2. Dead' = Dead \ {a} /\ a \in Dead
  BY <1>1 DEF Dead, Allocated, TypeOK
<1>3. \A x \in Addr : a \notin LiveParents(x) /\
        LiveParents(x)' = IF x \in Children(a) THEN LiveParents(x) \cup {a} ELSE LiveParents(x)
  BY <1>1 DEF LiveParents, Allocated, Children, TypeOK
<1>4. \A x \in Addr : IsFiniteSet(LiveParents(x)) /\ Cardinality(LiveParents(x)) \in Nat
  BY FiniteParts
<1>5. \A x \in Addr : Cardinality(LiveParents(x) \cup {a}) = Cardinality(LiveParents(x)) + 1
  BY <1>3, <1>4, FS_AddElement
<1>6. Cardinality(Dead \ {a}) = Cardinality(Dead) - 1
  BY <1>2, FiniteParts, FS_RemoveElement
<1>7. QED
  BY <1>1, <1>2, <1>3, <1>4, <1>5, <1>6

\* A node that dies counts for its children no more.
LEMMA Death ==
  ASSUME TypeOK, NEW a \in Allocated, _ref[a] = 1, table' = table,
         _ref' = [_ref EXCEPT ![a] = @ - 1]
  PROVE  /\ \A x \in Addr : Cardinality(LiveParents(x)) =
              Cardinality(LiveParents(x)') + IF x \in Children(a) THEN 1 ELSE 0
         /\ Cardinality(Dead') = Cardinality(Dead) + 1
         /\ Allocated' = Allocated
<1>1. Allocated' = Allocated /\ a \in Addr
  BY DEF Allocated
<1>2. Dead' = Dead \cup {a} /\ a \notin Dead
  BY <1>1 DEF Dead, Allocated, TypeOK
<1>3. \A x \in Addr : a \notin LiveParents(x)' /\
        LiveParents(x) = IF x \in Children(a) THEN LiveParents(x)' \cup {a} ELSE LiveParents(x)'
  BY <1>1 DEF LiveParents, Allocated, Children, TypeOK
<1>4. \A x \in Addr : LiveParents(x)' \subseteq Addr
  BY <1>1 DEF LiveParents, Allocated
<1>5. \A x \in Addr : IsFiniteSet(LiveParents(x)') /\ Cardinality(LiveParents(x)') \in Nat
  BY <1>4, FiniteParts
<1>6. \A x \in Addr : Cardinality(LiveParents(x)' \cup {a}) = Cardinality(LiveParents(x)') + 1
  BY <1>3, <1>5, FS_AddElement
<1>7. Cardinality(Dead \cup {a}) = Cardinality(Dead) + 1
  BY <1>2, FiniteParts, FS_AddElement
<1>8. QED
  BY <1>1, <1>2, <1>3, <1>5, <1>6, <1>7

\* Initially nothing is allocated.
LEMMA InitIInv == Init => IInv
<1> SUFFICES ASSUME Init PROVE IInv
  OBVIOUS
<1> USE DEF Init
<1>1. Allocated = {}
  BY DEF Allocated
<1>2. TypeOK
  BY SizesAssumption DEF TypeOK, None
<1>3. Canonical /\ PhasesSeparate
  BY <1>1 DEF Canonical, PhasesSeparate
<1>4. RefCountExact
  <2>1. \A a \in Addr : LiveParents(a) = {}
    BY <1>1 DEF LiveParents
  <2>2. QED
    BY <2>1, FS_EmptySet DEF RefCountExact, None
<1>5. DeadCountExact
  BY <1>1, FS_EmptySet DEF DeadCountExact, Dead
<1>6. NoDangling
  BY <1>1 DEF NoDangling, None
<1>7. QED
  BY <1>2, <1>3, <1>4, <1>5, <1>6 DEF IInv

\* Naturals that add up to zero are zero.
LEMMA ZeroSum ==
  ASSUME NEW m \in Nat, NEW n \in Nat, NEW p \in Nat, NEW q \in Nat, m + n + p + q = 0
  PROVE  m = 0 /\ n = 0 /\ p = 0 /\ q = 0
OBVIOUS

LEMMA ZeroPair == ASSUME NEW m \in Nat, NEW n \in Nat, m + n = 0 + 0 PROVE m = 0 /\ n = 0
OBVIOUS

LEMMA UnallocatedZero ==
  ASSUME IInv, NEW x \in Addr \ Allocated
  PROVE  handles[x] = 0 /\ _ref[x] = 0 /\ dec[x] = 0 /\ inc[x] = 0
<1>1. handles[x] + _ref[x] + dec[x] + inc[x] = 0
  BY DEF IInv, NoDangling
<1>2. handles[x] \in Nat /\ _ref[x] \in Nat /\ dec[x] \in Nat /\ inc[x] \in Nat
  BY DEF IInv, TypeOK
<1>3. QED
  BY <1>1, <1>2, ZeroSum

\* Only cells that are allocated are counted.
LEMMA Referenced ==
  ASSUME IInv, NEW x \in Addr, _ref[x] > 0 \/ handles[x] > 0 \/ dec[x] > 0 \/ inc[x] > 0
  PROVE  x \in Allocated
BY DEF IInv, NoDangling, TypeOK

\* No node is its own child.
LEMMA NotOwnChild == ASSUME IInv, NEW a \in Allocated PROVE a \notin Children(a)
<1>1. table[a].var \in Nat
  BY VarsAssumption DEF IInv, TypeOK, Node, Allocated
<1>2. a \in Children(a) => table[a].var < table[a].var
  BY DEF IInv, Canonical
<1>3. QED
  BY <1>1, <1>2

\* A new reference to a node of the table.
LEMMA ReferenceIInv ==
  ASSUME IInv, Idle, NEW a \in Allocated, Reference(a)
  PROVE  IInv'
<1> USE DEF IInv, Reference, Idle
<1>0. a \in Addr /\ Allocated' = Allocated /\ Children(a)' = Children(a) /\ table' = table
  BY DEF Allocated, Children
<1>1. TypeOK'
  <2>1. deadnodes' \in Nat
    <3>1. CASE _ref[a] = 0
      <4>1. a \in Dead
        BY <3>1 DEF Dead
      <4>2. Cardinality(Dead) # 0
        BY <4>1, FiniteParts, FS_EmptySet
      <4>3. QED
        BY <3>1, <4>2 DEF DeadCountExact, TypeOK
    <3>2. QED
      BY <3>1 DEF TypeOK
  <2>2. inc' \in [Addr -> Nat]
    BY DEF OnChildren, TypeOK
  <2>3. QED
    BY <1>0, <2>1, <2>2 DEF TypeOK
<1>2. Canonical'
  BY <1>0 DEF Canonical, Children
<1>3. RefCountExact' /\ DeadCountExact'
  <2>1. CASE _ref[a] = 0
    <3>1. a \notin Children(a)
      BY <1>0, NotOwnChild
    <3>2. /\ \A x \in Addr : Cardinality(LiveParents(x)') =
               Cardinality(LiveParents(x)) + IF x \in Children(a) THEN 1 ELSE 0
          /\ Cardinality(Dead') = Cardinality(Dead) - 1
      BY <2>1, <1>0, Revival
    <3>3. DeadCountExact'
      BY <2>1, <3>2 DEF DeadCountExact
    <3>4. ASSUME NEW x \in Addr
          PROVE  (_ref[x] + inc[x] = handles[x] + Cardinality(LiveParents(x)) + dec[x])'
      <4>1. _ref[x] + inc[x] = handles[x] + Cardinality(LiveParents(x)) + dec[x]
        BY DEF RefCountExact
      <4>2. Cardinality(LiveParents(x)) \in Nat
        BY FiniteParts
      <4>3. inc'[x] = inc[x] + IF x \in Children(a) THEN 1 ELSE 0
        BY <2>1 DEF OnChildren, TypeOK
      <4>4. QED
        BY <1>0, <3>2, <4>1, <4>2, <4>3 DEF TypeOK
    <3>5. QED
      BY <3>3, <3>4 DEF RefCountExact
  <2>2. CASE _ref[a] # 0
    <3>1. (\A x \in Addr : LiveParents(x)' = LiveParents(x)) /\ Dead' = Dead
      BY <2>2, <1>0, SameLife DEF TypeOK
    <3>2. DeadCountExact'
      BY <2>2, <3>1 DEF DeadCountExact
    <3>3. ASSUME NEW x \in Addr
          PROVE  (_ref[x] + inc[x] = handles[x] + Cardinality(LiveParents(x)) + dec[x])'
      <4>1. _ref[x] + inc[x] = handles[x] + Cardinality(LiveParents(x)) + dec[x]
        BY DEF RefCountExact
      <4>2. Cardinality(LiveParents(x)) \in Nat
        BY FiniteParts
      <4>3. QED
        BY <1>0, <2>2, <3>1, <4>1, <4>2 DEF TypeOK
    <3>4. QED
      BY <3>2, <3>3 DEF RefCountExact
  <2>3. QED
    BY <2>1, <2>2
<1>4. NoDangling'
  <2>1. \A x \in Addr \ Allocated : x \notin Children(a) /\ x # a
    BY <1>0 DEF NoDangling
  <2>2. \A x \in Addr \ Allocated : handles'[x] = handles[x] /\ _ref'[x] = _ref[x]
                                    /\ dec'[x] = dec[x] /\ inc'[x] = inc[x]
    BY <2>1, <1>0 DEF OnChildren, TypeOK
  <2>3. QED
    BY <1>0, <2>2 DEF NoDangling, Children, EntryNodes
<1>5. PhasesSeparate'
  BY DEF PhasesSeparate
<1>6. QED
  BY <1>1, <1>2, <1>3, <1>4, <1>5

LEMMA CopyIInv == ASSUME IInv, NEW a \in Addr, copy(a) PROVE IInv'
<1>1. a \in Allocated
  BY AddrAssumption, Referenced DEF copy, Checked
<1>2. QED
  BY <1>1, ReferenceIInv DEF copy

LEMMA CachedIInv ==
  ASSUME IInv, NEW op \in Ops, NEW args \in [1 .. Arity -> Ref], cached(op, args)
  PROVE  IInv'
<1>1. PICK e \in cache : e.res \in Addr /\ Reference(e.res)
  BY DEF cached
<1>2. e.res \in Allocated
  BY <1>1 DEF IInv, NoDangling, EntryNodes
<1>3. QED
  BY <1>1, <1>2, ReferenceIInv DEF cached

LEMMA FindFoundIInv ==
  ASSUME IInv, NEW v \in Vars, NEW l \in Ref, NEW r \in Ref, FindFound(v, l, r)
  PROVE  IInv'
BY ReferenceIInv DEF FindFound, Findable

\* A new node above two referenced ones.
LEMMA FindNewIInv ==
  ASSUME IInv, NEW v \in Vars, NEW l \in Ref, NEW r \in Ref, FindNew(v, l, r)
  PROVE  IInv'
<1> DEFINE new == [var |-> v, left |-> l, right |-> r]
<1> USE DEF IInv, Idle
<1>1. PICK a \in Addr \ Allocated :
        /\ table' = [table EXCEPT ![a] = new]
        /\ _ref' = [x \in Addr |-> IF x = a THEN 1
                                  ELSE IF x \in {l, r} THEN _ref[x] + 1 ELSE _ref[x]]
        /\ handles' = [handles EXCEPT ![a] = 1]
  BY DEF FindNew
<1>2. UNCHANGED <<deadnodes, unique_tab_size, cache, dec, inc, phase>>
  BY DEF FindNew
<1>3. Findable(v, l, r) /\ l # r /\ \A x \in Addr : table[x] # new
  BY DEF FindNew, Findable
<1>4. new \in Node /\ new # NoNode
  BY NoNodeAssumption DEF Node
<1>5. {l, r} \cap Addr \subseteq Allocated /\ a \notin {l, r}
      /\ \A x \in {l, r} \cap Addr : _ref[x] > 0
  <2>1. \A x \in {l, r} \cap Addr : _ref[x] > 0
    BY <1>3, AddrAssumption DEF Findable, Checked
  <2>2. \A x \in {l, r} \cap Addr : x \in Allocated
    BY <2>1, Referenced
  <2>3. QED
    BY <2>1, <2>2, <1>1
<1>6. Allocated' = Allocated \cup {a}
      /\ table'[a] = new /\ \A x \in Addr \ {a} : table'[x] = table[x]
  BY <1>1, <1>4 DEF Allocated, TypeOK
<1>7. Children(a)' = {l, r} /\ \A x \in Addr \ {a} : Children(x)' = Children(x)
  BY <1>6, <1>1 DEF Children
<1>8. handles[a] = 0 /\ _ref[a] = 0 /\ dec[a] = 0 /\ inc[a] = 0
  BY <1>1, UnallocatedZero
<1>9. \A p \in Allocated : a \notin Children(p)
  BY <1>1 DEF NoDangling
<1>10. TypeOK'
  BY <1>1, <1>2, <1>4 DEF TypeOK
<1>11. Canonical'
  <2>1. \A b \in Allocated : table[b] # new /\ b # a /\ b \in Addr
    BY <1>1, <1>3 DEF Allocated
  <2>2. \A b, c \in Allocated' : table'[b] = table'[c] => b = c
    BY <2>1, <1>6 DEF Canonical
  <2>3. \A b \in Allocated' : table'[b].left # table'[b].right
    BY <2>1, <1>6, <1>3 DEF Canonical
  <2>4. \A b \in Allocated' : \A x \in Children(b)' \cap Allocated' :
          table'[b].var < table'[x].var
    <3>1. \A x \in {l, r} \cap Allocated : v < table[x].var
      BY <1>3 DEF Findable, Below, Allocated
    <3>2. QED
      BY <3>1, <2>1, <1>5, <1>6, <1>7, <1>9 DEF Canonical
  <2>5. QED
    BY <2>2, <2>3, <2>4 DEF Canonical
<1>12. Dead' = Dead
  <2>1. \A x \in Allocated : _ref'[x] = 0 <=> _ref[x] = 0
    BY <1>1, <1>5 DEF Allocated, TypeOK
  <2>2. _ref'[a] # 0
    BY <1>1
  <2>3. QED
    BY <2>1, <2>2, <1>6 DEF Dead
<1>13. \A x \in Addr : LiveParents(x)' =
         IF x \in {l, r} THEN LiveParents(x) \cup {a} ELSE LiveParents(x)
  <2>1. \A p \in Allocated : p \in Addr \ {a} /\ (_ref'[p] > 0 <=> _ref[p] > 0)
    BY <1>1, <1>5 DEF Allocated, TypeOK
  <2>2. _ref'[a] > 0
    BY <1>1
  <2>3. QED
    BY <2>1, <2>2, <1>6, <1>7 DEF LiveParents
<1>14. RefCountExact'
  <2> SUFFICES ASSUME NEW x \in Addr
               PROVE  (_ref[x] + inc[x] = handles[x] + Cardinality(LiveParents(x)) + dec[x])'
    BY DEF RefCountExact
  <2>1. _ref[x] + inc[x] = handles[x] + Cardinality(LiveParents(x)) + dec[x]
    BY DEF RefCountExact
  <2>2. Cardinality(LiveParents(x)) \in Nat /\ IsFiniteSet(LiveParents(x))
    BY FiniteParts
  <2>3. Cardinality(LiveParents(x)') =
          Cardinality(LiveParents(x)) + IF x \in {l, r} THEN 1 ELSE 0
    <3>1. a \notin LiveParents(x)
      BY <1>1 DEF LiveParents
    <3>2. Cardinality(LiveParents(x) \cup {a}) = Cardinality(LiveParents(x)) + 1
      BY <3>1, <2>2, FS_AddElement
    <3>3. LiveParents(x)' = IF x \in {l, r} THEN LiveParents(x) \cup {a} ELSE LiveParents(x)
      BY <1>13
    <3>4. CASE x \in {l, r}
      BY <3>2, <3>3, <3>4
    <3>5. CASE x \notin {l, r}
      BY <2>2, <3>3, <3>5
    <3>6. QED
      BY <3>4, <3>5
  <2>4. _ref'[x] = IF x = a THEN 1 ELSE IF x \in {l, r} THEN _ref[x] + 1 ELSE _ref[x]
    BY <1>1
  <2>5. handles'[x] = (IF x = a THEN 1 ELSE handles[x]) /\ inc'[x] = inc[x] /\ dec'[x] = dec[x]
    BY <1>1, <1>2 DEF TypeOK
  <2>6. QED
    BY <2>1, <2>2, <2>3, <2>4, <2>5, <1>5, <1>8 DEF TypeOK
<1>15. DeadCountExact'
  BY <1>12, <1>2 DEF DeadCountExact
<1>16. NoDangling'
  <2>1. \A b \in Allocated' : Children(b)' \cap Addr \subseteq Allocated'
    BY <1>1, <1>5, <1>6, <1>7 DEF NoDangling, Allocated
  <2>2. \A e \in cache' : EntryNodes(e)' \cap Addr \subseteq Allocated'
    BY <1>2, <1>6 DEF NoDangling, EntryNodes
  <2>3. \A x \in Addr \ Allocated' : handles'[x] + _ref'[x] + dec'[x] + inc'[x] = 0
    BY <1>1, <1>2, <1>5, <1>6 DEF NoDangling, TypeOK
  <2>4. QED
    BY <2>1, <2>2, <2>3 DEF NoDangling
<1>17. PhasesSeparate'
  BY <1>2 DEF PhasesSeparate, None
<1>18. QED
  BY <1>10, <1>11, <1>14, <1>15, <1>16, <1>17

\* Adding a call on each child.
LEMMA OnChildrenCalls ==
  ASSUME NEW a \in Addr, NEW calls \in [Addr -> Nat]
  PROVE  /\ OnChildren(a, calls) \in [Addr -> Nat]
         /\ \A x \in Addr : OnChildren(a, calls)[x] =
              calls[x] + IF x \in Children(a) THEN 1 ELSE 0
BY DEF OnChildren

\* A pending revival arrives.
LEMMA BackToLiveIInv == ASSUME IInv, NEW a \in Addr, _back_to_live(a) PROVE IInv'
<1> DEFINE rest == [inc EXCEPT ![a] = @ - 1]
<1> USE DEF IInv, _back_to_live
<1>1. a \in Allocated /\ phase = "idle" /\ inc[a] \in Nat \ {0}
  BY Referenced DEF PhasesSeparate, None, TypeOK
<1>2. Allocated' = Allocated /\ table' = table /\ \A x \in Addr : Children(x)' = Children(x)
  BY DEF Allocated, Children
<1>3. rest \in [Addr -> Nat]
      /\ \A x \in Addr : rest[x] = IF x = a THEN inc[x] - 1 ELSE inc[x]
  BY <1>1 DEF TypeOK
<1>4. CASE _ref[a] = 0
  <2>1. inc' = OnChildren(a, rest) /\ deadnodes' = deadnodes - 1
    BY <1>4
  <2>2. a \notin Children(a)
    BY <1>1, NotOwnChild
  <2>3. inc' \in [Addr -> Nat] /\ \A x \in Addr :
          inc'[x] = rest[x] + IF x \in Children(a) THEN 1 ELSE 0
    BY <2>1, <1>3, OnChildrenCalls
  <2>4. /\ \A x \in Addr : Cardinality(LiveParents(x)') =
             Cardinality(LiveParents(x)) + IF x \in Children(a) THEN 1 ELSE 0
        /\ Cardinality(Dead') = Cardinality(Dead) - 1
    BY <1>4, <1>1, <1>2, Revival
  <2>5. deadnodes' \in Nat
    <3>1. a \in Dead
      BY <1>1, <1>4 DEF Dead
    <3>2. Cardinality(Dead) # 0 /\ Cardinality(Dead) \in Nat
      BY <3>1, FiniteParts, FS_EmptySet
    <3>3. QED
      BY <2>1, <3>2 DEF DeadCountExact
  <2>6. DeadCountExact'
    BY <2>1, <2>4 DEF DeadCountExact
  <2>7. ASSUME NEW x \in Addr
        PROVE  (_ref[x] + inc[x] = handles[x] + Cardinality(LiveParents(x)) + dec[x])'
    <3>1. _ref[x] + inc[x] = handles[x] + Cardinality(LiveParents(x)) + dec[x]
      BY DEF RefCountExact
    <3>2. Cardinality(LiveParents(x)) \in Nat
      BY FiniteParts
    <3>3. _ref'[x] = IF x = a THEN _ref[x] + 1 ELSE _ref[x]
      BY DEF TypeOK
    <3>4. QED
      BY <2>3, <2>4, <3>1, <3>2, <3>3, <1>3 DEF TypeOK
  <2>8. \A x \in Addr \ Allocated : x \notin Children(a) /\ x # a
    BY <1>1 DEF NoDangling
  <2>9. \A x \in Addr \ Allocated : _ref'[x] = _ref[x] /\ inc'[x] = inc[x]
    BY <2>3, <2>8, <1>3 DEF TypeOK
  <2>10. TypeOK'
    <3>1. _ref' = [_ref EXCEPT ![a] = @ + 1] /\ _ref \in [Addr -> Nat]
      BY DEF TypeOK
    <3>2. _ref' \in [Addr -> Nat]
      BY <3>1
    <3>3. UNCHANGED <<table, unique_tab_size, cache, handles, dec, phase>>
      OBVIOUS
    <3>4. QED
      BY <3>2, <3>3, <2>3, <2>5 DEF TypeOK
  <2>11. NoDangling'
    BY <1>2, <2>9 DEF NoDangling, EntryNodes, Allocated
  <2>12. QED
    BY <1>1, <1>2, <2>6, <2>7, <2>10, <2>11 DEF RefCountExact, Canonical, Allocated, PhasesSeparate
<1>5. CASE _ref[a] # 0
  <2>1. inc' = rest /\ deadnodes' = deadnodes
    BY <1>5
  <2>2. (\A x \in Addr : LiveParents(x)' = LiveParents(x)) /\ Dead' = Dead
    BY <1>5, <1>2, SameLife DEF TypeOK
  <2>3. ASSUME NEW x \in Addr
        PROVE  (_ref[x] + inc[x] = handles[x] + Cardinality(LiveParents(x)) + dec[x])'
    <3>1. _ref[x] + inc[x] = handles[x] + Cardinality(LiveParents(x)) + dec[x]
      BY DEF RefCountExact
    <3>2. Cardinality(LiveParents(x)) \in Nat
      BY FiniteParts
    <3>3. _ref'[x] = IF x = a THEN _ref[x] + 1 ELSE _ref[x]
      BY DEF TypeOK
    <3>4. QED
      BY <2>1, <2>2, <3>1, <3>2, <3>3, <1>3 DEF TypeOK
  <2>4. \A x \in Addr \ Allocated : _ref'[x] = _ref[x] /\ inc'[x] = inc[x]
    BY <1>1, <2>1, <1>3 DEF TypeOK
  <2>5. TypeOK'
    BY <2>1, <1>3 DEF TypeOK
  <2>6. NoDangling'
    BY <1>2, <2>4 DEF NoDangling, EntryNodes, Allocated
  <2>7. QED
    BY <1>1, <1>2, <2>1, <2>2, <2>3, <2>5, <2>6
       DEF RefCountExact, DeadCountExact, Canonical, Allocated, PhasesSeparate
<1>6. QED
  BY <1>4, <1>5

\* The decrement of a node, with calls pending, when nothing else changes but
\* the handles: a handle or a call on a is given up for the decrement.
LEMMA DropIInv ==
  ASSUME IInv, NEW a \in Allocated, _ref[a] > 0, inc = None,
         NEW calls \in [Addr -> Nat], Drop(a, calls),
         UNCHANGED <<table, unique_tab_size, cache, inc>>,
         phase' = "freeing",
         handles' \in [Addr -> Nat],
         \A x \in Addr : handles'[x] + calls[x] + (IF x = a THEN 1 ELSE 0) = handles[x] + dec[x]
  PROVE  IInv'
<1> USE DEF IInv
<1>1. a \in Addr /\ Allocated' = Allocated /\ \A x \in Addr : Children(x)' = Children(x)
  BY DEF Allocated, Children
<1>2. _ref' = [_ref EXCEPT ![a] = @ - 1]
  BY DEF Drop
<1>3. _ref' \in [Addr -> Nat] /\ \A x \in Addr : _ref'[x] = IF x = a THEN _ref[x] - 1 ELSE _ref[x]
  BY <1>1, <1>2 DEF TypeOK
<1>4. CASE _ref[a] = 1
  <2>1. dec' = OnChildren(a, calls) /\ deadnodes' = deadnodes + 1
    BY <1>4 DEF Drop
  <2>2. dec' \in [Addr -> Nat] /\ \A x \in Addr :
          dec'[x] = calls[x] + IF x \in Children(a) THEN 1 ELSE 0
    BY <2>1, <1>1, OnChildrenCalls
  <2>3. /\ \A x \in Addr : Cardinality(LiveParents(x)) =
             Cardinality(LiveParents(x)') + IF x \in Children(a) THEN 1 ELSE 0
        /\ Cardinality(Dead') = Cardinality(Dead) + 1
    BY <1>2, <1>4, Death
  <2>4. DeadCountExact'
    BY <2>1, <2>3 DEF DeadCountExact
  <2>5. \A x \in Addr : Cardinality(LiveParents(x)') \in Nat
    BY <1>1, FiniteParts DEF LiveParents, Allocated
  <2>6. ASSUME NEW x \in Addr
        PROVE  (_ref[x] + inc[x] = handles[x] + Cardinality(LiveParents(x)) + dec[x])'
    <3>1. _ref[x] + inc[x] = handles[x] + Cardinality(LiveParents(x)) + dec[x]
      BY DEF RefCountExact
    <3>2. Cardinality(LiveParents(x)) =
            Cardinality(LiveParents(x)') + IF x \in Children(a) THEN 1 ELSE 0
      BY <2>3
    <3>3. QED
      BY <1>3, <2>2, <2>5, <3>1, <3>2 DEF TypeOK
  <2>7. \A x \in Addr \ Allocated : x \notin Children(a) /\ x # a
    BY DEF NoDangling
  <2>8. ASSUME NEW x \in Addr \ Allocated
        PROVE  handles'[x] + _ref'[x] + dec'[x] + inc'[x] = 0
    <3>1. handles[x] = 0 /\ _ref[x] = 0 /\ dec[x] = 0 /\ inc[x] = 0
      BY UnallocatedZero
    <3>2. handles'[x] + calls[x] = handles[x] + dec[x]
      BY <2>7
    <3>3. _ref'[x] = _ref[x] /\ dec'[x] = calls[x] /\ inc'[x] = inc[x]
      BY <1>3, <2>2, <2>7
    <3>4. handles'[x] \in Nat /\ calls[x] \in Nat
      OBVIOUS
    <3>5. handles'[x] = 0 /\ calls[x] = 0
      BY <3>1, <3>2, <3>4, ZeroPair
    <3>6. QED
      BY <3>1, <3>3, <3>5
  <2>9. NoDangling'
    BY <1>1, <2>8 DEF NoDangling, EntryNodes, Allocated
  <2>10. TypeOK'
    BY <1>3, <2>1, <2>2 DEF TypeOK
  <2>11. QED
    BY <1>1, <2>4, <2>6, <2>9, <2>10 DEF RefCountExact, Canonical, Allocated, PhasesSeparate
<1>5. CASE _ref[a] # 1
  <2>1. dec' = calls /\ deadnodes' = deadnodes
    BY <1>5 DEF Drop
  <2>2. (\A x \in Addr : LiveParents(x)' = LiveParents(x)) /\ Dead' = Dead
    BY <1>3, <1>5, SameLife DEF TypeOK
  <2>3. ASSUME NEW x \in Addr
        PROVE  (_ref[x] + inc[x] = handles[x] + Cardinality(LiveParents(x)) + dec[x])'
    <3>1. _ref[x] + inc[x] = handles[x] + Cardinality(LiveParents(x)) + dec[x]
      BY DEF RefCountExact
    <3>2. Cardinality(LiveParents(x)) \in Nat
      BY FiniteParts
    <3>3. QED
      BY <1>3, <2>1, <2>2, <3>1, <3>2 DEF TypeOK
  <2>4. ASSUME NEW x \in Addr \ Allocated
        PROVE  handles'[x] + _ref'[x] + dec'[x] + inc'[x] = 0
    <3>1. handles[x] = 0 /\ _ref[x] = 0 /\ dec[x] = 0 /\ inc[x] = 0
      BY UnallocatedZero
    <3>2. handles'[x] + calls[x] = handles[x] + dec[x]
      OBVIOUS
    <3>3. _ref'[x] = _ref[x] /\ dec'[x] = calls[x] /\ inc'[x] = inc[x]
      BY <1>3, <2>1
    <3>4. handles'[x] \in Nat /\ calls[x] \in Nat
      OBVIOUS
    <3>5. handles'[x] = 0 /\ calls[x] = 0
      BY <3>1, <3>2, <3>4, ZeroPair
    <3>6. QED
      BY <3>1, <3>3, <3>5
  <2>5. NoDangling'
    BY <1>1, <2>4 DEF NoDangling, EntryNodes, Allocated
  <2>6. TypeOK'
    BY <1>3, <2>1 DEF TypeOK
  <2>7. QED
    BY <1>1, <2>1, <2>2, <2>3, <2>5, <2>6
       DEF RefCountExact, DeadCountExact, Canonical, Allocated, PhasesSeparate
<1>6. QED
  BY <1>4, <1>5

LEMMA FreeIInv == ASSUME IInv, NEW b \in Ref, _free(b) PROVE IInv'
<1> USE DEF IInv, _free, Idle
<1>1. dec = None /\ dec \in [Addr -> Nat] /\ inc = None
  BY DEF PhasesSeparate, TypeOK
<1>2. CASE b \in Addr
  <2>1. b \in Allocated /\ _ref[b] > 0
    <3>1. handles[b] > 0 /\ b \in Allocated
      BY <1>2, Referenced
    <3>2. _ref[b] + inc[b] = handles[b] + Cardinality(LiveParents(b)) + dec[b]
      BY <1>2 DEF RefCountExact
    <3>3. Cardinality(LiveParents(b)) \in Nat /\ inc[b] = 0 /\ dec[b] = 0
      BY <1>1, <1>2, FiniteParts DEF None
    <3>4. handles[b] \in Nat /\ _ref[b] \in Nat
      BY <1>2 DEF TypeOK
    <3>5. QED
      BY <3>1, <3>2, <3>3, <3>4
  <2>2. handles' = [handles EXCEPT ![b] = @ - 1] /\ Drop(b, dec)
    BY <1>2
  <2>3. handles \in [Addr -> Nat] /\ handles[b] > 0
    BY <1>2 DEF TypeOK
  <2>4. handles' \in [Addr -> Nat]
        /\ \A x \in Addr : handles'[x] + dec[x] + (IF x = b THEN 1 ELSE 0) = handles[x] + dec[x]
    BY <1>1, <1>2, <2>2, <2>3
  <2>5. QED
    BY <1>1, <2>1, <2>2, <2>4, DropIInv
<1>3. CASE b \notin Addr
  <2>1. UNCHANGED <<table, _ref, deadnodes, unique_tab_size, cache, handles, dec, inc>>
        /\ phase' = "freeing"
    BY <1>3
  <2>2. Allocated' = Allocated /\ Dead' = Dead /\ \A x \in Addr : LiveParents(x)' = LiveParents(x)
    BY <2>1 DEF Allocated, Dead, LiveParents, Children
  <2>3. QED
    BY <2>1, <2>2, <1>1 DEF TypeOK, Canonical, Children, RefCountExact, DeadCountExact,
                            NoDangling, EntryNodes, PhasesSeparate
<1>4. QED
  BY <1>2, <1>3

LEMMA FreeRecursiveIInv == ASSUME IInv, NEW a \in Addr, _free_recursive(a) PROVE IInv'
<1> DEFINE rest == [dec EXCEPT ![a] = @ - 1]
<1> USE DEF IInv, _free_recursive
<1>1. inc = None /\ dec \in [Addr -> Nat]
  BY DEF PhasesSeparate, TypeOK
<1>2. a \in Allocated /\ _ref[a] > 0
  <2>1. a \in Allocated
    BY Referenced
  <2>2. _ref[a] + inc[a] = handles[a] + Cardinality(LiveParents(a)) + dec[a]
    BY DEF RefCountExact
  <2>3. Cardinality(LiveParents(a)) \in Nat /\ inc[a] = 0
    BY <1>1, FiniteParts DEF None
  <2>4. handles[a] \in Nat /\ _ref[a] \in Nat /\ dec[a] \in Nat /\ dec[a] > 0
    BY DEF TypeOK
  <2>5. QED
    BY <2>1, <2>2, <2>3, <2>4
<1>3. rest \in [Addr -> Nat] /\ handles' \in [Addr -> Nat]
      /\ \A x \in Addr : handles'[x] + rest[x] + (IF x = a THEN 1 ELSE 0) = handles[x] + dec[x]
  BY <1>1 DEF TypeOK
<1>4. Drop(a, rest) /\ phase' = "freeing"
      /\ UNCHANGED <<table, unique_tab_size, cache, inc>>
  OBVIOUS
<1>5. QED
  BY <1>1, <1>2, <1>3, <1>4, DropIInv

\* A collection: with no call pending a counter of zero means that neither the
\* client nor a live node refers to the node.
LEMMA CollectionIInv == ASSUME IInv, garbage_collection PROVE IInv'
<1> USE DEF IInv, garbage_collection
<1>1. inc = None /\ dec = None
  BY DEF PhasesSeparate
<1>2. \A a \in Addr : _ref[a] = handles[a] + Cardinality(LiveParents(a))
  BY <1>1, FiniteParts DEF RefCountExact, None, TypeOK
<1>3. Allocated' = {a \in Allocated : _ref[a] # 0}
  BY DEF Allocated, TypeOK
<1>4. \A a \in Allocated' : a \in Allocated /\ table'[a] = table[a] /\ _ref'[a] = _ref[a]
                           /\ Children(a)' = Children(a) /\ _ref[a] > 0
  BY <1>3 DEF Allocated, Children, TypeOK
<1>5. \A x \in Addr : LiveParents(x)' = LiveParents(x)
  BY <1>3, <1>4 DEF LiveParents
<1>6. Dead' = {}
  BY <1>3, <1>4 DEF Dead
<1>7. TypeOK'
  BY DEF TypeOK
<1>8. Canonical'
  BY <1>4 DEF Canonical
<1>9. RefCountExact' /\ DeadCountExact'
  BY <1>5, <1>6, FS_EmptySet DEF RefCountExact, DeadCountExact
<1>10. \A a \in Allocated' : Children(a)' \cap Addr \subseteq Allocated'
  <2> SUFFICES ASSUME NEW a \in Allocated', NEW x \in Children(a) \cap Addr
               PROVE  x \in Allocated /\ _ref[x] # 0
    BY <1>3, <1>4
  <2>1. a \in LiveParents(x)
    BY <1>4 DEF LiveParents
  <2>2. Cardinality(LiveParents(x)) # 0 /\ Cardinality(LiveParents(x)) \in Nat
    BY <2>1, FiniteParts, FS_EmptySet
  <2>3. x \in Allocated
    BY <1>4 DEF NoDangling
  <2>4. handles[x] \in Nat
    BY DEF TypeOK
  <2>5. QED
    BY <1>2, <2>2, <2>3, <2>4
<1>11. \A e \in cache' : EntryNodes(e)' \cap Addr \subseteq Allocated'
  BY <1>3 DEF NoDangling, EntryNodes, containsZeroReference
<1>12. \A x \in Addr \ Allocated' : handles'[x] + _ref'[x] + dec'[x] + inc'[x] = 0
  <2> SUFFICES ASSUME NEW x \in Addr \ Allocated' PROVE handles[x] + _ref[x] + dec[x] + inc[x] = 0
    OBVIOUS
  <2>1. CASE x \notin Allocated
    BY <2>1 DEF NoDangling
  <2>2. CASE x \in Allocated
    <3>1. _ref[x] = 0
      BY <2>2, <1>3
    <3>2. handles[x] \in Nat /\ Cardinality(LiveParents(x)) \in Nat /\ inc[x] = 0 /\ dec[x] = 0
      BY <1>1, FiniteParts DEF TypeOK, None
    <3>3. handles[x] + Cardinality(LiveParents(x)) = 0 + 0
      BY <1>2, <3>1
    <3>4. handles[x] = 0
      BY <3>2, <3>3, ZeroPair
    <3>5. QED
      BY <3>1, <3>2, <3>4
  <2>3. QED
    BY <2>1, <2>2
<1>13. NoDangling'
  BY <1>10, <1>11, <1>12 DEF NoDangling
<1>14. PhasesSeparate'
  BY <1>1 DEF PhasesSeparate, None
<1>15. QED
  BY <1>7, <1>8, <1>9, <1>13, <1>14

\* A step that touches neither nodes nor counters, and adds no entry to the
\* cache but one of allocated nodes.
LEMMA CacheStepIInv ==
  ASSUME IInv, UNCHANGED <<table, _ref, deadnodes, handles, dec, inc>>,
         unique_tab_size' \in TableSizes,
         \A e \in cache' \ cache : e \in Entry /\ EntryNodes(e) \cap Addr \subseteq Allocated,
         phase' \in {"idle", "freeing", "resizing"}, PhasesSeparate'
  PROVE  IInv'
<1>1. Allocated' = Allocated /\ Dead' = Dead /\ \A x \in Addr : LiveParents(x)' = LiveParents(x)
  BY DEF Allocated, Dead, LiveParents, Children
<1>2. \A e \in cache' : e \in Entry /\ EntryNodes(e) \cap Addr \subseteq Allocated
  BY DEF IInv, TypeOK, NoDangling
<1>3. QED
  BY <1>1, <1>2 DEF IInv, TypeOK, Canonical, Children, RefCountExact, DeadCountExact,
                    NoDangling, EntryNodes

LEMMA StoreIInv ==
  ASSUME IInv, NEW op \in Ops, NEW args \in [1 .. Arity -> Ref], NEW res \in Ref,
         store(op, args, res)
  PROVE  IInv'
<1> DEFINE new == [op |-> op, args |-> args, res |-> res]
<1>1. new \in Entry
  BY DEF Entry
<1>2. \A i \in 1 .. Arity : args[i] \in Addr => args[i] \in Allocated
  BY AddrAssumption, Referenced DEF store, Checked
<1>3. res \in Addr => res \in Allocated
  BY Referenced DEF store
<1>4. EntryNodes(new) \cap Addr \subseteq Allocated
  BY <1>2, <1>3 DEF EntryNodes
<1>5. cache' \ cache \subseteq {new}
  BY DEF store
<1>6. UNCHANGED <<table, _ref, deadnodes, unique_tab_size, handles, dec, inc, phase>>
  BY DEF store
<1>7. PhasesSeparate' /\ unique_tab_size' \in TableSizes
      /\ phase' \in {"idle", "freeing", "resizing"}
  BY <1>6 DEF IInv, PhasesSeparate, TypeOK, None
<1>8. QED
  BY <1>1, <1>4, <1>5, <1>6, <1>7, CacheStepIInv

LEMMA OtherStepsIInv ==
  ASSUME IInv, flush \/ NoCollection \/ resize \/ NoResize \/ UNCHANGED vars
  PROVE  IInv'
<1>1. UNCHANGED <<table, _ref, deadnodes, handles, dec, inc>> /\ cache' \subseteq cache
  BY DEF flush, NoCollection, resize, NoResize, vars
<1>2. unique_tab_size' \in TableSizes
  BY DEF flush, NoCollection, resize, NoResize, vars, IInv, TypeOK
<1>3. phase' \in {"idle", "freeing", "resizing"}
  BY DEF flush, NoCollection, resize, NoResize, vars, IInv, TypeOK
<1>4. PhasesSeparate'
  BY <1>1 DEF flush, NoCollection, resize, NoResize, vars, IInv, PhasesSeparate, None
<1>5. QED
  BY <1>1, <1>2, <1>3, <1>4, CacheStepIInv

LEMMA NextIInv == IInv /\ [Next]_vars => IInv'
<1> SUFFICES ASSUME IInv, [Next]_vars PROVE IInv'
  OBVIOUS
<1>1. ASSUME NEW v \in Vars, NEW l \in Ref, NEW r \in Ref, find(v, l, r) PROVE IInv'
  BY <1>1, FindFoundIInv, FindNewIInv DEF find
<1>2. ASSUME NEW a \in Addr, copy(a) PROVE IInv'
  BY <1>2, CopyIInv
<1>3. ASSUME NEW b \in Ref, _free(b) PROVE IInv'
  BY <1>3, FreeIInv
<1>4. ASSUME NEW op \in Ops, NEW args \in [1 .. Arity -> Ref], cached(op, args) PROVE IInv'
  BY <1>4, CachedIInv
<1>5. ASSUME NEW op \in Ops, NEW args \in [1 .. Arity -> Ref], NEW res \in Ref,
             store(op, args, res)
      PROVE  IInv'
  BY <1>5, StoreIInv
<1>6. ASSUME NEW a \in Addr, _back_to_live(a) \/ _free_recursive(a) PROVE IInv'
  BY <1>6, BackToLiveIInv, FreeRecursiveIInv
<1>7. CASE garbage_collection
  BY <1>7, CollectionIInv
<1>8. CASE flush \/ NoCollection \/ resize \/ NoResize \/ UNCHANGED vars
  BY <1>8, OtherStepsIInv
<1>9. QED
  BY <1>1, <1>2, <1>3, <1>4, <1>5, <1>6, <1>7, <1>8 DEF Next, Returning

LEMMA AlwaysIInv == Spec => []IInv
BY InitIInv, NextIInv, PTL DEF Spec

\* The state of the store has its types.
THEOREM TypeCorrect == Spec => []TypeOK
<1>1. IInv => TypeOK
  BY DEF IInv
<1>2. QED
  BY <1>1, AlwaysIInv, PTL

\* The unique table never holds two nodes with the same triple, a redundant
\* node or one above a smaller variable.
THEOREM TableCanonical == Spec => []Canonical
<1>1. IInv => Canonical
  BY DEF IInv
<1>2. QED
  BY <1>1, AlwaysIInv, PTL

\* Every counter is the number of references to its node.
THEOREM CountsExact == Spec => []RefCountExact
<1>1. IInv => RefCountExact
  BY DEF IInv
<1>2. QED
  BY <1>1, AlwaysIInv, PTL

\* deadnodes is the number of dead nodes.
THEOREM DeadCorrect == Spec => []DeadCountExact
<1>1. IInv => DeadCountExact
  BY DEF IInv
<1>2. QED
  BY <1>1, AlwaysIInv, PTL

\* Neither a node, nor the cache, nor a client refers to a reclaimed address.
THEOREM NothingDangles == Spec => []NoDangling
<1>1. IInv => NoDangling
  BY DEF IInv
<1>2. QED
  BY <1>1, AlwaysIInv, PTL

\* Only a collection reclaims a node, and none that is referred to; an address
\* is filled by find only when it is not in use.
THEOREM UsedNodesStay == Spec => KeepsUsedNodes
<1> DEFINE Stay == \A a \in Allocated :
                     handles[a] > 0 \/ LiveParents(a) # {} => table'[a] = table[a]
<1>1. ASSUME IInv, Next PROVE Stay
  <2>1. CASE garbage_collection
    <3> SUFFICES ASSUME NEW a \in Allocated, handles[a] > 0 \/ LiveParents(a) # {}
                 PROVE  _ref[a] # 0
      BY <2>1 DEF garbage_collection, Allocated
    <3>1. a \in Addr /\ inc = None /\ dec = None
      BY <1>1, <2>1 DEF garbage_collection, IInv, PhasesSeparate, Allocated
    <3>2. _ref[a] + inc[a] = handles[a] + Cardinality(LiveParents(a)) + dec[a]
      BY <1>1, <3>1 DEF IInv, RefCountExact
    <3>3. Cardinality(LiveParents(a)) \in Nat
          /\ (LiveParents(a) # {} => Cardinality(LiveParents(a)) # 0)
      BY <3>1, FiniteParts, FS_EmptySet
    <3>4. inc[a] = 0 /\ dec[a] = 0 /\ handles[a] \in Nat /\ _ref[a] \in Nat
      BY <1>1, <3>1 DEF IInv, TypeOK, None
    <3>5. QED
      BY <3>2, <3>3, <3>4
  <2>2. ASSUME NEW v \in Vars, NEW l \in Ref, NEW r \in Ref, FindNew(v, l, r) PROVE Stay
    BY <2>2, <1>1 DEF FindNew, IInv, TypeOK, Allocated
  <2>3. table' = table => Stay
    OBVIOUS
  <2>4. QED
    BY <1>1, <2>1, <2>2, <2>3 DEF Next, Returning, find, FindFound, Reference, copy, _free,
       cached, store, flush, _back_to_live, _free_recursive, NoCollection, resize, NoResize
<1>2. IInv /\ [Next]_vars => [Stay]_vars
  BY <1>1
<1>3. QED
  BY <1>2, AlwaysIInv, PTL DEF Spec, KeepsUsedNodes
===============================================================================
