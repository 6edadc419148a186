------------------------ MODULE BDDsimpleAssocs_proofs ------------------------
(***************************************************************************)
(* Proofs about the substitution table, for any number of clients,         *)
(* substitutions and slots.                                                *)
(***************************************************************************)
EXTENDS BDDsimpleAssocs, FiniteSetTheorems, TLAPS

\* The clients of a slot and the null slots form finite sets.
LEMMA FiniteParts ==
  ASSUME max_assoc_buckets \in Nat
  PROVE  /\ IsFiniteSet(Slots) /\ IsFiniteSet(Empty)
         /\ \A i : IsFiniteSet(Owners(i))
<1>1. IsFiniteSet(Slots)
  BY FS_Interval DEF Slots
<1>2. IsFiniteSet(Empty)
  BY <1>1, FS_Subset, Empty \subseteq Slots DEF Empty
<1>3. ASSUME NEW i PROVE IsFiniteSet(Owners(i))
  BY FS_Subset, ClientsAssumption, Owners(i) \subseteq Clients DEF Owners
<1>4. QED
  BY <1>1, <1>2, <1>3

\* A null slot has no owner, and a slot with an owner a positive counter.
LEMMA OwnedSlots ==
  ASSUME TypeOK, OwnedSlotsMatch, RefCountExact
  PROVE  /\ \A i \in Empty : Owners(i) = {} /\ ref[i] = 0
         /\ \A c \in Clients : held[c] # NoSub =>
              index[c] \in Slots /\ ref[index[c]] \in Nat \ {0}
<1>1. ASSUME NEW i \in Empty PROVE Owners(i) = {} /\ ref[i] = 0
  <2>1. Owners(i) = {}
    BY DEF Owners, Empty, OwnedSlotsMatch
  <2>2. QED
    BY <2>1, FS_EmptySet DEF RefCountExact, Empty
<1>2. ASSUME NEW c \in Clients, held[c] # NoSub
      PROVE  index[c] \in Slots /\ ref[index[c]] \in Nat \ {0}
  <2>1. index[c] \in Slots /\ c \in Owners(index[c])
    BY <1>2 DEF TypeOK, Owners
  <2>2. IsFiniteSet(Owners(index[c]))
    BY FiniteParts DEF TypeOK
  <2>3. Cardinality(Owners(index[c])) # 0
    BY <2>1, <2>2, FS_EmptySet
  <2>4. QED
    BY <2>1, <2>3 DEF RefCountExact, TypeOK
<1>3. QED
  BY <1>1, <1>2

LEMMA InitIInv == Init => IInv
<1> SUFFICES ASSUME Init PROVE IInv
  OBVIOUS
<1> USE BucketsAssumption, NoSubAssumption DEF Init
<1>1. TypeOK
  BY DEF TypeOK, Slots
<1>2. FreeCountExact
  <2>1. Empty = 0 .. InitialBuckets - 1
    BY DEF Empty, Slots
  <2>2. QED
    BY <2>1, FS_Interval DEF FreeCountExact
<1>3. OwnersKeepTheirSlot
  <2>1. \A i \in Slots : Owners(i) = {}
    BY DEF Owners
  <2>2. QED
    BY <2>1, FS_EmptySet DEF OwnersKeepTheirSlot, OwnedSlotsMatch, RefCountExact, Slots
<1>4. NoStaleCompose /\ CacheGuarded
  BY DEF NoStaleCompose, CacheGuarded
<1>5. QED
  BY <1>1, <1>2, <1>3, <1>4 DEF IInv

-------------------------------------------------------------------------------
\* One lemma per action: each preserves the inductive invariant.

LEMMA FindSharedIInv ==
  ASSUME IInv, NEW c \in Clients, NEW s \in Subs, FindShared(c, s)
  PROVE  IInv'
<1> USE NoSubAssumption
<1>0. TypeOK /\ OwnedSlotsMatch /\ RefCountExact /\ fault = "none" /\ held[c] = NoSub
  BY DEF IInv, OwnersKeepTheirSlot, FindShared
<1>1. PICK i \in Slots : /\ i < current_assoc /\ assocs[i] = s
                         /\ ref' = [ref EXCEPT ![i] = @ + 1]
                         /\ Owns(c, i, s)
  BY DEF FindShared, Matches
<1> USE <1>1 DEF Owns
<1>2. /\ Slots' = Slots /\ Empty' = Empty
      /\ UNCHANGED <<assocs, current_assoc, max_assoc_buckets, free_assoc_buckets,
                     cache, fault>>
  BY DEF FindShared, Slots, Empty
<1>3. TypeOK'
  BY <1>0, <1>2 DEF TypeOK, Slots
<1>4. FreeCountExact'
  BY <1>2 DEF IInv, FreeCountExact
<1>5. OwnedSlotsMatch'
  BY <1>0, <1>2 DEF OwnedSlotsMatch, TypeOK
<1>6. RefCountExact'
  <2>1. Owners(i)' = Owners(i) \cup {c} /\ c \notin Owners(i)
    BY <1>0 DEF Owners, TypeOK
  <2>2. \A j \in Slots : j # i => Owners(j)' = Owners(j)
    BY <1>0 DEF Owners, TypeOK
  <2>3. Cardinality(Owners(i)') = ref[i] + 1
    <3>1. IsFiniteSet(Owners(i)) /\ Cardinality(Owners(i)) = ref[i]
      BY <1>0, FiniteParts DEF TypeOK, RefCountExact
    <3>2. QED
      BY <2>1, <3>1, FS_AddElement
  <2>4. QED
    BY <2>2, <2>3, <1>0, <1>2 DEF RefCountExact, TypeOK
<1>7. NoStaleCompose'
  BY <1>0, <1>2 DEF IInv, NoStaleCompose, CacheGuarded, TypeOK, Slots
<1>8. CacheGuarded'
  BY <1>2 DEF IInv, CacheGuarded
<1>9. QED
  BY <1>3, <1>4, <1>5, <1>6, <1>7, <1>8 DEF IInv, OwnersKeepTheirSlot

LEMMA NewInSlotIInv ==
  ASSUME IInv, NEW c \in Clients, NEW s \in Subs, NewInSlot(c, s)
  PROVE  IInv'
<1> USE NoSubAssumption
<1>0. TypeOK /\ OwnedSlotsMatch /\ RefCountExact /\ fault = "none" /\ held[c] = NoSub
  BY DEF IInv, OwnersKeepTheirSlot, NewInSlot, NotFound
<1>1. PICK i \in Empty : /\ Start <= i
                         /\ assocs' = [assocs EXCEPT ![i] = s]
                         /\ ref' = [ref EXCEPT ![i] = 1]
                         /\ current_assoc' = i + 1
                         /\ Owns(c, i, s)
  BY DEF NewInSlot
<1> USE <1>1 DEF Owns
<1>2. /\ i \in Slots /\ assocs[i] = NoSub
      /\ Slots' = Slots /\ Empty' = Empty \ {i}
      /\ free_assoc_buckets > 0 /\ free_assoc_buckets' = free_assoc_buckets - 1
      /\ cache' = IF Wraps THEN {} ELSE cache
      /\ UNCHANGED <<max_assoc_buckets, fault>>
  BY <1>0 DEF NewInSlot, Slots, Empty, TypeOK
<1>3. TypeOK'
  BY <1>0, <1>2 DEF TypeOK, Slots
<1>4. FreeCountExact'
  <2>1. free_assoc_buckets = Cardinality(Empty) /\ IsFiniteSet(Empty)
    BY <1>0, FiniteParts DEF IInv, FreeCountExact, TypeOK
  <2>2. QED
    BY <1>2, <2>1, FS_RemoveElement DEF FreeCountExact
<1>5. Owners(i) = {}
  BY <1>0, OwnedSlots
<1>6. OwnedSlotsMatch'
  BY <1>0, <1>2, <1>5 DEF OwnedSlotsMatch, TypeOK, Owners
<1>7. RefCountExact'
  <2>1. Owners(i)' = {c}
    BY <1>0, <1>5 DEF Owners, TypeOK
  <2>2. \A j \in Slots : j # i => Owners(j)' = Owners(j)
    BY <1>0 DEF Owners, TypeOK
  <2>3. Cardinality(Owners(i)') = 1
    BY <2>1, FS_Singleton
  <2>4. QED
    BY <2>2, <2>3, <1>0, <1>2 DEF RefCountExact, TypeOK
<1>8. \A t \in Subs : <<i, t>> \notin cache'
  BY <1>0, <1>2 DEF IInv, CacheGuarded, Start, TypeOK, Slots
<1>9. NoStaleCompose'
  BY <1>0, <1>2, <1>8 DEF IInv, NoStaleCompose, TypeOK
<1>10. CacheGuarded'
  <2>1. CASE Wraps
    BY <2>1, <1>2 DEF CacheGuarded
  <2>2. CASE ~Wraps
    <3>1. current_assoc <= i /\ cache' = cache
      BY <2>2, <1>2 DEF Start
    <3>2. QED
      BY <3>1, <1>0, <1>2, <1>8 DEF IInv, CacheGuarded, TypeOK, Slots
  <2>3. QED
    BY <2>1, <2>2
<1>11. QED
  BY <1>3, <1>4, <1>6, <1>7, <1>9, <1>10 DEF IInv, OwnersKeepTheirSlot

LEMMA NewDoubledIInv ==
  ASSUME IInv, NEW c \in Clients, NEW s \in Subs, NewDoubled(c, s)
  PROVE  IInv'
<1> USE NoSubAssumption
<1> DEFINE old == max_assoc_buckets
           bigger == 0 .. 2 * old - 1
<1>0. TypeOK /\ OwnedSlotsMatch /\ RefCountExact /\ fault = "none" /\ held[c] = NoSub
  BY DEF IInv, OwnersKeepTheirSlot, NewDoubled, NotFound
<1>1. PICK stored \in BOOLEAN :
        /\ max_assoc_buckets' = 2 * old
        /\ assocs' = [i \in bigger |-> IF i < old THEN assocs[i]
                                        ELSE IF i = old /\ stored THEN s ELSE NoSub]
        /\ ref' = [i \in bigger |-> IF i < old THEN ref[i]
                                     ELSE IF i = old /\ stored THEN 1 ELSE 0]
        /\ current_assoc' = old + 1
        /\ free_assoc_buckets' = old - 1
        /\ Owns(c, old, s)
        /\ fault' = IF stored THEN "none" ELSE "lost"
  BY DEF NewDoubled
<1> USE DEF Owns
<1>2. /\ old \in Nat \ {0} /\ Slots = 0 .. old - 1 /\ Slots' = bigger
      /\ old \in bigger /\ old \notin Slots /\ Slots \subseteq bigger
      /\ UNCHANGED <<cache, answer>>
  BY <1>0, <1>1 DEF NewDoubled, Slots, TypeOK
<1>3. TypeOK'
  <2>1. assocs' \in [bigger -> Subs \cup {NoSub}] /\ ref' \in [bigger -> Nat]
    BY <1>0, <1>1, <1>2 DEF TypeOK
  <2>2. held' \in [Clients -> Subs \cup {NoSub}] /\ index' \in [Clients -> bigger \cup {-1}]
    BY <1>0, <1>1, <1>2 DEF TypeOK
  <2>3. \A d \in Clients : held'[d] # NoSub => index'[d] \in bigger
    BY <1>0, <1>1, <1>2 DEF TypeOK
  <2>4. QED
    BY <2>1, <2>2, <2>3, <1>0, <1>1, <1>2 DEF TypeOK
<1>4. ASSUME stored PROVE Cardinality(Empty') = old - 1
  <2>1. Empty = {}
    BY <1>0, FiniteParts, FS_EmptySet DEF IInv, FreeCountExact, NewDoubled, TypeOK
  <2>2. Empty' = old + 1 .. 2 * old - 1
    BY <1>1, <1>2, <1>4, <2>1 DEF Empty
  <2>3. QED
    BY <2>2, <1>2, FS_Interval
<1>5. FreeCountExact'
  BY <1>1, <1>4 DEF FreeCountExact
<1>6. ASSUME stored PROVE OwnedSlotsMatch'
  BY <1>0, <1>1, <1>2, <1>6 DEF OwnedSlotsMatch, TypeOK
<1>7. ASSUME stored PROVE RefCountExact'
  <2>2. ASSUME NEW i \in bigger, i = old PROVE Cardinality(Owners(i)') = 1
    <3>1. Owners(i)' = {c}
      BY <1>0, <1>1, <1>2, <2>2 DEF Owners, TypeOK
    <3>2. QED
      BY <3>1, FS_Singleton
  <2>3. ASSUME NEW i \in Slots PROVE Cardinality(Owners(i)') = ref[i]
    <3>1. Owners(i)' = Owners(i)
      BY <1>0, <1>1, <1>2, <2>3 DEF Owners, TypeOK
    <3>2. QED
      BY <3>1, <1>0, <2>3 DEF RefCountExact
  <2>4. ASSUME NEW i \in bigger, i > old PROVE Cardinality(Owners(i)') = 0
    <3>1. Owners(i)' = {}
      BY <1>0, <1>1, <1>2, <2>4 DEF Owners, TypeOK
    <3>2. QED
      BY <3>1, FS_EmptySet
  <2>5. ASSUME NEW i \in bigger PROVE ref'[i] = Cardinality(Owners(i)')
    BY <1>1, <1>2, <1>7, <2>2, <2>3, <2>4
  <2>6. QED
    BY <1>2, <2>5 DEF RefCountExact
<1>8. NoStaleCompose'
  <2>1. \A t \in Subs : <<old, t>> \notin cache
    BY <1>2 DEF IInv, CacheGuarded
  <2>2. QED
    BY <2>1, <1>0, <1>1, <1>2 DEF IInv, NoStaleCompose, TypeOK
<1>9. CacheGuarded'
  <2>1. ASSUME NEW i \in Nat, NEW t \in Subs, <<i, t>> \in cache
        PROVE  /\ i \in bigger
               /\ assocs'[i] = t \/ (assocs'[i] = NoSub /\ i < current_assoc')
    <3>1. i \in Slots /\ (assocs[i] = t \/ (assocs[i] = NoSub /\ i < current_assoc))
      BY <2>1 DEF IInv, CacheGuarded
    <3>2. QED
      BY <3>1, <1>0, <1>1, <1>2 DEF TypeOK
  <2>2. QED
    BY <2>1, <1>2 DEF CacheGuarded
<1>10. QED
  BY <1>1, <1>3, <1>5, <1>6, <1>7, <1>8, <1>9 DEF IInv, OwnersKeepTheirSlot

LEMMA RemoveAssocIInv ==
  ASSUME IInv, NEW c \in Clients, removeAssoc(c)
  PROVE  IInv'
<1> USE NoSubAssumption
<1> DEFINE last == ref[index[c]] = 1
<1>0. TypeOK /\ OwnedSlotsMatch /\ RefCountExact /\ fault = "none" /\ held[c] # NoSub
  BY DEF IInv, OwnersKeepTheirSlot, removeAssoc
<1>1. PICK i \in Slots : i = index[c]
  BY <1>0 DEF TypeOK
<1>2. /\ ref' = [ref EXCEPT ![i] = @ - 1]
      /\ assocs' = IF last THEN [assocs EXCEPT ![i] = NoSub] ELSE assocs
      /\ free_assoc_buckets' = IF last THEN free_assoc_buckets + 1
                               ELSE free_assoc_buckets
      /\ current_assoc' = IF last /\ i >= current_assoc THEN i + 1 ELSE current_assoc
      /\ index' = [index EXCEPT ![c] = -1]
      /\ held' = [held EXCEPT ![c] = NoSub]
      /\ Slots' = Slots
      /\ UNCHANGED <<max_assoc_buckets, cache, answer, fault>>
  BY <1>1 DEF removeAssoc, Slots
<1>3. ref[i] \in Nat \ {0} /\ assocs[i] # NoSub
  BY <1>0, <1>1, OwnedSlots DEF OwnedSlotsMatch
<1>4. /\ Owners(i)' = Owners(i) \ {c} /\ c \in Owners(i)
      /\ \A j \in Slots : j # i => Owners(j)' = Owners(j)
  BY <1>0, <1>1, <1>2 DEF Owners, TypeOK
<1>5. Cardinality(Owners(i)') = ref[i] - 1 /\ IsFiniteSet(Owners(i)')
  <2>1. IsFiniteSet(Owners(i)) /\ Cardinality(Owners(i)) = ref[i]
    BY <1>0, FiniteParts DEF TypeOK, RefCountExact
  <2>2. QED
    BY <1>4, <2>1, FS_RemoveElement
<1>6. FreeCountExact' /\ free_assoc_buckets' \in 0 .. max_assoc_buckets
  <2>1. /\ free_assoc_buckets = Cardinality(Empty)
        /\ IsFiniteSet(Empty) /\ Empty \subseteq Slots
    BY <1>0, FiniteParts DEF IInv, FreeCountExact, TypeOK, Empty
  <2>2. i \notin Empty /\ Empty' = IF last THEN Empty \cup {i} ELSE Empty
    BY <1>0, <1>2, <1>3 DEF Empty, TypeOK
  <2>3. Cardinality(Empty') = free_assoc_buckets'
    BY <1>2, <2>1, <2>2, FS_AddElement
  <2>4. /\ IsFiniteSet(Slots) /\ Empty' \subseteq Slots
        /\ Cardinality(Slots) = max_assoc_buckets
    <3>1. max_assoc_buckets \in Nat \ {0} /\ Slots = 0 .. max_assoc_buckets - 1
      BY <1>0 DEF TypeOK, Slots
    <3>2. IsFiniteSet(Slots) /\ Cardinality(Slots) = max_assoc_buckets
      BY <3>1, FS_Interval
    <3>3. QED
      BY <3>2, <1>2, <2>1, <2>2
  <2>5. Cardinality(Empty') <= max_assoc_buckets /\ Cardinality(Empty') \in Nat
    BY <2>4, FS_Subset, FS_CardinalityType
  <2>6. QED
    BY <1>0, <2>3, <2>5 DEF FreeCountExact, TypeOK
<1>7. TypeOK'
  <2>1. current_assoc' \in 0 .. max_assoc_buckets
    BY <1>0, <1>1, <1>2 DEF TypeOK, Slots
  <2>2. assocs' \in [Slots -> Subs \cup {NoSub}] /\ ref' \in [Slots -> Nat]
    BY <1>0, <1>2, <1>3 DEF TypeOK
  <2>3. QED
    BY <2>1, <2>2, <1>0, <1>2, <1>6 DEF TypeOK
<1>8. OwnedSlotsMatch'
  <2>1. last => Owners(i)' = {}
    BY <1>1, <1>5, FS_EmptySet
  <2>2. QED
    BY <2>1, <1>0, <1>1, <1>2 DEF OwnedSlotsMatch, Owners, TypeOK
<1>9. RefCountExact'
  BY <1>0, <1>2, <1>4, <1>5 DEF RefCountExact, TypeOK
<1>10. NoStaleCompose'
  BY <1>0, <1>2 DEF IInv, NoStaleCompose, TypeOK
<1>11. CacheGuarded'
  BY <1>0, <1>1, <1>2 DEF IInv, CacheGuarded, TypeOK, Slots
<1>12. QED
  BY <1>6, <1>7, <1>8, <1>9, <1>10, <1>11 DEF IInv, OwnersKeepTheirSlot

LEMMA ComposeIInv ==
  ASSUME IInv, NEW c \in Clients, compose(c)
  PROVE  IInv'
<1>0. /\ TypeOK /\ OwnedSlotsMatch /\ fault = "none" /\ held[c] # NoSub
      /\ UNCHANGED <<table, index, held, fault>>
  BY DEF IInv, OwnersKeepTheirSlot, compose
<1>1. index[c] \in Slots /\ assocs[index[c]] = held[c] /\ held[c] \in Subs
  BY <1>0 DEF TypeOK, OwnedSlotsMatch
<1>2. /\ cache' \subseteq cache \cup {<<index[c], held[c]>>}
      /\ answer' \in Subs
  BY <1>1 DEF compose
<1>3. FreeCountExact' /\ OwnersKeepTheirSlot'
  <2>1. Slots' = Slots /\ Empty' = Empty /\ \A i : Owners(i)' = Owners(i)
    BY <1>0 DEF table, Slots, Empty, Owners
  <2>2. QED
    BY <2>1, <1>0 DEF IInv, FreeCountExact, OwnersKeepTheirSlot, OwnedSlotsMatch,
                      RefCountExact, table
<1>4. TypeOK'
  <2>1. cache' \in SUBSET (Nat \X Subs)
    BY <1>0, <1>1, <1>2 DEF TypeOK, Slots
  <2>2. QED
    BY <2>1, <1>0, <1>2 DEF TypeOK, table, Slots
<1>5. NoStaleCompose'
  BY <1>0, <1>1, <1>2 DEF IInv, NoStaleCompose, OwnedSlotsMatch, TypeOK
<1>6. CacheGuarded'
  BY <1>0, <1>1, <1>2 DEF IInv, CacheGuarded, table, Slots
<1>7. QED
  BY <1>3, <1>4, <1>5, <1>6 DEF IInv

LEMMA NextIInv == IInv /\ [Next]_vars => IInv'
<1> SUFFICES ASSUME IInv, [Next]_vars PROVE IInv'
  OBVIOUS
<1> DEFINE Kept == UNCHANGED <<table, index, held, answer>> /\ cache' \subseteq cache
<1>1. ASSUME Kept, fault' \in {fault, "overrun"} PROVE IInv'
  <2>1. Slots' = Slots /\ Empty' = Empty /\ \A i : Owners(i)' = Owners(i)
    BY <1>1 DEF table, Slots, Empty, Owners
  <2>2. FreeCountExact' /\ OwnersKeepTheirSlot'
    BY <2>1, <1>1 DEF IInv, FreeCountExact, OwnersKeepTheirSlot, OwnedSlotsMatch,
                      RefCountExact, table
  <2>3. TypeOK' /\ NoStaleCompose' /\ CacheGuarded'
    BY <2>1, <1>1 DEF IInv, TypeOK, NoStaleCompose, CacheGuarded, table
  <2>4. QED
    BY <2>2, <2>3 DEF IInv
<1>2. ASSUME NEW c \in Clients, NEW s \in Subs, newAssoc(c, s) PROVE IInv'
  <2>1. CASE FindShared(c, s)
    BY <2>1, FindSharedIInv
  <2>2. CASE NewInSlot(c, s)
    BY <2>2, NewInSlotIInv
  <2>3. CASE NewOverrun(c, s)
    BY <2>3, <1>1 DEF NewOverrun
  <2>4. CASE NewDoubled(c, s)
    BY <2>4, NewDoubledIInv
  <2>5. QED
    BY <1>2, <2>1, <2>2, <2>3, <2>4 DEF newAssoc
<1>3. ASSUME NEW c \in Clients, removeAssoc(c) PROVE IInv'
  BY <1>3, RemoveAssocIInv
<1>4. ASSUME NEW c \in Clients, compose(c) PROVE IInv'
  BY <1>4, ComposeIInv
<1>5. CASE Evict
  BY <1>5, <1>1 DEF Evict
<1>6. CASE UNCHANGED vars
  BY <1>6, <1>1 DEF vars
<1>7. QED
  BY <1>2, <1>3, <1>4, <1>5, <1>6 DEF Next

LEMMA AlwaysIInv == Spec => []IInv
  BY InitIInv, NextIInv, PTL DEF Spec

\* The table keeps its shape: indices stay inside the array and the free slots
\* never outnumber the slots.
THEOREM TypeCorrect == Spec => []TypeOK
<1>1. IInv => TypeOK
  BY DEF IInv
<1>2. QED
  BY <1>1, AlwaysIInv, PTL

\* free_assoc_buckets is the number of null slots after any history of
\* acquisitions, releases and doublings.
THEOREM FreeCountCorrect == Spec => []FreeCountExact
<1>1. IInv => FreeCountExact
  BY DEF IInv
<1>2. QED
  BY <1>1, AlwaysIInv, PTL

\* Sharing is safe: every client's slot holds its substitution and counts its
\* clients.
THEOREM OwnersSafe == Spec => []OwnersKeepTheirSlot
<1>1. IInv => OwnersKeepTheirSlot
  BY DEF IInv
<1>2. QED
  BY <1>1, AlwaysIInv, PTL

\* No client is ever answered with a composition cached for a former owner of
\* its index.
THEOREM ComposeNeverStale == Spec => []NoStaleCompose
<1>1. IInv => NoStaleCompose
  BY DEF IInv
<1>2. QED
  BY <1>1, AlwaysIInv, PTL

-------------------------------------------------------------------------------
\* What a handler does to the clients' substitutions and answers is what the
\* service does, and an eviction does nothing to them.
LEMMA HandlersServe ==
  ASSUME IInv, Next
  PROVE  Service!Next \/ UNCHANGED Service!vars
<1> USE NoSubAssumption
<1> SUFFICES ASSUME NEW c \in Clients,
                    \/ \E s \in Subs : newAssoc(c, s)
                    \/ removeAssoc(c)
                    \/ compose(c)
             PROVE  Service!Next \/ UNCHANGED Service!vars
  BY DEF Next, Evict, Service!vars
<1>new. ASSUME NEW s \in Subs, newAssoc(c, s)
        PROVE  Service!Acquire(c, s) \/ UNCHANGED <<held, answer>>
  BY <1>new DEF newAssoc, FindShared, NewInSlot, NewOverrun, NewDoubled, NotFound,
                Owns, Service!Acquire
<1>remove. removeAssoc(c) => Service!Release(c)
  BY DEF removeAssoc, Service!Release
<1>compose. compose(c) => Service!Compose(c)
  BY DEF compose, Service!Compose, IInv, NoStaleCompose
<1>done. QED
  BY <1>new, <1>remove, <1>compose DEF Service!Next, Service!vars

\* The table with its indices and its cache implements the service without
\* either.
THEOREM Refinement == Spec => ImplementsService
<1>start. Init => Service!Init
  BY NoSubAssumption DEF Init, Service!Init
<1>step. IInv /\ [Next]_vars => [Service!Next]_(Service!vars)
  <2>1. UNCHANGED vars => UNCHANGED Service!vars
    BY DEF vars, Service!vars
  <2>2. QED
    BY HandlersServe, <2>1
<1>done. QED
  BY AlwaysIInv, <1>start, <1>step, PTL DEF ImplementsService, Service!Spec, Spec
===============================================================================
