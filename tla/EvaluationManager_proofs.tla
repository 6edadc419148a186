------------------------ MODULE EvaluationManager_proofs ----------------------
(***************************************************************************)
(* Proofs about the evaluation manager, for any evaluators, terms, and     *)
(* number of indices.                                                      *)
(***************************************************************************)
EXTENDS EvaluationManager, TLAPS

\* A bucket's neighbours that exist, and an anchor that exists, have its index,
\* and no link is ahead of the buckets made.
LinksWithin ==
  /\ \A b \in live : next_same[b] <= made /\ prev_same[b] <= made
  /\ \A p \in Positions : state_buckets[p] <= made
  /\ \A b \in live : /\ next_same[b] \in live => registered_as[next_same[b]] = registered_as[b]
                     /\ prev_same[b] \in live => registered_as[prev_same[b]] = registered_as[b]
  /\ \A p \in Positions : state_buckets[p] \in live => registered_as[state_buckets[p]] = p

\* At most one destructor runs, and what it may meet.
DestructorsSeparate ==
  /\ \A e, f \in leaving : e = f /\ Registered(e)
  /\ \A t, u \in dying : t = u
  /\ leaving = {} \/ dying = {}
  /\ leaving = {} => cursor = Null
  /\ \A t \in dying : \A b \in On(t) : \E e \in Lasting : registered_as[b] = pos[e]

IInv ==
  /\ TypeOK
  /\ TermListsExact
  /\ ChainsComplete
  /\ NothingLeftBehind
  /\ StatesUnique
  /\ OnlyLastingBreak
  /\ LinksWithin
  /\ DestructorsSeparate

USE LastingAssumption, NumbersAssumption

LEMMA InitIInv == Init => IInv
<1> SUFFICES ASSUME Init PROVE IInv
  OBVIOUS
<1> USE DEF Init, Null, Empty
<1>1. TypeOK
  BY DEF TypeOK, Buckets, Positions
<1>2. TermListsExact
  BY DEF TermListsExact, Above, Below, Largest, On
<1>3. ChainsComplete
  BY DEF ChainsComplete, Registered
<1>4. NothingLeftBehind
  BY DEF NothingLeftBehind, Same
<1>5. StatesUnique
  BY DEF StatesUnique, Registered
<1>6. OnlyLastingBreak /\ LinksWithin
  BY DEF OnlyLastingBreak, LinksWithin
<1>7. DestructorsSeparate
  BY DEF DestructorsSeparate
<1>8. QED
  BY <1>1, <1>2, <1>3, <1>4, <1>5, <1>6, <1>7 DEF IInv

-------------------------------------------------------------------------------
(***************************************************************************)
(* Neighbours in a set of buckets                                          *)
(***************************************************************************)
BucketSets == SUBSET Buckets

\* A neighbour is determined, and being one is mutual.
LEMMA NeighboursUnique ==
  ASSUME NEW S \in BucketSets, NEW b \in Int, NEW x \in Nat, NEW y \in Nat
  PROVE  /\ Above(S, b, x) /\ Above(S, b, y) => x = y
         /\ Below(S, b, x) /\ Below(S, b, y) => x = y
BY DEF BucketSets, Buckets, Above, Below, Null

LEMMA NeighboursMutual ==
  ASSUME NEW S \in BucketSets, NEW b \in S, NEW c \in S
  PROVE  Above(S, c, b) <=> Below(S, b, c)
BY DEF BucketSets, Buckets, Above, Below, Null

\* When b is taken out, its own neighbour takes its place.
LEMMA NeighboursRemove ==
  ASSUME NEW S \in BucketSets, NEW b \in S, NEW c \in Int \ {b}, NEW x \in Nat, NEW y \in Nat
  PROVE  /\ Above(S, c, x) /\ Above(S, b, y) => Above(S \ {b}, c, IF x = b THEN y ELSE x)
         /\ Below(S, c, x) /\ Below(S, b, y) => Below(S \ {b}, c, IF x = b THEN y ELSE x)
<1> S \subseteq Nat \ {0}
  BY DEF BucketSets, Buckets
<1>1. CASE x = b
  BY <1>1 DEF Above, Below, Null
<1>2. CASE x # b
  BY <1>2 DEF Above, Below, Null
<1>3. QED
  BY <1>1, <1>2

\* The ends have no neighbour.
LEMMA Ends ==
  ASSUME NEW S \in BucketSets, NEW b \in S
  PROVE  /\ Above(S, Null, b) <=> Below(S, b, Null)
         /\ Largest(S, b) <=> Above(S, b, Null)
BY DEF BucketSets, Buckets, Above, Below, Largest, Null

\* A new bucket, larger than all, comes after the largest of them.
LEMMA NeighboursAdd ==
  ASSUME NEW S \in BucketSets, NEW b \in Buckets, \A c \in S : c < b,
         NEW h \in Nat, Largest(S, h)
  PROVE  /\ Below(S \cup {b}, b, h) /\ Above(S \cup {b}, b, Null) /\ Largest(S \cup {b}, b)
         /\ h = Null => S = {} /\ Above(S \cup {b}, Null, b)
         /\ h # Null => h \in S /\ Above(S \cup {b}, h, b)
<1> S \subseteq Nat \ {0} /\ \A c \in S : c <= MaxBuckets
  BY DEF BucketSets, Buckets
<1> QED
  BY DEF Buckets, Above, Below, Largest, Null

LEMMA NeighboursKept ==
  ASSUME NEW S \in BucketSets, NEW b \in Buckets, \A c \in S : c < b,
         NEW c \in S \cup {Null}, NEW x \in Nat
  PROVE  /\ Above(S, c, x) /\ x # Null => Above(S \cup {b}, c, x)
         /\ c # Null /\ Below(S, c, x) => Below(S \cup {b}, c, x)
<1> S \subseteq Nat \ {0}
  BY DEF BucketSets, Buckets
<1> QED
  BY DEF Buckets, Above, Below, Null

-------------------------------------------------------------------------------
\* Taking any bucket out leaves the terms' lists exact and the types right.
LEMMA DeleteTermLists ==
  ASSUME TypeOK, TermListsExact, NEW b \in live, Delete(b)
  PROVE  TermListsExact'
<1> DEFINE u == anchor[b]
<1>0. /\ live \subseteq Buckets /\ u \in Terms
      /\ b \in Nat \ {0} /\ b <= MaxBuckets
      /\ \A c \in live : c \in Nat /\ c # 0 /\ c <= MaxBuckets
  BY DEF TypeOK, Buckets, Null
<1>1. /\ live' = live \ {b}
      /\ \A c \in live' : anchor'[c] = anchor[c]
      /\ \A c \in live' : next'[c] = IF c = prev[b] THEN next[b] ELSE next[c]
      /\ \A c \in live' : prev'[c] = IF c = next[b] THEN prev[b] ELSE prev[c]
      /\ first' = IF prev[b] = Null THEN [first EXCEPT ![u] = next[b]] ELSE first
      /\ last' = IF next[b] = Null THEN [last EXCEPT ![u] = prev[b]] ELSE last
  BY DEF Delete, dequeue
<1> SUFFICES ASSUME NEW t \in Terms
             PROVE  /\ Above(On(t), Null, first[t])'
                    /\ Largest(On(t), last[t])'
                    /\ \A c \in On(t)' : Above(On(t), c, next[c])' /\ Below(On(t), c, prev[c])'
  BY DEF TermListsExact
<1>2. On(t)' = On(t) \ {b} /\ On(t) \subseteq live
  BY <1>1 DEF On
<1>3. /\ Above(On(t), Null, first[t]) /\ Below(On(t), MaxBuckets + 1, last[t])
      /\ \A c \in On(t) : Above(On(t), c, next[c]) /\ Below(On(t), c, prev[c])
  BY DEF TermListsExact, Largest
<1>4. b \in On(u) /\ (t = u <=> b \in On(t))
  BY DEF On
<1>5. Above(On(u), b, next[b]) /\ Below(On(u), b, prev[b])
  BY <1>4, <1>0 DEF TermListsExact
<1>6. CASE t # u
  <2>1. On(t)' = On(t) /\ first'[t] = first[t] /\ last'[t] = last[t]
    BY <1>1, <1>2, <1>4, <1>6 DEF TypeOK
  <2>2. ASSUME NEW c \in On(t) PROVE next'[c] = next[c] /\ prev'[c] = prev[c]
    <3>1. c \in live' /\ c \notin On(u)
      BY <1>6, <1>1, <1>2, <1>4 DEF On
    <3>2. c # next[b] /\ c # prev[b]
      BY <3>1, <1>0, <1>2, <1>5 DEF Above, Below, Null
    <3>3. QED
      BY <3>1, <3>2, <1>1
  <2>3. QED
    BY <2>1, <2>2, <1>3 DEF Above, Below, Largest
<1>7. CASE t = u
  <2> DEFINE S == On(t)
  <2>0. /\ S \in BucketSets /\ b \in S /\ S' = S \ {b} /\ S \subseteq live
        /\ \A c \in S : next[c] \in Nat /\ prev[c] \in Nat /\ c \in Int
        /\ first[t] \in Nat /\ last[t] \in Nat
    <3>1. S \in BucketSets /\ b \in S /\ S' = S \ {b} /\ S \subseteq live
      BY <1>0, <1>2, <1>4, <1>7 DEF BucketSets
    <3>2. QED
      BY <3>1, <1>0 DEF TypeOK, Buckets, Null
  <2>1. Above(S, b, next[b]) /\ Below(S, b, prev[b])
    BY <1>5, <1>7
  <2> HIDE DEF S
  <2>2. Above(S', Null, first'[t])
    <3>1. prev[b] = Null <=> first[t] = b
      BY <2>0, <2>1, <1>0, <1>3, Ends, NeighboursUnique DEF S, Null
    <3>2. first'[t] = IF first[t] = b THEN next[b] ELSE first[t]
      BY <3>1, <1>1, <1>7 DEF TypeOK
    <3>3. QED
      <4>1. Null \in Int \ {b} /\ Above(S, Null, first[t])
        BY <1>0, <1>3 DEF S, Null
      <4>2. next[b] \in Nat
        BY <2>0
      <4> QED
        BY <4>1, <4>2, <3>2, <2>0, <2>1, NeighboursRemove
  <2>3. Below(S', MaxBuckets + 1, last'[t])
    <3>1. next[b] = Null <=> last[t] = b
      BY <2>0, <2>1, <1>0, <1>3, Ends, NeighboursUnique DEF S, Null, Largest
    <3>2. last'[t] = IF last[t] = b THEN prev[b] ELSE last[t]
      BY <3>1, <1>1, <1>7 DEF TypeOK
    <3>3. QED
      <4>1. MaxBuckets + 1 \in Int \ {b} /\ Below(S, MaxBuckets + 1, last[t])
        BY <1>0, <1>3 DEF S
      <4>2. prev[b] \in Nat
        BY <2>0
      <4> QED
        BY <4>1, <4>2, <3>2, <2>0, <2>1, NeighboursRemove
  <2>4. ASSUME NEW c \in S' PROVE Above(S', c, next'[c]) /\ Below(S', c, prev'[c])
    <3>1. /\ c \in S /\ c # b /\ c \in live'
          /\ Above(S, c, next[c]) /\ Below(S, c, prev[c])
      BY <2>0, <1>1, <1>3 DEF S
    <3>2. (c = prev[b] <=> next[c] = b) /\ (c = next[b] <=> prev[c] = b)
      <4>1. /\ b \in Int /\ c \in Int /\ next[c] \in Nat /\ prev[c] \in Nat
            /\ next[b] \in Nat /\ prev[b] \in Nat /\ b \in Nat /\ c \in Nat
        BY <3>1, <2>0, <1>0
      <4>2. Above(S, c, b) <=> Below(S, b, c)
        BY <3>1, <2>0, NeighboursMutual
      <4>3. Above(S, b, c) <=> Below(S, c, b)
        BY <3>1, <2>0, NeighboursMutual
      <4>4. /\ Above(S, c, b) => next[c] = b
            /\ Below(S, c, b) => prev[c] = b
        BY <4>1, <3>1, <2>0, NeighboursUnique
      <4>5. /\ Above(S, b, c) => next[b] = c
            /\ Below(S, b, c) => prev[b] = c
        BY <4>1, <2>1, <2>0, NeighboursUnique
      <4>6. QED
        BY <4>2, <4>3, <4>4, <4>5, <3>1, <2>1
    <3>3. /\ next'[c] = IF next[c] = b THEN next[b] ELSE next[c]
          /\ prev'[c] = IF prev[c] = b THEN prev[b] ELSE prev[c]
      BY <3>1, <3>2, <1>1
    <3>4. QED
      BY <3>1, <3>3, <2>0, <2>1, NeighboursRemove
  <2>5. QED
    BY <2>2, <2>3, <2>4 DEF S, Above, Below, Largest
<1>8. QED
  BY <1>6, <1>7

\* Taking a bucket out keeps what does not speak of destructors.
DeleteKeeps ==
  /\ live \subseteq 1 .. made
  /\ state_buckets \in [Positions -> Buckets \cup {Null}]
  /\ registered_as \in [live -> Positions] /\ anchor \in [live -> Terms]
  /\ next_same \in [live -> Buckets \cup {Null}] /\ prev_same \in [live -> Buckets \cup {Null}]
  /\ next \in [live -> Buckets \cup {Null}] /\ prev \in [live -> Buckets \cup {Null}]
  /\ first \in [Terms -> Buckets \cup {Null}] /\ last \in [Terms -> Buckets \cup {Null}]
  /\ fault \subseteq Positions
  /\ TermListsExact
  /\ NothingLeftBehind
  /\ StatesUnique
  /\ LinksWithin

LEMMA DeleteKept ==
  ASSUME IInv, NEW b \in live, Delete(b), UNCHANGED pos
  PROVE  DeleteKeeps' /\ UNCHANGED made
<1> DEFINE r == registered_as[b]
<1>0. TypeOK /\ NothingLeftBehind /\ StatesUnique /\ LinksWithin /\ TermListsExact
  BY DEF IInv
<1>1. r \in Positions /\ anchor[b] \in Terms /\ UNCHANGED made
  BY <1>0 DEF TypeOK, Delete
<1>2. /\ live' = live \ {b}
      /\ prev_same' = [c \in live' |-> IF c = next_same[b] THEN prev_same[b] ELSE prev_same[c]]
      /\ next_same' = [c \in live' |-> IF c = prev_same[b] THEN next_same[b] ELSE next_same[c]]
      /\ registered_as' = [c \in live' |-> registered_as[c]]
      /\ anchor' = [c \in live' |-> anchor[c]]
      /\ state_buckets' = IF next_same[b] = Null THEN [state_buckets EXCEPT ![r] = prev_same[b]]
                          ELSE state_buckets
      /\ fault' \subseteq fault \cup {r}
  BY DEF Delete
<1>3. /\ next' = [c \in live' |-> IF c = prev[b] THEN next[b] ELSE next[c]]
      /\ prev' = [c \in live' |-> IF c = next[b] THEN prev[b] ELSE prev[c]]
      /\ first' = IF prev[b] = Null THEN [first EXCEPT ![anchor[b]] = next[b]] ELSE first
      /\ last' = IF next[b] = Null THEN [last EXCEPT ![anchor[b]] = prev[b]] ELSE last
  BY DEF Delete, dequeue
<1>4. /\ live' \subseteq (1 .. made)'
      /\ state_buckets' \in [Positions -> Buckets \cup {Null}]
      /\ registered_as' \in [live' -> Positions] /\ anchor' \in [live' -> Terms]
      /\ next_same' \in [live' -> Buckets \cup {Null}] /\ prev_same' \in [live' -> Buckets \cup {Null}]
      /\ fault' \subseteq Positions
  BY <1>0, <1>1, <1>2 DEF TypeOK
<1>5. /\ next' \in [live' -> Buckets \cup {Null}] /\ prev' \in [live' -> Buckets \cup {Null}]
      /\ first' \in [Terms -> Buckets \cup {Null}] /\ last' \in [Terms -> Buckets \cup {Null}]
  BY <1>0, <1>1, <1>2, <1>3 DEF TypeOK
<1>6. TermListsExact'
  BY <1>0, DeleteTermLists
<1>7. NothingLeftBehind'
  <2>1. r \in Occupied
    BY <1>0, <1>1 DEF NothingLeftBehind, Same
  <2>2. \A p \in Positions : Same(p)' \subseteq Same(p)
    BY <1>2 DEF Same
  <2>3. Occupied' = Occupied
    BY DEF Occupied
  <2>4. QED
    BY <1>0, <1>2, <2>1, <2>2, <2>3 DEF NothingLeftBehind, TypeOK
<1>8. StatesUnique'
  BY <1>0, <1>2 DEF StatesUnique, Registered
<1>9. LinksWithin'
  <2>1. ASSUME NEW c \in live'
        PROVE  /\ next_same'[c] \in live' => registered_as'[next_same'[c]] = registered_as'[c]
               /\ prev_same'[c] \in live' => registered_as'[prev_same'[c]] = registered_as'[c]
    BY <1>0, <1>2 DEF LinksWithin
  <2>2. ASSUME NEW p \in Positions, state_buckets'[p] \in live'
        PROVE  registered_as'[state_buckets'[p]] = p
    BY <1>0, <1>1, <1>2, <2>2 DEF LinksWithin, TypeOK
  <2>3. /\ \A c \in live' : next_same'[c] <= made /\ prev_same'[c] <= made
        /\ \A p \in Positions : state_buckets'[p] <= made
    BY <1>0, <1>1, <1>2 DEF LinksWithin, TypeOK
  <2>4. QED
    BY <1>1, <2>1, <2>2, <2>3 DEF LinksWithin
<1>10. QED
  BY <1>1, <1>4, <1>5, <1>6, <1>7, <1>8, <1>9 DEF DeleteKeeps

\* A bucket of a lasting evaluator is in no other evaluator's list.
LEMMA DeleteLasting ==
  ASSUME IInv, NEW b \in live, Delete(b), UNCHANGED <<pos, leaving, cursor>>,
         NEW l \in Lasting, registered_as[b] = pos[l], leaving = {}, fault = {}
  PROVE  ChainsComplete' /\ OnlyLastingBreak'
<1>0. TypeOK /\ ChainsComplete /\ StatesUnique /\ LinksWithin
  BY DEF IInv
<1>1. /\ live' = live \ {b}
      /\ prev_same' = [c \in live' |-> IF c = next_same[b] THEN prev_same[b] ELSE prev_same[c]]
      /\ next_same' = [c \in live' |-> IF c = prev_same[b] THEN next_same[b] ELSE next_same[c]]
      /\ registered_as' = [c \in live' |-> registered_as[c]]
      /\ state_buckets' = IF next_same[b] = Null
                          THEN [state_buckets EXCEPT ![pos[l]] = prev_same[b]] ELSE state_buckets
      /\ fault' \subseteq {pos[l]}
  BY DEF Delete
<1>2. OnlyLastingBreak'
  BY <1>1 DEF OnlyLastingBreak
<1>3. ASSUME NEW e \in Evaluators \ Lasting, Registered(e)'
      PROVE  LET S == Same(pos[e])'
             IN /\ Largest(S, state_buckets'[pos[e]])
                /\ \A c \in S : Below(S, c, next_same'[c]) /\ Above(S, c, prev_same'[c])
  <2>1. Registered(e) /\ pos[e] # pos[l] /\ pos[e] \in Positions
    BY <1>0, <1>3 DEF Registered, StatesUnique, TypeOK
  <2>2. Same(pos[e])' = Same(pos[e]) /\ state_buckets'[pos[e]] = state_buckets[pos[e]]
    BY <1>0, <1>1, <2>1 DEF Same, TypeOK
  <2>3. ASSUME NEW c \in Same(pos[e])
        PROVE  next_same'[c] = next_same[c] /\ prev_same'[c] = prev_same[c]
    BY <1>0, <1>1, <2>1, <2>2 DEF Same, LinksWithin
  <2>4. QED
    BY <1>0, <2>1, <2>2, <2>3 DEF ChainsComplete
<1>4. ChainsComplete'
  BY <1>3 DEF ChainsComplete, Largest, Above, Below, Same, Registered
<1>5. QED
  BY <1>2, <1>4

-------------------------------------------------------------------------------
(***************************************************************************)
(* One lemma per action: each preserves the inductive invariant.           *)
(***************************************************************************)
LEMMA RegisterIInv ==
  ASSUME IInv, fault = {}, NEW e \in Evaluators, register_evaluator(e)
  PROVE  IInv'
<1>0. /\ TypeOK /\ ChainsComplete /\ NothingLeftBehind /\ StatesUnique /\ LinksWithin
      /\ leaving = {} /\ dying = {} /\ ~Registered(e) /\ DestructorsSeparate /\ TermListsExact
  BY DEF IInv, register_evaluator, Idle
<1>1. PICK p \in Positions \ Occupied : pos' = [pos EXCEPT ![e] = p]
  BY DEF register_evaluator
<1>2. UNCHANGED <<state_buckets, live, made, buckets, first, last, leaving, cursor, dying, fault>>
  BY DEF register_evaluator
<1> USE <1>2 DEF buckets
<1>3. /\ \A f \in Evaluators : f # e => pos'[f] = pos[f] /\ pos[f] # p
      /\ pos'[e] = p /\ p # -1 /\ p \in Nat
  BY <1>0, <1>1 DEF TypeOK, Occupied, Positions
<1>4. TypeOK'
  BY <1>0, <1>1 DEF TypeOK
<1>5. TermListsExact'
  BY <1>0 DEF TermListsExact, On, Above, Below, Largest
<1>6. ChainsComplete'
  <2>1. ASSUME NEW f \in Evaluators \ Lasting, Registered(f)', f # e
        PROVE  LET S == Same(pos'[f])
               IN /\ Largest(S, state_buckets[pos'[f]])
                  /\ \A c \in S : Below(S, c, next_same[c]) /\ Above(S, c, prev_same[c])
    BY <2>1, <1>0, <1>3 DEF ChainsComplete, Registered
  <2>2. LET S == Same(pos'[e])
        IN /\ Largest(S, state_buckets[pos'[e]])
           /\ \A c \in S : Below(S, c, next_same[c]) /\ Above(S, c, prev_same[c])
    <3>1. Same(p) = {} /\ state_buckets[p] = Null
      BY <1>0 DEF NothingLeftBehind
    <3>2. QED
      BY <3>1, <1>3 DEF Largest, Below
  <2>3. QED
    BY <2>1, <2>2, <1>0 DEF ChainsComplete, Same, Largest, Above, Below
<1>7. NothingLeftBehind'
  <2>1. Occupied \subseteq Occupied'
    BY <1>0, <1>3 DEF Occupied, Registered, Positions
  <2>2. QED
    BY <2>1, <1>0 DEF NothingLeftBehind, Same
<1>8. StatesUnique'
  BY <1>0, <1>3 DEF StatesUnique, Registered
<1>9. OnlyLastingBreak' /\ LinksWithin'
  BY <1>0 DEF OnlyLastingBreak, LinksWithin
<1>10. DestructorsSeparate'
  BY <1>0 DEF DestructorsSeparate
<1>11. QED
  BY <1>4, <1>5, <1>6, <1>7, <1>8, <1>9, <1>10 DEF IInv

LEMMA RemoveStateIInv ==
  ASSUME IInv, fault = {}, NEW e \in Evaluators, NEW t \in Terms, remove_state(e, t)
  PROVE  IInv'
<1>0. /\ TypeOK /\ DestructorsSeparate /\ leaving = {} /\ dying = {} /\ e \in Lasting
      /\ UNCHANGED <<pos, leaving, cursor, dying>>
  BY DEF IInv, remove_state, Idle
<1>1. PICK b \in live : Delete(b) /\ registered_as[b] = pos[e]
  BY DEF remove_state, Found
<1>2. DeleteKeeps' /\ UNCHANGED made
  BY <1>0, <1>1, DeleteKept
<1>3. ChainsComplete' /\ OnlyLastingBreak'
  BY <1>0, <1>1, DeleteLasting
<1>4. TypeOK'
  BY <1>0, <1>2 DEF TypeOK, DeleteKeeps
<1>5. DestructorsSeparate'
  BY <1>0 DEF DestructorsSeparate
<1>6. QED
  BY <1>2, <1>3, <1>4, <1>5 DEF IInv, DeleteKeeps

LEMMA DeleteTermIInv ==
  ASSUME IInv, fault = {}, NEW t \in Terms, DeleteTerm(t)
  PROVE  IInv'
<1>0. TypeOK /\ DestructorsSeparate /\ leaving = {} /\ dying' = {t}
  BY DEF IInv, DeleteTerm, Idle
<1>1. /\ UNCHANGED <<pos, state_buckets, live, made, buckets, first, last, leaving, cursor, fault>>
      /\ \A b \in live : anchor[b] = t => \E e \in Lasting : registered_as[b] = pos[e]
  BY DEF DeleteTerm
<1> USE <1>1 DEF buckets
<1>2. TypeOK'
  BY <1>0 DEF TypeOK
<1>3. TermListsExact' /\ ChainsComplete'
  BY DEF IInv, TermListsExact, ChainsComplete, On, Same, Registered, Above, Below, Largest
<1>4. NothingLeftBehind' /\ StatesUnique' /\ OnlyLastingBreak' /\ LinksWithin'
  BY DEF IInv, NothingLeftBehind, StatesUnique, OnlyLastingBreak, LinksWithin,
         Occupied, Same, Registered
<1>5. DestructorsSeparate'
  BY <1>0 DEF DestructorsSeparate, On
<1>6. QED
  BY <1>2, <1>3, <1>4, <1>5 DEF IInv

LEMMA DeleteFirstIInv ==
  ASSUME IInv, fault = {}, DeleteFirst
  PROVE  IInv'
<1>0. TypeOK /\ DestructorsSeparate /\ TermListsExact
  BY DEF IInv
<1>1. PICK t \in dying :
        \/ first[t] # Null /\ Delete(first[t]) /\ UNCHANGED <<pos, leaving, cursor, dying>>
        \/ /\ dying' = {}
           /\ UNCHANGED <<pos, state_buckets, live, made, buckets, first, last, leaving, cursor, fault>>
  BY DEF DeleteFirst
<1>2. t \in Terms /\ leaving = {} /\ dying = {t}
  BY <1>0 DEF DestructorsSeparate, TypeOK
<1>3. CASE first[t] # Null /\ Delete(first[t]) /\ UNCHANGED <<pos, leaving, cursor, dying>>
  <2>1. first[t] \in On(t) /\ first[t] \in live
    BY <1>0, <1>2, <1>3 DEF TermListsExact, Above, On
  <2>2. PICK e \in Lasting : registered_as[first[t]] = pos[e]
    BY <1>0, <2>1 DEF DestructorsSeparate
  <2>3. DeleteKeeps' /\ UNCHANGED made
    BY <1>3, <2>1, DeleteKept
  <2>4. ChainsComplete' /\ OnlyLastingBreak'
    BY <1>2, <1>3, <2>1, <2>2, DeleteLasting
  <2>5. TypeOK'
    BY <1>0, <1>3, <2>3 DEF TypeOK, DeleteKeeps
  <2>6. DestructorsSeparate'
    <3>1. ASSUME NEW u \in dying, NEW b \in On(u)'
          PROVE  \E f \in Lasting : registered_as'[b] = pos'[f]
      BY <1>0, <1>3 DEF DestructorsSeparate, On, Delete
    <3>2. QED
      BY <3>1, <1>0, <1>2, <1>3 DEF DestructorsSeparate
  <2>7. QED
    BY <2>3, <2>4, <2>5, <2>6 DEF IInv, DeleteKeeps
<1>4. CASE /\ dying' = {}
           /\ UNCHANGED <<pos, state_buckets, live, made, buckets, first, last, leaving, cursor, fault>>
  <2> USE <1>4 DEF buckets
  <2>1. TypeOK'
    BY <1>0 DEF TypeOK
  <2>2. TermListsExact' /\ ChainsComplete'
    BY DEF IInv, TermListsExact, ChainsComplete, On, Same, Registered, Above, Below, Largest
  <2>3. NothingLeftBehind' /\ StatesUnique' /\ OnlyLastingBreak' /\ LinksWithin'
    BY DEF IInv, NothingLeftBehind, StatesUnique, OnlyLastingBreak, LinksWithin,
           Occupied, Same, Registered
  <2>4. DestructorsSeparate'
    BY <1>0 DEF DestructorsSeparate
  <2>5. QED
    BY <2>1, <2>2, <2>3, <2>4 DEF IInv
<1>5. QED
  BY <1>1, <1>3, <1>4

LEMMA RemoveEvaluatorIInv ==
  ASSUME IInv, fault = {}, NEW e \in Evaluators, remove_evaluator(e)
  PROVE  IInv'
<1>0. /\ TypeOK /\ ChainsComplete /\ DestructorsSeparate /\ StatesUnique
      /\ leaving = {} /\ dying = {} /\ leaving' = {e} /\ Registered(e) /\ e \notin Lasting
      /\ cursor' = state_buckets[pos[e]]
  BY DEF IInv, remove_evaluator, Idle
<1>1. UNCHANGED <<pos, state_buckets, live, made, buckets, first, last, dying, fault>>
  BY DEF remove_evaluator
<1> USE <1>1 DEF buckets
<1>2. TypeOK'
  <2>1. pos[e] \in Positions
    BY <1>0 DEF TypeOK, Registered
  <2>2. QED
    BY <2>1, <1>0 DEF TypeOK
<1>3. TermListsExact'
  BY DEF IInv, TermListsExact, On, Above, Below, Largest
<1>4. ChainsComplete'
  BY <1>0 DEF ChainsComplete, Registered, Same, Above, Below, Largest
<1>5. NothingLeftBehind' /\ StatesUnique' /\ OnlyLastingBreak' /\ LinksWithin'
  BY DEF IInv, NothingLeftBehind, StatesUnique, OnlyLastingBreak, LinksWithin,
         Occupied, Same, Registered
<1>6. DestructorsSeparate'
  BY <1>0 DEF DestructorsSeparate, Registered
<1>7. QED
  BY <1>2, <1>3, <1>4, <1>5, <1>6 DEF IInv

LEMMA RemoveNextIInv ==
  ASSUME IInv, fault = {}, RemoveNext
  PROVE  IInv'
<1>0. TypeOK /\ ChainsComplete /\ DestructorsSeparate /\ StatesUnique /\ LinksWithin
  BY DEF IInv
<1>1. /\ Delete(cursor) /\ cursor # Null /\ cursor' = next_same[cursor]
      /\ UNCHANGED <<pos, leaving, dying>>
  BY DEF RemoveNext
<1>2. PICK e \in leaving : TRUE
  BY DEF RemoveNext
<1>3. /\ leaving = {e} /\ e \in Evaluators \ Lasting /\ Registered(e) /\ dying = {}
      /\ pos[e] \in Positions
  BY <1>0, <1>2 DEF DestructorsSeparate, TypeOK, Registered
<1> DEFINE S == Same(pos[e])
           n == next_same[cursor]
<1>4. /\ Largest(S, cursor)
      /\ \A c \in S : Below(S, c, next_same[c]) /\ Above(S, c, prev_same[c])
  BY <1>0, <1>3 DEF ChainsComplete
<1>5. /\ cursor \in S /\ S \subseteq live /\ registered_as[cursor] = pos[e]
      /\ S \in BucketSets /\ \A c \in S : next_same[c] \in Nat /\ prev_same[c] \in Nat /\ c \in Int
      /\ cursor \in Nat /\ cursor <= MaxBuckets
  <2>1. cursor \in S /\ S \subseteq live
    BY <1>1, <1>4 DEF Largest, Below, Same
  <2>2. live \subseteq Buckets
    BY <1>0 DEF TypeOK, Buckets, Null
  <2>3. QED
    <3>1. registered_as[cursor] = pos[e]
      BY <2>1 DEF Same
    <3>2. S \in BucketSets
      BY <2>1, <2>2 DEF BucketSets
    <3>3. \A c \in live : next_same[c] \in Nat /\ prev_same[c] \in Nat
      BY <1>0 DEF TypeOK, Buckets, Null
    <3>4. \A c \in live : c \in Int /\ c \in Nat /\ c <= MaxBuckets
      BY <2>2 DEF Buckets
    <3>5. QED
      BY <2>1, <3>1, <3>2, <3>3, <3>4
<1>6. DeleteKeeps' /\ UNCHANGED made
  BY <1>1, <1>5, DeleteKept
<1>7. /\ live' = live \ {cursor}
      /\ prev_same' = [c \in live' |-> IF c = n THEN prev_same[cursor] ELSE prev_same[c]]
      /\ next_same' = [c \in live' |-> IF c = prev_same[cursor] THEN n ELSE next_same[c]]
      /\ registered_as' = [c \in live' |-> registered_as[c]]
      /\ state_buckets' = IF n = Null
                          THEN [state_buckets EXCEPT ![pos[e]] = prev_same[cursor]] ELSE state_buckets
  BY <1>1, <1>5 DEF Delete
<1>8. prev_same[cursor] = Null /\ Above(S, cursor, Null)
  <2>1. Above(S, cursor, Null) /\ Above(S, cursor, prev_same[cursor])
    BY <1>4, <1>5, Ends
  <2>2. QED
    BY <2>1, <1>5, NeighboursUnique DEF Null
<1>9. fault' = {} /\ OnlyLastingBreak'
  <2>1. ~Gone(n) /\ ~Gone(prev_same[cursor])
    BY <1>4, <1>5, <1>8 DEF Gone, Below
  <2>2. QED
    BY <2>1, <1>1 DEF Delete, OnlyLastingBreak
<1>10. ChainsComplete'
  <2>1. S' = S \ {cursor}
    BY <1>1, <1>5, <1>7 DEF Same
  <2> HIDE DEF S
  <2>2. Below(S, cursor, n)
    BY <1>4, <1>5
  <2>3. Largest(S \ {cursor}, n)
    <3>1. MaxBuckets + 1 \in Int \ {cursor} /\ cursor \in Nat /\ n \in Nat
      BY <1>5
    <3>2. QED
      BY <3>1, <2>2, <1>4, <1>5, NeighboursRemove DEF Largest
  <2>4. ASSUME NEW c \in S \ {cursor}
        PROVE  Below(S \ {cursor}, c, next_same'[c]) /\ Above(S \ {cursor}, c, prev_same'[c])
    <3>1. c \in live' /\ c # Null
      BY <1>5, <1>7 DEF BucketSets, Buckets, Null
    <3>2. next_same'[c] = next_same[c] /\ next_same[c] # cursor
      <4>1. Above(S, cursor, c) <=> Below(S, c, cursor)
        BY <1>5, NeighboursMutual
      <4>2. next_same[c] # cursor
        <5>1. c \in S /\ c \in Int /\ c \in Nat /\ cursor \in Nat /\ Null \in Nat /\ cursor \in Int
              /\ S \in BucketSets
          <6>1. c \in S /\ S \in BucketSets /\ cursor \in Nat
            BY <1>5
          <6>2. c \in Buckets
            BY <6>1 DEF BucketSets
          <6>3. QED
            BY <6>1, <6>2 DEF Buckets, Null
        <5>2. Above(S, cursor, c) => c = Null
          BY <5>1, <1>8, NeighboursUnique
        <5>3. Below(S, c, next_same[c])
          BY <5>1, <1>4
        <5>4. QED
          BY <4>1, <5>2, <5>3, <3>1
      <4>3. QED
        BY <4>2, <3>1, <1>7, <1>8
    <3>3. prev_same'[c] = IF prev_same[c] = cursor THEN Null ELSE prev_same[c]
      <4>1. Above(S, c, cursor) <=> Below(S, cursor, c)
        BY <1>5, NeighboursMutual
      <4>2. c = n <=> prev_same[c] = cursor
        <5>1. /\ c \in S /\ c \in Int /\ c \in Nat /\ cursor \in Nat /\ cursor \in Int /\ n \in Nat
              /\ S \in BucketSets /\ prev_same[c] \in Nat
          <6>1. /\ c \in S /\ S \in BucketSets /\ cursor \in S
                /\ cursor \in Nat /\ n \in Nat /\ prev_same[c] \in Nat
            BY <1>5
          <6>2. c \in Buckets
            BY <6>1 DEF BucketSets
          <6>3. QED
            BY <6>1, <6>2 DEF Buckets
        <5>2. Above(S, c, prev_same[c])
          BY <5>1, <1>4
        <5>3. Above(S, c, cursor) => prev_same[c] = cursor
          BY <5>1, <5>2, NeighboursUnique
        <5>4. Below(S, cursor, c) => c = n
          BY <5>1, <2>2, NeighboursUnique
        <5>5. QED
          BY <4>1, <5>2, <5>3, <5>4, <2>2
      <4>3. QED
        BY <4>2, <3>1, <1>7, <1>8
    <3>4. Null \in Nat /\ c \in Int \ {cursor}
      BY <1>5 DEF Null
    <3>5. Below(S \ {cursor}, c, next_same[c])
      BY <3>2, <3>4, <2>2, <1>4, <1>5, NeighboursRemove
    <3>6. Above(S \ {cursor}, c, IF prev_same[c] = cursor THEN Null ELSE prev_same[c])
      BY <3>4, <1>4, <1>5, <1>8, NeighboursRemove
    <3>7. QED
      BY <3>2, <3>3, <3>5, <3>6
  <2>5. ASSUME NEW f \in Evaluators \ Lasting, Registered(f)', f # e
        PROVE  /\ Same(pos[f])' = Same(pos[f]) /\ state_buckets'[pos[f]] = state_buckets[pos[f]]
               /\ \A c \in Same(pos[f]) : next_same'[c] = next_same[c] /\ prev_same'[c] = prev_same[c]
    <3>1. Registered(f) /\ pos[f] # pos[e] /\ pos[f] \in Positions
      BY <2>5, <1>0, <1>1, <1>3 DEF StatesUnique, Registered, TypeOK
    <3>2. Same(pos[f])' = Same(pos[f]) /\ state_buckets'[pos[f]] = state_buckets[pos[f]]
      BY <3>1, <1>0, <1>1, <1>5, <1>7 DEF Same, TypeOK
    <3>3. ASSUME NEW c \in Same(pos[f])
          PROVE  next_same'[c] = next_same[c] /\ prev_same'[c] = prev_same[c]
      BY <3>1, <3>2, <1>0, <1>1, <1>5, <1>7 DEF Same, LinksWithin
    <3>4. QED
      BY <3>2, <3>3
  <2>6. QED
    <3>1. ASSUME NEW f \in Evaluators \ Lasting, Registered(f)'
          PROVE  /\ Largest(Same(pos[f])', IF f \in leaving THEN cursor' ELSE state_buckets'[pos[f]])
                 /\ \A c \in Same(pos[f])' : /\ Below(Same(pos[f])', c, next_same'[c])
                                            /\ Above(Same(pos[f])', c, prev_same'[c])
      <4>1. CASE f = e
        BY <4>1, <2>1, <2>3, <2>4, <1>1, <1>3 DEF S
      <4>2. CASE f # e
        BY <4>2, <3>1, <2>5, <1>0, <1>1, <1>3 DEF ChainsComplete, Registered
      <4>3. QED
        BY <4>1, <4>2
    <3>2. QED
      BY <3>1, <1>1 DEF ChainsComplete, Largest, Above, Below
<1>11. TypeOK'
  BY <1>0, <1>1, <1>5, <1>6 DEF TypeOK, DeleteKeeps
<1>12. DestructorsSeparate'
  BY <1>0, <1>1, <1>3 DEF DestructorsSeparate, Registered
<1>13. QED
  BY <1>6, <1>9, <1>10, <1>11, <1>12 DEF IInv, DeleteKeeps

LEMMA RemoveDoneIInv ==
  ASSUME IInv, fault = {}, RemoveDone
  PROVE  IInv'
<1>0. /\ TypeOK /\ ChainsComplete /\ DestructorsSeparate /\ StatesUnique /\ LinksWithin
      /\ NothingLeftBehind
  BY DEF IInv
<1>1. PICK e \in leaving : /\ cursor = Null
                           /\ state_buckets' = [state_buckets EXCEPT ![pos[e]] = Null]
                           /\ pos' = [pos EXCEPT ![e] = -1]
                           /\ leaving' = {}
                           /\ UNCHANGED <<live, made, buckets, first, last, cursor, dying, fault>>
  BY DEF RemoveDone
<1> USE <1>1 DEF buckets
<1>2. /\ leaving = {e} /\ e \in Evaluators \ Lasting /\ Registered(e) /\ dying = {}
      /\ pos[e] \in Positions
  BY <1>0 DEF DestructorsSeparate, TypeOK, Registered
<1>3. Same(pos[e]) = {}
  <2>1. Largest(Same(pos[e]), Null)
    BY <1>0, <1>2 DEF ChainsComplete
  <2>2. ASSUME NEW c \in live PROVE c <= MaxBuckets /\ c \in Int
    BY <1>0 DEF TypeOK, Buckets, Null
  <2>3. \A c \in Same(pos[e]) : MaxBuckets + 1 <= c
    BY <2>1 DEF Largest, Below
  <2>4. QED
    BY <2>2, <2>3 DEF Same
<1>4. TypeOK'
  BY <1>0, <1>2 DEF TypeOK, Null
<1>5. TermListsExact'
  BY DEF IInv, TermListsExact, On, Above, Below, Largest
<1>6. ChainsComplete'
  BY <1>0, <1>2 DEF ChainsComplete, StatesUnique, Registered, Same, Above, Below, Largest, TypeOK
<1>7. NothingLeftBehind'
  <2>1. Occupied \ {pos[e]} \subseteq Occupied'
    BY <1>0, <1>2 DEF Occupied, TypeOK
  <2>2. QED
    BY <2>1, <1>0, <1>2, <1>3 DEF NothingLeftBehind, Same, TypeOK
<1>8. StatesUnique'
  BY <1>0, <1>2 DEF StatesUnique, Registered, TypeOK
<1>9. OnlyLastingBreak'
  BY DEF OnlyLastingBreak
<1>10. LinksWithin'
  BY <1>0, <1>2 DEF LinksWithin, TypeOK, Null, Buckets
<1>11. DestructorsSeparate'
  BY <1>0, <1>2 DEF DestructorsSeparate
<1>12. QED
  BY <1>4, <1>5, <1>6, <1>7, <1>8, <1>9, <1>10, <1>11 DEF IInv

\* A bucket that is put at the end of its term's list.
LEMMA AddTermLists ==
  ASSUME IInv, NEW e \in Evaluators, NEW t \in Terms, add_state(e, t)
  PROVE  TermListsExact'
<1> DEFINE b == made + 1
<1>0. TypeOK /\ TermListsExact
  BY DEF IInv
<1>1. /\ live' = live \cup {b} /\ b \in Buckets
      /\ anchor' = [c \in live' |-> IF c = b THEN t ELSE anchor[c]]
      /\ prev' = [c \in live' |-> IF c = b THEN last[t] ELSE prev[c]]
      /\ next' = [c \in live' |-> IF c = b THEN Null ELSE IF c = last[t] THEN b ELSE next[c]]
      /\ last' = [last EXCEPT ![t] = b]
      /\ first' = IF first[t] = Null THEN [first EXCEPT ![t] = b] ELSE first
  BY DEF add_state, insert
<1>2. /\ live \subseteq Buckets /\ b \notin live /\ b # Null /\ b \in Nat
      /\ \A c \in live : c < b /\ c \in Nat /\ c # Null
  BY <1>0, <1>1 DEF TypeOK, Buckets, Null
<1> HIDE DEF b
<1> SUFFICES ASSUME NEW u \in Terms
             PROVE  /\ Above(On(u), Null, first[u])'
                    /\ Largest(On(u), last[u])'
                    /\ \A c \in On(u)' : Above(On(u), c, next[c])' /\ Below(On(u), c, prev[c])'
  BY DEF TermListsExact
<1>3. /\ Above(On(u), Null, first[u]) /\ Largest(On(u), last[u])
      /\ \A c \in On(u) : Above(On(u), c, next[c]) /\ Below(On(u), c, prev[c])
  BY <1>0 DEF TermListsExact
<1>4. On(u) \subseteq live /\ On(u)' = IF u = t THEN On(u) \cup {b} ELSE On(u)
  BY <1>1, <1>2 DEF On
<1>5. CASE u # t
  <2>1. last[t] \notin On(u)
    BY <1>0, <1>2, <1>4, <1>5 DEF TermListsExact, Largest, Below, On
  <2>2. /\ On(u)' = On(u) /\ first'[u] = first[u] /\ last'[u] = last[u]
        /\ \A c \in On(u) : next'[c] = next[c] /\ prev'[c] = prev[c]
    BY <2>1, <1>0, <1>1, <1>2, <1>4, <1>5 DEF TypeOK
  <2>3. QED
    BY <2>2, <1>3 DEF Above, Below, Largest
<1>6. CASE u = t
  <2> DEFINE S == On(u)
             h == last[t]
  <2>0. /\ S \in BucketSets /\ S' = S \cup {b} /\ b \in Buckets /\ h \in Nat
        /\ first[u] \in Nat /\ \A c \in S : next[c] \in Nat /\ prev[c] \in Nat
    <3>1. S \in BucketSets /\ S' = S \cup {b} /\ b \in Buckets
      BY <1>1, <1>2, <1>4, <1>6 DEF BucketSets
    <3>2. h \in Nat /\ first[u] \in Nat
      BY <1>0 DEF TypeOK, Buckets, Null
    <3>3. \A c \in live : next[c] \in Nat /\ prev[c] \in Nat
      BY <1>0 DEF TypeOK, Buckets, Null
    <3>4. QED
      BY <3>1, <3>2, <3>3, <1>4
  <2>1. /\ \A c \in S : c < b /\ c \in live /\ c # Null /\ c # b /\ c \in Nat
        /\ Largest(S, h) /\ Above(S, Null, first[u])
        /\ \A c \in S : Above(S, c, next[c]) /\ Below(S, c, prev[c])
    BY <1>2, <1>3, <1>4, <1>6
  <2> HIDE DEF S
  <2>2. /\ Below(S \cup {b}, b, h) /\ Above(S \cup {b}, b, Null) /\ Largest(S \cup {b}, b)
        /\ h = Null => S = {} /\ Above(S \cup {b}, Null, b)
        /\ h # Null => h \in S /\ Above(S \cup {b}, h, b)
    BY <2>0, <2>1, NeighboursAdd
  <2>3. Above(S \cup {b}, Null, first'[u])
    <3>1. CASE first[u] = Null
      <4>1. S = {}
        BY <3>1, <2>1 DEF Above, Null
      <4>2. h = Null
        BY <4>1, <2>2
      <4>3. QED
        BY <4>2, <3>1, <2>2, <1>0, <1>1, <1>6 DEF TypeOK
    <3>2. CASE first[u] # Null
      BY <3>2, <2>0, <2>1, <1>1, <1>6, NeighboursKept
    <3>3. QED
      BY <3>1, <3>2
  <2>4. Largest(S \cup {b}, last'[u])
    BY <2>2, <1>0, <1>1, <1>6 DEF TypeOK
  <2>5. Above(S \cup {b}, b, next'[b]) /\ Below(S \cup {b}, b, prev'[b])
    BY <2>2, <1>1
  <2>6. ASSUME NEW c \in S
        PROVE  Above(S \cup {b}, c, next'[c]) /\ Below(S \cup {b}, c, prev'[c])
    <3>1. /\ c \in live' /\ c # b /\ c # Null /\ next[c] \in Nat /\ prev[c] \in Nat
          /\ Above(S, c, next[c]) /\ Below(S, c, prev[c])
      BY <2>0, <2>1, <1>1
    <3>2. prev'[c] = prev[c] /\ next'[c] = IF c = h THEN b ELSE next[c]
      BY <3>1, <1>1
    <3>3. Below(S \cup {b}, c, prev'[c])
      BY <3>1, <3>2, <2>0, <2>1, NeighboursKept
    <3>4. CASE c = h
      BY <3>1, <3>2, <3>3, <3>4, <2>2
    <3>5. CASE c # h
      <4>1. next[c] # Null
        <5>1. SUFFICES ASSUME next[c] = Null PROVE c = h
          BY <3>5
        <5>2. Largest(S, c)
          BY <5>1, <3>1, <2>0, Ends
        <5>3. MaxBuckets + 1 \in Int /\ c \in Nat /\ h \in Nat
          BY <2>0, <2>1
        <5>4. QED
          BY <5>2, <5>3, <2>0, <2>1, NeighboursUnique DEF Largest
      <4>2. QED
        BY <4>1, <3>1, <3>2, <3>5, <2>0, <2>1, NeighboursKept
    <3>6. QED
      BY <3>3, <3>4, <3>5
  <2>7. QED
    BY <2>0, <2>3, <2>4, <2>5, <2>6 DEF S, Above, Below, Largest
<1>7. QED
  BY <1>5, <1>6

\* The same at the front of its evaluator's list.
LEMMA AddChains ==
  ASSUME IInv, NEW e \in Evaluators, NEW t \in Terms, add_state(e, t)
  PROVE  ChainsComplete' /\ (e \notin Lasting => ~Gone(state_buckets[pos[e]]))
<1> DEFINE b == made + 1
           p == pos[e]
           h == state_buckets[p]
<1>0. TypeOK /\ ChainsComplete /\ StatesUnique /\ LinksWithin
  BY DEF IInv
<1>1. /\ live' = live \cup {b} /\ b \in Buckets
      /\ registered_as' = [c \in live' |-> IF c = b THEN p ELSE registered_as[c]]
      /\ next_same' = [c \in live' |-> IF c = b THEN h ELSE next_same[c]]
      /\ prev_same' = [c \in live' |-> IF c = b THEN Null ELSE IF c = h THEN b ELSE prev_same[c]]
      /\ state_buckets' = [state_buckets EXCEPT ![p] = b]
      /\ Registered(e) /\ leaving = {} /\ UNCHANGED <<pos, leaving>>
  BY DEF add_state, Idle
<1>2. /\ live \subseteq Buckets /\ b \notin live /\ b # Null /\ b \in Nat
      /\ \A c \in live : c < b /\ c \in Nat /\ c # Null
  BY <1>0, <1>1 DEF TypeOK, Buckets, Null
<1>3. p \in Positions /\ h \in Nat
  BY <1>0, <1>1 DEF TypeOK, Registered, Buckets, Null
<1> HIDE DEF b
<1>4. ASSUME NEW f \in Evaluators \ Lasting, Registered(f)', f # e
      PROVE  LET S == Same(pos[f])'
             IN /\ Largest(S, state_buckets'[pos[f]])
                /\ \A c \in S : Below(S, c, next_same'[c]) /\ Above(S, c, prev_same'[c])
  <2>1. Registered(f) /\ pos[f] # p /\ pos[f] \in Positions
    BY <1>0, <1>1, <1>4 DEF Registered, StatesUnique, TypeOK
  <2>2. Same(pos[f])' = Same(pos[f]) /\ state_buckets'[pos[f]] = state_buckets[pos[f]]
    BY <1>0, <1>1, <1>2, <2>1 DEF Same, TypeOK
  <2>3. ASSUME NEW c \in Same(pos[f])
        PROVE  next_same'[c] = next_same[c] /\ prev_same'[c] = prev_same[c]
    BY <1>0, <1>1, <1>2, <1>3, <2>1, <2>2 DEF Same, LinksWithin
  <2>4. QED
    <3>1. /\ Largest(Same(pos[f]), state_buckets[pos[f]])
          /\ \A c \in Same(pos[f]) : Below(Same(pos[f]), c, next_same[c])
                                    /\ Above(Same(pos[f]), c, prev_same[c])
      BY <1>0, <1>1, <2>1 DEF ChainsComplete
    <3>2. Largest(Same(pos[f]), state_buckets'[pos[f]])
      BY <2>2, <3>1
    <3>3. ASSUME NEW c \in Same(pos[f])
          PROVE  Below(Same(pos[f]), c, next_same'[c]) /\ Above(Same(pos[f]), c, prev_same'[c])
      BY <2>3, <3>1
    <3> DEFINE S == Same(pos[f])
    <3>4. /\ Largest(S, state_buckets'[pos[f]])
          /\ \A c \in S : Below(S, c, next_same'[c]) /\ Above(S, c, prev_same'[c])
      BY <3>2, <3>3
    <3>5. Same(pos[f])' = S
      BY <2>2
    <3> HIDE DEF S
    <3>6. QED
      BY <3>4, <3>5
<1>5. ASSUME e \notin Lasting
      PROVE  LET S == Same(p)'
             IN /\ Largest(S, state_buckets'[p])
                /\ \A c \in S : Below(S, c, next_same'[c]) /\ Above(S, c, prev_same'[c])
                /\ ~Gone(h)
  <2> DEFINE S == Same(p)
  <2>1. /\ S \in BucketSets /\ S' = S \cup {b} /\ S \subseteq live
        /\ \A c \in S : next_same[c] \in Nat /\ prev_same[c] \in Nat
    <3>1. S' = S \cup {b} /\ S \subseteq live
      BY <1>1, <1>2 DEF Same
    <3>2. \A c \in live : next_same[c] \in Nat /\ prev_same[c] \in Nat
      BY <1>0 DEF TypeOK, Buckets, Null
    <3>3. QED
      BY <3>1, <3>2, <1>2 DEF BucketSets
  <2>2. /\ Largest(S, h)
        /\ \A c \in S : Below(S, c, next_same[c]) /\ Above(S, c, prev_same[c])
    BY <1>0, <1>1, <1>5 DEF ChainsComplete
  <2> HIDE DEF S
  <2>3. \A c \in S : c < b /\ c # Null /\ c # b /\ c \in Nat /\ c \in live'
    BY <1>1, <1>2, <2>1
  <2>4. /\ Below(S \cup {b}, b, h) /\ Above(S \cup {b}, b, Null) /\ Largest(S \cup {b}, b)
        /\ h # Null => h \in S /\ Above(S \cup {b}, h, b)
    BY <1>1, <1>3, <2>1, <2>2, <2>3, NeighboursAdd
  <2>5. ~Gone(h)
    BY <2>1, <2>4 DEF Gone
  <2>6. state_buckets'[p] = b /\ next_same'[b] = h /\ prev_same'[b] = Null
    BY <1>0, <1>1, <1>3 DEF TypeOK
  <2>7. ASSUME NEW c \in S
        PROVE  Below(S \cup {b}, c, next_same'[c]) /\ Above(S \cup {b}, c, prev_same'[c])
    <3>1. next_same'[c] = next_same[c] /\ prev_same'[c] = IF c = h THEN b ELSE prev_same[c]
      BY <1>1, <2>3
    <3>2. Below(S \cup {b}, c, next_same[c])
      BY <1>1, <2>1, <2>2, <2>3, NeighboursKept
    <3>3. CASE c = h
      BY <3>1, <3>2, <3>3, <2>3, <2>4
    <3>4. CASE c # h
      <4>1. prev_same[c] # Null
        <5>1. SUFFICES ASSUME prev_same[c] = Null PROVE c = h
          BY <3>4
        <5>2. Largest(S, c)
          BY <5>1, <2>1, <2>2, Ends
        <5>3. MaxBuckets + 1 \in Int /\ c \in Nat
          BY <2>3
        <5>4. QED
          BY <5>2, <5>3, <1>3, <2>1, <2>2, NeighboursUnique DEF Largest
      <4>2. QED
        BY <4>1, <3>1, <3>2, <3>4, <1>1, <2>1, <2>2, <2>3, NeighboursKept
    <3>5. QED
      BY <3>3, <3>4
  <2>8. QED
    BY <2>1, <2>4, <2>5, <2>6, <2>7 DEF S
<1>6. ChainsComplete'
  <2>1. ASSUME NEW f \in Evaluators \ Lasting, Registered(f)'
        PROVE  /\ Largest(Same(pos[f])', IF f \in leaving' THEN cursor' ELSE state_buckets'[pos'[f]])
               /\ \A c \in Same(pos[f])' : /\ Below(Same(pos[f])', c, next_same'[c])
                                          /\ Above(Same(pos[f])', c, prev_same'[c])
    BY <2>1, <1>1, <1>4, <1>5
  <2>2. QED
    BY <2>1 DEF ChainsComplete, Largest, Above, Below
<1>7. QED
  BY <1>5, <1>6

LEMMA AddStateIInv ==
  ASSUME IInv, fault = {}, NEW e \in Evaluators, NEW t \in Terms, add_state(e, t)
  PROVE  IInv'
<1> DEFINE b == made + 1
           p == pos[e]
           h == state_buckets[p]
<1>0. /\ TypeOK /\ NothingLeftBehind /\ StatesUnique /\ LinksWithin /\ DestructorsSeparate
  BY DEF IInv
<1>1. /\ live' = live \cup {b} /\ b \in Buckets /\ made' = b
      /\ registered_as' = [c \in live' |-> IF c = b THEN p ELSE registered_as[c]]
      /\ anchor' = [c \in live' |-> IF c = b THEN t ELSE anchor[c]]
      /\ next_same' = [c \in live' |-> IF c = b THEN h ELSE next_same[c]]
      /\ prev_same' = [c \in live' |-> IF c = b THEN Null ELSE IF c = h THEN b ELSE prev_same[c]]
      /\ state_buckets' = [state_buckets EXCEPT ![p] = b]
      /\ fault' = IF Gone(h) THEN fault \cup {p} ELSE fault
      /\ Registered(e) /\ leaving = {} /\ dying = {} /\ Found(e, t) = {}
      /\ UNCHANGED <<pos, leaving, cursor, dying>>
  BY DEF add_state, Idle
<1>2. /\ prev' = [c \in live' |-> IF c = b THEN last[t] ELSE prev[c]]
      /\ next' = [c \in live' |-> IF c = b THEN Null ELSE IF c = last[t] THEN b ELSE next[c]]
      /\ last' = [last EXCEPT ![t] = b]
      /\ first' = IF first[t] = Null THEN [first EXCEPT ![t] = b] ELSE first
  BY DEF add_state, insert
<1>3. p \in Positions /\ p \in Occupied /\ h \in Nat
  BY <1>0, <1>1 DEF TypeOK, Registered, Occupied, Buckets, Null
<1>4. /\ b \notin live /\ made \in Nat
      /\ \A c \in live : next_same[c] \in Nat /\ prev_same[c] \in Nat /\ c # b
      /\ \A q \in Positions : state_buckets[q] \in Nat
  BY <1>0 DEF TypeOK, Buckets, Null
<1>5. TypeOK'
  <2>1. live' \subseteq 1 .. b /\ b \in Buckets
    BY <1>0, <1>1, <1>4 DEF TypeOK
  <2>2. /\ registered_as' \in [live' -> Positions] /\ anchor' \in [live' -> Terms]
        /\ next_same' \in [live' -> Buckets \cup {Null}]
        /\ prev_same' \in [live' -> Buckets \cup {Null}]
        /\ state_buckets' \in [Positions -> Buckets \cup {Null}]
        /\ fault' \subseteq Positions
    BY <1>0, <1>1, <1>3 DEF TypeOK
  <2>3. /\ next' \in [live' -> Buckets \cup {Null}] /\ prev' \in [live' -> Buckets \cup {Null}]
        /\ first' \in [Terms -> Buckets \cup {Null}] /\ last' \in [Terms -> Buckets \cup {Null}]
    BY <1>0, <1>1, <1>2 DEF TypeOK
  <2>4. QED
    BY <2>1, <2>2, <2>3, <1>0, <1>1 DEF TypeOK
<1>6. TermListsExact'
  BY AddTermLists
<1>7. ChainsComplete'
  BY AddChains
<1>8. NothingLeftBehind'
  <2>1. Occupied' = Occupied
    BY <1>1 DEF Occupied
  <2>2. \A q \in Positions : q # p => Same(q)' = Same(q) /\ state_buckets'[q] = state_buckets[q]
    BY <1>0, <1>1, <1>4 DEF Same, TypeOK
  <2>3. QED
    BY <2>1, <2>2, <1>0, <1>3 DEF NothingLeftBehind
<1>9. StatesUnique'
  <2>1. \A c \in live : ~(anchor[c] = t /\ registered_as[c] = p)
    BY <1>1 DEF Found
  <2>2. QED
    BY <2>1, <1>0, <1>1, <1>4 DEF StatesUnique, Registered
<1>10. OnlyLastingBreak'
  <2>1. e \notin Lasting => ~Gone(h)
    BY AddChains
  <2>2. QED
    BY <2>1, <1>1 DEF OnlyLastingBreak
<1>11. LinksWithin'
  <2> HIDE DEF b
  <2>0. /\ made' = b /\ b \in Nat /\ made <= b /\ \A x \in Nat : x <= made => x # b
        /\ h # b /\ h <= b
    BY <1>0, <1>3, <1>4 , <1>1 DEF LinksWithin, b
  <2>1. ASSUME NEW c \in live'
        PROVE  /\ next_same'[c] <= b /\ prev_same'[c] <= b
               /\ next_same'[c] \in live' => registered_as'[next_same'[c]] = registered_as'[c]
               /\ prev_same'[c] \in live' => registered_as'[prev_same'[c]] = registered_as'[c]
    <3>1. CASE c = b
      BY <3>1, <2>0, <1>0, <1>1, <1>3, <1>4 DEF LinksWithin, Null, TypeOK
    <3>2. CASE c # b
      <4>1. /\ c \in live /\ next_same[c] <= made /\ prev_same[c] <= made
            /\ next_same[c] \in Nat /\ prev_same[c] \in Nat
        BY <3>2, <1>0, <1>1, <1>4 DEF LinksWithin
      <4>2. next_same'[c] = next_same[c] /\ next_same[c] # b /\ prev_same[c] # b
        BY <4>1, <3>2, <2>0, <1>1
      <4>3. prev_same'[c] = IF c = h THEN b ELSE prev_same[c]
        BY <4>1, <3>2, <1>1
      <4>4. registered_as'[c] = registered_as[c] /\ (c = h => registered_as[c] = p)
        BY <4>1, <3>2, <1>0, <1>1, <1>3 DEF LinksWithin
      <4>5. next_same[c] <= b /\ prev_same[c] <= b
        BY <4>1, <2>0, <1>4
      <4>6. QED
        BY <4>1, <4>2, <4>3, <4>4, <4>5, <3>2, <2>0, <1>0, <1>1 DEF LinksWithin
    <3>3. QED
      BY <3>1, <3>2
  <2>2. ASSUME NEW q \in Positions
        PROVE  /\ state_buckets'[q] <= b
               /\ state_buckets'[q] \in live' => registered_as'[state_buckets'[q]] = q
    <3>1. CASE q = p
      BY <3>1, <2>0, <1>0, <1>1 DEF TypeOK
    <3>2. CASE q # p
      <4>1. /\ state_buckets'[q] = state_buckets[q] /\ state_buckets[q] <= made
            /\ state_buckets[q] \in Nat
        BY <3>2, <1>0, <1>1, <1>4 DEF LinksWithin, TypeOK
      <4>2. state_buckets[q] # b /\ state_buckets[q] <= b
        BY <4>1, <2>0, <1>4
      <4>3. QED
        BY <4>1, <4>2, <1>0, <1>1 DEF LinksWithin
    <3>3. QED
      BY <3>1, <3>2
  <2>3. QED
    BY <2>0, <2>1, <2>2 DEF LinksWithin
<1>12. DestructorsSeparate'
  BY <1>0, <1>1 DEF DestructorsSeparate, Registered
<1>13. QED
  BY <1>5, <1>6, <1>7, <1>8, <1>9, <1>10, <1>11, <1>12 DEF IInv

LEMMA StutterIInv ==
  ASSUME IInv, UNCHANGED vars
  PROVE  IInv'
<1> USE DEF vars, buckets
<1>1. TypeOK'
  BY DEF IInv, TypeOK
<1>2. TermListsExact' /\ ChainsComplete'
  BY DEF IInv, TermListsExact, ChainsComplete, On, Same, Registered, Above, Below, Largest
<1>3. NothingLeftBehind' /\ StatesUnique' /\ OnlyLastingBreak' /\ LinksWithin'
  BY DEF IInv, NothingLeftBehind, StatesUnique, OnlyLastingBreak, LinksWithin,
         Occupied, Same, Registered
<1>4. DestructorsSeparate'
  BY DEF IInv, DestructorsSeparate, On, Registered
<1>5. QED
  BY <1>1, <1>2, <1>3, <1>4 DEF IInv

\* The evaluation manager keeps its invariant, from its start on and in every
\* step of an evaluator, a term or a destructor.
THEOREM Inductive == Spec => []IInv
<1>1. IInv /\ [Next]_vars => IInv'
  <2>1. ASSUME IInv, Next PROVE IInv'
    <3>1. fault = {}
      BY <2>1 DEF Next
    <3>2. CASE \E e \in Evaluators : register_evaluator(e) \/ remove_evaluator(e)
      BY <2>1, <3>1, <3>2, RegisterIInv, RemoveEvaluatorIInv
    <3>3. CASE \E e \in Evaluators, t \in Terms : add_state(e, t) \/ remove_state(e, t)
      BY <2>1, <3>1, <3>3, AddStateIInv, RemoveStateIInv
    <3>4. CASE \E t \in Terms : DeleteTerm(t)
      BY <2>1, <3>1, <3>4, DeleteTermIInv
    <3>5. CASE Destructors
      BY <2>1, <3>1, <3>5, DeleteFirstIInv, RemoveNextIInv, RemoveDoneIInv DEF Destructors
    <3>6. QED
      BY <2>1, <3>2, <3>3, <3>4, <3>5 DEF Next
  <2>2. QED
    BY <2>1, StutterIInv
<1>2. QED
  BY InitIInv, <1>1, PTL DEF Spec

\* Every index is one of the array of anchors, and every link and end of a list
\* is a bucket or null, however evaluators come and go.
THEOREM TypeCorrect == Spec => []TypeOK
<1>1. IInv => TypeOK
  BY DEF IInv
<1>2. QED
  BY Inductive, <1>1, PTL

\* The list of a term has its buckets, oldest first, in both directions, even
\* when ~EvaluationStateListBucket has broken an evaluator's list.
THEOREM TermListsCorrect == Spec => []TermListsExact
<1>1. IInv => TermListsExact
  BY DEF IInv
<1>2. QED
  BY Inductive, <1>1, PTL

\* What remove_evaluator walks along has all buckets of the evaluator.
THEOREM ChainsCorrect == Spec => []ChainsComplete
<1>1. IInv => ChainsComplete
  BY DEF IInv
<1>2. QED
  BY Inductive, <1>1, PTL

\* The assertion in register_evaluator holds, and a new evaluator finds no state
\* of one that had its index before.
THEOREM NothingLeftCorrect == Spec => []NothingLeftBehind
<1>1. IInv => NothingLeftBehind
  BY DEF IInv
<1>2. QED
  BY Inductive, <1>1, PTL

\* The assertion in EvaluationStateList::insert holds: one state for an
\* evaluator in a term.
THEOREM UniqueCorrect == Spec => []StatesUnique
<1>1. IInv => StatesUnique
  BY DEF IInv
<1>2. QED
  BY Inductive, <1>1, PTL

\* A deleted bucket is followed only in the list of an evaluator that outlives
\* terms it keeps states in.
THEOREM OnlyLastingCorrect == Spec => []OnlyLastingBreak
<1>1. IInv => OnlyLastingBreak
  BY DEF IInv
<1>2. QED
  BY Inductive, <1>1, PTL

-------------------------------------------------------------------------------
(***************************************************************************)
(* The evaluation manager implements StateService.                         *)
(***************************************************************************)
Stay == {e \in Evaluators \ leaving : Registered(e)}

\* What the names of the service stand for.
LEMMA ServiceDefs ==
  /\ Service!Next <=>
       \/ \E e \in Evaluators : \/ /\ e \notin Stay /\ Stay' = Stay \cup {e} /\ UNCHANGED Kept
                                \/ /\ Stay' = Stay \ {e} /\ Kept' = {s \in Kept : s[1] # e}
       \/ \E t \in Terms : Kept' = {s \in Kept : s[2] # t} /\ UNCHANGED Stay
       \/ \E e \in Evaluators, t \in Terms :
            \/ /\ e \in Stay /\ \A s \in Kept : ~(s[1] = e /\ s[2] = t)
               /\ \E b \in Buckets : /\ \A s \in Kept : s[3] # b
                                     /\ Kept' = Kept \cup {<<e, t, b>>}
               /\ UNCHANGED Stay
            \/ Kept' = {s \in Kept : ~(s[1] = e /\ s[2] = t)} /\ UNCHANGED Stay
  /\ UNCHANGED Service!vars <=> UNCHANGED <<Stay, Kept>>
  /\ Service!Init <=> Stay = {} /\ Kept = {}
BY DEF Stay, Service!Next, Service!Register, Service!Leave, Service!Forget, Service!Keep,
       Service!Remove, Service!vars, Service!Init

\* A state that is kept is that of a registered evaluator, and of one only.
LEMMA KeptRegistered ==
  ASSUME IInv, NEW s \in Kept
  PROVE  /\ s[1] \in Evaluators /\ s[2] \in Terms /\ s[3] \in live /\ s = <<s[1], s[2], s[3]>>
         /\ s[1] \in Stay /\ s[2] \notin dying
         /\ anchor[s[3]] = s[2] /\ registered_as[s[3]] = pos[s[1]]
         /\ \A e \in Evaluators : pos[e] = pos[s[1]] => e = s[1]
<1>1. /\ s[1] \in Evaluators /\ s[2] \in Terms /\ s[3] \in live /\ s = <<s[1], s[2], s[3]>>
      /\ s[1] \notin leaving /\ s[2] \notin dying /\ s[3] \in Found(s[1], s[2])
  BY DEF Kept
<1>2. anchor[s[3]] = s[2] /\ registered_as[s[3]] = pos[s[1]]
  BY <1>1 DEF Found
<1>3. Registered(s[1])
  BY <1>1, <1>2 DEF IInv, TypeOK, Positions, Registered
<1>4. \A e \in Evaluators : pos[e] = pos[s[1]] => e = s[1]
  BY <1>1, <1>3 DEF IInv, StatesUnique, Registered
<1>5. QED
  BY <1>1, <1>2, <1>3, <1>4 DEF Stay

LEMMA KeptMember ==
  ASSUME NEW e \in Evaluators \ leaving, NEW t \in Terms \ dying, NEW b \in live,
         anchor[b] = t, registered_as[b] = pos[e]
  PROVE  <<e, t, b>> \in Kept
BY DEF Kept, Found


\* The same of the next state.
LEMMA KeptNext ==
  ASSUME IInv, IInv', NEW s \in Kept'
  PROVE  /\ s[1] \in Evaluators /\ s[2] \in Terms /\ s[3] \in live' /\ s = <<s[1], s[2], s[3]>>
         /\ s[1] \notin leaving' /\ s[2] \notin dying'
         /\ anchor'[s[3]] = s[2] /\ registered_as'[s[3]] = pos'[s[1]]
         /\ pos'[s[1]] \in Positions
<1>1. /\ s[1] \in Evaluators /\ s[2] \in Terms /\ s[3] \in live' /\ s = <<s[1], s[2], s[3]>>
      /\ s[1] \notin leaving' /\ s[2] \notin dying' /\ s[3] \in Found(s[1], s[2])'
  BY DEF Kept
<1>2. anchor'[s[3]] = s[2] /\ registered_as'[s[3]] = pos'[s[1]]
  BY <1>1 DEF Found
<1>3. pos'[s[1]] \in Positions
  BY <1>1, <1>2 DEF IInv, TypeOK
<1>4. QED
  BY <1>1, <1>2, <1>3

LEMMA KeptMemberNext ==
  ASSUME NEW e \in Evaluators \ leaving', NEW t \in Terms \ dying', NEW b \in live',
         anchor'[b] = t, registered_as'[b] = pos'[e]
  PROVE  <<e, t, b>> \in Kept'
BY DEF Kept, Found

\* A deleted bucket takes with it no state but the one that hung on it.
LEMMA DeleteLoses ==
  ASSUME IInv, IInv', NEW b \in live, Delete(b), UNCHANGED <<pos, leaving, dying>>
  PROVE  Kept' = {s \in Kept : s[3] # b} /\ UNCHANGED Stay
<1>1. /\ live' = live \ {b}
      /\ \A c \in live' : registered_as'[c] = registered_as[c] /\ anchor'[c] = anchor[c]
  BY DEF Delete
<1>2. ASSUME NEW s \in Kept' PROVE s \in Kept /\ s[3] # b
  BY <1>1, KeptNext, KeptMember
<1>3. ASSUME NEW s \in Kept, s[3] # b PROVE s \in Kept'
  BY <1>1, <1>3, KeptRegistered, KeptMemberNext DEF Stay
<1>4. QED
  BY <1>2, <1>3 DEF Stay, Registered

LEMMA RegisterStep ==
  ASSUME IInv, IInv', NEW e \in Evaluators, register_evaluator(e)
  PROVE  e \notin Stay /\ Stay' = Stay \cup {e} /\ UNCHANGED Kept
<1>0. TypeOK /\ NothingLeftBehind /\ leaving = {} /\ ~Registered(e)
  BY DEF IInv, register_evaluator, Idle
<1>1. PICK p \in Positions \ Occupied : pos' = [pos EXCEPT ![e] = p]
  BY DEF register_evaluator
<1>2. UNCHANGED <<state_buckets, live, made, buckets, first, last, leaving, cursor, dying, fault>>
  BY DEF register_evaluator
<1> USE <1>2 DEF buckets
<1>3. /\ \A f \in Evaluators : f # e => pos'[f] = pos[f]
      /\ pos'[e] = p /\ p # -1 /\ Same(p) = {} /\ pos[e] = -1
  BY <1>0, <1>1 DEF TypeOK, Positions, NothingLeftBehind, Registered
<1>4. e \notin Stay /\ Stay' = Stay \cup {e}
  BY <1>0, <1>3 DEF Stay, Registered
<1>5. ASSUME NEW s \in Kept' PROVE s \in Kept
  <2>1. s[1] # e
    BY <1>3, KeptNext DEF Same
  <2>2. QED
    BY <2>1, <1>3, KeptNext, KeptMember
<1>6. ASSUME NEW s \in Kept PROVE s \in Kept'
  BY <1>3, <1>4, KeptRegistered, KeptMemberNext DEF Stay
<1>7. QED
  BY <1>4, <1>5, <1>6

LEMMA LeaveStep ==
  ASSUME IInv, IInv', NEW e \in Evaluators, remove_evaluator(e)
  PROVE  Stay' = Stay \ {e} /\ Kept' = {s \in Kept : s[1] # e}
<1>0. leaving = {} /\ leaving' = {e}
  BY DEF remove_evaluator, Idle
<1>1. UNCHANGED <<pos, state_buckets, live, made, buckets, first, last, dying, fault>>
  BY DEF remove_evaluator
<1> USE <1>1 DEF buckets
<1>2. Stay' = Stay \ {e}
  BY <1>0 DEF Stay, Registered
<1>3. ASSUME NEW s \in Kept' PROVE s \in Kept /\ s[1] # e
  BY <1>0, KeptNext, KeptMember
<1>4. ASSUME NEW s \in Kept, s[1] # e PROVE s \in Kept'
  BY <1>0, <1>4, KeptRegistered, KeptMemberNext
<1>5. QED
  BY <1>2, <1>3, <1>4

LEMMA ForgetStep ==
  ASSUME IInv, IInv', NEW t \in Terms, DeleteTerm(t)
  PROVE  Kept' = {s \in Kept : s[2] # t} /\ UNCHANGED Stay
<1>0. dying = {} /\ dying' = {t}
  BY DEF DeleteTerm, Idle
<1>1. UNCHANGED <<pos, state_buckets, live, made, buckets, first, last, leaving, cursor, fault>>
  BY DEF DeleteTerm
<1> USE <1>1 DEF buckets
<1>2. UNCHANGED Stay
  BY DEF Stay, Registered
<1>3. ASSUME NEW s \in Kept' PROVE s \in Kept /\ s[2] # t
  BY <1>0, KeptNext, KeptMember
<1>4. ASSUME NEW s \in Kept, s[2] # t PROVE s \in Kept'
  BY <1>0, <1>4, KeptRegistered, KeptMemberNext DEF Stay
<1>5. QED
  BY <1>2, <1>3, <1>4

LEMMA KeepStep ==
  ASSUME IInv, IInv', NEW e \in Evaluators, NEW t \in Terms, add_state(e, t)
  PROVE  /\ e \in Stay /\ \A s \in Kept : ~(s[1] = e /\ s[2] = t)
         /\ \E b \in Buckets : (\A s \in Kept : s[3] # b) /\ Kept' = Kept \cup {<<e, t, b>>}
         /\ UNCHANGED Stay
<1> DEFINE b == made + 1
<1>0. /\ live' = live \cup {b} /\ b \in Buckets
      /\ registered_as' = [c \in live' |-> IF c = b THEN pos[e] ELSE registered_as[c]]
      /\ anchor' = [c \in live' |-> IF c = b THEN t ELSE anchor[c]]
      /\ Found(e, t) = {} /\ leaving = {} /\ dying = {} /\ Registered(e)
      /\ UNCHANGED <<pos, leaving, dying>>
  BY DEF add_state, Idle
<1>1. b \notin live
  BY DEF IInv, TypeOK, Buckets, Null
<1> HIDE DEF b
<1>2. e \in Stay /\ UNCHANGED Stay
  BY <1>0 DEF Stay, Registered
<1>3. \A s \in Kept : ~(s[1] = e /\ s[2] = t) /\ s[3] # b
  BY <1>0, <1>1, KeptRegistered DEF Found
<1>4. <<e, t, b>> \in Kept'
  BY <1>0, KeptMemberNext
<1>5. ASSUME NEW s \in Kept' PROVE s \in Kept \cup {<<e, t, b>>}
  <2>1. CASE s[3] = b
    <3>1. s[2] = t /\ pos[s[1]] = pos[e] /\ s[1] \in Evaluators /\ s = <<s[1], s[2], s[3]>>
      BY <2>1, <1>0, KeptNext
    <3>2. s[1] = e
      BY <3>1, <1>0 DEF IInv, StatesUnique, Registered
    <3>3. QED
      BY <3>1, <3>2, <2>1
  <2>2. CASE s[3] # b
    <3>1. /\ s[1] \in Evaluators \ leaving /\ s[2] \in Terms \ dying /\ s[3] \in live
          /\ anchor'[s[3]] = s[2] /\ registered_as'[s[3]] = pos[s[1]] /\ s = <<s[1], s[2], s[3]>>
      BY <2>2, <1>0, KeptNext
    <3>2. anchor[s[3]] = s[2] /\ registered_as[s[3]] = pos[s[1]]
      BY <3>1, <2>2, <1>0
    <3>3. QED
      BY <3>1, <3>2, KeptMember
  <2>3. QED
    BY <2>1, <2>2
<1>6. ASSUME NEW s \in Kept PROVE s \in Kept'
  <2>1. /\ s[1] \in Evaluators \ leaving' /\ s[2] \in Terms \ dying' /\ s[3] \in live
        /\ anchor[s[3]] = s[2] /\ registered_as[s[3]] = pos[s[1]] /\ s = <<s[1], s[2], s[3]>>
    BY <1>0, KeptRegistered DEF Stay
  <2>2. s[3] \in live' /\ anchor'[s[3]] = s[2] /\ registered_as'[s[3]] = pos'[s[1]]
    BY <2>1, <1>0, <1>1
  <2>3. QED
    BY <2>1, <2>2, KeptMemberNext
<1>7. QED
  BY <1>0, <1>2, <1>3, <1>4, <1>5, <1>6

LEMMA RemoveStep ==
  ASSUME IInv, IInv', NEW e \in Evaluators, NEW t \in Terms, remove_state(e, t)
  PROVE  Kept' = {s \in Kept : ~(s[1] = e /\ s[2] = t)} /\ UNCHANGED Stay
<1>1. PICK b \in live : Delete(b) /\ anchor[b] = t /\ registered_as[b] = pos[e]
  BY DEF remove_state, Found
<1>2. UNCHANGED <<pos, leaving, dying>>
  BY DEF remove_state
<1>3. Kept' = {s \in Kept : s[3] # b} /\ UNCHANGED Stay
  BY <1>1, <1>2, DeleteLoses
<1>4. ASSUME NEW s \in Kept PROVE s[3] = b <=> s[1] = e /\ s[2] = t
  <2>1. s[1] = e /\ s[2] = t => s[3] = b
    BY <1>1, KeptRegistered DEF IInv, StatesUnique
  <2>2. s[3] = b => s[1] = e /\ s[2] = t
    BY <1>1, KeptRegistered
  <2>3. QED
    BY <2>1, <2>2
<1>5. QED
  BY <1>3, <1>4

\* A destructor that runs changes nothing that anybody could still find.
LEMMA DestructorStep ==
  ASSUME IInv, IInv', Destructors
  PROVE  UNCHANGED <<Stay, Kept>>
<1>1. CASE DeleteFirst
  <2>1. PICK t \in dying :
          \/ first[t] # Null /\ Delete(first[t]) /\ UNCHANGED <<pos, leaving, cursor, dying>>
          \/ /\ first[t] = Null /\ dying' = {}
             /\ UNCHANGED <<pos, state_buckets, live, made, buckets, first, last, leaving, cursor, fault>>
    BY <1>1 DEF DeleteFirst
  <2>2. t \in Terms /\ dying = {t} /\ Above(On(t), Null, first[t])
    BY DEF IInv, TypeOK, DestructorsSeparate, TermListsExact
  <2>3. CASE first[t] # Null /\ Delete(first[t]) /\ UNCHANGED <<pos, leaving, cursor, dying>>
    <3>1. first[t] \in live /\ anchor[first[t]] = t
      BY <2>2, <2>3 DEF Above, On
    <3>2. Kept' = {s \in Kept : s[3] # first[t]} /\ UNCHANGED Stay
      BY <2>3, <3>1, DeleteLoses
    <3>3. \A s \in Kept : s[3] # first[t]
      BY <2>2, <3>1, KeptRegistered
    <3>4. QED
      BY <3>2, <3>3
  <2>4. CASE /\ first[t] = Null /\ dying' = {}
             /\ UNCHANGED <<pos, state_buckets, live, made, buckets, first, last, leaving, cursor, fault>>
    <3> USE <2>4 DEF buckets
    <3>1. On(t) = {}
      <4>1. \A c \in On(t) : c <= Null
        BY <2>2 DEF Above
      <4>2. \A c \in On(t) : c \in Nat /\ c > 0
        BY DEF IInv, TypeOK, On, Buckets, Null
      <4>3. QED
        BY <4>1, <4>2 DEF Null
    <3>2. ASSUME NEW s \in Kept' PROVE s \in Kept
      <4>1. s[2] # t
        BY <3>1, KeptNext DEF On
      <4>2. QED
        BY <4>1, <2>2, KeptNext, KeptMember
    <3>3. ASSUME NEW s \in Kept PROVE s \in Kept'
      BY KeptRegistered, KeptMemberNext DEF Stay
    <3>4. QED
      BY <3>2, <3>3 DEF Stay, Registered
  <2>5. QED
    BY <2>1, <2>3, <2>4
<1>2. CASE RemoveNext
  <2>1. PICK e \in leaving : Delete(cursor) /\ cursor # Null /\ UNCHANGED <<pos, leaving, dying>>
    BY <1>2 DEF RemoveNext
  <2>2. e \in Evaluators \ Lasting /\ Registered(e)
    BY DEF IInv, TypeOK, DestructorsSeparate
  <2>3. cursor \in live /\ registered_as[cursor] = pos[e]
    BY <2>1, <2>2 DEF IInv, ChainsComplete, Largest, Below, Same
  <2>4. Kept' = {s \in Kept : s[3] # cursor} /\ UNCHANGED Stay
    BY <2>1, <2>3, DeleteLoses
  <2>5. \A s \in Kept : s[3] # cursor
    BY <2>2, <2>3, KeptRegistered DEF Stay
  <2>6. QED
    BY <2>4, <2>5
<1>3. CASE RemoveDone
  <2>1. PICK e \in leaving : /\ pos' = [pos EXCEPT ![e] = -1] /\ leaving' = {}
                             /\ UNCHANGED <<live, made, buckets, first, last, cursor, dying, fault>>
    BY <1>3 DEF RemoveDone
  <2> USE <2>1 DEF buckets
  <2>2. e \in Evaluators /\ leaving = {e} /\ pos'[e] = -1
        /\ \A f \in Evaluators : f # e => pos'[f] = pos[f]
    BY DEF IInv, TypeOK, DestructorsSeparate
  <2>3. UNCHANGED Stay
    BY <2>2 DEF Stay, Registered
  <2>4. ASSUME NEW s \in Kept' PROVE s \in Kept
    <3>1. s[1] # e
      BY <2>2, KeptNext DEF Positions
    <3>2. QED
      BY <3>1, <2>2, KeptNext, KeptMember
  <2>5. ASSUME NEW s \in Kept PROVE s \in Kept'
    BY <2>2, KeptRegistered, KeptMemberNext DEF Stay
  <2>6. QED
    BY <2>3, <2>4, <2>5
<1>4. QED
  BY <1>1, <1>2, <1>3 DEF Destructors

\* Evaluators find their own states and lose them only with the term or with
\* themselves, for any number of evaluators, terms and indices.
THEOREM Refinement == Spec => ImplementsStates
<1>1. Init => Service!Init
  <2>1. Init => Stay = {} /\ Kept = {}
    BY DEF Init, Stay, Registered, Kept
  <2>2. QED
    BY <2>1, ServiceDefs
<1>2. IInv /\ IInv' /\ [Next]_vars => [Service!Next]_Service!vars
  <2>1. ASSUME IInv, IInv', Next PROVE Service!Next \/ UNCHANGED Service!vars
    <3>1. CASE \E e \in Evaluators : register_evaluator(e) \/ remove_evaluator(e)
      BY <2>1, <3>1, RegisterStep, LeaveStep, ServiceDefs
    <3>2. CASE \E e \in Evaluators, t \in Terms : add_state(e, t) \/ remove_state(e, t)
      BY <2>1, <3>2, KeepStep, RemoveStep, ServiceDefs
    <3>3. CASE \E t \in Terms : DeleteTerm(t)
      BY <2>1, <3>3, ForgetStep, ServiceDefs
    <3>4. CASE Destructors
      BY <2>1, <3>4, DestructorStep, ServiceDefs
    <3>5. QED
      BY <2>1, <3>1, <3>2, <3>3, <3>4 DEF Next
  <2>2. ASSUME UNCHANGED vars PROVE UNCHANGED Service!vars
    <3>1. UNCHANGED <<Stay, Kept>>
      BY <2>2 DEF vars, buckets, Stay, Kept, Found, Registered
    <3>2. QED
      BY <3>1, ServiceDefs
  <2>3. QED
    BY <2>1, <2>2
<1>3. QED
  BY Inductive, <1>1, <1>2, PTL DEF Spec, ImplementsStates, Service!Spec

===============================================================================
