--------------------------- MODULE EvaluationManager --------------------------
(***************************************************************************)
(* EvaluationManager: evaluators keep their states in the terms they have  *)
(* visited.  A state hangs on a bucket, and a bucket in two lists: that of *)
(* its term, and that of its evaluator, whose index is given out when the  *)
(* evaluator is constructed and taken back when it is destructed.          *)
(*                                                                         *)
(* Most evaluators live for one command and no term dies before they do.   *)
(* Those in Lasting are singletons that are never destructed; terms die    *)
(* while they keep states in them, and then a bucket is taken out of the   *)
(* middle of their list.  ~EvaluationStateListBucket mends the list as if  *)
(* its anchor were at the end where buckets have no successor, but buckets *)
(* are inserted at the other end; fault has the indices whose list was     *)
(* then followed into a bucket that is deleted.  What happens after that   *)
(* is undefined and not modelled.                                          *)
(*                                                                         *)
(* A bucket is a number, given out in order: later buckets are larger, and *)
(* Null is 0.  Its fields are functions on the buckets that exist.  Memory *)
(* that is used again would change nothing before a fault.                 *)
(***************************************************************************)
EXTENDS Integers, FiniteSets

CONSTANTS
  Evaluators,       \* the concrete_Evaluator objects
  Lasting,          \* those that are never destructed
  Terms,
  MAX_EVALUATORS,   \* the number of indices, 100 in the code
  MaxBuckets        \* bound: how many buckets are ever made

ASSUME LastingAssumption == Lasting \subseteq Evaluators
ASSUME NumbersAssumption == MAX_EVALUATORS \in Nat /\ MaxBuckets \in Nat

VARIABLES
  pos,                    \* an evaluator's index, -1 if it is not registered
  state_buckets,          \* the anchor of the list of each index
  live, made,             \* the buckets that exist; how many were made
  registered_as, anchor,  \* a bucket's index and its term
  next_same, prev_same,   \* its neighbours in the list of its evaluator
  next, prev,             \* its neighbours in the list of its term
  first, last,            \* the ends of a term's list
  leaving, cursor,        \* the evaluator being removed, and tmp of the loop
  dying,                  \* the term whose list is being deleted
  fault                   \* see above

buckets == <<registered_as, anchor, next_same, prev_same, next, prev>>
vars == <<pos, state_buckets, live, made, buckets, first, last, leaving, cursor, dying, fault>>

Null == 0
Buckets == 1 .. MaxBuckets
Positions == 0 .. MAX_EVALUATORS - 1

Occupied == {pos[e] : e \in Evaluators} \cap Positions
Registered(e) == pos[e] # -1

\* No destructor runs.
Idle == leaving = {} /\ dying = {}

\* The states that get_state finds in t for e: it walks the list of t, which
\* has all of t's buckets (TermListsExact).
Found(e, t) == {b \in live : anchor[b] = t /\ registered_as[b] = pos[e]}

Empty == [b \in {} |-> Null]

Init ==
  /\ pos = [e \in Evaluators |-> -1]
  /\ state_buckets = [p \in Positions |-> Null]
  /\ live = {} /\ made = 0
  /\ registered_as = Empty /\ anchor = Empty
  /\ next_same = Empty /\ prev_same = Empty
  /\ next = Empty /\ prev = Empty
  /\ first = [t \in Terms |-> Null] /\ last = [t \in Terms |-> Null]
  /\ leaving = {} /\ cursor = Null /\ dying = {}
  /\ fault = {}

-------------------------------------------------------------------------------
\* A bucket that is written to although it was deleted.
Gone(b) == b # Null /\ b \notin live

\* Mutant: an index counts as free when no state is kept under it.
register_evaluator_bucketless(e) ==
  /\ Idle
  /\ ~Registered(e)
  /\ \E p \in Positions :
       /\ state_buckets[p] = Null
       /\ \A q \in 0 .. p - 1 : state_buckets[q] # Null
       /\ pos' = [pos EXCEPT ![e] = p]
  /\ UNCHANGED <<state_buckets, live, made, buckets, first, last, leaving, cursor, dying, fault>>

\* Mutant: no exception when all indices are taken.
register_evaluator_overrun(e) ==
  /\ Idle
  /\ ~Registered(e)
  /\ \E p \in 0 .. MAX_EVALUATORS :
       /\ p \notin Occupied
       /\ \A q \in 0 .. p - 1 : q \in Occupied
       /\ pos' = [pos EXCEPT ![e] = p]
  /\ UNCHANGED <<state_buckets, live, made, buckets, first, last, leaving, cursor, dying, fault>>

\* An evaluator is constructed and gets the first free index.  When there is
\* none an exception leaves the constructor, and nothing has changed.
register_evaluator(e) ==
  /\ Idle
  /\ ~Registered(e)
  /\ \E p \in Positions \ Occupied :
       /\ \A q \in 0 .. p - 1 : q \in Occupied
       /\ pos' = [pos EXCEPT ![e] = p]
  /\ UNCHANGED <<state_buckets, live, made, buckets, first, last, leaving, cursor, dying, fault>>

\* EvaluationStateList::insert, at the end.
insert(b, t) ==
  /\ prev' = [c \in live' |-> IF c = b THEN last[t] ELSE prev[c]]
  /\ next' = [c \in live' |-> IF c = b THEN Null ELSE IF c = last[t] THEN b ELSE next[c]]
  /\ last' = [last EXCEPT ![t] = b]
  /\ first' = IF first[t] = Null THEN [first EXCEPT ![t] = b] ELSE first

\* Mutant: the former head of the evaluator's list does not learn of the new one.
add_state_unlinked(e, t) ==
  LET b == made + 1
      n == state_buckets[pos[e]]
  IN
  /\ Idle
  /\ Registered(e)
  /\ Found(e, t) = {}
  /\ b \in Buckets
  /\ made' = b
  /\ live' = live \cup {b}
  /\ registered_as' = [c \in live' |-> IF c = b THEN pos[e] ELSE registered_as[c]]
  /\ anchor' = [c \in live' |-> IF c = b THEN t ELSE anchor[c]]
  /\ next_same' = [c \in live' |-> IF c = b THEN n ELSE next_same[c]]
  /\ prev_same' = [c \in live' |-> IF c = b THEN Null ELSE prev_same[c]]
  /\ state_buckets' = [state_buckets EXCEPT ![pos[e]] = b]
  /\ insert(b, t)
  /\ UNCHANGED <<pos, leaving, cursor, dying, fault>>

\* An evaluator that has found no state in t keeps one there: a bucket is put
\* at the front of its list and at the end of the term's.
add_state(e, t) ==
  LET b == made + 1
      n == state_buckets[pos[e]]
  IN
  /\ Idle
  /\ Registered(e)
  /\ Found(e, t) = {}
  /\ b \in Buckets
  /\ made' = b
  /\ live' = live \cup {b}
  /\ registered_as' = [c \in live' |-> IF c = b THEN pos[e] ELSE registered_as[c]]
  /\ anchor' = [c \in live' |-> IF c = b THEN t ELSE anchor[c]]
  /\ next_same' = [c \in live' |-> IF c = b THEN n ELSE next_same[c]]
  /\ prev_same' = [c \in live' |-> IF c = b THEN Null ELSE IF c = n THEN b ELSE prev_same[c]]
  /\ state_buckets' = [state_buckets EXCEPT ![pos[e]] = b]
  /\ fault' = IF Gone(n) THEN fault \cup {pos[e]} ELSE fault
  /\ insert(b, t)
  /\ UNCHANGED <<pos, leaving, cursor, dying>>

-------------------------------------------------------------------------------
\* Mutant: a list that has lost its last bucket still ends with it.
dequeue_keeps_last(b) ==
  LET t == anchor[b]
      p == prev[b]
      n == next[b]
  IN
  /\ next' = [c \in live' |-> IF c = p THEN n ELSE next[c]]
  /\ first' = IF p = Null THEN [first EXCEPT ![t] = n] ELSE first
  /\ prev' = [c \in live' |-> IF c = n THEN p ELSE prev[c]]
  /\ last' = last

\* EvaluationStateList::dequeue.
dequeue(b) ==
  LET t == anchor[b]
      p == prev[b]
      n == next[b]
  IN
  /\ next' = [c \in live' |-> IF c = p THEN n ELSE next[c]]
  /\ first' = IF p = Null THEN [first EXCEPT ![t] = n] ELSE first
  /\ prev' = [c \in live' |-> IF c = n THEN p ELSE prev[c]]
  /\ last' = IF n = Null THEN [last EXCEPT ![t] = p] ELSE last

\* ~EvaluationStateListBucket.  (With the anchor at the front, set_anchor
\* belongs to the case that p is Null, and takes n.)
Delete(b) ==
  LET n == next_same[b]
      p == prev_same[b]
      r == registered_as[b]
  IN
  /\ live' = live \ {b}
  /\ prev_same' = [c \in live' |-> IF c = n THEN p ELSE prev_same[c]]
  /\ next_same' = [c \in live' |-> IF c = p THEN n ELSE next_same[c]]
  /\ state_buckets' = IF n = Null THEN [state_buckets EXCEPT ![r] = p] ELSE state_buckets
  /\ fault' = IF Gone(n) \/ Gone(p) THEN fault \cup {r} ELSE fault
  /\ registered_as' = [c \in live' |-> registered_as[c]]
  /\ anchor' = [c \in live' |-> anchor[c]]
  /\ dequeue(b)
  /\ UNCHANGED made

\* remove_state: nothing in src/ calls it.  Like the deletion of a term it takes a
\* state out of the middle of an evaluator's list, so it is left to the evaluators
\* that outlive terms.
remove_state(e, t) ==
  /\ Idle
  /\ e \in Lasting
  /\ Registered(e)
  /\ \E b \in Found(e, t) : Delete(b)
  /\ UNCHANGED <<pos, leaving, cursor, dying>>

\* Mutant: a command deletes its term before its evaluator.
DeleteTerm_early(t) ==
  /\ Idle
  /\ dying' = {t}
  /\ UNCHANGED <<pos, state_buckets, live, made, buckets, first, last, leaving, cursor, fault>>

\* ~Term, and the loop of ~EvaluationStateList.  What a term keeps when it
\* dies are states of lasting evaluators: commands delete their terms, and the
\* analyzer those it could not complete, when no other evaluator is there.
DeleteTerm(t) ==
  /\ Idle
  /\ \A b \in live : anchor[b] = t => \E e \in Lasting : registered_as[b] = pos[e]
  /\ dying' = {t}
  /\ UNCHANGED <<pos, state_buckets, live, made, buckets, first, last, leaving, cursor, fault>>

DeleteFirst ==
  \E t \in dying :
    \/ /\ first[t] # Null
       /\ Delete(first[t])
       /\ UNCHANGED <<pos, leaving, cursor, dying>>
    \/ /\ first[t] = Null
       /\ dying' = {}
       /\ UNCHANGED <<pos, state_buckets, live, made, buckets, first, last, leaving, cursor, fault>>

\* ~concrete_Evaluator calls remove_evaluator, which walks along its list.
remove_evaluator(e) ==
  /\ Idle
  /\ Registered(e)
  /\ e \notin Lasting
  /\ leaving' = {e}
  /\ cursor' = state_buckets[pos[e]]
  /\ UNCHANGED <<pos, state_buckets, live, made, buckets, first, last, dying, fault>>

\* Mutant: the bucket to go on with is not kept before this one is deleted.
RemoveNext_stuck ==
  /\ leaving # {}
  /\ cursor \in live
  /\ Delete(cursor)
  /\ UNCHANGED <<pos, leaving, dying, cursor>>

RemoveNext ==
  /\ leaving # {}
  /\ cursor # Null
  /\ cursor' = next_same[cursor]
  /\ Delete(cursor)
  /\ UNCHANGED <<pos, leaving, dying>>

\* Mutant: the index is given back, whatever is left of the list.
RemoveDone_early ==
  \E e \in leaving :
    /\ pos' = [pos EXCEPT ![e] = -1]
    /\ leaving' = {}
    /\ cursor' = Null
    /\ UNCHANGED <<state_buckets, live, made, buckets, first, last, dying, fault>>

\* The index is given back.
RemoveDone ==
  \E e \in leaving :
    /\ cursor = Null
    /\ state_buckets' = [state_buckets EXCEPT ![pos[e]] = Null]
    /\ pos' = [pos EXCEPT ![e] = -1]
    /\ leaving' = {}
    /\ UNCHANGED <<live, made, buckets, first, last, cursor, dying, fault>>

-------------------------------------------------------------------------------
Destructors == DeleteFirst \/ RemoveNext \/ RemoveDone

Next ==
  /\ fault = {}
  /\ \/ \E e \in Evaluators : register_evaluator(e) \/ remove_evaluator(e)
     \/ \E e \in Evaluators, t \in Terms : add_state(e, t) \/ remove_state(e, t)
     \/ \E t \in Terms : DeleteTerm(t)
     \/ Destructors

Spec == Init /\ [][Next]_vars /\ WF_vars(fault = {} /\ Destructors)

-------------------------------------------------------------------------------
(***************************************************************************)
(* Properties                                                              *)
(***************************************************************************)
On(t) == {b \in live : anchor[b] = t}
Same(p) == {b \in live : registered_as[b] = p}

\* x is the next larger, or smaller, element of S after b; Null if there is none.
Above(S, b, x) ==
  IF x = Null THEN \A c \in S : c <= b
  ELSE x \in S /\ b < x /\ \A c \in S : c <= b \/ x <= c
Below(S, b, x) ==
  IF x = Null THEN \A c \in S : b <= c
  ELSE x \in S /\ x < b /\ \A c \in S : c <= x \/ b <= c
Largest(S, x) == Below(S, MaxBuckets + 1, x)

TypeOK ==
  /\ pos \in [Evaluators -> Positions \cup {-1}]
  /\ state_buckets \in [Positions -> Buckets \cup {Null}]
  /\ made \in Buckets \cup {Null}
  /\ live \subseteq 1 .. made
  /\ registered_as \in [live -> Positions] /\ anchor \in [live -> Terms]
  /\ next_same \in [live -> Buckets \cup {Null}] /\ prev_same \in [live -> Buckets \cup {Null}]
  /\ next \in [live -> Buckets \cup {Null}] /\ prev \in [live -> Buckets \cup {Null}]
  /\ first \in [Terms -> Buckets \cup {Null}] /\ last \in [Terms -> Buckets \cup {Null}]
  /\ leaving \subseteq Evaluators \ Lasting
  /\ cursor \in Buckets \cup {Null}
  /\ dying \subseteq Terms
  /\ fault \subseteq Positions

\* The list of a term has the buckets of that term, the oldest first, and its
\* two directions agree, whatever ~EvaluationStateListBucket took out of it.
TermListsExact ==
  \A t \in Terms :
    /\ Above(On(t), Null, first[t])
    /\ Largest(On(t), last[t])
    /\ \A b \in On(t) : Above(On(t), b, next[b]) /\ Below(On(t), b, prev[b])

\* The list of an evaluator that is not lasting has all of its buckets, the
\* newest first, so that remove_evaluator can "delete all states of the
\* evaluator" (evalint.h); while it does, its cursor is the head of the rest.
ChainsComplete ==
  \A e \in Evaluators \ Lasting : Registered(e) =>
    LET S == Same(pos[e])
    IN /\ Largest(S, IF e \in leaving THEN cursor ELSE state_buckets[pos[e]])
       /\ \A b \in S : Below(S, b, next_same[b]) /\ Above(S, b, prev_same[b])

\* An index that may be given out has no anchor, as register_evaluator asserts,
\* and no term has a state under it that its next owner would find.
NothingLeftBehind ==
  \A p \in Positions \ Occupied : state_buckets[p] = Null /\ Same(p) = {}

\* No two evaluators have one index, and no evaluator has two states in a term
\* ("can not add more than one state for one evaluator").
StatesUnique ==
  /\ \A e, f \in Evaluators : Registered(e) /\ pos[e] = pos[f] => e = f
  /\ \A b, c \in live : anchor[b] = anchor[c] /\ registered_as[b] = registered_as[c] => b = c

\* Only in the list of a lasting evaluator is a deleted bucket ever followed:
\* all others are removed without a trace, and cannot disturb one another.
OnlyLastingBreak == fault \subseteq {pos[e] : e \in Lasting}

\* The loop of remove_evaluator ends.
RemovalEnds == leaving # {} ~> leaving = {}

\* Evaluators find their own states, and lose them only with the term or with
\* themselves.  A destructor that runs has done all its work at its start: in
\* between nobody asks.
Kept ==
  {s \in Evaluators \X Terms \X live :
     s[1] \notin leaving /\ s[2] \notin dying /\ s[3] \in Found(s[1], s[2])}

Service == INSTANCE StateService WITH
  registered <- {e \in Evaluators \ leaving : Registered(e)},
  states <- Kept,
  States <- Buckets

ImplementsStates == Service!Spec
===============================================================================
