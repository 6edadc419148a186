--------------------------- MODULE BDDsimpleAssocs ----------------------------
(***************************************************************************)
(* The table of substitutions of BDDsimpleManager.  The compose operations *)
(* key the computed cache with the INDEX of a substitution in the table,   *)
(* not with its contents, so a slot that changes hands while a result      *)
(* computed for its former owner is still cached yields wrong BDDs.  The   *)
(* table therefore hands indices out in increasing order                   *)
(* (current_assoc) and flushes the cache when it starts over.              *)
(*                                                                         *)
(* Abstractions: a substitution is an element of Subs (its array of BDDs,  *)
(* compared by cmp()); the cache is the part of BDDsimple::cache that the  *)
(* composition of one fixed BDD uses, a set of pairs <<index, substitution *)
(* the result was computed with>>.                                         *)
(***************************************************************************)
EXTENDS Integers, FiniteSets

CONSTANTS
  Clients,         \* the SimpleBooleSubsData objects, each owning one reference
  Subs,            \* the substitutions, up to cmp()
  NoSub,           \* the null pointer
  InitialBuckets,  \* 101 in the constructor
  MaxBuckets       \* bound: no doubling of a table larger than this

ASSUME ClientsAssumption == IsFiniteSet(Clients)
ASSUME NoSubAssumption == NoSub \notin Subs
ASSUME BucketsAssumption == InitialBuckets \in Nat \ {0} /\ MaxBuckets \in Nat

VARIABLES
  assocs,              \* the slots: a substitution or NoSub
  ref,                 \* the field ref of the substitution in a slot
  current_assoc,
  max_assoc_buckets,
  free_assoc_buckets,
  index, held,         \* client c's pointer: the _index and the contents of its assoc
  cache,               \* the cached compositions, <<index, substitution>>
  answer,              \* the substitution behind the last composition returned
  fault                \* "none", "overrun" or "lost": see NewOverrun, NewDoubled

table == <<assocs, ref, current_assoc, max_assoc_buckets, free_assoc_buckets>>
vars == <<table, index, held, cache, answer, fault>>

Slots == 0 .. max_assoc_buckets - 1
Empty == {i \in Slots : assocs[i] = NoSub}

-------------------------------------------------------------------------------
Init ==
  /\ assocs = [i \in 0 .. InitialBuckets - 1 |-> NoSub]
  /\ ref = [i \in 0 .. InitialBuckets - 1 |-> 0]
  /\ current_assoc = 0
  /\ max_assoc_buckets = InitialBuckets
  /\ free_assoc_buckets = InitialBuckets
  /\ index = [c \in Clients |-> -1]
  /\ held = [c \in Clients |-> NoSub]
  /\ cache = {}
  /\ answer = NoSub
  /\ fault = "none"

Owns(c, i, s) ==
  /\ index' = [index EXCEPT ![c] = i]
  /\ held' = [held EXCEPT ![c] = s]
  /\ UNCHANGED answer

\* The slots the search of _findAssoc finds: only those below current_assoc.
Matches(s) == {i \in Slots : i < current_assoc /\ assocs[i] = s}

\* Mutant: the shared substitution does not count its new owner.
FindShared_NoRef(c, s) ==
  /\ fault = "none" /\ held[c] = NoSub
  /\ \E i \in Matches(s) : (\A j \in Matches(s) : i <= j) /\ Owns(c, i, s)
  /\ UNCHANGED <<table, cache, fault>>

\* newAssoc, when an equal substitution is found: it is shared.
FindShared(c, s) ==
  /\ fault = "none" /\ held[c] = NoSub
  /\ \E i \in Matches(s) :
       /\ \A j \in Matches(s) : i <= j
       /\ ref' = [ref EXCEPT ![i] = @ + 1]
       /\ Owns(c, i, s)
  /\ UNCHANGED <<assocs, current_assoc, max_assoc_buckets, free_assoc_buckets,
                 cache, fault>>

NotFound(c, s) == fault = "none" /\ held[c] = NoSub /\ Matches(s) = {}

\* Where _newAssoc starts to look for an empty slot.
Wraps == current_assoc >= max_assoc_buckets
Start == IF Wraps THEN 0 ELSE current_assoc

\* Mutant: starting over does not flush the cache.
NewInSlot_NoFlush(c, s) ==
  /\ NotFound(c, s)
  /\ free_assoc_buckets > 0
  /\ \E i \in Empty :
       /\ Start <= i
       /\ \A j \in Empty : Start <= j => i <= j
       /\ assocs' = [assocs EXCEPT ![i] = s]
       /\ ref' = [ref EXCEPT ![i] = 1]
       /\ current_assoc' = i + 1
       /\ Owns(c, i, s)
  /\ free_assoc_buckets' = free_assoc_buckets - 1
  /\ UNCHANGED <<max_assoc_buckets, cache, fault>>

\* newAssoc, when the table has a free slot: the first one from Start on.
NewInSlot(c, s) ==
  /\ NotFound(c, s)
  /\ free_assoc_buckets > 0
  /\ \E i \in Empty :
       /\ Start <= i
       /\ \A j \in Empty : Start <= j => i <= j
       /\ assocs' = [assocs EXCEPT ![i] = s]
       /\ ref' = [ref EXCEPT ![i] = 1]
       /\ current_assoc' = i + 1
       /\ Owns(c, i, s)
  /\ free_assoc_buckets' = free_assoc_buckets - 1
  /\ cache' = IF Wraps THEN {} ELSE cache
  /\ UNCHANGED <<max_assoc_buckets, fault>>

\* newAssoc, when the search for an empty slot leaves the array: the loop
\* fails ASSERT(current_assoc<max_assoc_buckets), which a build without DEBUG
\* does not evaluate.  What happens afterwards is not modelled.
NewOverrun(c, s) ==
  /\ NotFound(c, s)
  /\ free_assoc_buckets > 0
  /\ \A i \in Empty : i < Start
  /\ fault' = "overrun"
  /\ UNCHANGED <<table, index, held, cache, answer>>

\* Mutant: the slot taken from the new half is still counted as free.
NewDoubled_FreeOffByOne(c, s) ==
  /\ NotFound(c, s)
  /\ free_assoc_buckets = 0
  /\ max_assoc_buckets <= MaxBuckets
  /\ LET old == max_assoc_buckets
         bigger == 0 .. 2 * old - 1
     IN /\ max_assoc_buckets' = 2 * old
        /\ assocs' = [i \in bigger |-> IF i < old THEN assocs[i]
                                       ELSE IF i = old THEN s ELSE NoSub]
        /\ ref' = [i \in bigger |-> IF i < old THEN ref[i]
                                    ELSE IF i = old THEN 1 ELSE 0]
        /\ current_assoc' = old + 1
        /\ free_assoc_buckets' = old
        /\ Owns(c, old, s)
  /\ UNCHANGED <<cache, fault>>

\* newAssoc, when the table is full: it is doubled.  _findAssoc stores the
\* pointer with assocs[assoc->_index = _newAssoc()] = assoc.  A build that calls
\* _newAssoc before it loads the pointer assocs stores it in the new array; one
\* that loads the pointer first stores it in the array _newAssoc has deleted,
\* and the new slot stays null.  What happens after that is not modelled.
NewDoubled(c, s) ==
  /\ NotFound(c, s)
  /\ free_assoc_buckets = 0
  /\ max_assoc_buckets <= MaxBuckets
  /\ \E stored \in BOOLEAN :
       LET old == max_assoc_buckets
           bigger == 0 .. 2 * old - 1
       IN /\ max_assoc_buckets' = 2 * old
          /\ assocs' = [i \in bigger |-> IF i < old THEN assocs[i]
                                         ELSE IF i = old /\ stored THEN s ELSE NoSub]
          /\ ref' = [i \in bigger |-> IF i < old THEN ref[i]
                                      ELSE IF i = old /\ stored THEN 1 ELSE 0]
          /\ current_assoc' = old + 1
          /\ free_assoc_buckets' = old - 1
          /\ Owns(c, old, s)
          /\ fault' = IF stored THEN "none" ELSE "lost"
  /\ UNCHANGED cache

newAssoc(c, s) ==
  \/ FindShared(c, s)
  \/ NewInSlot(c, s)
  \/ NewOverrun(c, s)
  \/ NewDoubled(c, s)

\* Mutant: a slot counts as free after any release, not only the last one.
removeAssoc_FreesShared(c) ==
  /\ fault = "none" /\ held[c] # NoSub
  /\ LET i == index[c]
         last == ref[i] = 1
     IN /\ ref' = [ref EXCEPT ![i] = @ - 1]
        /\ assocs' = IF last THEN [assocs EXCEPT ![i] = NoSub] ELSE assocs
        /\ free_assoc_buckets' = free_assoc_buckets + 1
        /\ current_assoc' = IF last /\ i >= current_assoc THEN i + 1
                            ELSE current_assoc
  /\ index' = [index EXCEPT ![c] = -1]
  /\ held' = [held EXCEPT ![c] = NoSub]
  /\ UNCHANGED <<max_assoc_buckets, cache, answer, fault>>

\* Mutant: a freed slot is offered again at once.
removeAssoc_Rewinds(c) ==
  /\ fault = "none" /\ held[c] # NoSub
  /\ LET i == index[c]
         last == ref[i] = 1
     IN /\ ref' = [ref EXCEPT ![i] = @ - 1]
        /\ assocs' = IF last THEN [assocs EXCEPT ![i] = NoSub] ELSE assocs
        /\ free_assoc_buckets' = IF last THEN free_assoc_buckets + 1
                                 ELSE free_assoc_buckets
        /\ current_assoc' = IF last THEN i ELSE current_assoc
  /\ index' = [index EXCEPT ![c] = -1]
  /\ held' = [held EXCEPT ![c] = NoSub]
  /\ UNCHANGED <<max_assoc_buckets, cache, answer, fault>>

\* removeAssoc: the last owner empties the slot, and current_assoc moves past it.
removeAssoc(c) ==
  /\ fault = "none" /\ held[c] # NoSub
  /\ LET i == index[c]
         last == ref[i] = 1
     IN /\ ref' = [ref EXCEPT ![i] = @ - 1]
        /\ assocs' = IF last THEN [assocs EXCEPT ![i] = NoSub] ELSE assocs
        /\ free_assoc_buckets' = IF last THEN free_assoc_buckets + 1
                                 ELSE free_assoc_buckets
        /\ current_assoc' = IF last /\ i >= current_assoc THEN i + 1
                            ELSE current_assoc
  /\ index' = [index EXCEPT ![c] = -1]
  /\ held' = [held EXCEPT ![c] = NoSub]
  /\ UNCHANGED <<max_assoc_buckets, cache, answer, fault>>

\* A composition: a hit returns what is cached under the index, whatever it
\* was computed with; a miss computes with the client's own substitution.
compose(c) ==
  /\ fault = "none" /\ held[c] # NoSub
  /\ \/ \E s \in Subs :
          /\ <<index[c], s>> \in cache
          /\ answer' = s
          /\ UNCHANGED cache
     \/ /\ \A s \in Subs : <<index[c], s>> \notin cache
        /\ answer' = held[c]
        /\ cache' = cache \cup {<<index[c], held[c]>>}
  /\ UNCHANGED <<table, index, held, fault>>

\* Any store of another operation, a garbage collection or a resize may drop
\* an entry.
Evict ==
  /\ fault = "none"
  /\ \E e \in cache : cache' = cache \ {e}
  /\ UNCHANGED <<table, index, held, answer, fault>>

Next ==
  \/ \E c \in Clients :
       \/ \E s \in Subs : newAssoc(c, s)
       \/ removeAssoc(c)
       \/ compose(c)
  \/ Evict

Spec == Init /\ [][Next]_vars

-------------------------------------------------------------------------------
(***************************************************************************)
(* Properties                                                              *)
(***************************************************************************)

\* The shape of the state; the number of free slots never exceeds the table.
TypeOK ==
  /\ max_assoc_buckets \in Nat \ {0}
  /\ assocs \in [Slots -> Subs \cup {NoSub}]
  /\ ref \in [Slots -> Nat]
  /\ current_assoc \in 0 .. max_assoc_buckets
  /\ free_assoc_buckets \in 0 .. max_assoc_buckets
  /\ held \in [Clients -> Subs \cup {NoSub}]
  /\ index \in [Clients -> Slots \cup {-1}]
  /\ \A c \in Clients : held[c] # NoSub => index[c] \in Slots
  /\ cache \in SUBSET (Nat \X Subs)
  /\ answer \in Subs \cup {NoSub}
  /\ fault \in {"none", "overrun", "lost"}

\* _newAssoc decides between reuse and doubling by free_assoc_buckets alone: it
\* always is the number of null slots.
FreeCountExact == fault = "none" => free_assoc_buckets = Cardinality(Empty)

Owners(i) == {c \in Clients : held[c] # NoSub /\ index[c] = i}

\* The slot of every client holds that client's substitution, and the counter
\* of a slot is the number of the clients that share it: releasing one of them
\* never takes the substitution away from another.
OwnedSlotsMatch == \A c \in Clients : held[c] # NoSub => assocs[index[c]] = held[c]
RefCountExact == \A i \in Slots : ref[i] = Cardinality(Owners(i))
OwnersKeepTheirSlot == fault = "none" => OwnedSlotsMatch /\ RefCountExact

\* No composition cached for a former owner of an index can be returned to the
\* present one.
NoStaleCompose ==
  \A c \in Clients : \A s \in Subs :
    held[c] # NoSub /\ <<index[c], s>> \in cache => s = held[c]

\* Why NoStaleCompose holds: an index under which something is cached still
\* belongs to the substitution it was computed with, or it is free and lies
\* below current_assoc, where _newAssoc does not look before the next flush.
CacheGuarded ==
  \A i \in Nat, s \in Subs :
    <<i, s>> \in cache =>
      /\ i \in Slots
      /\ assocs[i] = s \/ (assocs[i] = NoSub /\ i < current_assoc)

\* The inductive invariant behind the properties above.
IInv ==
  /\ TypeOK
  /\ FreeCountExact
  /\ OwnersKeepTheirSlot
  /\ NoStaleCompose
  /\ CacheGuarded

\* ASSERT(current_assoc<max_assoc_buckets) in the search of _newAssoc.
NewAssocAssert == fault # "overrun"

\* ASSERT(assocs[i] && assocs[i]->ref>0) in removeAssoc, whichever client calls
\* it next.
RemoveAssocAssert ==
  \A c \in Clients : held[c] # NoSub => assocs[index[c]] # NoSub /\ ref[index[c]] > 0

\* Indices, sharing, doubling, flushing and eviction are invisible to the
\* clients: every composition is answered with the client's own substitution.
Service == INSTANCE ComposeService
ImplementsService == Service!Spec
===============================================================================
