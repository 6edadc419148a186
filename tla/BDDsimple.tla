------------------------------- MODULE BDDsimple -------------------------------
(***************************************************************************)
(* The node store of the BDD library: the unique table, the reference      *)
(* counts, the garbage collection of dead nodes, the growth of the tables  *)
(* and the computed cache, driven by any client that obeys the CHECK       *)
(* macros.  A node whose counter drops to zero is DEAD, not gone: it stays *)
(* in the table, a later find or cache hit may bring it back to live, and  *)
(* only a garbage collection, which any _free may start, reclaims it.      *)
(*                                                                         *)
(* One client call runs at a time.  The recursive calls of                 *)
(* _free_recursive and _back_to_live are steps of their own: dec[n] and    *)
(* inc[n] count the calls on n still to be made, in any order.             *)
(*                                                                         *)
(* Abstractions: the hash chains are the set of nodes they hold; the slot  *)
(* an entry of the cache falls into depends on addresses, so a store may   *)
(* overwrite any one entry, a growth drop any.  The counters of the two    *)
(* constants, which only ever grow, are left out: they are never zero.     *)
(***************************************************************************)
EXTENDS Integers, FiniteSets

CONSTANTS
  Vars,          \* the variables, ordered by <
  Addr,          \* the addresses newNodeOnHeap can return (a bound on the heap)
  False, True,   \* the constant nodes
  NoNode,        \* what is at an address that is not in use
  Ops, Arity,    \* the operators of cache entries and the number of operands
  CacheSize,     \* the number of slots of the cache
  TableSizes, InitialSize,  \* BDDsimple_primes and the constructor's argument
  gcratio, resizeratio,
  MaxHandles     \* bound: references to one node that the client holds

Constants == {False, True}
Ref == Addr \cup Constants
Node == [var : Vars, left : Ref, right : Ref]

ASSUME VarsAssumption == Vars \subseteq Nat
ASSUME AddrAssumption == IsFiniteSet(Addr) /\ Addr \cap Constants = {} /\ False # True
ASSUME NoNodeAssumption ==
  NoNode \notin Node /\ \A f \in SUBSET SUBSET Vars : f # NoNode
ASSUME SizesAssumption ==
  /\ TableSizes \subseteq Nat /\ InitialSize \in TableSizes
  /\ {gcratio, resizeratio, MaxHandles, Arity, CacheSize} \subseteq Nat

VARIABLES
  table,      \* table[a]: the node at address a of the unique table, or NoNode
  _ref,       \* _ref[a]: its reference count
  deadnodes,
  unique_tab_size,
  cache,      \* the computed cache: a set of Entry
  handles,    \* handles[a]: the references to a that the client owns
  dec, inc,   \* the pending calls of _free_recursive and _back_to_live
  phase       \* "idle", or the part of _free that runs

vars == <<table, _ref, deadnodes, unique_tab_size, cache, handles, dec, inc, phase>>

Entry == [op : Ops, args : [1 .. Arity -> Ref], res : Ref]

Allocated == {a \in Addr : table[a] # NoNode}
Dead == {a \in Allocated : _ref[a] = 0}
nodes == Cardinality(Allocated) + 2

Children(a) == {table[a].left, table[a].right}
LiveParents(a) == {p \in Allocated : _ref[p] > 0 /\ a \in Children(p)}

None == [a \in Addr |-> 0]
Idle == phase = "idle" /\ inc = None

\* CHECK: a BDD that is passed to the library is referenced.
Checked(x) == x \in Constants \/ (x \in Addr /\ _ref[x] > 0)
\* The operand of a new node lies below its variable.
Below(v, x) == x \in Addr => v < table[x].var

\* A recursive call on each child of a.
OnChildren(a, calls) == [x \in Addr |-> IF x \in Children(a) THEN calls[x] + 1 ELSE calls[x]]

Init ==
  /\ table = [a \in Addr |-> NoNode]
  /\ _ref = None
  /\ deadnodes = 0
  /\ unique_tab_size = InitialSize
  /\ cache = {}
  /\ handles = None
  /\ dec = None
  /\ inc = None
  /\ phase = "idle"

-------------------------------------------------------------------------------
\* Mutants of Reference: the count is tested after the increment, and the
\* nodes below a revived one are forgotten.
Reference_TestsOne(a) ==
  /\ handles[a] < MaxHandles
  /\ handles' = [handles EXCEPT ![a] = @ + 1]
  /\ _ref' = [_ref EXCEPT ![a] = @ + 1]
  /\ deadnodes' = IF _ref[a] = 1 THEN deadnodes - 1 ELSE deadnodes
  /\ inc' = IF _ref[a] = 0 THEN OnChildren(a, inc) ELSE inc
  /\ UNCHANGED <<table, unique_tab_size, cache, dec, phase>>
Reference_NoRevival(a) ==
  /\ handles[a] < MaxHandles
  /\ handles' = [handles EXCEPT ![a] = @ + 1]
  /\ _ref' = [_ref EXCEPT ![a] = @ + 1]
  /\ deadnodes' = IF _ref[a] = 0 THEN deadnodes - 1 ELSE deadnodes
  /\ UNCHANGED <<table, unique_tab_size, cache, dec, inc, phase>>

\* The client gets a reference to a node of the table: find, copy and cached
\* end in this.  A dead node comes back to live, and with it the nodes below.
Reference(a) ==
  /\ handles[a] < MaxHandles
  /\ handles' = [handles EXCEPT ![a] = @ + 1]
  /\ _ref' = [_ref EXCEPT ![a] = @ + 1]
  /\ deadnodes' = IF _ref[a] = 0 THEN deadnodes - 1 ELSE deadnodes
  /\ inc' = IF _ref[a] = 0 THEN OnChildren(a, inc) ELSE inc
  /\ UNCHANGED <<table, unique_tab_size, cache, dec, phase>>

copy(a) == Idle /\ Checked(a) /\ Reference(a)

Findable(v, l, r) ==
  Idle /\ Checked(l) /\ Checked(r) /\ Below(v, l) /\ Below(v, r) /\ l # r

FindFound(v, l, r) ==
  /\ Findable(v, l, r)
  /\ \E a \in Allocated :
       /\ table[a] = [var |-> v, left |-> l, right |-> r]
       /\ Reference(a)

\* Mutants of FindNew: the lookup passes over dead nodes, and the children
\* are not counted.
FindNew_SkipsDead(v, l, r) ==
  /\ Findable(v, l, r)
  /\ \A a \in Addr \ Dead : table[a] # [var |-> v, left |-> l, right |-> r]
  /\ \E a \in Addr \ Allocated :
       /\ table' = [table EXCEPT ![a] = [var |-> v, left |-> l, right |-> r]]
       /\ _ref' = [x \in Addr |-> IF x = a THEN 1
                                 ELSE IF x \in {l, r} THEN _ref[x] + 1 ELSE _ref[x]]
       /\ handles' = [handles EXCEPT ![a] = 1]
  /\ UNCHANGED <<deadnodes, unique_tab_size, cache, dec, inc, phase>>
FindNew_NoChildRefs(v, l, r) ==
  /\ Findable(v, l, r)
  /\ \A a \in Addr : table[a] # [var |-> v, left |-> l, right |-> r]
  /\ \E a \in Addr \ Allocated :
       /\ table' = [table EXCEPT ![a] = [var |-> v, left |-> l, right |-> r]]
       /\ _ref' = [_ref EXCEPT ![a] = 1]
       /\ handles' = [handles EXCEPT ![a] = 1]
  /\ UNCHANGED <<deadnodes, unique_tab_size, cache, dec, inc, phase>>

FindNew(v, l, r) ==
  /\ Findable(v, l, r)
  /\ \A a \in Addr : table[a] # [var |-> v, left |-> l, right |-> r]
  /\ \E a \in Addr \ Allocated :
       /\ table' = [table EXCEPT ![a] = [var |-> v, left |-> l, right |-> r]]
       /\ _ref' = [x \in Addr |-> IF x = a THEN 1
                                 ELSE IF x \in {l, r} THEN _ref[x] + 1 ELSE _ref[x]]
       /\ handles' = [handles EXCEPT ![a] = 1]
  /\ UNCHANGED <<deadnodes, unique_tab_size, cache, dec, inc, phase>>

\* find(v,l,r) with l = r returns l itself: that is copy(l).
find(v, l, r) == FindFound(v, l, r) \/ FindNew(v, l, r)

\* One call of _back_to_live.
_back_to_live(a) ==
  /\ inc[a] > 0
  /\ _ref' = [_ref EXCEPT ![a] = @ + 1]
  /\ LET rest == [inc EXCEPT ![a] = @ - 1]
     IN IF _ref[a] = 0
        THEN deadnodes' = deadnodes - 1 /\ inc' = OnChildren(a, rest)
        ELSE deadnodes' = deadnodes /\ inc' = rest
  /\ UNCHANGED <<table, unique_tab_size, cache, handles, dec, phase>>

\* The decrement shared by _free and _free_recursive, with calls pending.
Drop(a, calls) ==
  IF _ref[a] > 0
  THEN /\ _ref' = [_ref EXCEPT ![a] = @ - 1]
       /\ IF _ref[a] = 1
          THEN deadnodes' = deadnodes + 1 /\ dec' = OnChildren(a, calls)
          ELSE deadnodes' = deadnodes /\ dec' = calls
  ELSE UNCHANGED <<_ref, deadnodes>> /\ dec' = calls

\* _free(b): the client gives up a reference.
_free(b) ==
  /\ Idle
  /\ b \in Addr => handles[b] > 0
  /\ IF b \in Addr
     THEN handles' = [handles EXCEPT ![b] = @ - 1] /\ Drop(b, dec)
     ELSE UNCHANGED <<handles, _ref, deadnodes, dec>>
  /\ phase' = "freeing"
  /\ UNCHANGED <<table, unique_tab_size, cache, inc>>

_free_recursive(a) ==
  /\ phase = "freeing" /\ dec[a] > 0
  /\ Drop(a, [dec EXCEPT ![a] = @ - 1])
  /\ UNCHANGED <<table, unique_tab_size, cache, handles, inc, phase>>

-------------------------------------------------------------------------------
\* The end of _free: a garbage collection when enough nodes are dead, then a
\* growth of the tables when they are full.

EntryNodes(e) == {e.res} \cup {e.args[i] : i \in 1 .. Arity}
\* Mutant of containsZeroReference: only the result is looked at.
containsZeroReference_Result(e) == \E a \in {e.res} \cap Addr : _ref[a] = 0
containsZeroReference(e) == \E a \in EntryNodes(e) \cap Addr : _ref[a] = 0

ShouldCollect == nodes > unique_tab_size /\ deadnodes * gcratio > nodes

\* Mutants of garbage_collection: the cache is not swept, and the count of
\* dead nodes is not reset.
garbage_collection_KeepsCache ==
  /\ phase = "freeing" /\ dec = None /\ ShouldCollect
  /\ table' = [a \in Addr |-> IF _ref[a] = 0 THEN NoNode ELSE table[a]]
  /\ deadnodes' = 0
  /\ phase' = "resizing"
  /\ UNCHANGED <<_ref, unique_tab_size, cache, handles, dec, inc>>
garbage_collection_NoReset ==
  /\ phase = "freeing" /\ dec = None /\ ShouldCollect
  /\ cache' = {e \in cache : ~containsZeroReference(e)}
  /\ table' = [a \in Addr |-> IF _ref[a] = 0 THEN NoNode ELSE table[a]]
  /\ phase' = "resizing"
  /\ UNCHANGED <<_ref, deadnodes, unique_tab_size, handles, dec, inc>>

garbage_collection ==
  /\ phase = "freeing" /\ dec = None /\ ShouldCollect
  /\ cache' = {e \in cache : ~containsZeroReference(e)}
  /\ table' = [a \in Addr |-> IF _ref[a] = 0 THEN NoNode ELSE table[a]]
  /\ deadnodes' = 0
  /\ phase' = "resizing"
  /\ UNCHANGED <<_ref, unique_tab_size, handles, dec, inc>>

NoCollection ==
  /\ phase = "freeing" /\ dec = None /\ ~ShouldCollect
  /\ phase' = "resizing"
  /\ UNCHANGED <<table, _ref, deadnodes, unique_tab_size, cache, handles, dec, inc>>

\* double_table_size(old): the first size in the list that is at least 3*old/2.
Doubled(old, new) ==
  /\ new >= (3 * old) \div 2
  /\ \A s \in TableSizes : s >= (3 * old) \div 2 => new <= s

ShouldResize == unique_tab_size * resizeratio < nodes

\* Entries that fall into one slot of the new cache overwrite each other.
resize ==
  /\ phase = "resizing" /\ ShouldResize
  /\ \E new \in TableSizes : Doubled(unique_tab_size, new) /\ unique_tab_size' = new
  /\ cache' \in SUBSET cache
  /\ phase' = "idle"
  /\ UNCHANGED <<table, _ref, deadnodes, handles, dec, inc>>

NoResize ==
  /\ phase = "resizing" /\ ~ShouldResize
  /\ phase' = "idle"
  /\ UNCHANGED <<table, _ref, deadnodes, unique_tab_size, cache, handles, dec, inc>>

-------------------------------------------------------------------------------
\* The computed cache.

\* A hit: the client gets a reference to the result, which may be dead.
cached(op, args) ==
  /\ Idle
  /\ \A i \in 1 .. Arity : Checked(args[i])
  /\ \E e \in cache :
       /\ e.op = op /\ e.args = args
       /\ e.res \in Addr
       /\ Reference(e.res)

\* The result of an operation is stored, over the entry with the same operands
\* or over one whose slot it shares; without a free slot it is over some entry.
store(op, args, res) ==
  /\ Idle
  /\ \A i \in 1 .. Arity : Checked(args[i])
  /\ res \in Addr => handles[res] > 0
  /\ LET old == {e \in cache : e.op = op /\ e.args = args}
         new == [op |-> op, args |-> args, res |-> res]
     IN \E slot \in SUBSET cache :
          /\ Cardinality(slot) <= 1
          /\ old # {} => slot = old
          /\ cache' = (cache \ slot) \cup {new}
          /\ Cardinality(cache') <= CacheSize
  /\ UNCHANGED <<table, _ref, deadnodes, unique_tab_size, handles, dec, inc, phase>>

\* flush, called by BDDsimpleManager::_newAssoc.
flush ==
  /\ Idle /\ cache # {}
  /\ cache' = {}
  /\ UNCHANGED <<table, _ref, deadnodes, unique_tab_size, handles, dec, inc, phase>>

-------------------------------------------------------------------------------
Returning ==
  \/ \E a \in Addr : _back_to_live(a) \/ _free_recursive(a)
  \/ garbage_collection \/ NoCollection
  \/ resize \/ NoResize

Next ==
  \/ \E v \in Vars, l, r \in Ref : find(v, l, r)
  \/ \E a \in Addr : copy(a)
  \/ \E b \in Ref : _free(b)
  \/ \E op \in Ops, args \in [1 .. Arity -> Ref] :
       cached(op, args) \/ \E res \in Ref : store(op, args, res)
  \/ flush
  \/ Returning

Spec == Init /\ [][Next]_vars

-------------------------------------------------------------------------------
\* The pending calls, nodes and counters have their types.
TypeOK ==
  /\ table \in [Addr -> Node \cup {NoNode}]
  /\ _ref \in [Addr -> Nat] /\ handles \in [Addr -> Nat]
  /\ dec \in [Addr -> Nat] /\ inc \in [Addr -> Nat]
  /\ deadnodes \in Nat
  /\ unique_tab_size \in TableSizes
  /\ cache \subseteq Entry
  /\ phase \in {"idle", "freeing", "resizing"}

\* The unique table is one: no two nodes, dead ones included, have the same
\* triple, no node has equal children, and variables grow downwards, however
\* finds, revivals and collections followed one another.
Canonical ==
  \A a \in Allocated :
    /\ \A b \in Allocated : table[a] = table[b] => a = b
    /\ table[a].left # table[a].right
    /\ \A x \in Children(a) \cap Allocated : table[a].var < table[x].var

\* A counter is the number of the client's references and of the live nodes
\* above, up to the calls of a recursion that still has to arrive; so nothing
\* leaks and a node is collected only when nobody refers to it.
RefCountExact ==
  \A a \in Addr :
    _ref[a] + inc[a] = handles[a] + Cardinality(LiveParents(a)) + dec[a]

\* deadnodes, by which _free decides to collect, is what invariant() counts.
DeadCountExact == deadnodes = Cardinality(Dead)

\* Nothing refers to a reclaimed address: not a node, dead ones included, not
\* an entry of the cache, not a client.
NoDangling ==
  /\ \A a \in Allocated : Children(a) \cap Addr \subseteq Allocated
  /\ \A e \in cache : EntryNodes(e) \cap Addr \subseteq Allocated
  /\ \A a \in Addr \ Allocated : handles[a] + _ref[a] + dec[a] + inc[a] = 0

\* Deaths are carried down inside _free only, revivals outside of it only.
PhasesSeparate ==
  /\ phase # "freeing" => dec = None
  /\ phase # "idle" => inc = None

\* The inductive invariant: the properties above hold each other up.
IInv ==
  /\ TypeOK
  /\ Canonical
  /\ RefCountExact
  /\ DeadCountExact
  /\ NoDangling
  /\ PhasesSeparate

\* A node that the client or a live node refers to is neither moved nor
\* reclaimed by any step.
KeepsUsedNodes ==
  [][\A a \in Allocated : handles[a] > 0 \/ LiveParents(a) # {} => table'[a] = table[a]]_vars

\* The Boolean function a node stands for: the sets of true variables under
\* which the path from the node leads to True.
Meaning[x \in Ref] ==
  {s \in SUBSET Vars :
     IF x \in Constants THEN x = True
     ELSE /\ table[x] # NoNode
          /\ s \in Meaning[IF table[x].var \in s THEN table[x].right ELSE table[x].left]}

\* An entry that stays in the cache keeps the operands and the result it was
\* stored with: no address in it is reclaimed and given to another node.
CacheKeepsMeaning ==
  [][\A e \in cache \cap cache' : \A x \in EntryNodes(e) : Meaning[x] = Meaning'[x]]_vars

\* The store implements Boolean functions that are equal exactly when the
\* pointers are and that change under nobody who holds one.
Service == INSTANCE FunctionService WITH
  Functions <- SUBSET SUBSET Vars,
  Ground <- {{}, SUBSET Vars},
  NoFunction <- NoNode,
  held <- [a \in Addr |-> IF handles[a] > 0 THEN Meaning[a] ELSE NoNode]
ImplementsFunctions == Service!Spec
===============================================================================
