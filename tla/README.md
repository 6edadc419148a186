# mucke in TLA+

mucke is a model checker for the mu-calculus over finite types, written in C++.
A user defines predicates, among them least (`mu`) and greatest (`nu`)
fixpoints, and asks whether terms hold; mucke evaluates every term to a
predicate, which is a BDD, and prints it.

This directory holds TLA+ modules that model the parts of mucke on which its
answers depend, TLC configurations that check them on small instances, and
TLAPS proofs for every instance. Paths below are relative to `src/`; what each
definition models is in `PROJECT.json` under `map`, line by line.

1. [The system](#the-system)
2. [Plan](#plan)
3. [Modules](#modules)
4. [Runs](#runs)
5. [Fairness](#fairness)
6. [Proofs](#proofs)
7. [Where the code and its documentation disagree](#where-the-code-and-its-documentation-disagree)
8. [What is not modelled](#what-is-not-modelled)

## The system

The program is one thread. Its main loop (`src/main.cc`) reads a command or a
term, analyses it, evaluates it (`testPredEval.cc`: a new `EvaluatorPredicate`
with its `Preparator`), prints the predicate and deletes the term. Nothing runs
beside it and nothing is stored on disk. What makes it hard is state that
outlives the call that made it: nodes that are dead and may come back, indices
and addresses that are used again while a cache still names them, predicates
that stay in terms from one round of a fixpoint to the next, and what one
question leaves attached to the definitions that the next one uses.

| Component | State | Operations | What makes it correct |
|---|---|---|---|
| BDD node store (`BDDsimple.cc`) | unique table, reference counts, count of dead nodes, table size, computed cache | `find`, `copy`, `free`, `cached`, `store`, `garbage_collection`, `resize`, `flush` | one node per function; a count is the number of references; nothing refers to a reclaimed address; the cache tells the truth after addresses were used again |
| BDD substitution table (`BDDsimple.cc`, `simplebman.cc`) | slots, their counts, `current_assoc`, number of free slots | `newAssoc`, `removeAssoc`, the compositions | a composition cached under an index is never returned to another owner of it |
| BDD operations (`BDDsimple.cc`) | none of their own | connectives, `ite`, quantors alone and merged with connectives, compositions alone and merged with quantors, `simplify_assuming`, `cofactor`, cubes | the result is reduced and means what the operation says, whichever short cut was taken |
| Substitution handles (`simplebman.cc`) and the managers of other libraries (`booleman.cc`, `boole.cc`, `*bman.cc`) | handles on BDDs, quantor sets and substitutions | a virtual interface on five BDD packages | each handle owns one reference |
| Types and their encoding (`Symbol.cc`, `macros.h`, `macros.cc`, `brepr.cc`) | none | sizes, bits, comparison of a code with a bound, the code of a number | every value has a code of its own, and the codes of values are those the bound admits |
| Predicates and representations (`repr.cc`, `brepr.cc`) | a BDD for each predicate, and the allocation its variables belong to; the range of each allocation | comparisons, connectives, quantors and substitutions of predicates, `rangify` | a number is compared with the value it names; codes that stand for no value do not change what a predicate means |
| Predicate evaluator (`evalpred.cc`, `cache.cc`) | per term a predicate and whether it is valid; `current_fixpoint`; the cache of closed definitions | one handler per class of term, `reset_dependencies`, the iteration of fixpoints with or without frontier sets | every predicate that is used belongs to the present round of every open fixpoint; iterations end; answers are right |
| Definition dependencies and SCCs (`evaldpnd.cc`, `evalscc.cc`, `graph.cc`, `prepare.cc`) | the component attached to a definition, the dependency graph | `EvaluatorScc::check`, `EvaluatorDependencies::check` | ill-formed terms are refused and others are not; the graph has every dependency, in every setting a definition is used in |
| Monotonicity and type checks (`evalmon.cc`, `monotonic.h`, `evalalldef.cc`) | a four-valued sign per definition | traversals of terms | the check of monotonicity is commented out in `prepare.cc`; `alldefined` is a traversal |
| Evaluation manager (`evalint.cc`) | an index below 100 for each evaluator; states of evaluators in terms, each in two lists | register and remove evaluators, attach, find and remove states, delete terms | a state is found under the evaluator it belongs to, and an index that is given out again has none |
| Variable allocation (`alloc.cc`, `alloccs.cc`, `evalalloc.cc`, `evalallocone.cc`) | constraints, blocks, orders | blockwise and interleaved orders | an order that meets the constraints |
| Witnesses and counterexamples (`evalmmc.cc`, `iter_vec.cc`, `arr_stor.cc`, `storage.cc`, `cexbuild.cc`, `npnftab.cc`, ...) | approximations per iteration vector | record, look up, unroll | a witness is a play that proves the answer |
| Scanner, parser, analyzer, symbols and contexts (`mu.y`, `Scanner.cc`, `analyzer.cc`, `Symbol.cc`, `context.cc`, `term*.cc`) | symbol tables, a stack of contexts | parse, analyse, push, pop | names mean what was defined last |
| Containers and utilities | lists, sets, bit matrices | sequential | |
| Terminal, files, configuration | | input and output | |

They call each other downwards: parser and analyzer make terms, the preparation
attaches components and graphs to them, the evaluator calls predicates, these
the BDD wrappers and these the library, whose operations allocate nodes and
substitutions. Two connections go the other way in time: `newAssoc` flushes the
cache of the operations, and any release of a BDD may start a collection, even
one in the middle of another operation.

`PROJECT.json` lists under `hazards` what can go wrong in this at a line a test
would hardly reach, with the properties that cover it.

## Plan

The order is by what the answers depend on most.

1. *(done)* The substitution table: `ComposeService`, `BDDsimpleAssocs`, proofs.
2. *(done)* The node store: `FunctionService`, `BDDsimple`, proofs.
3. *(done)* The operations as functions: `BDDalgorithms`, `BDDfunctions`,
   `BDDclient`, proofs.
4. *(done)* Preparation and evaluation: `MuCalculus`, `MuMeaning`, `Preparation`,
   `Answers`, `Evaluator`, `EvaluatorStack`, `EvaluatorSound`, `EvaluatorMeaning`,
   proofs of all that is about the machine, partial correctness included.
5. *(done)* The evaluation manager: `StateService`, `EvaluationManager`, proofs.
6. *(done)* The encoding of finite types: `TypeEncoding`, `Predicates`, proofs.

What could follow, in this order:

* `BDDapply`: one recursive operation composed with the node store, so that a
  collection falls between its recursive calls and its intermediate results are
  only on the stack.
* Witnesses: iteration vectors and their storage against the approximations of
  the evaluator. Contexts pushed and popped. Variable orders.

## Modules

**`ComposeService`** is what users of substitutions are promised: they acquire
one, compose with it and release it, and every composition is with the one they
hold. No index, no cache.

**`BDDsimpleAssocs`** is the table behind it. A client is a
`SimpleBooleSubsData`, which owns one reference. `newAssoc` is split by what
`_findAssoc` and `_newAssoc` find: an equal substitution below `current_assoc`
(`FindShared`), a free slot from `current_assoc` on (`NewInSlot`, which starts
over at 0 and flushes when `current_assoc` has reached the end), no free slot
there although there is one (`NewOverrun`), no free slot at all (`NewDoubled`).
`removeAssoc` empties the slot with the last owner. `compose` looks in the
cache under the index only; `Evict` is everything else that drops entries.
`fault` names the two ways in which the code leaves its own assertions;
what happens after either is not modelled, since it is undefined.

**`FunctionService`** is what holders of BDD pointers are promised: a pointer
stands for one function while it is held, and equal functions have equal
pointers.

**`BDDsimple`** is the node store. An address is what `newNodeOnHeap` returns.
`Reference` is the common end of `find`, `copy` and `cached`: the count goes up
and a dead node comes back to live. `_free` takes one reference; its recursive
calls, and those of `_back_to_live`, are steps of their own, with the calls
still to be made counted in `dec` and `inc`, in any order. Then comes the
collection if `nodes` and `deadnodes` ask for it, then the growth. The client
may do everything the `CHECK` macros allow, so it stands for every operation of
the library and every user. The position of an entry in the cache depends on
addresses, so a store may overwrite any one entry and a growth lose any.

**`BDDalgorithms`** has the operations as functions from trees to trees, with
their short cuts, in the order of the code. `BDDsimple` shows that nodes and
functions correspond one to one, so that comparing trees is comparing pointers;
it also has the computed cache, which is left out here. The build is the default
one. Each recursive routine `f` of the program is three definitions: `f_body` is
what one call does, with `rec` for the calls it makes to itself; `f_rec` is the
function which that recursion defines; `f` is a call from outside. The domain of
`f_rec` says what the routine may be given: BDDs, cubes (`Cubes`) and
substitutions by variables and constants (`Assocs`).

**`BDDfunctions`** is what a BDD means: `Sat`, the valuations that lead to
`True`; quantification, substitution and support of such sets; and `Injective`, the
substitutions that are by variables and keep the operand's variables apart.

**`BDDclient`** calls every operation with every operand from a small set
and lets the result become the first operand of the next call (`Keep`), so that
operands are what the operations themselves make.

**`MuCalculus`** has terms, places in terms, predicates, and the dependency graph's
`successors` and `predecessors`. A predicate is a set of
valuations of two variables; definitions have one parameter and a quantor binds
the other variable, which is enough for `exists y. R(x,y) & X(y)`. The
substitution of an argument is the exchange of the two.

**`MuMeaning`** is what terms mean, with fixpoints defined by Tarski's theorem and
not by iteration.

**`Preparation`** has `EvaluatorScc` (a variant of Tarjan's algorithm over
terms) and `EvaluatorDependencies` as recursive operators on the state that the
C++ objects have. Beside them is what they should compute: `Component`,
`SettingsOf`, `FreeIn`, `WellFormed`.

**`Evaluator`** is the machine. The call stack of the C++ program is explicit:
a frame has the place, how far its handler is (`at`) and the local variables of
`eval_fundef`. `memo` has the valid predicates of the terms of the running
evaluator; `scc` and `cache` outlive it. There is one action per part of a
handler between two calls:

| Code | Actions |
|---|---|
| `eval_unary`, `eval_not`, `eval_application`, `eval_quantor` | `FirstOperand`, then the action of that name |
| `eval_binary`, `eval_ite` | `FirstOperand`, `SecondOperand`, `ThirdOperand`, then `eval_binary`, `eval_ite` |
| `eval_quantor_special` (relational product, lazy substitution) | the same, with `ResetOperand` and the marks `lazy` |
| `eval_fundef` | `FoundInCache`, `EnterPlain`/`FinishPlain`, `EnterFixpoint`, `NextRound`, `FinishFixpoint` |
| `Preparator::check`, `print_value` | `Ask`, `Answer` |
| `analyze_Proto` and the commands for the cache | `Redefine`, `ResetCache` |

Frontier sets are nondeterministic: `simplify_assuming` may return anything
outside of the care set, so `Frontiers` is the set of all such results.

The preparation is a parameter of `Evaluator` (`SccOf`, `DependenciesOf`), so that
it has no recursive operator and can be proved about. Every `.cfg` gives
`check_scc` and `check_dependencies` of `Preparation` for them.

**`EvaluatorStack`** is why the handlers do not forget what they still need. Its
first part says, as assumptions, what `Evaluator` relies on: terms have the
operands of their class (`TermsAssumption`, `ParameterTermsAssumption`), programs
stay programs when they are redefined (`ProgramsAssumption`), a place depends on
what the places below it depend on (`DependenciesAssumption`), and definitions
with a component use only such, and lead back to themselves only through a
fixpoint (`SccAssumption`). The second part is the shape of the stack and the
inductive invariant `Inv`. In the runs of the evaluator TLC evaluates all of the
assumptions, with the preparation of the program, for every program and query of
the run and every component that can be attached to a definition.

**`EvaluatorSound`** is why what the evaluator computes is what terms mean. The
meaning is a parameter (`MeaningOf`, `DefMeaningOf`; every `.cfg` gives `Meaning` and
`DefMeaning` of `MuMeaning`), of which only the equations that define it are used. Its
assumptions, which TLC evaluates as well:

| Assumption | What it says | Why |
|---|---|---|
| `MeaningAssumption` | the equations of a term's meaning, and of a definition's by Tarski's theorem | the definition of the logic |
| `DepthAssumption` | unfolding a term ends at constants and open fixpoints | terms are finite, and what is no fixpoint is not recursive (`evalscc.cc`) |
| `MonotoneAssumption` | a fixpoint's body is monotone in it | the program is right for such definitions only, and does not check it (`prepare.cc`) |
| `LinearAssumption` | in `LinearPrograms`, bodies distribute over unions (`mu`) or intersections (`nu`) | what frontier sets need; `evaluator_frontier` is a program for which it fails |
| `SettingsAssumption` | for an accepted term, the graph has every open definition that a place leads to, in every setting its body is evaluated in | what `EvaluatorDependencies` is for; `DependenciesExact` says the same of the traversal |

Then come the properties about meanings (`MemoSound`, `ApproximationsBounded`,
`AnswersRight` and the refinement of `Answers`) and the inductive invariant `Sound`.

**`EvaluatorMeaning`** puts the evaluator, `Preparation` and `MuMeaning` together, and
says what the preparation should have computed (`SccExact`, `VerdictExact`,
`DependenciesExact`).

**`Answers`** is what a user is promised: a term is refused or answered with
what it means. What it means is a parameter there, too.

**`StateService`** is what evaluators are promised about the states they keep in
terms: at most one each, found by its owner only, lost only with the term or the
owner.

**`EvaluationManager`** is what is behind it. A state hangs on a bucket, and a
bucket is in the list of its term (`next`, `prev`) and in that of its evaluator
(`next_same`, `prev_same`, from the anchor in `state_buckets`). An evaluator is
registered when it is constructed and gets the first free index.
`remove_evaluator` walks the list of the evaluator and deletes the buckets, and
`~EvaluationStateList` deletes the first bucket of a term until there is none;
both loops take a step per bucket (`RemoveNext`, `DeleteFirst`), since each
deletion rewrites the pointers the loop goes by. The end of `remove_evaluator`
is `RemoveDone`.

The evaluators in `Lasting` are singletons that are never destructed:
`EvaluatorShowMapper` (`evalshowmapper.h`), `EvaluatorWitCS` and `AllocCSMapper`
(`analyzer.cc:62`), `EvaluatorWitExpand` (`evalwitexp.h`) and
`TNCreationEvaluator` (`npnftab.h`). All others are local to a command, and the
command's term outlives them (`main.cc:48`). When a term dies in which a lasting
evaluator keeps a state, a bucket leaves the middle of that evaluator's list,
and the destructor mends the list at the wrong end (see below). `fault` has the
indices in whose list a deleted bucket was then written to; the system stops
there, since the rest is undefined.

**`TypeEncoding`** is what a basic type of a given size is in bits: how many it
gets (`ld_ceiling32`, with its table), which codes are below the size when `leq`
has compared them bit by bit (`Valid`), and which code is made of a number
(`LowBits`: `constant_to_Boole` takes as many of the lowest bits as the type has).
`Standard` says that the valid codes are one for each value, from 0 on.

**`Predicates`** is the layer between the evaluator and the BDDs: predicates as
sets of codings, where a variable of a type with three values has four codes.
Numbers are not codes. A comparison encodes the number as it is
(`eval_cmp_vwc`), an argument of a definition counts it from the first element of
its type before (`Counted`, `prepare_application`); `ComparisonsExact`, a part of
`MeaningExact`, says that the two agree, which they do because every type starts at
zero (`first`). The operands of a quantor have its scope or, like closed terms,
none (`Fitting`).
`rangify` cuts a predicate to the codes that stand for values, if the predicate
has an allocation (its `scope`), which the results of quantors and
substitutions do not have yet when `rangify` is called for them. There is one
action per handler of `EvaluatorPredicate`, on any predicates that earlier
handlers made: sharing and caching of predicates, which `Evaluator` models, only
restrict which predicates meet. A predicate is `Honest` if it depends on some
variables only by their values: it is true of no code of theirs that stands for
nothing. Of an honest predicate such a code can always be replaced by a value,
which is why quantifying over codes is then quantifying over values. The
variables have one name in all scopes, so that the substitution after a quantor
(`sub_quantor_result`) changes the scope only; those of definitions are
`Application`.

The modules `MC*` give the constants their values, one for each of
`BDDsimpleAssocs`, `BDDsimple`, `BDDclient`, `EvaluatorMeaning` and
`EvaluationManager`; `MCPredicates` adds `Predicates` to `MCSimple`. Definitions named
after another with a suffix, such as `FindNew_SkipsDead`, are mutants: what the
code would be with a plausible bug. They are used by no specification;
`PROJECT.json` says which property notices each.

## Runs

| Run | Bounds | Question |
|---|---|---|
| `store`, first part | 3 addresses, 2 variables, one cache slot of one operand, table sizes 2 and 3, one client reference per node | Are counts exact, nodes unique and pointers true, however finds, revivals, collections, growth and cache hits follow one another? |
| `store`, second part | 2 variables of one type with 3 values in 4 codes, one number in terms, 2 predicates at a time | Do comparisons and the operations on predicates mean what logic says of values, and which of them let other codes in? |
| `assocs` | 4 clients, 3 substitutions, 2 slots that may double to 4 | Is a composition ever answered with another client's substitution? |
| `assocs_overrun`, `assocs_lost` | the same | The two assertions of the table (violated) |
| `operations` | 3 variables, every function of them as first operand, 6 others, 5 quantified sets, 6 substitutions | Does every operation return the reduced BDD of what it means? |
| `compose_exists`, `cite_exists` | the same, one substitution | The two assertions of the lazy compositions (violated) |
| `evaluator` | 3 values, 3 definitions, 2 questions in a row, 10 programs, 4 settings of the flags | Are terms refused rightly, do iterations end, is what is kept valid, and are answers right? |
| `evaluator_retry` | the same, a user asks on after a refusal | Is a recursive definition refused again? (violated) |
| `evaluator_redefine` | the same, a definition is entered again after its evaluation | Is the answer that of the new body? (violated) |
| `evaluator_frontier` | one program | Do frontier sets keep the answer? (violated) |
| `manager` | 4 evaluators, 2 of them lasting, 3 indices, 2 terms, 4 buckets | Do evaluators find their own states only, are indices clean when they are given out again, and whose lists can break? |

Why the bounds are enough:

* `store`. Three addresses hold a node, its child and a dead node beside them;
  a chain of two lets a death and a revival be carried down; an address is used
  again after a collection while a cache slot may still name it. A second
  reference of the client to one node acts on the counts as a second parent
  does, and counts of 3 are reached by a handle and two parents, so
  `MaxHandles` is 1. A collection is due when two nodes are dead, growth when
  three are allocated. `gcratio` is that of the program, `resizeratio`
  is 2 instead of 4 so that three nodes are enough. All of it is proved for every
  size.
* `store`, second part. Two variables are enough for a quantor that leaves a
  variable, for one whose body is itself the result of a quantor, for
  substitutions that exchange, merge or fix variables, and for scopes that are
  empty, partial and full. Three values in four codes is the smallest type with
  a code that stands for nothing and more than one value. One number is enough,
  since the others differ from it by a renaming of values, and `ComparisonsExact` is
  proved for all. `SYMMETRY` exchanges the two variables, whose types are equal, and
  the two slots. The node store and predicates share no state, and one moves only
  while the other is where it began, the predicates at `FALSE` with one variable. All
  three properties are proved for every size of which `TypeEncoding` gives the
  standard encoding; two assumptions that TLC evaluates in this run say of which it
  does: `StandardEncoding` of 1 to 256, and `BitsMissing` not of 257 to 263.
* `assocs`. Two slots fill, free, start over, and double; sharing needs two
  clients of one slot; a stale hit needs a slot that changes hands while a
  composition of its former owner is cached.
  Proved for every size.
* `operations`. With three variables an operand's variable lies above, between
  or below the others', which are the cases of the recursions; a short cut looks
  at one level below the operands. Substitutions exchange, rotate, move to an
  inner variable, put two variables on one, and have a constant. The state space
  is the 256 functions with every call on each of them. Proved for every number
  of variables.
* `evaluator`. Three values make a chain of transitions long enough for several
  rounds, and for an iteration that ends too early to be wrong. The programs are
  reachability and safety, alternating fixpoints (`Alternating`, `Nested`,
  `Deep` with three levels), a definition shared by an open fixpoint and a closed
  one, negations that cancel out, fixpoints that do not depend on themselves, and
  two that must be refused. A second question meets the cache and the components
  the first one left. `Redefine` is allowed on definitions that no question has
  reached yet; later is what `evaluator_redefine` asks. The four settings are
  the default one, everything off, everything on, and frontier sets (with the
  bodies they are right for).
* `manager`. Fewer indices than evaluators, so that they run out and are given out
  again; two evaluators of each kind, so that their buckets alternate in the list
  of a term; four buckets, so that one is taken out between two others and the
  two lists cross. The properties but `RemovalEnds` are proved for every size.

`CHECK_DEADLOCK FALSE` stands where the system stops: `assocs` and `manager`
after a fault, `manager` also when its buckets are used up, and the evaluator
after its last question.

What the properties say is above each of them in the modules. Those to read
first: `NoStaleCompose` and why it holds (`CacheGuarded`), `RefCountExact`,
`CacheKeepsMeaning`, `LazyComposeMeaning`, `MemoSound`, `HeldPredicatesStay`,
`VerdictExact`, `OnlyUniversalsStray`, `MeaningExact`, `OnlyLastingBreak`, and
the four refinements `ImplementsService`, `ImplementsFunctions`,
`ImplementsAnswers`, `ImplementsStates`.

## Fairness

`Evaluator` states `WF_vars(Terms \/ FunDefs \/ Answer)`, and
`EvaluationManager` the same of `Destructors` as long as nothing is broken. The
program is one thread: once a term is accepted, it goes on with its evaluation
until that is done, so a step of the evaluation that is possible is made; and a
destructor that has begun is run on. `RemovalEnds` says that the loop of
`remove_evaluator` ends although each of its deletions rewrites the list.
Nothing is assumed of users: they need not ask, redefine or reset anything. With
it `EveryQueryAnswered` says that iterations end. It holds for monotone
definitions; the check that would refuse others, `check_monotonicity`, is
commented out in `prepare.cc`, and no program that is not monotone is among those
checked. The other modules have no liveness: their operations are calls, and
nothing obliges a client to make any.

## Proofs

`tlapm` checks eight modules, for every value of the constants within these
assumptions: `Clients` is finite and the table has at least one slot; the
addresses are finitely many and no constants (`AddrAssumption`), and what marks an
address as not in use is no node and no function (`NoNodeAssumption`); variables are numbers, and sizes, ratios and bounds are natural numbers; there is
at least one variable; a client's operands are BDDs, its substitutions are by
variables and constants, and it quantifies over variables; `Lasting` evaluators
are evaluators; every type has a value and the standard encoding (`CodesAssumption`);
and for the evaluator, those of `EvaluatorStack` and `EvaluatorSound`.

**`BDDsimpleAssocs_proofs`.** The invariant `IInv` joins the checked
properties and `CacheGuarded`: an index under which a composition is cached
either still belongs to the substitution the composition was made with, or it
is free and lies below `current_assoc`, where nothing is handed out before the
next flush. Without it `NoStaleCompose` is not inductive: a slot given to a new
owner could have an entry from nobody knows when. There is one lemma per action.

* `TypeCorrect`, `FreeCountCorrect`, `OwnersSafe`, `ComposeNeverStale`: the
  properties of the run `assocs`, for any number of clients and slots. Counts and
  ownership are claimed until one of the two faults happens;
  `ComposeNeverStale` is claimed for ever.
* `Refinement`: the table implements `ComposeService`; each step is a step of it
  or a stutter, given `IInv`.

**`BDDsimple_proofs`.** Here no property is inductive alone. A collection frees
the dead, so `NoDangling` needs that no live node has a dead child, which is
`RefCountExact`. That in turn counts the calls still pending, and a death or a
revival must know that the children are allocated, which is `NoDangling`.
`PhasesSeparate` says that deaths are carried down only inside `_free`, and
revivals only outside of it. `IInv` is their conjunction; the lemmas `Revival`
and `Death` say how the live parents of all nodes change with one node, and then
there is one lemma per action.

* `TypeCorrect`, `TableCanonical`, `CountsExact`, `DeadCorrect`,
  `NothingDangles`: the invariants of the run `store`, for any set of addresses.
* `UsedNodesStay`: no step reclaims or changes a node that somebody can reach.

**`BDDmeaning_proofs`.** The function of a node is defined by recursion over
nodes, whose variables are below those of their children. So what holds of a
node whenever it holds of its children holds of all: otherwise look at a
counterexample with the highest variable. This gives that the recursion has a
solution (`MeaningExists`), that different nodes have different functions
(`DistinctMeanings`, from `Canonical`), and that a node which is in two tables, as
the nodes below it are then, has the same function in both (`SameMeaning`). A
step leaves the nodes alone that it does not reclaim (`NodesUnchanged`), and by
`NoDangling` what an allocated node or a cache entry names is allocated.

* `CacheIsSound`: `CacheKeepsMeaning`, for any number of addresses, variables and
  slots.
* `StoreImplementsFunctions`: the node store implements `FunctionService`.

**`BDDalgorithms_proofs`.** What each operation computes, for any number of
variables. The argument, in the order of the module:

* *Induction.* The prover cannot use an induction theorem that has an operator
  as a parameter, so the set of counterexamples is taken instead and a member of
  least rank looked at (`Least`, `Induction`, `Agreement`). The rank of a BDD is
  the number of variables from its top on, and that of several is the sum. That a
  function which satisfies its own recursive equation exists must be shown
  too, since TLA+ lets a recursive definition be any function at all if none does.
* *One BDD for every function.* `Canonicity` and `Completeness`: so `TreeOf(A)` is
  the BDD of the set of valuations `A`, and a BDD is the tree of its function.
* *Operations that their operands' functions determine* (connectives, `ite`, the
  operations for one variable, quantors, composition). It is shown that `F`, which
  takes operands to the tree of what the operation should mean, makes the body
  return what `F` returns (the lemmas `...Step`, short cut by short cut). Then `F`
  satisfies the recursive equation, and by `Agreement` it is the only function that
  does (`...Solved`).
* *Operations that are not determined* (`simplify_assuming`, `cofactor`, `extract`,
  `onecube`, the compositions merged with quantors, which outside of their
  precondition return anything). A set `...Good` has the results that are allowed.
  The body returns a good result if its calls do (`...Step`) and looks at smaller
  operands only (`...Local`); `Solution` then gives that the recursion defines a
  function and all of its results are good.
* *Substitutions inside quantors* need that a variable skipped in the quantified
  cube is none that the rest of the operand is mapped to (`min_var`,
  `SkipImageFacts`). This is where `Injective` is used, and the runs
  `compose_exists` and `cite_exists` show what happens without it.

`IteMeaning`, `SubstMeaning`, `IteExistsMeaning`, `SimplifyMeaning`,
`ComposeExistsMeaning`, `LazyRelProdMeaning`, `CITEMeaning`,
`ComposeForallImpliesMeaning`, `OnecubeMeaning` and their like state the results.

**`BDDclient_proofs`.** `ClientInvariant`: the seven properties of the run
`operations` hold together. They are inductive together and not
alone, since a result becomes an operand and must be a reduced BDD to be one.
`EveryResultReduced`, `ConnectivesCorrect`, `DontCaresCorrect`, `QuantorsCorrect`,
`ComposeCorrect`, `LazyComposeCorrect`, `CubesCorrect` are its parts, for every
number of variables and whatever operands, substitutions and quantified sets.

**`EvaluationManager_proofs`.** The two lists are proved separately. That of a
term stays right whatever happens to the other one. That of an evaluator is
right as long as no bucket left its middle, which for an evaluator that is not
lasting never happens: no term dies while it is registered. What joins them is
`LinksWithin` (links lead to buckets of the same index, deleted or not, so that
the break of one list cannot reach another) and `DestructorsSeparate` (one
destructor at a time, and a dying term has states of lasting evaluators only).
`IInv` is both with the checked invariants.

* `TypeCorrect`, `TermListsCorrect`, `ChainsCorrect`, `NothingLeftCorrect`,
  `UniqueCorrect`, `OnlyLastingCorrect`: the invariants of the run `manager`, for
  any number of evaluators, terms, indices and buckets.
* `Refinement`: the manager implements `StateService`.

**`Predicates_proofs`.** A lemma for each operation says that its result depends
on nothing outside of its scope, what it means on values, and that it is honest
if its operands are, except for universal quantors. `ValueCodes` and `NumberCodes`
say that the numbers of a type are codes of its values and keep all of their bits. The proofs replace
out-of-range codes by values (`Mix`): this is where honesty is needed, and the
proof fails for existential quantors without it.

* `ScopesCorrect`: `ScopesRespected`, which is inductive as it stands.
* `MeaningCorrect`: `MeaningExact` follows from it, for any variables, types and
  number of predicates. So comparisons, connectives, universal quantors and applications are
  right whatever they are given; existential quantors and the verdict "false"
  are right for honest predicates.
* `StrayCorrect`: universal quantors are the only source of predicates that are
  not honest.

**`Evaluator_proofs`, the stack.** The machine, for any values, programs, terms and flags, and
for every preparation that keeps the assumptions of `EvaluatorStack`, under two
hypotheses. Users ask on only after accepted terms (`~AskAgain`): otherwise a
component stays that does not fit, and `evaluator_retry` shows what follows. And
they enter no definition again after its evaluation (`~RedefineLate`): otherwise
it keeps the component of its old body, which says nothing about the new one, so
that `ComponentsFit` is lost; `evaluator_redefine` shows what else goes wrong then.
The run `evaluator` has both.

What is to be shown is that a handler which goes on after a call finds what it
holds: the predicate of the operand it called for first, and the approximation
of a fixpoint. Calls reset things: the start of a fixpoint's iteration, each round
of it and a lazy operand forget the predicates of all places that depend on a
definition, or of one operand. So
`HeldPredicatesStay` is not inductive, and `Inv` adds:

* *The shape of the stack* (`StackShape`). Each frame was called by the next
  (`FramesCalled`); within one body the calls go to the leaves (`BodiesNest`), so
  that a lazy operand that is reset is deeper than everything held; a definition
  under way is not entered again (`OpenOnce`), which follows from validity for
  fixpoints, and for plain definitions from the components: everything on the stack
  above a definition is in any closed set its body is in (`FramesLead`), and some
  such set does not have the definition itself (`SccFits`). A place depends only on
  definitions whose evaluation called for it (`FreeIsOpen`), so that a new
  iteration, whose definition is at the top, forgets nothing that is held below.
* *What was called last is valid* (`CalleeKept`), and what is left to `relprod`
  applies a definition (`LazyApplied`).
* *Types* (`MemoTyped`): a kept predicate of a term about the parameter does not
  depend on the second variable, except that of a quantor in the middle of
  `eval_quantor_special`, which is that of its body.
* *Between questions* (`Evaluating`, `ComponentsFit`) nothing is kept but
  components and the cache, and the components of accepted terms fit.

There is one lemma per action, and lemmas about calls and returns
(what a push and a pop do to the shape of the stack) and about resets.

* `EvaluatorInvariant`: `Inv`.
* `EvaluatorTyped`, `HeldPredicatesKept`: `TypeOK` and `HeldPredicatesStay` of the
  run `evaluator`.
* `RecursionNeverEntered`: `RecursionRefused`, the property that
  `evaluator_retry` violates, holds if nobody asks on after a refusal.

**`Evaluator_proofs`, what is computed.** The same hypotheses, those of
`EvaluatorSound`, and that frontier sets are used with linear programs only
(`FrontiersFit`; the run `evaluator` keeps to it, `evaluator_frontier` does not).
Under them the evaluator is partially correct: what it answers is what the term
means. The inductive invariant is `Sound`, beside `Inv`:

* *What is kept* (`MemoSound`). A predicate that is kept is what its term means when
  the open definitions that the graph has for the term stand for their present
  approximations. So nothing of an earlier round may be kept: a new approximation of
  `d` is stored by `EnterFixpoint`, `NextRound` and `FinishFixpoint` only, and
  `reset_dependencies` forgets every place that has `d` in the graph (`ResetFree`).
* *What is held* (`FramesSound`). A frame in the middle has the meaning of its first
  operand (`HeldSound`). For a frame that iterates a `mu`, the approximation `a` of the
  last round satisfies `a <= B(a)` and is below every `b` with `B(b) <= b`, where `B` is
  what the body means; dually for `nu` (`RoundSound`). So when the loop ends
  because nothing changed, because the bound is reached, or because the body does not
  refer to the definition, the fixpoint is reached (`FinishFixpointSound`; the last
  case is `RoundAlike`). With frontier sets the body is evaluated on a predicate between
  the difference and the union, and `LinearAssumption` gives that joining the result to
  `a` leads to `B(a)` (`FrontierRound`).
* *Settings* (`FramesSet`, `SettingsKept`). A predicate that was computed at one
  place of the program is used at another, where other definitions may be open. The
  graph has one set of dependencies for both. `Coincidence` says that the meaning of a
  term is the same in two environments that are alike for the definitions it leads to
  (`Alike`), in two programs as well; it is proved by a counterexample of least
  `Depth`. `PlaceValue` and `DefValue` use it for operands, `FoundInCacheSound` for
  the cache.
* *The cache* (`CacheSound`). Only definitions that depend on no open one are stored,
  so what is stored is their meaning without environment; and a definition that may be
  entered again has no component, so nothing with a component leads to it
  (`RedefineSound`, by `Coincidence` for two programs).

Again one lemma per action (`...Sound`).

* `EvaluationSound`: `Inv` and `Sound` hold always. `KeptIsMeant` and `CachedIsMeant`
  are the parts `MemoSound` and `CacheSound`.
* `FixpointsApproached`: `ApproximationsBounded`, no approximation goes beyond its
  fixpoint. `RoundsAreMonotone`: `RoundsMonotone`.
* `AnswersAreMeant`: `AnswersRight`, the property that `evaluator_redefine` and
  `evaluator_frontier` violate, holds under the hypotheses.
* `EvaluatorAnswers`: `ImplementsAnswers`; each step is a step of `Answers` or a
  stutter.

`Sound`, `CacheSound` and `ApproximationsBounded` were checked by TLC on the states of
the run `evaluator` before they were proved. That run has two questions, ten
programs and three values; the theorems have any number of each.

Only model-checked:

* `SccExact`, `VerdictExact` and `DependenciesExact` of the run `evaluator`, and the
  assumptions of `EvaluatorStack` and `EvaluatorSound` about the real preparation and
  the real meaning. They speak of traversals that are recursive over terms: this needs
  induction over data, and recursive operators, which keep the SMT backend away. So
  what the proofs show is that the machine is right if the preparation is.
* liveness (`RemovalEnds`, `EveryQueryAnswered`), which is out of the prover's reach.

## Where the code and its documentation disagree

The first seven have a run in which TLC finds a way there. The two after them show in
properties that had to be stated with an exception, and the last two in what
`TypeEncoding` and `CodesAssumption` take types to be.

* `BDDsimple.cc:1543` (`assocs_overrun`). `_newAssoc` knows that a slot is free
  and looks for it from `current_assoc` upwards only. When those below are the
  only free ones it leaves the array, against its `ASSERT`.
* `BDDsimple.cc:1588` (`assocs_lost`). `assocs[... = _newAssoc()] = assoc` may
  load the pointer before the call that replaces the array.
* `BDDsimple.cc:3412` (`compose_exists`). `_composeExists` quantifies the two
  children separately although the substitution has put two variables on one.
  The expensive assertion below it says otherwise.
* `BDDsimple.cc:3585` (`cite_exists`). `cITEexists` takes a node whose variable
  becomes a constant for that constant and drops its other child.
* `evalscc.cc:130` (`evaluator_retry`). A component stays attached to a
  definition after the term that led to it was refused, and the definition is not
  looked at again: the same term is accepted the second time and its evaluation
  never ends.
* `analyzer.cc:1016` (`evaluator_redefine`). The test before "multiply defined"
  is negated. A definition that is entered again replaces the body of the old
  one, while the cache still has the old predicate.
* `evalpred.cc:1276` (`evaluator_frontier`). Frontier sets are right for bodies
  that distribute over unions, or intersections for `nu`. With a quantor of the
  other kind the answer is another one, although the option offers them "for all
  fixpoints".

* `evalint.cc:255`. `~EvaluationStateListBucket` moves the anchor when a bucket
  without successor goes, and has no case for one without predecessor "because
  the anchor is at the other end" (`evalint.cc:262`); the constructor says "always
  insert at front" (`evalint.h:59`). With the newest bucket deleted, the anchor
  names a deleted bucket; with the oldest, it skips to the one before it.
  `remove_evaluator` deletes front to back and is not affected.
  `OnlyLastingBreak` says who is: an evaluator that outlives terms, such as that
  of `show` attributes when a definition and two commands after it have labelled
  terms.
* `brepr.cc:1061`. "Restrict the boolean representation by the range"
  (`brepr.cc:124`) is what `rangify` is for, but the result of a quantor has no
  allocation at that point and `rangify` does nothing (`brepr.cc:130`). A
  universal quantor makes codes out of range true, and an existential one around
  it takes such a code for a witness. With `enum A {a,b,c}; bool P(A x, A y)
  x = y;` the term `exists A x. forall A y. P(x,y)` is printed as true; with four
  values it is false. A connective in between, or a type whose size is a power of
  two, hides it. `OnlyUniversalsStray` and the premise of `ExistentialsExact` say
  exactly when it can happen. `Evaluator` takes predicates for sets of values, so
  its answers are those of a program without such types.
* `macros.h:59`. `ld_ceiling32` rounds a logarithm up only within the highest byte
  that is not zero; the lower ones are dropped. A type of 257 to 511 values gets 8
  bits, one of 513 to 767 gets 9, and so on, although "a range type of size
  n = max - min + 1 will use ld(n) bits" (`doc/types.html:140`). Values beyond the
  codes share those of others, and `leq` compares with the low bits of the
  last value, so that for `enum R {0..256};` the only code in range is 0. The
  assumption `BitsMissing` of `MCPredicates` shows both; `CodesAssumption` leaves such
  types out, and `Standard` holds of all up to 256.
* `Symbol.cc:816`, range types that do not start at zero. `doc/types.html:130`
  allows any first number, of which "n is represented as the standard boolean
  encoding of n - min" (line 143). The constructor of `RangeType` ends the program
  unless it is zero. `NEWS:46` says that there is "still a bug" with such types, and
  `test/0011` is a program for it, which cannot be reached in this version. It
  would be that `eval_cmp_vwc` (`evalpred.cc:1416`) encodes the number as it is, of which
  `constant_to_Boole` takes the low bits, while `prepare_application`
  (`evalpred.cc:979`) subtracts the first element. `Predicates` does in each place
  what the program does there, with the only `first` it has.

The asserts mentioned are compiled only with `DEBUG`, the expensive ones only
with a flag of their own.

## What is not modelled

* In the node store: the hash chains and the counters of the two constants, which
  only grow.
* In the operations: `cITEexists` for substitutions by other than variables and
  constants, which `brepr.cc` never makes; sizes, counts of solutions and
  printing; the computed cache, which is in `BDDsimple`.
* In the evaluator: `assume` and `cofactor` in terms, whose result is free
  outside of the care set; scopes and codes, which are in `Predicates`, so that
  `simplify_assuming` ranges over all predicates that agree on the care set;
  more than one parameter.
* In types: other first elements than zero, and encodings of more than 256 values
  that are not standard, for the reasons above; arrays and compound types are the
  variables of basic type they consist of.
* In the predicates: the computation of indices from allocations and access lists,
  and two components of one variable at indices of different strides;
  `simplify_assuming`, `cofactor`, `onecube` and `predicate_to_constant`, which
  only frontier sets, `assume` terms and witnesses use.
* In the evaluation manager: the fingerprints of the debug build, and what a write
  to a deleted bucket does.
* In the preparation: `evalfundefdep.cc` and `check_monotonicity`, whose calls
  are commented out. In `main.cc` an `Interrupt` is caught that nothing throws.
* Definitions that are not monotone: the code gives no promise for them.
* Variable orders, which change the size of BDDs and no answer; witnesses, whose
  storage follows the approximations of the evaluator and would need a second
  machine beside it; contexts, pushed and popped. They are under Plan.
* Scanner, parser, terminal, files and options: input and output without a
  protocol. The packages in `contrib/` are other people's programs behind the
  wrappers, and three quarters of the lines of the repository, so that the share of
  all its lines that the modules stand for is small whatever is modelled of mucke; `ex/` and `test/` are inputs.
