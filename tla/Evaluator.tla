------------------------------- MODULE Evaluator ------------------------------
(***************************************************************************)
(* EvaluatorPredicate: the evaluation of terms to predicates, with nested  *)
(* fixpoints.  The user asks one term after the other.  A term is prepared *)
(* and, if it is accepted, evaluated by a new evaluator; the components    *)
(* that the preparation attaches to definitions and the cache of closed    *)
(* definitions' predicates outlive it.                                     *)
(*                                                                         *)
(* Every handler keeps the predicate of its term, so that it is evaluated  *)
(* once only; what depends on a definition under iteration is reset before *)
(* each round.  The calls of the handlers are on a stack: a frame holds    *)
(* the term, where its handler is, and the local variables of eval_fundef. *)
(***************************************************************************)
EXTENDS MuCalculus, FiniteSets

CONSTANTS
  Starts,         \* pairs of a program, [Defs -> [kind, body]], and flags
  Queries,        \* the terms a user may ask
  Redefinitions,  \* pairs of a definition and another body for it
  MaxQueries,     \* bound: the number of terms asked
  AskAgain,       \* whether a user asks on after a term was not accepted
  RedefineLate,   \* whether a definition is entered again after it was evaluated
  SccOf(_, _, _),     \* Preparation's check_scc and check_dependencies
  DependenciesOf(_)

NoDef == Query    \* current_fixpoint when there is none

\* frontier: use_frontier_sets; relprod: global_use_relational_product;
\* lazy: global_use_lazy_substitutions, and always_try; resetting:
\* global_reset_always, global_reset_immediately_if_possible.
FlagRecords ==
  [frontier : BOOLEAN, relprod : BOOLEAN, lazy : {"off", "dependent", "always"},
   resetting : {"never", "possible", "always"}]

ASSUME StartsAssumption == \A s \in Starts : DOMAIN s[1] = Defs /\ s[2] \in FlagRecords
ASSUME BoundsAssumption == MaxQueries \in Nat /\ AskAgain \in BOOLEAN /\ RedefineLate \in BOOLEAN

VARIABLES
  prog,       \* the program: every definition's kind and body
  flags,      \* the flags, fixed at start
  scc,        \* scc[d]: the component attached to d, or NoScc
  cache,      \* the predicates of closed definitions, a partial function
  query,      \* the term asked last
  asked,      \* how many terms have been asked
  dgr,        \* the dependency graph of the running evaluator
  memo,       \* its valid predicates: a partial function of places
  lazy,       \* lazy[n]: which operands of quantor n are substituted lazily
  current,    \* current_fixpoint
  stack,      \* the frames of the running handlers, the innermost first
  answer      \* a record: what the last question's answer is

session == <<prog, flags, scc, cache, query, asked>>
vars == <<prog, flags, scc, cache, query, asked, dgr, memo, lazy, current, stack, answer>>

Bodies(q) == [d \in Defs \cup {Query} |-> IF d = Query THEN q ELSE prog[d].body]
Term(n) == TermAt(Bodies(query), n)
op(n) == IF isFunDef(n) THEN "fundef" ELSE Term(n).op
kind(n) == prog[definition(n)].kind

Frame(n) == [node |-> n, at |-> 0, last |-> {}, first |-> TRUE, outer |-> NoDef]
top == stack[1]

None     == [status |-> "none", value |-> {}]
Asked    == [status |-> "asked", value |-> {}]
Rejected == [status |-> "rejected", value |-> {}]
Value(p) == [status |-> "value", value |-> p]

Without(f, S) == [x \in DOMAIN f \ S |-> f[x]]
With(f, x, e) == [y \in DOMAIN f \cup {x} |-> IF y = x THEN e ELSE f[y]]

Init ==
  /\ \E s \in Starts : prog = s[1] /\ flags = s[2]
  /\ scc = [d \in Defs |-> NoScc]
  /\ cache = <<>>
  /\ query = Const({})
  /\ asked = 0
  /\ dgr = {}
  /\ memo = <<>>
  /\ lazy = <<>>
  /\ current = NoDef
  /\ stack = <<>>
  /\ answer = None

-------------------------------------------------------------------------------
(***************************************************************************)
(* Between two evaluations                                                 *)
(***************************************************************************)
Idle == stack = <<>>

\* A term is asked: Preparator::check, and a new evaluator if it succeeds.
Ask(q) ==
  LET s == SccOf(prog, Bodies(q), scc)
      g == DependenciesOf(Bodies(q))
  IN
  /\ Idle
  /\ answer # Asked
  /\ asked < MaxQueries
  /\ answer = Rejected => AskAgain
  /\ query' = q
  /\ asked' = asked + 1
  /\ scc' = s.scc
  /\ memo' = <<>>
  /\ lazy' = <<>>
  /\ current' = NoDef
  /\ \/ /\ s.valid
        /\ g.ok
        /\ dgr' = g.graph
        /\ stack' = <<Frame(<<Query, 1>>)>>
        /\ answer' = Asked
     \/ /\ ~(s.valid /\ g.ok)
        /\ dgr' = {}
        /\ stack' = <<>>
        /\ answer' = Rejected
  /\ UNCHANGED <<prog, flags, cache>>

\* The predicate of the term asked is there: it is printed, and the evaluator
\* goes with all its states.
Answer ==
  /\ Idle
  /\ answer = Asked
  /\ answer' = Value(memo[<<Query, 1>>])
  /\ dgr' = {}
  /\ memo' = <<>>
  /\ lazy' = <<>>
  /\ UNCHANGED <<session, current, stack>>

\* A definition is entered again, with new names for its parameters and another
\* body: analyze_Proto takes the first for a prototype, and the term is kept.
Redefine(d, t) ==
  /\ Idle
  /\ answer # Asked
  /\ asked < MaxQueries
  /\ RedefineLate \/ scc[d] = NoScc
  /\ prog' = [prog EXCEPT ![d].body = t]
  /\ UNCHANGED <<flags, scc, cache, query, asked, dgr, memo, lazy, current, stack, answer>>

\* reset_all, and reset of one definition, from the command line.
ResetCache(ds) ==
  /\ Idle
  /\ answer # Asked
  /\ asked < MaxQueries
  /\ ds # {}
  /\ ds = DOMAIN cache \/ Cardinality(ds) = 1
  /\ cache' = Without(cache, ds)
  /\ UNCHANGED <<prog, flags, scc, query, asked, dgr, memo, lazy, current, stack, answer>>

-------------------------------------------------------------------------------
(***************************************************************************)
(* Helpers of the handlers                                                 *)
(***************************************************************************)
Running == stack # <<>>
t0 == top.node                       \* the term whose handler runs
At(i) == Running /\ top.at = i       \* where its handler is
valid(n) == n \in DOMAIN memo

\* The handler has kept its predicate in m and returns.
Return(m) == memo' = m /\ stack' = Tail(stack)
\* It goes on with m, and calls eval of n first; f is its frame then.
Call(n, f, m) == memo' = m /\ stack' = <<Frame(n), f>> \o Tail(stack)
AtNext == [top EXCEPT !.at = @ + 1]

reset_if_possible(m, t, s) ==
  IF \/ flags.resetting = "always"
     \/ /\ flags.resetting = "possible"
        /\ <<s, current>> \in dgr \/ successors(dgr, t) = {}
  THEN Without(m, {s}) ELSE m

\* Mutants: only terms are reset, no definitions; d itself is reset as well.
reset_dependencies_terms(m, d) == Without(m, {n \in predecessors(dgr, d) : ~isFunDef(n)})
reset_dependencies_self(m, d) == Without(m, predecessors(dgr, d))

\* Only the terms that depend on d directly, and not d itself.
reset_dependencies(m, d) == Without(m, predecessors(dgr, d) \ {<<d>>})

\* Mutant: a definition that refers to itself is taken to be closed.
isEntryTerm_lax(d) == d \in successors(dgr, <<d>>) \/ successors(dgr, <<d>>) = {}

isEntryTerm(d) == successors(dgr, <<d>>) \subseteq {d}

\* reset: all of the body of d, but none of the definitions it applies.
reset(m, d) == Without(m, {n \in DOMAIN m : definition(n) = d /\ ~isFunDef(n)})

\* A quantor that is evaluated together with the connective below it.
special(n) ==
  /\ flags.relprod
  /\ op(n) \in Quantor
  /\ <<op(n), op(child(n, 1))>> \in
       {<<"exists", "and">>, <<"forall", "or">>, <<"forall", "implies">>}

\* prepare_lazy_substitutions, when quantor n is met first.
lazyAt(n, i) ==
  LET arg == child(child(n, 1), i)
  IN /\ op(arg) = "app"
     /\ \/ flags.lazy = "always"
        \/ flags.lazy = "dependent" /\ <<arg, current>> \in dgr
prepare_lazy_substitutions(n) == {i \in {1, 2} : lazyAt(n, i)}

\* The i-th operand of n: that of the connective below a special quantor, and
\* the definition itself where its application is left to relprod.
operand(n, i) ==
  LET arg == child(child(n, 1), i)
      ls == IF n \in DOMAIN lazy THEN lazy[n] ELSE prepare_lazy_substitutions(n)
  IN IF special(n) THEN (IF i \in ls THEN <<Term(arg).sym>> ELSE arg)
     ELSE operands(Term(n), n)[i]

-------------------------------------------------------------------------------
(***************************************************************************)
(* The handlers of terms                                                   *)
(***************************************************************************)
\* The first lines of every handler.
AlreadyEvaluated ==
  /\ At(0)
  /\ valid(t0)
  /\ Return(memo)
  /\ UNCHANGED <<session, dgr, lazy, current, answer>>

eval_constant ==
  /\ At(0) /\ ~valid(t0) /\ op(t0) = "const"
  /\ Return(With(memo, t0, Term(t0).sym))
  /\ UNCHANGED <<session, dgr, lazy, current, answer>>

\* The other handlers evaluate their first operand before all else.
FirstOperand ==
  /\ At(0) /\ ~valid(t0) /\ op(t0) \notin {"const", "fundef"}
  /\ Call(operand(t0, 1), AtNext, memo)
  /\ lazy' = IF special(t0) /\ t0 \notin DOMAIN lazy
             THEN With(lazy, t0, prepare_lazy_substitutions(t0)) ELSE lazy
  /\ UNCHANGED <<session, dgr, current, answer>>

eval_not ==
  /\ At(1) /\ op(t0) = "not"
  /\ Return(With(Without(memo, {child(t0, 1)}), t0, Points \ memo[child(t0, 1)]))
  /\ UNCHANGED <<session, dgr, lazy, current, answer>>

eval_application ==
  /\ At(1) /\ op(t0) = "app"
  /\ Return(With(memo, t0, apply(memo[operand(t0, 1)], Term(t0).at)))
  /\ UNCHANGED <<session, dgr, lazy, current, answer>>

\* Mutant: the predicate of the body is taken over, and not quantified.
eval_quantor_unquantified ==
  /\ At(1) /\ op(t0) \in Quantor /\ ~special(t0)
  /\ Return(With(Without(memo, {child(t0, 1)}), t0, memo[child(t0, 1)]))
  /\ UNCHANGED <<session, dgr, lazy, current, answer>>

eval_quantor ==
  /\ At(1) /\ op(t0) \in Quantor /\ ~special(t0)
  /\ Return(With(Without(memo, {child(t0, 1)}), t0, quantify(op(t0), memo[child(t0, 1)])))
  /\ UNCHANGED <<session, dgr, lazy, current, answer>>

\* The operand's predicate is copied, and the operand reset unless it is a
\* definition that is substituted lazily.
ResetOperand(m, i) ==
  IF special(t0) /\ i \in lazy[t0] THEN m ELSE reset_if_possible(m, t0, operand(t0, i))

SecondOperand ==
  /\ At(1)
  /\ op(t0) \in Binary \cup {"ite"} \/ special(t0)
  /\ LET copied == With(memo, t0, memo[operand(t0, 1)])
     IN Call(operand(t0, 2), AtNext, ResetOperand(copied, 1))
  /\ UNCHANGED <<session, dgr, lazy, current, answer>>

eval_binary ==
  /\ At(2) /\ op(t0) \in Binary
  /\ LET p == binary(op(t0), memo[t0], memo[operand(t0, 2)])
     IN Return(ResetOperand(With(memo, t0, p), 2))
  /\ UNCHANGED <<session, dgr, lazy, current, answer>>

\* relprod, forallOr and forallImplies, with their lazy substitutions.
Substituted(i, p) ==
  IF i \in lazy[t0] THEN apply(p, Term(child(child(t0, 1), i)).at) ELSE p
eval_quantor_special ==
  /\ At(2) /\ special(t0)
  /\ LET p == binary(op(child(t0, 1)), Substituted(1, memo[t0]),
                     Substituted(2, memo[operand(t0, 2)]))
     IN Return(ResetOperand(With(memo, t0, quantify(op(t0), p)), 2))
  /\ UNCHANGED <<session, dgr, lazy, current, answer>>

ThirdOperand ==
  /\ At(2) /\ op(t0) = "ite"
  /\ Call(operand(t0, 3), AtNext, memo)
  /\ UNCHANGED <<session, dgr, lazy, current, answer>>

eval_ite ==
  /\ At(3) /\ op(t0) = "ite"
  /\ LET c == memo[t0]
         p == (c \cap memo[operand(t0, 2)]) \cup (memo[operand(t0, 3)] \ c)
     IN Return(ResetOperand(ResetOperand(With(memo, t0, p), 2), 3))
  /\ UNCHANGED <<session, dgr, lazy, current, answer>>

-------------------------------------------------------------------------------
(***************************************************************************)
(* eval_fundef                                                             *)
(***************************************************************************)
d0 == definition(t0)
isFixpoint(d) == prog[d].kind \in {"mu", "nu"}

\* The end of eval_fundef: a closed definition's predicate goes to the cache,
\* and its subterms' are given up.
LeaveFunDef(m) ==
  IF isEntryTerm(d0)
  THEN Return(reset(m, d0)) /\ cache' = With(cache, d0, m[t0])
  ELSE Return(m) /\ UNCHANGED cache

Enters == At(0) /\ ~valid(t0) /\ op(t0) = "fundef"
Cached == isEntryTerm(d0) /\ d0 \in DOMAIN cache

FoundInCache ==
  /\ Enters /\ Cached
  /\ Return(With(memo, t0, cache[d0]))
  /\ UNCHANGED <<session, dgr, lazy, current, answer>>

\* A definition that is no fixpoint takes over the predicate of its body.
EnterPlain ==
  /\ Enters /\ ~Cached /\ ~isFixpoint(d0)
  /\ Call(body(t0), AtNext, memo)
  /\ UNCHANGED <<session, dgr, lazy, current, answer>>

FinishPlain ==
  /\ At(1) /\ op(t0) = "fundef" /\ ~isFixpoint(d0)
  /\ LeaveFunDef(With(Without(memo, {body(t0)}), t0, memo[body(t0)]))
  /\ UNCHANGED <<prog, flags, scc, query, asked, dgr, lazy, current, answer>>

\* Mutant: the bounds are swapped.
EnterFixpoint_swapped ==
  /\ Enters /\ ~Cached /\ isFixpoint(d0)
  /\ LET p == IF prog[d0].kind = "mu" THEN Points ELSE {}
     IN Call(body(t0), [AtNext EXCEPT !.last = p, !.outer = current],
             reset_dependencies(With(memo, t0, p), d0))
  /\ current' = d0
  /\ UNCHANGED <<session, dgr, lazy, answer>>

\* A fixpoint starts at true or false; its first round begins.
EnterFixpoint ==
  /\ Enters /\ ~Cached /\ isFixpoint(d0)
  /\ LET p == IF prog[d0].kind = "nu" THEN Points ELSE {}
     IN Call(body(t0), [AtNext EXCEPT !.last = p, !.outer = current],
             reset_dependencies(With(memo, t0, p), d0))
  /\ current' = d0
  /\ UNCHANGED <<session, dgr, lazy, answer>>

\* The approximation after a round: with frontier sets, the rounds after the
\* first have evaluated the body on what is new only.
Approximation ==
  LET p == memo[body(t0)]
  IN IF ~flags.frontier \/ top.first THEN p
     ELSE IF prog[d0].kind = "mu" THEN p \cup top.last ELSE p \cap top.last

\* Mutant: the loop ends at its first bound only.
finished_at_bound ==
  \/ top.first /\ <<t0, d0>> \notin dgr
  \/ prog[d0].kind = "nu" /\ Approximation = {}
  \/ prog[d0].kind = "mu" /\ Approximation = Points

finished ==
  \/ top.first /\ <<t0, d0>> \notin dgr
  \/ prog[d0].kind = "nu" /\ Approximation = {}
  \/ prog[d0].kind = "mu" /\ Approximation = Points
  \/ Approximation = top.last

AfterRound == At(1) /\ op(t0) = "fundef" /\ isFixpoint(d0)

\* What the next round is evaluated on: with frontier sets any predicate
\* simplify_assuming may return, which is free where the care set is false.
Frontiers(p) ==
  IF ~flags.frontier THEN {p}
  ELSE IF prog[d0].kind = "mu"
       THEN {(p \ top.last) \cup q : q \in {r \in Unary : r \subseteq top.last}}
       ELSE {(p \cup (Points \ top.last)) \ q : q \in {r \in Unary : r \cap top.last = {}}}

NextRound ==
  /\ AfterRound /\ ~finished
  /\ \E delta \in Frontiers(Approximation) :
       Call(body(t0), [top EXCEPT !.last = Approximation, !.first = FALSE],
            reset_dependencies(With(Without(memo, {body(t0)}), t0, delta), d0))
  /\ UNCHANGED <<session, dgr, lazy, current, answer>>

FinishFixpoint ==
  /\ AfterRound /\ finished
  /\ LeaveFunDef(reset_dependencies(With(Without(memo, {body(t0)}), t0, Approximation), d0))
  /\ current' = top.outer
  /\ UNCHANGED <<prog, flags, scc, query, asked, dgr, lazy, answer>>

-------------------------------------------------------------------------------
Terms ==
  \/ AlreadyEvaluated \/ eval_constant \/ FirstOperand \/ eval_not \/ eval_application
  \/ eval_quantor \/ SecondOperand \/ eval_binary \/ eval_quantor_special
  \/ ThirdOperand \/ eval_ite

FunDefs ==
  \/ FoundInCache \/ EnterPlain \/ FinishPlain
  \/ EnterFixpoint \/ NextRound \/ FinishFixpoint

Next ==
  \/ \E q \in Queries : Ask(q)
  \/ \E r \in Redefinitions : Redefine(r[1], r[2])
  \/ \E ds \in SUBSET DOMAIN cache : ResetCache(ds)
  \/ Terms \/ FunDefs \/ Answer

\* The program is one thread: while it evaluates, it goes on.
Spec == Init /\ [][Next]_vars /\ WF_vars(Terms \/ FunDefs \/ Answer)

-------------------------------------------------------------------------------
(***************************************************************************)
(* Properties                                                              *)
(***************************************************************************)
\* The state has its types; the predicates of definitions are about their
\* parameter only.
TypeOK ==
  /\ \A d \in Defs : prog[d].kind \in {"def", "mu", "nu"}
  /\ \A d \in Defs : scc[d] = NoScc \/ scc[d] \subseteq Defs
  /\ DOMAIN cache \subseteq Defs
  /\ \A d \in DOMAIN cache : cache[d] \in Unary
  /\ \A n \in DOMAIN memo : memo[n] \in IF isFunDef(n) THEN Unary ELSE Predicates
  /\ \A e \in dgr : e[2] \in Defs
  /\ current \in Defs \cup {NoDef}
  /\ \A i \in DOMAIN stack : stack[i].at \in 0 .. 3 /\ stack[i].last \in Unary
  /\ answer.value \in Predicates

\* The places whose handler runs, and the definitions that are iterated.
Active == {stack[i].node : i \in {j \in DOMAIN stack : stack[j].at > 0}}
Open == {d \in Defs : <<d>> \in Active /\ isFixpoint(d)}

\* What a handler has computed and not yet used is still there when the calls
\* it makes return: approximations, first operands, and the second of ite.
HeldPredicatesStay ==
  \A i \in DOMAIN stack :
    LET n == stack[i].node
    IN /\ isFunDef(n) /\ n \in Active /\ isFixpoint(n[1]) => valid(n)
       /\ stack[i].at >= 2 => valid(n)
       /\ stack[i].at = 3 => valid(operand(n, 2))

\* With monotone bodies a least fixpoint is approached from below and a
\* greatest one from above, with frontier sets too.
RoundsMonotone ==
  [][AfterRound /\ ~finished =>
       IF prog[d0].kind = "mu" THEN top.last \subseteq stack'[2].last
       ELSE stack'[2].last \subseteq top.last]_vars

\* The iterations end: every term that is accepted is answered.
EveryQueryAnswered == answer = Asked ~> answer # Asked
===============================================================================
