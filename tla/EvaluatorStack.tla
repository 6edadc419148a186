---------------------------- MODULE EvaluatorStack ----------------------------
(***************************************************************************)
(* Why the evaluator's handlers do not forget what they still need: what   *)
(* Evaluator expects of the preparation and of the terms, and what the     *)
(* stack of its handlers looks like at any time.                           *)
(***************************************************************************)
EXTENDS Evaluator

CONSTANTS
  Programs,        \* the programs that starts and redefinitions lead to
  AllTerms,        \* the bodies and queries, and their subterms
  ParameterTerms,  \* those among them that are about the parameter x alone
  DefsIn(_),       \* the definitions a term applies, at least
  PlacesOf(_)      \* the places that the evaluation of the query leads to

BodiesIn(p, q) == [d \in Defs \cup {Query} |-> IF d = Query THEN q ELSE p[d].body]

-------------------------------------------------------------------------------
(***************************************************************************)
(* What is expected                                                        *)
(***************************************************************************)
\* Terms have the operands of their class, and are closed under subterms.
ASSUME TermsAssumption ==
  \A t \in AllTerms :
    /\ t.op \in {"const", "app", "not", "ite"} \cup Binary \cup Quantor
    /\ t.op = "const" => DOMAIN t.args = {} /\ t.sym \in Predicates
    /\ t.op = "app" => DOMAIN t.args = {} /\ t.sym \in DefsIn(t)
    /\ t.op \in {"not"} \cup Quantor => DOMAIN t.args = 1 .. 1
    /\ t.op \in Binary => DOMAIN t.args = 1 .. 2
    /\ t.op = "ite" => DOMAIN t.args = 1 .. 3
    /\ DefsIn(t) \subseteq Defs
    /\ \A i \in DOMAIN t.args : t.args[i] \in AllTerms /\ DefsIn(t.args[i]) \subseteq DefsIn(t)

\* Only a quantor takes away the second variable.
ASSUME ParameterTermsAssumption ==
  \A t \in ParameterTerms :
    /\ t \in AllTerms
    /\ t.op = "const" => t.sym \in Unary
    /\ t.op = "app" => t.at = 1
    /\ t.op \notin Quantor => \A i \in DOMAIN t.args : t.args[i] \in ParameterTerms

ASSUME ProgramsAssumption ==
  /\ Query \notin Defs
  /\ Queries \subseteq AllTerms
  /\ Programs \subseteq [Defs -> [kind : {"def", "mu", "nu"}, body : ParameterTerms]]
  /\ \A s \in Starts : s[1] \in Programs
  /\ \A p \in Programs, r \in Redefinitions :
       r[1] \in Defs /\ [p EXCEPT ![r[1]].body = r[2]] \in Programs

\* A term depends on what its subterms depend on; an application, unless its
\* definition is open, on what the definition depends on but for itself.
GraphFits(b, graph, places) ==
  LET S(n) == successors(graph, n)
  IN /\ \A e \in graph : e = <<e[1], e[2]>>
     /\ <<Query, 1>> \in places /\ S(<<Query, 1>>) = {}
     /\ \A n \in places :
          /\ n \in Seq(Nat \cup Defs \cup {Query}) /\ Len(n) > 0
          /\ isFunDef(n) =>
               definition(n) \in Defs /\ body(n) \in places /\ S(body(n)) \subseteq S(n)
          /\ ~isFunDef(n) =>
               LET t == TermAt(b, n)
               IN /\ t \in AllTerms
                  /\ t.op = "app" =>
                       /\ <<t.sym>> \in places
                       /\ S(<<t.sym>>) \ {t.sym} \subseteq S(n) \/ t.sym \in S(n)
                  /\ \A i \in DOMAIN t.args :
                       child(n, i) \in places /\ S(child(n, i)) \subseteq S(n)

ASSUME DependenciesAssumption ==
  \A p \in Programs, q \in Queries :
    LET g == DependenciesOf(BodiesIn(p, q))
    IN /\ \A e \in g.graph : e[2] \in Defs
       /\ g.ok => GraphFits(BodiesIn(p, q), g.graph, PlacesOf(BodiesIn(p, q)))

\* The definitions with a component use only such, and one that is no fixpoint
\* does not lead back to itself.
Known(c) == {d \in Defs : c[d] # NoScc}
ClosedIn(p, X) == \A d \in X : DefsIn(p[d].body) \subseteq X
Founded(p, X) ==
  /\ ClosedIn(p, X)
  /\ \A d \in X :
       p[d].kind = "def" =>
         \E Y \in SUBSET Defs : d \notin Y /\ DefsIn(p[d].body) \subseteq Y /\ ClosedIn(p, Y)
SccFits(p, c) == Founded(p, Known(c))

Components == [Defs -> (SUBSET Defs) \cup {NoScc}]

ASSUME SccAssumption ==
  \A p \in Programs, q \in Queries, c \in Components :
    LET s == SccOf(p, BodiesIn(p, q), c)
    IN /\ s.scc \in Components
       /\ SccFits(p, c) /\ s.valid =>
            SccFits(p, s.scc) /\ DefsIn(q) \cup Known(c) \subseteq Known(s.scc)

-------------------------------------------------------------------------------
(***************************************************************************)
(* The stack s of the handlers' frames, where lz is what the quantors have *)
(* decided to substitute lazily.                                           *)
(***************************************************************************)
Places == PlacesOf(Bodies(query))

FrameSet ==
  [node : Places, at : 0 .. 3, last : Unary, first : BOOLEAN, outer : Defs \cup {NoDef}]

\* What the handler of frame f has called last.
Callee(lz, f) ==
  LET arg == child(child(f.node, 1), f.at)
  IN IF isFunDef(f.node) THEN body(f.node)
     ELSE IF special(f.node) THEN (IF f.at \in lz[f.node] THEN <<Term(arg).sym>> ELSE arg)
     ELSE operands(Term(f.node), f.node)[f.at]

\* How often the handler at place n calls.
Calls(n) ==
  CASE op(n) = "const" -> 0
    [] op(n) \in {"fundef", "not", "app"} -> 1
    [] op(n) \in Binary -> 2
    [] op(n) \in Quantor -> IF special(n) THEN 2 ELSE 1
    [] op(n) = "ite" -> 3

\* A quantor that called for its connective has settled on its operands.
Settled(lz, f) ==
  special(f.node) /\ f.at > 0 =>
    /\ f.node \in DOMAIN lz
    /\ \A k \in lz[f.node] : op(child(child(f.node, 1), k)) = "app"

\* Each frame is called by the next; only the innermost has not called yet.
FramesCalled(s, lz) ==
  /\ s # <<>> => s[Len(s)].node = <<Query, 1>>
  /\ \A i \in DOMAIN s :
       /\ s[i].at <= Calls(s[i].node)
       /\ Settled(lz, s[i])
       /\ i > 1 => s[i].at > 0 /\ s[i - 1].node = Callee(lz, s[i])

\* A place in a body is called from the definition, and a place above another
\* in one body is nearer to the leaves.
BodiesNest(s) ==
  \A i \in DOMAIN s :
    LET n == s[i].node
    IN ~isFunDef(n) =>
         /\ definition(n) = Query \/ \E j \in DOMAIN s : i < j /\ s[j].node = <<definition(n)>>
         /\ \A j \in DOMAIN s :
              i < j /\ ~isFunDef(s[j].node) /\ definition(s[j].node) = definition(n)
                => Len(s[j].node) < Len(n)

\* The evaluation of a definition does not come back to it, unless to find it
\* valid.
OpenOnce(s) ==
  \A i, j \in DOMAIN s : i < j /\ isFunDef(s[j].node) /\ s[i].node = s[j].node => s[i].at = 0

\* The definitions at place n: itself, or those applied in its term.
DefsAt(n) == IF isFunDef(n) THEN {definition(n)} ELSE DefsIn(Term(n))

\* Above a definition are only those that it leads to.
FramesLead(s) ==
  \A i, j \in DOMAIN s :
    i < j /\ isFunDef(s[j].node) =>
      \A X \in SUBSET Defs :
        DefsIn(prog[definition(s[j].node)].body) \subseteq X /\ ClosedIn(prog, X)
          => DefsAt(s[i].node) \subseteq X

FramesKnown(s) == \A i \in DOMAIN s : DefsAt(s[i].node) \subseteq Known(scc)

\* What place n depends on when it is evaluated.
Free(n) == successors(dgr, n) \ (IF isFunDef(n) THEN {definition(n)} ELSE {})

\* A place depends only on definitions whose evaluation called for it.
FreeIsOpen(s) ==
  \A i \in DOMAIN s : \A d \in Free(s[i].node) :
    \E j \in DOMAIN s : i < j /\ s[j].node = <<d>>

StackShape(s, lz) ==
  /\ s \in Seq(FrameSet)
  /\ FramesCalled(s, lz) /\ BodiesNest(s) /\ OpenOnce(s)
  /\ FramesLead(s) /\ FramesKnown(s) /\ FreeIsOpen(s)

\* A term with "`...' used in recursive definition" is refused (evalscc.cc), so
\* the evaluation of a definition never comes back to that definition.
RecursionRefused == OpenOnce(stack)

\* Only definitions that are applied are left to relprod.
LazyApplied == \A n \in DOMAIN lazy : \A k \in lazy[n] : op(child(child(n, 1), k)) = "app"

\* What the innermost handler has called last has its predicate.
CalleeKept == Running /\ top.at > 0 => valid(Callee(lazy, top))

\* A quantor in the middle holds its operand's predicate; no other kept
\* predicate of a term about the parameter depends on anything else.
MemoTyped ==
  \A n \in DOMAIN memo :
    /\ memo[n] \in Predicates
    /\ isFunDef(n) => memo[n] \in Unary
    /\ ~isFunDef(n) /\ Term(n) \in ParameterTerms =>
         \/ memo[n] \in Unary
         \/ \E i \in DOMAIN stack : stack[i].node = n /\ stack[i].at >= 2 /\ special(n)

RestTyped ==
  /\ prog \in Programs /\ flags \in FlagRecords /\ scc \in Components
  /\ DOMAIN cache \subseteq Defs /\ \A d \in DOMAIN cache : cache[d] \in Unary
  /\ \A e \in dgr : e[2] \in Defs
  /\ current \in Defs \cup {NoDef}
  /\ answer.value \in Predicates

\* Between the question and its answer.
Evaluating ==
  IF answer = Asked
  THEN /\ query \in Queries
       /\ GraphFits(Bodies(query), dgr, Places)
       /\ Idle => valid(<<Query, 1>>)
  ELSE Idle /\ memo = <<>> /\ dgr = {} /\ lazy = <<>>

\* The components of a term that was not accepted are not to be relied on.
ComponentsFit == answer = Rejected \/ SccFits(prog, scc)

Inv ==
  /\ RestTyped /\ Evaluating /\ ComponentsFit /\ StackShape(stack, lazy)
  /\ LazyApplied /\ CalleeKept /\ HeldPredicatesStay /\ MemoTyped
===============================================================================
