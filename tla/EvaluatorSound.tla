---------------------------- MODULE EvaluatorSound ----------------------------
(***************************************************************************)
(* Why what the evaluator computes is what terms mean.  The meaning is a   *)
(* parameter here, of which only the equations that define it are used; in *)
(* every instance MeaningOf is Meaning, DefMeaningOf is DefMeaning.        *)
(***************************************************************************)
EXTENDS EvaluatorStack

CONSTANTS
  MeaningOf(_, _, _),     \* what a term of a program means in an environment
  DefMeaningOf(_, _, _),  \* what a definition stands for in it
  Depth(_, _, _),         \* how deep a term is when it is unfolded
  SettingsIn(_, _),       \* the settings that definitions are evaluated in
  LinearPrograms          \* programs that frontier sets are right for

-------------------------------------------------------------------------------
(***************************************************************************)
(* What is expected                                                        *)
(***************************************************************************)
Fixpoints(p) == {d \in Defs : p[d].kind \in {"mu", "nu"}}

\* The definitions that do not lead back to themselves unless through a fixpoint.
WellFounded(p) == UNION {X \in SUBSET Defs : Founded(p, X)}
Legal(p) == {t \in AllTerms : DefsIn(t) \subseteq WellFounded(p)}

\* An environment gives open definitions their approximations.
Environments(p) == UNION {[O -> Unary] : O \in SUBSET (Fixpoints(p) \cap WellFounded(p))}
Standing(p, d, e) == IF d \in DOMAIN e THEN e[d] ELSE DefMeaningOf(p, d, e)

\* What the body of d means when d stands for a.
Round(p, d, a, e) == MeaningOf(p, p[d].body, With(e, d, a))

\* The least and the greatest fixpoint of d's body, by Tarski's theorem.
LeastFixpoint(p, d, e) ==
  {w \in Points : \A a \in Unary : Round(p, d, a, e) \subseteq a => w \in a}
GreatestFixpoint(p, d, e) == UNION {a \in Unary : a \subseteq Round(p, d, a, e)}

\* The equations of Meaning and DefMeaning.
ASSUME MeaningAssumption ==
  \A p \in Programs : \A e \in Environments(p) :
    /\ \A t \in Legal(p) :
         LET arg(i) == MeaningOf(p, t.args[i], e)
         IN MeaningOf(p, t, e) =
              CASE t.op = "const" -> t.sym
                [] t.op = "app" -> apply(Standing(p, t.sym, e), t.at)
                [] t.op = "not" -> Points \ arg(1)
                [] t.op \in Binary -> binary(t.op, arg(1), arg(2))
                [] t.op \in Quantor -> quantify(t.op, arg(1))
                [] t.op = "ite" -> (arg(1) \cap arg(2)) \cup (arg(3) \ arg(1))
    /\ \A d \in WellFounded(p) \ DOMAIN e :
         DefMeaningOf(p, d, e) =
           CASE p[d].kind = "def" -> MeaningOf(p, p[d].body, e)
             [] p[d].kind = "mu" -> LeastFixpoint(p, d, e)
             [] p[d].kind = "nu" -> GreatestFixpoint(p, d, e)

\* Terms are finite, and definitions that are no fixpoints are not recursive.
ASSUME DepthAssumption ==
  \A p \in Programs : \A O \in SUBSET Fixpoints(p), t \in Legal(p) :
    /\ Depth(p, t, O) \in Nat
    /\ \A i \in DOMAIN t.args : Depth(p, t.args[i], O) < Depth(p, t, O)
    /\ t.op = "app" /\ t.sym \notin O =>
         Depth(p, p[t.sym].body, O \cup ({t.sym} \cap Fixpoints(p))) < Depth(p, t, O)

\* A fixpoint's body is monotone in the fixpoint.  The check of this is commented
\* out in prepare.cc.
ASSUME MonotoneAssumption ==
  \A p \in Programs : \A e \in Environments(p) :
    \A d \in (Fixpoints(p) \cap WellFounded(p)) \ DOMAIN e : \A a, b \in Unary :
      a \subseteq b => Round(p, d, a, e) \subseteq Round(p, d, b, e)

\* The bodies of linear programs distribute over unions, or intersections for nu.
ASSUME LinearAssumption ==
  /\ \A p \in LinearPrograms : \A e \in Environments(p) :
       \A d \in (Fixpoints(p) \cap WellFounded(p)) \ DOMAIN e : \A a, b \in Unary :
         IF p[d].kind = "mu" THEN Round(p, d, a \cup b, e) = Round(p, d, a, e) \cup Round(p, d, b, e)
         ELSE Round(p, d, a \cap b, e) = Round(p, d, a, e) \cap Round(p, d, b, e)
  /\ \A p \in LinearPrograms, r \in Redefinitions : [p EXCEPT ![r[1]].body = r[2]] \in LinearPrograms

\* From the definitions T, all paths that reach an open one (of O) reach one of D
\* first.
Cut(p, T, O, D) ==
  \E W \in SUBSET Defs :
    /\ W \cap O = {}
    /\ T \subseteq W \cup D
    /\ \A d \in W : DefsIn(p[d].body) \subseteq W \cup D

\* In every setting of a definition, open definitions included, the graph has
\* every open definition that a place of its body leads to.
SettingsFit(p, b, graph, places, settings) ==
  LET S(n) == successors(graph, n)
  IN /\ <<Query, {}>> \in settings
     /\ \A s \in settings, n \in places :
          ~isFunDef(n) /\ definition(n) = s[1] =>
            LET t == TermAt(b, n)
                O == s[2]
            IN /\ Cut(p, DefsIn(t), O, S(n) \cap O)
               /\ t.op = "app" /\ t.sym \notin O =>
                    /\ <<t.sym, O \cup ({t.sym} \cap Fixpoints(p))>> \in settings
                    /\ Cut(p, {t.sym}, O, S(<<t.sym>>) \cap O)

ASSUME SettingsAssumption ==
  \A p \in Programs, q \in Queries :
    LET b == BodiesIn(p, q)
        g == DependenciesOf(b)
    IN g.ok /\ q \in Legal(p) => SettingsFit(p, b, g.graph, PlacesOf(b), SettingsIn(p, q))

\* Frontier sets are used with linear programs only: "simplification for all
\* fixpoints" (configurator.cc) offers them for others too.
FrontiersFit == \A s \in Starts : s[2].frontier => s[1] \in LinearPrograms

-------------------------------------------------------------------------------
(***************************************************************************)
(* Properties                                                              *)
(***************************************************************************)
\* A kept predicate is what its term means when the open definitions that the
\* term depends on stand for their approximations: none is left from an earlier
\* round, from an outer fixpoint's earlier round, or from another setting
\* (reset_dependencies and reset, evalpred.cc, forget enough).
MemoSound ==
  \A n \in DOMAIN memo \ Active :
    LET env == [d \in Open \cap successors(dgr, n) |-> memo[<<d>>]]
    IN memo[n] = IF isFunDef(n) THEN DefMeaningOf(prog, definition(n), env)
                 ELSE MeaningOf(prog, Term(n), env)

\* An approximation never goes beyond the fixpoint that it approaches, in the
\* setting that the iteration runs in.
ApproximationsBounded ==
  \A i \in DOMAIN stack :
    LET n == stack[i].node
        d == definition(n)
        v == DefMeaningOf(prog, d, [c \in Open \cap Free(n) |-> memo[<<c>>]])
    IN isFunDef(n) /\ isFixpoint(d) /\ stack[i].at > 0 =>
         IF prog[d].kind = "mu" THEN stack[i].last \subseteq v ELSE v \subseteq stack[i].last

\* Terms are answered with what they mean.
Service == INSTANCE Answers

ImplementsAnswers == Service!Spec

\* A term is answered with what it means under the definitions entered last: a
\* definition that is "multiply defined" is refused (analyzer.cc), and frontier
\* sets are a "simplification for all fixpoints" (configurator.cc).
AnswersRight ==
  [][answer = Asked /\ answer' # Asked => answer' = Value(MeaningOf(prog, query, <<>>))]_vars

-------------------------------------------------------------------------------
(***************************************************************************)
(* The invariant                                                           *)
(***************************************************************************)
\* The approximations of the open definitions that place n depends on, but for
\* that of n itself.
Env(n) == [d \in Open \cap Free(n) |-> memo[<<d>>]]

\* What the i-th operand of the term at n has to be.
OperandMeans(n, i) ==
  LET arg == IF special(n) THEN child(child(n, 1), i) ELSE child(n, i)
  IN IF special(n) /\ i \in lazy[n] THEN Standing(prog, Term(arg).sym, Env(n))
     ELSE MeaningOf(prog, Term(arg), Env(n))

\* The approximation after a round that was evaluated to x, when it was a before.
After(f, d, a, x) ==
  IF ~flags.frontier \/ f.first THEN x
  ELSE IF prog[d].kind = "mu" THEN x \cup a ELSE x \cap a

\* Frame f holds what its first operand means, and an approximation that the body
\* does not lead out of its side of the fixpoint; what the round is evaluated on
\* leads to the same as the approximation.
HeldSound(f) == f.at >= 2 => memo[f.node] = OperandMeans(f.node, 1)
RoundSound(f) ==
  LET d == definition(f.node)
      round(a) == Round(prog, d, a, Env(f.node))
  IN isFunDef(f.node) /\ isFixpoint(d) /\ f.at > 0 =>
       /\ After(f, d, f.last, round(memo[f.node])) = round(f.last)
       /\ IF prog[d].kind = "mu"
          THEN f.last \subseteq round(f.last) /\ \A a \in Unary : round(a) \subseteq a => f.last \subseteq a
          ELSE round(f.last) \subseteq f.last /\ \A a \in Unary : a \subseteq round(a) => a \subseteq f.last

\* The definitions that are iterated below frame i, and at it.
OpenAt(s, i) ==
  {d \in Defs : isFixpoint(d) /\ \E j \in DOMAIN s : j >= i /\ s[j].node = <<d>> /\ s[j].at > 0}

\* A definition's body is evaluated in one of its settings.
QuerySettings == SettingsIn(prog, query)
InSetting(s, i) ==
  LET n == s[i].node
      d == definition(n)
  IN IF isFunDef(n) /\ s[i].at = 0
     THEN d \in OpenAt(s, i) \/ <<d, OpenAt(s, i) \cup ({d} \cap Fixpoints(prog))>> \in QuerySettings
     ELSE <<d, OpenAt(s, i)>> \in QuerySettings

FramesSound == \A i \in DOMAIN stack : HeldSound(stack[i]) /\ RoundSound(stack[i])
FramesSet == \A i \in DOMAIN stack : InSetting(stack, i)

\* A cached predicate is that of a definition with a component, whose body and
\* the bodies that it leads to are not entered again.
CacheSound ==
  answer # Rejected =>
    \A d \in DOMAIN cache : d \in Known(scc) /\ cache[d] = DefMeaningOf(prog, d, <<>>)

SettingsKept ==
  answer = Asked => SettingsFit(prog, Bodies(query), dgr, Places, QuerySettings)

FrontierKept == flags.frontier => prog \in LinearPrograms

Sound ==
  /\ SettingsKept /\ FrontierKept /\ CacheSound /\ MemoSound
  /\ FramesSound /\ FramesSet
===============================================================================
