------------------------------ MODULE MCEvaluator ------------------------------
(* Small programs for Evaluator: every one is monotone, and those evaluated    *)
(* with frontier sets distribute over unions (mu) and intersections (nu).      *)
EXTENDS EvaluatorMeaning

CONSTANTS A, B, C

MCDefs == {A, B, C}

\* The transitions 1 -> 2 -> 3 -> 3, and 2 -> 1.
R == Const({<<1, 2>>, <<2, 3>>, <<3, 3>>, <<2, 1>>})
P(xs) == Const(Everywhere(xs))
EX(t) == Exists(And(R, t))
AX(t) == Forall(Implies(R, t))
Mu(t) == [kind |-> "mu", body |-> t]
Nu(t) == [kind |-> "nu", body |-> t]
Def(t) == [kind |-> "def", body |-> t]
Program(a, b, c) == A :> a @@ B :> b @@ C :> c

\* Reachability, safety, and a definition that uses both.
Simple == Program(
  Mu(Or(P({3}), EX(App(A, 2)))),
  Nu(And(P({2, 3}), AX(App(B, 2)))),
  Def(Ite(P({1}), App(A, 1), App(B, 1))))

\* Infinitely often, its inner least fixpoint, and a closed use of it.
Alternating == Program(
  Nu(Exists(And(App(B, 2), R))),
  Mu(Or(And(P({1}), App(A, 1)), EX(App(B, 2)))),
  Mu(Or(App(A, 1), EX(App(C, 2)))))

\* Negations that cancel out, and a closed definition inside a fixpoint.
Negated == Program(
  Mu(Not(And(P({1, 2}), Not(App(B, 1))))),
  Mu(Not(Forall(Or(Not(R), Not(App(A, 2)))))),
  Nu(And(App(B, 1), Forall(Or(Const({<<1, 2>>, <<3, 2>>}), App(C, 2))))))

\* C depends on A only, and is used by B, which depends on A as well.
Nested == Program(
  Nu(And(P({1, 2, 3}), EX(App(B, 2)))),
  Mu(Or(App(C, 1), EX(App(B, 2)))),
  Mu(Or(And(P({2}), App(A, 1)), EX(App(C, 2)))))

\* Three levels: the innermost depends on all of them.
Deep == Program(
  Nu(EX(App(B, 2))),
  Mu(Or(App(C, 1), EX(App(B, 2)))),
  Nu(And(Or(App(A, 1), P({1})), Or(EX(App(C, 2)), App(B, 1)))))

\* Nested least fixpoints whose bodies distribute over unions.
Distributive == Program(
  Mu(Or(P({3}), App(B, 1))),
  Mu(Or(EX(App(A, 2)), EX(App(B, 2)))),
  Nu(And(P({1, 2}), AX(App(C, 2)))))

\* A least fixpoint over a universal quantor: 1 joins when both 2 and 3 are in.
Universal == Program(
  Mu(Or(P({3}), Forall(Implies(Const({<<1, 2>>, <<1, 3>>, <<2, 3>>, <<3, 3>>}), App(A, 2))))),
  Nu(App(B, 1)),
  Def(P({1})))

\* Refused: C is open around A in one setting and not in another.
Improper == Program(
  Mu(Or(App(C, 1), P({3}))),
  Nu(Ite(P({1, 2}), EX(App(B, 2)), P({2}))),
  Mu(Or(App(A, 1), Ite(P({1}), EX(App(C, 2)), App(A, 1)))))

\* Refused: B is recursive, directly or through A, and no fixpoint.
Recursion == Program(
  Mu(Or(P({3}), App(B, 1))),
  Def(EX(App(A, 2))),
  Def(EX(App(C, 2))))

\* A fixpoint that does not refer to itself.
Constant == Program(
  Mu(And(P({1, 2}), App(B, 1))),
  Nu(Exists(P({2}))),
  Def(NotEquiv(Equiv(App(A, 1), App(B, 1)), Implies(P({2, 3}), App(A, 1)))))

Flags(frontier, relprod, lz, resetting) ==
  [frontier |-> frontier, relprod |-> relprod, lazy |-> lz, resetting |-> resetting]

Frontier == Flags(TRUE, TRUE, "dependent", "never")

MCStarts ==
  ({Simple, Alternating, Negated, Nested, Deep, Universal,
     Improper, Recursion, Constant} \X
     {Flags(FALSE, TRUE, "dependent", "possible"), Flags(FALSE, FALSE, "off", "never"),
      Flags(FALSE, TRUE, "always", "always")})
  \cup ({Simple, Distributive} \X {Frontier})

MCFrontierStarts == {Universal} \X {Frontier}

MCQueries == {App(A, 1), Not(App(B, 1)), And(Exists(App(A, 2)), App(C, 1))}
MCRedefinitions == {<<C, P({1})>>}

\* What EvaluatorStack names of the programs.
WithRedefinitions(ps) == ps \cup {[p EXCEPT ![r[1]].body = r[2]] : p \in ps, r \in MCRedefinitions}
MCPrograms == WithRedefinitions({s[1] : s \in MCStarts \cup MCFrontierStarts})

RECURSIVE Subterms(_)
Subterms(t) == {t} \cup UNION {Subterms(t.args[i]) : i \in DOMAIN t.args}
MCTerms == UNION {Subterms(t) : t \in MCQueries \cup {p[d].body : p \in MCPrograms, d \in MCDefs}}

RECURSIVE AboutParameter(_)
AboutParameter(t) ==
  CASE t.op = "const" -> t.sym \in Unary
    [] t.op = "app" -> t.at = 1
    [] t.op \in Quantor -> TRUE
    [] OTHER -> \A i \in DOMAIN t.args : AboutParameter(t.args[i])
MCParameterTerms == {t \in MCTerms : AboutParameter(t)}

\* The places that are found from those in new.
RECURSIVE Found(_, _)
Found(b, new) ==
  LET called(n) == IF isFunDef(n) THEN {body(n)}
                   ELSE LET ns == operands(TermAt(b, n), n) IN {ns[i] : i \in DOMAIN ns}
      next == UNION {called(n) : n \in new} \cup new
  IN IF next = new THEN new ELSE Found(b, next)
MCPlacesOf(b) == Found(b, {<<Query, 1>>})

\* What EvaluatorSound names of them.
RECURSIVE MCDepth(_, _, _)
MCDepth(p, t, O) ==
  LET below == IF t.op # "app" THEN {MCDepth(p, t.args[i], O) : i \in DOMAIN t.args}
               ELSE IF t.sym \in O THEN {}
               ELSE {MCDepth(p, p[t.sym].body, O \cup ({t.sym} \cap Fixpoints(p)))}
      deepest == CHOOSE m \in below \cup {0} : \A k \in below : k <= m
  IN deepest + 1
MCSettingsIn(p, q) ==
  {<<Query, {}>>} \cup {<<s[1], (s[2] \cup {s[1]}) \cap Fixpoints(p)>> : s \in SettingsOf(p, q)}

MCLinearPrograms == WithRedefinitions({Simple, Distributive})

\* Users of MCStarts choose frontier sets for linear programs only.
ASSUME MCFrontiersFit == \A s \in MCStarts : s[2].frontier => s[1] \in MCLinearPrograms
================================================================================
