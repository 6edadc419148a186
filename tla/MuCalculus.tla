------------------------------ MODULE MuCalculus ------------------------------
(***************************************************************************)
(* The terms of the mu-calculus that mucke evaluates, the places in them,  *)
(* and their predicates.                                                   *)
(*                                                                         *)
(* A term is a record: op names its class, args its subterms.  An          *)
(* application D(x) or D(y) names the definition D in sym and the position *)
(* of its variable in at.  Variables, constants and comparisons are the    *)
(* class "const": sym is the predicate they stand for.  A predicate is a   *)
(* set of valuations of two variables <<x, y>>; definitions have one       *)
(* parameter, x, and a quantor binds y.                                    *)
(*                                                                         *)
(* Terms are trees: two places never share a subterm, as ~BinaryBooleanTerm*)
(* and its kin delete their subterms.  Only definitions are shared.        *)
(***************************************************************************)
EXTENDS Naturals, Sequences

CONSTANTS
  Values,     \* the values of a variable
  Defs,       \* the definitions
  Query       \* names the place of the term that is evaluated

Points == Values \X Values
Predicates == SUBSET Points
Everywhere(xs) == xs \X Values        \* a predicate of x alone
Unary == {Everywhere(xs) : xs \in SUBSET Values}

Const(p)   == [op |-> "const", args |-> <<>>, sym |-> p]
App(d, at) == [op |-> "app", args |-> <<>>, sym |-> d, at |-> at]
Not(t)     == [op |-> "not", args |-> <<t>>]
And(t, u)  == [op |-> "and", args |-> <<t, u>>]
Or(t, u)   == [op |-> "or", args |-> <<t, u>>]
Implies(t, u) == [op |-> "implies", args |-> <<t, u>>]
Equiv(t, u)    == [op |-> "equiv", args |-> <<t, u>>]
NotEquiv(t, u) == [op |-> "notequiv", args |-> <<t, u>>]
Ite(c, t, u)  == [op |-> "ite", args |-> <<c, t, u>>]
Exists(t)  == [op |-> "exists", args |-> <<t>>]
Forall(t)  == [op |-> "forall", args |-> <<t>>]

Binary  == {"and", "or", "implies", "equiv", "notequiv"}
Quantor == {"exists", "forall"}

\* What the methods of class Predicate compute.
apply(p, at) == IF at = 1 THEN p ELSE {w \in Points : <<w[2], w[1]>> \in p}
binary(op, p, q) ==
  CASE op = "and"     -> p \cap q
    [] op = "or"      -> p \cup q
    [] op = "implies" -> (Points \ p) \cup q
    [] op = "equiv"    -> Points \ ((p \ q) \cup (q \ p))
    [] op = "notequiv" -> (p \ q) \cup (q \ p)
exists(p) == {w \in Points : \E y \in Values : <<w[1], y>> \in p}
forall(p) == {w \in Points : \A y \in Values : <<w[1], y>> \in p}
quantify(op, p) == IF op = "exists" THEN exists(p) ELSE forall(p)

-------------------------------------------------------------------------------
(***************************************************************************)
(* A place is <<d>> for the definition d itself, <<d, 1>> for its body and *)
(* <<d, 1, i, j ...>> for the subterms of its body; <<Query, 1>> is the    *)
(* term that is evaluated.                                                 *)
(***************************************************************************)
isFunDef(n) == Len(n) = 1
definition(n) == n[1]
body(n) == Append(n, 1)
child(n, i) == Append(n, i)

\* The term at place n, where bodies[d] is the body of d.
TermAt(bodies, n) ==
  LET at[i \in 2 .. Len(n)] ==
        IF i = 2 THEN bodies[definition(n)] ELSE at[i - 1].args[n[i]]
  IN at[Len(n)]

\* The places that the evaluation of t at place n may lead to first.
operands(t, n) ==
  IF t.op = "app" THEN <<<<t.sym>>>> ELSE [i \in DOMAIN t.args |-> child(n, i)]

-------------------------------------------------------------------------------
(***************************************************************************)
(* What the preparation of a term attaches to definitions and to places: a *)
(* component, and the open definitions that the place depends on, as a set *)
(* of edges <<place, definition>>.                                         *)
(***************************************************************************)
NoScc == {Query}                       \* no set of definitions

successors(graph, n) == {e[2] : e \in {f \in graph : f[1] = n}}
predecessors(graph, d) == {e[1] : e \in {f \in graph : f[2] = d}}
===============================================================================
