------------------------------ MODULE BDDclient ------------------------------
(***************************************************************************)
(* A client of the BDD operations, as the wrapper classes of simplebman.cc *)
(* are: it holds one BDD, calls an operation on it and on others, and may  *)
(* keep the result for the next call.  Every result is compared with what  *)
(* the operation means for Boolean functions, given by their satisfying    *)
(* valuations.                                                             *)
(***************************************************************************)
EXTENDS BDDfunctions

CONSTANTS
  Operands,   \* the other BDDs that the client uses
  Subs,       \* its substitutions
  Domains     \* the sets of variables it quantifies over

ASSUME OperandsAssumption == Operands \subseteq BDD
ASSUME SubsAssumption == Subs \subseteq Assocs
ASSUME DomainsAssumption == Domains \subseteq SUBSET Vars

VARIABLES
  acc,        \* the BDD in the client's hands
  call,       \* the operation called last and its operands
  res         \* what it returned
vars == <<acc, call, res>>

-------------------------------------------------------------------------------
NoCall == [op |-> "none"]

Init ==
  /\ acc = True
  /\ call = NoCall
  /\ res = True

Called(c, r) ==
  /\ call = NoCall
  /\ call' = c
  /\ res' = r
  /\ UNCHANGED acc

Connective(op, a, b) ==
  CASE op = "and"        -> andop(a, b)
    [] op = "or"         -> orop(a, b)
    [] op = "equiv"      -> equiv(a, b)
    [] op = "notequiv"   -> notequiv(a, b)
    [] op = "implies"    -> implies(a, b)
    [] op = "notimplies" -> notimplies(a, b)

CallConnective ==
  \E op \in {"and", "or", "equiv", "notequiv", "implies", "notimplies"}, b \in Operands :
    Called([op |-> op, b |-> b], Connective(op, acc, b))

CallNot == Called([op |-> "not"], notop(acc))

CallIte ==
  \E b, c \in Operands : Called([op |-> "ite", b |-> b, c |-> c], ite(acc, b, c))

CallSimplify ==
  \E b \in Operands :
    \/ Called([op |-> "simplify", b |-> b], simplify_assuming(acc, b))
    \/ Called([op |-> "cofactor", b |-> b], cofactor(acc, b))

OneVariable(op, a, i) ==
  CASE op = "restrict0" -> restrict0(a, i)
    [] op = "restrict1" -> restrict1(a, i)
    [] op = "existsVar" -> existsVar(a, i)
    [] op = "forallVar" -> forallVar(a, i)

CallOneVariable ==
  \E op \in {"restrict0", "restrict1", "existsVar", "forallVar"}, i \in Vars :
    Called([op |-> op, i |-> i], OneVariable(op, acc, i))

Quantor(op, a, b, x) ==
  CASE op = "exists"           -> exists(a, x)
    [] op = "forall"           -> forall(a, x)
    [] op = "notExists"        -> notExists(a, x)
    [] op = "relProd"          -> relProd(a, b, x)
    [] op = "orExists"         -> orExists(a, b, x)
    [] op = "impliesExists"    -> impliesExists(a, b, x)
    [] op = "notimpliesExists" -> notimpliesExists(a, b, x)
    [] op = "forallImplies"    -> forallImplies(a, b, x)
    [] op = "forallOr"         -> forallOr(a, b, x)

CallQuantor ==
  \E op \in {"exists", "forall", "notExists"}, xs \in Domains :
    Called([op |-> op, b |-> True, xs |-> xs], Quantor(op, acc, True, Cube(xs)))

CallSpecialQuantor ==
  \E op \in {"relProd", "orExists", "impliesExists", "notimpliesExists",
             "forallImplies", "forallOr"}, b \in Operands, xs \in Domains :
    Called([op |-> op, b |-> b, xs |-> xs], Quantor(op, acc, b, Cube(xs)))

CallIteExists ==
  \E b, c \in Operands, xs \in Domains :
    Called([op |-> "iteExists", b |-> b, c |-> c, xs |-> xs],
           iteExists(acc, b, c, Cube(xs)))

CallCompose ==
  \E s \in Subs : Called([op |-> "compose", s |-> s], compose(acc, s))

CallComposeRelProd ==
  \E b \in Operands, xs \in Domains, s \in Subs :
    Called([op |-> "composeRelProd", b |-> b, xs |-> xs, s |-> s],
           composeRelProd(b, acc, Cube(xs), s))

CallComposeForallImplies ==
  \E b \in Operands, xs \in Domains, s \in Subs :
    Called([op |-> "composeForallImplies", b |-> b, xs |-> xs, s |-> s],
           composeForallImplies(b, acc, Cube(xs), s))

CallOnecube ==
  \E xs \in SUBSET Vars :
    /\ Support(acc) \subseteq xs
    /\ Called([op |-> "onecube", xs |-> xs], onecube(acc, Cube(xs)))

CallExtract == Called([op |-> "extract"], extract(acc))

\* The result becomes the operand of the next calls.
Keep ==
  /\ call # NoCall
  /\ acc' = res
  /\ call' = NoCall
  /\ res' = True

Next ==
  \/ CallConnective \/ CallNot \/ CallIte \/ CallSimplify
  \/ CallOneVariable \/ CallQuantor \/ CallSpecialQuantor \/ CallIteExists
  \/ CallCompose \/ CallComposeRelProd \/ CallComposeForallImplies
  \/ CallOnecube \/ CallExtract
  \/ Keep

Spec == Init /\ [][Next]_vars

-------------------------------------------------------------------------------
\* Every operation returns an ordered BDD without redundant tests, which is the
\* only one of its function.  find does
\* not look at the order: each caller must pass a variable above both children,
\* which after a substitution is not the variable of the node it came from.
ResultReduced == res \in BDD /\ acc \in BDD

ConnectiveSat(op, A, B) ==
  CASE op = "and"        -> A \cap B
    [] op = "or"         -> A \cup B
    [] op = "equiv"      -> Valuations \ ((A \ B) \cup (B \ A))
    [] op = "notequiv"   -> (A \ B) \cup (B \ A)
    [] op = "implies"    -> Valuations \ (A \ B)
    [] op = "notimplies" -> A \ B

\* The connectives, negation and ite compute their truth tables, whichever of
\* their short cuts they take.
ConnectiveMeaning ==
  /\ call.op \in {"and", "or", "equiv", "notequiv", "implies", "notimplies"} =>
       Sat(res) = ConnectiveSat(call.op, Sat(acc), Sat(call.b))
  /\ call.op = "not" => Sat(res) = Valuations \ Sat(acc)
  /\ call.op = "ite" =>
       Sat(res) = (Sat(acc) \cap Sat(call.b)) \cup (Sat(call.c) \ Sat(acc))

\* simplify_assuming and cofactor agree with their first operand wherever the
\* second one holds, and simplify_assuming brings in no variable of the latter.
DontCareMeaning ==
  /\ call.op \in {"simplify", "cofactor"} =>
       Sat(res) \cap Sat(call.b) = Sat(acc) \cap Sat(call.b)
  /\ call.op = "simplify" => Support(res) \subseteq Support(acc)

QuantorSat(op, A, B, xs) ==
  CASE op = "exists"           -> ExistsSat(A, xs)
    [] op = "forall"           -> ForallSat(A, xs)
    [] op = "notExists"        -> ExistsSat(Valuations \ A, xs)
    [] op = "relProd"          -> ExistsSat(A \cap B, xs)
    [] op = "orExists"         -> ExistsSat(A \cup B, xs)
    [] op = "impliesExists"    -> ExistsSat(Valuations \ (A \ B), xs)
    [] op = "notimpliesExists" -> ExistsSat(A \ B, xs)
    [] op = "forallImplies"    -> ForallSat(Valuations \ (A \ B), xs)
    [] op = "forallOr"         -> ForallSat(A \cup B, xs)

Quantors == {"exists", "forall", "notExists", "relProd", "orExists", "impliesExists",
             "notimpliesExists", "forallImplies", "forallOr"}

\* A quantifier merged with a connective is the quantifier of the connective,
\* although the recursion drops parts of the set of variables on the way.
QuantorMeaning ==
  /\ call.op \in Quantors =>
       Sat(res) = QuantorSat(call.op, Sat(acc), Sat(call.b), call.xs)
  /\ call.op = "iteExists" =>
       Sat(res) = ExistsSat((Sat(acc) \cap Sat(call.b)) \cup (Sat(call.c) \ Sat(acc)),
                            call.xs)
  /\ call.op \in {"restrict0", "restrict1"} =>
       Sat(res) = {v \in Valuations :
                     [v EXCEPT ![call.i] = (call.op = "restrict1")] \in Sat(acc)}
  /\ call.op = "existsVar" => Sat(res) = ExistsSat(Sat(acc), {call.i})
  /\ call.op = "forallVar" => Sat(res) = ForallSat(Sat(acc), {call.i})

\* compose evaluates its operand under the images of all variables at once,
\* for every substitution by variables and constants.
ComposeMeaning ==
  call.op = "compose" => Sat(res) = ComposeSat(acc, call.s)

ComposeQuantorSat(op, A, B, xs) ==
  IF op = "composeRelProd"
  THEN ExistsSat(A \cap B, xs)
  ELSE ForallSat(Valuations \ (A \ B), xs)

ComposeQuantorHolds ==
  Sat(res) = ComposeQuantorSat(call.op, Sat(call.b), ComposeSat(acc, call.s), call.xs)

\* A substitution done on the fly inside a quantifier gives what substituting
\* first gives, when it keeps the variables of its operand apart: images in the
\* quantified set, images above or below the other operand's variables.
LazyComposeMeaning ==
  call.op \in {"composeRelProd", "composeForallImplies"} =>
    (Injective(acc, call.s) => ComposeQuantorHolds)

\* extract returns one path to True; onecube one assignment to all variables of
\* the set that satisfies the operand, unless there is none.
CubeMeaning ==
  /\ call.op = "extract" =>
       Sat(res) \subseteq Sat(acc) /\ (Sat(acc) # {} => Sat(res) # {})
  /\ call.op = "onecube" /\ acc # False =>
       \E w \in Sat(acc) :
         Sat(res) = {v \in Valuations : \A i \in call.xs : v[i] = w[i]}

\* The assertion of _composeExists (tmp2 == res, the substituted operand with
\* the quantifiers applied): composeRelProd calls it at once when its first
\* operand is True.
ComposeExistsAssert ==
  call.op = "composeRelProd" /\ call.b = True /\ isVarSub(call.s) => ComposeQuantorHolds

\* The assertion of cITEexists (tmp3 == res), which composeRelProd calls for
\* substitutions that have constants.
CITEexistsAssert ==
  call.op = "composeRelProd" /\ ~ isVarSub(call.s) => ComposeQuantorHolds

===============================================================================
