------------------------------ MODULE Predicates ------------------------------
(***************************************************************************)
(* Predicates: Boolean functions of the codes of values, as the handlers   *)
(* of EvaluatorPredicate make them with Predicate and                      *)
(* BoolePredicateManager.  A type whose size is no power of two has codes  *)
(* that stand for no value.  rangify cuts them off, but only from a        *)
(* predicate that knows its allocation, and the result of a quantor or a   *)
(* substitution does not know it yet.                                      *)
(*                                                                         *)
(* A predicate is the set of the codings of all variables of which it is   *)
(* true (what the BDD operations do to these sets is checked in            *)
(* BDDclient), with the variables of its allocation as its scope.  A       *)
(* variable here is one of basic type: a component of one of the program's *)
(* variables.  It has one name in all scopes, so that the substitution     *)
(* from the allocation of a quantor to the outer one changes nothing but   *)
(* the scope.                                                              *)
(***************************************************************************)
EXTENDS TypeEncoding

CONSTANTS
  Variables,
  sizes,       \* how many values the type of each variable has
  Literals,    \* the numbers that terms name
  Slots        \* where predicates are held: the states of the evaluator

code == [i \in Variables |-> 0 .. codes(sizes[i]) - 1]

\* The codes that stand for values.
value == [i \in Variables |-> Valid(sizes[i])]

\* What a term may name where the type of i is expected.
Numbers(i) == Literals \cap (first .. first + sizes[i] - 1)

\* Types have the standard encoding.  MCPredicates says of which sizes this is so.
ASSUME CodesAssumption ==
  \A i \in Variables :
    sizes[i] \in Nat \ {0} /\ codes(sizes[i]) \in Nat /\ Standard(sizes[i])

VARIABLE held   \* the predicate in each slot

Codings ==
  {v \in [Variables -> UNION {code[i] : i \in Variables}] :
     \A i \in Variables : v[i] \in code[i]}
Predicate == [scope : SUBSET Variables, b : SUBSET Codings]

\* is_in_range_of: every variable of the scope has the code of a value (leq
\* compares it with the size of its type).
InRange(S) == {v \in Codings : \A i \in S : v[i] \in value[i]}

Values == InRange(Variables)

\* Without an allocation nothing is done.
rangify(p) == [p EXCEPT !.b = @ \cap InRange(p.scope)]

SameType(i, j) == sizes[i] = sizes[j]

Agree(v, w, X) == \A i \in Variables \ X : v[i] = w[i]

\* Quantification over the bits of X.
SomeCodes(b, X) == {v \in Codings : \E w \in b : Agree(v, w, X)}
AllCodes(b, X) == {v \in Codings : \A w \in Codings : Agree(v, w, X) => w \in b}

\* b depends on variables of D only.
Local(b, D) == \A v \in b, w \in Codings : (\A i \in D : v[i] = w[i]) => w \in b

\* Some variables have only codes of values in b, and b does not depend on any
\* other.  An out-of-range code of such a b can always be replaced by a value.
Honest(b) == \E D \in SUBSET Variables : b \subseteq InRange(D) /\ Local(b, D)

-------------------------------------------------------------------------------
(***************************************************************************)
(* The operations of BoolePredicateManager                                 *)
(***************************************************************************)
\* from_bool, constant_to_predicate and compare_variables.
FromBool(t, S) == rangify([scope |-> S, b |-> IF t THEN Codings ELSE {}])
EqualsConstant(i, n, S) ==
  rangify([scope |-> S, b |-> {v \in Codings : v[i] = LowBits(n, sizes[i])}])

EqualVariables(i, j, S) == rangify([scope |-> S, b |-> {v \in Codings : v[i] = v[j]}])

\* Mutant: a negation is not cut to the range.
Negation_unrangified(p) == [p EXCEPT !.b = Codings \ @]

Negation(p) == rangify([p EXCEPT !.b = Codings \ @])

\* Operands of a connective have one allocation, or they are closed.
Compatible(p, q) == p.scope = {} \/ q.scope = {} \/ p.scope = q.scope

\* Mutant: that of the first operand.
Common_first(p, q) == p.scope

\* setAllocation: that of the first operand that has one.
Common(p, q) == IF p.scope # {} THEN p.scope ELSE q.scope

\* The connectives, on sets of elements of U.
Joined(op, A, B, U) ==
  CASE op = "andop"    -> A \cap B
    [] op = "orop"     -> A \cup B
    [] op = "implies"  -> (U \ A) \cup B
    [] op = "equiv"    -> (A \cap B) \cup (U \ (A \cup B))
    [] op = "notequiv" -> (A \ B) \cup (B \ A)

Connectives == {"andop", "orop", "implies", "equiv", "notequiv"}

Binary(op, p, q) ==
  rangify([scope |-> Common(p, q), b |-> Joined(op, p.b, q.b, Codings)])

IfThenElse(c, t, e) ==
  rangify([scope |-> Common(c, [scope |-> Common(t, e)]),
           b |-> (c.b \cap t.b) \cup (e.b \ c.b)])

(***************************************************************************)
(* Quantors and applications: rangify does nothing in any of them.  A      *)
(* quantor whose body has scope S is over some variables of S; the term    *)
(* around it has the scope of the others.  Its operands have this scope or *)
(* none.  A substitution done on the fly by relprod, forallImplies and     *)
(* forallOr is an application of the operand before it (for the            *)
(* substitutions that LazyComposeMeaning in BDDclient is about).           *)
(***************************************************************************)
Projections(S) == (SUBSET S) \ {{}}

\* A predicate without an allocation may stand where one on S is expected.
Fitting(p, S) == p.scope \in {{}, S}

Exists(p, S, X) == [scope |-> S \ X, b |-> SomeCodes(p.b, X)]

RelationalProduct(p, q, S, X) == [scope |-> S \ X, b |-> SomeCodes(p.b \cap q.b, X)]

\* Mutant: all codes count.
FromRange_forgotten(p, S) == p.b

\* seilpmi(range): what is out of the range of the body's scope counts as true.
FromRange(p, S) == p.b \cup (Codings \ InRange(S))

Forall(p, S, X) == [scope |-> S \ X, b |-> AllCodes(FromRange(p, S), X)]

ForallImplies(p, q, S, X) ==
  [scope |-> S \ X, b |-> AllCodes((Codings \ p.b) \cup FromRange(q, S), X)]

ForallOr(p, q, S, X) == [scope |-> S \ X, b |-> AllCodes(p.b \cup FromRange(q, S), X)]

\* A substitution: the argument at which each parameter of a scope is read, map
\* those that are variables of the scope in which the definition is used, and
\* restriction those that are constants, counted from the first of the type.
Counted(N) == {n - first : n \in N}

Substitutions(S, usage) ==
  UNION {{f \in [map : [D -> usage], restriction : [S \ D -> Counted(Literals)]] :
            /\ \A i \in D : SameType(i, f.map[i])
            /\ \A i \in S \ D : f.restriction[i] \in Counted(Numbers(i))} : D \in SUBSET S}

Reads(v, f) ==
  [i \in Variables |-> IF i \in DOMAIN f.map THEN v[f.map[i]]
                       ELSE IF i \in DOMAIN f.restriction THEN LowBits(f.restriction[i], sizes[i])
                       ELSE v[i]]

Application(p, f, usage) == [scope |-> usage, b |-> {v \in Codings : Reads(v, f) \in p.b}]

\* What print_value says of a predicate.
isTrue(p) == InRange(p.scope) \subseteq p.b
isFalse(p) == p.b = {}

-------------------------------------------------------------------------------
(***************************************************************************)
(* The handlers of EvaluatorPredicate.  One with operands begins with a    *)
(* copy of the first operand's predicate, and turns that into its result.  *)
(***************************************************************************)
PredicatesInit == held = [s \in Slots |-> FromBool(FALSE, {})]

Gets(s, p) == held' = [held EXCEPT ![s] = p]

assign(s) == \E a \in Slots : Gets(s, held[a])

eval_constant(s) == \E t \in BOOLEAN, S \in SUBSET Variables : Gets(s, FromBool(t, S))

\* A variable is compared with a number, which goes on as it is: the first element
\* of the type is not subtracted.  eval_variable, of a variable that is a term
\* itself, does the same with 1.
eval_cmp_vwc(s) ==
  \E S \in SUBSET Variables : \E i \in S : \E n \in Numbers(i) :
    Gets(s, EqualsConstant(i, n, S))

eval_cmp_vwv(s) ==
  \E S \in SUBSET Variables : \E i, j \in S :
    /\ SameType(i, j)
    /\ Gets(s, EqualVariables(i, j, S))

eval_not(s) == Gets(s, Negation(held[s]))

eval_binary(s) ==
  \E a \in Slots, op \in Connectives :
    /\ Compatible(held[s], held[a])
    /\ Gets(s, Binary(op, held[s], held[a]))

eval_ite(s) ==
  \E a, b \in Slots :
    /\ \A p, q \in {held[s], held[a], held[b]} : Compatible(p, q)
    /\ Gets(s, IfThenElse(held[s], held[a], held[b]))

\* The operands of a quantor over variables of S.
Fitters(S) == {a \in Slots : Fitting(held[a], S)}

eval_exists(s) ==
  \E S \in SUBSET Variables : \E X \in Projections(S) :
    s \in Fitters(S) /\ Gets(s, Exists(held[s], S, X))

eval_relprod(s) ==
  \E S \in SUBSET Variables : \E X \in Projections(S), a \in Fitters(S) :
    s \in Fitters(S) /\ Gets(s, RelationalProduct(held[s], held[a], S, X))

eval_forall(s) ==
  \E S \in SUBSET Variables : \E X \in Projections(S) :
    s \in Fitters(S) /\ Gets(s, Forall(held[s], S, X))

eval_forallImplies(s) ==
  \E S \in SUBSET Variables : \E X \in Projections(S), a \in Fitters(S) :
    s \in Fitters(S) /\ Gets(s, ForallImplies(held[s], held[a], S, X))

eval_forallOr(s) ==
  \E S \in SUBSET Variables : \E X \in Projections(S), a \in Fitters(S) :
    s \in Fitters(S) /\ Gets(s, ForallOr(held[s], held[a], S, X))

eval_application(s) ==
  \E S, usage \in SUBSET Variables : \E f \in Substitutions(S, usage) :
    s \in Fitters(S) /\ Gets(s, Application(held[s], f, usage))

Universal(s) == eval_forall(s) \/ eval_forallImplies(s) \/ eval_forallOr(s)

PredicatesNext ==
  \E s \in Slots :
    \/ assign(s) \/ eval_constant(s) \/ eval_cmp_vwc(s) \/ eval_cmp_vwv(s)
    \/ eval_not(s) \/ eval_binary(s) \/ eval_ite(s)
    \/ eval_exists(s) \/ eval_relprod(s) \/ Universal(s)
    \/ eval_application(s)

PredicatesSpec == PredicatesInit /\ [][PredicatesNext]_held

-------------------------------------------------------------------------------
(***************************************************************************)
(* Properties                                                              *)
(***************************************************************************)

\* Predicates depend on nothing but their scope, so that a substitution, which
\* says nothing of other variables, and an outer quantor leave none behind.
ScopesRespected ==
  /\ held \in [Slots -> Predicate]
  /\ \A s \in Slots : Local(held[s].b, held[s].scope)

AllHonest == \A s \in Slots : Honest(held[s].b)

\* Codes that stand for no value get into predicates by universal quantors only:
\* whatever else is made of honest predicates is honest, even where nothing is
\* rangified.
OnlyUniversalsStray ==
  [][AllHonest => AllHonest' \/ \E s \in Slots : Universal(s)]_held

\* The valuations of which a predicate is true.
Extension(p) == p.b \cap Values

Some(A, X) == {v \in Values : \E w \in A : Agree(v, w, X)}
All(A, X) == {v \in Values : \A w \in Values \ A : ~ Agree(v, w, X)}

\* Connectives, universal quantors and applications of whatever predicates, the
\* results of universal quantors among them, mean what logic says of values.
ConnectivesExact(p, q) ==
  /\ Extension(Negation(p)) = Values \ Extension(p)
  /\ Compatible(p, q) => \A op \in Connectives :
       Extension(Binary(op, p, q)) = Joined(op, Extension(p), Extension(q), Values)

IfThenElseExact(c, t, e) ==
  Compatible(c, t) /\ Compatible(t, e) /\ Compatible(c, e) =>
    Extension(IfThenElse(c, t, e)) = (Extension(c) \cap Extension(t)) \cup (Extension(e) \ Extension(c))

UniversalsExact(p, q) ==
  \A S \in SUBSET Variables : Fitting(p, S) /\ Fitting(q, S) => \A X \in Projections(S) :
    /\ Extension(Forall(p, S, X)) = All(Extension(p), X)
    /\ Extension(ForallImplies(p, q, S, X)) = All((Values \ Extension(p)) \cup Extension(q), X)
    /\ Extension(ForallOr(p, q, S, X)) = All(Extension(p) \cup Extension(q), X)

ApplicationsExact(p) ==
  \A S, usage \in SUBSET Variables : Fitting(p, S) => \A f \in Substitutions(S, usage) :
    Extension(Application(p, f, usage)) = {v \in Values : Reads(v, f) \in Extension(p)}

\* Existential quantors do if their operands are honest.
ExistentialsExact(p, q) ==
  Honest(p.b) /\ Honest(q.b) =>
    \A S \in SUBSET Variables : Fitting(p, S) /\ Fitting(q, S) => \A X \in Projections(S) :
      /\ Extension(Exists(p, S, X)) = Some(Extension(p), X)
      /\ Extension(RelationalProduct(p, q, S, X)) = Some(Extension(p) \cap Extension(q), X)

\* "true" is printed of what is true of all values, and "false" of an honest
\* predicate if it is true of none.
VerdictsExact(p) ==
  /\ isTrue(p) <=> Extension(p) = Values
  /\ Honest(p.b) => (isFalse(p) <=> Extension(p) = {})

\* A comparison with a number is true of the element of the type with that number,
\* although the number itself is encoded, and one of variables where they are equal.
ComparisonsExact ==
  \A S \in SUBSET Variables : \A i \in S :
    /\ \A n \in Numbers(i) :
         Extension(EqualsConstant(i, n, S)) = {v \in Values : v[i] = n - first}
    /\ \A j \in S : Extension(EqualVariables(i, j, S)) = {v \in Values : v[i] = v[j]}

\* All comparisons, and all operations on the predicates that are held.
MeaningExact ==
  LET Held == {held[s] : s \in Slots}
  IN /\ ComparisonsExact
     /\ \A p \in Held : ApplicationsExact(p) /\ VerdictsExact(p)
     /\ \A p, q \in Held :
          ConnectivesExact(p, q) /\ UniversalsExact(p, q) /\ ExistentialsExact(p, q)
     /\ \A p, q, r \in Held : IfThenElseExact(p, q, r)
===============================================================================
