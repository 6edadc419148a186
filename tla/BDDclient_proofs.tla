--------------------------- MODULE BDDclient_proofs ---------------------------
(***************************************************************************)
(* Proofs for BDDclient.tla: whichever operands, substitutions and sets of *)
(* variables the client uses, every operation returns a BDD, and the BDD   *)
(* of the function that the operation stands for.  What the operations     *)
(* return is in BDDalgorithms_proofs.tla; here it is an invariant of the   *)
(* client, which keeps results as operands of later calls.                 *)
(***************************************************************************)
EXTENDS BDDclient, BDDalgorithms_proofs

-------------------------------------------------------------------------------
\* The connectives, by name.
LEMMA ConnectiveIs ==
  ASSUME NEW op \in {"and", "or", "equiv", "notequiv", "implies", "notimplies"},
         NEW a \in BDD, NEW b \in BDD
  PROVE  /\ Connective(op, a, b) \in BDD
         /\ Sat(Connective(op, a, b)) = ConnectiveSat(op, Sat(a), Sat(b))
<1>1. CASE op = "and"
  BY <1>1, AndMeaning DEF Connective, ConnectiveSat
<1>2. CASE op = "or"
  BY <1>2, OrMeaning DEF Connective, ConnectiveSat
<1>3. CASE op = "equiv"
  BY <1>3, EquivMeaning DEF Connective, ConnectiveSat
<1>4. CASE op = "notequiv"
  BY <1>4, NotequivMeaning DEF Connective, ConnectiveSat
<1>5. CASE op = "implies"
  BY <1>5, ImpliesMeaning DEF Connective, ConnectiveSat
<1>6. CASE op = "notimplies"
  BY <1>6, NotimpliesMeaning DEF Connective, ConnectiveSat
<1>7. QED
  BY <1>1, <1>2, <1>3, <1>4, <1>5, <1>6

\* The quantifiers, by name.
LEMMA QuantorIs ==
  ASSUME NEW op \in Quantors, NEW a \in BDD, NEW b \in BDD, NEW xs \in SUBSET Vars
  PROVE  /\ Quantor(op, a, b, Cube(xs)) \in BDD
         /\ Sat(Quantor(op, a, b, Cube(xs))) = QuantorSat(op, Sat(a), Sat(b), xs)
<1>0. Cube(xs) \in Cubes /\ VarsOf(Cube(xs)) = xs
  BY CubeIs, VarsOfCube
<1>1. CASE op = "exists"
  BY <1>0, <1>1, ExistsMeaning DEF Quantor, QuantorSat
<1>2. CASE op = "forall"
  BY <1>0, <1>2, ForallMeaning DEF Quantor, QuantorSat
<1>3. CASE op = "notExists"
  BY <1>0, <1>3, NotExistsMeaning DEF Quantor, QuantorSat
<1>4. CASE op = "relProd"
  BY <1>0, <1>4, RelProdMeaning DEF Quantor, QuantorSat
<1>5. CASE op = "orExists"
  BY <1>0, <1>5, OrExistsMeaning DEF Quantor, QuantorSat
<1>6. CASE op = "impliesExists"
  BY <1>0, <1>6, ImpliesExistsMeaning DEF Quantor, QuantorSat
<1>7. CASE op = "notimpliesExists"
  BY <1>0, <1>7, NotimpliesExistsMeaning DEF Quantor, QuantorSat
<1>8. CASE op = "forallImplies"
  BY <1>0, <1>8, ForallImpliesMeaning DEF Quantor, QuantorSat
<1>9. CASE op = "forallOr"
  BY <1>0, <1>9, ForallOrMeaning DEF Quantor, QuantorSat
<1>10. QED
  BY <1>1, <1>2, <1>3, <1>4, <1>5, <1>6, <1>7, <1>8, <1>9 DEF Quantors

\* The operations on one variable, by name.
OneVariableSatOf(op, A, i) ==
  CASE op = "restrict0" -> Low(A, i)
    [] op = "restrict1" -> High(A, i)
    [] op = "existsVar" -> ExistsSat(A, {i})
    [] op = "forallVar" -> ForallSat(A, {i})

\* The BDD of a variable, as the client asks for it.
LEMMA OneVariableIs ==
  ASSUME NEW op \in {"restrict0", "restrict1", "existsVar", "forallVar"},
         NEW a \in BDD, NEW i \in Vars
  PROVE  /\ OneVariable(op, a, i) \in BDD
         /\ Sat(OneVariable(op, a, i)) = OneVariableSatOf(op, Sat(a), i)
<1>0. Sat(a) \in SatSets
  BY SatType DEF SatSets
<1>1. CASE op = "restrict0"
  BY <1>1, Restrict0Meaning DEF OneVariable, OneVariableSatOf, Restrict0Sat
<1>2. CASE op = "restrict1"
  BY <1>2, Restrict1Meaning DEF OneVariable, OneVariableSatOf, Restrict1Sat
<1>3. CASE op = "existsVar"
  BY <1>0, <1>3, ExistsVarMeaning, OneVariableSat DEF OneVariable, OneVariableSatOf, ExistsVarSat
<1>4. CASE op = "forallVar"
  BY <1>0, <1>4, ForallVarMeaning, OneVariableSat DEF OneVariable, OneVariableSatOf, ForallVarSat
<1>5. QED
  BY <1>1, <1>2, <1>3, <1>4

-------------------------------------------------------------------------------
\* What every call leaves behind.
Meanings ==
  /\ ConnectiveMeaning /\ DontCareMeaning /\ QuantorMeaning
  /\ ComposeMeaning /\ LazyComposeMeaning /\ CubeMeaning

IInv == ResultReduced /\ Meanings

\* Nothing is said of a state in which no result is pending.
LEMMA NoCallMeanings == call = NoCall => Meanings
BY DEF NoCall, Meanings, ConnectiveMeaning, DontCareMeaning, QuantorMeaning, Quantors,
       ComposeMeaning, LazyComposeMeaning, CubeMeaning

\* The first results are the constants.
LEMMA InitInv == Init => IInv
<1>1. Init => ResultReduced /\ call = NoCall
  BY ConstantFacts DEF Init, ResultReduced
<1>2. QED
  BY <1>1, NoCallMeanings DEF IInv

\* CallConnective preserves the invariant.
LEMMA CallConnectiveInv == IInv /\ CallConnective => IInv'
<1> SUFFICES ASSUME IInv, CallConnective PROVE IInv'
  OBVIOUS
<1>1. PICK op \in {"and", "or", "equiv", "notequiv", "implies", "notimplies"}, b \in Operands :
        Called([op |-> op, b |-> b], Connective(op, acc, b))
  BY DEF CallConnective
<1>2. acc \in BDD /\ b \in BDD
  BY OperandsAssumption DEF IInv, ResultReduced
<1>3. call' = [op |-> op, b |-> b] /\ res' = Connective(op, acc, b) /\ acc' = acc
  BY <1>1 DEF Called
<1>4. call'.op = op /\ call'.b = b
  BY <1>3
<1>5. res' \in BDD /\ Sat(res') = ConnectiveSat(op, Sat(acc), Sat(b))
  BY <1>2, <1>3, ConnectiveIs
<1>6. ConnectiveMeaning'
  BY <1>3, <1>4, <1>5 DEF ConnectiveMeaning
<1>7. /\ DontCareMeaning' /\ QuantorMeaning' /\ ComposeMeaning'
      /\ LazyComposeMeaning' /\ CubeMeaning'
  BY <1>4 DEF DontCareMeaning, QuantorMeaning, Quantors, ComposeMeaning,
              LazyComposeMeaning, CubeMeaning
<1>8. QED
  BY <1>2, <1>3, <1>5, <1>6, <1>7 DEF IInv, ResultReduced, Meanings

\* CallNot preserves the invariant.
LEMMA CallNotInv == IInv /\ CallNot => IInv'
<1> SUFFICES ASSUME IInv, CallNot PROVE IInv'
  OBVIOUS
<1>1. call' = [op |-> "not"] /\ res' = notop(acc) /\ acc' = acc /\ acc \in BDD
  BY DEF CallNot, Called, IInv, ResultReduced
<1>2. call'.op = "not"
  BY <1>1
<1>3. res' \in BDD /\ Sat(res') = Valuations \ Sat(acc)
  BY <1>1, NotMeaning
<1>4. ConnectiveMeaning'
  BY <1>1, <1>2, <1>3 DEF ConnectiveMeaning
<1>5. /\ DontCareMeaning' /\ QuantorMeaning' /\ ComposeMeaning'
      /\ LazyComposeMeaning' /\ CubeMeaning'
  BY <1>2 DEF DontCareMeaning, QuantorMeaning, Quantors, ComposeMeaning,
              LazyComposeMeaning, CubeMeaning
<1>6. QED
  BY <1>1, <1>3, <1>4, <1>5 DEF IInv, ResultReduced, Meanings

\* CallIte preserves the invariant.
LEMMA CallIteInv == IInv /\ CallIte => IInv'
<1> SUFFICES ASSUME IInv, CallIte PROVE IInv'
  OBVIOUS
<1>1. PICK b \in Operands, c \in Operands :
        Called([op |-> "ite", b |-> b, c |-> c], ite(acc, b, c))
  BY DEF CallIte
<1>2. acc \in BDD /\ b \in BDD /\ c \in BDD
  BY OperandsAssumption DEF IInv, ResultReduced
<1>3. call' = [op |-> "ite", b |-> b, c |-> c] /\ res' = ite(acc, b, c) /\ acc' = acc
  BY <1>1 DEF Called
<1>4. call'.op = "ite" /\ call'.b = b /\ call'.c = c
  BY <1>3
<1>5. res' \in BDD /\ Sat(res') = (Sat(acc) \cap Sat(b)) \cup (Sat(c) \ Sat(acc))
  BY <1>2, <1>3, IteMeaning DEF IteSat
<1>6. ConnectiveMeaning'
  BY <1>3, <1>4, <1>5 DEF ConnectiveMeaning
<1>7. /\ DontCareMeaning' /\ QuantorMeaning' /\ ComposeMeaning'
      /\ LazyComposeMeaning' /\ CubeMeaning'
  BY <1>4 DEF DontCareMeaning, QuantorMeaning, Quantors, ComposeMeaning,
              LazyComposeMeaning, CubeMeaning
<1>8. QED
  BY <1>2, <1>3, <1>5, <1>6, <1>7 DEF IInv, ResultReduced, Meanings

\* CallSimplify preserves the invariant.
LEMMA CallSimplifyInv == IInv /\ CallSimplify => IInv'
<1> SUFFICES ASSUME IInv, CallSimplify PROVE IInv'
  OBVIOUS
<1>1. PICK b \in Operands :
        \/ Called([op |-> "simplify", b |-> b], simplify_assuming(acc, b))
        \/ Called([op |-> "cofactor", b |-> b], cofactor(acc, b))
  BY DEF CallSimplify
<1>2. acc \in BDD /\ b \in BDD
  BY OperandsAssumption DEF IInv, ResultReduced
<1>3. acc' = acc /\ call'.b = b
      /\ \/ call'.op = "simplify" /\ res' = simplify_assuming(acc, b)
         \/ call'.op = "cofactor" /\ res' = cofactor(acc, b)
  BY <1>1 DEF Called
<1>4. /\ res' \in BDD /\ Sat(res') \cap Sat(b) = Sat(acc) \cap Sat(b)
      /\ call'.op = "simplify" => Support(res') \subseteq Support(acc)
  BY <1>2, <1>3, SimplifyMeaning, CofactorMeaning
<1>5. DontCareMeaning'
  BY <1>3, <1>4 DEF DontCareMeaning
<1>6. /\ ConnectiveMeaning' /\ QuantorMeaning' /\ ComposeMeaning'
      /\ LazyComposeMeaning' /\ CubeMeaning'
  BY <1>3 DEF ConnectiveMeaning, QuantorMeaning, Quantors, ComposeMeaning,
              LazyComposeMeaning, CubeMeaning
<1>7. QED
  BY <1>2, <1>3, <1>4, <1>5, <1>6 DEF IInv, ResultReduced, Meanings

\* CallOneVariable preserves the invariant.
LEMMA CallOneVariableInv == IInv /\ CallOneVariable => IInv'
<1> SUFFICES ASSUME IInv, CallOneVariable PROVE IInv'
  OBVIOUS
<1>1. PICK op \in {"restrict0", "restrict1", "existsVar", "forallVar"}, i \in Vars :
        Called([op |-> op, i |-> i], OneVariable(op, acc, i))
  BY DEF CallOneVariable
<1>2. acc \in BDD
  BY DEF IInv, ResultReduced
<1>3. call' = [op |-> op, i |-> i] /\ res' = OneVariable(op, acc, i) /\ acc' = acc
  BY <1>1 DEF Called
<1>4. call'.op = op /\ call'.i = i
  BY <1>3
<1>5. res' \in BDD /\ Sat(res') = OneVariableSatOf(op, Sat(acc), i)
  BY <1>2, <1>3, OneVariableIs
<1>6. QuantorMeaning'
  <2>1. CASE op = "restrict0"
    <3>1. (call'.op = "restrict1") = FALSE
      BY <1>4, <2>1
    <3>2. Sat(res') = {v \in Valuations : [v EXCEPT ![i] = FALSE] \in Sat(acc)}
      BY <1>5, <2>1 DEF OneVariableSatOf, Low
    <3>3. Sat(res') = {v \in Valuations :
                         [v EXCEPT ![call'.i] = (call'.op = "restrict1")] \in Sat(acc')}
      BY <1>3, <1>4, <3>1, <3>2
    <3>4. QED
      BY <1>4, <2>1, <3>3 DEF QuantorMeaning, Quantors
  <2>2. CASE op = "restrict1"
    <3>1. (call'.op = "restrict1") = TRUE
      BY <1>4, <2>2
    <3>2. Sat(res') = {v \in Valuations : [v EXCEPT ![i] = TRUE] \in Sat(acc)}
      BY <1>5, <2>2 DEF OneVariableSatOf, High
    <3>3. Sat(res') = {v \in Valuations :
                         [v EXCEPT ![call'.i] = (call'.op = "restrict1")] \in Sat(acc')}
      BY <1>3, <1>4, <3>1, <3>2
    <3>4. QED
      BY <1>4, <2>2, <3>3 DEF QuantorMeaning, Quantors
  <2>3. CASE op = "existsVar"
    <3>1. Sat(res') = ExistsSat(Sat(acc), {i})
      BY <1>5, <2>3 DEF OneVariableSatOf
    <3>2. QED
      BY <1>3, <1>4, <2>3, <3>1 DEF QuantorMeaning, Quantors
  <2>4. CASE op = "forallVar"
    <3>1. Sat(res') = ForallSat(Sat(acc), {i})
      BY <1>5, <2>4 DEF OneVariableSatOf
    <3>2. QED
      BY <1>3, <1>4, <2>4, <3>1 DEF QuantorMeaning, Quantors
  <2>5. QED
    BY <2>1, <2>2, <2>3, <2>4
<1>7. /\ ConnectiveMeaning' /\ DontCareMeaning' /\ ComposeMeaning'
      /\ LazyComposeMeaning' /\ CubeMeaning'
  BY <1>4 DEF ConnectiveMeaning, DontCareMeaning, ComposeMeaning,
              LazyComposeMeaning, CubeMeaning
<1>8. QED
  BY <1>2, <1>3, <1>5, <1>6, <1>7 DEF IInv, ResultReduced, Meanings

\* Both actions that call a quantifier by name.
LEMMA QuantorCallInv ==
  ASSUME IInv, NEW op \in Quantors, NEW b \in BDD, NEW xs \in SUBSET Vars,
         Called([op |-> op, b |-> b, xs |-> xs], Quantor(op, acc, b, Cube(xs)))
  PROVE  IInv'
<1>2. acc \in BDD
  BY DEF IInv, ResultReduced
<1>3. /\ call' = [op |-> op, b |-> b, xs |-> xs]
      /\ res' = Quantor(op, acc, b, Cube(xs)) /\ acc' = acc
  BY DEF Called
<1>4. call'.op = op /\ call'.b = b /\ call'.xs = xs
  BY <1>3
<1>5. res' \in BDD /\ Sat(res') = QuantorSat(op, Sat(acc), Sat(b), xs)
  BY <1>2, <1>3, QuantorIs
<1>6. QuantorMeaning'
  <2>1. Sat(res') = QuantorSat(call'.op, Sat(acc'), Sat(call'.b), call'.xs)
    BY <1>3, <1>4, <1>5
  <2>2. call'.op \notin {"iteExists", "restrict0", "restrict1", "existsVar", "forallVar"}
    BY <1>4 DEF Quantors
  <2>3. QED
    BY <2>1, <2>2 DEF QuantorMeaning
<1>7. /\ ConnectiveMeaning' /\ DontCareMeaning' /\ ComposeMeaning'
      /\ LazyComposeMeaning' /\ CubeMeaning'
  BY <1>4 DEF Quantors, ConnectiveMeaning, DontCareMeaning, ComposeMeaning,
              LazyComposeMeaning, CubeMeaning
<1>8. QED
  BY <1>2, <1>3, <1>5, <1>6, <1>7 DEF IInv, ResultReduced, Meanings

\* CallQuantor preserves the invariant.
LEMMA CallQuantorInv == IInv /\ (CallQuantor \/ CallSpecialQuantor) => IInv'
<1> SUFFICES ASSUME IInv, CallQuantor \/ CallSpecialQuantor PROVE IInv'
  OBVIOUS
<1>1. CASE CallQuantor
  <2>1. PICK op \in {"exists", "forall", "notExists"}, xs \in Domains :
          Called([op |-> op, b |-> True, xs |-> xs], Quantor(op, acc, True, Cube(xs)))
    BY <1>1 DEF CallQuantor
  <2>2. op \in Quantors /\ xs \in SUBSET Vars /\ True \in BDD
    BY DomainsAssumption, ConstantFacts DEF Quantors
  <2>3. QED
    BY <2>1, <2>2, QuantorCallInv
<1>2. CASE CallSpecialQuantor
  <2>1. PICK op \in {"relProd", "orExists", "impliesExists", "notimpliesExists",
                     "forallImplies", "forallOr"}, b \in Operands, xs \in Domains :
          Called([op |-> op, b |-> b, xs |-> xs], Quantor(op, acc, b, Cube(xs)))
    BY <1>2 DEF CallSpecialQuantor
  <2>2. op \in Quantors /\ xs \in SUBSET Vars /\ b \in BDD
    BY DomainsAssumption, OperandsAssumption DEF Quantors
  <2>3. QED
    BY <2>1, <2>2, QuantorCallInv
<1>3. QED
  BY <1>1, <1>2

\* CallIteExists preserves the invariant.
LEMMA CallIteExistsInv == IInv /\ CallIteExists => IInv'
<1> SUFFICES ASSUME IInv, CallIteExists PROVE IInv'
  OBVIOUS
<1>1. PICK b \in Operands, c \in Operands, xs \in Domains :
        Called([op |-> "iteExists", b |-> b, c |-> c, xs |-> xs],
               iteExists(acc, b, c, Cube(xs)))
  BY DEF CallIteExists
<1>2. /\ acc \in BDD /\ b \in BDD /\ c \in BDD
      /\ Cube(xs) \in Cubes /\ VarsOf(Cube(xs)) = xs
  BY OperandsAssumption, DomainsAssumption, CubeIs, VarsOfCube DEF IInv, ResultReduced
<1>3. /\ call' = [op |-> "iteExists", b |-> b, c |-> c, xs |-> xs]
      /\ res' = iteExists(acc, b, c, Cube(xs)) /\ acc' = acc
  BY <1>1 DEF Called
<1>4. call'.op = "iteExists" /\ call'.b = b /\ call'.c = c /\ call'.xs = xs
  BY <1>3
<1>5. /\ res' \in BDD
      /\ Sat(res') = ExistsSat((Sat(acc) \cap Sat(b)) \cup (Sat(c) \ Sat(acc)), xs)
  BY <1>2, <1>3, IteExistsMeaning DEF IteSat
<1>6. QuantorMeaning'
  BY <1>3, <1>4, <1>5 DEF QuantorMeaning, Quantors
<1>7. /\ ConnectiveMeaning' /\ DontCareMeaning' /\ ComposeMeaning'
      /\ LazyComposeMeaning' /\ CubeMeaning'
  BY <1>4 DEF ConnectiveMeaning, DontCareMeaning, ComposeMeaning,
              LazyComposeMeaning, CubeMeaning
<1>8. QED
  BY <1>2, <1>3, <1>5, <1>6, <1>7 DEF IInv, ResultReduced, Meanings

\* CallCompose preserves the invariant.
LEMMA CallComposeInv == IInv /\ CallCompose => IInv'
<1> SUFFICES ASSUME IInv, CallCompose PROVE IInv'
  OBVIOUS
<1>1. PICK s \in Subs : Called([op |-> "compose", s |-> s], compose(acc, s))
  BY DEF CallCompose
<1>2. acc \in BDD /\ s \in Assocs
  BY SubsAssumption DEF IInv, ResultReduced
<1>3. call' = [op |-> "compose", s |-> s] /\ res' = compose(acc, s) /\ acc' = acc
  BY <1>1 DEF Called
<1>4. call'.op = "compose" /\ call'.s = s
  BY <1>3
<1>5. res' \in BDD /\ Sat(res') = ComposeSat(acc, s)
  BY <1>2, <1>3, SubstMeaning
<1>6. ComposeMeaning'
  BY <1>3, <1>4, <1>5 DEF ComposeMeaning
<1>7. /\ ConnectiveMeaning' /\ DontCareMeaning' /\ QuantorMeaning'
      /\ LazyComposeMeaning' /\ CubeMeaning'
  BY <1>4 DEF ConnectiveMeaning, DontCareMeaning, QuantorMeaning, Quantors,
              LazyComposeMeaning, CubeMeaning
<1>8. QED
  BY <1>2, <1>3, <1>5, <1>6, <1>7 DEF IInv, ResultReduced, Meanings

\* CallComposeRelProd preserves the invariant.
LEMMA CallComposeRelProdInv == IInv /\ CallComposeRelProd => IInv'
<1> SUFFICES ASSUME IInv, CallComposeRelProd PROVE IInv'
  OBVIOUS
<1>1. PICK b \in Operands, xs \in Domains, s \in Subs :
        Called([op |-> "composeRelProd", b |-> b, xs |-> xs, s |-> s],
               composeRelProd(b, acc, Cube(xs), s))
  BY DEF CallComposeRelProd
<1>2. /\ acc \in BDD /\ b \in BDD /\ s \in Assocs
      /\ Cube(xs) \in Cubes /\ VarsOf(Cube(xs)) = xs
  BY OperandsAssumption, SubsAssumption, DomainsAssumption, CubeIs, VarsOfCube
     DEF IInv, ResultReduced
<1>3. /\ call' = [op |-> "composeRelProd", b |-> b, xs |-> xs, s |-> s]
      /\ res' = composeRelProd(b, acc, Cube(xs), s) /\ acc' = acc
  BY <1>1 DEF Called
<1>4. call'.op = "composeRelProd" /\ call'.b = b /\ call'.xs = xs /\ call'.s = s
  BY <1>3
<1>5. /\ res' \in BDD
      /\ Injective(acc, s) => Sat(res') = ExistsSat(Sat(b) \cap ComposeSat(acc, s), xs)
  BY <1>2, <1>3, ComposeRelProdMeaning
<1>6. LazyComposeMeaning'
  BY <1>3, <1>4, <1>5 DEF LazyComposeMeaning, ComposeQuantorHolds, ComposeQuantorSat
<1>7. /\ ConnectiveMeaning' /\ DontCareMeaning' /\ QuantorMeaning'
      /\ ComposeMeaning' /\ CubeMeaning'
  BY <1>4 DEF ConnectiveMeaning, DontCareMeaning, QuantorMeaning, Quantors,
              ComposeMeaning, CubeMeaning
<1>8. QED
  BY <1>2, <1>3, <1>5, <1>6, <1>7 DEF IInv, ResultReduced, Meanings

\* CallComposeForallImplies preserves the invariant.
LEMMA CallComposeForallImpliesInv == IInv /\ CallComposeForallImplies => IInv'
<1> SUFFICES ASSUME IInv, CallComposeForallImplies PROVE IInv'
  OBVIOUS
<1>1. PICK b \in Operands, xs \in Domains, s \in Subs :
        Called([op |-> "composeForallImplies", b |-> b, xs |-> xs, s |-> s],
               composeForallImplies(b, acc, Cube(xs), s))
  BY DEF CallComposeForallImplies
<1>2. /\ acc \in BDD /\ b \in BDD /\ s \in Assocs
      /\ Cube(xs) \in Cubes /\ VarsOf(Cube(xs)) = xs
  BY OperandsAssumption, SubsAssumption, DomainsAssumption, CubeIs, VarsOfCube
     DEF IInv, ResultReduced
<1>3. /\ call' = [op |-> "composeForallImplies", b |-> b, xs |-> xs, s |-> s]
      /\ res' = composeForallImplies(b, acc, Cube(xs), s) /\ acc' = acc
  BY <1>1 DEF Called
<1>4. call'.op = "composeForallImplies" /\ call'.b = b /\ call'.xs = xs /\ call'.s = s
  BY <1>3
<1>5. /\ res' \in BDD
      /\ Injective(acc, s) =>
           Sat(res') = ForallSat(Valuations \ (Sat(b) \ ComposeSat(acc, s)), xs)
  BY <1>2, <1>3, ComposeForallImpliesMeaning
<1>6. LazyComposeMeaning'
  BY <1>3, <1>4, <1>5 DEF LazyComposeMeaning, ComposeQuantorHolds, ComposeQuantorSat
<1>7. /\ ConnectiveMeaning' /\ DontCareMeaning' /\ QuantorMeaning'
      /\ ComposeMeaning' /\ CubeMeaning'
  BY <1>4 DEF ConnectiveMeaning, DontCareMeaning, QuantorMeaning, Quantors,
              ComposeMeaning, CubeMeaning
<1>8. QED
  BY <1>2, <1>3, <1>5, <1>6, <1>7 DEF IInv, ResultReduced, Meanings

\* CallOnecube preserves the invariant.
LEMMA CallOnecubeInv == IInv /\ CallOnecube => IInv'
<1> SUFFICES ASSUME IInv, CallOnecube PROVE IInv'
  OBVIOUS
<1>1. PICK xs \in SUBSET Vars :
        /\ Support(acc) \subseteq xs
        /\ Called([op |-> "onecube", xs |-> xs], onecube(acc, Cube(xs)))
  BY DEF CallOnecube
<1>2. acc \in BDD /\ Cube(xs) \in Cubes /\ VarsOf(Cube(xs)) = xs
  BY CubeIs, VarsOfCube DEF IInv, ResultReduced
<1>3. /\ call' = [op |-> "onecube", xs |-> xs]
      /\ res' = onecube(acc, Cube(xs)) /\ acc' = acc
  BY <1>1 DEF Called
<1>4. call'.op = "onecube" /\ call'.xs = xs
  BY <1>3
<1>5. /\ res' \in BDD
      /\ acc # False => \E w \in Sat(acc) :
           Sat(res') = {v \in Valuations : \A i \in xs : v[i] = w[i]}
  <2>1. /\ onecube(acc, Cube(xs)) \in BDD
        /\ Support(acc) \subseteq VarsOf(Cube(xs)) /\ acc # False => \E w \in Sat(acc) :
             Sat(onecube(acc, Cube(xs)))
               = {v \in Valuations : \A i \in VarsOf(Cube(xs)) : v[i] = w[i]}
    BY <1>2, OnecubeMeaning
  <2>2. QED
    BY <1>1, <1>2, <1>3, <2>1
<1>6. CubeMeaning'
  BY <1>3, <1>4, <1>5 DEF CubeMeaning
<1>7. /\ ConnectiveMeaning' /\ DontCareMeaning' /\ QuantorMeaning'
      /\ ComposeMeaning' /\ LazyComposeMeaning'
  BY <1>4 DEF ConnectiveMeaning, DontCareMeaning, QuantorMeaning, Quantors,
              ComposeMeaning, LazyComposeMeaning
<1>8. QED
  BY <1>2, <1>3, <1>5, <1>6, <1>7 DEF IInv, ResultReduced, Meanings

\* CallExtract preserves the invariant.
LEMMA CallExtractInv == IInv /\ CallExtract => IInv'
<1> SUFFICES ASSUME IInv, CallExtract PROVE IInv'
  OBVIOUS
<1>1. call' = [op |-> "extract"] /\ res' = extract(acc) /\ acc' = acc /\ acc \in BDD
  BY DEF CallExtract, Called, IInv, ResultReduced
<1>2. call'.op = "extract"
  BY <1>1
<1>3. res' \in BDD /\ Sat(res') \subseteq Sat(acc) /\ (Sat(acc) # {} => Sat(res') # {})
  BY <1>1, ExtractMeaning
<1>4. CubeMeaning'
  BY <1>1, <1>2, <1>3 DEF CubeMeaning
<1>5. /\ ConnectiveMeaning' /\ DontCareMeaning' /\ QuantorMeaning'
      /\ ComposeMeaning' /\ LazyComposeMeaning'
  BY <1>2 DEF ConnectiveMeaning, DontCareMeaning, QuantorMeaning, Quantors,
              ComposeMeaning, LazyComposeMeaning
<1>6. QED
  BY <1>1, <1>3, <1>4, <1>5 DEF IInv, ResultReduced, Meanings

\* Keeping a result as an operand disturbs nothing.
LEMMA KeepInv == IInv /\ Keep => IInv'
<1> SUFFICES ASSUME IInv, Keep PROVE IInv'
  OBVIOUS
<1>1. call' = NoCall /\ acc' = res /\ res' = True
  BY DEF Keep
<1>2. ResultReduced'
  BY <1>1, ConstantFacts DEF IInv, ResultReduced
<1>3. call'.op = "none"
  BY <1>1 DEF NoCall
<1>4. Meanings'
  BY <1>3 DEF Meanings, ConnectiveMeaning, DontCareMeaning, QuantorMeaning, Quantors,
              ComposeMeaning, LazyComposeMeaning, CubeMeaning
<1>5. QED
  BY <1>2, <1>4 DEF IInv

\* Neither does a step that changes nothing.
LEMMA StutterInv == IInv /\ UNCHANGED vars => IInv'
BY DEF vars, IInv, ResultReduced, Meanings, ConnectiveMeaning, DontCareMeaning,
       QuantorMeaning, ComposeMeaning, LazyComposeMeaning, ComposeQuantorHolds, CubeMeaning

\* The invariant of the client: its BDDs are BDDs, and the last result is what the
\* operation means.
THEOREM ClientInvariant == Spec => []IInv
<1>1. IInv /\ Next => IInv'
  BY CallConnectiveInv, CallNotInv, CallIteInv, CallSimplifyInv, CallOneVariableInv,
     CallQuantorInv, CallIteExistsInv, CallComposeInv, CallComposeRelProdInv,
     CallComposeForallImpliesInv, CallOnecubeInv, CallExtractInv, KeepInv DEF Next
<1>2. IInv /\ [Next]_vars => IInv'
  BY <1>1, StutterInv
<1>3. QED
  BY InitInv, <1>2, PTL DEF Spec

\* Every operation of BDDsimple.cc returns an ordered and reduced BDD.
THEOREM EveryResultReduced == Spec => []ResultReduced
<1>1. IInv => ResultReduced
  BY DEF IInv
<1>2. QED
  BY <1>1, ClientInvariant, PTL

\* The connectives, notop and ite compute their truth tables.
THEOREM ConnectivesCorrect == Spec => []ConnectiveMeaning
<1>1. IInv => ConnectiveMeaning
  BY DEF IInv, Meanings
<1>2. QED
  BY <1>1, ClientInvariant, PTL

\* simplify_assuming and cofactor agree with the operand where the assumption holds.
THEOREM DontCaresCorrect == Spec => []DontCareMeaning
<1>1. IInv => DontCareMeaning
  BY DEF IInv, Meanings
<1>2. QED
  BY <1>1, ClientInvariant, PTL

\* Quantifiers, alone and merged with a connective, quantify.
THEOREM QuantorsCorrect == Spec => []QuantorMeaning
<1>1. IInv => QuantorMeaning
  BY DEF IInv, Meanings
<1>2. QED
  BY <1>1, ClientInvariant, PTL

\* compose substitutes for all variables at once.
THEOREM ComposeCorrect == Spec => []ComposeMeaning
<1>1. IInv => ComposeMeaning
  BY DEF IInv, Meanings
<1>2. QED
  BY <1>1, ClientInvariant, PTL

\* A substitution inside a quantifier is the substitution before it, when it keeps
\* the variables of its operand apart.
THEOREM LazyComposeCorrect == Spec => []LazyComposeMeaning
<1>1. IInv => LazyComposeMeaning
  BY DEF IInv, Meanings
<1>2. QED
  BY <1>1, ClientInvariant, PTL

\* extract and onecube return cubes of their operand.
THEOREM CubesCorrect == Spec => []CubeMeaning
<1>1. IInv => CubeMeaning
  BY DEF IInv, Meanings
<1>2. QED
  BY <1>1, ClientInvariant, PTL

===============================================================================
