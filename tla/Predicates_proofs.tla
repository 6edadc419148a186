--------------------------- MODULE Predicates_proofs ---------------------------
(***************************************************************************)
(* Proofs about predicates, for any variables, sizes of their types,       *)
(* numbers that terms name, and number of predicates held.                 *)
(***************************************************************************)
EXTENDS Predicates, TLAPS

\* What predicates are as long as scopes are respected.
Sound(p) == p \in Predicate /\ Local(p.b, p.scope)

\* The coding that is v on D and w elsewhere.
Mix(D, v, w) == [i \in Variables |-> IF i \in D THEN v[i] ELSE w[i]]

-------------------------------------------------------------------------------
(***************************************************************************)
(* Codes and codings                                                       *)
(***************************************************************************)
LEMMA Remainder == ASSUME NEW c \in Nat, NEW n \in 0 .. c - 1 PROVE n % c = n
OBVIOUS

\* The numbers of a type, counted from its first, are the codes of its values, and
\* constant_to_Boole drops none of their bits.
LEMMA ValueCodes ==
  ASSUME NEW i \in Variables
  PROVE  /\ value[i] = 0 .. sizes[i] - 1 /\ value[i] \subseteq code[i] /\ value[i] # {}
         /\ \A n \in value[i] : LowBits(n, sizes[i]) = n
<1>1. sizes[i] \in Nat \ {0} /\ codes(sizes[i]) \in Nat
  BY CodesAssumption
<1>2. value[i] = 0 .. sizes[i] - 1
  BY CodesAssumption DEF value, Standard
<1>3. value[i] \subseteq 0 .. codes(sizes[i]) - 1
  BY DEF value, Valid
<1>4. code[i] = 0 .. codes(sizes[i]) - 1
  BY DEF code
<1>5. \A n \in value[i] : LowBits(n, sizes[i]) = n
  BY <1>1, <1>3, Remainder DEF LowBits
<1>6. 0 \in value[i]
  BY <1>1, <1>2
<1>7. QED
  BY <1>2, <1>3, <1>4, <1>5, <1>6

LEMMA NumberCodes ==
  ASSUME NEW i \in Variables
  PROVE  /\ \A n \in Numbers(i) : LowBits(n, sizes[i]) = n - first
         /\ Counted(Numbers(i)) \subseteq value[i]
<1>1. value[i] = 0 .. sizes[i] - 1 /\ \A n \in value[i] : LowBits(n, sizes[i]) = n
  BY ValueCodes
<1>2. \A n \in Numbers(i) : n \in value[i] /\ n - first = n
  BY <1>1, CodesAssumption DEF Numbers, first
<1>3. QED
  BY <1>1, <1>2 DEF Counted

LEMMA SameCodes ==
  ASSUME NEW i \in Variables, NEW j \in Variables, SameType(i, j)
  PROVE  value[i] = value[j] /\ code[i] = code[j]
BY DEF SameType, value, code


\* Two codings make a third.
LEMMA MixCoding ==
  ASSUME NEW v \in Codings, NEW w \in Codings, NEW D
  PROVE  /\ Mix(D, v, w) \in Codings
         /\ \A i \in Variables : Mix(D, v, w)[i] = IF i \in D THEN v[i] ELSE w[i]
<1>1. \A i \in Variables : (IF i \in D THEN v[i] ELSE w[i]) \in code[i]
  BY DEF Codings
<1>2. Mix(D, v, w) \in [Variables -> UNION {code[j] : j \in Variables}]
  BY <1>1 DEF Mix
<1>3. QED
  BY <1>1, <1>2 DEF Codings, Mix

\* Locality: with more variables, of the connectives, of the range.
LEMMA LocalMono ==
  ASSUME NEW b, NEW D, NEW E, D \subseteq E, Local(b, D)
  PROVE  Local(b, E)
BY DEF Local

LEMMA LocalBoolean ==
  ASSUME NEW A \in SUBSET Codings, NEW B \in SUBSET Codings, NEW D,
         Local(A, D), Local(B, D)
  PROVE  /\ Local(A \cap B, D) /\ Local(A \cup B, D) /\ Local(A \ B, D)
         /\ Local(Codings \ A, D)
BY DEF Local

LEMMA LocalConstants == ASSUME NEW D PROVE Local({}, D) /\ Local(Codings, D)
BY DEF Local

LEMMA LocalInRange == ASSUME NEW D PROVE Local(InRange(D), D)
BY DEF Local, InRange

\* Quantification leaves no trace of its variables.
LEMMA LocalSome ==
  ASSUME NEW b \in SUBSET Codings, NEW S \in SUBSET Variables, NEW X, Local(b, S)
  PROVE  Local(SomeCodes(b, X), S \ X)
<1> SUFFICES ASSUME NEW v \in SomeCodes(b, X), NEW w \in Codings,
                    \A i \in S \ X : v[i] = w[i]
             PROVE  w \in SomeCodes(b, X)
  BY DEF Local
<1>1. PICK u \in b : Agree(v, u, X)
  BY DEF SomeCodes
<1> DEFINE m == Mix(X, u, w)
<1>2. m \in Codings /\ \A i \in Variables : m[i] = IF i \in X THEN u[i] ELSE w[i]
  BY MixCoding
<1>3. \A i \in S : u[i] = m[i]
  BY <1>1, <1>2 DEF Agree
<1>4. m \in b
  BY <1>2, <1>3 DEF Local
<1>5. Agree(w, m, X)
  BY <1>2 DEF Agree
<1>6. QED
  BY <1>4, <1>5 DEF SomeCodes

LEMMA AllIsNotSome ==
  ASSUME NEW b \in SUBSET Codings, NEW X
  PROVE  AllCodes(b, X) = Codings \ SomeCodes(Codings \ b, X)
BY DEF AllCodes, SomeCodes

LEMMA LocalAll ==
  ASSUME NEW b \in SUBSET Codings, NEW S \in SUBSET Variables, NEW X, Local(b, S)
  PROVE  Local(AllCodes(b, X), S \ X)
<1>1. Local(Codings \ b, S)
  BY LocalBoolean
<1>2. Local(SomeCodes(Codings \ b, X), S \ X)
  BY <1>1, LocalSome
<1>3. SomeCodes(Codings \ b, X) \in SUBSET Codings
  BY DEF SomeCodes
<1>4. QED
  BY <1>2, <1>3, AllIsNotSome, LocalBoolean

-------------------------------------------------------------------------------
(***************************************************************************)
(* The operations return sound predicates, and honest ones but for the     *)
(* universal quantors                                                      *)
(***************************************************************************)
LEMMA Rangified ==
  ASSUME NEW S \in SUBSET Variables, NEW B \in SUBSET Codings, Local(B, S)
  PROVE  /\ Sound(rangify([scope |-> S, b |-> B]))
         /\ Honest(rangify([scope |-> S, b |-> B]).b)
         /\ Extension(rangify([scope |-> S, b |-> B])) = B \cap Values
<1> DEFINE r == [scope |-> S, b |-> B \cap InRange(S)]
<1>1. rangify([scope |-> S, b |-> B]) = r
  BY DEF rangify
<1>2. InRange(S) \in SUBSET Codings
  BY DEF InRange
<1>3. Local(r.b, S)
  BY <1>2, LocalInRange, LocalBoolean
<1>4. Sound(r)
  BY <1>2, <1>3 DEF Sound, Predicate
<1>5. Honest(r.b)
  BY <1>3 DEF Honest
<1>6. Extension(r) = B \cap Values
  BY DEF Extension, Values, InRange
<1>7. QED
  BY <1>1, <1>4, <1>5, <1>6

LEMMA WithB ==
  ASSUME NEW p \in Predicate, NEW B
  PROVE  [p EXCEPT !.b = B] = [scope |-> p.scope, b |-> B]
BY DEF Predicate

LEMMA NegationSound ==
  ASSUME NEW p, Sound(p)
  PROVE  /\ Sound(Negation(p)) /\ Honest(Negation(p).b)
         /\ Extension(Negation(p)) = Values \ Extension(p)
<1>1. Negation(p) = rangify([scope |-> p.scope, b |-> Codings \ p.b])
  BY WithB DEF Negation, Sound, Predicate
<1>2. p.scope \in SUBSET Variables /\ p.b \in SUBSET Codings
  BY DEF Sound, Predicate
<1>3. Local(Codings \ p.b, p.scope)
  BY <1>2, LocalBoolean DEF Sound
<1>4. (Codings \ p.b) \cap Values = Values \ Extension(p)
  BY DEF Values, InRange, Extension
<1>5. QED
  BY <1>1, <1>2, <1>3, <1>4, Rangified

LEMMA CommonScope ==
  ASSUME NEW p, NEW q, Sound(p), Sound(q), Compatible(p, q)
  PROVE  /\ Common(p, q) \in SUBSET Variables
         /\ Local(p.b, Common(p, q)) /\ Local(q.b, Common(p, q))
<1>1. p.scope \subseteq Common(p, q) /\ q.scope \subseteq Common(p, q)
  BY DEF Compatible, Common
<1>2. QED
  BY <1>1, LocalMono DEF Sound, Predicate, Common

LEMMA LocalJoined ==
  ASSUME NEW A \in SUBSET Codings, NEW B \in SUBSET Codings, NEW D,
         Local(A, D), Local(B, D), NEW op \in Connectives
  PROVE  /\ Joined(op, A, B, Codings) \in SUBSET Codings
         /\ Local(Joined(op, A, B, Codings), D)
<1>1. CASE op = "andop"
  BY <1>1, LocalBoolean DEF Joined
<1>2. CASE op = "orop"
  BY <1>2, LocalBoolean DEF Joined
<1>3. CASE op = "implies"
  BY <1>3, LocalBoolean DEF Joined
<1>4. CASE op = "equiv"
  <2>1. Local(A \cap B, D) /\ Local(Codings \ (A \cup B), D)
    BY LocalBoolean
  <2>2. QED
    BY <1>4, <2>1, LocalBoolean DEF Joined
<1>5. CASE op = "notequiv"
  <2>1. Local(A \ B, D) /\ Local(B \ A, D)
    BY LocalBoolean
  <2>2. QED
    BY <1>5, <2>1, LocalBoolean DEF Joined
<1>6. QED
  BY <1>1, <1>2, <1>3, <1>4, <1>5 DEF Connectives

LEMMA BinarySound ==
  ASSUME NEW p, NEW q, Sound(p), Sound(q), Compatible(p, q), NEW op \in Connectives
  PROVE  /\ Sound(Binary(op, p, q)) /\ Honest(Binary(op, p, q).b)
         /\ Extension(Binary(op, p, q)) = Joined(op, Extension(p), Extension(q), Values)
<1>1. p.b \in SUBSET Codings /\ q.b \in SUBSET Codings
  BY DEF Sound, Predicate
<1> DEFINE J == Joined(op, p.b, q.b, Codings)
<1>2. J \in SUBSET Codings /\ Local(J, Common(p, q))
  BY <1>1, CommonScope, LocalJoined
<1>3. J \cap Values = Joined(op, Extension(p), Extension(q), Values)
  <2>1. Values \subseteq Codings
    BY DEF Values, InRange
  <2>2. QED
    BY <2>1 DEF Joined, Extension, Connectives
<1>4. QED
  BY <1>2, <1>3, CommonScope, Rangified DEF Binary

LEMMA IfThenElseSound ==
  ASSUME NEW c, NEW t, NEW e, Sound(c), Sound(t), Sound(e),
         Compatible(c, t), Compatible(t, e), Compatible(c, e)
  PROVE  /\ Sound(IfThenElse(c, t, e)) /\ Honest(IfThenElse(c, t, e).b)
         /\ Extension(IfThenElse(c, t, e)) =
              (Extension(c) \cap Extension(t)) \cup (Extension(e) \ Extension(c))
<1> DEFINE S == Common(c, [scope |-> Common(t, e)])
           B == (c.b \cap t.b) \cup (e.b \ c.b)
<1>1. /\ c.b \in SUBSET Codings /\ t.b \in SUBSET Codings /\ e.b \in SUBSET Codings
      /\ c.scope \in SUBSET Variables /\ t.scope \in SUBSET Variables
      /\ e.scope \in SUBSET Variables
  BY DEF Sound, Predicate
<1>2. /\ S \in SUBSET Variables
      /\ c.scope \subseteq S /\ t.scope \subseteq S /\ e.scope \subseteq S
  BY <1>1 DEF Common, Compatible
<1>3. Local(c.b, S) /\ Local(t.b, S) /\ Local(e.b, S)
  BY <1>2, LocalMono DEF Sound
<1>4. Local(c.b \cap t.b, S) /\ Local(e.b \ c.b, S)
  BY <1>1, <1>3, LocalBoolean
<1>5. Local(B, S) /\ B \in SUBSET Codings
  BY <1>1, <1>4, LocalBoolean
<1>6. B \cap Values = (Extension(c) \cap Extension(t)) \cup (Extension(e) \ Extension(c))
  BY DEF Extension
<1>7. QED
  BY <1>2, <1>5, <1>6, Rangified DEF IfThenElse

LEMMA LeavesSound ==
  ASSUME NEW S \in SUBSET Variables
  PROVE  /\ \A t \in BOOLEAN : Sound(FromBool(t, S)) /\ Honest(FromBool(t, S).b)
         /\ \A i \in S : \A n : Sound(EqualsConstant(i, n, S)) /\ Honest(EqualsConstant(i, n, S).b)
         /\ \A i, j \in S : Sound(EqualVariables(i, j, S)) /\ Honest(EqualVariables(i, j, S).b)
<1>1. ASSUME NEW t \in BOOLEAN
      PROVE  Sound(FromBool(t, S)) /\ Honest(FromBool(t, S).b)
  BY LocalConstants, Rangified DEF FromBool
<1>2. ASSUME NEW i \in S, NEW n
      PROVE  Sound(EqualsConstant(i, n, S)) /\ Honest(EqualsConstant(i, n, S).b)
  <2>1. Local({v \in Codings : v[i] = LowBits(n, sizes[i])}, S)
    BY DEF Local
  <2>2. QED
    BY <2>1, Rangified DEF EqualsConstant
<1>3. ASSUME NEW i \in S, NEW j \in S
      PROVE  Sound(EqualVariables(i, j, S)) /\ Honest(EqualVariables(i, j, S).b)
  <2>1. Local({v \in Codings : v[i] = v[j]}, S)
    BY DEF Local
  <2>2. QED
    BY <2>1, Rangified DEF EqualVariables
<1>4. QED
  BY <1>1, <1>2, <1>3

LEMMA ComparisonsMean == ComparisonsExact
<1> SUFFICES ASSUME NEW S \in SUBSET Variables, NEW i \in S
             PROVE  /\ \A n \in Numbers(i) :
                         Extension(EqualsConstant(i, n, S)) = {v \in Values : v[i] = n - first}
                    /\ \A j \in S :
                         Extension(EqualVariables(i, j, S)) = {v \in Values : v[i] = v[j]}
  BY DEF ComparisonsExact
<1>1. Values \subseteq Codings
  BY DEF Values, InRange
<1>2. ASSUME NEW n \in Numbers(i)
      PROVE  Extension(EqualsConstant(i, n, S)) = {v \in Values : v[i] = n - first}
  <2> DEFINE B == {v \in Codings : v[i] = n - first}
  <2>1. EqualsConstant(i, n, S) = rangify([scope |-> S, b |-> B])
    BY NumberCodes DEF EqualsConstant
  <2>2. Local(B, S)
    BY DEF Local
  <2>3. B \cap Values = {v \in Values : v[i] = n - first}
    BY <1>1
  <2>4. QED
    BY <2>1, <2>2, <2>3, Rangified
<1>3. ASSUME NEW j \in S
      PROVE  Extension(EqualVariables(i, j, S)) = {v \in Values : v[i] = v[j]}
  <2> DEFINE B == {v \in Codings : v[i] = v[j]}
  <2>1. Local(B, S)
    BY DEF Local
  <2>2. B \cap Values = {v \in Values : v[i] = v[j]}
    BY <1>1
  <2>3. QED
    BY <2>1, <2>2, Rangified DEF EqualVariables
<1>4. QED
  BY <1>2, <1>3

(***************************************************************************)
(* Existential quantors                                                    *)
(***************************************************************************)
LEMMA HonestSome ==
  ASSUME NEW b \in SUBSET Codings, NEW X, Honest(b)
  PROVE  /\ Honest(SomeCodes(b, X))
         /\ SomeCodes(b, X) \cap Values = Some(b \cap Values, X)
<1>1. PICK D \in SUBSET Variables : b \subseteq InRange(D) /\ Local(b, D)
  BY DEF Honest
<1>2. Honest(SomeCodes(b, X))
  <2>1. Local(SomeCodes(b, X), D \ X)
    BY <1>1, LocalSome
  <2>2. SomeCodes(b, X) \subseteq InRange(D \ X)
    BY <1>1 DEF SomeCodes, InRange, Agree
  <2>3. D \ X \in SUBSET Variables
    OBVIOUS
  <2>4. QED
    BY <2>1, <2>2, <2>3 DEF Honest
<1>3. ASSUME NEW v \in Values, NEW w \in b, Agree(v, w, X)
      PROVE  \E m \in b \cap Values : Agree(v, m, X)
  <2> DEFINE m == Mix(D, w, v)
  <2>1. v \in Codings /\ w \in Codings
    BY DEF Values, InRange
  <2>2. m \in Codings /\ \A i \in Variables : m[i] = IF i \in D THEN w[i] ELSE v[i]
    BY <2>1, MixCoding
  <2>3. m \in b
    BY <1>1, <2>2 DEF Local
  <2>4. m \in Values
    BY <1>1, <2>2 DEF Values, InRange
  <2>5. Agree(v, m, X)
    BY <1>3, <2>2 DEF Agree
  <2>6. QED
    BY <2>3, <2>4, <2>5
<1>4. SomeCodes(b, X) \cap Values \subseteq Some(b \cap Values, X)
  BY <1>3 DEF SomeCodes, Some
<1>5. Some(b \cap Values, X) \subseteq SomeCodes(b, X) \cap Values
  BY DEF SomeCodes, Some, Values, InRange
<1>6. QED
  BY <1>2, <1>4, <1>5

LEMMA HonestAnd ==
  ASSUME NEW A \in SUBSET Codings, NEW B \in SUBSET Codings, Honest(A), Honest(B)
  PROVE  Honest(A \cap B)
<1>1. PICK D \in SUBSET Variables : A \subseteq InRange(D) /\ Local(A, D)
  BY DEF Honest
<1>2. PICK E \in SUBSET Variables : B \subseteq InRange(E) /\ Local(B, E)
  BY DEF Honest
<1>3. A \cap B \subseteq InRange(D \cup E)
  BY <1>1, <1>2 DEF InRange
<1>4. Local(A \cap B, D \cup E)
  <2>1. Local(A, D \cup E) /\ Local(B, D \cup E)
    BY <1>1, <1>2, LocalMono
  <2>2. QED
    BY <2>1, LocalBoolean
<1>5. QED
  BY <1>3, <1>4 DEF Honest

LEMMA ScopeFits ==
  ASSUME NEW p, Sound(p), NEW S \in SUBSET Variables, Fitting(p, S)
  PROVE  p.b \in SUBSET Codings /\ Local(p.b, S)
<1>1. p.b \in SUBSET Codings /\ p.scope \subseteq S
  BY DEF Sound, Predicate, Fitting
<1>2. QED
  BY <1>1, LocalMono DEF Sound

LEMMA ExistentialsSound ==
  ASSUME NEW p, NEW q, Sound(p), Sound(q), NEW S \in SUBSET Variables,
         Fitting(p, S), Fitting(q, S), NEW X
  PROVE  /\ Sound(Exists(p, S, X)) /\ Sound(RelationalProduct(p, q, S, X))
         /\ Honest(p.b) => Honest(Exists(p, S, X).b)
         /\ Honest(p.b) /\ Honest(q.b) => Honest(RelationalProduct(p, q, S, X).b)
<1>1. /\ p.b \in SUBSET Codings /\ q.b \in SUBSET Codings /\ p.b \cap q.b \in SUBSET Codings
      /\ Local(p.b, S) /\ Local(q.b, S)
  BY ScopeFits
<1>2. Local(p.b \cap q.b, S)
  BY <1>1, LocalBoolean
<1>3. Local(SomeCodes(p.b, X), S \ X) /\ Local(SomeCodes(p.b \cap q.b, X), S \ X)
  BY <1>1, <1>2, LocalSome
<1>4. \A b : SomeCodes(b, X) \in SUBSET Codings
  BY DEF SomeCodes
<1>5. S \ X \in SUBSET Variables
  OBVIOUS
<1>6. Sound(Exists(p, S, X)) /\ Sound(RelationalProduct(p, q, S, X))
  BY <1>3, <1>4, <1>5 DEF Sound, Predicate, Exists, RelationalProduct
<1>7. Honest(p.b) => Honest(Exists(p, S, X).b)
  BY <1>1, HonestSome DEF Exists
<1>8. Honest(p.b) /\ Honest(q.b) => Honest(RelationalProduct(p, q, S, X).b)
  BY <1>1, HonestAnd, HonestSome DEF RelationalProduct
<1>9. QED
  BY <1>6, <1>7, <1>8

LEMMA ExistentialsMean ==
  ASSUME NEW p, NEW q, Sound(p), Sound(q)
  PROVE  ExistentialsExact(p, q)
<1> SUFFICES ASSUME Honest(p.b), Honest(q.b),
                    NEW S \in SUBSET Variables, NEW X \in Projections(S)
             PROVE  /\ Extension(Exists(p, S, X)) = Some(Extension(p), X)
                    /\ Extension(RelationalProduct(p, q, S, X)) =
                         Some(Extension(p) \cap Extension(q), X)
  BY DEF ExistentialsExact
<1>1. /\ p.b \in SUBSET Codings /\ q.b \in SUBSET Codings /\ p.b \cap q.b \in SUBSET Codings
  BY DEF Sound, Predicate
<1>2. Extension(Exists(p, S, X)) = Some(Extension(p), X)
  BY <1>1, HonestSome DEF Extension, Exists
<1>3. Honest(p.b \cap q.b)
  BY <1>1, HonestAnd
<1>4. SomeCodes(p.b \cap q.b, X) \cap Values = Some((p.b \cap q.b) \cap Values, X)
  BY <1>1, <1>3, HonestSome
<1>5. (p.b \cap q.b) \cap Values = Extension(p) \cap Extension(q)
  BY DEF Extension
<1>6. Extension(RelationalProduct(p, q, S, X)) = Some(Extension(p) \cap Extension(q), X)
  BY <1>4, <1>5 DEF Extension, RelationalProduct
<1>7. QED
  BY <1>2, <1>6

(***************************************************************************)
(* Universal quantors                                                      *)
(***************************************************************************)
LEMMA AllOfRange ==
  ASSUME NEW S \in SUBSET Variables, NEW b \in SUBSET Codings, Local(b, S), NEW X,
         X \subseteq S
  PROVE  LET r == [scope |-> S \ X, b |-> AllCodes(b \cup (Codings \ InRange(S)), X)]
         IN  Sound(r) /\ Extension(r) = All(b \cap Values, X)
<1> DEFINE B == b \cup (Codings \ InRange(S))
           r == [scope |-> S \ X, b |-> AllCodes(B, X)]
<1>1. B \in SUBSET Codings /\ Local(B, S)
  <2>1. InRange(S) \in SUBSET Codings
    BY DEF InRange
  <2>2. Local(Codings \ InRange(S), S)
    BY <2>1, LocalInRange, LocalBoolean
  <2>3. QED
    BY <2>1, <2>2, LocalBoolean
<1>2. Sound(r)
  <2>1. Local(AllCodes(B, X), S \ X)
    BY <1>1, LocalAll
  <2>2. AllCodes(B, X) \in SUBSET Codings
    BY DEF AllCodes
  <2>3. QED
    BY <2>1, <2>2 DEF Sound, Predicate
<1>3. AllCodes(B, X) \cap Values \subseteq All(b \cap Values, X)
  BY DEF AllCodes, All, Values, InRange
<1>4. ASSUME NEW v \in All(b \cap Values, X), NEW w \in Codings, Agree(v, w, X)
      PROVE  w \in B
  <2>1. SUFFICES ASSUME w \in InRange(S)
                 PROVE  w \in b
    OBVIOUS
  <2>2. v \in Values
    BY DEF All
  <2>3. ASSUME NEW i \in Variables
        PROVE  w[i] \in value[i]
    BY <1>4, <2>1, <2>2 DEF Agree, Values, InRange
  <2>4. w \in Values
    BY <2>3 DEF Values, InRange
  <2>5. QED
    BY <1>4, <2>4 DEF All
<1>5. All(b \cap Values, X) \subseteq AllCodes(B, X) \cap Values
  BY <1>4 DEF All, AllCodes, Values, InRange
<1>6. QED
  BY <1>2, <1>3, <1>5 DEF Extension

LEMMA ForallSound ==
  ASSUME NEW p, Sound(p), NEW S \in SUBSET Variables, Fitting(p, S), NEW X \in Projections(S)
  PROVE  Sound(Forall(p, S, X)) /\ Extension(Forall(p, S, X)) = All(Extension(p), X)
<1>1. p.b \in SUBSET Codings /\ Local(p.b, S) /\ X \subseteq S
  BY ScopeFits DEF Projections
<1>2. QED
  BY <1>1, AllOfRange DEF Forall, FromRange, Extension

LEMMA ForallImpliesSound ==
  ASSUME NEW p, NEW q, Sound(p), Sound(q), NEW S \in SUBSET Variables,
         Fitting(p, S), Fitting(q, S), NEW X \in Projections(S)
  PROVE  /\ Sound(ForallImplies(p, q, S, X))
         /\ Extension(ForallImplies(p, q, S, X)) =
              All((Values \ Extension(p)) \cup Extension(q), X)
<1> DEFINE b == (Codings \ p.b) \cup q.b
<1>1. /\ p.b \in SUBSET Codings /\ q.b \in SUBSET Codings
      /\ Local(p.b, S) /\ Local(q.b, S) /\ X \subseteq S
  BY ScopeFits DEF Projections
<1>2. b \in SUBSET Codings /\ Local(b, S)
  <2>1. Local(Codings \ p.b, S)
    BY <1>1, LocalBoolean
  <2>2. QED
    BY <1>1, <2>1, LocalBoolean
<1>3. b \cap Values = (Values \ Extension(p)) \cup Extension(q)
  BY DEF Extension, Values, InRange
<1>4. ForallImplies(p, q, S, X) =
        [scope |-> S \ X, b |-> AllCodes(b \cup (Codings \ InRange(S)), X)]
  <2>1. (Codings \ p.b) \cup FromRange(q, S) = b \cup (Codings \ InRange(S))
    BY DEF FromRange
  <2>2. QED
    BY <2>1 DEF ForallImplies
<1> HIDE DEF b
<1> DEFINE r == [scope |-> S \ X, b |-> AllCodes(b \cup (Codings \ InRange(S)), X)]
<1>5. Sound(r) /\ Extension(r) = All(b \cap Values, X)
  BY <1>1, <1>2, AllOfRange
<1>6. QED
  BY <1>3, <1>4, <1>5

LEMMA ForallOrSound ==
  ASSUME NEW p, NEW q, Sound(p), Sound(q), NEW S \in SUBSET Variables,
         Fitting(p, S), Fitting(q, S), NEW X \in Projections(S)
  PROVE  /\ Sound(ForallOr(p, q, S, X))
         /\ Extension(ForallOr(p, q, S, X)) = All(Extension(p) \cup Extension(q), X)
<1> DEFINE b == p.b \cup q.b
<1>1. /\ p.b \in SUBSET Codings /\ q.b \in SUBSET Codings
      /\ Local(p.b, S) /\ Local(q.b, S) /\ X \subseteq S
  BY ScopeFits DEF Projections
<1>2. b \in SUBSET Codings /\ Local(b, S)
  BY <1>1, LocalBoolean
<1>3. b \cap Values = Extension(p) \cup Extension(q)
  BY DEF Extension, Values, InRange
<1>4. ForallOr(p, q, S, X) =
        [scope |-> S \ X, b |-> AllCodes(b \cup (Codings \ InRange(S)), X)]
  <2>1. p.b \cup FromRange(q, S) = b \cup (Codings \ InRange(S))
    BY DEF FromRange
  <2>2. QED
    BY <2>1 DEF ForallOr
<1> HIDE DEF b
<1> DEFINE r == [scope |-> S \ X, b |-> AllCodes(b \cup (Codings \ InRange(S)), X)]
<1>5. Sound(r) /\ Extension(r) = All(b \cap Values, X)
  BY <1>1, <1>2, AllOfRange
<1>6. QED
  BY <1>3, <1>4, <1>5

LEMMA UniversalsMean ==
  ASSUME NEW p, NEW q, Sound(p), Sound(q)
  PROVE  UniversalsExact(p, q)
BY ForallSound, ForallImpliesSound, ForallOrSound DEF UniversalsExact

(***************************************************************************)
(* Applications                                                            *)
(***************************************************************************)
LEMMA SubstitutionParts ==
  ASSUME NEW S \in SUBSET Variables, NEW usage \in SUBSET Variables,
         NEW f \in Substitutions(S, usage)
  PROVE  /\ DOMAIN f.map \subseteq S /\ DOMAIN f.restriction = S \ DOMAIN f.map
         /\ \A i \in DOMAIN f.map : f.map[i] \in usage /\ SameType(i, f.map[i])
         /\ \A i \in S \ DOMAIN f.map : f.restriction[i] \in value[i]
<1>1. PICK D \in SUBSET S :
        /\ f \in [map : [D -> usage], restriction : [S \ D -> Counted(Literals)]]
        /\ \A i \in D : SameType(i, f.map[i])
        /\ \A i \in S \ D : f.restriction[i] \in Counted(Numbers(i))
  BY DEF Substitutions
<1>2. DOMAIN f.map = D /\ DOMAIN f.restriction = S \ D
  BY <1>1
<1>3. QED
  BY <1>1, <1>2, NumberCodes

LEMMA ReadsCoding ==
  ASSUME NEW S \in SUBSET Variables, NEW usage \in SUBSET Variables,
         NEW f \in Substitutions(S, usage), NEW v \in Codings
  PROVE  /\ Reads(v, f) \in Codings
         /\ \A i \in DOMAIN f.map : Reads(v, f)[i] = v[f.map[i]]
         /\ \A i \in S \ DOMAIN f.map : Reads(v, f)[i] = LowBits(f.restriction[i], sizes[i])
         /\ \A i \in Variables \ S : Reads(v, f)[i] = v[i]
         /\ v \in Values => Reads(v, f) \in Values
<1> DEFINE r(i) == IF i \in DOMAIN f.map THEN v[f.map[i]]
                   ELSE IF i \in DOMAIN f.restriction THEN LowBits(f.restriction[i], sizes[i])
                   ELSE v[i]
<1>1. /\ DOMAIN f.map \subseteq S /\ DOMAIN f.restriction = S \ DOMAIN f.map
      /\ \A i \in DOMAIN f.map : f.map[i] \in Variables /\ SameType(i, f.map[i])
      /\ \A i \in S \ DOMAIN f.map : LowBits(f.restriction[i], sizes[i]) \in value[i]
  <2>1. /\ DOMAIN f.map \subseteq S /\ DOMAIN f.restriction = S \ DOMAIN f.map
        /\ \A i \in DOMAIN f.map : f.map[i] \in usage /\ SameType(i, f.map[i])
        /\ \A i \in S \ DOMAIN f.map : f.restriction[i] \in value[i]
    BY SubstitutionParts
  <2>2. \A i \in S \ DOMAIN f.map : LowBits(f.restriction[i], sizes[i]) \in value[i]
    BY <2>1, ValueCodes
  <2>3. QED
    BY <2>1, <2>2
<1>2. Reads(v, f) = [i \in Variables |-> r(i)]
  BY DEF Reads
<1>3. \A i \in Variables : v[i] \in code[i] /\ value[i] \subseteq code[i]
  BY ValueCodes DEF Codings
<1>4. ASSUME NEW i \in Variables
      PROVE  r(i) \in code[i] /\ (v \in Values => r(i) \in value[i])
  <2>1. CASE i \in DOMAIN f.map
    BY <1>1, <1>3, <2>1, SameCodes DEF Values, InRange
  <2>2. CASE i \in S \ DOMAIN f.map
    BY <1>1, <1>3, <2>2
  <2>3. CASE i \notin S
    BY <1>1, <1>3, <2>3 DEF Values, InRange
  <2>4. QED
    BY <2>1, <2>2, <2>3
<1>5. [i \in Variables |-> r(i)] \in [Variables -> UNION {code[j] : j \in Variables}]
  BY <1>4
<1>6. Reads(v, f) \in Codings
  BY <1>2, <1>4, <1>5 DEF Codings
<1>7. v \in Values => Reads(v, f) \in Values
  BY <1>2, <1>4, <1>6 DEF Values, InRange
<1>8. QED
  BY <1>1, <1>2, <1>6, <1>7

LEMMA ApplicationSound ==
  ASSUME NEW p, Sound(p), NEW S \in SUBSET Variables, Fitting(p, S),
         NEW usage \in SUBSET Variables, NEW f \in Substitutions(S, usage)
  PROVE  /\ Sound(Application(p, f, usage))
         /\ Honest(p.b) => Honest(Application(p, f, usage).b)
         /\ Extension(Application(p, f, usage)) = {v \in Values : Reads(v, f) \in Extension(p)}
<1> DEFINE B == {v \in Codings : Reads(v, f) \in p.b}
<1>1. p.b \in SUBSET Codings /\ Local(p.b, S)
  BY ScopeFits
<1>2. /\ DOMAIN f.map \subseteq S /\ DOMAIN f.restriction = S \ DOMAIN f.map
      /\ \A i \in DOMAIN f.map : f.map[i] \in usage /\ SameType(i, f.map[i])
  BY SubstitutionParts
<1>3. \A v \in Codings :
        /\ Reads(v, f) \in Codings
        /\ \A i \in DOMAIN f.map : Reads(v, f)[i] = v[f.map[i]]
        /\ \A i \in S \ DOMAIN f.map : Reads(v, f)[i] = LowBits(f.restriction[i], sizes[i])
        /\ \A i \in Variables \ S : Reads(v, f)[i] = v[i]
        /\ v \in Values => Reads(v, f) \in Values
  BY ReadsCoding
<1>4. Local(B, usage)
  <2> SUFFICES ASSUME NEW v \in B, NEW w \in Codings, \A i \in usage : v[i] = w[i]
               PROVE  w \in B
    BY DEF Local
  <2>1. \A i \in S : Reads(v, f)[i] = Reads(w, f)[i]
    BY <1>1, <1>2, <1>3
  <2>2. Reads(w, f) \in p.b
    BY <1>1, <1>3, <2>1 DEF Local
  <2>3. QED
    BY <2>2
<1>5. Sound(Application(p, f, usage))
  BY <1>4 DEF Sound, Predicate, Application
<1>6. ASSUME Honest(p.b)
      PROVE  Honest(B)
  <2>1. PICK D \in SUBSET Variables : p.b \subseteq InRange(D) /\ Local(p.b, D)
    BY <1>6 DEF Honest
  <2> DEFINE E == {f.map[i] : i \in D \cap DOMAIN f.map} \cup (D \ S)
  <2>2. E \in SUBSET Variables
    BY <1>2
  <2>3. ASSUME NEW v \in B, NEW e \in E
        PROVE  v[e] \in value[e]
    <3>1. \A i \in D : Reads(v, f)[i] \in value[i]
      BY <2>1 DEF InRange
    <3>2. CASE e \in D \ S
      BY <1>3, <3>1, <3>2
    <3>3. ASSUME NEW i \in D \cap DOMAIN f.map, e = f.map[i]
          PROVE  v[e] \in value[e]
      BY <1>2, <1>3, <3>1, <3>3, SameCodes
    <3>4. QED
      BY <3>2, <3>3
  <2>4. B \subseteq InRange(E)
    BY <2>3 DEF InRange
  <2>5. Local(B, E)
    <3> SUFFICES ASSUME NEW v \in B, NEW w \in Codings, \A i \in E : v[i] = w[i]
                 PROVE  w \in B
      BY DEF Local
    <3>1. ASSUME NEW i \in D
          PROVE  Reads(v, f)[i] = Reads(w, f)[i]
      <4>1. CASE i \in DOMAIN f.map
        BY <1>3, <4>1
      <4>2. CASE i \in S \ DOMAIN f.map
        BY <1>3, <4>2
      <4>3. CASE i \notin S
        BY <1>3, <4>3
      <4>4. QED
        BY <4>1, <4>2, <4>3
    <3>2. Reads(w, f) \in p.b
      BY <1>3, <2>1, <3>1 DEF Local
    <3>3. QED
      BY <3>2
  <2>6. QED
    BY <2>2, <2>4, <2>5 DEF Honest
<1>7. B \cap Values = {v \in Values : Reads(v, f) \in Extension(p)}
  <2>1. Values \subseteq Codings
    BY DEF Values, InRange
  <2>2. QED
    BY <1>3, <2>1 DEF Extension
<1>8. QED
  BY <1>5, <1>6, <1>7 DEF Application, Extension

(***************************************************************************)
(* Verdicts                                                                *)
(***************************************************************************)
LEMMA SomeValues == \E v \in Codings : \A i \in Variables : v[i] \in value[i]
<1> DEFINE c == [i \in Variables |-> CHOOSE x \in value[i] : TRUE]
<1>1. \A i \in Variables : c[i] \in value[i] /\ c[i] \in code[i]
  BY ValueCodes
<1>2. c \in [Variables -> UNION {code[j] : j \in Variables}]
  BY <1>1
<1>3. c \in Codings
  BY <1>1, <1>2 DEF Codings
<1>4. QED
  BY <1>1, <1>3

LEMMA VerdictsSound ==
  ASSUME NEW p, Sound(p)
  PROVE  VerdictsExact(p)
<1>1. PICK c \in Codings : \A i \in Variables : c[i] \in value[i]
  BY SomeValues
<1>2. p.b \in SUBSET Codings /\ p.scope \in SUBSET Variables /\ Local(p.b, p.scope)
  BY DEF Sound, Predicate
<1>3. ASSUME NEW D \in SUBSET Variables, NEW w \in InRange(D)
      PROVE  /\ Mix(D, w, c) \in Values
             /\ \A i \in D : Mix(D, w, c)[i] = w[i]
  <2>1. w \in Codings
    BY DEF InRange
  <2>2. /\ Mix(D, w, c) \in Codings
        /\ \A i \in Variables : Mix(D, w, c)[i] = IF i \in D THEN w[i] ELSE c[i]
    BY <2>1, MixCoding
  <2>3. QED
    BY <1>1, <2>2 DEF Values, InRange
<1>4. isTrue(p) => Extension(p) = Values
  BY <1>2 DEF isTrue, Extension, Values, InRange
<1>5. ASSUME Extension(p) = Values, NEW w \in InRange(p.scope)
      PROVE  w \in p.b
  <2>1. Mix(p.scope, w, c) \in p.b /\ \A i \in p.scope : Mix(p.scope, w, c)[i] = w[i]
    BY <1>2, <1>3, <1>5 DEF Extension
  <2>2. w \in Codings
    BY DEF InRange
  <2>3. QED
    BY <1>2, <2>1, <2>2 DEF Local
<1>6. ASSUME Honest(p.b), NEW v \in p.b
      PROVE  Extension(p) # {}
  <2>1. PICK D \in SUBSET Variables : p.b \subseteq InRange(D) /\ Local(p.b, D)
    BY <1>6 DEF Honest
  <2>2. Mix(D, v, c) \in Values /\ \A i \in D : Mix(D, v, c)[i] = v[i]
    BY <1>3, <2>1
  <2>3. Mix(D, v, c) \in p.b
    BY <2>1, <2>2 DEF Local, Values, InRange
  <2>4. QED
    BY <2>2, <2>3 DEF Extension
<1>7. isTrue(p) <=> Extension(p) = Values
  BY <1>4, <1>5 DEF isTrue
<1>8. Honest(p.b) => (isFalse(p) <=> Extension(p) = {})
  BY <1>6 DEF isFalse, Extension
<1>9. QED
  BY <1>7, <1>8 DEF VerdictsExact

-------------------------------------------------------------------------------
(***************************************************************************)
(* The handlers                                                            *)
(***************************************************************************)
\* What a handler puts into its slot: a sound predicate, and an honest one if all
\* are and the handler is not that of a universal quantor.
Fits(s) == \E p : /\ Gets(s, p) /\ Sound(p)
                  /\ AllHonest => Honest(p.b) \/ Universal(s)

LEMMA HandlersFit ==
  ASSUME ScopesRespected, NEW s \in Slots,
         \/ assign(s) \/ eval_constant(s) \/ eval_cmp_vwc(s) \/ eval_cmp_vwv(s)
         \/ eval_not(s) \/ eval_binary(s) \/ eval_ite(s)
         \/ eval_exists(s) \/ eval_relprod(s) \/ Universal(s)
         \/ eval_application(s)
  PROVE  Fits(s)
<1>1. \A a \in Slots : Sound(held[a]) /\ held[a].scope \in SUBSET Variables
  BY DEF ScopesRespected, Sound, Predicate
<1>2. CASE assign(s)
  BY <1>1, <1>2 DEF assign, Fits, AllHonest
<1>3. CASE eval_constant(s)
  BY <1>3, LeavesSound DEF eval_constant, Fits
<1>4. CASE eval_cmp_vwc(s)
  <2>1. PICK S \in SUBSET Variables, i \in Variables, n \in Literals :
          i \in S /\ Gets(s, EqualsConstant(i, n, S))
    BY <1>4 DEF eval_cmp_vwc, Numbers
  <2>2. QED
    BY <2>1, LeavesSound DEF Fits
<1>5. CASE eval_cmp_vwv(s)
  <2>1. PICK S \in SUBSET Variables, i \in Variables, j \in Variables :
          i \in S /\ j \in S /\ Gets(s, EqualVariables(i, j, S))
    BY <1>5 DEF eval_cmp_vwv
  <2>2. QED
    BY <2>1, LeavesSound DEF Fits
<1>6. CASE eval_not(s)
  BY <1>1, <1>6, NegationSound DEF eval_not, Fits
<1>7. CASE eval_binary(s)
  <2>1. PICK a \in Slots, op \in Connectives :
          Compatible(held[s], held[a]) /\ Gets(s, Binary(op, held[s], held[a]))
    BY <1>7 DEF eval_binary
  <2>2. QED
    BY <1>1, <2>1, BinarySound DEF Fits
<1>8. CASE eval_ite(s)
  <2>1. PICK a \in Slots, b \in Slots :
          /\ Compatible(held[s], held[a]) /\ Compatible(held[a], held[b])
          /\ Compatible(held[s], held[b])
          /\ Gets(s, IfThenElse(held[s], held[a], held[b]))
    BY <1>8 DEF eval_ite
  <2>2. QED
    BY <1>1, <2>1, IfThenElseSound DEF Fits
<1>9. CASE eval_exists(s)
  <2>1. PICK S \in SUBSET Variables : \E X \in Projections(S) :
          Fitting(held[s], S) /\ Gets(s, Exists(held[s], S, X))
    BY <1>9 DEF eval_exists, Fitters
  <2>2. QED
    BY <1>1, <2>1, ExistentialsSound DEF Fits, AllHonest
<1>10. CASE eval_relprod(s)
  <2>1. PICK S \in SUBSET Variables, a \in Slots : \E X \in Projections(S) :
          /\ Fitting(held[s], S) /\ Fitting(held[a], S)
          /\ Gets(s, RelationalProduct(held[s], held[a], S, X))
    BY <1>10 DEF eval_relprod, Fitters
  <2>2. PICK X \in Projections(S) : Gets(s, RelationalProduct(held[s], held[a], S, X))
    BY <2>1
  <2>3. QED
    BY <1>1, <2>1, <2>2, ExistentialsSound DEF Fits, AllHonest
<1>11. CASE Universal(s)
  <2>1. CASE eval_forall(s)
    <3>1. PICK S \in SUBSET Variables : \E X \in Projections(S) :
            Fitting(held[s], S) /\ Gets(s, Forall(held[s], S, X))
      BY <2>1 DEF eval_forall, Fitters
    <3>2. QED
      BY <1>1, <1>11, <3>1, ForallSound DEF Fits
  <2>2. CASE eval_forallImplies(s)
    <3>1. PICK S \in SUBSET Variables, a \in Slots : \E X \in Projections(S) :
            /\ Fitting(held[s], S) /\ Fitting(held[a], S)
            /\ Gets(s, ForallImplies(held[s], held[a], S, X))
      BY <2>2 DEF eval_forallImplies, Fitters
    <3>2. QED
      BY <1>1, <1>11, <3>1, ForallImpliesSound DEF Fits
  <2>3. CASE eval_forallOr(s)
    <3>1. PICK S \in SUBSET Variables, a \in Slots : \E X \in Projections(S) :
            /\ Fitting(held[s], S) /\ Fitting(held[a], S)
            /\ Gets(s, ForallOr(held[s], held[a], S, X))
      BY <2>3 DEF eval_forallOr, Fitters
    <3>2. QED
      BY <1>1, <1>11, <3>1, ForallOrSound DEF Fits
  <2>4. QED
    BY <1>11, <2>1, <2>2, <2>3 DEF Universal
<1>12. CASE eval_application(s)
  <2>1. PICK S \in SUBSET Variables, usage \in SUBSET Variables :
          \E f \in Substitutions(S, usage) :
            Fitting(held[s], S) /\ Gets(s, Application(held[s], f, usage))
    BY <1>12 DEF eval_application, Fitters
  <2>2. PICK f \in Substitutions(S, usage) :
          Fitting(held[s], S) /\ Gets(s, Application(held[s], f, usage))
    BY <2>1
  <2>3. QED
    BY <1>1, <2>1, <2>2, ApplicationSound DEF Fits, AllHonest
<1>13. QED
  BY <1>2, <1>3, <1>4, <1>5, <1>6, <1>7, <1>8, <1>9, <1>10, <1>11, <1>12

LEMMA StepFits ==
  ASSUME ScopesRespected, PredicatesNext
  PROVE  \E s \in Slots : Fits(s)
BY HandlersFit DEF PredicatesNext

LEMMA ScopesStay ==
  ASSUME ScopesRespected, [PredicatesNext]_held
  PROVE  ScopesRespected'
<1>1. CASE PredicatesNext
  <2>1. PICK s \in Slots : Fits(s)
    BY <1>1, StepFits
  <2>2. PICK p : held' = [held EXCEPT ![s] = p] /\ Sound(p)
    BY <2>1 DEF Fits, Gets
  <2>3. QED
    BY <2>2 DEF ScopesRespected, Sound
<1>2. CASE UNCHANGED held
  BY <1>2 DEF ScopesRespected
<1>3. QED
  BY <1>1, <1>2

\* At the start all slots hold a constant.
LEMMA ScopesAtFirst == PredicatesInit => ScopesRespected
<1>1. Sound(FromBool(FALSE, {}))
  BY LeavesSound
<1>2. QED
  BY <1>1 DEF PredicatesInit, ScopesRespected, Sound

-------------------------------------------------------------------------------
(***************************************************************************)
(* Theorems                                                                *)
(***************************************************************************)

\* Predicates depend on nothing but their scope, for any variables and types:
\* evalpred.cc hands every predicate on with the allocation of its term.
THEOREM ScopesCorrect == PredicatesSpec => []ScopesRespected
<1>1. PredicatesInit => ScopesRespected
  BY ScopesAtFirst
<1>2. ScopesRespected /\ [PredicatesNext]_held => ScopesRespected'
  BY ScopesStay
<1>3. QED
  BY <1>1, <1>2, PTL DEF PredicatesSpec

\* Comparisons are true of the numbers that terms name.  Whatever sequence of handlers
\* made the predicates that are held, connectives, universal quantors and applications
\* of them mean what logic says of values, and existential quantors and verdicts do
\* where the predicates are honest.
THEOREM MeaningCorrect == PredicatesSpec => []MeaningExact
<1>1. ASSUME ScopesRespected
      PROVE  MeaningExact
  <2> DEFINE Held == {held[s] : s \in Slots}
  <2>1. \A p \in Held : Sound(p) /\ p.scope \in SUBSET Variables
    BY <1>1 DEF ScopesRespected, Sound, Predicate
  <2>2. ASSUME NEW p \in Held
        PROVE  ApplicationsExact(p) /\ VerdictsExact(p)
    BY <2>1, ApplicationSound, VerdictsSound DEF ApplicationsExact
  <2>3. ASSUME NEW p \in Held, NEW q \in Held
        PROVE  ConnectivesExact(p, q) /\ UniversalsExact(p, q) /\ ExistentialsExact(p, q)
    <3>1. ConnectivesExact(p, q)
      BY <2>1, NegationSound, BinarySound DEF ConnectivesExact
    <3>2. UniversalsExact(p, q)
      BY <2>1, UniversalsMean
    <3>3. ExistentialsExact(p, q)
      BY <2>1, ExistentialsMean
    <3>4. QED
      BY <3>1, <3>2, <3>3
  <2>4. ASSUME NEW p \in Held, NEW q \in Held, NEW r \in Held
        PROVE  IfThenElseExact(p, q, r)
    BY <2>1, IfThenElseSound DEF IfThenElseExact
  <2>5. QED
    BY <2>2, <2>3, <2>4, ComparisonsMean DEF MeaningExact
<1>2. ScopesRespected => MeaningExact
  BY <1>1
<1>3. PredicatesSpec => []ScopesRespected
  BY ScopesCorrect
<1>4. QED
  BY <1>2, <1>3, PTL

\* Only the three universal quantors leave codes that stand for no value in their
\* results: no other handler of EvaluatorPredicate makes such a predicate of honest
\* ones.
THEOREM StrayCorrect == PredicatesSpec => OnlyUniversalsStray
<1>1. ASSUME ScopesRespected, [PredicatesNext]_held
      PROVE  [AllHonest => AllHonest' \/ \E s \in Slots : Universal(s)]_held
  <2>1. CASE PredicatesNext
    <3>1. PICK s \in Slots : Fits(s)
      BY <1>1, <2>1, StepFits
    <3>2. PICK p : /\ held' = [held EXCEPT ![s] = p]
                   /\ AllHonest => Honest(p.b) \/ Universal(s)
      BY <3>1 DEF Fits, Gets
    <3>3. ASSUME AllHonest, ~ Universal(s)
          PROVE  AllHonest'
      <4>1. \A a \in Slots : held'[a] = IF a = s THEN p ELSE held[a]
        BY <1>1, <3>2 DEF ScopesRespected
      <4>2. Honest(p.b) /\ \A a \in Slots : Honest(held[a].b)
        BY <3>2, <3>3 DEF AllHonest
      <4>3. \A a \in Slots : Honest(held'[a].b)
        BY <4>1, <4>2
      <4>4. QED
        BY <4>3 DEF AllHonest
    <3>4. QED
      BY <3>3
  <2>2. QED
    BY <1>1, <2>1
<1>2. ScopesRespected /\ [PredicatesNext]_held =>
        [AllHonest => AllHonest' \/ \E s \in Slots : Universal(s)]_held
  BY <1>1
<1>3. PredicatesSpec => []ScopesRespected
  BY ScopesCorrect
<1>4. QED
  BY <1>2, <1>3, PTL DEF PredicatesSpec, OnlyUniversalsStray

===============================================================================
