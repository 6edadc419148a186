--------------------------- MODULE Evaluator_proofs ---------------------------
(***************************************************************************)
(* The theorems of Evaluator and their proofs.                             *)
(***************************************************************************)
EXTENDS EvaluatorSound, SequenceTheorems, WellFoundedInduction, TLAPS

-------------------------------------------------------------------------------
(***************************************************************************)
(* Terms at places                                                         *)
(***************************************************************************)
\* What TermAt's function is chosen to satisfy.
Solves(b, n, g) ==
  g = [i \in 2 .. Len(n) |-> IF i = 2 THEN b[definition(n)] ELSE g[i - 1].args[n[i]]]

\* A non-empty set of naturals has a least element.
LEMMA Least == ASSUME NEW S \in SUBSET Nat, S # {} PROVE \E m \in S : \A k \in S : m <= k
<1>1. PICK m \in S : \A k \in S : ~(<<k, m>> \in OpToRel(<, Nat))
  BY NatLessThanWellFounded, WFMin
<1>2. \A k \in S : ~(k < m)
  BY <1>1 DEF OpToRel
<1>3. QED
  BY <1>2

\* A set of natural numbers that is closed under successors has them all.
LEMMA Succession ==
  ASSUME NEW S, 0 \in S, \A k \in Nat : k \in S => k + 1 \in S
  PROVE  Nat \subseteq S
<1> DEFINE Bad == Nat \ S
<1>1. SUFFICES ASSUME Bad # {} PROVE FALSE
  OBVIOUS
<1>2. PICK m \in Bad : \A k \in Bad : m <= k
  <2> HIDE DEF Bad
  <2>1. Bad \subseteq Nat
    BY DEF Bad
  <2>2. QED
    BY <1>1, <2>1, Least
<1>3. m # 0 /\ m - 1 \in Nat
  OBVIOUS
<1>4. m - 1 \in S
  BY <1>2, <1>3
<1>5. QED
  BY <1>3, <1>4

\* Only one function does.
LEMMA SolvesOnce ==
  ASSUME NEW b, NEW n, Len(n) \in Nat, NEW g, NEW h, Solves(b, n, g), Solves(b, n, h)
  PROVE  g = h
<1> DEFINE S == {k \in Nat : \A i \in 2 .. Len(n) : i <= k => g[i] = h[i]}
<1>1. 0 \in S
  OBVIOUS
<1>2. ASSUME NEW k \in Nat, k \in S PROVE k + 1 \in S
  <2> SUFFICES ASSUME NEW i \in 2 .. Len(n), i = k + 1 PROVE g[i] = h[i]
    BY <1>2
  <2>1. CASE i = 2
    BY <2>1 DEF Solves
  <2>2. CASE i # 2
    <3>1. i - 1 \in 2 .. Len(n) /\ i - 1 <= k
      BY <2>2
    <3>2. g[i - 1] = h[i - 1]
      BY <1>2, <3>1
    <3>3. g[i] = g[i - 1].args[n[i]] /\ h[i] = h[i - 1].args[n[i]]
      BY <2>2 DEF Solves
    <3>4. QED
      BY <3>2, <3>3
  <2>3. QED
    BY <2>1, <2>2
<1>3. Nat \subseteq S
  <2> HIDE DEF S
  <2>1. QED
    BY <1>1, <1>2, Succession
<1>4. \A i \in 2 .. Len(n) : g[i] = h[i]
  BY <1>3
<1>5. QED
  BY <1>4 DEF Solves

\* For every place, there is one.
LEMMA SolvesAll ==
  ASSUME NEW b, NEW E, NEW n \in Seq(E)
  PROVE  \E g : Solves(b, n, g)
<1> DEFINE S == {k \in Nat : \A m \in Seq(E) : Len(m) = k => \E g : Solves(b, m, g)}
<1>1. 0 \in S
  <2> SUFFICES ASSUME NEW m \in Seq(E), Len(m) = 0 PROVE \E g : Solves(b, m, g)
    OBVIOUS
  <2>1. Solves(b, m, [i \in {} |-> {}])
    BY DEF Solves
  <2>2. QED
    BY <2>1
<1>2. ASSUME NEW k \in Nat, k \in S PROVE k + 1 \in S
  <2> SUFFICES ASSUME NEW m \in Seq(E), Len(m) = k + 1 PROVE \E g : Solves(b, m, g)
    OBVIOUS
  <2> DEFINE f == SubSeq(m, 1, k)
  <2>1. f \in Seq(E) /\ Len(f) = k /\ \A i \in 1 .. k : f[i] = m[i]
    OBVIOUS
  <2> HIDE DEF f
  <2>2. PICK g : Solves(b, f, g)
    BY <1>2, <2>1
  <2> DEFINE h == [i \in 2 .. k + 1 |-> IF i = 2 THEN b[definition(m)] ELSE g[i - 1].args[m[i]]]
  <2>3. \A i \in 2 .. k : h[i] = g[i]
    <3> SUFFICES ASSUME NEW i \in 2 .. k PROVE h[i] = g[i]
      OBVIOUS
    <3>1. i \in 2 .. k + 1 /\ i \in 2 .. Len(f) /\ f[i] = m[i] /\ f[1] = m[1]
      BY <2>1
    <3>2. g[i] = IF i = 2 THEN b[f[1]] ELSE g[i - 1].args[f[i]]
      BY <2>2, <3>1 DEF Solves, definition
    <3>3. h[i] = IF i = 2 THEN b[m[1]] ELSE g[i - 1].args[m[i]]
      BY <3>1 DEF definition
    <3>4. QED
      BY <3>1, <3>2, <3>3
  <2>4. h = [i \in 2 .. k + 1 |-> IF i = 2 THEN b[definition(m)] ELSE h[i - 1].args[m[i]]]
    <3>1. \A i \in 2 .. k + 1 : i # 2 => i - 1 \in 2 .. k
      OBVIOUS
    <3>2. \A i \in 2 .. k + 1 : i # 2 => h[i - 1] = g[i - 1]
      <4> HIDE DEF h
      <4>1. QED
        BY <2>3, <3>1
    <3>3. QED
      BY <3>2
  <2>5. Solves(b, m, h)
    <3> HIDE DEF h
    <3>1. QED
      BY <2>4 DEF Solves
  <2>6. QED
    BY <2>5
<1>3. Nat \subseteq S
  <2> HIDE DEF S
  <2>1. QED
    BY <1>1, <1>2, Succession
<1>4. QED
  BY <1>3

Elements == Nat \cup Defs \cup {Query}

\* The term at a place is the last value of the function that does.
LEMMA TermAtSolved ==
  ASSUME NEW b, NEW n \in Seq(Elements), NEW g, Solves(b, n, g)
  PROVE  TermAt(b, n) = g[Len(n)]
<1> DEFINE F(h) == h = [i \in 2 .. Len(n) |->
                     IF i = 2 THEN b[definition(n)] ELSE h[i - 1].args[n[i]]]
           at == CHOOSE h : F(h)
<1>1. F(at)
  <2>1. F(g)
    BY DEF Solves
  <2>2. QED
    BY <2>1
<1>2. TermAt(b, n) = at[Len(n)]
  BY DEF TermAt
<1>3. at = g
  <2> HIDE DEF at
  <2>1. Solves(b, n, at)
    BY <1>1 DEF Solves
  <2>2. QED
    BY <2>1, SolvesOnce
<1>4. QED
  BY <1>2, <1>3

\* The body of a definition, and the query, are the terms at <<d, 1>>.
LEMMA TermAtBody ==
  ASSUME NEW b, NEW d \in Defs \cup {Query}
  PROVE  TermAt(b, <<d, 1>>) = b[d]
<1> DEFINE n == <<d, 1>>
<1>1. n \in Seq(Elements) /\ Len(n) = 2 /\ definition(n) = d
  BY DEF Elements, definition
<1>2. PICK g : Solves(b, n, g)
  <2> HIDE DEF n
  <2>1. QED
    BY <1>1, SolvesAll
<1>3. g[2] = b[d]
  BY <1>1, <1>2 DEF Solves
<1>4. QED
  BY <1>1, <1>2, <1>3, TermAtSolved

\* A child of a place is a subterm.
LEMMA TermAtChild ==
  ASSUME NEW b, NEW n \in Seq(Elements), Len(n) >= 2, NEW i \in Nat
  PROVE  TermAt(b, child(n, i)) = TermAt(b, n).args[i]
<1> DEFINE c == child(n, i)
<1>1. /\ c \in Seq(Elements) /\ Len(c) = Len(n) + 1 /\ Len(n) \in Nat
      /\ c[Len(n) + 1] = i /\ \A j \in 1 .. Len(n) : c[j] = n[j]
  BY DEF child, Elements
<1> HIDE DEF c
<1>2. PICK h : Solves(b, c, h)
  BY <1>1, SolvesAll
<1> DEFINE g == [j \in 2 .. Len(n) |-> h[j]]
<1>3. \A j \in 2 .. Len(n) : h[j] = IF j = 2 THEN b[definition(n)] ELSE h[j - 1].args[n[j]]
  <2>1. definition(c) = definition(n) /\ \A j \in 2 .. Len(n) : c[j] = n[j] /\ j \in 2 .. Len(c)
    BY <1>1 DEF definition
  <2>2. \A j \in 2 .. Len(c) :
          h[j] = IF j = 2 THEN b[definition(c)] ELSE h[j - 1].args[c[j]]
    BY <1>2 DEF Solves
  <2>3. QED
    BY <2>1, <2>2
<1>4. Solves(b, n, g)
  <2>1. \A j \in 2 .. Len(n) : j # 2 => j - 1 \in 2 .. Len(n)
    BY <1>1
  <2>2. g = [j \in 2 .. Len(n) |-> IF j = 2 THEN b[definition(n)] ELSE g[j - 1].args[n[j]]]
    BY <1>3, <2>1
  <2> HIDE DEF g
  <2>3. QED
    BY <2>2 DEF Solves
<1>5. h[Len(n) + 1] = h[Len(n)].args[i]
  <2>1. Len(n) + 1 \in 2 .. Len(c) /\ Len(n) + 1 # 2 /\ (Len(n) + 1) - 1 = Len(n)
    BY <1>1
  <2>2. \A j \in 2 .. Len(c) :
          h[j] = IF j = 2 THEN b[definition(c)] ELSE h[j - 1].args[c[j]]
    BY <1>2 DEF Solves
  <2>3. QED
    BY <1>1, <2>1, <2>2
<1>6. g[Len(n)] = h[Len(n)]
  BY <1>1
<1>7. TermAt(b, c) = h[Len(n) + 1] /\ TermAt(b, n) = g[Len(n)]
  <2> HIDE DEF g
  <2>1. QED
    BY <1>1, <1>2, <1>4, TermAtSolved
<1>8. QED
  BY <1>5, <1>6, <1>7 DEF c

-------------------------------------------------------------------------------
(***************************************************************************)
(* Predicates                                                              *)
(***************************************************************************)
\* A predicate is about the parameter when the second variable makes no
\* difference.
LEMMA UnaryIs ==
  ASSUME NEW p
  PROVE  p \in Unary <=> p \in Predicates /\ \A w \in p, z \in Values : <<w[1], z>> \in p
<1>1. ASSUME p \in Unary
      PROVE  p \in Predicates /\ \A w \in p, z \in Values : <<w[1], z>> \in p
  <2>1. PICK xs \in SUBSET Values : p = xs \X Values
    BY <1>1 DEF Unary, Everywhere
  <2>2. QED
    BY <2>1 DEF Predicates, Points
<1>2. ASSUME p \in Predicates, \A w \in p, z \in Values : <<w[1], z>> \in p
      PROVE  p \in Unary
  <2> DEFINE xs == {x \in Values : \E y \in Values : <<x, y>> \in p}
  <2>1. p \subseteq xs \X Values
    <3> SUFFICES ASSUME NEW w \in p PROVE w \in xs \X Values
      OBVIOUS
    <3>1. w \in Values \X Values
      BY <1>2 DEF Predicates, Points
    <3>2. w = <<w[1], w[2]>> /\ w[1] \in Values /\ w[2] \in Values
      BY <3>1
    <3>3. w[1] \in xs
      BY <3>2
    <3>4. QED
      BY <3>2, <3>3
  <2>2. xs \X Values \subseteq p
    <3> SUFFICES ASSUME NEW x \in xs, NEW z \in Values PROVE <<x, z>> \in p
      OBVIOUS
    <3>1. PICK y \in Values : <<x, y>> \in p
      OBVIOUS
    <3>2. <<x, y>>[1] = x
      OBVIOUS
    <3>3. QED
      BY <1>2, <3>1, <3>2
  <2>3. xs \in SUBSET Values
    OBVIOUS
  <2> HIDE DEF xs
  <2>4. p = Everywhere(xs)
    BY <2>1, <2>2 DEF Everywhere
  <2>5. QED
    BY <2>3, <2>4 DEF Unary
<1>3. QED
  BY <1>1, <1>2

\* The connectives keep a predicate about the parameter.
LEMMA UnaryClosed ==
  ASSUME NEW p \in Unary, NEW q \in Unary
  PROVE  p \cup q \in Unary /\ p \cap q \in Unary /\ p \ q \in Unary
<1>1. /\ p \in Predicates /\ \A w \in p, z \in Values : <<w[1], z>> \in p
      /\ q \in Predicates /\ \A w \in q, z \in Values : <<w[1], z>> \in q
  BY UnaryIs
<1>2. p \cup q \in Unary
  <2>1. \A w \in p \cup q, z \in Values : <<w[1], z>> \in p \cup q
    BY <1>1
  <2>2. p \cup q \in Predicates
    BY <1>1 DEF Predicates
  <2>3. QED
    BY <2>1, <2>2, UnaryIs
<1>3. p \cap q \in Unary
  <2>1. \A w \in p \cap q, z \in Values : <<w[1], z>> \in p \cap q
    BY <1>1
  <2>2. p \cap q \in Predicates
    BY <1>1 DEF Predicates
  <2>3. QED
    BY <2>1, <2>2, UnaryIs
<1>4. p \ q \in Unary
  <2>1. ASSUME NEW w \in p \ q, NEW z \in Values PROVE <<w[1], z>> \in p \ q
    <3>1. w = <<w[1], w[2]>> /\ w[2] \in Values
      BY <1>1 DEF Predicates, Points
    <3>2. <<w[1], z>>[1] = w[1]
      OBVIOUS
    <3>3. <<w[1], z>> \in q => <<w[1], w[2]>> \in q
      BY <1>1, <3>1, <3>2
    <3>4. QED
      BY <1>1, <3>1, <3>3
  <2>2. p \ q \in Predicates
    BY <1>1 DEF Predicates
  <2>3. QED
    BY <2>1, <2>2, UnaryIs
<1>5. QED
  BY <1>2, <1>3, <1>4

\* False and true are about the parameter.
LEMMA UnaryBounds == {} \in Unary /\ Points \in Unary /\ Unary \subseteq Predicates
<1>1. {} \in Predicates /\ Points \in Predicates
  BY DEF Predicates
<1>2. \A w \in Points, z \in Values : <<w[1], z>> \in Points
  BY DEF Points
<1>3. QED
  BY <1>1, <1>2, UnaryIs

\* The connectives of predicates, and of those about the parameter.
LEMMA ConnectivesTyped ==
  /\ \A p, q \in Predicates : \A o \in Binary : binary(o, p, q) \in Predicates
  /\ \A p, q \in Unary : \A o \in Binary : binary(o, p, q) \in Unary
  /\ \A p \in Predicates : Points \ p \in Predicates
  /\ \A p \in Unary : Points \ p \in Unary
<1>1. \A p, q \in Predicates : \A o \in Binary : binary(o, p, q) \in Predicates
  BY DEF Predicates, Binary, binary
<1>2. \A p \in Unary : Points \ p \in Unary
  BY UnaryClosed, UnaryBounds
<1>3. ASSUME NEW p \in Unary, NEW q \in Unary PROVE \A o \in Binary : binary(o, p, q) \in Unary
  <2>1. /\ p \cup q \in Unary /\ p \cap q \in Unary /\ p \ q \in Unary /\ q \ p \in Unary
        /\ Points \ p \in Unary
    BY <1>2, UnaryClosed
  <2>2. (Points \ p) \cup q \in Unary /\ (p \ q) \cup (q \ p) \in Unary
    BY <2>1, UnaryClosed
  <2>3. Points \ ((p \ q) \cup (q \ p)) \in Unary
    BY <1>2, <2>2
  <2>4. QED
    BY <2>1, <2>2, <2>3 DEF Binary, binary
<1>4. QED
  BY <1>1, <1>2, <1>3 DEF Predicates

\* What a quantor returns is about the parameter, whatever it is applied to.
LEMMA QuantorTyped == ASSUME NEW o, NEW p PROVE quantify(o, p) \in Unary
<1>1. exists(p) \in Unary
  <2>1. exists(p) \in Predicates
    BY DEF exists, Predicates
  <2>2. ASSUME NEW w \in exists(p), NEW z \in Values PROVE <<w[1], z>> \in exists(p)
    <3>1. w \in Points /\ \E y \in Values : <<w[1], y>> \in p
      BY DEF exists
    <3>2. <<w[1], z>> \in Points /\ <<w[1], z>>[1] = w[1]
      BY <3>1 DEF Points
    <3>3. QED
      BY <3>1, <3>2 DEF exists
  <2>3. QED
    BY <2>1, <2>2, UnaryIs
<1>2. forall(p) \in Unary
  <2>1. forall(p) \in Predicates
    BY DEF forall, Predicates
  <2>2. ASSUME NEW w \in forall(p), NEW z \in Values PROVE <<w[1], z>> \in forall(p)
    <3>1. w \in Points /\ \A y \in Values : <<w[1], y>> \in p
      BY DEF forall
    <3>2. <<w[1], z>> \in Points /\ <<w[1], z>>[1] = w[1]
      BY <3>1 DEF Points
    <3>3. QED
      BY <3>1, <3>2 DEF forall
  <2>3. QED
    BY <2>1, <2>2, UnaryIs
<1>3. QED
  BY <1>1, <1>2 DEF quantify

\* An application to x takes over the predicate of its definition.
LEMMA ApplyTyped ==
  ASSUME NEW p \in Predicates, NEW at
  PROVE  apply(p, at) \in Predicates /\ (at = 1 => apply(p, at) = p)
BY DEF apply, Predicates

-------------------------------------------------------------------------------
(***************************************************************************)
(* Places and what is called from them                                     *)
(***************************************************************************)
Prepared == prog \in Programs /\ query \in Queries /\ GraphFits(Bodies(query), dgr, Places)

\* The place of a definition, and its body.
LEMMA DefPlace ==
  ASSUME Prepared, NEW n \in Places, isFunDef(n)
  PROVE  LET d == definition(n)
             c == body(n)
         IN /\ d \in Defs /\ n = <<d>> /\ prog[d].body \in ParameterTerms
            /\ prog[d].kind \in {"def", "mu", "nu"}
            /\ c = <<d, 1>> /\ c \in Places /\ ~isFunDef(c) /\ definition(c) = d
            /\ Term(c) = prog[d].body /\ Len(c) = 2
            /\ successors(dgr, c) \subseteq successors(dgr, n)
<1> DEFINE d == definition(n)
           c == body(n)
<1>1. /\ n \in Seq(Nat \cup Defs \cup {Query}) /\ Len(n) > 0 /\ d \in Defs
      /\ c \in Places /\ successors(dgr, c) \subseteq successors(dgr, n)
  BY DEF Prepared, GraphFits
<1>2. Len(n) = 1
  BY DEF isFunDef
<1>3. n = <<d>>
  BY <1>1, <1>2 DEF definition
<1>4. c = <<d, 1>>
  <2>1. <<d>> \in Seq({d, 1}) /\ Len(<<d>>) = 1 /\ <<d>>[1] = d
    OBVIOUS
  <2> DEFINE s == Append(<<d>>, 1)
  <2>2. s \in Seq({d, 1}) /\ Len(s) = 2 /\ s[1] = d /\ s[2] = 1
    BY <2>1
  <2> HIDE DEF s
  <2>3. s = <<s[1], s[2]>>
    BY <2>2
  <2>4. QED
    BY <1>3, <2>2, <2>3 DEF body, s
<1>5. Len(c) = 2 /\ definition(c) = d /\ ~isFunDef(c)
  BY <1>4 DEF definition, isFunDef
<1>6. prog[d].body \in ParameterTerms /\ prog[d].kind \in {"def", "mu", "nu"}
  BY <1>1, ProgramsAssumption DEF Prepared
<1>7. Term(c) = prog[d].body
  <2>1. TermAt(Bodies(query), <<d, 1>>) = Bodies(query)[d]
    BY <1>1, TermAtBody
  <2>2. d # Query
    BY <1>1, ProgramsAssumption
  <2>3. QED
    BY <1>1, <1>4, <2>1, <2>2 DEF Term, Bodies
<1>8. QED
  BY <1>1, <1>3, <1>4, <1>5, <1>6, <1>7

\* The place of a term.
LEMMA TermPlace ==
  ASSUME Prepared, NEW n \in Places, ~isFunDef(n)
  PROVE  /\ n \in Seq(Elements) /\ Len(n) \in Nat /\ Len(n) >= 2
         /\ Term(n) \in AllTerms /\ op(n) = Term(n).op
         /\ op(n) = "app" =>
              LET d == Term(n).sym
              IN /\ d \in DefsAt(n) /\ <<d>> \in Places /\ isFunDef(<<d>>) /\ definition(<<d>>) = d
                 /\ Free(<<d>>) \subseteq Free(n) \/ d \in Free(n)
<1>1. n \in Seq(Elements) /\ Len(n) > 0 /\ Term(n) \in AllTerms
  BY DEF Prepared, GraphFits, Term, Elements
<1>2. Len(n) \in Nat /\ Len(n) >= 2
  <2>1. Len(n) \in Nat /\ Len(n) > 0
    BY <1>1
  <2>2. Len(n) # 1
    BY DEF isFunDef
  <2>3. QED
    BY <2>1, <2>2
<1>3. op(n) = Term(n).op
  BY DEF op
<1>4. ASSUME op(n) = "app"
      PROVE  LET d == Term(n).sym
             IN /\ d \in DefsAt(n) /\ <<d>> \in Places /\ isFunDef(<<d>>) /\ definition(<<d>>) = d
                /\ Free(<<d>>) \subseteq Free(n) \/ d \in Free(n)
  <2> DEFINE d == Term(n).sym
  <2>1. d \in DefsIn(Term(n))
    BY <1>1, <1>3, <1>4, TermsAssumption
  <2>2. isFunDef(<<d>>) /\ definition(<<d>>) = d
    BY DEF isFunDef, definition
  <2>3. /\ <<d>> \in Places
        /\ successors(dgr, <<d>>) \ {d} \subseteq successors(dgr, n) \/ d \in successors(dgr, n)
    BY <1>3, <1>4 DEF Prepared, GraphFits, Term
  <2>4. QED
    BY <2>1, <2>2, <2>3 DEF Free, DefsAt
<1>5. QED
  BY <1>1, <1>2, <1>3, <1>4

\* A child of the place of a term.
LEMMA ChildPlace ==
  ASSUME Prepared, NEW n \in Places, ~isFunDef(n), NEW i \in DOMAIN Term(n).args, i \in Nat
  PROVE  LET c == child(n, i)
         IN /\ c \in Places /\ ~isFunDef(c) /\ definition(c) = definition(n)
            /\ Len(c) = Len(n) + 1 /\ Term(c) = Term(n).args[i] /\ Term(c) \in AllTerms
            /\ DefsAt(c) \subseteq DefsAt(n) /\ Free(c) \subseteq Free(n)
            /\ Term(n) \in ParameterTerms /\ op(n) \notin Quantor => Term(c) \in ParameterTerms
<1> DEFINE c == child(n, i)
<1>1. n \in Seq(Elements) /\ Len(n) \in Nat /\ Len(n) >= 2 /\ Term(n) \in AllTerms /\ op(n) = Term(n).op
  BY TermPlace
<1>2. Term(c) = Term(n).args[i]
  BY <1>1, TermAtChild DEF Term
<1>3. Len(c) = Len(n) + 1 /\ definition(c) = definition(n) /\ ~isFunDef(c)
  BY <1>1 DEF child, definition, isFunDef
<1>4. Term(n).args[i] \in AllTerms /\ DefsIn(Term(n).args[i]) \subseteq DefsIn(Term(n))
  BY <1>1, TermsAssumption
<1>5. Term(n) \in ParameterTerms /\ op(n) \notin Quantor => Term(n).args[i] \in ParameterTerms
  BY <1>1, ParameterTermsAssumption
<1>6. c \in Places /\ successors(dgr, c) \subseteq successors(dgr, n)
  BY DEF Prepared, GraphFits, Term
<1>7. QED
  BY <1>2, <1>3, <1>4, <1>5, <1>6 DEF DefsAt, Free

\* What is called from the place n of a term.
CallFits(n, c) ==
  /\ c \in Places
  /\ ~isFunDef(c) => /\ definition(c) = definition(n) /\ Len(c) \in Nat /\ Len(c) > Len(n)
                     /\ DefsAt(c) \subseteq DefsAt(n) /\ Free(c) \subseteq Free(n)
                     /\ Term(c) \in AllTerms
  /\ isFunDef(c) => /\ definition(c) \in DefsAt(n)
                    /\ Free(c) \subseteq Free(n) \/ definition(c) \in Free(n)

\* The classes of terms differ.
LEMMA ClassesApart ==
  /\ Binary \cap Quantor = {}
  /\ {"const", "app", "not", "ite", "fundef"} \cap (Binary \cup Quantor) = {}
BY DEF Binary, Quantor

\* No handler calls more than three times.
LEMMA CallsTyped ==
  ASSUME Prepared, NEW n \in Places
  PROVE  Calls(n) \in 0 .. 3
<1>1. CASE isFunDef(n)
  BY <1>1 DEF Calls, op
<1>2. CASE ~isFunDef(n)
  <2>1. op(n) \in {"const", "app", "not", "ite"} \cup Binary \cup Quantor
    BY <1>2, TermPlace, TermsAssumption
  <2>2. QED
    BY <2>1 DEF Calls
<1>3. QED
  BY <1>1, <1>2

\* Below a special quantor is a connective of two operands.
LEMMA SpecialPlace ==
  ASSUME Prepared, NEW n \in Places, ~isFunDef(n), special(n)
  PROVE  /\ op(n) \in Quantor
         /\ \A i \in {1, 2} :
              LET arg == child(child(n, 1), i)
              IN /\ arg \in Places /\ ~isFunDef(arg) /\ definition(arg) = definition(n)
                 /\ Len(arg) = Len(n) + 2 /\ Term(arg) \in AllTerms
                 /\ DefsAt(arg) \subseteq DefsAt(n) /\ Free(arg) \subseteq Free(n)
<1>1. op(n) \in Quantor /\ op(child(n, 1)) \in Binary
  BY DEF special, Binary
<1>2. Term(n) \in AllTerms /\ op(n) = Term(n).op /\ Len(n) \in Nat
  BY TermPlace
<1>3. DOMAIN Term(n).args = 1 .. 1
  BY <1>1, <1>2, TermsAssumption
<1> DEFINE c == child(n, 1)
<1>4. /\ c \in Places /\ ~isFunDef(c) /\ definition(c) = definition(n)
      /\ Len(c) = Len(n) + 1 /\ DefsAt(c) \subseteq DefsAt(n) /\ Free(c) \subseteq Free(n)
  BY <1>3, ChildPlace
<1> HIDE DEF c
<1>5. Term(c) \in AllTerms /\ op(c) = Term(c).op
  BY <1>4, TermPlace
<1>6. DOMAIN Term(c).args = 1 .. 2
  BY <1>1, <1>5, TermsAssumption DEF c
<1>7. ASSUME NEW i \in {1, 2}
      PROVE  LET arg == child(c, i)
             IN /\ arg \in Places /\ ~isFunDef(arg) /\ definition(arg) = definition(n)
                /\ Len(arg) = Len(n) + 2 /\ Term(arg) \in AllTerms
                /\ DefsAt(arg) \subseteq DefsAt(n) /\ Free(arg) \subseteq Free(n)
  <2>1. i \in DOMAIN Term(c).args /\ i \in Nat
    BY <1>6
  <2>2. LET arg == child(c, i)
        IN /\ arg \in Places /\ ~isFunDef(arg) /\ definition(arg) = definition(c)
           /\ Len(arg) = Len(c) + 1 /\ Term(arg) \in AllTerms
           /\ DefsAt(arg) \subseteq DefsAt(c) /\ Free(arg) \subseteq Free(c)
    BY <1>4, <2>1, ChildPlace
  <2>3. QED
    BY <1>2, <1>4, <2>2
<1>8. QED
  BY <1>1, <1>7 DEF c

\* The operands of a term that is no special quantor are its subterms.
LEMMA PlainOperand ==
  ASSUME Prepared, NEW n \in Places, ~isFunDef(n), ~special(n), op(n) # "app",
         NEW i \in 1 .. Calls(n)
  PROVE  operands(Term(n), n)[i] = child(n, i) /\ i \in DOMAIN Term(n).args
<1>1. Term(n) \in AllTerms /\ op(n) = Term(n).op
  BY TermPlace
<1>2. i \in DOMAIN Term(n).args
  BY <1>1, TermsAssumption, ClassesApart DEF Calls
<1>3. operands(Term(n), n)[i] = child(n, i)
  BY <1>1, <1>2 DEF operands
<1>4. QED
  BY <1>2, <1>3

\* The handler of a term calls what belongs to the term.
LEMMA CalleeFits ==
  ASSUME Prepared, NEW lz, NEW f \in FrameSet, ~isFunDef(f.node), Settled(lz, f),
         0 < f.at, f.at <= Calls(f.node)
  PROVE  CallFits(f.node, Callee(lz, f))
<1> DEFINE n == f.node
           i == f.at
<1>0. n \in Places /\ i \in 1 .. Calls(n) /\ i \in 1 .. 3
  <2>1. i \in 0 .. 3
    BY DEF FrameSet
  <2>2. n \in Places
    BY DEF FrameSet
  <2>3. Calls(n) \in 0 .. 3
    BY <2>2, CallsTyped
  <2>4. QED
    BY <2>1, <2>2, <2>3
<1>1. /\ Term(n) \in AllTerms /\ op(n) = Term(n).op /\ Len(n) \in Nat
      /\ n \in Seq(Elements) /\ Len(n) >= 2
  BY <1>0, TermPlace
<1>2. CASE special(n)
  <2> DEFINE arg == child(child(n, 1), i)
  <2>1. i \in {1, 2}
    BY <1>0, <1>2, SpecialPlace, ClassesApart DEF Calls
  <2>2. /\ arg \in Places /\ ~isFunDef(arg) /\ definition(arg) = definition(n)
        /\ Len(arg) = Len(n) + 2 /\ Term(arg) \in AllTerms
        /\ DefsAt(arg) \subseteq DefsAt(n) /\ Free(arg) \subseteq Free(n)
    BY <1>0, <1>2, <2>1, SpecialPlace
  <2>3. Callee(lz, f) = arg \/ (Callee(lz, f) = <<Term(arg).sym>> /\ op(arg) = "app")
    BY <1>2, <2>1 DEF Callee, Settled
  <2> HIDE DEF arg
  <2>4. CASE Callee(lz, f) = arg
    BY <1>1, <2>2, <2>4 DEF CallFits
  <2>5. CASE Callee(lz, f) = <<Term(arg).sym>> /\ op(arg) = "app"
    <3> DEFINE d == Term(arg).sym
    <3>1. /\ d \in DefsAt(arg) /\ <<d>> \in Places /\ isFunDef(<<d>>) /\ definition(<<d>>) = d
          /\ Free(<<d>>) \subseteq Free(arg) \/ d \in Free(arg)
      BY <2>2, <2>5, TermPlace
    <3>2. QED
      BY <2>2, <2>5, <3>1 DEF CallFits
  <2>6. QED
    BY <2>3, <2>4, <2>5
<1>3. CASE ~special(n) /\ op(n) = "app"
  <2> DEFINE d == Term(n).sym
  <2>1. Calls(n) = 1
    BY <1>3, ClassesApart DEF Calls
  <2>2. i = 1
    BY <1>0, <2>1
  <2>3. Callee(lz, f) = <<d>>
    BY <1>1, <1>3, <2>2 DEF Callee, operands
  <2>4. /\ d \in DefsAt(n) /\ <<d>> \in Places /\ isFunDef(<<d>>) /\ definition(<<d>>) = d
        /\ Free(<<d>>) \subseteq Free(n) \/ d \in Free(n)
    BY <1>0, <1>3, TermPlace
  <2>5. QED
    BY <2>3, <2>4 DEF CallFits
<1>4. CASE ~special(n) /\ op(n) # "app"
  <2> DEFINE c == child(n, i)
  <2>1. operands(Term(n), n)[i] = c /\ i \in DOMAIN Term(n).args
    BY <1>0, <1>4, PlainOperand
  <2>2. Callee(lz, f) = c
    BY <1>4, <2>1 DEF Callee
  <2>3. /\ c \in Places /\ ~isFunDef(c) /\ definition(c) = definition(n)
        /\ Len(c) = Len(n) + 1 /\ Term(c) \in AllTerms
        /\ DefsAt(c) \subseteq DefsAt(n) /\ Free(c) \subseteq Free(n)
    BY <1>0, <2>1, ChildPlace
  <2>4. QED
    BY <1>1, <2>2, <2>3 DEF CallFits
<1>5. QED
  BY <1>2, <1>3, <1>4

-------------------------------------------------------------------------------
(***************************************************************************)
(* Calls and returns                                                       *)
(***************************************************************************)
\* The stack after a call, position by position.
LEMMA Pushed ==
  ASSUME NEW F, NEW s \in Seq(F), s # <<>>, NEW c \in F, NEW f \in F
  PROVE  LET t == <<c, f>> \o Tail(s)
         IN /\ t \in Seq(F) /\ Len(s) \in Nat /\ Len(s) > 0 /\ Len(t) = Len(s) + 1
            /\ DOMAIN s = 1 .. Len(s) /\ DOMAIN t = 1 .. Len(s) + 1
            /\ t[1] = c /\ t[2] = f /\ \A i \in 3 .. Len(s) + 1 : t[i] = s[i - 1]
<1>1. Len(s) \in Nat /\ Len(s) > 0 /\ DOMAIN s = 1 .. Len(s)
  BY EmptySeq
<1> DEFINE u == Tail(s)
<1>2. u \in Seq(F) /\ Len(u) = Len(s) - 1 /\ \A i \in 1 .. Len(u) : u[i] = s[i + 1]
  OBVIOUS
<1> HIDE DEF u
<1> DEFINE h == <<c, f>>
           t == h \o u
<1>3. h \in Seq(F) /\ Len(h) = 2 /\ h[1] = c /\ h[2] = f
  OBVIOUS
<1> HIDE DEF h
<1>4. t \in Seq(F) /\ Len(t) = Len(h) + Len(u)
  <2> HIDE DEF t
  <2>1. h \o u \in Seq(F) /\ Len(h \o u) = Len(h) + Len(u)
    BY <1>2, <1>3, ConcatProperties
  <2>2. QED
    BY <2>1 DEF t
<1>5. \A i \in 1 .. Len(h) + Len(u) : t[i] = IF i <= Len(h) THEN h[i] ELSE u[i - Len(h)]
  <2> HIDE DEF t
  <2>1. \A i \in 1 .. Len(h) + Len(u) : (h \o u)[i] = IF i <= Len(h) THEN h[i] ELSE u[i - Len(h)]
    BY <1>2, <1>3, ConcatProperties
  <2>2. QED
    BY <2>1 DEF t
<1> HIDE DEF t
<1>6. Len(t) = Len(s) + 1 /\ t[1] = c /\ t[2] = f
  <2>1. Len(t) = Len(s) + 1
    BY <1>1, <1>2, <1>3, <1>4
  <2>2. /\ 1 \in 1 .. Len(h) + Len(u) /\ 2 \in 1 .. Len(h) + Len(u)
        /\ 1 <= Len(h) /\ 2 <= Len(h)
    BY <1>1, <1>2, <1>3
  <2>3. t[1] = h[1] /\ t[2] = h[2]
    BY <1>5, <2>2
  <2>4. QED
    BY <1>3, <2>1, <2>3
<1>7. \A i \in 3 .. Len(s) + 1 : t[i] = s[i - 1]
  <2> TAKE i \in 3 .. Len(s) + 1
  <2>1. i \in 1 .. Len(h) + Len(u) /\ ~(i <= Len(h)) /\ i - 2 \in 1 .. Len(u)
    BY <1>1, <1>2, <1>3
  <2>2. t[i] = u[i - 2]
    BY <1>3, <1>5, <2>1
  <2>3. (i - 2) + 1 = i - 1
    OBVIOUS
  <2>4. QED
    BY <1>2, <2>1, <2>2, <2>3
<1>8. DOMAIN t = 1 .. Len(s) + 1
  BY <1>4, <1>6
<1>9. QED
  BY <1>1, <1>4, <1>6, <1>7, <1>8 DEF t, h, u

\* The stack after a return.
LEMMA Popped ==
  ASSUME NEW F, NEW s \in Seq(F), s # <<>>
  PROVE  LET t == Tail(s)
         IN /\ t \in Seq(F) /\ Len(s) \in Nat /\ Len(s) > 0 /\ Len(t) = Len(s) - 1
            /\ DOMAIN s = 1 .. Len(s) /\ DOMAIN t = 1 .. Len(s) - 1
            /\ \A i \in 1 .. Len(s) - 1 : t[i] = s[i + 1]
            /\ t = <<>> <=> Len(s) = 1
<1>1. Len(s) \in Nat /\ Len(s) > 0 /\ DOMAIN s = 1 .. Len(s)
  BY EmptySeq
<1>2. Tail(s) \in Seq(F) /\ Len(Tail(s)) = Len(s) - 1
      /\ \A i \in 1 .. Len(s) - 1 : Tail(s)[i] = s[i + 1]
  OBVIOUS
<1>3. DOMAIN Tail(s) = 1 .. Len(s) - 1
  BY <1>2
<1>4. Tail(s) = <<>> <=> Len(s) = 1
  <2>1. Tail(s) = <<>> <=> Len(Tail(s)) = 0
    BY <1>2, EmptySeq
  <2>2. QED
    BY <1>1, <1>2, <2>1
<1>5. QED
  BY <1>1, <1>2, <1>3, <1>4

\* A return leaves the shape of the stack.
LEMMA PopShape ==
  ASSUME NEW s, NEW lz, StackShape(s, lz), s # <<>>
  PROVE  StackShape(Tail(s), lz)
<1> DEFINE t == Tail(s)
<1>1. s \in Seq(FrameSet)
  BY DEF StackShape
<1>2. /\ t \in Seq(FrameSet) /\ Len(s) \in Nat /\ Len(s) > 0 /\ Len(t) = Len(s) - 1
      /\ DOMAIN s = 1 .. Len(s) /\ DOMAIN t = 1 .. Len(s) - 1
      /\ \A i \in 1 .. Len(s) - 1 : t[i] = s[i + 1]
      /\ t = <<>> <=> Len(s) = 1
  BY <1>1, Popped
<1> HIDE DEF t
<1>3. \A i \in DOMAIN t : i \in Int /\ i + 1 \in DOMAIN s /\ t[i] = s[i + 1]
  BY <1>2
<1>4. \A j \in DOMAIN s : j \in Int /\ (j > 1 => j - 1 \in DOMAIN t /\ t[j - 1] = s[j])
  BY <1>2
<1>5. FramesCalled(t, lz)
  <2>1. t # <<>> => t[Len(t)] = s[Len(s)]
    BY <1>2
  <2>2. t # <<>> => t[Len(t)].node = <<Query, 1>>
    BY <1>2, <2>1 DEF StackShape, FramesCalled
  <2>3. ASSUME NEW i \in DOMAIN t
        PROVE  /\ t[i].at <= Calls(t[i].node) /\ Settled(lz, t[i])
               /\ i > 1 => t[i].at > 0 /\ t[i - 1].node = Callee(lz, t[i])
    <3>1. i + 1 \in DOMAIN s /\ t[i] = s[i + 1] /\ i \in Int
      BY <1>3
    <3>2. i > 1 => t[i - 1] = s[(i + 1) - 1]
      <4>1. i > 1 => i - 1 \in DOMAIN t
        BY <1>2, <3>1
      <4>2. (i - 1) + 1 = (i + 1) - 1
        BY <3>1
      <4>3. QED
        BY <1>3, <4>1, <4>2
    <3>3. i + 1 > 1
      BY <1>2
    <3>4. QED
      BY <3>1, <3>2, <3>3 DEF StackShape, FramesCalled
  <2>4. QED
    BY <2>2, <2>3 DEF FramesCalled
<1>6. BodiesNest(t)
  <2> SUFFICES ASSUME NEW i \in DOMAIN t, ~isFunDef(t[i].node)
               PROVE  LET n == t[i].node
                      IN /\ \/ definition(n) = Query
                            \/ \E j \in DOMAIN t : i < j /\ t[j].node = <<definition(n)>>
                         /\ \A j \in DOMAIN t :
                              i < j /\ ~isFunDef(t[j].node) /\ definition(t[j].node) = definition(n)
                                => Len(t[j].node) < Len(n)
    BY DEF BodiesNest
  <2> DEFINE n == t[i].node
  <2>1. i \in Int /\ i + 1 \in DOMAIN s /\ t[i] = s[i + 1] /\ ~isFunDef(s[i + 1].node)
    BY <1>3
  <2>2. definition(n) = Query \/ \E j \in DOMAIN s : i + 1 < j /\ s[j].node = <<definition(n)>>
    BY <2>1 DEF StackShape, BodiesNest
  <2>3. \A j \in DOMAIN s :
          i + 1 < j /\ ~isFunDef(s[j].node) /\ definition(s[j].node) = definition(n)
            => Len(s[j].node) < Len(n)
    BY <2>1 DEF StackShape, BodiesNest
  <2>4. \A j \in DOMAIN s : i + 1 < j => j - 1 \in DOMAIN t /\ i < j - 1 /\ t[j - 1] = s[j]
    BY <1>2, <1>4, <2>1
  <2>5. \A j \in DOMAIN t : i < j => j + 1 \in DOMAIN s /\ i + 1 < j + 1 /\ t[j] = s[j + 1]
    BY <1>3, <2>1
  <2> HIDE DEF n
  <2>6. definition(n) = Query \/ \E j \in DOMAIN t : i < j /\ t[j].node = <<definition(n)>>
    BY <2>2, <2>4
  <2>7. \A j \in DOMAIN t :
          i < j /\ ~isFunDef(t[j].node) /\ definition(t[j].node) = definition(n)
            => Len(t[j].node) < Len(n)
    BY <2>3, <2>5
  <2>8. QED
    BY <2>6, <2>7 DEF n
<1>7. \A i, j \in DOMAIN t : i < j => i + 1 \in DOMAIN s /\ j + 1 \in DOMAIN s /\ i + 1 < j + 1
                                     /\ t[i] = s[i + 1] /\ t[j] = s[j + 1]
  BY <1>3
<1>8. OpenOnce(t)
  BY <1>7 DEF StackShape, OpenOnce
<1>9. FramesLead(t)
  BY <1>7 DEF StackShape, FramesLead
<1>10. FramesKnown(t)
  BY <1>3 DEF StackShape, FramesKnown
<1>11. FreeIsOpen(t)
  <2> SUFFICES ASSUME NEW i \in DOMAIN t, NEW d \in Free(t[i].node)
               PROVE  \E j \in DOMAIN t : i < j /\ t[j].node = <<d>>
    BY DEF FreeIsOpen
  <2>1. i \in Int /\ i + 1 \in DOMAIN s /\ t[i] = s[i + 1]
    BY <1>3
  <2>2. PICK j \in DOMAIN s : i + 1 < j /\ s[j].node = <<d>>
    BY <2>1 DEF StackShape, FreeIsOpen
  <2>3. j - 1 \in DOMAIN t /\ i < j - 1 /\ t[j - 1] = s[j]
    BY <1>2, <1>4, <2>1, <2>2
  <2>4. QED
    BY <2>2, <2>3
<1>12. QED
  BY <1>2, <1>5, <1>6, <1>8, <1>9, <1>10, <1>11 DEF StackShape, t

\* A call leaves the shape of the stack, provided that a definition is called
\* whose evaluation is not under way.
LEMMA PushShape ==
  ASSUME Prepared, ClosedIn(prog, Known(scc)), NEW s, NEW lz, NEW mz, StackShape(s, lz), s # <<>>,
         NEW f \in FrameSet, f.node = s[1].node, 0 < f.at, f.at <= Calls(f.node), Settled(mz, f),
         \A n \in DOMAIN lz : n \in DOMAIN mz /\ mz[n] = lz[n],
         isFunDef(f.node) => \A j \in DOMAIN s : j > 1 => s[j].node # f.node,
         NEW c, c = Callee(mz, f)
  PROVE  StackShape(<<Frame(c), f>> \o Tail(s), mz)
<1> DEFINE n == f.node
           g == Frame(c)
           t == <<g, f>> \o Tail(s)
           d == definition(n)
<1>1. s \in Seq(FrameSet) /\ n \in Places
  BY DEF StackShape, FrameSet
<1>2. isFunDef(n) =>
        /\ d \in Defs /\ n = <<d>> /\ c \in Places /\ ~isFunDef(c) /\ definition(c) = d
        /\ DefsAt(c) = DefsIn(prog[d].body) /\ Free(c) \subseteq Free(n) \cup {d} /\ DefsAt(n) = {d}
  <2> SUFFICES ASSUME isFunDef(n)
               PROVE  /\ d \in Defs /\ n = <<d>> /\ c \in Places /\ ~isFunDef(c) /\ definition(c) = d
                      /\ DefsAt(c) = DefsIn(prog[d].body) /\ Free(c) \subseteq Free(n) \cup {d}
                      /\ DefsAt(n) = {d}
    OBVIOUS
  <2>1. c = body(n)
    BY DEF Callee
  <2>2. /\ d \in Defs /\ n = <<d>> /\ c \in Places /\ ~isFunDef(c) /\ definition(c) = d
        /\ Term(c) = prog[d].body /\ successors(dgr, c) \subseteq successors(dgr, n)
    BY <1>1, <2>1, DefPlace
  <2>3. QED
    BY <2>2 DEF DefsAt, Free
<1>3. ~isFunDef(n) => CallFits(n, c)
  BY CalleeFits
<1>4. g \in FrameSet /\ g.node = c /\ g.at = 0
  BY <1>1, <1>2, <1>3, UnaryBounds DEF FrameSet, Frame, CallFits
<1> HIDE DEF g
<1>5. /\ t \in Seq(FrameSet) /\ Len(s) \in Nat /\ Len(s) > 0 /\ Len(t) = Len(s) + 1
      /\ DOMAIN s = 1 .. Len(s) /\ DOMAIN t = 1 .. Len(s) + 1
      /\ t[1] = g /\ t[2] = f /\ \A i \in 3 .. Len(s) + 1 : t[i] = s[i - 1]
  BY <1>1, <1>4, Pushed
<1> HIDE DEF t
<1>6. /\ 1 \in DOMAIN t /\ 2 \in DOMAIN t /\ 1 \in DOMAIN s
      /\ \A j \in DOMAIN s : j \in Int /\ j >= 1 /\ (j > 1 => j + 1 \in DOMAIN t /\ t[j + 1] = s[j])
  <2>1. \A j \in DOMAIN s : j > 1 => j + 1 \in 3 .. Len(s) + 1 /\ (j + 1) - 1 = j
    BY <1>5
  <2>2. QED
    BY <1>5, <2>1
<1>7. \A i \in DOMAIN t :
        /\ i \in Int
        /\ i = 1 \/ i = 2 \/ (i > 2 /\ i - 1 \in DOMAIN s /\ i - 1 > 1 /\ t[i] = s[i - 1])
  BY <1>5
<1>8. \A i \in DOMAIN t : t[i].node = IF i = 1 THEN c ELSE s[i - 1].node
  BY <1>4, <1>5, <1>7
<1>9. \A i \in DOMAIN t : i > 1 => i - 1 \in DOMAIN s
  BY <1>5
\* The frames from the second on have the places of those of s.
<1>10. \A i, j \in DOMAIN t :
         1 < i /\ i < j => /\ i - 1 \in DOMAIN s /\ j - 1 \in DOMAIN s /\ i - 1 < j - 1
                           /\ t[i].node = s[i - 1].node /\ t[j].node = s[j - 1].node
  <2>1. \A i, j \in DOMAIN t : 1 < i /\ i < j => 1 < j /\ i # 1 /\ j # 1 /\ i - 1 < j - 1
    BY <1>5
  <2>2. QED
    BY <1>8, <1>9, <2>1
\* Those of s are in t, one further down.
<1>11. \A i \in DOMAIN t, j \in DOMAIN s :
         1 < i /\ i - 1 < j => j + 1 \in DOMAIN t /\ i < j + 1 /\ t[j + 1].node = s[j].node
  <2>1. \A i \in DOMAIN t, j \in DOMAIN s : 1 < i /\ i - 1 < j => j > 1 /\ i < j + 1
    BY <1>5
  <2>2. QED
    BY <1>6, <2>1
<1>12. FramesCalled(t, mz)
  <2>1. t[Len(t)].node = <<Query, 1>>
    <3>1. Len(t) \in DOMAIN t /\ Len(t) # 1 /\ Len(t) - 1 = Len(s)
      BY <1>5
    <3>2. s[Len(s)].node = <<Query, 1>>
      BY DEF StackShape, FramesCalled
    <3>3. QED
      BY <1>8, <3>1, <3>2
  <2>2. /\ t[1].at <= Calls(t[1].node) /\ Settled(mz, t[1])
    <3>1. Calls(c) \in 0 .. 3
      BY <1>4, CallsTyped DEF FrameSet
    <3>2. QED
      BY <1>4, <1>5, <3>1 DEF Settled
  <2>3. /\ t[2].at <= Calls(t[2].node) /\ Settled(mz, t[2])
        /\ t[2].at > 0 /\ t[1].node = Callee(mz, t[2])
    BY <1>4, <1>5
  <2>4. ASSUME NEW j \in DOMAIN s, j > 1
        PROVE  /\ s[j].at <= Calls(s[j].node) /\ Settled(mz, s[j])
               /\ s[j].at > 0 /\ s[j - 1].node = Callee(mz, s[j])
    <3>1. /\ s[j].at <= Calls(s[j].node) /\ Settled(lz, s[j])
          /\ s[j].at > 0 /\ s[j - 1].node = Callee(lz, s[j])
      BY <2>4 DEF StackShape, FramesCalled
    <3>2. Settled(mz, s[j])
      BY <3>1 DEF Settled
    <3>3. special(s[j].node) => mz[s[j].node] = lz[s[j].node]
      BY <3>1 DEF Settled
    <3>4. Callee(mz, s[j]) = Callee(lz, s[j])
      BY <3>3 DEF Callee
    <3>5. QED
      BY <3>1, <3>2, <3>4
  <2>5. ASSUME NEW i \in DOMAIN t, i > 2
        PROVE  /\ t[i].at <= Calls(t[i].node) /\ Settled(mz, t[i])
               /\ t[i].at > 0 /\ t[i - 1].node = Callee(mz, t[i])
    <3>1. i - 1 \in DOMAIN s /\ i - 1 > 1 /\ t[i] = s[i - 1] /\ i - 1 \in DOMAIN t /\ i - 1 # 1
      BY <1>5, <2>5
    <3>2. t[i - 1].node = s[(i - 1) - 1].node
      BY <1>8, <3>1
    <3>3. QED
      BY <2>4, <3>1, <3>2
  <2>6. \A i \in DOMAIN t : i = 1 \/ i = 2 \/ i > 2
    BY <1>5
  <2>7. \A i \in DOMAIN t :
          /\ t[i].at <= Calls(t[i].node)
          /\ Settled(mz, t[i])
          /\ i > 1 => t[i].at > 0 /\ t[i - 1].node = Callee(mz, t[i])
    <3> TAKE i \in DOMAIN t
    <3>1. CASE i = 1
      BY <2>2, <3>1
    <3>2. CASE i = 2
      BY <2>3, <3>2
    <3>3. CASE i > 2
      BY <2>5, <3>3
    <3>4. QED
      BY <2>6, <3>1, <3>2, <3>3
  <2>8. QED
    BY <2>1, <2>7 DEF FramesCalled
<1>13. BodiesNest(t)
  <2> SUFFICES ASSUME NEW i \in DOMAIN t, ~isFunDef(t[i].node)
               PROVE  LET m == t[i].node
                      IN /\ \/ definition(m) = Query
                            \/ \E j \in DOMAIN t : i < j /\ t[j].node = <<definition(m)>>
                         /\ \A j \in DOMAIN t :
                              i < j /\ ~isFunDef(t[j].node) /\ definition(t[j].node) = definition(m)
                                => Len(t[j].node) < Len(m)
    BY DEF BodiesNest
  <2>1. CASE i > 1
    <3> DEFINE m == t[i].node
    <3>1. i \in Int /\ i - 1 \in DOMAIN s /\ m = s[i - 1].node
      <4>1. i \in Int /\ i # 1
        BY <1>7, <2>1
      <4>2. i - 1 \in DOMAIN s
        BY <1>9, <2>1
      <4>3. m = s[i - 1].node
        BY <1>8, <4>1
      <4>4. QED
        BY <4>1, <4>2, <4>3
    <3>a. BodiesNest(s) /\ ~isFunDef(m)
      BY DEF StackShape
    <3> HIDE DEF m
    <3>2. definition(m) = Query \/ \E j \in DOMAIN s : i - 1 < j /\ s[j].node = <<definition(m)>>
      BY <3>1, <3>a DEF BodiesNest
    <3>3. \A j \in DOMAIN s :
            i - 1 < j /\ ~isFunDef(s[j].node) /\ definition(s[j].node) = definition(m)
              => Len(s[j].node) < Len(m)
      BY <3>1, <3>a DEF BodiesNest
    <3>4. definition(m) = Query \/ \E j \in DOMAIN t : i < j /\ t[j].node = <<definition(m)>>
      BY <1>11, <2>1, <3>2
    <3>5. \A j \in DOMAIN t :
            i < j /\ ~isFunDef(t[j].node) /\ definition(t[j].node) = definition(m)
              => Len(t[j].node) < Len(m)
      BY <1>10, <2>1, <3>3
    <3>6. QED
      BY <3>4, <3>5 DEF m
  <2>2. CASE i = 1 /\ isFunDef(n)
    <3>1. t[1].node = c /\ t[2].node = <<d>> /\ definition(c) = d /\ d \in Defs
      BY <1>2, <1>4, <1>5, <2>2
    <3>2. ASSUME NEW j \in DOMAIN s, j > 1, ~isFunDef(s[j].node), definition(s[j].node) = d
          PROVE  FALSE
      <4>1. d # Query
        BY <3>1, ProgramsAssumption
      <4>2. PICK k \in DOMAIN s : j < k /\ s[k].node = <<d>>
        BY <3>2, <4>1 DEF StackShape, BodiesNest
      <4>3. k > 1
        BY <1>5, <3>2, <4>2
      <4>4. QED
        BY <1>2, <2>2, <4>2, <4>3
    <3>3. ASSUME NEW j \in DOMAIN t, 1 < j, ~isFunDef(t[j].node), definition(t[j].node) = d
          PROVE  FALSE
      <4>1. CASE j = 2
        BY <1>5, <2>2, <3>3, <4>1
      <4>2. CASE j > 2
        BY <1>7, <3>2, <3>3, <4>2
      <4>3. QED
        BY <1>7, <3>3, <4>1, <4>2
    <3>4. 1 < 2 /\ 2 \in DOMAIN t
      BY <1>6
    <3>5. QED
      BY <2>2, <3>1, <3>3, <3>4
  <2>3. CASE i = 1 /\ ~isFunDef(n)
    <3>1. t[1].node = c /\ t[2].node = n /\ s[1].node = n /\ ~isFunDef(c)
      BY <1>4, <1>5, <2>3
    <3>2. definition(c) = definition(n) /\ Len(c) \in Nat /\ Len(c) > Len(n) /\ Len(n) \in Nat
      BY <1>1, <1>3, <2>3, <3>1, TermPlace DEF CallFits
    <3>3. definition(n) = Query \/ \E j \in DOMAIN s : 1 < j /\ s[j].node = <<definition(n)>>
      BY <1>6, <2>3, <3>1 DEF StackShape, BodiesNest
    <3>4. \A j \in DOMAIN s :
            1 < j /\ ~isFunDef(s[j].node) /\ definition(s[j].node) = definition(n)
              => Len(s[j].node) < Len(n)
      BY <1>6, <2>3, <3>1 DEF StackShape, BodiesNest
    <3>5. \A j \in DOMAIN s : 1 < j => j + 1 \in DOMAIN t /\ 1 < j + 1 /\ t[j + 1].node = s[j].node
      BY <1>6
    <3>6. definition(n) = Query \/ \E j \in DOMAIN t : 1 < j /\ t[j].node = <<definition(n)>>
      BY <3>3, <3>5
    <3>7. ASSUME NEW j \in DOMAIN t, 1 < j, ~isFunDef(t[j].node),
                 definition(t[j].node) = definition(n)
          PROVE  Len(t[j].node) < Len(c)
      <4>1. CASE j = 2
        BY <3>1, <3>2, <4>1
      <4>2. CASE j > 2
        <5>1. j - 1 \in DOMAIN s /\ 1 < j - 1 /\ t[j] = s[j - 1]
          BY <1>7, <4>2
        <5>2. Len(t[j].node) < Len(n)
          BY <3>4, <3>7, <5>1
        <5>3. s[j - 1].node \in Places /\ ~isFunDef(s[j - 1].node)
          <6>1. s[j - 1] \in FrameSet
            BY <1>1, <1>5, <5>1, ElementOfSeq
          <6>2. s[j - 1].node \in Places
            BY <6>1 DEF FrameSet
          <6>3. QED
            BY <3>7, <5>1, <6>2
        <5>4. Len(t[j].node) \in Nat
          BY <5>1, <5>3, TermPlace
        <5>5. QED
          BY <3>2, <5>2, <5>4
      <4>3. QED
        BY <1>7, <3>7, <4>1, <4>2
    <3>8. QED
      BY <2>3, <3>1, <3>2, <3>6, <3>7
  <2>4. QED
    BY <1>7, <2>1, <2>2, <2>3
<1>14. OpenOnce(t)
  <2> SUFFICES ASSUME NEW i \in DOMAIN t, NEW j \in DOMAIN t,
                      i < j, isFunDef(t[j].node), t[i].node = t[j].node
               PROVE  t[i].at = 0
    BY DEF OpenOnce
  <2>1. CASE i = 1
    BY <1>4, <1>5, <2>1
  <2>2. CASE i = 2
    <3>1. j - 1 \in DOMAIN s /\ j - 1 > 1 /\ t[j] = s[j - 1]
      BY <1>7, <2>2
    <3>2. t[i].node = n
      BY <1>5, <2>2
    <3>3. QED
      BY <3>1, <3>2
  <2>3. CASE i > 2
    <3>1. /\ i - 1 \in DOMAIN s /\ j - 1 \in DOMAIN s /\ i - 1 < j - 1
          /\ t[i].node = s[i - 1].node /\ t[j].node = s[j - 1].node
      BY <1>7, <1>10, <2>3
    <3>2. t[i] = s[i - 1]
      BY <1>7, <2>3
    <3>3. QED
      BY <3>1, <3>2 DEF StackShape, OpenOnce
  <2>4. QED
    BY <1>7, <2>1, <2>2, <2>3
<1>15. ASSUME NEW X \in SUBSET Defs, ClosedIn(prog, X), DefsAt(n) \subseteq X
       PROVE  DefsAt(c) \subseteq X
  <2>1. CASE isFunDef(n)
    <3>1. d \in X /\ DefsAt(c) = DefsIn(prog[d].body)
      BY <1>2, <1>15, <2>1
    <3>2. QED
      BY <1>15, <3>1 DEF ClosedIn
  <2>2. CASE ~isFunDef(n)
    BY <1>3, <1>15, <2>2 DEF CallFits, DefsAt
  <2>3. QED
    BY <2>1, <2>2
<1>16. FramesLead(t)
  <2> SUFFICES ASSUME NEW i \in DOMAIN t, NEW j \in DOMAIN t, i < j, isFunDef(t[j].node),
                      NEW X \in SUBSET Defs, ClosedIn(prog, X),
                      DefsIn(prog[definition(t[j].node)].body) \subseteq X
               PROVE  DefsAt(t[i].node) \subseteq X
    BY DEF FramesLead
  <2>1. CASE i > 1
    BY <1>10, <2>1 DEF StackShape, FramesLead
  <2>2. CASE i = 1 /\ j = 2
    <3>1. t[1].node = c /\ t[2].node = n
      BY <1>4, <1>5
    <3>2. isFunDef(n) /\ DefsAt(c) = DefsIn(prog[d].body)
      BY <1>2, <2>2, <3>1
    <3>3. QED
      BY <2>2, <3>1, <3>2
  <2>3. CASE i = 1 /\ j > 2
    <3>1. j - 1 \in DOMAIN s /\ 1 < j - 1 /\ t[j] = s[j - 1] /\ t[1].node = c
      BY <1>4, <1>5, <1>7, <2>3
    <3>2. DefsAt(n) \subseteq X
      BY <1>6, <3>1 DEF StackShape, FramesLead
    <3>3. QED
      BY <1>15, <2>3, <3>1, <3>2
  <2>4. QED
    BY <1>7, <2>1, <2>2, <2>3
<1>17. FramesKnown(t)
  <2> SUFFICES ASSUME NEW i \in DOMAIN t PROVE DefsAt(t[i].node) \subseteq Known(scc)
    BY DEF FramesKnown
  <2>1. \A j \in DOMAIN s : DefsAt(s[j].node) \subseteq Known(scc)
    BY DEF StackShape, FramesKnown
  <2>2. Known(scc) \in SUBSET Defs
    BY DEF Known
  <2>3. DefsAt(c) \subseteq Known(scc)
    BY <1>6, <1>15, <2>1, <2>2
  <2>4. QED
    BY <1>7, <1>8, <1>9, <2>1, <2>3
<1>18. FreeIsOpen(t)
  <2> SUFFICES ASSUME NEW i \in DOMAIN t, NEW e \in Free(t[i].node)
               PROVE  \E j \in DOMAIN t : i < j /\ t[j].node = <<e>>
    BY DEF FreeIsOpen
  <2>1. CASE i > 1
    <3>1. i - 1 \in DOMAIN s /\ t[i].node = s[i - 1].node
      BY <1>7, <1>8, <1>9, <2>1
    <3>2. PICK j \in DOMAIN s : i - 1 < j /\ s[j].node = <<e>>
      BY <3>1 DEF StackShape, FreeIsOpen
    <3>3. QED
      BY <1>11, <2>1, <3>2
  <2>2. CASE i = 1
    <3>1. e \in Free(c) /\ t[2].node = n /\ 2 \in DOMAIN t
      BY <1>4, <1>5, <1>6, <2>2
    <3>2. ASSUME NEW k \in Free(n) PROVE \E j \in DOMAIN s : 1 < j /\ s[j].node = <<k>>
      BY <1>6, <3>2 DEF StackShape, FreeIsOpen
    <3>3. ASSUME NEW j \in DOMAIN s, 1 < j
          PROVE  j + 1 \in DOMAIN t /\ 1 < j + 1 /\ t[j + 1].node = s[j].node
      BY <1>6, <3>3
    <3>4. CASE e \in Free(n)
      <4>1. PICK j \in DOMAIN s : 1 < j /\ s[j].node = <<e>>
        BY <3>2, <3>4
      <4>2. QED
        BY <2>2, <3>3, <4>1
    <3>5. CASE isFunDef(n) /\ e = d
      BY <1>2, <2>2, <3>1, <3>5
    <3>6. CASE ~isFunDef(n) /\ e \notin Free(n)
      <4>1. isFunDef(c) /\ definition(c) \in Free(n) /\ c \in Places
        BY <1>3, <3>1, <3>6 DEF CallFits
      <4>2. c = <<definition(c)>>
        BY <4>1, DefPlace
      <4>3. PICK k \in DOMAIN s : 1 < k /\ s[k].node = c
        BY <3>2, <4>1, <4>2
      <4>4. PICK j \in DOMAIN s : k < j /\ s[j].node = <<e>>
        BY <3>1, <4>3 DEF StackShape, FreeIsOpen
      <4>5. 1 < j
        BY <1>6, <4>3, <4>4
      <4>6. QED
        BY <2>2, <3>3, <4>4, <4>5
    <3>7. QED
      BY <1>2, <3>1, <3>4, <3>5, <3>6
  <2>3. QED
    BY <1>7, <2>1, <2>2
<1>19. QED
  BY <1>5, <1>12, <1>13, <1>14, <1>16, <1>17, <1>18 DEF StackShape, t, g

-------------------------------------------------------------------------------
(***************************************************************************)
(* While a term is evaluated, the program, the term and the graph stay.    *)
(***************************************************************************)
Same == UNCHANGED <<prog, flags, scc, query, dgr>>

\* What is defined from them stays as well.
LEMMA SamePlaces ==
  ASSUME Same
  PROVE  /\ Places' = Places /\ Bodies(query)' = Bodies(query)
         /\ \A n : Term(n)' = Term(n) /\ op(n)' = op(n)
         /\ \A n : special(n)' = special(n)
         /\ \A n : Calls(n)' = Calls(n) /\ DefsAt(n)' = DefsAt(n) /\ Free(n)' = Free(n)
         /\ \A lz, f : Settled(lz, f)' = Settled(lz, f) /\ Callee(lz, f)' = Callee(lz, f)
<1>1. Bodies(query)' = Bodies(query)
  BY DEF Same, Bodies
<1>2. Places' = Places
  BY <1>1 DEF Places
<1>3. \A n : Term(n)' = Term(n)
  BY <1>1 DEF Term
<1>4. \A n : op(n)' = op(n)
  BY <1>3 DEF op
<1>5. \A n : special(n)' = special(n)
  BY <1>4 DEF special, Same
<1>6. \A n : Calls(n)' = Calls(n)
  BY <1>4, <1>5 DEF Calls
<1>7. \A n : DefsAt(n)' = DefsAt(n)
  BY <1>3 DEF DefsAt
<1>8. \A n : Free(n)' = Free(n)
  BY DEF Free, Same
<1>9. \A lz, f : Settled(lz, f)' = Settled(lz, f)
  BY <1>4, <1>5 DEF Settled
<1>10. \A lz, f : Callee(lz, f)' = Callee(lz, f)
  BY <1>3, <1>5 DEF Callee
<1>11. QED
  BY <1>1, <1>2, <1>3, <1>4, <1>5, <1>6, <1>7, <1>8, <1>9, <1>10

\* The shape of a stack does not depend on what changes.
LEMMA SameShape ==
  ASSUME Same, StackShape(stack', lazy')
  PROVE  StackShape(stack, lazy)'
<1>1. FrameSet' = FrameSet
  BY SamePlaces DEF FrameSet
<1>2. FramesCalled(stack, lazy)'
  BY SamePlaces DEF StackShape, FramesCalled
<1>3. BodiesNest(stack)'
  BY DEF StackShape, BodiesNest
<1>4. OpenOnce(stack)'
  BY DEF StackShape, OpenOnce
<1>5. FramesLead(stack)'
  BY SamePlaces DEF StackShape, FramesLead, Same
<1>6. FramesKnown(stack)'
  BY SamePlaces DEF StackShape, FramesKnown, Same
<1>7. FreeIsOpen(stack)'
  BY SamePlaces DEF StackShape, FreeIsOpen
<1>8. QED
  BY <1>1, <1>2, <1>3, <1>4, <1>5, <1>6, <1>7 DEF StackShape

-------------------------------------------------------------------------------
(***************************************************************************)
(* What the frames hold                                                    *)
(***************************************************************************)
\* The predicates that the handler of frame f still needs: its approximation,
\* its first operand's, and the second one of ite.
HeldBy(f) ==
  {n \in {f.node} : (isFunDef(n) /\ f.at > 0 /\ isFixpoint(definition(n))) \/ f.at >= 2}
    \cup {n \in {child(f.node, 2)} : f.at = 3}

\* The frames of a stack.
LEMMA FrameTyped ==
  ASSUME NEW s \in Seq(FrameSet), NEW i \in DOMAIN s
  PROVE  s[i] \in FrameSet /\ s[i].node \in Places /\ s[i].at \in 0 .. 3 /\ i \in Int /\ i >= 1
<1>1. i \in 1 .. Len(s) /\ Len(s) \in Nat
  OBVIOUS
<1>2. s[i] \in FrameSet
  BY <1>1, ElementOfSeq
<1>3. QED
  BY <1>1, <1>2 DEF FrameSet

\* Three operands has ite only.
LEMMA ThreeCalls ==
  ASSUME Prepared, NEW n \in Places, 3 <= Calls(n)
  PROVE  /\ ~isFunDef(n) /\ op(n) = "ite" /\ ~special(n)
         /\ \A i \in 1 .. 3 : operand(n, i) = child(n, i) /\ i \in DOMAIN Term(n).args
<1>1. ~isFunDef(n)
  BY DEF Calls, op
<1>2. op(n) \in {"const", "app", "not", "ite"} \cup Binary \cup Quantor
  BY <1>1, TermPlace, TermsAssumption
<1>3. op(n) = "ite"
  BY <1>2 DEF Calls
<1>4. ~special(n)
  BY <1>3, ClassesApart DEF special
<1>5. Calls(n) = 3
  BY <1>3, ClassesApart DEF Calls
<1>6. \A i \in 1 .. 3 : operands(Term(n), n)[i] = child(n, i) /\ i \in DOMAIN Term(n).args
  BY <1>1, <1>3, <1>4, <1>5, PlainOperand
<1>7. QED
  BY <1>1, <1>3, <1>4, <1>6 DEF operand

\* What a frame holds is its place, or a child of it.
LEMMA HeldPlaces ==
  ASSUME Prepared, NEW s, NEW lz, StackShape(s, lz), NEW j \in DOMAIN s, NEW x \in HeldBy(s[j])
  PROVE  LET n == s[j].node
         IN \/ x = n
            \/ /\ ~isFunDef(n) /\ ~isFunDef(x) /\ definition(x) = definition(n) /\ x \in Places
               /\ Len(x) = Len(n) + 1 /\ Free(x) \subseteq Free(n) /\ op(n) = "ite"
<1> DEFINE n == s[j].node
<1>1. n \in Places /\ s[j].at \in 0 .. 3
  BY FrameTyped DEF StackShape
<1>2. SUFFICES ASSUME x # n, s[j].at = 3, x = child(n, 2)
               PROVE  /\ ~isFunDef(n) /\ ~isFunDef(x) /\ definition(x) = definition(n)
                      /\ Len(x) = Len(n) + 1 /\ Free(x) \subseteq Free(n) /\ op(n) = "ite"
                      /\ x \in Places
  BY DEF HeldBy
<1>3. 3 <= Calls(n)
  BY <1>2 DEF StackShape, FramesCalled
<1>4. ~isFunDef(n) /\ op(n) = "ite" /\ 2 \in DOMAIN Term(n).args
  BY <1>1, <1>3, ThreeCalls
<1>5. QED
  BY <1>1, <1>2, <1>4, ChildPlace

\* The places of terms below the top frame, in its body, are shorter.
LEMMA BelowTerm ==
  ASSUME Prepared, NEW s, NEW lz, StackShape(s, lz), s # <<>>, ~isFunDef(s[1].node),
         NEW c, ~isFunDef(c), definition(c) = definition(s[1].node), Len(c) \in Nat,
         Len(c) > Len(s[1].node),
         NEW j \in DOMAIN s, j > 1
  PROVE  c # s[j].node /\ c \notin HeldBy(s[j]) /\ s[1].node # s[j].node
<1> DEFINE n == s[1].node
           m == s[j].node
<1>1. 1 \in DOMAIN s /\ n \in Places /\ m \in Places /\ j \in Int
  <2>1. 1 \in DOMAIN s
    BY EmptySeq DEF StackShape
  <2>2. QED
    BY <2>1, FrameTyped DEF StackShape
<1>2. Len(n) \in Nat
  BY <1>1, TermPlace
<1>3. ~isFunDef(m) /\ definition(m) = definition(n) => Len(m) < Len(n) /\ Len(m) \in Nat
  BY <1>1, TermPlace DEF StackShape, BodiesNest
<1>4. c # m /\ n # m
  BY <1>2, <1>3
<1>5. ASSUME c \in HeldBy(s[j]) PROVE FALSE
  <2>1. ~isFunDef(m) /\ definition(c) = definition(m) /\ Len(c) = Len(m) + 1
    BY <1>4, <1>5, HeldPlaces
  <2>2. QED
    BY <1>2, <1>3, <2>1
<1>6. QED
  BY <1>4, <1>5

\* Below a definition under evaluation, neither it nor its body is found.
LEMMA BelowDef ==
  ASSUME Prepared, NEW s, NEW lz, StackShape(s, lz), s # <<>>, isFunDef(s[1].node),
         \A j \in DOMAIN s : j > 1 => s[j].node # s[1].node,
         NEW j \in DOMAIN s, j > 1
  PROVE  LET n == s[1].node
             d == definition(n)
         IN /\ n # s[j].node /\ n \notin HeldBy(s[j])
            /\ ~isFunDef(s[j].node) => definition(s[j].node) # d
            /\ \A x \in HeldBy(s[j]) : ~isFunDef(x) => definition(x) # d
            /\ \A x \in HeldBy(s[j]) : d \notin successors(dgr, x)
<1> DEFINE n == s[1].node
           d == definition(n)
           m == s[j].node
<1>1. 1 \in DOMAIN s /\ n \in Places /\ m \in Places /\ j \in Int
  <2>1. 1 \in DOMAIN s
    BY EmptySeq DEF StackShape
  <2>2. QED
    BY <2>1, FrameTyped DEF StackShape
<1>2. d \in Defs /\ n = <<d>> /\ d # Query
  <2>1. d \in Defs /\ n = <<d>>
    BY <1>1, DefPlace
  <2>2. QED
    BY <2>1, ProgramsAssumption
<1>3. \A k \in DOMAIN s : k > j => k > 1 /\ s[k].node # n
  BY <1>1, FrameTyped DEF StackShape
<1>4. n # m
  OBVIOUS
<1>5. ~isFunDef(m) => definition(m) # d
  BY <1>2, <1>3 DEF StackShape, BodiesNest
<1>6. d \notin Free(m)
  BY <1>2, <1>3 DEF StackShape, FreeIsOpen
<1>7. isFunDef(m) => definition(m) # d
  BY <1>1, <1>2, <1>4, DefPlace
<1>8. ASSUME NEW x \in HeldBy(s[j])
      PROVE  /\ ~isFunDef(x) => definition(x) # d
             /\ d \notin successors(dgr, x) /\ x # n
  <2>1. CASE x = m
    BY <1>4, <1>5, <1>6, <1>7, <2>1 DEF Free
  <2>2. CASE x # m
    <3>1. ~isFunDef(m) /\ ~isFunDef(x) /\ definition(x) = definition(m) /\ Free(x) \subseteq Free(m)
      BY <2>2, HeldPlaces
    <3>2. QED
      BY <1>5, <1>6, <3>1 DEF Free
  <2>3. QED
    BY <2>1, <2>2
<1>9. QED
  BY <1>4, <1>5, <1>8

\* What the frames hold is what HeldPredicatesStay speaks of.
LEMMA HeldStay ==
  ASSUME Prepared, StackShape(stack, lazy), HeldPredicatesStay, NEW j \in DOMAIN stack
  PROVE  HeldBy(stack[j]) \subseteq DOMAIN memo
<1> DEFINE f == stack[j]
           n == f.node
<1>1. n \in Places /\ f.at \in 0 .. 3
  BY FrameTyped DEF StackShape
<1>2. ASSUME isFunDef(n), f.at > 0, isFixpoint(definition(n)) PROVE n \in DOMAIN memo
  BY <1>2 DEF HeldPredicatesStay, Active, valid, definition
<1>3. ASSUME f.at >= 2 PROVE n \in DOMAIN memo
  BY <1>3 DEF HeldPredicatesStay, valid
<1>4. ASSUME f.at = 3 PROVE child(n, 2) \in DOMAIN memo
  <2>1. 3 <= Calls(n)
    BY <1>4 DEF StackShape, FramesCalled
  <2>2. operand(n, 2) = child(n, 2)
    BY <1>1, <2>1, ThreeCalls
  <2>3. QED
    BY <1>4, <2>2 DEF HeldPredicatesStay, valid
<1>5. QED
  BY <1>2, <1>3, <1>4 DEF HeldBy

\* The same after a step of the evaluation.
LEMMA HeldStayNext ==
  ASSUME Prepared, Same, StackShape(stack', lazy'),
         \A j \in DOMAIN stack' : HeldBy(stack'[j]) \subseteq DOMAIN memo'
  PROVE  HeldPredicatesStay'
<1> SUFFICES ASSUME NEW i \in DOMAIN stack', NEW n, n = stack'[i].node
             PROVE  /\ isFunDef(n) /\ n \in Active' /\ isFixpoint(n[1])' => n \in DOMAIN memo'
                    /\ stack'[i].at >= 2 => n \in DOMAIN memo'
                    /\ stack'[i].at = 3 => operand(n, 2)' \in DOMAIN memo'
  BY DEF HeldPredicatesStay, valid
<1>1. n \in Places /\ stack'[i].at \in 0 .. 3
  BY FrameTyped DEF StackShape
<1>2. ASSUME isFunDef(n), n \in Active', isFixpoint(n[1])' PROVE n \in DOMAIN memo'
  <2>1. PICK j \in DOMAIN stack' : stack'[j].at > 0 /\ stack'[j].node = n
    BY <1>2 DEF Active
  <2>2. isFixpoint(definition(n))
    BY <1>2 DEF isFixpoint, definition, Same
  <2>3. n \in HeldBy(stack'[j])
    BY <1>2, <2>1, <2>2 DEF HeldBy
  <2>4. QED
    BY <2>3
<1>3. ASSUME stack'[i].at >= 2 PROVE n \in DOMAIN memo'
  BY <1>3 DEF HeldBy
<1>4. ASSUME stack'[i].at = 3 PROVE operand(n, 2)' \in DOMAIN memo'
  <2>1. 3 <= Calls(n)
    BY <1>4 DEF StackShape, FramesCalled
  <2>2. ~isFunDef(n) /\ op(n) = "ite" /\ ~special(n)
    BY <1>1, <2>1, ThreeCalls
  <2>3. operands(Term(n), n)[2] = child(n, 2)
    <3>1. Calls(n) \in 0 .. 3
      BY <1>1, CallsTyped
    <3>2. 2 \in 1 .. Calls(n) /\ op(n) # "app"
      BY <2>1, <2>2, <3>1
    <3>3. QED
      BY <1>1, <2>2, <3>2, PlainOperand
  <2>4. operand(n, 2)' = child(n, 2)
    BY <2>2, <2>3, SamePlaces DEF operand
  <2>5. child(n, 2) \in HeldBy(stack'[i])
    BY <1>4 DEF HeldBy
  <2>6. QED
    BY <2>4, <2>5
<1>5. QED
  BY <1>2, <1>3, <1>4

-------------------------------------------------------------------------------
(***************************************************************************)
(* Steps of the handlers                                                   *)
(***************************************************************************)
\* While it runs, the evaluation is that of a prepared term.
LEMMA WhileRunning ==
  ASSUME Inv, Running
  PROVE  /\ Prepared /\ answer = Asked /\ ClosedIn(prog, Known(scc)) /\ SccFits(prog, scc)
         /\ stack \in Seq(FrameSet) /\ 1 \in DOMAIN stack /\ top \in FrameSet
         /\ t0 \in Places /\ top.at \in 0 .. 3 /\ top.at <= Calls(t0)
         /\ \A j \in DOMAIN stack : HeldBy(stack[j]) \subseteq DOMAIN memo
<1>1. answer = Asked /\ query \in Queries /\ GraphFits(Bodies(query), dgr, Places)
  BY DEF Inv, Evaluating, Idle, Running
<1>2. Prepared
  BY <1>1 DEF Prepared, Inv, RestTyped
<1>3. SccFits(prog, scc)
  BY <1>1 DEF Inv, ComponentsFit, Asked, Rejected
<1>4. stack \in Seq(FrameSet) /\ 1 \in DOMAIN stack
  <2>1. stack \in Seq(FrameSet)
    BY DEF Inv, StackShape
  <2>2. QED
    BY <2>1, EmptySeq DEF Running
<1>5. top \in FrameSet /\ t0 \in Places /\ top.at \in 0 .. 3
  BY <1>4, FrameTyped DEF top, t0
<1>6. top.at <= Calls(t0)
  BY <1>4 DEF Inv, StackShape, FramesCalled, top, t0
<1>7. \A j \in DOMAIN stack : HeldBy(stack[j]) \subseteq DOMAIN memo
  BY <1>2, HeldStay DEF Inv
<1>8. QED
  BY <1>1, <1>2, <1>3, <1>4, <1>5, <1>6, <1>7 DEF SccFits, Founded

\* What has to be shown of a step.
LEMMA StepInv ==
  ASSUME Inv, Running, Same, answer' = answer,
         DOMAIN cache' \subseteq Defs, \A d \in DOMAIN cache' : cache'[d] \in Unary,
         current' \in Defs \cup {NoDef},
         StackShape(stack', lazy'),
         \A n \in DOMAIN lazy' : \A k \in lazy'[n] : op(child(child(n, 1), k)) = "app",
         \A j \in DOMAIN stack' : HeldBy(stack'[j]) \subseteq DOMAIN memo',
         stack' = <<>> => <<Query, 1>> \in DOMAIN memo',
         stack' # <<>> /\ stack'[1].at > 0 => Callee(lazy', stack'[1]) \in DOMAIN memo',
         MemoTyped'
  PROVE  Inv'
<1>1. Prepared /\ answer = Asked /\ SccFits(prog, scc)
  BY WhileRunning
<1>2. RestTyped'
  BY DEF Inv, RestTyped, Same
<1>3. Evaluating'
  <2>1. GraphFits(Bodies(query), dgr, Places)'
    BY <1>1, SamePlaces DEF Prepared, Same, GraphFits
  <2>2. QED
    BY <1>1, <2>1 DEF Evaluating, Idle, valid, Same, Prepared, Asked
<1>4. ComponentsFit'
  BY <1>1 DEF ComponentsFit, SccFits, Founded, Same, ClosedIn, Known
<1>5. StackShape(stack, lazy)'
  BY SameShape
<1>6. CalleeKept'
  BY SamePlaces DEF CalleeKept, Running, top, valid
<1>7. HeldPredicatesStay'
  BY <1>1, HeldStayNext
<1>8. LazyApplied'
  BY SamePlaces DEF LazyApplied
<1>9. QED
  BY <1>2, <1>3, <1>4, <1>5, <1>6, <1>7, <1>8 DEF Inv

\* The predicate p at place n is of its type.
Fits(n, p) ==
  /\ p \in Predicates
  /\ isFunDef(n) \/ Term(n) \in ParameterTerms => p \in Unary

\* The predicates of the other places are left as they are, or given up, and what
\* the frames below hold is not given up.
Undisturbed ==
  /\ \A n \in DOMAIN memo' : n # t0 => n \in DOMAIN memo /\ memo'[n] = memo[n]
  /\ \A j \in DOMAIN stack : j > 1 => HeldBy(stack[j]) \subseteq DOMAIN memo'

\* A handler returns, having kept its predicate.
LEMMA ReturnStep ==
  ASSUME Inv, Running, Same, answer' = answer, lazy' = lazy,
         DOMAIN cache' \subseteq Defs, \A d \in DOMAIN cache' : cache'[d] \in Unary,
         current' \in Defs \cup {NoDef},
         NEW m, memo' = m, stack' = Tail(stack),
         t0 \in DOMAIN m, Fits(t0, m[t0]),
         \A n \in DOMAIN m : n # t0 => n \in DOMAIN memo /\ m[n] = memo[n],
         \A j \in DOMAIN stack : j > 1 => HeldBy(stack[j]) \subseteq DOMAIN m
  PROVE  Inv' /\ Undisturbed
<1> DEFINE s == stack'
<1>1. /\ Prepared /\ stack \in Seq(FrameSet) /\ stack # <<>> /\ StackShape(stack, lazy)
      /\ stack[1].node = t0
  BY WhileRunning DEF Running, Inv, top, t0
<1>2. /\ s \in Seq(FrameSet) /\ Len(stack) \in Nat /\ Len(stack) > 0 /\ Len(s) = Len(stack) - 1
      /\ DOMAIN stack = 1 .. Len(stack) /\ DOMAIN s = 1 .. Len(stack) - 1
      /\ \A i \in 1 .. Len(stack) - 1 : s[i] = stack[i + 1]
      /\ s = <<>> <=> Len(stack) = 1
  BY <1>1, Popped
<1>3. \A j \in DOMAIN s : j + 1 \in DOMAIN stack /\ j + 1 > 1 /\ s[j] = stack[j + 1]
  BY <1>2
<1>4. \A j \in DOMAIN stack : j > 1 => j - 1 \in DOMAIN s /\ s[j - 1] = stack[j]
  BY <1>2
<1> HIDE DEF s
<1>5. StackShape(s, lazy')
  BY <1>1, PopShape DEF s
<1>6. \A j \in DOMAIN s : HeldBy(s[j]) \subseteq DOMAIN memo'
  BY <1>3
<1>7. s = <<>> => <<Query, 1>> \in DOMAIN memo'
  BY <1>1, <1>2 DEF StackShape, FramesCalled
<1>8. s # <<>> => Callee(lazy', s[1]) \in DOMAIN memo'
  <2> SUFFICES ASSUME s # <<>> PROVE Callee(lazy, s[1]) = t0
    OBVIOUS
  <2>1. 2 \in DOMAIN stack /\ s[1] = stack[2] /\ 2 - 1 = 1
    BY <1>2
  <2>2. \A i \in DOMAIN stack : i > 1 => stack[i - 1].node = Callee(lazy, stack[i])
    BY <1>1 DEF StackShape, FramesCalled
  <2>3. stack[2 - 1].node = Callee(lazy, stack[2])
    BY <2>1, <2>2
  <2>4. QED
    BY <1>1, <2>1, <2>3
<1>9. MemoTyped'
  <2> SUFFICES ASSUME NEW n \in DOMAIN m
               PROVE  /\ m[n] \in Predicates
                      /\ isFunDef(n) => m[n] \in Unary
                      /\ ~isFunDef(n) /\ Term(n) \in ParameterTerms =>
                           \/ m[n] \in Unary
                           \/ \E i \in DOMAIN s : s[i].node = n /\ s[i].at >= 2 /\ special(n)
    BY SamePlaces DEF MemoTyped, s
  <2>1. CASE n = t0
    BY <2>1 DEF Fits
  <2>2. CASE n # t0
    <3>1. /\ m[n] \in Predicates
          /\ isFunDef(n) => m[n] \in Unary
          /\ ~isFunDef(n) /\ Term(n) \in ParameterTerms =>
               \/ m[n] \in Unary
               \/ \E i \in DOMAIN stack : stack[i].node = n /\ stack[i].at >= 2 /\ special(n)
      BY <2>2 DEF Inv, MemoTyped
    <3>2. ASSUME NEW i \in DOMAIN stack, stack[i].node = n
          PROVE  i - 1 \in DOMAIN s /\ s[i - 1] = stack[i]
      <4>1. i # 1
        BY <1>1, <2>2, <3>2
      <4>2. i > 1
        BY <1>2, <4>1
      <4>3. QED
        BY <1>4, <4>2
    <3>3. QED
      BY <3>1, <3>2
  <2>3. QED
    BY <2>1, <2>2
<1>10. \A n \in DOMAIN lazy' : \A k \in lazy'[n] : op(child(child(n, 1), k)) = "app"
  BY DEF Inv, LazyApplied
<1>11. Inv'
  BY <1>5, <1>6, <1>7, <1>8, <1>9, <1>10, StepInv DEF s
<1>12. QED
  BY <1>11 DEF Undisturbed

\* A handler goes on as frame f, and calls another.
LEMMA CallStep ==
  ASSUME Inv, Running, Same, answer' = answer, cache' = cache,
         current' \in Defs \cup {NoDef},
         NEW m, memo' = m,
         NEW f \in FrameSet, f.node = t0, 0 < f.at, f.at <= Calls(f.node), Settled(lazy', f),
         \A n \in DOMAIN lazy : n \in DOMAIN lazy' /\ lazy'[n] = lazy[n],
         \A n \in DOMAIN lazy' : \A k \in lazy'[n] : op(child(child(n, 1), k)) = "app",
         isFunDef(f.node) => \A j \in DOMAIN stack : j > 1 => stack[j].node # f.node,
         stack' = <<Frame(Callee(lazy', f)), f>> \o Tail(stack),
         t0 \in DOMAIN m => m[t0] \in Predicates /\ (Fits(t0, m[t0]) \/ (f.at >= 2 /\ special(t0))),
         \A n \in DOMAIN m : n # t0 => n \in DOMAIN memo /\ m[n] = memo[n],
         HeldBy(f) \subseteq DOMAIN m,
         \A j \in DOMAIN stack : j > 1 => HeldBy(stack[j]) \subseteq DOMAIN m
  PROVE  Inv' /\ Undisturbed
<1> DEFINE s == stack'
           c == Callee(lazy', f)
<1>1. /\ Prepared /\ ClosedIn(prog, Known(scc))
      /\ stack \in Seq(FrameSet) /\ stack # <<>> /\ StackShape(stack, lazy)
      /\ stack[1].node = t0
  BY WhileRunning DEF Running, Inv, top, t0
<1>2. StackShape(s, lazy')
  BY <1>1, PushShape
<1>3. Frame(c) \in FrameSet
  <2>1. s[1] = Frame(c) /\ 1 \in DOMAIN s
    <3>1. /\ Frame(c) \in FrameSet \cup {Frame(c)} /\ f \in FrameSet \cup {Frame(c)}
          /\ stack \in Seq(FrameSet \cup {Frame(c)})
      BY <1>1
    <3>2. QED
      BY <1>1, <3>1, Pushed
  <2>2. QED
    BY <1>2, <2>1, FrameTyped DEF StackShape
<1>4. /\ Len(stack) \in Nat /\ Len(stack) > 0
      /\ DOMAIN stack = 1 .. Len(stack) /\ DOMAIN s = 1 .. Len(stack) + 1
      /\ s[1] = Frame(c) /\ s[2] = f /\ \A i \in 3 .. Len(stack) + 1 : s[i] = stack[i - 1]
      /\ s \in Seq(FrameSet) /\ Len(s) = Len(stack) + 1
  BY <1>1, <1>3, Pushed
<1>5. /\ s # <<>> /\ Frame(c).at = 0
      /\ \A j \in DOMAIN s : \/ j = 1
                             \/ j = 2
                             \/ j - 1 \in DOMAIN stack /\ j - 1 > 1 /\ s[j] = stack[j - 1]
      /\ \A j \in DOMAIN stack : j > 1 => j + 1 \in DOMAIN s /\ s[j + 1] = stack[j]
      /\ 2 \in DOMAIN s
  <2>1. s # <<>> /\ 2 \in DOMAIN s
    BY <1>4, EmptySeq
  <2>2. \A j \in DOMAIN stack : j > 1 => j + 1 \in 3 .. Len(stack) + 1 /\ (j + 1) - 1 = j
    BY <1>4
  <2>3. \A j \in DOMAIN s : j = 1 \/ j = 2 \/ (j \in 3 .. Len(stack) + 1 /\ j - 1 \in DOMAIN stack /\ j - 1 > 1)
    BY <1>4
  <2> HIDE DEF s, c
  <2>4. QED
    BY <1>4, <2>1, <2>2, <2>3 DEF Frame
<1> HIDE DEF s
<1>6. ASSUME NEW j \in DOMAIN s PROVE HeldBy(s[j]) \subseteq DOMAIN memo'
  <2>1. CASE j = 1
    <3>1. HeldBy(Frame(c)) = {}
      BY DEF HeldBy, Frame
    <3>2. QED
      BY <1>4, <2>1, <3>1
  <2>2. CASE j = 2
    BY <1>4, <2>2
  <2>3. CASE j - 1 \in DOMAIN stack /\ j - 1 > 1 /\ s[j] = stack[j - 1]
    BY <2>3
  <2>4. QED
    BY <1>5, <2>1, <2>2, <2>3
<1>7. MemoTyped'
  <2> SUFFICES ASSUME NEW n \in DOMAIN m
               PROVE  /\ m[n] \in Predicates
                      /\ isFunDef(n) => m[n] \in Unary
                      /\ ~isFunDef(n) /\ Term(n) \in ParameterTerms =>
                           \/ m[n] \in Unary
                           \/ \E i \in DOMAIN s : s[i].node = n /\ s[i].at >= 2 /\ special(n)
    BY SamePlaces DEF MemoTyped, s
  <2>1. CASE n = t0
    <3>1. special(t0) => ~isFunDef(t0)
      BY ClassesApart DEF special, op
    <3>2. f.at >= 2 /\ special(t0) => 2 \in DOMAIN s /\ s[2].node = t0 /\ s[2].at >= 2
      BY <1>4, <1>5
    <3>3. QED
      BY <2>1, <3>1, <3>2 DEF Fits
  <2>2. CASE n # t0
    <3>1. /\ m[n] \in Predicates
          /\ isFunDef(n) => m[n] \in Unary
          /\ ~isFunDef(n) /\ Term(n) \in ParameterTerms =>
               \/ m[n] \in Unary
               \/ \E i \in DOMAIN stack : stack[i].node = n /\ stack[i].at >= 2 /\ special(n)
      BY <2>2 DEF Inv, MemoTyped
    <3>2. ASSUME NEW i \in DOMAIN stack, stack[i].node = n
          PROVE  i + 1 \in DOMAIN s /\ s[i + 1] = stack[i]
      <4>1. i # 1
        BY <1>1, <2>2, <3>2
      <4>2. i > 1
        BY <1>4, <4>1
      <4>3. QED
        BY <1>5, <4>2
    <3>3. QED
      BY <3>1, <3>2
  <2>3. QED
    BY <2>1, <2>2
<1>8. s[1].at = 0 /\ DOMAIN cache' \subseteq Defs /\ \A d \in DOMAIN cache' : cache'[d] \in Unary
  BY <1>4, <1>5 DEF Inv, RestTyped
<1>9. Inv'
  BY <1>2, <1>5, <1>6, <1>7, <1>8, StepInv DEF s
<1>10. QED
  BY <1>9 DEF Undisturbed

-------------------------------------------------------------------------------
(***************************************************************************)
(* The frame whose handler runs                                            *)
(***************************************************************************)
\* In a body, nothing below the top frame is on its place or beneath it.
LEMMA TopTerm ==
  ASSUME Inv, Running, ~isFunDef(t0), NEW j \in DOMAIN stack, j > 1
  PROVE  /\ stack[j].node # t0
         /\ \A c : ~isFunDef(c) /\ definition(c) = definition(t0) /\ Len(c) \in Nat /\ Len(c) > Len(t0)
                     => c # stack[j].node /\ c \notin HeldBy(stack[j]) /\ c # t0
<1>1. /\ Prepared /\ StackShape(stack, lazy) /\ stack # <<>> /\ stack[1].node = t0
      /\ t0 \in Places /\ t0 \in Seq(Elements) /\ Len(t0) \in Nat /\ Len(t0) >= 2
  BY WhileRunning, TermPlace DEF Running, Inv, top, t0
<1>2. ASSUME NEW c, ~isFunDef(c), definition(c) = definition(t0), Len(c) \in Nat, Len(c) > Len(t0)
      PROVE  c # stack[j].node /\ c \notin HeldBy(stack[j]) /\ stack[1].node # stack[j].node /\ c # t0
  <2>1. c # stack[j].node /\ c \notin HeldBy(stack[j]) /\ stack[1].node # stack[j].node
    BY <1>1, <1>2, BelowTerm
  <2>2. c # t0
    BY <1>1, <1>2
  <2>3. QED
    BY <2>1, <2>2
<1>3. LET c == child(t0, 1)
      IN ~isFunDef(c) /\ definition(c) = definition(t0) /\ Len(c) \in Nat /\ Len(c) > Len(t0)
  BY <1>1 DEF child, isFunDef, definition
<1>4. QED
  BY <1>1, <1>2, <1>3

\* Once the handler of a definition has called, no frame below is the same
\* definition's.
LEMMA TopDef ==
  ASSUME Inv, Running, isFunDef(t0), top.at > 0, NEW j \in DOMAIN stack, j > 1
  PROVE  stack[j].node # t0
<1>1. 1 \in DOMAIN stack /\ stack[1] = top
  BY WhileRunning DEF top
<1>2. OpenOnce(stack)
  BY DEF Inv, StackShape
<1>3. QED
  BY <1>1, <1>2, FrameTyped, WhileRunning DEF OpenOnce, t0

\* The predicate that a term's handler holds is of the type of the term.
LEMMA TopFits ==
  ASSUME Inv, Running, valid(t0), isFunDef(t0) \/ top.at = 0 \/ ~special(t0)
  PROVE  Fits(t0, memo[t0])
<1>1. /\ memo[t0] \in Predicates
      /\ isFunDef(t0) => memo[t0] \in Unary
      /\ ~isFunDef(t0) /\ Term(t0) \in ParameterTerms =>
           \/ memo[t0] \in Unary
           \/ \E i \in DOMAIN stack : stack[i].node = t0 /\ stack[i].at >= 2 /\ special(t0)
  BY DEF valid, Inv, MemoTyped
<1>2. ASSUME ~isFunDef(t0), NEW i \in DOMAIN stack, stack[i].node = t0, stack[i].at >= 2, special(t0)
      PROVE  FALSE
  <2>1. i \in Int /\ i >= 1
    BY WhileRunning, FrameTyped
  <2>2. CASE i = 1
    BY <1>2, <2>2 DEF top
  <2>3. CASE i > 1
    BY <1>2, <2>3, TopTerm
  <2>4. QED
    BY <2>1, <2>2, <2>3
<1>3. QED
  BY <1>1, <1>2 DEF Fits

\* The operands are what the handler calls.
LEMMA OperandIs ==
  ASSUME ~isFunDef(t0), NEW f, f.node = t0, NEW lz,
         special(t0) => lz[t0] = IF t0 \in DOMAIN lazy THEN lazy[t0]
                                 ELSE prepare_lazy_substitutions(t0)
  PROVE  operand(t0, f.at) = Callee(lz, f)
BY DEF operand, Callee

\* What the top frame has called has a predicate of its type.
LEMMA CalledTyped ==
  ASSUME Inv, Running, ~isFunDef(t0), top.at > 0
  PROVE  LET c == operand(t0, top.at)
         IN c \in DOMAIN memo /\ memo[c] \in Predicates /\ (isFunDef(c) => memo[c] \in Unary)
<1>1. Settled(lazy, top)
  BY WhileRunning DEF Inv, StackShape, FramesCalled, top
<1>2. operand(t0, top.at) = Callee(lazy, top)
  BY <1>1, OperandIs DEF Settled, t0
<1>3. Callee(lazy, top) \in DOMAIN memo
  BY DEF Inv, CalleeKept, valid
<1>4. QED
  BY <1>2, <1>3 DEF Inv, MemoTyped

\* The operands of a term that is no special quantor and no application.
LEMMA SubtermOperand ==
  ASSUME Inv, Running, ~isFunDef(t0), ~special(t0), op(t0) # "app", NEW i \in 1 .. Calls(t0)
  PROVE  LET c == child(t0, i)
         IN /\ operand(t0, i) = c /\ c # t0 /\ ~isFunDef(c) /\ c \in Places
            /\ \A j \in DOMAIN stack : j > 1 => c \notin HeldBy(stack[j])
            /\ Term(t0) \in ParameterTerms /\ op(t0) \notin Quantor /\ c \in DOMAIN memo
                 => memo[c] \in Unary
<1> DEFINE c == child(t0, i)
<1>1. /\ Prepared /\ t0 \in Places /\ stack[1].node = t0 /\ Calls(t0) \in 0 .. 3
      /\ Len(t0) \in Nat
  BY WhileRunning, TermPlace, CallsTyped DEF top, t0
<1>2. operands(Term(t0), t0)[i] = c /\ i \in DOMAIN Term(t0).args /\ i \in Nat
  BY <1>1, PlainOperand
<1>3. operand(t0, i) = c
  BY <1>2 DEF operand
<1>4. /\ c \in Places /\ ~isFunDef(c) /\ definition(c) = definition(t0) /\ Len(c) = Len(t0) + 1
      /\ Term(t0) \in ParameterTerms /\ op(t0) \notin Quantor => Term(c) \in ParameterTerms
  BY <1>1, <1>2, ChildPlace
<1>5. Len(c) \in Nat /\ Len(c) > Len(t0) /\ c # t0
  BY <1>1, <1>4
<1> HIDE DEF c
<1>6. \A j \in DOMAIN stack : j > 1 => c \notin HeldBy(stack[j]) /\ stack[j].node # c
  BY <1>4, <1>5, TopTerm
<1>7. \A j \in DOMAIN stack : stack[j].node # c
  <2> TAKE j \in DOMAIN stack
  <2>1. j = 1 \/ j > 1
    BY WhileRunning, FrameTyped
  <2>2. QED
    BY <1>1, <1>5, <1>6, <2>1
<1>8. Term(c) \in ParameterTerms /\ c \in DOMAIN memo => memo[c] \in Unary
  BY <1>4, <1>7 DEF Inv, MemoTyped
<1>9. QED
  BY <1>3, <1>4, <1>5, <1>6, <1>8 DEF c

\* An operand that is reset is in the body of the term, below its place.
LEMMA OperandReset ==
  ASSUME Inv, Running, ~isFunDef(t0), special(t0) \/ op(t0) \in Binary \cup {"ite"},
         special(t0) => t0 \in DOMAIN lazy,
         NEW i \in 1 .. Calls(t0), NEW m, t0 \in DOMAIN m,
         \A j \in DOMAIN stack : j > 1 => HeldBy(stack[j]) \subseteq DOMAIN m
  PROVE  LET r == ResetOperand(m, i)
         IN /\ t0 \in DOMAIN r /\ DOMAIN r \subseteq DOMAIN m
            /\ \A n \in DOMAIN r : r[n] = m[n]
            /\ \A n \in DOMAIN m : n # operand(t0, i) => n \in DOMAIN r
            /\ \A j \in DOMAIN stack : j > 1 => HeldBy(stack[j]) \subseteq DOMAIN r
<1> DEFINE c == operand(t0, i)
           r == ResetOperand(m, i)
<1>1. /\ Prepared /\ t0 \in Places /\ Len(t0) \in Nat /\ Calls(t0) \in 0 .. 3
  BY WhileRunning, TermPlace, CallsTyped
<1>2. r = m \/ (r = Without(m, {c}) /\ ~(special(t0) /\ i \in lazy[t0]))
  BY DEF ResetOperand, reset_if_possible
<1>3. ASSUME ~(special(t0) /\ i \in lazy[t0])
      PROVE  c # t0 /\ \A j \in DOMAIN stack : j > 1 => c \notin HeldBy(stack[j])
  <2>1. CASE special(t0)
    <3>1. i \in {1, 2}
      BY <1>1, <2>1, SpecialPlace, ClassesApart DEF Calls
    <3>2. c = child(child(t0, 1), i)
      BY <1>3, <2>1 DEF operand
    <3>3. ~isFunDef(c) /\ definition(c) = definition(t0) /\ Len(c) = Len(t0) + 2
      BY <1>1, <2>1, <3>1, <3>2, SpecialPlace
    <3>4. Len(c) \in Nat /\ Len(c) > Len(t0) /\ c # t0
      BY <1>1, <3>3
    <3>5. QED
      BY <3>3, <3>4, TopTerm
  <2>2. CASE ~special(t0)
    <3>1. op(t0) # "app"
      BY <2>2, ClassesApart
    <3>2. QED
      BY <2>2, <3>1, SubtermOperand
  <2>3. QED
    BY <2>1, <2>2
<1>4. CASE r = m
  BY <1>4
<1>5. CASE r = Without(m, {c}) /\ ~(special(t0) /\ i \in lazy[t0])
  <2> HIDE DEF r, c
  <2>1. DOMAIN r = DOMAIN m \ {c} /\ \A n \in DOMAIN r : r[n] = m[n]
    BY <1>5 DEF Without
  <2>2. c # t0 /\ \A j \in DOMAIN stack : j > 1 => c \notin HeldBy(stack[j])
    BY <1>3, <1>5 DEF c
  <2>3. QED
    BY <2>1, <2>2 DEF r, c
<1>6. QED
  BY <1>2, <1>4, <1>5

\* What With and Without make of a function.
LEMMA WithIs ==
  ASSUME NEW f, NEW x, NEW e
  PROVE  LET g == With(f, x, e)
         IN DOMAIN g = DOMAIN f \cup {x} /\ g[x] = e /\ \A y \in DOMAIN g : y # x => y \in DOMAIN f /\ g[y] = f[y]
BY DEF With

\* What Without leaves of a function.
LEMMA WithoutIs ==
  ASSUME NEW f, NEW S
  PROVE  LET g == Without(f, S)
         IN DOMAIN g = DOMAIN f \ S /\ \A y \in DOMAIN g : g[y] = f[y]
BY DEF Without

\* A step of the handlers of terms changes only what belongs to the evaluation.
LEMMA SessionSame == ASSUME UNCHANGED <<session, dgr>> PROVE Same /\ cache' = cache /\ asked' = asked
BY DEF session, Same

\* Only the place of a term has a class of terms.
LEMMA TermOp ==
  /\ \A n : op(n) # "fundef" => ~isFunDef(n)
  /\ \A n : special(n) => ~isFunDef(n) /\ op(n) \in Quantor
BY ClassesApart DEF op, special

\* Handlers that return with their term's predicate and forget at most an
\* operand.
LEMMA TermReturns ==
  ASSUME Inv, Running, ~isFunDef(t0), UNCHANGED <<session, dgr, lazy, current, answer>>,
         NEW m, Return(m), t0 \in DOMAIN m, Fits(t0, m[t0]),
         \A n \in DOMAIN m : n # t0 => n \in DOMAIN memo /\ m[n] = memo[n],
         \A j \in DOMAIN stack : j > 1 => HeldBy(stack[j]) \subseteq DOMAIN m
  PROVE  Inv' /\ Undisturbed
<1>1. Same /\ cache' = cache /\ lazy' = lazy /\ current' = current /\ answer' = answer
  BY SessionSame
<1>2. DOMAIN cache \subseteq Defs /\ \A d \in DOMAIN cache : cache[d] \in Unary
  BY DEF Inv, RestTyped
<1>3. current \in Defs \cup {NoDef}
  BY DEF Inv, RestTyped
<1>4. memo' = m /\ stack' = Tail(stack)
  BY DEF Return
<1>5. QED
  BY <1>1, <1>2, <1>3, <1>4, ReturnStep

-------------------------------------------------------------------------------
(***************************************************************************)
(* The handlers of terms                                                   *)
(***************************************************************************)
LEMMA AlreadyEvaluatedInv == ASSUME Inv, AlreadyEvaluated PROVE Inv' /\ Undisturbed
<1>1. /\ Running /\ top.at = 0 /\ t0 \in DOMAIN memo /\ memo' = memo /\ stack' = Tail(stack)
      /\ Same /\ cache' = cache /\ lazy' = lazy /\ current' = current /\ answer' = answer
  BY SessionSame DEF AlreadyEvaluated, At, valid, Return
<1>2. Fits(t0, memo[t0])
  BY <1>1, TopFits DEF valid
<1>3. \A j \in DOMAIN stack : HeldBy(stack[j]) \subseteq DOMAIN memo
  BY <1>1, WhileRunning
<1>4. /\ DOMAIN cache \subseteq Defs /\ \A d \in DOMAIN cache : cache[d] \in Unary
      /\ current \in Defs \cup {NoDef}
  BY DEF Inv, RestTyped
<1>5. QED
  BY <1>1, <1>2, <1>3, <1>4, ReturnStep

\* A constant's predicate is of its type.
LEMMA eval_constantInv == ASSUME Inv, eval_constant PROVE Inv' /\ Undisturbed
<1> DEFINE m == With(memo, t0, Term(t0).sym)
<1>1. /\ Running /\ op(t0) = "const" /\ Return(m) /\ UNCHANGED <<session, dgr, lazy, current, answer>>
      /\ ~isFunDef(t0)
  BY TermOp DEF eval_constant, At
<1>2. Term(t0) \in AllTerms /\ op(t0) = Term(t0).op
  BY <1>1, WhileRunning, TermPlace
<1>3. Fits(t0, Term(t0).sym)
  BY <1>1, <1>2, TermsAssumption, ParameterTermsAssumption DEF Fits
<1>4. \A j \in DOMAIN stack : HeldBy(stack[j]) \subseteq DOMAIN memo
  BY <1>1, WhileRunning
<1> HIDE DEF m
<1>5. /\ DOMAIN m = DOMAIN memo \cup {t0} /\ m[t0] = Term(t0).sym
      /\ \A n \in DOMAIN m : n # t0 => n \in DOMAIN memo /\ m[n] = memo[n]
  BY DEF m, With
<1>6. \A j \in DOMAIN stack : j > 1 => HeldBy(stack[j]) \subseteq DOMAIN m
  BY <1>4, <1>5
<1>7. QED
  BY <1>1, <1>3, <1>5, <1>6, TermReturns

\* Handlers that have evaluated their only operand, and reset it.
LEMMA UnaryReturns ==
  ASSUME Inv, At(1), op(t0) \in {"not"} \cup Quantor, ~special(t0),
         UNCHANGED <<session, dgr, lazy, current, answer>>,
         NEW p, Return(With(Without(memo, {child(t0, 1)}), t0, p)),
         memo[child(t0, 1)] \in Predicates
           => Fits(t0, p) \/ (op(t0) = "not" /\ p = Points \ memo[child(t0, 1)])
  PROVE  Inv' /\ Undisturbed
<1> DEFINE c == child(t0, 1)
           w == Without(memo, {c})
           m == With(w, t0, p)
<1>1. Running /\ top.at = 1 /\ ~isFunDef(t0) /\ op(t0) # "app" /\ Prepared /\ t0 \in Places
  BY TermOp, ClassesApart, WhileRunning DEF At
<1>2. 1 \in 1 .. Calls(t0)
  BY <1>1, ClassesApart DEF Calls
<1>3. /\ operand(t0, 1) = c
      /\ \A j \in DOMAIN stack : j > 1 => c \notin HeldBy(stack[j])
      /\ Term(t0) \in ParameterTerms /\ op(t0) \notin Quantor /\ c \in DOMAIN memo => memo[c] \in Unary
  BY <1>1, <1>2, SubtermOperand
<1>4. c \in DOMAIN memo /\ memo[c] \in Predicates
  BY <1>1, <1>3, CalledTyped
<1>5. Fits(t0, p)
  <2>1. CASE Fits(t0, p)
    BY <2>1
  <2>2. CASE op(t0) = "not" /\ p = Points \ memo[c]
    BY <1>1, <1>3, <1>4, <2>2, ConnectivesTyped, ClassesApart DEF Fits
  <2>3. QED
    BY <1>4, <2>1, <2>2
<1>6. Return(m)
  OBVIOUS
<1> HIDE DEF w, m, c
<1>7. DOMAIN w = DOMAIN memo \ {c} /\ \A n \in DOMAIN w : w[n] = memo[n]
  BY WithoutIs DEF w
<1>8. /\ DOMAIN m = DOMAIN w \cup {t0} /\ m[t0] = p
      /\ \A n \in DOMAIN m : n # t0 => n \in DOMAIN w /\ m[n] = w[n]
  BY DEF m, With
<1>9. \A j \in DOMAIN stack : j > 1 => HeldBy(stack[j]) \subseteq DOMAIN m
  BY <1>1, <1>3, <1>7, <1>8, WhileRunning
<1>10. /\ t0 \in DOMAIN m /\ Fits(t0, m[t0])
       /\ \A n \in DOMAIN m : n # t0 => n \in DOMAIN memo /\ m[n] = memo[n]
  BY <1>5, <1>7, <1>8
<1>11. QED
  BY <1>1, <1>6, <1>9, <1>10, TermReturns

\* A negation's predicate is of its operand's type.
LEMMA eval_notInv == ASSUME Inv, eval_not PROVE Inv' /\ Undisturbed
<1>1. ~special(t0)
  BY TermOp, ClassesApart DEF eval_not
<1>2. QED
  BY <1>1, UnaryReturns DEF eval_not

\* A quantor's predicate is about the parameter.
LEMMA eval_quantorInv == ASSUME Inv, eval_quantor PROVE Inv' /\ Undisturbed
<1>1. Fits(t0, quantify(op(t0), memo[child(t0, 1)]))
  BY QuantorTyped, UnaryBounds DEF Fits
<1>2. QED
  BY <1>1, UnaryReturns DEF eval_quantor

\* An application of a definition to x stays about x.
LEMMA eval_applicationInv == ASSUME Inv, eval_application PROVE Inv' /\ Undisturbed
<1> DEFINE c == operand(t0, 1)
           p == apply(memo[c], Term(t0).at)
           m == With(memo, t0, p)
<1>1. /\ Running /\ top.at = 1 /\ op(t0) = "app" /\ Return(m) /\ ~isFunDef(t0)
      /\ UNCHANGED <<session, dgr, lazy, current, answer>> /\ ~special(t0)
  BY TermOp, ClassesApart DEF eval_application, At
<1>2. Term(t0) \in AllTerms /\ op(t0) = Term(t0).op
  BY <1>1, WhileRunning, TermPlace
<1>3. c \in DOMAIN memo /\ memo[c] \in Unary
  <2>1. c = <<Term(t0).sym>>
    BY <1>1, <1>2 DEF operand, operands
  <2>2. isFunDef(c)
    BY <2>1 DEF isFunDef
  <2>3. QED
    BY <1>1, <2>2, CalledTyped
<1>4. Term(t0) \in ParameterTerms => Term(t0).at = 1
  BY <1>1, <1>2, ParameterTermsAssumption
<1>5. Fits(t0, p)
  BY <1>1, <1>3, <1>4, ApplyTyped, UnaryBounds DEF Fits
<1> HIDE DEF m, p
<1>6. /\ DOMAIN m = DOMAIN memo \cup {t0} /\ m[t0] = p
      /\ \A n \in DOMAIN m : n # t0 => n \in DOMAIN memo /\ m[n] = memo[n]
  BY DEF m, With
<1>7. \A j \in DOMAIN stack : j > 1 => HeldBy(stack[j]) \subseteq DOMAIN m
  BY <1>1, <1>6, WhileRunning
<1>8. QED
  BY <1>1, <1>5, <1>6, <1>7, TermReturns

\* Handlers that hold their first operand's predicate when the second returns.
LEMMA HoldsFirst ==
  ASSUME Inv, Running, top.at >= 2
  PROVE  /\ Prepared /\ t0 \in Places /\ Calls(t0) \in top.at .. 3 /\ ~isFunDef(t0)
         /\ t0 \in DOMAIN memo
         /\ special(t0) => t0 \in DOMAIN lazy
<1>1. /\ Prepared /\ t0 \in Places /\ top.at <= Calls(t0) /\ Calls(t0) \in 0 .. 3 /\ top.at \in 0 .. 3
      /\ HeldBy(top) \subseteq DOMAIN memo
  BY WhileRunning, CallsTyped DEF top
<1>2. ~isFunDef(t0)
  <2>1. isFunDef(t0) => op(t0) = "fundef"
    BY DEF op
  <2>2. op(t0) = "fundef" => Calls(t0) = 1
    BY ClassesApart DEF Calls
  <2>3. QED
    BY <1>1, <2>1, <2>2
<1>3. t0 \in DOMAIN memo
  BY <1>1 DEF HeldBy, t0
<1>4. special(t0) => t0 \in DOMAIN lazy
  BY WhileRunning DEF Inv, StackShape, FramesCalled, Settled, top, t0
<1>5. QED
  BY <1>1, <1>2, <1>3, <1>4

\* The first operand's predicate is still there, the second's new.
LEMMA eval_binaryInv == ASSUME Inv, eval_binary PROVE Inv' /\ Undisturbed
<1> DEFINE c == operand(t0, 2)
           p == binary(op(t0), memo[t0], memo[c])
           w == With(memo, t0, p)
           m == ResetOperand(w, 2)
<1>1. /\ Running /\ top.at = 2 /\ op(t0) \in Binary /\ Return(m)
      /\ UNCHANGED <<session, dgr, lazy, current, answer>> /\ ~special(t0) /\ op(t0) # "app"
      /\ op(t0) \notin Quantor
  BY TermOp, ClassesApart DEF eval_binary, At
<1>2. /\ ~isFunDef(t0) /\ t0 \in DOMAIN memo /\ 2 \in 1 .. Calls(t0)
  BY <1>1, HoldsFirst
<1>3. Fits(t0, memo[t0])
  BY <1>1, <1>2, TopFits DEF valid
<1>4. c \in DOMAIN memo /\ memo[c] \in Predicates
  BY <1>1, <1>2, CalledTyped
<1>5. Term(t0) \in ParameterTerms => memo[c] \in Unary
  BY <1>1, <1>2, <1>4, SubtermOperand
<1>6. Fits(t0, p)
  BY <1>1, <1>2, <1>3, <1>4, <1>5, ConnectivesTyped DEF Fits
<1> HIDE DEF c, p, w, m
<1>7. /\ DOMAIN w = DOMAIN memo \cup {t0} /\ w[t0] = p
      /\ \A n \in DOMAIN w : n # t0 => n \in DOMAIN memo /\ w[n] = memo[n]
  BY DEF w, With
<1>8. \A j \in DOMAIN stack : j > 1 => HeldBy(stack[j]) \subseteq DOMAIN w
  BY <1>1, <1>7, WhileRunning
<1>9. /\ t0 \in DOMAIN m /\ DOMAIN m \subseteq DOMAIN w
      /\ \A n \in DOMAIN m : m[n] = w[n]
      /\ \A j \in DOMAIN stack : j > 1 => HeldBy(stack[j]) \subseteq DOMAIN m
  BY <1>1, <1>2, <1>7, <1>8, OperandReset DEF m
<1>10. /\ Fits(t0, m[t0])
       /\ \A n \in DOMAIN m : n # t0 => n \in DOMAIN memo /\ m[n] = memo[n]
  BY <1>6, <1>7, <1>9
<1>11. QED
  BY <1>1, <1>2, <1>9, <1>10, TermReturns

\* So it is for a quantor and the connective below it.
LEMMA eval_quantor_specialInv == ASSUME Inv, eval_quantor_special PROVE Inv' /\ Undisturbed
<1> DEFINE q == binary(op(child(t0, 1)), Substituted(1, memo[t0]),
                       Substituted(2, memo[operand(t0, 2)]))
           p == quantify(op(t0), q)
           w == With(memo, t0, p)
           m == ResetOperand(w, 2)
<1>1. /\ Running /\ top.at = 2 /\ special(t0) /\ Return(m)
      /\ UNCHANGED <<session, dgr, lazy, current, answer>>
  BY DEF eval_quantor_special, At
<1>2. /\ ~isFunDef(t0) /\ t0 \in DOMAIN memo /\ 2 \in 1 .. Calls(t0) /\ t0 \in DOMAIN lazy
  BY <1>1, HoldsFirst
<1>3. Fits(t0, p)
  BY QuantorTyped, UnaryBounds DEF Fits
<1> HIDE DEF p, w, m
<1>4. /\ DOMAIN w = DOMAIN memo \cup {t0} /\ w[t0] = p
      /\ \A n \in DOMAIN w : n # t0 => n \in DOMAIN memo /\ w[n] = memo[n]
  BY DEF w, With
<1>5. \A j \in DOMAIN stack : j > 1 => HeldBy(stack[j]) \subseteq DOMAIN w
  BY <1>1, <1>4, WhileRunning
<1>6. /\ t0 \in DOMAIN m /\ DOMAIN m \subseteq DOMAIN w
      /\ \A n \in DOMAIN m : m[n] = w[n]
      /\ \A j \in DOMAIN stack : j > 1 => HeldBy(stack[j]) \subseteq DOMAIN m
  BY <1>1, <1>2, <1>4, <1>5, OperandReset DEF m
<1>7. /\ Fits(t0, m[t0])
      /\ \A n \in DOMAIN m : n # t0 => n \in DOMAIN memo /\ m[n] = memo[n]
  BY <1>3, <1>4, <1>6
<1>8. QED
  BY <1>1, <1>2, <1>6, <1>7, TermReturns

\* All three operands' predicates are there.
LEMMA eval_iteInv == ASSUME Inv, eval_ite PROVE Inv' /\ Undisturbed
<1> DEFINE c == memo[t0]
           p2 == memo[operand(t0, 2)]
           p3 == memo[operand(t0, 3)]
           p == (c \cap p2) \cup (p3 \ c)
           w == With(memo, t0, p)
           v == ResetOperand(w, 2)
           m == ResetOperand(v, 3)
<1>1. /\ Running /\ top.at = 3 /\ op(t0) = "ite" /\ Return(m)
      /\ UNCHANGED <<session, dgr, lazy, current, answer>> /\ ~special(t0) /\ op(t0) # "app"
      /\ op(t0) \notin Quantor
  BY TermOp, ClassesApart DEF eval_ite, At
<1>2. /\ ~isFunDef(t0) /\ t0 \in DOMAIN memo /\ 2 \in 1 .. Calls(t0) /\ 3 \in 1 .. Calls(t0)
  BY <1>1, HoldsFirst
<1>3. Fits(t0, c)
  BY <1>1, <1>2, TopFits DEF valid
<1>4. operand(t0, 3) \in DOMAIN memo /\ p3 \in Predicates
  BY <1>1, <1>2, CalledTyped
<1>5. operand(t0, 2) \in DOMAIN memo /\ p2 \in Predicates
  <2>1. 1 \in DOMAIN stack /\ stack[1] = top
    BY <1>1, WhileRunning DEF top
  <2>2. operand(t0, 2) \in DOMAIN memo
    BY <1>1, <2>1 DEF Inv, HeldPredicatesStay, valid, t0
  <2>3. QED
    BY <2>2 DEF Inv, MemoTyped
<1>6. Term(t0) \in ParameterTerms => p2 \in Unary /\ p3 \in Unary
  BY <1>1, <1>2, <1>4, <1>5, SubtermOperand
<1>7. Fits(t0, p)
  <2>1. p \in Predicates
    BY <1>3, <1>4, <1>5 DEF Fits, Predicates
  <2>2. Term(t0) \in ParameterTerms => p \in Unary
    BY <1>3, <1>6, UnaryClosed DEF Fits
  <2>3. QED
    BY <1>2, <2>1, <2>2 DEF Fits
<1> HIDE DEF c, p2, p3, p, w, v, m
<1>8. /\ DOMAIN w = DOMAIN memo \cup {t0} /\ w[t0] = p
      /\ \A n \in DOMAIN w : n # t0 => n \in DOMAIN memo /\ w[n] = memo[n]
  BY DEF w, With
<1>9. \A j \in DOMAIN stack : j > 1 => HeldBy(stack[j]) \subseteq DOMAIN w
  BY <1>1, <1>8, WhileRunning
<1>10. /\ t0 \in DOMAIN v /\ DOMAIN v \subseteq DOMAIN w
       /\ \A n \in DOMAIN v : v[n] = w[n]
       /\ \A j \in DOMAIN stack : j > 1 => HeldBy(stack[j]) \subseteq DOMAIN v
  BY <1>1, <1>2, <1>8, <1>9, OperandReset DEF v
<1>11. /\ t0 \in DOMAIN m /\ DOMAIN m \subseteq DOMAIN v
       /\ \A n \in DOMAIN m : m[n] = v[n]
       /\ \A j \in DOMAIN stack : j > 1 => HeldBy(stack[j]) \subseteq DOMAIN m
  BY <1>1, <1>2, <1>10, OperandReset DEF m
<1>12. /\ Fits(t0, m[t0])
       /\ \A n \in DOMAIN m : n # t0 => n \in DOMAIN memo /\ m[n] = memo[n]
  BY <1>7, <1>8, <1>10, <1>11
<1>13. Return(m)
  BY <1>1
<1>14. QED
  BY <1>1, <1>2, <1>11, <1>12, <1>13, TermReturns

\* Handlers of terms that go on and call for their next operand.
LEMMA TermCalls ==
  ASSUME Inv, Running, ~isFunDef(t0), UNCHANGED <<session, dgr, current, answer>>,
         NEW i \in 1 .. Calls(t0), top.at = i - 1, NEW m, Call(operand(t0, i), AtNext, m),
         \A n \in DOMAIN lazy : n \in DOMAIN lazy' /\ lazy'[n] = lazy[n],
         \A n \in DOMAIN lazy' : \A k \in lazy'[n] : op(child(child(n, 1), k)) = "app",
         special(t0) => /\ t0 \in DOMAIN lazy'
                        /\ lazy'[t0] = IF t0 \in DOMAIN lazy THEN lazy[t0]
                                       ELSE prepare_lazy_substitutions(t0),
         t0 \in DOMAIN m => m[t0] \in Predicates /\ (Fits(t0, m[t0]) \/ (i >= 2 /\ special(t0))),
         i >= 2 => t0 \in DOMAIN m,
         i = 3 => child(t0, 2) \in DOMAIN m,
         \A n \in DOMAIN m : n # t0 => n \in DOMAIN memo /\ m[n] = memo[n],
         \A j \in DOMAIN stack : j > 1 => HeldBy(stack[j]) \subseteq DOMAIN m
  PROVE  Inv' /\ Undisturbed
<1> DEFINE f == AtNext
<1>1. /\ top \in FrameSet /\ t0 \in Places /\ Calls(t0) \in 0 .. 3 /\ top.node = t0
  BY WhileRunning, CallsTyped DEF t0
<1>2. f = [top EXCEPT !.at = i]
  BY <1>1 DEF AtNext, FrameSet
<1>3. f \in FrameSet /\ f.at = i /\ f.node = t0 /\ i \in 1 .. 3
  BY <1>1, <1>2 DEF FrameSet
<1> HIDE DEF f
<1>4. operand(t0, i) = Callee(lazy', f)
  BY <1>3, OperandIs
<1>5. Settled(lazy', f)
  BY <1>3 DEF Settled
<1>6. memo' = m /\ stack' = <<Frame(Callee(lazy', f)), f>> \o Tail(stack)
  BY <1>4 DEF Call, f
<1>7. HeldBy(f) \subseteq DOMAIN m
  BY <1>3 DEF HeldBy
<1>8. Same /\ cache' = cache /\ current' = current /\ answer' = answer
  BY SessionSame
<1>9. current' \in Defs \cup {NoDef}
  BY <1>8 DEF Inv, RestTyped
<1>10. 0 < f.at /\ f.at <= Calls(f.node) /\ ~isFunDef(f.node)
  BY <1>1, <1>3
<1>11. t0 \in DOMAIN m => m[t0] \in Predicates /\ (Fits(t0, m[t0]) \/ (f.at >= 2 /\ special(t0)))
  BY <1>3
<1>12. QED
  BY <1>3, <1>5, <1>6, <1>7, <1>8, <1>9, <1>10, <1>11, CallStep

\* A handler calls for its first operand, a special quantor having settled on
\* which operands are left to relprod.
LEMMA FirstOperandInv == ASSUME Inv, FirstOperand PROVE Inv' /\ Undisturbed
<1>1. /\ Running /\ top.at = 0 /\ ~valid(t0) /\ ~isFunDef(t0)
      /\ Call(operand(t0, 1), AtNext, memo) /\ UNCHANGED <<session, dgr, current, answer>>
      /\ lazy' = IF special(t0) /\ t0 \notin DOMAIN lazy
                 THEN With(lazy, t0, prepare_lazy_substitutions(t0)) ELSE lazy
  BY DEF FirstOperand, At, op
<1>2. 1 \in 1 .. Calls(t0) /\ 1 - 1 = 0
  <2>1. /\ op(t0) \in {"const", "app", "not", "ite"} \cup Binary \cup Quantor
        /\ op(t0) # "const"
    BY <1>1, WhileRunning, TermPlace, TermsAssumption DEF FirstOperand
  <2>2. 1 <= Calls(t0)
    BY <2>1, ClassesApart DEF Calls
  <2>3. QED
    BY <1>1, <2>2, WhileRunning, CallsTyped
<1>3. \A n \in DOMAIN lazy : n \in DOMAIN lazy' /\ lazy'[n] = lazy[n]
  BY <1>1 DEF With
<1>4. \A n \in DOMAIN lazy' : \A k \in lazy'[n] : op(child(child(n, 1), k)) = "app"
  <2>1. \A k \in prepare_lazy_substitutions(t0) : op(child(child(t0, 1), k)) = "app"
    BY DEF prepare_lazy_substitutions, lazyAt
  <2>2. \A n \in DOMAIN lazy : \A k \in lazy[n] : op(child(child(n, 1), k)) = "app"
    BY DEF Inv, LazyApplied
  <2>3. QED
    BY <1>1, <2>1, <2>2 DEF With
<1>5. special(t0) => /\ t0 \in DOMAIN lazy'
                     /\ lazy'[t0] = IF t0 \in DOMAIN lazy THEN lazy[t0]
                                    ELSE prepare_lazy_substitutions(t0)
  BY <1>1 DEF With
<1>6. t0 \notin DOMAIN memo
  BY <1>1 DEF valid
<1>7. \A j \in DOMAIN stack : j > 1 => HeldBy(stack[j]) \subseteq DOMAIN memo
  BY <1>1, WhileRunning
<1>8. QED
  BY <1>1, <1>2, <1>3, <1>4, <1>5, <1>6, <1>7, TermCalls

\* The first operand's predicate is kept with the term, and may be reset.
LEMMA SecondOperandInv == ASSUME Inv, SecondOperand PROVE Inv' /\ Undisturbed
<1> DEFINE c == operand(t0, 1)
           w == With(memo, t0, memo[c])
           m == ResetOperand(w, 1)
<1>1. /\ Running /\ top.at = 1 /\ (op(t0) \in Binary \cup {"ite"} \/ special(t0))
      /\ Call(operand(t0, 2), AtNext, m) /\ UNCHANGED <<session, dgr, lazy, current, answer>>
      /\ ~isFunDef(t0)
  BY TermOp, ClassesApart DEF SecondOperand, At
<1>2. 1 \in 1 .. Calls(t0) /\ 2 \in 1 .. Calls(t0)
  <2>1. Calls(t0) \in 0 .. 3
    BY <1>1, WhileRunning, CallsTyped
  <2>2. 2 <= Calls(t0)
    BY <1>1, TermOp, ClassesApart DEF Calls
  <2>3. QED
    BY <2>1, <2>2
<1>3. special(t0) => t0 \in DOMAIN lazy
  BY <1>1, WhileRunning DEF Inv, StackShape, FramesCalled, Settled, top, t0
<1>4. c \in DOMAIN memo /\ memo[c] \in Predicates
  BY <1>1, CalledTyped
<1>5. ~special(t0) /\ Term(t0) \in ParameterTerms => memo[c] \in Unary
  <2> SUFFICES ASSUME ~special(t0), Term(t0) \in ParameterTerms PROVE memo[c] \in Unary
    OBVIOUS
  <2>1. op(t0) # "app" /\ op(t0) \notin Quantor
    BY <1>1, ClassesApart
  <2>2. QED
    BY <1>1, <1>2, <1>4, <2>1, SubtermOperand
<1> HIDE DEF c, w, m
<1>6. /\ DOMAIN w = DOMAIN memo \cup {t0} /\ w[t0] = memo[c]
      /\ \A n \in DOMAIN w : n # t0 => n \in DOMAIN memo /\ w[n] = memo[n]
  BY DEF w, With
<1>7. \A j \in DOMAIN stack : j > 1 => HeldBy(stack[j]) \subseteq DOMAIN w
  BY <1>1, <1>6, WhileRunning
<1>8. /\ t0 \in DOMAIN m /\ DOMAIN m \subseteq DOMAIN w
      /\ \A n \in DOMAIN m : m[n] = w[n]
      /\ \A j \in DOMAIN stack : j > 1 => HeldBy(stack[j]) \subseteq DOMAIN m
  BY <1>1, <1>2, <1>3, <1>6, <1>7, OperandReset DEF m
<1>9. \A n \in DOMAIN m : n # t0 => n \in DOMAIN memo /\ m[n] = memo[n]
  BY <1>6, <1>8
<1>10. m[t0] \in Predicates /\ (Fits(t0, m[t0]) \/ (2 >= 2 /\ special(t0)))
  BY <1>1, <1>4, <1>5, <1>6, <1>8 DEF Fits
<1>11. \A n \in DOMAIN lazy : \A k \in lazy[n] : op(child(child(n, 1), k)) = "app"
  BY DEF Inv, LazyApplied
<1>12. Call(operand(t0, 2), AtNext, m) /\ lazy' = lazy /\ top.at = 2 - 1
       /\ UNCHANGED <<session, dgr, current, answer>>
  BY <1>1
<1>13. QED
  BY <1>1, <1>2, <1>3, <1>8, <1>9, <1>10, <1>11, <1>12, TermCalls

\* The second operand's predicate stays with the operand.
LEMMA ThirdOperandInv == ASSUME Inv, ThirdOperand PROVE Inv' /\ Undisturbed
<1>1. /\ Running /\ top.at = 2 /\ op(t0) = "ite" /\ ~special(t0) /\ op(t0) # "app"
      /\ Call(operand(t0, 3), AtNext, memo) /\ lazy' = lazy /\ top.at = 3 - 1
      /\ UNCHANGED <<session, dgr, current, answer>>
  BY TermOp, ClassesApart DEF ThirdOperand, At
<1>2. /\ ~isFunDef(t0) /\ t0 \in DOMAIN memo /\ 2 \in 1 .. Calls(t0)
  BY <1>1, HoldsFirst
<1>3. 3 \in 1 .. Calls(t0)
  BY <1>1, ClassesApart DEF Calls
<1>4. child(t0, 2) \in DOMAIN memo
  BY <1>1, <1>2, CalledTyped, SubtermOperand
<1>5. Fits(t0, memo[t0])
  BY <1>1, <1>2, TopFits DEF valid
<1>6. \A j \in DOMAIN stack : j > 1 => HeldBy(stack[j]) \subseteq DOMAIN memo
  BY <1>1, WhileRunning
<1>7. \A n \in DOMAIN lazy : \A k \in lazy[n] : op(child(child(n, 1), k)) = "app"
  BY DEF Inv, LazyApplied
<1>8. memo[t0] \in Predicates
  BY <1>5 DEF Fits
<1>9. QED
  BY <1>1, <1>2, <1>3, <1>4, <1>5, <1>6, <1>7, <1>8, TermCalls

-------------------------------------------------------------------------------
(***************************************************************************)
(* eval_fundef                                                             *)
(***************************************************************************)
\* Only the places of definitions have the class of definitions.
LEMMA FundefOp == ASSUME Inv, Running, op(t0) = "fundef" PROVE isFunDef(t0)
<1>1. ASSUME ~isFunDef(t0) PROVE FALSE
  <2>1. op(t0) \in {"const", "app", "not", "ite"} \cup Binary \cup Quantor
    BY <1>1, WhileRunning, TermPlace, TermsAssumption
  <2>2. QED
    BY <2>1, ClassesApart
<1>2. QED
  BY <1>1

\* What eval_fundef forgets, no frame below holds.
LEMMA DefForgets ==
  ASSUME Inv, Running, isFunDef(t0), \A j \in DOMAIN stack : j > 1 => stack[j].node # t0
  PROVE  /\ d0 \in Defs /\ t0 = <<d0>> /\ Calls(t0) = 1 /\ ~special(t0)
         /\ ~isFunDef(body(t0)) /\ definition(body(t0)) = d0 /\ body(t0) # t0
         /\ \A j \in DOMAIN stack : j > 1 =>
              \A x \in HeldBy(stack[j]) :
                x # t0 /\ x \notin predecessors(dgr, d0) /\ (~isFunDef(x) => definition(x) # d0)
         /\ \A j \in DOMAIN stack : stack[j].node # body(t0)
<1>1. /\ Prepared /\ StackShape(stack, lazy) /\ stack # <<>> /\ stack[1].node = t0 /\ t0 \in Places
  BY WhileRunning DEF Running, Inv, top, t0
<1>2. /\ d0 \in Defs /\ t0 = <<d0>> /\ ~isFunDef(body(t0)) /\ definition(body(t0)) = d0
  BY <1>1, DefPlace DEF d0
<1>3. Calls(t0) = 1
  <2>1. op(t0) = "fundef"
    BY DEF op
  <2>2. QED
    BY <2>1, ClassesApart DEF Calls
<1>4. ~special(t0)
  BY TermOp
<1>5. ASSUME NEW j \in DOMAIN stack, j > 1
      PROVE  /\ \A x \in HeldBy(stack[j]) :
                  x # t0 /\ x \notin predecessors(dgr, d0) /\ (~isFunDef(x) => definition(x) # d0)
             /\ ~isFunDef(stack[j].node) => definition(stack[j].node) # d0
  <2>1. /\ t0 \notin HeldBy(stack[j])
        /\ ~isFunDef(stack[j].node) => definition(stack[j].node) # d0
        /\ \A x \in HeldBy(stack[j]) : ~isFunDef(x) => definition(x) # d0
        /\ \A x \in HeldBy(stack[j]) : d0 \notin successors(dgr, x)
    BY <1>1, <1>5, BelowDef DEF d0
  <2>2. \A x : x \in predecessors(dgr, d0) => d0 \in successors(dgr, x)
    BY DEF predecessors, successors
  <2>3. QED
    BY <2>1, <2>2
<1>6. body(t0) # t0
  BY <1>2
<1>7. \A j \in DOMAIN stack : stack[j].node # body(t0)
  <2> TAKE j \in DOMAIN stack
  <2>1. j = 1 \/ j > 1
    BY WhileRunning, FrameTyped
  <2>2. QED
    BY <1>1, <1>2, <1>5, <1>6, <2>1
<1>8. QED
  BY <1>2, <1>3, <1>4, <1>5, <1>6, <1>7

\* The end of eval_fundef.
LEMMA LeaveFunDefInv ==
  ASSUME Inv, Running, isFunDef(t0), \A j \in DOMAIN stack : j > 1 => stack[j].node # t0,
         UNCHANGED <<prog, flags, scc, query, dgr, lazy, answer>>,
         current' \in Defs \cup {NoDef},
         NEW m, LeaveFunDef(m), t0 \in DOMAIN m, m[t0] \in Unary,
         \A n \in DOMAIN m : n # t0 => n \in DOMAIN memo /\ m[n] = memo[n],
         \A j \in DOMAIN stack : j > 1 => HeldBy(stack[j]) \subseteq DOMAIN m
  PROVE  Inv' /\ Undisturbed
<1>1. Same /\ lazy' = lazy /\ answer' = answer
  BY DEF Same
<1>2. /\ d0 \in Defs
      /\ \A j \in DOMAIN stack : j > 1 =>
           \A x \in HeldBy(stack[j]) : x # t0 /\ (~isFunDef(x) => definition(x) # d0)
  BY DefForgets
<1>3. Fits(t0, m[t0])
  BY UnaryBounds DEF Fits
<1>4. DOMAIN cache \subseteq Defs /\ \A d \in DOMAIN cache : cache[d] \in Unary
  BY DEF Inv, RestTyped
<1>5. CASE isEntryTerm(d0)
  <2> DEFINE r == reset(m, d0)
  <2>1. memo' = r /\ stack' = Tail(stack) /\ cache' = With(cache, d0, m[t0])
    BY <1>5 DEF LeaveFunDef, Return
  <2> HIDE DEF r
  <2>2. /\ DOMAIN r = DOMAIN m \ {n \in DOMAIN m : definition(n) = d0 /\ ~isFunDef(n)}
        /\ \A n \in DOMAIN r : r[n] = m[n]
    BY WithoutIs DEF r, reset
  <2>3. t0 \in DOMAIN r /\ r[t0] = m[t0]
    BY <2>2
  <2>4. \A j \in DOMAIN stack : j > 1 => HeldBy(stack[j]) \subseteq DOMAIN r
    BY <1>2, <2>2
  <2>5. \A n \in DOMAIN r : n # t0 => n \in DOMAIN memo /\ r[n] = memo[n]
    BY <2>2
  <2>6. DOMAIN cache' \subseteq Defs /\ \A d \in DOMAIN cache' : cache'[d] \in Unary
    BY <1>2, <1>4, <2>1 DEF With
  <2>7. QED
    BY <1>1, <1>3, <2>1, <2>3, <2>4, <2>5, <2>6, ReturnStep
<1>6. CASE ~isEntryTerm(d0)
  <2>1. memo' = m /\ stack' = Tail(stack) /\ cache' = cache
    BY <1>6 DEF LeaveFunDef, Return
  <2>2. QED
    BY <1>1, <1>3, <1>4, <2>1, ReturnStep
<1>7. QED
  BY <1>5, <1>6

\* A cached predicate is about the parameter.
LEMMA FoundInCacheInv == ASSUME Inv, FoundInCache PROVE Inv' /\ Undisturbed
<1> DEFINE m == With(memo, t0, cache[d0])
<1>1. /\ Running /\ op(t0) = "fundef" /\ d0 \in DOMAIN cache /\ memo' = m /\ stack' = Tail(stack)
      /\ Same /\ cache' = cache /\ lazy' = lazy /\ current' = current /\ answer' = answer
  BY SessionSame DEF FoundInCache, Enters, Cached, At, Return
<1>2. /\ DOMAIN cache \subseteq Defs /\ \A d \in DOMAIN cache : cache[d] \in Unary
      /\ current \in Defs \cup {NoDef}
  BY DEF Inv, RestTyped
<1>3. Fits(t0, cache[d0])
  BY <1>1, <1>2, UnaryBounds DEF Fits
<1> HIDE DEF m
<1>4. /\ DOMAIN m = DOMAIN memo \cup {t0} /\ m[t0] = cache[d0]
      /\ \A n \in DOMAIN m : n # t0 => n \in DOMAIN memo /\ m[n] = memo[n]
  BY DEF m, With
<1>5. \A j \in DOMAIN stack : j > 1 => HeldBy(stack[j]) \subseteq DOMAIN m
  BY <1>1, <1>4, WhileRunning
<1>6. t0 \in DOMAIN m /\ Fits(t0, m[t0])
  BY <1>3, <1>4
<1>7. QED
  BY <1>1, <1>2, <1>4, <1>5, <1>6, ReturnStep

\* A definition whose evaluation begins is not under way: as a fixpoint, it
\* would be valid; otherwise, the preparation would have refused the term.
LEMMA EntersOnce ==
  ASSUME Inv, Enters, NEW j \in DOMAIN stack, j > 1
  PROVE  stack[j].node # t0
<1>1. Running /\ top.at = 0 /\ t0 \notin DOMAIN memo /\ isFunDef(t0)
  BY FundefOp DEF Enters, At, valid
<1>2. /\ Prepared /\ StackShape(stack, lazy) /\ stack[1].node = t0 /\ t0 \in Places
      /\ SccFits(prog, scc) /\ HeldBy(stack[j]) \subseteq DOMAIN memo /\ 1 \in DOMAIN stack
  BY <1>1, WhileRunning DEF Inv, top, t0
<1>3. d0 \in Defs /\ t0 = <<d0>> /\ prog[d0].kind \in {"def", "mu", "nu"}
  BY <1>1, <1>2, DefPlace DEF d0
<1>4. SUFFICES ASSUME stack[j].node = t0 PROVE FALSE
  OBVIOUS
<1>5. CASE isFixpoint(d0)
  <2>1. stack[j].at > 0
    BY <1>2 DEF StackShape, FramesCalled
  <2>2. t0 \in HeldBy(stack[j])
    BY <1>1, <1>4, <1>5, <2>1 DEF HeldBy, d0
  <2>3. QED
    BY <1>1, <1>2, <2>2
<1>6. CASE ~isFixpoint(d0)
  <2>1. DefsAt(t0) = {d0}
    BY <1>1 DEF DefsAt, d0
  <2>2. d0 \in Known(scc)
    BY <1>2, <2>1 DEF StackShape, FramesKnown
  <2>3. prog[d0].kind = "def"
    BY <1>3, <1>6 DEF isFixpoint
  <2>4. PICK X \in SUBSET Defs : d0 \notin X /\ DefsIn(prog[d0].body) \subseteq X /\ ClosedIn(prog, X)
    BY <1>2, <2>2, <2>3 DEF SccFits, Founded
  <2>5. isFunDef(stack[j].node) /\ definition(stack[j].node) = d0
    BY <1>1, <1>4 DEF d0
  <2>6. DefsAt(stack[1].node) \subseteq X
    BY <1>2, <2>4, <2>5 DEF StackShape, FramesLead
  <2>7. QED
    BY <1>2, <2>1, <2>4, <2>6
<1>7. QED
  BY <1>5, <1>6

\* eval_fundef calls for its body.
LEMMA DefCalls ==
  ASSUME Inv, Running, isFunDef(t0), \A j \in DOMAIN stack : j > 1 => stack[j].node # t0,
         UNCHANGED <<session, dgr, lazy, answer>>, current' \in Defs \cup {NoDef},
         NEW f \in FrameSet, f.node = t0, f.at = 1, NEW m, Call(body(t0), f, m),
         isFixpoint(d0) => t0 \in DOMAIN m, t0 \in DOMAIN m => m[t0] \in Unary,
         \A n \in DOMAIN m : n # t0 => n \in DOMAIN memo /\ m[n] = memo[n],
         \A j \in DOMAIN stack : j > 1 => HeldBy(stack[j]) \subseteq DOMAIN m
  PROVE  Inv' /\ Undisturbed
<1>1. Calls(t0) = 1 /\ ~special(t0) /\ ~isFunDef(body(t0))
  BY DefForgets
<1>2. Callee(lazy', f) = body(t0)
  BY DEF Callee
<1>3. memo' = m /\ stack' = <<Frame(Callee(lazy', f)), f>> \o Tail(stack)
  BY <1>2 DEF Call
<1>4. Same /\ cache' = cache /\ lazy' = lazy /\ answer' = answer
  <2>1. UNCHANGED <<session, dgr>>
    OBVIOUS
  <2>2. QED
    BY <2>1, SessionSame
<1>5. Settled(lazy', f)
  BY <1>1 DEF Settled
<1>6. HeldBy(f) \subseteq DOMAIN m
  BY DEF HeldBy, d0
<1>7. t0 \in DOMAIN m => m[t0] \in Predicates /\ Fits(t0, m[t0])
  BY UnaryBounds DEF Fits
<1>8. \A n \in DOMAIN lazy : \A k \in lazy[n] : op(child(child(n, 1), k)) = "app"
  BY DEF Inv, LazyApplied
<1>9. 0 < f.at /\ f.at <= Calls(f.node)
  BY <1>1
<1>10. QED
  BY <1>3, <1>4, <1>5, <1>6, <1>7, <1>8, <1>9, CallStep

\* A definition that is no fixpoint is entered once.
LEMMA EnterPlainInv == ASSUME Inv, EnterPlain PROVE Inv' /\ Undisturbed
<1>1. /\ Enters /\ Running /\ top.at = 0 /\ t0 \notin DOMAIN memo /\ isFunDef(t0) /\ ~isFixpoint(d0)
      /\ Call(body(t0), AtNext, memo) /\ UNCHANGED <<session, dgr, lazy, answer>>
      /\ current' = current
  BY FundefOp DEF EnterPlain, Enters, At, valid
<1>2. \A j \in DOMAIN stack : j > 1 => stack[j].node # t0
  BY <1>1, EntersOnce
<1>3. AtNext \in FrameSet /\ AtNext.node = t0 /\ AtNext.at = 1
  <2>1. top \in FrameSet
    BY <1>1, WhileRunning
  <2>2. QED
    BY <1>1, <2>1 DEF AtNext, FrameSet, t0
<1>4. current \in Defs \cup {NoDef}
  BY DEF Inv, RestTyped
<1>5. \A j \in DOMAIN stack : HeldBy(stack[j]) \subseteq DOMAIN memo
  BY <1>1, WhileRunning
<1>6. QED
  BY <1>1, <1>2, <1>3, <1>4, <1>5, DefCalls

\* What depends on the definition is forgotten, and nothing that is held.
LEMMA DependenciesReset ==
  ASSUME Inv, Running, isFunDef(t0), \A j \in DOMAIN stack : j > 1 => stack[j].node # t0,
         NEW w, NEW p, w = With(memo, t0, p) \/ w = With(Without(memo, {body(t0)}), t0, p)
  PROVE  LET m == reset_dependencies(w, d0)
         IN /\ t0 \in DOMAIN m /\ m[t0] = p
            /\ \A n \in DOMAIN m : n # t0 => n \in DOMAIN memo /\ m[n] = memo[n]
            /\ \A j \in DOMAIN stack : j > 1 => HeldBy(stack[j]) \subseteq DOMAIN m
<1> DEFINE m == reset_dependencies(w, d0)
           v == Without(memo, {body(t0)})
<1>1. /\ t0 = <<d0>>
      /\ ~isFunDef(body(t0)) /\ definition(body(t0)) = d0 /\ body(t0) # t0
      /\ \A j \in DOMAIN stack : j > 1 =>
           \A x \in HeldBy(stack[j]) :
             x # t0 /\ x \notin predecessors(dgr, d0) /\ (~isFunDef(x) => definition(x) # d0)
  BY DefForgets
<1> HIDE DEF m, v
<1>2. DOMAIN v = DOMAIN memo \ {body(t0)} /\ \A n \in DOMAIN v : v[n] = memo[n]
  BY WithoutIs DEF v
<1>3. /\ t0 \in DOMAIN w /\ w[t0] = p
      /\ \A n \in DOMAIN w : n # t0 => n \in DOMAIN memo /\ w[n] = memo[n]
      /\ \A n \in DOMAIN memo : n # body(t0) => n \in DOMAIN w
  <2>1. CASE w = With(memo, t0, p)
    BY <2>1 DEF With
  <2>2. CASE w = With(v, t0, p)
    <3>1. /\ DOMAIN w = DOMAIN v \cup {t0} /\ w[t0] = p
          /\ \A n \in DOMAIN w : n # t0 => n \in DOMAIN v /\ w[n] = v[n]
      BY <2>2 DEF With
    <3>2. QED
      BY <1>2, <3>1
  <2>3. QED
    BY <2>1, <2>2 DEF v
<1>4. DOMAIN m = DOMAIN w \ (predecessors(dgr, d0) \ {<<d0>>}) /\ \A n \in DOMAIN m : m[n] = w[n]
  BY WithoutIs DEF m, reset_dependencies
<1>5. t0 \in DOMAIN m /\ m[t0] = p
  BY <1>1, <1>3, <1>4
<1>6. \A n \in DOMAIN m : n # t0 => n \in DOMAIN memo /\ m[n] = memo[n]
  BY <1>3, <1>4
<1>7. ASSUME NEW j \in DOMAIN stack, j > 1, NEW x \in HeldBy(stack[j]) PROVE x \in DOMAIN m
  <2>1. x \in DOMAIN memo
    BY WhileRunning
  <2>2. x # body(t0) /\ x \notin predecessors(dgr, d0)
    BY <1>1, <1>7
  <2>3. QED
    BY <1>3, <1>4, <2>1, <2>2
<1>8. QED
  BY <1>5, <1>6, <1>7 DEF m

\* The predicate of the body is there when it has been called, and is about the
\* parameter.
LEMMA BodyTyped ==
  ASSUME Inv, At(1), op(t0) = "fundef"
  PROVE  /\ Running /\ isFunDef(t0) /\ \A j \in DOMAIN stack : j > 1 => stack[j].node # t0
         /\ body(t0) \in DOMAIN memo /\ memo[body(t0)] \in Unary
         /\ top \in FrameSet /\ top.last \in Unary
<1>1. Running /\ isFunDef(t0) /\ top.at = 1 /\ Prepared /\ t0 \in Places /\ top \in FrameSet
  BY FundefOp, WhileRunning DEF At
<1>2. \A j \in DOMAIN stack : j > 1 => stack[j].node # t0
  BY <1>1, TopDef
<1>3. body(t0) \in DOMAIN memo
  BY <1>1 DEF Inv, CalleeKept, Callee, valid, t0
<1>4. ~isFunDef(body(t0)) /\ Term(body(t0)) \in ParameterTerms
  BY <1>1, DefPlace
<1>5. \A j \in DOMAIN stack : stack[j].node # body(t0)
  BY <1>1, <1>2, DefForgets
<1>6. memo[body(t0)] \in Unary
  BY <1>3, <1>4, <1>5 DEF Inv, MemoTyped
<1>7. QED
  BY <1>1, <1>2, <1>3, <1>6 DEF FrameSet

\* An approximation is about the parameter.
LEMMA ApproximationTyped ==
  ASSUME Inv, AfterRound PROVE Approximation \in Unary
<1>1. memo[body(t0)] \in Unary /\ top.last \in Unary
  BY BodyTyped DEF AfterRound
<1>2. QED
  BY <1>1, UnaryClosed DEF Approximation

\* So is what a round is evaluated on with frontier sets.
LEMMA FrontiersTyped ==
  ASSUME Inv, AfterRound, NEW p \in Unary, NEW delta \in Frontiers(p) PROVE delta \in Unary
<1> DEFINE l == top.last
<1>1. l \in Unary /\ Points \in Unary
  BY BodyTyped, UnaryBounds DEF AfterRound
<1> HIDE DEF l
<1>2. CASE ~flags.frontier
  BY <1>2 DEF Frontiers
<1>3. CASE flags.frontier /\ prog[d0].kind = "mu"
  <2>1. PICK q \in Unary : delta = (p \ l) \cup q
    BY <1>3 DEF Frontiers, l
  <2>2. p \ l \in Unary
    BY <1>1, UnaryClosed
  <2>3. QED
    BY <2>1, <2>2, UnaryClosed
<1>4. CASE flags.frontier /\ prog[d0].kind # "mu"
  <2>1. PICK q \in Unary : delta = (p \cup (Points \ l)) \ q
    BY <1>4 DEF Frontiers, l
  <2>2. Points \ l \in Unary
    BY <1>1, UnaryClosed
  <2>3. p \cup (Points \ l) \in Unary
    BY <2>2, UnaryClosed
  <2>4. QED
    BY <2>1, <2>3, UnaryClosed
<1>5. QED
  BY <1>2, <1>3, <1>4

\* An iteration begins: nothing that depends on the fixpoint is held.
LEMMA EnterFixpointInv == ASSUME Inv, EnterFixpoint PROVE Inv' /\ Undisturbed
<1> DEFINE p == IF prog[d0].kind = "nu" THEN Points ELSE {}
           f == [AtNext EXCEPT !.last = p, !.outer = current]
           m == reset_dependencies(With(memo, t0, p), d0)
<1>1. /\ Enters /\ Running /\ top.at = 0 /\ isFunDef(t0)
      /\ Call(body(t0), f, m) /\ UNCHANGED <<session, dgr, lazy, answer>>
      /\ current' = d0
  BY FundefOp DEF EnterFixpoint, Enters, At
<1>2. \A j \in DOMAIN stack : j > 1 => stack[j].node # t0
  BY <1>1, EntersOnce
<1>3. p \in Unary
  BY UnaryBounds
<1> HIDE DEF p
<1>4. f \in FrameSet /\ f.node = t0 /\ f.at = 1
  <2>1. top \in FrameSet
    BY <1>1, WhileRunning
  <2>2. current \in Defs \cup {NoDef}
    BY DEF Inv, RestTyped
  <2>3. /\ AtNext = [top EXCEPT !.at = 1] /\ AtNext \in FrameSet
        /\ AtNext.node = t0 /\ AtNext.at = 1
    BY <1>1, <2>1 DEF AtNext, FrameSet, t0
  <2>4. QED
    BY <1>3, <2>2, <2>3 DEF FrameSet
<1>5. /\ t0 \in DOMAIN m /\ m[t0] = p
      /\ \A n \in DOMAIN m : n # t0 => n \in DOMAIN memo /\ m[n] = memo[n]
      /\ \A j \in DOMAIN stack : j > 1 => HeldBy(stack[j]) \subseteq DOMAIN m
  BY <1>1, <1>2, DependenciesReset
<1>6. current' \in Defs \cup {NoDef}
  BY <1>1, <1>2, DefForgets
<1> HIDE DEF f, m
<1>7. QED
  BY <1>1, <1>2, <1>3, <1>4, <1>5, <1>6, DefCalls

\* A round begins: nothing that depends on the fixpoint is held.
LEMMA NextRoundInv == ASSUME Inv, NextRound PROVE Inv' /\ Undisturbed
<1> DEFINE p == Approximation
           f == [top EXCEPT !.last = p, !.first = FALSE]
<1>1. PICK delta \in Frontiers(p) :
        Call(body(t0), f, reset_dependencies(With(Without(memo, {body(t0)}), t0, delta), d0))
  BY DEF NextRound
<1> DEFINE m == reset_dependencies(With(Without(memo, {body(t0)}), t0, delta), d0)
<1>2. /\ Running /\ isFunDef(t0) /\ \A j \in DOMAIN stack : j > 1 => stack[j].node # t0
      /\ top \in FrameSet /\ top.at = 1 /\ Call(body(t0), f, m)
      /\ UNCHANGED <<session, dgr, lazy, answer>> /\ current' = current
  BY <1>1, BodyTyped DEF NextRound, AfterRound, At
<1>3. p \in Unary
  BY ApproximationTyped DEF NextRound
<1>4. delta \in Unary
  BY <1>1, <1>3, FrontiersTyped DEF NextRound
<1> HIDE DEF p
<1>5. f \in FrameSet /\ f.node = t0 /\ f.at = 1
  BY <1>2, <1>3 DEF FrameSet, t0
<1>6. /\ t0 \in DOMAIN m /\ m[t0] = delta
      /\ \A n \in DOMAIN m : n # t0 => n \in DOMAIN memo /\ m[n] = memo[n]
      /\ \A j \in DOMAIN stack : j > 1 => HeldBy(stack[j]) \subseteq DOMAIN m
  BY <1>2, DependenciesReset
<1>7. current' \in Defs \cup {NoDef}
  BY <1>2 DEF Inv, RestTyped
<1> HIDE DEF f, m
<1>8. QED
  BY <1>2, <1>4, <1>5, <1>6, <1>7, DefCalls

\* An iteration ends.
LEMMA FinishFixpointInv == ASSUME Inv, FinishFixpoint PROVE Inv' /\ Undisturbed
<1> DEFINE p == Approximation
           m == reset_dependencies(With(Without(memo, {body(t0)}), t0, p), d0)
<1>1. /\ Running /\ isFunDef(t0) /\ \A j \in DOMAIN stack : j > 1 => stack[j].node # t0
      /\ top \in FrameSet /\ LeaveFunDef(m) /\ current' = top.outer
      /\ UNCHANGED <<prog, flags, scc, query, dgr, lazy, answer>>
  BY BodyTyped DEF FinishFixpoint, AfterRound
<1>2. p \in Unary
  BY ApproximationTyped DEF FinishFixpoint
<1>3. /\ t0 \in DOMAIN m /\ m[t0] = p
      /\ \A n \in DOMAIN m : n # t0 => n \in DOMAIN memo /\ m[n] = memo[n]
      /\ \A j \in DOMAIN stack : j > 1 => HeldBy(stack[j]) \subseteq DOMAIN m
  BY <1>1, DependenciesReset
<1>4. current' \in Defs \cup {NoDef}
  BY <1>1 DEF FrameSet
<1> HIDE DEF m, p
<1>5. QED
  BY <1>1, <1>2, <1>3, <1>4, LeaveFunDefInv

\* A definition that is no fixpoint has its body's predicate.
LEMMA FinishPlainInv == ASSUME Inv, FinishPlain PROVE Inv' /\ Undisturbed
<1> DEFINE p == memo[body(t0)]
           v == Without(memo, {body(t0)})
           m == With(v, t0, p)
<1>1. /\ Running /\ isFunDef(t0) /\ \A j \in DOMAIN stack : j > 1 => stack[j].node # t0
      /\ p \in Unary /\ LeaveFunDef(m)
      /\ UNCHANGED <<prog, flags, scc, query, dgr, lazy, answer>> /\ current' = current
  BY BodyTyped DEF FinishPlain
<1>2. /\ ~isFunDef(body(t0)) /\ definition(body(t0)) = d0
      /\ \A j \in DOMAIN stack : j > 1 =>
           \A x \in HeldBy(stack[j]) : ~isFunDef(x) => definition(x) # d0
  BY <1>1, DefForgets
<1> HIDE DEF p, v, m
<1>3. DOMAIN v = DOMAIN memo \ {body(t0)} /\ \A n \in DOMAIN v : v[n] = memo[n]
  BY WithoutIs DEF v
<1>4. /\ DOMAIN m = DOMAIN v \cup {t0} /\ m[t0] = p
      /\ \A n \in DOMAIN m : n # t0 => n \in DOMAIN v /\ m[n] = v[n]
  BY DEF m, With
<1>5. ASSUME NEW j \in DOMAIN stack, j > 1 PROVE HeldBy(stack[j]) \subseteq DOMAIN m
  <2>1. body(t0) \notin HeldBy(stack[j])
    BY <1>2, <1>5
  <2>2. HeldBy(stack[j]) \subseteq DOMAIN memo
    BY <1>1, WhileRunning
  <2>3. QED
    BY <1>3, <1>4, <2>1, <2>2
<1>6. current' \in Defs \cup {NoDef}
  BY <1>1 DEF Inv, RestTyped
<1>7. \A n \in DOMAIN m : n # t0 => n \in DOMAIN memo /\ m[n] = memo[n]
  BY <1>3, <1>4
<1>8. QED
  BY <1>1, <1>4, <1>5, <1>6, <1>7, LeaveFunDefInv

-------------------------------------------------------------------------------
(***************************************************************************)
(* Between two evaluations                                                 *)
(***************************************************************************)
\* No evaluator is there.
Resting ==
  /\ RestTyped /\ ComponentsFit
  /\ answer # Asked /\ stack = <<>> /\ memo = <<>> /\ dgr = {} /\ lazy = <<>>

\* An evaluator has just been made.
Beginning ==
  /\ RestTyped /\ answer = Asked /\ SccFits(prog, scc)
  /\ query \in Queries /\ GraphFits(Bodies(query), dgr, Places) /\ DefsIn(query) \subseteq Known(scc)
  /\ stack = <<Frame(<<Query, 1>>)>> /\ memo = <<>> /\ lazy = <<>>

\* The empty sequence is the function without arguments.
LEMMA EmptyDomain == DOMAIN <<>> = {} /\ \A F : <<>> \in Seq(F)
OBVIOUS

\* Without an evaluator, the invariant is about what outlives it.
LEMMA RestingInv == Resting => Inv
<1> SUFFICES ASSUME Resting PROVE Inv
  OBVIOUS
<1> USE DEF Resting
<1>1. DOMAIN stack = {} /\ DOMAIN memo = {} /\ DOMAIN lazy = {} /\ stack \in Seq(FrameSet)
  BY EmptyDomain
<1>2. StackShape(stack, lazy)
  BY <1>1 DEF StackShape, FramesCalled, BodiesNest, OpenOnce, FramesLead, FramesKnown, FreeIsOpen
<1>3. Evaluating /\ CalleeKept
  BY DEF Evaluating, Idle, CalleeKept, Running
<1>4. LazyApplied /\ HeldPredicatesStay /\ MemoTyped
  BY <1>1 DEF LazyApplied, HeldPredicatesStay, MemoTyped
<1>5. QED
  BY <1>2, <1>3, <1>4 DEF Inv

\* A new evaluator has called for the term that is asked.
LEMMA BeginningInv == Beginning => Inv
<1> SUFFICES ASSUME Beginning PROVE Inv
  OBVIOUS
<1> DEFINE n == <<Query, 1>>
           f == Frame(n)
<1>1. Prepared
  BY DEF Beginning, Prepared, RestTyped
<1>2. n \in Places /\ successors(dgr, n) = {}
  BY DEF Beginning, GraphFits
<1>3. Term(n) = query /\ ~isFunDef(n) /\ definition(n) = Query
  <2>1. TermAt(Bodies(query), n) = Bodies(query)[Query]
    BY TermAtBody
  <2>2. QED
    BY <2>1 DEF Term, Bodies, isFunDef, definition
<1>4. Calls(n) \in 0 .. 3
  BY <1>1, <1>2, CallsTyped
<1>5. f \in FrameSet /\ f.at = 0 /\ f.node = n
  BY <1>2, UnaryBounds DEF FrameSet, Frame
<1> HIDE DEF f
<1>6. stack = <<f>> /\ stack \in Seq(FrameSet) /\ Len(stack) = 1 /\ DOMAIN stack = {1} /\ stack[1] = f
  <2>1. stack = <<f>>
    BY DEF Beginning, f
  <2>2. QED
    BY <1>5, <2>1
<1>7. FramesCalled(stack, lazy)
  <2>1. stack[Len(stack)].node = n
    BY <1>5, <1>6
  <2>2. f.at <= Calls(f.node) /\ Settled(lazy, f)
    BY <1>4, <1>5 DEF Settled
  <2>3. QED
    BY <1>6, <2>1, <2>2 DEF FramesCalled
<1>8. BodiesNest(stack) /\ OpenOnce(stack) /\ FramesLead(stack)
  BY <1>3, <1>5, <1>6 DEF BodiesNest, OpenOnce, FramesLead
<1>9. FramesKnown(stack)
  BY <1>3, <1>5, <1>6 DEF FramesKnown, DefsAt, Beginning
<1>10. FreeIsOpen(stack)
  BY <1>2, <1>5, <1>6 DEF FreeIsOpen, Free
<1>11. StackShape(stack, lazy)
  BY <1>6, <1>7, <1>8, <1>9, <1>10 DEF StackShape
<1>12. Evaluating /\ ComponentsFit
  <2>1. stack # <<>>
    BY <1>6
  <2>2. QED
    BY <2>1 DEF Beginning, Evaluating, ComponentsFit, Idle
<1>13. CalleeKept
  BY <1>5, <1>6 DEF CalleeKept, top
<1>14. LazyApplied /\ MemoTyped
  BY EmptyDomain DEF Beginning, LazyApplied, MemoTyped
<1>15. HeldPredicatesStay
  <2>1. Active = {}
    BY <1>5, <1>6 DEF Active
  <2>2. QED
    BY <1>5, <1>6, <2>1 DEF HeldPredicatesStay
<1>16. RestTyped
  BY DEF Beginning
<1>17. QED
  BY <1>11, <1>12, <1>13, <1>14, <1>15, <1>16 DEF Inv

\* There is an evaluator between a question and its answer only.
LEMMA RestingNow == ASSUME Inv, answer # Asked PROVE Resting
BY DEF Inv, Evaluating, Idle, Resting

\* The program starts without one.
LEMMA InitResting == Init => Resting
<1> SUFFICES ASSUME Init PROVE Resting
  OBVIOUS
<1>1. prog \in Programs /\ flags \in FlagRecords
  BY ProgramsAssumption, StartsAssumption DEF Init
<1>2. scc \in Components /\ Known(scc) = {}
  BY DEF Init, Components, Known
<1>3. SccFits(prog, scc)
  BY <1>2 DEF SccFits, Founded, ClosedIn
<1>4. DOMAIN cache = {} /\ dgr = {} /\ current = NoDef /\ answer = None
  BY EmptyDomain DEF Init
<1>5. answer.value \in Predicates /\ answer # Asked
  BY <1>4 DEF None, Asked, Predicates
<1>6. RestTyped
  BY <1>1, <1>2, <1>4, <1>5 DEF RestTyped
<1>7. QED
  BY <1>3, <1>5, <1>6 DEF Resting, ComponentsFit, Init

\* A question makes an evaluator, if the preparation accepts the term.
LEMMA AskSteps ==
  ASSUME ~AskAgain, Inv, NEW q \in Queries, Ask(q)
  PROVE  Beginning' \/ Resting'
<1> DEFINE s == SccOf(prog, Bodies(q), scc)
           g == DependenciesOf(Bodies(q))
<1>1. /\ Resting /\ answer # Rejected /\ stack = <<>>
      /\ query' = q /\ scc' = s.scc /\ memo' = <<>> /\ lazy' = <<>> /\ current' = NoDef
      /\ prog' = prog /\ flags' = flags /\ cache' = cache
      /\ \/ /\ s.valid /\ g.ok /\ dgr' = g.graph
            /\ stack' = <<Frame(<<Query, 1>>)>> /\ answer' = Asked
         \/ dgr' = {} /\ stack' = <<>> /\ answer' = Rejected
  BY RestingNow DEF Ask, Idle
<1>2. RestTyped /\ SccFits(prog, scc)
  BY <1>1 DEF Resting, ComponentsFit
<1>3. prog \in Programs /\ scc \in Components
  BY <1>2 DEF RestTyped
<1>4. Bodies(q) = BodiesIn(prog, q) /\ Bodies(query)' = Bodies(q)
  BY <1>1 DEF Bodies, BodiesIn
<1> HIDE DEF s, g
<1>5. s.scc \in Components /\ (s.valid => SccFits(prog, s.scc) /\ DefsIn(q) \subseteq Known(s.scc))
  BY <1>2, <1>3, <1>4, SccAssumption DEF s
<1>6. (\A e \in g.graph : e[2] \in Defs) /\ (g.ok => GraphFits(Bodies(q), g.graph, PlacesOf(Bodies(q))))
  BY <1>3, <1>4, DependenciesAssumption DEF g
<1>7. Asked.value \in Predicates /\ Rejected.value \in Predicates /\ Asked # Rejected
  BY DEF Asked, Rejected, Predicates
<1>8. RestTyped'
  BY <1>1, <1>2, <1>5, <1>6, <1>7 DEF RestTyped
<1>9. CASE s.valid /\ g.ok /\ dgr' = g.graph /\ stack' = <<Frame(<<Query, 1>>)>> /\ answer' = Asked
  <2>1. Places' = PlacesOf(Bodies(q))
    BY <1>4 DEF Places
  <2>2. GraphFits(Bodies(query), dgr, Places)'
    BY <1>4, <1>6, <1>9, <2>1 DEF GraphFits
  <2>3. SccFits(prog, scc)' /\ (DefsIn(query) \subseteq Known(scc))'
    BY <1>1, <1>5, <1>9 DEF SccFits, Founded, Known, ClosedIn
  <2>4. Frame(<<Query, 1>>)' = Frame(<<Query, 1>>)
    BY DEF Frame
  <2>5. QED
    BY <1>1, <1>8, <1>9, <2>2, <2>3, <2>4 DEF Beginning
<1>10. CASE dgr' = {} /\ stack' = <<>> /\ answer' = Rejected
  BY <1>1, <1>7, <1>8, <1>10 DEF Resting, ComponentsFit
<1>11. QED
  BY <1>1, <1>9, <1>10

\* With the answer, the evaluator goes.
LEMMA AnswerSteps == ASSUME Inv, Answer PROVE Resting'
<1>1. /\ stack = <<>> /\ answer = Asked /\ answer' = Value(memo[<<Query, 1>>])
      /\ dgr' = {} /\ memo' = <<>> /\ lazy' = <<>> /\ stack' = stack /\ current' = current
      /\ prog' = prog /\ flags' = flags /\ scc' = scc /\ cache' = cache
  BY DEF Answer, Idle, session
<1>2. <<Query, 1>> \in DOMAIN memo
  BY <1>1 DEF Inv, Evaluating, Idle, valid
<1>3. memo[<<Query, 1>>] \in Predicates
  BY <1>2 DEF Inv, MemoTyped
<1>4. answer'.value \in Predicates /\ answer' # Asked
  BY <1>1, <1>3 DEF Value, Asked
<1>5. RestTyped'
  BY <1>1, <1>4 DEF Inv, RestTyped
<1>6. SccFits(prog, scc)
  BY <1>1 DEF Inv, ComponentsFit, Asked, Rejected
<1>7. ComponentsFit'
  BY <1>1, <1>6 DEF ComponentsFit, SccFits, Founded, ClosedIn, Known
<1>8. QED
  BY <1>1, <1>4, <1>5, <1>7 DEF Resting

\* A definition that no component holds is not referred to by those that have
\* one, so that another body for it changes nothing about them.
LEMMA RedefineSteps ==
  ASSUME ~RedefineLate, Inv, NEW r \in Redefinitions, Redefine(r[1], r[2])
  PROVE  Resting'
<1> DEFINE d == r[1]
<1>1. /\ Resting /\ scc[d] = NoScc /\ prog' = [prog EXCEPT ![d].body = r[2]]
      /\ UNCHANGED <<flags, scc, cache, query, asked, dgr, memo, lazy, current, stack, answer>>
  BY RestingNow DEF Redefine
<1>2. prog \in Programs /\ d \in Defs
  BY <1>1, ProgramsAssumption DEF Resting, RestTyped
<1>3. prog' \in Programs
  BY <1>1, <1>2, ProgramsAssumption
<1>4. RestTyped'
  BY <1>1, <1>3 DEF Resting, RestTyped
<1>5. ASSUME SccFits(prog, scc) PROVE SccFits(prog', scc)
  <2> DEFINE K == Known(scc)
  <2>1. d \notin K /\ K \subseteq Defs
    BY <1>1 DEF Known
  <2>2. \A e \in K : prog'[e] = prog[e]
    <3>1. prog \in [Defs -> [kind : {"def", "mu", "nu"}, body : ParameterTerms]]
      BY <1>2, ProgramsAssumption
    <3>2. QED
      BY <1>1, <2>1, <3>1
  <2>3. ClosedIn(prog, K)
    BY <1>5 DEF SccFits, Founded
  <2>4. ClosedIn(prog', K)
    BY <2>2, <2>3 DEF ClosedIn
  <2>5. ASSUME NEW e \in K, prog'[e].kind = "def"
        PROVE  \E X \in SUBSET Defs :
                 e \notin X /\ DefsIn(prog'[e].body) \subseteq X /\ ClosedIn(prog', X)
    <3>1. PICK X \in SUBSET Defs :
            e \notin X /\ DefsIn(prog[e].body) \subseteq X /\ ClosedIn(prog, X)
      BY <1>5, <2>2, <2>5 DEF SccFits, Founded
    <3>2. X \cap K \in SUBSET Defs /\ e \notin X \cap K
      BY <3>1
    <3>3. DefsIn(prog'[e].body) \subseteq X \cap K
      BY <2>2, <2>3, <3>1 DEF ClosedIn
    <3>4. ClosedIn(prog', X \cap K)
      BY <2>2, <2>3, <3>1 DEF ClosedIn
    <3>5. QED
      BY <3>2, <3>3, <3>4
  <2>6. QED
    BY <2>4, <2>5 DEF SccFits, Founded
<1>6. ComponentsFit'
  <2>1. SccFits(prog', scc)  => SccFits(prog, scc)'
    BY <1>1 DEF SccFits, Founded, ClosedIn, Known
  <2>2. answer' = answer
    BY <1>1
  <2>3. QED
    BY <1>1, <1>5, <2>1, <2>2 DEF Resting, ComponentsFit
<1>7. QED
  BY <1>1, <1>4, <1>6 DEF Resting

\* The cache may be forgotten between two questions.
LEMMA ResetCacheSteps == ASSUME Inv, NEW ds, ResetCache(ds) PROVE Resting'
<1>1. /\ Resting /\ cache' = Without(cache, ds)
      /\ UNCHANGED <<prog, flags, scc, query, asked, dgr, memo, lazy, current, stack, answer>>
  BY RestingNow DEF ResetCache
<1>2. DOMAIN cache' = DOMAIN cache \ ds /\ \A d \in DOMAIN cache' : cache'[d] = cache[d]
  BY <1>1 DEF Without
<1>3. RestTyped'
  BY <1>1, <1>2 DEF Resting, RestTyped
<1>4. ComponentsFit'
  BY <1>1 DEF Resting, ComponentsFit, SccFits, Founded, ClosedIn, Known
<1>5. QED
  BY <1>1, <1>3, <1>4 DEF Resting

-------------------------------------------------------------------------------
(***************************************************************************)
(* The theorems                                                            *)
(***************************************************************************)
\* Nothing that Inv speaks of changes when nothing changes.
LEMMA StutterInv == ASSUME Inv, UNCHANGED vars PROVE Inv'
<1>1. CASE Running
  <2>1. Same /\ stack' = stack /\ lazy' = lazy /\ memo' = memo /\ cache' = cache
        /\ current' = current /\ answer' = answer
    BY DEF vars, Same
  <2>2. StackShape(stack', lazy')
    BY <2>1 DEF Inv
  <2>3. \A n \in DOMAIN lazy' : \A k \in lazy'[n] : op(child(child(n, 1), k)) = "app"
    BY <2>1 DEF Inv, LazyApplied
  <2>4. \A j \in DOMAIN stack' : HeldBy(stack'[j]) \subseteq DOMAIN memo'
    BY <1>1, <2>1, WhileRunning
  <2>5. stack' # <<>> /\ stack'[1].at > 0 => Callee(lazy', stack'[1]) \in DOMAIN memo'
    BY <2>1 DEF Inv, CalleeKept, Running, top, valid
  <2>6. MemoTyped'
    BY <2>1, SamePlaces DEF Inv, MemoTyped
  <2>7. /\ DOMAIN cache' \subseteq Defs /\ \A d \in DOMAIN cache' : cache'[d] \in Unary
        /\ current' \in Defs \cup {NoDef} /\ stack' # <<>>
    BY <1>1, <2>1 DEF Inv, RestTyped, Running
  <2>8. QED
    BY <1>1, <2>1, <2>2, <2>3, <2>4, <2>5, <2>6, <2>7, StepInv
<1>2. CASE ~Running /\ answer # Asked
  <2>1. Resting
    BY <1>2, RestingNow
  <2>2. Resting'
    BY <2>1 DEF Resting, RestTyped, ComponentsFit, SccFits, Founded, ClosedIn, Known, vars
  <2>3. QED
    BY <2>2, RestingInv, PTL
<1>3. CASE ~Running /\ answer = Asked
  <2>1. RestTyped
    BY DEF Inv
  <2>2. Same /\ stack' = stack /\ lazy' = lazy /\ memo' = memo /\ cache' = cache
        /\ current' = current /\ answer' = answer /\ asked' = asked
    BY DEF vars, Same
  <2>3. DOMAIN stack = {} /\ stack = <<>>
    BY <1>3, EmptyDomain DEF Running
  <2>4. RestTyped' /\ ComponentsFit'
    BY <2>2 DEF Inv, RestTyped, ComponentsFit, SccFits, Founded, ClosedIn, Known, Same
  <2>5. Evaluating'
    <3>1. GraphFits(Bodies(query), dgr, Places)'
      BY <1>3, <2>2, SamePlaces DEF Inv, Evaluating, GraphFits, Same
    <3>2. QED
      BY <1>3, <2>2, <3>1 DEF Inv, Evaluating, Idle, valid, Same
  <2>6. StackShape(stack, lazy)'
    BY <2>2, SameShape DEF Inv
  <2>7. LazyApplied' /\ CalleeKept' /\ HeldPredicatesStay' /\ MemoTyped'
    <3>1. LazyApplied' /\ MemoTyped'
      BY <2>2, SamePlaces DEF Inv, LazyApplied, MemoTyped
    <3>2. CalleeKept' /\ HeldPredicatesStay'
      BY <2>2, <2>3 DEF CalleeKept, HeldPredicatesStay, Running
    <3>3. QED
      BY <3>1, <3>2
  <2>8. QED
    BY <2>4, <2>5, <2>6, <2>7 DEF Inv
<1>4. QED
  BY <1>1, <1>2, <1>3

\* One step of the evaluator, or of a user who neither asks on after a term was
\* refused nor changes a definition that was evaluated.
LEMMA NextInv == ASSUME ~AskAgain, ~RedefineLate, Inv, [Next]_vars PROVE Inv'
<1>1. ASSUME NEW q \in Queries, Ask(q) PROVE Inv'
  <2>1. Beginning' \/ Resting'
    BY <1>1, AskSteps
  <2>2. QED
    BY <2>1, BeginningInv, RestingInv, PTL
<1>2. ASSUME NEW r \in Redefinitions, Redefine(r[1], r[2]) PROVE Inv'
  <2>1. Resting'
    BY <1>2, RedefineSteps
  <2>2. QED
    BY <2>1, RestingInv, PTL
<1>3. ASSUME NEW ds \in SUBSET DOMAIN cache, ResetCache(ds) PROVE Inv'
  <2>1. Resting'
    BY <1>3, ResetCacheSteps
  <2>2. QED
    BY <2>1, RestingInv, PTL
<1>4. ASSUME Answer PROVE Inv'
  <2>1. Resting'
    BY <1>4, AnswerSteps
  <2>2. QED
    BY <2>1, RestingInv, PTL
<1>5. ASSUME Terms PROVE Inv'
  BY <1>5, AlreadyEvaluatedInv, eval_constantInv, FirstOperandInv, eval_notInv,
     eval_applicationInv, eval_quantorInv, SecondOperandInv, eval_binaryInv,
     eval_quantor_specialInv, ThirdOperandInv, eval_iteInv DEF Terms
<1>6. ASSUME FunDefs PROVE Inv'
  BY <1>6, FoundInCacheInv, EnterPlainInv, FinishPlainInv, EnterFixpointInv, NextRoundInv,
     FinishFixpointInv DEF FunDefs
<1>7. CASE UNCHANGED vars
  BY <1>7, StutterInv
<1>8. QED
  BY <1>1, <1>2, <1>3, <1>4, <1>5, <1>6, <1>7 DEF Next

\* A user who asks on only after accepted terms, and changes no definition that
\* was evaluated, finds the evaluator's invariant kept: its stack of handlers
\* has the shape of the terms, each handler's operand is there when it goes on,
\* and what it holds stays.
THEOREM EvaluatorInvariant ==
  ASSUME ~AskAgain, ~RedefineLate
  PROVE  Spec => []Inv
<1>1. Init => Inv
  BY InitResting, RestingInv
<1>2. Inv /\ [Next]_vars => Inv'
  BY NextInv
<1>3. QED
  BY <1>1, <1>2, PTL DEF Spec

\* The predicates of definitions are about their parameter only, in the
\* evaluator's states and in the cache that outlives it; the rest of the state
\* has its types.
THEOREM EvaluatorTyped ==
  ASSUME ~AskAgain, ~RedefineLate
  PROVE  Spec => []TypeOK
<1>1. Inv => TypeOK
  <2> SUFFICES ASSUME Inv PROVE TypeOK
    OBVIOUS
  <2>1. \A d \in Defs : prog[d].kind \in {"def", "mu", "nu"}
    <3>1. prog \in [Defs -> [kind : {"def", "mu", "nu"}, body : ParameterTerms]]
      BY ProgramsAssumption DEF Inv, RestTyped
    <3>2. QED
      BY <3>1
  <2>2. \A d \in Defs : scc[d] = NoScc \/ scc[d] \subseteq Defs
    BY DEF Inv, RestTyped, Components
  <2>3. \A n \in DOMAIN memo : memo[n] \in IF isFunDef(n) THEN Unary ELSE Predicates
    BY DEF Inv, MemoTyped
  <2>4. \A i \in DOMAIN stack : stack[i].at \in 0 .. 3 /\ stack[i].last \in Unary
    BY FrameTyped DEF Inv, StackShape, FrameSet
  <2>5. QED
    BY <2>1, <2>2, <2>3, <2>4 DEF Inv, RestTyped, TypeOK
<1>2. QED
  BY <1>1, EvaluatorInvariant, PTL

\* What a handler has computed and still needs is there when the handlers it
\* calls have returned, whatever these reset: no approximation is lost in a
\* round (reset_dependencies, reset and reset_if_possible, evalpred.cc).
THEOREM HeldPredicatesKept ==
  ASSUME ~AskAgain, ~RedefineLate
  PROVE  Spec => []HeldPredicatesStay
<1>1. Inv => HeldPredicatesStay
  BY DEF Inv
<1>2. QED
  BY <1>1, EvaluatorInvariant, PTL

\* The evaluation of a definition never comes back to that definition but to
\* find its approximation: what is no fixpoint is not recursive (evalscc.cc).
THEOREM RecursionNeverEntered ==
  ASSUME ~AskAgain, ~RedefineLate
  PROVE  Spec => []RecursionRefused
<1>1. Inv => RecursionRefused
  BY DEF Inv, StackShape, RecursionRefused
<1>2. QED
  BY <1>1, EvaluatorInvariant, PTL

-------------------------------------------------------------------------------
(***************************************************************************)
(* What meanings depend on                                                 *)
(***************************************************************************)
\* Of well-founded definitions all bodies are legal.
LEMMA WellFoundedBodies ==
  ASSUME NEW p \in Programs, NEW d \in WellFounded(p)
  PROVE  /\ d \in Defs /\ p[d].kind \in {"def", "mu", "nu"}
         /\ p[d].body \in ParameterTerms /\ p[d].body \in Legal(p)
         /\ DefsIn(p[d].body) \subseteq WellFounded(p)
         /\ d \in Fixpoints(p) <=> p[d].kind # "def"
<1>1. PICK X \in SUBSET Defs : Founded(p, X) /\ d \in X
  BY DEF WellFounded
<1>2. DefsIn(p[d].body) \subseteq X /\ X \subseteq WellFounded(p)
  BY <1>1 DEF Founded, ClosedIn, WellFounded
<1>3. p \in [Defs -> [kind : {"def", "mu", "nu"}, body : ParameterTerms]]
  BY ProgramsAssumption
<1>4. p[d].kind \in {"def", "mu", "nu"} /\ p[d].body \in ParameterTerms
  BY <1>1, <1>3
<1>5. p[d].body \in AllTerms
  BY <1>4, ParameterTermsAssumption
<1>6. QED
  BY <1>1, <1>2, <1>4, <1>5 DEF Legal, Fixpoints

\* Subterms of legal terms are legal.
LEMMA LegalTerms ==
  ASSUME NEW p \in Programs, NEW t \in Legal(p)
  PROVE  /\ t \in AllTerms
         /\ \A i \in DOMAIN t.args : t.args[i] \in Legal(p) /\ DefsIn(t.args[i]) \subseteq DefsIn(t)
         /\ t.op = "app" => t.sym \in DefsIn(t) /\ t.sym \in WellFounded(p)
BY TermsAssumption DEF Legal

\* An open definition is a fixpoint.
LEMMA EnvironmentIs ==
  ASSUME NEW p, NEW e
  PROVE  e \in Environments(p) <=>
           /\ e \in [DOMAIN e -> Unary]
           /\ DOMAIN e \subseteq Fixpoints(p) \cap WellFounded(p)
<1>1. ASSUME e \in Environments(p)
      PROVE e \in [DOMAIN e -> Unary] /\ DOMAIN e \subseteq Fixpoints(p) \cap WellFounded(p)
  <2>1. PICK O \in SUBSET (Fixpoints(p) \cap WellFounded(p)) : e \in [O -> Unary]
    BY <1>1 DEF Environments
  <2>2. DOMAIN e = O
    BY <2>1
  <2>3. QED
    BY <2>1, <2>2
<1>2. QED
  BY <1>1 DEF Environments

\* One more definition is opened.
LEMMA EnvironmentWith ==
  ASSUME NEW p, NEW e \in Environments(p), NEW d \in Fixpoints(p) \cap WellFounded(p), NEW a \in Unary
  PROVE  With(e, d, a) \in Environments(p) /\ DOMAIN With(e, d, a) = DOMAIN e \cup {d}
<1>1. e \in [DOMAIN e -> Unary] /\ DOMAIN e \subseteq Fixpoints(p) \cap WellFounded(p)
  BY EnvironmentIs
<1>2. With(e, d, a) \in [DOMAIN e \cup {d} -> Unary]
  BY <1>1 DEF With
<1>3. QED
  BY <1>1, <1>2, EnvironmentIs

\* Two programs and environments are alike for the definitions T if these lead,
\* by equal bodies, to definitions that are open in both for the same predicate.
Alike(p, q, e, f, T) ==
  \E W \in SUBSET (WellFounded(p) \cap WellFounded(q)), E \in SUBSET (DOMAIN e \cap DOMAIN f) :
    /\ W \cap (DOMAIN e \cup DOMAIN f) = {}
    /\ \A d \in E : e[d] = f[d]
    /\ \A d \in W : p[d] = q[d] /\ DefsIn(p[d].body) \subseteq W \cup E
    /\ T \subseteq W \cup E

\* What is alike stays so when an application is looked through.
LEMMA AlikeBelow ==
  ASSUME NEW p \in Programs, NEW q \in Programs,
         NEW e \in Environments(p), NEW f \in Environments(q), NEW T, NEW d \in T, Alike(p, q, e, f, T)
  PROVE  \/ d \in DOMAIN e /\ d \in DOMAIN f /\ e[d] = f[d]
         \/ /\ d \notin DOMAIN e /\ d \notin DOMAIN f /\ p[d] = q[d]
            /\ d \in WellFounded(p) /\ d \in WellFounded(q)
            /\ IF p[d].kind = "def" THEN Alike(p, q, e, f, DefsIn(p[d].body))
               ELSE \A a \in Unary : Alike(p, q, With(e, d, a), With(f, d, a), DefsIn(p[d].body))
<1>1. PICK W \in SUBSET (WellFounded(p) \cap WellFounded(q)), E \in SUBSET (DOMAIN e \cap DOMAIN f) :
           /\ W \cap (DOMAIN e \cup DOMAIN f) = {}
           /\ \A c \in E : e[c] = f[c]
           /\ \A c \in W : p[c] = q[c] /\ DefsIn(p[c].body) \subseteq W \cup E
           /\ T \subseteq W \cup E
  BY DEF Alike
<1>2. CASE d \in E
  BY <1>1, <1>2
<1>3. CASE d \in W
  <2>1. d \notin DOMAIN e /\ d \notin DOMAIN f /\ p[d] = q[d] /\ DefsIn(p[d].body) \subseteq W \cup E
    BY <1>1, <1>3
  <2>2. Alike(p, q, e, f, DefsIn(p[d].body))
    BY <1>1, <2>1 DEF Alike
  <2>3. ASSUME NEW a \in Unary
        PROVE  Alike(p, q, With(e, d, a), With(f, d, a), DefsIn(p[d].body))
    <3> DEFINE g == With(e, d, a)
               h == With(f, d, a)
               V == W \ {d}
               F == E \cup {d}
    <3>1. /\ DOMAIN g = DOMAIN e \cup {d} /\ g[d] = a /\ \A c \in DOMAIN e : c # d => g[c] = e[c]
          /\ DOMAIN h = DOMAIN f \cup {d} /\ h[d] = a /\ \A c \in DOMAIN f : c # d => h[c] = f[c]
      BY DEF With
    <3> HIDE DEF g, h
    <3>2. V \in SUBSET (WellFounded(p) \cap WellFounded(q)) /\ F \in SUBSET (DOMAIN g \cap DOMAIN h)
      BY <3>1
    <3>3. V \cap (DOMAIN g \cup DOMAIN h) = {}
      BY <1>1, <3>1
    <3>4. \A c \in F : g[c] = h[c]
      BY <1>1, <2>1, <3>1
    <3>5. \A c \in V : p[c] = q[c] /\ DefsIn(p[c].body) \subseteq V \cup F
      BY <1>1
    <3>6. DefsIn(p[d].body) \subseteq V \cup F
      BY <2>1
    <3> HIDE DEF V, F
    <3>7. Alike(p, q, g, h, DefsIn(p[d].body))
      BY <3>2, <3>3, <3>4, <3>5, <3>6 DEF Alike
    <3>8. QED
      BY <3>7 DEF g, h
  <2>4. QED
    BY <1>3, <2>1, <2>2, <2>3
<1>4. QED
  BY <1>1, <1>2, <1>3

\* Fewer definitions are alike as well.
LEMMA AlikeFewer ==
  ASSUME NEW p, NEW q, NEW e, NEW f, NEW T, NEW U \in SUBSET T, Alike(p, q, e, f, T)
  PROVE  Alike(p, q, e, f, U)
BY DEF Alike

\* The equation of a term's meaning.
LEMMA TermEquation ==
  ASSUME NEW p \in Programs, NEW e \in Environments(p), NEW t \in Legal(p)
  PROVE  LET arg(i) == MeaningOf(p, t.args[i], e)
         IN MeaningOf(p, t, e) =
              CASE t.op = "const" -> t.sym
                [] t.op = "app" -> apply(Standing(p, t.sym, e), t.at)
                [] t.op = "not" -> Points \ arg(1)
                [] t.op \in Binary -> binary(t.op, arg(1), arg(2))
                [] t.op \in Quantor -> quantify(t.op, arg(1))
                [] t.op = "ite" -> (arg(1) \cap arg(2)) \cup (arg(3) \ arg(1))
BY MeaningAssumption, Zenon

\* The equations of what a definition stands for.
LEMMA DefEquation ==
  ASSUME NEW p \in Programs, NEW e \in Environments(p), NEW d \in WellFounded(p) \ DOMAIN e
  PROVE  /\ p[d].kind = "def" => DefMeaningOf(p, d, e) = MeaningOf(p, p[d].body, e)
         /\ p[d].kind = "mu" => DefMeaningOf(p, d, e) = LeastFixpoint(p, d, e)
         /\ p[d].kind = "nu" => DefMeaningOf(p, d, e) = GreatestFixpoint(p, d, e)
<1>1. DefMeaningOf(p, d, e) =
        CASE p[d].kind = "def" -> MeaningOf(p, p[d].body, e)
          [] p[d].kind = "mu" -> LeastFixpoint(p, d, e)
          [] p[d].kind = "nu" -> GreatestFixpoint(p, d, e)
  BY MeaningAssumption, Zenon
<1>2. QED
  BY <1>1

\* What a term means is a predicate.
LEMMA MeaningTyped ==
  ASSUME NEW p \in Programs, NEW e \in Environments(p), NEW t \in Legal(p)
  PROVE  MeaningOf(p, t, e) \in Predicates
<1> DEFINE Bad == {k \in Nat : \E u \in Legal(p) : Depth(p, u, DOMAIN e) = k /\ MeaningOf(p, u, e) \notin Predicates}
<1>1. DOMAIN e \in SUBSET Fixpoints(p) /\ e \in [DOMAIN e -> Unary]
  BY EnvironmentIs
<1>2. SUFFICES ASSUME Bad # {} PROVE FALSE
  BY <1>1, DepthAssumption
<1>3. PICK k \in Bad : \A j \in Bad : k <= j
  <2> HIDE DEF Bad
  <2>1. Bad \in SUBSET Nat
    BY DEF Bad
  <2>2. QED
    BY <1>2, <2>1, Least
<1>4. PICK u \in Legal(p) : Depth(p, u, DOMAIN e) = k /\ MeaningOf(p, u, e) \notin Predicates
  OBVIOUS
<1>5. ASSUME NEW v \in Legal(p), Depth(p, v, DOMAIN e) < k PROVE MeaningOf(p, v, e) \in Predicates
  <2>1. Depth(p, v, DOMAIN e) \in Nat
    BY <1>1, DepthAssumption
  <2>2. QED
    BY <1>3, <1>5, <2>1
<1> HIDE DEF Bad
<1>6. /\ u \in AllTerms
      /\ \A i \in DOMAIN u.args : u.args[i] \in Legal(p)
      /\ u.op = "app" => u.sym \in WellFounded(p)
  BY LegalTerms
<1>7. /\ \A i \in DOMAIN u.args : Depth(p, u.args[i], DOMAIN e) < k
      /\ u.op = "app" /\ u.sym \notin DOMAIN e =>
           Depth(p, p[u.sym].body, DOMAIN e \cup ({u.sym} \cap Fixpoints(p))) < k
  BY <1>1, <1>4, DepthAssumption
<1> DEFINE arg(i) == MeaningOf(p, u.args[i], e)
<1>8. \A i \in DOMAIN u.args : arg(i) \in Predicates
  BY <1>5, <1>6, <1>7
<1>9. ASSUME u.op = "app" PROVE Standing(p, u.sym, e) \in Predicates
  <2>1. CASE u.sym \in DOMAIN e
    BY <1>1, <2>1, UnaryBounds DEF Standing
  <2>2. CASE u.sym \notin DOMAIN e
    <3> DEFINE d == u.sym
    <3>1. /\ d \in Defs /\ p[d].kind \in {"def", "mu", "nu"} /\ p[d].body \in Legal(p)
          /\ (d \in Fixpoints(p) <=> p[d].kind # "def")
      BY <1>6, <1>9, WellFoundedBodies
    <3>2. d \in WellFounded(p) \ DOMAIN e
      BY <1>6, <1>9, <2>2
    <3> HIDE DEF d
    <3>3. /\ p[d].kind = "def" => DefMeaningOf(p, d, e) = MeaningOf(p, p[d].body, e)
          /\ p[d].kind = "mu" => DefMeaningOf(p, d, e) = LeastFixpoint(p, d, e)
          /\ p[d].kind = "nu" => DefMeaningOf(p, d, e) = GreatestFixpoint(p, d, e)
      BY <3>2, DefEquation
    <3>4. CASE p[d].kind = "def"
      <4>1. {d} \cap Fixpoints(p) = {}
        BY <3>1, <3>4
      <4>2. Depth(p, p[d].body, DOMAIN e) < k
        BY <1>7, <1>9, <2>2, <4>1 DEF d
      <4>3. MeaningOf(p, p[d].body, e) \in Predicates
        BY <1>5, <3>1, <4>2
      <4>4. QED
        BY <2>2, <3>3, <3>4, <4>3 DEF Standing, d
    <3>5. CASE p[d].kind = "mu"
      <4>1. DefMeaningOf(p, d, e) \subseteq Points
        BY <3>3, <3>5 DEF LeastFixpoint
      <4>2. QED
        BY <2>2, <4>1 DEF Standing, Predicates, d
    <3>6. CASE p[d].kind = "nu"
      <4>1. DefMeaningOf(p, d, e) = UNION {a \in Unary : a \subseteq Round(p, d, a, e)}
        BY <3>3, <3>6 DEF GreatestFixpoint
      <4>2. \A a \in Unary : a \subseteq Points
        BY UnaryBounds DEF Predicates
      <4>3. DefMeaningOf(p, d, e) \subseteq Points
        BY <4>1, <4>2
      <4>4. QED
        BY <2>2, <4>3 DEF Standing, Predicates, d
    <3>7. QED
      BY <3>1, <3>4, <3>5, <3>6
  <2>3. QED
    BY <2>1, <2>2
<1>10. MeaningOf(p, u, e) =
         CASE u.op = "const" -> u.sym
           [] u.op = "app" -> apply(Standing(p, u.sym, e), u.at)
           [] u.op = "not" -> Points \ arg(1)
           [] u.op \in Binary -> binary(u.op, arg(1), arg(2))
           [] u.op \in Quantor -> quantify(u.op, arg(1))
           [] u.op = "ite" -> (arg(1) \cap arg(2)) \cup (arg(3) \ arg(1))
  BY TermEquation, Zenon
<1> HIDE DEF arg
<1>11. u.op \in {"const", "app", "not", "ite"} \cup Binary \cup Quantor
  BY <1>6, TermsAssumption
<1>12. CASE u.op = "const"
  BY <1>6, <1>10, <1>12, TermsAssumption, <1>4
<1>13. CASE u.op = "app"
  <2>1. MeaningOf(p, u, e) = apply(Standing(p, u.sym, e), u.at)
    BY <1>10, <1>13, ClassesApart
  <2>2. QED
    BY <1>4, <1>9, <1>13, <2>1, ApplyTyped
<1>14. CASE u.op = "not"
  <2>1. MeaningOf(p, u, e) = Points \ arg(1)
    BY <1>10, <1>14, ClassesApart
  <2>2. QED
    BY <1>4, <2>1 DEF Predicates
<1>15. CASE u.op \in Binary
  <2>1. MeaningOf(p, u, e) = binary(u.op, arg(1), arg(2))
    BY <1>10, <1>15, ClassesApart
  <2>2. 1 \in DOMAIN u.args /\ 2 \in DOMAIN u.args
    BY <1>6, <1>15, TermsAssumption
  <2>3. QED
    BY <1>4, <1>8, <1>15, <2>1, <2>2, ConnectivesTyped
<1>16. CASE u.op \in Quantor
  <2>1. MeaningOf(p, u, e) = quantify(u.op, arg(1))
    BY <1>10, <1>16, ClassesApart
  <2>2. QED
    BY <1>4, <2>1, QuantorTyped, UnaryBounds
<1>17. CASE u.op = "ite"
  <2>1. MeaningOf(p, u, e) = (arg(1) \cap arg(2)) \cup (arg(3) \ arg(1))
    BY <1>10, <1>17, ClassesApart
  <2>2. 1 \in DOMAIN u.args /\ 2 \in DOMAIN u.args /\ 3 \in DOMAIN u.args
    BY <1>6, <1>17, TermsAssumption
  <2>3. arg(1) \in Predicates /\ arg(3) \in Predicates
    BY <1>8, <2>2
  <2>4. MeaningOf(p, u, e) \in Predicates
    BY <2>1, <2>3 DEF Predicates
  <2>5. QED
    BY <1>4, <2>4
<1>18. QED
  BY <1>11, <1>12, <1>13, <1>14, <1>15, <1>16, <1>17

\* What a definition stands for depends on what its body means.
LEMMA StandingAlike ==
  ASSUME NEW p \in Programs, NEW q \in Programs, NEW e \in Environments(p), NEW f \in Environments(q),
         NEW T, NEW d \in T, Alike(p, q, e, f, T),
         d \notin DOMAIN e /\ p[d].kind = "def" =>
           MeaningOf(p, p[d].body, e) = MeaningOf(q, p[d].body, f),
         d \notin DOMAIN e /\ p[d].kind # "def" =>
           \A a \in Unary : Round(p, d, a, e) = Round(q, d, a, f)
  PROVE  Standing(p, d, e) = Standing(q, d, f)
<1>1. CASE d \in DOMAIN e /\ d \in DOMAIN f /\ e[d] = f[d]
  BY <1>1 DEF Standing
<1>2. CASE /\ d \notin DOMAIN e /\ d \notin DOMAIN f /\ p[d] = q[d]
           /\ d \in WellFounded(p) /\ d \in WellFounded(q)
  <2>1. p[d].kind \in {"def", "mu", "nu"}
    BY <1>2, WellFoundedBodies
  <2>2. /\ p[d].kind = "def" => DefMeaningOf(p, d, e) = MeaningOf(p, p[d].body, e)
        /\ p[d].kind = "mu" => DefMeaningOf(p, d, e) = LeastFixpoint(p, d, e)
        /\ p[d].kind = "nu" => DefMeaningOf(p, d, e) = GreatestFixpoint(p, d, e)
    BY <1>2, DefEquation
  <2>3. /\ p[d].kind = "def" => DefMeaningOf(q, d, f) = MeaningOf(q, p[d].body, f)
        /\ p[d].kind = "mu" => DefMeaningOf(q, d, f) = LeastFixpoint(q, d, f)
        /\ p[d].kind = "nu" => DefMeaningOf(q, d, f) = GreatestFixpoint(q, d, f)
    BY <1>2, DefEquation
  <2>4. CASE p[d].kind = "def"
    BY <1>2, <2>2, <2>3, <2>4 DEF Standing
  <2>5. CASE p[d].kind = "mu"
    <3>1. \A a \in Unary : Round(p, d, a, e) = Round(q, d, a, f)
      BY <1>2, <2>5
    <3>2. LeastFixpoint(p, d, e) = LeastFixpoint(q, d, f)
      BY <3>1 DEF LeastFixpoint
    <3>3. QED
      BY <1>2, <2>2, <2>3, <2>5, <3>2 DEF Standing
  <2>6. CASE p[d].kind = "nu"
    <3>1. \A a \in Unary : Round(p, d, a, e) = Round(q, d, a, f)
      BY <1>2, <2>6
    <3>2. GreatestFixpoint(p, d, e) = GreatestFixpoint(q, d, f)
      BY <3>1 DEF GreatestFixpoint
    <3>3. QED
      BY <1>2, <2>2, <2>3, <2>6, <3>2 DEF Standing
  <2>7. QED
    BY <2>1, <2>4, <2>5, <2>6
<1>3. QED
  BY <1>1, <1>2, AlikeBelow

\* Where programs and environments are alike, terms mean the same.
LEMMA Coincidence ==
  ASSUME NEW p \in Programs, NEW q \in Programs, NEW e \in Environments(p), NEW f \in Environments(q),
         NEW t \in Legal(p) \cap Legal(q), Alike(p, q, e, f, DefsIn(t))
  PROVE  MeaningOf(p, t, e) = MeaningOf(q, t, f)
<1> DEFINE Differs(u, g, h) ==
             Alike(p, q, g, h, DefsIn(u)) /\ MeaningOf(p, u, g) # MeaningOf(q, u, h)
           Bad == {k \in Nat : \E g \in Environments(p), h \in Environments(q), u \in Legal(p) \cap Legal(q) :
                                 Depth(p, u, DOMAIN g) = k /\ Differs(u, g, h)}
<1> HIDE DEF Differs
<1>1. ASSUME NEW g \in Environments(p), NEW u \in Legal(p) PROVE Depth(p, u, DOMAIN g) \in Nat
  <2>1. DOMAIN g \in SUBSET Fixpoints(p)
    BY EnvironmentIs
  <2>2. QED
    BY <2>1, DepthAssumption
<1>2. SUFFICES ASSUME Bad # {} PROVE FALSE
  <2>1. Depth(p, t, DOMAIN e) \in Nat
    BY <1>1
  <2>2. ~Differs(t, e, f)
    BY <1>2, <2>1
  <2>3. QED
    BY <2>2 DEF Differs
<1>3. PICK k \in Bad : \A j \in Bad : k <= j
  <2> HIDE DEF Bad
  <2>1. Bad \in SUBSET Nat
    BY DEF Bad
  <2>2. QED
    BY <1>2, <2>1, Least
<1>4. PICK g \in Environments(p), h \in Environments(q), u \in Legal(p) \cap Legal(q) :
        Depth(p, u, DOMAIN g) = k /\ Differs(u, g, h)
  OBVIOUS
<1>5. ASSUME NEW i \in Environments(p), NEW j \in Environments(q), NEW v \in Legal(p) \cap Legal(q),
             Depth(p, v, DOMAIN i) < k, Alike(p, q, i, j, DefsIn(v))
      PROVE  MeaningOf(p, v, i) = MeaningOf(q, v, j)
  <2>1. Depth(p, v, DOMAIN i) \in Nat
    BY <1>1
  <2>2. ~Differs(v, i, j)
    BY <1>3, <1>5, <2>1
  <2>3. QED
    BY <1>5, <2>2 DEF Differs
<1> HIDE DEF Bad
<1>6. Alike(p, q, g, h, DefsIn(u)) /\ MeaningOf(p, u, g) # MeaningOf(q, u, h)
  BY <1>4 DEF Differs
<1>7. DOMAIN g \in SUBSET Fixpoints(p)
  BY EnvironmentIs
<1>8. /\ u \in AllTerms
      /\ \A i \in DOMAIN u.args :
           u.args[i] \in Legal(p) \cap Legal(q) /\ DefsIn(u.args[i]) \subseteq DefsIn(u)
      /\ u.op = "app" => u.sym \in DefsIn(u) /\ u.sym \in WellFounded(p)
  BY LegalTerms
<1>9. /\ \A i \in DOMAIN u.args : Depth(p, u.args[i], DOMAIN g) < k
      /\ u.op = "app" /\ u.sym \notin DOMAIN g =>
           Depth(p, p[u.sym].body, DOMAIN g \cup ({u.sym} \cap Fixpoints(p))) < k
  BY <1>4, <1>7, DepthAssumption
<1>10. ASSUME NEW i \in DOMAIN u.args
       PROVE  MeaningOf(p, u.args[i], g) = MeaningOf(q, u.args[i], h)
  <2>1. Alike(p, q, g, h, DefsIn(u.args[i]))
    BY <1>6, <1>8, AlikeFewer
  <2>2. QED
    BY <1>5, <1>8, <1>9, <2>1
<1>11. ASSUME u.op = "app" PROVE Standing(p, u.sym, g) = Standing(q, u.sym, h)
  <2> DEFINE d == u.sym
  <2>1. d \in DefsIn(u)
    BY <1>8, <1>11
  <2>2. d \notin DOMAIN g =>
          /\ d \notin DOMAIN h /\ p[d] = q[d] /\ d \in WellFounded(p) /\ d \in WellFounded(q)
          /\ IF p[d].kind = "def" THEN Alike(p, q, g, h, DefsIn(p[d].body))
             ELSE \A a \in Unary : Alike(p, q, With(g, d, a), With(h, d, a), DefsIn(p[d].body))
    BY <1>6, <2>1, AlikeBelow
  <2>3. ASSUME d \notin DOMAIN g
        PROVE  /\ p[d].body \in Legal(p) \cap Legal(q)
               /\ d \in Fixpoints(p) <=> p[d].kind # "def"
               /\ d \in Fixpoints(q) <=> p[d].kind # "def"
    BY <2>2, <2>3, WellFoundedBodies
  <2>4. d \notin DOMAIN g => Depth(p, p[d].body, DOMAIN g \cup ({d} \cap Fixpoints(p))) < k
    BY <1>9, <1>11
  <2> HIDE DEF d
  <2>5. ASSUME d \notin DOMAIN g, p[d].kind = "def"
        PROVE  MeaningOf(p, p[d].body, g) = MeaningOf(q, p[d].body, h)
    <3>1. DOMAIN g \cup ({d} \cap Fixpoints(p)) = DOMAIN g
      BY <2>3, <2>5
    <3>2. QED
      BY <1>5, <2>2, <2>3, <2>4, <2>5, <3>1
  <2>6. ASSUME d \notin DOMAIN g, p[d].kind # "def", NEW a \in Unary
        PROVE  Round(p, d, a, g) = Round(q, d, a, h)
    <3>1. d \in Fixpoints(p) \cap WellFounded(p) /\ d \in Fixpoints(q) \cap WellFounded(q)
      BY <2>2, <2>3, <2>6
    <3>2. /\ With(g, d, a) \in Environments(p) /\ DOMAIN With(g, d, a) = DOMAIN g \cup {d}
          /\ With(h, d, a) \in Environments(q)
      <4>1. With(g, d, a) \in Environments(p) /\ DOMAIN With(g, d, a) = DOMAIN g \cup {d}
        BY <2>6, <3>1, EnvironmentWith
      <4>2. With(h, d, a) \in Environments(q)
        BY <2>6, <3>1, EnvironmentWith
      <4>3. QED
        BY <4>1, <4>2
    <3>3. DOMAIN g \cup ({d} \cap Fixpoints(p)) = DOMAIN With(g, d, a)
      BY <3>1, <3>2
    <3>4. MeaningOf(p, p[d].body, With(g, d, a)) = MeaningOf(q, p[d].body, With(h, d, a))
      BY <1>5, <2>2, <2>3, <2>4, <2>6, <3>2, <3>3
    <3>5. QED
      BY <2>2, <2>6, <3>4 DEF Round
  <2>7. QED
    BY <1>6, <2>1, <2>5, <2>6, StandingAlike DEF d
<1>12. MeaningOf(p, u, g) =
         CASE u.op = "const" -> u.sym
           [] u.op = "app" -> apply(Standing(p, u.sym, g), u.at)
           [] u.op = "not" -> Points \ MeaningOf(p, u.args[1], g)
           [] u.op \in Binary -> binary(u.op, MeaningOf(p, u.args[1], g), MeaningOf(p, u.args[2], g))
           [] u.op \in Quantor -> quantify(u.op, MeaningOf(p, u.args[1], g))
           [] u.op = "ite" -> (MeaningOf(p, u.args[1], g) \cap MeaningOf(p, u.args[2], g))
                                \cup (MeaningOf(p, u.args[3], g) \ MeaningOf(p, u.args[1], g))
  BY TermEquation, Zenon
<1>13. MeaningOf(q, u, h) =
         CASE u.op = "const" -> u.sym
           [] u.op = "app" -> apply(Standing(q, u.sym, h), u.at)
           [] u.op = "not" -> Points \ MeaningOf(q, u.args[1], h)
           [] u.op \in Binary -> binary(u.op, MeaningOf(q, u.args[1], h), MeaningOf(q, u.args[2], h))
           [] u.op \in Quantor -> quantify(u.op, MeaningOf(q, u.args[1], h))
           [] u.op = "ite" -> (MeaningOf(q, u.args[1], h) \cap MeaningOf(q, u.args[2], h))
                                \cup (MeaningOf(q, u.args[3], h) \ MeaningOf(q, u.args[1], h))
  BY TermEquation, Zenon
<1>14. /\ u.op \in {"const", "app", "not", "ite"} \cup Binary \cup Quantor
       /\ u.op \in {"not"} \cup Quantor => 1 \in DOMAIN u.args
       /\ u.op \in Binary => 1 \in DOMAIN u.args /\ 2 \in DOMAIN u.args
       /\ u.op = "ite" => 1 \in DOMAIN u.args /\ 2 \in DOMAIN u.args /\ 3 \in DOMAIN u.args
  BY <1>8, TermsAssumption
<1>15. CASE u.op = "const"
  BY <1>6, <1>12, <1>13, <1>15
<1>16. CASE u.op = "app"
  BY <1>6, <1>11, <1>12, <1>13, <1>16
<1>17. CASE u.op = "not"
  BY <1>6, <1>10, <1>12, <1>13, <1>14, <1>17
<1>18. CASE u.op \in Binary
  BY <1>6, <1>10, <1>12, <1>13, <1>14, <1>18, ClassesApart
<1>19. CASE u.op \in Quantor
  BY <1>6, <1>10, <1>12, <1>13, <1>14, <1>19, ClassesApart
<1>20. CASE u.op = "ite"
  BY <1>6, <1>10, <1>12, <1>13, <1>14, <1>20, ClassesApart
<1>21. QED
  BY <1>14, <1>15, <1>16, <1>17, <1>18, <1>19, <1>20

\* Where they are alike, definitions stand for the same.
LEMMA DefCoincidence ==
  ASSUME NEW p \in Programs, NEW q \in Programs, NEW e \in Environments(p), NEW f \in Environments(q),
         NEW d, Alike(p, q, e, f, {d})
  PROVE  Standing(p, d, e) = Standing(q, d, f)
<1>1. d \notin DOMAIN e =>
        /\ d \notin DOMAIN f /\ p[d] = q[d] /\ d \in WellFounded(p) /\ d \in WellFounded(q)
        /\ IF p[d].kind = "def" THEN Alike(p, q, e, f, DefsIn(p[d].body))
           ELSE \A a \in Unary : Alike(p, q, With(e, d, a), With(f, d, a), DefsIn(p[d].body))
  BY AlikeBelow
<1>2. ASSUME d \notin DOMAIN e
      PROVE  /\ p[d].body \in Legal(p) \cap Legal(q)
             /\ d \in Fixpoints(p) <=> p[d].kind # "def"
             /\ d \in Fixpoints(q) <=> p[d].kind # "def"
  BY <1>1, <1>2, WellFoundedBodies
<1>3. ASSUME d \notin DOMAIN e, p[d].kind = "def"
      PROVE  MeaningOf(p, p[d].body, e) = MeaningOf(q, p[d].body, f)
  BY <1>1, <1>2, <1>3, Coincidence
<1>4. ASSUME d \notin DOMAIN e, p[d].kind # "def", NEW a \in Unary
      PROVE  Round(p, d, a, e) = Round(q, d, a, f)
  <2>1. d \in Fixpoints(p) \cap WellFounded(p) /\ d \in Fixpoints(q) \cap WellFounded(q)
    BY <1>1, <1>2, <1>4
  <2>2. With(e, d, a) \in Environments(p) /\ With(f, d, a) \in Environments(q)
    BY <2>1, EnvironmentWith
  <2>3. MeaningOf(p, p[d].body, With(e, d, a)) = MeaningOf(q, p[d].body, With(f, d, a))
    BY <1>1, <1>2, <1>4, <2>2, Coincidence
  <2>4. QED
    BY <1>1, <1>4, <2>3 DEF Round
<1>5. d \notin DOMAIN e /\ p[d].kind = "def" =>
        MeaningOf(p, p[d].body, e) = MeaningOf(q, p[d].body, f)
  BY <1>3
<1>6. d \notin DOMAIN e /\ p[d].kind # "def" =>
        \A a \in Unary : Round(p, d, a, e) = Round(q, d, a, f)
  BY <1>4
<1> DEFINE T == {d}
<1>7. d \in T /\ Alike(p, q, e, f, T)
  OBVIOUS
<1> HIDE DEF T
<1>8. QED
  BY <1>5, <1>6, <1>7, StandingAlike

-------------------------------------------------------------------------------
(***************************************************************************)
(* What is open before and after a step                                    *)
(***************************************************************************)
\* The places of the frames below the top one, and the definitions that are
\* iterated there.
BelowPlaces == {stack[j].node : j \in {i \in DOMAIN stack : i > 1}}
OpenBelow == {d \in Defs : isFixpoint(d) /\ <<d>> \in BelowPlaces}

\* The stack after a return.
LEMMA ReturnedStack ==
  ASSUME Inv, Running, stack' = Tail(stack)
  PROVE  /\ \A j \in DOMAIN stack' :
              j \in Int /\ j + 1 \in DOMAIN stack /\ j + 1 > 1 /\ stack'[j] = stack[j + 1]
         /\ \A j \in DOMAIN stack :
              j \in Int /\ (j > 1 => j - 1 \in DOMAIN stack' /\ stack'[j - 1] = stack[j])
<1>1. stack \in Seq(FrameSet) /\ stack # <<>>
  BY WhileRunning DEF Running
<1>2. /\ Len(stack) \in Nat /\ Len(stack) > 0
      /\ DOMAIN stack = 1 .. Len(stack) /\ DOMAIN stack' = 1 .. Len(stack) - 1
      /\ \A i \in 1 .. Len(stack) - 1 : stack'[i] = stack[i + 1]
  BY <1>1, Popped
<1>3. QED
  BY <1>2

\* The stack after a call.
LEMMA CalledStack ==
  ASSUME Inv, Running, NEW c, NEW f \in FrameSet, stack' = <<Frame(c), f>> \o Tail(stack)
  PROVE  /\ 1 \in DOMAIN stack' /\ 2 \in DOMAIN stack' /\ stack'[1] = Frame(c) /\ stack'[2] = f
         /\ \A j \in DOMAIN stack' :
              /\ j \in Int
              /\ \/ j = 1
                 \/ j = 2
                 \/ j - 1 \in DOMAIN stack /\ j - 1 > 1 /\ stack'[j] = stack[j - 1]
         /\ \A j \in DOMAIN stack :
              j \in Int /\ (j > 1 => j + 1 \in DOMAIN stack' /\ j + 1 > 2 /\ stack'[j + 1] = stack[j])
<1> DEFINE F == FrameSet \cup {Frame(c)}
<1>1. stack \in Seq(F) /\ stack # <<>> /\ f \in F /\ Frame(c) \in F
  BY WhileRunning DEF Running
<1> HIDE DEF F
<1>2. /\ Len(stack) \in Nat /\ Len(stack) > 0
      /\ DOMAIN stack = 1 .. Len(stack) /\ DOMAIN stack' = 1 .. Len(stack) + 1
      /\ stack'[1] = Frame(c) /\ stack'[2] = f /\ \A i \in 3 .. Len(stack) + 1 : stack'[i] = stack[i - 1]
  BY <1>1, Pushed
<1>3. \A j \in DOMAIN stack : j > 1 => j + 1 \in 3 .. Len(stack) + 1 /\ (j + 1) - 1 = j
  BY <1>2
<1>4. \A j \in DOMAIN stack' :
        j = 1 \/ j = 2 \/ (j \in 3 .. Len(stack) + 1 /\ j - 1 \in DOMAIN stack /\ j - 1 > 1)
  BY <1>2
<1>5. QED
  BY <1>2, <1>3, <1>4

\* All frames but the top one have called.
LEMMA ActiveNow ==
  ASSUME Inv, Running
  PROVE  /\ \A j \in DOMAIN stack : j > 1 => stack[j].at > 0
         /\ Active = BelowPlaces \cup (IF top.at > 0 THEN {t0} ELSE {})
<1>1. 1 \in DOMAIN stack /\ \A j \in DOMAIN stack : j \in Int /\ j >= 1
  BY WhileRunning, FrameTyped
<1>2. \A j \in DOMAIN stack : j > 1 => stack[j].at > 0
  BY DEF Inv, StackShape, FramesCalled
<1>3. QED
  BY <1>1, <1>2 DEF Active, BelowPlaces, top, t0

\* The same after a return.
LEMMA ActiveReturned ==
  ASSUME Inv, Running, stack' = Tail(stack)
  PROVE  Active' = BelowPlaces
<1>1. \A j \in DOMAIN stack : j > 1 => stack[j].at > 0
  BY ActiveNow
<1>2. Active' = {stack'[i].node : i \in {j \in DOMAIN stack' : stack'[j].at > 0}}
  BY DEF Active
<1>3. ASSUME NEW i \in DOMAIN stack' PROVE stack'[i].node \in BelowPlaces /\ stack'[i].at > 0
  <2>1. i + 1 \in DOMAIN stack /\ i + 1 > 1 /\ stack'[i] = stack[i + 1]
    BY ReturnedStack
  <2>2. QED
    BY <1>1, <2>1 DEF BelowPlaces
<1>4. ASSUME NEW j \in DOMAIN stack, j > 1
      PROVE  \E i \in DOMAIN stack' : stack'[i] = stack[j]
  BY <1>4, ReturnedStack
<1>5. QED
  BY <1>2, <1>3, <1>4 DEF BelowPlaces

\* And after a call.
LEMMA ActiveCalled ==
  ASSUME Inv, Running, NEW c, NEW f \in FrameSet, f.node = t0, f.at > 0,
         stack' = <<Frame(c), f>> \o Tail(stack)
  PROVE  Active' = BelowPlaces \cup {t0}
<1>1. \A j \in DOMAIN stack : j > 1 => stack[j].at > 0
  BY ActiveNow
<1>2. Active' = {stack'[i].node : i \in {j \in DOMAIN stack' : stack'[j].at > 0}}
  BY DEF Active
<1>3. /\ 2 \in DOMAIN stack' /\ stack'[1].at = 0 /\ stack'[2] = f
      /\ \A j \in DOMAIN stack' :
           j = 1 \/ j = 2 \/ (j - 1 \in DOMAIN stack /\ j - 1 > 1 /\ stack'[j] = stack[j - 1])
  <2>1. Frame(c).at = 0
    BY DEF Frame
  <2>2. QED
    BY <2>1, CalledStack
<1>4. ASSUME NEW i \in DOMAIN stack', stack'[i].at > 0 PROVE stack'[i].node \in BelowPlaces \cup {t0}
  <2>1. CASE i = 2
    BY <1>3, <2>1
  <2>2. CASE i - 1 \in DOMAIN stack /\ i - 1 > 1 /\ stack'[i] = stack[i - 1]
    BY <2>2 DEF BelowPlaces
  <2>3. i # 1
    BY <1>3, <1>4
  <2>4. QED
    BY <1>3, <2>1, <2>2, <2>3
<1>5. \A j \in DOMAIN stack : j > 1 => j + 1 \in DOMAIN stack' /\ stack'[j + 1] = stack[j]
  BY CalledStack
<1>6. ASSUME NEW i \in DOMAIN stack', stack'[i].at > 0 PROVE stack'[i].node \in Active'
  BY <1>2, <1>6
<1>7. t0 \in Active'
  BY <1>3, <1>6
<1>8. ASSUME NEW n \in BelowPlaces PROVE n \in Active'
  <2>1. PICK j \in DOMAIN stack : j > 1 /\ n = stack[j].node
    BY DEF BelowPlaces
  <2>2. j + 1 \in DOMAIN stack' /\ stack'[j + 1] = stack[j] /\ stack[j].at > 0
    BY <1>1, <1>5, <2>1
  <2>3. stack'[j + 1].node \in Active'
    BY <1>6, <2>2
  <2>4. QED
    BY <2>1, <2>2, <2>3
<1>9. Active' \subseteq BelowPlaces \cup {t0}
  BY <1>2, <1>4
<1>10. QED
  BY <1>7, <1>8, <1>9

\* What is open, at the top and below it.
LEMMA OpenNow ==
  ASSUME Inv, Running
  PROVE  /\ OpenBelow \subseteq Open
         /\ \A d \in Open : d \in OpenBelow \/ (top.at > 0 /\ isFunDef(t0) /\ d = d0 /\ isFixpoint(d0))
         /\ top.at > 0 /\ isFunDef(t0) /\ isFixpoint(d0) => d0 \in Open
<1>1. Active = BelowPlaces \cup (IF top.at > 0 THEN {t0} ELSE {})
  BY ActiveNow
<1>2. ASSUME NEW d, <<d>> = t0 PROVE isFunDef(t0) /\ d = d0
  BY <1>2 DEF isFunDef, d0, definition
<1>3. isFunDef(t0) => t0 = <<d0>> /\ d0 \in Defs
  BY WhileRunning, DefPlace DEF d0
<1>4. QED
  BY <1>1, <1>2, <1>3 DEF Open, OpenBelow

\* An approximation is kept as long as its definition is iterated.
LEMMA OpenKept ==
  ASSUME Inv, Running, NEW d \in Open
  PROVE  /\ <<d>> \in DOMAIN memo /\ memo[<<d>>] \in Unary
         /\ d \in Fixpoints(prog) /\ d \in Known(scc) /\ d \in WellFounded(prog)
         /\ \E j \in DOMAIN stack : stack[j].node = <<d>> /\ stack[j].at > 0 /\ <<d>> \in HeldBy(stack[j])
<1>1. PICK j \in DOMAIN stack : stack[j].node = <<d>> /\ stack[j].at > 0
  BY DEF Open, Active
<1>2. d \in Defs /\ isFixpoint(d) /\ isFunDef(<<d>>) /\ definition(<<d>>) = d
  BY DEF Open, isFunDef, definition
<1>3. <<d>> \in HeldBy(stack[j])
  BY <1>1, <1>2 DEF HeldBy
<1>4. <<d>> \in DOMAIN memo /\ memo[<<d>>] \in Unary
  BY <1>2, <1>3, WhileRunning DEF Inv, MemoTyped
<1>5. d \in Known(scc)
  BY <1>1, <1>2 DEF Inv, StackShape, FramesKnown, DefsAt
<1>6. d \in Fixpoints(prog)
  BY <1>2 DEF Fixpoints, isFixpoint
<1>7. Known(scc) \subseteq WellFounded(prog)
  BY WhileRunning DEF SccFits, WellFounded, Known
<1>8. QED
  BY <1>1, <1>3, <1>4, <1>5, <1>6, <1>7

\* The environment of a place is one.
LEMMA EnvTyped ==
  ASSUME Inv, Running, NEW n
  PROVE  /\ Env(n) \in Environments(prog) /\ DOMAIN Env(n) = Open \cap Free(n)
         /\ \A d \in Open \cap Free(n) : Env(n)[d] = memo[<<d>>]
<1>1. DOMAIN Env(n) = Open \cap Free(n) /\ \A d \in Open \cap Free(n) : Env(n)[d] = memo[<<d>>]
  BY DEF Env
<1>2. Env(n) \in [Open \cap Free(n) -> Unary]
  BY OpenKept DEF Env
<1>3. QED
  BY <1>1, <1>2, OpenKept, EnvironmentIs

\* The environment of a place on the stack does not change with a step that
\* leaves the frames below and what they hold.
LEMMA EnvStays ==
  ASSUME Inv, Running, Same, BelowPlaces \subseteq Active',
         \A d \in OpenBelow : memo'[<<d>>] = memo[<<d>>],
         NEW j \in DOMAIN stack, NEW n, n = stack[j].node
  PROVE  Env(n)' = Env(n)
<1>1. BelowPlaces \subseteq Active
  BY ActiveNow
<1>2. j \in Int /\ j >= 1 /\ \A k \in DOMAIN stack : k \in Int
  BY WhileRunning, FrameTyped
<1>3. ASSUME NEW d \in Free(n) PROVE <<d>> \in BelowPlaces
  <2>1. PICK k \in DOMAIN stack : j < k /\ stack[k].node = <<d>>
    BY DEF Inv, StackShape, FreeIsOpen
  <2>2. k > 1
    BY <1>2, <2>1
  <2>3. QED
    BY <2>1, <2>2 DEF BelowPlaces
<1>4. \A d : isFixpoint(d)' = isFixpoint(d)
  BY DEF isFixpoint, Same
<1>5. Free(n)' = Free(n)
  BY SamePlaces
<1>6. \A d \in Free(n) : d \in Open => d \in Open' /\ d \in OpenBelow
  BY <1>1, <1>3, <1>4 DEF Open, OpenBelow
<1>7. \A d \in Free(n) : d \in Open' => d \in Open
  BY <1>1, <1>3, <1>4 DEF Open
<1>8. Open' \cap Free(n) = Open \cap Free(n) /\ \A d \in Open \cap Free(n) : memo'[<<d>>] = memo[<<d>>]
  BY <1>6, <1>7
<1>9. Env(n)' = [d \in Open' \cap Free(n) |-> memo'[<<d>>]]
  BY <1>5 DEF Env
<1>10. QED
  BY <1>8, <1>9 DEF Env

-------------------------------------------------------------------------------
(***************************************************************************)
(* What stays as it means                                                  *)
(***************************************************************************)
\* What a kept predicate is to be, in the environment of its place.
MeantIn(n, e) ==
  IF isFunDef(n) THEN DefMeaningOf(prog, definition(n), e) ELSE MeaningOf(prog, Term(n), e)
MemoEnv(n) == [d \in Open \cap successors(dgr, n) |-> memo[<<d>>]]

\* What is kept means what it has to, said place by place.
LEMMA MemoSoundIs == MemoSound <=> \A n \in DOMAIN memo \ Active : memo[n] = MeantIn(n, MemoEnv(n))
BY DEF MemoSound, MeantIn, MemoEnv

\* What the frames below hold is left as it is.
HeldLeft == \A j \in DOMAIN stack : j > 1 => \A x \in HeldBy(stack[j]) : memo'[x] = memo[x]

\* Their approximations are held.
LEMMA ApproximationsLeft ==
  ASSUME Inv, Running, HeldLeft
  PROVE  \A d \in OpenBelow : memo'[<<d>>] = memo[<<d>>]
<1> SUFFICES ASSUME NEW d \in OpenBelow PROVE memo'[<<d>>] = memo[<<d>>]
  OBVIOUS
<1>1. PICK j \in DOMAIN stack : j > 1 /\ stack[j].node = <<d>>
  BY DEF OpenBelow, BelowPlaces
<1>2. stack[j].at > 0
  BY <1>1, ActiveNow
<1>3. isFunDef(<<d>>) /\ definition(<<d>>) = d /\ isFixpoint(d)
  BY DEF OpenBelow, isFunDef, definition
<1>4. <<d>> \in HeldBy(stack[j])
  BY <1>1, <1>2, <1>3 DEF HeldBy
<1>5. QED
  BY <1>1, <1>4 DEF HeldLeft

\* So the frames below stay sound.
LEMMA FramesBelow ==
  ASSUME Inv, Sound, Running, Same, BelowPlaces \subseteq Active', HeldLeft,
         \A n \in DOMAIN lazy : lazy'[n] = lazy[n],
         NEW j \in DOMAIN stack, j > 1, NEW f, f = stack[j]
  PROVE  HeldSound(f)' /\ RoundSound(f)'
<1> DEFINE n == f.node
<1>1. HeldSound(f) /\ RoundSound(f)
  BY DEF Sound, FramesSound
<1>2. \A d \in OpenBelow : memo'[<<d>>] = memo[<<d>>]
  BY ApproximationsLeft
<1>3. Env(n)' = Env(n)
  BY <1>2, EnvStays
<1>4. /\ \A m : Term(m)' = Term(m) /\ special(m)' = special(m)
      /\ prog' = prog /\ flags' = flags
  BY SamePlaces DEF Same
<1>5. f.at > 0 /\ Settled(lazy, f)
  BY ActiveNow DEF Inv, StackShape, FramesCalled
<1>6. OperandMeans(n, 1)' = OperandMeans(n, 1)
  <2>1. special(n) => lazy'[n] = lazy[n]
    BY <1>5 DEF Settled
  <2> DEFINE arg == IF special(n) THEN child(child(n, 1), 1) ELSE child(n, 1)
  <2>2. OperandMeans(n, 1) =
          IF special(n) /\ 1 \in lazy[n] THEN Standing(prog, Term(arg).sym, Env(n))
          ELSE MeaningOf(prog, Term(arg), Env(n))
    BY DEF OperandMeans
  <2>3. OperandMeans(n, 1)' =
          IF special(n) /\ 1 \in lazy'[n] THEN Standing(prog, Term(arg).sym, Env(n))
          ELSE MeaningOf(prog, Term(arg), Env(n))
    BY <1>3, <1>4 DEF OperandMeans, Standing
  <2>4. QED
    BY <2>1, <2>2, <2>3
<1>7. HeldSound(f)'
  <2>1. f.at >= 2 => memo'[n] = memo[n]
    BY DEF HeldLeft, HeldBy
  <2>2. QED
    BY <1>1, <1>6, <2>1 DEF HeldSound
<1>8. RoundSound(f)'
  <2>1. isFunDef(n) /\ isFixpoint(definition(n)) => memo'[n] = memo[n]
    BY <1>5 DEF HeldLeft, HeldBy
  <2>2. \A d, a, x : After(f, d, a, x)' = After(f, d, a, x)
    BY <1>4 DEF After
  <2>3. \A d : isFixpoint(d)' = isFixpoint(d)
    BY <1>4 DEF isFixpoint
  <2> HIDE DEF n
  <2>4. QED
    BY <1>1, <1>3, <1>4, <2>1, <2>2, <2>3 DEF RoundSound, n, Round
<1>9. QED
  BY <1>7, <1>8

\* So do the predicates that depend on nothing whose iteration begins, goes on
\* or ends.
LEMMA KeptMeans ==
  ASSUME Inv, Sound, Running, Same, BelowPlaces \subseteq Active', HeldLeft,
         NEW n \in DOMAIN memo, n \notin Active', n # t0, memo'[n] = memo[n],
         (Open \cup Open') \cap successors(dgr, n) \subseteq OpenBelow
  PROVE  memo'[n] = MeantIn(n, MemoEnv(n))'
<1>1. n \notin Active
  BY ActiveNow
<1>2. memo[n] = MeantIn(n, MemoEnv(n))
  BY <1>1, MemoSoundIs DEF Sound
<1>3. \A d \in OpenBelow : memo'[<<d>>] = memo[<<d>>]
  BY ApproximationsLeft
<1>4. OpenBelow \subseteq Open /\ OpenBelow \subseteq Open'
  BY OpenNow DEF OpenBelow, Open, isFixpoint, Same
<1>5. Open' \cap successors(dgr, n) = Open \cap successors(dgr, n)
  BY <1>4
<1>6. \A d \in Open \cap successors(dgr, n) : memo'[<<d>>] = memo[<<d>>]
  BY <1>3
<1>7. MemoEnv(n)' = [d \in Open' \cap successors(dgr, n) |-> memo'[<<d>>]]
  BY DEF MemoEnv, Same
<1>8. MemoEnv(n)' = MemoEnv(n)
  BY <1>5, <1>6, <1>7 DEF MemoEnv
<1>9. Term(n)' = Term(n) /\ prog' = prog
  BY SamePlaces DEF Same
<1>10. QED
  BY <1>2, <1>8, <1>9 DEF MeantIn

-------------------------------------------------------------------------------
(***************************************************************************)
(* Settings                                                                *)
(***************************************************************************)
\* The subterm that the handler of a term has called for, or the application
\* whose definition it has called.
PlaceOf(f) ==
  IF special(f.node) THEN child(child(f.node, 1), f.at)
  ELSE IF op(f.node) = "app" THEN f.node ELSE child(f.node, f.at)
Applies(lz, f) == IF special(f.node) THEN f.at \in lz[f.node] ELSE op(f.node) = "app"

\* What a handler calls next is a place, in the setting of its caller.
LEMMA CalledPlace ==
  ASSUME Prepared, NEW lz, NEW f \in FrameSet, ~isFunDef(f.node), Settled(lz, f),
         0 < f.at, f.at <= Calls(f.node)
  PROVE  LET m == PlaceOf(f)
         IN /\ m \in Places /\ ~isFunDef(m) /\ definition(m) = definition(f.node)
            /\ Free(m) \subseteq Free(f.node) /\ DefsAt(m) \subseteq DefsAt(f.node)
            /\ Callee(lz, f) = IF Applies(lz, f) THEN <<Term(m).sym>> ELSE m
            /\ Applies(lz, f) => op(m) = "app"
            /\ ~Applies(lz, f) => Len(m) > Len(f.node) /\ Len(m) \in Nat
<1> DEFINE n == f.node
           i == f.at
<1>1. /\ n \in Places /\ i \in 1 .. Calls(n) /\ Calls(n) \in 0 .. 3
      /\ Len(n) \in Nat /\ op(n) = Term(n).op /\ Term(n) \in AllTerms
  <2>1. n \in Places /\ i \in 0 .. 3
    BY DEF FrameSet
  <2>2. Calls(n) \in 0 .. 3
    BY <2>1, CallsTyped
  <2>3. Len(n) \in Nat /\ op(n) = Term(n).op /\ Term(n) \in AllTerms
    BY <2>1, TermPlace
  <2>4. i \in 1 .. Calls(n)
    BY <2>1, <2>2
  <2>5. QED
    BY <2>1, <2>2, <2>3, <2>4
<1>2. CASE special(n)
  <2>1. i \in {1, 2}
    BY <1>1, <1>2, SpecialPlace, ClassesApart DEF Calls
  <2>2. LET arg == child(child(n, 1), i)
        IN /\ arg \in Places /\ ~isFunDef(arg) /\ definition(arg) = definition(n)
           /\ Len(arg) = Len(n) + 2 /\ Term(arg) \in AllTerms
           /\ DefsAt(arg) \subseteq DefsAt(n) /\ Free(arg) \subseteq Free(n)
    BY <1>1, <1>2, <2>1, SpecialPlace
  <2>3. i \in lz[n] => op(child(child(n, 1), i)) = "app"
    BY <1>1, <1>2 DEF Settled
  <2>4. QED
    BY <1>1, <1>2, <2>2, <2>3 DEF PlaceOf, Applies, Callee
<1>3. CASE ~special(n) /\ op(n) = "app"
  <2>1. Calls(n) = 1
    BY <1>3, ClassesApart DEF Calls
  <2>2. Callee(lz, f) = <<Term(n).sym>>
    BY <1>1, <1>3, <2>1 DEF Callee, operands
  <2>3. QED
    BY <1>1, <1>3, <2>2 DEF PlaceOf, Applies
<1>4. CASE ~special(n) /\ op(n) # "app"
  <2>1. operands(Term(n), n)[i] = child(n, i) /\ i \in DOMAIN Term(n).args /\ i \in Nat
    BY <1>1, <1>4, PlainOperand
  <2>2. LET c == child(n, i)
        IN /\ c \in Places /\ ~isFunDef(c) /\ definition(c) = definition(n)
           /\ Len(c) = Len(n) + 1
           /\ DefsAt(c) \subseteq DefsAt(n) /\ Free(c) \subseteq Free(n)
    BY <1>1, <2>1, ChildPlace
  <2>3. QED
    BY <1>1, <1>4, <2>1, <2>2 DEF PlaceOf, Applies, Callee
<1>5. QED
  BY <1>2, <1>3, <1>4

\* What the preparation has made of the setting of a place.
LEMMA SettingAt ==
  ASSUME Inv, Sound, Running, NEW O, NEW m \in Places, ~isFunDef(m),
         <<definition(m), O>> \in QuerySettings
  PROVE  LET d == Term(m).sym
         IN /\ Cut(prog, DefsIn(Term(m)), O, successors(dgr, m) \cap O)
            /\ op(m) = "app" /\ d \notin O =>
                 /\ <<d, O \cup ({d} \cap Fixpoints(prog))>> \in QuerySettings
                 /\ Cut(prog, {d}, O, successors(dgr, <<d>>) \cap O)
<1>1. SettingsFit(prog, Bodies(query), dgr, Places, QuerySettings)
  BY WhileRunning DEF Sound, SettingsKept
<1>2. op(m) = TermAt(Bodies(query), m).op /\ Term(m) = TermAt(Bodies(query), m)
  BY DEF op, Term
<1> DEFINE s == <<definition(m), O>>
<1>3. s \in QuerySettings /\ s[1] = definition(m) /\ s[2] = O
  OBVIOUS
<1> HIDE DEF s
<1>4. QED
  BY <1>1, <1>2, <1>3 DEF SettingsFit

\* What is open at the top frame.
LEMMA OpenAtTop == ASSUME Inv, Running PROVE OpenAt(stack, 1) = Open
<1>1. \A j \in DOMAIN stack : j >= 1
  BY WhileRunning, FrameTyped
<1>2. QED
  BY <1>1 DEF OpenAt, Open, Active

\* The settings of the frames below stay after a return.
LEMMA SetReturned ==
  ASSUME Inv, Sound, Running, Same, stack' = Tail(stack)
  PROVE  FramesSet'
<1> SUFFICES ASSUME NEW i \in DOMAIN stack' PROVE InSetting(stack, i)'
  BY DEF FramesSet
<1>1. i + 1 \in DOMAIN stack /\ i \in Int /\ stack'[i] = stack[i + 1]
  BY ReturnedStack
<1>2. InSetting(stack, i + 1)
  BY <1>1 DEF Sound, FramesSet
<1>3. OpenAt(stack, i)' = OpenAt(stack, i + 1)
  <2>1. ASSUME NEW j \in DOMAIN stack', j >= i
        PROVE  \E k \in DOMAIN stack : k >= i + 1 /\ stack[k] = stack'[j]
    BY <1>1, <2>1, ReturnedStack
  <2>2. ASSUME NEW k \in DOMAIN stack, k >= i + 1
        PROVE  \E j \in DOMAIN stack' : j >= i /\ stack[k] = stack'[j]
    <3>1. \A j \in DOMAIN stack' : j \in Int /\ j + 1 \in DOMAIN stack
      BY ReturnedStack
    <3>2. i >= 1
      BY <1>1, ReturnedStack
    <3>3. k > 1 /\ k \in Int
      BY <1>1, <2>2, <3>2, ReturnedStack
    <3>4. k - 1 \in DOMAIN stack' /\ stack'[k - 1] = stack[k] /\ k - 1 >= i
      BY <1>1, <2>2, <3>3, ReturnedStack
    <3>5. QED
      BY <3>4
  <2>3. \A d : isFixpoint(d)' = isFixpoint(d)
    BY DEF isFixpoint, Same
  <2>4. OpenAt(stack, i)' =
          {d \in Defs : isFixpoint(d) /\ \E j \in DOMAIN stack' :
                          j >= i /\ stack'[j].node = <<d>> /\ stack'[j].at > 0}
    BY <2>3 DEF OpenAt
  <2>5. ASSUME NEW d
        PROVE  (\E j \in DOMAIN stack' : j >= i /\ stack'[j].node = <<d>> /\ stack'[j].at > 0)
                 <=> \E k \in DOMAIN stack : k >= i + 1 /\ stack[k].node = <<d>> /\ stack[k].at > 0
    <3>1. ASSUME NEW j \in DOMAIN stack', j >= i, stack'[j].node = <<d>>, stack'[j].at > 0
          PROVE  \E k \in DOMAIN stack : k >= i + 1 /\ stack[k].node = <<d>> /\ stack[k].at > 0
      <4>1. PICK k \in DOMAIN stack : k >= i + 1 /\ stack[k] = stack'[j]
        BY <2>1, <3>1
      <4>2. QED
        BY <3>1, <4>1
    <3>2. ASSUME NEW k \in DOMAIN stack, k >= i + 1, stack[k].node = <<d>>, stack[k].at > 0
          PROVE  \E j \in DOMAIN stack' : j >= i /\ stack'[j].node = <<d>> /\ stack'[j].at > 0
      <4>1. PICK j \in DOMAIN stack' : j >= i /\ stack[k] = stack'[j]
        BY <2>2, <3>2
      <4>2. QED
        BY <3>2, <4>1
    <3>3. QED
      BY <3>1, <3>2
  <2>6. OpenAt(stack, i + 1) =
          {d \in Defs : isFixpoint(d) /\ \E k \in DOMAIN stack :
                          k >= i + 1 /\ stack[k].node = <<d>> /\ stack[k].at > 0}
    BY DEF OpenAt
  <2>7. ASSUME NEW d PROVE d \in OpenAt(stack, i)' <=> d \in OpenAt(stack, i + 1)
    <3>1. d \in OpenAt(stack, i)' <=>
            d \in Defs /\ isFixpoint(d) /\ \E j \in DOMAIN stack' :
              j >= i /\ stack'[j].node = <<d>> /\ stack'[j].at > 0
      BY <2>4
    <3>2. d \in OpenAt(stack, i + 1) <=>
            d \in Defs /\ isFixpoint(d) /\ \E k \in DOMAIN stack :
              k >= i + 1 /\ stack[k].node = <<d>> /\ stack[k].at > 0
      BY <2>6
    <3>3. QED
      BY <2>5, <3>1, <3>2
  <2>8. OpenAt(stack, i)' \subseteq OpenAt(stack, i + 1)
    BY <2>7
  <2>9. OpenAt(stack, i + 1) \subseteq OpenAt(stack, i)'
    BY <2>7
  <2>10. QED
    BY <2>8, <2>9
<1>4. prog' = prog /\ query' = query
  BY DEF Same
<1>5. QED
  BY <1>1, <1>2, <1>3, <1>4 DEF InSetting, QuerySettings, Fixpoints

\* The settings of a frame that has called and of the one it has called.
LEMMA SetCalled ==
  ASSUME Inv, Sound, Running, Same,
         NEW f \in FrameSet, f.node = t0, 0 < f.at, f.at <= Calls(f.node), Settled(lazy', f),
         isFunDef(t0) => t0 \notin BelowPlaces,
         stack' = <<Frame(Callee(lazy', f)), f>> \o Tail(stack)
  PROVE  FramesSet'
<1> DEFINE c == Callee(lazy', f)
           s == stack'
           b == definition(t0)
           O == OpenBelow \cup {d \in Defs : t0 = <<d>> /\ isFixpoint(d)}
<1>1. /\ Prepared /\ t0 \in Places /\ 1 \in DOMAIN stack /\ stack[1] = top /\ top.node = t0
      /\ \A d : isFixpoint(d)' = isFixpoint(d)
      /\ prog' = prog /\ query' = query /\ QuerySettings' = QuerySettings
      /\ Fixpoints(prog) = {d \in Defs : isFixpoint(d)}
  BY WhileRunning DEF top, t0, isFixpoint, Same, QuerySettings, Fixpoints
<1>2. /\ 1 \in DOMAIN s /\ 2 \in DOMAIN s /\ s[1] = Frame(c) /\ s[2] = f
      /\ \A j \in DOMAIN s :
           /\ j \in Int
           /\ \/ j = 1
              \/ j = 2
              \/ j - 1 \in DOMAIN stack /\ j - 1 > 1 /\ s[j] = stack[j - 1]
      /\ \A j \in DOMAIN stack :
           j \in Int /\ (j > 1 => j + 1 \in DOMAIN s /\ j + 1 > 2 /\ s[j + 1] = stack[j])
  BY CalledStack
<1>3. Frame(c).at = 0 /\ Frame(c).node = c
  BY DEF Frame
<1>4. \A j \in DOMAIN stack : j > 1 => stack[j].at > 0
  BY ActiveNow
<1> HIDE DEF c, s
<1>5. \A i \in {1, 2} : OpenAt(s, i) = O
  <2>1. ASSUME NEW i \in {1, 2}, NEW d \in Defs, NEW j \in DOMAIN s, j >= i, s[j].node = <<d>>, s[j].at > 0
        PROVE  <<d>> \in BelowPlaces \/ t0 = <<d>>
    <3>1. j # 1
      BY <1>2, <1>3, <2>1
    <3>2. CASE j = 2
      BY <1>2, <2>1, <3>2
    <3>3. CASE j - 1 \in DOMAIN stack /\ j - 1 > 1 /\ s[j] = stack[j - 1]
      BY <2>1, <3>3 DEF BelowPlaces
    <3>4. QED
      BY <1>2, <3>1, <3>2, <3>3
  <2>2. ASSUME NEW i \in {1, 2}, NEW d \in Defs, <<d>> \in BelowPlaces \/ t0 = <<d>>
        PROVE  \E j \in DOMAIN s : j >= i /\ s[j].node = <<d>> /\ s[j].at > 0
    <3>1. CASE t0 = <<d>>
      <4>1. 2 \in DOMAIN s /\ 2 >= i /\ s[2].node = <<d>> /\ s[2].at > 0
        BY <1>2, <3>1
      <4>2. QED
        BY <4>1
    <3>2. CASE <<d>> \in BelowPlaces
      <4>1. PICK j \in DOMAIN stack : j > 1 /\ stack[j].node = <<d>>
        BY <3>2 DEF BelowPlaces
      <4>2. j + 1 \in DOMAIN s /\ j + 1 >= i /\ s[j + 1].node = <<d>> /\ s[j + 1].at > 0
        BY <1>2, <1>4, <4>1
      <4>3. QED
        BY <4>2
    <3>3. QED
      BY <2>2, <3>1, <3>2
  <2>3. QED
    BY <2>1, <2>2 DEF OpenAt, OpenBelow
<1>6. \A i \in DOMAIN s : i - 1 \in DOMAIN stack /\ i - 1 > 1 /\ s[i] = stack[i - 1]
        => OpenAt(s, i) = OpenAt(stack, i - 1)
  <2> SUFFICES ASSUME NEW i \in DOMAIN s, i - 1 \in DOMAIN stack, i - 1 > 1, NEW d
               PROVE  (\E j \in DOMAIN s : j >= i /\ s[j].node = <<d>> /\ s[j].at > 0)
                        <=> \E k \in DOMAIN stack : k >= i - 1 /\ stack[k].node = <<d>> /\ stack[k].at > 0
    BY DEF OpenAt
  <2>1. i \in Int /\ i > 2
    BY <1>2
  <2>2. ASSUME NEW j \in DOMAIN s, j >= i, s[j].node = <<d>>, s[j].at > 0
        PROVE  \E k \in DOMAIN stack : k >= i - 1 /\ stack[k].node = <<d>> /\ stack[k].at > 0
    <3>1. j \in Int /\ j # 1 /\ j # 2
      BY <1>2, <2>1, <2>2
    <3>2. j - 1 \in DOMAIN stack /\ s[j] = stack[j - 1] /\ j - 1 >= i - 1
      BY <1>2, <2>1, <2>2, <3>1
    <3>3. QED
      BY <2>2, <3>2
  <2>3. ASSUME NEW k \in DOMAIN stack, k >= i - 1, stack[k].node = <<d>>, stack[k].at > 0
        PROVE  \E j \in DOMAIN s : j >= i /\ s[j].node = <<d>> /\ s[j].at > 0
    <3>1. k \in Int /\ k > 1
      BY <1>2, <2>1, <2>3
    <3>2. k + 1 \in DOMAIN s /\ s[k + 1] = stack[k] /\ k + 1 >= i
      BY <1>2, <2>1, <2>3, <3>1
    <3>3. QED
      BY <2>3, <3>2
  <2>4. QED
    BY <2>2, <2>3
<1>7. <<b, O>> \in QuerySettings
  <2>1. InSetting(stack, 1) /\ OpenAt(stack, 1) = Open
    BY <1>1, OpenAtTop DEF Sound, FramesSet
  <2>2. CASE ~isFunDef(t0)
    <3>1. \A d : t0 # <<d>>
      BY <2>2 DEF isFunDef
    <3>2. Open = O
      BY <2>2, <3>1, OpenNow
    <3>3. QED
      BY <1>1, <2>1, <2>2, <3>2 DEF InSetting
  <2>3. CASE isFunDef(t0)
    <3>1. t0 = <<b>> /\ b \in Defs /\ b = d0
      BY <1>1, <2>3, DefPlace DEF d0
    <3>2. O = OpenBelow \cup ({b} \cap Fixpoints(prog))
      <4>1. \A d : t0 = <<d>> <=> d = b
        BY <3>1
      <4>2. QED
        BY <1>1, <4>1
    <3>3. b \notin OpenBelow
      BY <2>3, <3>1 DEF OpenBelow
    <3>4. CASE top.at = 0
      <4>1. Open = OpenBelow
        <5>1. ~(top.at > 0)
          BY <3>4
        <5>2. QED
          BY <5>1, OpenNow
      <4>2. <<b, OpenBelow \cup ({b} \cap Fixpoints(prog))>> \in QuerySettings
        BY <1>1, <2>1, <2>3, <3>3, <3>4, <4>1 DEF InSetting
      <4>3. QED
        BY <3>2, <4>2
    <3>5. CASE top.at # 0
      <4>1. top.at > 0
        BY <3>5, WhileRunning
      <4>2. Open = O
        <5>1. b \in Fixpoints(prog) <=> isFixpoint(b)
          BY <1>1, <3>1
        <5>2. QED
          BY <2>3, <3>1, <3>2, <4>1, <5>1, OpenNow
      <4>3. QED
        BY <1>1, <2>1, <3>5, <4>2 DEF InSetting
    <3>6. QED
      BY <3>4, <3>5
  <2>4. QED
    BY <2>2, <2>3
<1>8. ~isFunDef(c) => definition(c) = b
  <2>1. CASE isFunDef(t0)
    BY <1>1, <2>1, DefPlace DEF c, Callee
  <2>2. CASE ~isFunDef(t0)
    BY <1>1, <2>2, CalledPlace DEF c, isFunDef
  <2>3. QED
    BY <2>1, <2>2
<1>9. isFunDef(c) => LET d == definition(c)
                     IN d \in O \/ <<d, O \cup ({d} \cap Fixpoints(prog))>> \in QuerySettings
  <2> SUFFICES ASSUME isFunDef(c)
               PROVE  LET d == definition(c)
                      IN d \in O \/ <<d, O \cup ({d} \cap Fixpoints(prog))>> \in QuerySettings
    OBVIOUS
  <2>1. ~isFunDef(t0)
    BY <1>1, DefPlace DEF c, Callee
  <2> DEFINE m == PlaceOf(f)
  <2>2. /\ m \in Places /\ ~isFunDef(m) /\ definition(m) = b
        /\ c = <<Term(m).sym>> /\ op(m) = "app"
    BY <1>1, <2>1, CalledPlace DEF c
  <2> HIDE DEF m
  <2>3. definition(c) = Term(m).sym
    BY <2>2 DEF definition
  <2>4. QED
    BY <1>7, <2>2, <2>3, SettingAt
<1>10. SUFFICES ASSUME NEW i \in DOMAIN s PROVE InSetting(stack, i)'
  BY DEF FramesSet, s
<1>11. OpenAt(stack, i)' = OpenAt(s, i)
  BY <1>1 DEF OpenAt, s
<1>12. InSetting(stack, i)' <=>
         LET n == s[i].node
             d == definition(n)
         IN IF isFunDef(n) /\ s[i].at = 0
            THEN d \in OpenAt(s, i) \/ <<d, OpenAt(s, i) \cup ({d} \cap Fixpoints(prog))>> \in QuerySettings
            ELSE <<d, OpenAt(s, i)>> \in QuerySettings
  BY <1>1, <1>11 DEF InSetting, s
<1>13. CASE i = 1
  BY <1>2, <1>3, <1>5, <1>7, <1>8, <1>9, <1>12, <1>13
<1>14. CASE i = 2
  <2>1. s[i] = f /\ f.at # 0 /\ OpenAt(s, i) = O
    BY <1>2, <1>5, <1>14 DEF FrameSet
  <2>2. QED
    BY <1>7, <1>12, <2>1
<1>15. CASE i - 1 \in DOMAIN stack /\ i - 1 > 1 /\ s[i] = stack[i - 1]
  <2>1. InSetting(stack, i - 1)
    BY <1>15 DEF Sound, FramesSet
  <2>2. QED
    BY <1>6, <1>12, <1>15, <2>1 DEF InSetting
<1>16. QED
  BY <1>2, <1>13, <1>14, <1>15

-------------------------------------------------------------------------------
(***************************************************************************)
(* Returns and calls keep what is sound                                    *)
(***************************************************************************)
\* The parts that a step of the evaluation leaves as they are.
LEMMA SettingsStay ==
  ASSUME Inv, Sound, Running, Same, answer' = answer
  PROVE  SettingsKept' /\ FrontierKept'
<1>1. /\ prog' = prog /\ query' = query /\ dgr' = dgr /\ flags' = flags
      /\ Bodies(query)' = Bodies(query) /\ Places' = Places /\ QuerySettings' = QuerySettings
  BY SamePlaces DEF Same, QuerySettings
<1>2. answer = Asked
  BY WhileRunning
<1>3. SettingsFit(prog, Bodies(query), dgr, Places, QuerySettings)
  BY <1>2 DEF Sound, SettingsKept
<1>4. SettingsFit(prog, Bodies(query), dgr, Places, QuerySettings)'
      <=> SettingsFit(prog, Bodies(query), dgr, Places, QuerySettings)
  BY <1>1 DEF SettingsFit
<1>5. SettingsKept'
  BY <1>3, <1>4 DEF SettingsKept
<1>6. FrontierKept'
  BY <1>1 DEF Sound, FrontierKept
<1>7. QED
  BY <1>5, <1>6

\* A cache that gets only what a definition with a component stands for.
LEMMA CacheStays ==
  ASSUME Inv, Sound, Running, Same, answer' = answer,
         \A d \in DOMAIN cache' :
           \/ d \in DOMAIN cache /\ cache'[d] = cache[d]
           \/ d \in Known(scc) /\ cache'[d] = DefMeaningOf(prog, d, <<>>)
  PROVE  CacheSound'
<1>1. answer = Asked /\ Asked # Rejected
  BY WhileRunning DEF Asked, Rejected
<1>2. \A d \in DOMAIN cache : d \in Known(scc) /\ cache[d] = DefMeaningOf(prog, d, <<>>)
  BY <1>1 DEF Sound, CacheSound
<1>3. Known(scc)' = Known(scc) /\ prog' = prog
  BY DEF Same, Known
<1>4. QED
  BY <1>2, <1>3 DEF CacheSound

\* What the innermost handler is to keep.
Meant(n) == MeantIn(n, Env(n))

\* Once its handler has returned, the place is no longer under evaluation.
LEMMA ReturnedMeans ==
  ASSUME Inv, Running, Same, BelowPlaces = Active', HeldLeft, NEW n, n = t0, n \notin BelowPlaces
  PROVE  MemoEnv(n)' = Env(n)
<1>1. 1 \in DOMAIN stack /\ n = stack[1].node
  BY WhileRunning DEF t0, top
<1>2. \A d \in OpenBelow : memo'[<<d>>] = memo[<<d>>]
  BY ApproximationsLeft
<1>3. Env(n)' = Env(n)
  BY <1>1, <1>2, EnvStays
<1>4. isFunDef(n) => n = <<definition(n)>>
  BY WhileRunning, DefPlace
<1>5. definition(n) \notin Open' \/ ~isFunDef(n)
  BY <1>4 DEF Open
<1>6. Open' \cap Free(n)' = Open' \cap successors(dgr', n)
  BY <1>5 DEF Free
<1>7. MemoEnv(n)' = Env(n)'
  BY <1>6 DEF MemoEnv, Env
<1>8. QED
  BY <1>3, <1>7

\* A handler returns, having kept what its term means.
LEMMA SoundReturn ==
  ASSUME Inv, Sound, Running, Same, answer' = answer, lazy' = lazy, CacheSound',
         stack' = Tail(stack),
         \A n \in DOMAIN memo' : n # t0 => n \in DOMAIN memo /\ memo'[n] = memo[n],
         \A n \in DOMAIN memo' : n # t0 => Open \cap successors(dgr, n) \subseteq OpenBelow,
         HeldLeft,
         t0 \in BelowPlaces \/ memo'[t0] = Meant(t0)
  PROVE  Sound'
<1>1. Active' = BelowPlaces
  BY ActiveReturned
<1>2. FramesSet'
  BY SetReturned
<1>3. SettingsKept' /\ FrontierKept'
  BY SettingsStay
<1>4. FramesSound'
  <2> SUFFICES ASSUME NEW i \in DOMAIN stack', NEW f, f = stack'[i]
               PROVE  HeldSound(f)' /\ RoundSound(f)'
    BY DEF FramesSound
  <2>1. i + 1 \in DOMAIN stack /\ i + 1 > 1 /\ f = stack[i + 1]
    BY ReturnedStack
  <2>2. QED
    BY <1>1, <2>1, FramesBelow
<1>5. \A d : isFixpoint(d)' = isFixpoint(d)
  BY DEF isFixpoint, Same
<1>6. Open' = OpenBelow
  BY <1>1, <1>5 DEF Open, OpenBelow
<1>7. MemoSound'
  <2> SUFFICES ASSUME NEW n \in DOMAIN memo', n \notin Active'
               PROVE  memo'[n] = MeantIn(n, MemoEnv(n))'
    BY DEF MemoSound, MeantIn, MemoEnv
  <2>1. CASE n = t0
    <3>1. MemoEnv(n)' = Env(n)
      BY <1>1, <2>1, ReturnedMeans
    <3>2. memo'[n] = MeantIn(n, Env(n))
      BY <1>1, <2>1 DEF Meant
    <3>3. Term(n)' = Term(n) /\ prog' = prog
      BY SamePlaces DEF Same
    <3>4. QED
      BY <3>1, <3>2, <3>3 DEF MeantIn
  <2>2. CASE n # t0
    <3>1. (Open \cup Open') \cap successors(dgr, n) \subseteq OpenBelow
      BY <1>6, <2>2
    <3>2. n \in DOMAIN memo /\ memo'[n] = memo[n]
      BY <2>2
    <3>3. QED
      BY <1>1, <2>2, <3>1, <3>2, KeptMeans
  <2>3. QED
    BY <2>1, <2>2
<1>8. QED
  BY <1>2, <1>3, <1>4, <1>7 DEF Sound

\* A handler goes on as frame f, and calls another.
LEMMA SoundCall ==
  ASSUME Inv, Sound, Running, Same, answer' = answer, cache' = cache,
         \A n \in DOMAIN lazy : lazy'[n] = lazy[n],
         NEW f \in FrameSet, f.node = t0, 0 < f.at, f.at <= Calls(f.node), Settled(lazy', f),
         t0 \notin BelowPlaces,
         stack' = <<Frame(Callee(lazy', f)), f>> \o Tail(stack),
         \A n \in DOMAIN memo' : n # t0 => n \in DOMAIN memo /\ memo'[n] = memo[n],
         \A n \in DOMAIN memo' : n # t0 =>
           \A d \in Open \cap successors(dgr, n) : d \in OpenBelow,
         \A n \in DOMAIN memo' : n # t0 =>
           \A d \in successors(dgr, n) : t0 = <<d>> => ~isFixpoint(d),
         HeldLeft, HeldSound(f)', RoundSound(f)'
  PROVE  Sound'
<1>1. Active' = BelowPlaces \cup {t0}
  BY ActiveCalled
<1>2. FramesSet'
  BY SetCalled
<1>3. SettingsKept' /\ FrontierKept' /\ CacheSound'
  BY SettingsStay, CacheStays DEF Sound, CacheSound
<1>4. FramesSound'
  <2> SUFFICES ASSUME NEW i \in DOMAIN stack', NEW g, g = stack'[i]
               PROVE  HeldSound(g)' /\ RoundSound(g)'
    BY DEF FramesSound
  <2> DEFINE c == Callee(lazy', f)
  <2>0. stack' = <<Frame(c), f>> \o Tail(stack)
    OBVIOUS
  <2> HIDE DEF c
  <2>1. /\ stack'[1] = Frame(c) /\ stack'[2] = f
        /\ i = 1 \/ i = 2 \/ (i - 1 \in DOMAIN stack /\ i - 1 > 1 /\ stack'[i] = stack[i - 1])
    <3>1. /\ stack'[1] = Frame(c) /\ stack'[2] = f
          /\ \A j \in DOMAIN stack' :
               \/ j = 1
               \/ j = 2
               \/ j - 1 \in DOMAIN stack /\ j - 1 > 1 /\ stack'[j] = stack[j - 1]
      BY <2>0, CalledStack
    <3>2. QED
      BY <3>1
  <2>2. CASE i = 1
    <3>1. g.at = 0
      BY <2>1, <2>2 DEF Frame
    <3>2. ~(g.at >= 2) /\ ~(g.at > 0)
      BY <3>1
    <3>3. HeldSound(g)'
      BY <3>2 DEF HeldSound
    <3>4. RoundSound(g)'
      BY <3>2 DEF RoundSound
    <3>5. QED
      BY <3>3, <3>4
  <2>3. CASE i = 2
    BY <2>1, <2>3
  <2>4. CASE i - 1 \in DOMAIN stack /\ i - 1 > 1 /\ stack'[i] = stack[i - 1]
    BY <1>1, <2>4, FramesBelow
  <2>5. QED
    BY <2>1, <2>2, <2>3, <2>4
<1>5. \A d : isFixpoint(d)' = isFixpoint(d)
  BY DEF isFixpoint, Same
<1>6. \A d \in Open' : d \in OpenBelow \/ (t0 = <<d>> /\ isFixpoint(d))
  BY <1>1, <1>5 DEF Open, OpenBelow
<1>7. MemoSound'
  <2> SUFFICES ASSUME NEW n \in DOMAIN memo', n \notin Active'
               PROVE  memo'[n] = MeantIn(n, MemoEnv(n))'
    BY DEF MemoSound, MeantIn, MemoEnv
  <2>1. n # t0
    BY <1>1
  <2>2. (Open \cup Open') \cap successors(dgr, n) \subseteq OpenBelow
    BY <1>6, <2>1
  <2>3. n \in DOMAIN memo /\ memo'[n] = memo[n]
    BY <2>1
  <2>4. QED
    BY <1>1, <2>1, <2>2, <2>3, KeptMeans
<1>8. QED
  BY <1>2, <1>3, <1>4, <1>7 DEF Sound

-------------------------------------------------------------------------------
(***************************************************************************)
(* The predicates of operands                                              *)
(***************************************************************************)
\* What the top frame leads to has a component, and is well founded.
LEMMA TopKnown ==
  ASSUME Inv, Running
  PROVE  DefsAt(t0) \subseteq Known(scc) /\ Known(scc) \subseteq WellFounded(prog)
<1>1. 1 \in DOMAIN stack /\ stack[1].node = t0
  BY WhileRunning DEF t0, top
<1>2. DefsAt(t0) \subseteq Known(scc)
  BY <1>1 DEF Inv, StackShape, FramesKnown
<1>3. QED
  BY <1>2, WhileRunning DEF SccFits, WellFounded, Known

\* The setting of the top frame.
LEMMA TopSetting ==
  ASSUME Inv, Sound, Running, ~isFunDef(t0) \/ top.at > 0
  PROVE  <<definition(t0), Open>> \in QuerySettings
<1>1. 1 \in DOMAIN stack /\ stack[1] = top /\ top.node = t0
  BY WhileRunning DEF t0, top
<1>2. InSetting(stack, 1) /\ OpenAt(stack, 1) = Open
  BY <1>1, OpenAtTop DEF Sound, FramesSet
<1>3. ~(isFunDef(t0) /\ top.at = 0)
  OBVIOUS
<1>4. QED
  BY <1>1, <1>2, <1>3 DEF InSetting

\* Environments that agree where all paths to open definitions lead to first.
LEMMA CutAlike ==
  ASSUME NEW p, NEW T \in SUBSET WellFounded(p), NEW e, NEW f, NEW O, NEW D,
         DOMAIN e \subseteq O, DOMAIN f \subseteq O, Cut(p, T, O, D), p \in Programs,
         \A d \in D : d \in DOMAIN e /\ d \in DOMAIN f /\ e[d] = f[d]
  PROVE  Alike(p, p, e, f, T)
<1>1. PICK W \in SUBSET Defs :
        /\ W \cap O = {}
        /\ T \subseteq W \cup D
        /\ \A d \in W : DefsIn(p[d].body) \subseteq W \cup D
  BY DEF Cut
<1> DEFINE V == W \cap WellFounded(p)
<1>2. V \in SUBSET (WellFounded(p) \cap WellFounded(p)) /\ D \in SUBSET (DOMAIN e \cap DOMAIN f)
  OBVIOUS
<1>3. V \cap (DOMAIN e \cup DOMAIN f) = {}
  BY <1>1
<1>4. \A d \in V : p[d] = p[d] /\ DefsIn(p[d].body) \subseteq V \cup D
  BY <1>1, WellFoundedBodies
<1>5. T \subseteq V \cup D
  BY <1>1
<1>6. \A d \in D : e[d] = f[d]
  OBVIOUS
<1> HIDE DEF V
<1>7. QED
  BY <1>2, <1>3, <1>4, <1>5, <1>6 DEF Alike

\* The environment of a kept predicate is one.
LEMMA MemoEnvTyped ==
  ASSUME Inv, Running, NEW n
  PROVE  /\ MemoEnv(n) \in Environments(prog) /\ DOMAIN MemoEnv(n) = Open \cap successors(dgr, n)
         /\ \A d \in Open \cap successors(dgr, n) : MemoEnv(n)[d] = memo[<<d>>]
<1>1. /\ DOMAIN MemoEnv(n) = Open \cap successors(dgr, n)
      /\ \A d \in Open \cap successors(dgr, n) : MemoEnv(n)[d] = memo[<<d>>]
  BY DEF MemoEnv
<1>2. MemoEnv(n) \in [Open \cap successors(dgr, n) -> Unary]
  BY OpenKept DEF MemoEnv
<1>3. QED
  BY <1>1, <1>2, OpenKept, EnvironmentIs

\* An environment knows what place m depends on.
Knows(e, m) == \A d \in Open \cap successors(dgr, m) : d \in DOMAIN e /\ e[d] = memo[<<d>>]

\* The predicate of a subterm is what it means where it is used.
LEMMA PlaceValue ==
  ASSUME Inv, Sound, Running, NEW m \in Places, ~isFunDef(m), <<definition(m), Open>> \in QuerySettings,
         DefsAt(m) \subseteq Known(scc), m \in DOMAIN memo, m \notin Active,
         NEW e \in Environments(prog), DOMAIN e \subseteq Open, Knows(e, m)
  PROVE  memo[m] = MeaningOf(prog, Term(m), e)
<1> DEFINE f == MemoEnv(m)
           t == Term(m)
           D == successors(dgr, m) \cap Open
<1>1. memo[m] = MeaningOf(prog, t, f)
  BY MemoSoundIs DEF Sound, MeantIn
<1>2. /\ f \in Environments(prog) /\ DOMAIN f = Open \cap successors(dgr, m)
      /\ \A d \in Open \cap successors(dgr, m) : f[d] = memo[<<d>>]
  BY MemoEnvTyped
<1>3. Cut(prog, DefsIn(t), Open, D)
  BY SettingAt
<1>4. prog \in Programs /\ t \in Legal(prog) /\ DefsIn(t) \subseteq WellFounded(prog)
  <2>1. Prepared
    BY WhileRunning
  <2>2. t \in AllTerms
    BY <2>1, TermPlace
  <2>3. DefsIn(t) \subseteq WellFounded(prog)
    BY TopKnown DEF DefsAt
  <2>4. QED
    BY <2>1, <2>2, <2>3 DEF Legal, Prepared
<1>5. \A d \in D : d \in DOMAIN f /\ d \in DOMAIN e /\ f[d] = e[d]
  BY <1>2 DEF Knows
<1> HIDE DEF f, t, D
<1>6. DOMAIN f \subseteq Open
  BY <1>2
<1>7. Alike(prog, prog, f, e, DefsIn(t))
  BY <1>3, <1>4, <1>5, <1>6, CutAlike
<1>8. MeaningOf(prog, t, f) = MeaningOf(prog, t, e)
  BY <1>2, <1>4, <1>7, Coincidence
<1>9. QED
  BY <1>1, <1>8 DEF t

\* The predicate of a definition is what it stands for where it is applied.
LEMMA DefValue ==
  ASSUME Inv, Sound, Running, NEW m \in Places, ~isFunDef(m), <<definition(m), Open>> \in QuerySettings,
         DefsAt(m) \subseteq Known(scc), op(m) = "app",
         NEW d, d = Term(m).sym, <<d>> \in DOMAIN memo, <<d>> \in Active => d \in Open,
         \A c \in successors(dgr, m) : <<c>> \in Active,
         NEW e \in Environments(prog), DOMAIN e \subseteq Open, Knows(e, m)
  PROVE  memo[<<d>>] = Standing(prog, d, e)
<1>1. Prepared /\ prog \in Programs
  BY WhileRunning DEF Prepared
<1>2. d \in DefsIn(Term(m)) /\ d \in Known(scc) /\ d \in WellFounded(prog) /\ d \in Defs
  <2>1. d \in DefsAt(m)
    BY <1>1, TermPlace
  <2>2. QED
    BY <2>1, TopKnown DEF DefsAt, Known
<1>3. Cut(prog, DefsIn(Term(m)), Open, successors(dgr, m) \cap Open)
  BY SettingAt
<1>4. CASE d \in Open
  <2>1. d \in successors(dgr, m)
    BY <1>2, <1>3, <1>4 DEF Cut
  <2>2. QED
    BY <1>4, <2>1 DEF Knows, Standing
<1>5. CASE d \notin Open
  <2> DEFINE n == <<d>>
             f == MemoEnv(n)
             D == successors(dgr, n) \cap Open
  <2>1. n \in DOMAIN memo \ Active /\ isFunDef(n) /\ definition(n) = d
    BY <1>5 DEF isFunDef, definition
  <2>2. memo[n] = DefMeaningOf(prog, d, f)
    BY <2>1, MemoSoundIs DEF Sound, MeantIn
  <2>3. /\ f \in Environments(prog) /\ DOMAIN f = Open \cap successors(dgr, n)
        /\ \A c \in Open \cap successors(dgr, n) : f[c] = memo[<<c>>]
    BY MemoEnvTyped
  <2>4. Cut(prog, {d}, Open, D)
    BY <1>5, SettingAt
  <2>5. Free(n) \subseteq Free(m) \/ d \in Free(m)
    BY <1>1, TermPlace
  <2>6. d \notin successors(dgr, m)
    BY <1>5
  <2>7. D \subseteq successors(dgr, m)
    BY <1>5, <2>1, <2>5, <2>6 DEF Free
  <2>8. \A c \in D : c \in DOMAIN f /\ c \in DOMAIN e /\ f[c] = e[c]
    BY <2>3, <2>7 DEF Knows
  <2> HIDE DEF n, f, D
  <2>9. DOMAIN f \subseteq Open
    BY <2>3
  <2>10. Alike(prog, prog, f, e, {d})
    BY <1>1, <1>2, <2>4, <2>8, <2>9, CutAlike
  <2>11. Standing(prog, d, f) = Standing(prog, d, e)
    BY <1>1, <2>3, <2>10, DefCoincidence
  <2>12. QED
    BY <1>5, <2>2, <2>9, <2>11 DEF Standing, n
<1>6. QED
  BY <1>4, <1>5

\* The environment of the term that is evaluated knows what its subterms need.
LEMMA TopKnows ==
  ASSUME Inv, Running, ~isFunDef(t0), NEW m, ~isFunDef(m), Free(m) \subseteq Free(t0)
  PROVE  /\ Knows(Env(t0), m) /\ Env(t0) \in Environments(prog) /\ DOMAIN Env(t0) \subseteq Open
         /\ \A c \in successors(dgr, m) : <<c>> \in Active
<1>1. successors(dgr, m) \subseteq Free(t0)
  BY DEF Free
<1>2. 1 \in DOMAIN stack /\ stack[1].node = t0
  BY WhileRunning DEF t0, top
<1>3. ASSUME NEW c \in Free(t0) PROVE <<c>> \in Active
  <2>1. PICK j \in DOMAIN stack : 1 < j /\ stack[j].node = <<c>>
    BY <1>2 DEF Inv, StackShape, FreeIsOpen
  <2>2. QED
    BY <2>1, ActiveNow, FrameTyped, WhileRunning DEF BelowPlaces
<1>4. QED
  BY <1>1, <1>3, EnvTyped DEF Knows

\* A definition that is no fixpoint is not evaluated again within itself.
LEMMA PlainNotActive ==
  ASSUME Inv, Running, ~isFunDef(t0), NEW d \in DefsAt(t0), <<d>> \in Active
  PROVE  d \in Open
<1>1. d \in Known(scc) /\ d \in Defs
  BY TopKnown DEF Known
<1>2. isFunDef(<<d>>) /\ definition(<<d>>) = d /\ <<d>> # t0
  BY DEF isFunDef, definition
<1>3. SUFFICES ASSUME ~isFixpoint(d) PROVE FALSE
  BY <1>1 DEF Open
<1>4. PICK j \in DOMAIN stack : j > 1 /\ stack[j].node = <<d>>
  BY <1>2, ActiveNow DEF BelowPlaces
<1>5. SccFits(prog, scc) /\ prog \in Programs /\ 1 \in DOMAIN stack /\ stack[1].node = t0
  BY WhileRunning DEF Prepared, t0, top
<1>6. prog[d].kind = "def"
  <2>1. prog \in [Defs -> [kind : {"def", "mu", "nu"}, body : ParameterTerms]]
    BY <1>5, ProgramsAssumption
  <2>2. QED
    BY <1>1, <1>3, <2>1 DEF isFixpoint
<1>7. PICK X \in SUBSET Defs : d \notin X /\ DefsIn(prog[d].body) \subseteq X /\ ClosedIn(prog, X)
  BY <1>1, <1>5, <1>6 DEF SccFits, Founded
<1>8. DefsAt(t0) \subseteq X
  BY <1>2, <1>4, <1>5, <1>7 DEF Inv, StackShape, FramesLead
<1>9. QED
  BY <1>7, <1>8

\* A subterm of the term whose handler runs is not under evaluation itself.
LEMMA SubtermValue ==
  ASSUME Inv, Sound, Running, ~isFunDef(t0), NEW m \in Places, ~isFunDef(m),
         definition(m) = definition(t0), Free(m) \subseteq Free(t0), DefsAt(m) \subseteq DefsAt(t0),
         Len(m) \in Nat, Len(m) > Len(t0), m \in DOMAIN memo
  PROVE  memo[m] = MeaningOf(prog, Term(m), Env(t0))
<1>1. m \notin Active
  <2>1. m # t0
    BY WhileRunning, TermPlace
  <2>2. \A j \in DOMAIN stack : j > 1 => m # stack[j].node
    BY TopTerm
  <2>3. QED
    BY <2>1, <2>2, ActiveNow DEF BelowPlaces
<1>2. <<definition(m), Open>> \in QuerySettings
  BY TopSetting
<1>3. DefsAt(m) \subseteq Known(scc)
  BY TopKnown
<1>4. QED
  BY <1>1, <1>2, <1>3, TopKnows, PlaceValue

\* What the handler of a term has called for last has returned what it means.
LEMMA OperandValue ==
  ASSUME Inv, Sound, Running, ~isFunDef(t0), top.at > 0
  PROVE  LET m == PlaceOf(top)
         IN memo[operand(t0, top.at)] =
              IF Applies(lazy, top) THEN Standing(prog, Term(m).sym, Env(t0))
              ELSE MeaningOf(prog, Term(m), Env(t0))
<1> DEFINE m == PlaceOf(top)
<1>1. /\ Prepared /\ top \in FrameSet /\ top.at <= Calls(t0) /\ 1 \in DOMAIN stack /\ stack[1] = top
      /\ top.node = t0 /\ t0 \in Places
  BY WhileRunning DEF top, t0
<1>2. Settled(lazy, top)
  BY <1>1 DEF Inv, StackShape, FramesCalled
<1>3. operand(t0, top.at) = Callee(lazy, top)
  BY <1>1, <1>2, OperandIs DEF Settled
<1>4. /\ m \in Places /\ ~isFunDef(m) /\ definition(m) = definition(t0)
      /\ Free(m) \subseteq Free(t0) /\ DefsAt(m) \subseteq DefsAt(t0)
      /\ Callee(lazy, top) = IF Applies(lazy, top) THEN <<Term(m).sym>> ELSE m
      /\ Applies(lazy, top) => op(m) = "app"
      /\ ~Applies(lazy, top) => Len(m) > Len(t0) /\ Len(m) \in Nat
  BY <1>1, <1>2, CalledPlace
<1> HIDE DEF m
<1>5. Callee(lazy, top) \in DOMAIN memo
  BY DEF Inv, CalleeKept, valid
<1>6. CASE ~Applies(lazy, top)
  BY <1>3, <1>4, <1>5, <1>6, SubtermValue DEF m
<1>7. CASE Applies(lazy, top)
  <2> DEFINE d == Term(m).sym
  <2>1. d \in DefsAt(m) /\ <<d>> \in DOMAIN memo
    BY <1>1, <1>4, <1>5, <1>7, TermPlace
  <2>2. <<d>> \in Active => d \in Open
    BY <1>4, <2>1, PlainNotActive
  <2>3. <<definition(m), Open>> \in QuerySettings /\ DefsAt(m) \subseteq Known(scc)
    BY <1>4, TopSetting, TopKnown
  <2>4. /\ Knows(Env(t0), m) /\ Env(t0) \in Environments(prog) /\ DOMAIN Env(t0) \subseteq Open
        /\ \A c \in successors(dgr, m) : <<c>> \in Active
    BY <1>4, TopKnows
  <2>5. memo[<<d>>] = Standing(prog, d, Env(t0))
    BY <1>4, <1>7, <2>1, <2>2, <2>3, <2>4, DefValue
  <2>6. QED
    BY <1>3, <1>4, <1>7, <2>5 DEF m
<1>8. QED
  BY <1>6, <1>7

-------------------------------------------------------------------------------
(***************************************************************************)
(* The handlers of terms keep what terms mean                              *)
(***************************************************************************)
\* What the frames below hold is not the place of the top frame.
LEMMA TopNotHeld ==
  ASSUME Inv, Running, ~isFunDef(t0), NEW j \in DOMAIN stack, j > 1
  PROVE  t0 \notin HeldBy(stack[j])
<1> DEFINE n == stack[j].node
<1>1. /\ Prepared /\ n \in Places /\ stack[j].at \in 0 .. 3 /\ j \in Int /\ n # t0
      /\ 1 \in DOMAIN stack /\ stack[1].node = t0 /\ stack \in Seq(FrameSet)
  BY WhileRunning, FrameTyped, TopTerm DEF top, t0
<1>2. SUFFICES ASSUME stack[j].at = 3, t0 = child(n, 2) PROVE FALSE
  BY <1>1 DEF HeldBy
<1>3. 3 <= Calls(n) /\ stack[j - 1].node = Callee(lazy, stack[j])
  BY <1>2 DEF Inv, StackShape, FramesCalled
<1>4. /\ ~isFunDef(n) /\ op(n) = "ite" /\ ~special(n)
      /\ 2 \in DOMAIN Term(n).args /\ 3 \in DOMAIN Term(n).args
  BY <1>1, <1>3, ThreeCalls
<1>5. Calls(n) = 3
  BY <1>4, ClassesApart DEF Calls
<1>6. operands(Term(n), n)[3] = child(n, 3)
  BY <1>1, <1>4, <1>5, ClassesApart, PlainOperand
<1>7. stack[j - 1].node = child(n, 3)
  BY <1>2, <1>3, <1>4, <1>6 DEF Callee
<1>8. /\ ~isFunDef(child(n, 3)) /\ definition(child(n, 3)) = definition(n) /\ Len(child(n, 3)) = Len(n) + 1
      /\ definition(t0) = definition(n) /\ Len(t0) = Len(n) + 1 /\ Len(n) \in Nat
      /\ n \in Seq(Elements)
  BY <1>1, <1>2, <1>4, ChildPlace, TermPlace
<1>9. CASE j = 2
  <2>1. child(n, 3) = child(n, 2)
    BY <1>1, <1>2, <1>7, <1>9
  <2>2. child(n, 3)[Len(n) + 1] = 3 /\ child(n, 2)[Len(n) + 1] = 2
    BY <1>8 DEF child
  <2>3. QED
    BY <2>1, <2>2
<1>10. CASE j > 2
  <2>1. DOMAIN stack = 1 .. Len(stack) /\ Len(stack) \in Nat
    BY <1>1
  <2>2. j - 1 \in DOMAIN stack /\ 1 < j - 1
    BY <1>1, <1>10, <2>1
  <2>3. Len(stack[j - 1].node) < Len(t0)
    BY <1>1, <1>7, <1>8, <2>2 DEF Inv, StackShape, BodiesNest
  <2>4. QED
    BY <1>7, <1>8, <2>3
<1>11. QED
  BY <1>1, <1>9, <1>10

\* What they hold is left as it is, then.
LEMMA HeldUndisturbed ==
  ASSUME Undisturbed, \A j \in DOMAIN stack : j > 1 => t0 \notin HeldBy(stack[j])
  PROVE  HeldLeft
BY DEF Undisturbed, HeldLeft

\* The handler of a term returns what the term means.
LEMMA TermSound ==
  ASSUME Inv, Sound, Running, ~isFunDef(t0), UNCHANGED <<session, dgr, lazy, current, answer>>,
         stack' = Tail(stack), Undisturbed, memo'[t0] = MeaningOf(prog, Term(t0), Env(t0))
  PROVE  Sound'
<1>1. Same /\ cache' = cache /\ lazy' = lazy /\ answer' = answer
  BY SessionSame
<1>2. CacheSound'
  BY <1>1, CacheStays
<1>3. HeldLeft
  BY TopNotHeld, HeldUndisturbed
<1>4. Open \subseteq OpenBelow
  BY OpenNow
<1>5. memo'[t0] = Meant(t0)
  BY DEF Meant, MeantIn
<1>6. QED
  BY <1>1, <1>2, <1>3, <1>4, <1>5, SoundReturn DEF Undisturbed

\* It calls for the next operand, and holds what the first means.
LEMMA TermGoesOn ==
  ASSUME Inv, Sound, Running, ~isFunDef(t0), UNCHANGED <<session, dgr, current, answer>>,
         NEW i \in 1 .. Calls(t0), top.at = i - 1, NEW m, Call(operand(t0, i), AtNext, m),
         \A n \in DOMAIN lazy : n \in DOMAIN lazy' /\ lazy'[n] = lazy[n],
         \A n \in DOMAIN lazy' : \A k \in lazy'[n] : op(child(child(n, 1), k)) = "app",
         special(t0) => /\ t0 \in DOMAIN lazy'
                        /\ lazy'[t0] = IF t0 \in DOMAIN lazy THEN lazy[t0]
                                       ELSE prepare_lazy_substitutions(t0),
         Undisturbed, i >= 2 => lazy' = lazy /\ memo'[t0] = OperandMeans(t0, 1)
  PROVE  Sound'
<1>0. PICK f : f = AtNext
  OBVIOUS
<1>1. /\ top \in FrameSet /\ t0 \in Places /\ Calls(t0) \in 0 .. 3 /\ top.node = t0
      /\ 1 \in DOMAIN stack /\ stack[1].node = t0
  BY WhileRunning, CallsTyped DEF t0, top
<1>2. f = [top EXCEPT !.at = i]
  BY <1>0, <1>1 DEF AtNext, FrameSet
<1>3. f \in FrameSet /\ f.at = i /\ f.node = t0 /\ i \in 1 .. 3
  BY <1>1, <1>2 DEF FrameSet
<1>4. stack' = <<Frame(Callee(lazy', f)), f>> \o Tail(stack)
  <2>1. stack' = <<Frame(operand(t0, i)), f>> \o Tail(stack)
    BY <1>0 DEF Call
  <2>2. operand(t0, i) = Callee(lazy', f)
    BY <1>3, OperandIs
  <2>3. QED
    BY <2>1, <2>2
<1>5. Settled(lazy', f)
  BY <1>3 DEF Settled
<1>6. Same /\ cache' = cache /\ answer' = answer
  BY SessionSame
<1>7. HeldLeft
  BY TopNotHeld, HeldUndisturbed
<1>8. Open \subseteq OpenBelow
  BY OpenNow
<1>9. 0 < f.at /\ f.at <= Calls(f.node)
  BY <1>1, <1>3
<1>10. t0 \notin BelowPlaces
  BY TopTerm DEF BelowPlaces
<1>11. \A d : t0 # <<d>>
  BY DEF isFunDef
<1>12. HeldSound(f)'
  <2>1. CASE i < 2
    <3>1. ~(f.at >= 2)
      BY <1>3, <2>1
    <3>2. QED
      BY <3>1 DEF HeldSound
  <2>2. CASE i >= 2
    <3>1. BelowPlaces \subseteq Active'
      BY <1>3, <1>4, <1>9, ActiveCalled
    <3>2. \A d \in OpenBelow : memo'[<<d>>] = memo[<<d>>]
      BY <1>7, ApproximationsLeft
    <3> SUFFICES ASSUME NEW n, n = t0 PROVE memo'[n] = OperandMeans(n, 1)'
      BY <1>3 DEF HeldSound
    <3>3. Env(n)' = Env(n)
      BY <1>1, <1>6, <3>1, <3>2, EnvStays
    <3>4. /\ \A x : Term(x)' = Term(x) /\ special(x)' = special(x)
          /\ prog' = prog
      BY <1>6, SamePlaces DEF Same
    <3>5. OperandMeans(n, 1)' = OperandMeans(n, 1)
      BY <2>2, <3>3, <3>4 DEF OperandMeans, Standing
    <3>6. QED
      BY <2>2, <3>5
  <2>3. QED
    BY <1>3, <2>1, <2>2
<1>13. RoundSound(f)'
  BY <1>3 DEF RoundSound
<1>14. QED
  BY <1>3, <1>4, <1>5, <1>6, <1>7, <1>8, <1>9, <1>10, <1>11, <1>12, <1>13, SoundCall DEF Undisturbed

\* What the term of a place means where the top frame's handler runs.
LEMMA TermMeans ==
  ASSUME Inv, Running, NEW e \in Environments(prog), NEW n \in Places, ~isFunDef(n), DefsAt(n) \subseteq Known(scc)
  PROVE  LET arg(i) == MeaningOf(prog, Term(child(n, i)), e)
             t == Term(n)
             v == MeaningOf(prog, t, e)
         IN /\ op(n) = "const" => v = t.sym
            /\ op(n) = "app" => v = apply(Standing(prog, t.sym, e), t.at)
            /\ op(n) = "not" => v = Points \ arg(1)
            /\ op(n) \in Binary => v = binary(op(n), arg(1), arg(2))
            /\ op(n) \in Quantor => v = quantify(op(n), arg(1))
            /\ op(n) = "ite" => v = (arg(1) \cap arg(2)) \cup (arg(3) \ arg(1))
<1> DEFINE t == Term(n)
           arg(i) == MeaningOf(prog, Term(child(n, i)), e)
           a(i) == MeaningOf(prog, t.args[i], e)
           v == MeaningOf(prog, t, e)
<1>1. Prepared /\ prog \in Programs
  BY WhileRunning DEF Prepared
<1>2. t \in AllTerms /\ op(n) = t.op
  BY <1>1, TermPlace
<1>3. t \in Legal(prog)
  BY <1>2, TopKnown DEF Legal, DefsAt
<1>4. \A i \in DOMAIN t.args : i \in Nat => Term(child(n, i)) = t.args[i]
  BY <1>1, ChildPlace
<1>5. v = CASE t.op = "const" -> t.sym
            [] t.op = "app" -> apply(Standing(prog, t.sym, e), t.at)
            [] t.op = "not" -> Points \ a(1)
            [] t.op \in Binary -> binary(t.op, a(1), a(2))
            [] t.op \in Quantor -> quantify(t.op, a(1))
            [] t.op = "ite" -> (a(1) \cap a(2)) \cup (a(3) \ a(1))
  BY <1>1, <1>3, TermEquation, Zenon
<1> HIDE DEF t, a, v
<1>6. \A i \in DOMAIN t.args : i \in Nat => a(i) = arg(i)
  BY <1>4 DEF a, t
<1> HIDE DEF arg
<1>7. op(n) = "const" => v = t.sym
  BY <1>2, <1>5, ClassesApart
<1>8. op(n) = "app" => v = apply(Standing(prog, t.sym, e), t.at)
  BY <1>2, <1>5, ClassesApart
<1>9. ASSUME op(n) = "not" PROVE v = Points \ arg(1)
  <2> t.op = "not"
    BY <1>2, <1>9
  <2>1. 1 \in DOMAIN t.args
    BY <1>2, TermsAssumption
  <2>2. v = Points \ a(1)
    BY <1>5, ClassesApart
  <2>3. QED
    BY <1>6, <2>1, <2>2
<1>10. ASSUME op(n) \in Binary PROVE v = binary(op(n), arg(1), arg(2))
  <2>1. 1 \in DOMAIN t.args /\ 2 \in DOMAIN t.args
    BY <1>2, <1>10, TermsAssumption
  <2>2. v = binary(t.op, a(1), a(2))
    BY <1>2, <1>5, <1>10, ClassesApart
  <2>3. QED
    BY <1>2, <1>6, <2>1, <2>2
<1>11. ASSUME op(n) \in Quantor PROVE v = quantify(op(n), arg(1))
  <2>1. 1 \in DOMAIN t.args
    BY <1>2, <1>11, TermsAssumption
  <2>2. v = quantify(t.op, a(1))
    BY <1>2, <1>5, <1>11, ClassesApart
  <2>3. QED
    BY <1>2, <1>6, <2>1, <2>2
<1>12. ASSUME op(n) = "ite" PROVE v = (arg(1) \cap arg(2)) \cup (arg(3) \ arg(1))
  <2> t.op = "ite"
    BY <1>2, <1>12
  <2>1. 1 \in DOMAIN t.args /\ 2 \in DOMAIN t.args /\ 3 \in DOMAIN t.args
    BY <1>2, TermsAssumption
  <2>2. v = (a(1) \cap a(2)) \cup (a(3) \ a(1))
    BY <1>5, ClassesApart
  <2>3. QED
    BY <1>6, <2>1, <2>2
<1>13. QED
  BY <1>7, <1>8, <1>9, <1>10, <1>11, <1>12 DEF t, v, arg

\* What the term of the top frame means.
LEMMA TopMeans ==
  ASSUME Inv, Running, ~isFunDef(t0)
  PROVE  LET arg(i) == MeaningOf(prog, Term(child(t0, i)), Env(t0))
             t == Term(t0)
             v == MeaningOf(prog, t, Env(t0))
         IN /\ op(t0) = "const" => v = t.sym
            /\ op(t0) = "app" => v = apply(Standing(prog, t.sym, Env(t0)), t.at)
            /\ op(t0) = "not" => v = Points \ arg(1)
            /\ op(t0) \in Binary => v = binary(op(t0), arg(1), arg(2))
            /\ op(t0) \in Quantor => v = quantify(op(t0), arg(1))
            /\ op(t0) = "ite" => v = (arg(1) \cap arg(2)) \cup (arg(3) \ arg(1))
<1>1. Env(t0) \in Environments(prog) /\ t0 \in Places /\ DefsAt(t0) \subseteq Known(scc)
  BY EnvTyped, WhileRunning, TopKnown
<1>2. QED
  BY <1>1, TermMeans

\* A place whose predicate is kept is not evaluated again.
LEMMA AlreadyEvaluatedSound == ASSUME Inv, Sound, AlreadyEvaluated PROVE Sound'
<1>1. /\ Running /\ top.at = 0 /\ t0 \in DOMAIN memo /\ memo' = memo /\ stack' = Tail(stack)
      /\ Same /\ cache' = cache /\ lazy' = lazy /\ answer' = answer
  BY SessionSame DEF AlreadyEvaluated, At, valid, Return
<1>2. CacheSound'
  BY <1>1, CacheStays
<1>3. ~(top.at > 0)
  BY <1>1
<1>4. Active = BelowPlaces /\ Open \subseteq OpenBelow
  BY <1>1, <1>3, ActiveNow, OpenNow
<1>5. ASSUME t0 \notin BelowPlaces PROVE memo[t0] = Meant(t0)
  <2>1. memo[t0] = MeantIn(t0, MemoEnv(t0))
    BY <1>1, <1>4, <1>5, MemoSoundIs DEF Sound
  <2>2. isFunDef(t0) => t0 = <<definition(t0)>>
    BY <1>1, WhileRunning, DefPlace
  <2>3. isFunDef(t0) => definition(t0) \notin Open
    BY <1>4, <1>5, <2>2 DEF Open
  <2>4. Open \cap Free(t0) = Open \cap successors(dgr, t0)
    BY <2>3 DEF Free
  <2>5. MemoEnv(t0) = Env(t0)
    BY <2>4 DEF MemoEnv, Env
  <2>6. QED
    BY <2>1, <2>5 DEF Meant
<1>6. HeldLeft
  BY <1>1 DEF HeldLeft
<1>7. QED
  BY <1>1, <1>2, <1>4, <1>5, <1>6, SoundReturn

\* A constant means its predicate.
LEMMA eval_constantSound == ASSUME Inv, Sound, eval_constant PROVE Sound'
<1>1. /\ Running /\ op(t0) = "const" /\ memo' = With(memo, t0, Term(t0).sym) /\ stack' = Tail(stack)
      /\ UNCHANGED <<session, dgr, lazy, current, answer>> /\ ~isFunDef(t0)
  BY TermOp DEF eval_constant, At, Return
<1>2. Undisturbed
  BY eval_constantInv
<1>3. memo'[t0] = Term(t0).sym
  BY <1>1 DEF With
<1>4. QED
  BY <1>1, <1>2, <1>3, TopMeans, TermSound

\* The first operand is called for; nothing is kept of it yet.
LEMMA FirstOperandSound == ASSUME Inv, Sound, FirstOperand PROVE Sound'
<1>1. /\ Running /\ top.at = 0 /\ ~isFunDef(t0) /\ Undisturbed
      /\ Call(operand(t0, 1), AtNext, memo) /\ UNCHANGED <<session, dgr, current, answer>>
      /\ lazy' = IF special(t0) /\ t0 \notin DOMAIN lazy
                 THEN With(lazy, t0, prepare_lazy_substitutions(t0)) ELSE lazy
  BY FirstOperandInv DEF FirstOperand, At, op
<1>2. 1 \in 1 .. Calls(t0) /\ 1 - 1 = 0
  <2>1. /\ op(t0) \in {"const", "app", "not", "ite"} \cup Binary \cup Quantor
        /\ op(t0) # "const"
    BY <1>1, WhileRunning, TermPlace, TermsAssumption DEF FirstOperand
  <2>2. 1 <= Calls(t0)
    BY <2>1, ClassesApart DEF Calls
  <2>3. QED
    BY <1>1, <2>2, WhileRunning, CallsTyped
<1>3. \A n \in DOMAIN lazy : n \in DOMAIN lazy' /\ lazy'[n] = lazy[n]
  BY <1>1 DEF With
<1>4. \A n \in DOMAIN lazy' : \A k \in lazy'[n] : op(child(child(n, 1), k)) = "app"
  <2>1. \A k \in prepare_lazy_substitutions(t0) : op(child(child(t0, 1), k)) = "app"
    BY DEF prepare_lazy_substitutions, lazyAt
  <2>2. \A n \in DOMAIN lazy : \A k \in lazy[n] : op(child(child(n, 1), k)) = "app"
    BY DEF Inv, LazyApplied
  <2>3. QED
    BY <1>1, <2>1, <2>2 DEF With
<1>5. special(t0) => /\ t0 \in DOMAIN lazy'
                     /\ lazy'[t0] = IF t0 \in DOMAIN lazy THEN lazy[t0]
                                    ELSE prepare_lazy_substitutions(t0)
  BY <1>1 DEF With
<1>6. QED
  BY <1>1, <1>2, <1>3, <1>4, <1>5, TermGoesOn

\* The operand that a term has called for last, unless it applies a definition.
LEMMA OperandMeant ==
  ASSUME Inv, Sound, Running, ~isFunDef(t0), top.at > 0, op(t0) # "app"
  PROVE  memo[operand(t0, top.at)] = OperandMeans(t0, top.at)
<1>1. top.node = t0
  BY DEF t0
<1>2. CASE special(t0)
  BY <1>1, <1>2, OperandValue DEF OperandMeans, PlaceOf, Applies
<1>3. CASE ~special(t0)
  BY <1>1, <1>3, OperandValue DEF OperandMeans, PlaceOf, Applies
<1>4. QED
  BY <1>2, <1>3

\* The first operand's predicate, which the term holds.
LEMMA FirstMeant ==
  ASSUME Inv, Sound, Running, top.at >= 2
  PROVE  memo[t0] = OperandMeans(t0, 1)
<1>1. 1 \in DOMAIN stack /\ stack[1] = top /\ top.node = t0
  BY WhileRunning DEF t0, top
<1>2. QED
  BY <1>1 DEF Sound, FramesSound, HeldSound

\* The only operand of a term.
LEMMA OnlyMeant ==
  ASSUME Inv, Sound, At(1), ~isFunDef(t0), op(t0) # "app", ~special(t0), Calls(t0) = 1
  PROVE  memo[child(t0, 1)] = MeaningOf(prog, Term(child(t0, 1)), Env(t0))
<1>1. Running /\ top.at = 1 /\ top.at > 0
  BY DEF At
<1>2. memo[operand(t0, 1)] = OperandMeans(t0, 1)
  BY <1>1, OperandMeant
<1>3. operand(t0, 1) = child(t0, 1)
  BY <1>1, SubtermOperand
<1>4. QED
  BY <1>2, <1>3 DEF OperandMeans

\* A negation means the complement of its operand.
LEMMA eval_notSound == ASSUME Inv, Sound, eval_not PROVE Sound'
<1> DEFINE c == child(t0, 1)
<1>1. /\ At(1) /\ Running /\ op(t0) = "not" /\ memo' = With(Without(memo, {c}), t0, Points \ memo[c])
      /\ stack' = Tail(stack) /\ UNCHANGED <<session, dgr, lazy, current, answer>>
      /\ ~isFunDef(t0) /\ ~special(t0) /\ Undisturbed
  BY TermOp, ClassesApart, eval_notInv DEF eval_not, At, Return
<1>2. Calls(t0) = 1
  BY <1>1, ClassesApart DEF Calls
<1>3. memo'[t0] = Points \ memo[c]
  BY <1>1 DEF With
<1>4. memo[c] = MeaningOf(prog, Term(c), Env(t0))
  BY <1>1, <1>2, OnlyMeant
<1>5. QED
  BY <1>1, <1>3, <1>4, TopMeans, TermSound

\* A quantor quantifies what its operand means.
LEMMA eval_quantorSound == ASSUME Inv, Sound, eval_quantor PROVE Sound'
<1> DEFINE c == child(t0, 1)
<1>1. /\ At(1) /\ Running /\ op(t0) \in Quantor /\ op(t0) # "app"
      /\ memo' = With(Without(memo, {c}), t0, quantify(op(t0), memo[c]))
      /\ stack' = Tail(stack) /\ UNCHANGED <<session, dgr, lazy, current, answer>>
      /\ ~isFunDef(t0) /\ ~special(t0) /\ Undisturbed
  BY TermOp, ClassesApart, eval_quantorInv DEF eval_quantor, At, Return
<1>2. Calls(t0) = 1
  BY <1>1, ClassesApart DEF Calls
<1>3. memo'[t0] = quantify(op(t0), memo[c])
  BY <1>1 DEF With
<1>4. memo[c] = MeaningOf(prog, Term(c), Env(t0))
  BY <1>1, <1>2, OnlyMeant
<1>5. QED
  BY <1>1, <1>3, <1>4, TopMeans, TermSound

\* The definition's predicate stands for the definition here.
LEMMA eval_applicationSound == ASSUME Inv, Sound, eval_application PROVE Sound'
<1> DEFINE p == apply(memo[operand(t0, 1)], Term(t0).at)
<1>1. /\ Running /\ top.at = 1 /\ op(t0) = "app" /\ memo' = With(memo, t0, p) /\ stack' = Tail(stack)
      /\ UNCHANGED <<session, dgr, lazy, current, answer>> /\ ~isFunDef(t0) /\ ~special(t0)
      /\ Undisturbed /\ top.node = t0 /\ top.at > 0
  BY TermOp, ClassesApart, eval_applicationInv DEF eval_application, At, Return, t0
<1>2. memo[operand(t0, 1)] = Standing(prog, Term(t0).sym, Env(t0))
  BY <1>1, OperandValue DEF PlaceOf, Applies
<1>3. memo'[t0] = p
  BY <1>1 DEF With
<1>4. QED
  BY <1>1, <1>2, <1>3, TopMeans, TermSound

\* Resetting an operand leaves the term's own predicate.
LEMMA TopReset ==
  ASSUME Inv, Running, ~isFunDef(t0), special(t0) \/ op(t0) \in Binary \cup {"ite"},
         special(t0) => t0 \in DOMAIN lazy, NEW i \in 1 .. Calls(t0), NEW p
  PROVE  LET m == ResetOperand(With(memo, t0, p), i)
         IN /\ t0 \in DOMAIN m /\ m[t0] = p
            /\ \A j \in DOMAIN stack : j > 1 => HeldBy(stack[j]) \subseteq DOMAIN m
<1> DEFINE w == With(memo, t0, p)
<1>1. DOMAIN w = DOMAIN memo \cup {t0} /\ w[t0] = p
  BY DEF With
<1> HIDE DEF w
<1>2. \A j \in DOMAIN stack : j > 1 => HeldBy(stack[j]) \subseteq DOMAIN w
  BY <1>1, WhileRunning
<1>3. QED
  BY <1>1, <1>2, OperandReset DEF w

\* The first operand's predicate is held while the second is evaluated.
LEMMA SecondOperandSound == ASSUME Inv, Sound, SecondOperand PROVE Sound'
<1> DEFINE m == ResetOperand(With(memo, t0, memo[operand(t0, 1)]), 1)
<1>1. /\ Running /\ top.at = 1 /\ top.at > 0 /\ (special(t0) \/ op(t0) \in Binary \cup {"ite"})
      /\ Call(operand(t0, 2), AtNext, m) /\ UNCHANGED <<session, dgr, lazy, current, answer>>
      /\ ~isFunDef(t0) /\ op(t0) # "app" /\ Undisturbed
  BY TermOp, ClassesApart, SecondOperandInv DEF SecondOperand, At
<1>2. 1 \in 1 .. Calls(t0) /\ 2 \in 1 .. Calls(t0)
  <2>1. Calls(t0) \in 0 .. 3
    BY <1>1, WhileRunning, CallsTyped
  <2>2. 2 <= Calls(t0)
    BY <1>1, TermOp, ClassesApart DEF Calls
  <2>3. QED
    BY <2>1, <2>2
<1>3. special(t0) => t0 \in DOMAIN lazy
  BY <1>1, WhileRunning DEF Inv, StackShape, FramesCalled, Settled, top, t0
<1>4. m[t0] = memo[operand(t0, 1)]
  BY <1>1, <1>2, <1>3, TopReset
<1>5. memo[operand(t0, 1)] = OperandMeans(t0, 1)
  BY <1>1, OperandMeant
<1> HIDE DEF m
<1>6. \A n \in DOMAIN lazy : \A k \in lazy[n] : op(child(child(n, 1), k)) = "app"
  BY DEF Inv, LazyApplied
<1>7. Call(operand(t0, 2), AtNext, m) /\ lazy' = lazy /\ top.at = 2 - 1 /\ memo' = m
      /\ UNCHANGED <<session, dgr, current, answer>>
  BY <1>1 DEF Call
<1>8. QED
  BY <1>1, <1>2, <1>3, <1>4, <1>5, <1>6, <1>7, TermGoesOn

\* A connective combines what its operands mean.
LEMMA eval_binarySound == ASSUME Inv, Sound, eval_binary PROVE Sound'
<1> DEFINE p == binary(op(t0), memo[t0], memo[operand(t0, 2)])
<1>1. /\ Running /\ top.at = 2 /\ top.at > 0 /\ top.at >= 2 /\ op(t0) \in Binary
      /\ memo' = ResetOperand(With(memo, t0, p), 2) /\ stack' = Tail(stack)
      /\ UNCHANGED <<session, dgr, lazy, current, answer>> /\ ~special(t0) /\ op(t0) # "app"
      /\ Undisturbed
  BY TermOp, ClassesApart, eval_binaryInv DEF eval_binary, At, Return
<1>2. ~isFunDef(t0) /\ 2 \in 1 .. Calls(t0)
  BY <1>1, HoldsFirst
<1>3. memo'[t0] = p
  BY <1>1, <1>2, TopReset
<1>4. memo[t0] = OperandMeans(t0, 1) /\ memo[operand(t0, 2)] = OperandMeans(t0, 2)
  BY <1>1, <1>2, FirstMeant, OperandMeant
<1>5. \A i : OperandMeans(t0, i) = MeaningOf(prog, Term(child(t0, i)), Env(t0))
  BY <1>1 DEF OperandMeans
<1> HIDE DEF p
<1>6. p = MeaningOf(prog, Term(t0), Env(t0))
  BY <1>1, <1>2, <1>4, <1>5, TopMeans DEF p
<1>7. QED
  BY <1>1, <1>2, <1>3, <1>6, TermSound

\* What is left to relprod is substituted then.
LEMMA SubstitutedMeans ==
  ASSUME Inv, Running, ~isFunDef(t0), top.at >= 2, special(t0), NEW i \in {1, 2}
  PROVE  Substituted(i, OperandMeans(t0, i)) = MeaningOf(prog, Term(child(child(t0, 1), i)), Env(t0))
<1> DEFINE a == child(child(t0, 1), i)
<1>1. Prepared /\ t0 \in Places /\ Env(t0) \in Environments(prog)
  BY WhileRunning, EnvTyped
<1>2. a \in Places /\ ~isFunDef(a) /\ DefsAt(a) \subseteq Known(scc)
  BY <1>1, SpecialPlace, TopKnown
<1>3. i \in lazy[t0] => op(a) = "app"
  BY WhileRunning DEF Inv, StackShape, FramesCalled, Settled, top, t0
<1> HIDE DEF a
<1>4. op(a) = "app" =>
        MeaningOf(prog, Term(a), Env(t0)) = apply(Standing(prog, Term(a).sym, Env(t0)), Term(a).at)
  BY <1>1, <1>2, TermMeans
<1>5. QED
  BY <1>3, <1>4 DEF Substituted, OperandMeans, a

\* So do relprod and its like, which quantify as well.
LEMMA eval_quantor_specialSound == ASSUME Inv, Sound, eval_quantor_special PROVE Sound'
<1> DEFINE q == binary(op(child(t0, 1)), Substituted(1, memo[t0]),
                       Substituted(2, memo[operand(t0, 2)]))
           p == quantify(op(t0), q)
           b == child(t0, 1)
<1>1. /\ Running /\ top.at = 2 /\ top.at > 0 /\ top.at >= 2 /\ special(t0) /\ stack' = Tail(stack)
      /\ memo' = ResetOperand(With(memo, t0, p), 2)
      /\ UNCHANGED <<session, dgr, lazy, current, answer>> /\ Undisturbed
  BY eval_quantor_specialInv DEF eval_quantor_special, At, Return
<1>2. /\ Prepared /\ t0 \in Places /\ ~isFunDef(t0) /\ 2 \in 1 .. Calls(t0) /\ t0 \in DOMAIN lazy
      /\ op(t0) \in Quantor /\ op(t0) # "app" /\ op(b) \in Binary
  BY <1>1, HoldsFirst, TermOp, ClassesApart DEF special, Binary
<1>3. memo'[t0] = p
  BY <1>1, <1>2, TopReset
<1>4. memo[t0] = OperandMeans(t0, 1) /\ memo[operand(t0, 2)] = OperandMeans(t0, 2)
  BY <1>1, <1>2, FirstMeant, OperandMeant
<1>5. /\ Substituted(1, OperandMeans(t0, 1)) = MeaningOf(prog, Term(child(b, 1)), Env(t0))
      /\ Substituted(2, OperandMeans(t0, 2)) = MeaningOf(prog, Term(child(b, 2)), Env(t0))
  BY <1>1, <1>2, SubstitutedMeans
<1>6. Env(t0) \in Environments(prog) /\ b \in Places /\ ~isFunDef(b) /\ DefsAt(b) \subseteq Known(scc)
  <2>1. Term(t0) \in AllTerms /\ Term(t0).op \in Quantor
    BY <1>2, TermPlace
  <2>2. 1 \in DOMAIN Term(t0).args
    BY <2>1, TermsAssumption
  <2>3. QED
    BY <1>1, <1>2, <2>2, ChildPlace, TopKnown, EnvTyped
<1>7. q = MeaningOf(prog, Term(b), Env(t0))
  <2> HIDE DEF b
  <2>1. MeaningOf(prog, Term(b), Env(t0)) =
          binary(op(b), MeaningOf(prog, Term(child(b, 1)), Env(t0)), MeaningOf(prog, Term(child(b, 2)), Env(t0)))
    BY <1>1, <1>2, <1>6, TermMeans
  <2>2. QED
    BY <1>4, <1>5, <2>1 DEF b
<1> HIDE DEF q
<1>8. p = MeaningOf(prog, Term(t0), Env(t0))
  BY <1>1, <1>2, <1>7, TopMeans
<1> HIDE DEF p
<1>9. QED
  BY <1>1, <1>2, <1>3, <1>8, TermSound

\* ite holds its condition, and its second operand stays.
LEMMA ThirdOperandSound == ASSUME Inv, Sound, ThirdOperand PROVE Sound'
<1>1. /\ Running /\ top.at = 2 /\ top.at >= 2 /\ op(t0) = "ite" /\ ~special(t0)
      /\ Call(operand(t0, 3), AtNext, memo) /\ lazy' = lazy /\ top.at = 3 - 1 /\ memo' = memo
      /\ UNCHANGED <<session, dgr, current, answer>> /\ Undisturbed
  BY TermOp, ClassesApart, ThirdOperandInv DEF ThirdOperand, At, Call
<1>2. ~isFunDef(t0) /\ 3 \in 1 .. Calls(t0)
  BY <1>1, HoldsFirst, ClassesApart DEF Calls
<1>3. memo'[t0] = OperandMeans(t0, 1)
  BY <1>1, FirstMeant
<1>4. \A n \in DOMAIN lazy : \A k \in lazy[n] : op(child(child(n, 1), k)) = "app"
  BY DEF Inv, LazyApplied
<1>5. QED
  BY <1>1, <1>2, <1>3, <1>4, TermGoesOn

\* ite selects among what its operands mean.
LEMMA eval_iteSound == ASSUME Inv, Sound, eval_ite PROVE Sound'
<1> DEFINE c == memo[t0]
           p2 == memo[operand(t0, 2)]
           p3 == memo[operand(t0, 3)]
           p == (c \cap p2) \cup (p3 \ c)
           v == ResetOperand(With(memo, t0, p), 2)
<1>1. /\ Running /\ top.at = 3 /\ top.at > 0 /\ top.at >= 2 /\ op(t0) = "ite" /\ stack' = Tail(stack)
      /\ memo' = ResetOperand(v, 3) /\ UNCHANGED <<session, dgr, lazy, current, answer>>
      /\ ~special(t0) /\ op(t0) # "app" /\ Undisturbed
  BY TermOp, ClassesApart, eval_iteInv DEF eval_ite, At, Return
<1>2. /\ Prepared /\ t0 \in Places /\ ~isFunDef(t0) /\ 2 \in 1 .. Calls(t0) /\ 3 \in 1 .. Calls(t0)
  BY <1>1, HoldsFirst
<1>3. /\ t0 \in DOMAIN v /\ v[t0] = p
      /\ \A j \in DOMAIN stack : j > 1 => HeldBy(stack[j]) \subseteq DOMAIN v
  BY <1>1, <1>2, TopReset
<1> HIDE DEF v
<1>4. memo'[t0] = p
  BY <1>1, <1>2, <1>3, OperandReset
<1>5. \A i : OperandMeans(t0, i) = MeaningOf(prog, Term(child(t0, i)), Env(t0))
  BY <1>1 DEF OperandMeans
<1>6. c = OperandMeans(t0, 1) /\ p3 = OperandMeans(t0, 3)
  BY <1>1, <1>2, FirstMeant, OperandMeant
<1>7. p2 = MeaningOf(prog, Term(child(t0, 2)), Env(t0))
  <2> DEFINE d == child(t0, 2)
  <2>1. operand(t0, 2) = d
    BY <1>1, <1>2, SubtermOperand
  <2>2. /\ d \in Places /\ ~isFunDef(d) /\ definition(d) = definition(t0) /\ Len(d) = Len(t0) + 1
        /\ Len(t0) \in Nat /\ Free(d) \subseteq Free(t0) /\ DefsAt(d) \subseteq DefsAt(t0)
    <3>1. 2 \in DOMAIN Term(t0).args
      BY <1>1, <1>2, PlainOperand
    <3>2. QED
      BY <1>2, <3>1, ChildPlace, TermPlace
  <2>3. d \in DOMAIN memo
    <3>1. 1 \in DOMAIN stack /\ stack[1] = top
      BY <1>1, WhileRunning DEF top
    <3>2. operand(t0, 2) \in DOMAIN memo
      BY <1>1, <3>1 DEF Inv, HeldPredicatesStay, valid, t0
    <3>3. QED
      BY <2>1, <3>2
  <2> HIDE DEF d
  <2>4. memo[d] = MeaningOf(prog, Term(d), Env(t0))
    BY <1>1, <1>2, <2>2, <2>3, SubtermValue
  <2>5. QED
    BY <2>1, <2>4 DEF d
<1> HIDE DEF c, p2, p3
<1>8. p = MeaningOf(prog, Term(t0), Env(t0))
  BY <1>1, <1>2, <1>5, <1>6, <1>7, TopMeans
<1> HIDE DEF p
<1>9. QED
  BY <1>1, <1>2, <1>4, <1>8, TermSound

-------------------------------------------------------------------------------
(***************************************************************************)
(* Iterations                                                              *)
(***************************************************************************)
\* A definition that is evaluated outside of all iterations has no environment.
LEMMA NoEnvironment == ASSUME NEW n, Open \cap Free(n) = {} PROVE Env(n) = <<>>
<1>1. \A g, h : DOMAIN g = {} /\ DOMAIN h = {} /\ g = [x \in DOMAIN g |-> g[x]] /\ h = [x \in DOMAIN h |-> h[x]]
                  => g = h
  OBVIOUS
<1>2. DOMAIN Env(n) = {} /\ Env(n) = [x \in DOMAIN Env(n) |-> Env(n)[x]]
  BY DEF Env
<1>3. DOMAIN <<>> = {} /\ <<>> = [x \in DOMAIN <<>> |-> <<>>[x]]
  OBVIOUS
<1>4. QED
  BY <1>1, <1>2, <1>3

\* The definition at the top frame.
LEMMA TopDefinition ==
  ASSUME Inv, Running, isFunDef(t0)
  PROVE  /\ d0 \in Known(scc) /\ d0 \in WellFounded(prog) /\ d0 \in Defs /\ t0 = <<d0>>
         /\ prog[d0].kind \in {"def", "mu", "nu"} /\ definition(t0) = d0
         /\ isFixpoint(d0) <=> d0 \in Fixpoints(prog)
         /\ Env(t0) \in Environments(prog) /\ DOMAIN Env(t0) = Open \cap Free(t0) /\ d0 \notin DOMAIN Env(t0)
<1>1. t0 = <<d0>> /\ d0 \in Defs /\ prog[d0].kind \in {"def", "mu", "nu"} /\ definition(t0) = d0
  BY WhileRunning, DefPlace DEF d0
<1>2. d0 \in Known(scc) /\ d0 \in WellFounded(prog)
  BY <1>1, TopKnown DEF DefsAt
<1>3. d0 \notin Free(t0)
  BY <1>1 DEF Free
<1>4. QED
  BY <1>1, <1>2, <1>3, EnvTyped DEF isFixpoint, Fixpoints

\* The predicate of the body of the definition at the top frame.
LEMMA BodyValue ==
  ASSUME Inv, Sound, At(1), op(t0) = "fundef",
         NEW e \in Environments(prog), DOMAIN e \subseteq Open, Knows(e, body(t0))
  PROVE  memo[body(t0)] = MeaningOf(prog, prog[d0].body, e)
<1> DEFINE m == body(t0)
<1>1. /\ Running /\ isFunDef(t0) /\ \A j \in DOMAIN stack : j > 1 => stack[j].node # t0
      /\ m \in DOMAIN memo /\ top.at > 0
  BY BodyTyped DEF At
<1>2. /\ m \in Places /\ ~isFunDef(m) /\ definition(m) = d0 /\ Term(m) = prog[d0].body
      /\ definition(t0) = d0
  BY <1>1, WhileRunning, DefPlace DEF d0
<1>3. DefsAt(m) \subseteq Known(scc)
  BY <1>1, <1>2, TopDefinition, WhileRunning DEF DefsAt, ClosedIn
<1>4. m \notin Active
  BY <1>1, DefForgets DEF Active
<1>5. <<definition(m), Open>> \in QuerySettings
  BY <1>1, <1>2, TopSetting
<1> HIDE DEF m
<1>6. memo[m] = MeaningOf(prog, Term(m), e)
  BY <1>1, <1>2, <1>3, <1>4, <1>5, PlaceValue DEF m
<1>7. QED
  BY <1>2, <1>6 DEF m

\* The equations of what a definition stands for.
LEMMA DefMeans ==
  ASSUME Inv, Running, isFunDef(t0)
  PROVE  LET v == DefMeaningOf(prog, d0, Env(t0))
             B(a) == Round(prog, d0, a, Env(t0))
         IN /\ ~isFixpoint(d0) => v = MeaningOf(prog, prog[d0].body, Env(t0))
            /\ prog[d0].kind = "mu" => v = {w \in Points : \A a \in Unary : B(a) \subseteq a => w \in a}
            /\ prog[d0].kind = "nu" => v = UNION {a \in Unary : a \subseteq B(a)}
<1>1. /\ prog \in Programs /\ Env(t0) \in Environments(prog) /\ d0 \in WellFounded(prog) \ DOMAIN Env(t0)
      /\ prog[d0].kind \in {"def", "mu", "nu"}
  BY TopDefinition, WhileRunning DEF Prepared
<1> DEFINE v == DefMeaningOf(prog, d0, Env(t0))
           B(a) == Round(prog, d0, a, Env(t0))
<1>2. /\ prog[d0].kind = "def" => v = MeaningOf(prog, prog[d0].body, Env(t0))
      /\ prog[d0].kind = "mu" => v = LeastFixpoint(prog, d0, Env(t0))
      /\ prog[d0].kind = "nu" => v = GreatestFixpoint(prog, d0, Env(t0))
  BY <1>1, DefEquation
<1> HIDE DEF v
<1>3. ~isFixpoint(d0) => v = MeaningOf(prog, prog[d0].body, Env(t0))
  BY <1>1, <1>2 DEF isFixpoint
<1>4. prog[d0].kind = "mu" => v = {w \in Points : \A a \in Unary : B(a) \subseteq a => w \in a}
  BY <1>2 DEF LeastFixpoint
<1>5. prog[d0].kind = "nu" => v = UNION {a \in Unary : a \subseteq B(a)}
  BY <1>2 DEF GreatestFixpoint
<1>6. QED
  BY <1>3, <1>4, <1>5 DEF v

\* A round is evaluated to a predicate, and to no less if it starts from more.
LEMMA RoundMonotone ==
  ASSUME Inv, Running, isFunDef(t0), isFixpoint(d0)
  PROVE  LET B(a) == Round(prog, d0, a, Env(t0))
         IN /\ \A a \in Unary : B(a) \in Predicates
            /\ \A a, b \in Unary : a \subseteq b => B(a) \subseteq B(b)
<1>1. /\ prog \in Programs /\ Env(t0) \in Environments(prog)
      /\ d0 \in (Fixpoints(prog) \cap WellFounded(prog)) \ DOMAIN Env(t0)
  BY TopDefinition, WhileRunning DEF Prepared
<1>2. prog[d0].body \in Legal(prog)
  BY <1>1, WellFoundedBodies
<1>3. ASSUME NEW a \in Unary PROVE Round(prog, d0, a, Env(t0)) \in Predicates
  <2>1. With(Env(t0), d0, a) \in Environments(prog)
    BY <1>1, EnvironmentWith
  <2>2. QED
    BY <1>1, <1>2, <2>1, MeaningTyped DEF Round
<1>4. QED
  BY <1>1, <1>3, MonotoneAssumption

\* What the frames below hold is left, and the definition's own predicate is not
\* among it.
LEMMA DefHeldLeft ==
  ASSUME Inv, Running, isFunDef(t0), \A j \in DOMAIN stack : j > 1 => stack[j].node # t0, Undisturbed
  PROVE  HeldLeft /\ t0 \notin BelowPlaces
<1>1. \A j \in DOMAIN stack : j > 1 => t0 \notin HeldBy(stack[j])
  BY DefForgets
<1>2. QED
  BY <1>1, HeldUndisturbed DEF BelowPlaces

\* The iteration's state is sound after a step if it is as its frame says.
LEMMA RoundNext ==
  ASSUME Inv, Running, isFunDef(t0), Same, HeldLeft, BelowPlaces \subseteq Active',
         NEW f, f.node = t0, f.at > 0,
         isFixpoint(d0) =>
           LET B(a) == Round(prog, d0, a, Env(t0))
           IN /\ After(f, d0, f.last, B(memo'[t0])) = B(f.last)
              /\ IF prog[d0].kind = "mu"
                 THEN f.last \subseteq B(f.last) /\ \A a \in Unary : B(a) \subseteq a => f.last \subseteq a
                 ELSE B(f.last) \subseteq f.last /\ \A a \in Unary : a \subseteq B(a) => a \subseteq f.last
  PROVE  RoundSound(f)'
<1>1. PICK n : n = t0
  OBVIOUS
<1>2. PICK d : d = d0
  OBVIOUS
<1>3. /\ 1 \in DOMAIN stack /\ n = stack[1].node /\ definition(n) = d /\ f.node = n /\ isFunDef(n)
  BY <1>1, <1>2, WhileRunning, TopDefinition DEF t0, top
<1>4. \A c \in OpenBelow : memo'[<<c>>] = memo[<<c>>]
  BY ApproximationsLeft
<1>5. Env(n)' = Env(n)
  BY <1>3, <1>4, EnvStays
<1>6. prog' = prog /\ flags' = flags /\ isFixpoint(d)' = isFixpoint(d)
  BY DEF Same, isFixpoint
<1>7. \A a, x : After(f, d, a, x)' = After(f, d, a, x)
  BY <1>6 DEF After
<1>8. \A a : Round(prog, d, a, Env(n))' = Round(prog, d, a, Env(n))
  BY <1>5, <1>6 DEF Round
<1>9. isFixpoint(d) =>
        /\ After(f, d, f.last, Round(prog, d, memo'[n], Env(n))) = Round(prog, d, f.last, Env(n))
        /\ IF prog[d].kind = "mu"
           THEN /\ f.last \subseteq Round(prog, d, f.last, Env(n))
                /\ \A a \in Unary : Round(prog, d, a, Env(n)) \subseteq a => f.last \subseteq a
           ELSE /\ Round(prog, d, f.last, Env(n)) \subseteq f.last
                /\ \A a \in Unary : a \subseteq Round(prog, d, a, Env(n)) => a \subseteq f.last
  BY <1>1, <1>2
<1>10. QED
  BY <1>3, <1>5, <1>6, <1>7, <1>8, <1>9 DEF RoundSound, Round

\* eval_fundef calls for its body.
LEMMA DefGoesOn ==
  ASSUME Inv, Sound, Running, isFunDef(t0), \A j \in DOMAIN stack : j > 1 => stack[j].node # t0,
         UNCHANGED <<session, dgr, lazy, answer>>,
         NEW f \in FrameSet, f.node = t0, f.at = 1, stack' = <<Frame(body(t0)), f>> \o Tail(stack),
         Undisturbed,
         isFixpoint(d0) => \A n \in DOMAIN memo' : n # t0 => d0 \notin successors(dgr, n),
         isFixpoint(d0) =>
           LET B(a) == Round(prog, d0, a, Env(t0))
           IN /\ After(f, d0, f.last, B(memo'[t0])) = B(f.last)
              /\ IF prog[d0].kind = "mu"
                 THEN f.last \subseteq B(f.last) /\ \A a \in Unary : B(a) \subseteq a => f.last \subseteq a
                 ELSE B(f.last) \subseteq f.last /\ \A a \in Unary : a \subseteq B(a) => a \subseteq f.last
  PROVE  Sound'
<1>1. Same /\ cache' = cache /\ lazy' = lazy /\ answer' = answer
  <2>1. UNCHANGED <<session, dgr>>
    OBVIOUS
  <2>2. QED
    BY <2>1, SessionSame
<1>2. Calls(t0) = 1 /\ ~special(t0) /\ t0 = <<d0>>
  BY DefForgets
<1>3. stack' = <<Frame(Callee(lazy', f)), f>> \o Tail(stack)
  BY DEF Callee
<1>4. HeldLeft /\ t0 \notin BelowPlaces
  BY DefHeldLeft
<1>5. 0 < f.at /\ f.at <= Calls(f.node) /\ Settled(lazy', f)
  BY <1>2 DEF Settled
<1>6. BelowPlaces \subseteq Active'
  BY <1>3, <1>5, ActiveCalled
<1>7. RoundSound(f)'
  BY <1>1, <1>4, <1>5, <1>6, RoundNext
<1>8. HeldSound(f)'
  <2>1. ~(f.at >= 2)
    OBVIOUS
  <2>2. QED
    BY <2>1 DEF HeldSound
<1>9. ASSUME NEW n \in DOMAIN memo', n # t0, NEW d \in Open \cap successors(dgr, n)
      PROVE  d \in OpenBelow
  <2>1. d \in OpenBelow \/ (d = d0 /\ isFixpoint(d0))
    BY OpenNow
  <2>2. QED
    BY <1>9, <2>1
<1>10. ASSUME NEW n \in DOMAIN memo', n # t0, NEW d \in successors(dgr, n), t0 = <<d>>
       PROVE  ~isFixpoint(d)
  <2>1. d = d0
    BY <1>2, <1>10
  <2>2. QED
    BY <1>10, <2>1
<1>11. QED
  BY <1>1, <1>3, <1>4, <1>5, <1>7, <1>8, <1>9, <1>10, SoundCall DEF Undisturbed

\* eval_fundef returns what the definition stands for.
LEMMA LeaveSound ==
  ASSUME Inv, Sound, Running, isFunDef(t0), \A j \in DOMAIN stack : j > 1 => stack[j].node # t0,
         UNCHANGED <<prog, flags, scc, query, dgr, lazy, answer>>,
         NEW m, LeaveFunDef(m), t0 \in DOMAIN m, m[t0] = DefMeaningOf(prog, d0, Env(t0)), Undisturbed,
         isFixpoint(d0) => \A n \in DOMAIN m : n # t0 => d0 \notin successors(dgr, n)
  PROVE  Sound'
<1>1. Same /\ lazy' = lazy /\ answer' = answer
  BY DEF Same
<1>2. d0 \in Known(scc) /\ d0 \in Defs /\ t0 = <<d0>> /\ definition(t0) = d0
  BY TopDefinition
<1>3. HeldLeft /\ t0 \notin BelowPlaces
  BY DefHeldLeft
<1>4. stack' = Tail(stack) /\ (memo' = m \/ memo' = reset(m, d0))
  BY DEF LeaveFunDef, Return
<1>5. DOMAIN memo' \subseteq DOMAIN m /\ memo'[t0] = m[t0]
  <2>1. CASE memo' = m
    BY <2>1
  <2>2. CASE memo' = reset(m, d0)
    BY <2>2 DEF reset, Without
  <2>3. QED
    BY <1>4, <2>1, <2>2
<1>6. CacheSound'
  <2>1. CASE isEntryTerm(d0)
    <3>1. Open \cap Free(t0) = {}
      BY <1>2, <2>1 DEF Free, isEntryTerm
    <3>2. m[t0] = DefMeaningOf(prog, d0, <<>>)
      BY <3>1, NoEnvironment
    <3>3. cache' = With(cache, d0, m[t0])
      BY <2>1 DEF LeaveFunDef
    <3>4. ASSUME NEW d \in DOMAIN cache'
          PROVE  \/ d \in DOMAIN cache /\ cache'[d] = cache[d]
                 \/ d \in Known(scc) /\ cache'[d] = DefMeaningOf(prog, d, <<>>)
      BY <1>2, <3>2, <3>3 DEF With
    <3>5. QED
      BY <1>1, <3>4, CacheStays
  <2>2. CASE ~isEntryTerm(d0)
    <3>1. cache' = cache
      BY <2>2 DEF LeaveFunDef
    <3>2. QED
      BY <1>1, <3>1, CacheStays
  <2>3. QED
    BY <2>1, <2>2
<1>7. memo'[t0] = Meant(t0)
  BY <1>2, <1>5 DEF Meant, MeantIn
<1>8. ASSUME NEW n \in DOMAIN memo', n # t0 PROVE Open \cap successors(dgr, n) \subseteq OpenBelow
  <2>1. \A d \in Open : d \in OpenBelow \/ (d = d0 /\ isFixpoint(d0))
    BY OpenNow
  <2>2. QED
    BY <1>5, <1>8, <2>1
<1>9. QED
  BY <1>1, <1>3, <1>4, <1>6, <1>7, <1>8, SoundReturn DEF Undisturbed

-------------------------------------------------------------------------------
(***************************************************************************)
(* eval_fundef keeps what definitions stand for                            *)
(***************************************************************************)
\* A cached predicate is that of a closed definition.
LEMMA FoundInCacheSound == ASSUME Inv, Sound, FoundInCache PROVE Sound'
<1>1. /\ Running /\ op(t0) = "fundef" /\ d0 \in DOMAIN cache /\ isEntryTerm(d0)
      /\ memo' = With(memo, t0, cache[d0]) /\ stack' = Tail(stack) /\ ~(top.at > 0)
      /\ Same /\ cache' = cache /\ lazy' = lazy /\ answer' = answer /\ Undisturbed /\ Enters
  BY SessionSame, FoundInCacheInv DEF FoundInCache, Enters, Cached, At, Return
<1>2. isFunDef(t0) /\ \A j \in DOMAIN stack : j > 1 => stack[j].node # t0
  BY <1>1, FundefOp, EntersOnce
<1>3. d0 \in Known(scc) /\ t0 = <<d0>> /\ definition(t0) = d0
  BY <1>1, <1>2, TopDefinition
<1>4. Env(t0) = <<>>
  <2>1. Open \cap Free(t0) = {}
    BY <1>1, <1>2, <1>3 DEF Free, isEntryTerm
  <2>2. QED
    BY <2>1, NoEnvironment
<1>5. cache[d0] = DefMeaningOf(prog, d0, <<>>)
  <2>1. answer = Asked /\ Asked # Rejected
    BY <1>1, WhileRunning DEF Asked, Rejected
  <2>2. QED
    BY <1>1, <2>1 DEF Sound, CacheSound
<1>6. memo'[t0] = Meant(t0)
  <2>1. memo'[t0] = cache[d0]
    BY <1>1 DEF With
  <2>2. QED
    BY <1>2, <1>3, <1>4, <1>5, <2>1 DEF Meant, MeantIn
<1>7. CacheSound'
  BY <1>1, CacheStays
<1>8. HeldLeft /\ Open \subseteq OpenBelow
  BY <1>1, <1>2, DefHeldLeft, OpenNow
<1>9. QED
  BY <1>1, <1>6, <1>7, <1>8, SoundReturn DEF Undisturbed

\* A definition that is no fixpoint means what its body means.
LEMMA EnterPlainSound == ASSUME Inv, Sound, EnterPlain PROVE Sound'
<1>1. PICK f : f = AtNext
  OBVIOUS
<1>2. /\ Enters /\ Running /\ top.at = 0 /\ isFunDef(t0) /\ ~isFixpoint(d0)
      /\ stack' = <<Frame(body(t0)), f>> \o Tail(stack)
      /\ UNCHANGED <<session, dgr, lazy, answer>> /\ Undisturbed
  BY <1>1, FundefOp, EnterPlainInv DEF EnterPlain, Enters, At, Call
<1>3. \A j \in DOMAIN stack : j > 1 => stack[j].node # t0
  BY <1>2, EntersOnce
<1>4. f \in FrameSet /\ f.node = t0 /\ f.at = 1
  <2>1. top \in FrameSet
    BY <1>2, WhileRunning
  <2>2. QED
    BY <1>1, <1>2, <2>1 DEF AtNext, FrameSet, t0
<1>5. QED
  BY <1>2, <1>3, <1>4, DefGoesOn

\* Its body's predicate is taken over.
LEMMA FinishPlainSound == ASSUME Inv, Sound, FinishPlain PROVE Sound'
<1> DEFINE m == With(Without(memo, {body(t0)}), t0, memo[body(t0)])
<1>1. /\ Running /\ isFunDef(t0) /\ \A j \in DOMAIN stack : j > 1 => stack[j].node # t0
      /\ LeaveFunDef(m) /\ ~isFixpoint(d0) /\ Undisturbed /\ At(1) /\ op(t0) = "fundef"
      /\ UNCHANGED <<prog, flags, scc, query, dgr, lazy, answer>>
  BY BodyTyped, FinishPlainInv DEF FinishPlain
<1>2. t0 \in DOMAIN m /\ m[t0] = memo[body(t0)]
  BY DEF With
<1> HIDE DEF m
<1>3. memo[body(t0)] = MeaningOf(prog, prog[d0].body, Env(t0))
  <2>1. /\ Env(t0) \in Environments(prog) /\ DOMAIN Env(t0) = Open \cap Free(t0)
        /\ \A d \in Open \cap Free(t0) : Env(t0)[d] = memo[<<d>>]
    BY <1>1, EnvTyped
  <2>2. successors(dgr, body(t0)) \subseteq successors(dgr, t0) /\ definition(t0) = d0
    BY <1>1, WhileRunning, DefPlace DEF d0
  <2>3. d0 \notin Open
    BY <1>1 DEF Open
  <2>4. Knows(Env(t0), body(t0))
    BY <2>1, <2>2, <2>3 DEF Knows, Free
  <2>5. QED
    BY <1>1, <2>1, <2>4, BodyValue
<1>4. m[t0] = DefMeaningOf(prog, d0, Env(t0))
  BY <1>1, <1>2, <1>3, DefMeans
<1>5. QED
  BY <1>1, <1>2, <1>4, LeaveSound

\* After reset_dependencies nothing else depends on the definition.
LEMMA ResetFree ==
  ASSUME NEW w, NEW n \in DOMAIN reset_dependencies(w, d0), n # <<d0>>
  PROVE  d0 \notin successors(dgr, n)
<1>1. n \notin predecessors(dgr, d0)
  BY DEF reset_dependencies, Without
<1>2. QED
  BY <1>1 DEF predecessors, successors

\* The bounds are on their side of the fixpoint.
LEMMA EnterFixpointSound == ASSUME Inv, Sound, EnterFixpoint PROVE Sound'
<1> DEFINE p == IF prog[d0].kind = "nu" THEN Points ELSE {}
           m == reset_dependencies(With(memo, t0, p), d0)
           B(a) == Round(prog, d0, a, Env(t0))
<1>1. PICK f : f = [AtNext EXCEPT !.last = p, !.outer = current]
  OBVIOUS
<1>2. /\ Enters /\ Running /\ top.at = 0 /\ isFunDef(t0) /\ isFixpoint(d0)
      /\ stack' = <<Frame(body(t0)), f>> \o Tail(stack) /\ memo' = m
      /\ UNCHANGED <<session, dgr, lazy, answer>> /\ Undisturbed
  BY <1>1, FundefOp, EnterFixpointInv DEF EnterFixpoint, Enters, At, Call
<1>3. /\ \A j \in DOMAIN stack : j > 1 => stack[j].node # t0
      /\ t0 = <<d0>>
  BY <1>2, EntersOnce, TopDefinition
<1>4. p \in Unary
  BY UnaryBounds
<1> HIDE DEF p
<1>5. f \in FrameSet /\ f.node = t0 /\ f.at = 1 /\ f.last = p
  <2>1. top \in FrameSet
    BY <1>2, WhileRunning
  <2>2. current \in Defs \cup {NoDef}
    BY DEF Inv, RestTyped
  <2>3. /\ AtNext = [top EXCEPT !.at = 1] /\ AtNext \in FrameSet
        /\ AtNext.node = t0 /\ AtNext.at = 1
    BY <1>2, <2>1 DEF AtNext, FrameSet, t0
  <2>4. QED
    BY <1>1, <1>4, <2>2, <2>3 DEF FrameSet
<1>6. m[t0] = p
  BY <1>2, <1>3, DependenciesReset
<1>7. \A n \in DOMAIN m : n # t0 => d0 \notin successors(dgr, n)
  BY <1>3, ResetFree
<1> HIDE DEF m
<1>8. \A a \in Unary : B(a) \in Predicates
  BY <1>2, RoundMonotone
<1> HIDE DEF B
<1>9. After(f, d0, f.last, B(memo'[t0])) = B(f.last)
  <2>1. memo'[t0] = p /\ f.last = p /\ B(p) \subseteq Points
    BY <1>2, <1>4, <1>5, <1>6, <1>8 DEF Predicates
  <2>2. CASE prog[d0].kind = "mu"
    <3>1. p = {}
      BY <2>2 DEF p
    <3>2. QED
      BY <2>1, <2>2, <3>1 DEF After
  <2>3. CASE prog[d0].kind # "mu"
    <3>1. p = Points
      BY <1>2, <2>3 DEF p, isFixpoint
    <3>2. B(p) \cap p = B(p)
      BY <2>1, <3>1
    <3>3. QED
      BY <2>1, <2>3, <3>2 DEF After
  <2>4. QED
    BY <2>2, <2>3
<1>10. IF prog[d0].kind = "mu"
       THEN f.last \subseteq B(f.last) /\ \A a \in Unary : B(a) \subseteq a => f.last \subseteq a
       ELSE B(f.last) \subseteq f.last /\ \A a \in Unary : a \subseteq B(a) => a \subseteq f.last
  <2>1. CASE prog[d0].kind = "mu"
    BY <1>5, <2>1 DEF p
  <2>2. CASE prog[d0].kind # "mu"
    <3>1. f.last = Points
      BY <1>2, <1>5, <2>2 DEF p, isFixpoint
    <3>2. B(f.last) \subseteq f.last
      BY <1>4, <1>5, <1>8, <3>1 DEF Predicates
    <3>3. \A a \in Unary : a \subseteq f.last
      BY <3>1, UnaryBounds DEF Predicates
    <3>4. QED
      BY <2>2, <3>2, <3>3
  <2>3. QED
    BY <2>1, <2>2
<1>11. QED
  BY <1>2, <1>3, <1>5, <1>7, <1>9, <1>10, DefGoesOn DEF B

\* What a round is evaluated to, and the approximation after it.
LEMMA RoundNow ==
  ASSUME Inv, Sound, AfterRound
  PROVE  LET B(a) == Round(prog, d0, a, Env(t0))
             l == top.last
         IN /\ l \in Unary /\ Approximation = B(l) /\ Approximation \in Unary
            /\ IF prog[d0].kind = "mu"
               THEN l \subseteq B(l) /\ \A a \in Unary : B(a) \subseteq a => l \subseteq a
               ELSE B(l) \subseteq l /\ \A a \in Unary : a \subseteq B(a) => a \subseteq l
<1> DEFINE B(a) == Round(prog, d0, a, Env(t0))
<1>1. /\ Running /\ isFunDef(t0) /\ top.at > 0 /\ isFixpoint(d0) /\ top.last \in Unary /\ At(1)
      /\ op(t0) = "fundef" /\ Approximation \in Unary
  BY BodyTyped, ApproximationTyped DEF AfterRound, At
<1>2. 1 \in DOMAIN stack /\ stack[1] = top /\ top.node = t0 /\ definition(top.node) = d0 /\ t0 = <<d0>>
  BY <1>1, WhileRunning, TopDefinition DEF t0, top
<1>3. RoundSound(top)
  BY <1>2 DEF Sound, FramesSound
<1>4. /\ After(top, d0, top.last, B(memo[t0])) = B(top.last)
      /\ IF prog[d0].kind = "mu"
         THEN top.last \subseteq B(top.last) /\ \A a \in Unary : B(a) \subseteq a => top.last \subseteq a
         ELSE B(top.last) \subseteq top.last /\ \A a \in Unary : a \subseteq B(a) => a \subseteq top.last
  BY <1>1, <1>2, <1>3 DEF RoundSound
<1>5. memo[body(t0)] = B(memo[t0])
  <2> DEFINE e == With(Env(t0), d0, memo[t0])
  <2>1. /\ d0 \in Open /\ memo[t0] \in Unary /\ d0 \in Fixpoints(prog) \cap WellFounded(prog)
        /\ Env(t0) \in Environments(prog) /\ DOMAIN Env(t0) = Open \cap Free(t0)
        /\ \A d \in Open \cap Free(t0) : Env(t0)[d] = memo[<<d>>]
    BY <1>1, <1>2, OpenNow, OpenKept, EnvTyped
  <2>2. e \in Environments(prog) /\ DOMAIN e = (Open \cap Free(t0)) \cup {d0}
    BY <2>1, EnvironmentWith
  <2>3. \A d \in DOMAIN e : e[d] = memo[<<d>>]
    BY <1>2, <2>1 DEF With
  <2>4. successors(dgr, body(t0)) \subseteq successors(dgr, t0) /\ definition(t0) = d0
    BY <1>1, WhileRunning, DefPlace DEF d0
  <2> HIDE DEF e
  <2>5. Knows(e, body(t0))
    BY <2>2, <2>3, <2>4 DEF Knows, Free
  <2>6. DOMAIN e \subseteq Open
    BY <2>1, <2>2
  <2>7. memo[body(t0)] = MeaningOf(prog, prog[d0].body, e)
    BY <1>1, <2>2, <2>5, <2>6, BodyValue
  <2>8. QED
    BY <2>7 DEF Round, e
<1>6. Approximation = After(top, d0, top.last, memo[body(t0)])
  BY DEF Approximation, After
<1>7. QED
  BY <1>1, <1>4, <1>5, <1>6

\* With frontier sets, too, a round leads on as from the approximation.
LEMMA FrontierRound ==
  ASSUME Inv, Sound, AfterRound, NEW delta \in Frontiers(Approximation),
         NEW f, ~f.first
  PROVE  LET B(a) == Round(prog, d0, a, Env(t0))
         IN After(f, d0, Approximation, B(delta)) = B(Approximation)
<1> DEFINE B(a) == Round(prog, d0, a, Env(t0))
           l == top.last
           p == Approximation
<1>1. /\ l \in Unary /\ p = B(l) /\ p \in Unary
      /\ IF prog[d0].kind = "mu" THEN l \subseteq p ELSE p \subseteq l
  BY RoundNow
<1>2. delta \in Unary
  BY <1>1, FrontiersTyped
<1>3. CASE ~flags.frontier
  BY <1>3 DEF Frontiers, After
<1>4. CASE flags.frontier
  <2>1. /\ Running /\ isFunDef(t0) /\ isFixpoint(d0)
    BY BodyTyped DEF AfterRound
  <2>2. /\ prog \in LinearPrograms /\ Env(t0) \in Environments(prog)
        /\ d0 \in (Fixpoints(prog) \cap WellFounded(prog)) \ DOMAIN Env(t0)
    BY <1>4, <2>1, TopDefinition DEF Sound, FrontierKept
  <2>3. \A a, b \in Unary :
          IF prog[d0].kind = "mu" THEN B(a \cup b) = B(a) \cup B(b) ELSE B(a \cap b) = B(a) \cap B(b)
    BY <2>2, LinearAssumption
  <2>4. CASE prog[d0].kind = "mu"
    <3>1. PICK q \in Unary : q \subseteq l /\ delta = (p \ l) \cup q
      BY <1>4, <2>4 DEF Frontiers
    <3> HIDE DEF B, l, p
    <3>2. delta \cup l = p
      BY <1>1, <2>4, <3>1
    <3>3. B(delta \cup l) = B(delta) \cup B(l)
      BY <1>1, <1>2, <2>3, <2>4
    <3>4. B(p) = B(delta) \cup p
      BY <1>1, <3>2, <3>3
    <3>5. After(f, d0, p, B(delta)) = B(delta) \cup p
      BY <1>4, <2>4 DEF After
    <3>6. QED
      BY <3>4, <3>5 DEF B, p
  <2>5. CASE prog[d0].kind # "mu"
    <3>1. PICK q \in Unary : q \cap l = {} /\ delta = (p \cup (Points \ l)) \ q
      BY <1>4, <2>5 DEF Frontiers
    <3>2. l \subseteq Points
      BY <1>1, UnaryBounds DEF Predicates
    <3> HIDE DEF B, l, p
    <3>3. delta \cap l = p
      BY <1>1, <2>5, <3>1, <3>2
    <3>4. B(delta \cap l) = B(delta) \cap B(l)
      BY <1>1, <1>2, <2>3, <2>5
    <3>5. B(p) = B(delta) \cap p
      BY <1>1, <3>3, <3>4
    <3>6. After(f, d0, p, B(delta)) = B(delta) \cap p
      BY <1>4, <2>5 DEF After
    <3>7. QED
      BY <3>5, <3>6 DEF B, p
  <2>6. QED
    BY <2>4, <2>5
<1>5. QED
  BY <1>3, <1>4

\* The next approximation is on the same side of the fixpoint.
LEMMA NextRoundSound == ASSUME Inv, Sound, NextRound PROVE Sound'
<1> DEFINE p == Approximation
           B(a) == Round(prog, d0, a, Env(t0))
<1>1. PICK f : f = [top EXCEPT !.last = p, !.first = FALSE]
  OBVIOUS
<1>2. PICK delta \in Frontiers(p) :
        Call(body(t0), f, reset_dependencies(With(Without(memo, {body(t0)}), t0, delta), d0))
  BY <1>1 DEF NextRound
<1> DEFINE m == reset_dependencies(With(Without(memo, {body(t0)}), t0, delta), d0)
<1>3. /\ Running /\ isFunDef(t0) /\ \A j \in DOMAIN stack : j > 1 => stack[j].node # t0
      /\ top \in FrameSet /\ top.at = 1 /\ stack' = <<Frame(body(t0)), f>> \o Tail(stack) /\ memo' = m
      /\ UNCHANGED <<session, dgr, lazy, answer>> /\ isFixpoint(d0) /\ AfterRound /\ Undisturbed
  BY <1>2, BodyTyped, NextRoundInv DEF NextRound, AfterRound, At, Call
<1>4. m[t0] = delta
  BY <1>3, DependenciesReset
<1>5. \A n \in DOMAIN m : n # t0 => d0 \notin successors(dgr, n)
  BY <1>3, ResetFree, TopDefinition
<1> HIDE DEF m
<1>6. /\ top.last \in Unary /\ p = B(top.last) /\ p \in Unary
      /\ IF prog[d0].kind = "mu"
         THEN top.last \subseteq B(top.last) /\ \A a \in Unary : B(a) \subseteq a => top.last \subseteq a
         ELSE B(top.last) \subseteq top.last /\ \A a \in Unary : a \subseteq B(a) => a \subseteq top.last
  BY <1>3, RoundNow
<1>7. \A a, b \in Unary : a \subseteq b => B(a) \subseteq B(b)
  BY <1>3, RoundMonotone
<1>8. f \in FrameSet /\ f.node = t0 /\ f.at = 1 /\ ~f.first /\ f.last = p
  <2> HIDE DEF p
  <2>1. QED
    BY <1>1, <1>3, <1>6 DEF FrameSet, t0
<1>9. After(f, d0, p, B(delta)) = B(p)
  BY <1>3, <1>8, FrontierRound
<1> HIDE DEF p, B
<1>10. IF prog[d0].kind = "mu"
       THEN p \subseteq B(p) /\ \A a \in Unary : B(a) \subseteq a => p \subseteq a
       ELSE B(p) \subseteq p /\ \A a \in Unary : a \subseteq B(a) => a \subseteq p
  <2>1. CASE prog[d0].kind = "mu"
    <3>1. p \subseteq B(p)
      BY <1>6, <1>7, <2>1
    <3>2. ASSUME NEW a \in Unary, B(a) \subseteq a PROVE p \subseteq a
      <4>1. B(top.last) \subseteq B(a)
        BY <1>6, <1>7, <2>1, <3>2
      <4>2. QED
        BY <1>6, <3>2, <4>1
    <3>3. QED
      BY <2>1, <3>1, <3>2
  <2>2. CASE prog[d0].kind # "mu"
    <3>1. B(p) \subseteq p
      BY <1>6, <1>7, <2>2
    <3>2. ASSUME NEW a \in Unary, a \subseteq B(a) PROVE a \subseteq p
      <4>1. B(a) \subseteq B(top.last)
        BY <1>6, <1>7, <2>2, <3>2
      <4>2. QED
        BY <1>6, <3>2, <4>1
    <3>3. QED
      BY <2>2, <3>1, <3>2
  <2>3. QED
    BY <2>1, <2>2
<1>11. QED
  BY <1>3, <1>4, <1>5, <1>8, <1>9, <1>10, DefGoesOn DEF B

\* A round that does not depend on the approximation leads to itself.
LEMMA RoundAlike ==
  ASSUME Inv, Sound, AfterRound, d0 \notin successors(dgr, t0), NEW a \in Unary, NEW b \in Unary
  PROVE  Round(prog, d0, a, Env(t0)) = Round(prog, d0, b, Env(t0))
<1>1. Running /\ isFunDef(t0) /\ top.at > 0 /\ isFixpoint(d0) /\ Prepared /\ prog \in Programs
  BY BodyTyped, WhileRunning DEF AfterRound, At, Prepared
<1>2. /\ d0 \in Fixpoints(prog) \cap WellFounded(prog) /\ definition(t0) = d0 /\ d0 \in Known(scc)
      /\ Env(t0) \in Environments(prog) /\ DOMAIN Env(t0) = Open \cap Free(t0)
      /\ d0 \in Open
  BY <1>1, TopDefinition, OpenNow
<1> DEFINE e == With(Env(t0), d0, a)
           f == With(Env(t0), d0, b)
           m == body(t0)
           D == successors(dgr, m) \cap Open
           t == prog[d0].body
<1>3. /\ e \in Environments(prog) /\ DOMAIN e = (Open \cap Free(t0)) \cup {d0}
  BY <1>2, EnvironmentWith
<1>4. /\ f \in Environments(prog) /\ DOMAIN f = (Open \cap Free(t0)) \cup {d0}
  BY <1>2, EnvironmentWith
<1>5. /\ m \in Places /\ ~isFunDef(m) /\ definition(m) = d0 /\ Term(m) = t
      /\ successors(dgr, m) \subseteq successors(dgr, t0)
  BY <1>1, WhileRunning, DefPlace DEF d0
<1>6. <<definition(m), Open>> \in QuerySettings
  BY <1>1, <1>2, <1>5, TopSetting
<1>7. t \in Legal(prog) /\ DefsIn(t) \subseteq WellFounded(prog)
  BY <1>1, <1>2, WellFoundedBodies
<1>8. Cut(prog, DefsIn(t), Open, D)
  <2> HIDE DEF m
  <2>1. Cut(prog, DefsIn(Term(m)), Open, successors(dgr, m) \cap Open)
    BY <1>1, <1>5, <1>6, SettingAt
  <2>2. QED
    BY <1>5, <2>1
<1>9. \A d \in D : d \in Open \cap Free(t0) /\ d # d0
  BY <1>2, <1>5 DEF Free
<1>10. \A d \in Open \cap Free(t0) : d # d0 => e[d] = f[d]
  BY <1>2 DEF With
<1> HIDE DEF e, f, D, t
<1>11. \A d \in D : d \in DOMAIN e /\ d \in DOMAIN f /\ e[d] = f[d]
  BY <1>3, <1>4, <1>9, <1>10
<1>12. DOMAIN e \subseteq Open /\ DOMAIN f \subseteq Open
  BY <1>2, <1>3, <1>4
<1>13. Alike(prog, prog, e, f, DefsIn(t))
  BY <1>1, <1>7, <1>8, <1>11, <1>12, CutAlike
<1>14. MeaningOf(prog, t, e) = MeaningOf(prog, t, f)
  BY <1>1, <1>3, <1>4, <1>7, <1>13, Coincidence
<1>15. QED
  BY <1>14 DEF Round, t, e, f

\* When an iteration ends, the fixpoint is reached.
LEMMA FinishFixpointSound == ASSUME Inv, Sound, FinishFixpoint PROVE Sound'
<1> DEFINE p == Approximation
           l == top.last
           B(a) == Round(prog, d0, a, Env(t0))
           m == reset_dependencies(With(Without(memo, {body(t0)}), t0, p), d0)
           v == DefMeaningOf(prog, d0, Env(t0))
<1>1. /\ Running /\ isFunDef(t0) /\ \A j \in DOMAIN stack : j > 1 => stack[j].node # t0
      /\ AfterRound /\ finished /\ isFixpoint(d0) /\ LeaveFunDef(m) /\ Undisturbed
      /\ UNCHANGED <<prog, flags, scc, query, dgr, lazy, answer>>
  BY BodyTyped, FinishFixpointInv DEF FinishFixpoint, AfterRound
<1>2. t0 \in DOMAIN m /\ m[t0] = p
  BY <1>1, DependenciesReset
<1>3. \A n \in DOMAIN m : n # t0 => d0 \notin successors(dgr, n)
  BY <1>1, ResetFree, TopDefinition
<1>4. /\ l \in Unary /\ p = B(l) /\ p \in Unary
      /\ IF prog[d0].kind = "mu"
         THEN l \subseteq B(l) /\ \A a \in Unary : B(a) \subseteq a => l \subseteq a
         ELSE B(l) \subseteq l /\ \A a \in Unary : a \subseteq B(a) => a \subseteq l
  BY <1>1, RoundNow
<1>5. \A a, b \in Unary : a \subseteq b => B(a) \subseteq B(b)
  BY <1>1, RoundMonotone
<1>6. /\ prog[d0].kind = "mu" => v = {w \in Points : \A a \in Unary : B(a) \subseteq a => w \in a}
      /\ prog[d0].kind = "nu" => v = UNION {a \in Unary : a \subseteq B(a)}
      /\ prog[d0].kind \in {"mu", "nu"}
  BY <1>1, DefMeans DEF isFixpoint
<1>7. \/ B(p) = p
      \/ prog[d0].kind = "nu" /\ p = {}
      \/ prog[d0].kind = "mu" /\ p = Points
  <2>1. CASE top.first /\ <<t0, d0>> \notin dgr
    <3>1. d0 \notin successors(dgr, t0)
      <4>1. answer = Asked
        BY <1>1, WhileRunning
      <4>2. \A x \in dgr : x = <<x[1], x[2]>>
        BY <4>1 DEF Inv, Evaluating, GraphFits
      <4>3. \A x \in dgr : x[1] = t0 /\ x[2] = d0 => x = <<t0, d0>>
        BY <4>2
      <4>4. QED
        BY <2>1, <4>3 DEF successors
    <3>2. B(p) = B(l)
      BY <1>1, <1>4, <3>1, RoundAlike
    <3>3. QED
      BY <1>4, <3>2
  <2>2. CASE p = l
    BY <1>4, <2>2
  <2>3. QED
    BY <1>1, <2>1, <2>2 DEF finished
<1>8. p \subseteq Points
  BY <1>4, UnaryBounds DEF Predicates
<1> HIDE DEF p, l, B, v, m
<1>9. v = p
  <2>1. CASE prog[d0].kind = "mu"
    <3>1. ASSUME NEW a \in Unary, B(a) \subseteq a PROVE p \subseteq a
      <4>1. B(l) \subseteq B(a)
        BY <1>4, <1>5, <2>1, <3>1
      <4>2. QED
        BY <1>4, <3>1, <4>1
    <3>2. p \subseteq v
      BY <1>6, <1>8, <2>1, <3>1
    <3>3. v \subseteq p
      <4>1. CASE B(p) = p
        BY <1>4, <1>6, <2>1, <4>1
      <4>2. CASE p = Points
        BY <1>6, <2>1, <4>2
      <4>3. QED
        BY <1>7, <2>1, <4>1, <4>2
    <3>4. QED
      BY <3>2, <3>3
  <2>2. CASE prog[d0].kind = "nu"
    <3>1. ASSUME NEW a \in Unary, a \subseteq B(a) PROVE a \subseteq p
      <4>1. B(a) \subseteq B(l)
        BY <1>4, <1>5, <2>2, <3>1
      <4>2. QED
        BY <1>4, <3>1, <4>1
    <3>2. v \subseteq p
      BY <1>6, <2>2, <3>1
    <3>3. p \subseteq v
      <4>1. CASE B(p) = p
        BY <1>4, <1>6, <2>2, <4>1
      <4>2. CASE p = {}
        BY <4>2
      <4>3. QED
        BY <1>7, <2>2, <4>1, <4>2
    <3>4. QED
      BY <3>2, <3>3
  <2>3. QED
    BY <1>6, <2>1, <2>2
<1>10. QED
  BY <1>1, <1>2, <1>3, <1>9, LeaveSound DEF v

-------------------------------------------------------------------------------
(***************************************************************************)
(* Between two questions                                                   *)
(***************************************************************************)
\* Without an evaluator, soundness is about what outlives it.
LEMMA RestingSound == Resting /\ CacheSound /\ FrontierKept => Sound
<1> SUFFICES ASSUME Resting, CacheSound, FrontierKept PROVE Sound
  OBVIOUS
<1>1. DOMAIN stack = {} /\ DOMAIN memo = {} /\ answer # Asked
  BY EmptyDomain DEF Resting
<1>2. SettingsKept /\ MemoSound /\ FramesSound /\ FramesSet
  BY <1>1 DEF SettingsKept, MemoSound, FramesSound, FramesSet
<1>3. QED
  BY <1>2 DEF Sound

\* A new evaluator has kept nothing, and evaluates the term in its setting.
LEMMA BeginningSound == Beginning /\ CacheSound /\ FrontierKept /\ SettingsKept => Sound
<1> SUFFICES ASSUME Beginning, CacheSound, FrontierKept, SettingsKept PROVE Sound
  OBVIOUS
<1> DEFINE n == <<Query, 1>>
           f == Frame(n)
<1>1. answer = Asked /\ stack = <<f>> /\ DOMAIN memo = {}
  BY EmptyDomain DEF Beginning
<1>2. f.at = 0 /\ f.node = n
  BY DEF Frame
<1>3. ~isFunDef(n) /\ definition(n) = Query
  BY DEF isFunDef, definition
<1> HIDE DEF f
<1>4. DOMAIN stack = {1} /\ stack[1] = f
  BY <1>1
<1>5. OpenAt(stack, 1) = {}
  BY <1>2, <1>4 DEF OpenAt
<1>6. <<Query, {}>> \in QuerySettings
  BY <1>1 DEF SettingsKept, SettingsFit
<1>7. InSetting(stack, 1)
  BY <1>2, <1>3, <1>4, <1>5, <1>6 DEF InSetting
<1>8. HeldSound(f) /\ RoundSound(f)
  BY <1>2 DEF HeldSound, RoundSound
<1>9. MemoSound /\ FramesSound /\ FramesSet
  BY <1>1, <1>4, <1>7, <1>8 DEF MemoSound, FramesSound, FramesSet
<1>10. QED
  BY <1>9 DEF Sound

\* With frontier sets, the user starts with a linear program.
LEMMA InitSound == ASSUME FrontiersFit, Init PROVE Sound
<1>1. Resting
  BY InitResting
<1>2. FrontierKept
  BY DEF Init, FrontiersFit, FrontierKept
<1>3. CacheSound
  BY EmptyDomain DEF Init, CacheSound
<1>4. QED
  BY <1>1, <1>2, <1>3, RestingSound

\* A question leaves the cached predicates, and a term that is accepted is
\* prepared for all settings that its evaluation meets.
LEMMA AskSound ==
  ASSUME ~AskAgain, Inv, Sound, NEW q \in Queries, Ask(q)
  PROVE  Sound'
<1> DEFINE s == SccOf(prog, Bodies(q), scc)
           g == DependenciesOf(Bodies(q))
<1>1. /\ Resting /\ answer # Rejected
      /\ query' = q /\ scc' = s.scc /\ prog' = prog /\ flags' = flags /\ cache' = cache
      /\ \/ s.valid /\ g.ok /\ dgr' = g.graph /\ answer' = Asked
         \/ answer' = Rejected
  BY RestingNow DEF Ask
<1>2. prog \in Programs /\ scc \in Components /\ SccFits(prog, scc)
  BY <1>1 DEF Resting, RestTyped, ComponentsFit
<1>3. Bodies(q) = BodiesIn(prog, q) /\ Bodies(query)' = Bodies(q)
  BY <1>1 DEF Bodies, BodiesIn
<1> HIDE DEF s, g
<1>4. s.valid => SccFits(prog, s.scc) /\ DefsIn(q) \cup Known(scc) \subseteq Known(s.scc)
  BY <1>2, <1>3, SccAssumption DEF s
<1>5. FrontierKept'
  BY <1>1 DEF Sound, FrontierKept
<1>6. CASE answer' = Rejected
  <2>1. CacheSound'
    BY <1>6 DEF CacheSound
  <2>2. answer' # Asked
    BY <1>6 DEF Asked, Rejected
  <2>3. Resting'
    BY <2>2, AskSteps DEF Beginning
  <2>4. QED
    BY <1>5, <2>1, <2>3, RestingSound, PTL
<1>7. CASE s.valid /\ g.ok /\ dgr' = g.graph /\ answer' = Asked
  <2>1. CacheSound'
    <3>1. Known(scc)' = Known(s.scc)
      BY <1>1 DEF Known
    <3>2. \A d \in DOMAIN cache : d \in Known(scc) /\ cache[d] = DefMeaningOf(prog, d, <<>>)
      BY <1>1 DEF Sound, CacheSound
    <3>3. QED
      BY <1>1, <1>4, <1>7, <3>1, <3>2 DEF CacheSound
  <2>2. q \in Legal(prog)
    <3>1. q \in AllTerms
      BY ProgramsAssumption
    <3>2. Known(s.scc) \subseteq WellFounded(prog)
      BY <1>4, <1>7 DEF SccFits, WellFounded, Known
    <3>3. QED
      BY <1>4, <1>7, <3>1, <3>2 DEF Legal
  <2>3. SettingsFit(prog, Bodies(q), g.graph, PlacesOf(Bodies(q)), SettingsIn(prog, q))
    BY <1>2, <1>3, <1>7, <2>2, SettingsAssumption DEF g
  <2>4. Places' = PlacesOf(Bodies(q)) /\ QuerySettings' = SettingsIn(prog, q)
    BY <1>1, <1>3 DEF Places, QuerySettings
  <2>5. SettingsFit(prog, Bodies(query), dgr, Places, QuerySettings)'
    BY <1>1, <1>3, <1>7, <2>3, <2>4 DEF SettingsFit
  <2>6. SettingsKept'
    BY <2>5 DEF SettingsKept
  <2>7. Beginning'
    BY <1>7, AskSteps DEF Resting
  <2>8. QED
    BY <1>5, <2>1, <2>6, <2>7, BeginningSound, PTL
<1>8. QED
  BY <1>1, <1>6, <1>7

\* When all handlers have returned, the term's predicate is what it means.
LEMMA AnswerMeans ==
  ASSUME Inv, Sound, Answer
  PROVE  memo[<<Query, 1>>] = MeaningOf(prog, query, <<>>)
<1> DEFINE n == <<Query, 1>>
<1>1. stack = <<>> /\ answer = Asked /\ n \in DOMAIN memo
  BY DEF Answer, Idle, Inv, Evaluating, valid
<1>2. Active = {}
  BY <1>1, EmptyDomain DEF Active
<1>3. Open = {}
  BY <1>2 DEF Open
<1>4. Term(n) = query /\ ~isFunDef(n)
  <2>1. TermAt(Bodies(query), n) = Bodies(query)[Query]
    BY TermAtBody
  <2>2. QED
    BY <2>1 DEF Term, Bodies, isFunDef, definition
<1>5. memo[n] = MeaningOf(prog, query, MemoEnv(n))
  BY <1>1, <1>2, <1>4, MemoSoundIs DEF Sound, MeantIn
<1>6. MemoEnv(n) = <<>>
  <2>1. \A h, k : DOMAIN h = {} /\ DOMAIN k = {} /\ h = [x \in DOMAIN h |-> h[x]] /\ k = [x \in DOMAIN k |-> k[x]]
                    => h = k
    OBVIOUS
  <2>2. DOMAIN MemoEnv(n) = {} /\ MemoEnv(n) = [x \in DOMAIN MemoEnv(n) |-> MemoEnv(n)[x]]
    BY <1>3 DEF MemoEnv
  <2>3. DOMAIN <<>> = {} /\ <<>> = [x \in DOMAIN <<>> |-> <<>>[x]]
    OBVIOUS
  <2>4. QED
    BY <2>1, <2>2, <2>3
<1>7. QED
  BY <1>5, <1>6

\* With the answer, only the cache stays.
LEMMA AnswerSound == ASSUME Inv, Sound, Answer PROVE Sound'
<1>1. /\ answer = Asked /\ prog' = prog /\ flags' = flags /\ scc' = scc /\ cache' = cache
  BY DEF Answer, session
<1>2. Known(scc)' = Known(scc) /\ answer # Rejected
  BY <1>1 DEF Known, Asked, Rejected
<1>3. CacheSound' /\ FrontierKept'
  BY <1>1, <1>2 DEF Sound, CacheSound, FrontierKept
<1>4. Resting'
  BY AnswerSteps
<1>5. QED
  BY <1>3, <1>4, RestingSound, PTL

\* A definition that has no component is not led to from one that is cached.
LEMMA RedefineSound ==
  ASSUME ~RedefineLate, Inv, Sound, NEW r \in Redefinitions, Redefine(r[1], r[2])
  PROVE  Sound'
<1> DEFINE d == r[1]
           K == Known(scc)
<1>1. /\ Resting /\ scc[d] = NoScc /\ prog' = [prog EXCEPT ![d].body = r[2]]
      /\ flags' = flags /\ scc' = scc /\ cache' = cache /\ answer' = answer
  BY RestingNow DEF Redefine
<1>2. prog \in Programs /\ d \in Defs /\ prog' \in Programs
  BY <1>1, ProgramsAssumption DEF Resting, RestTyped
<1>3. FrontierKept'
  BY <1>1, LinearAssumption DEF Sound, FrontierKept
<1>4. Resting'
  BY RedefineSteps
<1>5. ASSUME answer # Rejected, NEW c \in K
      PROVE  DefMeaningOf(prog', c, <<>>) = DefMeaningOf(prog, c, <<>>)
  <2>1. SccFits(prog, scc) /\ SccFits(prog', scc)
    <3>1. SccFits(prog, scc) /\ SccFits(prog, scc)'
      BY <1>1, <1>4, <1>5 DEF Resting, ComponentsFit
    <3>2. SccFits(prog, scc)' => SccFits(prog', scc)
      BY <1>1 DEF SccFits, Founded, ClosedIn, Known
    <3>3. QED
      BY <3>1, <3>2
  <2>2. K \subseteq WellFounded(prog) /\ K \subseteq WellFounded(prog')
    BY <2>1 DEF SccFits, WellFounded, Known
  <2>3. \A x \in K : prog[x] = prog'[x]
    <3>1. prog \in [Defs -> [kind : {"def", "mu", "nu"}, body : ParameterTerms]]
      BY <1>2, ProgramsAssumption
    <3>2. d \notin K /\ K \subseteq Defs
      BY <1>1 DEF Known
    <3>3. QED
      BY <1>1, <3>1, <3>2
  <2>4. \A x \in K : DefsIn(prog[x].body) \subseteq K
    BY <2>1 DEF SccFits, Founded, ClosedIn
  <2>5. DOMAIN <<>> = {} /\ <<>> \in [{} -> Unary]
    OBVIOUS
  <2>6. <<>> \in Environments(prog) /\ <<>> \in Environments(prog')
    BY <2>5, EnvironmentIs
  <2> HIDE DEF K
  <2>7. Alike(prog, prog', <<>>, <<>>, {c})
    <3> DEFINE e == <<>>
    <3>1. {} \in SUBSET (DOMAIN e \cap DOMAIN e) /\ K \cap (DOMAIN e \cup DOMAIN e) = {}
      BY <2>5
    <3>2. K \in SUBSET (WellFounded(prog) \cap WellFounded(prog'))
      BY <2>2
    <3>3. /\ \A x \in {} : e[x] = e[x]
          /\ \A x \in K : prog[x] = prog'[x] /\ DefsIn(prog[x].body) \subseteq K \cup {}
          /\ {c} \subseteq K \cup {}
      BY <1>5, <2>3, <2>4
    <3> HIDE DEF e
    <3>4. Alike(prog, prog', e, e, {c})
      BY <3>1, <3>2, <3>3 DEF Alike
    <3>5. QED
      BY <3>4 DEF e
  <2>8. Standing(prog, c, <<>>) = Standing(prog', c, <<>>)
    BY <1>2, <2>6, <2>7, DefCoincidence
  <2>9. QED
    BY <2>5, <2>8 DEF Standing
<1>6. CacheSound'
  <2>1. Known(scc)' = K
    BY <1>1 DEF Known
  <2>2. QED
    BY <1>1, <1>5, <2>1 DEF Sound, CacheSound
<1>7. QED
  BY <1>3, <1>4, <1>6, RestingSound, PTL

\* What is left in the cache is as sound as before.
LEMMA ResetCacheSound == ASSUME Inv, Sound, NEW ds, ResetCache(ds) PROVE Sound'
<1>1. /\ cache' = Without(cache, ds)
      /\ prog' = prog /\ flags' = flags /\ scc' = scc /\ answer' = answer
  BY DEF ResetCache
<1>2. /\ Known(scc)' = Known(scc)
      /\ \A d \in DOMAIN cache' : d \in DOMAIN cache /\ cache'[d] = cache[d]
  BY <1>1 DEF Known, Without
<1>3. CacheSound' /\ FrontierKept'
  BY <1>1, <1>2 DEF Sound, CacheSound, FrontierKept
<1>4. Resting'
  BY ResetCacheSteps
<1>5. QED
  BY <1>3, <1>4, RestingSound, PTL

\* Nothing that Sound speaks of changes when nothing changes.
LEMMA StutterSound == ASSUME Sound, UNCHANGED vars PROVE Sound'
<1>1. /\ prog' = prog /\ flags' = flags /\ scc' = scc /\ query' = query /\ dgr' = dgr
      /\ stack' = stack /\ lazy' = lazy /\ memo' = memo /\ cache' = cache /\ answer' = answer
  BY DEF vars, session
<1>2. /\ Active' = Active /\ Bodies(query)' = Bodies(query) /\ Known(scc)' = Known(scc)
      /\ \A n : successors(dgr, n)' = successors(dgr, n)
      /\ \A d : isFixpoint(d)' = isFixpoint(d)
  BY <1>1 DEF Active, Bodies, Known, successors, isFixpoint
<1>3. /\ Open' = Open /\ Places' = Places /\ QuerySettings' = QuerySettings
      /\ \A n : Term(n)' = Term(n) /\ Free(n)' = Free(n)
  BY <1>1, <1>2 DEF Open, Places, QuerySettings, Term, Free
<1>4. \A n : Env(n)' = Env(n) /\ special(n)' = special(n) /\ MemoEnv(n)' = MemoEnv(n)
  BY <1>1, <1>2, <1>3 DEF Env, special, op, MemoEnv
<1>5. SettingsKept' /\ FrontierKept' /\ CacheSound'
  <2>1. SettingsFit(prog, Bodies(query), dgr, Places, QuerySettings)'
        <=> SettingsFit(prog, Bodies(query), dgr, Places, QuerySettings)
    BY <1>1, <1>2, <1>3 DEF SettingsFit
  <2>2. QED
    BY <1>1, <1>2, <2>1 DEF Sound, SettingsKept, FrontierKept, CacheSound
<1>6. MemoSound'
  <2>1. \A n : MeantIn(n, MemoEnv(n))' = MeantIn(n, MemoEnv(n))
    BY <1>1, <1>3, <1>4 DEF MeantIn
  <2>2. (\A n \in DOMAIN memo \ Active : memo[n] = MeantIn(n, MemoEnv(n)))'
    BY <1>1, <1>2, <2>1, MemoSoundIs DEF Sound
  <2>3. QED
    BY <2>2, MemoSoundIs, PTL
<1>7. FramesSound' /\ FramesSet'
  <2>1. \A n, i : OperandMeans(n, i)' = OperandMeans(n, i)
    BY <1>1, <1>3, <1>4 DEF OperandMeans
  <2>2. \A f : HeldSound(f)' = HeldSound(f) /\ RoundSound(f)' = RoundSound(f)
    BY <1>1, <1>2, <1>4, <2>1 DEF HeldSound, RoundSound, After
  <2>3. \A i : OpenAt(stack, i)' = OpenAt(stack, i)
    BY <1>1, <1>2 DEF OpenAt
  <2>4. \A i : InSetting(stack, i)' = InSetting(stack, i)
    BY <1>1, <1>3, <2>3 DEF InSetting
  <2>5. QED
    BY <1>1, <2>2, <2>4 DEF Sound, FramesSound, FramesSet
<1>8. QED
  BY <1>5, <1>6, <1>7 DEF Sound

\* One step of the evaluator, or of such a user.
LEMMA NextSound == ASSUME ~AskAgain, ~RedefineLate, Inv, Sound, [Next]_vars PROVE Sound'
<1>1. ASSUME NEW q \in Queries, Ask(q) PROVE Sound'
  BY <1>1, AskSound
<1>2. ASSUME NEW r \in Redefinitions, Redefine(r[1], r[2]) PROVE Sound'
  BY <1>2, RedefineSound
<1>3. ASSUME NEW ds \in SUBSET DOMAIN cache, ResetCache(ds) PROVE Sound'
  BY <1>3, ResetCacheSound
<1>4. ASSUME Answer PROVE Sound'
  BY <1>4, AnswerSound
<1>5. ASSUME Terms PROVE Sound'
  BY <1>5, AlreadyEvaluatedSound, eval_constantSound, FirstOperandSound, eval_notSound,
     eval_applicationSound, eval_quantorSound, SecondOperandSound, eval_binarySound,
     eval_quantor_specialSound, ThirdOperandSound, eval_iteSound DEF Terms
<1>6. ASSUME FunDefs PROVE Sound'
  BY <1>6, FoundInCacheSound, EnterPlainSound, FinishPlainSound, EnterFixpointSound,
     NextRoundSound, FinishFixpointSound DEF FunDefs
<1>7. CASE UNCHANGED vars
  BY <1>7, StutterSound
<1>8. QED
  BY <1>1, <1>2, <1>3, <1>4, <1>5, <1>6, <1>7 DEF Next

-------------------------------------------------------------------------------
(***************************************************************************)
(* The theorems about meanings                                             *)
(***************************************************************************)
\* What an answer is.
AnswerKnown == answer \in {None, Asked, Rejected} \cup {Value(p) : p \in Predicates}

\* The handlers do not touch the definitions, the question and the answer.
LEMMA HandlersKeep ==
  ASSUME Terms \/ FunDefs
  PROVE  UNCHANGED <<prog, flags, query, answer>>
<1>1. CASE Terms
  BY <1>1 DEF Terms, session, AlreadyEvaluated, eval_constant, FirstOperand, eval_not,
     eval_application, eval_quantor, SecondOperand, eval_binary, eval_quantor_special,
     ThirdOperand, eval_ite
<1>2. CASE FunDefs
  BY <1>2 DEF FunDefs, session, FoundInCache, EnterPlain, FinishPlain, EnterFixpoint,
     NextRound, FinishFixpoint
<1>3. QED
  BY <1>1, <1>2

\* Between a question and its answer, only the evaluation steps.
LEMMA AskedSteps ==
  ASSUME Inv, answer = Asked, [Next]_vars
  PROVE  Terms \/ FunDefs \/ Answer \/ UNCHANGED vars
BY DEF Next, Ask, Redefine, ResetCache

\* An answer is one of the four kinds.
LEMMA AnswerKnownNext == ASSUME Inv, AnswerKnown, [Next]_vars PROVE AnswerKnown'
<1>1. ASSUME Answer PROVE AnswerKnown'
  <2>1. <<Query, 1>> \in DOMAIN memo /\ answer' = Value(memo[<<Query, 1>>])
    BY <1>1 DEF Answer, Inv, Evaluating, valid
  <2>2. memo[<<Query, 1>>] \in Predicates
    BY <2>1 DEF Inv, MemoTyped
  <2>3. QED
    BY <2>1, <2>2 DEF AnswerKnown
<1>2. ASSUME NEW q \in Queries, Ask(q) PROVE AnswerKnown'
  BY <1>2 DEF Ask, AnswerKnown
<1>3. CASE answer' = answer
  BY <1>3 DEF AnswerKnown
<1>4. QED
  BY <1>1, <1>2, <1>3, HandlersKeep DEF Next, Redefine, ResetCache, vars

\* A user who asks on only after accepted terms, changes no definition that was
\* evaluated, and uses frontier sets with linear programs only, finds what the
\* evaluator keeps, holds and caches sound: every kept predicate is what its term
\* means under the approximations of the open definitions it depends on, every
\* approximation is on its side of the fixpoint, and every cached predicate is
\* the meaning of its definition.
THEOREM EvaluationSound ==
  ASSUME ~AskAgain, ~RedefineLate, FrontiersFit
  PROVE  Spec => [](Inv /\ Sound)
<1>1. Init => Inv /\ Sound
  BY InitResting, RestingInv, InitSound
<1>2. Inv /\ Sound /\ [Next]_vars => (Inv /\ Sound)'
  BY NextInv, NextSound
<1>3. QED
  BY <1>1, <1>2, PTL DEF Spec

\* Nothing stale is kept: reset_dependencies, reset and reset_if_possible
\* (evalpred.cc) forget every predicate of an earlier round, of an outer
\* fixpoint's earlier round and of another setting that could still be read.
THEOREM KeptIsMeant ==
  ASSUME ~AskAgain, ~RedefineLate, FrontiersFit
  PROVE  Spec => []MemoSound
<1>1. Sound => MemoSound
  BY DEF Sound
<1>2. QED
  BY <1>1, EvaluationSound, PTL

\* The cache outlives evaluators, and what it holds is right for every later
\* term: only closed definitions are stored, and none of those that a stored
\* one leads to is changed afterwards (eval_fundef, evalpred.cc).
THEOREM CachedIsMeant ==
  ASSUME ~AskAgain, ~RedefineLate, FrontiersFit
  PROVE  Spec => []CacheSound
<1>1. Sound => CacheSound
  BY DEF Sound
<1>2. QED
  BY <1>1, EvaluationSound, PTL

\* An iteration that starts at its bound never goes beyond the fixpoint, be it
\* nested, restarted by an outer one or led by frontier sets.
THEOREM FixpointsApproached ==
  ASSUME ~AskAgain, ~RedefineLate, FrontiersFit
  PROVE  Spec => []ApproximationsBounded
<1>1. ASSUME Inv, Sound PROVE ApproximationsBounded
  <2> SUFFICES ASSUME NEW i \in DOMAIN stack,
                      isFunDef(stack[i].node), isFixpoint(definition(stack[i].node)), stack[i].at > 0
               PROVE  LET n == stack[i].node
                          d == definition(n)
                          v == DefMeaningOf(prog, d, Env(n))
                      IN IF prog[d].kind = "mu" THEN stack[i].last \subseteq v
                         ELSE v \subseteq stack[i].last
    BY DEF ApproximationsBounded, Env
  <2> DEFINE f == stack[i]
             n == f.node
             d == definition(n)
             B(a) == Round(prog, d, a, Env(n))
             v == DefMeaningOf(prog, d, Env(n))
  <2>1. Running /\ f \in FrameSet
    <3>1. stack \in Seq(FrameSet)
      BY <1>1 DEF Inv, StackShape
    <3>2. stack # <<>>
      BY EmptyDomain
    <3>3. QED
      BY <3>1, <3>2, FrameTyped DEF Running
  <2>2. f.last \in Unary /\ f.last \subseteq Points
    BY <2>1, UnaryBounds DEF FrameSet, Predicates
  <2>3. prog \in Programs /\ d \in WellFounded(prog) /\ prog[d].kind \in {"mu", "nu"}
    <3>1. d \in Known(scc)
      BY <1>1 DEF Inv, StackShape, FramesKnown, DefsAt
    <3>2. Known(scc) \subseteq WellFounded(prog) /\ prog \in Programs
      BY <1>1, <2>1, WhileRunning DEF SccFits, WellFounded, Known, Prepared
    <3>3. QED
      BY <3>1, <3>2 DEF isFixpoint
  <2>4. Env(n) \in Environments(prog) /\ d \notin DOMAIN Env(n)
    <3>1. Env(n) \in Environments(prog) /\ DOMAIN Env(n) = Open \cap Free(n)
      BY <1>1, <2>1, EnvTyped
    <3>2. QED
      BY <3>1 DEF Free
  <2>5. /\ prog[d].kind = "mu" => v = {w \in Points : \A a \in Unary : B(a) \subseteq a => w \in a}
        /\ prog[d].kind = "nu" => v = UNION {a \in Unary : a \subseteq B(a)}
    BY <2>3, <2>4, DefEquation DEF LeastFixpoint, GreatestFixpoint
  <2>6. IF prog[d].kind = "mu" THEN \A a \in Unary : B(a) \subseteq a => f.last \subseteq a
        ELSE \A a \in Unary : a \subseteq B(a) => a \subseteq f.last
    <3>1. RoundSound(f)
      BY <1>1 DEF Sound, FramesSound
    <3>2. QED
      BY <3>1 DEF RoundSound
  <2> HIDE DEF f, v, B
  <2>7. CASE prog[d].kind = "mu"
    BY <2>2, <2>5, <2>6, <2>7 DEF f, v
  <2>8. CASE prog[d].kind = "nu"
    BY <2>5, <2>6, <2>8 DEF f, v
  <2>9. QED
    BY <2>3, <2>7, <2>8
<1>2. QED
  BY <1>1, EvaluationSound, PTL

\* What steps an iteration at the end of a round that is not the last.
LEMMA RoundSteps ==
  ASSUME Inv, [Next]_vars, AfterRound, ~finished
  PROVE  NextRound \/ UNCHANGED vars
<1>1. Running /\ At(1) /\ op(t0) = "fundef" /\ isFixpoint(d0) /\ ~Idle /\ top.at = 1
  BY DEF AfterRound, At, Running, Idle
<1>2. op(t0) \notin Binary /\ op(t0) \notin Quantor /\ ~special(t0)
  BY <1>1, ClassesApart DEF special
<1>3. ~Terms
  BY <1>1, <1>2 DEF Terms, At, AlreadyEvaluated, eval_constant, FirstOperand, eval_not,
     eval_application, eval_quantor, SecondOperand, eval_binary, eval_quantor_special,
     ThirdOperand, eval_ite
<1>4. FunDefs => NextRound
  BY <1>1 DEF FunDefs, At, Enters, FoundInCache, EnterPlain, FinishPlain, EnterFixpoint,
     FinishFixpoint
<1>5. QED
  BY <1>1, <1>3, <1>4 DEF Next, Ask, Redefine, ResetCache, Answer

\* The approximations of a least fixpoint grow and those of a greatest one
\* shrink, round after round, with frontier sets as well.
THEOREM RoundsAreMonotone ==
  ASSUME ~AskAgain, ~RedefineLate, FrontiersFit
  PROVE  Spec => RoundsMonotone
<1> DEFINE Grows == AfterRound /\ ~finished =>
                      IF prog[d0].kind = "mu" THEN top.last \subseteq stack'[2].last
                      ELSE stack'[2].last \subseteq top.last
<1>1. ASSUME Inv, Sound, [Next]_vars PROVE [Grows]_vars
  <2> SUFFICES ASSUME AfterRound, ~finished, NextRound PROVE Grows
    BY <1>1, RoundSteps
  <2>1. PICK f : f = [top EXCEPT !.last = Approximation, !.first = FALSE]
    OBVIOUS
  <2>2. /\ Approximation \in Unary
        /\ IF prog[d0].kind = "mu" THEN top.last \subseteq Approximation
           ELSE Approximation \subseteq top.last
    BY <1>1, RoundNow
  <2>3. top \in FrameSet /\ Running
    BY <1>1, BodyTyped DEF AfterRound
  <2>4. f \in FrameSet /\ f.last = Approximation
    <3> DEFINE p == Approximation
    <3>1. p \in Unary /\ f = [top EXCEPT !.last = p, !.first = FALSE]
      BY <2>1, <2>2
    <3> HIDE DEF p
    <3>2. f \in FrameSet /\ f.last = p
      BY <2>3, <3>1 DEF FrameSet
    <3>3. QED
      BY <3>2 DEF p
  <2>5. stack' = <<Frame(body(t0)), f>> \o Tail(stack)
    BY <2>1 DEF NextRound, Call
  <2>6. stack'[2] = f
    BY <1>1, <2>3, <2>4, <2>5, CalledStack
  <2>7. QED
    BY <2>2, <2>4, <2>6
<1>2. QED
  BY <1>1, EvaluationSound, PTL DEF Spec, RoundsMonotone

\* Partial correctness: the answer to a term is what the term means under the
\* definitions as they stand, least and greatest fixpoints included, whatever
\* was asked, cached, reset and redefined before.
THEOREM AnswersAreMeant ==
  ASSUME ~AskAgain, ~RedefineLate, FrontiersFit
  PROVE  Spec => AnswersRight
<1> DEFINE Right == answer = Asked /\ answer' # Asked => answer' = Value(MeaningOf(prog, query, <<>>))
<1>1. ASSUME Inv, Sound, [Next]_vars PROVE [Right]_vars
  <2> SUFFICES ASSUME answer = Asked, answer' # Asked PROVE Right
    OBVIOUS
  <2>1. Answer
    BY <1>1, AskedSteps, HandlersKeep DEF vars
  <2>2. QED
    BY <1>1, <2>1, AnswerMeans DEF Answer
<1>2. QED
  BY <1>1, EvaluationSound, PTL DEF Spec, AnswersRight

\* The evaluator implements the abstract service, which knows of no evaluator,
\* graph, cache or iteration: it refuses a term or answers it with its meaning.
THEOREM EvaluatorAnswers ==
  ASSUME ~AskAgain, ~RedefineLate, FrontiersFit
  PROVE  Spec => ImplementsAnswers
<1>1. ASSUME AnswerKnown PROVE answer.status = "asked" <=> answer = Asked
  BY <1>1 DEF AnswerKnown, None, Asked, Rejected, Value
<1>2. Init => AnswerKnown /\ Service!Init
  BY DEF Init, None, AnswerKnown, Service!Init
<1>3. ASSUME Inv, Sound, AnswerKnown, [Next]_vars PROVE [Service!Next]_(Service!vars)
  <2>1. ASSUME NEW q \in Queries, Ask(q) PROVE Service!Ask
    <3>1. answer # Asked /\ answer' \in {Asked, Rejected} /\ prog' = prog
      BY <2>1 DEF Ask
    <3>2. QED
      BY <1>1, <1>3, <3>1 DEF Service!Ask, Asked, Rejected
  <2>2. ASSUME Answer PROVE Service!Answer
    <3>1. answer = Asked /\ answer' = Value(MeaningOf(prog, query, <<>>)) /\ UNCHANGED <<prog, query>>
      BY <1>3, <2>2, AnswerMeans DEF Answer, session
    <3>2. QED
      BY <3>1 DEF Service!Answer, Asked, Value
  <2>3. ASSUME NEW r \in Redefinitions, Redefine(r[1], r[2]) PROVE Service!Define
    <3>1. answer # Asked /\ UNCHANGED <<query, answer>>
      BY <2>3 DEF Redefine
    <3>2. QED
      BY <1>1, <1>3, <3>1 DEF Service!Define
  <2>4. ASSUME NEW ds, ResetCache(ds) PROVE UNCHANGED Service!vars
    BY <2>4 DEF ResetCache, Service!vars
  <2>5. ASSUME Terms \/ FunDefs PROVE UNCHANGED Service!vars
    BY <2>5, HandlersKeep DEF Service!vars
  <2>6. CASE UNCHANGED vars
    BY <2>6 DEF vars, Service!vars
  <2>7. QED
    BY <1>3, <2>1, <2>2, <2>3, <2>4, <2>5, <2>6 DEF Next, Service!Next
<1>4. Inv /\ AnswerKnown /\ [Next]_vars => AnswerKnown'
  BY AnswerKnownNext
<1>5. QED
  BY <1>2, <1>3, <1>4, EvaluationSound, PTL DEF Spec, ImplementsAnswers, Service!Spec
===============================================================================
