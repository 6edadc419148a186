------------------------------ MODULE Preparation -----------------------------
(***************************************************************************)
(* What Preparator::check does to a term before it is evaluated: the       *)
(* strongly connected components of the definitions it leads to, and the   *)
(* graph of the terms that depend on a definition under evaluation.        *)
(***************************************************************************)
EXTENDS MuMeaning, Integers, FiniteSets

MaxDFI == 1000                         \* larger than every dfi

-------------------------------------------------------------------------------
(***************************************************************************)
(* EvaluatorScc.  A state holds min, the min_reachable_dfi of the places   *)
(* visited; current, the next dfi; the stack of definitions; scc, the      *)
(* component a definition carries from now on (the empty set for one that  *)
(* is not recursive); and valid, no error so far.                          *)
(***************************************************************************)
RECURSIVE SccVisit(_, _, _, _)
RECURSIVE SccOperands(_, _, _, _)

SccOperands(prog, bodies, ns, s) ==
  IF ns = <<>> THEN s
  ELSE SccOperands(prog, bodies, Tail(ns), SccVisit(prog, bodies, Head(ns), s))

\* Mutants: the definition that the component is found at is left out of it; the
\* fixpoints of a component are all to be of one kind.
SccPop_leaves_out(prog, d, s) ==
  LET depth == CHOOSE i \in DOMAIN s.stack : s.stack[i] = d
      popped == {s.stack[i] : i \in 1 .. depth}
  IN [s EXCEPT
       !.stack = SubSeq(@, depth + 1, Len(@)),
       !.scc = [e \in Defs |-> IF e \in popped /\ @[e] = NoScc THEN popped \ {d} ELSE @[e]],
       !.min = [e \in {<<p>> : p \in popped} |-> MaxDFI] @@ @,
       !.valid = @ /\ \A e \in popped : prog[e].kind \in {"mu", "nu"}]

SccPop_one_kind(prog, d, s) ==
  LET depth == CHOOSE i \in DOMAIN s.stack : s.stack[i] = d
      popped == {s.stack[i] : i \in 1 .. depth}
  IN [s EXCEPT
       !.stack = SubSeq(@, depth + 1, Len(@)),
       !.scc = [e \in Defs |-> IF e \in popped /\ @[e] = NoScc THEN popped ELSE @[e]],
       !.min = [e \in {<<p>> : p \in popped} |-> MaxDFI] @@ @,
       !.valid = @ /\ \A e \in popped : prog[e].kind \in {"mu", "nu"} \cap {prog[d].kind}]

\* All definitions above and with d on the stack form a component.
SccPop(prog, d, s) ==
  LET depth == CHOOSE i \in DOMAIN s.stack : s.stack[i] = d
      popped == {s.stack[i] : i \in 1 .. depth}
  IN [s EXCEPT
       !.stack = SubSeq(@, depth + 1, Len(@)),
       !.scc = [e \in Defs |-> IF e \in popped /\ @[e] = NoScc THEN popped ELSE @[e]],
       !.min = [e \in {<<p>> : p \in popped} |-> MaxDFI] @@ @,
       !.valid = @ /\ \A e \in popped : prog[e].kind \in {"mu", "nu"}]

SccVisit(prog, bodies, n, s) ==
  LET i == s.current
      entered == [s EXCEPT !.min = (n :> i) @@ @, !.current = @ + 1]
  IN
  IF n \in DOMAIN s.min THEN s
  ELSE IF ~isFunDef(n) THEN
    LET ns == operands(TermAt(bodies, n), n)
        t == SccOperands(prog, bodies, ns, entered)
        low == {i} \cup {t.min[ns[k]] : k \in DOMAIN ns}
    IN [t EXCEPT !.min[n] = CHOOSE m \in low : \A k \in low : m <= k]
  ELSE IF s.scc[n[1]] # NoScc THEN [entered EXCEPT !.min[n] = MaxDFI]
  ELSE
    LET t == SccVisit(prog, bodies, body(n), [entered EXCEPT !.stack = <<n[1]>> \o @])
        low == t.min[body(n)]
    IN CASE low > i -> [t EXCEPT !.min[n] = MaxDFI, !.scc[n[1]] = {}, !.stack = Tail(@)]
         [] low = i -> SccPop(prog, n[1], t)
         [] low < i -> [t EXCEPT !.min[n] = low]

SccInit(scc) == [min |-> <<>>, current |-> 0, stack |-> <<>>, scc |-> scc, valid |-> TRUE]

check_scc(prog, bodies, scc) == SccVisit(prog, bodies, <<Query, 1>>, SccInit(scc))

-------------------------------------------------------------------------------
(***************************************************************************)
(* EvaluatorDependencies.  pvars is PVarList: the open definitions that    *)
(* the place just left refers to.  mark[d] counts: 0 not visited, 1 open,  *)
(* 2 left.  graph is the set of edges <<place, definition>>.  clean says   *)
(* that no ASSERT(PVarList -> isEmpty()) has failed.                       *)
(***************************************************************************)
store_dependencies(n, s) == [s EXCEPT !.graph = @ \cup ({n} \X s.pvars)]

RECURSIVE DepVisit(_, _, _)
RECURSIVE DepOperands(_, _, _)

\* Mutant: PVarList is not reset before the next operand.
DepOperands_unreset(bodies, ns, s) ==
  LET t == DepVisit(bodies, Head(ns), s)
      u == DepOperands(bodies, Tail(ns), t)
  IN IF Len(ns) = 1 \/ ~t.ok THEN t
     ELSE IF ~u.ok THEN u
     ELSE [u EXCEPT !.pvars = @ \cup t.pvars]

\* Each operand after the first starts with an empty PVarList; then all merge.
DepOperands(bodies, ns, s) ==
  LET t == DepVisit(bodies, Head(ns), s)
      u == DepOperands(bodies, Tail(ns), [t EXCEPT !.pvars = {}])
  IN IF Len(ns) = 1 \/ ~t.ok THEN t
     ELSE IF ~u.ok THEN u
     ELSE [u EXCEPT !.pvars = @ \cup t.pvars]

DepVisit(bodies, n, s) ==
  LET d == n[1]
      opened == [s EXCEPT !.mark[d] = 1]
      t == DepVisit(bodies, body(n), opened)
  IN
  IF ~isFunDef(n) THEN
    LET ns == operands(TermAt(bodies, n), n)
        u == DepOperands(bodies, ns, s)
    IN IF ns = <<>> THEN [s EXCEPT !.clean = @ /\ s.pvars = {}]
       ELSE IF ~u.ok THEN u
       ELSE store_dependencies(n, u)
  ELSE CASE s.mark[d] = 0 ->
              IF ~t.ok THEN t
              ELSE [store_dependencies(n, t) EXCEPT !.pvars = @ \ {d}, !.mark[d] = 2]
         [] s.mark[d] = 1 -> [s EXCEPT !.pvars = @ \cup {d}, !.clean = @ /\ s.pvars = {}]
         [] s.mark[d] = 2 ->
              IF successors(s.graph, n) = {} THEN s
              ELSE IF ~t.ok THEN t
              ELSE IF t.pvars # successors(t.graph, n) THEN [t EXCEPT !.ok = FALSE]
              ELSE [t EXCEPT !.pvars = @ \ {d}, !.mark[d] = 2]

DepInit == [mark |-> [d \in Defs |-> 0], pvars |-> {}, graph |-> {}, ok |-> TRUE, clean |-> TRUE]

check_dependencies(bodies) == DepVisit(bodies, <<Query, 1>>, DepInit)

-------------------------------------------------------------------------------
(***************************************************************************)
(* The same, said without an order of visits.                              *)
(***************************************************************************)
Uses(prog, d) == Applied(prog[d].body)

RECURSIVE Reach(_, _, _)
\* The definitions found from those in new, without going on from stops.
Reach(prog, new, stops) ==
  LET next == UNION {Uses(prog, d) : d \in new \ stops} \cup new
  IN IF next = new THEN new ELSE Reach(prog, next, stops)

\* Those that d leads to, in one application or more.
Below(prog, d) == Reach(prog, Uses(prog, d), {})

Recursive(prog, d) == d \in Below(prog, d)

Component(prog, d) ==
  IF Recursive(prog, d) THEN {e \in Below(prog, d) : d \in Below(prog, e)} ELSE {}

\* The definitions of open that d refers to before it is through with them.
FreeIn(prog, d, open) == Reach(prog, Uses(prog, d), open \cup {d}) \cap (open \cup {d})

\* The settings <<definition, definitions open around it>> that unfolding meets.
RECURSIVE Settings(_, _)
Settings(prog, new) ==
  LET inside(d, open) == {<<e, open \cup {d}>> : e \in Uses(prog, d) \ (open \cup {d})}
      next == UNION {inside(s[1], s[2]) : s \in new} \cup new
  IN IF next = new THEN new ELSE Settings(prog, next)

SettingsOf(prog, t) == Settings(prog, {<<d, {}>> : d \in Applied(t)})

\* No definition is recursive without being a fixpoint, and none depends on
\* different open definitions in different settings.
WellFormed(prog, t) ==
  /\ \A d \in Reach(prog, Applied(t), {}) : Recursive(prog, d) => prog[d].kind # "def"
  /\ \A s, u \in SettingsOf(prog, t) :
       s[1] = u[1] => FreeIn(prog, s[1], s[2]) = FreeIn(prog, u[1], u[2])
===============================================================================
