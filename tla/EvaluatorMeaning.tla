--------------------------- MODULE EvaluatorMeaning ---------------------------
(***************************************************************************)
(* Evaluator put together with Preparation and MuMeaning: what the         *)
(* prepared graph, the kept predicates and the answers have to be.  In     *)
(* every instance, SccOf is check_scc, DependenciesOf is                   *)
(* check_dependencies.                                                     *)
(***************************************************************************)
EXTENDS EvaluatorSound, Preparation

\* The component a definition carries, since whichever question, is the set of
\* definitions it is mutually recursive with, and every definition that the
\* last term leads to carries one.
SccExact ==
  \A d \in Defs :
    \/ scc[d] = Component(prog, d)
    \/ scc[d] = NoScc /\ d \notin Reach(prog, Applied(query), {})

\* A term is refused if and only if a definition is recursive without being a
\* fixpoint or depends on different open definitions in different settings.
VerdictExact ==
  [][asked' # asked => (answer' = Rejected <=> ~WellFormed(prog, query'))]_vars

\* For a term that is accepted, each definition's successors in the graph are
\* the open definitions it refers to, in every setting, and the assertions
\* that PVarList is empty hold.
DependenciesExact ==
  [][asked' # asked /\ answer' = Asked =>
       /\ check_dependencies(Bodies(query')).clean
       /\ \A s \in SettingsOf(prog, query') :
            successors(dgr', <<s[1]>>) = FreeIn(prog, s[1], s[2])]_vars
===============================================================================
