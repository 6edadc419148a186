----------------------------- MODULE StateService -----------------------------
(***************************************************************************)
(* What evaluators are promised about the states they keep in terms: a     *)
(* registered evaluator has at most one state in a term, finds that very   *)
(* state there until it goes or the term does, and never one of another    *)
(* evaluator.  No indices, no lists; EvaluationManager has them and is     *)
(* shown to implement this module.                                         *)
(***************************************************************************)
CONSTANTS
  Evaluators,
  Terms,
  States      \* the states that evaluators may keep

VARIABLES
  registered,   \* the evaluators that keep states
  states        \* the states kept, <<evaluator, term, state>>

vars == <<registered, states>>

Init == registered = {} /\ states = {}

Register(e) ==
  /\ e \notin registered
  /\ registered' = registered \cup {e}
  /\ UNCHANGED states

Keep(e, t) ==
  /\ e \in registered
  /\ \A s \in states : ~(s[1] = e /\ s[2] = t)
  /\ \E b \in States : /\ \A s \in states : s[3] # b
                    /\ states' = states \cup {<<e, t, b>>}
  /\ UNCHANGED registered

\* A term goes: the states in it are lost, and no others.
Forget(t) ==
  /\ states' = {s \in states : s[2] # t}
  /\ UNCHANGED registered

\* One evaluator gives up its state in one term.
Remove(e, t) ==
  /\ states' = {s \in states : ~(s[1] = e /\ s[2] = t)}
  /\ UNCHANGED registered

\* An evaluator goes, with all its states.
Leave(e) ==
  /\ registered' = registered \ {e}
  /\ states' = {s \in states : s[1] # e}

Next ==
  \/ \E e \in Evaluators : Register(e) \/ Leave(e)
  \/ \E t \in Terms : Forget(t)
  \/ \E e \in Evaluators, t \in Terms : Keep(e, t) \/ Remove(e, t)

Spec == Init /\ [][Next]_vars
===============================================================================
