-------------------------------- MODULE Answers --------------------------------
(***************************************************************************)
(* What the evaluation of terms promises: a term that was asked is refused *)
(* or answered with what it means under the definitions as they stand, and *)
(* nothing else ever changes an answer.  Nothing is said of evaluators,    *)
(* graphs, caches or iterations.                                           *)
(***************************************************************************)
CONSTANT MeaningOf(_, _, _)    \* what a term of a program means

VARIABLES
  prog,       \* the definitions
  query,      \* the term asked last
  answer      \* a record, its status "asked", "rejected" or "value"

vars == <<prog, query, answer>>

Init == answer.status = "none"

Ask ==
  /\ answer.status # "asked"
  /\ answer'.status \in {"asked", "rejected"}
  /\ UNCHANGED prog

Answer ==
  /\ answer.status = "asked"
  /\ answer'.status = "value"
  /\ answer'.value = MeaningOf(prog, query, <<>>)
  /\ UNCHANGED <<prog, query>>

Define ==
  /\ answer.status # "asked"
  /\ UNCHANGED <<query, answer>>

Next == Ask \/ Answer \/ Define

Spec == Init /\ [][Next]_vars
================================================================================
