------------------------------ MODULE MCManager ------------------------------
(* Two evaluators that come and go and two that stay, with an index less than *)
(* they are, and two terms.                                                   *)
EXTENDS EvaluationManager, TLC

CONSTANTS e1, e2, show, wit, t1, t2

MCEvaluators == {e1, e2, show, wit}
MCLasting == {show, wit}
MCTerms == {t1, t2}
===============================================================================
