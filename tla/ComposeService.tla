---------------------------- MODULE ComposeService ----------------------------
(***************************************************************************)
(* What the BDD manager promises the users of substitutions: a client      *)
(* acquires a substitution, composes BDDs with it as often as it likes and *)
(* releases it, and every answer is the composition with the substitution  *)
(* that very client holds.  There are no slots, no indices and no cache    *)
(* here; BDDsimpleAssocs has them and is checked to implement this module. *)
(***************************************************************************)
CONSTANTS
  Clients,  \* the SimpleBooleSubsData objects
  Subs,     \* the substitutions, up to the equality cmp() decides
  NoSub     \* "no substitution"

VARIABLES
  held,     \* held[c]: the substitution client c holds, or NoSub
  answer    \* the substitution the last composition was computed with

vars == <<held, answer>>

Init ==
  /\ held = [c \in Clients |-> NoSub]
  /\ answer = NoSub

Acquire(c, s) ==
  /\ held[c] = NoSub
  /\ held' = [held EXCEPT ![c] = s]
  /\ UNCHANGED answer

Compose(c) ==
  /\ held[c] # NoSub
  /\ answer' = held[c]
  /\ UNCHANGED held

Release(c) ==
  /\ held[c] # NoSub
  /\ held' = [held EXCEPT ![c] = NoSub]
  /\ UNCHANGED answer

Next ==
  \E c \in Clients :
    \/ \E s \in Subs : Acquire(c, s)
    \/ Compose(c)
    \/ Release(c)

Spec == Init /\ [][Next]_vars
===============================================================================
