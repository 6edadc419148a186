---------------------------- MODULE FunctionService ---------------------------
(***************************************************************************)
(* What the BDD library promises a client about the pointers it returns: a *)
(* pointer stands for one Boolean function as long as the client holds it, *)
(* two pointers are equal exactly when their functions are, and the two    *)
(* constant functions are never given a pointer other than False and True. *)
(* Nothing is said of nodes, counters, collections or the cache.           *)
(***************************************************************************)
CONSTANTS
  Addr,       \* the pointers
  Functions,  \* the Boolean functions
  Ground,     \* the constant functions
  NoFunction  \* "the client does not hold this pointer"

VARIABLE held  \* held[a]: the function pointer a stands for, or NoFunction

Init == held = [a \in Addr |-> NoFunction]

\* A new pointer stands for a function no other pointer stands for.
Acquire(a) ==
  /\ held[a] = NoFunction
  /\ held'[a] # NoFunction
  /\ held'[a] \in Functions
  /\ held'[a] \notin Ground \cup {held[b] : b \in Addr}
  /\ held' = [held EXCEPT ![a] = held'[a]]

Release(a) ==
  /\ held[a] # NoFunction
  /\ held' = [held EXCEPT ![a] = NoFunction]

Next == \E a \in Addr : Acquire(a) \/ Release(a)

Spec == Init /\ [][Next]_held
===============================================================================
