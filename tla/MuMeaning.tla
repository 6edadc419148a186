------------------------------- MODULE MuMeaning ------------------------------
(***************************************************************************)
(* What a term means: the definitions in env stand for the predicates env  *)
(* gives them, a mu definition for the least of the predicates its body    *)
(* does not lead out of, a nu definition for the greatest of those it does *)
(* not shrink.                                                             *)
(***************************************************************************)
EXTENDS MuCalculus, TLC

\* The definitions a term applies.
RECURSIVE Applied(_)
Applied(t) ==
  IF t.op = "app" THEN {t.sym} ELSE UNION {Applied(t.args[i]) : i \in DOMAIN t.args}

RECURSIVE Meaning(_, _, _)
RECURSIVE DefMeaning(_, _, _)

Meaning(prog, t, env) ==
  LET arg(i) == Meaning(prog, t.args[i], env)
  IN CASE t.op = "const" -> t.sym
       [] t.op = "app" ->
            apply(IF t.sym \in DOMAIN env THEN env[t.sym] ELSE DefMeaning(prog, t.sym, env), t.at)
       [] t.op = "not" -> Points \ arg(1)
       [] t.op \in Binary -> binary(t.op, arg(1), arg(2))
       [] t.op \in Quantor -> quantify(t.op, arg(1))
       [] t.op = "ite" -> (arg(1) \cap arg(2)) \cup (arg(3) \ arg(1))

DefMeaning(prog, d, env) ==
  LET Body(p) == Meaning(prog, prog[d].body, (d :> p) @@ env)
      closed == {p \in Unary : Body(p) \subseteq p}
  IN CASE prog[d].kind = "def" -> Meaning(prog, prog[d].body, env)
       [] prog[d].kind = "mu" -> {w \in Points : \A p \in closed : w \in p}
       [] prog[d].kind = "nu" -> UNION {p \in Unary : p \subseteq Body(p)}
===============================================================================
