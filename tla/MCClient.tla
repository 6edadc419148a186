------------------------------- MODULE MCClient -------------------------------
(* Three variables, so that an operand's variable can lie above, between    *)
(* and below another's; every function of them is reached as an operand.    *)
EXTENDS BDDclient, TLC

v0 == find_var(0)
v1 == find_var(1)
v2 == find_var(2)

MCOperands == {False, True, v1, andop(v0, notop(v2)), notequiv(v1, v2), ite(v0, v1, v2)}

MCDomains == {{}, {1}, {2}, {0, 1}, {0, 2}}

SubOf(f) == [i \in Vars |-> IF i \in DOMAIN f THEN f[i] ELSE Unmapped]

Identity  == SubOf(<<>>)
Exchange  == SubOf(0 :> v2 @@ 2 :> v0)
Rotation  == SubOf(0 :> v1 @@ 1 :> v2 @@ 2 :> v0)
Upwards   == SubOf(2 :> v1)
Collision == SubOf(0 :> v2 @@ 1 :> v2)
Constant  == SubOf(0 :> False @@ 1 :> v2)

MCSubs == {Identity, Exchange, Rotation, Upwards, Collision, Constant}

OnlyCollision == {Collision}
OnlyConstant  == {Constant}
===============================================================================
