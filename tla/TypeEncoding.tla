------------------------------ MODULE TypeEncoding ------------------------------
(***************************************************************************)
(* TypeEncoding: how many bits a variable of a basic type gets, which of   *)
(* their codes stand for values, and which code a number has.  A type is   *)
(* given by its size.                                                      *)
(***************************************************************************)
EXTENDS Integers

\* The first element of a type: 0 of bool and of enumerations, and RangeType ends
\* the program if a declared interval starts at another number.
first == 0

\* The table of logarithms, which are rounded up; its last entry is for 256.  Sizes
\* are positive.
Log(a) == CHOOSE k \in 0 .. 8 : a <= 2 ^ k /\ (k = 0 \/ 2 ^ (k - 1) < a)

\* Beyond a byte the lower bytes are dropped before the table is looked at.
ld_ceiling32(a) ==
  CASE a < 2 ^ 8                  -> Log(a)
    [] 2 ^ 8 <= a /\ a < 2 ^ 16   -> Log(a \div 2 ^ 8) + 8
    [] 2 ^ 16 <= a /\ a < 2 ^ 24  -> Log(a \div 2 ^ 16) + 16
    [] 2 ^ 24 <= a                -> Log(a \div 2 ^ 24) + 24

\* How many codes the bits have.
codes(size) == 2 ^ ld_ceiling32(size)

Bit(n, k) == (n \div 2 ^ k) % 2

\* x <= c for a variable of w bits, built up from the lowest bit.
leq(x, w, c) ==
  LET upTo[k \in 0 .. w] ==
        IF k = 0 THEN TRUE
        ELSE IF Bit(c, k - 1) = 1 THEN upTo[k - 1] \/ Bit(x, k - 1) = 0
        ELSE upTo[k - 1] /\ Bit(x, k - 1) = 0
  IN  upTo[w]

\* is_in_range_of, of a variable of a basic type.
Valid(size) == {x \in 0 .. codes(size) - 1 : leq(x, ld_ceiling32(size), size - 1)}

\* constant_to_Boole: the code whose bits are the lowest of the number n.
LowBits(n, size) == n % codes(size)

\* The codes that stand for values are those below the size, one for each value.
Standard(size) == Valid(size) = 0 .. size - 1
===============================================================================
