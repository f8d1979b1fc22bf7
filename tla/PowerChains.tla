---------------------------- MODULE PowerChains ----------------------------
(***************************************************************************)
(* The addition chains of crypto-ops.c at their real size: fe_invert, which*)
(* raises to q - 2, and the pow22523 part of fe_divpowm1, which raises to  *)
(* (q - 5) / 8, for q = 2^255 - 19.                                        *)
(*                                                                         *)
(* A power of the argument is the set of the bits of its exponent: fe_sq   *)
(* shifts it, fe_mul of two powers with no common bit joins them.  Every   *)
(* product of the chains is of this kind; Broken marks one that is not.    *)
(***************************************************************************)
EXTENDS Integers

Broken == {-1}
fe_sq(x) == {e + 1 : e \in x}
fe_mul(x, y) == IF x \cap y = {} THEN x \cup y ELSE Broken
fe_sqn(x, k) == {e + k : e \in x}    \* fe_sq and a loop of k - 1 more
Argument == {0}

(* x^(2^5 - 1), where both chains begin, by way of x^9 and x^11.           *)
Power9 == fe_mul(Argument, fe_sqn(fe_sq(Argument), 2))
Power11NoSquare == fe_mul(Argument, Power9)   \* mutant: x times x^9
Power11 == fe_mul(fe_sq(Argument), Power9)
Power31 == fe_mul(Power9, fe_sq(Power11))

(* x^(2^(k+m) - 1) from x^(2^k - 1) and x^(2^m - 1).                       *)
Joined(x, y, m) == fe_mul(fe_sqn(x, m), y)

(* The middle, written out twice in the source with other registers.       *)
Ones10 == Joined(Power31, Power31, 5)
Ones20 == Joined(Ones10, Ones10, 10)
Ones40 == Joined(Ones20, Ones20, 20)
Ones50 == Joined(Ones40, Ones10, 10)
Ones100 == Joined(Ones50, Ones50, 50)
Ones200 == Joined(Ones100, Ones100, 100)
Ones250 == Joined(Ones200, Ones50, 50)

fe_invert == fe_mul(fe_sqn(Ones250, 5), Power11)
fe_pow22523 == fe_mul(fe_sqn(Ones250, 2), Argument)
=============================================================================
