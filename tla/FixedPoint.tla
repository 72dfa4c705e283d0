----------------------------- MODULE FixedPoint -----------------------------
(***************************************************************************)
(* The fixed-point arithmetic of contracts/libraries/Fixed.sol that the    *)
(* protocol's state machines use.  A "D18" number x of the code is the     *)
(* integer x with the implicit denominator FIX_ONE; the functions here     *)
(* take that denominator as their first argument so that the modules can   *)
(* be checked with small ones.                                             *)
(***************************************************************************)
EXTENDS Integers

\* Mutations of CeilDiv: rounding down; rounding up exact quotients too.
CeilDivRoundingDown(n, d) == n \div d
CeilDivRoundingPast(n, d) == (n + d) \div d

\* _divrnd(numerator, divisor, CEIL): integer division, rounded up.
CeilDiv(n, d) == (n + (d - 1)) \div d

\* _divrnd(numerator, divisor, ROUND): to the nearest integer, half up.
RoundDiv(n, d) == (n + (d \div 2)) \div d

(***************************************************************************)
(* FixLib.powu: x^y by repeated squaring, every product rounded to the     *)
(* nearest.  PowLoop[y] is what the while loop makes of (result, x) when   *)
(* it starts a round with the exponent y.                                  *)
(***************************************************************************)
FixPowU(one, x0, y0) ==
  LET times(a, b) == RoundDiv(a * b, one)
      PowLoop[y \in Nat] ==
        [result \in 0..one |-> [x \in 0..one |->
           LET result2 == IF y % 2 = 1 THEN times(result, x) ELSE result
           IN  IF y <= 1 THEN result2
               ELSE PowLoop[y \div 2][result2][times(x, x)]]]
  IN  CASE y0 = 1              -> x0
        [] y0 # 1 /\ (x0 = one \/ y0 = 0) -> one
        [] OTHER               -> PowLoop[y0][one][x0]
=============================================================================
