---------------------------- MODULE Fixed ----------------------------
(***************************************************************************)
(* Unsigned fixed-point arithmetic, from contracts/libraries/Fixed.sol.    *)
(* A number x of the code's type uint192 stands for x / FIX_ONE; the code  *)
(* has FIX_ONE = 10^18 and the models run with a small FIX_ONE, so that    *)
(* every rounding the code performs happens at small amounts as well.      *)
(***************************************************************************)
EXTENDS Integers

\* Division rounding up, written (a + (b - 1)) / b throughout the code.
DivUp(a, b) == (a + (b - 1)) \div b

\* _divrnd(a, b, ROUND)
DivRound(a, b) == (a + b \div 2) \div b

\* fixMin and fixMax
fixMin(x, y) == IF x < y THEN x ELSE y
fixMax(x, y) == IF x > y THEN x ELSE y

\* A round of the loop of FixLib.powu on <<result, x, y>>: each product is
\* rounded to the nearest at the scale SQ, then x is squared and y halved.
Multiplied(SQ, s) == IF s[3] % 2 = 1 THEN DivRound(s[1] * s[2], SQ) ELSE s[1]
Squared(SQ, s)    == <<Multiplied(SQ, s), DivRound(s[2] * s[2], SQ), s[3] \div 2>>

\* FixLib.powu: x^y by repeated squaring at double precision, the result
\* truncated to single precision.
powu(scale, x, y) ==
    LET SQ == scale * scale
        loop[s \in (0 .. SQ) \X (0 .. SQ) \X (0 .. y)] ==
            IF s[3] <= 1 THEN Multiplied(SQ, s) ELSE loop[Squared(SQ, s)]
    IN  IF y = 1 THEN x
        ELSE IF x = scale \/ y = 0 THEN scale
        ELSE loop[<<SQ, x * scale, y>>] \div scale
======================================================================
