--------------------------- MODULE MCRToken ---------------------------
EXTENDS RToken, TLC

CONSTANTS alice, bob, dai, usdc

One == {alice}
Both == {alice, bob}
OneToken  == {dai}
TwoTokens == {dai, usdc}

\* One collateral, half a token per basket; then a whole one that appreciates.
Swap ==
    << {dai :> 1}, {dai :> 2, dai :> 1} >>

\* A basket of dai, then one of dai and usdc, with a quantity no multiple of FIX_ONE.
Diversify ==
    << {dai :> 2 @@ usdc :> 0}, {dai :> 3 @@ usdc :> 1} >>

Purse(n) == [t \in Tokens |-> n]
Purse3 == Purse(3)
Purse31 == [t \in Tokens |-> IF t = dai THEN 3 ELSE 1]

Symmetry == Permutations(Both)
=======================================================================
