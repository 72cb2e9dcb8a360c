------------------------ MODULE MCBasketHandler ------------------------
EXTENDS BasketHandler, TLC

CONSTANTS dai, usdc, usdt, cDai, ethDai, usdcCoin, usdtCoin, usd, eth

Three == {dai, usdc, usdt}
USDorETH == {usd, eth}
\* A lending plugin for dai, and one of another target that hides revenue and has no rate
\* until it is refreshed; plain ones for usdc and usdt.
Plugins == {cDai, ethDai, usdcCoin, usdtCoin}
TokenOf == cDai :> dai @@ ethDai :> dai @@ usdcCoin :> usdc @@ usdtCoin :> usdt
ClassOf == cDai :> "cTokenSelfReferential" @@ ethDai :> "icETH"
           @@ usdcCoin :> "selfReferential" @@ usdtCoin :> "selfReferential"
TargetOf == cDai :> usd @@ ethDai :> eth @@ usdcCoin :> usd @@ usdtCoin :> usd
AtFirst == dai :> cDai @@ usdc :> usdcCoin @@ usdt :> usdtCoin

\* dai's rate moves, the feed of usdc may fall silent; usdt holds.
Reads(f, r) == [feed |-> f, second |-> 2, rate |-> r]
Readings == {cDai :> Reads(2, r) @@ ethDai :> Reads(2, 2)
             @@ usdcCoin :> Reads(g, 2) @@ usdtCoin :> Reads(2, 2) : g \in {0, 2}, r \in {2, 4}}

PrimeBasketArgs == {(dai :> 3), (dai :> 1 @@ usdc :> 2)}
BackupArgs == {<<usdc, usdt>>}
========================================================================
