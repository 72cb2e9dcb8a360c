-------------------------- MODULE Collateral --------------------------
(***************************************************************************)
(* What the collateral plugins of contracts/plugins/assets do on refresh() *)
(* as operators on a plugin's own state:                                   *)
(*   whenDefault  the time left until its _whenDefault: 0 once that time   *)
(*                has come, NEVER when there is no deadline                *)
(*   rate         prevReferencePrice of a lending plugin, maxRefPerTok of  *)
(*                one that hides revenue, FIX_ONE of the others            *)
(* What a lending protocol accrues between two refreshes is read by the    *)
(* next one: refPerTok() of a lending plugin is that of its last refresh.  *)
(* A refresh reads the feeds and the underlying protocol; a reading is     *)
(*   feed    chainlinkFeed, or 0 when price_() reverts on it: it is stale, *)
(*           belongs to an old round, or is zero                           *)
(*   second  the plugin's other feed, likewise: uoaPerTargetFeed,          *)
(*           targetUnitChainlinkFeed, or stETHFeed                         *)
(*   rate    the lending protocol's exchange rate, or icETH's price in the *)
(*           Uniswap pool                                                  *)
(***************************************************************************)
EXTENDS Integers, Fixed

CONSTANTS
    FIX_ONE,
    BASIS_POINTS,               \* 10000 in the code
    delayUntilDefault,
    defaultThreshold,           \* D18 deviation from the peg
    fallbackPrice,
    allowedDrop                 \* basis points a rate may fall when revenue is hidden

ASSUME CollateralAssumption ==
    /\ FIX_ONE \in Nat \ {0} /\ BASIS_POINTS \in Nat \ {0}
    /\ delayUntilDefault \in Nat \ {0}
    /\ defaultThreshold \in Nat /\ fallbackPrice \in Nat \ {0}
    /\ allowedDrop \in 0 .. BASIS_POINTS - 1

NEVER == delayUntilDefault + 1

Reading == [feed: Nat, second: Nat, rate: Nat]
Plugin  == [whenDefault: 0 .. NEVER, rate: Nat]

\* The plugins by what their refresh() checks.
Lending == {"aToken", "cTokenFiat", "cTokenNonFiat", "cTokenSelfReferential"}
Classes == Lending \cup {"selfReferential", "fiat", "nonFiat", "eurFiat", "icETH"}

----------------------------------------------------------------------
\* The status and its deadline

alreadyDefaulted(c) == c.whenDefault = 0

status(c) == IF c.whenDefault = NEVER THEN "SOUND"
             ELSE IF alreadyDefaulted(c) THEN "DISABLED" ELSE "IFFY"

markStatus_Restart(c, s) ==                                      \* mutant
    IF alreadyDefaulted(c) THEN c
    ELSE [c EXCEPT !.whenDefault = CASE s = "SOUND"    -> NEVER
                                     [] s = "IFFY"     -> delayUntilDefault
                                     [] s = "DISABLED" -> 0]
markStatus(c, s) ==
    IF alreadyDefaulted(c) THEN c
    ELSE [c EXCEPT !.whenDefault = CASE s = "SOUND"    -> NEVER
                                     [] s = "IFFY"     -> fixMin(delayUntilDefault, @)
                                     [] s = "DISABLED" -> 0]

\* A second passes for a plugin with a deadline.
Aged(c) == IF status(c) = "IFFY" THEN [c EXCEPT !.whenDefault = @ - 1] ELSE c

----------------------------------------------------------------------
\* The peg of the reference unit: every feed works, and the price is within
\* the threshold of the peg.

OnPeg(p, peg) ==
    LET delta == (peg * defaultThreshold) \div FIX_ONE
    IN  peg - delta <= p /\ p <= peg + delta

Works(f) == f > 0

PegHolds(class, r) ==
    CASE class \in {"selfReferential", "cTokenSelfReferential"} -> Works(r.feed)
      [] class \in {"fiat", "aToken", "cTokenFiat"} ->
            Works(r.feed) /\ OnPeg(r.feed, FIX_ONE)
      [] class \in {"nonFiat", "cTokenNonFiat"} ->
            Works(r.feed) /\ Works(r.second) /\ OnPeg(r.feed, FIX_ONE)
      [] class = "eurFiat" ->
            /\ Works(r.feed) /\ Works(r.second)
            /\ OnPeg((r.feed * FIX_ONE) \div r.second, FIX_ONE)
      \* checkReferencePeg(): pricePerTarget() reads the very feed it is compared with
      [] class = "icETH" -> Works(r.feed) /\ OnPeg(r.feed, r.feed)

----------------------------------------------------------------------
\* Hidden revenue

pricePerRef(r) == IF Works(r.second) THEN r.second ELSE fallbackPrice

actualRefPerTok(r) == DivRound(r.rate * pricePerRef(r), FIX_ONE)

\* maxRefPerTok.mul(marginRatio).div(10000), where marginRatio is no D18 value
Discounted(max) ==
    (DivRound(max * (BASIS_POINTS - allowedDrop), FIX_ONE) * FIX_ONE) \div BASIS_POINTS

refPerTok(class, c) == IF class = "icETH" THEN Discounted(c.rate) ELSE c.rate

----------------------------------------------------------------------
\* The plugin's life

New(class, r) ==
    [whenDefault |-> NEVER,
     rate |-> IF class \in Lending THEN r.rate ELSE IF class = "icETH" THEN 0 ELSE FIX_ONE]

Fell_TwoMargins(class, c, r) ==                                  \* mutant
    \/ class \in Lending /\ r.rate < c.rate
    \/ class = "icETH" /\ actualRefPerTok(r) < Discounted(Discounted(c.rate))
Fell(class, c, r) ==
    \/ class \in Lending /\ r.rate < c.rate
    \/ class = "icETH" /\ actualRefPerTok(r) < Discounted(c.rate)

NextRate_Latest(class, c, r) ==                                  \* mutant
    IF class \in Lending THEN r.rate
    ELSE IF class = "icETH" THEN actualRefPerTok(r)
    ELSE c.rate
NextRate(class, c, r) ==
    IF class \in Lending THEN r.rate
    ELSE IF class = "icETH" THEN fixMax(c.rate, actualRefPerTok(r))
    ELSE c.rate

refresh(class, c, r) ==
    IF alreadyDefaulted(c) THEN c
    ELSE [markStatus(c, IF Fell(class, c, r) THEN "DISABLED"
                        ELSE IF PegHolds(class, r) THEN "SOUND" ELSE "IFFY")
          EXCEPT !.rate = NextRate(class, c, r)]
======================================================================
