------------------------------ MODULE Trading ------------------------------
(***************************************************************************)
(* The life of a trade: contracts/p1/mixins/Trading.sol, the Broker that   *)
(* clones a GnosisTrade for each, and the traders that open them, which    *)
(* are the BackingManager, out of what backs the RToken, and the two       *)
(* RevenueTraders, out of revenue, which the Distributor then pays out.    *)
(* The auction house is external: once an auction is over, anybody may     *)
(* have it cleared, and it pays what it pays.                              *)
(*                                                                         *)
(* The basket is one token of Basket per basket unit, and market prices    *)
(* are not in the model: how much is sold, and the least that is asked for *)
(* it, is one of a few amounts (RecollateralizationLib and TradeLib        *)
(* compute them), and so is the revenue RToken minted when there is more   *)
(* backing than needed (which the module RToken models).                   *)
(***************************************************************************)
EXTENDS Integers, Sequences, FiniteSets, Functions, Fixed

CONSTANTS
    Tokens, RSR, RToken, Basket,                \* the tokens
    BackingManager, RSRTrader, RTokenTrader,    \* the traders
    Destinations, FURNACE, ST_RSR,              \* where revenue goes
    GNOSIS_MAX_TOKENS,                          \* the largest auction
    FEE_DENOMINATOR, feeNumerator,              \* the auction house's fee
    FIX_ONE,                                    \* 1 as a fixed-point number
    quantum,                                    \* the smallest unit of a token, in units of 18 decimals
    InitialHoldings, InitialNeeded,
    InitialTable,                               \* the distribution at first
    Shares,                                     \* the shares governance may set
    Sizes,                                      \* the largest trade, at some price
    MinBuys,                                    \* the least that may be asked for
    Proceeds,                                   \* what an auction may bring in
    AuctionLengths,
    Erc20Lists,                                 \* the lists manageTokens() is called with
    MaxTrades,                                  \* bound: trades opened
    MaxStray                                    \* bound: tokens sent to a closed trade

RevenueTraders == {RSRTrader, RTokenTrader}
Traders == {BackingManager} \cup RevenueTraders
Holders == Traders \cup Destinations

\* A destination's share of revenue in RToken and in RSR.
RevenueShare == [rTokenDist : Nat, rsrDist : Nat]

ASSUME TradersAssumption ==
    /\ IsFiniteSet(Destinations)
    /\ BackingManager \notin RevenueTraders /\ RSRTrader # RTokenTrader
    /\ Traders \cap Destinations = {}
    /\ {FURNACE, ST_RSR} \subseteq Destinations
ASSUME TokensAssumption ==
    /\ IsFiniteSet(Tokens)
    /\ {RSR, RToken, Basket} \subseteq Tokens
    /\ Cardinality({RSR, RToken, Basket}) = 3
\* Tokens have at most 18 decimals.
ASSUME PricesAssumption == FIX_ONE \in Nat \ {0} /\ quantum \in [Tokens -> Nat \ {0}]
ASSUME AmountsAssumption ==
    /\ GNOSIS_MAX_TOKENS \in Nat \ {0} /\ FEE_DENOMINATOR \in Nat \ {0} /\ feeNumerator \in Nat
    /\ Sizes \subseteq Nat \ {0} /\ MinBuys \subseteq Nat /\ Proceeds \subseteq Nat /\ AuctionLengths \subseteq Nat \ {0}
    /\ InitialHoldings \in [Holders -> [Tokens -> Nat]] /\ InitialNeeded \in Nat

VARIABLES
    held,            \* held[holder][token]
    basketsNeeded,   \* of the RToken
    clones,          \* the GnosisTrade contracts the broker has cloned, in order
    trades,          \* trades[trader][sell]: the open trade, a position in clones, or 0
    tradesOpen,      \* tradesOpen[trader]
    disabled,        \* Broker.disabled
    distribution,    \* distribution[destination]: [rTokenDist, rsrDist]
    pausedOrFrozen,
    strays           \* tokens sent to closed trades so far

vars == <<held, basketsNeeded, clones, trades, tradesOpen, disabled, distribution,
          pausedOrFrozen, strays>>

tokenToBuy(trader) == IF trader = RSRTrader THEN RSR ELSE RToken

\* Holdings after a token changed hands.
Give(h, from, token, n) == [h EXCEPT ![from][token] = @ - n]
Take(h, to, token, n) == [h EXCEPT ![to][token] = @ + n]

(***************************************************************************)
(* Opening a trade.                                                        *)
(***************************************************************************)
\* Broker.openTrade(): a trade too large for the auction house is scaled down.
Resized(sellAmount, minBuy) ==
    LET maxQty == fixMax(minBuy, sellAmount)
    IN  IF maxQty > GNOSIS_MAX_TOKENS
        THEN [sell |-> DivUp(sellAmount * GNOSIS_MAX_TOKENS, maxQty),
              minBuy |-> (minBuy * GNOSIS_MAX_TOKENS) \div maxQty]
        ELSE [sell |-> sellAmount, minBuy |-> minBuy]

\* What is auctioned, so that the fee can be paid on top of it, and what the
\* auction house then takes.
ForAuction(n) == (n * FEE_DENOMINATOR) \div (FEE_DENOMINATOR + feeNumerator)
TakenFor(n) == (n * (FEE_DENOMINATOR + feeNumerator)) \div FEE_DENOMINATOR

\* GnosisTrade.init()
NewTrade(trader, sell, buy, req, length) ==
    LET escrow == TakenFor(ForAuction(req.sell)) IN
    [status |-> "OPEN", origin |-> trader, sell |-> sell, buy |-> buy,
     sellAmount |-> req.sell, minBuy |-> req.minBuy, initBal |-> req.sell,
     left |-> length,                  \* until endTime
     escrow |-> escrow,                \* what the auction house holds of it
     cleared |-> FALSE,
     sellBal |-> req.sell - escrow, buyBal |-> 0,
     soldAmt |-> 0, boughtAmt |-> 0,   \* of the TradeSettled event
     heeded |-> TRUE]                  \* settled well, or governance has reacted to it

\* TradeLib: what is sold of an amount, if it is enough to sell at all: at
\* most the largest trade, which depends on the price.
sellAmounts(amt) == IF amt > 1 THEN {fixMin(amt, size) : size \in Sizes} ELSE {}

\* TradingP1.tryTrade(), from holdings h
tryTrade(h, trader, sell, buy, sellAmount, minBuy) ==
    LET req == Resized(sellAmount, minBuy) IN
    /\ trades[trader][sell] = 0
    /\ ~disabled
    /\ Len(clones) < MaxTrades    \* bound
    /\ ForAuction(req.sell) > 0   \* the auction house refuses to auction nothing
    /\ \E length \in AuctionLengths :
          clones' = Append(clones, NewTrade(trader, sell, buy, req, length))
    /\ held' = Give(h, trader, sell, req.sell)
    /\ trades' = [trades EXCEPT ![trader][sell] = Len(clones) + 1]
    /\ tradesOpen' = [tradesOpen EXCEPT ![trader] = @ + 1]

(***************************************************************************)
(* The Distributor.                                                        *)
(***************************************************************************)
shareOf(table, d, token) == IF token = RSR THEN table[d].rsrDist ELSE table[d].rTokenDist
total(table, token) == SumFunction([d \in DOMAIN table |-> shareOf(table, d, token)])

\* init()
ASSUME TableAssumption ==
    /\ InitialTable \in [Destinations -> RevenueShare] /\ Shares \subseteq RevenueShare
    /\ total(InitialTable, RToken) > 0 \/ total(InitialTable, RSR) > 0

\* distribute(): "This rounds "early", and that's deliberate!"
transferAmt_Late(token, amount, d) ==
    (amount * shareOf(distribution, d, token)) \div total(distribution, token)
transferAmt(token, amount, d) ==
    (amount \div total(distribution, token)) * shareOf(distribution, d, token)
distribute(trader, token, amount) ==
    LET paid == SumFunction([d \in Destinations |-> transferAmt(token, amount, d)]) IN
    /\ total(distribution, token) > 0
    /\ held' = [x \in Holders |->
                  CASE x \in Destinations -> [held[x] EXCEPT ![token] = @ + transferAmt(token, amount, x)]
                    [] x = trader -> [held[x] EXCEPT ![token] = @ - paid]
                    [] OTHER -> held[x]]

\* setDistribution()
setDistribution(dest, share) ==
    LET table == [distribution EXCEPT ![dest] = share] IN
    /\ dest = FURNACE => share.rsrDist = 0
    /\ dest = ST_RSR => share.rTokenDist = 0
    /\ total(table, RToken) > 0 \/ total(table, RSR) > 0
    /\ distribution' = table
    /\ UNCHANGED <<held, basketsNeeded, clones, trades, tradesOpen, disabled, pausedOrFrozen, strays>>

(***************************************************************************)
(* The traders.                                                            *)
(***************************************************************************)
\* RevenueTrader.manageToken()
NotTrading(trader, erc20) == trades[trader][erc20] = 0
manageToken(trader, erc20) ==
    /\ ~pausedOrFrozen
    /\ NotTrading(trader, erc20)
    /\ held[trader][erc20] > 0
    /\ IF erc20 = tokenToBuy(trader)
       THEN /\ distribute(trader, erc20, held[trader][erc20])
            /\ UNCHANGED <<clones, trades, tradesOpen>>
       ELSE \E n \in sellAmounts(held[trader][erc20]), minBuy \in MinBuys :
               tryTrade(held, trader, erc20, tokenToBuy(trader), n, minBuy)
    /\ UNCHANGED <<basketsNeeded, disabled, distribution, pausedOrFrozen, strays>>

\* What handoutExcessAssets() sends of n excess tokens to each trader.
toTrader(trader, n) ==
    (n \div (total(distribution, RSR) + total(distribution, RToken)))
        * total(distribution, tokenToBuy(trader))

\* BackingManager.handoutExcessAssets(): all RSR goes to the RSR trader, the
\* backing beyond what is needed becomes RToken, and what is left of other
\* tokens is revenue.
handoutExcessAssets(erc20s) ==
    LET bm == held[BackingManager] IN
    \E rTok \in 0 .. bm[Basket] - basketsNeeded :
        LET excess(t) == CASE t \notin erc20s \cup {RSR} \/ t = Basket -> 0
                           [] t = RToken -> bm[RToken] + rTok
                           [] OTHER -> bm[t]
            gets(x, t) == IF t = RSR THEN (IF x = RSRTrader THEN bm[RSR] ELSE 0)
                                     ELSE toTrader(x, excess(t))
        IN
        /\ basketsNeeded' = bm[Basket]
        /\ held' = [x \in Holders |->
              CASE x \in RevenueTraders -> [t \in Tokens |-> held[x][t] + gets(x, t)]
                [] x = BackingManager ->
                      [t \in Tokens |-> (IF t = RToken THEN bm[t] + rTok ELSE bm[t])
                                            - gets(RSRTrader, t) - gets(RTokenTrader, t)]
                [] OTHER -> held[x]]
        /\ UNCHANGED <<clones, trades, tradesOpen>>

\* The trade towards full collateral, with RSR seized for it if it is RSR.
recollateralize ==
    \E sell \in Tokens \ {Basket}, minBuy \in MinBuys :
        LET bal == held[BackingManager][sell]
            most == IF sell = RSR THEN bal + held[ST_RSR][RSR] ELSE bal
        IN  \E n \in sellAmounts(most) :
                LET seized == IF n > bal THEN n - bal ELSE 0
                    h == Take(Give(held, ST_RSR, RSR, seized), BackingManager, RSR, seized)
                IN  tryTrade(h, BackingManager, sell, Basket, n, minBuy)

\* compromiseBasketsNeeded(): "Haircut time"
compromiseBasketsNeeded ==
    /\ basketsNeeded' = held[BackingManager][Basket]
    /\ UNCHANGED <<held, clones, trades, tradesOpen>>

\* BackingManager._manageTokens(), when the basket is sound and no longer new
Idle_Any == TRUE
Idle == tradesOpen[BackingManager] = 0
manageTokens(erc20s) ==
    /\ ~pausedOrFrozen
    /\ Idle
    /\ IF held[BackingManager][Basket] >= basketsNeeded
       THEN handoutExcessAssets(erc20s)
       ELSE \/ recollateralize /\ UNCHANGED basketsNeeded
            \/ compromiseBasketsNeeded
    /\ UNCHANGED <<disabled, distribution, pausedOrFrozen, strays>>

(***************************************************************************)
(* The auction, and its settlement.                                        *)
(***************************************************************************)
\* gnosis.settleAuction(): the auction house keeps what was sold, and its fee.
Cleared(c, back, proceeds) ==
    [c EXCEPT !.cleared = TRUE, !.escrow = 0, !.sellBal = @ + back, !.buyBal = @ + proceeds]
Clearings(c) == {Cleared(c, back, proceeds) : back \in 0 .. c.escrow, proceeds \in Proceeds}
Ended(c) == c.left = 0
settleAuction(i) ==
    /\ Ended(clones[i]) /\ ~clones[i].cleared
    /\ \E c \in Clearings(clones[i]) : clones' = [clones EXCEPT ![i] = c]
    /\ UNCHANGED <<held, basketsNeeded, trades, tradesOpen, disabled, distribution, pausedOrFrozen, strays>>

\* What settle() finds: an auction that somebody else has cleared, or that it
\* clears itself.
Found_ClearsAgain(c) == IF c.cleared THEN {} ELSE Clearings(c)
Found(c) == IF c.cleared THEN {c} ELSE Clearings(c)

\* A price, as a fixed-point number: shiftl_toFix() of each amount, and div(),
\* which rounds down.
price(buy, bought, sell, sold) ==
    (bought * quantum[buy] * FIX_ONE) \div (sold * quantum[sell])

\* Computed in init(), of what does not change from then on.
worstCasePrice(c) == price(c.buy, c.minBuy, c.sell, c.sellAmount)

\* "Gnosis rounds defensively, so it's possible to get 1 fewer".
clearingPrice(c) == price(c.buy, c.buyBal, c.sell, fixMax(c.initBal - c.sellBal - 1, 1))
BelowWorst_IfBought(c) ==
    c.buyBal > 0 /\ c.sellBal < c.initBal /\ clearingPrice(c) < worstCasePrice(c)
BelowWorst(c) == c.sellBal < c.initBal /\ clearingPrice(c) < worstCasePrice(c)

\* A trade that sold something below the price that was asked for, by a unit of
\* price or more: bought/sold + 1/FIX_ONE <= minBuy/sellAmount, without
\* rounding (soldAmt may be one less, as above).
Poor(c) ==
    LET sold == fixMax(c.soldAmt - 1, 1) IN
    /\ c.soldAmt > 0
    /\ (c.boughtAmt * quantum[c.buy] * FIX_ONE + sold * quantum[c.sell]) * c.sellAmount
          <= c.minBuy * quantum[c.buy] * FIX_ONE * sold

\* delete trades[sell]
Without_Kept(trader, sell) == trades
Without(trader, sell) == [trades EXCEPT ![trader][sell] = 0]

\* TradingP1.settleTrade() and GnosisTrade.settle()
settleTrade(trader, sell) ==
    LET i == trades[trader][sell] IN
    /\ ~pausedOrFrozen
    /\ i # 0
    /\ clones[i].status = "OPEN" /\ Ended(clones[i])    \* canSettle()
    /\ trades' = Without(trader, sell)
    /\ tradesOpen' = [tradesOpen EXCEPT ![trader] = @ - 1]
    /\ \E c \in Found(clones[i]) :
          LET closed == [c EXCEPT !.status = "CLOSED", !.sellBal = 0, !.buyBal = 0,
                                  !.soldAmt = fixMax(c.initBal - c.sellBal, 0), !.boughtAmt = c.buyBal]
          IN  /\ held' = Take(Take(held, c.origin, c.sell, c.sellBal), c.origin, c.buy, c.buyBal)
              /\ disabled' = (disabled \/ BelowWorst(c))    \* reportViolation()
              /\ clones' = [clones EXCEPT ![i] = [closed EXCEPT !.heeded = ~Poor(closed)]]
    /\ UNCHANGED <<basketsNeeded, distribution, pausedOrFrozen, strays>>

\* A token reaches a trade that is closed; while it is open, such tokens are
\* as good as proceeds.
Stray(i) ==
    /\ clones[i].status = "CLOSED"
    /\ strays < MaxStray    \* bound
    /\ strays' = strays + 1
    /\ \/ clones' = [clones EXCEPT ![i].sellBal = @ + 1]
       \/ clones' = [clones EXCEPT ![i].buyBal = @ + 1]
    /\ UNCHANGED <<held, basketsNeeded, trades, tradesOpen, disabled, distribution, pausedOrFrozen>>

transferToOriginAfterTradeComplete(i) ==
    LET c == clones[i] IN
    /\ c.status = "CLOSED"
    /\ \/ /\ held' = Take(held, c.origin, c.sell, c.sellBal)
          /\ clones' = [clones EXCEPT ![i].sellBal = 0]
       \/ /\ held' = Take(held, c.origin, c.buy, c.buyBal)
          /\ clones' = [clones EXCEPT ![i].buyBal = 0]
    /\ UNCHANGED <<basketsNeeded, trades, tradesOpen, disabled, distribution, pausedOrFrozen, strays>>

(***************************************************************************)
(* Governance and time.                                                    *)
(***************************************************************************)
\* Broker.setDisabled(): re-enabling it is governance's answer to bad trades.
setDisabled(b) ==
    /\ disabled' = b
    /\ clones' = IF b THEN clones ELSE [i \in DOMAIN clones |-> [clones[i] EXCEPT !.heeded = TRUE]]
    /\ UNCHANGED <<held, basketsNeeded, trades, tradesOpen, distribution, pausedOrFrozen, strays>>

SetPaused(b) ==
    /\ pausedOrFrozen' = b
    /\ UNCHANGED <<held, basketsNeeded, clones, trades, tradesOpen, disabled, distribution, strays>>

Tick ==
    /\ \E i \in DOMAIN clones : clones[i].left > 0
    /\ clones' = [i \in DOMAIN clones |->
                     [clones[i] EXCEPT !.left = IF @ > 0 THEN @ - 1 ELSE 0]]
    /\ UNCHANGED <<held, basketsNeeded, trades, tradesOpen, disabled, distribution, pausedOrFrozen, strays>>

Init ==
    /\ held = InitialHoldings
    /\ basketsNeeded = InitialNeeded
    /\ clones = <<>>
    /\ trades = [x \in Traders |-> [t \in Tokens |-> 0]]
    /\ tradesOpen = [x \in Traders |-> 0]
    /\ disabled = FALSE
    /\ distribution = InitialTable
    /\ pausedOrFrozen = FALSE
    /\ strays = 0

SettleAny == \E trader \in Traders, sell \in Tokens : settleTrade(trader, sell)
Next ==
    \/ \E trader \in RevenueTraders, erc20 \in Tokens : manageToken(trader, erc20)
    \/ \E erc20s \in Erc20Lists : manageTokens(erc20s)
    \/ SettleAny
    \/ \E i \in DOMAIN clones : settleAuction(i) \/ Stray(i) \/ transferToOriginAfterTradeComplete(i)
    \/ \E dest \in Destinations, share \in Shares : setDistribution(dest, share)
    \/ \E b \in BOOLEAN : setDisabled(b) \/ SetPaused(b)
    \/ Tick

Spec == Init /\ [][Next]_vars

\* Time passes, and settling a trade is anybody's to do.
Fairness ==
    /\ WF_vars(Tick)
    /\ \A trader \in Traders, sell \in Tokens : WF_vars(settleTrade(trader, sell))
FairSpec == Spec /\ Fairness

(***************************************************************************)
(* Properties.                                                             *)
(***************************************************************************)
\* Trading.sol:36, "tradesOpen = len(values(trades))" and "trades[sell] != 0
\* iff trade[sell] has been opened and not yet settled": no trade is lost from
\* the table while its funds are out, and the count the BackingManager waits
\* for is right.
TradesCounted ==
    /\ \A x \in Traders : tradesOpen[x] = Cardinality({t \in Tokens : trades[x][t] # 0})
    /\ \A x \in Traders, t \in Tokens : trades[x][t] # 0 =>
          LET c == clones[trades[x][t]] IN c.status = "OPEN" /\ c.origin = x /\ c.sell = t
    /\ \A i \in DOMAIN clones : clones[i].status = "OPEN" => trades[clones[i].origin][clones[i].sell] = i

\* The RToken is not cut down, and nothing is handed out as excess, while part
\* of the backing is out on a trade, whose outcome is unknown.
WholeBackingJudged ==
    [][(\/ basketsNeeded' # basketsNeeded
        \/ \E x \in RevenueTraders, t \in Tokens :
              held'[x][t] # held[x][t] /\ held'[BackingManager][t] # held[BackingManager][t])
       => \A i \in DOMAIN clones : clones[i].origin = BackingManager => clones[i].status = "CLOSED"]_vars

\* Once any trader sold below the least price it had asked for, by at least the
\* unit of the 18th decimal, no trader opens a trade until governance has enabled
\* the broker again.
PoorTradesStopTrading ==
    [][Len(clones') > Len(clones) => \A i \in DOMAIN clones : clones[i].heeded]_vars

\* Revenue goes to the destinations in proportion to their shares, to the unit,
\* and less than a unit per share is left.
DistributionFair ==
    [][\A t \in {RSR, RToken} :
          LET gain(d) == held'[d][t] - held[d][t]
              share(d) == shareOf(distribution, d, t)
              trader == IF t = RSR THEN RSRTrader ELSE RTokenTrader
          IN  (\E d \in Destinations : gain(d) > 0) =>
                 /\ \A d, e \in Destinations : gain(d) * share(e) = gain(e) * share(d)
                 /\ held'[trader][t] < total(distribution, t)]_vars

\* Every trade is settled, also if its auction was cleared by a third party,
\* unless the system is paused again and again.
EveryTradeSettles ==
    <>[]~pausedOrFrozen =>
        \A i \in 1 .. MaxTrades :
            (i \in DOMAIN clones) ~> (i \in DOMAIN clones /\ clones[i].status = "CLOSED")
=============================================================================
