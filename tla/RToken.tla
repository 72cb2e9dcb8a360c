---------------------------- MODULE RToken ----------------------------
(***************************************************************************)
(* The RToken of contracts/p1/RToken.sol: slow issuance against basket     *)
(* collateral, vesting and cancellation, throttled redemption, and the     *)
(* melting, revenue minting and haircuts that move basketsNeeded and the   *)
(* supply.                                                                 *)
(*                                                                         *)
(* Who holds how much RToken, or how much collateral outside the protocol, *)
(* is not recorded: holders trade freely, so any split is possible at any  *)
(* time.  A caller's tokens are bounded by what all outsiders hold, and a  *)
(* holder's RToken by the supply.  The basket handler's basket is its      *)
(* nonce, its status and quantity(t), the tokens of type t per basket.     *)
(* Amounts in the code's D18 format have the scale FIX_ONE here.           *)
(***************************************************************************)
EXTENDS Integers, Sequences, FiniteSets, Functions, Fixed, QueueSearch, RedemptionBattery

CONSTANTS
    Accounts,                   \* the issuers
    Tokens,                     \* the collateral ERC20s
    Baskets,                    \* nonce -> the quantities [Tokens -> Nat] it may have
    MIN_BLOCK_ISSUANCE_LIMIT,
    MIN_BU_RATE, MAX_BU_RATE,   \* the range of basketsNeeded / totalSupply
    Wallet,                     \* collateral in the hands of outsiders, at first
    Amounts,                    \* the amounts an account issues
    IssuanceRates, Floors, Rates,  \* the arguments governance may pass
    backingBuffer,              \* D18 surplus the backing manager keeps
    Shares,                     \* the distributor's rTokenTotal + rsrTotal
    MaxAuction,                 \* bound: tokens changing hands in one trade
    MaxBlock,                   \* bound: block number
    MaxItems                    \* bound: issuances in one queue

Quantities == [Tokens -> Nat]
IssueItem  == [when: Nat, amtRToken: Nat, amtBaskets: Nat, deposits: Quantities]
IssueQueue == [basketNonce: Nat, left: Nat, items: Seq(IssueItem)]
Statuses   == {"SOUND", "IFFY", "DISABLED"}

ASSUME BasketAssumption == \A n \in DOMAIN Baskets : Baskets[n] \subseteq Quantities
ASSUME RTokenAssumption ==
    /\ IsFiniteSet(Accounts)
    /\ DOMAIN Baskets \subseteq Nat \ {0}
    /\ MIN_BLOCK_ISSUANCE_LIMIT \in Nat \ {0}
    /\ MIN_BU_RATE \in Nat /\ MAX_BU_RATE \in Nat
    /\ Wallet \in Quantities /\ Amounts \subseteq Nat
    /\ IssuanceRates \subseteq Nat /\ Floors \subseteq Nat /\ Rates \subseteq Nat
    /\ backingBuffer \in Nat /\ Shares \in Nat \ {0}
    /\ MaxAuction \in Nat /\ MaxBlock \in Nat /\ MaxItems \in Nat

VARIABLES
    totalSupply, basketsNeeded,
    queues,                       \* issueQueues
    liabilities,                  \* owed to issuers, per token
    allVestAt, lastIssRate, lastIssRateBlock, issuanceRate,
    battery,
    wallet, escrow, backing,      \* collateral of outsiders, of the RToken
                                  \* contract and of the backing manager
    nonce, status, quantity,      \* the basket handler's basket
    block,                        \* block.number
    access                        \* Main: open, paused or frozen

supplyVars == <<totalSupply, basketsNeeded>>
vestVars   == <<allVestAt, lastIssRate, lastIssRateBlock>>
collVars   == <<wallet, escrow, backing>>
basketVars == <<nonce, status, quantity>>
vars == <<supplyVars, queues, liabilities, vestVars, issuanceRate, battery, collVars,
          basketVars, block, access>>

----------------------------------------------------------------------
\* Amounts of every token

None         == [t \in Tokens |-> 0]
Plus(f, g)   == [t \in Tokens |-> f[t] + g[t]]
Minus(f, g)  == [t \in Tokens |-> f[t] - g[t]]
Covers(f, g) == \A t \in Tokens : g[t] <= f[t]

\* basketHandler.quote(baskets, CEIL) and quote(baskets, FLOOR)
QuoteUp(baskets)   == [t \in Tokens |-> DivUp(quantity[t] * baskets, FIX_ONE)]
QuoteDown(baskets) == [t \in Tokens |-> (quantity[t] * baskets) \div FIX_ONE]

\* n baskets are held: basketsHeldBy(backingManager) >= n
Holds(n) == \A t \in Tokens : n * quantity[t] <= backing[t] * FIX_ONE
Backed   == Holds(basketsNeeded)

\* requireValidBUExchangeRate()
ValidBUExchangeRate(supply, needed) ==
    supply > 0 =>
        /\ (FIX_ONE * needed) \div supply >= MIN_BU_RATE
        /\ DivUp(FIX_ONE * needed, supply) <= MAX_BU_RATE

----------------------------------------------------------------------
\* Issuance queues.  Items are cumulative; entries at queue.right and beyond
\* are overwritten before they are read, so right is Len(items).

ZeroItem == [when |-> 0, amtRToken |-> 0, amtBaskets |-> 0, deposits |-> None]
item(q, i) == IF i = 0 THEN ZeroItem ELSE q.items[i]

\* The sums over the span of issuances from fencepost left to right.
SpanRToken(q, left, right)   == item(q, right).amtRToken - item(q, left).amtRToken
SpanBaskets(q, left, right)  == item(q, right).amtBaskets - item(q, left).amtBaskets
SpanDeposits_Cumulative(q, left, right) == item(q, right).deposits   \* mutant
SpanDeposits(q, left, right) == Minus(item(q, right).deposits, item(q, left).deposits)

Pending(q) == (q.left + 1) .. Len(q.items)
PendingDeposits(q) == SpanDeposits(q, q.left, Len(q.items))

Emptied(q) == [basketNonce |-> q.basketNonce, left |-> 0, items |-> <<>>]

\* The queue without the span, in refundSpan() and vestUpTo().
WithoutSpan_KeepLeft(q, left, right) ==                          \* mutant
    IF right = Len(q.items) THEN [q EXCEPT !.items = SubSeq(@, 1, left)]
    ELSE [q EXCEPT !.left = right]
WithoutSpan(q, left, right) ==
    IF left = q.left /\ right = Len(q.items) THEN Emptied(q)
    ELSE IF left = q.left THEN [q EXCEPT !.left = right]
    ELSE [q EXCEPT !.items = SubSeq(@, 1, left)]

\* A span of deposits can leave the RToken contract: the subtraction from the
\* liabilities is checked, and the contract must hold the tokens.
Payable(deposits) == Covers(liabilities, deposits) /\ Covers(escrow, deposits)

StaleQueue_Never(q) == FALSE                                     \* mutant
\* issue() finds issuances against an old basket.
StaleQueue(q) == q.basketNonce > 0 /\ q.basketNonce # nonce

----------------------------------------------------------------------
\* The issuance schedule

\* lastIssRate is fixed by the first issuance of a block.
IssRate(supply) ==
    IF lastIssRateBlock < block
    THEN fixMax((issuanceRate * supply) \div FIX_ONE, MIN_BLOCK_ISSUANCE_LIMIT)
    ELSE lastIssRate

whenFinished_NoQueue(amtRToken, supply) ==                       \* mutant
    FIX_ONE * (block - 1) + DivUp(FIX_ONE * amtRToken, IssRate(supply))
\* When an issuance vests if it starts when all pending ones have vested.
whenFinished(amtRToken, supply) ==
    fixMax(allVestAt, FIX_ONE * (block - 1)) + DivUp(FIX_ONE * amtRToken, IssRate(supply))

\* The baskets an issuance is worth at the current exchange rate.
BasketsFor(amtRToken, supply) ==
    IF supply > 0 THEN (basketsNeeded * amtRToken) \div supply ELSE amtRToken

----------------------------------------------------------------------

\* BasketHandler starts without a basket.
Init ==
    /\ totalSupply = 0 /\ basketsNeeded = 0
    /\ queues = [a \in Accounts |-> [basketNonce |-> 0, left |-> 0, items |-> <<>>]]
    /\ liabilities = None
    /\ allVestAt = 0 /\ lastIssRate = 0 /\ lastIssRateBlock = 0
    /\ issuanceRate \in {r \in IssuanceRates : r > 0 /\ r <= FIX_ONE}
    /\ \E f \in Floors, r \in Rates : r <= FIX_ONE /\ battery = NewBattery(f, r)
    /\ wallet = Wallet /\ escrow = None /\ backing = None
    /\ nonce = 0 /\ status = "DISABLED" /\ quantity = None
    /\ block = 1 /\ access = "open"

\* furnace.melt() within issue() and redeem(): what the furnace melts is any
\* part of the supply here, its schedule is Furnace.sol's.
Meltable(amt) ==
    /\ access = "open" /\ amt <= totalSupply
    /\ ValidBUExchangeRate(totalSupply - amt, basketsNeeded)

\* issue(): refund issuances against an old basket, melt, and either mint at
\* once, when the issuance fits in this block, or queue it.
Issue(account, amtRToken, melted) ==
    LET q          == queues[account]
        refund     == IF StaleQueue(q) THEN PendingDeposits(q) ELSE None
        queue      == IF StaleQueue(q) THEN Emptied(q) ELSE q
        supply     == totalSupply - melted
        amtBaskets == BasketsFor(amtRToken, supply)
        deposits   == QuoteUp(amtBaskets)
        vestingEnd == whenFinished(amtRToken, supply)
        prev       == item(queue, Len(queue.items))
        iss        == [when       |-> vestingEnd,
                       amtRToken  |-> prev.amtRToken + amtRToken,
                       amtBaskets |-> prev.amtBaskets + amtBaskets,
                       deposits   |-> Plus(prev.deposits, deposits)]
    IN  /\ access = "open" /\ amtRToken > 0 /\ status = "SOUND"
        /\ Payable(refund)
        /\ melted > 0 => Meltable(melted)
        /\ Covers(Plus(wallet, refund), deposits)
        /\ vestingEnd <= FIX_ONE * MaxBlock            \* bound
        /\ wallet' = Minus(Plus(wallet, refund), deposits)
        /\ allVestAt' = vestingEnd
        /\ lastIssRate' = IssRate(supply) /\ lastIssRateBlock' = block
        /\ \/ /\ vestingEnd <= FIX_ONE * block /\ Pending(queue) = {}
              /\ totalSupply' = supply + amtRToken
              /\ basketsNeeded' = basketsNeeded + amtBaskets
              /\ queues' = [queues EXCEPT ![account] = queue]
              /\ liabilities' = Minus(liabilities, refund)
              /\ escrow' = Minus(escrow, refund)
              /\ backing' = Plus(backing, deposits)
           \/ /\ vestingEnd > FIX_ONE * block \/ Pending(queue) # {}
              /\ Len(queue.items) < MaxItems           \* bound
              /\ totalSupply' = supply
              /\ queues' = [queues EXCEPT ![account] =
                               [basketNonce |-> nonce, left |-> queue.left,
                                items |-> Append(queue.items, iss)]]
              /\ liabilities' = Plus(Minus(liabilities, refund), deposits)
              /\ escrow' = Plus(Minus(escrow, refund), deposits)
              /\ UNCHANGED <<basketsNeeded, backing>>
        /\ UNCHANGED <<issuanceRate, battery, basketVars, block, access>>

\* refundSpan(): return the deposits of a span of issuances.
RefundSpan_KeepLiabilities(account, left, right) ==              \* mutant
    LET deposits == SpanDeposits(queues[account], left, right) IN
    /\ left < right
    /\ Payable(deposits)
    /\ queues' = [queues EXCEPT ![account] = WithoutSpan(@, left, right)]
    /\ escrow' = Minus(escrow, deposits)
    /\ wallet' = Plus(wallet, deposits)
    /\ UNCHANGED <<supplyVars, liabilities, vestVars, issuanceRate, battery, backing,
                   basketVars, block, access>>
RefundSpan(account, left, right) ==
    LET deposits == SpanDeposits(queues[account], left, right) IN
    /\ left < right
    /\ Payable(deposits)
    /\ queues' = [queues EXCEPT ![account] = WithoutSpan(@, left, right)]
    /\ liabilities' = Minus(liabilities, deposits)
    /\ escrow' = Minus(escrow, deposits)
    /\ wallet' = Plus(wallet, deposits)
    /\ UNCHANGED <<supplyVars, vestVars, issuanceRate, battery, backing, basketVars,
                   block, access>>

\* The span up to endId may vest: its last issuance is finished.
Due(q, endId) == item(q, endId).when <= FIX_ONE * block

\* vestUpTo(): complete the issuances up to endId.
VestUpTo(account, endId) ==
    LET q        == queues[account]
        deposits == SpanDeposits(q, q.left, endId)
    IN  /\ endId \in Pending(q) /\ Due(q, endId)
        /\ Payable(deposits)
        /\ queues' = [queues EXCEPT ![account] = WithoutSpan(@, q.left, endId)]
        /\ basketsNeeded' = basketsNeeded + SpanBaskets(q, q.left, endId)
        /\ totalSupply' = totalSupply + SpanRToken(q, q.left, endId)
        /\ liabilities' = Minus(liabilities, deposits)
        /\ escrow' = Minus(escrow, deposits)
        /\ backing' = Plus(backing, deposits)
        /\ UNCHANGED <<vestVars, issuanceRate, battery, wallet, basketVars, block, access>>

\* vest(), which anyone may call for any account.
Vest(account, endId) ==
    LET q == queues[account] IN
    /\ access = "open" /\ status = "SOUND"
    /\ \/ q.basketNonce # nonce /\ RefundSpan(account, q.left, Len(q.items))
       \/ q.basketNonce = nonce /\ VestUpTo(account, endId)

\* cancel(), of the issuances before endId or from it on.
Cancel(account, endId, earliest) ==
    LET q == queues[account] IN
    /\ access # "frozen"
    /\ endId \in q.left .. Len(q.items)
    /\ IF earliest THEN RefundSpan(account, q.left, endId)
       ELSE RefundSpan(account, endId, Len(q.items))

endIdForVest_OneAtATime(account) ==                              \* mutant
    LET q == queues[account] IN
    IF Pending(q) = {} \/ ~Due(q, q.left + 1) THEN q.left ELSE q.left + 1
\* FacadeRead.endIdForVest(): binary search for the end of what may vest.
endIdForVest(account) ==
    LET q     == queues[account]
        right == Len(q.items)
        due   == {i \in 1 .. right : Due(q, i)}
    IN  IF Pending(q) = {} \/ ~Due(q, q.left + 1) THEN q.left
        ELSE IF Due(q, right) THEN right
        ELSE SearchEnd(due, q.left, right)

\* What a redemption pays: the quoted tokens, or the share of the backing that
\* goes with the redeemed share of the supply, if that is less.
RedemptionAmounts_Quote(amt, supply, baskets) == QuoteDown(baskets)   \* mutant
RedemptionAmounts(amt, supply, baskets) ==
    LET prorate == (FIX_ONE * amt) \div supply IN
    [t \in Tokens |-> fixMin(QuoteDown(baskets)[t], (prorate * backing[t]) \div FIX_ONE)]

\* redeem(): a melt that reverts is passed over.
Redeem(amt, melted) ==
    LET supply  == totalSupply - melted
        baskets == (basketsNeeded * amt) \div supply
        amounts == RedemptionAmounts(amt, supply, baskets)
    IN  /\ access # "frozen" /\ status # "DISABLED"
        /\ amt > 0 /\ amt <= supply
        /\ melted > 0 => Meltable(melted)
        /\ Dischargeable(battery, supply, amt, block)
        /\ \E t \in Tokens : amounts[t] > 0
        /\ Covers(backing, amounts)
        /\ battery' = discharge(battery, supply, amt, block)
        /\ totalSupply' = supply - amt
        /\ basketsNeeded' = basketsNeeded - baskets
        /\ backing' = Minus(backing, amounts)
        /\ wallet' = Plus(wallet, amounts)
        /\ UNCHANGED <<queues, liabilities, vestVars, issuanceRate, escrow, basketVars,
                       block, access>>

\* melt(), by any holder of RToken; most of all by the furnace.
Melt(amt) ==
    /\ amt > 0 /\ Meltable(amt)
    /\ totalSupply' = totalSupply - amt
    /\ UNCHANGED <<basketsNeeded, queues, liabilities, vestVars, issuanceRate, battery,
                   collVars, basketVars, block, access>>

\* What sweeping may take of a token.
Excess(t) == escrow[t] - liabilities[t]

\* sweepRewards() of all tokens, or sweepRewardsSingle().
SweepRewards(tokens) ==
    LET swept == [t \in Tokens |-> IF t \in tokens THEN Excess(t) ELSE 0] IN
    /\ access = "open"
    /\ \A t \in tokens : liabilities[t] <= escrow[t]      \* checked subtraction
    /\ escrow' = Minus(escrow, swept)
    /\ backing' = Plus(backing, swept)
    /\ UNCHANGED <<supplyVars, queues, liabilities, vestVars, issuanceRate, battery,
                   wallet, basketVars, block, access>>

\* mint() and setBasketsNeeded() as BackingManager.sol calls them.

\* The values basketsHeldBy(backingManager) is the least of.
HeldOf == {(backing[t] * FIX_ONE) \div quantity[t] : t \in {u \in Tokens : quantity[u] > 0}}

RevenueFor_Up(held) ==                                           \* mutant
    IF basketsNeeded > 0 THEN DivUp((held - basketsNeeded) * totalSupply, basketsNeeded)
    ELSE held - basketsNeeded
\* The RToken that is minted when more baskets are held than needed.
RevenueFor(held) ==
    IF basketsNeeded > 0 THEN ((held - basketsNeeded) * totalSupply) \div basketsNeeded
    ELSE held - basketsNeeded

Surplus_Down(t, needed) ==                                  \* mutant
    fixMax(0, backing[t] - (needed * quantity[t]) \div FIX_ONE)
\* What is held of a token beyond the needed baskets and the buffer.
Surplus(t, needed) ==
    LET buffered == DivRound(needed * (FIX_ONE + backingBuffer), FIX_ONE)
    IN  fixMax(0, backing[t] - DivUp(buffered * quantity[t], FIX_ONE))

\* handoutExcessAssets(): mint against the excess baskets, up to the exchange
\* rate, and give the surplus of the listed tokens to the traders, in whole shares.
HandoutExcessAssets(held, erc20s) ==
    LET revenue == IF held > basketsNeeded THEN RevenueFor(held) ELSE 0
        handed  == [t \in Tokens |->
                       IF t \in erc20s THEN (Surplus(t, held) \div Shares) * Shares ELSE 0]
    IN  /\ access = "open" /\ status = "SOUND"
        /\ Holds(held) /\ held >= basketsNeeded
        /\ totalSupply' = totalSupply + revenue
        /\ basketsNeeded' = held
        /\ held > basketsNeeded => /\ ValidBUExchangeRate(totalSupply', basketsNeeded)
                                   /\ ValidBUExchangeRate(totalSupply', held)
        /\ backing' = Minus(backing, handed)
        /\ wallet' = Plus(wallet, handed)
        /\ UNCHANGED <<queues, liabilities, vestVars, issuanceRate, battery, escrow,
                       basketVars, block, access>>

\* compromiseBasketsNeeded(): the haircut.
CompromiseBasketsNeeded(held) ==
    /\ access = "open" /\ status = "SOUND"
    /\ Holds(held) /\ held < basketsNeeded
    /\ basketsNeeded' = held
    /\ ValidBUExchangeRate(totalSupply, held)
    /\ UNCHANGED <<totalSupply, queues, liabilities, vestVars, issuanceRate, battery,
                   collVars, basketVars, block, access>>

\* Governance
setIssuanceRate(val) ==
    /\ val > 0 /\ val <= FIX_ONE
    /\ issuanceRate' = val
    /\ UNCHANGED <<supplyVars, queues, liabilities, vestVars, battery, collVars,
                   basketVars, block, access>>

setScalingRedemptionRate_Unchecked(val) ==                       \* mutant
    /\ battery' = [battery EXCEPT !.scalingRedemptionRate = val]
    /\ UNCHANGED <<supplyVars, queues, liabilities, vestVars, issuanceRate, collVars,
                   basketVars, block, access>>
setScalingRedemptionRate(val) ==
    /\ val <= FIX_ONE
    /\ battery' = [battery EXCEPT !.scalingRedemptionRate = val]
    /\ UNCHANGED <<supplyVars, queues, liabilities, vestVars, issuanceRate, collVars,
                   basketVars, block, access>>

setRedemptionRateFloor(val) ==
    /\ battery' = [battery EXCEPT !.redemptionRateFloor = val]
    /\ UNCHANGED <<supplyVars, queues, liabilities, vestVars, issuanceRate, collVars,
                   basketVars, block, access>>

----------------------------------------------------------------------
\* The environment

\* Tokens sent to the RToken contract or to the backing manager.
Donate(t, amount) ==
    /\ amount <= wallet[t]
    /\ wallet' = [wallet EXCEPT ![t] = @ - amount]
    /\ \/ escrow' = [escrow EXCEPT ![t] = @ + amount] /\ backing' = backing
       \/ backing' = [backing EXCEPT ![t] = @ + amount] /\ escrow' = escrow
    /\ UNCHANGED <<supplyVars, queues, liabilities, vestVars, issuanceRate, battery,
                   basketVars, block, access>>

\* A trade of the backing manager towards the basket settles.
Auction(sell, buy, sold, bought) ==
    /\ ~Backed /\ sell # buy
    /\ sold <= backing[sell] /\ bought <= wallet[buy]
    /\ backing' = [backing EXCEPT ![sell] = @ - sold, ![buy] = @ + bought]
    /\ wallet' = [wallet EXCEPT ![sell] = @ + sold, ![buy] = @ - bought]
    /\ UNCHANGED <<supplyVars, queues, liabilities, vestVars, issuanceRate, battery,
                   escrow, basketVars, block, access>>

\* The basket handler switches to the next basket.
SwitchBasket ==
    /\ nonce + 1 \in DOMAIN Baskets
    /\ nonce' = nonce + 1
    /\ quantity' \in Baskets[nonce']
    /\ status' \in {"SOUND", "IFFY"}
    /\ UNCHANGED <<supplyVars, queues, liabilities, vestVars, issuanceRate, battery,
                   collVars, block, access>>

\* Collateral turns iffy, recovers, or defaults for good.
SetStatus ==
    /\ status # "DISABLED"
    /\ status' \in Statuses \ {status}
    /\ UNCHANGED <<supplyVars, queues, liabilities, vestVars, issuanceRate, battery,
                   collVars, nonce, quantity, block, access>>

\* Collateral appreciates: fewer tokens make a basket.
Appreciate ==
    /\ nonce \in DOMAIN Baskets
    /\ \E q \in Baskets[nonce] : Covers(quantity, q) /\ q # quantity /\ quantity' = q
    /\ UNCHANGED <<supplyVars, queues, liabilities, vestVars, issuanceRate, battery,
                   collVars, nonce, status, block, access>>

NextBlock ==
    /\ block < MaxBlock
    /\ block' = block + 1
    /\ UNCHANGED <<supplyVars, queues, liabilities, vestVars, issuanceRate, battery,
                   collVars, basketVars, access>>

SetAccess ==
    /\ access' \in {"open", "paused", "frozen"} \ {access}
    /\ UNCHANGED <<supplyVars, queues, liabilities, vestVars, issuanceRate, battery,
                   collVars, basketVars, block>>

Next ==
    \/ \E a \in Accounts :
          \/ \E amt \in Amounts, m \in 0 .. totalSupply : Issue(a, amt, m)
          \/ \E endId \in 0 .. Len(queues[a].items) :
                Vest(a, endId) \/ \E b \in BOOLEAN : Cancel(a, endId, b)
    \/ \E m \in 0 .. totalSupply : \E amt \in 1 .. totalSupply - m : Redeem(amt, m)
    \/ \E amt \in 1 .. totalSupply : Melt(amt)
    \/ SweepRewards(Tokens) \/ \E t \in Tokens : SweepRewards({t})
    \/ \E held \in HeldOf :
          \/ \E erc20s \in SUBSET Tokens : HandoutExcessAssets(held, erc20s)
          \/ CompromiseBasketsNeeded(held)
    \/ \E r \in IssuanceRates : setIssuanceRate(r)
    \/ \E r \in Rates : setScalingRedemptionRate(r)
    \/ \E f \in Floors : setRedemptionRateFloor(f)
    \/ \E t \in Tokens, n \in 1 .. MaxAuction : Donate(t, n)
    \/ \E s, b \in Tokens, x, y \in 0 .. MaxAuction : Auction(s, b, x, y)
    \/ SwitchBasket \/ SetStatus \/ Appreciate \/ NextBlock \/ SetAccess

Spec == Init /\ [][Next]_vars

\* Blocks are mined, and somebody vests what is due in every queue.
VestsDue(a) == Vest(a, endIdForVest(a))
FairSpec == Spec /\ WF_vars(NextBlock) /\ \A a \in Accounts : WF_vars(VestsDue(a))

----------------------------------------------------------------------
\* Properties

\* Every variable has its type.
TypeOK ==
    /\ totalSupply \in Nat /\ basketsNeeded \in Nat
    /\ queues \in [Accounts -> IssueQueue]
    /\ liabilities \in Quantities
    /\ allVestAt \in Nat /\ lastIssRate \in Nat /\ lastIssRateBlock \in 0 .. block
    /\ lastIssRateBlock > 0 => lastIssRate > 0
    /\ issuanceRate \in 1 .. FIX_ONE
    /\ battery \in Battery /\ battery.lastBlock <= block
    /\ wallet \in Quantities /\ escrow \in Quantities /\ backing \in Quantities
    /\ nonce \in Nat /\ status \in Statuses /\ quantity \in Quantities
    /\ block \in Nat \ {0} /\ access \in {"open", "paused", "frozen"}

\* The contract holds all the deposits it owes to issuers.
LiabilitiesCovered == Covers(escrow, liabilities)

\* The liabilities are exactly the deposits of the pending issuances, through
\* partial vesting, cancellation at either end and refunds after a basket
\* change, and they are held: no sweep takes them, and every refund and vesting
\* can be paid.
DepositsHeld ==
    /\ LiabilitiesCovered
    /\ \A t \in Tokens :
          liabilities[t] = SumFunction([a \in Accounts |-> PendingDeposits(queues[a])[t]])

\* [left, right) is a span of the queue, (0, 0) when nothing is pending; items
\* are ordered, also after entries were reused, and none vests after allVestAt.
QueuesOrdered ==
    \A a \in Accounts :
        LET q == queues[a] IN
        /\ IF q.items = <<>> THEN q.left = 0 ELSE q.left < Len(q.items)
        /\ \A i, j \in 0 .. Len(q.items) : i < j =>
              /\ item(q, i).when < item(q, j).when
              /\ item(q, i).amtRToken < item(q, j).amtRToken
              /\ item(q, i).amtBaskets <= item(q, j).amtBaskets
              /\ Covers(item(q, j).deposits, item(q, i).deposits)
        /\ item(q, Len(q.items)).when <= allVestAt

\* One schedule for all issuers: no two pending issuances finish together.
OneSchedule ==
    \A a, b \in Accounts : \A i \in Pending(queues[a]), j \in Pending(queues[b]) :
        queues[a].items[i].when = queues[b].items[j].when => a = b /\ i = j

\* Every pending issuance against the current basket has deposits for the
\* baskets it will add, whatever became of earlier issuances in its queue.
PendingIsBacked ==
    \A a \in Accounts :
        LET q == queues[a] IN
        q.basketNonce = nonce =>
            \A i \in Pending(q), t \in Tokens :
                quantity[t] * SpanBaskets(q, i - 1, i) <= FIX_ONE * SpanDeposits(q, i - 1, i)[t]

\* Only a change of the basket can leave the RToken undercollateralised: issuing,
\* vesting, redeeming, melting and minting keep it backed, in spite of rounding.
BackingKept == [][Backed /\ nonce' = nonce => Backed']_vars

\* When supply goes, each remaining RToken has no less of any backing token
\* behind it and no fewer baskets, even while undercollateralised.
NoDilutionByRedemption ==
    [][totalSupply' < totalSupply =>
         /\ \A t \in Tokens : backing'[t] * totalSupply >= backing[t] * totalSupply'
         /\ basketsNeeded' * totalSupply >= basketsNeeded * totalSupply']_vars

\* Minting revenue or raising basketsNeeded does not lower the exchange rate.
NoDilutionByRevenue ==
    [][queues' = queues /\ basketsNeeded' > basketsNeeded /\ Covers(backing, backing') =>
         basketsNeeded' * totalSupply >= basketsNeeded * totalSupply']_vars

\* No issuance of a queue becomes RToken before it is finished, though vest()
\* looks at the last of them only.
NoEarlyVest ==
    [][\A a \in Accounts :
         totalSupply' > totalSupply /\ queues[a].basketNonce = nonce =>
             \A i \in Pending(queues[a]) \ Pending(queues'[a]) :
                 queues[a].items[i].when <= FIX_ONE * block]_vars

\* endIdForVest() returns the end of exactly what vest() would accept.
EndIdForVestIsMaximal ==
    \A a \in Accounts :
        LET q == queues[a] IN
        /\ endIdForVest(a) \in Pending(q) \cup {q.left}
        /\ \A i \in Pending(q) : Due(q, i) <=> i <= endIdForVest(a)

\* The RToken implements the throttle of RedemptionThrottle (whose monitor is off
\* here): nothing but redeem() uses the battery, and redeem() never goes past it.
Throttle == INSTANCE RedemptionThrottle
    WITH Supplies <- Nat, supply <- totalSupply, watching <- FALSE,
         since <- 0, redeemed <- 0, peakRate <- 0
RedemptionsThrottled == Throttle!Spec

\* Every issuance is vested, cancelled or refunded in the end, unless the system
\* stays paused or the basket unsound.
\* The time it finishes, never given twice, names an issuance; what finishes within
\* the first block is never queued.
EveryIssuanceSettles ==
    <>[](access = "open" /\ status = "SOUND") =>
        \A a \in Accounts, w \in FIX_ONE + 1 .. FIX_ONE * MaxBlock :
            LET Waiting == \E i \in Pending(queues[a]) : queues[a].items[i].when = w
            IN  Waiting ~> ~Waiting

=======================================================================
