---------------------------- MODULE StRSR ----------------------------
(***************************************************************************)
(* The staking token of contracts/p1/StRSR.sol.                            *)
(*                                                                         *)
(* RSR staked here insures the RToken.  Stakes are shares of the pool      *)
(* stakeRSR; unstaking turns them into drafts, shares of a second pool     *)
(* draftRSR, that wait in a queue per account.  RSR held beyond the two    *)
(* pools is the reward fund, handed to the stake pool period by period.    *)
(* The backing manager seizes RSR from all three proportionally; a pool    *)
(* that is (nearly) wiped out starts a new era.                            *)
(*                                                                         *)
(* Allowances and permits (which move stakes only through Transfer) and    *)
(* the vote checkpoints are not in this module.                            *)
(***************************************************************************)
EXTENDS Integers, Sequences, FiniteSets, Functions, Fixed, QueueSearch

CONSTANTS
    Accounts,            \* the stakers
    THIS,                \* the address of the StRSR contract
    BackingManager,      \* the address that may seize
    FIX_ONE,             \* the scale of the rates (10^18 in the code)
    MAX_STAKE_RATE,      \* stake rate beyond which a stake era ends
    MAX_DRAFT_RATE,      \* draft rate beyond which a draft era ends
    MAX_UNSTAKING_DELAY,
    MAX_REWARD_PERIOD,
    InitialHoldings,     \* the RSR balances the system may start from
    Delays, Periods, Ratios,  \* the arguments governance may pass
    MaxTime,             \* bound: the last timestamp
    MaxEra,              \* bound: eras of either kind
    MaxDrafts            \* bound: drafts per account and era

Holders == Accounts \cup {THIS, BackingManager}
Eras    == 1 .. MaxEra
Draft   == [drafts: Nat, availableAt: Nat]

ASSUME AddressAssumption ==
    /\ THIS \notin Accounts /\ BackingManager \notin Accounts /\ THIS # BackingManager
    /\ IsFiniteSet(Accounts)
ASSUME RateAssumption ==
    /\ FIX_ONE \in Nat \ {0}
    /\ MAX_STAKE_RATE \in Nat /\ FIX_ONE <= MAX_STAKE_RATE
    /\ MAX_DRAFT_RATE \in Nat /\ FIX_ONE <= MAX_DRAFT_RATE
ASSUME ParamAssumption ==
    /\ MAX_UNSTAKING_DELAY \in Nat /\ MAX_REWARD_PERIOD \in Nat
    /\ Delays \subseteq Nat /\ Periods \subseteq Nat /\ Ratios \subseteq Nat
    /\ MaxTime \in Nat /\ MaxEra \in Nat \ {0} /\ MaxDrafts \in Nat
ASSUME HoldingsAssumption == \A h \in InitialHoldings : h \in [Holders -> Nat]

VARIABLES
    rsr,                     \* RSR balance of every holder
    stakes,                  \* stakes[era][account]
    era, totalStakes, stakeRSR, stakeRate,
    draftQueues,             \* draftQueues[draftEra][account], cumulative
    firstRemainingDraft,     \* how many drafts of a queue are withdrawn
    draftEra, totalDrafts, draftRSR, draftRate,
    unstakingDelay, rewardPeriod, rewardRatio,
    payoutLastPaid, rsrRewardsAtLastPayout,
    now,                     \* block.timestamp
    pausedOrFrozen,          \* main.pausedOrFrozen()
    rtokenSound              \* fullyCollateralized() and status() = SOUND

stakeVars  == <<stakes, era, totalStakes, stakeRSR, stakeRate>>
draftVars  == <<draftQueues, firstRemainingDraft, draftEra, totalDrafts, draftRSR, draftRate>>
govVars    == <<unstakingDelay, rewardPeriod, rewardRatio>>
payoutVars == <<payoutLastPaid, rsrRewardsAtLastPayout>>
envVars    == <<now, pausedOrFrozen, rtokenSound>>
vars       == <<rsr, stakeVars, draftVars, govVars, payoutVars, envVars>>

----------------------------------------------------------------------
\* Values the code computes

\* rsrRewards(); the subtraction reverts when the pools exceed the balance.
rsrRewards == rsr[THIS] - stakeRSR - draftRSR

balanceOf(a) == stakes[era][a]

queueOf(a) == draftQueues[draftEra][a]

\* Cumulative drafts of a queue up to and including entry i; entry 0 is 0.
DraftsUpTo(q, i) == IF i = 0 THEN 0 ELSE q[i].drafts

\* Shares that a pool holding r backs at a rate.
SharesFor_Up(rate, r)      == DivUp(rate * r, FIX_ONE)            \* mutant
SharesFor_Inverse(rate, r) == (FIX_ONE * r) \div rate             \* mutant
SharesFor(rate, r)         == (rate * r) \div FIX_ONE

\* RSR needed to back shares at a rate.
BackingFor_Down(rate, shares) == (FIX_ONE * shares) \div rate     \* mutant
BackingFor(rate, shares)      == DivUp(FIX_ONE * shares, rate)

\* Rate at which a pool holding r backs its shares.
RateFor(shares, r) == DivUp(FIX_ONE * shares, r)

\* _payoutRewards(): the reward periods gone by and what they pay.
PayoutDue   == now >= payoutLastPaid + rewardPeriod
numPeriods  == (now - payoutLastPaid) \div rewardPeriod
payoutRatio == FIX_ONE - powu(FIX_ONE, FIX_ONE - rewardRatio, numPeriods)
payout      == (payoutRatio * rsrRewardsAtLastPayout) \div FIX_ONE

\* The stake pool and the rewards cache as they stand, and after a payout.
Unpaid == [stakeRSR |-> stakeRSR, stakeRate |-> stakeRate,
           lastPaid |-> payoutLastPaid, cached |-> rsrRewardsAtLastPayout]
Paid ==
    LET newStakeRSR == stakeRSR + payout IN
    [stakeRSR  |-> newStakeRSR,
     stakeRate |-> IF newStakeRSR = 0 \/ totalStakes = 0 THEN FIX_ONE
                   ELSE RateFor(totalStakes, newStakeRSR),
     lastPaid  |-> payoutLastPaid + numPeriods * rewardPeriod,
     cached    |-> rsrRewards - payout]

AfterPayout == IF PayoutDue THEN Paid ELSE Unpaid

\* The closing rsrRewards() call underflows, and the whole call reverts, when
\* the payout exceeds the reward fund.
PayoutReverts_Unchecked == FALSE                                 \* mutant
PayoutReverts == PayoutDue /\ payout > rsrRewards

\* pushDraft(account, rsrAmount): the new draft's cumulative entry.
AvailableAt_Unqueued(q) == now + unstakingDelay                  \* mutant
AvailableAt(q) ==
    LET fresh == now + unstakingDelay
        last  == IF q = << >> THEN 0 ELSE q[Len(q)].availableAt
    IN  IF last > fresh THEN last ELSE fresh

\* seizeRSR(rsrAmount): the share of a fund that is taken.
ToTake_Down(fund, rsrAmount) == (fund * rsrAmount) \div rsr[THIS]  \* mutant
ToTake(fund, rsrAmount) == DivUp(fund * rsrAmount, rsr[THIS])

\* What a seizure leaves of a pool, and its rate; nothing is left when the era ends.
Seized(pool, shares, rate, maxRate, rsrAmount) ==
    LET left    == pool - ToTake(pool, rsrAmount)
        newRate == IF left > 0 THEN RateFor(shares, left) ELSE rate
        wiped   == left = 0 \/ newRate > maxRate
    IN  IF wiped THEN [left |-> 0, rate |-> FIX_ONE] ELSE [left |-> left, rate |-> newRate]

SeizedStakes(rsrAmount) ==
    Seized(stakeRSR, totalStakes, stakeRate, MAX_STAKE_RATE, rsrAmount)
SeizedDrafts(rsrAmount) ==
    Seized(draftRSR, totalDrafts, draftRate, MAX_DRAFT_RATE, rsrAmount)
seizedRSR(rsrAmount) ==
    (stakeRSR - SeizedStakes(rsrAmount).left) + (draftRSR - SeizedDrafts(rsrAmount).left)
        + ToTake(rsrRewards, rsrAmount)

----------------------------------------------------------------------
\* Initial state: the end of init()

Init ==
    /\ rsr \in InitialHoldings
    /\ era = 1 /\ draftEra = 1
    /\ stakes = [e \in Eras |-> [a \in Accounts |-> 0]]
    /\ draftQueues = [e \in Eras |-> [a \in Accounts |-> << >>]]
    /\ firstRemainingDraft = [e \in Eras |-> [a \in Accounts |-> 0]]
    /\ totalStakes = 0 /\ stakeRSR = 0 /\ stakeRate = FIX_ONE
    /\ totalDrafts = 0 /\ draftRSR = 0 /\ draftRate = FIX_ONE
    /\ unstakingDelay \in {d \in Delays : d > 0 /\ d <= MAX_UNSTAKING_DELAY}
    /\ rewardPeriod \in {p \in Periods : p > 0 /\ p <= MAX_REWARD_PERIOD
                                         /\ p * 2 <= unstakingDelay}
    /\ rewardRatio \in {r \in Ratios : r <= FIX_ONE}
    /\ now = 0
    /\ payoutLastPaid = now
    /\ rsrRewardsAtLastPayout = rsr[THIS]
    /\ pausedOrFrozen = FALSE
    /\ rtokenSound = TRUE

----------------------------------------------------------------------
\* Operations

\* The variables of the stake pool and the rewards cache after a payout.
PayOut(pool) ==
    /\ payoutLastPaid' = pool.lastPaid
    /\ rsrRewardsAtLastPayout' = pool.cached

PayoutRewards ==
    /\ ~pausedOrFrozen /\ PayoutDue /\ ~PayoutReverts
    /\ stakeRSR' = AfterPayout.stakeRSR
    /\ stakeRate' = AfterPayout.stakeRate
    /\ PayOut(AfterPayout)
    /\ UNCHANGED <<rsr, stakes, era, totalStakes, draftVars, govVars, envVars>>

\* stake(): also works while paused or frozen, but then pays no rewards first.
Stake(account, rsrAmount) ==
    LET pool           == IF pausedOrFrozen THEN Unpaid ELSE AfterPayout
        newStakeRSR    == pool.stakeRSR + rsrAmount
        newTotalStakes == SharesFor(pool.stakeRate, newStakeRSR)
        stakeAmount    == newTotalStakes - totalStakes
    IN  /\ rsrAmount > 0 /\ rsrAmount <= rsr[account]
        /\ pausedOrFrozen \/ ~PayoutReverts
        /\ stakeRSR' = newStakeRSR
        /\ stakeRate' = pool.stakeRate
        /\ stakes' = [stakes EXCEPT ![era][account] = @ + stakeAmount]
        /\ totalStakes' = totalStakes + stakeAmount
        /\ rsr' = [rsr EXCEPT ![account] = @ - rsrAmount, ![THIS] = @ + rsrAmount]
        /\ PayOut(pool)
        /\ UNCHANGED <<era, draftVars, govVars, envVars>>

\* unstake(): burn stakes, move the RSR they free to the draft pool and append
\* a draft for it to the account's queue.
Unstake(account, stakeAmount) ==
    LET pool           == AfterPayout
        newTotalStakes == totalStakes - stakeAmount
        newStakeRSR    == BackingFor(pool.stakeRate, newTotalStakes)
        rsrAmount      == pool.stakeRSR - newStakeRSR
        newDraftRSR    == draftRSR + rsrAmount
        newTotalDrafts == SharesFor(draftRate, newDraftRSR)
        queue          == queueOf(account)
        draft          == [drafts |-> DraftsUpTo(queue, Len(queue)) + (newTotalDrafts - totalDrafts),
                           availableAt |-> AvailableAt(queue)]
    IN  /\ ~pausedOrFrozen
        /\ stakeAmount > 0 /\ balanceOf(account) >= stakeAmount
        /\ stakeAmount <= totalStakes      \* checked subtraction
        /\ Len(queue) < MaxDrafts
        /\ ~PayoutReverts
        /\ stakes' = [stakes EXCEPT ![era][account] = @ - stakeAmount]
        /\ totalStakes' = newTotalStakes
        /\ stakeRSR' = newStakeRSR
        /\ stakeRate' = pool.stakeRate
        /\ PayOut(pool)
        /\ draftRSR' = newDraftRSR
        /\ totalDrafts' = newTotalDrafts
        /\ draftQueues' = [draftQueues EXCEPT ![draftEra][account] = Append(@, draft)]
        /\ UNCHANGED <<rsr, era, firstRemainingDraft, draftEra, draftRate, govVars, envVars>>

\* The checks of withdraw(account, endId), and the drafts it settles.
Withdrawable_NotLast(account, endId) ==                          \* mutant
    /\ endId \in 1 .. Len(queueOf(account)) - 1
    /\ endId > firstRemainingDraft[draftEra][account]
    /\ queueOf(account)[endId].availableAt <= now
Withdrawable(account, endId) ==
    /\ endId \in 1 .. Len(queueOf(account))
    /\ endId > firstRemainingDraft[draftEra][account]
    /\ queueOf(account)[endId].availableAt <= now
draftAmount_WholeQueue(account, endId) == DraftsUpTo(queueOf(account), endId)   \* mutant
draftAmount(account, endId) ==
    DraftsUpTo(queueOf(account), endId)
        - DraftsUpTo(queueOf(account), firstRemainingDraft[draftEra][account])

\* endIdForWithdraw(): binary search for the end of the withdrawable prefix.
endIdForWithdraw_OneAtATime(account) ==                          \* mutant
    LET first == firstRemainingDraft[draftEra][account] IN
    IF Withdrawable(account, first + 1) THEN first + 1 ELSE first
endIdForWithdraw(account) ==
    LET queue == queueOf(account)
        first == firstRemainingDraft[draftEra][account]
        due   == {i \in 1 .. Len(queue) : queue[i].availableAt <= now}
    IN  IF first >= Len(queue) THEN Len(queue)
        ELSE IF first + 1 \notin due THEN first
        ELSE SearchEnd(due, first, Len(queue))

\* withdraw(): the early return on a zero amount leaves the queue advanced and
\* the draft pool's totals as they were.
Withdraw(account, endId) ==
    LET newTotalDrafts == totalDrafts - draftAmount(account, endId)
        newDraftRSR    == BackingFor(draftRate, newTotalDrafts)
        rsrAmount      == draftRSR - newDraftRSR
    IN  /\ ~pausedOrFrozen /\ rtokenSound
        /\ Withdrawable(account, endId)
        /\ draftAmount(account, endId) <= totalDrafts      \* checked subtraction
        /\ firstRemainingDraft' = [firstRemainingDraft EXCEPT ![draftEra][account] = endId]
        /\ totalDrafts' = IF rsrAmount = 0 THEN totalDrafts ELSE newTotalDrafts
        /\ draftRSR' = IF rsrAmount = 0 THEN draftRSR ELSE newDraftRSR
        /\ rsr' = [rsr EXCEPT ![THIS] = @ - rsrAmount, ![account] = @ + rsrAmount]
        /\ UNCHANGED <<stakeVars, draftQueues, draftEra, draftRate, govVars, payoutVars, envVars>>

\* seizeRSR(), called by the backing manager.  Its closing exchangeRate() call
\* divides by the new stake rate, so a rate of zero reverts the seizure.
SeizeRSR(rsrAmount) ==
    LET s == SeizedStakes(rsrAmount)
        d == SeizedDrafts(rsrAmount)
    IN  /\ ~pausedOrFrozen
        /\ rsrAmount > 0 /\ rsrAmount <= rsr[THIS]
        /\ s.left = 0 => era < MaxEra
        /\ d.left = 0 => draftEra < MaxEra
        /\ s.rate > 0
        /\ stakeRSR' = s.left
        /\ stakeRate' = s.rate
        /\ totalStakes' = IF s.left = 0 THEN 0 ELSE totalStakes
        /\ era' = IF s.left = 0 THEN era + 1 ELSE era
        /\ draftRSR' = d.left
        /\ draftRate' = d.rate
        /\ totalDrafts' = IF d.left = 0 THEN 0 ELSE totalDrafts
        /\ draftEra' = IF d.left = 0 THEN draftEra + 1 ELSE draftEra
        /\ rsr' = [rsr EXCEPT ![THIS] = @ - seizedRSR(rsrAmount),
                              ![BackingManager] = @ + seizedRSR(rsrAmount)]
        /\ UNCHANGED <<stakes, draftQueues, firstRemainingDraft, govVars, payoutVars, envVars>>

\* Mutant: both balances are read before either is written.
Transfer_ReadFirst(from, to, amount) ==
    /\ amount > 0 /\ balanceOf(from) >= amount
    /\ stakes' = [stakes EXCEPT ![era] = [@ EXCEPT ![from] = balanceOf(from) - amount,
                                                   ![to] = balanceOf(to) + amount]]
    /\ UNCHANGED <<rsr, era, totalStakes, stakeRSR, stakeRate, draftVars, govVars,
                   payoutVars, envVars>>

\* _transfer(); allowances only decide who may call it.
Transfer(from, to, amount) ==
    LET debited == [stakes[era] EXCEPT ![from] = @ - amount] IN
    /\ amount > 0 /\ balanceOf(from) >= amount
    /\ stakes' = [stakes EXCEPT ![era] = [debited EXCEPT ![to] = @ + amount]]
    /\ UNCHANGED <<rsr, era, totalStakes, stakeRSR, stakeRate, draftVars, govVars,
                   payoutVars, envVars>>

\* Governance
setUnstakingDelay(val) ==
    /\ val > 0 /\ val <= MAX_UNSTAKING_DELAY
    /\ rewardPeriod * 2 <= val
    /\ unstakingDelay' = val
    /\ UNCHANGED <<rsr, stakeVars, draftVars, rewardPeriod, rewardRatio, payoutVars, envVars>>

setRewardPeriod(val) ==
    /\ val > 0 /\ val <= MAX_REWARD_PERIOD
    /\ val * 2 <= unstakingDelay
    /\ rewardPeriod' = val
    /\ UNCHANGED <<rsr, stakeVars, draftVars, unstakingDelay, rewardRatio, payoutVars, envVars>>

setRewardRatio(val) ==
    /\ val <= FIX_ONE
    /\ rewardRatio' = val
    /\ UNCHANGED <<rsr, stakeVars, draftVars, unstakingDelay, rewardPeriod, payoutVars, envVars>>

----------------------------------------------------------------------
\* The environment

\* RSR sent to the contract with a plain transfer; revenue arrives this way.
SendRSR(holder, amount) ==
    /\ amount > 0 /\ amount <= rsr[holder]
    /\ rsr' = [rsr EXCEPT ![holder] = @ - amount, ![THIS] = @ + amount]
    /\ UNCHANGED <<stakeVars, draftVars, govVars, payoutVars, envVars>>

Tick ==
    /\ now < MaxTime
    /\ now' = now + 1
    /\ UNCHANGED <<rsr, stakeVars, draftVars, govVars, payoutVars, pausedOrFrozen, rtokenSound>>

\* Pauses and freezes of Main, and the collateralisation of the RToken.
SetPausedOrFrozen ==
    /\ pausedOrFrozen' = ~pausedOrFrozen
    /\ UNCHANGED <<rsr, stakeVars, draftVars, govVars, payoutVars, now, rtokenSound>>

SetRTokenSound ==
    /\ rtokenSound' = ~rtokenSound
    /\ UNCHANGED <<rsr, stakeVars, draftVars, govVars, payoutVars, now, pausedOrFrozen>>

Next ==
    \/ PayoutRewards
    \/ \E a \in Accounts :
          \/ \E amt \in 1 .. rsr[a] : Stake(a, amt)
          \/ \E amt \in 1 .. balanceOf(a) : Unstake(a, amt)
          \/ \E id \in 1 .. Len(queueOf(a)) : Withdraw(a, id)
          \/ \E b \in Accounts : \E amt \in 1 .. balanceOf(a) : Transfer(a, b, amt)
    \/ \E amt \in 1 .. rsr[THIS] : SeizeRSR(amt)
    \/ \E d \in Delays : setUnstakingDelay(d)
    \/ \E p \in Periods : setRewardPeriod(p)
    \/ \E r \in Ratios : setRewardRatio(r)
    \/ \E h \in Holders \ {THIS} : \E amt \in 1 .. rsr[h] : SendRSR(h, amt)
    \/ Tick
    \/ SetPausedOrFrozen
    \/ SetRTokenSound

Spec == Init /\ [][Next]_vars

\* Time passes, and an owner who may withdraw eventually calls withdraw() with
\* the id that endIdForWithdraw() returns.
OwnerWithdraws(a) == Withdraw(a, endIdForWithdraw(a))
Fairness == WF_vars(Tick) /\ \A a \in Accounts : WF_vars(OwnerWithdraws(a))
FairSpec == Spec /\ Fairness

----------------------------------------------------------------------
\* Properties

\* Every variable has its type.
TypeOK ==
    /\ rsr \in [Holders -> Nat]
    /\ stakes \in [Eras -> [Accounts -> Nat]]
    /\ era \in Eras /\ totalStakes \in Nat /\ stakeRSR \in Nat
    /\ stakeRate \in 1 .. MAX_STAKE_RATE
    /\ draftQueues \in [Eras -> [Accounts -> Seq(Draft)]]
    /\ firstRemainingDraft \in [Eras -> [Accounts -> Nat]]
    /\ draftEra \in Eras /\ totalDrafts \in Nat /\ draftRSR \in Nat
    /\ draftRate \in 1 .. MAX_DRAFT_RATE
    /\ unstakingDelay \in Nat \ {0} /\ rewardPeriod \in Nat \ {0}
    /\ rewardRatio \in 0 .. FIX_ONE
    /\ payoutLastPaid \in 0 .. now /\ rsrRewardsAtLastPayout \in Nat
    /\ now \in 0 .. MaxTime
    /\ pausedOrFrozen \in BOOLEAN /\ rtokenSound \in BOOLEAN

\* [stake-rate], [draft-rate]: through stakes, payouts, unstakes, withdrawals
\* and seizures, and whatever they round, the RSR of a pool covers its shares
\* at its rate.  The subtractions of stake(), unstake(), pushDraft() and
\* withdraw() rely on it.
PoolsCovered ==
    /\ totalStakes * FIX_ONE <= stakeRSR * stakeRate
    /\ totalDrafts * FIX_ONE <= draftRSR * draftRate

\* The contract holds the RSR of both pools, so that every unstaking can be
\* paid: payouts come from the reward fund only and a seizure never takes more
\* from the balance than from the pools.
Solvent == stakeRSR + draftRSR <= rsr[THIS]

\* Drafts that an account has not withdrawn yet.
draftSum(a) ==
    DraftsUpTo(queueOf(a), Len(queueOf(a)))
        - DraftsUpTo(queueOf(a), firstRemainingDraft[draftEra][a])

\* [total-stakes]: totalStakes is the sum of the balances of the current era,
\* and every pending draft is counted in totalDrafts, so that no order of the
\* withdrawals can underflow it.
TotalsMatchParts ==
    /\ totalStakes = SumFunction(stakes[era])
    /\ SumFunction([a \in Accounts |-> draftSum(a)]) <= totalDrafts

\* The cumulative queues of every era are ordered, in amount and in time, even
\* when governance shortens the delay, and are withdrawn no further than their end.
QueuesOrdered ==
    \A e \in Eras, a \in Accounts :
        LET q == draftQueues[e][a] IN
        /\ firstRemainingDraft[e][a] <= Len(q)
        /\ \A i, j \in 1 .. Len(q) :
              i <= j => q[i].drafts <= q[j].drafts /\ q[i].availableAt <= q[j].availableAt

\* Drafts are "not revenue-earning": whatever is withdrawn, seized or lost to
\* rounding, a draft is never worth more than the RSR it was created for.
DraftsNeverAppreciate == FIX_ONE <= draftRate /\ draftRSR <= totalDrafts

\* The amount seizeRSR() hands over is what was asked for or more, and never
\* more than the balance, for every amount it may be asked for.
SeizureSufficient ==
    \A amt \in 1 .. rsr[THIS] :
        amt <= seizedRSR(amt) /\ seizedRSR(amt) <= rsr[THIS]

\* endIdForWithdraw() returns the largest id that withdraw() accepts, and the
\* first remaining draft when there is none.
EndIdIsMaximal ==
    \A a \in Accounts :
        LET ids == {id \in 1 .. Len(queueOf(a)) : Withdrawable(a, id)}
        IN  /\ endIdForWithdraw(a) \in ids \cup {firstRemainingDraft[draftEra][a]}
            /\ \A id \in ids : id <= endIdForWithdraw(a)

\* A stake is worth less RSR after a step only if the step seized RSR, or there
\* are no stakes.  In particular no rounding in stake(), unstake() or a payout
\* dilutes the other stakers.
RateRisesOnlyBySeizure ==
    [][stakeRate' > stakeRate =>
         rsr'[BackingManager] > rsr[BackingManager] \/ totalStakes = 0]_vars

\* RSR leaves the contract only for the backing manager, or for an account that
\* gets what its settled drafts are worth at the draft rate and what rounding left
\* in the pool: less than draftRSR / draftRate, or 1 if that is more.
OutflowWithinDrafts ==
    [][rsr'[THIS] < rsr[THIS] =>
         LET out == rsr[THIS] - rsr'[THIS] IN
         \/ rsr'[BackingManager] - rsr[BackingManager] = out
         \/ \E a \in Accounts :
               /\ rsr'[a] - rsr[a] = out
               /\ draftRate * out < FIX_ONE * (draftSum(a) - draftSum(a)')
                                      + fixMax(draftRSR, draftRate)]_vars

\* A draft whose time comes is withdrawn, unless its era is wiped out first: no
\* later unstaking, transfer or partial seizure can lock it in, if pauses and the
\* RToken's collateralisation do not stand in the way for ever.
DraftsPaid ==
    <>[](~pausedOrFrozen /\ rtokenSound) =>
        \A e \in Eras, a \in Accounts, i \in 1 .. MaxDrafts :
            (i <= Len(draftQueues[e][a]) /\ draftQueues[e][a][i].availableAt <= MaxTime)
                ~> (firstRemainingDraft[e][a] >= i \/ draftEra # e)

----------------------------------------------------------------------
\* What the comments of StRSR.sol say and the code does not do

\* [strsr-payout-formula]: a payout is a share of rsrRewards().
PayoutWithinRewards == PayoutDue => payout <= rsrRewards

======================================================================
