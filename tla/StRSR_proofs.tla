------------------------- MODULE StRSR_proofs -------------------------
(***************************************************************************)
(* Proofs about StRSR: types, coverage of both pools, solvency, order of   *)
(* the draft queues, the sufficiency of seizures; then the totals, the     *)
(* search for the drafts that are due, the stake rate, and what is paid.   *)
(***************************************************************************)
EXTENDS StRSR, DataLemmas, SequenceTheorems

----------------------------------------------------------------------
\* Conversions between shares and RSR

Covered(shares, pool, rate) == shares * FIX_ONE <= pool * rate

\* Shares computed for a pool are covered by it, and no fewer than before.
LEMMA SharesForCovered ==
    ASSUME NEW rate \in Nat, NEW pool \in Nat
    PROVE  /\ SharesFor(rate, pool) \in Nat
           /\ Covered(SharesFor(rate, pool), pool, rate)
           /\ \A shares \in Nat : Covered(shares, pool, rate) => shares <= SharesFor(rate, pool)
<1>1. rate * pool \in Nat /\ rate * pool = pool * rate
  BY SMT
<1>2. FIX_ONE \in Nat \ {0}
  BY RateAssumption
<1> QED BY <1>1, <1>2, DivFloor, DivGreatest DEF SharesFor, Covered

\* RSR computed for shares covers them, and is the least that does.
LEMMA BackingForCovers ==
    ASSUME NEW rate \in Nat \ {0}, NEW shares \in Nat
    PROVE  /\ BackingFor(rate, shares) \in Nat
           /\ Covered(shares, BackingFor(rate, shares), rate)
           /\ \A pool \in Nat : Covered(shares, pool, rate) => BackingFor(rate, shares) <= pool
<1>1. FIX_ONE \in Nat
  BY RateAssumption
<1>2. FIX_ONE * shares \in Nat /\ FIX_ONE * shares = shares * FIX_ONE
  BY <1>1, SMT
<1> QED BY <1>2, DivUpBounds, DivUpLeast DEF BackingFor, Covered

\* The rate computed for a pool covers its shares, is positive when there are
\* shares, and is no higher than any rate that covered them.
LEMMA RateForCovers ==
    ASSUME NEW shares \in Nat, NEW pool \in Nat \ {0}
    PROVE  /\ RateFor(shares, pool) \in Nat
           /\ Covered(shares, pool, RateFor(shares, pool))
           /\ shares > 0 => RateFor(shares, pool) > 0
           /\ \A rate \in Nat : Covered(shares, pool, rate) => RateFor(shares, pool) <= rate
<1>1. FIX_ONE \in Nat \ {0}
  BY RateAssumption
<1>2. /\ FIX_ONE * shares \in Nat
      /\ FIX_ONE * shares = shares * FIX_ONE
      /\ shares > 0 => FIX_ONE * shares > 0
  BY <1>1, SMT
<1>3. \A rate \in Nat : pool * rate = rate * pool
  BY SMT
<1>4. /\ RateFor(shares, pool) \in Nat
      /\ FIX_ONE * shares <= RateFor(shares, pool) * pool
  BY <1>2, DivUpBounds DEF RateFor
<1>5. shares > 0 => RateFor(shares, pool) > 0
  BY <1>2, DivUpPositive DEF RateFor
<1>6. \A rate \in Nat : Covered(shares, pool, rate) => RateFor(shares, pool) <= rate
  BY <1>2, <1>3, DivUpLeast DEF RateFor, Covered
<1> QED BY <1>2, <1>3, <1>4, <1>5, <1>6 DEF Covered

\* A pool that grows still covers its shares.
LEMMA CoveredGrows ==
    ASSUME NEW shares \in Nat, NEW pool \in Nat, NEW bigger \in Nat, NEW rate \in Nat,
           pool <= bigger, Covered(shares, pool, rate)
    PROVE  Covered(shares, bigger, rate)
<1>1. pool * rate <= bigger * rate
  BY MulMono
<1>2. pool * rate \in Nat /\ bigger * rate \in Nat /\ shares * FIX_ONE \in Nat
  BY RateAssumption, SMT
<1> QED BY <1>1, <1>2 DEF Covered

\* Fewer shares are still covered.
LEMMA CoveredShrinks ==
    ASSUME NEW shares \in Nat, NEW fewer \in Nat, NEW pool \in Nat, NEW rate \in Nat,
           fewer <= shares, Covered(shares, pool, rate)
    PROVE  Covered(fewer, pool, rate)
<1>1. FIX_ONE \in Nat
  BY RateAssumption
<1>2. fewer * FIX_ONE <= shares * FIX_ONE
  BY <1>1, MulMono
<1>3. pool * rate \in Nat /\ fewer * FIX_ONE \in Nat /\ shares * FIX_ONE \in Nat
  BY <1>1, SMT
<1> QED BY <1>2, <1>3 DEF Covered

\* The part of a fund that a seizure takes.
LEMMA TakeBounds ==
    ASSUME rsr[THIS] \in Nat, NEW amt \in 1 .. rsr[THIS], NEW fund \in Nat
    PROVE  /\ ToTake(fund, amt) \in 0 .. fund
           /\ fund * amt <= ToTake(fund, amt) * rsr[THIS]
<1>1. rsr[THIS] \in Nat \ {0} /\ amt \in Nat /\ amt <= rsr[THIS]
  OBVIOUS
<1>2. fund * amt \in Nat
  BY <1>1, SMT
<1>3. fund * amt <= fund * rsr[THIS]
  BY <1>1, MulMono
<1>4. /\ DivUp(fund * amt, rsr[THIS]) \in Nat
      /\ fund * amt <= DivUp(fund * amt, rsr[THIS]) * rsr[THIS]
  BY <1>1, <1>2, DivUpBounds
<1>5. DivUp(fund * amt, rsr[THIS]) <= fund
  BY <1>1, <1>2, <1>3, DivUpLeast
<1> QED BY <1>4, <1>5 DEF ToTake

----------------------------------------------------------------------
\* The inductive invariant

\* TypeOK, the coverage of both pools and the order of the queues need each
\* other: withdraw() subtracts entries of a queue, seizeRSR() divides by what is
\* left of a pool, and the rates keep their bounds because the pools are covered.
IInv == TypeOK /\ PoolsCovered /\ DraftsNeverAppreciate /\ Solvent /\ QueuesOrdered

\* After a payout that does not revert, the stake pool is no smaller, still covers
\* the stakes at a rate in range, is held by the contract, and the cache is a
\* natural number.
LEMMA AfterPayoutOK ==
    ASSUME IInv, ~PayoutReverts
    PROVE  /\ AfterPayout.stakeRSR \in Nat
           /\ stakeRSR <= AfterPayout.stakeRSR
           /\ AfterPayout.stakeRSR + draftRSR <= rsr[THIS]
           /\ AfterPayout.stakeRate \in 1 .. MAX_STAKE_RATE
           /\ Covered(totalStakes, AfterPayout.stakeRSR, AfterPayout.stakeRate)
           /\ AfterPayout.lastPaid \in 0 .. now
           /\ AfterPayout.cached \in Nat
           /\ totalStakes # 0 => AfterPayout.stakeRate <= stakeRate
<1> USE DEF IInv
<1>0. /\ stakeRSR \in Nat /\ totalStakes \in Nat /\ draftRSR \in Nat /\ rsr[THIS] \in Nat
      /\ stakeRate \in 1 .. MAX_STAKE_RATE /\ MAX_STAKE_RATE \in Nat
      /\ FIX_ONE \in Nat \ {0} /\ FIX_ONE <= MAX_STAKE_RATE
      /\ now \in Nat /\ now <= MaxTime /\ MaxTime \in Nat
      /\ payoutLastPaid \in 0 .. now
      /\ rewardPeriod \in Nat \ {0} /\ rewardRatio \in 0 .. FIX_ONE
      /\ rsrRewardsAtLastPayout \in Nat
  BY RateAssumption, ParamAssumption DEF TypeOK, Holders
<1>1. Covered(totalStakes, stakeRSR, stakeRate) /\ stakeRSR + draftRSR <= rsr[THIS]
  BY DEF PoolsCovered, Covered, Solvent
<1>2. CASE ~PayoutDue
  <2>1. AfterPayout = Unpaid
    BY <1>2 DEF AfterPayout
  <2> QED BY <1>0, <1>1, <2>1 DEF Unpaid
<1>3. CASE PayoutDue
  <2>1. numPeriods \in 0 .. MaxTime /\ numPeriods * rewardPeriod <= now - payoutLastPaid
    <3>1. now - payoutLastPaid \in Nat
      BY <1>0
    <3>2. /\ numPeriods \in Nat
          /\ numPeriods * rewardPeriod <= now - payoutLastPaid
      BY <1>0, <3>1, DivFloor DEF numPeriods
    <3>3. numPeriods * 1 <= numPeriods * rewardPeriod
      BY <1>0, <3>2, MulMono
    <3>4. numPeriods * rewardPeriod \in Nat
      BY <1>0, <3>2, SMT
    <3> QED BY <1>0, <3>1, <3>2, <3>3, <3>4
  <2>2. payoutRatio \in Nat
    <3>1. FIX_ONE - rewardRatio \in 0 .. FIX_ONE
      BY <1>0
    <3>2. powu(FIX_ONE, FIX_ONE - rewardRatio, numPeriods) \in 0 .. FIX_ONE
      BY <2>1, <3>1, PowuIsRatio, RateAssumption
    <3> QED BY <1>0, <3>2 DEF payoutRatio
  <2>3. payout \in Nat
    <3>1. payoutRatio * rsrRewardsAtLastPayout \in Nat
      BY <1>0, <2>2, SMT
    <3> QED BY <1>0, <3>1, DivFloor DEF payout
  <2>4. payout <= rsrRewards /\ rsrRewards = rsr[THIS] - stakeRSR - draftRSR
    <3>1. ~(payout > rsrRewards)
      BY <1>3 DEF PayoutReverts
    <3>2. rsrRewards \in Int
      BY <1>0 DEF rsrRewards
    <3> QED BY <2>3, <3>1, <3>2 DEF rsrRewards
  <2> DEFINE newRSR == stakeRSR + payout
  <2>5. newRSR \in Nat /\ stakeRSR <= newRSR /\ newRSR + draftRSR <= rsr[THIS]
    BY <1>0, <2>3, <2>4
  <2>6. /\ AfterPayout.stakeRSR = newRSR
        /\ AfterPayout.stakeRate = IF newRSR = 0 \/ totalStakes = 0 THEN FIX_ONE
                                   ELSE RateFor(totalStakes, newRSR)
        /\ AfterPayout.lastPaid = payoutLastPaid + numPeriods * rewardPeriod
        /\ AfterPayout.cached = rsrRewards - payout
    BY <1>3 DEF AfterPayout, Paid
  <2>7. AfterPayout.lastPaid \in 0 .. now
    <3>1. numPeriods * rewardPeriod \in Nat
      BY <1>0, <2>1, SMT
    <3> QED BY <1>0, <2>1, <2>6, <3>1
  <2>8. AfterPayout.cached \in Nat
    BY <1>0, <2>3, <2>4, <2>6
  <2>9. Covered(totalStakes, newRSR, stakeRate)
    BY <1>0, <1>1, <2>5, CoveredGrows
  <2>10. totalStakes # 0 => newRSR # 0
    <3>1. SUFFICES ASSUME totalStakes # 0, newRSR = 0 PROVE FALSE
      OBVIOUS
    <3>2. totalStakes * FIX_ONE > 0
      BY <1>0, <3>1, SMT
    <3>3. newRSR * stakeRate = 0
      BY <1>0, <3>1, SMT
    <3>4. totalStakes * FIX_ONE <= 0
      BY <2>9, <3>3 DEF Covered
    <3>5. totalStakes * FIX_ONE \in Nat
      BY <1>0, SMT
    <3> QED BY <3>2, <3>4, <3>5
  <2>11. CASE totalStakes = 0
    <3>1. AfterPayout.stakeRate = FIX_ONE
      BY <2>6, <2>11
    <3>2. Covered(totalStakes, newRSR, FIX_ONE)
      <4>1. totalStakes * FIX_ONE = 0 /\ newRSR * FIX_ONE \in Nat
        BY <1>0, <2>5, <2>11, SMT
      <4> QED BY <4>1 DEF Covered
    <3> QED BY <1>0, <2>5, <2>6, <2>7, <2>8, <2>11, <3>1, <3>2
  <2>12. CASE totalStakes # 0
    <3>1. AfterPayout.stakeRate = RateFor(totalStakes, newRSR)
      BY <2>6, <2>10, <2>12
    <3>2. newRSR \in Nat \ {0}
      BY <2>5, <2>10, <2>12
    <3>3. /\ RateFor(totalStakes, newRSR) \in Nat
          /\ RateFor(totalStakes, newRSR) > 0
          /\ RateFor(totalStakes, newRSR) <= stakeRate
          /\ Covered(totalStakes, newRSR, RateFor(totalStakes, newRSR))
      BY <1>0, <2>9, <2>12, <3>2, RateForCovers, SMTT(60)
    <3> QED BY <1>0, <2>5, <2>6, <2>7, <2>8, <3>1, <3>3
  <2> QED BY <2>11, <2>12
<1> QED BY <1>2, <1>3

----------------------------------------------------------------------
\* Preservation, one lemma per action

\* An action that leaves a queue set alone leaves its order alone.
LEMMA QueuesKept ==
    ASSUME QueuesOrdered, UNCHANGED <<draftQueues, firstRemainingDraft>>
    PROVE  QueuesOrdered'
  BY DEF QueuesOrdered

\* _payoutRewards() keeps the invariant.
LEMMA PayoutRewardsStep ==
    ASSUME IInv, PayoutRewards
    PROVE  IInv'
<1> USE DEF PayoutRewards, PayOut, draftVars, govVars, envVars
<1>1. /\ AfterPayout.stakeRSR \in Nat
      /\ AfterPayout.stakeRSR + draftRSR <= rsr[THIS]
      /\ AfterPayout.stakeRate \in 1 .. MAX_STAKE_RATE
      /\ Covered(totalStakes, AfterPayout.stakeRSR, AfterPayout.stakeRate)
      /\ AfterPayout.lastPaid \in 0 .. now
      /\ AfterPayout.cached \in Nat
  BY AfterPayoutOK
<1>2. TypeOK'
  BY <1>1 DEF IInv, TypeOK
<1>3. PoolsCovered' /\ DraftsNeverAppreciate' /\ Solvent'
  BY <1>1 DEF IInv, PoolsCovered, Covered, DraftsNeverAppreciate, Solvent
<1>4. QueuesOrdered'
  BY QueuesKept DEF IInv
<1> QED BY <1>2, <1>3, <1>4 DEF IInv

\* stake() keeps the invariant.
LEMMA StakeStep ==
    ASSUME IInv, NEW account \in Accounts, NEW rsrAmount \in 1 .. rsr[account],
           Stake(account, rsrAmount)
    PROVE  IInv'
<1> DEFINE pool           == IF pausedOrFrozen THEN Unpaid ELSE AfterPayout
           newStakeRSR    == pool.stakeRSR + rsrAmount
           newTotalStakes == SharesFor(pool.stakeRate, newStakeRSR)
           stakeAmount    == newTotalStakes - totalStakes
<1>1. /\ pool.stakeRSR \in Nat
      /\ pool.stakeRSR + draftRSR <= rsr[THIS]
      /\ pool.stakeRate \in 1 .. MAX_STAKE_RATE
      /\ Covered(totalStakes, pool.stakeRSR, pool.stakeRate)
      /\ pool.lastPaid \in 0 .. now
      /\ pool.cached \in Nat
  <2>1. CASE pausedOrFrozen
    BY <2>1 DEF Unpaid, IInv, TypeOK, PoolsCovered, Covered, Solvent
  <2>2. CASE ~pausedOrFrozen
    BY <2>2, AfterPayoutOK DEF Stake
  <2> QED BY <2>1, <2>2
<1>2. /\ stakeRSR' = newStakeRSR
      /\ stakeRate' = pool.stakeRate
      /\ stakes' = [stakes EXCEPT ![era][account] = @ + stakeAmount]
      /\ totalStakes' = totalStakes + stakeAmount
      /\ rsr' = [rsr EXCEPT ![account] = @ - rsrAmount, ![THIS] = @ + rsrAmount]
      /\ payoutLastPaid' = pool.lastPaid
      /\ rsrRewardsAtLastPayout' = pool.cached
      /\ UNCHANGED <<era, draftVars, govVars, envVars>>
  BY DEF Stake, PayOut
<1> HIDE DEF pool
<1>3. /\ totalStakes \in Nat /\ draftRSR \in Nat /\ account # THIS
      /\ rsr \in [Holders -> Nat] /\ account \in Holders /\ THIS \in Holders
      /\ rsrAmount \in Nat /\ MAX_STAKE_RATE \in Nat
  BY AddressAssumption, RateAssumption DEF IInv, TypeOK, Holders
<1>4. newStakeRSR \in Nat /\ Covered(totalStakes, newStakeRSR, pool.stakeRate)
  BY <1>1, <1>3, CoveredGrows
<1> HIDE DEF newStakeRSR
<1>5. /\ newTotalStakes \in Nat /\ totalStakes <= newTotalStakes
      /\ Covered(newTotalStakes, newStakeRSR, pool.stakeRate)
  <2>1. pool.stakeRate \in Nat
    BY <1>1, <1>3
  <2> QED BY <1>3, <1>4, <2>1, SharesForCovered
<1> HIDE DEF newTotalStakes
<1>6. stakeAmount \in Nat /\ totalStakes' = newTotalStakes
  BY <1>2, <1>3, <1>5
<1>7. rsr' \in [Holders -> Nat] /\ rsr'[THIS] = rsr[THIS] + rsrAmount
  BY <1>2, <1>3
<1>8. stakes' \in [Eras -> [Accounts -> Nat]]
  BY <1>2, <1>6 DEF IInv, TypeOK
<1>9. TypeOK'
  BY <1>1, <1>2, <1>4, <1>5, <1>6, <1>7, <1>8 DEF IInv, TypeOK, draftVars, govVars, envVars
<1>10. PoolsCovered' /\ DraftsNeverAppreciate'
  BY <1>2, <1>5, <1>6 DEF IInv, PoolsCovered, Covered, DraftsNeverAppreciate, draftVars
<1>11. Solvent'
  BY <1>1, <1>2, <1>3, <1>7 DEF newStakeRSR, Solvent, draftVars
<1>12. QueuesOrdered'
  BY <1>2, QueuesKept DEF IInv, draftVars
<1> QED BY <1>9, <1>10, <1>11, <1>12 DEF IInv

\* Appending an entry that is no smaller than the last keeps a queue ordered.
LEMMA AppendOrdered ==
    ASSUME NEW q \in Seq(Draft), NEW d \in Draft,
           \A i, j \in 1 .. Len(q) :
               i <= j => q[i].drafts <= q[j].drafts /\ q[i].availableAt <= q[j].availableAt,
           q # << >> => q[Len(q)].drafts <= d.drafts /\ q[Len(q)].availableAt <= d.availableAt
    PROVE  \A i, j \in 1 .. Len(Append(q, d)) :
               i <= j => /\ Append(q, d)[i].drafts <= Append(q, d)[j].drafts
                         /\ Append(q, d)[i].availableAt <= Append(q, d)[j].availableAt
<1> SUFFICES ASSUME NEW i \in 1 .. Len(Append(q, d)), NEW j \in 1 .. Len(Append(q, d)), i <= j
             PROVE  /\ Append(q, d)[i].drafts <= Append(q, d)[j].drafts
                    /\ Append(q, d)[i].availableAt <= Append(q, d)[j].availableAt
  OBVIOUS
<1>1. /\ Len(Append(q, d)) = Len(q) + 1 /\ Len(q) \in Nat
      /\ \A k \in 1 .. Len(q) : Append(q, d)[k] = q[k] /\ q[k] \in Draft
      /\ Append(q, d)[Len(q) + 1] = d
  OBVIOUS
<1>2. d.drafts \in Nat /\ d.availableAt \in Nat
  BY DEF Draft
<1>3. CASE j <= Len(q)
  BY <1>1, <1>3
<1>4. CASE i <= Len(q) /\ j = Len(q) + 1
  <2>1. Len(q) \in 1 .. Len(q) /\ i \in 1 .. Len(q) /\ q # << >>
    BY <1>1, <1>4
  <2>2. /\ q[i].drafts <= q[Len(q)].drafts /\ q[i].availableAt <= q[Len(q)].availableAt
        /\ q[Len(q)].drafts <= d.drafts /\ q[Len(q)].availableAt <= d.availableAt
    BY <1>4, <2>1
  <2>3. q[i] \in Draft /\ q[Len(q)] \in Draft
    BY <1>1, <2>1
  <2> QED BY <1>1, <1>2, <1>4, <2>1, <2>2, <2>3 DEF Draft
<1>5. CASE i = Len(q) + 1 /\ j = Len(q) + 1
  BY <1>1, <1>2, <1>5
<1> QED BY <1>1, <1>3, <1>4, <1>5

\* unstake() keeps the invariant.
LEMMA UnstakeStep ==
    ASSUME IInv, NEW account \in Accounts, NEW stakeAmount \in 1 .. balanceOf(account),
           Unstake(account, stakeAmount)
    PROVE  IInv'
<1> DEFINE newTotalStakes == totalStakes - stakeAmount
           newStakeRSR    == BackingFor(AfterPayout.stakeRate, newTotalStakes)
           rsrAmount      == AfterPayout.stakeRSR - newStakeRSR
           newDraftRSR    == draftRSR + rsrAmount
           newTotalDrafts == SharesFor(draftRate, newDraftRSR)
           queue          == queueOf(account)
           draft          == [drafts |-> DraftsUpTo(queue, Len(queue)) + (newTotalDrafts - totalDrafts),
                              availableAt |-> AvailableAt(queue)]
<1>1. /\ AfterPayout.stakeRSR \in Nat
      /\ AfterPayout.stakeRSR + draftRSR <= rsr[THIS]
      /\ AfterPayout.stakeRate \in 1 .. MAX_STAKE_RATE
      /\ Covered(totalStakes, AfterPayout.stakeRSR, AfterPayout.stakeRate)
      /\ AfterPayout.lastPaid \in 0 .. now
      /\ AfterPayout.cached \in Nat
  BY AfterPayoutOK DEF Unstake
<1>2. /\ stakeAmount <= totalStakes /\ stakeAmount <= stakes[era][account]
      /\ stakes' = [stakes EXCEPT ![era][account] = @ - stakeAmount]
      /\ totalStakes' = newTotalStakes
      /\ stakeRSR' = newStakeRSR
      /\ stakeRate' = AfterPayout.stakeRate
      /\ payoutLastPaid' = AfterPayout.lastPaid
      /\ rsrRewardsAtLastPayout' = AfterPayout.cached
      /\ draftRSR' = newDraftRSR
      /\ totalDrafts' = newTotalDrafts
      /\ draftQueues' = [draftQueues EXCEPT ![draftEra][account] = Append(@, draft)]
      /\ UNCHANGED <<rsr, era, firstRemainingDraft, draftEra, draftRate, govVars, envVars>>
  BY DEF Unstake, PayOut, balanceOf
<1>3. /\ totalStakes \in Nat /\ draftRSR \in Nat /\ totalDrafts \in Nat
      /\ draftRate \in 1 .. MAX_DRAFT_RATE /\ FIX_ONE <= draftRate /\ FIX_ONE \in Nat
      /\ MAX_STAKE_RATE \in Nat /\ MAX_DRAFT_RATE \in Nat
      /\ draftRSR <= totalDrafts
      /\ Covered(totalDrafts, draftRSR, draftRate)
      /\ rsr[THIS] \in Nat
      /\ queue \in Seq(Draft) /\ draftEra \in Eras /\ era \in Eras
      /\ now \in Nat /\ unstakingDelay \in Nat
  BY RateAssumption, ParamAssumption
     DEF IInv, TypeOK, PoolsCovered, Covered, DraftsNeverAppreciate, Holders, queueOf
<1>4. stakeAmount \in Nat /\ newTotalStakes \in Nat /\ newTotalStakes <= totalStakes
  <2>1. stakes[era][account] \in Nat
    BY <1>3 DEF IInv, TypeOK
  <2> QED BY <1>2, <1>3, <2>1, SMTT(60) DEF balanceOf
<1> HIDE DEF newTotalStakes
<1>5. /\ newStakeRSR \in Nat /\ newStakeRSR <= AfterPayout.stakeRSR
      /\ Covered(newTotalStakes, newStakeRSR, AfterPayout.stakeRate)
  <2>1. AfterPayout.stakeRate \in Nat \ {0}
    BY <1>1, <1>3, SMTT(60)
  <2>2. Covered(newTotalStakes, AfterPayout.stakeRSR, AfterPayout.stakeRate)
    BY <1>1, <1>3, <1>4, <2>1, CoveredShrinks
  <2> QED BY <1>1, <1>4, <2>1, <2>2, BackingForCovers
<1> HIDE DEF newStakeRSR
<1>6. /\ rsrAmount \in Nat /\ newDraftRSR \in Nat
      /\ newStakeRSR + newDraftRSR = AfterPayout.stakeRSR + draftRSR
      /\ draftRSR <= newDraftRSR
  <2>1. /\ AfterPayout.stakeRSR \in Nat /\ draftRSR \in Nat
        /\ newStakeRSR \in Nat /\ newStakeRSR <= AfterPayout.stakeRSR
    BY <1>1, <1>3, <1>5
  <2> QED BY <2>1
<1> HIDE DEF newDraftRSR
<1>7. /\ newTotalDrafts \in Nat /\ totalDrafts <= newTotalDrafts
      /\ Covered(newTotalDrafts, newDraftRSR, draftRate)
      /\ newDraftRSR <= newTotalDrafts
  <2>1. draftRate \in Nat
    BY <1>3
  <2>2. Covered(totalDrafts, newDraftRSR, draftRate)
    BY <1>3, <1>6, <2>1, CoveredGrows
  <2>3. Covered(newDraftRSR, newDraftRSR, draftRate)
    <3>1. newDraftRSR * FIX_ONE <= newDraftRSR * draftRate
      BY <1>3, <1>6, <2>1, MulMono
    <3> QED BY <3>1 DEF Covered
  <2> QED BY <1>3, <1>6, <2>1, <2>2, <2>3, SharesForCovered
<1> HIDE DEF newTotalDrafts
<1>8. /\ draft \in Draft
      /\ queue # << >> => /\ queue[Len(queue)].drafts <= draft.drafts
                         /\ queue[Len(queue)].availableAt <= draft.availableAt
  <2>1. newTotalDrafts - totalDrafts \in Nat
    BY <1>3, <1>7
  <2>2. CASE queue = << >>
    BY <1>3, <2>1, <2>2 DEF Draft, DraftsUpTo, AvailableAt
  <2>3. CASE queue # << >>
    <3>1. Len(queue) # 0 /\ queue[Len(queue)] \in Draft
      BY <1>3, <2>3
    <3>2. /\ queue[Len(queue)].drafts \in Nat
          /\ queue[Len(queue)].availableAt \in Nat
      BY <3>1 DEF Draft
    <3>3. /\ AvailableAt(queue) \in Nat
          /\ queue[Len(queue)].availableAt <= AvailableAt(queue)
      BY <1>3, <2>3, <3>2 DEF AvailableAt
    <3>4. DraftsUpTo(queue, Len(queue)) = queue[Len(queue)].drafts
      BY <3>1 DEF DraftsUpTo
    <3> QED BY <2>1, <3>2, <3>3, <3>4 DEF Draft
  <2> QED BY <2>2, <2>3
<1> HIDE DEF draft
<1>9. /\ stakes' \in [Eras -> [Accounts -> Nat]]
      /\ draftQueues' \in [Eras -> [Accounts -> Seq(Draft)]]
  <2>1. Append(queue, draft) \in Seq(Draft)
    BY <1>3, <1>8
  <2>2. stakes[era][account] - stakeAmount \in Nat
    BY <1>2, <1>3, <1>4 DEF IInv, TypeOK
  <2> QED BY <1>2, <2>1, <2>2 DEF IInv, TypeOK, queueOf
<1>10. TypeOK'
  BY <1>1, <1>2, <1>4, <1>5, <1>6, <1>7, <1>9 DEF IInv, TypeOK, govVars, envVars
<1>11. PoolsCovered' /\ DraftsNeverAppreciate' /\ Solvent'
  BY <1>1, <1>2, <1>3, <1>5, <1>6, <1>7 DEF PoolsCovered, Covered, DraftsNeverAppreciate, Solvent
<1>12. QueuesOrdered'
  <2> SUFFICES ASSUME NEW e \in Eras, NEW a \in Accounts
               PROVE  /\ firstRemainingDraft[e][a] <= Len(draftQueues'[e][a])
                      /\ \A i, j \in 1 .. Len(draftQueues'[e][a]) :
                            i <= j => /\ draftQueues'[e][a][i].drafts <= draftQueues'[e][a][j].drafts
                                      /\ draftQueues'[e][a][i].availableAt
                                            <= draftQueues'[e][a][j].availableAt
    BY <1>2 DEF QueuesOrdered
  <2>1. /\ firstRemainingDraft[e][a] \in Nat /\ draftQueues[e][a] \in Seq(Draft)
        /\ firstRemainingDraft[e][a] <= Len(draftQueues[e][a])
        /\ \A i, j \in 1 .. Len(draftQueues[e][a]) :
              i <= j => /\ draftQueues[e][a][i].drafts <= draftQueues[e][a][j].drafts
                        /\ draftQueues[e][a][i].availableAt <= draftQueues[e][a][j].availableAt
    BY DEF IInv, TypeOK, QueuesOrdered
  <2>2. CASE e = draftEra /\ a = account
    <3>1. draftQueues'[e][a] = Append(queue, draft) /\ queue = draftQueues[e][a]
      BY <1>2, <2>2 DEF IInv, TypeOK, queueOf
    <3>2. Len(Append(queue, draft)) = Len(queue) + 1
      BY <1>3
    <3>3. queue \in Seq(Draft)
      BY <1>3
    <3> HIDE DEF queue
    <3>4. \A i, j \in 1 .. Len(Append(queue, draft)) :
              i <= j => /\ Append(queue, draft)[i].drafts <= Append(queue, draft)[j].drafts
                        /\ Append(queue, draft)[i].availableAt <= Append(queue, draft)[j].availableAt
      BY <1>8, <2>1, <3>1, <3>3, AppendOrdered
    <3>5. firstRemainingDraft[e][a] <= Len(Append(queue, draft))
      BY <2>1, <3>1, <3>2, <3>3
    <3> QED BY <3>1, <3>4, <3>5
  <2>3. CASE ~(e = draftEra /\ a = account)
    <3>1. draftQueues'[e][a] = draftQueues[e][a]
      BY <1>2, <2>3 DEF IInv, TypeOK
    <3> QED BY <2>1, <3>1
  <2> QED BY <2>2, <2>3
<1> QED BY <1>10, <1>11, <1>12 DEF IInv

\* The drafts settled by withdraw() are those between two positions of an ordered queue.
LEMMA DraftAmountNat ==
    ASSUME IInv, NEW account \in Accounts, NEW endId \in 1 .. Len(queueOf(account)),
           Withdrawable(account, endId)
    PROVE  draftAmount(account, endId) \in Nat
<1> DEFINE q     == queueOf(account)
           first == firstRemainingDraft[draftEra][account]
<1>1. /\ q \in Seq(Draft) /\ first \in Nat /\ first < endId /\ endId \in 1 .. Len(q)
      /\ \A i, j \in 1 .. Len(q) : i <= j => q[i].drafts <= q[j].drafts
  BY DEF IInv, TypeOK, QueuesOrdered, queueOf, Withdrawable
<1>2. q[endId] \in Draft
  BY <1>1
<1>3. CASE first = 0
  BY <1>1, <1>2, <1>3 DEF draftAmount, DraftsUpTo, Draft
<1>4. CASE first # 0
  <2>1. first \in 1 .. Len(q) /\ q[first] \in Draft
    BY <1>1, <1>4
  <2>2. q[first].drafts <= q[endId].drafts
    BY <1>1, <2>1
  <2>3. draftAmount(account, endId) = q[endId].drafts - q[first].drafts
    BY <1>1, <1>4 DEF draftAmount, DraftsUpTo
  <2> QED BY <1>2, <2>1, <2>2, <2>3 DEF Draft
<1> QED BY <1>3, <1>4

\* withdraw() keeps the invariant.
LEMMA WithdrawStep ==
    ASSUME IInv, NEW account \in Accounts, NEW endId \in 1 .. Len(queueOf(account)),
           Withdraw(account, endId)
    PROVE  IInv'
<1> DEFINE newTotalDrafts == totalDrafts - draftAmount(account, endId)
           newDraftRSR    == BackingFor(draftRate, newTotalDrafts)
           rsrAmount      == draftRSR - newDraftRSR
<1>1. /\ Withdrawable(account, endId) /\ draftAmount(account, endId) <= totalDrafts
      /\ firstRemainingDraft' = [firstRemainingDraft EXCEPT ![draftEra][account] = endId]
      /\ totalDrafts' = IF rsrAmount = 0 THEN totalDrafts ELSE newTotalDrafts
      /\ draftRSR' = IF rsrAmount = 0 THEN draftRSR ELSE newDraftRSR
      /\ rsr' = [rsr EXCEPT ![THIS] = @ - rsrAmount, ![account] = @ + rsrAmount]
      /\ UNCHANGED <<stakeVars, draftQueues, draftEra, draftRate, govVars, payoutVars, envVars>>
  BY DEF Withdraw
<1>2. /\ draftRSR \in Nat /\ totalDrafts \in Nat /\ stakeRSR \in Nat
      /\ draftRate \in Nat \ {0} /\ FIX_ONE <= draftRate /\ FIX_ONE \in Nat
      /\ draftRSR <= totalDrafts
      /\ Covered(totalDrafts, draftRSR, draftRate)
      /\ rsr \in [Holders -> Nat] /\ stakeRSR + draftRSR <= rsr[THIS]
      /\ account \in Holders /\ THIS \in Holders /\ account # THIS
      /\ draftEra \in Eras
  BY RateAssumption, AddressAssumption
     DEF IInv, TypeOK, PoolsCovered, Covered, DraftsNeverAppreciate, Solvent, Holders
<1>3. newTotalDrafts \in Nat /\ newTotalDrafts <= totalDrafts
  BY <1>1, <1>2, DraftAmountNat
<1> HIDE DEF newTotalDrafts
<1>4. /\ newDraftRSR \in Nat /\ newDraftRSR <= draftRSR
      /\ Covered(newTotalDrafts, newDraftRSR, draftRate)
      /\ newDraftRSR <= newTotalDrafts
  <2>1. Covered(newTotalDrafts, draftRSR, draftRate)
    BY <1>2, <1>3, CoveredShrinks
  <2>2. Covered(newTotalDrafts, newTotalDrafts, draftRate)
    <3>1. newTotalDrafts * FIX_ONE <= newTotalDrafts * draftRate
      BY <1>2, <1>3, MulMono
    <3> QED BY <3>1 DEF Covered
  <2> QED BY <1>2, <1>3, <2>1, <2>2, BackingForCovers
<1> HIDE DEF newDraftRSR
<1>5. rsrAmount \in Nat /\ rsrAmount <= draftRSR /\ rsr[THIS] \in Nat /\ rsr[account] \in Nat
  BY <1>2, <1>4
<1>6. rsr' \in [Holders -> Nat] /\ rsr'[THIS] = rsr[THIS] - rsrAmount
  BY <1>1, <1>2, <1>5, SMTT(60)
<1>7. /\ totalDrafts' \in Nat /\ draftRSR' \in Nat /\ draftRSR' <= totalDrafts'
      /\ Covered(totalDrafts', draftRSR', draftRate)
      /\ draftRSR' = draftRSR - rsrAmount
  BY <1>1, <1>2, <1>3, <1>4, SMTT(60)
<1>8. /\ firstRemainingDraft' \in [Eras -> [Accounts -> Nat]]
      /\ \A e \in Eras, a \in Accounts : firstRemainingDraft'[e][a] <= Len(draftQueues[e][a])
  <2>1. firstRemainingDraft \in [Eras -> [Accounts -> Nat]] /\ endId \in Nat
    BY DEF IInv, TypeOK
  <2>2. firstRemainingDraft' \in [Eras -> [Accounts -> Nat]]
    BY <1>1, <1>2, <2>1
  <2>3. ASSUME NEW e \in Eras, NEW a \in Accounts
        PROVE  firstRemainingDraft'[e][a] <= Len(draftQueues[e][a])
    <3>1. CASE e = draftEra /\ a = account
      BY <1>1, <1>2, <2>1, <3>1 DEF queueOf, Withdrawable
    <3>2. CASE ~(e = draftEra /\ a = account)
      <4>1. firstRemainingDraft'[e][a] = firstRemainingDraft[e][a]
        BY <1>1, <1>2, <2>1, <3>2
      <4> QED BY <4>1 DEF IInv, QueuesOrdered
    <3> QED BY <3>1, <3>2
  <2> QED BY <2>2, <2>3
<1> HIDE DEF rsrAmount
<1>9. TypeOK'
  BY <1>1, <1>2, <1>6, <1>7, <1>8
     DEF IInv, TypeOK, stakeVars, govVars, payoutVars, envVars
<1>10. PoolsCovered' /\ DraftsNeverAppreciate'
  BY <1>1, <1>7 DEF IInv, PoolsCovered, Covered, DraftsNeverAppreciate, stakeVars
<1>11. Solvent'
  BY <1>1, <1>2, <1>5, <1>6, <1>7, SMTT(60) DEF Solvent, stakeVars
<1>12. QueuesOrdered'
  BY <1>1, <1>8 DEF IInv, QueuesOrdered
<1> QED BY <1>9, <1>10, <1>11, <1>12 DEF IInv

\* What a seizure leaves of a pool, whether or not its era ends.
LEMMA SeizedOK ==
    ASSUME rsr[THIS] \in Nat, NEW amt \in 1 .. rsr[THIS],
           NEW pool \in Nat, NEW shares \in Nat, NEW rate \in Nat, NEW maxRate \in Nat,
           FIX_ONE <= maxRate,
           NEW s, s = Seized(pool, shares, rate, maxRate, amt)
    PROVE  /\ s.left \in Nat /\ s.left <= pool - ToTake(pool, amt)
           /\ s.rate \in 0 .. maxRate
           /\ s.left = 0 => s.rate = FIX_ONE
           /\ s.left # 0 => Covered(shares, s.left, s.rate)
           /\ s.left # 0 /\ pool <= shares => s.rate >= FIX_ONE /\ s.left <= shares
<1> DEFINE left    == pool - ToTake(pool, amt)
           newRate == IF left > 0 THEN RateFor(shares, left) ELSE rate
           wiped   == left = 0 \/ newRate > maxRate
<1>1. left \in Nat /\ left <= pool /\ FIX_ONE \in Nat
  BY TakeBounds, RateAssumption
<1>2. s = IF wiped THEN [left |-> 0, rate |-> FIX_ONE] ELSE [left |-> left, rate |-> newRate]
  BY DEF Seized
<1>3. CASE wiped
  <2>1. s.left = 0 /\ s.rate = FIX_ONE
    BY <1>2, <1>3
  <2>2. 0 <= pool - ToTake(pool, amt)
    BY <1>1
  <2> QED BY <1>1, <2>1, <2>2
<1>4. CASE ~wiped
  <2>0. s.left = left /\ s.rate = newRate
    BY <1>2, <1>4
  <2>1. left \in Nat \ {0} /\ newRate = RateFor(shares, left)
    BY <1>1, <1>4
  <2>5. left = pool - ToTake(pool, amt)
    OBVIOUS
  <2>6. newRate \in Nat => newRate <= maxRate
    BY <1>4
  <2> HIDE DEF left
  <2>2. newRate \in Nat /\ Covered(shares, left, newRate)
    BY <2>1, RateForCovers
  <2>3. ASSUME pool <= shares PROVE newRate >= FIX_ONE /\ left <= shares
    <3>1. left <= shares
      BY <1>1, <2>1, <2>3
    <3>2. left * FIX_ONE <= newRate * left
      <4>1. left * FIX_ONE <= shares * FIX_ONE
        BY <1>1, <3>1, MulMono
      <4>2. shares * FIX_ONE <= left * newRate
        BY <2>2 DEF Covered
      <4>3. left * newRate = newRate * left /\ left * newRate \in Nat
            /\ left * FIX_ONE \in Nat /\ shares * FIX_ONE \in Nat
        BY <1>1, <2>2, SMT
      <4> QED BY <4>1, <4>2, <4>3
    <3>3. ~(newRate < FIX_ONE)
      <4>1. SUFFICES ASSUME newRate + 1 <= FIX_ONE PROVE FALSE
        BY <1>1, <2>2
      <4>2. (newRate + 1) * left <= FIX_ONE * left
        BY <1>1, <2>2, <4>1, MulMono
      <4>3. (newRate + 1) * left = newRate * left + left /\ FIX_ONE * left = left * FIX_ONE
            /\ newRate * left \in Nat /\ left * FIX_ONE \in Nat
        BY <1>1, <2>2, SMT
      <4> QED BY <2>1, <3>2, <4>2, <4>3
    <3> QED BY <1>1, <2>2, <3>1, <3>3
  <2> HIDE DEF newRate
  <2> QED BY <1>1, <2>0, <2>1, <2>2, <2>3, <2>5, <2>6
<1> QED BY <1>3, <1>4

\* The amount a seizure hands over lies between what the three shares add up to
\* and what the pools leave of the balance.
LEMMA SeizedRSRBounds ==
    ASSUME IInv, NEW amt \in 1 .. rsr[THIS]
    PROVE  /\ seizedRSR(amt) \in Nat
           /\ amt <= seizedRSR(amt)
           /\ SeizedStakes(amt).left + SeizedDrafts(amt).left <= rsr[THIS] - seizedRSR(amt)
<1> DEFINE s == SeizedStakes(amt)
           d == SeizedDrafts(amt)
           bal == rsr[THIS]
<1>1. /\ bal \in Nat \ {0} /\ amt \in Nat
      /\ stakeRSR \in Nat /\ draftRSR \in Nat /\ rsrRewards \in Nat
      /\ stakeRSR + draftRSR + rsrRewards = bal
      /\ totalStakes \in Nat /\ totalDrafts \in Nat /\ stakeRate \in Nat /\ draftRate \in Nat
  BY DEF IInv, TypeOK, Solvent, rsrRewards, Holders
<1>2. /\ s.left \in Nat /\ s.left <= stakeRSR - ToTake(stakeRSR, amt)
      /\ d.left \in Nat /\ d.left <= draftRSR - ToTake(draftRSR, amt)
  BY <1>1, SeizedOK, RateAssumption DEF SeizedStakes, SeizedDrafts
<1>3. /\ ToTake(stakeRSR, amt) \in Nat /\ stakeRSR * amt <= ToTake(stakeRSR, amt) * bal
      /\ ToTake(draftRSR, amt) \in Nat /\ draftRSR * amt <= ToTake(draftRSR, amt) * bal
      /\ ToTake(rsrRewards, amt) \in Nat /\ rsrRewards * amt <= ToTake(rsrRewards, amt) * bal
      /\ ToTake(rsrRewards, amt) <= rsrRewards
  BY <1>1, TakeBounds
<1> DEFINE ts == ToTake(stakeRSR, amt)
           td == ToTake(draftRSR, amt)
           tr == ToTake(rsrRewards, amt)
<1>4. seizedRSR(amt) = (stakeRSR - s.left) + (draftRSR - d.left) + tr
  BY DEF seizedRSR
<1> HIDE DEF s, d, ts, td, tr, bal
<1>5. amt <= ts + td + tr
  <2>1. ts \in Nat /\ td \in Nat /\ tr \in Nat
    BY <1>3 DEF ts, td, tr
  <2>2. amt * bal = stakeRSR * amt + draftRSR * amt + rsrRewards * amt
    BY <1>1, SMT
  <2>3. (ts + td + tr) * bal = ts * bal + td * bal + tr * bal
    BY <1>1, <2>1, SMT
  <2>4. /\ stakeRSR * amt <= ts * bal /\ draftRSR * amt <= td * bal /\ rsrRewards * amt <= tr * bal
    BY <1>3 DEF ts, td, tr
  <2>5. /\ stakeRSR * amt \in Nat /\ draftRSR * amt \in Nat /\ rsrRewards * amt \in Nat
        /\ ts * bal \in Nat /\ td * bal \in Nat /\ tr * bal \in Nat
    BY <1>1, <2>1, SMT
  <2>6. amt * bal <= (ts + td + tr) * bal
    BY <2>2, <2>3, <2>4, <2>5
  <2>7. SUFFICES ASSUME ts + td + tr < amt PROVE FALSE
    BY <1>1, <2>1
  <2>8. ts + td + tr + 1 <= amt /\ ts + td + tr + 1 \in Nat
    BY <1>1, <2>1, <2>7
  <2>9. (ts + td + tr + 1) * bal <= amt * bal
    BY <1>1, <2>8, MulMono
  <2>10. (ts + td + tr + 1) * bal = (ts + td + tr) * bal + bal /\ (ts + td + tr) * bal \in Nat
         /\ amt * bal \in Nat
    BY <1>1, <2>1, SMT
  <2> QED BY <1>1, <2>6, <2>9, <2>10
<1>6. /\ s.left <= stakeRSR - ts /\ d.left <= draftRSR - td /\ tr <= rsrRewards
      /\ ts \in Nat /\ td \in Nat /\ tr \in Nat /\ s.left \in Nat /\ d.left \in Nat
  BY <1>2, <1>3 DEF ts, td, tr
<1>7. /\ seizedRSR(amt) \in Nat /\ amt <= seizedRSR(amt)
      /\ s.left + d.left <= bal - seizedRSR(amt)
  BY <1>1, <1>4, <1>5, <1>6
<1> QED BY <1>7 DEF s, d, bal

\* seizeRSR() keeps the invariant.
LEMMA SeizeRSRStep ==
    ASSUME IInv, NEW amt \in 1 .. rsr[THIS], SeizeRSR(amt)
    PROVE  IInv'
<1> DEFINE s == SeizedStakes(amt)
           d == SeizedDrafts(amt)
<1>1. /\ s.left = 0 => era < MaxEra
      /\ d.left = 0 => draftEra < MaxEra
      /\ s.rate > 0
      /\ stakeRSR' = s.left /\ stakeRate' = s.rate
      /\ totalStakes' = IF s.left = 0 THEN 0 ELSE totalStakes
      /\ era' = IF s.left = 0 THEN era + 1 ELSE era
      /\ draftRSR' = d.left /\ draftRate' = d.rate
      /\ totalDrafts' = IF d.left = 0 THEN 0 ELSE totalDrafts
      /\ draftEra' = IF d.left = 0 THEN draftEra + 1 ELSE draftEra
      /\ rsr' = [rsr EXCEPT ![THIS] = @ - seizedRSR(amt), ![BackingManager] = @ + seizedRSR(amt)]
      /\ UNCHANGED <<stakes, draftQueues, firstRemainingDraft, govVars, payoutVars, envVars>>
  BY DEF SeizeRSR
<1>2. /\ totalStakes \in Nat /\ totalDrafts \in Nat /\ stakeRSR \in Nat /\ draftRSR \in Nat
      /\ stakeRate \in Nat /\ draftRate \in Nat /\ draftRSR <= totalDrafts
      /\ rsr[THIS] \in Nat /\ rsr \in [Holders -> Nat]
      /\ THIS \in Holders /\ BackingManager \in Holders /\ THIS # BackingManager
      /\ era \in Eras /\ draftEra \in Eras /\ MaxEra \in Nat
      /\ FIX_ONE \in Nat \ {0} /\ FIX_ONE <= MAX_STAKE_RATE /\ FIX_ONE <= MAX_DRAFT_RATE
      /\ MAX_STAKE_RATE \in Nat /\ MAX_DRAFT_RATE \in Nat
  BY RateAssumption, AddressAssumption, ParamAssumption
     DEF IInv, TypeOK, DraftsNeverAppreciate, Holders
<1>3. /\ s.left \in Nat /\ s.rate \in 0 .. MAX_STAKE_RATE
      /\ s.left = 0 => s.rate = FIX_ONE
      /\ s.left # 0 => Covered(totalStakes, s.left, s.rate)
  BY <1>2, SeizedOK DEF SeizedStakes
<1>4. /\ d.left \in Nat /\ d.rate \in 0 .. MAX_DRAFT_RATE
      /\ d.left = 0 => d.rate = FIX_ONE
      /\ d.left # 0 => /\ Covered(totalDrafts, d.left, d.rate)
                       /\ d.rate >= FIX_ONE /\ d.left <= totalDrafts
  <2>1. /\ d.left \in Nat /\ d.rate \in 0 .. MAX_DRAFT_RATE
        /\ d.left = 0 => d.rate = FIX_ONE
        /\ d.left # 0 => Covered(totalDrafts, d.left, d.rate)
    BY <1>2, SeizedOK DEF SeizedDrafts
  <2>2. d.left # 0 /\ draftRSR <= totalDrafts => d.rate >= FIX_ONE /\ d.left <= totalDrafts
    BY <1>2, SeizedOK DEF SeizedDrafts
  <2> QED BY <1>2, <2>1, <2>2
<1>5. /\ seizedRSR(amt) \in Nat
      /\ s.left + d.left <= rsr[THIS] - seizedRSR(amt)
  BY SeizedRSRBounds
<1> HIDE DEF s, d
<1>6. rsr' \in [Holders -> Nat] /\ rsr'[THIS] = rsr[THIS] - seizedRSR(amt)
  BY <1>1, <1>2, <1>3, <1>4, <1>5
<1>7. era' \in Eras /\ draftEra' \in Eras
  BY <1>1, <1>2 DEF Eras
<1>8. TypeOK'
  <2>1. /\ stakeRate' \in 1 .. MAX_STAKE_RATE /\ stakeRSR' \in Nat /\ totalStakes' \in Nat
    BY <1>1, <1>2, <1>3
  <2>2. /\ draftRate' \in 1 .. MAX_DRAFT_RATE /\ draftRSR' \in Nat /\ totalDrafts' \in Nat
    BY <1>1, <1>2, <1>4
  <2>3. UNCHANGED <<stakes, draftQueues, firstRemainingDraft, govVars, payoutVars, envVars>>
    BY <1>1
  <2> QED BY <1>6, <1>7, <2>1, <2>2, <2>3 DEF IInv, TypeOK, govVars, payoutVars, envVars
<1>9. PoolsCovered'
  <2>1. Covered(totalStakes', stakeRSR', stakeRate')
    <3>1. CASE s.left = 0
      BY <1>1, <1>2, <1>3, <3>1, SMT DEF Covered
    <3>2. CASE s.left # 0
      BY <1>1, <1>3, <3>2
    <3> QED BY <3>1, <3>2
  <2>2. Covered(totalDrafts', draftRSR', draftRate')
    <3>1. CASE d.left = 0
      BY <1>1, <1>2, <1>4, <3>1, SMT DEF Covered
    <3>2. CASE d.left # 0
      BY <1>1, <1>4, <3>2
    <3> QED BY <3>1, <3>2
  <2> QED BY <2>1, <2>2 DEF PoolsCovered, Covered
<1>10. DraftsNeverAppreciate' /\ Solvent'
  BY <1>1, <1>2, <1>4, <1>5, <1>6 DEF DraftsNeverAppreciate, Solvent
<1>11. QueuesOrdered'
  BY <1>1, QueuesKept DEF IInv
<1> QED BY <1>8, <1>9, <1>10, <1>11 DEF IInv

\* Actions that change nothing but balances of stakes, parameters or the environment.
LEMMA TransferStep ==
    ASSUME IInv, NEW from \in Accounts, NEW to \in Accounts,
           NEW amount \in 1 .. balanceOf(from), Transfer(from, to, amount)
    PROVE  IInv'
<1> USE DEF draftVars, govVars, payoutVars, envVars
<1>1. stakes' \in [Eras -> [Accounts -> Nat]]
  <2>1. stakes[era] \in [Accounts -> Nat] /\ amount \in Nat /\ era \in Eras
        /\ stakes[era][from] - amount \in Nat
    <3>1. era \in Eras /\ stakes \in [Eras -> [Accounts -> Nat]]
      BY DEF IInv, TypeOK
    <3>2. stakes[era] \in [Accounts -> Nat] /\ stakes[era][from] \in Nat
      BY <3>1
    <3>3. balanceOf(from) = stakes[era][from]
      BY DEF balanceOf
    <3> QED BY <3>1, <3>2, <3>3
  <2>2. [[stakes[era] EXCEPT ![from] = @ - amount] EXCEPT ![to] = @ + amount] \in [Accounts -> Nat]
    BY <2>1
  <2>3. stakes' = [stakes EXCEPT ![era] =
                     [[stakes[era] EXCEPT ![from] = @ - amount] EXCEPT ![to] = @ + amount]]
    BY DEF Transfer
  <2> QED BY <2>1, <2>2, <2>3 DEF IInv, TypeOK
<1>2. TypeOK'
  BY <1>1 DEF IInv, TypeOK, Transfer
<1>3. PoolsCovered' /\ DraftsNeverAppreciate' /\ Solvent'
  BY DEF IInv, PoolsCovered, DraftsNeverAppreciate, Solvent, Transfer
<1>4. QueuesOrdered'
  BY QueuesKept DEF IInv, Transfer
<1> QED BY <1>2, <1>3, <1>4 DEF IInv

\* RSR sent to the contract keeps the invariant.
LEMMA SendRSRStep ==
    ASSUME IInv, NEW holder \in Holders \ {THIS}, NEW amount \in 1 .. rsr[holder],
           SendRSR(holder, amount)
    PROVE  IInv'
<1> USE DEF stakeVars, draftVars, govVars, payoutVars, envVars
<1>1. /\ rsr \in [Holders -> Nat] /\ THIS \in Holders /\ rsr[holder] - amount \in Nat
      /\ amount \in Nat
      /\ rsr' = [rsr EXCEPT ![holder] = @ - amount, ![THIS] = @ + amount]
  BY SMTT(60) DEF IInv, TypeOK, Holders, SendRSR
<1>2. rsr' \in [Holders -> Nat] /\ rsr'[THIS] = rsr[THIS] + amount
  BY <1>1
<1>3. TypeOK'
  BY <1>2 DEF IInv, TypeOK, SendRSR
<1>4. PoolsCovered' /\ DraftsNeverAppreciate'
  BY DEF IInv, PoolsCovered, DraftsNeverAppreciate, SendRSR
<1>5. Solvent'
  <2>1. rsr[THIS] \in Nat /\ stakeRSR \in Nat /\ draftRSR \in Nat
    BY <1>1 DEF IInv, TypeOK
  <2> QED BY <1>1, <1>2, <2>1 DEF IInv, Solvent, SendRSR
<1>6. QueuesOrdered'
  BY QueuesKept DEF IInv, SendRSR
<1> QED BY <1>3, <1>4, <1>5, <1>6 DEF IInv

\* The setters keep the invariant.
LEMMA SetterStep ==
    ASSUME IInv,
           \/ \E val \in Delays : setUnstakingDelay(val)
           \/ \E val \in Periods : setRewardPeriod(val)
           \/ \E val \in Ratios : setRewardRatio(val)
    PROVE  IInv'
<1> USE DEF stakeVars, draftVars, payoutVars, envVars, setUnstakingDelay, setRewardPeriod, setRewardRatio
<1>1. TypeOK'
  <2>1. CASE \E val \in Delays : setUnstakingDelay(val)
    <3>1. unstakingDelay' \in Nat \ {0}
      BY <2>1, ParamAssumption
    <3> QED BY <2>1, <3>1 DEF IInv, TypeOK
  <2>2. CASE \E val \in Periods : setRewardPeriod(val)
    <3>1. rewardPeriod' \in Nat \ {0}
      BY <2>2, ParamAssumption
    <3> QED BY <2>2, <3>1 DEF IInv, TypeOK
  <2>3. CASE \E val \in Ratios : setRewardRatio(val)
    <3>1. rewardRatio' \in 0 .. FIX_ONE
      BY <2>3, ParamAssumption, RateAssumption
    <3> QED BY <2>3, <3>1 DEF IInv, TypeOK
  <2> QED BY <2>1, <2>2, <2>3
<1>2. PoolsCovered' /\ DraftsNeverAppreciate' /\ Solvent'
  BY DEF IInv, PoolsCovered, DraftsNeverAppreciate, Solvent
<1>3. QueuesOrdered'
  BY QueuesKept DEF IInv
<1> QED BY <1>1, <1>2, <1>3 DEF IInv

\* Time, pausing and freezing keep the invariant.
LEMMA EnvironmentStep ==
    ASSUME IInv, Tick \/ SetPausedOrFrozen \/ SetRTokenSound \/ UNCHANGED vars
    PROVE  IInv'
<1> USE DEF stakeVars, draftVars, govVars, payoutVars, envVars, vars, Tick, SetPausedOrFrozen, SetRTokenSound
<1>1. TypeOK'
  <2>1. CASE Tick
    BY <2>1, ParamAssumption DEF IInv, TypeOK
  <2>2. CASE SetPausedOrFrozen
    BY <2>2 DEF IInv, TypeOK
  <2>3. CASE SetRTokenSound
    BY <2>3 DEF IInv, TypeOK
  <2>4. CASE UNCHANGED vars
    BY <2>4 DEF IInv, TypeOK
  <2> QED BY <2>1, <2>2, <2>3, <2>4
<1>2. PoolsCovered' /\ DraftsNeverAppreciate' /\ Solvent'
  BY DEF IInv, PoolsCovered, DraftsNeverAppreciate, Solvent
<1>3. QueuesOrdered'
  BY QueuesKept DEF IInv
<1> QED BY <1>1, <1>2, <1>3 DEF IInv

----------------------------------------------------------------------
\* The theorems

\* A new contract satisfies the invariant.
LEMMA InitIInv == Init => IInv
<1> SUFFICES ASSUME Init PROVE IInv
  OBVIOUS
<1> USE DEF Init
<1>1. TypeOK
  <2>1. rsr \in [Holders -> Nat] /\ rsr[THIS] \in Nat
    BY HoldingsAssumption DEF Holders
  <2>2. 1 \in Eras
    BY ParamAssumption DEF Eras
  <2>3. << >> \in Seq(Draft)
    OBVIOUS
  <2>4. /\ unstakingDelay \in Nat \ {0} /\ rewardPeriod \in Nat \ {0}
        /\ rewardRatio \in 0 .. FIX_ONE
    BY RateAssumption, ParamAssumption
  <2>5. /\ stakeRate \in 1 .. MAX_STAKE_RATE /\ draftRate \in 1 .. MAX_DRAFT_RATE
        /\ now \in 0 .. MaxTime /\ payoutLastPaid \in 0 .. now
    BY RateAssumption, ParamAssumption
  <2> QED BY <2>1, <2>2, <2>3, <2>4, <2>5 DEF TypeOK
<1>2. PoolsCovered
  BY RateAssumption, SMT DEF PoolsCovered
<1>3. DraftsNeverAppreciate /\ Solvent
  BY <1>1, RateAssumption DEF DraftsNeverAppreciate, Solvent, TypeOK, Holders
<1>4. QueuesOrdered
  BY DEF QueuesOrdered
<1> QED BY <1>1, <1>2, <1>3, <1>4 DEF IInv

\* Every step keeps the invariant.
LEMMA NextIInv == IInv /\ [Next]_vars => IInv'
<1> SUFFICES ASSUME IInv, [Next]_vars PROVE IInv'
  OBVIOUS
<1>1. CASE PayoutRewards
  BY <1>1, PayoutRewardsStep
<1>2. CASE \E a \in Accounts : \E amt \in 1 .. rsr[a] : Stake(a, amt)
  BY <1>2, StakeStep
<1>3. CASE \E a \in Accounts : \E amt \in 1 .. balanceOf(a) : Unstake(a, amt)
  BY <1>3, UnstakeStep
<1>4. CASE \E a \in Accounts : \E id \in 1 .. Len(queueOf(a)) : Withdraw(a, id)
  BY <1>4, WithdrawStep
<1>5. CASE \E a, b \in Accounts : \E amt \in 1 .. balanceOf(a) : Transfer(a, b, amt)
  BY <1>5, TransferStep
<1>6. CASE \E amt \in 1 .. rsr[THIS] : SeizeRSR(amt)
  BY <1>6, SeizeRSRStep
<1>7. CASE \E h \in Holders \ {THIS} : \E amt \in 1 .. rsr[h] : SendRSR(h, amt)
  BY <1>7, SendRSRStep
<1>8. CASE \/ \E d \in Delays : setUnstakingDelay(d)
           \/ \E p \in Periods : setRewardPeriod(p)
           \/ \E r \in Ratios : setRewardRatio(r)
  BY <1>8, SetterStep
<1>9. CASE Tick \/ SetPausedOrFrozen \/ SetRTokenSound \/ UNCHANGED vars
  BY <1>9, EnvironmentStep
<1> QED BY <1>1, <1>2, <1>3, <1>4, <1>5, <1>6, <1>7, <1>8, <1>9 DEF Next

\* The invariant holds in every state.
LEMMA Invariance == Spec => []IInv
<1>1. Init => IInv
  BY InitIInv
<1>2. IInv /\ [Next]_vars => IInv'
  BY NextIInv
<1> QED BY <1>1, <1>2, PTL DEF Spec

\* Type correctness: every balance, total, rate and timestamp of StRSR keeps its type.
THEOREM TypeCorrect == Spec => []TypeOK
<1>1. IInv => TypeOK
  BY DEF IInv
<1> QED BY <1>1, Invariance, PTL

\* The RSR of both pools covers their shares at their rates, for every scale of
\* the fixed-point arithmetic and every history of stakes, payouts and seizures.
THEOREM PoolsAlwaysCovered == Spec => []PoolsCovered
<1>1. IInv => PoolsCovered
  BY DEF IInv
<1> QED BY <1>1, Invariance, PTL

\* The contract always holds the RSR it owes to stakers and withdrawers.
THEOREM AlwaysSolvent == Spec => []Solvent
<1>1. IInv => Solvent
  BY DEF IInv
<1> QED BY <1>1, Invariance, PTL

\* No draft is ever worth more than the RSR it was created for.
THEOREM DraftsEarnNothing == Spec => []DraftsNeverAppreciate
<1>1. IInv => DraftsNeverAppreciate
  BY DEF IInv
<1> QED BY <1>1, Invariance, PTL

\* The cumulative draft queues stay ordered in amount and in time.
THEOREM QueuesAlwaysOrdered == Spec => []QueuesOrdered
<1>1. IInv => QueuesOrdered
  BY DEF IInv
<1> QED BY <1>1, Invariance, PTL

\* seizeRSR() always hands over at least the amount asked for and at most the
\* balance: the "other properties" note of its comment.
THEOREM SeizureAlwaysSufficient == Spec => []SeizureSufficient
<1>1. IInv => SeizureSufficient
  <2> SUFFICES ASSUME IInv, NEW amt \in 1 .. rsr[THIS]
               PROVE  amt <= seizedRSR(amt) /\ seizedRSR(amt) <= rsr[THIS]
    BY DEF SeizureSufficient
  <2>1. /\ seizedRSR(amt) \in Nat /\ amt <= seizedRSR(amt)
        /\ SeizedStakes(amt).left + SeizedDrafts(amt).left <= rsr[THIS] - seizedRSR(amt)
    BY SeizedRSRBounds
  <2>2. SeizedStakes(amt).left \in Nat /\ SeizedDrafts(amt).left \in Nat /\ rsr[THIS] \in Nat
    <3>1. /\ rsr[THIS] \in Nat /\ stakeRSR \in Nat /\ totalStakes \in Nat /\ stakeRate \in Nat
          /\ draftRSR \in Nat /\ totalDrafts \in Nat /\ draftRate \in Nat
      BY DEF IInv, TypeOK, Holders
    <3>2. SeizedStakes(amt).left \in Nat
      BY <3>1, SeizedOK, RateAssumption DEF SeizedStakes
    <3>3. SeizedDrafts(amt).left \in Nat
      BY <3>1, SeizedOK, RateAssumption DEF SeizedDrafts
    <3> QED BY <3>1, <3>2, <3>3
  <2> QED BY <2>1, <2>2
<1> QED BY <1>1, Invariance, PTL

----------------------------------------------------------------------
\* The totals and the parts

\* Eras to come are blank: what a seizure leaves behind is no part of the next era.
ErasAhead ==
    \A e \in Eras, a \in Accounts :
        /\ e > era => stakes[e][a] = 0
        /\ e > draftEra => draftQueues[e][a] = << >> /\ firstRemainingDraft[e][a] = 0

\* The totals match the parts as long as the era a seizure starts is blank.
TInv == IInv /\ ErasAhead /\ TotalsMatchParts

Pending == [a \in Accounts |-> draftSum(a)]

\* The drafts behind a position of an ordered queue add up to a natural number.
LEMMA RestNat ==
    ASSUME NEW q \in Seq(Draft), NEW first \in Nat, first <= Len(q),
           \A i, j \in 1 .. Len(q) : i <= j => q[i].drafts <= q[j].drafts
    PROVE  /\ DraftsUpTo(q, Len(q)) \in Nat /\ DraftsUpTo(q, first) \in Nat
           /\ DraftsUpTo(q, first) <= DraftsUpTo(q, Len(q))
<1>1. \A i \in 1 .. Len(q) : q[i].drafts \in Nat
  <2>1. \A i \in 1 .. Len(q) : q[i] \in Draft
    OBVIOUS
  <2> QED BY <2>1 DEF Draft
<1>2. Len(q) \in Nat /\ (Len(q) # 0 => Len(q) \in 1 .. Len(q))
  OBVIOUS
<1>3. first # 0 => first \in 1 .. Len(q)
  OBVIOUS
<1> QED BY <1>1, <1>2, <1>3 DEF DraftsUpTo

\* What an account has not withdrawn is a natural number.
LEMMA PendingNat == IInv => Pending \in [Accounts -> Nat]
<1> SUFFICES ASSUME IInv, NEW a \in Accounts PROVE draftSum(a) \in Nat
  BY DEF Pending
<1>1. /\ queueOf(a) \in Seq(Draft) /\ firstRemainingDraft[draftEra][a] \in Nat
      /\ firstRemainingDraft[draftEra][a] <= Len(queueOf(a))
      /\ \A i, j \in 1 .. Len(queueOf(a)) :
            i <= j => queueOf(a)[i].drafts <= queueOf(a)[j].drafts
  BY DEF IInv, TypeOK, QueuesOrdered, queueOf
<1> QED BY <1>1, RestNat DEF draftSum

\* An action that leaves stakes, drafts and totals alone keeps them matching.
LEMMA TotalsKept ==
    ASSUME ErasAhead, TotalsMatchParts,
           UNCHANGED <<stakes, era, totalStakes>>,
           UNCHANGED <<draftQueues, firstRemainingDraft, draftEra, totalDrafts>>
    PROVE  ErasAhead' /\ TotalsMatchParts'
  BY DEF ErasAhead, TotalsMatchParts, draftSum, queueOf, DraftsUpTo

\* The total of the stakes follows a change of one balance.
LEMMA StakesFollow ==
    ASSUME IInv, IInv', ErasAhead, TotalsMatchParts, UNCHANGED era,
           NEW account \in Accounts, NEW balance \in Int,
           stakes' = [stakes EXCEPT ![era][account] = balance],
           totalStakes' = totalStakes + (balance - stakes[era][account])
    PROVE  /\ totalStakes' = SumFunction(stakes[era])'
           /\ \A e \in Eras, a \in Accounts : e > era => stakes'[e][a] = 0
<1> DEFINE f == stakes[era]
           g == stakes'[era]
<1>0. /\ era \in Eras /\ stakes \in [Eras -> [Accounts -> Nat]]
      /\ stakes' \in [Eras -> [Accounts -> Nat]] /\ \A e \in Eras : e \in Int
  <2>1. era \in Eras /\ stakes \in [Eras -> [Accounts -> Nat]]
    BY DEF IInv, TypeOK
  <2>2. stakes' \in [Eras -> [Accounts -> Nat]]
    BY DEF IInv, TypeOK
  <2>3. \A e \in Eras : e \in Int
    BY DEF Eras
  <2> QED BY <2>1, <2>2, <2>3
<1>1. f \in [Accounts -> Int] /\ g \in [Accounts -> Int]
  <2>1. f \in [Accounts -> Nat] /\ g \in [Accounts -> Nat]
    BY <1>0
  <2> QED BY <2>1
<1>2. /\ g[account] = balance
      /\ \A a \in Accounts : a # account => g[a] = f[a]
      /\ \A e \in Eras : e # era => stakes'[e] = stakes[e]
  BY <1>0
<1>3. SumFunction(g) = SumFunction(f) + (balance - f[account])
  <2> HIDE DEF f, g
  <2>1. SumFunction(f) \in Int /\ SumFunction(g) = SumFunction(f) + (g[account] - f[account])
    BY <1>1, <1>2, SumChange, AddressAssumption
  <2> QED BY <1>2, <2>1
<1>4. ASSUME NEW e \in Eras, NEW a \in Accounts, e > era PROVE stakes'[e][a] = 0
  <2>1. e # era
    BY <1>0, <1>4
  <2> QED BY <1>2, <1>4, <2>1 DEF ErasAhead
<1> QED BY <1>3, <1>4 DEF TotalsMatchParts

\* stake() mints what it adds to the total.
LEMMA StakeTotals ==
    ASSUME TInv, NEW account \in Accounts, NEW rsrAmount \in 1 .. rsr[account],
           Stake(account, rsrAmount), IInv'
    PROVE  ErasAhead' /\ TotalsMatchParts'
<1> DEFINE newTotal    == SharesFor(stakeRate', stakeRSR')
           stakeAmount == newTotal - totalStakes
<1>1. /\ stakes' = [stakes EXCEPT ![era][account] = @ + stakeAmount]
      /\ totalStakes' = totalStakes + stakeAmount
      /\ UNCHANGED <<era, draftQueues, firstRemainingDraft, draftEra, totalDrafts>>
  BY DEF Stake, draftVars
<1>2. stakeAmount \in Int
  <2>1. stakeRate' \in Nat /\ stakeRSR' \in Nat /\ totalStakes \in Nat
    BY RateAssumption DEF TInv, IInv, TypeOK
  <2>2. newTotal \in Nat
    BY <2>1, SharesForCovered
  <2> QED BY <2>1, <2>2
<1> HIDE DEF stakeAmount
<1>3. /\ totalStakes' = SumFunction(stakes[era])'
      /\ \A e \in Eras, a \in Accounts : e > era => stakes'[e][a] = 0
  <2> DEFINE balance == stakes[era][account] + stakeAmount
  <2>1. totalStakes \in Nat /\ stakes[era][account] \in Nat
    BY DEF TInv, IInv, TypeOK
  <2>2. balance \in Int /\ balance - stakes[era][account] = stakeAmount
    BY <1>2, <2>1
  <2>3. stakes' = [stakes EXCEPT ![era][account] = balance]
    BY <1>1
  <2> HIDE DEF balance
  <2> QED BY <1>1, <2>2, <2>3, StakesFollow DEF TInv
<1>4. /\ SumFunction([a \in Accounts |-> draftSum(a)])' <= totalDrafts'
  BY <1>1 DEF TInv, TotalsMatchParts, draftSum, queueOf, DraftsUpTo
<1>5. ErasAhead'
  BY <1>1, <1>3 DEF TInv, ErasAhead
<1> QED BY <1>3, <1>4, <1>5 DEF TotalsMatchParts

\* The sum of the pending drafts follows a change of one queue.
LEMMA PendingFollows ==
    ASSUME IInv, IInv', NEW account \in Accounts,
           \A a \in Accounts : a # account => draftSum(a)' = draftSum(a)
    PROVE  /\ SumFunction(Pending) \in Int /\ draftSum(account) \in Nat
           /\ draftSum(account)' \in Nat
           /\ SumFunction(Pending') = SumFunction(Pending) + (draftSum(account)' - draftSum(account))
<1> DEFINE f == Pending
           g == Pending'
<1>1. f \in [Accounts -> Nat]
  BY PendingNat
<1>2. g \in [Accounts -> Nat]
  <2>1. IInv' => Pending' \in [Accounts -> Nat]
    <3>1. (IInv => Pending \in [Accounts -> Nat])'
      BY PendingNat, PTL
    <3> QED BY <3>1
  <2> QED BY <2>1
<1>3. /\ \A a \in Accounts : f[a] = draftSum(a)
      /\ \A a \in Accounts : g[a] = draftSum(a)'
  BY DEF Pending
<1> HIDE DEF f, g
<1>4. f \in [Accounts -> Int] /\ g \in [Accounts -> Int]
  BY <1>1, <1>2
<1>5. /\ SumFunction(f) \in Int
      /\ SumFunction(g) = SumFunction(f) + (g[account] - f[account])
  BY <1>3, <1>4, SumChange, AddressAssumption
<1>6. f[account] \in Nat /\ g[account] \in Nat
  BY <1>1, <1>2
<1> QED BY <1>3, <1>5, <1>6 DEF f, g

\* unstake() burns what it takes from the total, and its draft is what it adds
\* to the total of the drafts.
LEMMA UnstakeTotals ==
    ASSUME TInv, NEW account \in Accounts, NEW stakeAmount \in 1 .. balanceOf(account),
           Unstake(account, stakeAmount), IInv'
    PROVE  ErasAhead' /\ TotalsMatchParts'
<1> DEFINE queue == queueOf(account)
           first == firstRemainingDraft[draftEra][account]
           draft == [drafts |-> DraftsUpTo(queue, Len(queue)) + (totalDrafts' - totalDrafts),
                     availableAt |-> AvailableAt(queue)]
<1>1. /\ stakeAmount <= balanceOf(account) /\ stakeAmount > 0
      /\ stakes' = [stakes EXCEPT ![era][account] = @ - stakeAmount]
      /\ totalStakes' = totalStakes - stakeAmount
      /\ draftQueues' = [draftQueues EXCEPT ![draftEra][account] = Append(@, draft)]
      /\ UNCHANGED <<era, firstRemainingDraft, draftEra>>
  BY DEF Unstake
<1>2. /\ draftEra \in Eras /\ era \in Eras
      /\ draftQueues \in [Eras -> [Accounts -> Seq(Draft)]]
      /\ stakes \in [Eras -> [Accounts -> Nat]]
      /\ totalDrafts \in Nat /\ totalStakes \in Nat /\ queue \in Seq(Draft)
      /\ first \in Nat /\ first <= Len(queue)
  BY DEF TInv, IInv, TypeOK, QueuesOrdered, queueOf
<1>3. totalDrafts' \in Nat
  BY DEF IInv, TypeOK
<1>4. /\ totalStakes' = SumFunction(stakes[era])'
      /\ \A e \in Eras, a \in Accounts : e > era => stakes'[e][a] = 0
  <2>1. stakes[era][account] \in Nat /\ stakeAmount \in Nat
    BY <1>2, SMTT(60) DEF balanceOf
  <2> DEFINE balance == stakes[era][account] - stakeAmount
  <2>2. /\ balance \in Int
        /\ totalStakes' = totalStakes + (balance - stakes[era][account])
    BY <1>1, <1>2, <2>1
  <2>3. stakes' = [stakes EXCEPT ![era][account] = balance]
    BY <1>1
  <2> HIDE DEF balance
  <2> QED BY <1>1, <2>2, <2>3, StakesFollow DEF TInv
<1>5. /\ draftQueues'[draftEra][account] = Append(queue, draft)
      /\ \A a \in Accounts : a # account => draftQueues'[draftEra][a] = draftQueues[draftEra][a]
      /\ \A e \in Eras : e # draftEra => draftQueues'[e] = draftQueues[e]
  BY <1>1, <1>2 DEF queueOf
<1>6. draftSum(account)' = draftSum(account) + (totalDrafts' - totalDrafts)
  <2>1. /\ Len(Append(queue, draft)) = Len(queue) + 1 /\ Len(queue) \in Nat
        /\ Append(queue, draft)[Len(queue) + 1] = draft
        /\ \A i \in 1 .. Len(queue) : Append(queue, draft)[i] = queue[i]
    BY <1>2
  <2>2. draftSum(account)' = DraftsUpTo(Append(queue, draft), Len(queue) + 1)
                              - DraftsUpTo(Append(queue, draft), first)
    <3>1. queueOf(account)' = Append(queue, draft)
      BY <1>1, <1>5 DEF queueOf
    <3>2. draftSum(account)' = DraftsUpTo(queueOf(account)', Len(queueOf(account)'))
                                - DraftsUpTo(queueOf(account)', first)
      BY <1>1 DEF draftSum, DraftsUpTo
    <3> QED BY <2>1, <3>1, <3>2
  <2>3. draftSum(account) = DraftsUpTo(queue, Len(queue)) - DraftsUpTo(queue, first)
    BY DEF draftSum
  <2>4. /\ DraftsUpTo(queue, Len(queue)) \in Nat /\ DraftsUpTo(queue, first) \in Nat
    BY <1>2, RestNat DEF TInv, IInv, QueuesOrdered, queueOf
  <2>5. DraftsUpTo(Append(queue, draft), first) = DraftsUpTo(queue, first)
    BY <1>2, <2>1 DEF DraftsUpTo
  <2>6. DraftsUpTo(Append(queue, draft), Len(queue) + 1)
          = DraftsUpTo(queue, Len(queue)) + (totalDrafts' - totalDrafts)
    BY <2>1 DEF DraftsUpTo
  <2> HIDE DEF queue, first, draft
  <2> QED BY <1>2, <1>3, <2>2, <2>3, <2>4, <2>5, <2>6
<1>7. \A a \in Accounts : a # account => draftSum(a)' = draftSum(a)
  BY <1>1, <1>5 DEF draftSum, queueOf, DraftsUpTo
<1>8. SumFunction(Pending') <= totalDrafts'
  <2>1. /\ SumFunction(Pending) \in Int /\ draftSum(account) \in Nat
        /\ SumFunction(Pending') = SumFunction(Pending) + (draftSum(account)' - draftSum(account))
    BY <1>7, PendingFollows DEF TInv
  <2>2. SumFunction(Pending) <= totalDrafts
    BY DEF TInv, TotalsMatchParts, Pending
  <2> QED BY <1>2, <1>3, <1>6, <2>1, <2>2
<1>9. ErasAhead'
  <2> SUFFICES ASSUME NEW e \in Eras, NEW a \in Accounts, e > draftEra
               PROVE  draftQueues'[e][a] = << >> /\ firstRemainingDraft[e][a] = 0
    BY <1>1, <1>4 DEF ErasAhead
  <2>1. e # draftEra
    BY <1>2 DEF Eras
  <2> QED BY <1>5, <2>1 DEF TInv, ErasAhead
<1> QED BY <1>4, <1>8, <1>9 DEF TotalsMatchParts, Pending

\* withdraw() settles drafts of its account, and of no other.
LEMMA WithdrawSettles ==
    ASSUME IInv, NEW account \in Accounts, NEW endId \in 1 .. Len(queueOf(account)),
           Withdraw(account, endId)
    PROVE  /\ draftAmount(account, endId) \in Nat
           /\ draftSum(account) \in Int
           /\ draftSum(account)' = draftSum(account) - draftAmount(account, endId)
           /\ \A a \in Accounts : a # account => draftSum(a)' = draftSum(a)
           /\ \A e \in Eras : e # draftEra => firstRemainingDraft'[e] = firstRemainingDraft[e]
<1> DEFINE queue  == queueOf(account)
           first  == firstRemainingDraft[draftEra][account]
           amount == draftAmount(account, endId)
<1>1. /\ Withdrawable(account, endId)
      /\ firstRemainingDraft' = [firstRemainingDraft EXCEPT ![draftEra][account] = endId]
      /\ UNCHANGED <<draftQueues, draftEra>>
  BY DEF Withdraw
<1>2. /\ draftEra \in Eras /\ firstRemainingDraft \in [Eras -> [Accounts -> Nat]]
      /\ queue \in Seq(Draft) /\ first \in Nat /\ first <= Len(queue)
  BY DEF IInv, TypeOK, QueuesOrdered, queueOf
<1>3. /\ firstRemainingDraft'[draftEra][account] = endId
      /\ \A a \in Accounts : a # account =>
            firstRemainingDraft'[draftEra][a] = firstRemainingDraft[draftEra][a]
      /\ \A e \in Eras : e # draftEra => firstRemainingDraft'[e] = firstRemainingDraft[e]
  BY <1>1, <1>2
<1>4. amount \in Nat
  BY <1>1, DraftAmountNat
<1>5. draftSum(account) \in Int /\ draftSum(account)' = draftSum(account) - amount
  <2>1. draftSum(account)' = DraftsUpTo(queue, Len(queue)) - DraftsUpTo(queue, endId)
    BY <1>1, <1>3 DEF draftSum, queueOf, DraftsUpTo
  <2>2. draftSum(account) = DraftsUpTo(queue, Len(queue)) - DraftsUpTo(queue, first)
    BY DEF draftSum
  <2>3. amount = DraftsUpTo(queue, endId) - DraftsUpTo(queue, first)
    BY DEF draftAmount
  <2>4. endId \in Nat /\ endId <= Len(queue)
    OBVIOUS
  <2>5. /\ DraftsUpTo(queue, Len(queue)) \in Nat /\ DraftsUpTo(queue, first) \in Nat
        /\ DraftsUpTo(queue, endId) \in Nat
    BY <1>2, <2>4, RestNat DEF IInv, QueuesOrdered, queueOf
  <2> HIDE DEF queue, first, amount
  <2> QED BY <2>1, <2>2, <2>3, <2>5
<1>6. \A a \in Accounts : a # account => draftSum(a)' = draftSum(a)
  BY <1>1, <1>3 DEF draftSum, queueOf, DraftsUpTo
<1> QED BY <1>3, <1>4, <1>5, <1>6

\* The total of the drafts drops by what withdraw() settles, or not at all.
LEMMA WithdrawTotals ==
    ASSUME TInv, NEW account \in Accounts, NEW endId \in 1 .. Len(queueOf(account)),
           Withdraw(account, endId), IInv'
    PROVE  ErasAhead' /\ TotalsMatchParts'
<1> DEFINE amount == draftAmount(account, endId)
<1>1. /\ totalDrafts' = totalDrafts \/ totalDrafts' = totalDrafts - amount
      /\ UNCHANGED <<stakes, era, totalStakes, draftQueues, draftEra>>
  BY DEF Withdraw, stakeVars
<1>2. draftEra \in Eras /\ totalDrafts \in Nat
  BY DEF TInv, IInv, TypeOK
<1>3. /\ amount \in Nat
      /\ draftSum(account)' = draftSum(account) - amount
      /\ \A a \in Accounts : a # account => draftSum(a)' = draftSum(a)
      /\ \A e \in Eras : e # draftEra => firstRemainingDraft'[e] = firstRemainingDraft[e]
  BY WithdrawSettles DEF TInv
<1>4. SumFunction(Pending') <= totalDrafts'
  <2>1. /\ SumFunction(Pending) \in Int /\ draftSum(account) \in Nat
        /\ SumFunction(Pending') = SumFunction(Pending) + (draftSum(account)' - draftSum(account))
    BY <1>3, PendingFollows DEF TInv
  <2>2. SumFunction(Pending) <= totalDrafts
    BY DEF TInv, TotalsMatchParts, Pending
  <2> HIDE DEF amount
  <2> QED BY <1>1, <1>2, <1>3, <2>1, <2>2
<1>5. ErasAhead'
  <2> SUFFICES ASSUME NEW e \in Eras, NEW a \in Accounts, e > draftEra
               PROVE  draftQueues[e][a] = << >> /\ firstRemainingDraft'[e][a] = 0
    BY <1>1 DEF TInv, ErasAhead
  <2>1. e # draftEra
    BY <1>2 DEF Eras
  <2> QED BY <1>3, <2>1 DEF TInv, ErasAhead
<1>6. totalStakes' = SumFunction(stakes[era])'
  BY <1>1 DEF TInv, TotalsMatchParts
<1> QED BY <1>4, <1>5, <1>6 DEF TotalsMatchParts, Pending

\* _transfer() moves stakes between accounts, or within one.
LEMMA TransferTotals ==
    ASSUME TInv, NEW from \in Accounts, NEW to \in Accounts,
           NEW amount \in 1 .. balanceOf(from), Transfer(from, to, amount)
    PROVE  ErasAhead' /\ TotalsMatchParts'
<1> DEFINE before  == stakes[era]
           debited == [before EXCEPT ![from] = @ - amount]
           after   == [debited EXCEPT ![to] = @ + amount]
<1>1. /\ era \in Eras /\ stakes \in [Eras -> [Accounts -> Nat]] /\ before \in [Accounts -> Nat]
  BY DEF TInv, IInv, TypeOK
<1>2. amount \in Int
  BY <1>1 DEF balanceOf
<1>3. /\ stakes' = [stakes EXCEPT ![era] = after]
      /\ UNCHANGED <<era, totalStakes, draftQueues, firstRemainingDraft, draftEra, totalDrafts>>
  BY DEF Transfer, draftVars
<1>4. stakes'[era] = after /\ \A e \in Eras : e # era => stakes'[e] = stakes[e]
  BY <1>1, <1>3
<1>5. SumFunction(after) = SumFunction(before)
  <2> HIDE DEF before
  <2>1. before \in [Accounts -> Int] /\ debited \in [Accounts -> Int]
    BY <1>1, <1>2
  <2>2. /\ debited[from] = before[from] - amount
        /\ \A a \in Accounts : a # from => debited[a] = before[a]
    BY <2>1
  <2> HIDE DEF debited
  <2>3. /\ after \in [Accounts -> Int] /\ after[to] = debited[to] + amount
        /\ \A a \in Accounts : a # to => after[a] = debited[a]
    BY <1>2, <2>1
  <2> HIDE DEF after
  <2>4. /\ SumFunction(before) \in Int
        /\ SumFunction(debited) = SumFunction(before) + (debited[from] - before[from])
    BY <2>1, <2>2, SumChange, AddressAssumption
  <2>5. SumFunction(after) = SumFunction(debited) + (after[to] - debited[to])
    BY <2>1, <2>3, SumChange, AddressAssumption
  <2>6. before[from] \in Int /\ debited[to] \in Int
    BY <2>1
  <2> QED BY <1>2, <2>2, <2>3, <2>4, <2>5, <2>6
<1>6. totalStakes' = SumFunction(stakes[era])'
  BY <1>3, <1>4, <1>5 DEF TInv, TotalsMatchParts
<1>7. SumFunction(Pending') <= totalDrafts'
  BY <1>3 DEF TInv, TotalsMatchParts, Pending, draftSum, queueOf, DraftsUpTo
<1>8. ErasAhead'
  <2> SUFFICES ASSUME NEW e \in Eras, NEW a \in Accounts, e > era
               PROVE  stakes'[e][a] = 0
    BY <1>3 DEF TInv, ErasAhead
  <2>1. e # era
    BY <1>1 DEF Eras
  <2> QED BY <1>4, <2>1 DEF TInv, ErasAhead
<1> QED BY <1>6, <1>7, <1>8 DEF TotalsMatchParts, Pending

\* seizeRSR() keeps the parts and the totals of a pool, or starts an era with neither.
LEMMA SeizeRSRTotals ==
    ASSUME TInv, NEW amt \in 1 .. rsr[THIS], SeizeRSR(amt), IInv'
    PROVE  ErasAhead' /\ TotalsMatchParts'
<1>1. /\ \/ totalStakes' = totalStakes /\ era' = era
         \/ totalStakes' = 0 /\ era' = era + 1
      /\ \/ totalDrafts' = totalDrafts /\ draftEra' = draftEra
         \/ totalDrafts' = 0 /\ draftEra' = draftEra + 1
      /\ UNCHANGED <<stakes, draftQueues, firstRemainingDraft>>
  BY DEF SeizeRSR
<1>2. /\ era \in Nat /\ draftEra \in Nat /\ \A e \in Eras : e \in Nat
      /\ stakes \in [Eras -> [Accounts -> Nat]]
  <2>1. era \in Eras /\ draftEra \in Eras /\ stakes \in [Eras -> [Accounts -> Nat]]
    BY DEF TInv, IInv, TypeOK
  <2>2. \A e \in Eras : e \in Nat
    BY DEF Eras
  <2> QED BY <2>1, <2>2
<1>3. era' \in Eras /\ draftEra' \in Eras
  BY DEF IInv, TypeOK
<1>4. totalStakes' = SumFunction(stakes[era])'
  <2>1. CASE totalStakes' = totalStakes /\ era' = era
    BY <1>1, <2>1 DEF TInv, TotalsMatchParts
  <2>2. CASE totalStakes' = 0 /\ era' = era + 1
    <3>1. /\ stakes[era'] \in [Accounts -> Nat]
          /\ \A a \in Accounts : stakes[era'][a] = 0
      BY <1>2, <1>3, <2>2 DEF TInv, ErasAhead
    <3>2. SumFunction(stakes[era']) = 0
      BY <3>1, SumNat, AddressAssumption
    <3> QED BY <1>1, <2>2, <3>2
  <2> QED BY <1>1, <2>1, <2>2
<1>5. SumFunction(Pending') <= totalDrafts'
  <2>1. CASE totalDrafts' = totalDrafts /\ draftEra' = draftEra
    BY <1>1, <2>1 DEF TInv, TotalsMatchParts, Pending, draftSum, queueOf, DraftsUpTo
  <2>2. CASE totalDrafts' = 0 /\ draftEra' = draftEra + 1
    <3>1. \A a \in Accounts : draftQueues[draftEra'][a] = << >>
                              /\ firstRemainingDraft[draftEra'][a] = 0
      BY <1>2, <1>3, <2>2 DEF TInv, ErasAhead
    <3>2. \A a \in Accounts : draftSum(a)' = 0
      BY <1>1, <3>1 DEF draftSum, queueOf, DraftsUpTo
    <3>3. /\ Pending' \in [Accounts -> Nat]
          /\ \A a \in Accounts : Pending'[a] = 0
      BY <3>2 DEF Pending
    <3>4. SumFunction(Pending') = 0
      <4> DEFINE g == Pending'
      <4>1. g \in [Accounts -> Nat] /\ \A a \in Accounts : g[a] = 0
        BY <3>3
      <4> HIDE DEF g
      <4>2. SumFunction(g) = 0
        BY <4>1, SumNat, AddressAssumption
      <4> QED BY <4>2 DEF g
    <3> QED BY <2>2, <3>4
  <2> QED BY <1>1, <2>1, <2>2
<1>6. ErasAhead'
  BY <1>1, <1>2 DEF TInv, ErasAhead
<1> QED BY <1>4, <1>5, <1>6 DEF TotalsMatchParts, Pending

\* Every step keeps the totals and the parts together.
LEMMA NextTInv == TInv /\ [Next]_vars => TInv'
<1> SUFFICES ASSUME TInv, [Next]_vars PROVE ErasAhead' /\ TotalsMatchParts'
  BY NextIInv DEF TInv
<1>0. IInv'
  BY NextIInv DEF TInv
<1>1. CASE \E a \in Accounts : \E amt \in 1 .. rsr[a] : Stake(a, amt)
  BY <1>0, <1>1, StakeTotals
<1>2. CASE \E a \in Accounts : \E amt \in 1 .. balanceOf(a) : Unstake(a, amt)
  BY <1>0, <1>2, UnstakeTotals
<1>3. CASE \E a \in Accounts : \E id \in 1 .. Len(queueOf(a)) : Withdraw(a, id)
  BY <1>0, <1>3, WithdrawTotals
<1>4. CASE \E a, b \in Accounts : \E amt \in 1 .. balanceOf(a) : Transfer(a, b, amt)
  BY <1>4, TransferTotals
<1>5. CASE \E amt \in 1 .. rsr[THIS] : SeizeRSR(amt)
  BY <1>0, <1>5, SeizeRSRTotals
<1>6. CASE PayoutRewards
  BY <1>6, TotalsKept DEF TInv, PayoutRewards, draftVars
<1>7. CASE \E h \in Holders \ {THIS} : \E amt \in 1 .. rsr[h] : SendRSR(h, amt)
  BY <1>7, TotalsKept DEF TInv, SendRSR, stakeVars, draftVars
<1>8. CASE \/ \E d \in Delays : setUnstakingDelay(d)
           \/ \E p \in Periods : setRewardPeriod(p)
           \/ \E r \in Ratios : setRewardRatio(r)
  BY <1>8, TotalsKept
     DEF TInv, setUnstakingDelay, setRewardPeriod, setRewardRatio, stakeVars, draftVars
<1>9. CASE Tick \/ SetPausedOrFrozen \/ SetRTokenSound \/ UNCHANGED vars
  BY <1>9, TotalsKept
     DEF TInv, Tick, SetPausedOrFrozen, SetRTokenSound, vars, stakeVars, draftVars
<1> QED BY <1>1, <1>2, <1>3, <1>4, <1>5, <1>6, <1>7, <1>8, <1>9 DEF Next

\* A new contract has nothing in its totals and nothing in its parts.
LEMMA InitTInv == Init => TInv
<1> SUFFICES ASSUME Init PROVE ErasAhead /\ TotalsMatchParts
  BY InitIInv DEF TInv
<1>1. era = 1 /\ draftEra = 1 /\ 1 \in Eras
  BY ParamAssumption DEF Init, Eras
<1>2. ErasAhead
  BY DEF Init, ErasAhead
<1>3. SumFunction(stakes[era]) = 0
  <2>1. stakes[era] \in [Accounts -> Nat] /\ \A a \in Accounts : stakes[era][a] = 0
    BY <1>1 DEF Init
  <2> QED BY <2>1, SumNat, AddressAssumption
<1>4. SumFunction(Pending) = 0
  <2>1. \A a \in Accounts : draftSum(a) = 0
    BY <1>1 DEF Init, draftSum, queueOf, DraftsUpTo
  <2>2. Pending \in [Accounts -> Nat] /\ \A a \in Accounts : Pending[a] = 0
    BY <2>1 DEF Pending
  <2> QED BY <2>2, SumNat, AddressAssumption
<1> QED BY <1>2, <1>3, <1>4 DEF Init, TotalsMatchParts, Pending

\* totalStakes is the sum of the balances of its era, and the drafts still owed
\* never exceed totalDrafts: no order of withdrawals can underflow it.
THEOREM TotalsAlwaysMatch == Spec => []TotalsMatchParts
<1>1. Init => TInv
  BY InitTInv
<1>2. TInv /\ [Next]_vars => TInv'
  BY NextTInv
<1>3. TInv => TotalsMatchParts
  BY DEF TInv
<1> QED BY <1>1, <1>2, <1>3, PTL DEF Spec

----------------------------------------------------------------------
\* The end of the withdrawable drafts

\* What endIdForWithdraw() computes in a state with ordered queues is what withdraw()
\* accepts, for queues of every length.
THEOREM EndIdAlwaysMaximal == Spec => []EndIdIsMaximal
<1>1. IInv => EndIdIsMaximal
  <2> SUFFICES ASSUME IInv, NEW a \in Accounts
               PROVE  LET ids == {id \in 1 .. Len(queueOf(a)) : Withdrawable(a, id)}
                      IN  /\ endIdForWithdraw(a) \in ids \cup {firstRemainingDraft[draftEra][a]}
                          /\ \A id \in ids : id <= endIdForWithdraw(a)
    BY DEF EndIdIsMaximal
  <2> DEFINE queue == queueOf(a)
             first == firstRemainingDraft[draftEra][a]
             due   == {i \in 1 .. Len(queue) : queue[i].availableAt <= now}
             end   == endIdForWithdraw(a)
  <2>1. /\ queue \in Seq(Draft) /\ first \in Nat /\ first <= Len(queue) /\ now \in Int
        /\ \A i, j \in 1 .. Len(queue) : i <= j => queue[i].availableAt <= queue[j].availableAt
    BY DEF IInv, TypeOK, QueuesOrdered, queueOf
  <2>2. /\ Len(queue) \in Nat
        /\ \A i \in 1 .. Len(queue) : queue[i].availableAt \in Int
    <3>1. \A i \in 1 .. Len(queue) : queue[i] \in Draft
      BY <2>1
    <3> QED BY <2>1, <3>1 DEF Draft
  <2>3. \A id \in 1 .. Len(queue) : Withdrawable(a, id) <=> id > first /\ id \in due
    BY DEF Withdrawable
  <2>4. \A i, j \in 1 .. Len(queue) : i <= j /\ j \in due => i \in due
    BY <2>1, <2>2
  <2>5. end = IF first >= Len(queue) THEN Len(queue)
              ELSE IF first + 1 \notin due THEN first
              ELSE SearchEnd(due, first, Len(queue))
    BY DEF endIdForWithdraw
  <2> HIDE DEF queue, first, due, end
  <2>6. /\ end = first \/ (end \in 1 .. Len(queue) /\ end > first /\ end \in due)
        /\ \A id \in 1 .. Len(queue) : id > first /\ id \in due => id <= end
    <3>1. CASE first >= Len(queue)
      BY <2>1, <2>2, <2>5, <3>1
    <3>2. CASE first < Len(queue) /\ first + 1 \notin due
      <4>1. end = first /\ first + 1 \in 1 .. Len(queue)
        BY <2>1, <2>2, <2>5, <3>2
      <4>2. ASSUME NEW id \in 1 .. Len(queue), id > first, id \in due PROVE FALSE
        <5>1. first + 1 <= id
          BY <2>1, <4>2
        <5> QED BY <2>4, <3>2, <4>1, <4>2, <5>1
      <4> QED BY <4>1, <4>2
    <3>3. CASE first < Len(queue) /\ first + 1 \in due
      <4>1. end = SearchEnd(due, first, Len(queue))
        BY <2>1, <2>2, <2>5, <3>3
      <4>2. \A i \in (first + 1) .. Len(queue) : i \in 1 .. Len(queue)
        BY <2>1, <2>2
      <4>3. \A i, j \in (first + 1) .. Len(queue) : i <= j /\ j \in due => i \in due
        BY <2>4, <4>2
      <4>4. /\ end \in (first + 1) .. Len(queue)
            /\ \A i \in (first + 1) .. Len(queue) : i \in due <=> i <= end
        BY <2>1, <2>2, <3>3, <4>1, <4>3, SearchFindsEnd
      <4>5. end \in 1 .. Len(queue) /\ end > first /\ end \in due
        BY <2>1, <2>2, <4>2, <4>4
      <4>6. \A id \in 1 .. Len(queue) : id > first => id \in (first + 1) .. Len(queue)
        BY <2>1, <2>2
      <4> QED BY <4>4, <4>5, <4>6
    <3> QED BY <2>1, <2>2, <3>1, <3>2, <3>3
  <2> QED BY <2>3, <2>6 DEF queue, first, end
<1> QED BY <1>1, Invariance, PTL

----------------------------------------------------------------------
\* What a step may do to the rate and to the balance

\* Nothing but a seizure makes a stake worth less: an action property of every
\* step, from the bounds on the rate after a payout.
THEOREM RateRises == Spec => RateRisesOnlyBySeizure
<1> DEFINE Kept == stakeRate' > stakeRate =>
                     rsr'[BackingManager] > rsr[BackingManager] \/ totalStakes = 0
<1>1. IInv /\ [Next]_vars => [Kept]_vars
  <2> SUFFICES ASSUME IInv, Next, stakeRate' > stakeRate, totalStakes # 0
               PROVE  rsr'[BackingManager] > rsr[BackingManager]
    OBVIOUS
  <2>1. stakeRate \in Nat /\ rsr \in [Holders -> Nat] /\ BackingManager \in Holders
    BY RateAssumption DEF IInv, TypeOK, Holders
  <2>2. stakeRate' # stakeRate
    BY <2>1
  <2>3. ~PayoutReverts => AfterPayout.stakeRate \in Nat /\ AfterPayout.stakeRate <= stakeRate
    BY AfterPayoutOK
  <2>4. ASSUME PayoutRewards PROVE FALSE
    BY <2>1, <2>3, <2>4 DEF PayoutRewards
  <2>5. ASSUME NEW a \in Accounts, NEW amt \in 1 .. rsr[a], Stake(a, amt) PROVE FALSE
    <3>1. CASE pausedOrFrozen
      BY <2>2, <2>5, <3>1 DEF Stake, Unpaid
    <3>2. CASE ~pausedOrFrozen
      BY <2>1, <2>3, <2>5, <3>2 DEF Stake
    <3> QED BY <3>1, <3>2
  <2>6. ASSUME NEW a \in Accounts, NEW amt \in 1 .. balanceOf(a), Unstake(a, amt) PROVE FALSE
    BY <2>1, <2>3, <2>6 DEF Unstake
  <2>7. CASE \E amt \in 1 .. rsr[THIS] : SeizeRSR(amt)
    <3>1. PICK amt \in 1 .. rsr[THIS] : SeizeRSR(amt)
      BY <2>7
    <3>2. seizedRSR(amt) \in Nat /\ amt <= seizedRSR(amt)
      BY SeizedRSRBounds
    <3>3. rsr' = [rsr EXCEPT ![THIS] = @ - seizedRSR(amt), ![BackingManager] = @ + seizedRSR(amt)]
      BY <3>1 DEF SeizeRSR
    <3>4. rsr'[BackingManager] = rsr[BackingManager] + seizedRSR(amt)
      BY <2>1, <3>3, AddressAssumption
    <3> QED BY <2>1, <3>2, <3>4
  <2>8. CASE UNCHANGED stakeRate
    BY <2>2, <2>8
  <2> QED BY <2>4, <2>5, <2>6, <2>7, <2>8
          DEF Next, Withdraw, Transfer, SendRSR, setUnstakingDelay, setRewardPeriod,
              setRewardRatio, Tick, SetPausedOrFrozen, SetRTokenSound, stakeVars
<1> QED BY <1>1, Invariance, PTL DEF Spec, RateRisesOnlyBySeizure

\* What rounding leaves in the draft pool beyond what its drafts are worth.  A
\* seizure rounds the rate up, unstake() and withdraw() round against the drafts:
\* the pool is never ahead of them by more than one unit of draftRSR or of rate.
SlackSmall ==
    draftRate * draftRSR < FIX_ONE * totalDrafts + fixMax(draftRSR, draftRate)

SInv == IInv /\ SlackSmall

\* SlackSmall, from either bound.
LEMMA SlackFrom ==
    ASSUME NEW rate \in Nat, NEW pool \in Nat, NEW shares \in Nat,
           rate * pool < FIX_ONE * shares + pool \/ rate * pool < FIX_ONE * shares + rate
    PROVE  rate * pool < FIX_ONE * shares + fixMax(pool, rate)
<1>1. rate * pool \in Nat /\ FIX_ONE * shares \in Nat
  BY RateAssumption, SMT
<1> QED BY <1>1 DEF fixMax

\* unstake() rounds the total of the drafts down.
LEMMA UnstakeSlack ==
    ASSUME SInv, NEW account \in Accounts, NEW stakeAmount \in 1 .. balanceOf(account),
           Unstake(account, stakeAmount), IInv'
    PROVE  SlackSmall'
<1>1. totalDrafts' = SharesFor(draftRate, draftRSR') /\ draftRate' = draftRate
  BY DEF Unstake
<1>2. /\ draftRate \in Nat /\ FIX_ONE <= draftRate /\ FIX_ONE \in Nat \ {0}
      /\ draftRSR' \in Nat /\ totalDrafts' \in Nat
  BY RateAssumption DEF SInv, IInv, TypeOK, DraftsNeverAppreciate
<1>3. draftRate * draftRSR' \in Nat
  BY <1>2, MulNat
<1>4. draftRate * draftRSR' < totalDrafts' * FIX_ONE + FIX_ONE
  BY <1>1, <1>2, <1>3, DivFloor DEF SharesFor
<1>5. totalDrafts' * FIX_ONE = FIX_ONE * totalDrafts' /\ FIX_ONE * totalDrafts' \in Nat
  BY <1>2, MulNat
<1>6. draftRate * draftRSR' < FIX_ONE * totalDrafts' + draftRate
  <2> DEFINE x == draftRate * draftRSR'
             y == FIX_ONE * totalDrafts'
  <2>1. x \in Nat /\ y \in Nat /\ x < y + FIX_ONE
    BY <1>3, <1>4, <1>5
  <2> HIDE DEF x, y
  <2>2. x < y + draftRate
    BY <1>2, <2>1
  <2> QED BY <2>2 DEF x, y
<1> QED BY <1>1, <1>2, <1>6, SlackFrom DEF SlackSmall

\* withdraw() rounds the pool it leaves up to a whole amount.
LEMMA WithdrawSlack ==
    ASSUME SInv, NEW account \in Accounts, NEW endId \in 1 .. Len(queueOf(account)),
           Withdraw(account, endId), IInv'
    PROVE  SlackSmall'
<1>1. /\ \/ UNCHANGED <<totalDrafts, draftRSR>>
         \/ draftRSR' = BackingFor(draftRate, totalDrafts')
      /\ draftRate' = draftRate
  BY DEF Withdraw
<1>2. /\ draftRate \in Nat \ {0} /\ FIX_ONE \in Nat
      /\ draftRSR' \in Nat /\ totalDrafts' \in Nat
  BY RateAssumption DEF SInv, IInv, TypeOK
<1>3. CASE UNCHANGED <<totalDrafts, draftRSR>>
  BY <1>1, <1>3 DEF SInv, SlackSmall
<1>4. CASE draftRSR' = BackingFor(draftRate, totalDrafts')
  <2>1. FIX_ONE * totalDrafts' \in Nat
    BY <1>2, MulNat
  <2>2. draftRSR' * draftRate < FIX_ONE * totalDrafts' + draftRate
    BY <1>2, <1>4, <2>1, DivUpBounds DEF BackingFor
  <2>3. draftRSR' * draftRate = draftRate * draftRSR'
    BY <1>2, MulNat
  <2> QED BY <1>1, <1>2, <2>2, <2>3, SlackFrom DEF SlackSmall
<1> QED BY <1>1, <1>3, <1>4

\* seizeRSR() rounds the rate up, or empties the pool.
LEMMA SeizeSlack ==
    ASSUME SInv, NEW amt \in 1 .. rsr[THIS], SeizeRSR(amt), IInv'
    PROVE  SlackSmall'
<1> DEFINE d == SeizedDrafts(amt)
<1>1. /\ draftRSR' = d.left /\ draftRate' = d.rate
      /\ totalDrafts' = IF d.left = 0 THEN 0 ELSE totalDrafts
  BY DEF SeizeRSR
<1>2. /\ draftRSR' \in Nat /\ draftRate' \in Nat /\ draftRate' > 0 /\ totalDrafts' \in Nat
      /\ FIX_ONE \in Nat
  BY RateAssumption DEF IInv, TypeOK
<1>3. d.left = 0 \/ d.rate = RateFor(totalDrafts, d.left)
  <2> DEFINE left    == draftRSR - ToTake(draftRSR, amt)
             newRate == IF left > 0 THEN RateFor(totalDrafts, left) ELSE draftRate
  <2>1. \/ d.left = 0
        \/ d.left = left /\ d.rate = newRate
    BY DEF SeizedDrafts, Seized
  <2>2. CASE d.left = left /\ d.rate = newRate /\ d.left # 0
    <3>1. left > 0
      BY <1>1, <1>2, <2>2
    <3> QED BY <2>2, <3>1
  <2> QED BY <2>1, <2>2
<1> HIDE DEF d
<1>4. CASE d.left = 0
  <2>1. draftRate' * draftRSR' = 0 /\ FIX_ONE * totalDrafts' = 0
    BY <1>1, <1>2, <1>4, SMT
  <2>2. draftRate' * draftRSR' < FIX_ONE * totalDrafts' + draftRate'
    <3>1. \A r \in Nat : r > 0 => 0 < 0 + r
      OBVIOUS
    <3>2. 0 < 0 + draftRate'
      BY <1>2, <3>1, Zenon
    <3> QED BY <2>1, <3>2
  <2> QED BY <1>2, <2>2, SlackFrom DEF SlackSmall
<1>5. CASE d.left # 0 /\ d.rate = RateFor(totalDrafts, d.left)
  <2>1. draftRSR' \in Nat \ {0} /\ totalDrafts' = totalDrafts
        /\ draftRate' = DivUp(FIX_ONE * totalDrafts', draftRSR')
    BY <1>1, <1>2, <1>5 DEF RateFor
  <2>2. FIX_ONE * totalDrafts' \in Nat
    BY <1>2, MulNat
  <2>3. draftRate' * draftRSR' < FIX_ONE * totalDrafts' + draftRSR'
    BY <2>1, <2>2, DivUpBounds
  <2> QED BY <1>2, <2>3, SlackFrom DEF SlackSmall
<1> QED BY <1>3, <1>4, <1>5

\* Every step keeps the slack small.
LEMMA NextSInv == SInv /\ [Next]_vars => SInv'
<1> SUFFICES ASSUME SInv, [Next]_vars PROVE SlackSmall'
  BY NextIInv DEF SInv
<1>0. IInv'
  BY NextIInv DEF SInv
<1>1. CASE \E a \in Accounts : \E amt \in 1 .. balanceOf(a) : Unstake(a, amt)
  BY <1>0, <1>1, UnstakeSlack
<1>2. CASE \E a \in Accounts : \E id \in 1 .. Len(queueOf(a)) : Withdraw(a, id)
  BY <1>0, <1>2, WithdrawSlack
<1>3. CASE \E amt \in 1 .. rsr[THIS] : SeizeRSR(amt)
  BY <1>0, <1>3, SeizeSlack
<1>4. CASE UNCHANGED <<draftRate, draftRSR, totalDrafts>>
  BY <1>4 DEF SInv, SlackSmall
<1> QED BY <1>1, <1>2, <1>3, <1>4
        DEF Next, PayoutRewards, Stake, Transfer, SendRSR, setUnstakingDelay, setRewardPeriod,
            setRewardRatio, Tick, SetPausedOrFrozen, SetRTokenSound, draftVars, vars

\* The RSR a withdrawal pays is worth its drafts and the slack of the pool.
LEMMA WithdrawPays ==
    ASSUME SInv, NEW account \in Accounts, NEW endId \in 1 .. Len(queueOf(account)),
           Withdraw(account, endId), rsr'[THIS] < rsr[THIS]
    PROVE  /\ rsr'[account] - rsr[account] = rsr[THIS] - rsr'[THIS]
           /\ draftRate * (rsr[THIS] - rsr'[THIS])
                < FIX_ONE * (draftSum(account) - draftSum(account)') + fixMax(draftRSR, draftRate)
<1> DEFINE amount         == draftAmount(account, endId)
           newTotalDrafts == totalDrafts - amount
           newDraftRSR    == BackingFor(draftRate, newTotalDrafts)
           out            == draftRSR - newDraftRSR
<1>1. /\ amount <= totalDrafts
      /\ rsr' = [rsr EXCEPT ![THIS] = @ - out, ![account] = @ + out]
  BY DEF Withdraw
<1>2. /\ draftRSR \in Nat /\ totalDrafts \in Nat /\ draftRate \in Nat \ {0} /\ FIX_ONE \in Nat
      /\ rsr \in [Holders -> Nat] /\ account \in Holders /\ THIS \in Holders /\ account # THIS
  BY RateAssumption, AddressAssumption DEF SInv, IInv, TypeOK, Holders
<1>3. /\ amount \in Nat /\ draftSum(account) \in Int
      /\ draftSum(account)' = draftSum(account) - amount
  BY WithdrawSettles DEF SInv
<1>4. newTotalDrafts \in Nat
  BY <1>1, <1>2, <1>3
<1> HIDE DEF amount
<1>5. newDraftRSR \in Nat /\ newTotalDrafts * FIX_ONE <= newDraftRSR * draftRate
  <2> HIDE DEF newTotalDrafts
  <2> QED BY <1>2, <1>4, BackingForCovers DEF Covered
<1>6. /\ out \in Int /\ rsr[THIS] - rsr'[THIS] = out /\ rsr'[account] - rsr[account] = out
  <2> HIDE DEF newDraftRSR
  <2>1. out \in Int
    BY <1>2, <1>5
  <2> HIDE DEF out
  <2>2. /\ rsr'[THIS] = rsr[THIS] - out /\ rsr'[account] = rsr[account] + out
        /\ rsr[THIS] \in Int /\ rsr[account] \in Int
    BY <1>1, <1>2
  <2> QED BY <2>1, <2>2
<1>7. draftRate * out < FIX_ONE * amount + fixMax(draftRSR, draftRate)
  <2>1. draftRate * draftRSR < FIX_ONE * totalDrafts + fixMax(draftRSR, draftRate)
    BY DEF SInv, SlackSmall
  <2>2. draftRate * out = draftRate * draftRSR - newDraftRSR * draftRate
    <3> HIDE DEF newDraftRSR
    <3> QED BY <1>2, <1>5, SMT
  <2>3. newTotalDrafts * FIX_ONE = FIX_ONE * totalDrafts - FIX_ONE * amount
    BY <1>2, <1>3, SMT
  <2>4. /\ draftRate * draftRSR \in Int /\ newDraftRSR * draftRate \in Int
        /\ FIX_ONE * totalDrafts \in Int /\ FIX_ONE * amount \in Int
        /\ fixMax(draftRSR, draftRate) \in Int
    <3> HIDE DEF newDraftRSR
    <3>1. fixMax(draftRSR, draftRate) \in Int
      BY <1>2 DEF fixMax
    <3> QED BY <1>2, <1>3, <1>5, <3>1, SMT
  <2> HIDE DEF newDraftRSR, newTotalDrafts, out
  <2> QED BY <1>5, <2>1, <2>2, <2>3, <2>4
<1>8. draftSum(account) - draftSum(account)' = amount
  BY <1>3
<1> QED BY <1>6, <1>7, <1>8

\* RSR leaves the contract for the backing manager, or for the owner of drafts that
\* are settled for what they are worth, up to the rounding of one unit.
THEOREM OutflowsPaid == Spec => OutflowWithinDrafts
<1>1. Init => SInv
  <2> SUFFICES ASSUME Init PROVE SlackSmall
    BY InitIInv DEF SInv
  <2>1. draftRSR \in Nat /\ draftRate \in Nat /\ totalDrafts \in Nat /\ FIX_ONE \in Nat \ {0}
    BY RateAssumption DEF Init
  <2>2. draftRate * draftRSR = 0 /\ FIX_ONE * totalDrafts = 0 /\ draftRate = FIX_ONE
    BY <2>1, SMT DEF Init
  <2> QED BY <2>1, <2>2, SlackFrom DEF SlackSmall
<1>2. SInv /\ [Next]_vars => SInv'
  BY NextSInv
<1> DEFINE out  == rsr[THIS] - rsr'[THIS]
           Paid_ == rsr'[THIS] < rsr[THIS] =>
                      \/ rsr'[BackingManager] - rsr[BackingManager] = out
                      \/ \E a \in Accounts :
                            /\ rsr'[a] - rsr[a] = out
                            /\ draftRate * out < FIX_ONE * (draftSum(a) - draftSum(a)')
                                                   + fixMax(draftRSR, draftRate)
<1>3. SInv /\ [Next]_vars => [Paid_]_vars
  <2> SUFFICES ASSUME SInv, Next, rsr'[THIS] < rsr[THIS]
               PROVE  \/ rsr'[BackingManager] - rsr[BackingManager] = out
                      \/ \E a \in Accounts :
                            /\ rsr'[a] - rsr[a] = out
                            /\ draftRate * out < FIX_ONE * (draftSum(a) - draftSum(a)')
                                                   + fixMax(draftRSR, draftRate)
    OBVIOUS
  <2>1. /\ rsr \in [Holders -> Nat] /\ THIS \in Holders /\ BackingManager \in Holders
        /\ Accounts \subseteq Holders /\ THIS # BackingManager /\ THIS \notin Accounts
    BY AddressAssumption DEF SInv, IInv, TypeOK, Holders
  <2>2. rsr[THIS] \in Nat
    BY <2>1
  <2>3. CASE \E a \in Accounts : \E id \in 1 .. Len(queueOf(a)) : Withdraw(a, id)
    BY <2>3, WithdrawPays
  <2>4. CASE \E amt \in 1 .. rsr[THIS] : SeizeRSR(amt)
    <3>1. PICK amt \in 1 .. rsr[THIS] : SeizeRSR(amt)
      BY <2>4
    <3>2. seizedRSR(amt) \in Nat
      BY SeizedRSRBounds DEF SInv
    <3>3. rsr' = [rsr EXCEPT ![THIS] = @ - seizedRSR(amt), ![BackingManager] = @ + seizedRSR(amt)]
      BY <3>1 DEF SeizeRSR
    <3>4. /\ rsr'[BackingManager] = rsr[BackingManager] + seizedRSR(amt)
          /\ rsr'[THIS] = rsr[THIS] - seizedRSR(amt)
          /\ rsr[BackingManager] \in Nat
      BY <2>1, <3>3
    <3> QED BY <2>2, <3>2, <3>4
  <2>5. ASSUME NEW a \in Accounts, NEW amt \in 1 .. rsr[a], Stake(a, amt) PROVE FALSE
    <3>1. rsr' = [rsr EXCEPT ![a] = @ - amt, ![THIS] = @ + amt] /\ amt > 0
      BY <2>5 DEF Stake
    <3>2. rsr'[THIS] = rsr[THIS] + amt /\ amt \in Nat
      BY <2>1, <3>1
    <3> QED BY <2>2, <3>2
  <2>6. ASSUME NEW h \in Holders \ {THIS}, NEW amt \in 1 .. rsr[h], SendRSR(h, amt) PROVE FALSE
    <3>1. rsr' = [rsr EXCEPT ![h] = @ - amt, ![THIS] = @ + amt]
      BY <2>6 DEF SendRSR
    <3>2. rsr'[THIS] = rsr[THIS] + amt /\ amt \in Nat
      BY <2>1, <3>1
    <3> QED BY <2>2, <3>2
  <2>7. CASE UNCHANGED rsr
    BY <2>2, <2>7
  <2> QED BY <2>3, <2>4, <2>5, <2>6, <2>7
          DEF Next, PayoutRewards, Unstake, Transfer, setUnstakingDelay, setRewardPeriod,
              setRewardRatio, Tick, SetPausedOrFrozen, SetRTokenSound
<1> QED BY <1>1, <1>2, <1>3, PTL DEF Spec, OutflowWithinDrafts

----------------------------------------------------------------------
\* The checked subtractions of unstake() and withdraw()

\* No balance exceeds totalStakes and no withdrawal exceeds totalDrafts.
NothingUnderflows ==
    \A a \in Accounts :
        /\ balanceOf(a) <= totalStakes
        /\ \A id \in 1 .. Len(queueOf(a)) :
              Withdrawable(a, id) => draftAmount(a, id) <= totalDrafts

\* The subtractions from totalStakes in unstake() and from totalDrafts in withdraw()
\* never revert: no order of the calls can lock a staker in.
THEOREM TotalsNeverUnderflow == Spec => []NothingUnderflows
<1>1. TInv => NothingUnderflows
  <2> SUFFICES ASSUME TInv, NEW a \in Accounts
               PROVE  /\ balanceOf(a) <= totalStakes
                      /\ \A id \in 1 .. Len(queueOf(a)) :
                            Withdrawable(a, id) => draftAmount(a, id) <= totalDrafts
    BY DEF NothingUnderflows
  <2>1. stakes[era] \in [Accounts -> Nat] /\ totalDrafts \in Nat
    BY DEF TInv, IInv, TypeOK
  <2>2. balanceOf(a) <= totalStakes
    BY <2>1, SumNat, AddressAssumption DEF balanceOf, TInv, TotalsMatchParts
  <2>3. Pending \in [Accounts -> Nat] /\ SumFunction(Pending) <= totalDrafts
    BY PendingNat DEF TInv, TotalsMatchParts, Pending
  <2>4. /\ SumFunction(Pending) \in Nat /\ Pending[a] <= SumFunction(Pending)
        /\ Pending[a] \in Nat /\ Pending[a] = draftSum(a)
    BY <2>3, SumNat, AddressAssumption DEF Pending
  <2>5. draftSum(a) <= totalDrafts /\ draftSum(a) \in Nat
    BY <2>1, <2>3, <2>4
  <2>6. ASSUME NEW id \in 1 .. Len(queueOf(a)), Withdrawable(a, id)
        PROVE  draftAmount(a, id) <= totalDrafts
    <3> DEFINE queue == queueOf(a)
               first == firstRemainingDraft[draftEra][a]
    <3>1. /\ queue \in Seq(Draft) /\ first \in Nat /\ first <= Len(queue)
          /\ \A i, j \in 1 .. Len(queue) : i <= j => queue[i].drafts <= queue[j].drafts
      BY DEF TInv, IInv, TypeOK, QueuesOrdered, queueOf
    <3>2. id \in Nat /\ id <= Len(queue)
      OBVIOUS
    <3>3. /\ DraftsUpTo(queue, Len(queue)) \in Nat /\ DraftsUpTo(queue, first) \in Nat
          /\ DraftsUpTo(queue, id) \in Nat
          /\ DraftsUpTo(queue, id) <= DraftsUpTo(queue, Len(queue))
      BY <3>1, <3>2, RestNat
    <3>4. /\ draftSum(a) = DraftsUpTo(queue, Len(queue)) - DraftsUpTo(queue, first)
          /\ draftAmount(a, id) = DraftsUpTo(queue, id) - DraftsUpTo(queue, first)
      BY DEF draftSum, draftAmount
    <3> HIDE DEF queue, first
    <3> QED BY <2>1, <2>5, <3>3, <3>4
  <2> QED BY <2>2, <2>6
<1>2. Init => TInv
  BY InitTInv
<1>3. TInv /\ [Next]_vars => TInv'
  BY NextTInv
<1> QED BY <1>1, <1>2, <1>3, PTL DEF Spec
======================================================================
