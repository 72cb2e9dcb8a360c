# A TLA+ development for the Reserve Protocol with the icETH plugin

This directory holds TLA+ models of the contracts under `src/contracts` and of the
scripts that deploy them, TLC configurations that check them on small instances,
and proofs for TLAPS. The models of the contracts follow the production system,
`contracts/p1`. Paths below are relative to `src/`.

## 1. The system

The protocol issues an *RToken* backed by a basket of collateral tokens and
insured by staked RSR. `Main` knows every component and owns pausing, freezing
and roles.

| Component | State | Operations | Interacts with |
|---|---|---|---|
| `p1/StRSR.sol` | stakes per era, draft queues per era, the two pools and rates, the reward cache, delay, period, ratio | stake, unstake, withdraw, payoutRewards, seizeRSR, transfer, setters | BackingManager seizes; BasketHandler's status guards withdraw; RSR |
| `p1/StRSRVotes.sol` | vote checkpoints per account and era, delegates | delegate, moves of voting power on stake, unstake, transfer, new era | StRSR, Governance |
| `p1/RToken.sol` | supply, basketsNeeded, one issuance queue per account, liabilities per token, the issuance schedule, the battery | issue, vest, cancel, redeem, mint, melt, setBasketsNeeded, sweepRewards, setters | BasketHandler (quote, nonce, status), AssetRegistry.refresh, Furnace.melt, BackingManager (mint, setBasketsNeeded) |
| `libraries/RedemptionBattery.sol` | last block, last charge, floor, rate | discharge, currentCharge | RToken |
| `p1/BackingManager.sol` | open trades, buffer, delay | manageTokens, settleTrade, grants | all of the below |
| `p1/BasketHandler.sol` | reference basket, backups, disabled, nonce | refreshBasket, disableBasket, setters, quote | AssetRegistry, collateral |
| `p1/AssetRegistry.sol` | token to asset | register, swap, unregister, refresh | BasketHandler.disableBasket |
| `p1/mixins/Trading.sol`, `p1/RevenueTrader.sol`, `p1/Broker.sol`, `plugins/trading/GnosisTrade.sol` | trades by token, number open; broker disabled; one state machine per trade | tryTrade, openTrade, init, settle, settleTrade | an external auction house |
| `p1/mixins/RecollateralizationLib.sol`, `TradeLib.sol` | none | the basket range, the next trade | prices |
| `p1/Furnace.sol` | period, ratio, last payout and balance | melt, setters | RToken.melt |
| `p1/Distributor.sol` | shares per destination | distribute, setDistribution | RToken, RSR |
| `plugins/assets/*.sol` | status with a default deadline, previous reference price, hidden revenue | refresh | oracles, underlying protocols |
| `mixins/Auth.sol` | roles, charges, unfreezeAt, paused | grant, revoke, renounce, freeze*, unfreeze, pause | every guard of every component |
| `libraries/Fixed.sol` | none | fixed-point arithmetic with a rounding mode | everything |
| `scripts/*`, `tasks/deployment/*`, `common/configuration.ts` | the deployment files, what a running script holds in memory | deploy, confirm, verify; each a list of scripts that deploy, check, link and record contracts | the chain, the file system, hardhat, the block explorer, an operator |
| `facade/*`, `p0/*`, `plugins/governance/*`, `p1/Deployer.sol`, `p1/Main.sol` | views and deployment; the simple reference system; the governor; wiring | | |

A transaction is atomic and a revert undoes all of it, so an action of a model
is a whole external call, and its guard includes the checked subtractions and
failed transfers that revert. What is hard here is therefore not threads but
sequences: any caller may put any call between two others, in the same block or
later, with any amount; every division rounds; governance moves parameters while
queues and batteries hold values computed with the old ones; a seizure or a
basket switch pulls the ground from under queued claims; a trade takes part of the
backing away and brings back what an auction house pays. The scripts are hard in
another way: what they do on the chain stays, what they remember is lost when they die,
and the files are somewhere in between. `PROJECT.json` lists
each such hazard at its line, with the properties that would catch it.

What makes each part correct:

- **StRSR**: a pool's RSR covers its shares, the balance covers both pools, only
  a seizure costs a staker anything, drafts are paid once, in full, on time,
  and a seizure yields what was asked.
- **RToken**: issuers' deposits are held and counted exactly, nothing vests
  early, issuance shares one schedule, redemption and revenue never dilute those
  who stay, only a basket switch or a default may leave it short, and redemption
  is throttled.
- **Auth**: freezing power is finite without an owner.
- **Trading**: no trade is lost from the tables, the backing is judged only when all of
  it is there, a trade below the worst price stops all traders, revenue is split by
  the shares to the unit, and every trade is settled.
- **Deployment**: what the files name is on the chain and is what the entry says, links
  point to what is on file, nothing recorded is lost, and an interrupted deployment and
  verification can be completed.
- **Collateral**: default is final and is reached on time, no fall of a rate goes
  unnoticed, and nothing but a fall or a lasting doubt causes one.
- **BasketHandler, AssetRegistry**: a switch puts a whole basket in place, a basket
  keeps its price under one nonce, and a basket that defaulted can be replaced.

## 2. Modules

| Module | Models | Used by |
|---|---|---|
| `Fixed` | the divisions, min, max and powu of `Fixed.sol`, the scale as a parameter | all |
| `QueueSearch` | the binary search of `endIdForWithdraw()` and `endIdForVest()` | `StRSR`, `RToken` |
| `StRSR` | `p1/StRSR.sol` whole, but allowances, permit and names | `MCStRSR`, `StRSR_proofs` |
| `RedemptionBattery` | the library, as pure operators on a battery record | `RToken`, `RedemptionThrottle` |
| `RedemptionThrottle` | *abstract specification*: a supply that moves freely, redemptions through the battery, and a monitor that starts at any moment and adds up what is redeemed | refined by `RToken` |
| `RToken` | `p1/RToken.sol` with `RewardableLib.sweepRewards`, `BackingManager.handoutExcessAssets` and `compromiseBasketsNeeded`, `FacadeRead.endIdForVest` | `MCRToken`, `RToken_proofs` |
| `Auth` | `mixins/Auth.sol` | `MCAuth`, `Auth_proofs` |
| `Collateral` | what `refresh()` of every class in `plugins/assets` does, as operators on a plugin's state | `CollateralPlugin`, `BasketHandler` |
| `CollateralPromise` | *abstract specification*: what `AbstractCollateral` promises to those who call `refresh()` | refined by `CollateralPlugin` |
| `CollateralPlugin` | the life of one plugin | `MCCollateralPlugin`, `Collateral_proofs` |
| `BasketHandler` | `p1/BasketHandler.sol` with `p1/AssetRegistry.sol` and the plugins they look at | `MCBasketHandler`, `Collateral_proofs` |
| `Trading` | `p1/mixins/Trading.sol`, `p1/RevenueTrader.sol`, `p1/Broker.sol`, `plugins/trading/GnosisTrade.sol`, `p1/Distributor.sol` and `manageTokens` of `p1/BackingManager.sol` | `MCTrading`, `Trading_proofs` |
| `DeployTasks` | `tasks/deployment/assets` and `tasks/deployment/collateral`: what each task asks for, passes on and links | `DeployScripts` |
| `DeployScripts` | every script under `scripts/`, as data, and `common/configuration.ts` | `MCDeployment` |
| `ScriptRunner` | how hardhat carries scripts out, crashes, and the operator; the scripts are a constant | `Deployment` |
| `Deployment` | what the deployment promises | `MCDeployment`, `Deployment_proofs` |
| `MC*` | instances for TLC | the `.cfg` files |
| `DataLemmas` | facts about the operators the components share, for all inputs | the proofs |
| `*_proofs` | theorems | |

Definitions keep the names of the source. A definition with a suffix such as
`SharesFor_Up`, marked *mutant*, is a plausible mistake in the code; it
is used by nothing but the mutation of its neighbour, and shows that the property
named in `PROJECT.json` would notice.

### StRSR

`stakes[era][account]`, `draftQueues[draftEra][account]` and
`firstRemainingDraft` keep their old eras, as the storage does. Each operation is
an action: `Stake`, `Unstake`, `Withdraw`, `PayoutRewards`, `SeizeRSR`,
`Transfer`, the setters. `_payoutRewards()` runs inside `Stake`, `Unstake` and
`PayoutRewards` and is the record `AfterPayout` of the pool after it; its closing
`rsrRewards()` may underflow (`PayoutReverts`). `Withdraw` keeps the early return
on a zero amount. `SeizeRSR` keeps the division in its closing event. The
environment sends RSR, lets time pass, pauses, and moves the collateralisation of
the RToken (`rtokenSound`).

### RToken

Queue items are cumulative, as in the code. `queue.right` is `Len(items)`: the
code overwrites the slots from `right` on before reading them, so they are not
state. `issueQueues[a].tokens` is the basket of `basketNonce`. `Issue` is the whole
call: the refund of stale issuances, the furnace's melt, the schedule, and either
immediate minting or an entry in the queue. What the furnace melts is any amount
that the exchange-rate check admits; its schedule belongs to a module of its own.
Holders' balances are not recorded, because holders trade freely: whatever split
a property needs is reachable. `HandoutExcessAssets` is the last branch of
`manageTokens()`, in one step with its mint, its `setBasketsNeeded` and its
transfers to the traders. The environment switches baskets (a new `nonce` and
`quantity`), changes the status, lets collateral appreciate, lets trades settle,
and donates tokens.

### RedemptionThrottle

The battery alone bounds each redemption. What users care about is a window: the
monitor (`Watch`) may start at any block, sums what is redeemed afterwards and
remembers the highest hourly rate in force, so `Throttled` speaks of every window.
With the floor and the scaling rate both at zero the code has no throttle (`Unthrottled`): then every
redemption passes and leaves the battery as it is, and no window is open. One that governance switches
off ends the window (`Rewatch`), and the next may start as soon as it is on again, with what charge the
battery had before. A floor of zero with a positive rate, or the reverse, is throttled like both. The
monitor is off in the refinement, which shows that the RToken does nothing to
the battery, the block and the supply that the abstract specification does not.

### Auth

Only the distance between `unfreezeAt` and the clock matters, so the state is
`thawsIn` and time needs no bound.

### Collateral, CollateralPlugin, CollateralPromise

The nine classes differ in what they read and in what counts as a fall; `PegHolds`, `Fell`,
`NextRate` and `refPerTok` have a case for each, and `refresh` is the same for all, as the
code repeats it in each class. A feed reads 0 when `OracleLib.price` reverts on it. A
revert without error data, and of the lending protocol, undoes the transaction and is no step.
A deadline is the time left until it. `CollateralPlugin` refreshes one plugin with any
readings at any time, and records the true rate at the last refresh that could measure
it, and the peak of these, for the properties alone. `CollateralPromise` is what
others take from a plugin: a status, a rate, and how long it has been in doubt.
The names of `CollateralPlugin` carry a prefix where `BasketHandler` has the same ones, because
`Collateral_proofs` extends both.

### BasketHandler

The registry and the basket are one module, because they call each other: `swapRegistered` and
`unregister` ask for `quantity()` before the change and disable the basket after it.
A call that refreshes first (`RefreshBasket`) refreshes every registered plugin, each
with some reading, and everything it then asks is asked of the refreshed states; the operators
take them as an argument. `_switchBasket` fills a scratch basket in loops over prime and
backup tokens; `newBasket` is the basket they arrive at, as a sum for each token. `BackupsFor` is
the set of the backups it picks: the first good ones of the list, up to `max`.
A basket token that is no longer registered makes `status()` revert (`StatusReverts`).
The plugins' `targetPerRef()` is the constant that every plugin outside of the mocks returns.

### Trading

`trades[trader][sell]` is a position in `clones`, the sequence of the GnosisTrade contracts the
broker has cloned; closed ones stay, as they can still receive tokens. `tryTrade` is the
whole of `tryTrade()`, `openTrade()` and `init()`: the resizing, the transfer of what is
sold, the fee of the auction house. `settleTrade` is the whole of `settleTrade()` and
`settle()`: it deletes the trade, clears the auction unless a third party has done so
(`settleAuction`), sends both balances to the origin and reports a violation to the
broker. `manageTokens` has the branches of `_manageTokens()`: the hand-out
(`handoutExcessAssets`), the trade towards full collateral with RSR seized for it
(`recollateralize`) and the haircut (`compromiseBasketsNeeded`). `manageToken` of a revenue
trader distributes the token it is to buy and sells any other.

Left open are prices: how much is sold and the least asked for it are any of a few amounts
(`Sizes`, `MinBuys`), whatever `RecollateralizationLib` and `TradeLib` would compute, and the
revenue RToken minted at a hand-out is any amount up to the excess (`RToken` has the
exact one). Amounts are in the smallest units of their tokens, whose `quantum` is what `shiftl_toFix()`
makes of one; the worst and the clearing price are rounded down to `FIX_ONE` (1e18) parts, as `div()` does,
before they are compared. The worst price is not stored in a clone but computed again (`worstCasePrice`), from
fields that never change. So a trade that is below its worst price by less than a unit of the 18th decimal may
go unnoticed, in the model as in the code, and `Poor` asks for a unit: it compares the exact ratios,
across the denominators. A seizure yields just what is asked (`StRSR` has its rounding). The basket is one token and
its buffer zero. `heeded` records, for a property alone, whether a poor trade was answered by governance.

### DeployTasks, DeployScripts, ScriptRunner, Deployment

Each file under `scripts/deployment`, `scripts/confirmation` and `scripts/verification` is a
sequence of steps: look for a value in the network's configuration, look for a file, read one, check that an entry has
code, deploy a contract, assign an entry, write a file, verify a contract. The order of the
steps is that of the statements, also where it looks odd (the fiat plugins write the file
*before* they assign the address, and TUSD does not write it). A plugin's deployment is a
run of its task with the parameters the script passes; it throws when one that the task
requires is missing. Prices, amounts and other plain numbers are left out of the constructors.

`ScriptRunner` runs them. `chain` and `files` survive; `mem`, which holds the objects a
script has read and its variables, is lost when its process ends. An address is a position in
`chain`, 0 the empty string of the files. `Crash` stops a process between any two steps, and
may cut a file short that is being written, because `fs.writeFileSync` truncates it first; a failing call to the node is a crash, too.
`Throw` is a step whose condition fails, on which `sh()` rejects and the command stops.
The operator is the rest: after a crash he comments out the scripts that are done and starts the command again
(`Resume`), he may start any command from any of its scripts (`Start`), removes a file that cannot be
read (`Clear`), and repeats the verification (`Rerun`). A
development network may be a fork, with the external contracts, or not. Phase 3 is
commented out in `deploy.ts`; it is a command of its own here, started by hand. Its second script,
`deployGovernance`, is simplified: the comparison of the file with the addresses that Main reports
(`2_deploy_governance.ts:54`) is left out, and the one transaction that creates the timelock and the governor is
a step for each. No run gets that far, as the first script always reverts (section 6).

## 3. Runs

All bounds are constants of the models; guards marked *bound* use them.

| Run | Instance | Shows |
|---|---|---|
| `StRSR_pools` | 2 stakers with 2 RSR each, 1 RSR of rewards, rates with scale 2 and an era ending above 4, 2 eras, time 2, 2 drafts | pools covered, solvent, totals right, no dilution but by seizure, seizures sufficient |
| `StRSR_queue` | 1 staker, up to 3 drafts, 2 eras, all three parameters move | queues ordered, nothing paid twice, the binary search right, due drafts are paid |
| `StRSR_PayoutWithinRewards` | as `StRSR_pools` | the first finding of section 6 |
| `Auth` | 2 accounts, 2 charges, short freeze 1, long freeze 1 or 2 | no right appears without an owner, freezes end |
| `RedemptionThrottle` | supply to 6, 6 blocks, an hour of 3, floors 0 to 2, rates 0, 1/4, 3/4 | no window beats the throttle |
| `RToken_queues` | 2 issuers, up to 3 issuances each, 1 token, 2 baskets | deposits held, queues, schedule, backed claims, the binary search |
| `RToken_backing` | 1 issuer, 2 tokens, 2 baskets, a buffer of one half, amounts not multiples of the scale, redemption floors 0 and 1, a scaling rate of 1/2 and one above the maximum, which is refused | backing kept, no dilution, refinement of the throttle, every issuance settles |
| `CollateralPlugin` | every class, feeds silent, on and off the peg, rates 1 to 7, half of a rate hidden, a fallback above most readings, a delay of 3, a scale of 4 | falls noticed, `CollateralPromise` implemented, IFFY ends |
| `IcETH_HardDefaultHasCause` | the icETH plugin only | the second finding of section 6 |
| `BasketHandler` | 3 tokens, 4 plugins (two for the same token, of different targets), a prime basket of weights 1 and 2 or 3, two backups, a feed that falls silent and a rate that falls | switches meet the configuration, quantities stable under a nonce, recovery by the public |
| `Trading` | 4 tokens, the three traders, 3 destinations, 2 trades, auctions of at most 3 with a fee of a half, proceeds 0 to 2, asked 0 or 4, prices of scale 2 with one token of fewer decimals, one stray token | trades counted, backing judged whole, poor trades stop trading, revenue split fairly, every trade settles |
| `Deployment` | all scripts as they are, the networks mainnet, localhost and ropsten, one fault, one command started by hand anywhere | files and links right, finished work coherent, nothing forgotten, interrupted work and verification complete |

The types of `StRSR`, `Auth`, `RToken`, `RedemptionThrottle`, `CollateralPlugin`, `BasketHandler` and
`Trading` are proved (section 4) and no longer run; so is `NeverOverdrawn`.

Why these bounds: a rounding error shows at scale 2 already, since a half is
rounded at every division, and errors then compare with whole units. Two accounts
suffice for dilution and for transfers, two eras for stale queues, two baskets
for stale issuances, a second nonce (`MaxNonce` 2) for swaps under a standing basket, weights that do not divide
by the number of backups, three or four entries for both ends of a queue, a partial
withdrawal and a search with a middle. Every property has a mutant of the code that these
instances catch. Accounts are interchangeable in the safety runs, so these use symmetry; the
liveness runs do not. Two trades suffice for one trader to settle while another waits, and for one
after a violation; with prices of scale 2 and a sold token whose unit is worth two of the others', some trades are below the worst price exactly and equal to it rounded, some below it by less than a unit and noticed, some by more; a largest auction of 3 with a fee gives a resized trade and an auction of less
than is sold. One crash is enough for every place where it can happen, since scripts
share nothing but files and chain; one command started by hand anywhere, after it or in its place,
gives every pair of an earlier and a later attempt. Goerli's configuration differs from mainnet's by icETH
and stETH only, which no script that succeeds uses, so it is left out; ropsten lacks what phase 1 asks for.

**Fairness.** Nothing in a contract runs by itself. `Tick` and `NextBlock` are weakly fair: the
chain goes on. `OwnerWithdraws` is the owner of a due draft calling `withdraw()` with the id
that `endIdForWithdraw()` returns; `VestsDue` is anybody calling `vest()` with the
id that `endIdForVest()` returns, which bots do. Both are weakly fair, and a pause or an
unsound basket may disable them, so the liveness properties assume that these
do not last for ever or recur for ever (`<>[]`). `Elapse` is time again, the only thing that ends `IFFY`. `RefreshBasket` is the public's
call, weakly fair because everybody who issues or redeems needs it; `BasketRecovers` assumes that
the system stays open and that there is a basket to choose, for ever from some point on. No operation that costs a caller
money is assumed fair, and `Auth` assumes nothing but time. In `Trading`, time and
`settleTrade()`, anybody's call, are weakly fair; a pause disables the latter, so
`EveryTradeSettles` assumes that the system is unpaused from some point on. In `ScriptRunner` a process that runs keeps
running, as node does, and the operator resumes a crashed command (`docs/deployment.md:58`) and repeats a
verification that is not complete (`scripts/verify_etherscan.ts:35`);
nobody is assumed to start anything else, and `InterruptedWorkCompletes` speaks of runs in which
the operator does nothing else.

## 4. Proofs

Proved by TLAPS for all constants that satisfy the named assumptions:

| Module | Theorem | Argument |
|---|---|---|
| `StRSR_proofs` | `TypeCorrect`, `PoolsAlwaysCovered`, `AlwaysSolvent`, `DraftsEarnNothing`, `QueuesAlwaysOrdered`, `SeizureAlwaysSufficient` | one inductive invariant `IInv`: `TypeOK /\ PoolsCovered /\ DraftsNeverAppreciate /\ Solvent /\ QueuesOrdered` |
| | `TotalsAlwaysMatch`, `TotalsNeverUnderflow` | with `ErasAhead`: an era to come is blank |
| | `EndIdAlwaysMaximal` | `IInv` orders the queue, `SearchFindsEnd` and `SearchFindsLast` do the rest |
| | `RateRises` | a property of every step from `IInv` |
| | `OutflowsPaid` | with `SlackSmall`: how far roundings put the draft pool ahead of its drafts |
| `Auth_proofs` | `TypeCorrect`, `FreezersAlwaysHaveCharges`, `NoPowerEverWithoutOwner` | `TypeOK /\ FreezersHaveCharges` is inductive; the third is a property of every step from it |
| `RToken_proofs` | `TypeCorrect`, `LiabilitiesAlwaysCovered`, `QueuesAlwaysOrdered`, `ScheduleAlwaysSingle`, `PendingAlwaysBacked`, `BackingAlwaysKept`, `NeverDilutedByRedemption`, `NeverDilutedByRevenue`, `NeverVestedEarly`, `RedemptionsAlwaysThrottled` | `TypeOK /\ LiabilitiesCovered /\ QueuesOK /\ NoncesOK /\ OneSchedule` is inductive, and every step from it is `StepSafe`; the last is the refinement of `RedemptionThrottle` |
| | `DepositsAlwaysHeld` | with `LiabilitiesMatch`, the sum over all issuers |
| | `EndIdForVestAlwaysMaximal` | as for StRSR |
| `RedemptionThrottle_proofs` | `TypeCorrect`, `AlwaysThrottled` | `Accounted`: redeemed plus the present charge is within the window's allowance |
| `Collateral_proofs` | `PluginTypeCorrect`, `FallsAlwaysNoticed`, `PromiseAlwaysKept` | `Remembered`: what the plugin stores is the latest true rate (lending) or at least the peak (hidden revenue) |
| | `BasketTypeCorrect`, `SwitchAlwaysMeetsConfig` | types with positive weights; then sums over targets and backups |
| | `QuantityAlwaysStable` | with `Fits`: no weight exceeds the configured ones together, and these have a width |
| `Trading_proofs` | `TradesCountedHolds`, `WholeBackingJudgedHolds` | `Shape /\ TradesCounted` is inductive; the second is a property of every step from it |
| | `NeverPaysMoreThanHeld`, `PoorTradesAlwaysStop`, `DistributionAlwaysFair` | with `Sound`: all amounts are natural numbers (`Amounts`), and an unheeded poor trade has disabled the broker (`Heeded`) |
| `Deployment_proofs` | `FilesDescribeChainHolds`, `LinksAreRightHolds` | `Shape /\ Foundation /\ MemoryDescribesChain /\ ConfigurationChecked` with both properties is inductive, for all scripts of the form `ScriptsAssumption` gives them |
| | `FinishedIsAlwaysCoherent` | with `OrderKept`: memory in step with the files, links that hold in memory and on file |
| | `NothingIsForgotten` | with `Kept`: memory is never behind the files |
| `DataLemmas` | lemmas on divisions, finite sums, the binary search and powers of ratios | for any scale, any finite set, any queue, any exponent |

So every invariant and every action property of the passing runs, and both refinements, are theorems.

The StRSR types already need the arithmetic: `unstake` subtracts the backing of the
remaining shares from the pool, which stays in `Nat` only if the pool covers them
(`PoolsCovered`); `withdraw` needs the same of the draft pool; the balance needs
`Solvent`; the bound on the draft rate after a seizure needs
`DraftsNeverAppreciate`; and the difference of two cumulative drafts needs `QueuesOrdered`.
So none of these is inductive alone, and together they are. The lemmas on
division (`DivUpLeast`, `DivGreatest`, `SharesForCovered`, `BackingForCovers`,
`RateForCovers`) say what each rounding direction guarantees, for any scale.

`Throttled` is not inductive, as it does not say how much charge is left. `Accounted`
adds it, with the blocks not yet recharged counted at the peak rate, and
`RechargeBound` bounds a recharge by the rate times the blocks, rounded down.

The RToken's invariant speaks of every *span* of pending issuances (`QueueBacked`), where
`PendingIsBacked` speaks of single ones: `vestUpTo` adds the baskets of a span to the
claim and its deposits to the backing, so the step keeps the RToken backed only if
spans are. The queues record cumulative sums, so that a span is a difference
(`SpanType` needs the order of the entries), and `WithoutSpanItems` shows that what is left of a
queue after a refund at either end or a vesting are the same entries. `NoncesOK` is
what makes a switch of the basket harmless: no queue has a nonce that is yet to
come. `BackingAlwaysKept` uses that quotes for issuance are rounded up (`QuoteUpPays`),
those for redemption down (`QuoteDownType`), and that the surplus is what exceeds the
rounded-up need (`SurplusLeavesBaskets`); it rests on the environment's promise that
the quantities of a basket do not rise under its nonce (`Appreciate`), which is the
subject of `BasketHandler`. `NeverDilutedByRevenue` assumes that no basket is empty, as
`setPrimeBasket` checks. `RedemptionsAlwaysThrottled` assumes nothing of the rates;
of the throttle switched off, `RToken_queues` has the redemptions, `RedemptionThrottle` the switching.

`FallsAreNoticed` compares the true rates, `latest` and `peak`, that no contract stores.
`Remembered` ties them to what is stored: a fall between two refreshes is seen only if the
stored rate is not below the peak, which holds because `maxRefPerTok` takes every higher
reading before the status can matter again. `PromiseAlwaysKept` shows the refinement step
by step: a refresh of a plugin that has not defaulted is `Judge` or `Default`, one of a
plugin that has is a stutter, and `Elapse` is `Wait`; that the reported rate does not fall
in `Judge` needs the monotonicity of both roundings in `Discounted` (`DivMono`,
`DivRoundMono`).

`TradesCounted` needs to be known of all traders at once: settling one trade leaves the count
of the others alone only because an open clone is in the table of its own origin and
token. `WholeBackingJudged` follows from it: the BackingManager asks for
`tradesOpen = 0` alone, so that every clone of its own must be in the table to be counted;
and `settleTrade`, which moves funds to one holder, moves none of a revenue trader and the BackingManager together.
`PoorTradesAlwaysStop` needs that `BelowWorst`, which compares two rounded quotients, holds of every trade that is
`Poor`, which compares exact ratios: `LowerQuotient` shows that quotients one apart stay apart when rounded.

*Sums, searches and powers.* `SumFunction` of the community modules, the binary searches and
`powu` are recursive functions, and the library's induction principles, which take an
operator as a parameter, cannot be used. `DataLemmas` goes another way: a nonempty
set of finite sets has a minimal member (`LeastSubset`), one of numbers a least number
(`LeastNat`), and a statement that fails somewhere fails there. A recursive function is the `CHOOSE` of one
that satisfies its equation, so that a search or a power has to be shown to exist
first (`SearchExists`, `PowerExists`). From these come what the components need: a
sum over a disjoint union, or after a change in one place (`SumUnion`, `SumChange`); that the search
ends at the last entry that is due (`SearchFindsLast`); that a power of a ratio is a ratio (`PowuIsRatio`),
so that a payout is never negative nor larger than the fund.

*StRSR's totals.* `totalStakes` is the sum of the balances of one era, and a seizure starts the
next without writing to it, so the sum is right only because nobody holds anything there yet (`ErasAhead`).
`TotalsNeverUnderflow` draws the consequence: the checked subtractions from the two totals
never revert, so no order of calls locks a staker in.

*What a withdrawal pays.* `withdraw()` lowers the draft pool to what covers the drafts that are left, rounded
up at the rate, and pays the difference. The rate is itself rounded up by `seizeRSR` (`p1/StRSR.sol:406`), so
that the pool may be ahead of its drafts and the next withdrawal is paid the slack: with a scale of 2 and 7
drafts worth 7 RSR, a seizure of 1 leaves 6 RSR and sets the rate to 3 (14/6 rounded up); who then withdraws 1
draft gets 2 RSR, as 4 cover the 6 drafts that are left. `OutflowWithinDrafts` allows just this, and
`SlackSmall` is the invariant that bounds the slack: less than a unit of rate over the whole pool,
or a unit of RSR if that is more, however many seizures and
withdrawals there were, because each of them rounds from scratch.

*Deposits.* `LiabilitiesMatch` has the liabilities of each token equal to the sum, over
all issuers, of the deposits still pending in their queues. Each action touches one
queue and the liabilities by the same amount (`SumChange`), refunds at either end included.

*The basket.* That a switch meets the configuration is a sum over sums. A token is weighed for the target
of its own plugin only, since a plugin has one (`NewWeightFacts`); the part of a target that good prime tokens do not cover
(`WeightSplit`) is divided over backups that are good, for that target and counted once (`BackupsAreGood`),
each part rounded up. `QuantityStable` needs more than the types. The reported rate of a plugin never
falls unless it defaults (`RefreshedGrows`, the same argument as `PromiseAlwaysKept`), and quantities are rounded
quotients, which then do not rise (`QuantityFalls`); but for a rate of zero the code answers `FIX_MAX`,
so the quantity falls when the rate becomes positive only if no weight comes near
`FIX_MAX`: that is `Fits`. A token of a basket that stands has a positive quantity, so that exchanging
or removing its plugin disables the basket (`StandingKeepsPlugins`). The exception found in section 6, a plugin that has
defaulted, is outside the theorem, which compares states with a basket that stands (`Standing`), and none stands on such a plugin.

*Trading.* `NeverPaysMoreThanHeld` says that no transfer of a hand-out, a distribution or an auction
reverts for lack of funds: shares are multiplied after a division that rounds down, and the parts add up
to the whole at most (`SumScaled`). `PoorTradesAlwaysStop` needs to be told that an enabled broker
means that every poor trade of the past has been answered (`Heeded`). `DistributionAlwaysFair` is the table's
`TableAssumption`, which every `setDistribution` keeps.

*The deployment.* The four theorems hold for every list of scripts, not only for those of
this repository. `ScriptsAssumption` is what a script must be like: an entry
is written with the kind of contract it is meant for, from entries of the right kind, and an
address of the configuration is recorded only after a check that there is code.
`OrderAssumption` is about the order of its steps: a contract and what it is linked to are both on file, unchanged,
when the script ends, and no later script writes either entry; a file is read, or found missing,
before it is written; and what is copied into a file has been deployed by the same script since.
TLC evaluates both on the real scripts in the run `Deployment`. Files are written from memory and
memory is read from files, so neither is right without the other
(`MemoryDescribesChain`); and on a network that is not a fork a configured address has no code, so
that recording it is right only because the check before it passed in the same
process (`ConfigurationChecked`). `FinishedIsCoherent` speaks of scripts that ended, and a script that is running may be
interrupted: `OrderKept` says which entries of memory are what is on file, that the links made by the running
script hold in memory, and those of the finished ones on file. `NothingForgotten` rests on addresses
that only grow: memory, once read from a file, is never behind it (`Ahead`), what was just deployed is
the newest (`Newest`), and a file found missing stays so until the script that found it writes it (`AbsentStill`).
`Effect` says once what a step does to memory and files, and all of these use it.

Assumptions, all of which TLC evaluates: addresses are distinct, accounts, destinations and tokens are finitely
many; scales and maxima are natural numbers, the rates' maxima at least one; a table of
destinations has shares for somebody (`TableAssumption`, which `Distributor._ensureNonZeroDistribution` checks); a prime
basket is not empty and its weights, scaled, stay below `FIX_MAX` (`MAX_TARGET_AMT` keeps each
of them 18 digits below it), a list of backups names a token once; and those about the scripts.

**Only model-checked**: liveness (`EveryIssuanceSettles`, `DraftsPaid`, `ThawsOnItsOwn`, `IffyIsTemporary`,
`BasketRecovers`, `EveryTradeSettles`, `InterruptedWorkCompletes`, `EventuallyVerified`), which is out of the
prover's reach.

## 5. Not modelled, and what is left

- `StRSRVotes` and `Governance`: vote checkpoints by block, which only the governor of OpenZeppelin reads.
  In the models governance may do what it is allowed to at any time.
- The prices and the basket range of `RecollateralizationLib` and `TradeLib`; `Asset`,
  `RTokenAsset` and `UniswapV3Pool`, which only quote prices. The models leave prices open.
- The schedule of `Furnace`: its melting is any amount in `RToken`.
- `p0`, the simple implementation of the same interfaces, which only the tests run.
- The facades, `Deployer`, `Main`, `ComponentRegistry`: views and wiring (no behaviour over time).
- Permits and string helpers; the vendored static aToken; mocks; tests; the tasks that are
  not about assets or collateral, and `scripts/check_env.ts`.
- 256-bit overflow, out of reach for the amounts the code's own comments assume; re-entrant tokens.

Worth adding: the environment of `RToken` as an abstraction of `BasketHandler`, so that `QuantityAlwaysStable`
discharges what `Appreciate` assumes; a model of `Furnace` that refines the melting of `RToken`;
the checkpoints of `StRSRVotes`, with the hazard listed for them.

## 6. Where code and comments differ

Two differences have a run each:

- `payoutRewards` after a seizure. `_payoutRewards` pays a share of
  `rsrRewardsAtLastPayout`, which its comment (`p1/StRSR.sol:485`) calls the reward
  fund. `seizeRSR` shrinks the fund and leaves the cached value. The payout can
  exceed the fund, and `payoutRewards`, `stake` and `unstake` revert until RSR is
  sent in. `Solvent` still holds, because of the revert.
- A silent stETH feed. `docs/collateral.md:379` wants a silent feed to lead through `IFFY`.
  `IcETHCollateral.pricePerRef` (line 63) puts `fallbackPrice` in its place, and `refresh()`
  takes the product for a measured rate: the plugin stays `SOUND`, `maxRefPerTok` keeps the
  product if it is higher, and once the feed answers again the plugin is `DISABLED` for good,
  without any fall of the rate. (The deployment script,
  `scripts/deployment/phase2-assets/2_deploy_collateral.ts:612`, passes the dollar price of
  ETH as the fallback of a feed quoted in ETH, so the product is far higher.)

Others, found while modelling, are modelled as the code has them:

- `seizeRSR` with RSR in the stake pool but no stakes: the rate becomes 0 and
  the event's `exchangeRate()` divides by it, so a call that meets all listed checks
  (`p1/StRSR.sol:343`) reverts.
- The icETH step of `scripts/deployment/phase2-assets/2_deploy_collateral.ts` (lines 611 to 622) can never
  succeed: it passes `erc20` and `allowedBasisPoints`, and its task
  (`tasks/deployment/collateral/deploy-iceth-collateral.ts:9` and `:15`) asks for `tokenAddress` and
  `allowedDropBasisPoints`, and links a `params.oracleLib` it does not ask for (line 22) and does not get.
  So `deploy.ts` always ends with an error, after all else is done: the entry `ICETH` is the
  `Skipped` of the run `Deployment`.
- `docs/deployment.md:207` has `deploy.ts` produce three files without empty entries; with phase 3
  commented out there are two. `confirm.ts` and the last two verification scripts read the third and cannot succeed without it.
- `scripts/deployment/phase3-rtoken/1_deploy_rtoken.ts` gives its beneficiary no share
  ("doesn't matter what this is", line 68), and `FacadeWrite.deployRToken()` (`contracts/facade/FacadeWrite.sol:37`) reverts on that.
- `scripts/verification/6_verify_collateral.ts:63` expects the symbol of the static aDAI to begin with `stat`; the
  deployment script names it with `s` (line 164), so it cannot be verified.
- The fiat plugins and aDAI write the file before they assign the address (`2_deploy_collateral.ts:57`), TUSD not at
  all: after a crash there the file lacks one or two plugins that are on the chain. The script starts over and deploys them again.
- `fs.writeFileSync` is not atomic: a file cut short stops every later script, and on a live network
  `0_setup_deployments.ts` refuses to write it again until it is removed.
- `GnosisTrade.settle()` compares prices rounded down to 18 decimals, so a trade below its worst price by less
  than a unit of the last one is not reported; for 10e18 sold, 10e18+5 asked and 10e18+1 paid the two are equal.
- `common/numbers.ts:51` says "less than" of `near()`, which also accepts equality.
- `p1/StRSR.sol:115` equates `totalDrafts` with the sum of the drafts; the early return at
  325 leaves it larger, so the second half of `TotalsMatchParts` is an inequality.
- `p1/StRSR.sol:101` orders drafts strictly; a zero draft may be appended.
- `mixins/Auth.sol:46` says an account has the long-freezer role just when it has charges;
  revoking and renouncing keep the charges, so only one direction holds.
- `p1/RToken.sol:127` orders `amtBaskets` strictly; it may round to equal.
- `p1/RToken.sol:702` allows vesting one block sooner than the code at 724 does.
- `p1/AssetRegistry.sol:73` says that a swap of a basket token disables the basket. The
  code asks for `quantity() > 0`, which is 0 for a plugin that is `DISABLED`: swapping one that
  has defaulted leaves the basket as it is, sound again under the same nonce with
  other quantities. `RToken` assumes of its environment that quantities do not rise under a
  nonce; governance has to refresh the basket after such a swap. Unregistering one leaves an
  enabled basket whose `status()` reverts, which only the owner can refresh.
- `quantity()` is `FIX_MAX` for a plugin with a zero rate even outside the basket, so swapping
  a revenue-hiding plugin that was never refreshed disables the basket.
- `p1/BasketHandler.sol:126` says `disabled` is only set by `_switchBasket()`; `disableBasket()`
  sets it too.
- The "higher-level desideratum" of `_switchBasket()` has the weights of a target equal to the
  configured ones; shares of several backups are rounded up, so they may exceed it.
- `IcETHCollateral.checkReferencePeg` compares the price with a peg read from the same
  feed: it cannot be off the peg.
- With `allowedDrop` zero, rounding in `RevenueHiding.refPerTok` may exceed the last rate by
  less than a unit, and the plugin defaults without a fall.
- `AbstractCollateral.sol:53` asks for a default if the rate "ever" decreased since the last
  refresh; a dip that recovers before the next refresh is not seen, nor can it be.
