------------------------- MODULE BasketHandler -------------------------
(***************************************************************************)
(* The reference basket: contracts/p1/BasketHandler.sol with the           *)
(* AssetRegistry.sol it looks collateral up in, and the plugins it judges. *)
(* Governance configures a prime basket and backups per target; a switch   *)
(* replaces what has defaulted.  An ERC20's registered asset is a plugin,  *)
(* or NoAsset.  All plugins have targetPerRef() = FIX_ONE.  The arguments  *)
(* governance passes are valid collateral arrays (requireValidCollArray),  *)
(* their amounts at most MAX_TARGET_AMT.                                   *)
(***************************************************************************)
EXTENDS Integers, Sequences, FiniteSets, Functions, Collateral

CONSTANTS
    ERC20s, Targets,
    Assets,                     \* the plugin contracts there are
    erc20Of,                    \* [Assets -> ERC20s]
    classOf,                    \* [Assets -> Classes \cup {"asset"}]: "asset" is no collateral
    targetOf,                   \* [Assets -> Targets]
    NoAsset,
    Registry,                   \* [ERC20s -> Assets \cup {NoAsset}]: the registry at first
    PrimeBaskets,               \* arguments of setPrimeBasket: [set of ERC20s -> {target/BU}]
    BackupMaxes, BackupLists,   \* arguments of setBackupConfig
    Market,                     \* what all plugins may read at one moment: [Collaterals -> Reading]
    FIX_MAX,                    \* the largest uint192
    MaxNonce                    \* bound: the nonce governance stops at

Collaterals == {a \in Assets : classOf[a] # "asset"}

ASSUME BasketAssumption ==
    /\ erc20Of \in [Assets -> ERC20s] /\ targetOf \in [Assets -> Targets]
    /\ classOf \in [Assets -> Classes \cup {"asset"}]
    /\ NoAsset \notin Assets
    /\ Registry \in [ERC20s -> Assets \cup {NoAsset}]
    /\ \A e \in ERC20s : Registry[e] # NoAsset => erc20Of[Registry[e]] = e
    /\ IsFiniteSet(ERC20s)
    /\ \A b \in PrimeBaskets :
        /\ b \in [DOMAIN b -> Nat] /\ DOMAIN b \subseteq ERC20s /\ DOMAIN b # {}
        /\ SumFunction(b) * FIX_ONE <= FIX_MAX           \* so far below is MAX_TARGET_AMT
    /\ BackupMaxes \subseteq Nat
    /\ \A list \in BackupLists :
        list \in Seq(ERC20s) /\ \A i, j \in DOMAIN list : list[i] = list[j] => i = j
    /\ Market \subseteq [Collaterals -> Reading]
    /\ FIX_MAX \in Nat \ {0} /\ MaxNonce \in Nat

VARIABLES
    assets,                     \* AssetRegistry: ERC20 -> asset
    coll,                       \* the state of every plugin contract
    targetAmts, targetNames,    \* config, for the ERC20s of the prime basket
    backups,                    \* config: target -> [max, erc20s]
    refAmts,                    \* basket, for the ERC20s in it
    nonce, disabled,
    access                      \* Main: open, or paused or frozen

configVars == <<targetAmts, targetNames, backups>>
basketVars == <<refAmts, nonce, disabled>>
vars == <<assets, coll, configVars, basketVars, access>>

Configured == DOMAIN targetAmts
TargetSet  == {targetNames[e] : e \in Configured}
Basket     == DOMAIN refAmts
Empty      == [e \in {} |-> 0]

----------------------------------------------------------------------
\* Looking collateral up.  The collateral states c are those of the moment: a call that
\* refreshes first looks at the refreshed ones.

\* assetRegistry.toColl(e) does not revert
IsColl(e) == assets[e] \in Collaterals

StatusOf(c, e)    == status(c[assets[e]])
RefPerTokOf(c, e) == refPerTok(classOf[assets[e]], c[assets[e]])

goodCollateral(c, tgt, e) ==
    /\ IsColl(e) /\ targetOf[assets[e]] = tgt
    /\ StatusOf(c, e) # "DISABLED" /\ RefPerTokOf(c, e) > 0

\* status() looks at every token of an enabled basket, and reverts when one of them is no
\* longer registered as collateral.
StatusReverts == ~disabled /\ \E e \in Basket : ~IsColl(e)

BasketStatus(c) ==
    IF disabled \/ Basket = {} \/ \E e \in Basket : StatusOf(c, e) = "DISABLED"
    THEN "DISABLED"
    ELSE IF \E e \in Basket : StatusOf(c, e) = "IFFY" THEN "IFFY" ELSE "SOUND"

\* {tok/BU}: nothing for what is unregistered or has defaulted
quantity(e) ==
    IF ~IsColl(e) \/ StatusOf(coll, e) = "DISABLED" THEN 0
    ELSE IF RefPerTokOf(coll, e) = 0 THEN FIX_MAX
    ELSE IF e \in Basket THEN DivUp(refAmts[e] * FIX_ONE, RefPerTokOf(coll, e)) ELSE 0

----------------------------------------------------------------------
\* The choice of a basket

GoodPrime(c) == {e \in Configured : goodCollateral(c, targetNames[e], e)}

Weight(S) == SumFunctionOnSet(targetAmts, S)

\* What the backups for tgt have to make up for
Needed(c, tgt) == Weight({e \in Configured \ GoodPrime(c) : targetNames[e] = tgt})

\* The first good ones of the list, as many as are allowed
BackupsFor(c, tgt) ==
    LET list == backups[tgt].erc20s
        good == {i \in DOMAIN list : goodCollateral(c, tgt, list[i])}
    IN  {list[i] : i \in {i \in good : Cardinality({j \in good : j < i}) < backups[tgt].max}}

Short(c) == \E tgt \in TargetSet : Needed(c, tgt) > 0 /\ BackupsFor(c, tgt) = {}

BackupWeight_Down(c, tgt, e) ==                                  \* mutant
    IF Needed(c, tgt) > 0 /\ e \in BackupsFor(c, tgt)
    THEN Needed(c, tgt) \div Cardinality(BackupsFor(c, tgt)) ELSE 0
BackupWeight(c, tgt, e) ==
    IF Needed(c, tgt) > 0 /\ e \in BackupsFor(c, tgt)
    THEN DivUp(Needed(c, tgt), Cardinality(BackupsFor(c, tgt))) ELSE 0

NewWeight(c, e) ==
    (IF e \in GoodPrime(c) THEN targetAmts[e] ELSE 0)
    + SumFunction([tgt \in TargetSet |-> BackupWeight(c, tgt, e)])

newBasket(c) == LET W == [e \in ERC20s |-> NewWeight(c, e)]
                IN  [e \in {e \in ERC20s : W[e] > 0} |-> W[e]]

Unswitchable(c) == Short(c) \/ DOMAIN newBasket(c) = {}

\* A basket is only replaced by a whole one
_switchBasket(c) ==
    IF Unswitchable(c)
    THEN disabled' = TRUE /\ UNCHANGED <<refAmts, nonce>>
    ELSE disabled' = FALSE /\ refAmts' = newBasket(c) /\ nonce' = nonce + 1

----------------------------------------------------------------------
\* Operations

Init ==
    /\ assets = Registry
    /\ \E r \in Market : coll = [a \in Collaterals |-> New(classOf[a], r[a])]
    /\ targetAmts = Empty /\ targetNames = Empty
    /\ backups = [t \in Targets |-> [max |-> 0, erc20s |-> <<>>]]
    /\ refAmts = Empty /\ nonce = 0 /\ disabled = TRUE
    /\ access = "open"

\* The collateral states that a refresh of the plugins S can lead to
Refreshed(S) ==
    {[a \in Collaterals |-> IF a \in S THEN refresh(classOf[a], coll[a], r[a]) ELSE coll[a]] :
        r \in Market}

RegisteredColls == {assets[e] : e \in ERC20s} \cap Collaterals

\* assetRegistry.refresh(), by anybody
Refresh ==
    /\ coll' \in Refreshed(RegisteredColls)
    /\ UNCHANGED <<assets, configVars, basketVars, access>>

\* A plugin's own refresh(), registered or not
RefreshPlugin(a) ==
    /\ coll' \in Refreshed({a})
    /\ UNCHANGED <<assets, configVars, basketVars, access>>

RefreshBasket_DefaultedOnly ==                                   \* mutant
    /\ access = "open" /\ ~StatusReverts
    /\ coll' \in Refreshed(RegisteredColls)
    /\ \E e \in Basket : IsColl(e) /\ StatusOf(coll', e) = "DISABLED"
    /\ _switchBasket(coll')
    /\ UNCHANGED <<assets, configVars, access>>
\* refreshBasket() by the public: the status must be DISABLED after the refresh
RefreshBasket ==
    /\ access = "open" /\ ~StatusReverts
    /\ UNCHANGED <<assets, configVars, access>>
    /\ coll' \in Refreshed(RegisteredColls)
    /\ BasketStatus(coll') = "DISABLED"
    /\ _switchBasket(coll')

\* refreshBasket() by the owner
RefreshBasketByOwner ==
    /\ nonce < MaxNonce                                          \* bound
    /\ coll' \in Refreshed(RegisteredColls)
    /\ _switchBasket(coll')
    /\ UNCHANGED <<assets, configVars, access>>

setPrimeBasket(b) ==
    /\ \A e \in DOMAIN b : IsColl(e) /\ b[e] > 0
    /\ targetAmts' = b
    /\ targetNames' = [e \in DOMAIN b |-> targetOf[assets[e]]]
    /\ UNCHANGED <<assets, coll, backups, basketVars, access>>

setBackupConfig(tgt, max, list) ==
    /\ \A i \in DOMAIN list : IsColl(list[i])
    /\ backups' = [backups EXCEPT ![tgt] = [max |-> max, erc20s |-> list]]
    /\ UNCHANGED <<assets, coll, targetAmts, targetNames, basketVars, access>>

\* disableBasket(), as the registry calls it when a basket token changes
disableBasketIf(needed) == disabled' = (disabled \/ needed)

register(a) ==
    /\ assets[erc20Of[a]] \in {NoAsset, a}
    /\ assets' = [assets EXCEPT ![erc20Of[a]] = a]
    /\ UNCHANGED <<coll, configVars, basketVars, access>>

swapRegistered_Quietly(a) ==                                     \* mutant
    /\ nonce < MaxNonce
    /\ assets[erc20Of[a]] # NoAsset
    /\ assets' = [assets EXCEPT ![erc20Of[a]] = a]
    /\ UNCHANGED <<coll, configVars, basketVars, access>>
swapRegistered(a) ==
    /\ nonce < MaxNonce                                          \* bound
    /\ assets[erc20Of[a]] # NoAsset
    /\ assets' = [assets EXCEPT ![erc20Of[a]] = a]
    /\ disableBasketIf(quantity(erc20Of[a]) > 0)
    /\ UNCHANGED <<coll, configVars, refAmts, nonce, access>>

unregister(a) ==
    /\ nonce < MaxNonce                                          \* bound
    /\ assets[erc20Of[a]] = a
    /\ assets' = [assets EXCEPT ![erc20Of[a]] = NoAsset]
    /\ disableBasketIf(quantity(erc20Of[a]) > 0)
    /\ UNCHANGED <<coll, configVars, refAmts, nonce, access>>

\* Environment: Main is paused or frozen and opened again; time passes.
SetAccess == /\ access' \in {"open", "halted"} \ {access}
             /\ UNCHANGED <<assets, coll, configVars, basketVars>>

Elapse == /\ \E a \in Collaterals : status(coll[a]) = "IFFY"
          /\ coll' = [a \in Collaterals |-> Aged(coll[a])]
          /\ UNCHANGED <<assets, configVars, basketVars, access>>

Next ==
    \/ Refresh \/ \E a \in Collaterals : RefreshPlugin(a)
    \/ RefreshBasket \/ RefreshBasketByOwner
    \/ \E b \in PrimeBaskets : setPrimeBasket(b)
    \/ \E tgt \in Targets, max \in BackupMaxes, list \in BackupLists :
        setBackupConfig(tgt, max, list)
    \/ \E a \in Assets : register(a) \/ swapRegistered(a) \/ unregister(a)
    \/ SetAccess \/ Elapse

Spec == Init /\ [][Next]_vars

\* Anybody may refresh a disabled basket, and issuers, redeemers and bots all want to.
FairSpec == Spec /\ WF_vars(RefreshBasket)

----------------------------------------------------------------------
\* Properties

\* Every variable has its type; weights are never zero.
TypeOK ==
    /\ assets \in [ERC20s -> Assets \cup {NoAsset}]
    /\ \A e \in ERC20s : assets[e] # NoAsset => erc20Of[assets[e]] = e
    /\ coll \in [Collaterals -> Plugin]
    /\ Configured \subseteq ERC20s
    /\ targetAmts \in [Configured -> Nat \ {0}] /\ targetNames \in [Configured -> Targets]
    /\ backups \in [Targets -> [max: Nat, erc20s: Seq(ERC20s)]]
    /\ Basket \subseteq ERC20s /\ refAmts \in [Basket -> Nat \ {0}]
    /\ nonce \in Nat /\ disabled \in BOOLEAN /\ access \in {"open", "halted"}

\* Every switch puts a whole basket in place, whatever was swapped, unregistered,
\* reconfigured or defaulted before: all of its tokens are collateral that has not
\* defaulted, and for each target their weights are the configured one, a unit of rounding
\* per backup at most above it and nothing below ("Higher-level desideratum" of
\* _switchBasket(), which has them equal).
Total(amts, tgt) ==
    SumFunctionOnSet(amts, {e \in DOMAIN amts : targetOf[assets[e]] = tgt})
SwitchMeetsConfig ==
    [][nonce' # nonce =>
        /\ ~disabled'
        /\ \A e \in DOMAIN refAmts' : IsColl(e) /\ status(coll'[assets[e]]) # "DISABLED"
        /\ {targetOf[assets[e]] : e \in DOMAIN refAmts'} = TargetSet
        /\ \A tgt \in TargetSet :
            LET configured == Weight({e \in Configured : targetNames[e] = tgt})
            IN  /\ configured <= Total(refAmts', tgt)
                /\ Total(refAmts', tgt) < configured + fixMax(1, backups[tgt].max)]_vars

\* While a basket stands, under one nonce, no step makes it cost more of any token, be it
\* a refresh, a default elsewhere, a swap or a new configuration: issuances queued under
\* that nonce stay paid for (RToken assumes so of its environment).
Standing == ~disabled /\ Basket # {} /\ \A e \in Basket : IsColl(e) /\ StatusOf(coll, e) # "DISABLED"
QuantityStable ==
    [][nonce' = nonce /\ Standing /\ Standing' =>
        \A e \in Basket : quantity(e)' <= quantity(e)]_vars

\* A basket that defaulted, or was disabled, is replaced in the end by public calls alone,
\* once there is a basket to choose, the system stays open, and no token of an enabled
\* basket is left unregistered (then status() reverts and only the owner can refresh).
BasketRecovers ==
    <>[](access = "open" /\ ~StatusReverts /\ ~Unswitchable(coll))
        => []<>(~StatusReverts /\ BasketStatus(coll) # "DISABLED")
========================================================================
