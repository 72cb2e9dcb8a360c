---------------------------- MODULE DeployTasks -----------------------------
(***************************************************************************)
(* The hardhat tasks that deploy an asset or a collateral plugin: what a   *)
(* caller must pass (hardhat throws when one is missing), which of it goes *)
(* to the constructor (only what names another contract is kept; prices,   *)
(* volumes, timeouts and thresholds are left out of the constructor), and  *)
(* whether OracleLib is linked.                                            *)
(***************************************************************************)
\* Parameters that are plain numbers or names.
Priced == {"fallbackPrice", "maxTradeVolume", "oracleTimeout"}
Judged == Priced \cup {"targetName", "delayUntilDefault"}
Pegged == Judged \cup {"defaultThreshold"}

Task(is, requires, reads, linked) ==
    [is |-> is, requires |-> requires, reads |-> reads, linked |-> linked]

asset == Task("Asset",
    Priced \cup {"priceFeed", "tokenAddress", "oracleLib"},
    {"priceFeed", "tokenAddress"}, FALSE)
fiat == Task("FiatCollateral",
    Pegged \cup {"priceFeed", "tokenAddress", "oracleLib"},
    {"priceFeed", "tokenAddress"}, TRUE)
atokenFiat == Task("ATokenFiatCollateral",
    Pegged \cup {"priceFeed", "staticAToken", "oracleLib"},
    {"priceFeed", "staticAToken"}, TRUE)
ctokenFiat == Task("CTokenFiatCollateral",
    Pegged \cup {"priceFeed", "cToken", "comptroller", "oracleLib"},
    {"priceFeed", "cToken", "comptroller"}, TRUE)
ctokenNonFiat == Task("CTokenNonFiatCollateral",
    Pegged \cup {"referenceUnitFeed", "targetUnitFeed", "cToken", "oracleLib"},
    {"referenceUnitFeed", "targetUnitFeed", "cToken", "comptroller"}, TRUE)
ctokenSelfReferential == Task("CTokenSelfReferentialCollateral",
    Judged \cup {"priceFeed", "cToken", "decimals", "comptroller", "oracleLib"},
    {"priceFeed", "cToken", "comptroller"}, TRUE)
nonFiat == Task("NonFiatCollateral",
    Pegged \cup {"referenceUnitFeed", "targetUnitFeed", "tokenAddress", "oracleLib"},
    {"referenceUnitFeed", "targetUnitFeed", "tokenAddress"}, TRUE)
selfReferential == Task("SelfReferentialCollateral",
    Judged \cup {"priceFeed", "tokenAddress", "oracleLib"},
    {"priceFeed", "tokenAddress"}, FALSE)
eurFiat == Task("EURFiatCollateral",
    Pegged \cup {"referenceUnitFeed", "targetUnitFeed", "tokenAddress", "oracleLib"},
    {"referenceUnitFeed", "targetUnitFeed", "tokenAddress"}, TRUE)
\* The icETH task links params.oracleLib and passes params.erc20, but asks
\* for neither: it asks for tokenAddress.
icETH == Task("IcETHCollateral",
    Pegged \cup {"chainlinkFeed", "stETHFeed", "tokenAddress", "allowedDropBasisPoints"},
    {"chainlinkFeed", "stETHFeed", "erc20"}, TRUE)

\* What a run of a task with these parameters deploys.  args are taken from
\* the network's configuration, uses are addresses of deployed contracts.
Run(task, plain, args, uses) ==
    [is |-> task.is,
     args |-> [p \in DOMAIN args \cap task.reads |-> args[p]],
     uses |-> [r \in {r \in DOMAIN uses : r \in task.reads \/ (task.linked /\ r = "oracleLib")}
                  |-> uses[r]],
     lacks |-> (task.requires \ (plain \cup DOMAIN args \cup DOMAIN uses))
               \cup (IF task.linked /\ "oracleLib" \notin DOMAIN uses THEN {"oracleLib"} ELSE {})]
=============================================================================
