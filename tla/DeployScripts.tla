--------------------------- MODULE DeployScripts ----------------------------
(***************************************************************************)
(* The scripts under scripts/, as data for ScriptRunner: deploy.ts with    *)
(* its three phases, confirm.ts and verify_etherscan.ts.  A step is one    *)
(* check, one transaction, one assignment or one write of a file; amounts, *)
(* prices and logging are left out.                                        *)
(***************************************************************************)
EXTENDS Naturals, Sequences, SequencesExt, DeployTasks

(***************************************************************************)
(* networkConfig                                                           *)
(***************************************************************************)
Token(n) == <<"token", n>>
Feed(n) == <<"feed", n>>
Service(n) == <<"service", n>>
Text(s) == <<"text", s>>

stables == {"DAI", "USDC", "USDT", "USDP", "TUSD", "BUSD"}
aTokens == {"aDAI", "aUSDC", "aUSDT", "aBUSD", "aUSDP"}
cTokens == {"cDAI", "cUSDC", "cUSDT", "cUSDP", "cETH", "cWBTC"}
goerliTokens == stables \cup aTokens \cup cTokens
                  \cup {"AAVE", "stkAAVE", "COMP", "WETH", "WBTC", "EURT", "RSR"}
goerliFeeds == stables \cup {"RSR", "AAVE", "COMP", "ETH", "WBTC", "BTC", "EURT", "EUR"}

Network(dev, tokens, feeds, services) ==
    [dev |-> dev,
     has |-> {Token(n) : n \in tokens} \cup {Feed(n) : n \in feeds}
                 \cup {Service(n) : n \in services}]
services == {"AAVE_LENDING_POOL", "COMPTROLLER", "GNOSIS_EASY_AUCTION"}

networkConfig ==
    [localhost |-> Network(TRUE, goerliTokens \cup {"ICETH", "STETH", "aWETH"},
                           goerliFeeds \cup {"STETH"}, services),
     ropsten   |-> Network(FALSE, {"USDC", "RSR"}, {}, {"COMPTROLLER"}),
     mainnet   |-> Network(FALSE, goerliTokens \cup {"ICETH", "STETH"},
                           goerliFeeds \cup {"STETH"}, services),
     goerli    |-> Network(FALSE, goerliTokens, goerliFeeds, services)]

\* The contracts that phase 1 finds on the network.
external == LET Found(n) == [is |-> n, args |-> <<>>, uses |-> <<>>]
            IN  <<Found("RSR"), Found("RSR_FEED"), Found("GNOSIS_EASY_AUCTION")>>

(***************************************************************************)
(* The entries of the files, and the contract each is meant for.           *)
(***************************************************************************)
components ==
    [assetRegistry |-> "AssetRegistryP1", backingManager |-> "BackingManagerP1",
     basketHandler |-> "BasketHandlerP1", broker |-> "BrokerP1",
     distributor |-> "DistributorP1", furnace |-> "FurnaceP1",
     rsrTrader |-> "RevenueTraderP1", rTokenTrader |-> "RevenueTraderP1",
     rToken |-> "RTokenP1", stRSR |-> "StRSRP1Votes"]
implementations == [main |-> "MainP1", trade |-> "GnosisTrade"] @@ components
prerequisites ==
    [RSR |-> "RSR", RSR_FEED |-> "RSR_FEED", GNOSIS_EASY_AUCTION |-> "GNOSIS_EASY_AUCTION"]
libraries ==
    [rewardableLib |-> "RewardableLibP1", oracleLib |-> "OracleLib",
     tradingLib |-> "RecollateralizationLibP1", permitLib |-> "PermitLib",
     facadeWriteLib |-> "FacadeWriteLib"]
IDeployments ==
    prerequisites @@ libraries @@ implementations @@
    [facadeRead |-> "FacadeRead", facadeWrite |-> "FacadeWrite", facadeAct |-> "FacadeAct",
     deployer |-> "DeployerP1", rsrAsset |-> "Asset"]
pluginOf ==
    [n \in stables |-> fiat.is] @@ [n \in aTokens |-> atokenFiat.is]
    @@ [n \in cTokens \ {"cETH", "cWBTC"} |-> ctokenFiat.is]
    @@ [cETH |-> ctokenSelfReferential.is, cWBTC |-> ctokenNonFiat.is,
        WBTC |-> nonFiat.is, WETH |-> selfReferential.is, EURT |-> eurFiat.is]
IAssetCollDeployments ==
    [stkAAVE |-> asset.is, COMP |-> asset.is] @@ pluginOf @@ [ICETH |-> icETH.is]
\* The proxies of an RToken, told from their implementations.
IRTokenDeployments ==
    [k \in DOMAIN components |-> "ERC1967Proxy"] @@
    [facadeWrite |-> "FacadeWrite", main |-> "ERC1967Proxy", rTokenAsset |-> "RTokenAsset",
     governance |-> "Governance", timelock |-> "TimelockController"]

Static(n) == "Static " \o n
kinds ==
    [phase1 |-> IDeployments, assets |-> IAssetCollDeployments, rtoken |-> IRTokenDeployments,
     env |-> prerequisites,
     local |-> [facadeWriteLib |-> "FacadeWriteLib"] @@ IAssetCollDeployments
               @@ [n \in {Static(t) : t \in aTokens} |-> "StaticATokenLM"]]
roleKinds ==
    libraries @@ implementations @@
    [RSR |-> "RSR", gnosis |-> "GNOSIS_EASY_AUCTION", rsrAsset |-> "Asset",
     deployer |-> "DeployerP1", priceFeed |-> "RSR_FEED", tokenAddress |-> "RSR",
     staticAToken |-> "StaticATokenLM", facadeWrite |-> "FacadeWrite", stkAAVE |-> "Asset",
     stRSRProxy |-> "ERC1967Proxy", rTokenProxy |-> "ERC1967Proxy",
     timelock |-> "TimelockController"]

(***************************************************************************)
(* Steps.                                                                  *)
(***************************************************************************)
Entry(p, k) == [place |-> p, key |-> k, role |-> ""]
Local(k) == Entry("local", k)
\* What the contract of an entry was given as role.
Follow(p, k, role) == [place |-> p, key |-> k, role |-> role]
Entries(p, K) == [k \in K |-> Entry(p, k)]

Config(S) == <<[op |-> "config", wants |-> S]>>
Public == <<[op |-> "public"]>>
Refuse(f) == <<[op |-> "absent", file |-> f, everywhere |-> TRUE]>>
RefuseUnlessDev(f) == <<[op |-> "absent", file |-> f, everywhere |-> FALSE]>>
Exists(f) == <<[op |-> "exists", file |-> f]>>
Load(f) == <<[op |-> "load", file |-> f]>>
CheckOn(nets, p, K) == <<[op |-> "check", file |-> p, keys |-> K, on |-> nets]>>
Check(p, K) == CheckOn(DOMAIN networkConfig, p, K)
Save(f) == <<[op |-> "save", file |-> f]>>
Put(p, k, src) == <<[op |-> "put", file |-> p, key |-> k, src |-> src]>>
Deploy(p, k, c) ==
    <<[op |-> "deploy", file |-> p, key |-> k, is |-> c.is, args |-> c.args, uses |-> c.uses,
       lacks |-> c.lacks]>>
New(is, uses) == [is |-> is, args |-> <<>>, uses |-> uses, lacks |-> {}]
Verify(p, k, c) ==
    <<[op |-> "verify", file |-> p, key |-> k, is |-> c.is, args |-> c.args, uses |-> c.uses,
       own |-> FALSE]>>
\* The arguments are read back from the contract itself.
VerifyOwn(p, k, is) ==
    <<[op |-> "verify", file |-> p, key |-> k, is |-> is, own |-> TRUE]>>
Each(names, Op(_)) == FlattenSeq([i \in DOMAIN names |-> Op(names[i])])
Nothing == <<>>

validatePrerequisites == Check("phase1", DOMAIN prerequisites)
validateImplementations == Check("phase1", DOMAIN implementations)

(***************************************************************************)
(* Phase 1                                                                 *)
(***************************************************************************)
setupPhase1 ==
    RefuseUnlessDev("phase1")
    \o Config({Token("RSR"), Feed("RSR"), Service("GNOSIS_EASY_AUCTION")})
    \o Check("env", DOMAIN prerequisites)
    \o Each(<<"RSR", "RSR_FEED", "GNOSIS_EASY_AUCTION">>,
            LAMBDA k : Put("phase1", k, Entry("env", k)))
    \o Save("phase1")

Library(k) == Deploy("phase1", k, New(libraries[k], Nothing))
deployLibraries_SaveEarly ==
    Load("phase1") \o validatePrerequisites
    \o Each(<<"tradingLib", "rewardableLib", "permitLib">>, Library)
    \o Save("phase1") \o Library("oracleLib")
deployLibraries ==
    Load("phase1") \o validatePrerequisites
    \o Each(<<"tradingLib", "rewardableLib", "permitLib", "oracleLib">>, Library)
    \o Save("phase1")

\* writeComponentDeployment()
Implementation(k, libs) ==
    Deploy("phase1", k, New(implementations[k], Entries("phase1", libs))) \o Save("phase1")
Unlinked(k) == Implementation(k, {})
deployImplementations ==
    Load("phase1") \o Check("phase1", {"tradingLib", "rewardableLib"})
    \o Each(<<"main", "trade", "assetRegistry">>, Unlinked)
    \o Implementation("backingManager", {"rewardableLib", "tradingLib"})
    \o Each(<<"basketHandler", "broker", "distributor", "furnace">>, Unlinked)
    \o Implementation("rsrTrader", {"rewardableLib"})
    \o Put("phase1", "rTokenTrader", Entry("phase1", "rsrTrader")) \o Save("phase1")
    \o Implementation("rToken", {"rewardableLib", "permitLib"})
    \o Implementation("stRSR", {"permitLib"})

deployRsrAsset ==
    Load("phase1") \o validateImplementations
    \o Deploy("phase1", "rsrAsset",
              Run(asset, Priced, [oracleLib |-> Text("address")],
                  [priceFeed |-> Entry("phase1", "RSR_FEED"),
                   tokenAddress |-> Entry("phase1", "RSR")]))
    \o Save("phase1")

deployFacade ==
    Load("phase1") \o validateImplementations \o Check("phase1", {"rsrAsset"})
    \o Deploy("phase1", "facadeRead", New("FacadeRead", Nothing)) \o Save("phase1")

deployerArgs ==
    Entries("phase1", DOMAIN implementations \cup {"RSR", "rsrAsset"})
    @@ [gnosis |-> Entry("phase1", "GNOSIS_EASY_AUCTION")]
deployDeployer ==
    Load("phase1") \o validateImplementations \o Check("phase1", {"facadeRead"})
    \o Deploy("phase1", "deployer", New("DeployerP1", deployerArgs)) \o Save("phase1")

deployFacadeWrite ==
    Load("phase1") \o validateImplementations \o Check("phase1", {"rsrAsset"})
    \o Deploy("local", "facadeWriteLib", New("FacadeWriteLib", Nothing))
    \o Deploy("phase1", "facadeWrite",
              New("FacadeWrite", [facadeWriteLib |-> Local("facadeWriteLib"),
                                  deployer |-> Entry("phase1", "deployer")]))
    \o Put("phase1", "facadeWriteLib", Local("facadeWriteLib"))
    \o Save("phase1")

deployFacadeAct ==
    Load("phase1") \o validateImplementations \o Check("phase1", {"rsrAsset"})
    \o Deploy("phase1", "facadeAct", New("FacadeAct", Nothing)) \o Save("phase1")

(***************************************************************************)
(* Phase 2                                                                 *)
(***************************************************************************)
setupPhase2 == Exists("phase1") \o Refuse("assets") \o Save("assets")

AssetOf(n, feed) ==
    Deploy("assets", n, Run(asset, Priced, [priceFeed |-> Feed(feed), tokenAddress |-> Token(n),
                                            oracleLib |-> Text("address")], Nothing))
deployAssets ==
    Load("phase1") \o Load("assets")
    \o AssetOf("stkAAVE", "AAVE") \o AssetOf("COMP", "COMP")
    \o Save("assets")

oracleLib == [oracleLib |-> Entry("phase1", "oracleLib")]
Fiat(n) == Run(fiat, Pegged, [priceFeed |-> Feed(n), tokenAddress |-> Token(n)], oracleLib)
StaticAToken(n, symbol) ==
    [New("StaticATokenLM", Nothing) EXCEPT
        !.args = [pool |-> Service("AAVE_LENDING_POOL"), aToken |-> Token(n), symbol |-> symbol]]
AToken(n, feed) ==
    Run(atokenFiat, Pegged, [priceFeed |-> Feed(feed)],
        oracleLib @@ [staticAToken |-> Local(Static(n))])
CToken(n, feed) ==
    Run(ctokenFiat, Pegged, [priceFeed |-> Feed(feed), cToken |-> Token(n),
                             comptroller |-> Service("COMPTROLLER")], oracleLib)

\* The file is written between the deployment and the assignment, so that
\* it is one plugin behind; after TUSD it is not written at all.
SavedLate(n, c) ==
    Deploy("local", n, c) \o Save("assets") \o Put("assets", n, Local(n))
deployFiat ==
    Each(<<"DAI", "USDC", "USDT", "USDP">>, LAMBDA n : SavedLate(n, Fiat(n)))
    \o Deploy("assets", "TUSD", Fiat("TUSD"))
    \o SavedLate("BUSD", Fiat("BUSD"))

Wrap(n) == Deploy("local", Static(n), StaticAToken(n, Text("s")))
Saved(n, c) == Deploy("assets", n, c) \o Save("assets")
deployATokenDAI == Wrap("aDAI") \o SavedLate("aDAI", AToken("aDAI", "DAI"))
deployATokens ==
    Each(<<<<"aUSDC", "USDC">>, <<"aUSDT", "USDT">>, <<"aBUSD", "BUSD">>, <<"aUSDP", "USDP">>>>,
         LAMBDA t : Wrap(t[1]) \o Saved(t[1], AToken(t[1], t[2])))
deployCTokens ==
    Each(<<<<"cDAI", "DAI">>, <<"cUSDC", "USDC">>, <<"cUSDT", "USDT">>, <<"cUSDP", "USDP">>>>,
         LAMBDA t : Saved(t[1], CToken(t[1], t[2])))

cWBTC == Run(ctokenNonFiat, Pegged,
             [referenceUnitFeed |-> Feed("WBTC"), targetUnitFeed |-> Feed("BTC"),
              cToken |-> Token("cWBTC"), comptroller |-> Service("COMPTROLLER")], oracleLib)
cETH == Run(ctokenSelfReferential, Judged \cup {"decimals"},
            [priceFeed |-> Feed("ETH"), cToken |-> Token("cETH"),
             comptroller |-> Service("COMPTROLLER")], oracleLib)
wBTC == Run(nonFiat, Pegged,
            [referenceUnitFeed |-> Feed("WBTC"), targetUnitFeed |-> Feed("BTC"),
             tokenAddress |-> Token("WBTC")], oracleLib)
wETH == Run(selfReferential, Judged,
            [priceFeed |-> Feed("ETH"), tokenAddress |-> Token("WETH")], oracleLib)
EURT == Run(eurFiat, Pegged,
            [referenceUnitFeed |-> Feed("EURT"), targetUnitFeed |-> Feed("EUR"),
             tokenAddress |-> Token("EURT")], oracleLib)
deployOthers ==
    Saved("cWBTC", cWBTC) \o Saved("cETH", cETH) \o Saved("WBTC", wBTC)
    \o Saved("WETH", wETH) \o Saved("EURT", EURT)

\* It passes erc20, allowedBasisPoints and no oracleLib.
deployIcETH ==
    Saved("ICETH", Run(icETH, Pegged \cup {"allowedBasisPoints"},
                       [chainlinkFeed |-> Feed("ETH"), stETHFeed |-> Feed("STETH"),
                        erc20 |-> Token("ICETH")], Nothing))
deployCollateral ==
    Load("phase1") \o Load("assets")
    \o deployFiat \o deployATokenDAI \o deployATokens \o deployCTokens
    \o deployOthers \o deployIcETH

(***************************************************************************)
(* Phase 3                                                                 *)
(***************************************************************************)
setupPhase3 ==
    Refuse("rtoken") \o Load("phase1") \o validatePrerequisites
    \o Check("phase1", {"facadeWrite"})
    \o Put("rtoken", "facadeWrite", Entry("phase1", "facadeWrite"))
    \o Save("rtoken")

\* FacadeWrite.deployRToken() asks that every beneficiary has a share; the
\* one of the script has none, and the call reverts.  Of the contracts it
\* would deploy only Main is kept here.
beneficiaryShares == {}
deployRToken ==
    Load("rtoken") \o Load("assets")
    \o Check("assets", {"stkAAVE", "COMP", "DAI", "aDAI", "cDAI", "USDC"})
    \o Deploy("rtoken", "main",
              [New("ERC1967Proxy", [facadeWrite |-> Entry("rtoken", "facadeWrite")])
                 EXCEPT !.lacks = {"revShare"} \ beneficiaryShares])
    \o Save("rtoken")

\* In the script a single transaction creates both contracts, after a comparison
\* of the file with the addresses Main reports, which is left out: deployRToken
\* always reverts, so that no run gets here.
governanceOf ==
    New("Governance", [stRSRProxy |-> Entry("rtoken", "stRSR"),
                       timelock |-> Entry("rtoken", "timelock")])
deployGovernance ==
    Load("rtoken") \o Check("rtoken", {"main", "rToken", "stRSR"})
    \o Deploy("rtoken", "timelock", New("TimelockController", Nothing))
    \o Deploy("rtoken", "governance", governanceOf)
    \o Save("rtoken")

(***************************************************************************)
(* Confirmation and verification.  Both commands first look for the files  *)
(* of phases 1 and 2, and neither runs on a development network.           *)
(***************************************************************************)
deploymentFiles == Public \o Load("phase1") \o Load("assets")

\* On mainnet Main must be paused, and its timelock too long to be used.
confirmComponents ==
    deploymentFiles \o Load("rtoken") \o CheckOn({"mainnet"}, "rtoken", {"main", "timelock"})
\* Whether the prices of the moment are close to the recorded ones is the
\* market's affair: the script may fail on them like on a failing service.
confirmAssets == deploymentFiles

verifyLibraries ==
    deploymentFiles
    \o Each(<<"tradingLib", "rewardableLib", "permitLib", "oracleLib">>,
            LAMBDA k : Verify("phase1", k, New(libraries[k], Nothing)))
verifyImplementations ==
    deploymentFiles
    \o Each(<<"main", "trade", "assetRegistry", "backingManager", "basketHandler", "broker",
              "distributor", "furnace", "rsrTrader", "rToken", "stRSR">>,
            LAMBDA k : Verify("phase1", k, New(implementations[k], Nothing)))
verifyRsrAsset == deploymentFiles \o VerifyOwn("phase1", "rsrAsset", "Asset")
verifyDeployer ==
    deploymentFiles \o Verify("phase1", "deployer", New("DeployerP1", deployerArgs))
verifyFacade == deploymentFiles \o Verify("phase1", "facadeRead", New("FacadeRead", Nothing))
verifyFacadeWrite ==
    deploymentFiles
    \o Verify("phase1", "facadeWriteLib", New("FacadeWriteLib", Nothing))
    \o Verify("phase1", "facadeWrite",
              New("FacadeWrite", [deployer |-> Entry("phase1", "deployer")]))

\* A plugin's arguments, without the library it is linked to; the static
\* token is looked up in the plugin, and named differently from deployATokenDAI.
VerifyPlugin(n, c) ==
    Verify("assets", n,
           [c EXCEPT !.uses = [r \in DOMAIN c.uses \ {"oracleLib"} |-> c.uses[r]]])
verifyCollateral ==
    deploymentFiles
    \o VerifyPlugin("DAI", Fiat("DAI"))
    \o Put("local", Static("aDAI"), Follow("assets", "aDAI", "staticAToken"))
    \o Verify("local", Static("aDAI"), StaticAToken("aDAI", Text("stat")))
    \o VerifyPlugin("aDAI", AToken("aDAI", "DAI"))
    \o VerifyPlugin("cDAI", CToken("cDAI", "DAI"))
    \o VerifyPlugin("cWBTC", cWBTC) \o VerifyPlugin("cETH", cETH)
    \o VerifyPlugin("WBTC", wBTC) \o VerifyPlugin("WETH", wETH) \o VerifyPlugin("EURT", EURT)

verifyRToken ==
    deploymentFiles \o Load("rtoken")
    \o Verify("rtoken", "rTokenAsset",
              New("RTokenAsset", [rTokenProxy |-> Entry("rtoken", "rToken")]))
    \o Verify("rtoken", "rToken", New("ERC1967Proxy", [rToken |-> Entry("phase1", "rToken")]))
verifyGovernance ==
    deploymentFiles \o Load("rtoken")
    \o Verify("rtoken", "timelock", New("TimelockController", Nothing))
    \o Verify("rtoken", "governance", governanceOf)

(***************************************************************************)
(* The commands: deploy.ts with phase 3 commented out, phase 3 by hand,    *)
(* confirm.ts and verify_etherscan.ts.                                     *)
(***************************************************************************)
scripts == <<
    setupPhase1, deployLibraries, deployImplementations, deployRsrAsset, deployFacade,
    deployDeployer, deployFacadeWrite, deployFacadeAct,
    setupPhase2, deployAssets, deployCollateral,
    setupPhase3, deployRToken, deployGovernance,
    confirmComponents, confirmAssets,
    verifyLibraries, verifyImplementations, verifyRsrAsset, verifyDeployer, verifyFacade,
    verifyFacadeWrite, verifyCollateral, verifyRToken, verifyGovernance >>
deploy == [first |-> 1, last |-> 11]
phase3 == [first |-> 12, last |-> 14]
confirm == [first |-> 15, last |-> 16]
verify_etherscan == [first |-> 17, last |-> 25]
=============================================================================
