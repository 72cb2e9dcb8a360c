----------------------- MODULE CollateralPlugin -----------------------
(***************************************************************************)
(* The life of one collateral plugin of any class: anybody may refresh it  *)
(* at any time, the feeds and the underlying protocol may read anything,   *)
(* and time runs towards its deadline.  `latest' and `peak' record, for    *)
(* the properties, the true rate at the last refresh that could measure it *)
(* and the highest so far.                                                 *)
(***************************************************************************)
EXTENDS Collateral

CONSTANTS
    Kinds,                      \* the classes to look at
    Feeds, Seconds, Rates       \* the readings

ASSUME ReadingAssumption ==
    Kinds \subseteq Classes /\ Feeds \subseteq Nat /\ Seconds \subseteq Nat /\ Rates \subseteq Nat

VARIABLES class, plugin, latest, peak

pluginVars == <<class, plugin, latest, peak>>

Readings == [feed: Feeds, second: Seconds, rate: Rates]

\* {ref/tok} of the underlying, when the feeds it takes to know it work
Measurable(r) == class # "icETH" \/ Works(r.second)
TrueRate(r) == IF class \in Lending THEN r.rate
               ELSE IF class = "icETH" THEN DivRound(r.rate * r.second, FIX_ONE)
               ELSE FIX_ONE

PluginInit ==
    /\ class \in Kinds
    /\ \E r \in Readings : plugin = New(class, r)
    /\ latest = plugin.rate /\ peak = plugin.rate

PluginRefresh ==
    \E r \in Readings :
        /\ plugin' = refresh(class, plugin, r)
        /\ IF Measurable(r) /\ ~alreadyDefaulted(plugin)
           THEN latest' = TrueRate(r) /\ peak' = fixMax(peak, TrueRate(r))
           ELSE UNCHANGED <<latest, peak>>
        /\ UNCHANGED class

\* block.timestamp advances
PluginElapse ==
    /\ status(plugin) = "IFFY"
    /\ plugin' = Aged(plugin)
    /\ UNCHANGED <<class, latest, peak>>

PluginNext == PluginRefresh \/ PluginElapse

PluginSpec == PluginInit /\ [][PluginNext]_pluginVars
FairPluginSpec == PluginSpec /\ WF_pluginVars(PluginElapse)

----------------------------------------------------------------------
\* Every variable has its type.
PluginTypeOK == /\ class \in Kinds
                /\ plugin \in Plugin
                /\ latest \in Nat /\ peak \in Nat

\* What a rate may be without being a fall from the peak: all of it for a lending
\* plugin; for hidden revenue the discounted peak, to the precision of Discounted.
Margin == BASIS_POINTS - allowedDrop
Slack  == FIX_ONE \div 2
FarBelow(rate, top) ==
    IF class = "icETH" THEN rate * BASIS_POINTS + Slack + BASIS_POINTS <= top * Margin
    ELSE rate < top

\* No fall of the underlying rate beyond what is hidden escapes the refreshes, in any
\* order of rises, dips, silent feeds and lost pegs: a plugin that is not DISABLED is
\* worth its share of the best rate ever measured (refresh() of the lending plugins and
\* of RevenueHiding; docs/collateral.md, "Collateral must default if refPerTok() falls").
FallsAreNoticed == ~alreadyDefaulted(plugin) => ~FarBelow(latest, peak)

\* Each plugin keeps what AbstractCollateral promises to those who call refresh(): a
\* default is final whatever is read later, the rate it reports never falls without one,
\* and doubts add up to delayUntilDefault seconds at most, refreshed or not.
IffyFor == IF status(plugin) = "IFFY" THEN delayUntilDefault - plugin.whenDefault ELSE 0
Promise == INSTANCE CollateralPromise WITH
    Delay <- delayUntilDefault, standing <- status(plugin),
    rate <- refPerTok(class, plugin), iffyFor <- IffyFor
PromiseKept == Promise!Spec

\* IFFY does not last: time alone, with whoever refreshes as often as they like, ends it
\* in SOUND or DISABLED (markStatus() keeps the earliest deadline).
IffyIsTemporary == (status(plugin) = "IFFY") ~> (status(plugin) # "IFFY")

\* A refresh makes a plugin DISABLED at once only when the rate could be measured and
\* has fallen below its share of the peak; anything else that looks like trouble, a
\* silent feed above all, has to go through IFFY (docs/collateral.md:379-382).
HardDefaultHasCause ==
    [][(plugin.whenDefault > 1 /\ alreadyDefaulted(plugin'))
       => IF class = "icETH" THEN latest' * BASIS_POINTS < peak' * Margin + Slack
          ELSE latest' < peak']_pluginVars
=======================================================================
