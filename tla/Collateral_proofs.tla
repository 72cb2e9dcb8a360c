-------------------- MODULE Collateral_proofs -----------------------
(***************************************************************************)
(* Proofs about the collateral.  CollateralPlugin, for plugins of every    *)
(* class with any threshold, delay, fallback price and allowed drop, and   *)
(* any readings: types, the promise of AbstractCollateral, and that no     *)
(* fall is missed.  BasketHandler, for any registry, plugins and           *)
(* configurations: types, what a switch puts in place, and that a basket   *)
(* keeps its price under one nonce; both stand on what a refresh does.     *)
(***************************************************************************)
EXTENDS CollateralPlugin, BasketHandler, DataLemmas, SequenceTheorems

----------------------------------------------------------------------
\* The discount

\* What is left of a rate after the drop that is allowed is a number.
LEMMA DiscountIsNat ==
    ASSUME NEW m \in Nat
    PROVE  /\ m * Margin \in Nat
           /\ DivRound(m * Margin, FIX_ONE) \in Nat
           /\ DivRound(m * Margin, FIX_ONE) * FIX_ONE \in Nat
           /\ Discounted(m) \in Nat
<1>1. Margin \in Nat /\ FIX_ONE \in Nat \ {0} /\ BASIS_POINTS \in Nat \ {0}
  BY CollateralAssumption DEF Margin
<1>2. m * Margin \in Nat
  BY <1>1
<1>3. DivRound(m * Margin, FIX_ONE) \in Nat
  BY <1>1, <1>2, DivRoundBounds
<1>4. DivRound(m * Margin, FIX_ONE) * FIX_ONE \in Nat
  BY <1>1, <1>3
<1>5. Discounted(m) = (DivRound(m * Margin, FIX_ONE) * FIX_ONE) \div BASIS_POINTS
  BY DEF Discounted, Margin
<1> QED BY <1>1, <1>2, <1>3, <1>4, <1>5, DivFloor

\* A higher maximum is not discounted to less.
LEMMA DiscountMono ==
    ASSUME NEW m \in Nat, NEW n \in Nat, m <= n
    PROVE  Discounted(m) <= Discounted(n)
<1>1. Margin \in Nat /\ FIX_ONE \in Nat \ {0} /\ BASIS_POINTS \in Nat \ {0}
  BY CollateralAssumption DEF Margin
<1>2. m * Margin \in Nat /\ n * Margin \in Nat /\ m * Margin <= n * Margin
  BY <1>1, MulMono
<1>3. DivRound(m * Margin, FIX_ONE) <= DivRound(n * Margin, FIX_ONE)
  BY <1>1, <1>2, DivRoundMono
<1>4. DivRound(m * Margin, FIX_ONE) \in Nat /\ DivRound(n * Margin, FIX_ONE) \in Nat
  BY DiscountIsNat
<1>5. DivRound(m * Margin, FIX_ONE) * FIX_ONE <= DivRound(n * Margin, FIX_ONE) * FIX_ONE
  BY <1>1, <1>3, <1>4, MulMono
<1> QED BY <1>1, <1>5, DiscountIsNat, DivMono DEF Discounted, Margin

\* The discount takes no more than the allowed drop and its own roundings.
LEMMA DiscountBound ==
    ASSUME NEW m \in Nat
    PROVE  m * Margin < Discounted(m) * BASIS_POINTS + Slack + BASIS_POINTS
<1>1. Margin \in Nat /\ FIX_ONE \in Nat \ {0} /\ BASIS_POINTS \in Nat \ {0}
  BY CollateralAssumption DEF Margin
<1> DEFINE units == DivRound(m * Margin, FIX_ONE) * FIX_ONE
<1>2. m * Margin \in Nat /\ units \in Nat
  BY DiscountIsNat
<1>3. Discounted(m) = units \div BASIS_POINTS
  BY DEF Discounted, Margin
<1>4. units < Discounted(m) * BASIS_POINTS + BASIS_POINTS
  BY <1>1, <1>2, <1>3, DivFloor
<1>5. m * Margin + FIX_ONE \div 2 < units + FIX_ONE
  BY <1>1, <1>2, DivRoundBounds
<1>6. FIX_ONE - FIX_ONE \div 2 <= FIX_ONE \div 2 + 1 /\ FIX_ONE \div 2 \in Nat
  BY <1>1, SMT
<1>7. Discounted(m) * BASIS_POINTS \in Nat
  BY <1>1, DiscountIsNat
<1>8. m * Margin <= units + FIX_ONE \div 2
  BY <1>1, <1>2, <1>5, <1>6
<1> HIDE DEF units
<1> QED BY <1>1, <1>2, <1>4, <1>6, <1>7, <1>8 DEF Slack

----------------------------------------------------------------------
\* What a refresh does

\* The rate the plugin reports.
LEMMA RateIsNat ==
    ASSUME NEW k \in Classes, NEW c \in Plugin, NEW r \in Reading
    PROVE  actualRefPerTok(r) \in Nat /\ NextRate(k, c, r) \in Nat /\ c.rate <= fixMax(c.rate, actualRefPerTok(r))
<1>1. c.rate \in Nat /\ r.rate \in Nat /\ r.second \in Nat
  BY DEF Plugin, Reading
<1>2. pricePerRef(r) \in Nat
  BY <1>1, CollateralAssumption DEF pricePerRef
<1>3. r.rate * pricePerRef(r) \in Nat
  BY <1>1, <1>2
<1>4. actualRefPerTok(r) \in Nat
  BY <1>3, CollateralAssumption, DivRoundBounds DEF actualRefPerTok
<1> QED BY <1>1, <1>4 DEF NextRate, fixMax

\* What markStatus() makes of a collateral that has not defaulted.
LEMMA MarkFacts ==
    ASSUME NEW c \in Plugin, ~alreadyDefaulted(c)
    PROVE  /\ markStatus(c, "DISABLED") = [whenDefault |-> 0, rate |-> c.rate]
           /\ markStatus(c, "SOUND") = [whenDefault |-> NEVER, rate |-> c.rate]
           /\ markStatus(c, "IFFY") =
                [whenDefault |-> fixMin(delayUntilDefault, c.whenDefault), rate |-> c.rate]
  BY DEF markStatus, Plugin

\* A refresh defaults on a fall and on nothing else, and never moves a deadline away.
LEMMA RefreshFacts ==
    ASSUME NEW k \in Classes, NEW c \in Plugin, NEW r \in Reading, ~alreadyDefaulted(c)
    PROVE  /\ refresh(k, c, r) \in Plugin
           /\ refresh(k, c, r).rate = NextRate(k, c, r)
           /\ Fell(k, c, r) => refresh(k, c, r).whenDefault = 0
           /\ ~Fell(k, c, r) => refresh(k, c, r).whenDefault
                                  \in {NEVER, fixMin(delayUntilDefault, c.whenDefault)}
<1> DEFINE s == IF Fell(k, c, r) THEN "DISABLED" ELSE IF PegHolds(k, r) THEN "SOUND" ELSE "IFFY"
           w == IF Fell(k, c, r) THEN 0
                ELSE IF PegHolds(k, r) THEN NEVER ELSE fixMin(delayUntilDefault, c.whenDefault)
<1>1. markStatus(c, s) = [whenDefault |-> w, rate |-> c.rate]
  BY MarkFacts
<1>2. refresh(k, c, r) = [markStatus(c, s) EXCEPT !.rate = NextRate(k, c, r)]
  BY DEF refresh
<1>3. refresh(k, c, r) = [whenDefault |-> w, rate |-> NextRate(k, c, r)]
  BY <1>1, <1>2
<1>4. w \in 0 .. NEVER
  <2>1. c.whenDefault \in 0 .. NEVER /\ delayUntilDefault \in Nat \ {0}
    BY CollateralAssumption DEF Plugin
  <2>2. fixMin(delayUntilDefault, c.whenDefault) \in 0 .. NEVER /\ NEVER \in 0 .. NEVER
    BY <2>1 DEF fixMin, NEVER
  <2>3. 0 \in 0 .. NEVER
    BY <2>1 DEF NEVER
  <2> QED BY <2>2, <2>3
<1> QED BY <1>3, <1>4, RateIsNat DEF Plugin

\* Time brings a deadline nearer and moves nothing else.
LEMMA AgedFacts ==
    ASSUME NEW c \in Plugin
    PROVE  Aged(c) \in Plugin /\ Aged(c).rate = c.rate
<1>1. CASE status(c) = "IFFY"
  <2>1. c.whenDefault \in 1 .. delayUntilDefault
    BY <1>1, CollateralAssumption DEF status, alreadyDefaulted, Plugin, NEVER
  <2>2. Aged(c) = [c EXCEPT !.whenDefault = c.whenDefault - 1]
    BY <1>1 DEF Aged
  <2>3. c.whenDefault - 1 \in 0 .. NEVER
    BY <2>1, CollateralAssumption DEF NEVER
  <2> QED BY <2>2, <2>3 DEF Plugin
<1>2. CASE status(c) # "IFFY"
  BY <1>2 DEF Aged
<1> QED BY <1>1, <1>2

\* What a reading is made of.
LEMMA ReadingType == Readings \subseteq Reading
  BY ReadingAssumption DEF Readings, Reading

\* The underlying rate.
LEMMA TrueRateIsNat ==
    ASSUME NEW r \in Reading
    PROVE  TrueRate(r) \in Nat
<1>1. r.rate \in Nat /\ r.second \in Nat /\ FIX_ONE \in Nat \ {0}
  BY CollateralAssumption DEF Reading
<1>2. r.rate * r.second \in Nat
  BY <1>1
<1> QED BY <1>1, <1>2, DivRoundBounds DEF TrueRate

----------------------------------------------------------------------
\* Types

\* Types of the initial state.
LEMMA InitPluginTypeOK == PluginInit => PluginTypeOK
<1> SUFFICES ASSUME PluginInit PROVE PluginTypeOK
  OBVIOUS
<1>1. PICK r \in Readings : plugin = New(class, r)
  BY DEF PluginInit
<1>2. r.rate \in Nat /\ FIX_ONE \in Nat /\ NEVER \in 0 .. NEVER
  BY ReadingType, CollateralAssumption DEF Reading, NEVER
<1> QED BY <1>1, <1>2 DEF PluginInit, PluginTypeOK, New, Plugin

\* Types through every step.
LEMMA NextPluginTypeOK == PluginTypeOK /\ [PluginNext]_pluginVars => PluginTypeOK'
<1> SUFFICES ASSUME PluginTypeOK, [PluginNext]_pluginVars PROVE PluginTypeOK'
  OBVIOUS
<1>1. CASE PluginRefresh
  <2>1. PICK r \in Readings :
          /\ plugin' = refresh(class, plugin, r)
          /\ IF Measurable(r) /\ ~alreadyDefaulted(plugin)
             THEN latest' = TrueRate(r) /\ peak' = fixMax(peak, TrueRate(r))
             ELSE UNCHANGED <<latest, peak>>
          /\ UNCHANGED class
    BY <1>1 DEF PluginRefresh
  <2>2. r \in Reading /\ class \in Classes
    BY ReadingType, ReadingAssumption DEF PluginTypeOK
  <2>3. plugin' \in Plugin
    <3>1. CASE alreadyDefaulted(plugin)
      BY <2>1, <3>1 DEF refresh, PluginTypeOK
    <3>2. CASE ~alreadyDefaulted(plugin)
      BY <2>1, <2>2, <3>2, RefreshFacts DEF PluginTypeOK
    <3> QED BY <3>1, <3>2
  <2>4. TrueRate(r) \in Nat
    BY <2>2, TrueRateIsNat
  <2>5. latest' \in Nat /\ peak' \in Nat
    BY <2>1, <2>4 DEF PluginTypeOK, fixMax
  <2> QED BY <2>1, <2>3, <2>5 DEF PluginTypeOK
<1>2. CASE PluginElapse
  <2>1. plugin.whenDefault \in 1 .. delayUntilDefault
    BY <1>2, CollateralAssumption DEF PluginElapse, status, alreadyDefaulted, PluginTypeOK, Plugin, NEVER
  <2>2. plugin' = [plugin EXCEPT !.whenDefault = plugin.whenDefault - 1]
    BY <1>2 DEF PluginElapse, Aged
  <2>3. plugin.whenDefault - 1 \in 0 .. NEVER
    BY <2>1, CollateralAssumption DEF NEVER
  <2> QED BY <1>2, <2>2, <2>3 DEF PluginElapse, PluginTypeOK, Plugin
<1>3. CASE UNCHANGED pluginVars
  BY <1>3 DEF pluginVars, PluginTypeOK
<1> QED BY <1>1, <1>2, <1>3 DEF PluginNext

\* A plugin's variables keep their types, its deadline never beyond the delay.
THEOREM PluginTypeCorrect == PluginSpec => []PluginTypeOK
  BY InitPluginTypeOK, NextPluginTypeOK, PTL DEF PluginSpec

----------------------------------------------------------------------
\* No fall is missed

\* What the plugin remembers is at least the peak, and the latest rate is no fall from it.
Remembered ==
    ~alreadyDefaulted(plugin) =>
        /\ class \in Lending => latest = plugin.rate /\ peak = plugin.rate
        /\ class = "icETH" => peak <= plugin.rate /\ ~FarBelow(latest, peak)
        /\ class \notin Lending \cup {"icETH"} => latest = FIX_ONE /\ peak = FIX_ONE

PluginIInv == PluginTypeOK /\ Remembered

\* The initial state remembers its rate.
LEMMA InitRemembered == PluginInit => Remembered
<1> SUFFICES ASSUME PluginInit PROVE Remembered
  OBVIOUS
<1>1. PICK r \in Readings : plugin = New(class, r)
  BY DEF PluginInit
<1>2. BASIS_POINTS \in Nat \ {0} /\ Slack \in Nat /\ Margin \in Nat
  BY CollateralAssumption DEF Slack, Margin
<1>3. "icETH" \notin Lending
  BY DEF Lending
<1>4. class = "icETH" => latest = 0 /\ peak = 0 /\ plugin.rate = 0
  BY <1>1, <1>3 DEF PluginInit, New
<1>5. class = "icETH" => ~FarBelow(latest, peak)
  BY <1>2, <1>4 DEF FarBelow
<1>6. class \notin Lending \cup {"icETH"} => latest = FIX_ONE /\ peak = FIX_ONE
  BY <1>1 DEF PluginInit, New
<1> QED BY <1>4, <1>5, <1>6 DEF Remembered, PluginInit

\* A rate that did not fall below the discounted maximum is not far below a smaller peak.
LEMMA NotFarBelow ==
    ASSUME class = "icETH", NEW rate \in Nat, NEW top \in Nat, NEW max \in Nat,
           top <= max, Discounted(max) <= rate
    PROVE  ~FarBelow(rate, top)
<1>1. BASIS_POINTS \in Nat \ {0} /\ Slack \in Nat
  BY CollateralAssumption DEF Slack
<1>2. Discounted(top) \in Nat /\ Discounted(top) <= rate
  <2>1. Discounted(top) <= Discounted(max)
    BY DiscountMono
  <2>2. Discounted(top) \in Nat /\ Discounted(max) \in Nat
    BY DiscountIsNat
  <2> QED BY <2>1, <2>2
<1>3. Discounted(top) * BASIS_POINTS <= rate * BASIS_POINTS
  BY <1>1, <1>2, MulMono
<1>4. /\ Discounted(top) * BASIS_POINTS \in Nat /\ rate * BASIS_POINTS \in Nat
      /\ top * Margin \in Nat
  BY <1>1, <1>2, DiscountIsNat
<1>5. top * Margin < Discounted(top) * BASIS_POINTS + Slack + BASIS_POINTS
  BY DiscountBound
<1> QED BY <1>1, <1>3, <1>4, <1>5 DEF FarBelow

\* Nothing is far below itself.
LEMMA NotFarBelowSelf ==
    ASSUME class = "icETH", NEW rate \in Nat
    PROVE  ~FarBelow(rate, rate)
<1>1. BASIS_POINTS \in Nat \ {0} /\ Slack \in Nat /\ Margin \in Nat /\ Margin <= BASIS_POINTS
  BY CollateralAssumption DEF Slack, Margin
<1>2. rate * Margin <= rate * BASIS_POINTS /\ rate * Margin \in Nat /\ rate * BASIS_POINTS \in Nat
  BY <1>1, MulMono
<1> QED BY <1>1, <1>2 DEF FarBelow

\* refresh() remembers the rate it saw.
LEMMA RefreshRemembered ==
    ASSUME PluginIInv, PluginTypeOK', PluginRefresh
    PROVE  Remembered'
<1> SUFFICES ASSUME ~alreadyDefaulted(plugin')
             PROVE  /\ class' \in Lending => latest' = plugin'.rate /\ peak' = plugin'.rate
                    /\ class' = "icETH" => peak' <= plugin'.rate /\ ~FarBelow(latest, peak)'
                    /\ class' \notin Lending \cup {"icETH"} => latest' = FIX_ONE /\ peak' = FIX_ONE
  BY DEF Remembered
<1>1. PICK r \in Readings :
        /\ plugin' = refresh(class, plugin, r)
        /\ IF Measurable(r) /\ ~alreadyDefaulted(plugin)
           THEN latest' = TrueRate(r) /\ peak' = fixMax(peak, TrueRate(r))
           ELSE UNCHANGED <<latest, peak>>
        /\ UNCHANGED class
  BY DEF PluginRefresh
<1>2. /\ r \in Reading /\ class \in Classes /\ plugin \in Plugin
      /\ latest \in Nat /\ peak \in Nat /\ latest' \in Nat /\ peak' \in Nat
  BY ReadingType, ReadingAssumption DEF PluginIInv, PluginTypeOK
<1>3. ~alreadyDefaulted(plugin)
  BY <1>1 DEF refresh
<1>4. plugin'.rate = NextRate(class, plugin, r) /\ ~Fell(class, plugin, r)
  BY <1>1, <1>2, <1>3, RefreshFacts DEF alreadyDefaulted
<1>5. actualRefPerTok(r) \in Nat /\ TrueRate(r) \in Nat /\ plugin.rate \in Nat /\ r.rate \in Nat
  BY <1>2, RateIsNat, TrueRateIsNat DEF Plugin, Reading
<1>6. Remembered
  BY DEF PluginIInv
<1>7. CASE class \in Lending
  <2>1. class # "icETH"
    BY <1>7 DEF Lending
  <2>2. TrueRate(r) = r.rate /\ plugin'.rate = r.rate /\ r.rate >= plugin.rate /\ peak = plugin.rate
    BY <1>3, <1>4, <1>5, <1>6, <1>7 DEF TrueRate, NextRate, Fell, Remembered
  <2>3. latest' = r.rate /\ peak' = fixMax(peak, r.rate)
    BY <1>1, <1>3, <2>1, <2>2 DEF Measurable
  <2>4. peak' = r.rate
    BY <1>2, <1>5, <2>2, <2>3 DEF fixMax
  <2> QED BY <1>1, <1>7, <2>1, <2>2, <2>3, <2>4
<1>8. CASE class = "icETH"
  <2>0. class \notin Lending /\ class' = "icETH"
    BY <1>1, <1>8 DEF Lending
  <2>1. plugin'.rate = fixMax(plugin.rate, actualRefPerTok(r)) /\ Discounted(plugin.rate) <= actualRefPerTok(r)
    <3>1. Discounted(plugin.rate) \in Nat
      BY <1>5, DiscountIsNat
    <3> QED BY <1>4, <1>5, <1>8, <2>0, <3>1 DEF NextRate, Fell
  <2>2. peak <= plugin.rate /\ ~FarBelow(latest, peak)
    BY <1>3, <1>6, <1>8 DEF Remembered
  <2>3. CASE Measurable(r)
    <3>1. TrueRate(r) = actualRefPerTok(r)
      BY <1>8, <2>0, <2>3 DEF TrueRate, actualRefPerTok, pricePerRef, Measurable
    <3>2. latest' = actualRefPerTok(r) /\ peak' = fixMax(peak, actualRefPerTok(r))
      BY <1>1, <1>3, <2>3, <3>1
    <3>3. peak' <= plugin'.rate
      BY <1>2, <1>5, <2>1, <2>2, <3>2 DEF fixMax
    <3>4. ~FarBelow(latest', peak')
      <4>1. CASE peak' = peak
        BY <1>2, <1>5, <1>8, <2>1, <2>2, <3>2, <4>1, NotFarBelow
      <4>2. CASE peak' = actualRefPerTok(r)
        BY <1>5, <1>8, <3>2, <4>2, NotFarBelowSelf
      <4> QED BY <3>2, <4>1, <4>2 DEF fixMax
    <3> QED BY <1>1, <1>8, <2>0, <3>3, <3>4 DEF FarBelow, Margin, Slack
  <2>4. CASE ~Measurable(r)
    <3>1. latest' = latest /\ peak' = peak
      BY <1>1, <2>4
    <3>2. peak' <= plugin'.rate
      BY <1>2, <1>5, <2>1, <2>2, <3>1 DEF fixMax
    <3> QED BY <1>1, <1>8, <2>0, <2>2, <3>1, <3>2 DEF FarBelow
  <2> QED BY <2>3, <2>4
<1>9. CASE class \notin Lending \cup {"icETH"}
  <2>1. latest' = FIX_ONE /\ peak' = fixMax(peak, FIX_ONE) /\ peak = FIX_ONE
    BY <1>1, <1>3, <1>6, <1>9 DEF Measurable, TrueRate, Remembered
  <2> QED BY <1>1, <1>9, <2>1 DEF fixMax
<1> QED BY <1>7, <1>8, <1>9

\* Every step keeps the invariant.
LEMMA NextPluginIInv == PluginIInv /\ [PluginNext]_pluginVars => PluginIInv'
<1> SUFFICES ASSUME PluginIInv, [PluginNext]_pluginVars PROVE PluginIInv'
  OBVIOUS
<1>0. PluginTypeOK'
  BY NextPluginTypeOK DEF PluginIInv
<1>1. CASE PluginRefresh
  BY <1>0, <1>1, RefreshRemembered DEF PluginIInv
<1>2. CASE PluginElapse
  <2>1. plugin'.rate = plugin.rate /\ ~alreadyDefaulted(plugin)
    BY <1>2 DEF PluginElapse, Aged, status, PluginIInv, PluginTypeOK, Plugin
  <2>2. Remembered /\ UNCHANGED <<class, latest, peak>>
    BY <1>2 DEF PluginElapse, PluginIInv
  <2> QED BY <1>0, <2>1, <2>2 DEF PluginIInv, Remembered, FarBelow
<1>3. CASE UNCHANGED pluginVars
  BY <1>0, <1>3 DEF pluginVars, PluginIInv, Remembered, FarBelow
<1> QED BY <1>1, <1>2, <1>3 DEF PluginNext

\* Whatever the feeds, the pool and the lending protocol read, in any order of refreshes:
\* a plugin of any class that is not DISABLED is worth its share of the best rate measured.
THEOREM FallsAlwaysNoticed == PluginSpec => []FallsAreNoticed
<1>1. PluginInit => PluginIInv
  BY InitPluginTypeOK, InitRemembered DEF PluginIInv
<1>2. PluginIInv => FallsAreNoticed
  <2> SUFFICES ASSUME PluginIInv PROVE FallsAreNoticed
    OBVIOUS
  <2>1. "icETH" \notin Lending /\ latest \in Nat /\ peak \in Nat
    BY DEF Lending, PluginIInv, PluginTypeOK
  <2> QED BY <2>1, CollateralAssumption DEF PluginIInv, Remembered, FallsAreNoticed, FarBelow
<1> QED BY <1>1, <1>2, NextPluginIInv, PTL DEF PluginSpec

----------------------------------------------------------------------
\* The promise of AbstractCollateral

\* Without a fall, the reported rate is at least what it was.
LEMMA ReportedGrows ==
    ASSUME NEW k \in Classes, NEW c \in Plugin, NEW r \in Reading, NEW d \in Plugin,
           d.rate = NextRate(k, c, r), ~Fell(k, c, r)
    PROVE  /\ refPerTok(k, c) \in Nat /\ refPerTok(k, d) \in Nat
           /\ refPerTok(k, c) <= refPerTok(k, d)
<1>1. /\ c.rate \in Nat /\ d.rate \in Nat /\ r.rate \in Nat
      /\ actualRefPerTok(r) \in Nat /\ c.rate <= fixMax(c.rate, actualRefPerTok(r))
  BY RateIsNat DEF Plugin, Reading
<1>2. CASE k = "icETH"
  <2>1. d.rate = fixMax(c.rate, actualRefPerTok(r))
    BY <1>2 DEF NextRate, Lending
  <2>2. Discounted(c.rate) <= Discounted(d.rate)
    BY <1>1, <2>1, DiscountMono
  <2> QED BY <1>1, <1>2, <2>2, DiscountIsNat DEF refPerTok
<1>3. CASE k # "icETH"
  BY <1>1, <1>3 DEF refPerTok, NextRate, Fell
<1> QED BY <1>2, <1>3

\* The reported rate.
LEMMA ReportedIsNat ==
    ASSUME NEW k, NEW c \in Plugin
    PROVE  refPerTok(k, c) \in Nat
<1>1. c.rate \in Nat
  BY DEF Plugin
<1> QED BY <1>1, DiscountIsNat DEF refPerTok

\* The initial state is one of the promise.
LEMMA InitPromise == PluginInit => Promise!Init
<1> SUFFICES ASSUME PluginInit PROVE Promise!Init
  OBVIOUS
<1>1. PICK r \in Readings : plugin = New(class, r)
  BY DEF PluginInit
<1>2. status(plugin) = "SOUND" /\ IffyFor = 0
  BY <1>1 DEF New, status, IffyFor
<1>3. refPerTok(class, plugin) \in Nat
  BY InitPluginTypeOK, ReportedIsNat DEF PluginTypeOK
<1> QED BY <1>2, <1>3 DEF Promise!Init

\* Every refresh is a judgement or a default, or changes nothing that is promised.
LEMMA RefreshKeepsPromise ==
    ASSUME PluginTypeOK, PluginTypeOK', PluginRefresh
    PROVE  Promise!Next \/ UNCHANGED Promise!vars
<1>1. PICK r \in Readings : plugin' = refresh(class, plugin, r) /\ UNCHANGED class
  BY DEF PluginRefresh
<1>2. r \in Reading /\ class \in Classes /\ plugin \in Plugin /\ plugin' \in Plugin
  BY ReadingType, ReadingAssumption DEF PluginTypeOK
<1>3. refPerTok(class, plugin) \in Nat /\ refPerTok(class', plugin') \in Nat
  BY <1>2, ReportedIsNat
<1>4. CASE alreadyDefaulted(plugin)
  <2>1. plugin' = plugin
    BY <1>1, <1>4 DEF refresh
  <2> QED BY <1>1, <2>1 DEF Promise!vars, IffyFor
<1>5. CASE ~alreadyDefaulted(plugin) /\ Fell(class, plugin, r)
  <2>1. plugin'.whenDefault = 0
    BY <1>1, <1>2, <1>5, RefreshFacts
  <2>2. status(plugin') = "DISABLED" /\ IffyFor' = 0 /\ status(plugin) # "DISABLED"
    BY <1>5, <2>1, CollateralAssumption DEF status, IffyFor, alreadyDefaulted, NEVER
  <2> QED BY <1>3, <2>2 DEF Promise!Next, Promise!Default
<1>6. CASE ~alreadyDefaulted(plugin) /\ ~Fell(class, plugin, r)
  <2>1. /\ plugin'.rate = NextRate(class, plugin, r)
        /\ plugin'.whenDefault \in {NEVER, fixMin(delayUntilDefault, plugin.whenDefault)}
    BY <1>1, <1>2, <1>6, RefreshFacts
  <2>2. refPerTok(class, plugin) <= refPerTok(class', plugin')
    BY <1>1, <1>2, <1>6, <2>1, ReportedGrows
  <2>3. plugin.whenDefault \in 1 .. NEVER /\ delayUntilDefault \in Nat \ {0} /\ NEVER = delayUntilDefault + 1
    BY <1>2, <1>6, CollateralAssumption DEF Plugin, alreadyDefaulted, NEVER
  <2>4. status(plugin) # "DISABLED"
    BY <2>3, <1>6 DEF status
  <2>5. CASE plugin'.whenDefault = NEVER
    <3>1. status(plugin') = "SOUND" /\ IffyFor' = 0
      BY <2>5 DEF status, IffyFor
    <3> QED BY <1>3, <2>2, <2>4, <3>1 DEF Promise!Next, Promise!Judge
  <2>6. CASE plugin'.whenDefault = fixMin(delayUntilDefault, plugin.whenDefault)
    <3>1. plugin'.whenDefault \in 1 .. delayUntilDefault
      BY <2>3, <2>6 DEF fixMin
    <3>2. status(plugin') = "IFFY" /\ IffyFor' = delayUntilDefault - plugin'.whenDefault
      BY <2>3, <3>1 DEF status, IffyFor, alreadyDefaulted
    <3>3. CASE plugin.whenDefault = NEVER
      <4>1. IffyFor = 0 /\ IffyFor' = 0
        BY <2>3, <2>6, <3>2, <3>3 DEF status, IffyFor, fixMin
      <4> QED BY <1>3, <2>2, <2>4, <3>2, <4>1 DEF Promise!Next, Promise!Judge
    <3>4. CASE plugin.whenDefault # NEVER
      <4>1. plugin'.whenDefault = plugin.whenDefault
        BY <2>3, <2>6, <3>4 DEF fixMin
      <4>2. IffyFor' = IffyFor
        BY <3>2, <4>1, <2>3, <3>4 DEF IffyFor, status, alreadyDefaulted
      <4> QED BY <1>3, <2>2, <2>4, <3>2, <4>2 DEF Promise!Next, Promise!Judge
    <3> QED BY <3>3, <3>4
  <2> QED BY <2>1, <2>5, <2>6
<1> QED BY <1>4, <1>5, <1>6

\* Time passing is the promise's own wait.
LEMMA ElapseKeepsPromise ==
    ASSUME PluginTypeOK, PluginTypeOK', PluginElapse
    PROVE  Promise!Wait
<1>1. status(plugin) = "IFFY" /\ plugin' = [plugin EXCEPT !.whenDefault = plugin.whenDefault - 1] /\ class' = class
  BY DEF PluginElapse, Aged
<1>2. /\ plugin.whenDefault \in 1 .. delayUntilDefault /\ NEVER = delayUntilDefault + 1
      /\ delayUntilDefault \in Nat \ {0} /\ plugin \in Plugin
  BY <1>1, CollateralAssumption DEF status, alreadyDefaulted, PluginTypeOK, Plugin, NEVER
<1>3. plugin'.whenDefault = plugin.whenDefault - 1 /\ plugin'.rate = plugin.rate
  BY <1>1, <1>2 DEF Plugin
<1>4. refPerTok(class', plugin') = refPerTok(class, plugin)
  BY <1>1, <1>3 DEF refPerTok
<1>5. IffyFor = delayUntilDefault - plugin.whenDefault
  BY <1>1 DEF IffyFor
<1>6. CASE plugin.whenDefault = 1
  <2>1. status(plugin') = "DISABLED" /\ IffyFor' = 0
    BY <1>2, <1>3, <1>6 DEF status, alreadyDefaulted, IffyFor
  <2>2. ~(IffyFor + 1 < delayUntilDefault)
    BY <1>2, <1>5, <1>6
  <2> QED BY <1>1, <1>4, <2>1, <2>2 DEF Promise!Wait
<1>7. CASE plugin.whenDefault # 1
  <2>1. status(plugin') = "IFFY"
    BY <1>2, <1>3, <1>7 DEF status, alreadyDefaulted
  <2>2. IffyFor' = IffyFor + 1
    BY <1>2, <1>3, <1>5, <2>1 DEF IffyFor
  <2>3. IffyFor + 1 < delayUntilDefault
    BY <1>2, <1>5, <1>7
  <2> QED BY <1>1, <1>4, <2>1, <2>2, <2>3 DEF Promise!Wait
<1> QED BY <1>6, <1>7

\* Every plugin implements the promise: its defaults are final, the rate it reports never
\* falls without one, and its doubts add up to delayUntilDefault seconds at most.
THEOREM PromiseAlwaysKept == PluginSpec => PromiseKept
<1>1. PluginInit => Promise!Init
  BY InitPromise
<1>2. PluginTypeOK /\ PluginTypeOK' /\ [PluginNext]_pluginVars => [Promise!Next]_(Promise!vars)
  <2> SUFFICES ASSUME PluginTypeOK, PluginTypeOK', [PluginNext]_pluginVars PROVE [Promise!Next]_(Promise!vars)
    OBVIOUS
  <2>1. CASE PluginRefresh
    BY <2>1, RefreshKeepsPromise
  <2>2. CASE PluginElapse
    BY <2>2, ElapseKeepsPromise DEF Promise!Next
  <2>3. CASE UNCHANGED pluginVars
    BY <2>3 DEF pluginVars, Promise!vars, IffyFor
  <2> QED BY <2>1, <2>2, <2>3 DEF PluginNext
<1> QED BY <1>1, <1>2, PluginTypeCorrect, PTL DEF PluginSpec, Promise!Spec, PromiseKept

----------------------------------------------------------------------
\* The basket handler: what is chosen

\* Weights of configured tokens add up to a number.
LEMMA WeightIsNat ==
    ASSUME TypeOK, NEW S \in SUBSET Configured
    PROVE  /\ IsFiniteSet(S) /\ Weight(S) \in Nat
           /\ \A e \in S : targetAmts[e] \in Nat \ {0} /\ targetAmts[e] <= Weight(S)
<1>1. IsFiniteSet(S)
  <2>1. S \in SUBSET ERC20s
    BY DEF TypeOK
  <2> QED BY <2>1, BasketAssumption, FS_Subset
<1>2. \A e \in S : targetAmts[e] \in Nat \ {0}
  BY DEF TypeOK
<1>3. \A e \in S : targetAmts[e] \in Nat
  BY <1>2
<1> QED BY <1>1, <1>2, <1>3, SumOnNat DEF Weight

\* The prime tokens of a target are those that are good and those to make up for.
LEMMA WeightSplit ==
    ASSUME TypeOK, NEW c, NEW tgt
    PROVE  /\ Needed(c, tgt) \in Nat
           /\ Weight({e \in GoodPrime(c) : targetNames[e] = tgt}) \in Nat
           /\ Weight({e \in Configured : targetNames[e] = tgt})
                = Weight({e \in GoodPrime(c) : targetNames[e] = tgt}) + Needed(c, tgt)
<1> DEFINE good == {e \in GoodPrime(c) : targetNames[e] = tgt}
           bad  == {e \in Configured \ GoodPrime(c) : targetNames[e] = tgt}
           all  == {e \in Configured : targetNames[e] = tgt}
<1>1. good \in SUBSET Configured /\ bad \in SUBSET Configured /\ all = good \cup bad /\ good \cap bad = {}
  BY DEF GoodPrime
<1>2. IsFiniteSet(good) /\ IsFiniteSet(bad) /\ Weight(good) \in Nat /\ Weight(bad) \in Nat
  BY <1>1, WeightIsNat
<1>3. \A e \in good \cup bad : targetAmts[e] \in Int
  BY <1>1 DEF TypeOK
<1>4. Needed(c, tgt) = Weight(bad)
  BY DEF Needed
<1> HIDE DEF good, bad
<1>5. Weight(good \cup bad) = Weight(good) + Weight(bad)
  BY <1>1, <1>2, <1>3, SumUnion DEF Weight
<1> QED BY <1>1, <1>2, <1>4, <1>5 DEF good

\* Backups are good collateral of their target, and no more of them than are allowed.
LEMMA BackupsAreGood ==
    ASSUME TypeOK, NEW c, NEW tgt \in Targets
    PROVE  /\ IsFiniteSet(BackupsFor(c, tgt))
           /\ Cardinality(BackupsFor(c, tgt)) \in Nat
           /\ Cardinality(BackupsFor(c, tgt)) <= backups[tgt].max
           /\ \A e \in BackupsFor(c, tgt) : e \in ERC20s /\ goodCollateral(c, tgt, e)
<1> DEFINE list == backups[tgt].erc20s
           max  == backups[tgt].max
           good == {i \in DOMAIN list : goodCollateral(c, tgt, list[i])}
           before(i) == {j \in good : j < i}
           taken == {i \in good : Cardinality(before(i)) < max}
<1>1. list \in Seq(ERC20s) /\ max \in Nat /\ DOMAIN list = 1 .. Len(list) /\ Len(list) \in Nat
  BY DEF TypeOK
<1>2. BackupsFor(c, tgt) = {list[i] : i \in taken}
  BY DEF BackupsFor
<1>3. /\ \A i \in taken : goodCollateral(c, tgt, list[i]) /\ list[i] \in ERC20s
      /\ taken \subseteq good /\ good \subseteq 1 .. Len(list)
  BY <1>1
<1>4. IsFiniteSet(good) /\ IsFiniteSet(taken)
  <2>1. IsFiniteSet(1 .. Len(list))
    BY <1>1, FS_Interval
  <2>2. IsFiniteSet(good)
    <3> HIDE DEF good
    <3> QED BY <1>3, <2>1, FS_Subset
  <2> QED BY <1>3, <2>2, FS_Subset
<1>5. Cardinality(taken) \in Nat
  BY <1>4, FS_CardinalityType
<1>6. Cardinality(taken) <= max
  <2>1. CASE taken = {}
    <3>1. Cardinality(taken) = 0
      <4> HIDE DEF taken
      <4> QED BY <2>1, FS_EmptySet
    <3> QED BY <1>1, <3>1
  <2>2. CASE taken # {}
    <3>1. taken \subseteq 0 .. Len(list)
      <4> HIDE DEF taken, good
      <4> QED BY <1>1, <1>3
    <3>2. PICK m \in taken : \A i \in taken : i <= m
      <4> HIDE DEF taken
      <4> QED BY <1>1, <2>2, <3>1, GreatestNat
    <3>3. taken \ {m} \subseteq before(m)
      <4> SUFFICES ASSUME NEW i \in taken, i # m PROVE i \in good /\ i < m
        OBVIOUS
      <4>1. i <= m /\ i \in Nat /\ m \in Nat
        BY <3>1, <3>2
      <4> QED BY <4>1
    <3>4. Cardinality(before(m)) < max
      BY <3>2
    <3>5. IsFiniteSet(before(m))
      BY <1>4, FS_Subset
    <3>6. Cardinality(taken \ {m}) <= Cardinality(before(m)) /\ Cardinality(before(m)) \in Nat
      <4> HIDE DEF taken, before
      <4> QED BY <3>3, <3>5, FS_Subset, FS_CardinalityType
    <3>7. Cardinality(taken \ {m}) = Cardinality(taken) - 1
      <4> HIDE DEF taken
      <4> QED BY <1>4, <3>2, FS_RemoveElement
    <3> HIDE DEF taken, before, max
    <3> QED BY <1>1, <1>5, <3>4, <3>6, <3>7
  <2> QED BY <2>1, <2>2
<1> HIDE DEF list, taken
<1>7. IsFiniteSet({list[i] : i \in taken}) /\ Cardinality({list[i] : i \in taken}) <= Cardinality(taken)
  BY <1>4, ImageBound
<1>8. Cardinality({list[i] : i \in taken}) \in Nat
  BY <1>7, FS_CardinalityType
<1>9. Cardinality(BackupsFor(c, tgt)) <= max
  BY <1>1, <1>2, <1>5, <1>6, <1>7, <1>8
<1> QED BY <1>2, <1>3, <1>7, <1>8, <1>9

\* Each backup takes its share, rounded up, of what is needed.
LEMMA BackupWeightFacts ==
    ASSUME TypeOK, NEW c, NEW tgt \in Targets, NEW e
    PROVE  /\ BackupWeight(c, tgt, e) \in Nat
           /\ BackupWeight(c, tgt, e) <= Needed(c, tgt)
           /\ BackupWeight(c, tgt, e) > 0 <=> Needed(c, tgt) > 0 /\ e \in BackupsFor(c, tgt)
<1> DEFINE n == Cardinality(BackupsFor(c, tgt))
           q == Needed(c, tgt)
<1>1. q \in Nat /\ n \in Nat /\ IsFiniteSet(BackupsFor(c, tgt))
  BY WeightSplit, BackupsAreGood
<1>2. CASE q > 0 /\ e \in BackupsFor(c, tgt)
  <2>1. n \in Nat \ {0}
    BY <1>1, <1>2, FS_EmptySet
  <2>2. BackupWeight(c, tgt, e) = DivUp(q, n)
    BY <1>2 DEF BackupWeight
  <2> HIDE DEF n, q
  <2>3. DivUp(q, n) \in Nat /\ DivUp(q, n) > 0
    BY <1>1, <1>2, <2>1, DivUpBounds, DivUpPositive
  <2>4. DivUp(q, n) <= q
    <3>1. q <= q * n
      BY <1>1, <2>1
    <3> QED BY <1>1, <2>1, <3>1, DivUpLeast
  <2> QED BY <1>2, <2>2, <2>3, <2>4 DEF q
<1>3. CASE ~(q > 0 /\ e \in BackupsFor(c, tgt))
  <2>1. BackupWeight(c, tgt, e) = 0
    BY <1>3 DEF BackupWeight
  <2> QED BY <1>1, <1>3, <2>1
<1> QED BY <1>2, <1>3

\* The targets of the prime basket.
LEMMA TargetsTyped ==
    ASSUME TypeOK
    PROVE  TargetSet \subseteq Targets /\ IsFiniteSet(TargetSet)
<1>1. IsFiniteSet(Configured)
  BY WeightIsNat
<1>2. IsFiniteSet({targetNames[e] : e \in Configured})
  BY <1>1, ImageBound
<1>3. TargetSet \subseteq Targets
  BY DEF TargetSet, TypeOK
<1> QED BY <1>2, <1>3 DEF TargetSet

\* A token is weighed for the target its plugin has and for no other.
LEMMA NewWeightFacts ==
    ASSUME TypeOK, NEW c, NEW e \in ERC20s
    PROVE  /\ NewWeight(c, e) \in Nat
           /\ NewWeight(c, e) > 0 =>
                IsColl(e) /\ StatusOf(c, e) # "DISABLED" /\ targetOf[assets[e]] \in TargetSet
           /\ \A tgt \in TargetSet : targetOf[assets[e]] = tgt =>
                NewWeight(c, e) = (IF e \in GoodPrime(c) THEN targetAmts[e] ELSE 0)
                                    + BackupWeight(c, tgt, e)
<1> DEFINE f == [tgt \in TargetSet |-> BackupWeight(c, tgt, e)]
           own == targetOf[assets[e]]
           prime == IF e \in GoodPrime(c) THEN targetAmts[e] ELSE 0
<1>1. TargetSet \subseteq Targets /\ IsFiniteSet(TargetSet)
  BY TargetsTyped
<1>2. /\ prime \in Nat
      /\ prime > 0 => own \in TargetSet /\ IsColl(e) /\ StatusOf(c, e) # "DISABLED"
  BY DEF GoodPrime, goodCollateral, TargetSet, TypeOK
<1>3. ASSUME NEW tgt \in TargetSet
      PROVE  /\ f[tgt] \in Nat
             /\ f[tgt] > 0 => own = tgt /\ IsColl(e) /\ StatusOf(c, e) # "DISABLED"
  <2>1. /\ BackupWeight(c, tgt, e) \in Nat
        /\ BackupWeight(c, tgt, e) > 0 => e \in BackupsFor(c, tgt)
    BY <1>1, BackupWeightFacts
  <2>2. e \in BackupsFor(c, tgt) => goodCollateral(c, tgt, e)
    BY <1>1, BackupsAreGood
  <2> QED BY <2>1, <2>2 DEF goodCollateral
<1>4. NewWeight(c, e) = prime + SumFunction(f)
  BY DEF NewWeight
<1>5. f \in [TargetSet -> Nat] /\ DOMAIN f = TargetSet
  BY <1>3
<1> HIDE DEF prime, f, own
<1>6. SumFunction(f) \in Nat /\ ((\A tgt \in TargetSet : f[tgt] = 0) => SumFunction(f) = 0)
  BY <1>1, <1>5, SumNat
<1>7. ASSUME own \in TargetSet
      PROVE  SumFunction(f) = f[own]
  <2>1. SumFunction(f) = SumFunctionOnSet(f, TargetSet)
    BY <1>5 DEF SumFunction
  <2>2. {own} \in SUBSET TargetSet
    BY <1>7
  <2>3. \A tgt \in TargetSet \ {own} : f[tgt] = 0
    BY <1>3
  <2>4. SumFunctionOnSet(f, TargetSet) = SumFunctionOnSet(f, {own})
    BY <1>1, <1>3, <1>7, <2>2, <2>3, SumSupport
  <2>5. IsFiniteSet({own}) /\ Cardinality({own}) = 1
    BY FS_Singleton
  <2>6. \A y \in {own} : f[y] = f[own]
    OBVIOUS
  <2>7. f[own] \in Nat
    BY <1>3, <1>7
  <2>8. SumFunctionOnSet(f, {own}) = Cardinality({own}) * f[own]
    BY <2>5, <2>6, <2>7, SumEqual
  <2> QED BY <2>1, <2>4, <2>5, <2>7, <2>8
<1>8. ASSUME NewWeight(c, e) > 0
      PROVE  IsColl(e) /\ StatusOf(c, e) # "DISABLED" /\ own \in TargetSet
  <2>1. CASE prime > 0
    BY <1>2, <2>1
  <2>2. CASE ~(prime > 0)
    <3>1. PICK tgt \in TargetSet : f[tgt] # 0
      BY <1>2, <1>4, <1>6, <1>8, <2>2
    <3> QED BY <1>3, <3>1
  <2> QED BY <2>1, <2>2
<1>9. ASSUME NEW tgt \in TargetSet, own = tgt
      PROVE  NewWeight(c, e) = prime + BackupWeight(c, tgt, e)
  BY <1>4, <1>7, <1>9 DEF f
<1>10. NewWeight(c, e) \in Nat
  BY <1>2, <1>4, <1>6
<1> QED BY <1>8, <1>9, <1>10 DEF own, prime

\* What is put in place of the old basket has positive weights.
LEMMA NewBasketTyped ==
    ASSUME TypeOK, NEW c
    PROVE  /\ DOMAIN newBasket(c) \subseteq ERC20s
           /\ newBasket(c) \in [DOMAIN newBasket(c) -> Nat \ {0}]
           /\ \A e \in ERC20s : e \in DOMAIN newBasket(c) <=> NewWeight(c, e) > 0
           /\ \A e \in DOMAIN newBasket(c) : newBasket(c)[e] = NewWeight(c, e)
<1> DEFINE W == [e \in ERC20s |-> NewWeight(c, e)]
           D == {e \in ERC20s : W[e] > 0}
<1>1. newBasket(c) = [e \in D |-> W[e]]
  BY DEF newBasket
<1>2. \A e \in ERC20s : W[e] = NewWeight(c, e) /\ W[e] \in Nat
  BY NewWeightFacts
<1>3. \A e \in D : W[e] \in Nat \ {0}
  BY <1>2
<1> HIDE DEF W
<1> QED BY <1>1, <1>2, <1>3

\* The weights of a target are the configured one and less than a unit per backup more.
LEMMA NewBasketTotal ==
    ASSUME TypeOK, NEW c, ~Unswitchable(c), NEW tgt \in TargetSet
    PROVE  LET configured == Weight({e \in Configured : targetNames[e] = tgt})
           IN  /\ configured <= Total(newBasket(c), tgt)
               /\ Total(newBasket(c), tgt) < configured + fixMax(1, backups[tgt].max)
<1> DEFINE D == DOMAIN newBasket(c)
           X == {e \in D : targetOf[assets[e]] = tgt}
           G == {e \in GoodPrime(c) : targetNames[e] = tgt}
           B == BackupsFor(c, tgt)
           q == Needed(c, tgt)
           k == DivUp(q, Cardinality(B))
           P == [e \in X |-> IF e \in GoodPrime(c) THEN targetAmts[e] ELSE 0]
           Q == [e \in X |-> BackupWeight(c, tgt, e)]
           h == newBasket(c)
<1>1. tgt \in Targets /\ TargetSet \subseteq Targets
  BY TargetsTyped
<1>2. /\ q \in Nat /\ Weight(G) \in Nat
      /\ Weight({e \in Configured : targetNames[e] = tgt}) = Weight(G) + q
  BY WeightSplit
<1>3. X \subseteq ERC20s /\ IsFiniteSet(X)
  <2>1. X \in SUBSET ERC20s
    BY NewBasketTyped
  <2> QED BY <2>1, BasketAssumption, FS_Subset
<1>4. \A e \in X : P[e] \in Nat /\ Q[e] \in Nat /\ h[e] = P[e] + Q[e]
  <2> SUFFICES ASSUME NEW e \in X PROVE P[e] \in Nat /\ Q[e] \in Nat /\ h[e] = P[e] + Q[e]
    OBVIOUS
  <2>1. h[e] = NewWeight(c, e)
    BY NewBasketTyped
  <2>2. NewWeight(c, e) = (IF e \in GoodPrime(c) THEN targetAmts[e] ELSE 0) + BackupWeight(c, tgt, e)
    BY <1>3, NewWeightFacts
  <2>3. P[e] \in Nat
    BY DEF TypeOK, GoodPrime
  <2>4. Q[e] \in Nat
    BY <1>1, BackupWeightFacts
  <2> QED BY <2>1, <2>2, <2>3, <2>4
<1>5. Total(newBasket(c), tgt) = SumFunctionOnSet(P, X) + SumFunctionOnSet(Q, X)
  <2>1. \A e \in X : P[e] \in Int /\ Q[e] \in Int /\ h[e] = P[e] + Q[e]
    BY <1>4
  <2>2. Total(newBasket(c), tgt) = SumFunctionOnSet(h, X)
    BY DEF Total
  <2> HIDE DEF P, Q, h, X
  <2> QED BY <1>3, <2>1, <2>2, SumAdds
<1>6. SumFunctionOnSet(P, X) = Weight(G)
  <2>1. G \in SUBSET X
    <3> SUFFICES ASSUME NEW e \in G PROVE e \in X
      OBVIOUS
    <3>1. e \in ERC20s /\ targetAmts[e] \in Nat \ {0} /\ targetOf[assets[e]] = tgt
      BY DEF GoodPrime, goodCollateral, TypeOK
    <3>2. NewWeight(c, e) = targetAmts[e] + BackupWeight(c, tgt, e)
      BY <3>1, NewWeightFacts
    <3>3. BackupWeight(c, tgt, e) \in Nat
      BY <1>1, BackupWeightFacts
    <3>4. e \in D
      BY <3>1, <3>2, <3>3, NewBasketTyped
    <3> QED BY <3>1, <3>4
  <2>2. \A e \in X \ G : P[e] = 0
    <3> SUFFICES ASSUME NEW e \in X \ G PROVE P[e] = 0
      OBVIOUS
    <3>1. e \notin GoodPrime(c)
      BY DEF GoodPrime, goodCollateral
    <3> QED BY <3>1
  <2>3. \A e \in G : P[e] = targetAmts[e] /\ P[e] \in Int
    <3> SUFFICES ASSUME NEW e \in G PROVE P[e] = targetAmts[e] /\ P[e] \in Int
      OBVIOUS
    <3>1. e \in X /\ e \in GoodPrime(c)
      BY <2>1
    <3>2. P[e] = targetAmts[e]
      BY <3>1
    <3>3. P[e] \in Nat
      BY <1>4, <3>1
    <3> QED BY <3>2, <3>3
  <2>4. IsFiniteSet(G)
    BY <1>3, <2>1, FS_Subset
  <2> HIDE DEF P, X, G
  <2>5. SumFunctionOnSet(P, X) = SumFunctionOnSet(P, G)
    BY <1>3, <2>1, <2>2, <2>3, SumSupport
  <2>6. SumFunctionOnSet(P, G) = SumFunctionOnSet(targetAmts, G)
    BY <2>3, <2>4, SumSame
  <2> QED BY <2>5, <2>6 DEF Weight
<1>7. CASE q = 0
  <2>1. \A e \in X : Q[e] = 0
    BY <1>7 DEF BackupWeight
  <2>2. \A e \in X : Q[e] \in Nat
    BY <1>4
  <2> HIDE DEF Q, X
  <2>3. SumFunctionOnSet(Q, X) = 0
    BY <1>3, <2>1, <2>2, SumOnNat
  <2>4. fixMax(1, backups[tgt].max) >= 1 /\ fixMax(1, backups[tgt].max) \in Nat
    BY <1>1 DEF fixMax, TypeOK
  <2> HIDE DEF P, q
  <2> QED BY <1>2, <1>5, <1>6, <1>7, <2>3, <2>4
<1>8. CASE q # 0
  <2>1. q > 0
    BY <1>2, <1>8
  <2>2. B # {}
    BY <2>1 DEF Unswitchable, Short
  <2>3. /\ IsFiniteSet(B) /\ Cardinality(B) \in Nat /\ Cardinality(B) <= backups[tgt].max
        /\ \A e \in B : e \in ERC20s /\ goodCollateral(c, tgt, e)
    BY <1>1, BackupsAreGood
  <2>4. Cardinality(B) \in Nat \ {0}
    BY <2>2, <2>3, FS_EmptySet
  <2>5. B \in SUBSET X
    <3> SUFFICES ASSUME NEW e \in B PROVE e \in X
      OBVIOUS
    <3>1. e \in ERC20s /\ targetOf[assets[e]] = tgt
      BY <2>3 DEF goodCollateral
    <3>2. BackupWeight(c, tgt, e) > 0 /\ BackupWeight(c, tgt, e) \in Nat
      BY <1>1, <2>1, BackupWeightFacts
    <3>3. (IF e \in GoodPrime(c) THEN targetAmts[e] ELSE 0) \in Nat
      BY DEF TypeOK, GoodPrime
    <3>4. NewWeight(c, e) > 0
      BY <3>1, <3>2, <3>3, NewWeightFacts
    <3> QED BY <3>1, <3>4, NewBasketTyped
  <2>6. \A e \in B : Q[e] = k
    BY <2>1, <2>5 DEF BackupWeight
  <2>7. \A e \in X \ B : Q[e] = 0
    BY DEF BackupWeight
  <2> HIDE DEF Q, X
  <2>8. k \in Nat /\ q <= k * Cardinality(B) /\ k * Cardinality(B) < q + Cardinality(B)
    BY <1>2, <2>4, DivUpBounds
  <2> HIDE DEF k, B, q
  <2>9. SumFunctionOnSet(Q, X) = SumFunctionOnSet(Q, B)
    <3>1. \A e \in B : Q[e] \in Int
      BY <2>6, <2>8
    <3> QED BY <1>3, <2>5, <2>7, <3>1, SumSupport
  <2>10. SumFunctionOnSet(Q, B) = Cardinality(B) * k
    BY <2>3, <2>6, <2>8, SumEqual
  <2>11. Cardinality(B) * k = k * Cardinality(B) /\ k * Cardinality(B) \in Nat
    BY <2>4, <2>8, MulNat
  <2>12. Cardinality(B) <= fixMax(1, backups[tgt].max) /\ fixMax(1, backups[tgt].max) \in Nat
    BY <1>1, <2>3, <2>4 DEF fixMax, TypeOK
  <2> HIDE DEF P
  <2> QED BY <1>2, <1>5, <1>6, <2>4, <2>8, <2>9, <2>10, <2>11, <2>12
<1> QED BY <1>7, <1>8

\* A basket put in place is of the configured targets and has not defaulted.
LEMMA NewBasketWhole ==
    ASSUME TypeOK, NEW c, ~Unswitchable(c)
    PROVE  /\ \A e \in DOMAIN newBasket(c) : IsColl(e) /\ StatusOf(c, e) # "DISABLED"
           /\ {targetOf[assets[e]] : e \in DOMAIN newBasket(c)} = TargetSet
<1>1. ASSUME NEW e \in DOMAIN newBasket(c)
      PROVE  IsColl(e) /\ StatusOf(c, e) # "DISABLED" /\ targetOf[assets[e]] \in TargetSet
  BY NewBasketTyped, NewWeightFacts
<1>2. ASSUME NEW tgt \in TargetSet
      PROVE  \E e \in DOMAIN newBasket(c) : targetOf[assets[e]] = tgt
  <2>1. tgt \in Targets
    BY TargetsTyped
  <2>2. PICK e \in Configured : targetNames[e] = tgt
    BY DEF TargetSet
  <2>3. e \in ERC20s /\ targetAmts[e] \in Nat \ {0}
    BY DEF TypeOK
  <2>4. CASE e \in GoodPrime(c)
    <3>1. targetOf[assets[e]] = tgt
      BY <2>2, <2>4 DEF GoodPrime, goodCollateral
    <3>2. BackupWeight(c, tgt, e) \in Nat
      BY <2>1, BackupWeightFacts
    <3>3. NewWeight(c, e) > 0
      BY <2>3, <2>4, <3>1, <3>2, NewWeightFacts
    <3> QED BY <2>3, <3>1, <3>3, NewBasketTyped
  <2>5. CASE e \notin GoodPrime(c)
    <3>1. Needed(c, tgt) > 0 /\ Needed(c, tgt) \in Nat
      <4> DEFINE bad == {d \in Configured \ GoodPrime(c) : targetNames[d] = tgt}
      <4>1. e \in bad /\ bad \in SUBSET Configured
        BY <2>2, <2>5
      <4>2. Needed(c, tgt) = Weight(bad)
        BY DEF Needed
      <4> HIDE DEF bad
      <4> QED BY <2>3, <4>1, <4>2, WeightIsNat
    <3>2. PICK b \in BackupsFor(c, tgt) : TRUE
      BY <3>1 DEF Unswitchable, Short
    <3>3. b \in ERC20s /\ targetOf[assets[b]] = tgt
      BY <2>1, BackupsAreGood DEF goodCollateral
    <3>4. BackupWeight(c, tgt, b) > 0 /\ BackupWeight(c, tgt, b) \in Nat
      BY <2>1, <3>1, BackupWeightFacts
    <3>5. (IF b \in GoodPrime(c) THEN targetAmts[b] ELSE 0) \in Nat
      BY DEF TypeOK, GoodPrime
    <3>6. NewWeight(c, b) > 0
      BY <3>3, <3>4, <3>5, NewWeightFacts
    <3> QED BY <3>3, <3>6, NewBasketTyped
  <2> QED BY <2>4, <2>5
<1> QED BY <1>1, <1>2

----------------------------------------------------------------------
\* The basket handler: types

\* A refresh of any plugins gives states of plugins.
LEMMA RefreshedTyped ==
    ASSUME TypeOK, NEW S, NEW d \in Refreshed(S)
    PROVE  d \in [Collaterals -> Plugin]
<1>1. PICK r \in Market :
        d = [a \in Collaterals |-> IF a \in S THEN refresh(classOf[a], coll[a], r[a]) ELSE coll[a]]
  BY DEF Refreshed
<1>2. ASSUME NEW a \in Collaterals
      PROVE  coll[a] \in Plugin /\ refresh(classOf[a], coll[a], r[a]) \in Plugin
  <2>1. coll[a] \in Plugin /\ classOf[a] \in Classes /\ r[a] \in Reading
    <3>1. coll[a] \in Plugin
      BY DEF TypeOK
    <3>2. classOf[a] \in Classes
      BY BasketAssumption DEF Collaterals
    <3>3. r \in [Collaterals -> Reading]
      BY BasketAssumption
    <3> QED BY <3>1, <3>2, <3>3
  <2>2. CASE alreadyDefaulted(coll[a])
    BY <2>1, <2>2 DEF refresh
  <2>3. CASE ~alreadyDefaulted(coll[a])
    BY <2>1, <2>3, RefreshFacts
  <2> QED BY <2>1, <2>2, <2>3
<1> QED BY <1>1, <1>2

\* New plugins and the empty basket.
LEMMA InitTypeOK == Init => TypeOK
<1> SUFFICES ASSUME Init PROVE TypeOK
  OBVIOUS
<1>1. PICK r \in Market : coll = [a \in Collaterals |-> New(classOf[a], r[a])]
  BY DEF Init
<1>2. coll \in [Collaterals -> Plugin]
  <2>1. ASSUME NEW a \in Collaterals
        PROVE  New(classOf[a], r[a]) \in Plugin
    <3>1. r[a].rate \in Nat /\ FIX_ONE \in Nat /\ NEVER \in 0 .. NEVER
      BY BasketAssumption, CollateralAssumption DEF Reading, NEVER
    <3> QED BY <3>1 DEF New, Plugin
  <2> QED BY <1>1, <2>1
<1>3. backups \in [Targets -> [max: Nat, erc20s: Seq(ERC20s)]]
  <2>1. [max |-> 0, erc20s |-> <<>>] \in [max: Nat, erc20s: Seq(ERC20s)]
    OBVIOUS
  <2> QED BY <2>1 DEF Init
<1> QED BY <1>2, <1>3, BasketAssumption DEF Init, TypeOK, Empty, Configured, Basket

\* A switch puts weights in place that have their type.
LEMMA SwitchTyped ==
    ASSUME TypeOK, NEW c, _switchBasket(c)
    PROVE  /\ Basket' \subseteq ERC20s /\ refAmts' \in [Basket' -> Nat \ {0}]
           /\ nonce' \in Nat /\ disabled' \in BOOLEAN
<1>1. CASE Unswitchable(c)
  BY <1>1 DEF _switchBasket, TypeOK, Basket
<1>2. CASE ~Unswitchable(c)
  <2>1. refAmts' = newBasket(c) /\ nonce' = nonce + 1 /\ disabled' = FALSE
    BY <1>2 DEF _switchBasket
  <2>2. DOMAIN newBasket(c) \subseteq ERC20s /\ newBasket(c) \in [DOMAIN newBasket(c) -> Nat \ {0}]
    BY NewBasketTyped
  <2>3. nonce + 1 \in Nat
    BY DEF TypeOK
  <2>4. Basket' = DOMAIN newBasket(c)
    BY <2>1 DEF Basket
  <2> QED BY <2>1, <2>2, <2>3, <2>4
<1> QED BY <1>1, <1>2

\* Types through every step.
LEMMA NextTypeOK == TypeOK /\ [Next]_vars => TypeOK'
<1> SUFFICES ASSUME TypeOK, [Next]_vars PROVE TypeOK'
  OBVIOUS
<1> USE DEF configVars, basketVars
<1>1. CASE Refresh
  <2>1. coll' \in [Collaterals -> Plugin]
    BY <1>1, RefreshedTyped DEF Refresh
  <2> QED BY <1>1, <2>1 DEF Refresh, TypeOK, Configured, Basket
<1>2. ASSUME NEW a \in Collaterals, RefreshPlugin(a)
      PROVE  TypeOK'
  <2>1. coll' \in [Collaterals -> Plugin]
    BY <1>2, RefreshedTyped DEF RefreshPlugin
  <2> QED BY <1>2, <2>1 DEF RefreshPlugin, TypeOK, Configured, Basket
<1>3. CASE RefreshBasket \/ RefreshBasketByOwner
  <2>1. /\ coll' \in Refreshed(RegisteredColls) /\ _switchBasket(coll')
        /\ UNCHANGED <<assets, configVars, access>>
    BY <1>3 DEF RefreshBasket, RefreshBasketByOwner
  <2>2. coll' \in [Collaterals -> Plugin]
    BY <2>1, RefreshedTyped
  <2>3. /\ Basket' \subseteq ERC20s /\ refAmts' \in [Basket' -> Nat \ {0}]
        /\ nonce' \in Nat /\ disabled' \in BOOLEAN
    BY <2>1, SwitchTyped
  <2> QED BY <2>1, <2>2, <2>3 DEF TypeOK, Configured
<1>4. ASSUME NEW b \in PrimeBaskets, setPrimeBasket(b)
      PROVE  TypeOK'
  <2>1. b \in [DOMAIN b -> Nat] /\ DOMAIN b \subseteq ERC20s
    BY BasketAssumption
  <2>2. \A e \in DOMAIN b : b[e] \in Nat \ {0} /\ assets[e] \in Assets
    BY <1>4, <2>1 DEF setPrimeBasket, IsColl, Collaterals
  <2>3. b \in [DOMAIN b -> Nat \ {0}]
    BY <2>1, <2>2
  <2>4. targetNames' \in [DOMAIN b -> Targets]
    BY <1>4, <2>2, BasketAssumption DEF setPrimeBasket
  <2>5. targetAmts' = b
    BY <1>4 DEF setPrimeBasket
  <2> QED BY <1>4, <2>1, <2>3, <2>4, <2>5 DEF setPrimeBasket, TypeOK, Configured, Basket
<1>5. ASSUME NEW tgt \in Targets, NEW max \in BackupMaxes, NEW list \in BackupLists,
             setBackupConfig(tgt, max, list)
      PROVE  TypeOK'
  <2>1. [max |-> max, erc20s |-> list] \in [max: Nat, erc20s: Seq(ERC20s)]
    BY BasketAssumption
  <2>2. backups' \in [Targets -> [max: Nat, erc20s: Seq(ERC20s)]]
    BY <1>5, <2>1 DEF setBackupConfig, TypeOK
  <2> QED BY <1>5, <2>2 DEF setBackupConfig, TypeOK, Configured, Basket
<1>6. ASSUME NEW a \in Assets, register(a) \/ swapRegistered(a) \/ unregister(a)
      PROVE  TypeOK'
  <2>1. /\ \/ assets' = [assets EXCEPT ![erc20Of[a]] = a]
           \/ assets' = [assets EXCEPT ![erc20Of[a]] = NoAsset]
        /\ disabled' \in BOOLEAN
        /\ UNCHANGED <<coll, configVars, refAmts, nonce, access>>
    BY <1>6 DEF register, swapRegistered, unregister, disableBasketIf, TypeOK
  <2>2. erc20Of[a] \in ERC20s
    BY BasketAssumption
  <2>3. assets' \in [ERC20s -> Assets \cup {NoAsset}]
    BY <2>1 DEF TypeOK
  <2>4. \A e \in ERC20s : assets'[e] # NoAsset => erc20Of[assets'[e]] = e
    BY <2>1, <2>2 DEF TypeOK
  <2> QED BY <2>1, <2>3, <2>4 DEF TypeOK, Configured, Basket
<1>7. CASE SetAccess
  BY <1>7 DEF SetAccess, TypeOK, Configured, Basket
<1>8. CASE Elapse
  <2>1. \A a \in Collaterals : Aged(coll[a]) \in Plugin
    BY AgedFacts DEF TypeOK
  <2>2. coll' \in [Collaterals -> Plugin]
    BY <1>8, <2>1 DEF Elapse
  <2> QED BY <1>8, <2>2 DEF Elapse, TypeOK, Configured, Basket
<1>9. CASE UNCHANGED vars
  BY <1>9 DEF vars, TypeOK, Configured, Basket
<1> QED BY <1>1, <1>2, <1>3, <1>4, <1>5, <1>6, <1>7, <1>8, <1>9 DEF Next

\* The registry has a plugin for what it says it has, weights are positive numbers, and a
\* plugin's deadline is never beyond the delay.
THEOREM BasketTypeCorrect == Spec => []TypeOK
  BY InitTypeOK, NextTypeOK, PTL DEF Spec

----------------------------------------------------------------------
\* The basket handler: what a switch puts in place

\* Whatever was swapped, unregistered, reconfigured or defaulted before, a basket that is
\* put in place is whole, of sound or doubtful collateral, and weighs what is configured.
THEOREM SwitchAlwaysMeetsConfig == Spec => SwitchMeetsConfig
<1> DEFINE Meets ==
      nonce' # nonce =>
        /\ ~disabled'
        /\ \A e \in DOMAIN refAmts' : IsColl(e) /\ status(coll'[assets[e]]) # "DISABLED"
        /\ {targetOf[assets[e]] : e \in DOMAIN refAmts'} = TargetSet
        /\ \A tgt \in TargetSet :
            LET configured == Weight({e \in Configured : targetNames[e] = tgt})
            IN  /\ configured <= Total(refAmts', tgt)
                /\ Total(refAmts', tgt) < configured + fixMax(1, backups[tgt].max)
<1>1. TypeOK /\ [Next]_vars => [Meets]_vars
  <2> SUFFICES ASSUME TypeOK, [Next]_vars, nonce' # nonce PROVE Meets
    OBVIOUS
  <2>1. PICK c : c = coll' /\ _switchBasket(c)
    BY DEF Next, vars, basketVars, Refresh, RefreshPlugin, RefreshBasket, RefreshBasketByOwner,
           setPrimeBasket, setBackupConfig, register, swapRegistered, unregister, SetAccess, Elapse
  <2>2. ~Unswitchable(c) /\ disabled' = FALSE /\ refAmts' = newBasket(c)
    BY <2>1 DEF _switchBasket
  <2>3. \A e \in DOMAIN newBasket(c) : IsColl(e) /\ status(c[assets[e]]) # "DISABLED"
    BY <2>2, NewBasketWhole DEF StatusOf
  <2>4. {targetOf[assets[e]] : e \in DOMAIN newBasket(c)} = TargetSet
    BY <2>2, NewBasketWhole
  <2>5. ASSUME NEW tgt \in TargetSet
        PROVE  LET configured == Weight({e \in Configured : targetNames[e] = tgt})
               IN  /\ configured <= Total(newBasket(c), tgt)
                   /\ Total(newBasket(c), tgt) < configured + fixMax(1, backups[tgt].max)
    BY <2>2, NewBasketTotal
  <2> QED BY <2>1, <2>2, <2>3, <2>4, <2>5
<1> QED BY <1>1, BasketTypeCorrect, PTL DEF Spec, SwitchMeetsConfig

----------------------------------------------------------------------
\* The basket handler: what a basket costs under one nonce

\* {tok/BU} at a rate of r, FIX_MAX when it is zero
QuantityAt(r, amt) == IF r = 0 THEN FIX_MAX ELSE DivUp(amt * FIX_ONE, r)

\* A token that is worth more is needed less of, as far as quantities have a width.
LEMMA QuantityFalls ==
    ASSUME NEW amt \in Nat, amt * FIX_ONE <= FIX_MAX, NEW r \in Nat, NEW s \in Nat, r <= s
    PROVE  QuantityAt(s, amt) <= QuantityAt(r, amt)
<1> DEFINE x == amt * FIX_ONE
<1>1. x \in Nat /\ FIX_MAX \in Nat /\ x <= FIX_MAX
  BY CollateralAssumption, BasketAssumption, MulNat
<1> HIDE DEF x
<1>2. CASE r = 0 /\ s = 0
  BY <1>1, <1>2 DEF QuantityAt
<1>3. CASE r = 0 /\ s # 0
  <2>1. x <= FIX_MAX * s /\ s \in Nat \ {0}
    BY <1>1, <1>3
  <2>2. DivUp(x, s) <= FIX_MAX
    BY <1>1, <2>1, DivUpLeast
  <2> QED BY <1>3, <2>2 DEF QuantityAt, x
<1>4. CASE r # 0
  <2>1. r \in Nat \ {0} /\ s \in Nat \ {0}
    BY <1>4
  <2>2. DivUp(x, r) \in Nat /\ x <= DivUp(x, r) * r
    BY <1>1, <2>1, DivUpBounds
  <2>3. DivUp(x, r) * r <= DivUp(x, r) * s /\ DivUp(x, r) * r \in Nat /\ DivUp(x, r) * s \in Nat
    BY <2>1, <2>2, MulMono, MulNat
  <2>4. x <= DivUp(x, r) * s
    BY <1>1, <2>2, <2>3
  <2>5. DivUp(x, s) <= DivUp(x, r)
    BY <1>1, <2>1, <2>2, <2>4, DivUpLeast
  <2> QED BY <2>1, <2>5 DEF QuantityAt, x
<1> QED BY <1>2, <1>3, <1>4

\* What is asked of a token that stands is a positive quantity.
LEMMA QuantityPositive ==
    ASSUME NEW amt \in Nat \ {0}, NEW r \in Nat
    PROVE  QuantityAt(r, amt) > 0
<1>1. FIX_MAX \in Nat \ {0} /\ FIX_ONE \in Nat \ {0}
  BY CollateralAssumption, BasketAssumption
<1>2. amt * FIX_ONE \in Nat /\ amt * FIX_ONE > 0
  BY <1>1
<1>3. CASE r # 0
  <2>1. DivUp(amt * FIX_ONE, r) > 0
    BY <1>2, <1>3, DivUpPositive
  <2> QED BY <1>3, <2>1 DEF QuantityAt
<1> QED BY <1>1, <1>3 DEF QuantityAt

\* No weight exceeds the configured ones taken together, and these have a width.
Fits ==
    /\ SumFunction(targetAmts) * FIX_ONE <= FIX_MAX
    /\ \A e \in Basket : refAmts[e] * FIX_ONE <= FIX_MAX

\* A token's weight is made of its own and of what it makes up for.
LEMMA NewWeightBound ==
    ASSUME TypeOK, NEW c, NEW e \in ERC20s, NewWeight(c, e) > 0
    PROVE  SumFunction(targetAmts) \in Nat /\ NewWeight(c, e) <= SumFunction(targetAmts)
<1> DEFINE tgt == targetOf[assets[e]]
           G == {d \in GoodPrime(c) : targetNames[d] = tgt}
           own == {d \in Configured : targetNames[d] = tgt}
           prime == IF e \in GoodPrime(c) THEN targetAmts[e] ELSE 0
<1>1. tgt \in TargetSet /\ tgt \in Targets
  BY NewWeightFacts, TargetsTyped
<1>2. NewWeight(c, e) = prime + BackupWeight(c, tgt, e)
  BY <1>1, NewWeightFacts
<1>3. BackupWeight(c, tgt, e) \in Nat /\ BackupWeight(c, tgt, e) <= Needed(c, tgt)
  BY <1>1, BackupWeightFacts
<1>4. Weight(G) \in Nat /\ Needed(c, tgt) \in Nat /\ Weight(own) = Weight(G) + Needed(c, tgt)
  BY WeightSplit
<1>5. prime \in Nat /\ prime <= Weight(G)
  <2>1. CASE e \in GoodPrime(c)
    <3>1. e \in G /\ G \in SUBSET Configured
      BY <2>1 DEF GoodPrime, goodCollateral
    <3> HIDE DEF G
    <3>2. targetAmts[e] \in Nat /\ targetAmts[e] <= Weight(G)
      BY <3>1, WeightIsNat
    <3> QED BY <2>1, <3>2
  <2>2. CASE e \notin GoodPrime(c)
    <3> HIDE DEF G
    <3> QED BY <1>4, <2>2
  <2> QED BY <2>1, <2>2
<1>6. Weight(own) <= Weight(Configured) /\ Weight(Configured) \in Nat
  <2> DEFINE rest == Configured \ own
  <2>1. own \in SUBSET Configured /\ rest \in SUBSET Configured /\ own \cup rest = Configured /\ own \cap rest = {}
    OBVIOUS
  <2> HIDE DEF own, rest
  <2>2. IsFiniteSet(own) /\ IsFiniteSet(rest) /\ Weight(own) \in Nat /\ Weight(rest) \in Nat
    BY <2>1, WeightIsNat
  <2>3. \A d \in own \cup rest : targetAmts[d] \in Int
    BY <2>1 DEF TypeOK
  <2>4. Weight(own \cup rest) = Weight(own) + Weight(rest)
    BY <2>1, <2>2, <2>3, SumUnion DEF Weight
  <2>5. Weight(Configured) = Weight(own) + Weight(rest)
    BY <2>1, <2>4, Zenon
  <2> QED BY <2>2, <2>5
<1>7. SumFunction(targetAmts) = Weight(Configured)
  BY DEF SumFunction, Weight, Configured
<1> HIDE DEF G, own, prime
<1> QED BY <1>2, <1>3, <1>4, <1>5, <1>6, <1>7

\* Weights keep their width through every step.
LEMMA NextFits == TypeOK /\ TypeOK' /\ Fits /\ [Next]_vars => Fits'
<1> SUFFICES ASSUME TypeOK, TypeOK', Fits, [Next]_vars PROVE Fits'
  OBVIOUS
<1>1. CASE RefreshBasket \/ RefreshBasketByOwner
  <2>1. _switchBasket(coll') /\ targetAmts' = targetAmts
    BY <1>1 DEF RefreshBasket, RefreshBasketByOwner, configVars
  <2>2. CASE Unswitchable(coll')
    BY <2>1, <2>2 DEF _switchBasket, Fits, Basket
  <2>3. CASE ~Unswitchable(coll')
    <3>1. PICK c : c = coll' /\ refAmts' = newBasket(c)
      BY <2>1, <2>3 DEF _switchBasket
    <3>2. ASSUME NEW e \in DOMAIN newBasket(c)
          PROVE  newBasket(c)[e] * FIX_ONE <= FIX_MAX
      <4>1. e \in ERC20s /\ newBasket(c)[e] = NewWeight(c, e) /\ NewWeight(c, e) > 0 /\ NewWeight(c, e) \in Nat
        BY NewBasketTyped, NewWeightFacts
      <4>2. SumFunction(targetAmts) \in Nat /\ NewWeight(c, e) <= SumFunction(targetAmts)
        BY <4>1, NewWeightBound
      <4>3. FIX_ONE \in Nat /\ FIX_MAX \in Nat
        BY CollateralAssumption, BasketAssumption
      <4>4. NewWeight(c, e) * FIX_ONE <= SumFunction(targetAmts) * FIX_ONE
        BY <4>1, <4>2, <4>3, MulMono
      <4>5. NewWeight(c, e) * FIX_ONE \in Nat /\ SumFunction(targetAmts) * FIX_ONE \in Nat
        BY <4>1, <4>2, <4>3, MulNat
      <4> QED BY <4>1, <4>3, <4>4, <4>5 DEF Fits
    <3> QED BY <2>1, <3>1, <3>2 DEF Fits, Basket
  <2> QED BY <2>2, <2>3
<1>2. ASSUME NEW b \in PrimeBaskets, setPrimeBasket(b)
      PROVE  Fits'
  <2>1. SumFunction(b) * FIX_ONE <= FIX_MAX
    BY BasketAssumption
  <2>2. targetAmts' = b /\ refAmts' = refAmts
    BY <1>2 DEF setPrimeBasket, basketVars
  <2> QED BY <2>1, <2>2 DEF Fits, Basket
<1>3. CASE UNCHANGED <<targetAmts, refAmts>>
  BY <1>3 DEF Fits, Basket
<1> QED BY <1>1, <1>2, <1>3
     DEF Next, vars, configVars, basketVars, Refresh, RefreshPlugin, setBackupConfig, register,
         swapRegistered, unregister, SetAccess, Elapse

\* The empty configuration fits.
LEMMA InitFits == Init => Fits
<1> SUFFICES ASSUME Init PROVE Fits
  OBVIOUS
<1>1. targetAmts \in [{} -> Nat] /\ Basket = {}
  BY DEF Init, Empty, Basket
<1>2. SumFunction(targetAmts) = 0
  BY <1>1, FS_EmptySet, SumNat
<1>3. FIX_ONE \in Nat /\ FIX_MAX \in Nat
  BY CollateralAssumption, BasketAssumption
<1> QED BY <1>1, <1>2, <1>3 DEF Fits

\* No refresh lowers what a plugin reports unless it defaults.
LEMMA RefreshedGrows ==
    ASSUME TypeOK, NEW S, NEW d \in Refreshed(S), NEW a \in Collaterals, status(d[a]) # "DISABLED"
    PROVE  refPerTok(classOf[a], coll[a]) <= refPerTok(classOf[a], d[a])
<1>1. PICK r \in Market :
        d = [b \in Collaterals |-> IF b \in S THEN refresh(classOf[b], coll[b], r[b]) ELSE coll[b]]
  BY DEF Refreshed
<1>2. coll[a] \in Plugin /\ classOf[a] \in Classes /\ r[a] \in Reading
  <2>1. coll[a] \in Plugin
    BY DEF TypeOK
  <2>2. classOf[a] \in Classes
    BY BasketAssumption DEF Collaterals
  <2>3. r \in [Collaterals -> Reading]
    BY BasketAssumption
  <2> QED BY <2>1, <2>2, <2>3
<1>3. refPerTok(classOf[a], coll[a]) \in Nat
  BY <1>2, ReportedIsNat
<1>4. CASE d[a] = coll[a]
  BY <1>3, <1>4
<1>5. CASE d[a] = refresh(classOf[a], coll[a], r[a]) /\ ~alreadyDefaulted(coll[a])
  <2>1. d[a].whenDefault # 0
    BY CollateralAssumption DEF status, alreadyDefaulted, NEVER
  <2>2. d[a] \in Plugin /\ d[a].rate = NextRate(classOf[a], coll[a], r[a]) /\ ~Fell(classOf[a], coll[a], r[a])
    BY <1>2, <1>5, <2>1, RefreshFacts
  <2> QED BY <1>2, <2>2, ReportedGrows
<1>6. CASE d[a] = refresh(classOf[a], coll[a], r[a]) /\ alreadyDefaulted(coll[a])
  BY <1>4, <1>6 DEF refresh
<1> QED BY <1>1, <1>4, <1>5, <1>6

\* What a token that stands is asked for, before and after a step.
LEMMA StandingQuantity ==
    ASSUME TypeOK, Standing, NEW e \in Basket
    PROVE  /\ assets[e] \in Collaterals
           /\ RefPerTokOf(coll, e) \in Nat
           /\ refAmts[e] \in Nat \ {0}
           /\ quantity(e) = QuantityAt(RefPerTokOf(coll, e), refAmts[e])
<1>1. IsColl(e) /\ StatusOf(coll, e) # "DISABLED"
  BY DEF Standing
<1>2. assets[e] \in Collaterals /\ coll[assets[e]] \in Plugin
  BY <1>1 DEF IsColl, TypeOK
<1>3. RefPerTokOf(coll, e) \in Nat
  BY <1>2, ReportedIsNat DEF RefPerTokOf
<1>4. refAmts[e] \in Nat \ {0}
  BY DEF TypeOK, Basket
<1> QED BY <1>1, <1>2, <1>3, <1>4 DEF quantity, QuantityAt

\* While a basket stands its tokens are of the same plugins, whatever the registry does.
LEMMA StandingKeepsPlugins ==
    ASSUME TypeOK, Standing, Standing', nonce' = nonce, [Next]_vars
    PROVE  refAmts' = refAmts /\ \A e \in Basket : assets'[e] = assets[e]
<1>1. CASE RefreshBasket \/ RefreshBasketByOwner
  <2>1. _switchBasket(coll')
    BY <1>1 DEF RefreshBasket, RefreshBasketByOwner
  <2>2. nonce \in Nat /\ ~disabled'
    BY DEF TypeOK, Standing
  <2> QED BY <2>1, <2>2 DEF _switchBasket
<1>2. ASSUME NEW a \in Assets, register(a)
      PROVE  refAmts' = refAmts /\ \A e \in Basket : assets'[e] = assets[e]
  <2> SUFFICES ASSUME NEW e \in Basket PROVE assets'[e] = assets[e]
    BY <1>2 DEF register, basketVars
  <2>1. assets[e] \in Collaterals /\ assets[e] # NoAsset
    BY StandingQuantity, BasketAssumption DEF Collaterals
  <2>2. assets[erc20Of[a]] \in {NoAsset, a} /\ assets' = [assets EXCEPT ![erc20Of[a]] = a]
    BY <1>2 DEF register
  <2>3. CASE e = erc20Of[a]
    BY <2>1, <2>2, <2>3 DEF TypeOK
  <2>4. CASE e # erc20Of[a]
    BY <2>2, <2>4 DEF TypeOK
  <2> QED BY <2>3, <2>4
<1>3. ASSUME NEW a \in Assets, swapRegistered(a) \/ unregister(a)
      PROVE  refAmts' = refAmts /\ \A e \in Basket : assets'[e] = assets[e]
  <2>1. /\ disableBasketIf(quantity(erc20Of[a]) > 0) /\ refAmts' = refAmts
        /\ \/ assets' = [assets EXCEPT ![erc20Of[a]] = a]
           \/ assets' = [assets EXCEPT ![erc20Of[a]] = NoAsset]
    BY <1>3 DEF swapRegistered, unregister
  <2>2. erc20Of[a] \notin Basket
    <3> SUFFICES ASSUME erc20Of[a] \in Basket PROVE FALSE
      OBVIOUS
    <3>1. quantity(erc20Of[a]) > 0
      BY StandingQuantity, QuantityPositive
    <3> QED BY <2>1, <3>1 DEF disableBasketIf, Standing
  <2> QED BY <2>1, <2>2 DEF TypeOK
<1>4. CASE UNCHANGED <<assets, refAmts>>
  BY <1>4
<1> QED BY <1>1, <1>2, <1>3, <1>4
     DEF Next, vars, configVars, basketVars, Refresh, RefreshPlugin, setPrimeBasket, setBackupConfig,
         SetAccess, Elapse

\* While a basket stands no plugin reports less than before.
LEMMA StandingKeepsRates ==
    ASSUME TypeOK, TypeOK', [Next]_vars, NEW a \in Collaterals, status(coll'[a]) # "DISABLED"
    PROVE  refPerTok(classOf[a], coll[a]) <= refPerTok(classOf[a], coll'[a])
<1>1. coll[a] \in Plugin /\ refPerTok(classOf[a], coll[a]) \in Nat
  BY ReportedIsNat DEF TypeOK
<1>2. ASSUME NEW S, coll' \in Refreshed(S)
      PROVE  refPerTok(classOf[a], coll[a]) <= refPerTok(classOf[a], coll'[a])
  BY <1>2, RefreshedGrows
<1>3. CASE Elapse
  <2>1. coll'[a] = Aged(coll[a])
    BY <1>3 DEF Elapse
  <2>2. coll'[a].rate = coll[a].rate
    BY <1>1, <2>1, AgedFacts
  <2> QED BY <1>1, <2>2 DEF refPerTok
<1>4. CASE coll' = coll
  BY <1>1, <1>4
<1> QED BY <1>2, <1>3, <1>4
     DEF Next, vars, Refresh, RefreshPlugin, RefreshBasket, RefreshBasketByOwner, setPrimeBasket,
         setBackupConfig, register, swapRegistered, unregister, SetAccess

\* While a basket stands under one nonce, nothing that anybody calls, reads or changes makes
\* it cost more of any token.
THEOREM QuantityAlwaysStable == Spec => QuantityStable
<1> DEFINE Stays == nonce' = nonce /\ Standing /\ Standing' => \A e \in Basket : quantity(e)' <= quantity(e)
<1>1. TypeOK /\ TypeOK' /\ Fits /\ [Next]_vars => [Stays]_vars
  <2> SUFFICES ASSUME TypeOK, TypeOK', Fits, [Next]_vars, nonce' = nonce, Standing, Standing',
                      NEW e \in Basket
               PROVE  quantity(e)' <= quantity(e)
    OBVIOUS
  <2>1. refAmts' = refAmts /\ assets'[e] = assets[e]
    BY StandingKeepsPlugins
  <2>2. /\ assets[e] \in Collaterals /\ RefPerTokOf(coll, e) \in Nat /\ refAmts[e] \in Nat \ {0}
        /\ quantity(e) = QuantityAt(RefPerTokOf(coll, e), refAmts[e])
    BY StandingQuantity
  <2>3. e \in Basket' /\ IsColl(e)' /\ StatusOf(coll, e)' # "DISABLED"
    BY <2>1 DEF Basket, Standing
  <2>4. status(coll'[assets[e]]) # "DISABLED" /\ coll'[assets[e]] \in Plugin
    BY <2>1, <2>2, <2>3 DEF StatusOf, TypeOK
  <2> DEFINE now == refPerTok(classOf[assets[e]], coll'[assets[e]])
  <2>5. RefPerTokOf(coll, e) <= now /\ now \in Nat
    BY <2>2, <2>4, StandingKeepsRates, ReportedIsNat DEF RefPerTokOf
  <2>6. quantity(e)' = QuantityAt(now, refAmts[e])
    <3>1. RefPerTokOf(coll, e)' = now
      BY <2>1 DEF RefPerTokOf
    <3> HIDE DEF now
    <3> QED BY <2>1, <2>3, <3>1 DEF quantity, QuantityAt
  <2>7. refAmts[e] * FIX_ONE <= FIX_MAX
    BY DEF Fits
  <2> HIDE DEF now
  <2>8. QuantityAt(now, refAmts[e]) <= QuantityAt(RefPerTokOf(coll, e), refAmts[e])
    BY <2>2, <2>5, <2>7, QuantityFalls
  <2> QED BY <2>2, <2>6, <2>8
<1>2. TypeOK /\ TypeOK' /\ Fits /\ [Next]_vars => Fits'
  BY NextFits
<1> QED BY <1>1, <1>2, InitFits, BasketTypeCorrect, PTL DEF Spec, QuantityStable
======================================================================
