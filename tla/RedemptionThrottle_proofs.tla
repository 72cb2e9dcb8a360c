------------------ MODULE RedemptionThrottle_proofs ------------------
(***************************************************************************)
(* The redemption throttle is never beaten.  The invariant accounts for    *)
(* the charge left in the battery: once something was redeemed, what was   *)
(* redeemed and what is left fit in a full battery and the recharge since. *)
(***************************************************************************)
EXTENDS RedemptionThrottle, TLAPS

\* While the monitor watches, the hourly rate is at most the peak.
PeakOK == watching => amtPerHour(battery, supply) <= peakRate

Accounted ==
    watching /\ redeemed > 0 =>
        /\ since <= battery.lastBlock
        /\ (redeemed + battery.lastCharge) * BLOCKS_PER_HOUR
              <= peakRate * BLOCKS_PER_HOUR + peakRate * (battery.lastBlock - since)

IInv == TypeOK /\ PeakOK /\ Accounted /\ (~watching => redeemed = 0)

\* The hourly rate.
LEMMA RateIsNat ==
    ASSUME NEW b \in Battery, NEW s \in Nat
    PROVE  amtPerHour(b, s) \in Nat
<1>1. b.scalingRedemptionRate \in Nat /\ b.redemptionRateFloor \in Nat
  BY DEF Battery
<1>2. s * b.scalingRedemptionRate \in Nat
  BY <1>1
<1>3. (s * b.scalingRedemptionRate) \div FIX_ONE \in Nat
  BY <1>2, BatteryAssumption
<1> QED BY <1>1, <1>3 DEF amtPerHour, fixMax

\* A smaller supply does not recharge faster.
LEMMA RateMonotone ==
    ASSUME NEW b \in Battery, NEW s \in Nat, NEW t \in Nat, s <= t
    PROVE  amtPerHour(b, s) <= amtPerHour(b, t)
<1> DEFINE q == b.scalingRedemptionRate
<1>1. q \in Nat /\ b.redemptionRateFloor \in Nat
  BY DEF Battery
<1>2. s * q <= t * q /\ s * q \in Nat /\ t * q \in Nat
  <2> HIDE DEF q
  <2>1. PICK d \in Nat : t = s + d
    <3>1. t - s \in Nat /\ t = s + (t - s)
      OBVIOUS
    <3> QED BY <3>1
  <2>2. t * q = s * q + d * q /\ d * q \in Nat /\ s * q \in Nat
    BY <1>1, <2>1
  <2> QED BY <2>2
<1>3. /\ (s * q) \div FIX_ONE \in Nat /\ (t * q) \div FIX_ONE \in Nat
      /\ (s * q) \div FIX_ONE <= (t * q) \div FIX_ONE
  <2> DEFINE x == s * q  y == t * q
  <2> HIDE DEF x, y
  <2>1. x \in Nat /\ y \in Nat /\ x <= y
    BY <1>2 DEF x, y
  <2>2. x \div FIX_ONE \in Nat /\ y \div FIX_ONE \in Nat /\ x \div FIX_ONE <= y \div FIX_ONE
    BY <2>1, BatteryAssumption
  <2> QED BY <2>2 DEF x, y
<1> QED BY <1>1, <1>3 DEF amtPerHour, fixMax

\* The recharge, in blocks, is worth no more than the elapsed blocks.
LEMMA RechargeBound ==
    ASSUME NEW rate \in Nat, NEW n \in Nat
    PROVE  /\ (rate * n) \div BLOCKS_PER_HOUR \in Nat
           /\ ((rate * n) \div BLOCKS_PER_HOUR) * BLOCKS_PER_HOUR <= rate * n
<1>1. rate * n \in Nat
  OBVIOUS
<1> QED BY <1>1, BatteryAssumption

\* The charge is within the hourly rate and what was recharged.
LEMMA ChargeOK ==
    ASSUME NEW b \in Battery, NEW s \in Nat, NEW n \in Nat, b.lastBlock <= n
    PROVE  /\ currentCharge(b, s, n) \in Nat
           /\ currentCharge(b, s, n) <= amtPerHour(b, s)
           /\ currentCharge(b, s, n) * BLOCKS_PER_HOUR
                <= b.lastCharge * BLOCKS_PER_HOUR + amtPerHour(b, s) * (n - b.lastBlock)
<1> DEFINE r == amtPerHour(b, s)
           k == n - b.lastBlock
           g == (r * k) \div BLOCKS_PER_HOUR
           c == b.lastCharge
           m == currentCharge(b, s, n)
<1>1. r \in Nat
  BY RateIsNat
<1>2. k \in Nat /\ c \in Nat
  BY DEF Battery
<1>3. g \in Nat /\ g * BLOCKS_PER_HOUR <= r * k
  BY <1>1, <1>2, RechargeBound
<1>4. m = fixMin(c + g, fixMin(r, s))
  BY DEF currentCharge, Recharge
<1>5. m \in Nat /\ m <= r /\ m <= c + g
  BY <1>1, <1>2, <1>3, <1>4 DEF fixMin
<1>6. m * BLOCKS_PER_HOUR <= c * BLOCKS_PER_HOUR + r * k
  <2> HIDE DEF r, k, g, c, m
  <2> QED BY <1>1, <1>2, <1>3, <1>5, BatteryAssumption
<1> QED BY <1>5, <1>6

\* The invariant of the initial state.
LEMMA InitIInv == Init => IInv
<1> SUFFICES ASSUME Init PROVE IInv
  OBVIOUS
<1>1. PICK f \in Floors, r \in Rates : r <= FIX_ONE /\ battery = NewBattery(f, r)
  BY DEF Init
<1>2. battery \in Battery /\ battery.lastBlock = 0
  BY <1>1, RatesAssumption DEF NewBattery, Battery
<1>3. TypeOK
  <2>1. /\ supply = 0 /\ block = 1 /\ watching = FALSE /\ since = 0
        /\ redeemed = 0 /\ peakRate = 0
    BY DEF Init
  <2>2. supply \in Nat /\ block \in 1 .. MaxBlock /\ since \in 0 .. block
    BY <2>1, RatesAssumption
  <2>3. battery.lastBlock <= block
    BY <1>2, <2>1
  <2> QED BY <1>2, <2>1, <2>2, <2>3 DEF TypeOK
<1> QED BY <1>3 DEF Init, IInv, PeakOK, Accounted

\* A redemption moves what it redeems out of the battery's charge.
LEMMA RedeemStep ==
    ASSUME IInv, NEW melted \in 0 .. supply, NEW amt \in 1 .. supply - melted,
           Redeem(amt, melted)
    PROVE  IInv'
<1> DEFINE s == supply - melted
           r == amtPerHour(battery, s)
           c == currentCharge(battery, s, block)
<1>1. /\ battery \in Battery /\ supply \in Nat /\ block \in Nat /\ since \in Nat
      /\ battery.lastBlock <= block /\ since <= block
      /\ redeemed \in Nat /\ peakRate \in Nat
      /\ battery.lastBlock \in Nat /\ battery.lastCharge \in Nat
      /\ s \in Nat /\ s <= supply
  BY RatesAssumption DEF IInv, TypeOK, Battery
<1>2. /\ r \in Nat /\ amtPerHour(battery, supply) \in Nat
      /\ r <= amtPerHour(battery, supply)
  BY <1>1, RateIsNat, RateMonotone
<1>a. CASE Unthrottled(battery)
  <2>1. ~watching /\ redeemed = 0
    BY <1>a DEF IInv, TypeOK
  <2>2. /\ battery' = battery /\ block' = block /\ since' = since /\ watching' = watching
        /\ redeemed' = redeemed /\ peakRate' = peakRate
    BY <1>a, <2>1 DEF Redeem, discharge, Peak
  <2>3. supply' \in Nat
    BY <1>1 DEF Redeem
  <2> QED BY <1>1, <2>1, <2>2, <2>3 DEF IInv, TypeOK, PeakOK, Accounted
<1>b. SUFFICES ASSUME ~Unthrottled(battery) PROVE IInv'
  BY <1>a
<1>3. /\ c \in Nat /\ c <= r
      /\ c * BLOCKS_PER_HOUR <= battery.lastCharge * BLOCKS_PER_HOUR + r * (block - battery.lastBlock)
  BY <1>1, ChargeOK
<1>4. amt <= c
  BY <1>b DEF Redeem, Dischargeable
<1>5. battery' = [battery EXCEPT !.lastBlock = block, !.lastCharge = c - amt]
  BY <1>b DEF Redeem, discharge
<1>6. /\ battery' \in Battery
      /\ battery'.lastBlock = block /\ battery'.lastCharge = c - amt
      /\ battery'.redemptionRateFloor = battery.redemptionRateFloor
      /\ battery'.scalingRedemptionRate = battery.scalingRedemptionRate
  <2>1. c - amt \in Nat
    BY <1>3, <1>4
  <2> HIDE DEF c
  <2> QED BY <1>1, <1>5, <2>1 DEF Battery
<1>7. /\ supply' = s - amt /\ block' = block /\ since' = since /\ watching' = watching
      /\ redeemed' = IF watching THEN redeemed + amt ELSE redeemed
      /\ peakRate' = Peak(battery, supply)
  BY DEF Redeem
<1>8. peakRate' \in Nat /\ peakRate <= peakRate' /\ (watching => r <= peakRate /\ peakRate' = peakRate)
  <2>1. watching => amtPerHour(battery, supply) <= peakRate
    BY DEF IInv, PeakOK
  <2> HIDE DEF r
  <2> QED BY <1>1, <1>2, <1>7, <2>1 DEF Peak, fixMax
<1>9. TypeOK'
  <2>1. supply' \in Nat /\ redeemed' \in Nat
    BY <1>1, <1>7, RatesAssumption DEF IInv, TypeOK
  <2>2. ~Unthrottled(battery)'
    BY <1>b, <1>6 DEF Unthrottled
  <2>3. block' \in 1 .. MaxBlock /\ watching' \in BOOLEAN /\ since' \in 0 .. block'
    BY <1>7 DEF IInv, TypeOK
  <2>4. battery'.lastBlock <= block'
    BY <1>1, <1>6, <1>7
  <2> QED BY <1>6, <1>8, <2>1, <2>2, <2>3, <2>4 DEF TypeOK
<1>10. PeakOK'
  <2> SUFFICES ASSUME watching PROVE amtPerHour(battery', supply') <= peakRate'
    BY <1>7 DEF PeakOK
  <2>1. supply' \in Nat /\ supply' <= s
    BY <1>1, <1>7
  <2>2. amtPerHour(battery', supply') = amtPerHour(battery, supply')
    BY <1>6 DEF amtPerHour
  <2>3. amtPerHour(battery, supply') \in Nat /\ amtPerHour(battery, supply') <= r
    BY <1>1, <2>1, RateIsNat, RateMonotone
  <2> HIDE DEF r
  <2> QED BY <1>1, <1>2, <1>8, <2>2, <2>3
<1>11. Accounted'
  <2> SUFFICES ASSUME watching
               PROVE  (redeemed' + (c - amt)) * BLOCKS_PER_HOUR
                        <= peakRate * BLOCKS_PER_HOUR + peakRate * (block - since)
    BY <1>1, <1>6, <1>7, <1>8 DEF Accounted
  <2>1. redeemed' + (c - amt) = redeemed + c
    BY <1>1, <1>3, <1>7
  <2>2. CASE redeemed = 0
    <3>1. c * BLOCKS_PER_HOUR <= peakRate * BLOCKS_PER_HOUR
      BY <1>1, <1>2, <1>3, <1>8, BatteryAssumption
    <3>2. peakRate * (block - since) \in Nat
      BY <1>1
    <3> QED BY <1>1, <1>3, <2>1, <2>2, <3>1, <3>2, BatteryAssumption
  <2>3. CASE redeemed > 0
    <3> DEFINE d == block - battery.lastBlock
               e == battery.lastBlock - since
               lc == battery.lastCharge
    <3>1. /\ since <= battery.lastBlock
          /\ (redeemed + lc) * BLOCKS_PER_HOUR <= peakRate * BLOCKS_PER_HOUR + peakRate * e
      BY <2>3 DEF IInv, Accounted
    <3>2. d \in Nat /\ e \in Nat /\ block - since = d + e
      BY <1>1, <3>1
    <3>3. r * d <= peakRate * d
      BY <1>1, <1>2, <1>8, <3>2
    <3>4. peakRate * (d + e) = peakRate * d + peakRate * e
      BY <1>1, <3>2
    <3> HIDE DEF d, e, lc
    <3>5. (redeemed + c) * BLOCKS_PER_HOUR
             = redeemed * BLOCKS_PER_HOUR + c * BLOCKS_PER_HOUR
      BY <1>1, <1>3, BatteryAssumption
    <3>6. (redeemed + lc) * BLOCKS_PER_HOUR
             = redeemed * BLOCKS_PER_HOUR + lc * BLOCKS_PER_HOUR
      BY <1>1, BatteryAssumption DEF lc
    <3>7. c * BLOCKS_PER_HOUR <= lc * BLOCKS_PER_HOUR + r * d
      BY <1>3 DEF lc, d
    <3>8. lc \in Nat
      BY <1>1 DEF lc
    <3> DEFINE rB == redeemed * BLOCKS_PER_HOUR  cB == c * BLOCKS_PER_HOUR
               lB == lc * BLOCKS_PER_HOUR        pB == peakRate * BLOCKS_PER_HOUR
               rd == r * d  pd == peakRate * d   pe == peakRate * e
    <3>9. /\ rB \in Nat /\ cB \in Nat /\ lB \in Nat /\ pB \in Nat
          /\ rd \in Nat /\ pd \in Nat /\ pe \in Nat
      BY <1>1, <1>2, <1>3, <3>2, <3>8, BatteryAssumption
    <3>10. rB + cB <= pB + (pd + pe)
      <4>1. rB + lB <= pB + pe
        BY <3>1, <3>6
      <4>2. cB <= lB + rd /\ rd <= pd
        BY <3>7, <3>3
      <4> HIDE DEF rB, cB, lB, pB, rd, pd, pe
      <4> QED BY <3>9, <4>1, <4>2
    <3> QED BY <2>1, <3>2, <3>4, <3>5, <3>10
  <2> QED BY <1>1, <2>2, <2>3
<1>12. (~watching => redeemed = 0)'
  BY <1>7 DEF IInv
<1> QED BY <1>9, <1>10, <1>11, <1>12 DEF IInv

\* Steps that redeem nothing: the battery's charge and its last use stand still.
LEMMA OtherStep ==
    ASSUME IInv, TypeOK',
           redeemed' = redeemed, battery'.lastBlock = battery.lastBlock,
           battery'.lastCharge = battery.lastCharge,
           watching' = watching, since' = since,
           peakRate' = Peak(battery', supply')
    PROVE  IInv'
<1>1. /\ battery' \in Battery /\ supply' \in Nat /\ peakRate \in Nat /\ redeemed \in Nat
      /\ battery \in Battery /\ block \in Nat /\ since \in 0 .. block
  BY RatesAssumption DEF IInv, TypeOK
<1>2. amtPerHour(battery', supply') \in Nat
  BY <1>1, RateIsNat
<1>3. /\ peakRate' \in Nat /\ peakRate <= peakRate'
      /\ watching => amtPerHour(battery', supply') <= peakRate'
  BY <1>1, <1>2 DEF Peak, fixMax
<1>4. PeakOK'
  BY <1>3 DEF PeakOK
<1>5. Accounted'
  <2> SUFFICES ASSUME watching, redeemed > 0
               PROVE  /\ since <= battery.lastBlock
                      /\ (redeemed + battery.lastCharge) * BLOCKS_PER_HOUR
                           <= peakRate' * BLOCKS_PER_HOUR + peakRate' * (battery.lastBlock - since)
    BY DEF Accounted
  <2> DEFINE e == battery.lastBlock - since
  <2>1. /\ since <= battery.lastBlock
        /\ (redeemed + battery.lastCharge) * BLOCKS_PER_HOUR
             <= peakRate * BLOCKS_PER_HOUR + peakRate * e
    BY DEF IInv, Accounted
  <2>2. e \in Nat /\ battery.lastCharge \in Nat
    BY <1>1, <2>1 DEF Battery
  <2>3. PICK d \in Nat : peakRate' = peakRate + d
    <3>1. peakRate' - peakRate \in Nat /\ peakRate' = peakRate + (peakRate' - peakRate)
      BY <1>1, <1>3
    <3> QED BY <3>1
  <2> HIDE DEF e
  <2>4. /\ peakRate' * BLOCKS_PER_HOUR = peakRate * BLOCKS_PER_HOUR + d * BLOCKS_PER_HOUR
        /\ d * BLOCKS_PER_HOUR \in Nat
    BY <1>1, <2>3, BatteryAssumption
  <2>5. peakRate' * e = peakRate * e + d * e /\ d * e \in Nat
    BY <1>1, <2>2, <2>3
  <2>6. /\ peakRate * BLOCKS_PER_HOUR \in Nat /\ peakRate * e \in Nat
        /\ (redeemed + battery.lastCharge) * BLOCKS_PER_HOUR \in Nat
    BY <1>1, <2>2, BatteryAssumption
  <2>7. (redeemed + battery.lastCharge) * BLOCKS_PER_HOUR
          <= peakRate' * BLOCKS_PER_HOUR + peakRate' * e
    BY <2>1, <2>4, <2>5, <2>6
  <2> QED BY <2>1, <2>7 DEF e
<1> QED BY <1>4, <1>5 DEF IInv

\* A change of the rates: the charge stands still, and the monitor stops when the
\* throttle goes off.
LEMMA RatesStep ==
    ASSUME IInv, battery' \in Battery, battery'.lastBlock = battery.lastBlock,
           battery'.lastCharge = battery.lastCharge, supply' = supply, block' = block,
           Rewatch
    PROVE  IInv'
<1>0. /\ supply \in Nat /\ peakRate \in Nat /\ block \in Nat
      /\ amtPerHour(battery', supply) \in Nat
  BY RateIsNat, RatesAssumption DEF IInv, TypeOK
<1>1. CASE watching /\ ~Unthrottled(battery')
  <2>1. /\ watching' = watching /\ since' = since /\ redeemed' = redeemed
        /\ peakRate' = Peak(battery', supply')
    BY <1>1 DEF Rewatch, IInv, TypeOK
  <2>2. peakRate' \in Nat
    BY <1>0, <2>1 DEF Peak, fixMax
  <2>3. TypeOK'
    BY <1>1, <2>1, <2>2 DEF IInv, TypeOK
  <2> QED BY <2>1, <2>3, OtherStep
<1>2. CASE ~(watching /\ ~Unthrottled(battery'))
  <2>1. watching' = FALSE /\ since' = 0 /\ redeemed' = 0 /\ peakRate' = 0
    BY <1>2 DEF Rewatch
  <2>2. supply' \in Nat /\ block' \in 1 .. MaxBlock /\ battery'.lastBlock <= block'
    BY DEF IInv, TypeOK
  <2>3. since' \in 0 .. block'
    BY <1>0, <2>1
  <2>4. TypeOK'
    BY <2>1, <2>2, <2>3 DEF TypeOK
  <2> QED BY <2>1, <2>4 DEF IInv, PeakOK, Accounted
<1> QED BY <1>1, <1>2

\* The invariant through every step.
LEMMA Step == IInv /\ [Next]_vars => IInv'
<1> SUFFICES ASSUME IInv, [Next]_vars PROVE IInv'
  OBVIOUS
<1>0. /\ battery \in Battery /\ supply \in Nat
      /\ block \in Nat /\ battery.lastBlock \in Nat /\ battery.lastBlock <= block
      /\ peakRate \in Nat /\ since \in 0 .. block /\ amtPerHour(battery, supply) \in Nat
  BY RateIsNat, RatesAssumption DEF IInv, TypeOK, Battery
<1>1. ASSUME NEW m \in 0 .. supply, NEW amt \in 1 .. supply - m, Redeem(amt, m) PROVE IInv'
  BY <1>1, RedeemStep
<1>2. CASE ChangeSupply
  <2>1. supply' \in Nat /\ amtPerHour(battery, supply') \in Nat
    BY <1>0, <1>2, RateIsNat, RatesAssumption DEF ChangeSupply
  <2>2. peakRate' \in Nat /\ battery' = battery
    BY <1>0, <1>2, <2>1 DEF ChangeSupply, Peak, fixMax
  <2>3. TypeOK'
    BY <1>2, <2>1, <2>2 DEF ChangeSupply, IInv, TypeOK, Unthrottled
  <2> QED BY <1>2, <2>2, <2>3, OtherStep DEF ChangeSupply
<1>3. ASSUME NEW f \in Floors, setRedemptionRateFloor(f) PROVE IInv'
  <2>1. /\ battery' \in Battery /\ battery'.lastBlock = battery.lastBlock
        /\ battery'.lastCharge = battery.lastCharge
    BY <1>0, <1>3, RatesAssumption DEF setRedemptionRateFloor, Battery
  <2> QED BY <1>3, <2>1, RatesStep DEF setRedemptionRateFloor
<1>4. ASSUME NEW r \in Rates, setScalingRedemptionRate(r) PROVE IInv'
  <2>1. /\ battery' \in Battery /\ battery'.lastBlock = battery.lastBlock
        /\ battery'.lastCharge = battery.lastCharge
    BY <1>0, <1>4, RatesAssumption DEF setScalingRedemptionRate, Battery
  <2> QED BY <1>4, <2>1, RatesStep DEF setScalingRedemptionRate
<1>5. CASE NextBlock
  <2>1. TypeOK'
    BY <1>0, <1>5, RatesAssumption DEF NextBlock, IInv, TypeOK, Unthrottled
  <2> QED BY <1>5, <2>1 DEF NextBlock, IInv, PeakOK, Accounted, amtPerHour
<1>6. CASE Watch
  <2>1. TypeOK'
    BY <1>0, <1>6, RatesAssumption DEF Watch, IInv, TypeOK, Unthrottled
  <2>2. PeakOK'
    BY <1>0, <1>6 DEF Watch, PeakOK
  <2>3. redeemed' = 0
    BY <1>6 DEF Watch, IInv
  <2> QED BY <1>6, <2>1, <2>2, <2>3 DEF Watch, IInv, Accounted
<1>7. CASE UNCHANGED vars
  BY <1>7 DEF vars, IInv, TypeOK, PeakOK, Accounted, Unthrottled, amtPerHour
<1> QED BY <1>1, <1>2, <1>3, <1>4, <1>5, <1>6, <1>7 DEF Next

\* The invariant holds in every state.
LEMMA Invariance == Spec => []IInv
BY InitIInv, Step, PTL DEF Spec

\* The types of the battery, of the supply and of the monitor.
THEOREM TypeCorrect == Spec => []TypeOK
<1>1. IInv => TypeOK
  BY DEF IInv
<1> QED BY <1>1, Invariance, PTL

\* The invariant bounds what was redeemed.
LEMMA AccountedThrottled == IInv => Throttled
<1> SUFFICES ASSUME IInv, watching
             PROVE  redeemed * BLOCKS_PER_HOUR
                      <= peakRate * BLOCKS_PER_HOUR + peakRate * (block - since)
  BY DEF Throttled
<1>0. /\ redeemed \in Nat /\ peakRate \in Nat /\ block \in Nat /\ since \in 0 .. block
      /\ battery.lastBlock \in Nat /\ battery.lastBlock <= block /\ battery.lastCharge \in Nat
  BY RatesAssumption DEF IInv, TypeOK, Battery
<1>1. peakRate * BLOCKS_PER_HOUR \in Nat /\ peakRate * (block - since) \in Nat
  BY <1>0, BatteryAssumption
<1>2. CASE redeemed = 0
  BY <1>1, <1>2, BatteryAssumption
<1>3. CASE redeemed > 0
  <2> DEFINE e == battery.lastBlock - since
             d == block - battery.lastBlock
             c == battery.lastCharge
  <2>1. /\ since <= battery.lastBlock
        /\ (redeemed + c) * BLOCKS_PER_HOUR <= peakRate * BLOCKS_PER_HOUR + peakRate * e
    BY <1>3 DEF IInv, Accounted
  <2>2. e \in Nat /\ d \in Nat /\ c \in Nat /\ block - since = e + d
    BY <1>0, <2>1
  <2> HIDE DEF e, d, c
  <2>3. /\ (redeemed + c) * BLOCKS_PER_HOUR
               = redeemed * BLOCKS_PER_HOUR + c * BLOCKS_PER_HOUR
        /\ redeemed * BLOCKS_PER_HOUR \in Nat /\ c * BLOCKS_PER_HOUR \in Nat
    BY <1>0, <2>2, BatteryAssumption
  <2>4. /\ peakRate * (e + d) = peakRate * e + peakRate * d
        /\ peakRate * e \in Nat /\ peakRate * d \in Nat
    BY <1>0, <2>2
  <2> QED BY <1>1, <2>1, <2>2, <2>3, <2>4
<1> QED BY <1>0, <1>2, <1>3

\* Over any stretch of blocks with the throttle on, for every choice of the rates
\* and every history of the supply, no more is redeemed than a full battery and the recharge.
THEOREM AlwaysThrottled == Spec => []Throttled
BY Invariance, AccountedThrottled, PTL
======================================================================
