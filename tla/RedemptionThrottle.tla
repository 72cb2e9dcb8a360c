---------------------- MODULE RedemptionThrottle ----------------------
(***************************************************************************)
(* What the redemption battery promises, over any stretch of time and      *)
(* whatever else moves the supply: RToken.sol discharges it in redeem()    *)
(* and nowhere else, and governance may change its two rates at any time.  *)
(*                                                                         *)
(* The variables watching, since, redeemed and peakRate are a monitor:     *)
(* from a block chosen freely they record what was redeemed and the        *)
(* highest hourly rate that was in force.  With both rates at zero the     *)
(* throttle is off, and the code promises nothing: the monitor starts only *)
(* when the throttle is on, stops when it is switched off, and may start   *)
(* again later.  It is no part of the code.                                *)
(***************************************************************************)
EXTENDS RedemptionBattery

CONSTANTS
    Floors, Rates,    \* the values governance may set
    Supplies,         \* the supplies that issuance, minting and melting may reach
    MaxBlock          \* bound: block number

ASSUME RatesAssumption ==
    /\ Floors \subseteq Nat /\ Rates \subseteq Nat
    /\ Supplies \subseteq Nat /\ MaxBlock \in Nat \ {0}

VARIABLES
    battery,
    supply,      \* totalSupply()
    block,       \* block.number
    watching,    \* the monitor is running
    since, redeemed, peakRate

vars == <<battery, supply, block, watching, since, redeemed, peakRate>>

Peak(b, s) == IF watching THEN fixMax(peakRate, amtPerHour(b, s)) ELSE peakRate

\* The battery is set up with the contract; nothing is minted yet.
Init ==
    /\ \E f \in Floors, r \in Rates :
          r <= FIX_ONE /\ battery = NewBattery(f, r)
    /\ supply = 0 /\ block = 1
    /\ watching = FALSE /\ since = 0 /\ redeemed = 0 /\ peakRate = 0

\* The part of redeem() that concerns the battery and the supply: furnace.melt()
\* comes first.
Redeem(amount, melted) ==
    LET s == supply - melted IN
    /\ amount > 0 /\ amount <= s
    /\ Dischargeable(battery, s, amount, block)
    /\ battery' = discharge(battery, s, amount, block)
    /\ supply' = s - amount
    /\ redeemed' = IF watching THEN redeemed + amount ELSE redeemed
    /\ peakRate' = Peak(battery, supply)
    /\ UNCHANGED <<block, watching, since>>

\* Issuance, minting and melting.
ChangeSupply ==
    /\ supply' \in Supplies
    /\ peakRate' = Peak(battery, supply')
    /\ UNCHANGED <<battery, block, watching, since, redeemed>>

\* What a change of the rates means to the monitor.
Rewatch ==
    LET on == watching /\ ~Unthrottled(battery') IN
    /\ watching' = on
    /\ since' = IF on THEN since ELSE 0
    /\ redeemed' = IF on THEN redeemed ELSE 0
    /\ peakRate' = IF on THEN Peak(battery', supply) ELSE 0

\* The governance setters.
setRedemptionRateFloor(val) ==
    /\ battery' = [battery EXCEPT !.redemptionRateFloor = val]
    /\ Rewatch
    /\ UNCHANGED <<supply, block>>

setScalingRedemptionRate(val) ==
    /\ val <= FIX_ONE
    /\ battery' = [battery EXCEPT !.scalingRedemptionRate = val]
    /\ Rewatch
    /\ UNCHANGED <<supply, block>>

NextBlock ==
    /\ block < MaxBlock
    /\ block' = block + 1
    /\ UNCHANGED <<battery, supply, watching, since, redeemed, peakRate>>

\* The monitor starts.
Watch ==
    /\ ~watching /\ ~Unthrottled(battery)
    /\ watching' = TRUE
    /\ since' = block
    /\ peakRate' = amtPerHour(battery, supply)
    /\ UNCHANGED <<battery, supply, block, redeemed>>

Next ==
    \/ \E melted \in 0 .. supply : \E amt \in 1 .. supply - melted : Redeem(amt, melted)
    \/ ChangeSupply
    \/ \E f \in Floors : setRedemptionRateFloor(f)
    \/ \E r \in Rates : setScalingRedemptionRate(r)
    \/ NextBlock
    \/ Watch

Spec == Init /\ [][Next]_vars

----------------------------------------------------------------------
\* Types.
TypeOK ==
    /\ battery \in Battery
    /\ supply \in Nat
    /\ block \in 1 .. MaxBlock /\ battery.lastBlock <= block
    /\ watching \in BOOLEAN /\ since \in 0 .. block
    /\ watching => ~Unthrottled(battery)
    /\ redeemed \in Nat /\ peakRate \in Nat

\* From any block on and for as long as the throttle stays on, at most one full
\* battery is redeemed and then no more than the hourly rate allows, at the
\* highest rate that was in force: no sequence of redemptions, however small or
\* frequent, no move of the supply, no change of the rates and no charge left
\* from before the throttle was last off beats it.
Throttled ==
    watching =>
        redeemed * BLOCKS_PER_HOUR
            <= peakRate * BLOCKS_PER_HOUR + peakRate * (block - since)
=======================================================================
