---------------------- MODULE RedemptionBattery ----------------------
(***************************************************************************)
(* The redemption throttle of contracts/libraries/RedemptionBattery.sol: a *)
(* battery of redemption charge that recharges block by block at a rate    *)
(* per hour, and is drained by redemptions.  A battery is a record         *)
(*   [redemptionRateFloor, scalingRedemptionRate, lastBlock, lastCharge].  *)
(***************************************************************************)
EXTENDS Integers, Fixed

CONSTANTS FIX_ONE, BLOCKS_PER_HOUR

ASSUME BatteryAssumption == FIX_ONE \in Nat \ {0} /\ BLOCKS_PER_HOUR \in Nat \ {0}

Battery == [redemptionRateFloor: Nat, scalingRedemptionRate: Nat,
            lastBlock: Nat, lastCharge: Nat]

\* A battery with the given rates that was never used.
NewBattery(floor, rate) ==
    [redemptionRateFloor |-> floor, scalingRedemptionRate |-> rate,
     lastBlock |-> 0, lastCharge |-> 0]

\* With both rates at zero there is no throttle.
Unthrottled(b) == b.redemptionRateFloor = 0 /\ b.scalingRedemptionRate = 0

amtPerHour(b, supply) ==
    fixMax((supply * b.scalingRedemptionRate) \div FIX_ONE, b.redemptionRateFloor)

\* What was charged since the battery was last used.
Recharge(b, supply, block) ==
    (amtPerHour(b, supply) * (block - b.lastBlock)) \div BLOCKS_PER_HOUR

\* The charge available, never more than an hour's worth nor than the supply.
currentCharge(b, supply, block) ==
    fixMin(b.lastCharge + Recharge(b, supply, block),
           fixMin(amtPerHour(b, supply), supply))

Dischargeable(b, supply, amount, block) ==
    Unthrottled(b) \/ amount <= currentCharge(b, supply, block)

discharge_KeepBlock(b, supply, amount, block) ==                 \* mutant
    IF Unthrottled(b) THEN b
    ELSE [b EXCEPT !.lastCharge = currentCharge(b, supply, block) - amount]
discharge(b, supply, amount, block) ==
    IF Unthrottled(b) THEN b
    ELSE [b EXCEPT !.lastBlock = block,
                   !.lastCharge = currentCharge(b, supply, block) - amount]
======================================================================
