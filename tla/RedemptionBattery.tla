-------------------------- MODULE RedemptionBattery --------------------------
(***************************************************************************)
(* The redemption throttle, contracts/libraries/RedemptionBattery.sol: a   *)
(* battery that recharges block by block and that every redemption         *)
(* discharges.  A battery is the record of the struct's four fields; the   *)
(* functions take the number of the current block.                         *)
(***************************************************************************)
EXTENDS Integers

CONSTANTS
  FIX_ONE,           \* the D18 number 1
  BLOCKS_PER_HOUR    \* 300 in the code

Enabled(battery) ==
  battery.redemptionRateFloor > 0 \/ battery.scalingRedemptionRate > 0

\* Charge gained per hour: a share of the supply, with a floor.
AmtPerHour(battery, supply) ==
  LET scaled == (supply * battery.scalingRedemptionRate) \div FIX_ONE
  IN  IF battery.redemptionRateFloor > scaled
      THEN battery.redemptionRateFloor ELSE scaled

\* Mutation: the battery charges without limit.
UnlimitedCharge(battery, supply, block) ==
  battery.lastCharge
    + (AmtPerHour(battery, supply) * (block - battery.lastBlock))
        \div BLOCKS_PER_HOUR

\* currentCharge(): the battery holds an hour's charge, and never more than
\* the supply.
CurrentCharge(battery, supply, block) ==
  LET perHour == AmtPerHour(battery, supply)
      charge == battery.lastCharge
                  + (perHour * (block - battery.lastBlock)) \div BLOCKS_PER_HOUR
      maxCharge == IF perHour > supply THEN supply ELSE perHour
  IN  IF charge > maxCharge THEN maxCharge ELSE charge

\* discharge() does not revert.
CanDischarge(battery, supply, amount, block) ==
  Enabled(battery) => amount <= CurrentCharge(battery, supply, block)

\* The battery after discharge().
Discharged(battery, supply, amount, block) ==
  IF ~Enabled(battery) THEN battery
  ELSE [battery EXCEPT
          !.lastBlock = block,
          !.lastCharge = CurrentCharge(battery, supply, block) - amount]
=============================================================================
