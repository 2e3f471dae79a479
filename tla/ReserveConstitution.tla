-------------------------- MODULE ReserveConstitution --------------------------
(***************************************************************************)
(* contracts/src/ReserveConstitutionV0.sol: stateless validation of a       *)
(* proposed reserve state in checked 256-bit arithmetic.  An intermediate   *)
(* result outside the word reverts with Panic, as Solidity 0.8 does.        *)
(***************************************************************************)
EXTENDS Integers

CONSTANTS Word,            \* 2^256: words are 0..Word-1
          BPS,             \* 10_000
          MIN_LIQUID_BPS,  \* 2_500
          MAX_AAVE_BPS     \* 4_000

ASSUME BasisPointAssumption ==
  /\ BPS \in Nat \ {0} /\ Word \in Nat
  /\ MIN_LIQUID_BPS \in 1..BPS /\ MAX_AAVE_BPS \in 0..BPS
  /\ BPS * BPS + BPS <= Word

Words == 0..(Word - 1)

\* Faulty variant: the minimum is rounded down.
MinimumRoundedDown(total) ==
  (total \div BPS) * MIN_LIQUID_BPS + ((total % BPS) * MIN_LIQUID_BPS) \div BPS

\* minimumLiquid: the share of a whole number of BPS, plus the rest rounded up.
MinimumLiquid(total) ==
  (total \div BPS) * MIN_LIQUID_BPS
    + ((total % BPS) * MIN_LIQUID_BPS + BPS - 1) \div BPS

\* maximumAave: the same, rounded down.
MaximumAave(total) ==
  (total \div BPS) * MAX_AAVE_BPS + ((total % BPS) * MAX_AAVE_BPS) \div BPS

\* Faulty variant: the shares are taken before the split.
UnsplitIntermediates(total) ==
  {total * MIN_LIQUID_BPS + BPS - 1, total * MAX_AAVE_BPS}

\* Every intermediate result of the two splits.
Intermediates(total) ==
  {(total \div BPS) * MIN_LIQUID_BPS, (total % BPS) * MIN_LIQUID_BPS,
   (total % BPS) * MIN_LIQUID_BPS + BPS - 1, MinimumLiquid(total),
   (total \div BPS) * MAX_AAVE_BPS, (total % BPS) * MAX_AAVE_BPS, MaximumAave(total)}

\* validateReserveState: "ok", or the first violation.
ValidateReserveState(total, liabilities, liquid, aave) ==
  IF total < liabilities THEN "InsufficientBacking"
  ELSE IF liquid > total \/ aave # total - liquid THEN "UnrecognizedReserveAmount"
  ELSE IF ~(Intermediates(total) \subseteq Words) THEN "Panic"
  ELSE IF liquid < MinimumLiquid(total) THEN "InsufficientLiquidUSDC"
  ELSE IF aave > MaximumAave(total) THEN "ExcessiveAaveExposure"
  ELSE "ok"

\* The rule it implements, on exact fractions of unbounded integers: the first clause
\* a state of recognized reserves breaks, in the order the notice announces.
ExactVerdict(total, liabilities, liquid, aave) ==
  CASE total < liabilities -> "InsufficientBacking"
    [] total >= liabilities /\ liquid * BPS < total * MIN_LIQUID_BPS -> "InsufficientLiquidUSDC"
    [] total >= liabilities /\ liquid * BPS >= total * MIN_LIQUID_BPS
         /\ aave * BPS > total * MAX_AAVE_BPS -> "ExcessiveAaveExposure"
    [] OTHER -> "ok"
=============================================================================
