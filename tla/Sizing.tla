------------------------------- MODULE Sizing -------------------------------
(***************************************************************************)
(* Pips and lots (src/risk/position_sizing.py).  Lots count steps of       *)
(* lot_step, which is also min_lot; a budget is balance times risk.        *)
(***************************************************************************)
EXTENDS Integers

CONSTANTS
  PipSize, PipValue,             \* what the terminal says of a symbol
  FallbackSize, FallbackValue,   \* the table in the code
  MaxLots                        \* max_lot

ASSUME SizingAssumption ==
  /\ PipSize \in Nat \ {0} /\ PipValue \in Nat \ {0}
  /\ FallbackSize \in Nat \ {0} /\ FallbackValue \in Nat \ {0} /\ MaxLots \in Nat \ {0}

\* PipResolver: what was found out first is kept as long as the process lives.
Known(cached, answers) == IF cached # "none" THEN cached ELSE IF answers THEN "live" ELSE "fallback"

PipSizeOf(cached) == IF cached = "live" THEN PipSize ELSE FallbackSize
PipValueOf(cached) == IF cached = "live" THEN PipValue ELSE FallbackValue

Within(lots) == IF lots < 0 THEN 0 ELSE IF lots > MaxLots THEN MaxLots ELSE lots

\* Mutant: rounded to the nearest step.
LotSizeRounded(budget, distance, size, value) ==
  Within((2 * budget * size + distance * value) \div (2 * distance * value))

\* lot_size_from_risk: rounded down to the step, 0 below the smallest lot.
LotSize(budget, distance, size, value) == Within((budget * size) \div (distance * value))

=============================================================================
