----------------------------- MODULE RiskManager -----------------------------
(***************************************************************************)
(* The portfolio gate of src/risk/risk_manager.py: the RiskState counters  *)
(* and the decision taken from them.  Everything here is a pure operator   *)
(* over a RiskState record; TradingBot owns the one live instance.         *)
(*                                                                         *)
(* Money and risk are integers.  A percentage of the account balance is    *)
(* replaced by units of risk: the balance is taken as constant, so that    *)
(* risk_per_trade, the heat cap and the daily loss limit become the        *)
(* constants below.                                                        *)
(***************************************************************************)
EXTENDS Integers

CONSTANTS
  RiskPerTrade,    \* limits.risk_per_trade, in units of risk
  MaxOpenTrades,   \* limits.max_open_trades
  HeatCap,         \* limits.max_portfolio_heat_pct, in units of risk
  DailyLossLimit,  \* limits.max_daily_loss_pct of the balance, in money
  ProfitTarget     \* limits.daily_profit_target, in money; 0 disables it

ASSUME LimitsAssumption ==
  /\ RiskPerTrade \in Nat \ {0}
  /\ MaxOpenTrades \in Nat \ {0}
  /\ HeatCap \in Nat
  /\ DailyLossLimit \in Nat \ {0}
  /\ ProfitTarget \in Nat

\* RiskState.last_reset before the first daily_reset_if_needed(): None.  Days
\* are numbered from 1.
Never == 0

FreshRisk == [count |-> 0, heat |-> 0, pnl |-> 0, reset |-> Never]

\* max(0, n)
ClampAtZero(n) == IF n < 0 THEN 0 ELSE n

RiskRecord(count, heat, pnl, reset) ==
  [count |-> count, heat |-> heat, pnl |-> pnl, reset |-> reset]

DailyReset(rs, today) ==
  RiskRecord(rs.count, rs.heat,
             IF rs.reset \in {Never, today} THEN rs.pnl ELSE 0, today)

\* Variant: only the slot is booked.
RegisterOpenedSlotOnly(rs, risk) ==
  RiskRecord(rs.count + 1, rs.heat, rs.pnl, rs.reset)

\* Variant: only the heat is booked.
RegisterOpenedHeatOnly(rs, risk) ==
  RiskRecord(rs.count, rs.heat + risk, rs.pnl, rs.reset)

RegisterOpened(rs, risk) ==
  RiskRecord(rs.count + 1, rs.heat + risk, rs.pnl, rs.reset)

\* Variant: the close path forgets to add the realised pnl.
RegisterClosedNoPnl(rs, risk, pnl) ==
  RiskRecord(ClampAtZero(rs.count - 1), ClampAtZero(rs.heat - risk), rs.pnl, rs.reset)

\* Variant: the close path refunds the heat and forgets the slot.
RegisterClosedKeepsSlot(rs, risk, pnl) ==
  RiskRecord(rs.count, ClampAtZero(rs.heat - risk), rs.pnl + pnl, rs.reset)

\* Variant: the close path frees the slot and forgets the heat.
RegisterClosedKeepsHeat(rs, risk, pnl) ==
  RiskRecord(ClampAtZero(rs.count - 1), rs.heat, rs.pnl + pnl, rs.reset)

\* Variant: without max(0, ...).
RegisterClosedUnclamped(rs, risk, pnl) ==
  RiskRecord(rs.count - 1, rs.heat - risk, rs.pnl + pnl, rs.reset)

RegisterClosed(rs, risk, pnl) ==
  RiskRecord(ClampAtZero(rs.count - 1), ClampAtZero(rs.heat - risk),
             rs.pnl + pnl, rs.reset)

\* Variant: an off-by-one in the open-trades gate.
ApprovesOneTooMany(rs, risk) ==
  /\ risk > 0
  /\ rs.count <= MaxOpenTrades
  /\ rs.heat + risk <= HeatCap
  /\ -rs.pnl < DailyLossLimit
  /\ ProfitTarget > 0 => rs.pnl < ProfitTarget

\* The state-dependent gates of evaluate(), after its daily reset.  The gates
\* that depend on something else (minimum balance, calendar blackout,
\* correlation throttle, lot size of zero, prop-firm guard) can only refuse
\* more; TradingBot!Evaluate refuses nondeterministically for them.
Approves(rs, risk) ==
  /\ risk > 0
  /\ rs.count < MaxOpenTrades
  /\ rs.heat + risk <= HeatCap
  /\ -rs.pnl < DailyLossLimit
  /\ ProfitTarget > 0 => rs.pnl < ProfitTarget

=============================================================================
