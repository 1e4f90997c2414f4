--------------------------- MODULE PropFirmGuard ---------------------------
(***************************************************************************)
(* The rules of a prop-firm challenge (src/propfirm): the row of           *)
(* propfirm_state as a record, and what PropFirmGuard makes of it.  The    *)
(* module Desk owns the row.                                               *)
(***************************************************************************)
EXTENDS Integers

CONSTANTS
  InitialBalance,        \* PROPFIRM_INITIAL_BALANCE
  MaxDailyLossPct,       \* both in percent of the initial balance
  MaxTotalDrawdownPct,
  FromPeak,              \* drawdown_from_peak
  LotCap                 \* max_lot_size, 0 when there is none

ASSUME PolicyAssumption ==
  /\ InitialBalance \in Nat \ {0}
  /\ MaxDailyLossPct \in 1..100 /\ MaxTotalDrawdownPct \in 1..100
  \* Money is counted in a unit that makes both limits whole.
  /\ (InitialBalance * MaxDailyLossPct) % 100 = 0
  /\ (InitialBalance * MaxTotalDrawdownPct) % 100 = 0
  /\ FromPeak \in BOOLEAN
  /\ LotCap \in Nat

DailyLossAmount == (InitialBalance * MaxDailyLossPct) \div 100
MaxDrawdownAmount == (InitialBalance * MaxTotalDrawdownPct) \div 100

\* No day yet: days count from 1.
NoDay == 0

GuardState(initial, peak, start, date, count, traded, killedToday, killedEver) ==
  [initial |-> initial, peak |-> peak, start |-> start, date |-> date,
   count |-> count, traded |-> traded, today |-> killedToday, ever |-> killedEver]

\* There is no row yet.
NoGuardRow == GuardState(0, 0, 0, NoDay, 0, NoDay, FALSE, FALSE)

Greater(a, b) == IF a > b THEN a ELSE b

\* PropFirmStore.initialize: the anchor of the first day is the balance of the
\* policy, whatever the account holds.
Initialized(today) ==
  GuardState(InitialBalance, InitialBalance, InitialBalance, today, 0, NoDay, FALSE, FALSE)

Baseline(initial, peak) == IF FromPeak THEN Greater(peak, initial) ELSE initial

Breach(loss, limit) == loss > 0 /\ loss >= limit

\* Mutant: a new day forgives everything.
ObservedForgiving(state, balance, today) ==
  LET new   == state.date # today
      start == IF new THEN balance ELSE state.start
      peak  == Greater(state.peak, balance)
  IN GuardState(state.initial, peak, start, today, state.count, state.traded,
       (state.today /\ ~new) \/ Breach(start - balance, DailyLossAmount),
       (state.ever /\ ~new)
          \/ Breach(Baseline(state.initial, peak) - balance, MaxDrawdownAmount))

\* The row after observe(): the day rolls over with the balance of this moment
\* as its anchor, the peak follows, and a kill of the day or for ever is set.
Observed(state, balance, today) ==
  LET new   == state.date # today
      start == IF new THEN balance ELSE state.start
      peak  == Greater(state.peak, balance)
  IN GuardState(state.initial, peak, start, today, state.count, state.traded,
       (state.today /\ ~new) \/ Breach(start - balance, DailyLossAmount),
       state.ever \/ Breach(Baseline(state.initial, peak) - balance, MaxDrawdownAmount))

\* check(): the kills, then the cap on the lots.  Without a row it approves.  A
\* signal without a stop never gets here.
GuardApproves(state, lots) ==
  \/ state = NoGuardRow
  \/ /\ ~state.ever /\ ~state.today
     /\ LotCap = 0 \/ lots <= LotCap

\* note_trade_opened(): the first trade of a day counts the day.
Noted(state, today) ==
  IF state.traded = today THEN state
  ELSE GuardState(state.initial, state.peak, state.start, state.date, state.count + 1,
                  today, state.today, state.ever)

=============================================================================
