------------------------------ MODULE Filters ------------------------------
(***************************************************************************)
(* The filters between a signal and the risk gates, as operators on what   *)
(* they read: market regime (src/regime), economic calendar                *)
(* (src/econ_calendar) and portfolio correlation (src/correlation).        *)
(***************************************************************************)
EXTENDS Integers, FiniteSets, FiniteSetsExt

CONSTANTS
  BeforeMin, AfterMin,     \* BlackoutPolicy
  PurgeAfter,              \* purge_older_than_days, in the same unit
  CorrUnit, CorrFloor,     \* a correlation of 1.0, and correlation_floor
  UnknownCorr,             \* unknown_pair_correlation
  HeatLimit                \* max_correlated_heat_pct, in risk times CorrUnit

ASSUME FilterAssumption ==
  /\ BeforeMin \in Nat /\ AfterMin \in Nat /\ PurgeAfter \in Nat /\ PurgeAfter >= AfterMin
  /\ CorrUnit \in Nat \ {0} /\ CorrFloor \in Nat /\ UnknownCorr \in Int /\ HeatLimit \in Nat

-----------------------------------------------------------------------------
(* Regime.  A reading says what the indicators of the last bars tell: that *)
(* there are too few of them, that ADX is above its threshold, that +DI is *)
(* not below -DI.                                                          *)

Readings == [enough : BOOLEAN, trending : BOOLEAN, plus : BOOLEAN]

Trend(reading) ==
  CASE ~reading.enough -> "unknown"
    [] reading.enough /\ ~reading.trending -> "range"
    [] reading.enough /\ reading.trending -> IF reading.plus THEN "trend_up" ELSE "trend_down"

\* Bot._regime_allows: no preference, or too little to tell, allows.
RegimeAllows(preferred, trend) == preferred = {} \/ trend = "unknown" \/ trend \in preferred

-----------------------------------------------------------------------------
(* Calendar.  A row of calendar_events is keyed by time, currency, title.  *)

SameKey(e, f) == <<e.at, e.ccy, e.title>> = <<f.at, f.ccy, f.title>>

\* EventStore.upsert_many.
Upserted(rows, fetched) == {r \in rows : ~\E f \in fetched : SameKey(r, f)} \cup fetched

\* Mutant: what is out is purged at once.
PurgedAhead(rows, now) == {e \in rows : e.at >= now}

\* EventStore.purge_before, after each upsert.
Purged(rows, now) == {e \in rows : e.at >= now - PurgeAfter}

\* EventStore.events_in_window, for the impact the policy names.
EventsInWindow(rows, currencies, first, last) ==
  {e \in rows : e.ccy \in currencies /\ e.high /\ first <= e.at /\ e.at <= last}

\* BlackoutChecker.current_blackout is not None, for a symbol of these currencies.
Blackout(rows, currencies, now) ==
  EventsInWindow(rows, currencies, now - AfterMin, now + BeforeMin) # {}

-----------------------------------------------------------------------------
(* Correlation.  A table maps unordered pairs of symbols to values.        *)

PairOf(y, z) == {y, z}

\* CorrelationStore.upsert_matrix: pairs that were not computed keep their value.
WithMatrix(table, matrix) ==
  [k \in DOMAIN table \cup DOMAIN matrix |-> IF k \in DOMAIN matrix THEN matrix[k] ELSE table[k]]

\* PortfolioThrottle.decide: the correlation of a held position with a candidate.
RawCorr(table, y, z) ==
  IF PairOf(y, z) \in DOMAIN table THEN table[PairOf(y, z)] ELSE UnknownCorr

Corr(table, candidate, held) ==
  LET raw  == IF candidate.sym = held.sym THEN CorrUnit
              ELSE RawCorr(table, candidate.sym, held.sym)
      corr == IF candidate.side = held.side THEN raw ELSE -raw
  IN IF corr < CorrFloor /\ -corr < CorrFloor THEN 0 ELSE corr

\* Mutant: a hedge licenses more of the same.
ContributionHedged(table, candidate, held, risk) == risk * Corr(table, candidate, held)

Contribution(table, candidate, held, risk) ==
  LET c == risk * Corr(table, candidate, held) IN IF c < 0 THEN 0 ELSE c

\* All held positions count with the same risk, risk_per_trade.
CorrelatedHeat(table, candidate, held, risk) ==
  SumFunctionOnSet([h \in held |-> Contribution(table, candidate, h, risk)], held)

ThrottleApproves(table, candidate, held, risk, candidateRisk) ==
  \/ held = {}
  \/ CorrelatedHeat(table, candidate, held, risk) + candidateRisk * CorrUnit <= HeatLimit

=============================================================================
