------------------------------ MODULE Signals ------------------------------
(***************************************************************************)
(* The twelve strategies (src/strategies) as operators on a window of the  *)
(* last bars and on a reading of the indicators.  Indicators carry the     *)
(* whole history in their means, so a reading is any value they may have;  *)
(* only highs and lows of the channel are computed from the bars.  Prices  *)
(* are whole tenths of the average true range, or of that many parts.      *)
(***************************************************************************)
EXTENDS StopManager, Sequences, FiniteSets

\* The way of a crossing or a slope.
Directions == Sides \cup {"none"}

\* An oscillator against its two thresholds; NaN compares as neither.
Zones == {"low", "mid", "high"}

\* A tenth of the ATR; 0 in a market that does not move.
Tenths == 0..1

Bands(levels) ==
  {b \in [lower : levels, middle : levels, upper : levels] :
     b.lower <= b.middle /\ b.middle <= b.upper}

\* The registry; the first three have files of their own.
Registry ==
  {"ma_crossover", "rsi_mean_reversion", "donchian_breakout", "macd_cross", "bollinger_bounce",
   "bollinger_squeeze", "stochastic_reversal", "triple_ma_alignment", "inside_bar_breakout",
   "engulfing_pattern", "ema_pullback", "adx_breakout"}

\* What indicators say at the last bar, and at the one before it.
Reading(levels) ==
  [enough : BOOLEAN,         \* whether there are as many bars as the strategy needs
   cross : Directions,       \* which way the faster of two lines crosses the slower
   slope : Directions,       \* where the long average moves, or the larger DI points
   before : Zones, now : Zones,   \* where the oscillator was and is
   strong : BOOLEAN,         \* ADX high and rising, or bands narrow
   fast : levels, slow : levels,  \* averages of the price
   band : Bands(levels),
   tenth : Tenths]

Opposite(side) == IF side = "BUY" THEN "SELL" ELSE "BUY"
Extreme(side) == IF side = "BUY" THEN "low" ELSE "high"
Edge(side, band) == IF side = "BUY" THEN band.upper ELSE band.lower
Last(w) == w[Len(w)]
Before(w) == w[Len(w) - 1]

\* prior = ohlc[:-1], rolling max and min.
Channel(w) ==
  LET prior == {w[i] : i \in 1..(Len(w) - 1)}
  IN [upper |-> CHOOSE h \in {b.high : b \in prior} : \A b \in prior : b.high <= h,
      lower |-> CHOOSE l \in {b.low : b \in prior} : \A b \in prior : l <= b.low]

-----------------------------------------------------------------------------
(* Whether a strategy sees its setup for a side.                           *)

MACrossover(side, r) == r.cross = side

RSIMeanReversion(side, r) == r.before = Extreme(side) /\ r.now # Extreme(side)

\* The docstring says the close; the code compares the high and the low.
DonchianBreakout(side, w) == Ahead(side, Edge(side, Channel(w)), Peak(side, Last(w))) > 0

MACDCross(side, w, r) == r.cross = side /\ Ahead(side, r.slow, Last(w).close) > 0

BollingerBounce(side, w, r) ==
  LET other == Opposite(side)
  IN Ahead(other, Edge(other, r.band), Peak(other, Last(w))) >= 0 /\ r.now = Extreme(side)

BollingerSqueeze(side, w, r) == r.strong /\ Ahead(side, Edge(side, r.band), Last(w).close) > 0

StochasticReversal(side, r) == r.cross = side /\ r.before = Extreme(side)

TripleMA(side, w, r) ==
  r.cross = side /\ r.slope = side /\ Ahead(side, r.fast, Last(w).close) > 0

InsideBar(side, w) ==
  LET mother == w[Len(w) - 2]
      inside == Before(w)
  IN /\ inside.high < mother.high /\ inside.low > mother.low
     /\ Ahead(side, Peak(side, mother), Peak(side, Last(w))) > 0

\* The last body covers the opposite one before it, below (above) the average.
Engulfing(side, w, r) ==
  LET prev == Before(w)
      cur == Last(w)
      body == Ahead(side, cur.open, cur.close)
  IN /\ body > Ahead(side, prev.close, prev.open) /\ Ahead(side, prev.close, prev.open) > 0
     /\ Ahead(side, cur.open, prev.close) >= 0 /\ Ahead(side, prev.open, cur.close) >= 0
     /\ Ahead(side, cur.close, r.slow) > 0

EMAPullback(side, w, r) ==
  LET touch == Ahead(side, r.fast, Peak(Opposite(side), Last(w)))
  IN /\ Ahead(side, r.slow, Last(w).close) > 0 /\ r.slope = side
     /\ touch <= 4 * r.tenth /\ -touch <= 4 * r.tenth
     /\ Ahead(side, r.fast, Last(w).close) > 0

ADXBreakout(side, w, r) == r.strong /\ r.slope = side /\ DonchianBreakout(side, w)

Setup(s, side, w, r) ==
  CASE s = "ma_crossover"        -> MACrossover(side, r)
    [] s = "rsi_mean_reversion"  -> RSIMeanReversion(side, r)
    [] s = "donchian_breakout"   -> DonchianBreakout(side, w)
    [] s = "macd_cross"          -> MACDCross(side, w, r)
    [] s = "bollinger_bounce"    -> BollingerBounce(side, w, r)
    [] s = "bollinger_squeeze"   -> BollingerSqueeze(side, w, r)
    [] s = "stochastic_reversal" -> StochasticReversal(side, r)
    [] s = "triple_ma_alignment" -> TripleMA(side, w, r)
    [] s = "inside_bar_breakout" -> InsideBar(side, w)
    [] s = "engulfing_pattern"   -> Engulfing(side, w, r)
    [] s = "ema_pullback"        -> EMAPullback(side, w, r)
    [] s = "adx_breakout"        -> ADXBreakout(side, w, r)

-----------------------------------------------------------------------------
(* Stop and target of a signal.                                            *)

\* Tenths of the ATR, from the close: atr_sl_mult and atr_tp_mult.
StopTenths(s) ==
  CASE s \in {"bollinger_bounce", "stochastic_reversal"} -> 10
    [] s \in {"donchian_breakout", "adx_breakout"} -> 20
    [] OTHER -> 15

TargetTenths(s) ==
  CASE s \in {"rsi_mean_reversion", "stochastic_reversal", "inside_bar_breakout",
              "engulfing_pattern"} -> 20
    [] s \in {"donchian_breakout", "adx_breakout"} -> 40
    [] OTHER -> 30

StopLevel(s, side, w, r) ==
  LET other == Opposite(side) IN
  CASE s = "inside_bar_breakout" -> Shifted(side, Peak(other, w[Len(w) - 2]), -r.tenth)
    [] s = "engulfing_pattern" -> Shifted(side, Peak(other, Last(w)), -r.tenth)
    [] OTHER -> Shifted(side, Last(w).close, -(StopTenths(s) * r.tenth))

TargetLevel(s, side, w, r) ==
  IF s = "bollinger_bounce" THEN r.band.middle
  ELSE Shifted(side, Last(w).close, TargetTenths(s) * r.tenth)

Hold == [type |-> "HOLD", price |-> 0, stop |-> 0, target |-> 0]

\* generate_signal: BUY is looked at first.
Signal(s, w, r) ==
  LET sides == {side \in Sides : r.enough /\ Setup(s, side, w, r)}
      side == IF "BUY" \in sides THEN "BUY" ELSE "SELL"
  IN IF sides = {} THEN Hold
     ELSE [type |-> side, price |-> Last(w).close,
           stop |-> StopLevel(s, side, w, r), target |-> TargetLevel(s, side, w, r)]

=============================================================================
