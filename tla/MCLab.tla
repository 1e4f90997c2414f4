------------------------------- MODULE MCLab -------------------------------
(* Instance of Lab for TLC: an ATR of ten and prices around thirty.         *)
EXTENDS Lab, TLC

Candle(o, h, l, c) == [open |-> o, high |-> h, low |-> l, close |-> c]

Quiet == Candle(30, 31, 29, 30)
Bear == Candle(35, 36, 24, 26)
Bull == Candle(25, 37, 24, 36)
Fall == Candle(36, 37, 0, 24)
Rise == Candle(30, 72, 20, 60)
Wide == Candle(25, 72, 0, 15)
Above == Candle(60, 62, 58, 60)
MCCandles == {Quiet, Bear, Bull, Fall, Rise, Wide, Above}
MCCourses == Registry \X {<<Bull, Quiet>>, <<Quiet, Bear>>, <<Quiet, Bull>>}

Levels == {20, 39}

\* Each strategy with the fields it looks at; the others have one value.
Fixed == [enough |-> TRUE, cross |-> "none", slope |-> "none", before |-> "mid", now |-> "mid",
          strong |-> FALSE, fast |-> 20, slow |-> 20,
          band |-> [lower |-> 20, middle |-> 20, upper |-> 39], tenth |-> 1]
Widths == {[lower |-> 20, middle |-> m, upper |-> u] : m \in Levels, u \in {39, 45}}
MCReadings ==
  "ma_crossover" :> {[Fixed EXCEPT !.enough = e, !.cross = c, !.tenth = t] :
                       e \in BOOLEAN, c \in Directions, t \in Tenths}
  @@ "rsi_mean_reversion" :> {[Fixed EXCEPT !.before = b, !.now = n] : b \in Zones, n \in Zones}
  @@ "donchian_breakout" :> {[Fixed EXCEPT !.tenth = t] : t \in Tenths}
  @@ "macd_cross" :> {[Fixed EXCEPT !.cross = c, !.slow = l] : c \in Directions, l \in Levels}
  @@ "bollinger_bounce" :> {[Fixed EXCEPT !.now = n, !.band = b] : n \in Zones, b \in Widths}
  @@ "bollinger_squeeze" :> {[Fixed EXCEPT !.strong = x, !.band = b] : x \in BOOLEAN, b \in Widths}
  @@ "stochastic_reversal" :> {[Fixed EXCEPT !.cross = c, !.before = b] :
                                 c \in Directions, b \in Zones}
  @@ "triple_ma_alignment" :> {[Fixed EXCEPT !.cross = c, !.slope = d, !.fast = l] :
                                 c \in Directions, d \in Directions, l \in Levels}
  @@ "inside_bar_breakout" :> {Fixed}
  @@ "engulfing_pattern" :> {[Fixed EXCEPT !.slow = l, !.tenth = t] : l \in Levels, t \in Tenths}
  @@ "ema_pullback" :> {[Fixed EXCEPT !.slope = d, !.fast = l, !.slow = k] :
                          d \in Directions, l \in Levels, k \in Levels}
  @@ "adx_breakout" :> {[Fixed EXCEPT !.strong = x, !.slope = d] : x \in BOOLEAN, d \in Directions}
=============================================================================
