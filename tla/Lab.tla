-------------------------------- MODULE Lab --------------------------------
(***************************************************************************)
(* What is said of a trade after the event, and what the market did:       *)
(* run_backtest (src/backtesting/engine.py) over the bars of one symbol,   *)
(* and beside it the same signal traded live, its path recorded at the     *)
(* close and replayed (src/replay).  One step is one bar: an iteration of  *)
(* the backtest's loop, and what the market does to the live position.     *)
(***************************************************************************)
EXTENDS Signals, Sizing

CONSTANTS
  Candles,          \* bars the market may draw
  Courses,          \* strategies, with the bars before the first iteration
  Readings,         \* what the indicators may say, for each strategy
  StartingEquity, RiskParts,   \* risk_per_trade_pct is 1 / RiskParts
  TailBars,         \* of _fallback_tail
  MaxBars           \* bound

Bar == [open : Int, high : Int, low : Int, close : Int]

ASSUME LabAssumption ==
  /\ Candles \subseteq Bar
  /\ \A b \in Candles : \A p \in {b.open, b.close} : b.low <= p /\ p <= b.high
  /\ Courses \subseteq Registry \X Seq(Candles)
  /\ \A c \in Courses : Len(c[2]) >= 2 /\ Len(c[2]) < MaxBars
  /\ DOMAIN Readings = Registry /\ \A s \in Registry : Readings[s] \subseteq Reading(Int)
  /\ StartingEquity \in Nat /\ RiskParts \in Nat \ {0}
  /\ TailBars \in Nat \ {0} /\ MaxBars \in Nat

\* The two strategies whose signals may have a level on the wrong side.
Misplacing == {"inside_bar_breakout", "bollinger_bounce"}

VARIABLES
  strategy,
  bars,     \* drawn so far
  trade,    \* the backtest's open trade
  done,     \* its last closed one
  equity,
  live,     \* the live trade, as the journal has it
  path,     \* trade_paths of the live trade
  over      \* the data has ended

labVars == <<strategy, bars, trade, done, equity, live, path, over>>

Trade(side, entry, stop, target, lots, at, budget) ==
  [side |-> side, entry |-> entry, stop |-> stop, target |-> target, lots |-> lots, at |-> at,
   budget |-> budget, exit |-> 0, reason |-> "open", until |-> 0]

NoTrade == [Trade("BUY", 0, 0, 0, 0, 0, 0) EXCEPT !.reason = "none"]

Closed(t, exit, reason, at) == [t EXCEPT !.exit = exit, !.reason = reason, !.until = at]

\* _pnl, of both engines.
Pnl(t, exit) == (Ahead(t.side, t.entry, exit) * t.lots * PipValue) \div PipSize

-----------------------------------------------------------------------------
(* Backtest.                                                               *)

\* Mutant: the target is looked at first.
CheckTargetFirst(t, bar, at) ==
  IF Ahead(t.side, t.target, Peak(t.side, bar)) >= 0 THEN Closed(t, t.target, "target", at)
  ELSE IF Ahead(t.side, t.stop, Peak(Opposite(t.side), bar)) <= 0
  THEN Closed(t, t.stop, "stop", at) ELSE t

\* _check_stop_or_target: filled at the level, wherever the bar is.
CheckStopOrTarget(t, bar, at) ==
  CASE Ahead(t.side, t.stop, Peak(Opposite(t.side), bar)) <= 0 -> Closed(t, t.stop, "stop", at)
    [] Ahead(t.side, t.stop, Peak(Opposite(t.side), bar)) > 0
       /\ Ahead(t.side, t.target, Peak(t.side, bar)) >= 0 -> Closed(t, t.target, "target", at)
    [] OTHER -> t

\* _open_from_signal: without a distance the smallest lot.
OpenFromSignal(sig, money, at) ==
  LET distance == StopRisk(sig.price, sig.stop)
      budget == money \div RiskParts
      lots == IF distance = 0 THEN 1 ELSE LotSize(budget, distance, PipSize, PipValue)
  IN Trade(sig.type, sig.price, sig.stop, sig.target, lots, at, budget)

-----------------------------------------------------------------------------
(* Recorder and replay.                                                    *)

\* _fallback_tail: the last bars, whenever they were.
FallbackTail(at) == SubSeq(bars', IF at > TailBars THEN at - TailBars + 1 ELSE 1, at)

\* PathRecorder.record, with a feed that tells the time in a column or as an index.
\* The slice is indexed once more with `mask.values`, which the comparison of an
\* index does not have: that raises, and nothing is kept.
Recorded(frame, opened, at) ==
  LET slice == SubSeq(bars', opened + 1, at)
  IN IF slice = <<>> THEN FallbackTail(at) ELSE IF frame = "column" THEN slice ELSE <<>>

\* PathStore.write leaves what it has when there is nothing to write.
WritePath(walked) == path' = IF walked = <<>> THEN path ELSE walked

\* _resolve_levels, for a multiple of the distances or for none.
ResolveLevels(t, mult) ==
  IF mult = 0 THEN [stop |-> t.stop, target |-> t.target]
  ELSE [stop |-> Shifted(t.side, t.entry, -(mult * StopRisk(t.entry, t.stop))),
        target |-> Shifted(t.side, t.entry, mult * StopRisk(t.entry, t.target))]

\* _walk
Walk(side, levels, walked) ==
  LET stopped == {i \in DOMAIN walked :
                    Ahead(side, levels.stop, Peak(Opposite(side), walked[i])) <= 0}
      reached == {i \in DOMAIN walked : Ahead(side, levels.target, Peak(side, walked[i])) >= 0}
      touched == stopped \cup reached
      first == CHOOSE i \in touched : \A j \in touched : i <= j
  IN IF touched = {} THEN "open_at_end" ELSE IF first \in stopped THEN "stop" ELSE "target"

Replay(t, walked, mult) ==
  LET levels == ResolveLevels(t, mult)
      reason == IF walked = <<>> THEN "no_path" ELSE Walk(t.side, levels, walked)
      exit == CASE reason = "stop" -> levels.stop
                [] reason = "target" -> levels.target
                [] reason = "open_at_end" -> Last(walked).close
                [] OTHER -> t.entry
  IN [reason |-> reason, pnl |-> Pnl(t, exit)]

-----------------------------------------------------------------------------
(* The live trade.                                                         *)

\* The broker refuses levels on the wrong side of the price.
Accepted(sig) ==
  sig.type # "HOLD" /\ Ahead(sig.type, sig.stop, sig.price) > 0
                    /\ Ahead(sig.type, sig.price, sig.target) > 0

\* Which level the market comes to first, when the bar goes to its high or to its
\* low first.
Touched(t, bar, high) ==
  LET to(side) == Ahead(t.side, t.target, Peak(side, bar)) >= 0
      out(side) == Ahead(t.side, t.stop, Peak(side, bar)) <= 0
      one == IF high THEN "BUY" ELSE "SELL"
  IN CASE out(one) -> "stop" [] to(one) -> "target"
       [] ~out(one) /\ ~to(one) /\ out(Opposite(one)) -> "stop"
       [] ~out(one) /\ ~to(one) /\ to(Opposite(one)) -> "target"
       [] OTHER -> "open"

\* _close_order records a path; a close by the broker is found later and has none.
BotCloses(reason, exit, at) ==
  /\ live' = Closed(live, exit, reason, at)
  /\ \E frame \in {"column", "index"} : WritePath(Recorded(frame, live.at, at))

BrokerCloses(reason, at) ==
  /\ live' = Closed(live, IF reason = "stop" THEN live.stop ELSE live.target, reason, at)
  /\ UNCHANGED path

\* A bar goes by with the position: broker and bot see the same prices.
LiveBar(bar, at) ==
  \E high \in BOOLEAN :
    IF Touched(live, bar, high) = "open" THEN UNCHANGED <<live, path>>
    ELSE \/ BrokerCloses(Touched(live, bar, high), at)
         \/ BotCloses(Hit(live.side, live.stop, live.target, bar), bar.close, at)

-----------------------------------------------------------------------------
LabInit ==
  /\ \E c \in Courses : strategy = c[1] /\ bars = c[2]
  /\ trade = NoTrade /\ done = NoTrade /\ equity = StartingEquity
  /\ live = NoTrade /\ path = <<>> /\ over = FALSE

\* One iteration of run_backtest: exit, then entry on the same bar.
Iterate(bar) ==
  LET at == Len(bars) + 1
      checked == IF trade.reason = "open" THEN CheckStopOrTarget(trade, bar, at) ELSE trade
      filled == checked.reason \in {"stop", "target"}
      money == IF filled THEN equity + Pnl(checked, checked.exit) ELSE equity
  IN
  /\ ~over /\ at <= MaxBars
  /\ bars' = Append(bars, bar)
  /\ equity' = money
  /\ done' = IF filled THEN checked ELSE done
  /\ \E sig \in {Signal(strategy, bars', r) : r \in Readings[strategy]} :
       /\ trade' = IF checked.reason = "open" THEN checked
                   ELSE IF sig.type = "HOLD" THEN NoTrade
                   ELSE OpenFromSignal(sig, money, at)
       /\ IF live.reason = "open" THEN LiveBar(bar, at)
          ELSE IF trade'.at = at /\ Accepted(sig) THEN live' = trade' /\ path' = <<>>
          ELSE UNCHANGED <<live, path>>
  /\ UNCHANGED <<strategy, over>>

\* A tick within the bar of the entry: what the bar did before counts as well.
Trigger ==
  /\ live.reason = "open" /\ live.at = Len(bars) /\ UNCHANGED bars
  /\ LET hit == Hit(live.side, live.stop, live.target, Last(bars))
     IN hit # "none" /\ BotCloses(hit, Last(bars).close, live.at)
  /\ UNCHANGED <<strategy, trade, done, equity, over>>

\* The bot moves the stop; the journal's row follows.
Trail ==
  LET stop == ProposedStop(live.side, live.entry, live.stop, Peak(live.side, Last(bars)))
  IN
  /\ live.reason = "open" /\ stop # live.stop
  /\ Ahead(live.side, stop, Last(bars).close) > 0
  /\ live' = [live EXCEPT !.stop = stop]
  /\ UNCHANGED <<strategy, bars, trade, done, equity, path, over>>

\* What is open when the data ends is closed at the last price.
EndOfData ==
  /\ ~over /\ over' = TRUE
  /\ IF trade.reason = "open"
     THEN /\ done' = Closed(trade, Last(bars).close, "end", Len(bars))
          /\ equity' = equity + Pnl(trade, Last(bars).close)
     ELSE UNCHANGED <<done, equity>>
  /\ trade' = NoTrade
  /\ UNCHANGED <<strategy, bars, live, path>>

LabNext == (\E bar \in Candles : Iterate(bar)) \/ Trigger \/ Trail \/ EndOfData

LabSpec == LabInit /\ [][LabNext]_labVars

-----------------------------------------------------------------------------
(* Properties.                                                             *)

(* In the backtest a stop never pays, and whatever ends a trade, it loses  *)
(* no more than its share of the equity it was opened with.  The two       *)
(* strategies that may set a level on the wrong side of the price are left *)
(* out: their stop may pay and their target may cost.                      *)
StopCapsLoss ==
  done.reason # "none" /\ strategy \notin Misplacing =>
    /\ done.reason = "stop" => Pnl(done, done.exit) <= 0
    /\ done.reason = "target" => Pnl(done, done.exit) >= 0
    /\ Pnl(done, done.exit) >= -done.budget \/ done.entry = done.stop

(* Where the backtest books a target, or a replay at the same levels shows *)
(* one, the live trade came to its target too, provided that the live stop *)
(* was the backtest's, and the trade outlived the bar of its entry: within *)
(* it the bot acts on what the bar did before, and the replay walks bars   *)
(* older than the trade.  A multiple of the distance to a stop that was    *)
(* moved past the entry is measured to the other side, and may do better.  *)
Pessimistic ==
  live.reason \in {"stop", "target"} /\ live.until > live.at =>
    /\ done.at = live.at /\ done.stop = live.stop /\ done.reason = "target"
         => live.reason = "target"
    /\ \A mult \in {0, 1} :
         Replay(live, path, mult).reason = "target" =>
           live.reason = "target" \/ (mult = 1 /\ Ahead(live.side, live.stop, live.entry) < 0)

=============================================================================
