---------------------------- MODULE SupportProofs ----------------------------
(***************************************************************************)
(* Theorems about what stands beside the trading bot: Watchdog, which      *)
(* keeps it running, for every threshold, cool-down and boot time, and     *)
(* however many mishaps; and Lab, which judges its trades, for every set   *)
(* of bars, reading of the indicators, equity, sizing and stop policy.     *)
(***************************************************************************)
EXTENDS Watchdog, Lab, SequenceTheorems, WellFoundedInduction, TLAPS

-----------------------------------------------------------------------------
(* Watchdog: types.                                                        *)

\* An age that stops at its cap stays within it.
LEMMA OlderCapped ==
  ASSUME NEW cap \in Nat, NEW age \in 0..cap
  PROVE  Older(age, cap) \in 0..cap
BY DEF Older

\* TypeOK in two parts: the flags, and what is counted or enumerated.
Flagged ==
  /\ useMT5 \in BOOLEAN /\ beaten \in BOOLEAN /\ watched \in BOOLEAN
  /\ paused \in BOOLEAN /\ killed \in BOOLEAN

Counted ==
  /\ bot \in Bots /\ wait \in 0..(BootTime + 1)
  /\ terminal \in {"ok", "wedged"} /\ session \in Sessions
  /\ terminal = "wedged" => session = "dropped"
  /\ beatAge \in {NoBeat} \cup 0..StaleAfter
  /\ status \in {"none", "up", "down"} /\ statusAge \in 0..RecycleAfter
  /\ lastOk \in [Actions -> 0..CooldownFor]
  /\ trouble \in 0..MaxTrouble

LEMMA TypeParts == TypeOK <=> Flagged /\ Counted
BY DEF TypeOK, Flagged, Counted

LEMMA FlaggedInit == Init => Flagged
BY DEF Init, Flagged

LEMMA FlaggedNext == Flagged /\ [Next]_vars => Flagged'
<1> USE DEF Flagged, vars, flags, rows, mt5
<1>1. Flagged /\ BotStep => Flagged'
  BY DEF BotStep, Boot, BootFails, Loop, Halt, Reschedule
<1>2. Flagged /\ WatchdogStep => Flagged'
  BY DEF WatchdogStep, NoAction, RestartBot, RecycleMT5, Watch
<1>3. Flagged /\ Minute => Flagged'
  BY DEF Minute
<1>4. Flagged /\ Trouble => Flagged'
  BY DEF Trouble, Hangs, Dies, RestartBotFails, TerminalWedges, SessionDrops,
         Operate, TestBroker, Watch
<1> QED
  BY <1>1, <1>2, <1>3, <1>4 DEF Next

LEMMA CountedInit == Init => Counted
BY WatchdogAssumption DEF Init, Counted, Bots, Sessions, NoBeat, Actions

LEMMA CountedNext == Counted /\ [Next]_vars => Counted'
<1> SUFFICES ASSUME Counted, [Next]_vars PROVE Counted'
  OBVIOUS
<1> USE WatchdogAssumption DEF Counted, Bots, Sessions, flags, rows, mt5
<1>1. CASE UNCHANGED vars
  BY <1>1 DEF vars
<1>2. CASE Loop
  BY <1>2 DEF Loop, Heartbeat, Ticks, Refreshes, Stored, Skips, BarsRead, AccountRead,
              Selected, Reconnected
<1>3. CASE Boot \/ BootFails \/ Halt \/ Reschedule
  BY <1>3 DEF Boot, BootFails, Halt, Reschedule, Stored, Heartbeat
<1>4. CASE WatchdogStep
  BY <1>4 DEF WatchdogStep, NoAction, RestartBot, RecycleMT5, Watch, Record
<1>5. CASE Minute
  <2>1. wait' \in 0..(BootTime + 1)
    BY <1>5 DEF Minute, Due
  <2>2. beatAge' \in {NoBeat} \cup 0..StaleAfter
    BY <1>5, OlderCapped DEF Minute
  <2>3. statusAge' \in 0..RecycleAfter
    BY <1>5, OlderCapped DEF Minute
  <2>4. lastOk' \in [Actions -> 0..CooldownFor]
    BY <1>5, OlderCapped DEF Minute
  <2> QED
    BY <1>5, <2>1, <2>2, <2>3, <2>4 DEF Minute
<1>6. CASE Hangs \/ Dies \/ RestartBotFails
  BY <1>6 DEF Hangs, Dies, RestartBotFails, Watch, Mishap
<1>7. CASE TerminalWedges \/ SessionDrops \/ Operate \/ TestBroker
  BY <1>7 DEF TerminalWedges, SessionDrops, Operate, TestBroker, Stored, Mishap
<1> QED
  BY <1>1, <1>2, <1>3, <1>4, <1>5, <1>6, <1>7 DEF Next, BotStep, Trouble

\* Every variable keeps its type: ages stop at their thresholds, a boot that takes
\* too long is cut off in time, and a wedged terminal serves no session, whoever
\* restarts, recycles or reconnects in between.
THEOREM WatchdogTyped == Spec => []TypeOK
<1> QED
  BY TypeParts, FlaggedInit, FlaggedNext, CountedInit, CountedNext, PTL DEF Spec

-----------------------------------------------------------------------------
(* Watchdog: a bot that works.                                             *)

\* A bot that went through its loop this minute has just written its heartbeat.
FreshBeat == beaten => beatAge = 0

LEMMA FreshBeatNext == FreshBeat /\ [Next]_vars => FreshBeat'
<1> SUFFICES ASSUME FreshBeat, [Next]_vars PROVE FreshBeat'
  OBVIOUS
<1> USE DEF FreshBeat, mt5, rows, flags
<1>1. CASE UNCHANGED vars
  BY <1>1 DEF vars
<1>2. CASE BotStep
  BY <1>2 DEF BotStep, Boot, BootFails, Loop, Halt, Reschedule, Heartbeat
<1>3. CASE WatchdogStep
  BY <1>3 DEF WatchdogStep, NoAction, RestartBot, RecycleMT5
<1>4. CASE Minute
  BY <1>4 DEF Minute
<1>5. CASE Trouble
  BY <1>5 DEF Trouble, Hangs, Dies, RestartBotFails, TerminalWedges, SessionDrops,
              Operate, TestBroker
<1> QED
  BY <1>1, <1>2, <1>3, <1>4, <1>5 DEF Next

LEMMA FreshBeatSparesBot ==
  FreshBeat /\ [Next]_vars
    => (bot = "running" /\ beaten /\ watched' /\ ~watched => bot' = bot)
<1> SUFFICES ASSUME FreshBeat, [Next]_vars, beaten, watched', ~watched
             PROVE  bot' = bot
  OBVIOUS
<1>1. Decide # "restart_bot"
  BY WatchdogAssumption DEF FreshBeat, Decide, NoBeat
<1> USE DEF mt5, rows, flags
<1>2. CASE UNCHANGED vars
  BY <1>2 DEF vars
<1>3. CASE BotStep
  BY <1>3 DEF BotStep, Boot, BootFails, Loop, Halt, Reschedule
<1>4. CASE WatchdogStep
  BY <1>1, <1>4 DEF WatchdogStep, NoAction, RestartBot, RecycleMT5, Acts
<1>5. CASE Minute
  BY <1>5 DEF Minute
<1>6. CASE Trouble
  BY <1>1, <1>6 DEF Trouble, Hangs, Dies, RestartBotFails, TerminalWedges, SessionDrops,
                    Operate, TestBroker, Acts
<1> QED
  BY <1>2, <1>3, <1>4, <1>5, <1>6 DEF Next

\* No run of the watchdog stops a bot that went through its loop within the minute:
\* the heartbeat is written by every pass of run_forever, a skipped or failed tick
\* included, and the decision to restart reads nothing but its age.
THEOREM HealthyBotSpared == Spec => HealthyLeftAlone
<1>1. Init => FreshBeat
  BY DEF Init, FreshBeat
<1>2. Spec => []FreshBeat
  BY <1>1, FreshBeatNext, PTL DEF Spec
<1> QED
  BY <1>2, FreshBeatSparesBot, PTL DEF Spec, HealthyLeftAlone

-----------------------------------------------------------------------------
(* Lab: prices, lots and money.                                            *)

\* A bar's extremes enclose its close, from either side.
LEMMA BarSound ==
  ASSUME NEW bar \in Candles, NEW side \in Sides
  PROVE  /\ bar.close \in Int /\ Peak(side, bar) \in Int /\ Peak(Opposite(side), bar) \in Int
         /\ Opposite(side) \in Sides
         /\ Ahead(side, Peak(Opposite(side), bar), bar.close) >= 0
         /\ Ahead(side, bar.close, Peak(side, bar)) >= 0
<1>1. /\ bar.high \in Int /\ bar.low \in Int /\ bar.close \in Int
      /\ bar.low <= bar.close /\ bar.close <= bar.high
  BY LabAssumption DEF Bar
<1> QED
  BY <1>1 DEF Peak, Opposite, Ahead, Sides

LEMMA AheadTyped ==
  ASSUME NEW side \in Sides, NEW p \in Int, NEW q \in Int
  PROVE  /\ Ahead(side, p, q) \in Int /\ StopRisk(p, q) \in Nat
         /\ StopRisk(p, q) = 0 <=> p = q
         /\ Ahead(side, p, q) = -Ahead(side, q, p)
BY DEF Ahead, StopRisk, Sides

\* What a division leaves.
LEMMA Floor ==
  ASSUME NEW a \in Int, NEW b \in Nat \ {0}
  PROVE  /\ a \div b \in Int
         /\ b * (a \div b) <= a
         /\ a < b * (a \div b) + b
OBVIOUS

\* A quotient keeps the sign, and stays above a multiple of the divisor that the
\* dividend stays above.
LEMMA FloorAtLeast ==
  ASSUME NEW a \in Int, NEW b \in Nat \ {0}, NEW c \in Int, a >= b * c
  PROVE  a \div b >= c
<1> PICK q \in Int : q = a \div b
  BY Floor
<1>1. b * q + b > b * c
  BY Floor
<1>2. SUFFICES ASSUME q < c PROVE FALSE
  OBVIOUS
<1>3. b * (q + 1) <= b * c
  BY <1>2
<1> QED
  BY <1>1, <1>3

LEMMA FloorNotPositive ==
  ASSUME NEW a \in Int, NEW b \in Nat \ {0}, a <= 0
  PROVE  a \div b <= 0
<1> PICK q \in Int : q = a \div b
  BY Floor
<1>1. b * q <= 0
  BY Floor
<1> QED
  BY <1>1

\* The lots of a signal risk no more than the budget.
LEMMA LotsWithin ==
  ASSUME NEW budget \in Int, NEW distance \in Nat \ {0}
  PROVE  \E lots \in Nat :
           /\ lots = LotSize(budget, distance, PipSize, PipValue)
           /\ budget >= 0 => lots * (distance * PipValue) <= budget * PipSize
<1> USE SizingAssumption
<1>1. PICK d \in Nat \ {0} : d = distance * PipValue
  OBVIOUS
<1>2. PICK a \in Int : a = budget * PipSize /\ (budget >= 0 => a >= 0)
  OBVIOUS
<1>3. PICK q \in Int : q = a \div d /\ d * q <= a
  BY Floor
<1>4. LotSize(budget, distance, PipSize, PipValue) = Within(q)
  BY <1>1, <1>2, <1>3 DEF LotSize
<1>5. PICK lots \in Nat : lots = Within(q) /\ (lots <= q \/ lots = 0)
  BY DEF Within
<1>6. ASSUME budget >= 0 PROVE lots * d <= a
  <2>1. CASE lots <= q
    <3>1. d * lots <= d * q /\ lots * d = d * lots
      BY <2>1
    <3> QED
      BY <1>3, <3>1
  <2>2. CASE lots = 0
    BY <1>2, <1>6, <2>2
  <2> QED
    BY <1>5, <2>1, <2>2
<1> QED
  BY <1>1, <1>2, <1>4, <1>5, <1>6

LEMMA PnlSign ==
  ASSUME NEW t, t.side \in Sides, t.entry \in Int, t.lots \in Nat, NEW exit \in Int
  PROVE  /\ Pnl(t, exit) \in Int
         /\ Ahead(t.side, t.entry, exit) <= 0 => Pnl(t, exit) <= 0
         /\ Ahead(t.side, t.entry, exit) >= 0 => Pnl(t, exit) >= 0
<1>1. PICK way \in Int : way = Ahead(t.side, t.entry, exit)
  BY AheadTyped
<1>2. PICK each \in Nat : each = t.lots * PipValue /\ way * t.lots * PipValue = way * each
  BY SizingAssumption
<1>3. PICK money \in Int : money = way * each
  OBVIOUS
<1>4. Pnl(t, exit) = money \div PipSize
  BY <1>1, <1>2, <1>3 DEF Pnl
<1>5. Pnl(t, exit) \in Int
  BY <1>4, Floor, SizingAssumption
<1>6. ASSUME way <= 0 PROVE Pnl(t, exit) <= 0
  <2>1. money <= 0
    BY <1>3, <1>6
  <2> QED
    BY <1>4, <2>1, FloorNotPositive, SizingAssumption
<1>7. ASSUME way >= 0 PROVE Pnl(t, exit) >= 0
  <2>1. money >= PipSize * 0
    BY <1>3, <1>7, SizingAssumption
  <2> QED
    BY <1>4, <2>1, FloorAtLeast, SizingAssumption
<1> QED
  BY <1>1, <1>5, <1>6, <1>7

\* Lots within the budget lose no more than it as long as the price is not past the stop.
LEMMA PnlCapped ==
  ASSUME NEW t, t.side \in Sides, t.entry \in Int, t.stop \in Int, t.lots \in Nat,
         t.budget \in Nat, NEW exit \in Int,
         t.lots * (StopRisk(t.entry, t.stop) * PipValue) <= t.budget * PipSize,
         Ahead(t.side, t.entry, exit) >= -StopRisk(t.entry, t.stop)
  PROVE  Pnl(t, exit) >= -t.budget
<1>1. PICK way \in Int : way = Ahead(t.side, t.entry, exit)
  BY AheadTyped
<1>2. PICK risk \in Nat : risk = StopRisk(t.entry, t.stop)
  BY AheadTyped
<1>3. PICK each \in Nat : /\ each = t.lots * PipValue
                          /\ way * t.lots * PipValue = way * each
                          /\ t.lots * (risk * PipValue) = risk * each
  BY SizingAssumption
<1>4. Pnl(t, exit) = (way * each) \div PipSize
  BY <1>1, <1>3 DEF Pnl
<1>5. way * each >= (-risk) * each
  BY <1>1, <1>2
<1>6. (-risk) * each = -(risk * each)
  OBVIOUS
<1>7. PICK all \in Nat : all = t.budget * PipSize /\ PipSize * (-t.budget) = -all
  BY SizingAssumption
<1>8. risk * each <= all
  BY <1>2, <1>3, <1>7
<1>9. PICK money \in Int : money = way * each
  OBVIOUS
<1>10. money >= PipSize * (-t.budget)
  <2>1. risk * each \in Nat
    OBVIOUS
  <2> QED
    BY <1>5, <1>6, <1>7, <1>8, <1>9, <2>1
<1> QED
  BY <1>4, <1>9, <1>10, FloorAtLeast, SizingAssumption

-----------------------------------------------------------------------------
(* Lab: signals.                                                           *)

LEMMA StrategyTenths ==
  ASSUME NEW s \in Registry
  PROVE  StopTenths(s) \in Nat /\ TargetTenths(s) \in Nat
BY DEF StopTenths, TargetTenths

LEMMA ShiftedAhead ==
  ASSUME NEW side \in Sides, NEW p \in Int, NEW d \in Int
  PROVE  /\ Shifted(side, p, d) \in Int
         /\ Ahead(side, p, Shifted(side, p, d)) = d
         /\ Ahead(side, Shifted(side, p, d), p) = -d
BY DEF Shifted, Ahead, Sides

\* Levels of a signal are prices, and but for the two strategies that misplace them
\* the stop is not ahead of the last close, nor the target behind it.
LEMMA LevelsPlaced ==
  ASSUME NEW s \in Registry, NEW side \in Sides, NEW w \in Seq(Candles), Len(w) >= 3,
         NEW r \in Reading(Int)
  PROVE  /\ StopLevel(s, side, w, r) \in Int /\ TargetLevel(s, side, w, r) \in Int
         /\ Last(w) \in Candles
         /\ s \notin Misplacing =>
              /\ Ahead(side, StopLevel(s, side, w, r), Last(w).close) >= 0
              /\ Ahead(side, Last(w).close, TargetLevel(s, side, w, r)) >= 0
<1>1. Last(w) \in Candles /\ w[Len(w) - 2] \in Candles
  BY DEF Last
<1>2. PICK tenth \in Nat : tenth = r.tenth
  BY DEF Reading, Tenths
<1>3. r.band.middle \in Int
  BY DEF Reading, Bands
<1>4. PICK bar \in Candles, mother \in Candles : bar = Last(w) /\ mother = w[Len(w) - 2]
  BY <1>1
<1>5. PICK other \in Sides : other = Opposite(side)
  BY <1>4, BarSound
<1>6. bar.close \in Int /\ Peak(other, bar) \in Int /\ Peak(other, mother) \in Int
      /\ Ahead(side, Peak(other, bar), bar.close) >= 0
  BY <1>5, BarSound
<1>7. PICK back \in Nat, forth \in Nat :
        back = StopTenths(s) * tenth /\ forth = TargetTenths(s) * tenth
  BY StrategyTenths
<1>8. TargetLevel(s, side, w, r) =
        IF s = "bollinger_bounce" THEN r.band.middle ELSE Shifted(side, bar.close, forth)
  BY <1>2, <1>4, <1>7 DEF TargetLevel
<1>9. CASE s = "inside_bar_breakout"
  <2>1. StopLevel(s, side, w, r) = Shifted(side, Peak(other, mother), -tenth)
    BY <1>2, <1>4, <1>5, <1>9 DEF StopLevel
  <2> QED
    BY <1>1, <1>3, <1>6, <1>8, <1>9, <2>1, ShiftedAhead DEF Misplacing
<1>10. CASE s = "engulfing_pattern"
  <2>1. PICK low \in Int : low = Peak(other, bar)
    BY <1>6
  <2>2. StopLevel(s, side, w, r) = Shifted(side, low, -tenth)
    BY <1>2, <1>4, <1>5, <1>10, <2>1 DEF StopLevel
  <2>3. Ahead(side, Shifted(side, low, -tenth), bar.close) >= 0
    BY <1>6, <2>1 DEF Shifted, Ahead, Sides
  <2>4. /\ TargetLevel(s, side, w, r) \in Int
        /\ Ahead(side, bar.close, TargetLevel(s, side, w, r)) >= 0
    BY <1>6, <1>8, <1>10, ShiftedAhead
  <2> QED
    BY <1>1, <1>4, <2>2, <2>3, <2>4, ShiftedAhead
<1>11. CASE s \notin {"inside_bar_breakout", "engulfing_pattern"}
  <2>1. StopLevel(s, side, w, r) = Shifted(side, bar.close, -back)
    BY <1>2, <1>4, <1>7, <1>11 DEF StopLevel
  <2>2. /\ StopLevel(s, side, w, r) \in Int
        /\ Ahead(side, StopLevel(s, side, w, r), bar.close) >= 0
    BY <1>6, <2>1, ShiftedAhead
  <2>3. TargetLevel(s, side, w, r) \in Int
    BY <1>3, <1>6, <1>8, ShiftedAhead
  <2>4. s \notin Misplacing => Ahead(side, bar.close, TargetLevel(s, side, w, r)) >= 0
    BY <1>6, <1>8, ShiftedAhead DEF Misplacing
  <2> QED
    BY <1>1, <1>4, <2>2, <2>3, <2>4
<1> QED
  BY <1>9, <1>10, <1>11

Verdict == [type : Sides \cup {"HOLD"}, price : Int, stop : Int, target : Int]

LEMMA SignalPlaced ==
  ASSUME NEW s \in Registry, NEW w \in Seq(Candles), Len(w) >= 3, NEW r \in Reading(Int),
         NEW sig, sig = Signal(s, w, r)
  PROVE  /\ sig \in Verdict
         /\ sig.type # "HOLD" =>
              /\ sig.type \in Sides /\ sig.price = Last(w).close
              /\ s \notin Misplacing => /\ Ahead(sig.type, sig.stop, sig.price) >= 0
                                        /\ Ahead(sig.type, sig.price, sig.target) >= 0
<1>1. CASE sig = Hold
  BY <1>1 DEF Hold, Verdict
<1>2. CASE sig # Hold
  <2>1. PICK side \in Sides :
          sig = [type |-> side, price |-> Last(w).close,
                 stop |-> StopLevel(s, side, w, r), target |-> TargetLevel(s, side, w, r)]
    BY <1>2 DEF Signal, Sides
  <2>2. PICK stop \in Int, target \in Int :
          /\ stop = StopLevel(s, side, w, r) /\ target = TargetLevel(s, side, w, r)
          /\ s \notin Misplacing => /\ Ahead(side, stop, Last(w).close) >= 0
                                    /\ Ahead(side, Last(w).close, target) >= 0
    BY LevelsPlaced
  <2>3. PICK close \in Int : close = Last(w).close
    BY LevelsPlaced, BarSound
  <2>4. sig = [type |-> side, price |-> close, stop |-> stop, target |-> target]
    BY <2>1, <2>2, <2>3
  <2> QED
    BY <2>2, <2>3, <2>4 DEF Verdict, Sides
<1> QED
  BY <1>1, <1>2

-----------------------------------------------------------------------------
(* Lab: trades.                                                            *)

TradeRow(reasons) ==
  [side : Sides, entry : Int, stop : Int, target : Int, lots : Nat, at : Nat, budget : Int,
   exit : Int, reason : reasons, until : Nat]

Reasons == {"none", "open", "stop", "target", "end"}

\* A trade whose levels are on their sides of the entry, and whose lots risk its share
\* of the money it was opened with.
Capped(t, money) ==
  /\ Ahead(t.side, t.stop, t.entry) >= 0 /\ Ahead(t.side, t.entry, t.target) >= 0
  /\ t.budget = money \div RiskParts
  /\ t.lots * (StopRisk(t.entry, t.stop) * PipValue) <= t.budget * PipSize \/ t.entry = t.stop

LEMMA NothingTraded == NoTrade \in TradeRow({"none"}) /\ NoTrade.at = 0
BY DEF NoTrade, Trade, TradeRow, Sides

LEMMA BudgetTyped ==
  ASSUME NEW money \in Int
  PROVE  /\ money \div RiskParts \in Int
         /\ money >= 0 => money \div RiskParts \in 0..money
<1> PICK q \in Int : q = money \div RiskParts
  BY Floor, LabAssumption
<1>1. RiskParts * q <= money /\ money < RiskParts * q + RiskParts
  BY Floor, LabAssumption
<1>2. ASSUME money >= 0 PROVE q >= 0
  <2>1. money >= RiskParts * 0
    BY <1>2, LabAssumption
  <2> QED
    BY <2>1, FloorAtLeast, LabAssumption
<1>3. ASSUME money >= 0 PROVE q <= money
  <2>1. q >= 0
    BY <1>2, <1>3
  <2>2. q <= RiskParts * q
    BY <2>1, LabAssumption
  <2>3. RiskParts * q \in Int
    BY LabAssumption
  <2> QED
    BY <1>1, <2>2, <2>3
<1> QED
  BY <1>2, <1>3

LEMMA Opened ==
  ASSUME NEW sig \in Verdict, sig.type \in Sides, NEW money \in Int, NEW at \in Nat,
         NEW t, t = OpenFromSignal(sig, money, at)
  PROVE  /\ t \in TradeRow({"open"})
         /\ t.side = sig.type /\ t.entry = sig.price /\ t.stop = sig.stop
         /\ t.target = sig.target /\ t.at = at /\ t.reason = "open"
         /\ /\ money >= 0
            /\ Ahead(sig.type, sig.stop, sig.price) >= 0
            /\ Ahead(sig.type, sig.price, sig.target) >= 0
            => Capped(t, money)
<1>1. sig.price \in Int /\ sig.stop \in Int /\ sig.target \in Int
  BY DEF Verdict
<1>2. PICK distance \in Nat :
        distance = StopRisk(sig.price, sig.stop) /\ (distance = 0 <=> sig.price = sig.stop)
  BY <1>1, AheadTyped
<1>3. PICK budget \in Int : budget = money \div RiskParts /\ (money >= 0 => budget >= 0)
  BY BudgetTyped
<1>4. PICK lots \in Nat :
        /\ lots = IF distance = 0 THEN 1 ELSE LotSize(budget, distance, PipSize, PipValue)
        /\ budget >= 0 /\ distance # 0 => lots * (distance * PipValue) <= budget * PipSize
  <2>1. CASE distance = 0
    BY <2>1
  <2>2. CASE distance # 0
    BY <2>2, LotsWithin
  <2> QED
    BY <2>1, <2>2
<1>5. t = Trade(sig.type, sig.price, sig.stop, sig.target, lots, at, budget)
  BY <1>2, <1>3, <1>4 DEF OpenFromSignal
<1>6. /\ t \in TradeRow({"open"})
      /\ t.side = sig.type /\ t.entry = sig.price /\ t.stop = sig.stop
      /\ t.target = sig.target /\ t.at = at /\ t.reason = "open"
      /\ t.lots = lots /\ t.budget = budget
  BY <1>1, <1>5 DEF Trade, TradeRow
<1>7. money >= 0 => lots * (distance * PipValue) <= budget * PipSize \/ sig.price = sig.stop
  BY <1>2, <1>3, <1>4
<1>8. ASSUME money >= 0, Ahead(sig.type, sig.stop, sig.price) >= 0,
             Ahead(sig.type, sig.price, sig.target) >= 0
      PROVE  Capped(t, money)
  <2>1. StopRisk(t.entry, t.stop) = distance
    BY <1>2, <1>6
  <2> QED
    BY <1>3, <1>6, <1>7, <1>8, <2>1 DEF Capped
<1> QED
  BY <1>6, <1>8

\* _close changes nothing else of a trade.
LEMMA ClosedTrade ==
  ASSUME NEW t \in TradeRow({"open"}), NEW exit \in Int, NEW at \in Nat,
         NEW reason \in {"stop", "target", "end"},
         NEW c, c = Closed(t, exit, reason, at)
  PROVE  /\ c \in TradeRow(Reasons)
         /\ c.side = t.side /\ c.entry = t.entry /\ c.stop = t.stop /\ c.target = t.target
         /\ c.lots = t.lots /\ c.budget = t.budget /\ c.at = t.at
         /\ c.exit = exit /\ c.reason = reason /\ c.until = at
BY DEF Closed, TradeRow, Reasons

\* _pnl looks at the side, the entry and the lots.
LEMMA PnlSame ==
  ASSUME NEW t, NEW c, c.side = t.side, c.entry = t.entry, c.lots = t.lots, NEW exit
  PROVE  Pnl(c, exit) = Pnl(t, exit)
BY DEF Pnl

\* What _check_stop_or_target makes of a trade, the stop first.
LEMMA CheckedBar ==
  ASSUME NEW t \in TradeRow({"open"}), NEW bar \in Candles, NEW at \in Nat,
         NEW c, c = CheckStopOrTarget(t, bar, at)
  PROVE  \/ /\ c = t
            /\ Ahead(t.side, t.stop, Peak(Opposite(t.side), bar)) > 0
            /\ Ahead(t.side, t.target, Peak(t.side, bar)) < 0
         \/ /\ c = Closed(t, t.stop, "stop", at)
            /\ Ahead(t.side, t.stop, Peak(Opposite(t.side), bar)) <= 0
         \/ /\ c = Closed(t, t.target, "target", at)
            /\ Ahead(t.side, t.stop, Peak(Opposite(t.side), bar)) > 0
            /\ Ahead(t.side, t.target, Peak(t.side, bar)) >= 0
<1>0. t.side \in Sides /\ t.stop \in Int /\ t.target \in Int
  BY DEF TradeRow
<1>1. /\ Peak(t.side, bar) \in Int /\ Peak(Opposite(t.side), bar) \in Int
  BY <1>0, BarSound
<1>2. PICK worst \in Int, best \in Int :
        /\ worst = Ahead(t.side, t.stop, Peak(Opposite(t.side), bar))
        /\ best = Ahead(t.side, t.target, Peak(t.side, bar))
  BY <1>0, <1>1, AheadTyped
<1>3. c = CASE worst <= 0 -> Closed(t, t.stop, "stop", at)
            [] worst > 0 /\ best >= 0 -> Closed(t, t.target, "target", at)
            [] OTHER -> t
  BY <1>2 DEF CheckStopOrTarget
<1>4. CASE worst <= 0
  BY <1>2, <1>3, <1>4
<1>5. CASE worst > 0 /\ best >= 0
  BY <1>2, <1>3, <1>5
<1>6. CASE worst > 0 /\ best < 0
  BY <1>2, <1>3, <1>6
<1> QED
  BY <1>4, <1>5, <1>6

\* A closed trade as StopCapsLoss wants it.
Booked(t) ==
  /\ t.reason = "stop" => Pnl(t, t.exit) <= 0
  /\ t.reason = "target" => Pnl(t, t.exit) >= 0
  /\ Pnl(t, t.exit) >= -t.budget \/ t.entry = t.stop

\* Whatever closes a capped trade at a price not behind its stop, it is booked as it
\* should be, and the money stays above zero.
LEMMA CappedBooked ==
  ASSUME NEW t \in TradeRow({"open"}), NEW money \in Nat, Capped(t, money),
         NEW reason \in {"stop", "target", "end"}, NEW exit \in Int, NEW at \in Nat,
         Ahead(t.side, t.stop, exit) >= 0,
         reason = "stop" => exit = t.stop, reason = "target" => exit = t.target,
         NEW c, c = Closed(t, exit, reason, at)
  PROVE  /\ Booked(c) /\ Pnl(c, c.exit) \in Int /\ money + Pnl(c, c.exit) \in Nat
<1>1. /\ t.side \in Sides /\ t.entry \in Int /\ t.stop \in Int /\ t.target \in Int
      /\ t.lots \in Nat
  BY DEF TradeRow
<1>2. /\ Ahead(t.side, t.stop, t.entry) >= 0 /\ Ahead(t.side, t.entry, t.target) >= 0
      /\ t.budget = money \div RiskParts
      /\ t.lots * (StopRisk(t.entry, t.stop) * PipValue) <= t.budget * PipSize
           \/ t.entry = t.stop
  BY DEF Capped
<1>3. t.budget \in 0..money
  <2>1. money \in Int /\ money >= 0
    OBVIOUS
  <2> QED
    BY <1>2, <2>1, BudgetTyped
<1>4. PICK won \in Int : won = Pnl(t, exit)
  BY <1>1, PnlSign
<1>5. /\ c.reason = reason /\ c.exit = exit /\ c.budget = t.budget
      /\ c.side = t.side /\ c.lots = t.lots /\ c.entry = t.entry /\ c.stop = t.stop
  BY ClosedTrade
<1>6. Pnl(c, c.exit) = won
  BY <1>4, <1>5, PnlSame
<1>7. Ahead(t.side, t.entry, t.stop) <= 0
  BY <1>1, <1>2, AheadTyped
<1>8. reason = "stop" => won <= 0
  BY <1>1, <1>4, <1>7, PnlSign
<1>9. reason = "target" => won >= 0
  BY <1>1, <1>2, <1>4, PnlSign
<1>10. won >= -t.budget \/ t.entry = t.stop
  <2>1. SUFFICES ASSUME t.entry # t.stop PROVE won >= -t.budget
    OBVIOUS
  <2>2. t.lots * (StopRisk(t.entry, t.stop) * PipValue) <= t.budget * PipSize
    BY <1>2, <2>1
  <2>3. Ahead(t.side, t.entry, t.stop) = -StopRisk(t.entry, t.stop)
    BY <1>1, <1>7 DEF Ahead, StopRisk
  <2>4. Ahead(t.side, t.entry, exit) >= Ahead(t.side, t.entry, t.stop)
    BY <1>1 DEF Ahead
  <2>5. Ahead(t.side, t.entry, exit) >= -StopRisk(t.entry, t.stop)
    BY <2>3, <2>4
  <2>6. t.budget \in Nat
    BY <1>3
  <2> QED
    BY <1>1, <1>4, <2>2, <2>5, <2>6, PnlCapped
<1>11. t.entry = t.stop => won >= 0
  BY <1>1, <1>4, PnlSign
<1>12. Booked(c)
  BY <1>5, <1>6, <1>8, <1>9, <1>10 DEF Booked
<1>13. money + won \in Nat
  BY <1>3, <1>4, <1>10, <1>11
<1> QED
  BY <1>6, <1>12, <1>13

-----------------------------------------------------------------------------
(* Lab: what the market does to the live trade, and what is kept of it.    *)

Worst(t, bar) == Ahead(t.side, t.stop, Peak(Opposite(t.side), bar))
Best(t, bar) == Ahead(t.side, t.target, Peak(t.side, bar))

\* On every bar the best price is at least as far as the worst one, so that a level
\* either price touches is touched as the bot sees it.
LEMMA TouchedBar ==
  ASSUME NEW t, t.side \in Sides, t.stop \in Int, t.target \in Int,
         NEW bar \in Candles, NEW high \in BOOLEAN
  PROVE  /\ Worst(t, bar) \in Int /\ Best(t, bar) \in Int
         /\ \/ Touched(t, bar, high) = "open" /\ Worst(t, bar) > 0 /\ Best(t, bar) < 0
            \/ Touched(t, bar, high) = "stop" /\ Worst(t, bar) <= 0
            \/ Touched(t, bar, high) = "target" /\ Best(t, bar) >= 0
<1>1. /\ bar.high \in Int /\ bar.low \in Int /\ bar.low <= bar.high
  BY LabAssumption DEF Bar
<1>2. PICK stop \in Int, target \in Int : stop = t.stop /\ target = t.target
  OBVIOUS
<1>3. PICK top \in Int, bottom \in Int : top = bar.high /\ bottom = bar.low /\ bottom <= top
  BY <1>1
<1>4. CASE t.side = "BUY"
  <2>1. Worst(t, bar) = bottom - stop /\ Best(t, bar) = top - target
    BY <1>2, <1>3, <1>4 DEF Worst, Best, Ahead, Peak, Opposite
  <2>2. /\ Ahead(t.side, t.target, Peak("BUY", bar)) = top - target
        /\ Ahead(t.side, t.target, Peak("SELL", bar)) = bottom - target
        /\ Ahead(t.side, t.stop, Peak("BUY", bar)) = top - stop
        /\ Ahead(t.side, t.stop, Peak("SELL", bar)) = bottom - stop
    BY <1>2, <1>3, <1>4 DEF Ahead, Peak
  <2>3. CASE high
    BY <1>3, <2>1, <2>2, <2>3 DEF Touched, Opposite
  <2>4. CASE ~high
    BY <1>3, <2>1, <2>2, <2>4 DEF Touched, Opposite
  <2> QED
    BY <2>3, <2>4
<1>5. CASE t.side = "SELL"
  <2>1. Worst(t, bar) = stop - top /\ Best(t, bar) = target - bottom
    BY <1>2, <1>3, <1>5 DEF Worst, Best, Ahead, Peak, Opposite
  <2>2. /\ Ahead(t.side, t.target, Peak("BUY", bar)) = target - top
        /\ Ahead(t.side, t.target, Peak("SELL", bar)) = target - bottom
        /\ Ahead(t.side, t.stop, Peak("BUY", bar)) = stop - top
        /\ Ahead(t.side, t.stop, Peak("SELL", bar)) = stop - bottom
    BY <1>2, <1>3, <1>5 DEF Ahead, Peak
  <2>3. CASE high
    BY <1>3, <2>1, <2>2, <2>3 DEF Touched, Opposite
  <2>4. CASE ~high
    BY <1>3, <2>1, <2>2, <2>4 DEF Touched, Opposite
  <2> QED
    BY <2>3, <2>4
<1> QED
  BY <1>4, <1>5 DEF Sides

LEMMA HitBar ==
  ASSUME NEW t, t.side \in Sides, t.stop \in Int, t.target \in Int, NEW bar \in Candles,
         NEW hit, hit = Hit(t.side, t.stop, t.target, bar)
  PROVE  \/ hit = "stop" /\ Worst(t, bar) <= 0
         \/ hit = "target" /\ Worst(t, bar) > 0 /\ Best(t, bar) >= 0
         \/ hit = "none" /\ Worst(t, bar) > 0 /\ Best(t, bar) < 0
<1>1. PICK worst \in Int, best \in Int : worst = Worst(t, bar) /\ best = Best(t, bar)
  BY TouchedBar
<1>2. (IF t.side = "BUY" THEN bar.low ELSE bar.high) = Peak(Opposite(t.side), bar)
  BY DEF Peak, Opposite
<1>3. hit = CASE worst <= 0 -> "stop" [] worst > 0 /\ best >= 0 -> "target" [] OTHER -> "none"
  BY <1>1, <1>2 DEF Hit, Worst, Best
<1>4. CASE worst <= 0
  BY <1>1, <1>3, <1>4
<1>5. CASE worst > 0 /\ best >= 0
  BY <1>1, <1>3, <1>5
<1>6. CASE worst > 0 /\ best < 0
  BY <1>1, <1>3, <1>6
<1> QED
  BY <1>4, <1>5, <1>6

\* The path of a trade that lived past its bar: nothing, or the bars since.
LEMMA RecordedPath ==
  ASSUME bars' \in Seq(Candles), NEW at \in 1..Len(bars'), NEW opened \in 0..at,
         NEW frame, NEW kept, kept = Recorded(frame, opened, at)
  PROVE  /\ kept \in Seq(Candles)
         /\ opened < at =>
              \/ kept = <<>>
              \/ /\ Len(kept) = at - opened
                 /\ \A i \in 1..(at - opened) : kept[i] = bars'[opened + i]
<1>1. PICK w \in Seq(Candles) : w = bars'
  OBVIOUS
<1>2. at \in Nat /\ opened \in Nat /\ at <= Len(w) /\ opened <= at /\ Len(w) \in Nat
  BY <1>1
<1>3. PICK from \in Nat : from = opened + 1
  BY <1>2
<1>4. PICK slice : slice = SubSeq(w, from, at)
  OBVIOUS
<1>5. /\ slice \in Seq(Candles)
      /\ Len(slice) = IF from <= at THEN at - from + 1 ELSE 0
      /\ \A i \in 1..(at - from + 1) : slice[i] = w[from + i - 1]
  <2>1. \A i \in from..at : w[i] \in Candles
    BY <1>2, <1>3
  <2>2. from \in Int /\ at \in Int
    BY <1>2
  <2> QED
    BY <1>4, <2>1, <2>2, SubSeqProperties
<1>6. PICK tail : tail = FallbackTail(at)
  OBVIOUS
<1>7. tail \in Seq(Candles)
  <2>1. PICK first \in 1..at : tail = SubSeq(w, first, at)
    BY <1>1, <1>2, <1>6, LabAssumption DEF FallbackTail
  <2>2. \A i \in first..at : w[i] \in Candles
    BY <1>2
  <2>3. first \in Int /\ at \in Int
    BY <1>2
  <2> QED
    BY <2>1, <2>2, <2>3, SubSeqProperties, Zenon
<1>8. kept = IF slice = <<>> THEN tail ELSE IF frame = "column" THEN slice ELSE <<>>
  BY <1>1, <1>3, <1>4, <1>6 DEF Recorded
<1>9. kept \in Seq(Candles)
  BY <1>5, <1>7, <1>8
<1>10. ASSUME opened < at
       PROVE  \/ kept = <<>>
              \/ /\ Len(kept) = at - opened
                 /\ \A i \in 1..(at - opened) : kept[i] = bars'[opened + i]
  <2>1. Len(slice) = at - opened /\ at - opened > 0
    BY <1>2, <1>3, <1>5, <1>10
  <2>2. slice # <<>>
    BY <2>1, EmptySeq
  <2>3. ASSUME NEW i \in 1..(at - opened) PROVE slice[i] = w[opened + i]
    <3>1. i \in 1..(at - from + 1) /\ from + i - 1 = opened + i
      BY <1>2, <1>3
    <3> QED
      BY <1>5, <3>1
  <2> QED
    BY <1>1, <1>8, <2>1, <2>2, <2>3
<1> QED
  BY <1>9, <1>10

LEMMA Least ==
  ASSUME NEW S \in SUBSET Nat, S # {}
  PROVE  \E m \in S : \A j \in S : m <= j
<1> DEFINE R == OpToRel(<, Nat)
<1>1. PICK m \in S : \A j \in S : ~(<<j, m>> \in R)
  <2>1. IsWellFoundedOn(R, Nat)
    BY NatLessThanWellFounded
  <2> HIDE DEF R
  <2> QED
    BY <2>1, WFMin
<1>2. \A j \in S : ~(j < m)
  BY <1>1 DEF OpToRel
<1> QED
  BY <1>2

\* A walk that meets the target nowhere before the last bar, and the stop there, does
\* not end with the target.
LEMMA WalkHeld ==
  ASSUME NEW side \in Sides, NEW levels, NEW walked \in Seq(Candles), NEW n \in Nat \ {0},
         n = Len(walked),
         Ahead(side, levels.stop, Peak(Opposite(side), walked[n])) <= 0,
         \A i \in 1..(n - 1) : ~(Ahead(side, levels.target, Peak(side, walked[i])) >= 0)
  PROVE  Walk(side, levels, walked) # "target"
<1> DEFINE stopped == {i \in DOMAIN walked :
                         Ahead(side, levels.stop, Peak(Opposite(side), walked[i])) <= 0}
           reached == {i \in DOMAIN walked :
                         Ahead(side, levels.target, Peak(side, walked[i])) >= 0}
           touched == stopped \cup reached
           first == CHOOSE i \in touched : \A j \in touched : i <= j
<1>1. Walk(side, levels, walked) =
        IF touched = {} THEN "open_at_end" ELSE IF first \in stopped THEN "stop" ELSE "target"
  BY Zenon DEF Walk
<1>2. DOMAIN walked = 1..n
  OBVIOUS
<1>3. n \in stopped /\ stopped \in SUBSET Nat /\ reached \subseteq {n}
  BY <1>2
<1>4. touched \in SUBSET Nat /\ touched # {} /\ touched \subseteq stopped
  BY <1>3
<1> HIDE DEF stopped, reached
<1>5. \E i \in touched : \A j \in touched : i <= j
  <2> HIDE DEF touched
  <2> QED
    BY <1>4, Least
<1>6. first \in touched
  BY <1>5, Zenon
<1> QED
  BY <1>1, <1>4, <1>6, Zenon

-----------------------------------------------------------------------------
(* Lab: types, and what one iteration does.                                *)

LabTyped ==
  /\ strategy \in Registry
  /\ bars \in Seq(Candles) /\ Len(bars) >= 2
  /\ trade \in TradeRow({"none", "open"})
  /\ done \in TradeRow({"none", "stop", "target", "end"})
  /\ live \in TradeRow({"none", "open", "stop", "target"})
  /\ equity \in Int /\ path \in Seq(Candles) /\ over \in BOOLEAN
  /\ live.at <= Len(bars) /\ trade.at <= Len(bars) /\ done.at <= Len(bars)

\* The bars w from the one after the entry to the one of the exit, or nothing.
Kept(p, w, opened, at) ==
  p # <<>> => Len(p) = at - opened /\ \A i \in 1..(at - opened) : p[i] = w[opened + i]

\* A trade that a bar closes, and the path that is kept of it.
LiveCloses(bar, at) ==
  \E reason \in {"stop", "target"}, exit \in Int :
    /\ live' = Closed(live, exit, reason, at)
    /\ reason = "stop" => Worst(live, bar) <= 0
    /\ path' \in Seq(Candles)
    /\ path = <<>> /\ live.at < at => Kept(path', bars', live.at, at)

LEMMA BotClosesParts ==
  ASSUME path \in Seq(Candles), bars' \in Seq(Candles), NEW bar \in Candles,
         NEW at \in 1..Len(bars'), live.at \in 0..at,
         NEW reason \in {"stop", "target"}, NEW exit \in Int, BotCloses(reason, exit, at),
         reason = "stop" => Worst(live, bar) <= 0
  PROVE  LiveCloses(bar, at)
<1>1. PICK frame : WritePath(Recorded(frame, live.at, at))
  BY DEF BotCloses
<1>2. PICK kept : kept = Recorded(frame, live.at, at)
  OBVIOUS
<1>3. kept \in Seq(Candles)
  BY <1>2, RecordedPath
<1>4. path' = IF kept = <<>> THEN path ELSE kept
  BY <1>1, <1>2 DEF WritePath
<1>5. ASSUME path = <<>>, live.at < at PROVE Kept(path', bars', live.at, at)
  <2>1. \/ kept = <<>>
        \/ /\ Len(kept) = at - live.at
           /\ \A i \in 1..(at - live.at) : kept[i] = bars'[live.at + i]
    BY <1>2, <1>5, RecordedPath
  <2> QED
    BY <1>4, <1>5, <2>1 DEF Kept
<1>6. live' = Closed(live, exit, reason, at)
  BY DEF BotCloses
<1> QED
  BY <1>3, <1>4, <1>5, <1>6 DEF LiveCloses

LEMMA BrokerClosesParts ==
  ASSUME path \in Seq(Candles), live.stop \in Int, live.target \in Int,
         NEW bar, NEW at, NEW reason \in {"stop", "target"}, BrokerCloses(reason, at),
         reason = "stop" => Worst(live, bar) <= 0
  PROVE  LiveCloses(bar, at)
<1>1. PICK exit \in Int : exit = IF reason = "stop" THEN live.stop ELSE live.target
  OBVIOUS
<1>2. live' = Closed(live, exit, reason, at) /\ path' = path
  BY <1>1 DEF BrokerCloses
<1> QED
  BY <1>2 DEF LiveCloses, Kept

LEMMA LiveBarParts ==
  ASSUME live \in TradeRow({"open"}), path \in Seq(Candles), bars' \in Seq(Candles),
         NEW bar \in Candles, NEW at \in 1..Len(bars'), live.at <= at, LiveBar(bar, at)
  PROVE  \/ live' = live /\ path' = path /\ Worst(live, bar) > 0 /\ Best(live, bar) < 0
         \/ LiveCloses(bar, at)
<1>1. live.side \in Sides /\ live.stop \in Int /\ live.target \in Int /\ live.at \in 0..at
  BY DEF TradeRow
<1>2. PICK high \in BOOLEAN :
        IF Touched(live, bar, high) = "open" THEN UNCHANGED <<live, path>>
        ELSE \/ BrokerCloses(Touched(live, bar, high), at)
             \/ BotCloses(Hit(live.side, live.stop, live.target, bar), bar.close, at)
  BY DEF LiveBar
<1>3. PICK touched : touched = Touched(live, bar, high)
  OBVIOUS
<1>4. PICK worst \in Int, best \in Int : worst = Worst(live, bar) /\ best = Best(live, bar)
  BY <1>1, TouchedBar
<1>5. \/ touched = "open" /\ worst > 0 /\ best < 0
      \/ touched = "stop" /\ worst <= 0
      \/ touched = "target" /\ best >= 0
  BY <1>1, <1>3, <1>4, TouchedBar
<1>6. CASE touched = "open"
  BY <1>2, <1>3, <1>4, <1>5, <1>6
<1>7. CASE touched # "open" /\ BrokerCloses(touched, at)
  <2>1. touched \in {"stop", "target"} /\ (touched = "stop" => worst <= 0)
    BY <1>5, <1>7
  <2> QED
    BY <1>1, <1>4, <1>7, <2>1, BrokerClosesParts
<1>8. CASE /\ touched # "open"
           /\ BotCloses(Hit(live.side, live.stop, live.target, bar), bar.close, at)
  <2>1. PICK hit : hit = Hit(live.side, live.stop, live.target, bar)
    OBVIOUS
  <2>2. \/ hit = "stop" /\ worst <= 0
        \/ hit = "target" /\ worst > 0 /\ best >= 0
        \/ hit = "none" /\ worst > 0 /\ best < 0
    BY <1>1, <1>4, <2>1, HitBar
  <2>3. hit \in {"stop", "target"} /\ (hit = "stop" => worst <= 0)
    BY <1>5, <1>8, <2>2
  <2>4. bar.close \in Int
    BY <1>1, BarSound
  <2> QED
    BY <1>1, <1>4, <1>8, <2>1, <2>3, <2>4, BotClosesParts
<1> QED
  BY <1>2, <1>3, <1>6, <1>7, <1>8

Filled(t) == t.reason \in {"stop", "target"}

\* An iteration, with what it has computed.
Iteration(bar, at, checked, money, sig) ==
  /\ ~over /\ over' = over /\ strategy' = strategy
  /\ at = Len(bars) + 1 /\ bars' = Append(bars, bar)
  /\ checked = IF trade.reason = "open" THEN CheckStopOrTarget(trade, bar, at) ELSE trade
  /\ money = IF Filled(checked) THEN equity + Pnl(checked, checked.exit) ELSE equity
  /\ equity' = money
  /\ done' = IF Filled(checked) THEN checked ELSE done
  /\ sig \in Verdict
  /\ sig.type # "HOLD" => /\ sig.type \in Sides /\ sig.price = bar.close
                          /\ strategy \notin Misplacing =>
                               /\ Ahead(sig.type, sig.stop, sig.price) >= 0
                               /\ Ahead(sig.type, sig.price, sig.target) >= 0
  /\ trade' = IF checked.reason = "open" THEN checked
              ELSE IF sig.type = "HOLD" THEN NoTrade ELSE OpenFromSignal(sig, money, at)
  /\ IF live.reason = "open" THEN LiveBar(bar, at)
     ELSE IF trade'.at = at /\ Accepted(sig) THEN live' = trade' /\ path' = <<>>
     ELSE UNCHANGED <<live, path>>

\* The bars grow by one.
LEMMA BarsGrow ==
  ASSUME bars \in Seq(Candles), NEW bar \in Candles, bars' = Append(bars, bar)
  PROVE  /\ bars' \in Seq(Candles) /\ Len(bars) \in Nat /\ Len(bars') = Len(bars) + 1
         /\ Last(bars') = bar /\ bars'[Len(bars) + 1] = bar
         /\ \A i \in 1..Len(bars) : bars'[i] = bars[i]
BY DEF Last

LEMMA IterateParts ==
  ASSUME LabTyped, NEW bar \in Candles, Iterate(bar)
  PROVE  \E at, checked, money, sig : at \in Nat /\ Iteration(bar, at, checked, money, sig)
<1>1. PICK at \in Nat : at = Len(bars) + 1
  BY DEF LabTyped
<1>2. PICK checked :
        checked = IF trade.reason = "open" THEN CheckStopOrTarget(trade, bar, at) ELSE trade
  OBVIOUS
<1>3. PICK money :
        money = IF Filled(checked) THEN equity + Pnl(checked, checked.exit) ELSE equity
  OBVIOUS
<1>4. /\ ~over /\ over' = over /\ strategy' = strategy /\ bars' = Append(bars, bar)
      /\ equity' = money /\ done' = IF Filled(checked) THEN checked ELSE done
  BY <1>1, <1>2, <1>3 DEF Iterate, Filled
<1>5. PICK r \in Readings[strategy] :
        \E sig : /\ sig = Signal(strategy, bars', r)
                 /\ trade' = IF checked.reason = "open" THEN checked
                             ELSE IF sig.type = "HOLD" THEN NoTrade
                             ELSE OpenFromSignal(sig, money, at)
                 /\ IF live.reason = "open" THEN LiveBar(bar, at)
                    ELSE IF trade'.at = at /\ Accepted(sig) THEN live' = trade' /\ path' = <<>>
                    ELSE UNCHANGED <<live, path>>
  BY <1>1, <1>2, <1>3 DEF Iterate, Filled
<1>6. PICK sig : /\ sig = Signal(strategy, bars', r)
                 /\ trade' = IF checked.reason = "open" THEN checked
                             ELSE IF sig.type = "HOLD" THEN NoTrade
                             ELSE OpenFromSignal(sig, money, at)
                 /\ IF live.reason = "open" THEN LiveBar(bar, at)
                    ELSE IF trade'.at = at /\ Accepted(sig) THEN live' = trade' /\ path' = <<>>
                    ELSE UNCHANGED <<live, path>>
  BY <1>5
<1>7. PICK w \in Seq(Candles) : w = bars' /\ Len(w) >= 3 /\ Last(w) = bar
  <2>1. bars \in Seq(Candles) /\ Len(bars) >= 2
    BY DEF LabTyped
  <2>2. /\ bars' \in Seq(Candles) /\ Len(bars) \in Nat /\ Len(bars') = Len(bars) + 1
        /\ Last(bars') = bar
    BY <1>4, <2>1, BarsGrow
  <2>3. Len(bars') >= 3
    BY <2>1, <2>2
  <2> QED
    BY <2>2, <2>3
<1>8. strategy \in Registry /\ r \in Reading(Int)
  BY LabAssumption DEF LabTyped
<1>9. /\ sig \in Verdict
      /\ sig.type # "HOLD" => /\ sig.type \in Sides /\ sig.price = bar.close
                              /\ strategy \notin Misplacing =>
                                   /\ Ahead(sig.type, sig.stop, sig.price) >= 0
                                   /\ Ahead(sig.type, sig.price, sig.target) >= 0
  BY <1>6, <1>7, <1>8, SignalPlaced
<1> QED
  BY <1>1, <1>2, <1>3, <1>4, <1>6, <1>9 DEF Iteration

\* The backtest's trade on a bar: what it was, or closed by the bar at one of its levels.
LEMMA CheckedTyped ==
  ASSUME LabTyped, NEW bar \in Candles, NEW at \in Nat, NEW checked, NEW money, NEW sig,
         Iteration(bar, at, checked, money, sig)
  PROVE  /\ checked \in TradeRow({"none", "open", "stop", "target"}) /\ checked.at = trade.at
         /\ checked.reason = "open" => trade.reason = "open" /\ checked = trade
         /\ Filled(checked) => trade.reason = "open"
         /\ money \in Int
<1>1. checked = IF trade.reason = "open" THEN CheckStopOrTarget(trade, bar, at) ELSE trade
  BY DEF Iteration
<1>2. /\ checked \in TradeRow({"none", "open", "stop", "target"}) /\ checked.at = trade.at
      /\ checked.reason = "open" => trade.reason = "open" /\ checked = trade
      /\ Filled(checked) => trade.reason = "open"
  <2>1. CASE trade.reason # "open"
    BY <1>1, <2>1 DEF LabTyped, TradeRow, Filled
  <2>2. CASE trade.reason = "open"
    <3>1. trade \in TradeRow({"open"})
      BY <2>2 DEF LabTyped, TradeRow
    <3>2. trade.stop \in Int /\ trade.target \in Int
      BY <3>1 DEF TradeRow
    <3>3. \/ checked = trade
          \/ checked = Closed(trade, trade.stop, "stop", at)
          \/ checked = Closed(trade, trade.target, "target", at)
      BY <1>1, <2>2, <3>1, CheckedBar
    <3>4. CASE checked = trade
      BY <2>2, <3>1, <3>4 DEF TradeRow
    <3>5. CASE checked = Closed(trade, trade.stop, "stop", at)
      <4>1. checked \in TradeRow(Reasons) /\ checked.at = trade.at /\ checked.reason = "stop"
        BY <3>1, <3>2, <3>5, ClosedTrade
      <4> QED
        BY <2>2, <4>1 DEF TradeRow
    <3>6. CASE checked = Closed(trade, trade.target, "target", at)
      <4>1. checked \in TradeRow(Reasons) /\ checked.at = trade.at
            /\ checked.reason = "target"
        BY <3>1, <3>2, <3>6, ClosedTrade
      <4> QED
        BY <2>2, <4>1 DEF TradeRow
    <3> QED
      BY <3>3, <3>4, <3>5, <3>6
  <2> QED
    BY <2>1, <2>2
<1>3. checked.side \in Sides /\ checked.entry \in Int /\ checked.lots \in Nat
      /\ checked.exit \in Int
  BY <1>2 DEF TradeRow
<1>4. Pnl(checked, checked.exit) \in Int
  BY <1>3, PnlSign
<1>5. money \in Int
  <2>1. money = IF Filled(checked) THEN equity + Pnl(checked, checked.exit) ELSE equity
    BY DEF Iteration
  <2>2. equity \in Int
    BY DEF LabTyped
  <2> QED
    BY <1>4, <2>1, <2>2
<1> QED
  BY <1>2, <1>5

\* The trade an iteration leaves open is the one before, or one of this bar.
LEMMA TradeLeft ==
  ASSUME LabTyped, NEW bar \in Candles, NEW at \in Nat, NEW checked, NEW money, NEW sig,
         Iteration(bar, at, checked, money, sig)
  PROVE  \/ trade' = trade /\ checked = trade /\ trade.reason = "open"
         \/ trade' = NoTrade /\ checked.reason # "open"
         \/ /\ trade' = OpenFromSignal(sig, money, at) /\ checked.reason # "open"
            /\ sig.type \in Sides
            /\ trade' \in TradeRow({"open"}) /\ trade'.at = at
<1>1. trade' = IF checked.reason = "open" THEN checked
               ELSE IF sig.type = "HOLD" THEN NoTrade ELSE OpenFromSignal(sig, money, at)
  BY DEF Iteration
<1>2. CASE checked.reason = "open"
  BY <1>1, <1>2, CheckedTyped
<1>3. CASE checked.reason # "open" /\ sig.type = "HOLD"
  BY <1>1, <1>3
<1>4. CASE checked.reason # "open" /\ sig.type # "HOLD"
  <2>1. sig \in Verdict /\ sig.type \in Sides
    BY <1>4 DEF Iteration
  <2>2. trade' = OpenFromSignal(sig, money, at)
    BY <1>1, <1>4
  <2>3. money \in Int
    BY CheckedTyped
  <2> QED
    BY <1>4, <2>1, <2>2, <2>3, Opened
<1> QED
  BY <1>2, <1>3, <1>4

LEMMA LabTypedInit == LabInit => LabTyped
<1> SUFFICES ASSUME LabInit PROVE LabTyped
  OBVIOUS
<1>1. PICK c \in Courses : strategy = c[1] /\ bars = c[2]
  BY DEF LabInit
<1>2. c[1] \in Registry /\ c[2] \in Seq(Candles) /\ Len(c[2]) >= 2
  BY LabAssumption
<1>3. NoTrade \in TradeRow({"none"}) /\ NoTrade.at = 0
  BY NothingTraded
<1>4. NoTrade \in TradeRow({"none", "open"})
      /\ NoTrade \in TradeRow({"none", "stop", "target", "end"})
      /\ NoTrade \in TradeRow({"none", "open", "stop", "target"})
  BY <1>3 DEF TradeRow
<1>5. <<>> \in Seq(Candles)
  OBVIOUS
<1>6. strategy \in Registry /\ bars \in Seq(Candles) /\ Len(bars) >= 2 /\ 0 <= Len(bars)
  BY <1>1, <1>2
<1>7. /\ trade = NoTrade /\ done = NoTrade /\ live = NoTrade /\ path = <<>> /\ over = FALSE
      /\ equity = StartingEquity
  BY DEF LabInit
<1>8. equity \in Int
  BY <1>7, LabAssumption
<1> QED
  BY <1>3, <1>4, <1>5, <1>6, <1>7, <1>8 DEF LabTyped

LEMMA LiveTypedIterate ==
  ASSUME LabTyped, NEW bar \in Candles, NEW at \in Nat, NEW checked, NEW money, NEW sig,
         Iteration(bar, at, checked, money, sig)
  PROVE  live' \in TradeRow({"none", "open", "stop", "target"}) /\ live'.at <= at
         /\ path' \in Seq(Candles)
<1>1. /\ bars \in Seq(Candles) /\ live \in TradeRow({"none", "open", "stop", "target"})
      /\ live.at <= Len(bars) /\ path \in Seq(Candles)
  BY DEF LabTyped
<1>2. at = Len(bars) + 1 /\ bars' = Append(bars, bar)
  BY DEF Iteration
<1>3. bars' \in Seq(Candles) /\ Len(bars) \in Nat /\ Len(bars') = Len(bars) + 1
  BY <1>1, <1>2, BarsGrow
<1>4. live.at \in Nat /\ live.at <= at /\ at \in 1..Len(bars')
  BY <1>1, <1>2, <1>3 DEF TradeRow
<1>5. CASE live.reason = "open"
  <2>1. live \in TradeRow({"open"})
    BY <1>1, <1>5 DEF TradeRow
  <2>2. LiveBar(bar, at)
    BY <1>5 DEF Iteration
  <2>3. (live' = live /\ path' = path) \/ LiveCloses(bar, at)
    BY <1>1, <1>3, <1>4, <2>1, <2>2, LiveBarParts
  <2>4. CASE LiveCloses(bar, at)
    <3>1. PICK reason \in {"stop", "target"}, exit \in Int :
            live' = Closed(live, exit, reason, at) /\ path' \in Seq(Candles)
      BY <2>4 DEF LiveCloses
    <3>2. reason \in {"stop", "target", "end"} /\ at \in Nat
      BY <1>4
    <3>3. PICK c : c = Closed(live, exit, reason, at)
      OBVIOUS
    <3>4. c \in TradeRow(Reasons) /\ c.reason = reason /\ c.at = live.at
      BY <2>1, <3>2, <3>3, ClosedTrade
    <3>5. c \in TradeRow({"none", "open", "stop", "target"})
      BY <3>4 DEF TradeRow
    <3> QED
      BY <1>4, <3>1, <3>3, <3>4, <3>5
  <2> QED
    BY <1>1, <1>4, <2>3, <2>4
<1>6. CASE live.reason # "open" /\ trade'.at = at /\ Accepted(sig)
  <2>1. live' = trade' /\ path' = <<>>
    BY <1>6 DEF Iteration
  <2>2. trade' # trade /\ trade' # NoTrade
    BY <1>2, <1>3, <1>6, NothingTraded DEF LabTyped
  <2>3. trade' \in TradeRow({"open"})
    BY <2>2, TradeLeft
  <2>4. trade' \in TradeRow({"none", "open", "stop", "target"})
    BY <2>3 DEF TradeRow
  <2> QED
    BY <1>6, <2>1, <2>4
<1>7. CASE live.reason # "open" /\ ~(trade'.at = at /\ Accepted(sig))
  <2>1. live' = live /\ path' = path
    BY <1>7 DEF Iteration
  <2> QED
    BY <1>1, <1>4, <2>1
<1> QED
  BY <1>5, <1>6, <1>7

LEMMA LabTypedIterate ==
  ASSUME LabTyped, NEW bar \in Candles, Iterate(bar)
  PROVE  LabTyped'
<1>1. PICK at, checked, money, sig : at \in Nat /\ Iteration(bar, at, checked, money, sig)
  BY IterateParts
<1>2. /\ at = Len(bars) + 1 /\ bars' = Append(bars, bar)
      /\ strategy' = strategy /\ over' = over /\ equity' = money
      /\ done' = IF Filled(checked) THEN checked ELSE done
  BY <1>1 DEF Iteration
<1>3. bars \in Seq(Candles) /\ Len(bars) >= 2 /\ trade.at <= Len(bars) /\ done.at <= Len(bars)
      /\ trade \in TradeRow({"none", "open"})
      /\ done \in TradeRow({"none", "stop", "target", "end"})
      /\ strategy \in Registry /\ over \in BOOLEAN
  BY DEF LabTyped
<1>4. bars' \in Seq(Candles) /\ Len(bars') = at /\ Len(bars) \in Nat
  BY <1>2, <1>3, BarsGrow
<1>5. live' \in TradeRow({"none", "open", "stop", "target"}) /\ live'.at <= at
      /\ path' \in Seq(Candles)
  BY <1>1, LiveTypedIterate
<1>6. /\ checked \in TradeRow({"none", "open", "stop", "target"}) /\ checked.at = trade.at
      /\ money \in Int
  BY <1>1, CheckedTyped
<1>7. trade' \in TradeRow({"none", "open"}) /\ trade'.at <= at
  <2>1. CASE trade' = trade
    <3>1. trade.at \in Nat
      BY <1>3 DEF TradeRow
    <3> QED
      BY <1>1, <1>2, <1>3, <1>4, <2>1, <3>1
  <2>2. CASE trade' = NoTrade
    BY <1>1, <2>2, NothingTraded DEF TradeRow
  <2>3. CASE trade' \in TradeRow({"open"}) /\ trade'.at = at
    BY <2>3 DEF TradeRow
  <2> QED
    BY <1>1, <2>1, <2>2, <2>3, TradeLeft
<1>8. done' \in TradeRow({"none", "stop", "target", "end"}) /\ done'.at <= at
  <2>1. CASE Filled(checked)
    <3>1. checked \in TradeRow({"none", "stop", "target", "end"})
      BY <1>6, <2>1 DEF TradeRow, Filled
    <3>2. trade.at \in Nat
      BY <1>3 DEF TradeRow
    <3> QED
      BY <1>2, <1>3, <1>4, <1>6, <2>1, <3>1, <3>2
  <2>2. CASE ~Filled(checked)
    <3>1. done.at \in Nat
      BY <1>3 DEF TradeRow
    <3> QED
      BY <1>2, <1>3, <1>4, <2>2, <3>1
  <2> QED
    BY <2>1, <2>2
<1>9. Len(bars') >= 2
  BY <1>2, <1>3, <1>4
<1> QED
  BY <1>2, <1>3, <1>4, <1>5, <1>6, <1>7, <1>8, <1>9 DEF LabTyped

\* A tick within the bar of the entry closes the trade at the time of its entry.
LEMMA TriggerParts ==
  ASSUME LabTyped, Trigger
  PROVE  /\ live \in TradeRow({"open"}) /\ live.at = Len(bars)
         /\ UNCHANGED <<strategy, bars, trade, done, equity, over>>
         /\ path' \in Seq(Candles)
         /\ \E reason \in {"stop", "target"}, exit \in Int :
              live' = Closed(live, exit, reason, live.at)
<1>1. /\ live \in TradeRow({"open"}) /\ live.at = Len(bars) /\ bars' = bars
      /\ UNCHANGED <<strategy, bars, trade, done, equity, over>>
  BY DEF Trigger, LabTyped, TradeRow
<1>2. PICK bar \in Candles : bar = Last(bars)
  BY DEF LabTyped, Last
<1>3. PICK hit : hit = Hit(live.side, live.stop, live.target, bar)
  OBVIOUS
<1>4. hit # "none" /\ BotCloses(hit, bar.close, live.at)
  BY <1>2, <1>3 DEF Trigger
<1>5. live.side \in Sides /\ live.stop \in Int /\ live.target \in Int
  BY <1>1 DEF TradeRow
<1>6. hit \in {"stop", "target"} /\ (hit = "stop" => Worst(live, bar) <= 0)
  BY <1>3, <1>4, <1>5, HitBar
<1>7. bars' \in Seq(Candles) /\ live.at \in 1..Len(bars') /\ live.at \in 0..live.at
      /\ path \in Seq(Candles)
  BY <1>1 DEF LabTyped
<1>8. bar.close \in Int
  BY <1>5, BarSound
<1>9. LiveCloses(bar, live.at)
  BY <1>4, <1>6, <1>7, <1>8, BotClosesParts
<1> QED
  BY <1>1, <1>9 DEF LiveCloses

LEMMA StopTyped ==
  ASSUME NEW side \in Sides, NEW entry \in Int, NEW stop \in Int, NEW peak \in Int,
         NEW new, new = ProposedStop(side, entry, stop, peak)
  PROVE  new \in Int /\ (new # stop => Ahead(side, stop, new) > 0)
<1>1. PICK risk \in Nat : risk = StopRisk(entry, stop)
  BY AheadTyped
<1>2. PICK trail \in Int : trail = TrailDistanceR * risk
  BY StopPolicyAssumption
<1>3. PICK target : target = TargetStop(side, entry, stop, peak)
  OBVIOUS
<1>4. target \in {Shifted(side, peak, -trail), entry, stop}
  BY <1>1, <1>2, <1>3 DEF TargetStop
<1>5. target \in Int
  BY <1>2, <1>4, ShiftedAhead
<1>6. new = IF risk > 0 /\ Ahead(side, stop, target) > 0 THEN target ELSE stop
  BY <1>1, <1>3 DEF ProposedStop
<1> QED
  BY <1>5, <1>6

\* The stop moves ahead, and nothing else.
LEMMA TrailParts ==
  ASSUME LabTyped, Trail
  PROVE  /\ live \in TradeRow({"open"})
         /\ UNCHANGED <<strategy, bars, trade, done, equity, path, over>>
         /\ \E stop \in Int : /\ live' = [live EXCEPT !.stop = stop]
                              /\ Ahead(live.side, live.stop, stop) > 0
<1>1. /\ live \in TradeRow({"open"})
      /\ UNCHANGED <<strategy, bars, trade, done, equity, path, over>>
  BY DEF Trail, LabTyped, TradeRow
<1>2. PICK bar \in Candles : bar = Last(bars)
  BY DEF LabTyped, Last
<1>3. live.side \in Sides /\ live.entry \in Int /\ live.stop \in Int
  BY <1>1 DEF TradeRow
<1>4. PICK stop : stop = ProposedStop(live.side, live.entry, live.stop, Peak(live.side, bar))
  OBVIOUS
<1>5. stop # live.stop /\ live' = [live EXCEPT !.stop = stop]
  BY <1>2, <1>4 DEF Trail
<1>6. Peak(live.side, bar) \in Int
  BY <1>3, BarSound
<1>7. stop \in Int /\ Ahead(live.side, live.stop, stop) > 0
  BY <1>3, <1>4, <1>5, <1>6, StopTyped
<1> QED
  BY <1>1, <1>5, <1>7

LEMMA EndParts ==
  ASSUME LabTyped, EndOfData
  PROVE  /\ ~over /\ over' = TRUE /\ trade' = NoTrade
         /\ UNCHANGED <<strategy, bars, live, path>>
         /\ \E bar, c :
              /\ bar \in Candles /\ bar = Last(bars)
              /\ c = Closed(trade, bar.close, "end", Len(bars))
              /\ trade.reason = "open" =>
                   /\ trade \in TradeRow({"open"}) /\ done' = c
                   /\ equity' = equity + Pnl(trade, bar.close)
              /\ trade.reason # "open" => UNCHANGED <<done, equity>>
<1>1. PICK bar \in Candles : bar = Last(bars)
  BY DEF LabTyped, Last
<1>2. trade.reason = "open" => trade \in TradeRow({"open"})
  BY DEF LabTyped, TradeRow
<1>3. /\ ~over /\ over' = TRUE /\ trade' = NoTrade
      /\ UNCHANGED <<strategy, bars, live, path>>
      /\ trade.reason = "open" => /\ done' = Closed(trade, bar.close, "end", Len(bars))
                                  /\ equity' = equity + Pnl(trade, bar.close)
      /\ trade.reason # "open" => UNCHANGED <<done, equity>>
  BY <1>1 DEF EndOfData
<1> QED
  BY <1>1, <1>2, <1>3

LEMMA LabTypedNext == LabTyped /\ [LabNext]_labVars => LabTyped'
<1> SUFFICES ASSUME LabTyped, [LabNext]_labVars PROVE LabTyped'
  OBVIOUS
<1>1. CASE UNCHANGED labVars
  BY <1>1 DEF labVars, LabTyped
<1>2. CASE \E bar \in Candles : Iterate(bar)
  BY <1>2, LabTypedIterate
<1>3. CASE Trigger
  <2>1. PICK reason \in {"stop", "target"}, exit \in Int :
          live' = Closed(live, exit, reason, live.at)
    BY <1>3, TriggerParts
  <2>2. /\ live \in TradeRow({"open"}) /\ path' \in Seq(Candles)
        /\ UNCHANGED <<strategy, bars, trade, done, equity, over>>
    BY <1>3, TriggerParts
  <2>3. PICK c : c = Closed(live, exit, reason, live.at)
    OBVIOUS
  <2>4. live.at \in Nat /\ reason \in {"stop", "target", "end"}
    BY <2>2 DEF TradeRow
  <2>5. c \in TradeRow(Reasons) /\ c.reason = reason /\ c.at = live.at
    BY <2>2, <2>3, <2>4, ClosedTrade
  <2>6. c \in TradeRow({"none", "open", "stop", "target"})
    BY <2>5 DEF TradeRow
  <2> QED
    BY <2>1, <2>2, <2>3, <2>5, <2>6 DEF LabTyped
<1>4. CASE Trail
  <2>1. /\ live \in TradeRow({"open"})
        /\ UNCHANGED <<strategy, bars, trade, done, equity, path, over>>
    BY <1>4, TrailParts
  <2>2. PICK stop \in Int : live' = [live EXCEPT !.stop = stop]
    BY <1>4, TrailParts
  <2>3. live' \in TradeRow({"none", "open", "stop", "target"}) /\ live'.at = live.at
    BY <2>1, <2>2 DEF TradeRow
  <2> QED
    BY <2>1, <2>3 DEF LabTyped
<1>5. CASE EndOfData
  <2>1. /\ over' = TRUE /\ trade' = NoTrade
        /\ UNCHANGED <<strategy, bars, live, path>>
    BY <1>5, EndParts
  <2>2. NoTrade \in TradeRow({"none", "open"}) /\ NoTrade.at = 0
    BY NothingTraded DEF TradeRow
  <2>3. done' \in TradeRow({"none", "stop", "target", "end"}) /\ done'.at <= Len(bars)
        /\ equity' \in Int
    <3>1. CASE trade.reason # "open"
      BY <1>5, <3>1, EndParts DEF LabTyped
    <3>2. CASE trade.reason = "open"
      <4>1. PICK bar, c :
              /\ bar \in Candles
              /\ trade \in TradeRow({"open"})
              /\ c = Closed(trade, bar.close, "end", Len(bars))
              /\ done' = c /\ equity' = equity + Pnl(trade, bar.close)
        BY <1>5, <3>2, EndParts
      <4>2. trade.side \in Sides /\ trade.entry \in Int /\ trade.lots \in Nat
        BY <4>1 DEF TradeRow
      <4>3. bar.close \in Int /\ Len(bars) \in Nat
        <5>1. bar.close \in Int
          BY <4>1, <4>2, BarSound
        <5>2. bars \in Seq(Candles)
          BY DEF LabTyped
        <5> QED
          BY <5>1, <5>2
      <4>4. c \in TradeRow(Reasons) /\ c.reason = "end" /\ c.at = trade.at
        BY <4>1, <4>3, ClosedTrade
      <4>5. c \in TradeRow({"none", "stop", "target", "end"})
        BY <4>4 DEF TradeRow
      <4>6. Pnl(trade, bar.close) \in Int
        BY <4>2, <4>3, PnlSign
      <4>7. equity \in Int /\ trade.at <= Len(bars)
        BY DEF LabTyped
      <4> QED
        BY <4>1, <4>4, <4>5, <4>6, <4>7
    <3> QED
      BY <3>1, <3>2
  <2>4. 0 <= Len(bars)
    BY DEF LabTyped
  <2> QED
    BY <2>1, <2>2, <2>3, <2>4 DEF LabTyped
<1> QED
  BY <1>1, <1>2, <1>3, <1>4, <1>5 DEF LabNext

-----------------------------------------------------------------------------
(* Lab: what the backtest may lose.                                        *)

\* The open trade is capped by the equity of now, which is what it was opened with,
\* and the last close has not passed its stop; so whatever closes it leaves the
\* equity above zero, and the next trade a budget.
Covered ==
  strategy \notin Misplacing =>
    /\ equity >= 0
    /\ trade.reason = "open" => /\ Capped(trade, equity)
                                /\ Ahead(trade.side, trade.stop, Last(bars).close) >= 0
    /\ done.reason # "none" => Booked(done)

LEMMA CoveredInit == LabInit => Covered
BY LabAssumption DEF LabInit, Covered, NoTrade, Trade

\* A trade that a bar closes is booked as it should be.
LEMMA CheckedCovered ==
  ASSUME LabTyped, Covered, strategy \notin Misplacing,
         NEW bar \in Candles, NEW at \in Nat, NEW checked, NEW money, NEW sig,
         Iteration(bar, at, checked, money, sig)
  PROVE  /\ money \in Nat
         /\ Filled(checked) => Booked(checked)
         /\ checked.reason = "open" =>
              /\ checked = trade /\ money = equity
              /\ Ahead(trade.side, trade.stop, bar.close) >= 0
<1>1. equity \in Nat
  BY DEF LabTyped, Covered
<1>2. money = IF Filled(checked) THEN equity + Pnl(checked, checked.exit) ELSE equity
  BY DEF Iteration
<1>3. checked = IF trade.reason = "open" THEN CheckStopOrTarget(trade, bar, at) ELSE trade
  BY DEF Iteration
<1>4. CASE trade.reason # "open"
  <2>1. ~Filled(checked) /\ checked.reason # "open"
    BY <1>4, CheckedTyped
  <2> QED
    BY <1>1, <1>2, <2>1
<1>5. CASE trade.reason = "open"
  <2>1. trade \in TradeRow({"open"}) /\ Capped(trade, equity)
    BY <1>5 DEF LabTyped, Covered, TradeRow
  <2>2. /\ trade.side \in Sides /\ trade.entry \in Int /\ trade.stop \in Int
        /\ trade.target \in Int
    BY <2>1 DEF TradeRow
  <2>3. \/ checked = trade /\ Worst(trade, bar) > 0
        \/ checked = Closed(trade, trade.stop, "stop", at)
        \/ checked = Closed(trade, trade.target, "target", at)
    BY <1>3, <1>5, <2>1, CheckedBar DEF Worst
  <2>4. Ahead(trade.side, trade.stop, trade.stop) >= 0
        /\ Ahead(trade.side, trade.stop, trade.target) >= 0
    BY <2>1, <2>2 DEF Capped, Ahead
  <2>5. CASE checked = trade /\ Worst(trade, bar) > 0
    <3>1. ~Filled(checked)
      BY <1>5, <2>5 DEF Filled
    <3>2. /\ bar.close \in Int /\ Peak(Opposite(trade.side), bar) \in Int
          /\ Ahead(trade.side, Peak(Opposite(trade.side), bar), bar.close) >= 0
      BY <2>2, BarSound
    <3>3. Ahead(trade.side, trade.stop, bar.close) >= 0
      BY <2>2, <2>5, <3>2 DEF Worst, Ahead
    <3> QED
      BY <1>1, <1>2, <2>5, <3>1, <3>3
  <2>6. CASE checked = Closed(trade, trade.stop, "stop", at)
    <3>1. /\ Booked(checked) /\ equity + Pnl(checked, checked.exit) \in Nat
      BY <1>1, <2>1, <2>2, <2>4, <2>6, CappedBooked
    <3>2. checked.reason = "stop"
      BY <2>1, <2>2, <2>6, ClosedTrade
    <3> QED
      BY <1>2, <3>1, <3>2 DEF Filled
  <2>7. CASE checked = Closed(trade, trade.target, "target", at)
    <3>1. /\ Booked(checked) /\ equity + Pnl(checked, checked.exit) \in Nat
      BY <1>1, <2>1, <2>2, <2>4, <2>7, CappedBooked
    <3>2. checked.reason = "target"
      BY <2>1, <2>2, <2>7, ClosedTrade
    <3> QED
      BY <1>2, <3>1, <3>2 DEF Filled
  <2> QED
    BY <2>3, <2>5, <2>6, <2>7
<1> QED
  BY <1>4, <1>5

LEMMA CoveredIterate ==
  ASSUME LabTyped, Covered, NEW bar \in Candles, Iterate(bar)
  PROVE  Covered'
<1>1. PICK at, checked, money, sig : at \in Nat /\ Iteration(bar, at, checked, money, sig)
  BY IterateParts
<1>2. /\ strategy' = strategy /\ equity' = money /\ bars' = Append(bars, bar)
      /\ done' = IF Filled(checked) THEN checked ELSE done
  BY <1>1 DEF Iteration
<1>3. SUFFICES ASSUME strategy \notin Misplacing PROVE Covered'
  BY <1>2 DEF Covered
<1>4. Last(bars') = bar
  BY <1>2, BarsGrow DEF LabTyped
<1>5. /\ money \in Nat
      /\ Filled(checked) => Booked(checked)
      /\ checked.reason = "open" => /\ checked = trade /\ money = equity
                                    /\ Ahead(trade.side, trade.stop, bar.close) >= 0
  BY <1>1, <1>3, CheckedCovered
<1>6. done'.reason # "none" => Booked(done')
  BY <1>2, <1>3, <1>5 DEF Covered
<1>7. trade'.reason = "open" => /\ Capped(trade', money)
                                /\ Ahead(trade'.side, trade'.stop, bar.close) >= 0
  <2>1. CASE trade' = trade /\ checked = trade /\ trade.reason = "open"
    BY <1>3, <1>5, <2>1 DEF Covered
  <2>2. CASE trade' = NoTrade
    BY <2>2 DEF NoTrade, Trade
  <2>3. CASE trade' = OpenFromSignal(sig, money, at) /\ sig.type \in Sides
    <3>1. PICK t : t = OpenFromSignal(sig, money, at)
      OBVIOUS
    <3>2. /\ sig \in Verdict /\ sig.price = bar.close
          /\ Ahead(sig.type, sig.stop, sig.price) >= 0
          /\ Ahead(sig.type, sig.price, sig.target) >= 0
      BY <1>1, <1>3, <2>3 DEF Iteration, Sides
    <3>3. money \in Int /\ money >= 0
      BY <1>5
    <3>4. Capped(t, money) /\ t.side = sig.type /\ t.stop = sig.stop
      BY <1>1, <2>3, <3>1, <3>2, <3>3, Opened
    <3> QED
      BY <2>3, <3>1, <3>2, <3>4
  <2> QED
    BY <1>1, <2>1, <2>2, <2>3, TradeLeft
<1>8. equity' >= 0
  BY <1>2, <1>5
<1> QED
  BY <1>2, <1>4, <1>6, <1>7, <1>8 DEF Covered

LEMMA CoveredEnd ==
  ASSUME LabTyped, Covered, EndOfData
  PROVE  Covered'
<1>1. /\ trade' = NoTrade /\ UNCHANGED <<strategy, bars, live, path>>
  BY EndParts
<1>2. SUFFICES ASSUME strategy \notin Misplacing PROVE Covered'
  BY <1>1 DEF Covered
<1>3. equity' >= 0 /\ (done'.reason # "none" => Booked(done'))
  <2>1. CASE trade.reason # "open"
    BY <1>2, <2>1, EndParts DEF Covered
  <2>2. CASE trade.reason = "open"
    <3>1. PICK bar, c :
            /\ bar \in Candles
            /\ bar = Last(bars) /\ trade \in TradeRow({"open"})
            /\ c = Closed(trade, bar.close, "end", Len(bars))
            /\ done' = c /\ equity' = equity + Pnl(trade, bar.close)
      BY <2>2, EndParts
    <3>2. /\ trade.side \in Sides /\ equity \in Nat /\ Capped(trade, equity)
          /\ Ahead(trade.side, trade.stop, bar.close) >= 0
      BY <1>2, <2>2, <3>1 DEF LabTyped, Covered, TradeRow
    <3>3. bar.close \in Int /\ Len(bars) \in Nat
      <4>1. bar.close \in Int
        BY <3>1, <3>2, BarSound
      <4>2. bars \in Seq(Candles)
        BY DEF LabTyped
      <4> QED
        BY <4>1, <4>2
    <3>4. Booked(c) /\ equity + Pnl(c, c.exit) \in Nat
      BY <3>1, <3>2, <3>3, CappedBooked
    <3>5. c.exit = bar.close /\ c.side = trade.side /\ c.entry = trade.entry
          /\ c.lots = trade.lots
      BY <3>1, <3>3, ClosedTrade
    <3>6. Pnl(c, bar.close) = Pnl(trade, bar.close)
      BY <3>5, PnlSame
    <3>7. equity' \in Nat
      BY <3>1, <3>4, <3>5, <3>6
    <3> QED
      BY <3>1, <3>4, <3>7
  <2> QED
    BY <2>1, <2>2
<1>4. trade'.reason # "open"
  BY <1>1 DEF NoTrade, Trade
<1> QED
  BY <1>3, <1>4 DEF Covered

LEMMA CoveredNext == LabTyped /\ Covered /\ [LabNext]_labVars => Covered'
<1> SUFFICES ASSUME LabTyped, Covered, [LabNext]_labVars PROVE Covered'
  OBVIOUS
<1>1. CASE UNCHANGED labVars
  BY <1>1 DEF labVars, Covered
<1>2. CASE \E bar \in Candles : Iterate(bar)
  BY <1>2, CoveredIterate
<1>3. CASE Trigger
  BY <1>3 DEF Trigger, Covered
<1>4. CASE Trail
  BY <1>4 DEF Trail, Covered
<1>5. CASE EndOfData
  BY <1>5, CoveredEnd
<1> QED
  BY <1>1, <1>2, <1>3, <1>4, <1>5 DEF LabNext

LEMMA CoveredCaps == Covered => StopCapsLoss
BY DEF Covered, StopCapsLoss, Booked

\* In the backtest, for every strategy that sets its levels on the right sides, every
\* course of bars, equity and sizing: a stop never pays, a target never costs, and a
\* trade with a distance to its stop loses no more than its share of the equity.
THEOREM LossCapped == LabSpec => []StopCapsLoss
<1>1. LabInit => LabTyped /\ Covered
  BY LabTypedInit, CoveredInit
<1>2. LabTyped /\ Covered /\ [LabNext]_labVars => (LabTyped /\ Covered)'
  BY LabTypedNext, CoveredNext
<1> QED
  BY <1>1, <1>2, CoveredCaps, PTL DEF LabSpec

-----------------------------------------------------------------------------
(* Lab: the live trade and the backtest's, side by side.                   *)

\* The last closed trade is older than the open one, and none is open at the end.
Dated ==
  /\ trade.reason = "open" => done.at < trade.at
  /\ over => trade.reason # "open"

\* A live trade is the backtest's open one with a stop that has only moved ahead; no
\* bar since its entry has touched its target, and nothing is recorded of it yet.
Companion ==
  live.reason = "open" =>
    /\ path = <<>> /\ Ahead(live.side, live.entry, live.target) > 0
    /\ \A i \in (live.at + 1)..Len(bars) : Best(live, bars[i]) < 0
    /\ ~over => /\ trade.reason = "open" /\ trade.at = live.at /\ trade.side = live.side
                /\ trade.target = live.target
                /\ Ahead(live.side, trade.stop, live.stop) >= 0
    /\ over => done.at = live.at /\ done.reason = "end"

\* What is true of a live trade that its stop closed on a later bar than its entry's.
Outlived(t) == t.reason = "stop" /\ t.until > t.at

Replayed(t, walked) ==
  \A mult \in {0, 1} :
    Replay(t, walked, mult).reason = "target"
      => mult = 1 /\ Ahead(t.side, t.stop, t.entry) < 0

Held ==
  Outlived(live) =>
    /\ Replayed(live, path)
    /\ trade.reason = "open" /\ trade.at = live.at => trade.stop # live.stop
    /\ done.at = live.at /\ done.stop = live.stop => done.reason # "target"

LEMMA LabPairedInit == LabInit => Dated /\ Companion /\ Held
BY DEF LabInit, Dated, Companion, Held, Outlived, NoTrade, Trade

LEMMA HeldPessimistic == LabTyped /\ Held => Pessimistic
BY DEF LabTyped, TradeRow, Held, Pessimistic, Outlived, Replayed

\* A trade that is stopped on the last bar of its path, with its target untouched before,
\* is not replayed to the target.
LEMMA KeptReplayed ==
  ASSUME LabTyped, live.reason = "open", bars' \in Seq(Candles),
         NEW at \in Nat, Len(bars') = at, live.at < at,
         NEW bar \in Candles, bars'[at] = bar, Worst(live, bar) <= 0,
         Ahead(live.side, live.entry, live.target) > 0,
         \A i \in (live.at + 1)..(at - 1) : Best(live, bars'[i]) < 0,
         NEW p \in Seq(Candles), Kept(p, bars', live.at, at),
         NEW t, t.side = live.side, t.entry = live.entry, t.stop = live.stop,
         t.target = live.target
  PROVE  Replayed(t, p)
<1> SUFFICES ASSUME NEW mult \in {0, 1}, Replay(t, p, mult).reason = "target"
             PROVE  mult = 1 /\ Ahead(t.side, t.stop, t.entry) < 0
  BY DEF Replayed
<1>1. PICK levels : levels = ResolveLevels(t, mult)
  OBVIOUS
<1>2. p # <<>> /\ Walk(t.side, levels, p) = "target"
  BY <1>1 DEF Replay
<1>3. /\ live.side \in Sides /\ live.entry \in Int /\ live.stop \in Int /\ live.target \in Int
      /\ live.at \in Nat
  BY DEF LabTyped, TradeRow
<1>4. PICK n \in Nat : n = at - live.at /\ n > 0
  BY <1>3
<1>5. Len(p) = n /\ \A i \in 1..n : p[i] = bars'[live.at + i]
  BY <1>2, <1>4 DEF Kept
<1>6. levels.target = t.target
  <2>1. CASE mult = 0
    BY <1>1, <2>1 DEF ResolveLevels
  <2>2. CASE mult = 1
    BY <1>1, <1>3, <2>2 DEF ResolveLevels, Ahead, Shifted, StopRisk, Sides
  <2> QED
    BY <2>1, <2>2
<1>7. levels.stop = t.stop \/ (mult = 1 /\ Ahead(t.side, t.stop, t.entry) < 0)
  <2>1. CASE mult = 0
    BY <1>1, <2>1 DEF ResolveLevels
  <2>2. CASE mult = 1
    BY <1>1, <1>3, <2>2 DEF ResolveLevels, Ahead, Shifted, StopRisk, Sides
  <2> QED
    BY <2>1, <2>2
<1>8. ASSUME levels.stop = t.stop PROVE FALSE
  <2>1. p[n] = bar
    <3>1. n \in 1..n /\ live.at + n = at
      BY <1>3, <1>4
    <3> QED
      BY <1>5, <3>1
  <2>2. Ahead(t.side, levels.stop, Peak(Opposite(t.side), p[n])) <= 0
    BY <1>8, <2>1 DEF Worst
  <2>3. ASSUME NEW i \in 1..(n - 1)
        PROVE  ~(Ahead(t.side, levels.target, Peak(t.side, p[i])) >= 0)
    <3>1. i \in 1..n /\ live.at + i \in (live.at + 1)..(at - 1)
      BY <1>3, <1>4
    <3>2. PICK b \in Candles : b = p[i]
      BY <1>5, <3>1
    <3>3. Best(live, b) < 0 /\ Best(live, b) \in Int
      <4>1. p[i] = bars'[live.at + i]
        BY <1>5, <3>1
      <4>2. Peak(live.side, b) \in Int
        BY <1>3, BarSound
      <4> QED
        BY <1>3, <3>1, <3>2, <4>1, <4>2, AheadTyped DEF Best
    <3>4. Ahead(t.side, levels.target, Peak(t.side, p[i])) = Best(live, b)
      BY <1>6, <3>2 DEF Best
    <3> QED
      BY <3>3, <3>4
  <2>4. n \in Nat \ {0} /\ t.side \in Sides
    BY <1>3, <1>4
  <2> QED
    BY <1>2, <1>5, <2>2, <2>3, <2>4, WalkHeld
<1> QED
  BY <1>7, <1>8

LEMMA DatedNext == LabTyped /\ Dated /\ [LabNext]_labVars => Dated'
<1> SUFFICES ASSUME LabTyped, Dated, [LabNext]_labVars PROVE Dated'
  OBVIOUS
<1>1. CASE UNCHANGED labVars
  BY <1>1 DEF labVars, Dated
<1>2. ASSUME NEW bar \in Candles, Iterate(bar) PROVE Dated'
  <2>1. PICK at, checked, money, sig : at \in Nat /\ Iteration(bar, at, checked, money, sig)
    BY <1>2, IterateParts
  <2>2. /\ over' = over /\ ~over /\ done' = IF Filled(checked) THEN checked ELSE done
        /\ at = Len(bars) + 1
    BY <2>1 DEF Iteration
  <2>3. /\ trade.at \in Nat /\ done.at \in Nat /\ Len(bars) \in Nat
        /\ trade.at <= Len(bars) /\ done.at <= Len(bars)
    BY DEF LabTyped, TradeRow
  <2>4. done'.at < at
    BY <2>1, <2>2, <2>3, CheckedTyped
  <2>5. CASE trade' = trade /\ checked = trade /\ trade.reason = "open"
    BY <2>2, <2>5 DEF Dated, Filled
  <2>6. CASE trade' = NoTrade
    BY <2>2, <2>6 DEF Dated, NoTrade, Trade
  <2>7. CASE trade'.at = at
    BY <2>2, <2>4, <2>7 DEF Dated
  <2> QED
    BY <2>1, <2>5, <2>6, <2>7, TradeLeft
<1>3. CASE Trigger
  BY <1>3 DEF Trigger, Dated
<1>4. CASE Trail
  BY <1>4 DEF Trail, Dated
<1>5. CASE EndOfData
  BY <1>5 DEF EndOfData, Dated, NoTrade, Trade
<1> QED
  BY <1>1, <1>2, <1>3, <1>4, <1>5 DEF LabNext

\* A live trade opens with the backtest's of the same bar, at levels the broker accepts.
LEMMA LiveOpens ==
  ASSUME LabTyped, NEW bar \in Candles, NEW at \in Nat, NEW checked, NEW money, NEW sig,
         Iteration(bar, at, checked, money, sig), live.reason # "open"
  PROVE  \/ live' = live /\ path' = path
         \/ /\ live' = trade' /\ path' = <<>> /\ trade' \in TradeRow({"open"})
            /\ trade'.at = at
            /\ Ahead(trade'.side, trade'.entry, trade'.target) > 0
<1>1. IF trade'.at = at /\ Accepted(sig) THEN live' = trade' /\ path' = <<>>
      ELSE UNCHANGED <<live, path>>
  BY DEF Iteration
<1>2. CASE trade'.at = at /\ Accepted(sig)
  <2>1. at = Len(bars) + 1 /\ sig \in Verdict
    BY DEF Iteration
  <2>2. trade' # trade /\ trade' # NoTrade
    BY <1>2, <2>1, NothingTraded DEF LabTyped
  <2>3. /\ trade' = OpenFromSignal(sig, money, at) /\ sig.type \in Sides
        /\ trade' \in TradeRow({"open"})
    BY <2>2, TradeLeft
  <2>4. PICK t : t = OpenFromSignal(sig, money, at)
    OBVIOUS
  <2>5. money \in Int
    BY CheckedTyped
  <2>6. t.side = sig.type /\ t.entry = sig.price /\ t.target = sig.target
    BY <2>1, <2>3, <2>4, <2>5, Opened
  <2> QED
    BY <1>1, <1>2, <2>3, <2>4, <2>6 DEF Accepted
<1> QED
  BY <1>1, <1>2

\* What a bar leaves of the live trade and of its companion.
LEMMA LiveSurvives ==
  ASSUME LabTyped, Companion, NEW bar \in Candles, NEW at \in Nat, NEW checked, NEW money,
         NEW sig, Iteration(bar, at, checked, money, sig), live.reason = "open"
  PROVE  \/ /\ live' = live /\ path' = path /\ Best(live, bar) < 0
            /\ trade' = trade
         \/ LiveCloses(bar, at)
<1>1. /\ bars \in Seq(Candles) /\ live \in TradeRow({"open"}) /\ path \in Seq(Candles)
      /\ live.at <= Len(bars)
  BY DEF LabTyped, TradeRow
<1>2. /\ at = Len(bars) + 1 /\ bars' = Append(bars, bar) /\ ~over /\ LiveBar(bar, at)
      /\ checked = IF trade.reason = "open" THEN CheckStopOrTarget(trade, bar, at) ELSE trade
  BY DEF Iteration
<1>3. bars' \in Seq(Candles) /\ Len(bars) \in Nat /\ Len(bars') = Len(bars) + 1
  BY <1>1, <1>2, BarsGrow
<1>4. live.at \in Nat
  BY <1>1 DEF TradeRow
<1>5. at \in 1..Len(bars') /\ live.at <= at
  BY <1>1, <1>2, <1>3, <1>4
<1>6. \/ live' = live /\ path' = path /\ Worst(live, bar) > 0 /\ Best(live, bar) < 0
      \/ LiveCloses(bar, at)
  BY <1>1, <1>2, <1>3, <1>5, LiveBarParts
<1>7. CASE live' = live /\ path' = path /\ Worst(live, bar) > 0 /\ Best(live, bar) < 0
  <2>1. /\ trade.reason = "open" /\ trade.side = live.side /\ trade.target = live.target
        /\ Ahead(live.side, trade.stop, live.stop) >= 0
    BY <1>2 DEF Companion
  <2>2. trade \in TradeRow({"open"})
    BY <2>1 DEF LabTyped, TradeRow
  <2>3. /\ live.side \in Sides /\ live.stop \in Int /\ trade.stop \in Int
        /\ live.target \in Int
    BY <1>1, <2>2 DEF TradeRow
  <2>4. Peak(live.side, bar) \in Int /\ Peak(Opposite(live.side), bar) \in Int
    BY <2>3, BarSound
  <2>5. Ahead(trade.side, trade.stop, Peak(Opposite(trade.side), bar)) > 0
    BY <1>7, <2>1, <2>3, <2>4 DEF Worst, Ahead
  <2>6. Ahead(trade.side, trade.target, Peak(trade.side, bar)) < 0
    BY <1>7, <2>1, <2>3, <2>4 DEF Best
  <2>7. PICK worst \in Int, best \in Int :
          /\ worst = Ahead(trade.side, trade.stop, Peak(Opposite(trade.side), bar))
          /\ best = Ahead(trade.side, trade.target, Peak(trade.side, bar))
    BY <2>1, <2>3, <2>4, AheadTyped
  <2>8. checked = trade
    BY <1>2, <2>1, <2>2, <2>5, <2>6, <2>7, CheckedBar
  <2>9. trade' = trade
    BY <2>1, <2>8 DEF Iteration
  <2> QED
    BY <1>7, <2>9
<1> QED
  BY <1>6, <1>7

LEMMA CompanionIterate ==
  ASSUME LabTyped, Companion, NEW bar \in Candles, Iterate(bar)
  PROVE  Companion'
<1>1. PICK at, checked, money, sig : at \in Nat /\ Iteration(bar, at, checked, money, sig)
  BY IterateParts
<1>2. at = Len(bars) + 1 /\ bars' = Append(bars, bar) /\ over' = over /\ ~over
  BY <1>1 DEF Iteration
<1>3. bars \in Seq(Candles) /\ live.at \in Nat /\ live.at <= Len(bars)
      /\ live \in TradeRow({"none", "open", "stop", "target"})
  BY DEF LabTyped, TradeRow
<1>4. /\ Len(bars) \in Nat /\ Len(bars') = at /\ bars'[at] = bar
      /\ \A i \in 1..Len(bars) : bars'[i] = bars[i]
  BY <1>2, <1>3, BarsGrow
<1>5. SUFFICES ASSUME live'.reason = "open" PROVE Companion'
  BY DEF Companion
<1>6. CASE live.reason = "open" /\ LiveCloses(bar, at)
  <2>1. PICK reason \in {"stop", "target"}, exit \in Int :
          live' = Closed(live, exit, reason, at)
    BY <1>6 DEF LiveCloses
  <2>2. live'.reason = reason
    BY <1>3, <2>1 DEF Closed, TradeRow
  <2> QED
    BY <1>5, <2>2
<1>7. CASE /\ live.reason = "open" /\ live' = live /\ path' = path /\ Best(live, bar) < 0
           /\ trade' = trade
  <2>1. ASSUME NEW i \in (live.at + 1)..Len(bars') PROVE Best(live, bars'[i]) < 0
    <3>1. CASE i = at
      BY <1>4, <1>7, <3>1
    <3>2. CASE i # at
      <4>1. i \in (live.at + 1)..Len(bars) /\ i \in 1..Len(bars)
        BY <1>2, <1>3, <1>4, <3>2
      <4>2. bars'[i] = bars[i] /\ Best(live, bars[i]) < 0
        BY <1>4, <1>7, <4>1 DEF Companion
      <4> QED
        BY <4>2
    <3> QED
      BY <3>1, <3>2
  <2>2. \A i \in (live'.at + 1)..Len(bars') : Best(live', bars'[i]) < 0
    BY <1>7, <2>1
  <2> QED
    BY <1>2, <1>7, <2>2 DEF Companion, Best
<1>8. CASE /\ live.reason # "open" /\ live' = trade' /\ path' = <<>>
           /\ trade' \in TradeRow({"open"}) /\ trade'.at = at
           /\ Ahead(trade'.side, trade'.entry, trade'.target) > 0
  <2>1. PICK t \in TradeRow({"open"}) : t = trade' /\ t = live'
    BY <1>8
  <2>2. t.reason = "open" /\ t.stop \in Int /\ t.side \in Sides
    BY <2>1 DEF TradeRow
  <2>3. Ahead(t.side, t.stop, t.stop) >= 0
    BY <2>2 DEF Ahead
  <2>4. \A i \in (t.at + 1)..Len(bars') : FALSE
    BY <1>2, <1>4, <1>8, <2>1
  <2> QED
    BY <1>2, <1>8, <2>1, <2>2, <2>3, <2>4 DEF Companion
<1> QED
  BY <1>1, <1>5, <1>6, <1>7, <1>8, LiveSurvives, LiveOpens

LEMMA CompanionNext == LabTyped /\ Companion /\ [LabNext]_labVars => Companion'
<1> SUFFICES ASSUME LabTyped, Companion, [LabNext]_labVars PROVE Companion'
  OBVIOUS
<1>1. CASE UNCHANGED labVars
  BY <1>1 DEF labVars, Companion, Best
<1>2. CASE \E bar \in Candles : Iterate(bar)
  BY <1>2, CompanionIterate
<1>3. CASE Trigger
  <2>1. live \in TradeRow({"open"})
    BY <1>3, TriggerParts
  <2>2. PICK reason \in {"stop", "target"}, exit \in Int :
          live' = Closed(live, exit, reason, live.at)
    BY <1>3, TriggerParts
  <2>3. live'.reason = reason
    BY <2>1, <2>2 DEF Closed, TradeRow
  <2> QED
    BY <2>3 DEF Companion
<1>4. CASE Trail
  <2>1. /\ live \in TradeRow({"open"})
        /\ UNCHANGED <<strategy, bars, trade, done, equity, path, over>>
    BY <1>4, TrailParts
  <2>2. PICK stop \in Int : /\ live' = [live EXCEPT !.stop = stop]
                            /\ Ahead(live.side, live.stop, stop) > 0
    BY <1>4, TrailParts
  <2>3. /\ live.reason = "open" /\ live.side \in Sides /\ live.stop \in Int
        /\ live'.side = live.side /\ live'.target = live.target /\ live'.entry = live.entry
        /\ live'.at = live.at /\ live'.stop = stop
    BY <2>1, <2>2 DEF TradeRow
  <2>4. ASSUME NEW b PROVE Best(live', b) = Best(live, b)
    BY <2>3 DEF Best
  <2>5. ~over => Ahead(live.side, trade.stop, stop) >= 0
    <3>1. trade.stop \in Int
      BY DEF LabTyped, TradeRow
    <3> QED
      BY <2>2, <2>3, <3>1 DEF Companion, Ahead
  <2>6. \A i \in (live'.at + 1)..Len(bars') : Best(live', bars'[i]) < 0
    BY <2>1, <2>3, <2>4 DEF Companion
  <2> QED
    BY <2>1, <2>3, <2>5, <2>6 DEF Companion
<1>5. CASE EndOfData
  <2>1. /\ ~over /\ over' = TRUE /\ UNCHANGED <<strategy, bars, live, path>>
    BY <1>5, EndParts
  <2>2. SUFFICES ASSUME live.reason = "open" PROVE Companion'
    BY <2>1 DEF Companion
  <2>3. trade.reason = "open" /\ trade.at = live.at
    BY <2>1, <2>2 DEF Companion
  <2>4. PICK bar, c :
          /\ bar \in Candles
          /\ trade \in TradeRow({"open"})
          /\ c = Closed(trade, bar.close, "end", Len(bars)) /\ done' = c
    BY <1>5, <2>3, EndParts
  <2>5. done'.at = live.at /\ done'.reason = "end"
    BY <2>3, <2>4 DEF Closed, TradeRow
  <2> QED
    BY <2>1, <2>2, <2>5 DEF Companion, Best
<1> QED
  BY <1>1, <1>2, <1>3, <1>4, <1>5 DEF LabNext

\* The check of a bar moves no stop.
LEMMA CheckedStop ==
  ASSUME LabTyped, NEW bar \in Candles, NEW at \in Nat, NEW checked, NEW money, NEW sig,
         Iteration(bar, at, checked, money, sig), trade.reason = "open"
  PROVE  checked.stop = trade.stop
<1>1. trade \in TradeRow({"open"})
  BY DEF LabTyped, TradeRow
<1>2. checked = CheckStopOrTarget(trade, bar, at)
  BY DEF Iteration
<1>3. \/ checked = trade
      \/ checked = Closed(trade, trade.stop, "stop", at)
      \/ checked = Closed(trade, trade.target, "target", at)
  BY <1>1, <1>2, CheckedBar
<1> QED
  BY <1>1, <1>3 DEF Closed, TradeRow

\* A bar that stops the live trade stops the backtest's at the same stop.
LEMMA SameStop ==
  ASSUME LabTyped, NEW bar \in Candles, NEW at \in Nat, NEW checked, NEW money, NEW sig,
         Iteration(bar, at, checked, money, sig),
         live.reason = "open", Worst(live, bar) <= 0,
         trade.reason = "open", trade.side = live.side, trade.stop = live.stop
  PROVE  checked.reason = "stop"
<1>1. trade \in TradeRow({"open"}) /\ trade.stop \in Int /\ live.side \in Sides
  BY DEF LabTyped, TradeRow
<1>2. checked = CheckStopOrTarget(trade, bar, at)
  BY DEF Iteration
<1>3. PICK worst \in Int :
        worst = Ahead(trade.side, trade.stop, Peak(Opposite(trade.side), bar))
  BY <1>1, BarSound, AheadTyped
<1>4. worst <= 0
  BY <1>3 DEF Worst
<1>5. checked = Closed(trade, trade.stop, "stop", at)
  BY <1>1, <1>2, <1>3, <1>4, CheckedBar
<1> QED
  BY <1>1, <1>5, ClosedTrade

\* A close of the live trade by its stop.
LEMMA HeldCloses ==
  ASSUME LabTyped, Dated, Companion, NEW bar \in Candles, NEW at \in Nat, NEW checked,
         NEW money, NEW sig, Iteration(bar, at, checked, money, sig),
         live.reason = "open", LiveCloses(bar, at)
  PROVE  Held'
<1> SUFFICES ASSUME Outlived(live') PROVE Held'
  BY DEF Held
<1>1. /\ at = Len(bars) + 1 /\ bars' = Append(bars, bar) /\ ~over
      /\ done' = IF Filled(checked) THEN checked ELSE done
  BY DEF Iteration
<1>2. /\ bars \in Seq(Candles) /\ live \in TradeRow({"open"}) /\ live.at \in Nat
      /\ live.at <= Len(bars) /\ trade.at <= Len(bars) /\ trade.at \in Nat
  BY DEF LabTyped, TradeRow
<1>3. /\ bars' \in Seq(Candles) /\ Len(bars) \in Nat /\ Len(bars') = at /\ bars'[at] = bar
      /\ \A i \in 1..Len(bars) : bars'[i] = bars[i]
  BY <1>1, <1>2, BarsGrow
<1>4. PICK reason \in {"stop", "target"}, exit \in Int :
        /\ live' = Closed(live, exit, reason, at)
        /\ reason = "stop" => Worst(live, bar) <= 0
        /\ path' \in Seq(Candles)
        /\ path = <<>> /\ live.at < at => Kept(path', bars', live.at, at)
  BY DEF LiveCloses
<1>5. PICK t : t = live'
  OBVIOUS
<1>6. /\ t.side = live.side /\ t.entry = live.entry /\ t.stop = live.stop
      /\ t.target = live.target /\ t.at = live.at /\ t.reason = reason
  BY <1>2, <1>4, <1>5 DEF Closed, TradeRow
<1>7. reason = "stop" /\ Worst(live, bar) <= 0
  BY <1>4, <1>5, <1>6 DEF Outlived
<1>8. /\ path = <<>> /\ Ahead(live.side, live.entry, live.target) > 0
      /\ \A i \in (live.at + 1)..Len(bars) : Best(live, bars[i]) < 0
      /\ trade.reason = "open" /\ trade.at = live.at /\ trade.side = live.side
  BY <1>1 DEF Companion
<1>9. live.at < at /\ Kept(path', bars', live.at, at)
  BY <1>1, <1>2, <1>3, <1>4, <1>8
<1>10. ASSUME NEW i \in (live.at + 1)..(at - 1) PROVE Best(live, bars'[i]) < 0
  <2>1. i \in (live.at + 1)..Len(bars) /\ i \in 1..Len(bars)
    BY <1>1, <1>2, <1>3
  <2> QED
    BY <1>3, <1>8, <2>1
<1>11. Replayed(t, path')
  <2>1. PICK p \in Seq(Candles) : p = path'
    BY <1>4
  <2> QED
    BY <1>3, <1>6, <1>7, <1>8, <1>9, <1>10, <2>1, KeptReplayed
<1>12. trade'.reason = "open" /\ trade'.at = t.at => trade'.stop # t.stop
  <2>1. SUFFICES ASSUME trade'.reason = "open", trade'.at = t.at, trade'.stop = t.stop
                 PROVE  FALSE
    OBVIOUS
  <2>2. trade' = trade /\ checked = trade
    BY <1>1, <1>2, <1>3, <1>6, <2>1, TradeLeft DEF NoTrade, Trade
  <2>3. checked.reason = "stop"
    BY <1>6, <1>7, <1>8, <2>1, <2>2, SameStop
  <2> QED
    BY <1>8, <2>2, <2>3
<1>13. done'.at = t.at /\ done'.stop = t.stop => done'.reason # "target"
  <2>1. CASE ~Filled(checked)
    <3>1. done.at < trade.at /\ done' = done /\ done.at \in Nat
      BY <1>1, <1>8, <2>1 DEF Dated, LabTyped, TradeRow
    <3> QED
      BY <1>2, <1>6, <1>8, <3>1
  <2>2. CASE Filled(checked)
    <3>1. SUFFICES ASSUME checked.stop = t.stop PROVE checked.reason # "target"
      BY <1>1, <2>2
    <3>2. trade.stop = live.stop
      BY <1>6, <1>8, <3>1, CheckedStop
    <3> QED
      BY <1>7, <1>8, <3>2, SameStop
  <2> QED
    BY <2>1, <2>2
<1> QED
  BY <1>5, <1>11, <1>12, <1>13 DEF Held

LEMMA HeldIterate ==
  ASSUME LabTyped, Dated, Companion, Held, NEW bar \in Candles, Iterate(bar)
  PROVE  Held'
<1>1. PICK at, checked, money, sig : at \in Nat /\ Iteration(bar, at, checked, money, sig)
  BY IterateParts
<1>2. /\ at = Len(bars) + 1 /\ done' = IF Filled(checked) THEN checked ELSE done
  BY <1>1 DEF Iteration
<1>3. live.at \in Nat /\ live.at <= Len(bars) /\ Len(bars) \in Nat
  BY DEF LabTyped, TradeRow
<1>4. CASE live.reason = "open" /\ LiveCloses(bar, at)
  BY <1>1, <1>4, HeldCloses
<1>5. CASE live.reason = "open" /\ live' = live
  BY <1>5 DEF Held, Outlived
<1>6. CASE live.reason # "open" /\ live' = trade' /\ trade' \in TradeRow({"open"})
  BY <1>6 DEF Held, Outlived, TradeRow
<1>7. CASE live.reason # "open" /\ live' = live /\ path' = path
  <2>1. SUFFICES ASSUME Outlived(live) PROVE Held'
    BY <1>7 DEF Held
  <2>2. /\ Replayed(live, path)
        /\ trade.reason = "open" /\ trade.at = live.at => trade.stop # live.stop
        /\ done.at = live.at /\ done.stop = live.stop => done.reason # "target"
    BY <2>1 DEF Held
  <2>3. trade'.reason = "open" /\ trade'.at = live.at => trade'.stop # live.stop
    BY <1>1, <1>2, <1>3, <2>2, TradeLeft DEF NoTrade, Trade
  <2>4. done'.at = live.at /\ done'.stop = live.stop => done'.reason # "target"
    <3>1. CASE ~Filled(checked)
      BY <1>2, <2>2, <3>1
    <3>2. CASE Filled(checked)
      <4>1. trade.reason = "open" /\ checked.at = trade.at
        BY <1>1, <3>2, CheckedTyped
      <4>2. checked.stop = trade.stop
        BY <1>1, <4>1, CheckedStop
      <4> QED
        BY <1>2, <2>2, <3>2, <4>1, <4>2
    <3> QED
      BY <3>1, <3>2
  <2> QED
    BY <1>7, <2>2, <2>3, <2>4 DEF Held
<1> QED
  BY <1>1, <1>4, <1>5, <1>6, <1>7, LiveSurvives, LiveOpens

LEMMA HeldNext == LabTyped /\ Dated /\ Companion /\ Held /\ [LabNext]_labVars => Held'
<1> SUFFICES ASSUME LabTyped, Dated, Companion, Held, [LabNext]_labVars PROVE Held'
  OBVIOUS
<1>1. CASE UNCHANGED labVars
  BY <1>1 DEF labVars, Held
<1>2. CASE \E bar \in Candles : Iterate(bar)
  BY <1>2, HeldIterate
<1>3. CASE Trigger
  <2>1. live \in TradeRow({"open"})
    BY <1>3, TriggerParts
  <2>2. PICK reason \in {"stop", "target"}, exit \in Int :
          live' = Closed(live, exit, reason, live.at)
    BY <1>3, TriggerParts
  <2>3. live'.until = live.at /\ live'.at = live.at /\ live.at \in Nat
    BY <2>1, <2>2 DEF Closed, TradeRow
  <2> QED
    BY <2>3 DEF Held, Outlived
<1>4. CASE Trail
  <2>1. live \in TradeRow({"open"})
    BY <1>4, TrailParts
  <2>2. PICK stop \in Int : live' = [live EXCEPT !.stop = stop]
    BY <1>4, TrailParts
  <2>3. live'.reason = "open"
    BY <2>1, <2>2 DEF TradeRow
  <2> QED
    BY <2>3 DEF Held, Outlived
<1>5. CASE EndOfData
  <2>1. trade'.reason = "none" /\ UNCHANGED <<live, path>>
    BY <1>5, EndParts DEF NoTrade, Trade
  <2>2. done' = done \/ done'.reason = "end"
    <3>1. CASE trade.reason = "open"
      <4>1. PICK bar, c :
              /\ bar \in Candles
              /\ trade \in TradeRow({"open"})
              /\ c = Closed(trade, bar.close, "end", Len(bars)) /\ done' = c
        BY <1>5, <3>1, EndParts
      <4> QED
        BY <4>1 DEF Closed, TradeRow
    <3>2. CASE trade.reason # "open"
      BY <1>5, <3>2, EndParts
    <3> QED
      BY <3>1, <3>2
  <2> QED
    BY <2>1, <2>2 DEF Held
<1> QED
  BY <1>1, <1>2, <1>3, <1>4, <1>5 DEF LabNext

\* For every course of bars, every strategy, sizing and stop policy: where the backtest
\* books a target with the stop the live trade ended with, the live trade came to its
\* target too, unless it ended on the bar of its entry; and so it is with the replay of
\* the recorded path, but at a multiple of the distance to a stop moved past the entry.
THEOREM ReplayPessimistic == LabSpec => []Pessimistic
<1>1. LabInit => LabTyped /\ Dated /\ Companion /\ Held
  BY LabTypedInit, LabPairedInit
<1>2. LabTyped /\ Dated /\ Companion /\ Held /\ [LabNext]_labVars
        => (LabTyped /\ Dated /\ Companion /\ Held)'
  BY LabTypedNext, DatedNext, CompanionNext, HeldNext
<1> QED
  BY <1>1, <1>2, HeldPessimistic, PTL DEF LabSpec

=============================================================================
