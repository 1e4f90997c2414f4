------------------------------ MODULE DeskProofs ------------------------------
(***************************************************************************)
(* Theorems about Desk: for any strategies, symbols, prices, policies and  *)
(* lengths of a day, its stops only protect, its guard lets nothing        *)
(* through after a breach it wrote down, its calendar shows every event    *)
(* near, and what moves together with a position stays under the heat it   *)
(* came in with.                                                           *)
(***************************************************************************)
EXTENDS Desk, Sums, TLAPS

-----------------------------------------------------------------------------
(* Types.                                                                  *)

Position ==
  [st : {"none", "open", "closed"}, strat : Strategies, sym : Symbols, side : Sides, entry : Int,
   stop : Int, target : Int, exit : Int, weight : Nat, lots : Int]

Row ==
  [initial : Int, peak : Int, start : Int, date : Nat, count : Nat, traded : Nat,
   today : BOOLEAN, ever : BOOLEAN]

TradeTypes ==
  /\ price \in [Symbols -> Int]
  /\ bar \in [Symbols -> [high : Int, low : Int]]
  /\ pos \in [Ticket -> Position]
  /\ sig \in [strat : Strategies, sym : Symbols, side : Sides, lots : Int]
  /\ alloc = <<>> \/ alloc \in [Symbols -> [Strategies -> Nat]]
  /\ balance \in Int
  /\ pc = "trigger" => cur \in Ticket

LEMMA WeightTyped ==
  ASSUME TradeTypes, NEW s \in Strategies, NEW y \in Symbols
  PROVE  Weight(s, y) \in Nat
BY AllocatorAssumption DEF Weight, TradeTypes

LEMMA LotsTyped ==
  ASSUME TradeTypes, NEW w \in Nat, NEW y
  PROVE  Lots(y, w) \in Int
<1> DEFINE size == PipSizeOf(pips'[y].size)
           value == PipValueOf(pips'[y].value)
<1>1. size \in Nat \ {0} /\ value \in Nat \ {0}
  BY SizingAssumption DEF PipSizeOf, PipValueOf
<1> HIDE DEF size, value
<1>2. Budget(w) \in Int
  BY DEF Budget, TradeTypes
<1>3. Budget(w) * size \in Int /\ StopDistance * value \in Nat \ {0}
  BY <1>1, <1>2, DeskAssumption
<1> DEFINE b == Budget(w) * size
           d == StopDistance * value
<1>4. b \in Int /\ d \in Nat \ {0}
  BY <1>3
<1> HIDE DEF b, d
<1>5. b \div d \in Int
  BY <1>4
<1>6. Within(b \div d) \in Int
  BY <1>5, SizingAssumption DEF Within
<1> QED
  BY <1>6 DEF Lots, LotSize, size, value, b, d

LEMMA AllocateTyped == Allocate \in [Symbols -> [Strategies -> Nat]]
<1> SUFFICES ASSUME NEW y \in Symbols PROVE AllocateSymbol(Scores(y)) \in [Strategies -> Nat]
  BY DEF Allocate
<1> DEFINE scores == Scores(y)
<1>1. DOMAIN scores = Strategies
  BY DEF Scores
<1> HIDE DEF scores
<1>2. AllocateSymbol(scores) \in [Strategies -> Nat]
  BY <1>1, AllocatorAssumption DEF AllocateSymbol
<1> QED
  BY <1>2 DEF scores

LEMMA SignalTyped ==
  NoSignal \in [strat : Strategies, sym : Symbols, side : Sides, lots : Int]
BY DeskAssumption DEF NoSignal, Sides

LEMMA TradeInit == Init => TradeTypes
<1> SUFFICES ASSUME Init PROVE TradeTypes
  OBVIOUS
<1>1. price \in [Symbols -> Int] /\ bar \in [Symbols -> [high : Int, low : Int]]
  BY DeskAssumption DEF Init
<1>2. pos \in [Ticket -> Position]
  BY SignalTyped DEF Init, NoPosition, Position, NoSignal
<1> QED
  BY <1>1, <1>2, SignalTyped, DeskAssumption DEF Init, TradeTypes

LEMMA BookTyped ==
  ASSUME TradeTypes, NEW t \in Ticket, NEW exit \in Int, Book(t, exit)
  PROVE  pos' \in [Ticket -> Position] /\ balance' \in Int
<1>1. pos[t] \in Position /\ pos \in [Ticket -> Position] /\ balance \in Int
  BY DEF TradeTypes
<1>2. NoPosition \in Position
  BY SignalTyped DEF NoPosition, NoSignal, Position
<1>3. Ahead(pos[t].side, pos[t].entry, exit) \in Int
  BY <1>1 DEF Ahead, Position
<1>4. balance' \in Int
  BY <1>1, <1>3 DEF Book
<1>5. [pos[t] EXCEPT !.st = "closed", !.exit = exit] \in Position
  BY <1>1 DEF Position
<1>6. [NoPosition EXCEPT !.st = "closed"] \in Position
  BY <1>2 DEF Position
<1> QED
  BY <1>1, <1>4, <1>5, <1>6 DEF Book

\* Everything but the positions, the account, prices, weights and the signal in hand.
LEMMA TradeNext == TradeTypes /\ [Next]_vars => TradeTypes'
<1> SUFFICES ASSUME TradeTypes, [Next]_vars PROVE TradeTypes'
  OBVIOUS
<1> USE DEF market, memory
<1>1. ASSUME UNCHANGED <<market, pos, balance, alloc, sig>>,
             pc' = "trigger" => pc = "trigger" /\ cur' = cur
      PROVE  TradeTypes'
  BY <1>1 DEF TradeTypes
<1>2. ASSUME NEW t \in Ticket, Trail(t)
      PROVE  TradeTypes'
  <2>1. pos[t] \in Position /\ bar[pos[t].sym].high \in Int /\ bar[pos[t].sym].low \in Int
    BY DEF TradeTypes, Position
  <2> DEFINE stop == ProposedStop(pos[t].side, pos[t].entry, pos[t].stop,
                                  Peak(pos[t].side, bar[pos[t].sym]))
  <2>2. stop \in Int
    <3>1. ASSUME NEW side, NEW entry \in Int, NEW old \in Int, NEW peak \in Int
          PROVE  ProposedStop(side, entry, old, peak) \in Int
      <4>1. StopRisk(entry, old) \in Int /\ TrailDistanceR \in Int
        BY StopPolicyAssumption DEF StopRisk
      <4>2. TrailDistanceR * StopRisk(entry, old) \in Int
        BY <4>1
      <4>3. TargetStop(side, entry, old, peak) \in Int
        BY <4>2 DEF TargetStop, Shifted
      <4> QED
        BY <4>3 DEF ProposedStop
    <3>2. Peak(pos[t].side, bar[pos[t].sym]) \in Int
      BY <2>1 DEF Peak
    <3> QED
      BY <2>1, <3>1, <3>2 DEF Position
  <2> HIDE DEF stop
  <2>3. pos' = pos \/ pos' = [pos EXCEPT ![t] = [pos[t] EXCEPT !.stop = stop]]
    BY <1>2 DEF Trail, stop
  <2>4. [pos[t] EXCEPT !.stop = stop] \in Position
    BY <2>1, <2>2 DEF Position
  <2>5. pos' \in [Ticket -> Position]
    BY <2>3, <2>4 DEF TradeTypes
  <2> QED
    BY <1>2, <2>5 DEF Trail, TradeTypes
<1>3. CASE Trigger
  <2>1. UNCHANGED <<market, alloc, sig>> /\ pc = "trigger" /\ pc' = "manage"
    BY <1>3 DEF Trigger
  <2>2. CASE UNCHANGED <<pos, balance>>
    BY <2>1, <2>2 DEF TradeTypes
  <2>3. CASE ~UNCHANGED <<pos, balance>>
    <3>1. pos[cur].st = "open" /\ Book(cur, price[pos[cur].sym])
      BY <1>3, <2>3 DEF Trigger
    <3>2. cur \in Ticket
      BY <2>1 DEF TradeTypes
    <3>3. price[pos[cur].sym] \in Int
      BY <3>2 DEF TradeTypes, Position
    <3> QED
      BY <2>1, <3>1, <3>2, <3>3, BookTyped DEF TradeTypes
  <2> QED
    BY <2>2, <2>3
<1>4. CASE Refresh
  BY <1>4, AllocateTyped DEF Refresh, RefreshAllocator, inHand, TradeTypes
<1>5. ASSUME NEW s \in Strategies, NEW y \in Symbols, NEW side \in Sides, ScanSignal(s, y, side)
      PROVE  TradeTypes'
  BY <1>5 DEF ScanSignal, TradeTypes
<1>6. ASSUME Dropped, alloc' = alloc
      PROVE  TradeTypes'
  BY <1>6, SignalTyped DEF Dropped, TradeTypes
<1>7. CASE HandleSignal
  BY <1>1, <1>6, <1>7 DEF HandleSignal, Refused, Dropped, inHand
<1>8. CASE Gate
  <2>1. CASE Dropped
    BY <1>6, <2>1 DEF Dropped
  <2>2. CASE ~Dropped
    <3> DEFINE w == Weight(sig.strat, sig.sym)
               lots == Lots(sig.sym, w)
    <3>1. /\ UNCHANGED <<market, pos, balance, alloc>> /\ sig' = [sig EXCEPT !.lots = lots]
          /\ pc' = "place"
      BY <1>8, <2>2 DEF Gate, Refused
    <3>2. w \in Nat
      BY WeightTyped DEF TradeTypes
    <3>3. lots \in Int
      BY <3>2, LotsTyped
    <3> HIDE DEF lots
    <3> QED
      BY <3>1, <3>3 DEF TradeTypes
  <2> QED
    BY <2>1, <2>2
<1>9. ASSUME NEW t \in Ticket, Place(t)
      PROVE  TradeTypes'
  <2> DEFINE entry == price[sig.sym]
             opening == [st |-> "open", strat |-> sig.strat, sym |-> sig.sym, side |-> sig.side,
                         entry |-> entry, stop |-> Shifted(sig.side, entry, -StopDistance),
                         target |-> Shifted(sig.side, entry, TargetDistance), exit |-> 0,
                         weight |-> Weight(sig.strat, sig.sym), lots |-> sig.lots]
  <2>1. entry \in Int /\ Weight(sig.strat, sig.sym) \in Nat
    BY WeightTyped DEF TradeTypes
  <2>2. /\ Shifted(sig.side, entry, -StopDistance) \in Int
        /\ Shifted(sig.side, entry, TargetDistance) \in Int
    BY <2>1, DeskAssumption DEF Shifted
  <2>3. opening \in Position
    BY <2>1, <2>2 DEF TradeTypes, Position
  <2>4. /\ pos' = [pos EXCEPT ![t] = opening] /\ UNCHANGED <<market, balance, alloc, sig>>
        /\ pc' = "note"
    BY <1>9 DEF Place, inHand
  <2> HIDE DEF opening
  <2> QED
    BY <2>3, <2>4 DEF TradeTypes
<1>10. CASE PlaceRejected
  BY <1>6, <1>10 DEF PlaceRejected, Dropped
<1>11. CASE Note
  BY <1>11, SignalTyped DEF Note, TradeTypes
<1>12. ASSUME NEW y \in Symbols, NEW p \in 0..MaxPrice, PriceMoves(y, p)
       PROVE  TradeTypes'
  <2>1. p \in Int /\ bar[y].high \in Int /\ bar[y].low \in Int
    BY DeskAssumption DEF TradeTypes
  <2>2. Greater(p, bar[y].high) \in Int
    BY <2>1 DEF Greater
  <2>3. price' \in [Symbols -> Int]
    BY <1>12, <2>1 DEF PriceMoves, TradeTypes
  <2>4. bar' \in [Symbols -> [high : Int, low : Int]]
    <3>1. PICK high \in {p, Greater(p, bar[y].high)} :
            LET new == high = p /\ p < bar[y].high
            IN bar' = [bar EXCEPT ![y] =
                 [high |-> high, low |-> IF new \/ p < bar[y].low THEN p ELSE bar[y].low]]
      BY <1>12 DEF PriceMoves
    <3>2. \E low \in Int : bar' = [bar EXCEPT ![y] = [high |-> high, low |-> low]]
      BY <2>1, <3>1
    <3>3. high \in Int
      BY <2>1, <2>2
    <3> QED
      BY <3>2, <3>3 DEF TradeTypes
  <2> QED
    BY <1>12, <2>3, <2>4 DEF PriceMoves, inHand, TradeTypes
<1>13. ASSUME NEW t \in Ticket, NEW exit \in -MaxPrice..2 * MaxPrice, TradeCloses(t, exit)
       PROVE  TradeTypes'
  <2>1. exit \in Int
    BY DeskAssumption
  <2> QED
    BY <1>13, <2>1, BookTyped DEF TradeCloses, inHand, TradeTypes
<1>14. CASE Restart
  BY <1>14, SignalTyped DEF Restart, TradeTypes
<1>15. ASSUME NEW s \in Strategies, NEW y \in Symbols, NEW side \in Sides, FilteredOut(s, y, side)
       PROVE  TradeTypes'
  BY <1>1, <1>15 DEF FilteredOut, inHand
<1>16. CASE TickBegin \/ Observe \/ ScanDone \/ Minute \/ RefreshCalendar
  BY <1>1, <1>16 DEF TickBegin, Observe, ScanDone, Minute, RefreshCalendar, inHand
<1>17. CASE \E f \in Feeds : Publish(f)
  BY <1>1, <1>17 DEF Publish, inHand
<1>18. CASE \E s \in Strategies : Switch(s)
  BY <1>1, <1>18 DEF Switch, inHand
<1>19. CASE UNCHANGED vars
  BY <1>1, <1>19 DEF vars, inHand
<1> QED
  BY <1>2, <1>3, <1>4, <1>5, <1>7, <1>8, <1>9, <1>10, <1>11, <1>12, <1>13, <1>14, <1>15, <1>16,
     <1>17, <1>18, <1>19 DEF Next, BotStep, OtherStep

-----------------------------------------------------------------------------
(* Stops.                                                                  *)

\* proposed_stop only moves a stop forward, and only to where it covers the entry: it
\* trails by no more of the risk than the trade has gained.
LEMMA StopRatchets ==
  ASSUME NEW side \in Sides, NEW entry \in Int, NEW stop \in Int, NEW peak \in Int,
         ProposedStop(side, entry, stop, peak) # stop
  PROVE  /\ Ahead(side, stop, ProposedStop(side, entry, stop, peak)) > 0
         /\ Ahead(side, entry, ProposedStop(side, entry, stop, peak)) >= 0
<1> DEFINE risk == StopRisk(entry, stop)
           gain == Ahead(side, entry, peak)
           target == TargetStop(side, entry, stop, peak)
<1>1. ProposedStop(side, entry, stop, peak) = target /\ risk > 0 /\ Ahead(side, stop, target) > 0
  BY DEF ProposedStop
<1>2. risk \in Nat /\ gain \in Int
  BY <1>1 DEF StopRisk, Ahead
<1>3. CASE gain >= TrailStartR * risk
  <2>1. target = Shifted(side, peak, -(TrailDistanceR * risk))
    BY <1>3 DEF TargetStop
  <2> HIDE DEF risk, target
  <2>2. TrailDistanceR * risk <= TrailStartR * risk
    BY <1>2, StopPolicyAssumption
  <2>3. TrailDistanceR * risk \in Int /\ TrailStartR * risk \in Int
    BY <1>2, StopPolicyAssumption
  <2>4. gain >= TrailDistanceR * risk
    BY <1>2, <1>3, <2>2, <2>3
  <2>5. Ahead(side, entry, target) = gain - TrailDistanceR * risk
    BY <2>1, <2>3 DEF Ahead, Shifted, Sides
  <2> QED
    BY <1>1, <1>2, <2>3, <2>4, <2>5
<1>4. CASE ~(gain >= TrailStartR * risk) /\ gain >= BreakevenR * risk
  <2>1. target = entry
    BY <1>4 DEF TargetStop
  <2> QED
    BY <1>1, <2>1 DEF Ahead
<1>5. CASE ~(gain >= TrailStartR * risk) /\ ~(gain >= BreakevenR * risk)
  <2>1. target = stop
    BY <1>5 DEF TargetStop
  <2> QED
    BY <1>1, <2>1 DEF Ahead
<1> QED
  BY <1>3, <1>4, <1>5

Protects ==
  \A t \in Ticket :
    pos[t].st = "open" /\ pos'[t].st = "open" /\ pos'[t].stop # pos[t].stop =>
      /\ Ahead(pos[t].side, pos[t].stop, pos'[t].stop) > 0
      /\ Ahead(pos[t].side, pos[t].entry, pos'[t].stop) >= 0

LEMMA ProtectsNext == TradeTypes /\ [Next]_vars => Protects
<1> SUFFICES ASSUME TradeTypes, [Next]_vars PROVE Protects
  OBVIOUS
<1>1. ASSUME \A t \in Ticket : \/ pos'[t] = pos[t] \/ pos[t].st # "open" \/ pos'[t].st # "open"
      PROVE  Protects
  BY <1>1 DEF Protects
<1>2. pos \in [Ticket -> Position]
  BY DEF TradeTypes
<1>3. ASSUME NEW t \in Ticket, Trail(t)
      PROVE  Protects
  <2> DEFINE p == pos[t]
             stop == ProposedStop(p.side, p.entry, p.stop, Peak(p.side, bar[p.sym]))
  <2>1. p \in Position /\ Peak(p.side, bar[p.sym]) \in Int
    BY <1>2 DEF TradeTypes, Position, Peak
  <2>2. stop # p.stop => Ahead(p.side, p.stop, stop) > 0 /\ Ahead(p.side, p.entry, stop) >= 0
    BY <2>1, StopRatchets DEF Position
  <2> HIDE DEF stop
  <2>3. pos' = pos \/ pos' = [pos EXCEPT ![t] = [pos[t] EXCEPT !.stop = stop]]
    BY <1>3 DEF Trail, stop
  <2>4. /\ pos'[t] = pos[t] \/ pos'[t].stop = stop
        /\ \A u \in Ticket : u # t => pos'[u] = pos[u]
    BY <1>2, <2>1, <2>3 DEF Position
  <2> QED
    BY <2>2, <2>4 DEF Protects
<1>4. ASSUME NEW t \in Ticket, NEW exit, Book(t, exit)
      PROVE  Protects
  <2>1. pos'[t].st = "closed" /\ \A u \in Ticket : u # t => pos'[u] = pos[u]
    BY <1>2, <1>4 DEF Book, Position, NoPosition
  <2> QED
    BY <1>1, <2>1
<1>5. CASE Trigger
  BY <1>1, <1>4, <1>5 DEF Trigger, TradeTypes
<1>6. ASSUME NEW t \in Ticket, NEW exit, TradeCloses(t, exit)
      PROVE  Protects
  BY <1>4, <1>6 DEF TradeCloses
<1>7. ASSUME NEW t \in Ticket, Place(t)
      PROVE  Protects
  BY <1>1, <1>2, <1>7 DEF Place
<1>8. ASSUME UNCHANGED pos
      PROVE  Protects
  BY <1>1, <1>8
<1>9. ASSUME NEW s \in Strategies, NEW y \in Symbols, NEW side \in Sides,
             ScanSignal(s, y, side) \/ FilteredOut(s, y, side)
      PROVE  UNCHANGED pos
  BY <1>9 DEF ScanSignal, FilteredOut
<1>10. ASSUME TickBegin \/ Observe \/ Refresh \/ ScanDone \/ HandleSignal \/ Gate \/ PlaceRejected
              \/ Note
       PROVE  UNCHANGED pos
  BY <1>10 DEF TickBegin, Observe, Refresh, ScanDone, HandleSignal, Gate, Refused, Dropped,
     PlaceRejected, Note
<1>11. ASSUME \/ \E y \in Symbols, p \in 0..MaxPrice : PriceMoves(y, p)
              \/ Minute \/ RefreshCalendar \/ Restart \/ UNCHANGED vars
              \/ \E f \in Feeds : Publish(f)
              \/ \E s \in Strategies : Switch(s)
       PROVE  UNCHANGED pos
  BY <1>11 DEF PriceMoves, Minute, RefreshCalendar, Restart, Publish, Switch, vars
<1> QED
  BY <1>3, <1>5, <1>6, <1>7, <1>8, <1>9, <1>10, <1>11 DEF Next, BotStep, OtherStep

\* Whatever prices, the broker and restarts do: as long as a trade is open, StopManager
\* takes its stop only forward, and only to where the trade cannot lose any more.
THEOREM StopsOnlyProtect == Spec => StopsProtect
<1>1. Protects => (\A t \in Ticket :
       pos[t].st = "open" /\ pos'[t].st = "open" /\ pos'[t].stop # pos[t].stop =>
         /\ Ahead(pos[t].side, pos[t].stop, pos'[t].stop) > 0
         /\ Ahead(pos[t].side, pos[t].entry, pos'[t].stop) >= 0)
  BY DEF Protects
<1> QED
  BY <1>1, TradeInit, TradeNext, ProtectsNext, PTL DEF Spec, StopsProtect

-----------------------------------------------------------------------------
(* Calendar.                                                               *)

\* The table holds what was listed last, but for what the purge may take.
CalendarInv ==
  /\ now \in Nat
  /\ feed \in Feeds /\ listed \in Feeds
  /\ \A e \in listed : e.at >= now - PurgeAfter => e \in events

LEMMA CalendarInit == Init => CalendarInv
BY DeskAssumption DEF Init, CalendarInv

LEMMA CalendarNext == CalendarInv /\ [Next]_vars => CalendarInv'
<1> SUFFICES ASSUME CalendarInv, [Next]_vars PROVE CalendarInv'
  OBVIOUS
<1> USE DEF inHand, stores, history
<1>1. ASSUME UNCHANGED <<now, feed, listed, events>>
      PROVE  CalendarInv'
  BY <1>1 DEF CalendarInv
<1>2. CASE Minute
  <2>1. now' = now + 1 /\ UNCHANGED <<feed, listed, events>>
    BY <1>2 DEF Minute
  <2>2. \A e \in listed : e.at >= now' - PurgeAfter => e.at >= now - PurgeAfter
    BY <2>1, DeskAssumption, FilterAssumption DEF CalendarInv
  <2> QED
    BY <2>1, <2>2 DEF CalendarInv
<1>3. CASE RefreshCalendar
  <2>1. /\ events' = Purged(Upserted(events, feed), now) /\ listed' = feed
        /\ UNCHANGED <<now, feed>>
    BY <1>3 DEF RefreshCalendar
  <2> QED
    BY <2>1 DEF CalendarInv, Purged, Upserted
<1>4. ASSUME NEW f \in Feeds, Publish(f)
      PROVE  CalendarInv'
  BY <1>4 DEF Publish, CalendarInv
<1>5. ASSUME NEW t \in Ticket, Trail(t) \/ Place(t)
      PROVE  CalendarInv'
  BY <1>1, <1>5 DEF Trail, Place
<1>6. ASSUME NEW t \in Ticket, NEW exit, TradeCloses(t, exit)
      PROVE  CalendarInv'
  BY <1>1, <1>6 DEF TradeCloses
<1>7. ASSUME NEW s \in Strategies, NEW y \in Symbols, NEW side \in Sides,
             ScanSignal(s, y, side) \/ FilteredOut(s, y, side)
      PROVE  CalendarInv'
  BY <1>1, <1>7 DEF ScanSignal, FilteredOut
<1>8. ASSUME TickBegin \/ Trigger \/ Observe \/ Refresh \/ ScanDone \/ HandleSignal \/ Gate
             \/ PlaceRejected \/ Note
      PROVE  CalendarInv'
  BY <1>1, <1>8 DEF TickBegin, Trigger, Observe, Refresh, ScanDone, HandleSignal, Gate, Refused,
     Dropped, PlaceRejected, Note
<1>9. ASSUME NEW y \in Symbols, NEW p \in 0..MaxPrice, PriceMoves(y, p)
      PROVE  CalendarInv'
  BY <1>1, <1>9 DEF PriceMoves
<1>10. ASSUME NEW s \in Strategies, Switch(s)
       PROVE  CalendarInv'
  BY <1>1, <1>10 DEF Switch
<1>11. CASE Restart \/ UNCHANGED vars
  BY <1>1, <1>11 DEF Restart, vars
<1> QED
  BY <1>2, <1>3, <1>4, <1>5, <1>6, <1>7, <1>8, <1>9, <1>10, <1>11 DEF Next, BotStep, OtherStep

\* The calendar's refreshes, its purge and the passing of time hide no event of the last
\* listing from BlackoutChecker while it is near: whoever asks of a symbol is told.
THEOREM BlackoutTold == Spec => []BlackoutShown
<1>1. ASSUME CalendarInv PROVE BlackoutShown
  <2> SUFFICES ASSUME NEW y \in Symbols, NEW e \in listed, e.high, e.ccy \in Currencies[y],
                      e.at - BeforeMin <= now, now <= e.at + AfterMin
               PROVE  Blackout(events, Currencies[y], now)
    BY DEF BlackoutShown
  <2>1. e.at \in Nat /\ now \in Nat
    BY <1>1, DeskAssumption DEF CalendarInv
  <2>2. e.at >= now - PurgeAfter /\ now - AfterMin <= e.at /\ e.at <= now + BeforeMin
    BY <2>1, FilterAssumption
  <2>3. e \in events
    BY <1>1, <2>2 DEF CalendarInv
  <2> QED
    BY <2>2, <2>3 DEF Blackout, EventsInWindow
<1> QED
  BY <1>1, CalendarInit, CalendarNext, PTL DEF Spec

-----------------------------------------------------------------------------
(* Prop-firm guard.                                                        *)

LEMMA DayGrows ==
  ASSUME NEW n \in Nat
  PROVE  /\ n \div DayLength \in Nat
         /\ n \div DayLength <= (n + 1) \div DayLength
BY DeskAssumption

LEMMA LimitsTyped ==
  DailyLossAmount \in Nat \ {0} /\ MaxDrawdownAmount \in Nat \ {0}
<1>1. ASSUME NEW pct \in 1..100, (InitialBalance * pct) % 100 = 0
      PROVE  (InitialBalance * pct) \div 100 \in Nat \ {0}
  <2> DEFINE n == InitialBalance * pct
  <2>1. n \in Nat /\ n > 0
    BY PolicyAssumption
  <2> HIDE DEF n
  <2>2. n % 100 = 0 => n \div 100 \in Nat \ {0}
    BY <2>1
  <2> QED
    BY <1>1, <2>2 DEF n
<1> QED
  BY <1>1, PolicyAssumption DEF DailyLossAmount, MaxDrawdownAmount

GuardTypes ==
  /\ now \in Nat /\ balance \in Int /\ opened \in Int /\ slipped \in BOOLEAN
  /\ row \in Row
  /\ broke \in [day : Nat, ever : BOOLEAN]

\* The row remembers every breach that was written down, the day's as long as it is that
\* day; and unless its anchor slipped, it measures the day from its midnight.
RowInv ==
  /\ row # NoGuardRow => row.initial = InitialBalance
  /\ row.date <= Today /\ broke.day <= Today
  /\ broke.ever => row.ever
  /\ broke.day = Today => row.today /\ row.date = Today
  /\ ~slipped => IF row.date = Today THEN row.start = opened ELSE balance = opened

GuardInv == GuardTypes /\ RowInv /\ BreachStopsEntries

LEMMA GuardInit == Init => GuardInv
<1> SUFFICES ASSUME Init PROVE GuardInv
  OBVIOUS
<1>0. /\ now = 0 /\ row = NoGuardRow /\ balance \in Int /\ opened = balance /\ slipped = FALSE
      /\ broke = [day |-> NoDay, ever |-> FALSE] /\ pc = "idle"
  BY DeskAssumption DEF Init
<1>1. Today \in Nat /\ Today >= 1
  BY <1>0, DayGrows DEF Today
<1>2. GuardTypes
  <2>1. NoGuardRow \in Row
    BY DEF NoGuardRow, GuardState, Row, NoDay
  <2>2. broke \in [day : Nat, ever : BOOLEAN]
    BY <1>0 DEF NoDay
  <2>3. now \in Nat /\ balance \in Int /\ opened \in Int
    BY <1>0
  <2>4. slipped \in BOOLEAN
    BY <1>0
  <2>5. row \in Row
    BY <1>0, <2>1
  <2> QED
    BY <2>2, <2>3, <2>4, <2>5 DEF GuardTypes
<1>3. RowInv
  BY <1>0, <1>1 DEF RowInv, NoGuardRow, GuardState, NoDay
<1> QED
  BY <1>0, <1>2, <1>3 DEF GuardInv, BreachStopsEntries

\* A tick's look at the balance.
LEMMA ObserveGuard ==
  ASSUME GuardInv, Observe
  PROVE  GuardInv'
<1>1. GuardTypes /\ RowInv
  BY DEF GuardInv
<1>2. /\ pc' = "refresh" /\ UNCHANGED <<now, balance, opened>> /\ Today' = Today
      /\ Today \in Nat /\ Today >= 1
  BY <1>1, DayGrows DEF Observe, GuardTypes, Today
<1>3. BreachStopsEntries'
  BY <1>2 DEF BreachStopsEntries
<1>4. CASE UNCHANGED <<row, broke, slipped>>
  BY <1>1, <1>2, <1>3, <1>4 DEF GuardInv, GuardTypes, RowInv
<1> DEFINE state == IF row = NoGuardRow THEN Initialized(Today) ELSE row
           missing == row = NoGuardRow
<1>5. /\ state \in Row /\ state.initial = InitialBalance
      /\ missing => state.date = Today /\ state.start = InitialBalance
      /\ ~missing => state = row
  BY <1>1, <1>2, PolicyAssumption DEF GuardTypes, RowInv, Initialized, GuardState, NoDay, Row
<1>6. missing => row.date # Today /\ ~row.ever /\ ~row.today
  BY <1>2 DEF NoGuardRow, GuardState, NoDay
<1>7. \/ UNCHANGED <<row, broke, slipped>>
      \/ /\ slipped' = (slipped \/ (missing /\ balance # InitialBalance))
         /\ \/ /\ row' = Observed(state, balance, Today)
               /\ broke' =
                    [day |-> IF ~slipped' /\ Breach(opened - balance, DailyLossAmount)
                             THEN Today ELSE broke.day,
                     ever |-> broke.ever \/ Breach(InitialBalance - balance, MaxDrawdownAmount)]
            \/ row' = state /\ broke' = broke
  BY DEF Observe
<1> HIDE DEF state, missing
<1>8. CASE slipped' = (slipped \/ (missing /\ balance # InitialBalance))
           /\ row' = state /\ broke' = broke
  <2>1. GuardTypes'
    BY <1>1, <1>2, <1>5, <1>8 DEF GuardTypes, missing
  <2>2. missing => ~broke.ever /\ broke.day # Today
    BY <1>1, <1>6 DEF RowInv
  <2>3. ~slipped' => IF row'.date = Today THEN row'.start = opened ELSE balance = opened
    BY <1>1, <1>5, <1>6, <1>8 DEF RowInv
  <2>4. row'.date <= Today /\ row'.initial = InitialBalance
    BY <1>1, <1>2, <1>5, <1>8 DEF RowInv
  <2>5. /\ broke'.ever => row'.ever
        /\ broke'.day = Today => row'.today /\ row'.date = Today
        /\ broke'.day <= Today
    BY <1>1, <1>5, <1>8, <2>2 DEF RowInv
  <2>6. RowInv'
    BY <1>2, <2>3, <2>4, <2>5 DEF RowInv
  <2> QED
    BY <1>3, <2>1, <2>6 DEF GuardInv
<1>9. CASE /\ slipped' = (slipped \/ (missing /\ balance # InitialBalance))
           /\ row' = Observed(state, balance, Today)
           /\ broke' =
                [day |-> IF ~slipped' /\ Breach(opened - balance, DailyLossAmount)
                         THEN Today ELSE broke.day,
                 ever |-> broke.ever \/ Breach(InitialBalance - balance, MaxDrawdownAmount)]
  <2> DEFINE new == state.date # Today
             start == IF new THEN balance ELSE state.start
             peak == Greater(state.peak, balance)
  <2>1. row' = GuardState(InitialBalance, peak, start, Today, state.count, state.traded,
                 (state.today /\ ~new) \/ Breach(start - balance, DailyLossAmount),
                 state.ever \/ Breach(Baseline(InitialBalance, peak) - balance, MaxDrawdownAmount))
    BY <1>5, <1>9 DEF Observed
  <2>2. start \in Int /\ peak \in Int /\ balance \in Int /\ opened \in Int
    BY <1>1, <1>5 DEF GuardTypes, Row, Greater
  <2>3. ~slipped' => start = opened
    BY <1>1, <1>5, <1>6, <1>9 DEF GuardTypes, RowInv
  <2>4. Baseline(InitialBalance, peak) \in Int /\ Baseline(InitialBalance, peak) >= InitialBalance
    BY <2>2, PolicyAssumption DEF Baseline, Greater
  <2>5. Breach(InitialBalance - balance, MaxDrawdownAmount) =>
          Breach(Baseline(InitialBalance, peak) - balance, MaxDrawdownAmount)
    BY <2>2, <2>4, LimitsTyped, PolicyAssumption DEF Breach
  <2> HIDE DEF start, peak
  <2>6. /\ row'.initial = InitialBalance /\ row'.start = start /\ row'.date = Today
        /\ row'.today = ((state.today /\ ~new) \/ Breach(start - balance, DailyLossAmount))
        /\ row'.ever = (state.ever \/ Breach(Baseline(InitialBalance, peak) - balance,
                                             MaxDrawdownAmount))
    BY <2>1 DEF GuardState
  <2>7. GuardTypes'
    <3>1. row' \in Row
      BY <1>2, <1>5, <2>1, <2>2, PolicyAssumption DEF GuardState, Row, Breach
    <3>2. broke' \in [day : Nat, ever : BOOLEAN]
      BY <1>1, <1>2, <1>9 DEF GuardTypes, Breach
    <3> QED
      BY <1>1, <1>2, <1>9, <2>2, <3>1, <3>2 DEF GuardTypes, missing
  <2>8. broke'.ever => row'.ever
    <3>1. broke.ever => ~missing /\ state.ever
      BY <1>1, <1>5, <1>6 DEF RowInv
    <3> QED
      BY <1>9, <2>5, <2>6, <3>1
  <2>9. broke'.day = Today => row'.today
    <3>1. CASE ~slipped' /\ Breach(opened - balance, DailyLossAmount)
      BY <2>3, <2>6, <3>1
    <3>2. CASE ~(~slipped' /\ Breach(opened - balance, DailyLossAmount))
      <4>1. broke.day = Today => ~missing /\ state.today /\ ~new
        BY <1>1, <1>5, <1>6 DEF RowInv
      <4> QED
        BY <1>9, <2>6, <3>2, <4>1
    <3> QED
      BY <3>1, <3>2
  <2>10. broke'.day <= Today
    BY <1>1, <1>2, <1>9 DEF RowInv
  <2>11. RowInv'
    BY <1>2, <2>3, <2>6, <2>8, <2>9, <2>10 DEF RowInv
  <2> QED
    BY <1>3, <2>7, <2>11 DEF GuardInv
<1> QED
  BY <1>4, <1>7, <1>8, <1>9

LEMMA BookGuard ==
  ASSUME GuardInv, TradeTypes, NEW t \in Ticket, NEW exit \in Int, Book(t, exit),
         pc' = "place" => pc = "place",
         UNCHANGED <<scenario, now, row, opened, broke>>
  PROVE  GuardInv'
<1>1. balance' \in Int
  BY BookTyped
<1>2. /\ slipped' = (slipped \/ (Can("guard") /\ row.date # Today))
      /\ ~Can("guard") => balance' = balance
  BY DEF Book
<1>3. Today' = Today
  BY DEF Today
<1> QED
  BY <1>1, <1>2, <1>3 DEF GuardInv, GuardTypes, RowInv, BreachStopsEntries, Can

LEMMA GuardNext == TradeTypes /\ GuardInv /\ [Next]_vars => GuardInv'
<1> SUFFICES ASSUME TradeTypes, GuardInv, [Next]_vars PROVE GuardInv'
  OBVIOUS
<1> USE DEF inHand, stores, history
<1>1. ASSUME UNCHANGED <<scenario, now, balance, row, opened, slipped, broke>>,
             pc' = "place" => pc = "place"
      PROVE  GuardInv'
  <2>1. Today' = Today
    BY <1>1 DEF Today
  <2> QED
    BY <1>1, <2>1 DEF GuardInv, GuardTypes, RowInv, BreachStopsEntries, Can
<1>2. CASE Minute
  <2>1. /\ now' = now + 1 /\ UNCHANGED <<scenario, balance, row, broke, pc>>
        /\ IF now' \div DayLength # now \div DayLength
           THEN opened' = balance /\ slipped' = FALSE
           ELSE UNCHANGED <<opened, slipped>>
    BY <1>2 DEF Minute
  <2>2. GuardTypes /\ GuardTypes'
    <3>1. opened' \in {opened, balance}
      BY <2>1
    <3>2. slipped' = slipped \/ slipped' = FALSE
      BY <2>1
    <3>3. GuardTypes
      BY DEF GuardInv
    <3>4. opened' \in Int /\ slipped' \in BOOLEAN
      BY <3>1, <3>2, <3>3 DEF GuardTypes
    <3>5. now' = now + 1 /\ UNCHANGED <<balance, row, broke>>
      BY <2>1
    <3> QED
      BY <3>3, <3>4, <3>5 DEF GuardTypes
  <2>3. Today \in Nat /\ Today' \in Nat /\ Today <= Today'
        /\ (Today = Today' <=> now' \div DayLength = now \div DayLength)
    <3> DEFINE before == now \div DayLength
               after == (now + 1) \div DayLength
    <3>1. before \in Nat /\ after \in Nat /\ before <= after
      BY <2>2, DayGrows DEF GuardTypes
    <3>2. Today = before + 1 /\ Today' = after + 1
      BY <2>1 DEF Today
    <3>3. (now' \div DayLength = now \div DayLength) <=> (after = before)
      BY <2>1
    <3> HIDE DEF before, after
    <3> QED
      BY <3>1, <3>2, <3>3
  <2>4. CASE Today' = Today
    BY <2>1, <2>2, <2>3, <2>4 DEF GuardInv, RowInv, BreachStopsEntries, Can
  <2>5. CASE Today' # Today
    <3>1. row.date < Today' /\ broke.day < Today' /\ row.date \in Nat /\ broke.day \in Nat
      BY <2>2, <2>3, <2>5 DEF GuardInv, RowInv, GuardTypes, Row
    <3>2. opened' = balance /\ slipped' = FALSE
      BY <2>1, <2>3, <2>5
    <3> QED
      BY <2>1, <2>2, <2>3, <3>1, <3>2 DEF GuardInv, RowInv, BreachStopsEntries, Can
  <2> QED
    BY <2>4, <2>5
<1>3. CASE Trigger
  <2>1. CASE UNCHANGED <<pos, balance, slipped>>
    BY <1>1, <1>3, <2>1 DEF Trigger
  <2>2. CASE ~UNCHANGED <<pos, balance, slipped>>
    <3>1. Book(cur, price[pos[cur].sym]) /\ cur \in Ticket
      BY <1>3, <2>2 DEF Trigger, TradeTypes
    <3>2. price[pos[cur].sym] \in Int
      BY <3>1 DEF TradeTypes, Position
    <3> QED
      BY <1>3, <3>1, <3>2, BookGuard DEF Trigger
  <2> QED
    BY <2>1, <2>2
<1>4. ASSUME NEW t \in Ticket, NEW exit \in -MaxPrice..2 * MaxPrice, TradeCloses(t, exit)
      PROVE  GuardInv'
  <2>1. exit \in Int
    BY DeskAssumption
  <2> QED
    BY <1>4, <2>1, BookGuard DEF TradeCloses
<1>5. CASE Gate
  <2>1. UNCHANGED <<scenario, now, balance, row, opened, slipped, broke>>
    BY <1>5 DEF Gate, Refused, Dropped
  <2>2. CASE pc' # "place"
    BY <1>1, <2>1, <2>2
  <2>3. CASE pc' = "place"
    <3>1. Can("guard") => \E lots : GuardApproves(row, lots)
      BY <1>5, <2>3 DEF Gate, Refused, Dropped, Approved
    <3>2. Can("guard") => ~row.ever /\ ~row.today
      BY <3>1 DEF GuardApproves, NoGuardRow, GuardState
    <3>3. Today' = Today
      BY <2>1 DEF Today
    <3>4. GuardTypes /\ RowInv
      BY DEF GuardInv
    <3>5. BreachStopsEntries'
      BY <2>1, <3>2, <3>3, <3>4 DEF RowInv, BreachStopsEntries, Can
    <3> QED
      BY <2>1, <3>3, <3>4, <3>5 DEF GuardInv, GuardTypes, RowInv
  <2> QED
    BY <2>2, <2>3
<1>6. CASE Note
  <2>1. /\ pc' = "scan" /\ UNCHANGED <<scenario, now, balance, opened, slipped, broke>>
        /\ Today' = Today
        /\ row' = row \/ (row # NoGuardRow /\ row' = Noted(row, Today))
    BY <1>6 DEF Note, Today
  <2>2. row' \in Row
    BY <2>1, DayGrows DEF GuardInv, GuardTypes, Row, Noted, GuardState, Today
  <2>3. /\ row'.initial = row.initial /\ row'.start = row.start /\ row'.date = row.date
        /\ row'.today = row.today /\ row'.ever = row.ever
    BY <2>1 DEF Noted, GuardState
  <2>4. row' # NoGuardRow => row # NoGuardRow
    BY <2>1
  <2> QED
    BY <2>1, <2>2, <2>3, <2>4 DEF GuardInv, GuardTypes, RowInv, BreachStopsEntries
<1>7. ASSUME NEW t \in Ticket, Trail(t) \/ Place(t)
      PROVE  GuardInv'
  BY <1>1, <1>7 DEF Trail, Place
<1>8. ASSUME NEW s \in Strategies, NEW y \in Symbols, NEW side \in Sides,
             ScanSignal(s, y, side) \/ FilteredOut(s, y, side)
      PROVE  GuardInv'
  BY <1>1, <1>8 DEF ScanSignal, FilteredOut
<1>9. ASSUME TickBegin \/ Refresh \/ ScanDone \/ HandleSignal \/ PlaceRejected \/ Restart
      PROVE  GuardInv'
  BY <1>1, <1>9 DEF TickBegin, Refresh, ScanDone, HandleSignal, Refused, Dropped, PlaceRejected,
     Restart
<1>10. ASSUME NEW y \in Symbols, NEW p \in 0..MaxPrice, PriceMoves(y, p)
       PROVE  GuardInv'
  BY <1>1, <1>10 DEF PriceMoves
<1>11. ASSUME NEW f \in Feeds, Publish(f)
       PROVE  GuardInv'
  BY <1>1, <1>11 DEF Publish
<1>12. ASSUME NEW s \in Strategies, Switch(s)
       PROVE  GuardInv'
  BY <1>1, <1>12 DEF Switch
<1>13. CASE RefreshCalendar \/ UNCHANGED vars
  BY <1>1, <1>13 DEF RefreshCalendar, vars
<1> QED
  BY <1>2, <1>3, <1>4, <1>5, <1>6, <1>7, <1>8, <1>9, <1>10, <1>11, <1>12, <1>13, ObserveGuard
     DEF Next, BotStep, OtherStep

\* However observe() fails later, the bot restarts and trades are closed between its looks:
\* no order follows a breach the guard has written down, on its day or, of the total limit,
\* ever.
THEOREM BreachesStop == Spec => []BreachStopsEntries
<1>1. GuardInv => BreachStopsEntries
  BY DEF GuardInv
<1> QED
  BY <1>1, TradeInit, TradeNext, GuardInit, GuardNext, PTL DEF Spec

-----------------------------------------------------------------------------
(* Correlated heat.  What ClusterCapped says of a held position is named   *)
(* piece by piece; Room is what the gate has found and nothing but an      *)
(* order may use up before the order goes out.                             *)

\* How a held position u moves with a symbol and side.
Pull(u, sym, side) ==
  LET c == IF pos[u].sym = sym THEN CorrUnit ELSE RawCorr(table, pos[u].sym, sym)
  IN IF pos[u].side = side THEN c ELSE -c

Together(t) ==
  {u \in Held : /\ u < t /\ Pull(u, pos[t].sym, pos[t].side) > 0
                /\ Pull(u, pos[t].sym, pos[t].side) >= CorrFloor}
Load(t) == [u \in Together(t) |-> pos[u].weight * Pull(u, pos[t].sym, pos[t].side)]
Fits(t) ==
  Together(t) = {} \/ pos[t].weight * CorrUnit + SumFunctionOnSet(Load(t), Together(t)) <= HeatLimit

HeldRecord(u) == [t |-> u, sym |-> pos[u].sym, side |-> pos[u].side]
Share == [u \in Held |-> Contribution(table, sig, HeldRecord(u), FullWeight)]
Room ==
  \/ Held = {}
  \/ SumFunctionOnSet(Share, Held) + Weight(sig.strat, sig.sym) * CorrUnit <= HeatLimit

WeightsBounded ==
  /\ \A u \in Held : pos[u].weight <= FullWeight
  /\ \A s \in Strategies, y \in Symbols : Weight(s, y) <= FullWeight
TableTyped == \A k \in DOMAIN table : table[k] \in Int
InOrder == \A t \in Ticket : \A u \in 1..(t - 1) : pos[t].st # "none" => pos[u].st # "none"

ClusterInv ==
  /\ WeightsBounded /\ TableTyped /\ InOrder
  /\ ~loose => \A t \in Held : Fits(t)
  /\ ~loose /\ pc = "place" => Room

LEMMA CappedIsFits == ClusterCapped <=> (~loose => \A t \in Held : Fits(t))
BY DEF ClusterCapped, Fits, Together, Load, Pull

LEMMA HeldFinite == IsFiniteSet(Held) /\ Held \subseteq Ticket /\ \A t \in Ticket : IsFiniteSet(Together(t))
<1>1. IsFiniteSet(Ticket)
  BY FS_Interval, DeskAssumption DEF Ticket
<1>2. Held \subseteq Ticket /\ \A t \in Ticket : Together(t) \subseteq Ticket
  BY DEF Held, Together
<1> QED
  BY <1>1, <1>2, FS_Subset

\* A symbol's correlations are whole; the order of a pair does not matter.
LEMMA PullTyped ==
  ASSUME TableTyped, NEW u, NEW sym, NEW side
  PROVE  Pull(u, sym, side) \in Int
BY FilterAssumption DEF TableTyped, Pull, RawCorr

LEMMA LoadTyped ==
  ASSUME TradeTypes, TableTyped, NEW t \in Ticket, NEW u \in Together(t)
  PROVE  Load(t)[u] \in Nat
<1>1. u \in Ticket /\ Pull(u, pos[t].sym, pos[t].side) > 0
  BY DEF Together, Held
<1>2. pos[u].weight \in Nat
  BY <1>1 DEF TradeTypes, Position
<1>3. Pull(u, pos[t].sym, pos[t].side) \in Nat
  BY <1>1, PullTyped
<1>4. pos[u].weight * Pull(u, pos[t].sym, pos[t].side) \in Nat
  BY <1>2, <1>3
<1> QED
  BY <1>4 DEF Load

LEMMA ShareTyped ==
  ASSUME TableTyped, NEW u \in Held
  PROVE  Share[u] \in Nat
<1> DEFINE c == Corr(table, sig, HeldRecord(u))
<1>1. c \in Int
  BY FilterAssumption DEF TableTyped, Corr, RawCorr, HeldRecord
<1> HIDE DEF c
<1>2. FullWeight * c \in Int
  BY <1>1, AllocatorAssumption
<1>3. Contribution(table, sig, HeldRecord(u), FullWeight) \in Nat
  BY <1>2 DEF Contribution, c
<1> QED
  BY <1>3 DEF Share

\* The gate counts a held position with the full risk, and no less than it moves with the
\* signal at the risk it has.
LEMMA ShareCovers ==
  ASSUME TradeTypes, TableTyped, WeightsBounded, NEW u \in Held,
         Pull(u, sig.sym, sig.side) > 0, Pull(u, sig.sym, sig.side) >= CorrFloor
  PROVE  pos[u].weight * Pull(u, sig.sym, sig.side) <= Share[u]
<1> DEFINE c == Pull(u, sig.sym, sig.side)
<1>1. PairOf(pos[u].sym, sig.sym) = PairOf(sig.sym, pos[u].sym)
  BY DEF PairOf
<1>2. c \in Nat
  BY PullTyped
<1>3. Corr(table, sig, HeldRecord(u)) = c
  BY <1>1, <1>2, FilterAssumption DEF Corr, Pull, HeldRecord, RawCorr
<1> HIDE DEF c
<1>4. pos[u].weight \in Nat /\ pos[u].weight <= FullWeight /\ FullWeight \in Nat
  BY AllocatorAssumption DEF WeightsBounded, TradeTypes, Position, Held
<1>5. FullWeight * c \in Nat /\ pos[u].weight * c <= FullWeight * c
  BY <1>2, <1>4
<1>6. Share[u] = FullWeight * c
  BY <1>3, <1>5 DEF Share, Contribution
<1> QED
  BY <1>5, <1>6 DEF c

\* A step that only closes positions, and touches neither weights nor correlations.
ClusterQuiet ==
  /\ table' = table
  /\ alloc' = alloc \/ (alloc' = <<>> /\ pc' # "place")
  /\ \A t \in Ticket : pos'[t].st = "none" <=> pos[t].st = "none"
  /\ \A t \in Held' : t \in Held /\ /\ pos'[t].sym = pos[t].sym /\ pos'[t].side = pos[t].side
                                    /\ pos'[t].weight = pos[t].weight
  /\ loose => loose' \/ Held' = {}
  /\ pc' = "place" => pc = "place" /\ sig' = sig

LEMMA FitsShrinks ==
  ASSUME TradeTypes, TradeTypes', TableTyped, ClusterQuiet, NEW t \in Held', Fits(t)
  PROVE  Fits(t)'
<1>1. t \in Held /\ t \in Ticket
  BY HeldFinite DEF ClusterQuiet
<1>2. \A u \in Together(t)' : /\ u \in Together(t)
                              /\ Pull(u, pos[t].sym, pos[t].side)' = Pull(u, pos[t].sym, pos[t].side)
                              /\ pos'[u].weight = pos[u].weight
  BY <1>1 DEF ClusterQuiet, Together, Pull
<1>3. \A u \in Together(t)' : Load(t)'[u] = Load(t)[u]
  BY <1>2 DEF Load
<1>4. \A u \in Together(t) : Load(t)[u] \in Nat
  BY <1>1, LoadTyped
<1>5. IsFiniteSet(Together(t)) /\ Together(t)' \in SUBSET Together(t) /\ IsFiniteSet(Together(t)')
  BY <1>1, <1>2, HeldFinite, FS_Subset
<1> DEFINE f == Load(t)' g == Load(t) U == Together(t)' S == Together(t)
<1>6. /\ IsFiniteSet(S) /\ U \in SUBSET S /\ IsFiniteSet(U)
      /\ \A u \in S : g[u] \in Nat
      /\ \A u \in U : f[u] \in Int /\ f[u] <= g[u]
  BY <1>3, <1>4, <1>5
<1> HIDE DEF f, g, U, S
<1>7. SumFunctionOnSet(f, U) <= SumFunctionOnSet(g, S)
  BY <1>6, SumMonotone
<1>8. SumFunctionOnSet(f, U) \in Int /\ SumFunctionOnSet(g, S) \in Int
  BY <1>6, SumTyped
<1>9. pos'[t].weight = pos[t].weight /\ pos[t].weight \in Nat
  BY <1>1 DEF ClusterQuiet, TradeTypes, Position
<1>10. PICK w \in Nat : w = pos[t].weight * CorrUnit /\ w = pos'[t].weight * CorrUnit
  BY <1>9, FilterAssumption
<1>11. /\ Fits(t) <=> S = {} \/ w + SumFunctionOnSet(g, S) <= HeatLimit
       /\ Fits(t)' <=> U = {} \/ w + SumFunctionOnSet(f, U) <= HeatLimit
  BY <1>10 DEF Fits, S, U, f, g
<1>12. S = {} => U = {}
  BY <1>6
<1> QED
  BY <1>7, <1>8, <1>10, <1>11, <1>12, FilterAssumption

LEMMA RoomShrinks ==
  ASSUME TradeTypes, TradeTypes', TableTyped, ClusterQuiet, Room, pc' = "place"
  PROVE  Room'
<1>1. sig' = sig /\ alloc' = alloc /\ table' = table
  BY DEF ClusterQuiet
<1>2. \A u \in Held' : u \in Held /\ Share'[u] = Share[u]
  BY <1>1 DEF ClusterQuiet, Share, HeldRecord
<1>3. \A u \in Held : Share[u] \in Nat
  BY ShareTyped
<1>4. IsFiniteSet(Held) /\ Held' \in SUBSET Held /\ IsFiniteSet(Held')
  BY <1>2, HeldFinite, FS_Subset
<1> DEFINE f == Share' g == Share U == Held' S == Held
<1>5. /\ IsFiniteSet(S) /\ U \in SUBSET S /\ IsFiniteSet(U)
      /\ \A u \in S : g[u] \in Nat
      /\ \A u \in U : f[u] \in Int /\ f[u] <= g[u]
  BY <1>2, <1>3, <1>4
<1> HIDE DEF f, g, U, S
<1>6. SumFunctionOnSet(f, U) <= SumFunctionOnSet(g, S)
  BY <1>5, SumMonotone
<1>7. SumFunctionOnSet(f, U) \in Int /\ SumFunctionOnSet(g, S) \in Int
  BY <1>5, SumTyped
<1>8. Weight(sig.strat, sig.sym)' = Weight(sig.strat, sig.sym) /\ Weight(sig.strat, sig.sym) \in Nat
  BY <1>1, WeightTyped DEF Weight, TradeTypes
<1>9. PICK w \in Nat : /\ w = Weight(sig.strat, sig.sym) * CorrUnit
                       /\ w = Weight(sig.strat, sig.sym)' * CorrUnit
  BY <1>8, FilterAssumption
<1>10. /\ Room <=> S = {} \/ SumFunctionOnSet(g, S) + w <= HeatLimit
       /\ Room' <=> U = {} \/ SumFunctionOnSet(f, U) + w <= HeatLimit
  BY <1>9 DEF Room, S, U, f, g
<1>11. S = {} => U = {}
  BY <1>5
<1> QED
  BY <1>6, <1>7, <1>9, <1>10, <1>11, FilterAssumption

LEMMA QuietKeepsCluster ==
  ASSUME TradeTypes, TradeTypes', ClusterInv, ClusterQuiet
  PROVE  ClusterInv'
<1>1. TableTyped' /\ InOrder'
  <2>1. TableTyped /\ InOrder
    BY DEF ClusterInv
  <2>2. \A t \in Ticket : \A u \in 1..(t - 1) : u \in Ticket
    BY DeskAssumption DEF Ticket
  <2> QED
    BY <2>1, <2>2 DEF ClusterQuiet, TableTyped, InOrder
<1>2. WeightsBounded'
  <2>1. FullWeight \in Nat /\ WeightsBounded
    BY AllocatorAssumption DEF ClusterInv
  <2> QED
    BY <2>1 DEF ClusterQuiet, WeightsBounded, Weight
<1>3. CASE Held' = {}
  BY <1>1, <1>2, <1>3 DEF ClusterInv, Room
<1>4. CASE Held' # {}
  <2> SUFFICES ASSUME ~loose' PROVE (\A t \in Held' : Fits(t)') /\ (pc' = "place" => Room')
    BY <1>1, <1>2 DEF ClusterInv
  <2>1. ~loose
    BY <1>4 DEF ClusterQuiet
  <2>2. TableTyped /\ (\A t \in Held : Fits(t)) /\ (pc' = "place" => Room)
    BY <2>1 DEF ClusterInv, ClusterQuiet
  <2>3. \A t \in Held' : t \in Held
    BY DEF ClusterQuiet
  <2> QED
    BY <2>2, <2>3, FitsShrinks, RoomShrinks
<1> QED
  BY <1>3, <1>4

\* What the gate lets through, having seen all that is held, has room.
LEMMA GateMakesRoom ==
  ASSUME TradeTypes, TableTyped, NEW lots,
         Approved(HeldRecords, Weight(sig.strat, sig.sym), lots)
  PROVE  Room
<1> DEFINE w == Weight(sig.strat, sig.sym)
           h == [u \in Held |-> HeldRecord(u)]
           f == [r \in HeldRecords |-> Contribution(table, sig, r, FullWeight)]
<1>1. ThrottleApproves(table, sig, HeldRecords, FullWeight, w)
  BY DEF Approved
<1>2. HeldRecords = {h[u] : u \in Held}
  BY DEF HeldRecords, HeldRecord
<1>3. \A u \in Held : f[h[u]] = Share[u] /\ h[u].t = u
  BY <1>2 DEF Share, HeldRecord
<1>4. \A u \in Held : f[h[u]] \in Int
  BY <1>3, ShareTyped
<1>5. \A u, v \in Held : u # v => h[u] # h[v]
  BY <1>3
<1>6. CASE Held = {}
  BY <1>6 DEF Room
<1>7. CASE Held # {}
  <2>1. HeldRecords # {}
    BY <1>2, <1>7
  <2>2. SumFunctionOnSet(f, HeldRecords) + w * CorrUnit <= HeatLimit
    BY <1>1, <2>1 DEF ThrottleApproves, CorrelatedHeat
  <2>3. [u \in Held |-> f[h[u]]] = Share
    BY <1>3 DEF Share
  <2> HIDE DEF f, h
  <2>4. SumFunctionOnSet(f, {h[u] : u \in Held}) = SumFunctionOnSet([u \in Held |-> f[h[u]]], Held)
    BY <1>4, <1>5, HeldFinite, SumImage
  <2>5. SumFunctionOnSet(f, HeldRecords) = SumFunctionOnSet(Share, Held)
    BY <1>2, <2>3, <2>4
  <2> QED
    BY <2>2, <2>5 DEF Room
<1> QED
  BY <1>6, <1>7

LEMMA PlaceFits ==
  ASSUME TradeTypes, TradeTypes', ClusterInv, NEW t \in Ticket, Place(t)
  PROVE  ClusterInv'
<1> DEFINE w == Weight(sig.strat, sig.sym)
<1>1. /\ pos[t].st = "none" /\ pc = "place" /\ pc' = "note"
      /\ UNCHANGED <<table, alloc, sig, loose>>
      /\ \A u \in 1..(t - 1) : pos[u].st # "none"
      /\ pos'[t].st = "open" /\ pos'[t].sym = sig.sym /\ pos'[t].side = sig.side
      /\ pos'[t].weight = w
      /\ \A u \in Ticket \ {t} : pos'[u] = pos[u]
  BY DEF Place, stores, inHand, memory, history, TradeTypes
<1>2. Held' = Held \cup {t} /\ t \notin Held
  BY <1>1 DEF Held
<1>3. TableTyped' /\ InOrder' /\ WeightsBounded'
  <2>1. w <= FullWeight
    BY DEF ClusterInv, WeightsBounded, TradeTypes
  <2>2. WeightsBounded'
    BY <1>1, <1>2, <2>1 DEF ClusterInv, WeightsBounded, Weight, Held
  <2>3. TableTyped'
    BY <1>1 DEF ClusterInv, TableTyped
  <2>4. InOrder'
    <3> SUFFICES ASSUME NEW v \in Ticket, NEW u \in 1..(v - 1), pos'[v].st # "none"
                 PROVE  pos'[u].st # "none"
      BY DEF InOrder
    <3>1. u \in Ticket
      BY DeskAssumption DEF Ticket
    <3>2. CASE v = t
      BY <1>1, <3>1, <3>2, DeskAssumption DEF Ticket
    <3>3. CASE v # t
      <4>1. pos[u].st # "none"
        BY <1>1, <3>3 DEF ClusterInv, InOrder
      <4> QED
        BY <1>1, <3>1, <4>1
    <3> QED
      BY <3>2, <3>3
  <2> QED
    BY <2>2, <2>3, <2>4
<1> SUFFICES ASSUME ~loose' PROVE \A v \in Held' : Fits(v)'
  BY <1>1, <1>3 DEF ClusterInv
<1>4. Room /\ TableTyped /\ WeightsBounded /\ \A v \in Held : Fits(v)
  BY <1>1 DEF ClusterInv
<1>5. ASSUME NEW v \in Held PROVE Fits(v)'
  <2>1. v \in Ticket /\ v < t
    <3>1. ~(t \in 1..(v - 1))
      BY <1>1 DEF ClusterInv, InOrder, Held
    <3> QED
      BY <1>2, <3>1, DeskAssumption DEF Held, Ticket
  <2>2. pos'[v] = pos[v] /\ Together(v)' = Together(v)
    BY <1>1, <1>2, <2>1 DEF Together, Pull, Held, Ticket
  <2>3. \A u \in Together(v) : pos'[u] = pos[u]
    BY <1>1, <1>2 DEF Together, Held
  <2>4. Load(v)' = Load(v)
    BY <1>1, <2>2, <2>3 DEF Load, Pull
  <2> QED
    BY <1>4, <2>2, <2>4 DEF Fits
<1>6. Fits(t)'
  <2> DEFINE U == Together(t)' f == Load(t)'
  <2>1. \A u \in U : /\ u \in Held /\ pos'[u] = pos[u]
                     /\ Pull(u, pos[t].sym, pos[t].side)' = Pull(u, sig.sym, sig.side)
    BY <1>1, <1>2 DEF Together, Pull, Held, Ticket
  <2>2. \A u \in U : /\ Pull(u, sig.sym, sig.side) > 0 /\ Pull(u, sig.sym, sig.side) >= CorrFloor
                     /\ f[u] = pos[u].weight * Pull(u, sig.sym, sig.side)
    BY <2>1 DEF Together, Load
  <2>3. \A u \in U : f[u] <= Share[u]
    BY <1>4, <2>1, <2>2, ShareCovers
  <2>4. \A u \in U : f[u] \in Int
    <3> SUFFICES ASSUME NEW u \in U PROVE f[u] \in Int
      OBVIOUS
    <3>1. pos[u].weight \in Nat
      BY <2>1, HeldFinite DEF TradeTypes, Position
    <3>2. PICK c \in Int : c = Pull(u, sig.sym, sig.side)
      BY <1>4, PullTyped
    <3>3. f[u] = pos[u].weight * c /\ pos[u].weight * c \in Int
      BY <2>2, <3>1, <3>2
    <3> QED
      BY <3>3
  <2>5. U \in SUBSET Held /\ IsFiniteSet(Held) /\ IsFiniteSet(U)
    BY <2>1, HeldFinite, FS_Subset
  <2>6. \A u \in Held : Share[u] \in Nat
    BY <1>4, ShareTyped
  <2>7. U = {} \/ w * CorrUnit + SumFunctionOnSet(f, U) <= HeatLimit => Fits(t)'
    BY <1>1 DEF Fits
  <2> HIDE DEF U, f
  <2>8. SumFunctionOnSet(f, U) <= SumFunctionOnSet(Share, Held)
    BY <2>3, <2>4, <2>5, <2>6, SumMonotone
  <2>9. SumFunctionOnSet(f, U) \in Int /\ SumFunctionOnSet(Share, Held) \in Int
    BY <2>4, <2>5, <2>6, SumTyped
  <2>10. PICK n \in Int : n = w * CorrUnit
    <3>1. sig.strat \in Strategies /\ sig.sym \in Symbols
      BY DEF TradeTypes
    <3>2. w \in Nat
      BY <3>1, WeightTyped
    <3>3. w * CorrUnit \in Int
      BY <3>2, FilterAssumption
    <3> QED
      BY <3>3
  <2>11. Held = {} \/ SumFunctionOnSet(Share, Held) + n <= HeatLimit
    BY <1>4, <2>10 DEF Room
  <2>12. Held = {} => U = {}
    BY <2>5
  <2>13. PICK a \in Int, b \in Int : /\ a = SumFunctionOnSet(f, U) /\ a <= b
                                   /\ b = SumFunctionOnSet(Share, Held)
    BY <2>8, <2>9
  <2>14. U = {} \/ n + a <= HeatLimit
    BY <2>10, <2>11, <2>12, <2>13, FilterAssumption
  <2> QED
    BY <2>7, <2>10, <2>13, <2>14
<1> QED
  BY <1>2, <1>5, <1>6

LEMMA AllocateBounded ==
  ASSUME NEW y \in Symbols, NEW s \in Strategies
  PROVE  Allocate[y][s] <= FullWeight
<1> DEFINE scores == Scores(y)
<1>1. DOMAIN scores = Strategies
  BY DEF Scores
<1> HIDE DEF scores
<1>2. AllocateSymbol(scores)[s] <= FullWeight
  BY <1>1, AllocatorAssumption DEF AllocateSymbol
<1> QED
  BY <1>2 DEF Allocate, scores

LEMMA BookQuiet ==
  ASSUME TradeTypes, NEW t \in Ticket, NEW exit, Book(t, exit), pos[t].st = "open",
         UNCHANGED <<table, alloc, sig>>, pc' = pc \/ pc' = "manage"
  PROVE  ClusterQuiet
<1>1. pos'[t].st = "closed" /\ \A u \in Ticket \ {t} : pos'[u] = pos[u]
  <2>1. pos[t] \in Position /\ pos \in [Ticket -> Position]
    BY DEF TradeTypes
  <2> QED
    BY <2>1 DEF Book, Position, NoPosition
<1>2. Held' = Held \ {t}
  BY <1>1 DEF Held
<1>3. loose' = (loose /\ Held \ {t} # {})
  BY DEF Book
<1> QED
  BY <1>1, <1>2, <1>3 DEF ClusterQuiet, Held

LEMMA ClusterInit == Init => ClusterInv
<1> SUFFICES ASSUME Init PROVE ClusterInv
  OBVIOUS
<1>1. Held = {} /\ \A t \in Ticket : pos[t].st = "none"
  BY DEF Init, Held, NoPosition
<1>2. WeightsBounded
  BY <1>1, AllocatorAssumption DEF Init, WeightsBounded, Weight
<1>3. TableTyped
  BY DEF Init, TableTyped
<1>4. InOrder
  BY <1>1 DEF InOrder
<1> QED
  BY <1>1, <1>2, <1>3, <1>4 DEF Init, ClusterInv

LEMMA ClusterNext == TradeTypes /\ TradeTypes' /\ ClusterInv /\ [Next]_vars => ClusterInv'
<1> SUFFICES ASSUME TradeTypes, TradeTypes', ClusterInv, [Next]_vars PROVE ClusterInv'
  OBVIOUS
<1> USE DEF stores, memory, inHand, market
<1>0. ASSUME UNCHANGED <<pos, table, alloc>>, loose' = loose,
             pc' = "place" => pc = "place" /\ sig' = sig
      PROVE  ClusterInv'
  <2>1. ClusterQuiet
    BY <1>0 DEF ClusterQuiet, Held
  <2> QED
    BY <2>1, QuietKeepsCluster
<1>1. ASSUME NEW t \in Ticket, Trail(t) PROVE ClusterInv'
  <2> DEFINE p == pos[t]
             stop == ProposedStop(p.side, p.entry, p.stop, Peak(p.side, bar[p.sym]))
  <2>1. p \in Position /\ pos \in [Ticket -> Position]
    BY DEF TradeTypes
  <2> HIDE DEF stop
  <2>2. pos' = pos \/ pos' = [pos EXCEPT ![t] = [p EXCEPT !.stop = stop]]
    BY <1>1 DEF Trail, stop
  <2>3. \A u \in Ticket : /\ pos'[u].st = pos[u].st /\ pos'[u].sym = pos[u].sym
                          /\ pos'[u].side = pos[u].side /\ pos'[u].weight = pos[u].weight
    BY <2>1, <2>2 DEF Position
  <2>4. UNCHANGED <<table, alloc, loose>> /\ pc' # "place"
    BY <1>1 DEF Trail, history
  <2>5. ClusterQuiet
    BY <2>3, <2>4 DEF ClusterQuiet, Held
  <2> QED
    BY <2>5, QuietKeepsCluster
<1>2. CASE Trigger
  <2>1. pc' = "manage" /\ UNCHANGED <<table, alloc, sig>> /\ cur \in Ticket
    BY <1>2 DEF Trigger, TradeTypes
  <2>2. CASE UNCHANGED <<pos, loose>>
    BY <1>0, <2>1, <2>2
  <2>3. CASE ~UNCHANGED <<pos, loose>>
    <3>1. pos[cur].st = "open" /\ Book(cur, price[pos[cur].sym])
      BY <1>2, <2>3 DEF Trigger
    <3> QED
      BY <2>1, <3>1, BookQuiet, QuietKeepsCluster
  <2> QED
    BY <2>2, <2>3
<1>3. ASSUME NEW t \in Ticket, NEW exit, TradeCloses(t, exit) PROVE ClusterInv'
  <2>1. pos[t].st = "open" /\ Book(t, exit) /\ UNCHANGED <<table, alloc, sig, pc>>
    BY <1>3 DEF TradeCloses
  <2> QED
    BY <2>1, BookQuiet, QuietKeepsCluster
<1>4. CASE Refresh
  <2>1. pc' = "scan" /\ UNCHANGED pos /\ Held' = Held
    BY <1>4 DEF Refresh, Held
  <2>2. TableTyped'
    <3>1. table' = table \/ \E m \in Tables : table' = WithMatrix(table, m)
      BY <1>4 DEF Refresh, RefreshCorrelations
    <3> QED
      BY <3>1, DeskAssumption DEF ClusterInv, TableTyped, WithMatrix
  <2>3. WeightsBounded'
    <3>1. alloc' = alloc \/ alloc' = Allocate
      BY <1>4 DEF Refresh, RefreshAllocator
    <3> QED
      BY <2>1, <3>1, AllocateBounded, AllocatorAssumption DEF ClusterInv, WeightsBounded, Weight
  <2>4. ~loose' => Held' = {} \/ (~loose /\ table' = table)
    BY <1>4, <2>1 DEF Refresh, RefreshCorrelations
  <2>5. InOrder'
    BY <2>1 DEF ClusterInv, InOrder
  <2>6. ASSUME table' = table, NEW t \in Held, Fits(t) PROVE Fits(t)'
    BY <2>1, <2>6 DEF Fits, Load, Together, Pull
  <2> QED
    BY <2>1, <2>2, <2>3, <2>4, <2>5, <2>6 DEF ClusterInv
<1>5. CASE Gate
  <2>1. UNCHANGED <<pos, table, alloc>> /\ Held' = Held
    BY <1>5 DEF Gate, Refused, Dropped, Held
  <2>2. CASE pc' # "place"
    <3>1. loose' = loose
      BY <1>5, <2>2 DEF Gate
    <3> QED
      BY <1>0, <2>1, <2>2, <3>1
  <2>3. CASE pc' = "place"
    <3> DEFINE lots == Lots(sig.sym, Weight(sig.strat, sig.sym))
    <3>1. PICK held \in IF Can("blind") THEN {HeldRecords, {}} ELSE {HeldRecords} :
            /\ Approved(held, Weight(sig.strat, sig.sym), lots)
            /\ sig' = [sig EXCEPT !.lots = lots] /\ loose' = (loose \/ held # HeldRecords)
      BY <1>5, <2>3 DEF Gate, Refused, Dropped
    <3> HIDE DEF lots
    <3>2. sig'.sym = sig.sym /\ sig'.strat = sig.strat /\ sig'.side = sig.side
      BY <3>1 DEF TradeTypes
    <3>3. ~loose' => ~loose /\ Room
      <4>1. TableTyped
        BY DEF ClusterInv
      <4> QED
        BY <3>1, <4>1, GateMakesRoom
    <3>4. Room => Room'
      <4>1. Share' = Share
        BY <2>1, <3>2 DEF Share, HeldRecord, Contribution, Corr
      <4>2. Weight(sig.strat, sig.sym)' = Weight(sig.strat, sig.sym)
        BY <2>1, <3>2 DEF Weight
      <4> QED
        BY <2>1, <4>1, <4>2 DEF Room
    <3>5. ASSUME NEW t \in Held, Fits(t) PROVE Fits(t)'
      BY <2>1, <3>5 DEF Fits, Load, Together, Pull
    <3>6. WeightsBounded' /\ TableTyped' /\ InOrder'
      BY <2>1 DEF ClusterInv, WeightsBounded, TableTyped, InOrder, Weight
    <3> QED
      BY <2>1, <3>3, <3>4, <3>5, <3>6 DEF ClusterInv
  <2> QED
    BY <2>2, <2>3
<1>6. ASSUME NEW t \in Ticket, Place(t) PROVE ClusterInv'
  BY <1>6, PlaceFits
<1>7. CASE Restart
  <2>1. ClusterQuiet
    BY <1>7 DEF Restart, ClusterQuiet, Held
  <2> QED
    BY <2>1, QuietKeepsCluster
<1>8. ASSUME NEW s \in Strategies, NEW y \in Symbols, NEW side \in Sides,
             ScanSignal(s, y, side) \/ FilteredOut(s, y, side)
      PROVE  ClusterInv'
  BY <1>0, <1>8 DEF ScanSignal, FilteredOut, history
<1>9. CASE TickBegin \/ Observe \/ ScanDone \/ Note \/ PlaceRejected
  BY <1>0, <1>9 DEF TickBegin, Observe, ScanDone, Note, PlaceRejected, Dropped
<1>10. CASE HandleSignal
  BY <1>0, <1>10 DEF HandleSignal, Refused, Dropped, history
<1>11. ASSUME NEW y \in Symbols, NEW p \in 0..MaxPrice, PriceMoves(y, p)
       PROVE  ClusterInv'
  BY <1>0, <1>11 DEF PriceMoves, history
<1>12. ASSUME NEW f \in Feeds, Publish(f)
       PROVE  ClusterInv'
  BY <1>0, <1>12 DEF Publish, history
<1>13. ASSUME NEW s \in Strategies, Switch(s)
       PROVE  ClusterInv'
  BY <1>0, <1>13 DEF Switch, history
<1>14. CASE Minute \/ RefreshCalendar \/ UNCHANGED vars
  BY <1>0, <1>14 DEF Minute, RefreshCalendar, vars, history
<1> QED
  BY <1>1, <1>2, <1>3, <1>4, <1>5, <1>6, <1>7, <1>8, <1>9, <1>10, <1>11, <1>12, <1>13, <1>14
     DEF Next, BotStep, OtherStep

\* Positions closed under the gate's hands, reallocations, restarts and hedges change
\* nothing: unless a position came in blindly or the correlations changed, what moves with a
\* held position stays under the limit it was let in with.
THEOREM ClusterHolds == Spec => []ClusterCapped
<1>1. ClusterInv => ClusterCapped
  BY CappedIsFits DEF ClusterInv
<1> QED
  BY <1>1, TradeInit, TradeNext, ClusterInit, ClusterNext, PTL DEF Spec

=============================================================================
