--------------------------- MODULE TradingBotProofs ---------------------------
(***************************************************************************)
(* Theorems about TradingBot for every value of its constants.             *)
(***************************************************************************)
EXTENDS TradingBot, Sums

USE LimitsAssumption, BotAssumption

-----------------------------------------------------------------------------
(* Types.                                                                  *)

LEMMA DummiesTyped ==
  /\ NoSignal \in Signal
  /\ NoPosition \in Position
  /\ NoRow \in Row
BY DEF NoSignal, Signal, NoPosition, Position, NoRow, Row, Side, None

LEMMA RiskOpsTyped ==
  ASSUME NEW r, RiskTyped(r), NEW h, NEW p \in Int
  PROVE  /\ RiskTyped(RegisterOpened(r, h))
         /\ RiskTyped(RegisterClosed(r, h, p))
<1>1. RiskTyped(RegisterOpened(r, h))
  BY DEF RiskTyped, RiskRecord, RegisterOpened
<1>2. RiskTyped(RegisterClosed(r, h, p))
  BY DEF RiskTyped, RiskRecord, RegisterClosed, ClampAtZero
<1>3. QED
  BY <1>1, <1>2

LEMMA DailyResetTyped ==
  ASSUME NEW r, RiskTyped(r), NEW d \in 1..MaxDay
  PROVE  RiskTyped(DailyReset(r, d))
BY DEF RiskTyped, RiskRecord, DailyReset, Never

LEMMA FreshRiskTyped == RiskTyped(FreshRisk)
BY DEF RiskTyped, RiskRecord, FreshRisk, Never

\* The ticket in hand is a ticket wherever the loop uses it.
CurInHand == pc \in {"trigger", "closed", "filled"} => cur \in Ticket

\* A position that closes, is part closed, or moves its stop, is still a position.
LEMMA DealTyped ==
  ASSUME TypeOK, NEW t \in Ticket, NEW p \in Int
  PROVE  Deal(t, p) \in Position
<1>1. pos[t] \in Position /\ day \in 0..MaxDay
  BY DEF TypeOK
<1>2. QED
  BY <1>1 DEF Deal, Position

LEMMA PositionUpdates ==
  ASSUME TypeOK, NEW t \in Ticket, NEW p \in Int, NEW d \in Nat
  PROVE  /\ [pos EXCEPT ![t] = Deal(t, p)] \in [Ticket -> Position]
         /\ ClosesWith(t, p) => pos' \in [Ticket -> Position]
         /\ [pos EXCEPT ![t] = [pos[t] EXCEPT !.stop = d]] \in [Ticket -> Position]
<1>1. Deal(t, p) \in Position
  BY DealTyped
<1>2. [Deal(t, p) EXCEPT !.st = "closed"] \in Position
  BY <1>1 DEF Position
<1>3. [pos[t] EXCEPT !.stop = d] \in Position
  BY DEF TypeOK, Position
<1>4. QED
  BY <1>1, <1>2, <1>3 DEF ClosesWith, TypeOK

\* A close, the bot's or the broker's, closes an open position and touches no other.
LEMMA ClosingKeepsStatus ==
  ASSUME TypeOK, CloseRejected \/ CloseDone \/ (\E t \in Ticket : BrokerCloses(t))
  PROVE  /\ \A u \in Ticket : Placed(u) => Placed(u)'
         /\ \A u \in Ticket : pos'[u].st # "none" <=> pos[u].st # "none"
         /\ \A u \in Ticket : pos[u].st = "closed" => pos'[u].st = "closed"
<1>1. ASSUME NEW t \in Ticket, pos[t].st = "open", NEW p \in Pnls, ClosesWith(t, p)
      PROVE  /\ \A u \in Ticket : u # t => pos'[u] = pos[u]
             /\ pos'[t].st = "closed"
  <2>1. Deal(t, p) \in Position
    BY DealTyped, BotAssumption
  <2>2. [Deal(t, p) EXCEPT !.st = "closed"].st = "closed"
    BY <2>1 DEF Position
  <2>3. QED
    BY <1>1, <2>2 DEF ClosesWith, TypeOK
<1>2. \/ UNCHANGED pos
      \/ \E t \in Ticket : pos[t].st = "open" /\ \E p \in Pnls : ClosesWith(t, p)
  BY DEF CloseRejected, CloseDone, BrokerCloses, OpenOrders, OpenPositions
<1>3. QED
  BY <1>1, <1>2 DEF Placed

LEMMA CloseDoneCloses ==
  ASSUME TypeOK, CloseDone
  PROVE  cur \in Ticket /\ pos'[cur].st = "closed"
<1>1. PICK p \in Pnls : ClosesWith(cur, p)
  BY DEF CloseDone
<1>2. cur \in Ticket
  BY DEF CloseDone, OpenOrders, OpenPositions
<1>3. Deal(cur, p) \in Position
  BY <1>2, DealTyped, BotAssumption
<1>4. [Deal(cur, p) EXCEPT !.st = "closed"].st = "closed"
  BY <1>3 DEF Position
<1>5. QED
  BY <1>1, <1>2, <1>4 DEF ClosesWith, TypeOK

LEMMA RowUpdates ==
  ASSUME TypeOK, NEW t \in Ticket, NEW d \in Nat
  PROVE  /\ PatchStop(t, d) \in [Ticket -> Row]
         /\ Settle(t) => rows' \in [Ticket -> Row]
         /\ [rows EXCEPT ![t] = OpenRow(d)] \in [Ticket -> Row]
<1>1. rows \in [Ticket -> Row] /\ rows[t] \in Row /\ pos[t] \in Position
  BY DEF TypeOK
<1>2. [rows[t] EXCEPT !.risk = d] \in Row
  BY <1>1 DEF Row
<1>3. [st |-> "CLOSED", risk |-> rows[t].risk, pnl |-> pos[t].pnl, day |-> pos[t].day]
        \in Row
  BY <1>1 DEF Row, Position
<1>4. OpenRow(d) \in Row
  BY DEF Row, OpenRow
<1>5. QED
  BY <1>1, <1>2, <1>3, <1>4 DEF PatchStop, Settle

\* A trailing stop changes neither status nor key of a position, nor a row's status.
LEMMA TrailKeepsStatus ==
  ASSUME TypeOK, NEW t \in Ticket, Trail(t)
  PROVE  \A u \in Ticket : /\ pos'[u].st = pos[u].st /\ rows'[u].st = rows[u].st
                          /\ pos'[u].strat = pos[u].strat /\ pos'[u].sym = pos[u].sym
                          /\ pos'[u].bar = pos[u].bar
<1>1. CASE UNCHANGED <<pos, rows>>
  BY <1>1
<1>2. ASSUME NEW d \in TrailTo, NEW recorded,
             pos' = [pos EXCEPT ![t] = [pos[t] EXCEPT !.stop = d]],
             rows' = IF recorded THEN PatchStop(t, d) ELSE rows
      PROVE  \A u \in Ticket : /\ pos'[u].st = pos[u].st /\ rows'[u].st = rows[u].st
                              /\ pos'[u].strat = pos[u].strat /\ pos'[u].sym = pos[u].sym
                              /\ pos'[u].bar = pos[u].bar
  <2>1. pos[t] \in Position /\ rows[t] \in Row
    BY DEF TypeOK
  <2>2. \A u \in Ticket : rows'[u].st = rows[u].st
    BY <1>2, <2>1 DEF PatchStop, TypeOK, Row
  <2>3. \A u \in Ticket : /\ pos'[u].st = pos[u].st /\ pos'[u].strat = pos[u].strat
                         /\ pos'[u].sym = pos[u].sym /\ pos'[u].bar = pos[u].bar
    BY <1>2, <2>1 DEF TypeOK, Position
  <2>4. QED
    BY <2>2, <2>3
<1>3. QED
  BY <1>1, <1>2 DEF Trail

\* Placing an order fills in the broker's next free ticket.
LEMMA NextTicketFree ==
  ASSUME TypeOK, CanPlace
  PROVE  NextTicket \in Ticket /\ ~Placed(NextTicket)
BY DEF CanPlace, NextTicket

LEMMA FillTyped ==
  ASSUME TypeOK, CanPlace, NEW risk \in Fitted(sig.risk), Fill(NextTicket, risk)
  PROVE  pos' \in [Ticket -> Position] /\ risk \in Nat
<1>1. NextTicket \in Ticket
  BY NextTicketFree
<1>2. sig \in Signal /\ sig.risk \in Nat
  BY DEF TypeOK, Signal
<1>3. risk \in Nat
  BY <1>2 DEF Fitted
<1>4. lastBar[sig.sym] \in 0..MaxBar
  BY <1>2 DEF TypeOK, Signal
<1>5. QED
  BY <1>1, <1>2, <1>3, <1>4 DEF Fill, TypeOK, Position, Signal

LEMMA OpenRowsCount ==
  ASSUME TypeOK
  PROVE  /\ IsFiniteSet(OpenRows) /\ Cardinality(OpenRows) \in Nat
         /\ OpenRows \subseteq Ticket
<1>1. IsFiniteSet(Ticket)
  BY FS_Interval DEF Ticket
<1>2. OpenRows \in SUBSET Ticket
  BY DEF OpenRows
<1>3. QED
  BY <1>1, <1>2, FS_Subset, FS_CardinalityType

LEMMA NextStrategyTyped == TypeOK /\ NextStrategy => pc' \in PCs /\ sig' \in Signal
<1> SUFFICES ASSUME TypeOK, NextStrategy PROVE pc' \in PCs /\ sig' \in Signal
  OBVIOUS
<1>1. sig.sym \in Symbols
  BY DEF TypeOK, Signal
<1>2. [NoSignal EXCEPT !.sym = sig.sym] \in Signal
  BY <1>1, DummiesTyped DEF Signal, NoSignal
<1>3. QED
  BY <1>2 DEF NextStrategy, PCs

\* The two ways back to the start of the loop reset it to typed values.
LEMMA ResetsTyped ==
  ASSUME TypeOK
  PROVE  /\ EndTick => /\ pc' \in PCs /\ todo' \in SUBSET Ticket
                       /\ cur' \in Ticket \cup {None} /\ symsLeft' \in SUBSET Symbols
                       /\ stratsLeft' \in SUBSET Strategies /\ sig' \in Signal
                       /\ CurInHand'
         /\ LoseMemory => /\ pc' \in PCs /\ todo' \in SUBSET Ticket
                          /\ cur' \in Ticket \cup {None} /\ symsLeft' \in SUBSET Symbols
                          /\ stratsLeft' \in SUBSET Strategies /\ sig' \in Signal
                          /\ RiskTyped(rs') /\ lastBar' \in [Symbols -> 0..MaxBar]
                          /\ cooldown' \in SUBSET Ticket /\ sinceSync' \in 0..ReconcileTicks
                          /\ CurInHand'
BY DummiesTyped, FreshRiskTyped DEF EndTick, LoseMemory, PCs, CurInHand, None

LEMMA InitTyped == Init => TypeOK /\ CurInHand
<1> SUFFICES ASSUME Init PROVE TypeOK /\ CurInHand
  OBVIOUS
<1>1. /\ connected \in BOOLEAN /\ pos \in [Ticket -> Position] /\ deal \in SUBSET Ticket
      /\ bar \in [Symbols -> 1..MaxBar] /\ day \in 1..MaxDay
      /\ rows \in [Ticket -> Row] /\ dedup \in [Strategies \X Symbols -> 0..MaxBar]
  BY DummiesTyped DEF Init, None
<1>2. shouldRun \in BOOLEAN /\ killed \in BOOLEAN /\ pc \in PCs /\ RiskTyped(rs) /\ CurInHand
  BY FreshRiskTyped DEF Init, PCs, CurInHand
<1>3. /\ lastBar \in [Symbols -> 0..MaxBar] /\ cooldown \in SUBSET Ticket
      /\ sinceSync \in 0..ReconcileTicks /\ todo \in SUBSET Ticket
      /\ cur \in Ticket \cup {None} /\ symsLeft \in SUBSET Symbols
      /\ stratsLeft \in SUBSET Strategies /\ sig \in Signal
  BY DummiesTyped DEF Init, None
<1>4. QED
  BY <1>1, <1>2, <1>3 DEF TypeOK

\* Every step keeps the state typed and a ticket in the hand that uses one.
LEMMA StepTyped == TypeOK /\ CurInHand /\ [Next]_vars => TypeOK' /\ CurInHand'
<1> SUFFICES ASSUME TypeOK, CurInHand, [Next]_vars PROVE TypeOK' /\ CurInHand'
  OBVIOUS
<1> USE DEF CurInHand
<1>1. CASE StartBot
  <2>1. PICK readable \in Succeeds("storeFails"), balance \in Succeeds("disconnect") :
          LET seeded == IF readable THEN OpenRows ELSE {} IN
          rs' = RiskRecord(Cardinality(seeded),
                           IF balance THEN SumFunctionOnSet(RowRisk, seeded) ELSE 0,
                           FreshRisk.pnl, FreshRisk.reset)
    BY <1>1 DEF StartBot
  <2>2. Cardinality(IF readable THEN OpenRows ELSE {}) \in Nat
    BY OpenRowsCount, FS_EmptySet
  <2>3. RiskTyped(rs')
    BY <2>1, <2>2 DEF RiskTyped, RiskRecord, FreshRisk, Never
  <2>4. QED
    BY <1>1, <2>3 DEF StartBot, TypeOK, PCs, broker, clock, store, flags, loops
<1>2. CASE TickBegin
  BY <1>2, ResetsTyped DEF TypeOK, PCs, TickBegin, broker, clock, store,
     flags, loops, memory, OpenOrders, OpenPositions
<1>3. ASSUME NEW t \in Ticket, Trail(t) PROVE TypeOK' /\ CurInHand'
  <2>1. CASE UNCHANGED <<pos, rows>>
    BY <1>3, <2>1 DEF Trail, TypeOK, PCs, clock, flags, memory
  <2>2. ASSUME NEW d \in TrailTo, NEW recorded,
               pos' = [pos EXCEPT ![t] = [pos[t] EXCEPT !.stop = d]],
               rows' = IF recorded THEN PatchStop(t, d) ELSE rows
        PROVE  TypeOK' /\ CurInHand'
    <3>1. d \in Nat
      OBVIOUS
    <3>2. pos' \in [Ticket -> Position] /\ rows' \in [Ticket -> Row]
      BY <2>2, <3>1, PositionUpdates, RowUpdates DEF TypeOK
    <3>3. QED
      BY <1>3, <3>2 DEF Trail, TypeOK, PCs, clock, flags, memory
  <2>3. QED
    BY <1>3, <2>1, <2>2 DEF Trail
<1>4. CASE LeaveOpen
  BY <1>4 DEF TypeOK, PCs, LeaveOpen, broker, clock, store, flags, loops,
     memory, None
<1>5. CASE CloseRejected
  BY <1>5, PositionUpdates DEF TypeOK, PCs, CloseRejected, broker, clock,
     store, flags, loops, memory, None
<1>6. CASE CloseDone
  BY <1>6, PositionUpdates DEF TypeOK, PCs, CloseDone, broker, clock, store,
     flags, loops, memory, OpenOrders, OpenPositions
<1>7. CASE BookClose
  <2>1. cur \in Ticket /\ pos[cur].pnl \in Int
    BY <1>7 DEF BookClose, TypeOK, Position
  <2>2. rows' \in [Ticket -> Row]
    BY <1>7, <2>1, RowUpdates DEF BookClose
  <2>3. RiskTyped(rs')
    BY <1>7, <2>1, RiskOpsTyped DEF BookClose, TypeOK
  <2>4. QED
    BY <1>7, <2>2, <2>3 DEF BookClose, TypeOK, PCs, None, broker, clock, flags
<1>8. CASE BookCloseFails
  BY <1>8, ResetsTyped DEF TypeOK, PCs, BookCloseFails, broker, clock,
     store, flags, loops, memory
<1>9. CASE ManageAborts
  BY <1>9, ResetsTyped DEF TypeOK, PCs, ManageAborts, broker, clock, store,
     flags, loops, memory
<1>10. CASE Sync
  BY <1>10 DEF TypeOK, PCs, Sync, broker, clock, store, flags, loops,
     memory, OpenRows
<1>11. ASSUME NEW t \in Ticket, ReconcileRow(t) PROVE TypeOK' /\ CurInHand'
  <2>1. pos[t].pnl \in Int
    BY DEF TypeOK, Position
  <2>2. rows' \in [Ticket -> Row]
    BY <1>11, RowUpdates DEF ReconcileRow, TypeOK
  <2>3. RiskTyped(rs')
    BY <1>11, <2>1, RiskOpsTyped DEF ReconcileRow, TypeOK
  <2>4. QED
    BY <1>11, <2>2, <2>3 DEF ReconcileRow, TypeOK, PCs, broker, clock, flags
<1>12. CASE ReconcileDone
  BY <1>12 DEF TypeOK, PCs, ReconcileDone, broker, clock, store, flags,
     loops, memory
<1>13. ASSUME NEW y \in Symbols, SkipSymbol(y) PROVE TypeOK' /\ CurInHand'
  BY <1>13 DEF TypeOK, PCs, SkipSymbol, broker, clock, store, flags, loops,
     memory
<1>14. ASSUME NEW y \in Symbols, ScanSymbol(y) PROVE TypeOK' /\ CurInHand'
  BY <1>14 DEF TypeOK, PCs, ScanSymbol, broker, clock, store, flags, loops,
     memory, Signal
<1>15. CASE ScanDone
  BY <1>15, ResetsTyped DEF TypeOK, PCs, ScanDone, broker, clock, store,
     flags, loops, memory
<1>16. ASSUME NEW s \in Strategies, StrategyQuiet(s) PROVE TypeOK' /\ CurInHand'
  BY <1>16 DEF TypeOK, PCs, StrategyQuiet, broker, clock, store, flags,
     loops, memory
<1>17. ASSUME NEW s \in Strategies, SignalSeen(s) PROVE TypeOK' /\ CurInHand'
  BY <1>17 DEF TypeOK, PCs, SignalSeen, broker, clock, store, flags, loops,
     memory, Remember, Signal
<1>18. ASSUME NEW s \in Strategies, SignalTaken(s) PROVE TypeOK' /\ CurInHand'
  BY <1>18 DEF TypeOK, PCs, SignalTaken, broker, clock, store, flags, loops,
     memory, Remember, Signal
<1>19. CASE StrategiesDone
  BY <1>19, DummiesTyped DEF TypeOK, PCs, StrategiesDone, broker, clock,
     store, flags, loops, memory
<1>20. CASE Guard
  BY <1>20, NextStrategyTyped DEF TypeOK, PCs, Guard, broker, clock, store,
     flags, loops, memory, NextStrategy
<1>21. CASE Evaluate
  <2>1. RiskTyped(rs')
    BY <1>21, DailyResetTyped DEF Evaluate, TypeOK
  <2>2. CASE NextStrategy
    <3>1. pc' \in PCs /\ sig' \in Signal /\ CurInHand'
      BY <2>2, NextStrategyTyped DEF NextStrategy
    <3>2. QED
      BY <1>21, <2>1, <3>1 DEF Evaluate, TypeOK, broker, clock, store, flags
  <2>3. CASE \E risk \in Weights : pc' = "place" /\ sig' = [sig EXCEPT !.risk = risk]
    <3>1. sig' \in Signal
      BY <2>3 DEF TypeOK, Signal
    <3>2. QED
      BY <1>21, <2>1, <2>3, <3>1 DEF Evaluate, TypeOK, PCs, broker, clock, store, flags
  <2>4. QED
    BY <1>21, <2>2, <2>3 DEF Evaluate
<1>22. CASE BalanceFails
  BY <1>22, ResetsTyped DEF TypeOK, PCs, BalanceFails, broker, clock, store,
     flags, loops, memory
<1>23. CASE PlaceRejected
  BY <1>23, NextStrategyTyped, FillTyped DEF TypeOK, PCs, PlaceRejected,
     broker, clock, store, flags, loops, memory, NextStrategy
<1>24. CASE PlaceDone
  BY <1>24, FillTyped, NextTicketFree DEF TypeOK, PCs, PlaceDone, broker,
     clock, store, flags, loops, memory
<1>25. CASE RecordOpen
  <2>1. cur \in Ticket /\ pos[cur].risk \in Nat
    BY <1>25 DEF RecordOpen, TypeOK, Position
  <2>2. rows' \in [Ticket -> Row]
    BY <1>25, <2>1, RowUpdates DEF RecordOpen
  <2>3. RiskTyped(rs')
    BY <1>25, RiskOpsTyped DEF RecordOpen, TypeOK
  <2>4. pc' \in PCs /\ sig' \in Signal /\ CurInHand'
    BY <1>25, NextStrategyTyped DEF RecordOpen, NextStrategy
  <2>5. QED
    BY <1>25, <2>2, <2>3, <2>4 DEF RecordOpen, TypeOK, None, broker, clock, flags
<1>26. CASE RecordOpenFails
  BY <1>26, ResetsTyped DEF TypeOK, PCs, RecordOpenFails, broker, clock,
     store, flags, loops, memory
<1>27. CASE Crash
  BY <1>27, ResetsTyped DEF TypeOK, PCs, Crash, broker, clock, store, flags,
     loops, memory
<1>28. ASSUME NEW t \in Ticket, BrokerCloses(t) PROVE TypeOK' /\ CurInHand'
  BY <1>28, PositionUpdates DEF TypeOK, PCs, BrokerCloses, broker, clock,
     store, flags, loops, memory
<1>29. ASSUME NEW t \in Ticket, PartialClose(t) PROVE TypeOK' /\ CurInHand'
  <2>1. PICK pnl \in Pnls : pos' = [pos EXCEPT ![t] = Deal(t, pnl)]
    BY <1>29 DEF PartialClose
  <2>2. pos' \in [Ticket -> Position]
    BY <2>1, PositionUpdates
  <2>3. QED
    BY <1>29, <2>2 DEF TypeOK, PartialClose, clock, store, flags, loops, memory
<1>30. ASSUME NEW t \in Ticket, DealLands(t) PROVE TypeOK' /\ CurInHand'
  BY <1>30 DEF TypeOK, PCs, DealLands, broker, clock, store, flags, loops,
     memory
<1>31. CASE Connection
  BY <1>31 DEF TypeOK, PCs, Connection, broker, clock, store, flags, loops,
     memory
<1>32. ASSUME NEW y \in Symbols, NewBar(y) PROVE TypeOK' /\ CurInHand'
  BY <1>32 DEF TypeOK, PCs, NewBar, broker, clock, store, flags, loops,
     memory
<1>33. CASE Midnight
  BY <1>33 DEF TypeOK, PCs, Midnight, broker, clock, store, flags, loops,
     memory
<1>34. ASSUME NEW t \in Ticket, CooldownExpires(t) PROVE TypeOK' /\ CurInHand'
  BY <1>34 DEF TypeOK, PCs, CooldownExpires, broker, clock, store, flags,
     loops, memory
<1>35. CASE Operate
  BY <1>35 DEF TypeOK, PCs, Operate, broker, clock, store, flags, loops,
     memory
<1>36. CASE UNCHANGED vars
  BY <1>36 DEF TypeOK, vars, broker, clock, store, flags, loops, memory
<1>37. QED
  BY <1>1, <1>2, <1>3, <1>4, <1>5, <1>6, <1>7, <1>8, <1>9, <1>10, <1>11,
     <1>12, <1>13, <1>14, <1>15, <1>16, <1>17, <1>18, <1>19, <1>20, <1>21,
     <1>22, <1>23, <1>24, <1>25, <1>26, <1>27, <1>28, <1>29, <1>30, <1>31,
     <1>32, <1>33, <1>34, <1>35, <1>36 DEF Next, BotStep, BrokerStep,
     OtherStep

\* The bot's state has its types for every set of strategies, symbols and faults.
THEOREM TypeCorrect == Spec => []TypeOK
<1>1. Init => TypeOK /\ CurInHand
  BY InitTyped
<1>2. TypeOK /\ CurInHand /\ [Next]_vars => TypeOK' /\ CurInHand'
  BY StepTyped
<1>3. QED
  BY <1>1, <1>2, PTL DEF Spec

-----------------------------------------------------------------------------
(* The gate's counter never exceeds the open rows.                         *)

\* A journal row is written only for a position that was placed...
RowsHavePositions == \A t \in Ticket : rows[t].st # "none" => Placed(t)

\* ... and a position just filled has none yet.
FilledIsNew == pc = "filled" => Placed(cur) /\ rows[cur].st = "none"

Ledger == RowsHavePositions /\ FilledIsNew /\ NoPhantomExposure

\* Settling a row and giving its slot back, in whichever order.
LEMMA OneFewerRow ==
  ASSUME TypeOK, NoPhantomExposure, NEW t
  PROVE  ClampAtZero(rs.count - 1) <= Cardinality(OpenRows \ {t})
<1>1. Cardinality(OpenRows \ {t}) =
        IF t \in OpenRows THEN Cardinality(OpenRows) - 1 ELSE Cardinality(OpenRows)
  BY OpenRowsCount, FS_RemoveElement
<1>2. Cardinality(OpenRows \ {t}) \in Nat
  BY OpenRowsCount, FS_RemoveElement, FS_CardinalityType
<1>3. rs.count \in Nat
  BY DEF TypeOK, RiskTyped
<1>4. QED
  BY <1>1, <1>2, <1>3, OpenRowsCount DEF NoPhantomExposure, ClampAtZero

LEMMA StepLedger == TypeOK /\ CurInHand /\ Ledger /\ [Next]_vars => Ledger'
<1> SUFFICES ASSUME TypeOK, CurInHand, Ledger, [Next]_vars PROVE Ledger'
  OBVIOUS
<1>0. RowsHavePositions /\ FilledIsNew /\ NoPhantomExposure
  BY DEF Ledger
<1>1. CASE StartBot
  <2>1. PICK readable \in Succeeds("storeFails"), balance \in Succeeds("disconnect") :
          rs'.count = Cardinality(IF readable THEN OpenRows ELSE {})
    BY <1>1 DEF StartBot, RiskRecord
  <2>2. rs'.count <= Cardinality(OpenRows)
    BY <2>1, OpenRowsCount, FS_EmptySet
  <2>3. QED
    <3>1. pc' = "idle" /\ UNCHANGED <<pos, rows>>
      BY <1>1 DEF StartBot, broker, store
    <3>2. OpenRows' = OpenRows
      BY <3>1 DEF OpenRows
    <3>3. QED
      BY <1>0, <2>2, <3>1, <3>2
         DEF Ledger, RowsHavePositions, FilledIsNew, NoPhantomExposure, Placed
<1>2. CASE TickBegin
  <2>1. CASE KillSeen
    <3>1. rs'.count = 0 /\ pc' = "down" /\ UNCHANGED <<pos, rows>>
      BY <1>2, <2>1 DEF TickBegin, LoseMemory, FreshRisk, broker, store
    <3>2. QED
      BY <3>1, OpenRowsCount
         DEF Ledger, RowsHavePositions, FilledIsNew, NoPhantomExposure, OpenRows, Placed
  <2>2. CASE ~KillSeen
    BY <1>2, <2>2 DEF TickBegin, Ledger, RowsHavePositions, FilledIsNew, NoPhantomExposure,
                      OpenRows, Placed, broker, store
  <2>3. QED
    BY <2>1, <2>2
<1>3. ASSUME NEW t \in Ticket, Trail(t) PROVE Ledger'
  <2>1. \A u \in Ticket : pos'[u].st = pos[u].st /\ rows'[u].st = rows[u].st
    BY <1>3, TrailKeepsStatus
  <2>2. OpenRows' = OpenRows
    BY <2>1 DEF OpenRows
  <2>3. QED
    <3>1. pc' = "trigger" /\ rs' = rs
      BY <1>3 DEF Trail, memory
    <3>2. QED
      BY <1>0, <2>1, <2>2, <3>1
         DEF Ledger, RowsHavePositions, FilledIsNew, NoPhantomExposure, Placed
<1>4. CASE LeaveOpen
  BY <1>4 DEF LeaveOpen, broker, clock, store, flags, memory, Ledger,
     RowsHavePositions, FilledIsNew, NoPhantomExposure, OpenRows, Placed
<1>5. CASE CloseRejected
  <2>1. \A u \in Ticket : Placed(u) => Placed(u)'
    BY <1>5, ClosingKeepsStatus
  <2>2. pc' # "filled" /\ UNCHANGED <<rows, rs>>
    BY <1>5 DEF CloseRejected, store, memory
  <2>3. QED
    BY <1>0, <2>1, <2>2
       DEF Ledger, RowsHavePositions, FilledIsNew, NoPhantomExposure, OpenRows
<1>6. CASE CloseDone
  <2>1. \A u \in Ticket : Placed(u) => Placed(u)'
    BY <1>6, ClosingKeepsStatus
  <2>2. pc' # "filled" /\ UNCHANGED <<rows, rs>>
    BY <1>6 DEF CloseDone, store, memory
  <2>3. QED
    BY <1>0, <2>1, <2>2
       DEF Ledger, RowsHavePositions, FilledIsNew, NoPhantomExposure, OpenRows
<1>7. CASE BookClose
  <2>1. cur \in Ticket /\ pos' = pos /\ pc' = "manage"
    BY <1>7 DEF BookClose, CurInHand, broker
  <2>2. \A u \in Ticket : rows'[u].st # "none" => rows[u].st # "none"
    BY <1>7, <2>1 DEF BookClose, Settle, TypeOK
  <2>3. OpenRows' = OpenRows \ {cur}
    BY <1>7, <2>1 DEF BookClose, Settle, OpenRows, TypeOK
  <2>4. rs'.count = ClampAtZero(rs.count - 1)
    BY <1>7 DEF BookClose, RegisterClosed, RiskRecord
  <2>5. NoPhantomExposure'
    <3>1. rs'.count <= Cardinality(OpenRows \ {cur})
      BY <1>0, <2>4, OneFewerRow
    <3>2. QED
      BY <2>3, <3>1 DEF NoPhantomExposure
  <2>6. QED
    BY <1>0, <2>1, <2>2, <2>5 DEF Ledger, RowsHavePositions, FilledIsNew, Placed
<1>8. CASE BookCloseFails
  BY <1>8 DEF BookCloseFails, broker, clock, store, flags, Ledger,
     RowsHavePositions, FilledIsNew, NoPhantomExposure, OpenRows, Placed,
     EndTick
<1>9. CASE ManageAborts
  BY <1>9 DEF ManageAborts, broker, clock, store, flags, memory, Ledger,
     RowsHavePositions, FilledIsNew, NoPhantomExposure, OpenRows, Placed,
     EndTick
<1>10. CASE Sync
  BY <1>10 DEF Sync, broker, clock, store, flags, Ledger, RowsHavePositions,
     FilledIsNew, NoPhantomExposure, OpenRows, Placed
<1>11. ASSUME NEW t \in Ticket, ReconcileRow(t) PROVE Ledger'
  <2>1. pos' = pos /\ pc' = "reconcile"
    BY <1>11 DEF ReconcileRow, broker
  <2>2. CASE UNCHANGED <<rows, rs>>
    BY <1>0, <2>1, <2>2
       DEF Ledger, RowsHavePositions, FilledIsNew, NoPhantomExposure, OpenRows, Placed
  <2>3. CASE Settle(t) /\ rs'.count = ClampAtZero(rs.count - 1)
    <3>1. \A u \in Ticket : rows'[u].st # "none" => rows[u].st # "none"
      BY <2>3 DEF Settle, TypeOK
    <3>2. OpenRows' = OpenRows \ {t}
      BY <2>3 DEF Settle, OpenRows, TypeOK
    <3>3. NoPhantomExposure'
      <4>1. rs'.count <= Cardinality(OpenRows \ {t})
        BY <1>0, <2>3, OneFewerRow
      <4>2. QED
        BY <3>2, <4>1 DEF NoPhantomExposure
    <3>4. QED
      BY <1>0, <2>1, <3>1, <3>3 DEF Ledger, RowsHavePositions, FilledIsNew, Placed
  <2>4. QED
    BY <1>11, <2>2, <2>3 DEF ReconcileRow, RegisterClosed, RiskRecord
<1>12. CASE ReconcileDone
  BY <1>12 DEF ReconcileDone, broker, clock, store, flags, memory, Ledger,
     RowsHavePositions, FilledIsNew, NoPhantomExposure, OpenRows, Placed
<1>13. ASSUME NEW y \in Symbols, SkipSymbol(y) PROVE Ledger'
  BY <1>13 DEF SkipSymbol, broker, clock, store, flags, memory, Ledger,
     RowsHavePositions, FilledIsNew, NoPhantomExposure, OpenRows, Placed
<1>14. ASSUME NEW y \in Symbols, ScanSymbol(y) PROVE Ledger'
  BY <1>14 DEF ScanSymbol, broker, clock, store, flags, Ledger,
     RowsHavePositions, FilledIsNew, NoPhantomExposure, OpenRows, Placed
<1>15. CASE ScanDone
  BY <1>15 DEF ScanDone, broker, clock, store, flags, memory, Ledger,
     RowsHavePositions, FilledIsNew, NoPhantomExposure, OpenRows, Placed,
     EndTick
<1>16. ASSUME NEW s \in Strategies, StrategyQuiet(s) PROVE Ledger'
  BY <1>16 DEF StrategyQuiet, broker, clock, store, flags, memory, Ledger,
     RowsHavePositions, FilledIsNew, NoPhantomExposure, OpenRows, Placed
<1>17. ASSUME NEW s \in Strategies, SignalSeen(s) PROVE Ledger'
  BY <1>17 DEF SignalSeen, broker, clock, flags, memory, Ledger,
     RowsHavePositions, FilledIsNew, NoPhantomExposure, OpenRows, Placed
<1>18. ASSUME NEW s \in Strategies, SignalTaken(s) PROVE Ledger'
  BY <1>18 DEF SignalTaken, broker, clock, flags, memory, Ledger,
     RowsHavePositions, FilledIsNew, NoPhantomExposure, OpenRows, Placed
<1>19. CASE StrategiesDone
  BY <1>19 DEF StrategiesDone, broker, clock, store, flags, memory, Ledger,
     RowsHavePositions, FilledIsNew, NoPhantomExposure, OpenRows, Placed
<1>20. CASE Guard
  BY <1>20 DEF Guard, broker, clock, store, flags, memory, Ledger,
     RowsHavePositions, FilledIsNew, NoPhantomExposure, OpenRows, Placed,
     NextStrategy
<1>21. CASE Evaluate
  <2>1. rs'.count = rs.count /\ pc' # "filled" /\ UNCHANGED <<pos, rows>>
    BY <1>21 DEF Evaluate, DailyReset, RiskRecord, NextStrategy, broker, store
  <2>2. QED
    BY <1>0, <2>1
       DEF Ledger, RowsHavePositions, FilledIsNew, NoPhantomExposure, OpenRows, Placed
<1>22. CASE BalanceFails
  BY <1>22 DEF BalanceFails, broker, clock, store, flags, memory, Ledger,
     RowsHavePositions, FilledIsNew, NoPhantomExposure, OpenRows, Placed,
     EndTick
<1>23. CASE PlaceRejected
  <2>1. \A u \in Ticket : Placed(u) => Placed(u)'
    BY <1>23, NextTicketFree DEF PlaceRejected, Fill, TypeOK, Placed
  <2>2. pc' # "filled" /\ UNCHANGED <<rows, rs>>
    BY <1>23 DEF PlaceRejected, NextStrategy, store, memory
  <2>3. QED
    BY <1>0, <2>1, <2>2
       DEF Ledger, RowsHavePositions, FilledIsNew, NoPhantomExposure, OpenRows
<1>24. CASE PlaceDone
  <2>1. PICK risk \in Fitted(sig.risk) : Fill(NextTicket, risk)
    BY <1>24 DEF PlaceDone
  <2>2. NextTicket \in Ticket /\ ~Placed(NextTicket)
    BY <1>24, NextTicketFree DEF PlaceDone
  <2>3. /\ pos'[NextTicket].st # "none"
        /\ \A u \in Ticket : Placed(u) => Placed(u)'
    BY <2>1, <2>2 DEF Fill, TypeOK, Placed
  <2>4. pc' = "filled" /\ cur' = NextTicket /\ UNCHANGED <<rows, rs>>
    BY <1>24 DEF PlaceDone, store, memory
  <2>5. rows[NextTicket].st = "none"
    BY <2>2 DEF Ledger, RowsHavePositions
  <2>6. QED
    BY <1>0, <2>2, <2>3, <2>4, <2>5
       DEF Ledger, RowsHavePositions, FilledIsNew, NoPhantomExposure, OpenRows, Placed
<1>25. CASE RecordOpen
  <2>1. /\ cur \in Ticket /\ Placed(cur) /\ rows[cur].st = "none"
        /\ pos' = pos /\ pc' = "strategies"
    BY <1>25 DEF RecordOpen, NextStrategy, CurInHand, Ledger, FilledIsNew, broker
  <2>2. rows' = [rows EXCEPT ![cur] = OpenRow(pos[cur].risk)]
    BY <1>25 DEF RecordOpen
  <2>3. rs'.count = rs.count + 1
    BY <1>25 DEF RecordOpen, RegisterOpened, RiskRecord
  <2>4. RowsHavePositions' /\ FilledIsNew'
    BY <2>1, <2>2 DEF Ledger, RowsHavePositions, FilledIsNew, Placed, TypeOK
  <2>5. OpenRows' = OpenRows \cup {cur} /\ cur \notin OpenRows
    BY <2>1, <2>2 DEF OpenRows, OpenRow, TypeOK
  <2>6. Cardinality(OpenRows') = Cardinality(OpenRows) + 1
    BY <2>5, OpenRowsCount, FS_AddElement
  <2>7. NoPhantomExposure'
    BY <2>3, <2>6, OpenRowsCount DEF Ledger, NoPhantomExposure, TypeOK, RiskTyped
  <2>8. QED
    BY <2>4, <2>7 DEF Ledger
<1>26. CASE RecordOpenFails
  BY <1>26 DEF RecordOpenFails, broker, clock, store, flags, memory, Ledger,
     RowsHavePositions, FilledIsNew, NoPhantomExposure, OpenRows, Placed,
     EndTick
<1>27. CASE Crash
  <2>1. rs'.count = 0 /\ pc' = "down" /\ UNCHANGED <<pos, rows>>
    BY <1>27 DEF Crash, LoseMemory, FreshRisk, broker, store
  <2>2. OpenRows' = OpenRows
    BY <2>1 DEF OpenRows
  <2>3. QED
    BY <2>1, <2>2, OpenRowsCount
       DEF Ledger, RowsHavePositions, FilledIsNew, NoPhantomExposure, Placed
<1>28. ASSUME NEW t \in Ticket, BrokerCloses(t) PROVE Ledger'
  <2>1. \A u \in Ticket : pos'[u].st # "none" <=> pos[u].st # "none"
    BY <1>28, ClosingKeepsStatus
  <2>2. UNCHANGED <<rows, rs, pc, cur>>
    BY <1>28 DEF BrokerCloses, store, memory, loops
  <2>3. QED
    BY <2>1, <2>2 DEF Ledger, RowsHavePositions, FilledIsNew, NoPhantomExposure, OpenRows,
                      Placed, CurInHand
<1>29. ASSUME NEW t \in Ticket, PartialClose(t) PROVE Ledger'
  <2>1. \A u \in Ticket : pos'[u].st # "none" <=> pos[u].st # "none"
    BY <1>29 DEF PartialClose, ClosesWith, Deal, TypeOK
  <2>2. UNCHANGED <<rows, rs, pc, cur>>
    BY <1>29 DEF PartialClose, store, memory, loops
  <2>3. QED
    BY <2>1, <2>2 DEF Ledger, RowsHavePositions, FilledIsNew, NoPhantomExposure, OpenRows,
                      Placed, CurInHand
<1>30. ASSUME NEW t \in Ticket, DealLands(t) PROVE Ledger'
  BY <1>30 DEF DealLands, clock, store, flags, loops, memory, Ledger,
     RowsHavePositions, FilledIsNew, NoPhantomExposure, OpenRows, Placed
<1>31. CASE Connection
  BY <1>31 DEF Connection, clock, store, flags, loops, memory, Ledger,
     RowsHavePositions, FilledIsNew, NoPhantomExposure, OpenRows, Placed
<1>32. ASSUME NEW y \in Symbols, NewBar(y) PROVE Ledger'
  BY <1>32 DEF NewBar, broker, store, flags, loops, memory, Ledger,
     RowsHavePositions, FilledIsNew, NoPhantomExposure, OpenRows, Placed
<1>33. CASE Midnight
  BY <1>33 DEF Midnight, broker, store, flags, loops, memory, Ledger,
     RowsHavePositions, FilledIsNew, NoPhantomExposure, OpenRows, Placed
<1>34. ASSUME NEW t \in Ticket, CooldownExpires(t) PROVE Ledger'
  BY <1>34 DEF CooldownExpires, broker, clock, store, flags, loops, Ledger,
     RowsHavePositions, FilledIsNew, NoPhantomExposure, OpenRows, Placed
<1>35. CASE Operate
  BY <1>35 DEF Operate, broker, clock, store, loops, memory, Ledger,
     RowsHavePositions, FilledIsNew, NoPhantomExposure, OpenRows, Placed
<1>36. CASE UNCHANGED vars
  BY <1>36 DEF vars, broker, clock, store, flags, loops, memory, Ledger,
     RowsHavePositions, FilledIsNew, NoPhantomExposure, OpenRows, Placed
<1>37. QED
  BY <1>1, <1>2, <1>3, <1>4, <1>5, <1>6, <1>7, <1>8, <1>9, <1>10, <1>11,
     <1>12, <1>13, <1>14, <1>15, <1>16, <1>17, <1>18, <1>19, <1>20, <1>21,
     <1>22, <1>23, <1>24, <1>25, <1>26, <1>27, <1>28, <1>29, <1>30, <1>31,
     <1>32, <1>33, <1>34, <1>35, <1>36 DEF Next, BotStep, BrokerStep,
     OtherStep

\* With any combination of faults (lost replies, crashes, failing stores, drops)
\* the gate never counts a trade that the journal does not hold open.
THEOREM PhantomFree == Spec => []NoPhantomExposure
<1>1. Init => TypeOK /\ CurInHand /\ Ledger
  <2>1. Init => Ledger
    <3> SUFFICES ASSUME Init PROVE Ledger
      OBVIOUS
    <3>1. OpenRows = {}
      BY DEF Init, OpenRows, NoRow
    <3>2. QED
      BY <3>1, FS_EmptySet DEF Init, Ledger, RowsHavePositions, FilledIsNew,
                               NoPhantomExposure, NoRow, FreshRisk
  <2>2. QED
    BY <2>1, InitTyped
<1>2. TypeOK /\ CurInHand /\ Ledger /\ [Next]_vars => TypeOK' /\ CurInHand' /\ Ledger'
  BY StepTyped, StepLedger
<1>3. Ledger => NoPhantomExposure
  BY DEF Ledger
<1>4. QED
  BY <1>1, <1>2, <1>3, PTL DEF Spec

-----------------------------------------------------------------------------
(* The journal settles a trade only when its position is gone.             *)

\* Every closing deal, and the close being booked, is of a closed position.
SettledInv ==
  /\ \A t \in deal : pos[t].st = "closed"
  /\ pc = "closed" => pos[cur].st = "closed"
  /\ SettledMeansClosed

LEMMA StepSettled ==
  ASSUME "partial" \notin Events
  PROVE  TypeOK /\ CurInHand /\ SettledInv /\ [Next]_vars => SettledInv'
<1> SUFFICES ASSUME TypeOK, CurInHand, SettledInv, [Next]_vars PROVE SettledInv'
  OBVIOUS
<1>0. SettledInv
  OBVIOUS
<1>1. CASE StartBot
  BY <1>1 DEF StartBot, broker, clock, store, flags, loops, SettledInv,
     SettledMeansClosed
<1>2. CASE TickBegin
  BY <1>2 DEF TickBegin, broker, clock, store, flags, SettledInv,
     SettledMeansClosed, LoseMemory
<1>3. ASSUME NEW t \in Ticket, Trail(t) PROVE SettledInv'
  <2>1. \A u \in Ticket : pos'[u].st = pos[u].st /\ rows'[u].st = rows[u].st
    BY <1>3, TrailKeepsStatus
  <2>2. pc' # "closed" /\ deal' = deal
    BY <1>3 DEF Trail
  <2>3. QED
    BY <1>0, <2>1, <2>2 DEF SettledInv, SettledMeansClosed, TypeOK
<1>4. CASE LeaveOpen
  BY <1>4 DEF LeaveOpen, broker, clock, store, flags, memory, SettledInv,
     SettledMeansClosed
<1>5. CASE CloseRejected
  <2>1. \A u \in Ticket : pos[u].st = "closed" => pos'[u].st = "closed"
    BY <1>5, ClosingKeepsStatus
  <2>2. pc' # "closed" /\ UNCHANGED <<deal, rows>>
    BY <1>5 DEF CloseRejected, store
  <2>3. QED
    BY <1>0, <2>1, <2>2 DEF SettledInv, SettledMeansClosed, CurInHand, TypeOK
<1>6. CASE CloseDone
  <2>1. cur \in Ticket /\ UNCHANGED <<deal, rows, cur>>
    BY <1>6 DEF CloseDone, CurInHand, store, loops
  <2>2. /\ pos'[cur].st = "closed"
        /\ \A u \in Ticket : pos[u].st = "closed" => pos'[u].st = "closed"
    BY <1>6, ClosingKeepsStatus, CloseDoneCloses
  <2>3. QED
    BY <1>0, <2>1, <2>2 DEF SettledInv, SettledMeansClosed, TypeOK
<1>7. CASE BookClose
  <2>1. cur \in Ticket /\ pos[cur].st = "closed" /\ pc' # "closed" /\ UNCHANGED <<pos, deal>>
    BY <1>0, <1>7 DEF BookClose, CurInHand, SettledInv, broker
  <2>2. \A u \in Ticket : rows'[u].st = "CLOSED" => u = cur \/ rows[u].st = "CLOSED"
    BY <1>7, <2>1 DEF BookClose, Settle, TypeOK
  <2>3. QED
    BY <1>0, <2>1, <2>2 DEF SettledInv, SettledMeansClosed
<1>8. CASE BookCloseFails
  BY <1>8 DEF BookCloseFails, broker, clock, store, flags, SettledInv,
     SettledMeansClosed, EndTick
<1>9. CASE ManageAborts
  BY <1>9 DEF ManageAborts, broker, clock, store, flags, memory, SettledInv,
     SettledMeansClosed, EndTick
<1>10. CASE Sync
  BY <1>10 DEF Sync, broker, clock, store, flags, SettledInv,
     SettledMeansClosed
<1>11. ASSUME NEW t \in Ticket, ReconcileRow(t) PROVE SettledInv'
  <2>1. pc' # "closed" /\ UNCHANGED <<pos, deal>>
    BY <1>11 DEF ReconcileRow, broker
  <2>2. CASE UNCHANGED rows
    BY <1>0, <2>1, <2>2 DEF SettledInv, SettledMeansClosed
  <2>3. CASE CloseInfo(t) /\ Settle(t)
    <3>1. pos[t].st = "closed"
      BY <1>0, <2>3 DEF CloseInfo, SettledInv
    <3>2. \A u \in Ticket : rows'[u].st = "CLOSED" => u = t \/ rows[u].st = "CLOSED"
      BY <2>3 DEF Settle, TypeOK
    <3>3. QED
      BY <1>0, <2>1, <3>1, <3>2 DEF SettledInv, SettledMeansClosed
  <2>4. QED
    BY <1>11, <2>2, <2>3 DEF ReconcileRow
<1>12. CASE ReconcileDone
  BY <1>12 DEF ReconcileDone, broker, clock, store, flags, memory, SettledInv,
     SettledMeansClosed
<1>13. ASSUME NEW y \in Symbols, SkipSymbol(y) PROVE SettledInv'
  BY <1>13 DEF SkipSymbol, broker, clock, store, flags, memory, SettledInv,
     SettledMeansClosed
<1>14. ASSUME NEW y \in Symbols, ScanSymbol(y) PROVE SettledInv'
  BY <1>14 DEF ScanSymbol, broker, clock, store, flags, SettledInv,
     SettledMeansClosed
<1>15. CASE ScanDone
  BY <1>15 DEF ScanDone, broker, clock, store, flags, memory, SettledInv,
     SettledMeansClosed, EndTick
<1>16. ASSUME NEW s \in Strategies, StrategyQuiet(s) PROVE SettledInv'
  BY <1>16 DEF StrategyQuiet, broker, clock, store, flags, memory, SettledInv,
     SettledMeansClosed
<1>17. ASSUME NEW s \in Strategies, SignalSeen(s) PROVE SettledInv'
  BY <1>17 DEF SignalSeen, broker, clock, flags, memory, SettledInv,
     SettledMeansClosed
<1>18. ASSUME NEW s \in Strategies, SignalTaken(s) PROVE SettledInv'
  BY <1>18 DEF SignalTaken, broker, clock, flags, memory, SettledInv,
     SettledMeansClosed
<1>19. CASE StrategiesDone
  BY <1>19 DEF StrategiesDone, broker, clock, store, flags, memory,
     SettledInv, SettledMeansClosed
<1>20. CASE Guard
  BY <1>20 DEF Guard, broker, clock, store, flags, memory, SettledInv,
     SettledMeansClosed, NextStrategy
<1>21. CASE Evaluate
  BY <1>21 DEF Evaluate, broker, clock, store, flags, SettledInv,
     SettledMeansClosed, NextStrategy
<1>22. CASE BalanceFails
  BY <1>22 DEF BalanceFails, broker, clock, store, flags, memory, SettledInv,
     SettledMeansClosed, EndTick
<1>23. CASE PlaceRejected
  <2>1. \A u \in Ticket : pos[u].st = "closed" => pos'[u].st = "closed"
    BY <1>23, NextTicketFree DEF PlaceRejected, Fill, Placed, TypeOK
  <2>2. pc' # "closed" /\ UNCHANGED <<deal, rows>>
    BY <1>23 DEF PlaceRejected, NextStrategy, store
  <2>3. QED
    BY <1>0, <2>1, <2>2 DEF SettledInv, SettledMeansClosed, CurInHand, TypeOK
<1>24. CASE PlaceDone
  <2>1. \A u \in Ticket : pos[u].st = "closed" => pos'[u].st = "closed"
    BY <1>24, NextTicketFree DEF PlaceDone, Fill, Placed, TypeOK
  <2>2. pc' # "closed" /\ UNCHANGED <<deal, rows>>
    BY <1>24 DEF PlaceDone, store
  <2>3. QED
    BY <1>0, <2>1, <2>2 DEF SettledInv, SettledMeansClosed, CurInHand, TypeOK
<1>25. CASE RecordOpen
  <2>1. pc' # "closed" /\ UNCHANGED <<pos, deal>>
    BY <1>25 DEF RecordOpen, NextStrategy, broker
  <2>2. \A u \in Ticket : rows'[u].st = "CLOSED" => rows[u].st = "CLOSED"
    BY <1>25 DEF RecordOpen, OpenRow, TypeOK
  <2>3. QED
    BY <1>0, <2>1, <2>2 DEF SettledInv, SettledMeansClosed
<1>26. CASE RecordOpenFails
  BY <1>26 DEF RecordOpenFails, broker, clock, store, flags, memory,
     SettledInv, SettledMeansClosed, EndTick
<1>27. CASE Crash
  BY <1>27 DEF Crash, broker, clock, store, flags, SettledInv,
     SettledMeansClosed, LoseMemory
<1>28. ASSUME NEW t \in Ticket, BrokerCloses(t) PROVE SettledInv'
  <2>1. \A u \in Ticket : pos[u].st = "closed" => pos'[u].st = "closed"
    BY <1>28, ClosingKeepsStatus
  <2>2. UNCHANGED <<pc, cur>> /\ UNCHANGED <<deal, rows>>
    BY <1>28 DEF BrokerCloses, store, loops
  <2>3. QED
    BY <1>0, <2>1, <2>2 DEF SettledInv, SettledMeansClosed, CurInHand, TypeOK
<1>29. ASSUME NEW t \in Ticket, PartialClose(t) PROVE SettledInv'
  BY <1>29 DEF PartialClose, Can
<1>30. ASSUME NEW t \in Ticket, DealLands(t) PROVE SettledInv'
  BY <1>0, <1>30 DEF DealLands, SettledInv, SettledMeansClosed, store, loops
<1>31. CASE Connection
  BY <1>31 DEF Connection, clock, store, flags, loops, memory, SettledInv,
     SettledMeansClosed
<1>32. ASSUME NEW y \in Symbols, NewBar(y) PROVE SettledInv'
  BY <1>32 DEF NewBar, broker, store, flags, loops, memory, SettledInv,
     SettledMeansClosed
<1>33. CASE Midnight
  BY <1>33 DEF Midnight, broker, store, flags, loops, memory, SettledInv,
     SettledMeansClosed
<1>34. ASSUME NEW t \in Ticket, CooldownExpires(t) PROVE SettledInv'
  BY <1>34 DEF CooldownExpires, broker, clock, store, flags, loops,
     SettledInv, SettledMeansClosed
<1>35. CASE Operate
  BY <1>35 DEF Operate, broker, clock, store, loops, memory, SettledInv,
     SettledMeansClosed
<1>36. CASE UNCHANGED vars
  BY <1>36 DEF vars, broker, clock, store, flags, loops, memory, SettledInv,
     SettledMeansClosed
<1>37. QED
  BY <1>1, <1>2, <1>3, <1>4, <1>5, <1>6, <1>7, <1>8, <1>9, <1>10, <1>11,
     <1>12, <1>13, <1>14, <1>15, <1>16, <1>17, <1>18, <1>19, <1>20, <1>21,
     <1>22, <1>23, <1>24, <1>25, <1>26, <1>27, <1>28, <1>29, <1>30, <1>31,
     <1>32, <1>33, <1>34, <1>35, <1>36 DEF Next, BotStep, BrokerStep,
     OtherStep

\* A broker drop, a lost reply, a failing store or a crash never makes the journal
\* settle a position that is still open.  A partial close by hand does: its deal
\* is all that fetch_close_info asks for.
THEOREM SettledIsGone ==
  ASSUME "partial" \notin Events
  PROVE  Spec => []SettledMeansClosed
<1>1. Init => TypeOK /\ CurInHand /\ SettledInv
  <2>1. Init => SettledInv
    BY DEF Init, SettledInv, SettledMeansClosed, NoRow
  <2>2. QED
    BY <2>1, InitTyped
<1>2. TypeOK /\ CurInHand /\ SettledInv /\ [Next]_vars
        => TypeOK' /\ CurInHand' /\ SettledInv'
  BY StepTyped, StepSettled
<1>3. SettledInv => SettledMeansClosed
  BY DEF SettledInv
<1>4. QED
  BY <1>1, <1>2, <1>3, PTL DEF Spec

-----------------------------------------------------------------------------
(* A strategy enters a symbol at most once per bar.                        *)

Signalling == {"strategies", "gate", "evaluate", "place", "filled"}
Chosen == {"gate", "evaluate", "place"}

\* A mark is never ahead of the market, nor is what the process remembers.
BarsSeen == \A y \in Symbols : lastBar[y] <= bar[y]
MarksBehindBars ==
  BarsSeen /\ \A s \in Strategies, y \in Symbols : dedup[<<s, y>>] <= bar[y]

\* Every position was marked before it was opened.
EntriesMarked ==
  \A t \in Ticket : Placed(t) => pos[t].bar <= dedup[<<pos[t].strat, pos[t].sym>>]

\* While a bar is scanned no mark is ahead of it...
ScanIsFresh ==
  pc \in Signalling => \A s \in Strategies : dedup[<<s, sig.sym>>] <= lastBar[sig.sym]

\* ... and the signal in hand is marked and has no position yet.
SignalIsFresh ==
  pc \in Chosen =>
    /\ dedup[<<sig.strat, sig.sym>>] = lastBar[sig.sym]
    /\ \A t \in Ticket : Placed(t) /\ pos[t].strat = sig.strat /\ pos[t].sym = sig.sym
                            => pos[t].bar # lastBar[sig.sym]

DedupInv ==
  MarksBehindBars /\ EntriesMarked /\ ScanIsFresh /\ SignalIsFresh /\ OneEntryPerBar

\* A step that opens no position and stays within the bar being scanned.
KeysKept ==
  \A t \in Ticket :
    /\ pos'[t].st = "none" <=> pos[t].st = "none"
    /\ pos'[t].strat = pos[t].strat /\ pos'[t].sym = pos[t].sym /\ pos'[t].bar = pos[t].bar

Quiet ==
  /\ KeysKept /\ dedup' = dedup
  /\ \A y \in Symbols : bar[y] <= bar'[y] /\ lastBar'[y] <= bar'[y]
  /\ pc' \in Signalling => pc \in Signalling /\ sig'.sym = sig.sym /\ lastBar' = lastBar
  /\ pc' \in Chosen => pc \in Chosen /\ sig'.strat = sig.strat

LEMMA QuietKeepsDedup == TypeOK /\ TypeOK' /\ DedupInv /\ Quiet => DedupInv'
<1> SUFFICES ASSUME TypeOK, TypeOK', DedupInv, Quiet PROVE DedupInv'
  OBVIOUS
<1>1. MarksBehindBars'
  BY DEF MarksBehindBars, BarsSeen, DedupInv, Quiet, TypeOK
<1>2. EntriesMarked'
  BY DEF EntriesMarked, DedupInv, Quiet, KeysKept, Placed
<1>3. ScanIsFresh'
  BY DEF ScanIsFresh, DedupInv, Quiet
<1>4. SignalIsFresh'
  BY DEF SignalIsFresh, DedupInv, Quiet, KeysKept, Placed, Chosen, Signalling
<1>5. OneEntryPerBar'
  BY DEF OneEntryPerBar, DedupInv, Quiet, KeysKept, Placed
<1>6. QED
  BY <1>1, <1>2, <1>3, <1>4, <1>5 DEF DedupInv

LEMMA ClosingKeepsKeys ==
  ASSUME TypeOK, NEW t \in Ticket, pos[t].st = "open", NEW p \in Int, ClosesWith(t, p)
  PROVE  KeysKept
<1>1. pos[t] \in Position /\ day \in 0..MaxDay
  BY DEF TypeOK
<1> DEFINE q == [Deal(t, p) EXCEPT !.st = "closed"]
<1>2. q.st = "closed" /\ q.strat = pos[t].strat /\ q.sym = pos[t].sym /\ q.bar = pos[t].bar
  BY <1>1 DEF Deal, Position
<1>3. pos' = [pos EXCEPT ![t] = q]
  BY DEF ClosesWith
<1> HIDE DEF q
<1>4. QED
  BY <1>2, <1>3 DEF KeysKept, TypeOK

LEMMA FillKeepsDedup ==
  ASSUME TypeOK, DedupInv, pc = "place",
         NEW u \in Ticket, ~Placed(u), NEW risk, Fill(u, risk),
         UNCHANGED <<dedup, bar, lastBar>>, sig'.sym = sig.sym,
         pc' \in {"filled", "strategies"}
  PROVE  DedupInv'
<1>1. /\ sig.strat \in Strategies /\ sig.sym \in Symbols
      /\ lastBar[sig.sym] \in Nat /\ dedup[<<sig.strat, sig.sym>>] = lastBar[sig.sym]
      /\ \A t \in Ticket : Placed(t) /\ pos[t].strat = sig.strat /\ pos[t].sym = sig.sym
                              => pos[t].bar # lastBar[sig.sym]
  BY DEF TypeOK, Signal, DedupInv, SignalIsFresh, Chosen
<1>2. /\ pos'[u].strat = sig.strat /\ pos'[u].sym = sig.sym /\ pos'[u].bar = lastBar[sig.sym]
      /\ \A t \in Ticket \ {u} : pos'[t] = pos[t]
  BY DEF Fill, TypeOK
<1>3. EntriesMarked'
  BY <1>1, <1>2 DEF DedupInv, EntriesMarked, Placed
<1>4. OneEntryPerBar'
  BY <1>1, <1>2 DEF DedupInv, OneEntryPerBar, Placed
<1>5. MarksBehindBars' /\ ScanIsFresh' /\ SignalIsFresh'
  BY DEF DedupInv, MarksBehindBars, BarsSeen, ScanIsFresh, SignalIsFresh, Signalling, Chosen
<1>6. QED
  BY <1>3, <1>4, <1>5 DEF DedupInv

LEMMA StepDedup ==
  ASSUME "dedupFails" \notin Events
  PROVE  TypeOK /\ TypeOK' /\ CurInHand /\ DedupInv /\ [Next]_vars => DedupInv'
<1> SUFFICES ASSUME TypeOK, TypeOK', CurInHand, DedupInv, [Next]_vars PROVE DedupInv'
  OBVIOUS
<1>0. /\ DedupInv /\ BarsSeen
      /\ \A y \in Symbols : bar[y] \in Nat /\ bar'[y] \in Nat /\ lastBar[y] \in Nat
  BY DEF DedupInv, MarksBehindBars, TypeOK
<1> SUFFICES Quiet \/ DedupInv'
  BY QuietKeepsDedup
<1>1. CASE StartBot
  BY <1>1, <1>0 DEF StartBot, broker, clock, store, flags, loops, Quiet,
     KeysKept, Placed, Signalling, Chosen, BarsSeen
<1>2. CASE TickBegin
  BY <1>2, <1>0 DEF TickBegin, broker, clock, store, flags, Quiet, KeysKept,
     Placed, Signalling, Chosen, BarsSeen, LoseMemory, None
<1>3. ASSUME NEW t \in Ticket, Trail(t) PROVE Quiet \/ DedupInv'
  <2>1. KeysKept
    BY <1>3, TrailKeepsStatus DEF KeysKept
  <2>2. UNCHANGED <<dedup, bar, lastBar>> /\ pc' = "trigger"
    BY <1>3 DEF Trail, clock, memory
  <2>3. QED
    BY <1>0, <2>1, <2>2 DEF Quiet, Signalling, Chosen, BarsSeen
<1>4. CASE LeaveOpen
  BY <1>4, <1>0 DEF LeaveOpen, broker, clock, store, flags, memory, Quiet,
     KeysKept, Placed, Signalling, Chosen, BarsSeen
<1>5. CASE CloseRejected
  <2>1. KeysKept
    <3>1. CASE UNCHANGED pos
      BY <3>1 DEF KeysKept
    <3>2. ASSUME cur \in OpenOrders, NEW pnl \in Pnls, ClosesWith(cur, pnl) PROVE KeysKept
      <4>1. cur \in Ticket /\ pos[cur].st = "open" /\ pnl \in Int
        BY <3>2 DEF OpenOrders, OpenPositions
      <4>2. QED
        BY <3>2, <4>1, ClosingKeepsKeys
    <3>3. QED
      BY <1>5, <3>1, <3>2 DEF CloseRejected
  <2>2. UNCHANGED <<dedup, bar, lastBar>> /\ pc' = "manage"
    BY <1>5 DEF CloseRejected, clock, store, memory
  <2>3. QED
    BY <1>0, <2>1, <2>2 DEF Quiet, Signalling, Chosen, BarsSeen
<1>6. CASE CloseDone
  <2>1. KeysKept
    <3>1. PICK pnl \in Pnls : ClosesWith(cur, pnl)
      BY <1>6 DEF CloseDone
    <3>2. cur \in Ticket /\ pos[cur].st = "open" /\ pnl \in Int
      BY <1>6 DEF CloseDone, OpenOrders, OpenPositions
    <3>3. QED
      BY <3>1, <3>2, ClosingKeepsKeys
  <2>2. UNCHANGED <<dedup, bar, lastBar>> /\ pc' = "closed"
    BY <1>6 DEF CloseDone, clock, store, memory
  <2>3. QED
    BY <1>0, <2>1, <2>2 DEF Quiet, Signalling, Chosen, BarsSeen
<1>7. CASE BookClose
  BY <1>7, <1>0 DEF BookClose, broker, clock, flags, Quiet, KeysKept, Placed,
     Signalling, Chosen, BarsSeen
<1>8. CASE BookCloseFails
  BY <1>8, <1>0 DEF BookCloseFails, broker, clock, store, flags, Quiet,
     KeysKept, Placed, Signalling, Chosen, BarsSeen, EndTick
<1>9. CASE ManageAborts
  BY <1>9, <1>0 DEF ManageAborts, broker, clock, store, flags, memory, Quiet,
     KeysKept, Placed, Signalling, Chosen, BarsSeen, EndTick
<1>10. CASE Sync
  BY <1>10, <1>0 DEF Sync, broker, clock, store, flags, Quiet, KeysKept,
     Placed, Signalling, Chosen, BarsSeen
<1>11. ASSUME NEW t \in Ticket, ReconcileRow(t) PROVE Quiet \/ DedupInv'
  BY <1>11, <1>0 DEF ReconcileRow, broker, clock, store, flags, Quiet,
     KeysKept, Placed, Signalling, Chosen, BarsSeen
<1>12. CASE ReconcileDone
  BY <1>12, <1>0 DEF ReconcileDone, broker, clock, store, flags, memory,
     Quiet, KeysKept, Placed, Signalling, Chosen, BarsSeen
<1>13. ASSUME NEW y \in Symbols, SkipSymbol(y) PROVE Quiet \/ DedupInv'
  BY <1>13, <1>0 DEF SkipSymbol, broker, clock, store, flags, memory, Quiet,
     KeysKept, Placed, Signalling, Chosen, BarsSeen
<1>14. ASSUME NEW y \in Symbols, ScanSymbol(y) PROVE Quiet \/ DedupInv'
  <2>1. /\ KeysKept /\ UNCHANGED <<dedup, bar>> /\ pc' = "strategies"
        /\ sig'.sym = y /\ lastBar' = [lastBar EXCEPT ![y] = bar[y]]
    BY <1>14 DEF ScanSymbol, KeysKept, Placed, broker, clock, store, TypeOK, Signal
  <2>2. OneEntryPerBar'
    BY <1>0, <2>1 DEF DedupInv, OneEntryPerBar, KeysKept, Placed
  <2>3. MarksBehindBars' /\ EntriesMarked'
    <3>1. \A z \in Symbols : lastBar'[z] <= bar[z]
      BY <1>0, <2>1 DEF BarsSeen, TypeOK
    <3>2. QED
      BY <1>0, <2>1, <3>1 DEF DedupInv, MarksBehindBars, BarsSeen, EntriesMarked, KeysKept, Placed
  <2>4. QED
    BY <1>0, <2>1, <2>2, <2>3 DEF DedupInv, MarksBehindBars, ScanIsFresh, SignalIsFresh,
                                  Signalling, Chosen, TypeOK
<1>15. CASE ScanDone
  BY <1>15, <1>0 DEF ScanDone, broker, clock, store, flags, memory, Quiet,
     KeysKept, Placed, Signalling, Chosen, BarsSeen, EndTick
<1>16. ASSUME NEW s \in Strategies, StrategyQuiet(s) PROVE Quiet \/ DedupInv'
  BY <1>16, <1>0 DEF StrategyQuiet, broker, clock, store, flags, memory,
     Quiet, KeysKept, Placed, Signalling, Chosen, BarsSeen
<1>17. ASSUME NEW s \in Strategies, SignalSeen(s) PROVE Quiet \/ DedupInv'
  <2>1. /\ KeysKept /\ UNCHANGED <<bar, lastBar>> /\ sig.sym \in Symbols
        /\ sig'.sym = sig.sym /\ pc = "strategies" /\ pc' = "strategies"
    BY <1>17 DEF SignalSeen, KeysKept, Placed, broker, clock, memory, TypeOK, Signal
  <2>2. CASE ~AlreadyActed(s, sig.sym) /\ Remember(s, sig.sym)
    <3>1. dedup[<<s, sig.sym>>] < lastBar[sig.sym]
      <4>1. dedup[<<s, sig.sym>>] <= lastBar[sig.sym]
        BY <1>0, <2>1 DEF DedupInv, ScanIsFresh, Signalling
      <4>2. dedup[<<s, sig.sym>>] \in Nat /\ lastBar[sig.sym] \in Nat
        BY <2>1 DEF TypeOK
      <4>3. QED
        BY <2>2, <4>1, <4>2 DEF AlreadyActed
    <3>2. /\ dedup'[<<s, sig.sym>>] = lastBar[sig.sym]
          /\ \A r \in Strategies, y \in Symbols :
               <<r, y>> # <<s, sig.sym>> => dedup'[<<r, y>>] = dedup[<<r, y>>]
      BY <2>1, <2>2 DEF Remember, TypeOK
    <3>3. MarksBehindBars' /\ ScanIsFresh'
      <4>1. \A r \in Strategies, y \in Symbols :
              dedup'[<<r, y>>] = dedup[<<r, y>>]
              \/ (y = sig.sym /\ dedup'[<<r, y>>] = lastBar[sig.sym])
        BY <3>2
      <4>2. MarksBehindBars'
        BY <1>0, <2>1, <4>1 DEF DedupInv, MarksBehindBars, BarsSeen
      <4>3. ScanIsFresh'
        BY <1>0, <2>1, <4>1 DEF DedupInv, ScanIsFresh, Signalling
      <4>4. QED
        BY <4>2, <4>3
    <3>4. EntriesMarked'
      <4> SUFFICES ASSUME NEW t \in Ticket, Placed(t)'
                   PROVE  (pos[t].bar <= dedup[<<pos[t].strat, pos[t].sym>>])'
        BY DEF EntriesMarked
      <4>1. /\ pos'[t].bar <= dedup[<<pos'[t].strat, pos'[t].sym>>]
            /\ pos'[t].strat \in Strategies /\ pos'[t].sym \in Symbols
        BY <1>0, <2>1 DEF DedupInv, EntriesMarked, KeysKept, TypeOK, Position, Placed
      <4>2. dedup[<<pos'[t].strat, pos'[t].sym>>] <= dedup'[<<pos'[t].strat, pos'[t].sym>>]
        BY <2>1, <3>1, <3>2, <4>1 DEF TypeOK
      <4>3. QED
        BY <4>1, <4>2 DEF TypeOK, Position
    <3>5. \A t \in Ticket : Placed(t) /\ pos[t].strat = s /\ pos[t].sym = sig.sym
                            => pos[t].bar # lastBar[sig.sym]
      BY <1>0, <2>1, <3>1 DEF DedupInv, EntriesMarked, TypeOK, Position
    <3>6. SignalIsFresh'
      BY <2>1 DEF SignalIsFresh, Chosen, KeysKept, Placed
    <3>7. OneEntryPerBar'
      BY <1>0, <2>1 DEF DedupInv, OneEntryPerBar, KeysKept, Placed
    <3>8. QED
      BY <3>3, <3>4, <3>6, <3>7 DEF DedupInv
  <2>3. CASE UNCHANGED dedup
    BY <1>0, <2>1, <2>3 DEF Quiet, Signalling, Chosen, BarsSeen
  <2>4. QED
    BY <1>17, <2>2, <2>3 DEF SignalSeen
<1>18. ASSUME NEW s \in Strategies, SignalTaken(s) PROVE Quiet \/ DedupInv'
  <2>1. /\ KeysKept /\ UNCHANGED <<bar, lastBar>> /\ sig.sym \in Symbols
        /\ sig'.sym = sig.sym /\ pc = "strategies" /\ pc' = "gate"
    BY <1>18 DEF SignalTaken, KeysKept, Placed, broker, clock, memory, TypeOK, Signal
  <2>3. sig'.strat = s
    BY <1>18 DEF SignalTaken, TypeOK, Signal
  <2>2. CASE ~AlreadyActed(s, sig.sym) /\ Remember(s, sig.sym)
    <3>1. dedup[<<s, sig.sym>>] < lastBar[sig.sym]
      <4>1. dedup[<<s, sig.sym>>] <= lastBar[sig.sym]
        BY <1>0, <2>1 DEF DedupInv, ScanIsFresh, Signalling
      <4>2. dedup[<<s, sig.sym>>] \in Nat /\ lastBar[sig.sym] \in Nat
        BY <2>1 DEF TypeOK
      <4>3. QED
        BY <2>2, <4>1, <4>2 DEF AlreadyActed
    <3>2. /\ dedup'[<<s, sig.sym>>] = lastBar[sig.sym]
          /\ \A r \in Strategies, y \in Symbols :
               <<r, y>> # <<s, sig.sym>> => dedup'[<<r, y>>] = dedup[<<r, y>>]
      BY <2>1, <2>2 DEF Remember, TypeOK
    <3>3. MarksBehindBars' /\ ScanIsFresh'
      <4>1. \A r \in Strategies, y \in Symbols :
              dedup'[<<r, y>>] = dedup[<<r, y>>]
              \/ (y = sig.sym /\ dedup'[<<r, y>>] = lastBar[sig.sym])
        BY <3>2
      <4>2. MarksBehindBars'
        BY <1>0, <2>1, <4>1 DEF DedupInv, MarksBehindBars, BarsSeen
      <4>3. ScanIsFresh'
        BY <1>0, <2>1, <4>1 DEF DedupInv, ScanIsFresh, Signalling
      <4>4. QED
        BY <4>2, <4>3
    <3>4. EntriesMarked'
      <4> SUFFICES ASSUME NEW t \in Ticket, Placed(t)'
                   PROVE  (pos[t].bar <= dedup[<<pos[t].strat, pos[t].sym>>])'
        BY DEF EntriesMarked
      <4>1. /\ pos'[t].bar <= dedup[<<pos'[t].strat, pos'[t].sym>>]
            /\ pos'[t].strat \in Strategies /\ pos'[t].sym \in Symbols
        BY <1>0, <2>1 DEF DedupInv, EntriesMarked, KeysKept, TypeOK, Position, Placed
      <4>2. dedup[<<pos'[t].strat, pos'[t].sym>>] <= dedup'[<<pos'[t].strat, pos'[t].sym>>]
        BY <2>1, <3>1, <3>2, <4>1 DEF TypeOK
      <4>3. QED
        BY <4>1, <4>2 DEF TypeOK, Position
    <3>5. \A t \in Ticket : Placed(t) /\ pos[t].strat = s /\ pos[t].sym = sig.sym
                            => pos[t].bar # lastBar[sig.sym]
      BY <1>0, <2>1, <3>1 DEF DedupInv, EntriesMarked, TypeOK, Position
    <3>6. SignalIsFresh'
      BY <2>1, <2>3, <3>2, <3>5 DEF SignalIsFresh, Chosen, KeysKept, Placed
    <3>7. OneEntryPerBar'
      BY <1>0, <2>1 DEF DedupInv, OneEntryPerBar, KeysKept, Placed
    <3>8. QED
      BY <3>3, <3>4, <3>6, <3>7 DEF DedupInv
  <2>4. QED
    BY <1>18, <2>2 DEF SignalTaken, Can
<1>19. CASE StrategiesDone
  BY <1>19, <1>0 DEF StrategiesDone, broker, clock, store, flags, memory,
     Quiet, KeysKept, Placed, Signalling, Chosen, BarsSeen
<1>20. CASE Guard
  BY <1>20, <1>0 DEF Guard, broker, clock, store, flags, memory, Quiet,
     KeysKept, Placed, Signalling, Chosen, BarsSeen, NextStrategy, NoSignal
<1>21. CASE Evaluate
  <2>1. /\ sig'.sym = sig.sym /\ pc = "evaluate" /\ pc' \in {"strategies", "place"}
        /\ pc' = "place" => sig'.strat = sig.strat
    BY <1>21 DEF Evaluate, NextStrategy, NoSignal, TypeOK, Signal
  <2>2. QED
    BY <1>0, <1>21, <2>1 DEF Evaluate, broker, clock, store, Quiet, KeysKept, Signalling, Chosen,
                       BarsSeen
<1>22. CASE BalanceFails
  BY <1>22, <1>0 DEF BalanceFails, broker, clock, store, flags, memory, Quiet,
     KeysKept, Placed, Signalling, Chosen, BarsSeen, EndTick
<1>23. CASE PlaceRejected
  <2>1. CASE UNCHANGED pos
    BY <1>0, <1>23, <2>1 DEF PlaceRejected, NextStrategy, NoSignal, clock, store, memory, Quiet,
                       KeysKept, Placed, Signalling, Chosen, BarsSeen
  <2>2. ASSUME CanPlace, NEW risk \in Fitted(sig.risk), Fill(NextTicket, risk)
        PROVE  DedupInv'
    <3>1. NextTicket \in Ticket /\ ~Placed(NextTicket)
      BY <2>2, NextTicketFree
    <3>2. /\ UNCHANGED <<dedup, bar, lastBar>> /\ pc = "place" /\ pc' \in {"filled", "strategies"}
          /\ sig'.sym = sig.sym
      BY <1>23 DEF PlaceRejected, NextStrategy, NoSignal, clock, store, memory
    <3>3. QED
      BY <1>0, <2>2, <3>1, <3>2, FillKeepsDedup
  <2>3. QED
    BY <1>23, <2>1, <2>2 DEF PlaceRejected
<1>24. CASE PlaceDone
  <2>1. PICK risk \in Fitted(sig.risk) : Fill(NextTicket, risk)
    BY <1>24 DEF PlaceDone
  <2>2. NextTicket \in Ticket /\ ~Placed(NextTicket)
    BY <1>24, NextTicketFree DEF PlaceDone
  <2>3. /\ UNCHANGED <<dedup, bar, lastBar>> /\ pc = "place" /\ pc' \in {"filled", "strategies"}
        /\ sig'.sym = sig.sym
    BY <1>24 DEF PlaceDone, NextStrategy, NoSignal, clock, store, memory
  <2>4. QED
    BY <1>0, <2>1, <2>2, <2>3, FillKeepsDedup
<1>25. CASE RecordOpen
  BY <1>25, <1>0 DEF RecordOpen, broker, clock, flags, Quiet, KeysKept,
     Placed, Signalling, Chosen, BarsSeen, NextStrategy, NoSignal
<1>26. CASE RecordOpenFails
  BY <1>26, <1>0 DEF RecordOpenFails, broker, clock, store, flags, memory,
     Quiet, KeysKept, Placed, Signalling, Chosen, BarsSeen, EndTick
<1>27. CASE Crash
  BY <1>27, <1>0 DEF Crash, broker, clock, store, flags, Quiet, KeysKept,
     Placed, Signalling, Chosen, BarsSeen, LoseMemory, None
<1>28. ASSUME NEW t \in Ticket, BrokerCloses(t) PROVE Quiet \/ DedupInv'
  <2>1. KeysKept
    <3>1. PICK pnl \in Pnls : ClosesWith(t, pnl)
      BY <1>28 DEF BrokerCloses
    <3>2. pos[t].st = "open" /\ pnl \in Int
      BY <1>28 DEF BrokerCloses
    <3>3. QED
      BY <3>1, <3>2, ClosingKeepsKeys
  <2>2. UNCHANGED <<dedup, bar, lastBar, pc, sig>>
    BY <1>28 DEF BrokerCloses, clock, store, memory, loops
  <2>3. QED
    BY <1>0, <2>1, <2>2 DEF Quiet, Signalling, Chosen, BarsSeen
<1>29. ASSUME NEW t \in Ticket, PartialClose(t) PROVE Quiet \/ DedupInv'
  <2>1. KeysKept
    BY <1>29 DEF PartialClose, Deal, KeysKept, TypeOK, Position
  <2>2. UNCHANGED <<dedup, bar, lastBar, pc, sig>>
    BY <1>29 DEF PartialClose, clock, store, memory, loops
  <2>3. QED
    BY <1>0, <2>1, <2>2 DEF Quiet, Signalling, Chosen, BarsSeen
<1>30. ASSUME NEW t \in Ticket, DealLands(t) PROVE Quiet \/ DedupInv'
  BY <1>30, <1>0 DEF DealLands, clock, store, flags, loops, memory, Quiet,
     KeysKept, Placed, Signalling, Chosen, BarsSeen
<1>31. CASE Connection
  BY <1>31, <1>0 DEF Connection, clock, store, flags, loops, memory, Quiet,
     KeysKept, Placed, Signalling, Chosen, BarsSeen
<1>32. ASSUME NEW y \in Symbols, NewBar(y) PROVE Quiet \/ DedupInv'
  BY <1>32, <1>0 DEF NewBar, broker, store, flags, loops, memory, TypeOK,
     Quiet, KeysKept, Placed, Signalling, Chosen, BarsSeen
<1>33. CASE Midnight
  BY <1>33, <1>0 DEF Midnight, broker, store, flags, loops, memory, Quiet,
     KeysKept, Placed, Signalling, Chosen, BarsSeen
<1>34. ASSUME NEW t \in Ticket, CooldownExpires(t) PROVE Quiet \/ DedupInv'
  BY <1>34, <1>0 DEF CooldownExpires, broker, clock, store, flags, loops,
     Quiet, KeysKept, Placed, Signalling, Chosen, BarsSeen
<1>35. CASE Operate
  BY <1>35, <1>0 DEF Operate, broker, clock, store, loops, memory, Quiet,
     KeysKept, Placed, Signalling, Chosen, BarsSeen
<1>36. CASE UNCHANGED vars
  BY <1>36, <1>0 DEF vars, broker, clock, store, flags, loops, memory, Quiet,
     KeysKept, Placed, Signalling, Chosen, BarsSeen
<1>37. QED
  BY <1>1, <1>2, <1>3, <1>4, <1>5, <1>6, <1>7, <1>8, <1>9, <1>10, <1>11,
     <1>12, <1>13, <1>14, <1>15, <1>16, <1>17, <1>18, <1>19, <1>20, <1>21,
     <1>22, <1>23, <1>24, <1>25, <1>26, <1>27, <1>28, <1>29, <1>30, <1>31,
     <1>32, <1>33, <1>34, <1>35, <1>36 DEF Next, BotStep, BrokerStep,
     OtherStep

\* As long as the dedup store can be written, whatever else fails and however
\* often the process dies on a bar, a strategy enters a symbol once on it.
THEOREM SingleEntry ==
  ASSUME "dedupFails" \notin Events
  PROVE  Spec => []OneEntryPerBar
<1>1. Init => TypeOK /\ CurInHand /\ DedupInv
  <2>1. Init => DedupInv
    BY DEF Init, DedupInv, MarksBehindBars, BarsSeen, EntriesMarked, ScanIsFresh, SignalIsFresh,
           OneEntryPerBar, Placed, NoPosition, None, Signalling, Chosen
  <2>2. QED
    BY <2>1, InitTyped
<1>2. TypeOK /\ CurInHand /\ DedupInv /\ [Next]_vars => TypeOK' /\ CurInHand' /\ DedupInv'
  BY StepTyped, StepDedup
<1>3. DedupInv => OneEntryPerBar
  BY DEF DedupInv
<1>4. QED
  BY <1>1, <1>2, <1>3, PTL DEF Spec

-----------------------------------------------------------------------------
(* The gate counts what the journal holds, and so bounds what is open.     *)

\* With no orphan, the count is exact, a close in progress has its open row, and
\* an order on its way has a slot.
CountsHold ==
  /\ pc # "down" => rs.count = Cardinality(OpenRows)
  /\ pc = "closed" => rows[cur].st = "OPEN"
  /\ pc \in {"place", "filled"} => Cardinality(OpenRows) < MaxOpenTrades
  /\ Cardinality(OpenRows) <= MaxOpenTrades

GateInv ==
  /\ pc = "reconcile" => todo \subseteq OpenRows
  /\ NoOrphans => CountsHold

\* A step that neither opens nor settles a row, and books nothing.
GateQuiet ==
  /\ \A u \in Ticket : (Placed(u) => Placed(u)') /\ rows'[u].st = rows[u].st
  /\ pc' = "filled" => pc = "filled" /\ cur' = cur
  /\ pc' # "down" => pc # "down" /\ rs'.count = rs.count
  /\ pc' = "closed" => pc = "closed" /\ cur' = cur
  /\ pc' = "place" => pc = "place"
  /\ pc' = "reconcile" => pc = "reconcile" /\ todo' \subseteq todo

LEMMA GateQuietKeeps == TypeOK /\ CurInHand /\ GateInv /\ GateQuiet => GateInv'
<1> SUFFICES ASSUME TypeOK, CurInHand, GateInv, GateQuiet PROVE GateInv'
  OBVIOUS
<1>1. OpenRows' = OpenRows
  BY DEF OpenRows, GateQuiet
<1>2. NoOrphans' => NoOrphans
  BY DEF NoOrphans, GateQuiet
<1>3. CountsHold => CountsHold'
  BY <1>1 DEF CountsHold, GateQuiet, CurInHand
<1>4. QED
  BY <1>1, <1>2, <1>3 DEF GateInv, GateQuiet

LEMMA OneRowSettled ==
  ASSUME TypeOK, NEW t \in OpenRows, rs.count = Cardinality(OpenRows)
  PROVE  /\ ClampAtZero(rs.count - 1) = Cardinality(OpenRows \ {t})
         /\ Cardinality(OpenRows \ {t}) \in Nat
         /\ Cardinality(OpenRows \ {t}) < Cardinality(OpenRows)
<1>1. Cardinality(OpenRows \ {t}) = Cardinality(OpenRows) - 1
  BY OpenRowsCount, FS_RemoveElement
<1>2. Cardinality(OpenRows \ {t}) \in Nat
  BY OpenRowsCount, FS_RemoveElement, FS_CardinalityType
<1>3. QED
  BY <1>1, <1>2, OpenRowsCount DEF ClampAtZero

LEMMA StepGate ==
  ASSUME "partial" \notin Events, "storeFails" \notin Events
  PROVE  TypeOK /\ CurInHand /\ Ledger /\ SettledInv /\ GateInv /\ [Next]_vars => GateInv'
<1> SUFFICES ASSUME TypeOK, CurInHand, Ledger, SettledInv, GateInv, [Next]_vars PROVE GateInv'
  OBVIOUS
<1>0. /\ GateInv /\ Ledger /\ SettledInv
      /\ Cardinality(OpenRows) \in Nat /\ MaxOpenTrades \in Nat
  BY OpenRowsCount
<1> SUFFICES GateQuiet \/ GateInv'
  BY GateQuietKeeps
<1>1. CASE StartBot
  <2>1. rs'.count = Cardinality(OpenRows)
    BY <1>1 DEF StartBot, Succeeds, Can, RiskRecord
  <2>2. pc = "down" /\ pc' = "idle" /\ UNCHANGED <<pos, rows>>
    BY <1>1 DEF StartBot, broker, store
  <2>3. OpenRows' = OpenRows /\ (NoOrphans' => NoOrphans)
    BY <2>2 DEF OpenRows, NoOrphans, Placed
  <2>4. QED
    BY <1>0, <2>1, <2>2, <2>3 DEF GateInv, CountsHold
<1>2. CASE TickBegin
  BY <1>2 DEF TickBegin, broker, clock, store, flags, GateQuiet, Placed,
     LoseMemory, None
<1>3. ASSUME NEW t \in Ticket, Trail(t) PROVE GateQuiet \/ GateInv'
  <2>1. \A u \in Ticket : pos'[u].st = pos[u].st /\ rows'[u].st = rows[u].st
    BY <1>3, TrailKeepsStatus
  <2>2. QED
    BY <1>3, <2>1 DEF Trail, GateQuiet, Placed, memory
<1>4. CASE LeaveOpen
  BY <1>4 DEF LeaveOpen, broker, clock, store, flags, memory, GateQuiet,
     Placed
<1>5. CASE CloseRejected
  <2>1. \A u \in Ticket : Placed(u) => Placed(u)'
    BY <1>5, ClosingKeepsStatus
  <2>2. QED
    BY <1>5, <2>1 DEF CloseRejected, store, memory, GateQuiet
<1>6. CASE CloseDone
  <2>1. /\ cur \in OpenPositions /\ cur \in Ticket /\ pc = "trigger" /\ pc' = "closed"
        /\ UNCHANGED <<rows, rs, cur>>
    BY <1>6 DEF CloseDone, OpenOrders, OpenPositions, CurInHand, store, memory, loops
  <2>2. \A u \in Ticket : Placed(u) => Placed(u)'
    BY <1>6, ClosingKeepsStatus
  <2>3. OpenRows' = OpenRows /\ (NoOrphans' => NoOrphans)
    BY <2>1, <2>2 DEF OpenRows, NoOrphans
  <2>4. NoOrphans => rows[cur].st = "OPEN"
    <3>1. NoOrphans => rows[cur].st # "none"
      BY <2>1 DEF NoOrphans, OpenPositions, Placed
    <3>2. rows[cur].st # "CLOSED"
      BY <1>0, <2>1 DEF SettledInv, SettledMeansClosed, OpenPositions
    <3>3. QED
      BY <2>1, <3>1, <3>2 DEF TypeOK, Row
  <2>5. QED
    BY <1>0, <2>1, <2>3, <2>4 DEF GateInv, CountsHold
<1>7. CASE BookClose
  <2>1. cur \in Ticket /\ pc = "closed" /\ pc' = "manage" /\ pos' = pos
    BY <1>7 DEF BookClose, CurInHand, broker
  <2>2. /\ \A u \in Ticket : rows'[u].st = "none" <=> rows[u].st = "none"
        /\ OpenRows' = OpenRows \ {cur}
    BY <1>7, <2>1 DEF BookClose, Settle, OpenRows, TypeOK
  <2>3. rs'.count = ClampAtZero(rs.count - 1)
    BY <1>7 DEF BookClose, RegisterClosed, RiskRecord
  <2>4. NoOrphans' => NoOrphans
    BY <2>1, <2>2 DEF NoOrphans, Placed
  <2>5. NoOrphans => cur \in OpenRows
    BY <1>0, <2>1 DEF GateInv, CountsHold, OpenRows
  <2>6. NoOrphans => /\ rs'.count = Cardinality(OpenRows')
                     /\ Cardinality(OpenRows') <= MaxOpenTrades
    BY <1>0, <2>1, <2>2, <2>3, <2>5, OneRowSettled DEF GateInv, CountsHold
  <2>7. QED
    BY <2>1, <2>4, <2>6 DEF GateInv, CountsHold
<1>8. CASE BookCloseFails
  BY <1>8 DEF BookCloseFails, broker, clock, store, flags, GateQuiet, Placed,
     EndTick
<1>9. CASE ManageAborts
  BY <1>9 DEF ManageAborts, broker, clock, store, flags, memory, GateQuiet,
     Placed, EndTick
<1>10. CASE Sync
  <2>1. pc = "manage" /\ pc' \in {"scan", "reconcile"} /\ UNCHANGED <<pos, rows, rs>>
    BY <1>10 DEF Sync, broker, store
  <2>2. OpenRows' = OpenRows /\ (NoOrphans' => NoOrphans)
    BY <2>1 DEF OpenRows, NoOrphans, Placed
  <2>3. pc' = "reconcile" => todo' \subseteq OpenRows
    BY <1>10 DEF Sync
  <2>4. QED
    BY <1>0, <2>1, <2>2, <2>3 DEF GateInv, CountsHold
<1>11. ASSUME NEW t \in Ticket, ReconcileRow(t) PROVE GateQuiet \/ GateInv'
  <2>1. /\ pc = "reconcile" /\ pc' = "reconcile" /\ pos' = pos
        /\ t \in todo /\ todo' = todo \ {t}
    BY <1>11 DEF ReconcileRow, broker
  <2>2. CASE UNCHANGED <<rows, rs>>
    BY <2>1, <2>2 DEF GateQuiet, Placed
  <2>3. CASE Settle(t) /\ rs'.count = ClampAtZero(rs.count - 1)
    <3>1. /\ \A u \in Ticket : rows'[u].st = "none" <=> rows[u].st = "none"
          /\ OpenRows' = OpenRows \ {t}
      BY <2>3 DEF Settle, OpenRows, TypeOK
    <3>2. NoOrphans' => NoOrphans
      BY <2>1, <3>1 DEF NoOrphans, Placed
    <3>3. t \in OpenRows /\ todo' \subseteq OpenRows'
      BY <1>0, <2>1, <3>1 DEF GateInv
    <3>4. NoOrphans => /\ rs'.count = Cardinality(OpenRows')
                       /\ Cardinality(OpenRows') <= MaxOpenTrades
      BY <1>0, <2>1, <2>3, <3>1, <3>3, OneRowSettled DEF GateInv, CountsHold
    <3>5. QED
      BY <2>1, <3>2, <3>3, <3>4 DEF GateInv, CountsHold
  <2>4. QED
    BY <1>11, <2>2, <2>3 DEF ReconcileRow, RegisterClosed, RiskRecord
<1>12. CASE ReconcileDone
  BY <1>12 DEF ReconcileDone, broker, clock, store, flags, memory, GateQuiet,
     Placed
<1>13. ASSUME NEW y \in Symbols, SkipSymbol(y) PROVE GateQuiet \/ GateInv'
  BY <1>13 DEF SkipSymbol, broker, clock, store, flags, memory, GateQuiet,
     Placed
<1>14. ASSUME NEW y \in Symbols, ScanSymbol(y) PROVE GateQuiet \/ GateInv'
  BY <1>14 DEF ScanSymbol, broker, clock, store, flags, GateQuiet, Placed
<1>15. CASE ScanDone
  BY <1>15 DEF ScanDone, broker, clock, store, flags, memory, GateQuiet,
     Placed, EndTick
<1>16. ASSUME NEW s \in Strategies, StrategyQuiet(s) PROVE GateQuiet \/ GateInv'
  BY <1>16 DEF StrategyQuiet, broker, clock, store, flags, memory, GateQuiet,
     Placed
<1>17. ASSUME NEW s \in Strategies, SignalSeen(s) PROVE GateQuiet \/ GateInv'
  BY <1>17 DEF SignalSeen, broker, clock, flags, memory, GateQuiet, Placed
<1>18. ASSUME NEW s \in Strategies, SignalTaken(s) PROVE GateQuiet \/ GateInv'
  BY <1>18 DEF SignalTaken, broker, clock, flags, memory, GateQuiet, Placed
<1>19. CASE StrategiesDone
  BY <1>19 DEF StrategiesDone, broker, clock, store, flags, memory, GateQuiet,
     Placed
<1>20. CASE Guard
  BY <1>20 DEF Guard, broker, clock, store, flags, memory, GateQuiet, Placed,
     NextStrategy, NoSignal
<1>21. CASE Evaluate
  <2>1. /\ pc = "evaluate" /\ pc' \in {"strategies", "place"} /\ UNCHANGED <<pos, rows>>
        /\ rs'.count = rs.count
    BY <1>21 DEF Evaluate, NextStrategy, DailyReset, RiskRecord, broker, store
  <2>2. pc' = "place" => rs'.count < MaxOpenTrades
    BY <1>21 DEF Evaluate, NextStrategy, Approves
  <2>3. OpenRows' = OpenRows /\ (NoOrphans' => NoOrphans)
    BY <2>1 DEF OpenRows, NoOrphans, Placed
  <2>4. QED
    BY <1>0, <2>1, <2>2, <2>3 DEF GateInv, CountsHold
<1>22. CASE BalanceFails
  BY <1>22 DEF BalanceFails, broker, clock, store, flags, memory, GateQuiet,
     Placed, EndTick
<1>23. CASE PlaceRejected
  <2>1. \A u \in Ticket : Placed(u) => Placed(u)'
    BY <1>23, NextTicketFree DEF PlaceRejected, Fill, TypeOK, Placed
  <2>2. QED
    BY <1>23, <2>1 DEF PlaceRejected, NextStrategy, store, memory, GateQuiet
<1>24. CASE PlaceDone
  <2>1. PICK risk \in Fitted(sig.risk) : Fill(NextTicket, risk)
    BY <1>24 DEF PlaceDone
  <2>2. NextTicket \in Ticket /\ ~Placed(NextTicket)
    BY <1>24, NextTicketFree DEF PlaceDone
  <2>3. \A u \in Ticket : Placed(u) => Placed(u)'
    BY <2>1, <2>2 DEF Fill, TypeOK, Placed
  <2>4. pc = "place" /\ pc' = "filled" /\ cur' = NextTicket /\ UNCHANGED <<rows, rs>>
    BY <1>24 DEF PlaceDone, store, memory
  <2>5. OpenRows' = OpenRows /\ (NoOrphans' => NoOrphans)
    BY <2>2, <2>3, <2>4 DEF OpenRows, NoOrphans
  <2>6. QED
    BY <1>0, <2>4, <2>5 DEF GateInv, CountsHold
<1>25. CASE RecordOpen
  <2>1. /\ cur \in Ticket /\ rows[cur].st = "none" /\ pos' = pos
        /\ pc = "filled" /\ pc' = "strategies" /\ rs'.count = rs.count + 1
    BY <1>25, <1>0 DEF RecordOpen, NextStrategy, CurInHand, Ledger, FilledIsNew, broker,
                     RegisterOpened, RiskRecord
  <2>2. rows' = [rows EXCEPT ![cur] = OpenRow(pos[cur].risk)]
    BY <1>25 DEF RecordOpen
  <2>3. /\ OpenRows' = OpenRows \cup {cur} /\ cur \notin OpenRows
        /\ \A u \in Ticket \ {cur} : rows'[u] = rows[u]
    BY <2>1, <2>2 DEF OpenRows, OpenRow, TypeOK
  <2>4. NoOrphans' => NoOrphans
    BY <2>1, <2>3 DEF NoOrphans, Placed
  <2>5. Cardinality(OpenRows') = Cardinality(OpenRows) + 1
    BY <2>3, OpenRowsCount, FS_AddElement
  <2>6. QED
    BY <1>0, <2>1, <2>4, <2>5, OpenRowsCount DEF GateInv, CountsHold
<1>26. CASE RecordOpenFails
  BY <1>26 DEF RecordOpenFails, broker, clock, store, flags, memory,
     GateQuiet, Placed, EndTick
<1>27. CASE Crash
  BY <1>27 DEF Crash, broker, clock, store, flags, GateQuiet, Placed,
     LoseMemory, None
<1>28. ASSUME NEW t \in Ticket, BrokerCloses(t) PROVE GateQuiet \/ GateInv'
  <2>1. \A u \in Ticket : Placed(u) => Placed(u)'
    BY <1>28, ClosingKeepsStatus
  <2>2. QED
    BY <1>28, <2>1 DEF BrokerCloses, store, memory, loops, GateQuiet
<1>29. ASSUME NEW t \in Ticket, PartialClose(t) PROVE GateQuiet \/ GateInv'
  BY <1>29 DEF PartialClose, Can
<1>30. ASSUME NEW t \in Ticket, DealLands(t) PROVE GateQuiet \/ GateInv'
  BY <1>30 DEF DealLands, clock, store, flags, loops, memory, GateQuiet,
     Placed
<1>31. CASE Connection
  BY <1>31 DEF Connection, clock, store, flags, loops, memory, GateQuiet,
     Placed
<1>32. ASSUME NEW y \in Symbols, NewBar(y) PROVE GateQuiet \/ GateInv'
  BY <1>32 DEF NewBar, broker, store, flags, loops, memory, GateQuiet, Placed
<1>33. CASE Midnight
  BY <1>33 DEF Midnight, broker, store, flags, loops, memory, GateQuiet,
     Placed
<1>34. ASSUME NEW t \in Ticket, CooldownExpires(t) PROVE GateQuiet \/ GateInv'
  BY <1>34 DEF CooldownExpires, broker, clock, store, flags, loops, GateQuiet,
     Placed
<1>35. CASE Operate
  BY <1>35 DEF Operate, broker, clock, store, loops, memory, GateQuiet, Placed
<1>36. CASE UNCHANGED vars
  BY <1>36 DEF vars, broker, clock, store, flags, loops, memory, GateQuiet,
     Placed
<1>37. QED
  BY <1>1, <1>2, <1>3, <1>4, <1>5, <1>6, <1>7, <1>8, <1>9, <1>10, <1>11,
     <1>12, <1>13, <1>14, <1>15, <1>16, <1>17, <1>18, <1>19, <1>20, <1>21,
     <1>22, <1>23, <1>24, <1>25, <1>26, <1>27, <1>28, <1>29, <1>30, <1>31,
     <1>32, <1>33, <1>34, <1>35, <1>36 DEF Next, BotStep, BrokerStep,
     OtherStep

\* Every position open at the broker has its open row, but for the one being
\* recorded, which has its slot.
LEMMA GateBoundsPositions ==
  ASSUME TypeOK, CurInHand, SettledInv, GateInv
  PROVE  MaxOpenRespected
<1> SUFFICES ASSUME NoOrphans PROVE Cardinality(OpenPositions) <= MaxOpenTrades
  BY DEF MaxOpenRespected
<1>1. \A t \in OpenPositions : t \in OpenRows \/ (pc = "filled" /\ t = cur)
  BY DEF OpenPositions, OpenRows, NoOrphans, Placed, SettledInv, SettledMeansClosed, TypeOK, Row
<1>2. CountsHold /\ MaxOpenTrades \in Nat
  BY DEF GateInv
<1>3. CASE pc = "filled"
  <2>1. OpenPositions \in SUBSET (OpenRows \cup {cur})
    BY <1>1
  <2>2. /\ IsFiniteSet(OpenRows \cup {cur})
        /\ Cardinality(OpenRows \cup {cur}) <= Cardinality(OpenRows) + 1
    BY OpenRowsCount, FS_AddElement
  <2>3. Cardinality(OpenPositions) <= Cardinality(OpenRows \cup {cur})
    BY <2>1, <2>2, FS_Subset
  <2>4. Cardinality(OpenPositions) \in Nat /\ Cardinality(OpenRows \cup {cur}) \in Nat
    BY <2>1, <2>2, FS_Subset, FS_CardinalityType
  <2>5. QED
    BY <1>2, <1>3, <2>2, <2>3, <2>4, OpenRowsCount DEF CountsHold
<1>4. CASE pc # "filled"
  <2>1. OpenPositions \in SUBSET OpenRows
    BY <1>1, <1>4
  <2>2. Cardinality(OpenPositions) <= Cardinality(OpenRows) /\ Cardinality(OpenPositions) \in Nat
    BY <2>1, OpenRowsCount, FS_Subset, FS_CardinalityType
  <2>3. QED
    BY <1>2, <2>2, OpenRowsCount DEF CountsHold
<1>5. QED
  BY <1>3, <1>4

\* The conjunction of everything above is inductive.
LEMMA AllInvariants ==
  ASSUME "partial" \notin Events, "storeFails" \notin Events
  PROVE  /\ Init => TypeOK /\ CurInHand /\ Ledger /\ SettledInv /\ GateInv
         /\ TypeOK /\ CurInHand /\ Ledger /\ SettledInv /\ GateInv /\ [Next]_vars
              => TypeOK' /\ CurInHand' /\ Ledger' /\ SettledInv' /\ GateInv'
<1>1. ASSUME Init PROVE Ledger /\ SettledInv /\ GateInv
  <2>1. OpenRows = {} /\ Cardinality(OpenRows) = 0 /\ MaxOpenTrades \in Nat
    BY <1>1, FS_EmptySet DEF Init, OpenRows, NoRow
  <2>2. QED
    BY <1>1, <2>1 DEF Init, Ledger, RowsHavePositions, FilledIsNew, NoPhantomExposure,
                      SettledInv, SettledMeansClosed, GateInv, CountsHold, NoRow, FreshRisk
<1>2. QED
  BY <1>1, InitTyped, StepTyped, StepLedger, StepSettled, StepGate

\* While the journal can be written and nobody closes part of a position by hand,
\* the gate's counter is the number of open rows, whatever is lost or crashes.
THEOREM CountExact ==
  ASSUME "partial" \notin Events, "storeFails" \notin Events
  PROVE  Spec => []CountMatchesJournal
<1>1. GateInv => CountMatchesJournal
  BY DEF GateInv, CountsHold, CountMatchesJournal
<1>2. QED
  BY <1>1, AllInvariants, PTL DEF Spec

\* Under the same assumptions the broker never holds more than max_open_trades.
THEOREM ExposureBounded ==
  ASSUME "partial" \notin Events, "storeFails" \notin Events
  PROVE  Spec => []MaxOpenRespected
<1>1. TypeOK /\ CurInHand /\ SettledInv /\ GateInv => MaxOpenRespected
  BY GateBoundsPositions
<1>2. QED
  BY <1>1, AllInvariants, PTL DEF Spec
-----------------------------------------------------------------------------
(* The bot never hedges itself.                                            *)

\* Once the guard has let a signal pass, every open position on its symbol has its
\* side, until the order is sent.
SidesInv ==
  /\ connected
  /\ NoOppositeSides
  /\ pc \in {"evaluate", "place"} =>
       \A t \in OpenPositions : pos[t].sym = sig.sym => pos[t].side = sig.side

\* A step that opens no position.
SidesKept ==
  \A t \in Ticket :
    pos'[t].st = "open" =>
      pos[t].st = "open" /\ pos'[t].sym = pos[t].sym /\ pos'[t].side = pos[t].side

SidesQuiet ==
  /\ connected' = connected /\ SidesKept
  /\ pc' \in {"evaluate", "place"} =>
       pc \in {"evaluate", "place"} /\ sig'.sym = sig.sym /\ sig'.side = sig.side

LEMMA QuietKeepsSides == SidesInv /\ SidesQuiet => SidesInv'
BY DEF SidesInv, SidesQuiet, SidesKept, NoOppositeSides, OpenPositions

LEMMA ClosingKeepsSides ==
  ASSUME TypeOK, NEW t \in Ticket, NEW p \in Int, ClosesWith(t, p)
  PROVE  SidesKept
<1>1. pos[t] \in Position /\ day \in 0..MaxDay
  BY DEF TypeOK
<1> DEFINE q == [Deal(t, p) EXCEPT !.st = "closed"]
<1>2. q.st = "closed"
  BY <1>1 DEF Deal, Position
<1>3. pos' = [pos EXCEPT ![t] = q]
  BY DEF ClosesWith
<1> HIDE DEF q
<1>4. QED
  BY <1>2, <1>3 DEF SidesKept, TypeOK

LEMMA FillKeepsSides ==
  ASSUME TypeOK, SidesInv, pc = "place", connected' = connected,
         NEW u \in Ticket, ~Placed(u), NEW risk, Fill(u, risk),
         pc' \notin {"evaluate", "place"}
  PROVE  SidesInv'
<1>1. /\ pos'[u].sym = sig.sym /\ pos'[u].side = sig.side
      /\ \A t \in Ticket \ {u} : pos'[t] = pos[t]
  BY DEF Fill, TypeOK
<1>2. \A t \in Ticket \ {u} : pos'[t].st = "open" /\ pos'[t].sym = sig.sym => pos'[t].side = sig.side
  BY <1>1 DEF SidesInv, OpenPositions
<1>3. NoOppositeSides'
  BY <1>1, <1>2 DEF SidesInv, NoOppositeSides, OpenPositions
<1>4. QED
  BY <1>3 DEF SidesInv

LEMMA StepSides ==
  ASSUME "disconnect" \notin Events
  PROVE  TypeOK /\ CurInHand /\ SidesInv /\ [Next]_vars => SidesInv'
<1> SUFFICES ASSUME TypeOK, CurInHand, SidesInv, [Next]_vars PROVE SidesInv'
  OBVIOUS
<1>0. SidesInv
  OBVIOUS
<1> SUFFICES SidesQuiet \/ SidesInv'
  BY QuietKeepsSides
<1> USE DEF broker, SidesQuiet, SidesKept
<1>1. CASE StartBot \/ TickBegin
  BY <1>1 DEF StartBot, TickBegin, LoseMemory
<1>2. ASSUME NEW t \in Ticket, Trail(t) PROVE SidesQuiet
  <2>1. pos' = pos \/ \E d \in TrailTo : pos' = [pos EXCEPT ![t] = [pos[t] EXCEPT !.stop = d]]
    BY <1>2 DEF Trail
  <2>2. SidesKept
    BY <2>1 DEF TypeOK, Position
  <2> QED
    BY <1>2, <2>2 DEF Trail
<1>3. CASE CloseRejected
  <2>1. cur \in Ticket
    BY <1>3 DEF CloseRejected, CurInHand
  <2>2. UNCHANGED pos \/ \E p \in Pnls : ClosesWith(cur, p)
    BY <1>3 DEF CloseRejected
  <2>3. SidesKept
    BY <2>1, <2>2, ClosingKeepsSides
  <2> QED
    BY <1>3, <2>3 DEF CloseRejected
<1>4. CASE CloseDone
  <2>1. cur \in Ticket
    BY <1>4 DEF CloseDone, CurInHand
  <2>2. \E p \in Pnls : ClosesWith(cur, p)
    BY <1>4 DEF CloseDone
  <2>3. SidesKept
    BY <2>1, <2>2, ClosingKeepsSides
  <2> QED
    BY <1>4, <2>3 DEF CloseDone
<1>5. CASE LeaveOpen \/ BookClose \/ BookCloseFails \/ ManageAborts \/ Sync \/ ReconcileDone \/ ScanDone
  BY <1>5 DEF LeaveOpen, BookClose, BookCloseFails, ManageAborts, Sync, ReconcileDone, ScanDone, EndTick
<1>6. ASSUME NEW t \in Ticket, ReconcileRow(t) PROVE SidesQuiet
  BY <1>6 DEF ReconcileRow
<1>7. ASSUME NEW y \in Symbols, SkipSymbol(y) \/ ScanSymbol(y) PROVE SidesQuiet
  BY <1>7 DEF SkipSymbol, ScanSymbol
<1>8. ASSUME NEW s \in Strategies, StrategyQuiet(s) \/ SignalSeen(s) \/ SignalTaken(s) PROVE SidesQuiet
  BY <1>8 DEF StrategyQuiet, SignalSeen, SignalTaken
<1>9. CASE StrategiesDone \/ BalanceFails \/ RecordOpen \/ RecordOpenFails
  BY <1>9 DEF StrategiesDone, BalanceFails, RecordOpen, RecordOpenFails, NextStrategy, EndTick
<1>10. CASE Guard
  <2>1. CASE pc' = "strategies"
    BY <1>10, <2>1 DEF Guard
  <2>2. CASE pc' # "strategies"
    <3>1. UNCHANGED <<pos, connected, sig>> /\ ~\E t \in OpenOrders : Opposite(t)
      BY <1>10, <2>2 DEF Guard, NextStrategy
    <3>2. \A t \in OpenPositions : pos[t].sym = sig.sym => pos[t].side = sig.side
      BY <1>0, <3>1 DEF OpenOrders, Opposite, SidesInv
    <3> QED
      BY <1>0, <3>1, <3>2 DEF SidesInv, NoOppositeSides, OpenPositions
  <2> QED
    BY <2>1, <2>2
<1>11. CASE Evaluate
  <2>1. pc' = "place" => sig'.sym = sig.sym /\ sig'.side = sig.side
    BY <1>11 DEF Evaluate, NextStrategy, TypeOK, Signal
  <2> QED
    BY <1>11, <2>1 DEF Evaluate, NextStrategy
<1>12. CASE PlaceRejected
  <2>1. CASE UNCHANGED pos
    BY <1>12, <2>1 DEF PlaceRejected, NextStrategy
  <2>2. CASE ~UNCHANGED pos
    <3>1. PICK risk \in Fitted(sig.risk) : CanPlace /\ Fill(NextTicket, risk)
      BY <1>12, <2>2 DEF PlaceRejected
    <3> QED
      BY <1>0, <1>12, <3>1, NextTicketFree, FillKeepsSides DEF PlaceRejected, NextStrategy
  <2> QED
    BY <2>1, <2>2
<1>13. CASE PlaceDone
  <2>1. PICK risk \in Fitted(sig.risk) : CanPlace /\ Fill(NextTicket, risk)
    BY <1>13 DEF PlaceDone
  <2> QED
    BY <1>0, <1>13, <2>1, NextTicketFree, FillKeepsSides DEF PlaceDone
<1>14. ASSUME NEW t \in Ticket, BrokerCloses(t) PROVE SidesQuiet
  <2>1. SidesKept
    BY <1>14, ClosingKeepsSides DEF BrokerCloses
  <2> QED
    BY <1>14, <2>1 DEF BrokerCloses, loops
<1>15. ASSUME NEW t \in Ticket, PartialClose(t) PROVE SidesQuiet
  <2>1. \E p \in Pnls : pos' = [pos EXCEPT ![t] = Deal(t, p)]
    BY <1>15 DEF PartialClose
  <2>2. SidesKept
    BY <2>1 DEF Deal, TypeOK, Position
  <2> QED
    BY <1>15, <2>2 DEF PartialClose, loops
<1>16. ASSUME NEW t \in Ticket, DealLands(t) \/ CooldownExpires(t) PROVE SidesQuiet
  BY <1>16 DEF DealLands, CooldownExpires, loops
<1>17. ASSUME NEW y \in Symbols, NewBar(y) PROVE SidesQuiet
  BY <1>17 DEF NewBar, loops
<1>18. CASE Connection \/ Crash \/ Midnight \/ Operate \/ UNCHANGED vars
  BY <1>18 DEF Connection, Crash, LoseMemory, Midnight, Operate, Can, vars, loops
<1> QED
  BY <1>1, <1>2, <1>3, <1>4, <1>5, <1>6, <1>7, <1>8, <1>9, <1>10, <1>11, <1>12, <1>13, <1>14,
     <1>15, <1>16, <1>17, <1>18 DEF Next, BotStep, BrokerStep, OtherStep

\* While the terminal keeps its session, over crashes, lost replies and everything the
\* broker does between the guard and the order, the bot holds no two opposite sides.
THEOREM NeverHedged ==
  ASSUME "disconnect" \notin Events
  PROVE  Spec => []NoOppositeSides
<1>1. Init => SidesInv
  BY DEF Init, SidesInv, NoOppositeSides, OpenPositions, NoPosition
<1>2. SidesInv => NoOppositeSides
  BY DEF SidesInv
<1> QED
  BY <1>1, <1>2, InitTyped, StepTyped, StepSides, PTL DEF Spec

-----------------------------------------------------------------------------
(* The heat the gate books is the heat of the journal's open rows.         *)

\* Orders of full size, whose stop never moves, and a journal and a terminal that
\* answer: then the refund of a close is what its order booked.
FullSize ==
  /\ {"partial", "storeFails", "disconnect"} \cap Events = {}
  /\ ~MarginScaling /\ TrailTo = {} /\ Weights \subseteq {0, RiskPerTrade}

OpenHeat == SumFunctionOnSet(RowRisk, OpenRows)

HeatInv ==
  /\ connected
  /\ NoOrphans /\ pc # "down" => rs.heat = OpenHeat
  /\ \A t \in Ticket : Placed(t) => pos[t].risk = RiskPerTrade
  /\ \A t \in OpenRows : rows[t].risk = RiskPerTrade
  /\ pc = "place" => sig.risk = RiskPerTrade

LEMMA OpenHeatTyped == TypeOK => OpenHeat \in Nat
<1> SUFFICES ASSUME TypeOK PROVE OpenHeat \in Nat
  OBVIOUS
<1>1. \A t \in OpenRows : RowRisk[t] \in Nat
  BY DEF RowRisk, OpenRows, TypeOK, Row
<1> QED
  BY <1>1, OpenRowsCount, SumNatural DEF OpenHeat

\* A row that is settled takes its own heat with it, and no more.
LEMMA SettleHeat ==
  ASSUME TypeOK, NEW t \in OpenRows, Settle(t), rs.heat = OpenHeat
  PROVE  /\ ClampAtZero(rs.heat - rows[t].risk) = OpenHeat'
         /\ OpenRows' = OpenRows \ {t}
         /\ \A u \in OpenRows' : rows'[u] = rows[u]
         /\ \A u \in Ticket : rows'[u].st = "none" <=> rows[u].st = "none"
<1>1. /\ OpenRows' = OpenRows \ {t}
      /\ \A u \in OpenRows' : rows'[u] = rows[u]
      /\ \A u \in Ticket : rows'[u].st = "none" <=> rows[u].st = "none"
  BY DEF Settle, OpenRows, TypeOK
<1>2. \A u \in OpenRows : RowRisk[u] \in Nat /\ RowRisk[u] = rows[u].risk
  BY DEF RowRisk, OpenRows, TypeOK, Row
<1>3. \A u \in OpenRows \ {t} : RowRisk'[u] = RowRisk[u]
  BY <1>1 DEF RowRisk, OpenRows
<1>4. IsFiniteSet(OpenRows) /\ IsFiniteSet(OpenRows \ {t})
  BY OpenRowsCount, FS_RemoveElement
<1>5. OpenHeat' = SumFunctionOnSet(RowRisk, OpenRows \ {t})
  BY <1>1, <1>2, <1>3, <1>4, SumSame DEF OpenHeat
<1>6. OpenHeat = RowRisk[t] + SumFunctionOnSet(RowRisk, OpenRows \ {t})
  BY <1>2, <1>4, SumRemove DEF OpenHeat
<1>7. SumFunctionOnSet(RowRisk, OpenRows \ {t}) \in Nat
  BY <1>2, <1>4, SumNatural
<1>8. ClampAtZero(rs.heat - rows[t].risk) = OpenHeat'
  BY <1>2, <1>5, <1>6, <1>7 DEF ClampAtZero
<1> QED
  BY <1>1, <1>8

\* A step that leaves the journal's rows and the booked heat alone.
HeatQuiet ==
  /\ connected' = connected /\ rows' = rows
  /\ \A u \in Ticket : /\ Placed(u) => Placed(u)'
                       /\ Placed(u)' => \/ pos'[u].risk = RiskPerTrade
                                        \/ Placed(u) /\ pos'[u].risk = pos[u].risk
  /\ pc' = "filled" => pc = "filled" /\ cur' = cur
  /\ pc' # "down" => pc # "down" /\ rs'.heat = rs.heat
  /\ pc' = "place" => pc = "place" /\ sig'.risk = sig.risk

LEMMA QuietKeepsHeat == HeatInv /\ HeatQuiet => HeatInv'
<1> SUFFICES ASSUME HeatInv, HeatQuiet PROVE HeatInv'
  OBVIOUS
<1>1. OpenRows' = OpenRows /\ OpenHeat' = OpenHeat
  BY DEF HeatQuiet, OpenRows, OpenHeat, RowRisk
<1>2. NoOrphans' => NoOrphans
  BY DEF NoOrphans, HeatQuiet
<1> QED
  BY <1>1, <1>2 DEF HeatInv, HeatQuiet, OpenRows

LEMMA ClosingKeepsRisk ==
  ASSUME TypeOK, NEW t \in Ticket, Placed(t), NEW p \in Int,
         ClosesWith(t, p) \/ pos' = [pos EXCEPT ![t] = Deal(t, p)]
  PROVE  \A u \in Ticket : /\ Placed(u) => Placed(u)'
                           /\ Placed(u)' => Placed(u) /\ pos'[u].risk = pos[u].risk
<1>1. pos[t] \in Position /\ day \in 0..MaxDay
  BY DEF TypeOK
<1>2. PICK q : q = Deal(t, p)
  OBVIOUS
<1>3. q \in Position /\ q.st = pos[t].st /\ q.risk = pos[t].risk
  BY <1>1, <1>2 DEF Deal, Position
<1>5. [q EXCEPT !.st = "closed"].st = "closed" /\ [q EXCEPT !.st = "closed"].risk = q.risk
  BY <1>3 DEF Position
<1>6. pos'[t] \in {q, [q EXCEPT !.st = "closed"]}
  BY <1>2 DEF ClosesWith, TypeOK
<1>4. \A u \in Ticket \ {t} : pos'[u] = pos[u]
  BY DEF ClosesWith, TypeOK
<1> QED
  BY <1>3, <1>4, <1>5, <1>6 DEF Placed
LEMMA StepHeat ==
  ASSUME FullSize
  PROVE  TypeOK /\ CurInHand /\ Ledger /\ GateInv /\ HeatInv /\ [Next]_vars => HeatInv'
<1> SUFFICES ASSUME TypeOK, CurInHand, Ledger, GateInv, HeatInv, [Next]_vars PROVE HeatInv'
  OBVIOUS
<1>0. /\ HeatInv /\ GateInv /\ Ledger
      /\ ~Can("partial") /\ ~Can("storeFails") /\ ~Can("disconnect")
      /\ ~MarginScaling /\ TrailTo = {} /\ Weights \subseteq {0, RiskPerTrade}
  BY DEF FullSize, Can
<1> SUFFICES HeatQuiet \/ HeatInv'
  BY QuietKeepsHeat
<1> USE DEF broker, store, flags, clock, memory, HeatQuiet
<1>1. CASE StartBot
  <2>1. /\ pc = "down" /\ pc' = "idle" /\ UNCHANGED <<pos, rows, connected>>
        /\ rs' = RiskRecord(Cardinality(OpenRows), OpenHeat, FreshRisk.pnl, FreshRisk.reset)
    BY <1>0, <1>1 DEF StartBot, Succeeds, Can, OpenHeat
  <2>2. rs'.heat = OpenHeat /\ OpenHeat' = OpenHeat /\ OpenRows' = OpenRows
    BY <2>1 DEF RiskRecord, OpenHeat, RowRisk, OpenRows
  <2> QED
    BY <1>0, <2>1, <2>2 DEF HeatInv, Placed
<1>2. CASE TickBegin \/ Crash
  BY <1>2 DEF TickBegin, Crash, LoseMemory, Placed
<1>3. ASSUME NEW t \in Ticket, Trail(t) PROVE HeatQuiet
  BY <1>0, <1>3 DEF Trail, Placed
<1>4. CASE CloseRejected \/ CloseDone
  <2>1. \/ UNCHANGED pos
        \/ \E p \in Pnls : Placed(cur) /\ cur \in Ticket /\ ClosesWith(cur, p)
    BY <1>4 DEF CloseRejected, CloseDone, OpenOrders, OpenPositions, Placed
  <2>2. \A u \in Ticket : /\ Placed(u) => Placed(u)'
                          /\ Placed(u)' => Placed(u) /\ pos'[u].risk = pos[u].risk
    BY <2>1, ClosingKeepsRisk DEF Placed
  <2>3. /\ UNCHANGED <<connected, rows, rs>> /\ pc = "trigger" /\ pc' \in {"manage", "closed"}
    BY <1>4 DEF CloseRejected, CloseDone
  <2> QED
    BY <2>2, <2>3
<1>5. CASE LeaveOpen \/ BookCloseFails \/ ManageAborts \/ Sync \/ ReconcileDone \/ ScanDone
  BY <1>5 DEF LeaveOpen, BookCloseFails, ManageAborts, Sync, ReconcileDone, ScanDone, EndTick, Placed
<1>6. CASE BookClose
  <2>1. /\ cur \in Ticket /\ pc = "closed" /\ pc' = "manage" /\ UNCHANGED <<pos, connected>>
        /\ Settle(cur) /\ rs'.heat = ClampAtZero(rs.heat - RiskPerTrade)
    BY <1>6 DEF BookClose, CurInHand, RegisterClosed, RiskRecord
  <2>2. CASE rows[cur].st # "OPEN"
    <3>1. \A u \in Ticket : /\ rows'[u].st = "OPEN" => rows'[u] = rows[u] /\ rows[u].st = "OPEN"
                            /\ rows'[u].st = "none" <=> rows[u].st = "none"
      BY <2>1, <2>2 DEF Settle, TypeOK
    <3>2. ~NoOrphans'
      BY <1>0, <2>1, <2>2, <3>1 DEF GateInv, CountsHold, NoOrphans, Placed
    <3> QED
      BY <1>0, <2>1, <3>1, <3>2 DEF HeatInv, OpenRows, Placed
  <2>3. CASE rows[cur].st = "OPEN"
    <3>1. cur \in OpenRows
      BY <2>1, <2>3 DEF OpenRows
    <3>2. rows[cur].risk = RiskPerTrade
      BY <1>0, <3>1 DEF HeatInv
    <3>3. NoOrphans' => NoOrphans
      <4>1. \A u \in Ticket : rows'[u].st = "none" <=> rows[u].st = "none"
        BY <2>1, <2>3 DEF Settle, TypeOK
      <4> QED
        BY <2>1, <4>1 DEF NoOrphans, Placed
    <3>4. \A u \in OpenRows' : rows'[u] = rows[u] /\ u \in OpenRows
      BY <2>1 DEF Settle, OpenRows, TypeOK
    <3>5. NoOrphans' => rs'.heat = OpenHeat'
      BY <1>0, <2>1, <3>1, <3>2, <3>3, SettleHeat DEF HeatInv
    <3> QED
      BY <1>0, <2>1, <3>4, <3>5 DEF HeatInv, Placed
  <2> QED
    BY <2>2, <2>3
<1>7. ASSUME NEW t \in Ticket, ReconcileRow(t) PROVE HeatQuiet \/ HeatInv'
  <2>1. /\ pc = "reconcile" /\ pc' = "reconcile" /\ UNCHANGED <<pos, connected>>
        /\ t \in OpenRows
    BY <1>0, <1>7 DEF ReconcileRow, GateInv
  <2>2. CASE UNCHANGED <<rows, rs>>
    BY <2>1, <2>2 DEF Placed
  <2>3. CASE Settle(t) /\ rs'.heat = ClampAtZero(rs.heat - rows[t].risk)
    <3>1. NoOrphans => rs.heat = OpenHeat
      BY <1>0, <2>1 DEF HeatInv
    <3>2. /\ OpenRows' = OpenRows \ {t}
          /\ \A u \in OpenRows' : rows'[u] = rows[u]
          /\ \A u \in Ticket : rows'[u].st = "none" <=> rows[u].st = "none"
      BY <2>1, <2>3 DEF Settle, OpenRows, TypeOK
    <3>3. NoOrphans' => NoOrphans
      BY <2>1, <3>2 DEF NoOrphans, Placed
    <3>4. NoOrphans' => rs'.heat = OpenHeat'
      BY <2>1, <2>3, <3>1, <3>3, SettleHeat
    <3> QED
      BY <1>0, <2>1, <3>2, <3>4 DEF HeatInv, Placed
  <2>4. \/ UNCHANGED <<rows, rs>>
        \/ Settle(t) /\ rs' = RegisterClosed(rs, RowRisk[t], pos[t].pnl)
    BY <1>0, <1>7 DEF ReconcileRow, Succeeds
  <2>5. RegisterClosed(rs, RowRisk[t], pos[t].pnl).heat = ClampAtZero(rs.heat - rows[t].risk)
    BY DEF RegisterClosed, RiskRecord, RowRisk
  <2> QED
    BY <2>2, <2>3, <2>4, <2>5
<1>8. ASSUME NEW y \in Symbols, SkipSymbol(y) \/ ScanSymbol(y) PROVE HeatQuiet
  BY <1>8 DEF SkipSymbol, ScanSymbol, Placed
<1>9. ASSUME NEW s \in Strategies, StrategyQuiet(s) \/ SignalSeen(s) \/ SignalTaken(s) PROVE HeatQuiet
  BY <1>9 DEF StrategyQuiet, SignalSeen, SignalTaken, Placed
<1>10. CASE StrategiesDone \/ Guard \/ BalanceFails
  BY <1>10 DEF StrategiesDone, Guard, BalanceFails, NextStrategy, EndTick, Placed
<1>11. CASE Evaluate
  <2>1. /\ pc = "evaluate" /\ UNCHANGED <<pos, rows, connected>> /\ rs'.heat = rs.heat
        /\ pc' \in {"strategies", "place"}
        /\ pc' = "place" => \E risk \in Weights : Approves(rs', risk) /\ sig' = [sig EXCEPT !.risk = risk]
    BY <1>11 DEF Evaluate, NextStrategy, DailyReset, RiskRecord
  <2>2. pc' = "place" => sig'.risk = RiskPerTrade
    BY <1>0, <2>1 DEF Approves, TypeOK, Signal
  <2>3. OpenRows' = OpenRows /\ OpenHeat' = OpenHeat /\ (NoOrphans' => NoOrphans)
    BY <2>1 DEF OpenRows, OpenHeat, RowRisk, NoOrphans, Placed
  <2> QED
    BY <1>0, <2>1, <2>2, <2>3 DEF HeatInv, Placed
<1>12. ASSUME CanPlace, pc = "place", NEW risk \in Fitted(sig.risk), Fill(NextTicket, risk)
       PROVE  /\ \A u \in Ticket : /\ Placed(u) => Placed(u)'
                                   /\ Placed(u)' => pos'[u].risk = RiskPerTrade
              /\ NextTicket \in Ticket /\ ~Placed(NextTicket)
  <2>1. NextTicket \in Ticket /\ ~Placed(NextTicket)
    BY <1>12, NextTicketFree
  <2>2. risk = RiskPerTrade
    BY <1>0, <1>12 DEF Fitted, HeatInv
  <2>3. \A u \in Ticket \ {NextTicket} : pos'[u] = pos[u]
    BY <1>12, <2>1 DEF Fill, TypeOK
  <2>4. pos'[NextTicket].st = "open" /\ pos'[NextTicket].risk = RiskPerTrade
    BY <1>12, <2>1, <2>2 DEF Fill, TypeOK
  <2> QED
    BY <1>0, <2>1, <2>3, <2>4 DEF HeatInv, Placed
<1>13. CASE PlaceRejected
  <2>1. CASE UNCHANGED pos
    BY <1>13, <2>1 DEF PlaceRejected, NextStrategy, Placed
  <2>2. CASE ~UNCHANGED pos
    <3>1. PICK risk \in Fitted(sig.risk) : pc = "place" /\ CanPlace /\ Fill(NextTicket, risk)
      BY <1>13, <2>2 DEF PlaceRejected
    <3>2. \A u \in Ticket : /\ Placed(u) => Placed(u)'
                            /\ Placed(u)' => pos'[u].risk = RiskPerTrade
      BY <1>12, <3>1
    <3>3. pc = "place" /\ pc' = "strategies" /\ UNCHANGED <<connected, rows, rs>>
      BY <1>13 DEF PlaceRejected, NextStrategy
    <3> QED
      BY <3>2, <3>3 DEF Placed
  <2> QED
    BY <2>1, <2>2
<1>14. CASE PlaceDone
  <2>1. /\ \A u \in Ticket : /\ Placed(u) => Placed(u)'
                             /\ Placed(u)' => pos'[u].risk = RiskPerTrade
        /\ NextTicket \in Ticket /\ ~Placed(NextTicket)
    BY <1>12, <1>14 DEF PlaceDone
  <2>2. pc = "place" /\ pc' = "filled" /\ cur' = NextTicket /\ UNCHANGED <<rows, rs, connected>>
    BY <1>14 DEF PlaceDone
  <2>3. OpenRows' = OpenRows /\ OpenHeat' = OpenHeat
    BY <2>2 DEF OpenRows, OpenHeat, RowRisk
  <2>4. NoOrphans' => NoOrphans
    BY <2>1, <2>2 DEF NoOrphans
  <2> QED
    BY <1>0, <2>1, <2>2, <2>3, <2>4 DEF HeatInv
<1>15. CASE RecordOpen
  <2>1. /\ cur \in Ticket /\ rows[cur].st = "none" /\ Placed(cur) /\ pc = "filled"
        /\ pc' = "strategies" /\ UNCHANGED <<pos, connected>>
        /\ rs'.heat = rs.heat + pos[cur].risk
        /\ rows' = [rows EXCEPT ![cur] = OpenRow(pos[cur].risk)]
    BY <1>0, <1>15 DEF RecordOpen, NextStrategy, CurInHand, Ledger, FilledIsNew, RegisterOpened,
                       RiskRecord
  <2>2. pos[cur].risk = RiskPerTrade
    BY <1>0, <2>1 DEF HeatInv
  <2>3. /\ OpenRows' = OpenRows \cup {cur} /\ cur \notin OpenRows
        /\ \A u \in OpenRows : rows'[u] = rows[u]
        /\ rows'[cur].st = "OPEN" /\ rows'[cur].risk = RiskPerTrade
        /\ \A u \in Ticket \ {cur} : rows'[u] = rows[u]
    BY <2>1, <2>2 DEF OpenRows, OpenRow, TypeOK
  <2>4. NoOrphans' => NoOrphans
    BY <2>1, <2>3 DEF NoOrphans, Placed
  <2>5. OpenHeat' = RiskPerTrade + OpenHeat /\ OpenHeat \in Nat
    <3>1. IsFiniteSet(OpenRows) /\ OpenHeat \in Nat
      BY OpenRowsCount, OpenHeatTyped
    <3>2. \A u \in OpenRows : RowRisk[u] \in Int /\ RowRisk'[u] = RowRisk[u]
      BY <2>3 DEF RowRisk, OpenRows, TypeOK, Row
    <3>3. RowRisk'[cur] = RiskPerTrade
      BY <2>1, <2>3 DEF RowRisk
    <3>4. SumFunctionOnSet(RowRisk', OpenRows \cup {cur})
            = RiskPerTrade + SumFunctionOnSet(RowRisk', OpenRows)
      <4>1. \A u \in OpenRows \cup {cur} : RowRisk'[u] \in Int
        BY <3>2, <3>3
      <4> QED
        BY <2>3, <3>1, <3>3, <4>1, SumAdd
    <3>5. SumFunctionOnSet(RowRisk', OpenRows) = OpenHeat
      BY <3>1, <3>2, SumSame DEF OpenHeat
    <3> QED
      BY <2>3, <3>1, <3>4, <3>5 DEF OpenHeat
  <2>6. NoOrphans' => rs'.heat = OpenHeat'
    BY <1>0, <2>1, <2>2, <2>4, <2>5 DEF HeatInv
  <2> QED
    BY <1>0, <2>1, <2>3, <2>6 DEF HeatInv, Placed
<1>16. CASE RecordOpenFails
  BY <1>16, <1>0 DEF RecordOpenFails
<1>17. ASSUME NEW t \in Ticket, BrokerCloses(t) \/ PartialClose(t) PROVE HeatQuiet
  <2>1. \A u \in Ticket : /\ Placed(u) => Placed(u)'
                          /\ Placed(u)' => Placed(u) /\ pos'[u].risk = pos[u].risk
    BY <1>17, ClosingKeepsRisk DEF BrokerCloses, PartialClose, Placed
  <2> QED
    BY <1>17, <2>1 DEF BrokerCloses, PartialClose, loops
<1>18. ASSUME NEW t \in Ticket, DealLands(t) \/ CooldownExpires(t) PROVE HeatQuiet
  BY <1>18 DEF DealLands, CooldownExpires, loops, Placed
<1>19. ASSUME NEW y \in Symbols, NewBar(y) PROVE HeatQuiet
  BY <1>19 DEF NewBar, loops, Placed
<1>20. CASE Connection \/ Midnight \/ Operate \/ UNCHANGED vars
  BY <1>20, <1>0 DEF Connection, Midnight, Operate, vars, loops, Placed
<1> QED
  BY <1>1, <1>2, <1>3, <1>4, <1>5, <1>6, <1>7, <1>8, <1>9, <1>10, <1>11, <1>13, <1>14,
     <1>15, <1>16, <1>17, <1>18, <1>19, <1>20 DEF Next, BotStep, BrokerStep, OtherStep

\* Over fills, both ways of closing, crashes and seeding, lost replies and late deals,
\* the heat in memory is the heat of the journal's open rows.
THEOREM HeatExact ==
  ASSUME FullSize
  PROVE  Spec => []HeatMatchesJournal
<1>1. "partial" \notin Events /\ "storeFails" \notin Events
  BY DEF FullSize
<1>2. Init => HeatInv
  BY DEF Init, HeatInv, NoPosition, NoRow, Placed, OpenRows
<1>3. HeatInv => HeatMatchesJournal
  BY DEF HeatInv, HeatMatchesJournal, OpenHeat
<1> QED
  BY <1>1, <1>2, <1>3, AllInvariants, StepHeat, PTL DEF Spec

-----------------------------------------------------------------------------
(* The circuit breaker knows every loss the journal shows.                 *)

\* One day in the life of one process: a new process starts with an empty RiskState,
\* and a loss booked between midnight and the next evaluate() counts for the day before.
OneDay == MaxDay = 1 /\ {"partial", "crash", "operator"} \cap Events = {}

ClosedRows == {t \in Ticket : rows[t].st = "CLOSED"}
RowPnl == [t \in Ticket |-> rows[t].pnl]
BookedToday == SumFunctionOnSet(RowPnl, ClosedRows)

DayInv ==
  /\ ~killed
  /\ pc = "down" => rs.pnl = 0
  /\ NoOrphans => rs.pnl = BookedToday
  /\ NoOrphans /\ pc = "place" => -rs.pnl < DailyLossLimit
  /\ \A t \in Ticket : pos[t].st = "closed" => pos[t].day = 1
  /\ \A t \in ClosedRows : rows[t].day = 1
  /\ pc = "reconcile" => todo \subseteq OpenRows
  /\ pc = "closed" => pos[cur].st = "closed" /\ (NoOrphans => rows[cur].st = "OPEN")

LEMMA ClosedRowsFinite == IsFiniteSet(ClosedRows) /\ ClosedRows \subseteq Ticket
<1>1. IsFiniteSet(Ticket) /\ ClosedRows \in SUBSET Ticket
  BY FS_Interval DEF Ticket, ClosedRows
<1> QED
  BY <1>1, FS_Subset

\* A step that neither settles a row nor books a result.
DayQuiet ==
  /\ killed' = killed /\ rows' = rows /\ rs'.pnl = rs.pnl
  /\ \A u \in Ticket : /\ Placed(u) => Placed(u)'
                       /\ pos[u].st = "closed" => pos'[u].st = "closed"
                       /\ pos'[u].st = "closed" => \/ pos'[u].day = 1
                                                   \/ pos[u].st = "closed" /\ pos'[u].day = pos[u].day
  /\ pc' = "filled" => pc = "filled" /\ cur' = cur
  /\ pc' = "closed" => pc = "closed" /\ cur' = cur
  /\ pc' = "down" => pc = "down"
  /\ pc' = "place" => pc = "place"
  /\ pc' = "reconcile" => pc = "reconcile" /\ todo' \subseteq todo

LEMMA QuietKeepsDay == CurInHand /\ DayInv /\ DayQuiet => DayInv'
<1> SUFFICES ASSUME CurInHand, DayInv, DayQuiet PROVE DayInv'
  OBVIOUS
<1>1. ClosedRows' = ClosedRows /\ OpenRows' = OpenRows /\ BookedToday' = BookedToday
  BY DEF DayQuiet, ClosedRows, OpenRows, BookedToday, RowPnl
<1>2. NoOrphans' => NoOrphans
  BY DEF NoOrphans, DayQuiet
<1>3. pc' = "closed" => pos'[cur'].st = "closed" /\ (NoOrphans' => rows'[cur'].st = "OPEN")
  BY <1>2 DEF DayInv, DayQuiet, CurInHand
<1> QED
  BY <1>1, <1>2, <1>3 DEF DayInv, DayQuiet, ClosedRows

\* A deal is booked today.
LEMMA ClosingBooksToday ==
  ASSUME TypeOK, MaxDay = 1, NEW t \in Ticket, NEW p \in Int, ClosesWith(t, p)
  PROVE  /\ pos'[t].st = "closed" /\ pos'[t].day = 1
         /\ \A u \in Ticket \ {t} : pos'[u] = pos[u]
         /\ \A u \in Ticket : /\ Placed(u) => Placed(u)'
                              /\ pos[u].st = "closed" => pos'[u].st = "closed"
                              /\ pos'[u].st = "closed" => \/ pos'[u].day = 1
                                                          \/ pos[u].st = "closed" /\ pos'[u].day = pos[u].day
<1>1. pos[t] \in Position /\ day = 1
  BY DEF TypeOK
<1>2. PICK q : q = Deal(t, p)
  OBVIOUS
<1>3. q \in Position /\ q.day = 1
  <2>1. PICK r : r = [pos[t] EXCEPT !.pnl = p]
    OBVIOUS
  <2>2. r \in Position
    BY <1>1, <2>1 DEF Position
  <2>3. q = [r EXCEPT !.day = day]
    BY <1>2, <2>1 DEF Deal
  <2> QED
    BY <1>1, <2>2, <2>3 DEF Position
<1>4. [q EXCEPT !.st = "closed"].st = "closed" /\ [q EXCEPT !.st = "closed"].day = 1
  BY <1>3 DEF Position
<1>5. pos' = [pos EXCEPT ![t] = [q EXCEPT !.st = "closed"]]
  BY <1>2 DEF ClosesWith
<1>6. /\ pos'[t].st = "closed" /\ pos'[t].day = 1
      /\ \A u \in Ticket \ {t} : pos'[u] = pos[u]
  BY <1>4, <1>5 DEF TypeOK
<1>7. ASSUME NEW u \in Ticket
      PROVE  /\ Placed(u) => Placed(u)'
             /\ pos[u].st = "closed" => pos'[u].st = "closed"
             /\ pos'[u].st = "closed" => \/ pos'[u].day = 1
                                         \/ pos[u].st = "closed" /\ pos'[u].day = pos[u].day
  <2>1. CASE u = t
    BY <1>6, <2>1 DEF Placed
  <2>2. CASE u # t
    BY <1>6, <2>2 DEF Placed
  <2> QED
    BY <2>1, <2>2
<1> QED
  BY <1>6, <1>7

\* A row settled with the result of its position adds that result to the day.
LEMMA SettleBooks ==
  ASSUME TypeOK, NEW t \in OpenRows, Settle(t), pos[t].day = 1, pos' = pos
  PROVE  /\ BookedToday' = BookedToday + pos[t].pnl
         /\ ClosedRows' = ClosedRows \cup {t} /\ OpenRows' = OpenRows \ {t}
         /\ rows'[t].day = 1
         /\ \A u \in Ticket \ {t} : rows'[u] = rows[u]
         /\ \A u \in Ticket : rows'[u].st = "none" <=> rows[u].st = "none"
<1>1. /\ rows'[t].st = "CLOSED" /\ rows'[t].pnl = pos[t].pnl /\ rows'[t].day = 1
      /\ \A u \in Ticket \ {t} : rows'[u] = rows[u]
      /\ t \in Ticket /\ rows[t].st = "OPEN" /\ pos[t].pnl \in Int
  BY DEF Settle, OpenRows, TypeOK, Position
<1>2. ClosedRows' = ClosedRows \cup {t} /\ OpenRows' = OpenRows \ {t} /\ t \notin ClosedRows
  BY <1>1 DEF ClosedRows, OpenRows
<1>3. /\ \A u \in ClosedRows : RowPnl[u] \in Int /\ RowPnl'[u] = RowPnl[u]
      /\ RowPnl'[t] = pos[t].pnl
  BY <1>1, <1>2 DEF RowPnl, ClosedRows, TypeOK, Row
<1>4. \A u \in ClosedRows \cup {t} : RowPnl'[u] \in Int
  BY <1>1, <1>3
<1>5. SumFunctionOnSet(RowPnl', ClosedRows \cup {t})
        = pos[t].pnl + SumFunctionOnSet(RowPnl', ClosedRows)
  BY <1>2, <1>3, <1>4, ClosedRowsFinite, SumAdd
<1>6. SumFunctionOnSet(RowPnl', ClosedRows) = BookedToday
  BY <1>3, ClosedRowsFinite, SumSame DEF BookedToday
<1>7. BookedToday \in Int
  BY <1>3, ClosedRowsFinite, SumTyped DEF BookedToday
<1>8. BookedToday' = BookedToday + pos[t].pnl
  BY <1>1, <1>2, <1>5, <1>6, <1>7 DEF BookedToday
<1> QED
  BY <1>1, <1>2, <1>8
LEMMA StepDay ==
  ASSUME OneDay
  PROVE  TypeOK /\ CurInHand /\ Ledger /\ SettledInv /\ DayInv /\ [Next]_vars => DayInv'
<1> SUFFICES ASSUME TypeOK, CurInHand, Ledger, SettledInv, DayInv, [Next]_vars PROVE DayInv'
  OBVIOUS
<1>0. /\ DayInv /\ Ledger /\ SettledInv /\ MaxDay = 1 /\ day = 1
      /\ ~Can("partial") /\ ~Can("crash") /\ ~Can("operator")
  BY DEF OneDay, Can, TypeOK
<1> SUFFICES DayQuiet \/ DayInv'
  BY QuietKeepsDay
<1> USE DEF broker, store, flags, clock, memory, DayQuiet
<1>1. CASE StartBot
  <2>1. /\ pc = "down" /\ pc' = "idle" /\ rs'.pnl = 0 /\ UNCHANGED <<pos, rows, killed>>
    BY <1>1 DEF StartBot, RiskRecord, FreshRisk
  <2>2. rs'.pnl = rs.pnl
    BY <1>0, <2>1 DEF DayInv
  <2> QED
    BY <2>1, <2>2 DEF Placed
<1>2. CASE TickBegin
  <2>1. ~KillSeen
    BY <1>0 DEF DayInv, KillSeen
  <2> QED
    BY <1>2, <2>1 DEF TickBegin, Placed
<1>3. ASSUME NEW t \in Ticket, Trail(t) PROVE DayQuiet \/ DayInv'
  <2>1. pos' = pos \/ \E d \in TrailTo : pos' = [pos EXCEPT ![t] = [pos[t] EXCEPT !.stop = d]]
    BY <1>3 DEF Trail
  <2>2. \A u \in Ticket : pos'[u].st = pos[u].st /\ pos'[u].day = pos[u].day
                          /\ pos'[u].pnl = pos[u].pnl
    BY <2>1 DEF TypeOK, Position
  <2>3. /\ pc = "manage" /\ pc' = "trigger" /\ UNCHANGED <<rs, killed>>
        /\ rows' = rows \/ \E d \in TrailTo : rows' = PatchStop(t, d)
    BY <1>3 DEF Trail
  <2>4. \A u \in Ticket : /\ rows'[u].st = rows[u].st /\ rows'[u].pnl = rows[u].pnl
                          /\ rows'[u].day = rows[u].day
    BY <2>3 DEF PatchStop, TypeOK, Row
  <2>5. ClosedRows' = ClosedRows
    BY <2>4 DEF ClosedRows
  <2>6. BookedToday' = BookedToday
    <3>1. RowPnl' = RowPnl
      BY <2>4 DEF RowPnl
    <3> QED
      BY <2>5, <3>1 DEF BookedToday
  <2>7. NoOrphans' => NoOrphans
    BY <2>2, <2>3, <2>4 DEF NoOrphans, Placed
  <2> QED
    BY <1>0, <2>2, <2>3, <2>4, <2>5, <2>6, <2>7 DEF DayInv, ClosedRows
<1>4. CASE CloseRejected
  <2>1. cur \in Ticket /\ pc = "trigger" /\ pc' = "manage" /\ UNCHANGED <<rows, rs, killed>>
    BY <1>4 DEF CloseRejected, CurInHand
  <2>2. CASE UNCHANGED pos
    BY <2>1, <2>2 DEF Placed
  <2>3. CASE ~UNCHANGED pos
    <3>1. \E p \in Pnls : ClosesWith(cur, p)
      BY <1>4, <2>3 DEF CloseRejected
    <3>2. \A u \in Ticket : /\ Placed(u) => Placed(u)'
                            /\ pos[u].st = "closed" => pos'[u].st = "closed"
                            /\ pos'[u].st = "closed" => \/ pos'[u].day = 1
                                                        \/ pos[u].st = "closed" /\ pos'[u].day = pos[u].day
      BY <1>0, <2>1, <3>1, ClosingBooksToday
    <3> QED
      BY <2>1, <3>2
  <2> QED
    BY <2>2, <2>3
<1>5. CASE CloseDone
  <2>1. /\ cur \in OpenPositions /\ cur \in Ticket /\ pc = "trigger" /\ pc' = "closed"
        /\ UNCHANGED <<rows, rs, cur, killed>>
    BY <1>5 DEF CloseDone, OpenOrders, OpenPositions, loops
  <2>2. \E p \in Pnls : ClosesWith(cur, p)
    BY <1>5 DEF CloseDone
  <2>3. pos'[cur].st = "closed" /\ pos'[cur].day = 1 /\ \A u \in Ticket \ {cur} : pos'[u] = pos[u]
    BY <1>0, <2>1, <2>2, ClosingBooksToday
  <2>4. /\ ClosedRows' = ClosedRows /\ OpenRows' = OpenRows /\ BookedToday' = BookedToday
        /\ NoOrphans' => NoOrphans
    BY <2>1, <2>3 DEF ClosedRows, OpenRows, BookedToday, RowPnl, NoOrphans, Placed
  <2>5. NoOrphans => rows[cur].st = "OPEN"
    <3>1. NoOrphans => rows[cur].st # "none"
      BY <2>1 DEF NoOrphans, OpenPositions, Placed
    <3>2. rows[cur].st # "CLOSED"
      BY <1>0, <2>1 DEF SettledInv, SettledMeansClosed, OpenPositions
    <3> QED
      BY <2>1, <3>1, <3>2 DEF TypeOK, Row
  <2> QED
    BY <1>0, <2>1, <2>3, <2>4, <2>5 DEF DayInv, ClosedRows
<1>6. CASE LeaveOpen \/ BookCloseFails \/ ManageAborts \/ ReconcileDone \/ ScanDone
  BY <1>6 DEF LeaveOpen, BookCloseFails, ManageAborts, ReconcileDone, ScanDone, EndTick, Placed
<1>7. CASE BookClose
  <2>1. /\ cur \in Ticket /\ pc = "closed" /\ pc' = "manage" /\ UNCHANGED <<pos, killed>>
        /\ Settle(cur) /\ rs'.pnl = rs.pnl + pos[cur].pnl
    BY <1>7 DEF BookClose, CurInHand, RegisterClosed, RiskRecord
  <2>2. pos[cur].st = "closed" /\ pos[cur].day = 1 /\ (NoOrphans => cur \in OpenRows)
    BY <1>0, <2>1 DEF DayInv, OpenRows
  <2>3. CASE cur \in OpenRows
    <3>1. /\ BookedToday' = BookedToday + pos[cur].pnl
          /\ ClosedRows' = ClosedRows \cup {cur} /\ rows'[cur].day = 1
          /\ \A u \in Ticket \ {cur} : rows'[u] = rows[u]
          /\ \A u \in Ticket : rows'[u].st = "none" <=> rows[u].st = "none"
      BY <2>1, <2>2, <2>3, SettleBooks
    <3>2. NoOrphans' => NoOrphans
      BY <2>1, <3>1 DEF NoOrphans, Placed
    <3>3. NoOrphans' => rs'.pnl = BookedToday'
      BY <1>0, <2>1, <3>1, <3>2 DEF DayInv
    <3> QED
      BY <1>0, <2>1, <3>1, <3>3 DEF DayInv, ClosedRows
  <2>4. CASE cur \notin OpenRows
    <3>1. \A u \in Ticket : /\ u # cur => rows'[u] = rows[u]
                            /\ rows'[u].st = "none" <=> rows[u].st = "none"
                            /\ rows'[u].st = "CLOSED" => rows'[u].day = 1
      BY <1>0, <2>1, <2>2 DEF Settle, TypeOK, DayInv, ClosedRows
    <3>2. ~NoOrphans'
      BY <2>1, <2>2, <2>4, <3>1 DEF NoOrphans, Placed
    <3> QED
      BY <1>0, <2>1, <3>1, <3>2 DEF DayInv, ClosedRows
  <2> QED
    BY <2>3, <2>4
<1>8. CASE Sync
  <2>1. pc = "manage" /\ pc' \in {"scan", "reconcile"} /\ UNCHANGED <<pos, rows, rs, killed>>
    BY <1>8 DEF Sync
  <2>2. /\ ClosedRows' = ClosedRows /\ OpenRows' = OpenRows /\ BookedToday' = BookedToday
        /\ NoOrphans' => NoOrphans
    BY <2>1 DEF ClosedRows, OpenRows, BookedToday, RowPnl, NoOrphans, Placed
  <2>3. pc' = "reconcile" => todo' \subseteq OpenRows
    BY <1>8 DEF Sync
  <2> QED
    BY <1>0, <2>1, <2>2, <2>3 DEF DayInv, ClosedRows
<1>9. ASSUME NEW t \in Ticket, ReconcileRow(t) PROVE DayQuiet \/ DayInv'
  <2>1. /\ pc = "reconcile" /\ pc' = "reconcile" /\ UNCHANGED <<pos, killed>>
        /\ t \in todo /\ todo' = todo \ {t} /\ todo \subseteq OpenRows
    BY <1>0, <1>9 DEF ReconcileRow, DayInv
  <2>2. CASE UNCHANGED <<rows, rs>>
    BY <2>1, <2>2 DEF Placed
  <2>3. CASE CloseInfo(t) /\ Settle(t) /\ rs'.pnl = rs.pnl + pos[t].pnl
    <3>1. pos[t].st = "closed" /\ pos[t].day = 1
      BY <1>0, <2>3 DEF CloseInfo, SettledInv, DayInv
    <3>2. /\ BookedToday' = BookedToday + pos[t].pnl
          /\ ClosedRows' = ClosedRows \cup {t} /\ rows'[t].day = 1 /\ OpenRows' = OpenRows \ {t}
          /\ \A u \in Ticket \ {t} : rows'[u] = rows[u]
          /\ \A u \in Ticket : rows'[u].st = "none" <=> rows[u].st = "none"
      BY <2>1, <2>3, <3>1, SettleBooks
    <3>3. NoOrphans' => NoOrphans
      BY <2>1, <3>2 DEF NoOrphans, Placed
    <3>4. NoOrphans' => rs'.pnl = BookedToday'
      BY <1>0, <2>3, <3>2, <3>3 DEF DayInv
    <3>5. todo' \subseteq OpenRows'
      BY <2>1, <3>2
    <3> QED
      BY <1>0, <2>1, <3>2, <3>4, <3>5 DEF DayInv, ClosedRows
  <2>4. \/ UNCHANGED <<rows, rs>>
        \/ CloseInfo(t) /\ Settle(t) /\ \E refund : rs' = RegisterClosed(rs, refund, pos[t].pnl)
    BY <1>9 DEF ReconcileRow
  <2>5. \A refund : RegisterClosed(rs, refund, pos[t].pnl).pnl = rs.pnl + pos[t].pnl
    BY DEF RegisterClosed, RiskRecord
  <2> QED
    BY <2>2, <2>3, <2>4, <2>5
<1>10. ASSUME NEW y \in Symbols, SkipSymbol(y) \/ ScanSymbol(y) PROVE DayQuiet
  BY <1>10 DEF SkipSymbol, ScanSymbol, Placed
<1>11. ASSUME NEW s \in Strategies, StrategyQuiet(s) \/ SignalSeen(s) \/ SignalTaken(s) PROVE DayQuiet
  BY <1>11 DEF StrategyQuiet, SignalSeen, SignalTaken, Placed
<1>12. CASE StrategiesDone \/ Guard \/ BalanceFails
  BY <1>12 DEF StrategiesDone, Guard, BalanceFails, NextStrategy, EndTick, Placed
<1>13. CASE Evaluate
  <2>1. /\ pc = "evaluate" /\ UNCHANGED <<pos, rows, killed>> /\ rs' = DailyReset(rs, day)
        /\ pc' \in {"strategies", "place"}
        /\ pc' = "place" => \E risk \in Weights : Approves(rs', risk)
    BY <1>13 DEF Evaluate, NextStrategy
  <2>2. rs'.pnl = rs.pnl
    BY <1>0, <2>1 DEF DailyReset, RiskRecord, TypeOK, RiskTyped, Never
  <2>3. pc' = "place" => -rs'.pnl < DailyLossLimit
    BY <2>1 DEF Approves
  <2>4. /\ ClosedRows' = ClosedRows /\ BookedToday' = BookedToday /\ (NoOrphans' => NoOrphans)
    BY <2>1 DEF ClosedRows, BookedToday, RowPnl, NoOrphans, Placed
  <2> QED
    BY <1>0, <2>1, <2>2, <2>3, <2>4 DEF DayInv, ClosedRows
<1>14. ASSUME CanPlace, NEW risk, Fill(NextTicket, risk)
       PROVE  /\ NextTicket \in Ticket /\ ~Placed(NextTicket)
              /\ pos'[NextTicket].st = "open"
              /\ \A u \in Ticket \ {NextTicket} : pos'[u] = pos[u]
  <2>1. NextTicket \in Ticket /\ ~Placed(NextTicket)
    BY <1>14, NextTicketFree
  <2> QED
    BY <1>14, <2>1 DEF Fill, TypeOK
<1>15. CASE PlaceRejected
  <2>1. pc = "place" /\ pc' = "strategies" /\ UNCHANGED <<rows, rs, killed>>
    BY <1>15 DEF PlaceRejected, NextStrategy
  <2>2. CASE UNCHANGED pos
    BY <2>1, <2>2 DEF Placed
  <2>3. CASE ~UNCHANGED pos
    <3>1. PICK risk : CanPlace /\ Fill(NextTicket, risk)
      BY <1>15, <2>3 DEF PlaceRejected
    <3>2. PICK n \in Ticket : /\ ~Placed(n) /\ pos'[n].st = "open"
                              /\ \A u \in Ticket \ {n} : pos'[u] = pos[u]
      BY <1>14, <3>1
    <3> QED
      BY <2>1, <3>2 DEF Placed
  <2> QED
    BY <2>2, <2>3
<1>16. CASE PlaceDone
  <2>1. PICK risk : CanPlace /\ Fill(NextTicket, risk)
    BY <1>16 DEF PlaceDone
  <2>2. PICK n \in Ticket : /\ n = NextTicket /\ ~Placed(n) /\ pos'[n].st = "open"
                            /\ \A u \in Ticket \ {n} : pos'[u] = pos[u]
    BY <1>14, <2>1
  <2>3. pc = "place" /\ pc' = "filled" /\ cur' = n /\ UNCHANGED <<rows, rs, killed>>
    BY <1>16, <2>2 DEF PlaceDone
  <2>4. ClosedRows' = ClosedRows /\ BookedToday' = BookedToday
    BY <2>3 DEF ClosedRows, BookedToday, RowPnl
  <2>5. NoOrphans' => NoOrphans
    BY <2>2, <2>3 DEF NoOrphans, Placed
  <2> QED
    BY <1>0, <2>2, <2>3, <2>4, <2>5 DEF DayInv, ClosedRows
<1>17. CASE RecordOpen
  <2>1. /\ cur \in Ticket /\ rows[cur].st = "none" /\ Placed(cur) /\ pc = "filled"
        /\ pc' = "strategies" /\ UNCHANGED <<pos, killed>> /\ rs'.pnl = rs.pnl
        /\ rows' = [rows EXCEPT ![cur] = OpenRow(pos[cur].risk)]
    BY <1>0, <1>17 DEF RecordOpen, NextStrategy, CurInHand, Ledger, FilledIsNew, RegisterOpened,
                       RiskRecord
  <2>2. rows'[cur].st = "OPEN" /\ \A u \in Ticket \ {cur} : rows'[u] = rows[u]
    BY <2>1 DEF OpenRow, TypeOK
  <2>3. ClosedRows' = ClosedRows /\ \A u \in ClosedRows : rows'[u] = rows[u]
    BY <2>1, <2>2 DEF ClosedRows
  <2>4. BookedToday' = BookedToday
    <3>1. \A u \in ClosedRows : RowPnl[u] \in Int /\ RowPnl'[u] = RowPnl[u]
      BY <2>3 DEF RowPnl, ClosedRows, TypeOK, Row
    <3> QED
      BY <2>3, <3>1, ClosedRowsFinite, SumSame DEF BookedToday
  <2>5. NoOrphans' => NoOrphans
    BY <2>1, <2>2 DEF NoOrphans, Placed
  <2> QED
    BY <1>0, <2>1, <2>3, <2>4, <2>5 DEF DayInv
<1>18. CASE RecordOpenFails
  BY <1>18 DEF RecordOpenFails, EndTick, Placed
<1>19. ASSUME NEW t \in Ticket, BrokerCloses(t) PROVE DayQuiet
  <2>1. \E p \in Pnls : ClosesWith(t, p)
    BY <1>19 DEF BrokerCloses
  <2>2. \A u \in Ticket : /\ Placed(u) => Placed(u)'
                          /\ pos[u].st = "closed" => pos'[u].st = "closed"
                          /\ pos'[u].st = "closed" => \/ pos'[u].day = 1
                                                      \/ pos[u].st = "closed" /\ pos'[u].day = pos[u].day
    BY <1>0, <2>1, ClosingBooksToday
  <2> QED
    BY <1>19, <2>2 DEF BrokerCloses, store, flags, memory, loops
<1>20. ASSUME NEW t \in Ticket, PartialClose(t) \/ DealLands(t) \/ CooldownExpires(t) PROVE DayQuiet
  BY <1>0, <1>20 DEF PartialClose, DealLands, CooldownExpires, loops, Placed
<1>21. ASSUME NEW y \in Symbols, NewBar(y) PROVE DayQuiet
  BY <1>21 DEF NewBar, loops, Placed
<1>22. CASE Crash \/ Connection \/ Midnight \/ Operate \/ UNCHANGED vars
  BY <1>0, <1>22 DEF Crash, Connection, Midnight, Operate, vars, loops, Placed
<1> QED
  BY <1>1, <1>2, <1>3, <1>4, <1>5, <1>6, <1>7, <1>8, <1>9, <1>10, <1>11, <1>12, <1>13,
     <1>15, <1>16, <1>17, <1>18, <1>19, <1>20, <1>21, <1>22 DEF Next, BotStep, BrokerStep, OtherStep

\* Whatever way a trade was closed, with lost replies, late deals, an unwritable
\* journal or a dropped session in between: no order leaves once the journal shows
\* the day's limit lost.
THEOREM BreakerHolds ==
  ASSUME OneDay
  PROVE  Spec => []DailyLossBreaker
<1>1. "partial" \notin Events
  BY DEF OneDay
<1>2. Init => DayInv /\ SettledInv /\ Ledger
  <2> SUFFICES ASSUME Init PROVE DayInv /\ SettledInv /\ Ledger
    OBVIOUS
  <2>1. ClosedRows = {} /\ BookedToday = 0 /\ OpenRows = {} /\ Cardinality(OpenRows) = 0
    BY SumEmpty, FS_EmptySet DEF Init, ClosedRows, NoRow, BookedToday, OpenRows
  <2> QED
    BY <2>1 DEF Init, DayInv, FreshRisk, NoPosition, NoRow, SettledInv, SettledMeansClosed, Ledger,
                RowsHavePositions, FilledIsNew, NoPhantomExposure
<1>3. TypeOK /\ DayInv => DailyLossBreaker
  <2> SUFFICES ASSUME TypeOK, DayInv, NoOrphans, pc = "place" PROVE LossToday < DailyLossLimit
    BY DEF DailyLossBreaker
  <2>1. ClosedRows = {t \in Ticket : rows[t].st = "CLOSED" /\ rows[t].day = day}
    BY <1>1 DEF DayInv, ClosedRows, TypeOK, OneDay
  <2>2. LossToday = -BookedToday
    BY <2>1 DEF LossToday, BookedToday, RowPnl
  <2> QED
    BY <2>2 DEF DayInv
<1> QED
  BY <1>1, <1>2, <1>3, InitTyped, StepTyped, StepLedger, StepSettled, StepDay, PTL DEF Spec


=============================================================================
