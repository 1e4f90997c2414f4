---------------------------- MODULE CopierProofs ----------------------------
(***************************************************************************)
(* Theorems about Copier: for every number of trades, strategies and       *)
(* copies, every page size and whatever faults happen, it keeps the        *)
(* promise of CopyTrading, and between handlers it knows every open copy.  *)
(***************************************************************************)
EXTENDS Copier, WellFoundedInduction, TLAPS

-----------------------------------------------------------------------------
(* Extrema.                                                                *)

\* A set of natural numbers that is not empty has a least element.
LEMMA LeastNatural ==
  ASSUME NEW S, S \subseteq Nat, S # {}
  PROVE  \E n \in S : \A k \in S : n <= k
<1> DEFINE R == OpToRel(<, Nat)
<1>1. IsWellFoundedOn(R, Nat)
  BY NatLessThanWellFounded
<1>2. \A j, k \in Nat : j < k => <<j, k>> \in R
  BY DEF OpToRel
<1> HIDE DEF R
<1>3. PICK n \in S : \A k \in S : ~(<<k, n>> \in R)
  BY <1>1, WFMin
<1>4. ASSUME NEW k \in S PROVE n <= k
  <2>1. n \in Nat /\ k \in Nat /\ ~(k < n)
    BY <1>2, <1>3
  <2> QED
    BY <2>1
<1> QED
  BY <1>4

\* The greatest of some times is one of them.
LEMMA GreatestTime ==
  ASSUME NEW S, S \subseteq Time, S # {}
  PROVE  Max(S) \in S /\ \A t \in S : t <= Max(S)
<1> DEFINE Left == {MaxTime - t : t \in S}
<1>1. Left \subseteq Nat /\ Left # {}
  <2>1. \A t \in S : t \in Int /\ 0 <= t /\ t <= MaxTime
    BY DEF Time
  <2>2. \A t \in S : MaxTime - t \in Nat
    BY <2>1, FeedAssumption
  <2> QED
    BY <2>2
<1> HIDE DEF Left
<1>2. PICK n \in Left : \A k \in Left : n <= k
  BY <1>1, LeastNatural
<1>3. PICK g \in S : n = MaxTime - g
  BY <1>2 DEF Left
<1>4. \A t \in S : g >= t
  <2> TAKE t \in S
  <2>1. MaxTime - t \in Left
    BY DEF Left
  <2> QED
    BY <1>2, <1>3, <2>1, FeedAssumption DEF Time
<1>5. \E x \in S : \A y \in S : x >= y
  BY <1>4
<1>6. Max(S) \in S /\ \A y \in S : Max(S) >= y
  BY <1>5 DEF Max
<1> QED
  BY <1>6, FeedAssumption DEF Time

\* The ticket of the next position is one that no position has.
LEMMA NextCopyFree ==
  ASSUME Placed # Copy
  PROVE  NextCopy \in Copy \ Placed
<1>1. Copy \ Placed \subseteq Nat /\ Copy \ Placed # {}
  BY CopierAssumption DEF Placed, Copy
<1>2. \E c \in Copy \ Placed : \A d \in Copy \ Placed : c <= d
  BY <1>1, LeastNatural
<1> QED
  BY <1>2 DEF NextCopy

-----------------------------------------------------------------------------
(* Types.                                                                  *)

LEMMA StopTyped ==
  ASSUME TypeOK, NEW m \in Trades
  PROVE  StopOf(m) \in {0} \cup {x[2] : x \in {y \in mods : y[1] = m}} /\ StopOf(m) \in Time
<1> DEFINE S == {0} \cup {x[2] : x \in {y \in mods : y[1] = m}}
<1>1. S \subseteq Time /\ S # {}
  BY FeedAssumption DEF TypeOK, FeedTypeOK, Time
<1> HIDE DEF S
<1>2. Max(S) \in S
  BY <1>1, GreatestTime
<1>3. StopOf(m) = Max(S)
  BY DEF StopOf, S
<1> QED
  BY <1>1, <1>2, <1>3 DEF S

LEMMA LogTyped ==
  ASSUME TypeOK
  PROVE  Log \subseteq Event
<1>1. \A m \in Trades : StopOf(m) \in Time /\ journal[m] \in Trade
  BY StopTyped DEF TypeOK, FeedTypeOK
<1>2. \A x \in mods : x[1] \in Trades /\ x[2] \in Time
  BY DEF TypeOK, FeedTypeOK
<1>3. 0 \in Time
  BY FeedAssumption DEF Time
<1> QED
  BY <1>1, <1>2, <1>3 DEF Log, EventOf, Event, Trade

LEMMA LatestTyped ==
  ASSUME TypeOK
  PROVE  Latest \in Time
<1> DEFINE S == {0} \cup {e.ts : e \in {f \in Log : f.type \in {"OPEN", "CLOSE"}}}
<1>1. S \subseteq Time /\ S # {}
  BY LogTyped, FeedAssumption DEF Event, Time
<1> HIDE DEF S
<1>2. Max(S) \in Time
  BY <1>1, GreatestTime
<1> QED
  BY <1>2 DEF Latest, S

\* The bookmark sent along is at or after the last one and every event served.
LEMMA BookmarkAfterAll ==
  ASSUME NEW events, events \subseteq Event, NEW since \in {NeverPolled} \cup Time,
         \A e \in events : since < e.ts
  PROVE  /\ BookmarkAfter(events, since) \in {NeverPolled} \cup Time
         /\ since <= BookmarkAfter(events, since)
         /\ \A e \in events : e.ts <= BookmarkAfter(events, since)
<1>1. CASE events = {}
  BY <1>1, FeedAssumption DEF BookmarkAfter, NeverPolled, Time
<1>2. CASE events # {}
  <2> DEFINE S == {e.ts : e \in events}
  <2>1. S \subseteq Time /\ S # {}
    BY <1>2 DEF Event
  <2> HIDE DEF S
  <2>2. Max(S) \in S /\ \A t \in S : t <= Max(S)
    BY <2>1, GreatestTime
  <2>3. BookmarkAfter(events, since) = Max(S)
    BY <1>2 DEF BookmarkAfter, S
  <2>4. PICK e \in events : Max(S) = e.ts
    BY <2>2 DEF S
  <2>5. since <= Max(S)
    <3>1. since < e.ts
      OBVIOUS
    <3>2. since \in Int /\ e.ts \in Int
      BY FeedAssumption DEF NeverPolled, Time, Event
    <3> QED
      BY <2>4, <3>1, <3>2
  <2>6. \A f \in events : f.ts <= Max(S)
    BY <2>2 DEF S
  <2> QED
    BY <2>1, <2>2, <2>3, <2>5, <2>6
<1> QED
  BY <1>1, <1>2

LEMMA TypeInit == Init => TypeOK
<1> SUFFICES ASSUME Init PROVE TypeOK
  OBVIOUS
<1>1. AnyTrade \in Trades /\ (CHOOSE s \in Strategies : TRUE) \in Strategies /\ 0 \in Time
  BY FeedAssumption DEF AnyTrade, Time
<1>2. NoTrade \in Trade
  BY <1>1 DEF NoTrade, Trade
<1>3. FeedTypeOK
  BY <1>1, <1>2 DEF Init, FeedInit, FeedTypeOK
<1>4. NoEvent \in Event
  BY <1>1 DEF NoEvent, EventOf, Event
<1>5. copies \in [Copy -> Position]
  BY <1>1 DEF Init, NoPosition, Position
<1> QED
  BY <1>3, <1>4, <1>5 DEF Init, TypeOK, PCs

\* What the steps write of slots and fills.
LEMMA WritesTyped ==
  ASSUME TypeOK, NEW c \in Copy
  PROVE  /\ Unmap(c) \in [Trades -> {NoSlot, Reserved} \cup Copy]
         /\ MapFound(c) \in [Trades -> {NoSlot, Reserved} \cup Copy]
         /\ Restash(c, slot) \in [Trades -> {NoSlot, Reserved} \cup Copy]
         /\ \A status \in {"OPEN", "CLOSED"} :
              Post(c, status) => fills' \in [Copy -> {"none", "OPEN", "CLOSED"}]
         /\ ReportFillClosed(c) => fills' \in [Copy -> {"none", "OPEN", "CLOSED"}]
BY DEF TypeOK, Unmap, MapFound, Restash, Post, ReportFillClosed

LEMMA TypeEvents ==
  ASSUME TypeOK, NEW e \in batch,
         \/ OpenSkipped(e) \/ OpenReserved(e) \/ CloseSkipped(e) \/ CloseDone(e) \/ ModifyDone(e)
  PROVE  TypeOK'
<1> USE DEF TypeOK, terminal, kept, master, PCs, FeedTypeOK
<1>1. e \in Event
  OBVIOUS
<1>2. CASE OpenSkipped(e)
  BY <1>2 DEF OpenSkipped, Take
<1>3. CASE OpenReserved(e)
  BY <1>1, <1>3 DEF OpenReserved, Take, Reserve, Event
<1>4. CASE CloseSkipped(e)
  BY <1>1, <1>4 DEF CloseSkipped, Take, Event
<1>5. CASE CloseDone(e)
  BY <1>1, <1>5 DEF CloseDone, Closes, Take, Live, Event, Position
<1>6. CASE ModifyDone(e)
  BY <1>1, <1>6 DEF ModifyDone, Take, Live, Event, Position
<1> QED
  BY <1>2, <1>3, <1>4, <1>5, <1>6

LEMMA TypeOrders ==
  ASSUME TypeOK, OrderRejected \/ OrderDone \/ OrderLost \/ OpenStashed \/ OpenReported
                 \/ CloseReported
  PROVE  TypeOK'
<1> USE DEF TypeOK, terminal, kept, master, PCs, FeedTypeOK, Redispatch
<1>1. NoEvent \in Event /\ cur.trade \in Trades /\ cur.stop \in Time
  BY FeedAssumption DEF NoEvent, EventOf, Event, AnyTrade, Time
<1>2. CASE OrderRejected
  BY <1>1, <1>2 DEF OrderRejected
<1>3. CASE OrderDone
  BY <1>1, <1>3, NextCopyFree DEF OrderDone, Fills, Position
<1>4. CASE OpenStashed
  BY <1>1, <1>4 DEF OpenStashed, NoCopy, Reserved
<1>5. CASE OpenReported
  BY <1>1, <1>5 DEF OpenReported, Post
<1>6. CASE CloseReported
  BY <1>1, <1>6 DEF CloseReported, ReportFillClosed, Post, Restash, NoCopy, Reserved
<1>7. CASE OrderLost
  BY <1>1, <1>7, NextCopyFree DEF OrderLost, Fills, Position
<1> QED
  BY <1>2, <1>3, <1>4, <1>5, <1>6, <1>7

LEMMA TypePolls ==
  ASSUME TypeOK, OnInit \/ OnTimer \/ PollFails \/ PollOk \/ BatchDone
                 \/ ReconcileDone \/ ScanDone \/ BackfillDone \/ Crash
  PROVE  TypeOK'
<1> USE DEF TypeOK, terminal, kept, master, PCs, FeedTypeOK
<1>1. CASE OnInit \/ OnTimer
  BY <1>1 DEF OnInit, OnTimer
<1>2. CASE PollFails \/ BatchDone
  BY <1>2 DEF PollFails, BatchDone, AfterPoll, Placed
<1>3. CASE PollOk
  <2>1. batch' \subseteq Event /\ mark' \in {NeverPolled} \cup Time
    <3>1. CASE bookmark = NeverPolled
      BY <1>3, <3>1, LatestTyped DEF PollOk
    <3>2. CASE bookmark # NeverPolled
      <4>1. PICK page \in Pages(bookmark) :
              batch' \subseteq page /\ mark' = BookmarkAfter(batch', bookmark)
        BY <1>3, <3>2 DEF PollOk
      <4>2. batch' \subseteq Event /\ \A e \in batch' : bookmark < e.ts
        BY <4>1, LogTyped DEF Pages, Newer
      <4> QED
        BY <4>1, <4>2, BookmarkAfterAll
    <3> QED
      BY <3>1, <3>2
  <2> QED
    BY <1>3, <2>1 DEF PollOk
<1>4. CASE ReconcileDone \/ ScanDone \/ BackfillDone
  BY <1>4 DEF ReconcileDone, ScanDone, BackfillDone
<1>5. CASE Crash
  <2>1. NoEvent \in Event
    BY FeedAssumption DEF NoEvent, EventOf, Event, AnyTrade, Time
  <2> QED
    BY <1>5, <2>1 DEF Crash
<1> QED
  BY <1>1, <1>2, <1>3, <1>4, <1>5

LEMMA TypeClosures ==
  ASSUME TypeOK, NEW c \in Copy,
         \/ Reconcile(c) \/ Scan(c) \/ OnTradeTransaction(c) \/ Backfill(c)
         \/ CopyCloses(c) \/ HistoryLands(c)
  PROVE  TypeOK'
<1> USE DEF TypeOK, terminal, kept, master, PCs, FeedTypeOK
<1>1. CASE Reconcile(c)
  BY <1>1, WritesTyped DEF Reconcile
<1>2. CASE Scan(c)
  BY <1>2, WritesTyped DEF Scan
<1>3. CASE OnTradeTransaction(c)
  BY <1>3, WritesTyped DEF OnTradeTransaction
<1>4. CASE Backfill(c)
  BY <1>4, WritesTyped DEF Backfill
<1>5. CASE CopyCloses(c)
  BY <1>5 DEF CopyCloses, Closes, Position
<1>6. CASE HistoryLands(c)
  BY <1>6 DEF HistoryLands
<1> QED
  BY <1>1, <1>2, <1>3, <1>4, <1>5, <1>6

LEMMA TypeMaster ==
  ASSUME TypeOK, MasterStep
  PROVE  TypeOK'
<1> USE DEF TypeOK, terminal, kept, memory
<1>1. FeedTypeOK'
  <2> USE DEF FeedTypeOK
  <2>1. ASSUME NEW m \in Trades, MasterOpens(m) PROVE FeedTypeOK'
    BY <2>1, FeedAssumption DEF MasterOpens, Tick, Trade, Time
  <2>2. ASSUME NEW m \in Trades, MasterCloses(m) PROVE FeedTypeOK'
    BY <2>2, FeedAssumption DEF MasterCloses, Tick, ClosedAt, Trade, Time
  <2>3. ASSUME NEW m \in Trades, MasterReconciles(m) PROVE FeedTypeOK'
    BY <2>3, FeedAssumption DEF MasterReconciles, ClosedAt, Trade, Time
  <2>4. ASSUME NEW m \in Trades, MasterModifies(m) PROVE FeedTypeOK'
    BY <2>4, FeedAssumption DEF MasterModifies, Tick, Time
  <2>5. ASSUME EditPicks PROVE FeedTypeOK'
    BY <2>5 DEF EditPicks, master
  <2> QED
    BY <2>1, <2>2, <2>3, <2>4, <2>5 DEF MasterStep, FeedStep
<1> QED
  BY <1>1 DEF MasterStep

LEMMA TypeNext == TypeOK /\ [Next]_vars => TypeOK'
<1> SUFFICES ASSUME TypeOK, [Next]_vars PROVE TypeOK'
  OBVIOUS
<1>1. CASE UNCHANGED vars
  BY <1>1 DEF vars, master, terminal, kept, memory, TypeOK, FeedTypeOK
<1> QED
  BY <1>1, TypeEvents, TypeOrders, TypePolls, TypeClosures, TypeMaster
     DEF Next, EAStep, TerminalStep

\* Every variable keeps its type: slots hold a position, the mark of an order in flight
\* or nothing, and an order never goes out without a ticket left for it.
THEOREM CopierTyped == Spec => []TypeOK
<1> QED
  BY TypeInit, TypeNext, PTL DEF Spec

-----------------------------------------------------------------------------
(* The feed.                                                               *)

\* The stops the master has given a trade.
Given(m) ==
  IF journal[m].st = "none" THEN {} ELSE {0} \cup {x[2] : x \in {y \in mods : y[1] = m}}

\* A trade is closed after it was opened, and only trades there are get modified.
JournalInv ==
  /\ \A m \in Trades :
       /\ journal[m].opened <= now
       /\ journal[m].st = "CLOSED" => journal[m].opened < journal[m].closed
  /\ \A x \in mods : journal[x[1]].st # "none"

\* What an event says stays true of the journal, however long it is under way.
Sound(e) ==
  /\ journal[e.trade].st # "none"
  /\ e.type = "OPEN" => e.ts = journal[e.trade].opened
  /\ e.type = "CLOSE" => journal[e.trade].opened < e.ts
  /\ e.type \in {"OPEN", "MODIFY"} => e.stop \in Given(e.trade)

Dispatching == {"dispatch", "order", "filled", "stashed", "closed"}

EventInv ==
  /\ \A e \in batch : Sound(e)
  /\ pc \in Dispatching => \A e \in batch : e.ts <= mark
  /\ pc \in {"order", "filled", "stashed"} => cur.stop \in Given(cur.trade)

LEMMA JournalInit == Init => JournalInv /\ EventInv
BY FeedAssumption DEF Init, FeedInit, NoTrade, JournalInv, EventInv

\* Every step but the master's leaves its tables alone.
LEMMA MasterApart == [Next]_vars => MasterStep \/ UNCHANGED <<journal, mods, now>>
<1> USE DEF master, vars, terminal
<1>1. ASSUME NEW e \in batch,
             \/ OpenSkipped(e) \/ OpenReserved(e) \/ CloseSkipped(e) \/ CloseDone(e)
             \/ ModifyDone(e)
      PROVE  UNCHANGED <<journal, mods, now>>
  BY <1>1 DEF OpenSkipped, OpenReserved, CloseSkipped, CloseDone, ModifyDone
<1>2. ASSUME NEW c \in Copy,
             \/ Reconcile(c) \/ Scan(c) \/ OnTradeTransaction(c) \/ Backfill(c)
             \/ CopyCloses(c) \/ HistoryLands(c)
      PROVE  UNCHANGED <<journal, mods, now>>
  BY <1>2 DEF Reconcile, Scan, OnTradeTransaction, Backfill, CopyCloses, HistoryLands
<1>3. ASSUME OnInit \/ OnTimer \/ PollFails \/ PollOk \/ BatchDone \/ OrderRejected \/ OrderDone
             \/ OrderLost \/ OpenStashed \/ OpenReported \/ CloseReported \/ ReconcileDone \/ ScanDone
             \/ BackfillDone \/ Crash
      PROVE  UNCHANGED <<journal, mods, now>>
  BY <1>3 DEF OnInit, OnTimer, PollFails, PollOk, BatchDone, OrderRejected, OrderDone, OrderLost,
     OpenStashed, OpenReported, CloseReported, ReconcileDone, ScanDone, BackfillDone, Crash
<1> QED
  BY <1>1, <1>2, <1>3 DEF Next, EAStep, TerminalStep

\* What was opened stays as it was, and its stops stay given.
LogGrows ==
  \A m \in Trades : journal[m].st # "none" =>
    /\ journal'[m].st # "none" /\ journal'[m].opened = journal[m].opened
    /\ Given(m) \subseteq Given(m)'

LEMMA JournalNext ==
  ASSUME TypeOK, JournalInv, [Next]_vars
  PROVE  JournalInv' /\ LogGrows
<1> USE FeedAssumption DEF TypeOK, FeedTypeOK, JournalInv, LogGrows, Given, Trade, Time
<1>1. CASE UNCHANGED <<journal, mods, now>>
  BY <1>1
<1>2. ASSUME NEW m \in Trades, MasterOpens(m) PROVE JournalInv' /\ LogGrows
  BY <1>2 DEF MasterOpens, Tick
<1>3. ASSUME NEW m \in Trades, MasterCloses(m) PROVE JournalInv' /\ LogGrows
  BY <1>3 DEF MasterCloses, Tick, ClosedAt
<1>4. ASSUME NEW m \in Trades, MasterReconciles(m) PROVE JournalInv' /\ LogGrows
  BY <1>4 DEF MasterReconciles, ClosedAt
<1>5. ASSUME NEW m \in Trades, MasterModifies(m) PROVE JournalInv' /\ LogGrows
  BY <1>5 DEF MasterModifies, Tick
<1>6. CASE EditPicks
  BY <1>1, <1>6 DEF EditPicks, master
<1> QED
  BY <1>1, <1>2, <1>3, <1>4, <1>5, <1>6, MasterApart DEF MasterStep, FeedStep

LEMMA SoundStays ==
  ASSUME LogGrows, NEW e \in Event, Sound(e)
  PROVE  Sound(e)'
BY DEF LogGrows, Sound, Event

LEMMA LogSound ==
  ASSUME TypeOK, JournalInv, NEW e \in Log
  PROVE  Sound(e)
<1>1. \A m \in Trades : StopOf(m) \in {0} \cup {x[2] : x \in {y \in mods : y[1] = m}}
  BY StopTyped
<1>2. ASSUME NEW m \in Trades, journal[m].st # "none",
             e = EventOf("OPEN", m, journal[m].opened, StopOf(m))
      PROVE  Sound(e)
  BY <1>1, <1>2 DEF EventOf, Sound, Given
<1>3. ASSUME NEW m \in Trades, journal[m].st = "CLOSED", e = EventOf("CLOSE", m, journal[m].closed, 0)
      PROVE  Sound(e)
  BY <1>3 DEF EventOf, Sound, JournalInv
<1>4. ASSUME NEW x \in mods, e = EventOf("MODIFY", x[1], x[2], x[2])
      PROVE  Sound(e)
  BY <1>4 DEF EventOf, Sound, Given, JournalInv, TypeOK, FeedTypeOK
<1> QED
  BY <1>2, <1>3, <1>4 DEF Log

LEMMA EventNext ==
  ASSUME TypeOK, JournalInv, EventInv, [Next]_vars
  PROVE  EventInv'
<1> USE DEF Dispatching
<1>1. LogGrows
  BY JournalNext
<1>2. \A e \in batch : Sound(e)' /\ (pc \in Dispatching => e.ts <= mark)
  BY <1>1, SoundStays DEF EventInv, TypeOK
<1>3. ASSUME pc \in {"order", "filled", "stashed"}, NEW m \in Trades, m = cur.trade
      PROVE  cur.stop \in Given(m)'
  BY <1>1, <1>3 DEF EventInv, LogGrows, Given
<1>4. ASSUME NEW e \in batch, OpenReserved(e)
      PROVE  EventInv'
  <2>1. cur' = e /\ batch' \subseteq batch /\ mark' = mark /\ e.type = "OPEN" /\ pc = "dispatch"
    BY <1>4 DEF OpenReserved, Take
  <2>2. e.stop \in Given(e.trade)'
    BY <1>2, <2>1 DEF Sound
  <2> QED
    BY <1>2, <2>1, <2>2 DEF EventInv, Given
<1>5. CASE PollOk
  <2>1. \A e \in batch' : e \in Log /\ e.ts <= mark'
    <3>1. CASE bookmark = NeverPolled
      BY <1>5, <3>1 DEF PollOk
    <3>2. CASE bookmark # NeverPolled
      <4>1. PICK page \in Pages(bookmark) :
              batch' \subseteq page /\ mark' = BookmarkAfter(batch', bookmark)
        BY <1>5, <3>2 DEF PollOk
      <4>2. batch' \subseteq Log /\ \A e \in batch' : bookmark < e.ts
        BY <4>1 DEF Pages, Newer
      <4>3. batch' \subseteq Event /\ bookmark \in {NeverPolled} \cup Time
        BY <4>2, LogTyped DEF TypeOK
      <4> QED
        BY <4>1, <4>2, <4>3, BookmarkAfterAll
    <3> QED
      BY <3>1, <3>2
  <2>2. \A e \in batch' : Sound(e)'
    BY <1>1, <2>1, LogSound, LogTyped, SoundStays
  <2> QED
    BY <1>5, <2>1, <2>2 DEF EventInv, PollOk
<1>6. ASSUME /\ batch' \subseteq batch
             /\ pc' \in Dispatching => pc \in Dispatching /\ mark' = mark
             /\ pc' \in {"order", "filled", "stashed"} =>
                  pc \in {"order", "filled", "stashed"} /\ cur' = cur
      PROVE  EventInv'
  <2>1. cur.trade \in Trades
    BY DEF TypeOK, Event
  <2> QED
    BY <1>2, <1>3, <1>6, <2>1 DEF EventInv
<1>7. ASSUME NEW e \in batch,
             OpenSkipped(e) \/ CloseSkipped(e) \/ CloseDone(e) \/ ModifyDone(e)
      PROVE  EventInv'
  BY <1>6, <1>7 DEF OpenSkipped, CloseSkipped, CloseDone, ModifyDone, Take
<1>8. ASSUME NEW c \in Copy,
             \/ Reconcile(c) \/ Scan(c) \/ OnTradeTransaction(c) \/ Backfill(c)
             \/ CopyCloses(c) \/ HistoryLands(c)
      PROVE  EventInv'
  BY <1>6, <1>8 DEF Reconcile, Scan, OnTradeTransaction, Backfill, CopyCloses, HistoryLands
<1>9. CASE OnInit \/ OnTimer \/ PollFails \/ BatchDone \/ ReconcileDone \/ ScanDone \/ BackfillDone
           \/ Crash
  BY <1>6, <1>9 DEF OnInit, OnTimer, PollFails, BatchDone, AfterPoll, ReconcileDone, ScanDone,
     BackfillDone, Crash
<1>10. CASE OrderRejected \/ OrderDone \/ OrderLost \/ OpenStashed \/ OpenReported \/ CloseReported
  BY <1>6, <1>10 DEF OrderRejected, OrderDone, OrderLost, OpenStashed, OpenReported, CloseReported,
     Redispatch
<1>11. CASE MasterStep \/ UNCHANGED vars
  BY <1>6, <1>11 DEF MasterStep, memory, vars
<1> QED
  BY <1>4, <1>5, <1>7, <1>8, <1>9, <1>10, <1>11 DEF Next, EAStep, TerminalStep

-----------------------------------------------------------------------------
(* The copies and what leads to them.                                      *)

\* The copies of a trade, the other copies of a copy's trade, and the open copies, as far
\* as anything is promised of them: nothing is of a trade gone astray.
Kin(m) == IF m \in Astray THEN {} ELSE Of(m)
Rivals(c) == {d \in Kin(copies[c].trade) : d # c}
Owed(c) == Live(c) /\ copies[c].trade \notin Astray

PhaseInv ==
  /\ pc \in {"down", "idle", "reconcile", "scan"} => ~booting
  /\ pc = "backfill" => booting

\* Slots lead to copies of their trade; deals, reports and notices are of copies that
\* are gone.
CopyInv ==
  /\ \A c \in Placed : journal[copies[c].trade].st # "none"
  /\ \A m \in Trades : slot[m] \in Copy => slot[m] \in Of(m)
  /\ \A c \in deals \cup reported : Gone(c)
  /\ txq \subseteq deals
  /\ \A c \in Copy : /\ fills[c] = "CLOSED" => Gone(c)
                     /\ fills[c] # "none" => c \in Placed

\* An open copy is the only one of its trade, and no new one can be reserved: its slot
\* is taken, by itself or by an order in flight.
SlotInv ==
  \A c \in Copy : Owed(c) =>
    /\ slot[copies[c].trade] \in {c, Reserved}
    /\ \A d \in Rivals(c) : Gone(d)

\* The closed copies the EA has done with: those whose deal the history shows while it
\* boots, and later those it has reported.
Settled == IF booting THEN deals ELSE reported

\* The master's opening is behind the bookmark, and not in the page in hand either.
Past(m) ==
  /\ journal[m].opened <= (IF pc \in Dispatching THEN mark ELSE bookmark)
  /\ pc \in Dispatching => \A e \in batch : ~(e.type = "OPEN" /\ e.trade = m)

\* At most one copy of a trade is not settled.  A slot leads to that one, and is empty
\* only if there is none, or if the trade cannot be opened again.
SettledInv ==
  pc # "down" =>
    /\ \A c \in Placed : c \notin Settled => Rivals(c) \subseteq Settled
    /\ \A m \in Trades :
         /\ slot[m] \in Copy => Rivals(slot[m]) \subseteq Settled
         /\ slot[m] = NoSlot => Past(m) \/ Kin(m) \subseteq Settled

\* The copy in hand is the one that is not settled; before the order is filled there is
\* none.
HandInv ==
  /\ pc = "order" => slot[cur.trade] = Reserved /\ Kin(cur.trade) \subseteq Settled
  /\ pc \in {"filled", "stashed"} =>
       hand \in Of(cur.trade) /\ fills[hand] = "none" /\ Rivals(hand) \subseteq Settled
  /\ pc = "closed" => Gone(hand) /\ Rivals(hand) \subseteq Settled

\* A pass over closed copies visits none whose trade has another copy that is not done
\* with.  What the backfill found open has its slot, and the copies of that trade it has
\* not visited yet are closed.
TodoInv ==
  /\ pc \in {"reconcile", "scan"} => \A c \in todo : Gone(c) /\ Rivals(c) \subseteq reported
  /\ pc = "backfill" =>
       /\ todo \subseteq Placed
       /\ \A c \in Placed \ todo : c \notin reported =>
            /\ copies[c].trade \notin Astray => slot[copies[c].trade] = c
            /\ Rivals(c) \subseteq deals
            /\ Rivals(c) \subseteq todo \cup reported

\* Once it has booted, the EA knows the slot of every open copy, but for the one whose
\* ticket it is about to write down.
TrackedInv ==
  pc # "down" /\ ~booting =>
    \A c \in Copy : Owed(c) => slot[copies[c].trade] = c \/ (pc = "filled" /\ c = hand)

Books == SlotInv /\ SettledInv /\ HandInv /\ TodoInv /\ TrackedInv

CopierInv == TypeOK /\ JournalInv /\ EventInv /\ PhaseInv /\ CopyInv /\ Books

LEMMA CopierInit == Init => CopierInv
<1> SUFFICES ASSUME Init PROVE CopierInv
  OBVIOUS
<1>1. Placed = {}
  BY DEF Init, NoPosition, Placed
<1>2. \A c : ~Live(c) /\ ~Gone(c)
  BY DEF Init, NoPosition, Live, Gone
<1>3. CopyInv
  BY <1>1 DEF Init, CopyInv, NoSlot, Copy
<1>4. PhaseInv /\ SlotInv /\ SettledInv /\ HandInv /\ TodoInv /\ TrackedInv
  BY <1>2 DEF Init, PhaseInv, SlotInv, Owed, SettledInv, HandInv, TodoInv, TrackedInv
<1> QED
  BY <1>3, <1>4, TypeInit, JournalInit DEF CopierInv, Books

-----------------------------------------------------------------------------
(* What a step does to the copies.                                         *)

\* All that closing or modifying copies, and settling them, can do.
Wane ==
  /\ Placed' = Placed
  /\ \A d \in Copy : /\ copies'[d].trade = copies[d].trade
                     /\ copies'[d].denied = copies[d].denied
                     /\ Live(d)' => Live(d)
                     /\ Gone(d) => Gone(d)'

\* An order the broker fills, whatever the EA is told.
Filled == OrderDone \/ OrderLost

LEMMA ClosesWane ==
  ASSUME TypeOK, NEW c \in Copy, Live(c), Closes(c)
  PROVE  /\ Wane /\ Gone(c)'
         /\ deals \subseteq deals' /\ deals' \subseteq deals \cup {c}
         /\ txq' \subseteq txq \cup (deals' \cap {c})
<1>1. copies' = [copies EXCEPT ![c] = [copies[c] EXCEPT !.st = "closed"]]
  BY DEF Closes
<1>2. copies[c] \in Position /\ copies \in [Copy -> Position]
  BY DEF TypeOK
<1>3. \A d \in Copy : d # c => copies'[d] = copies[d]
  BY <1>1, <1>2
<1>4. /\ copies'[c].st = "closed" /\ copies'[c].trade = copies[c].trade
      /\ copies'[c].denied = copies[c].denied
  BY <1>1, <1>2 DEF Position
<1>5. Wane /\ Gone(c)'
  BY <1>3, <1>4 DEF Wane, Live, Gone, Placed
<1> QED
  BY <1>5 DEF Closes

LEMMA ModifyWanes ==
  ASSUME TypeOK, NEW e \in batch, ModifyDone(e)
  PROVE  Wane
<1> DEFINE c == slot[e.trade]
<1>1. \/ UNCHANGED copies
      \/ c \in Copy /\ copies' = [copies EXCEPT ![c] = [copies[c] EXCEPT !.stop = e.stop]]
  BY DEF ModifyDone, Live
<1> HIDE DEF c
<1>2. \A d \in Copy : /\ copies'[d].trade = copies[d].trade /\ copies'[d].st = copies[d].st
                      /\ copies'[d].denied = copies[d].denied
  BY <1>1 DEF TypeOK, Position
<1> QED
  BY <1>2 DEF Wane, Live, Gone, Placed

\* Only a filled order adds a copy, one that is open.
LEMMA CopiesStep ==
  ASSUME CopierInv, [Next]_vars
  PROVE  \/ Wane
         \/ Filled
<1>1. TypeOK
  BY DEF CopierInv
<1>2. ASSUME UNCHANGED copies PROVE Wane
  BY <1>2 DEF Wane, Live, Gone, Placed
<1>3. ASSUME NEW e \in batch, OpenSkipped(e) \/ OpenReserved(e) \/ CloseSkipped(e)
      PROVE  Wane
  BY <1>2, <1>3 DEF OpenSkipped, OpenReserved, CloseSkipped, terminal
<1>4. ASSUME NEW e \in batch, CloseDone(e)
      PROVE  Wane
  BY <1>1, <1>4, ClosesWane DEF CloseDone, Live
<1>5. ASSUME NEW c \in Copy,
             Reconcile(c) \/ Scan(c) \/ OnTradeTransaction(c) \/ Backfill(c) \/ HistoryLands(c)
      PROVE  Wane
  BY <1>2, <1>5 DEF Reconcile, Scan, OnTradeTransaction, Backfill, HistoryLands, terminal
<1>6. ASSUME NEW c \in Copy, CopyCloses(c)
      PROVE  Wane
  BY <1>1, <1>6, ClosesWane DEF CopyCloses
<1>7. CASE OnInit \/ OnTimer \/ PollFails \/ PollOk \/ BatchDone \/ ReconcileDone \/ ScanDone
           \/ BackfillDone \/ Crash
  BY <1>2, <1>7 DEF OnInit, OnTimer, PollFails, PollOk, BatchDone, ReconcileDone, ScanDone,
     BackfillDone, Crash, terminal
<1>8. CASE OrderRejected \/ OpenStashed \/ OpenReported \/ CloseReported
  BY <1>2, <1>8 DEF OrderRejected, OpenStashed, OpenReported, CloseReported, terminal
<1>9. CASE MasterStep \/ UNCHANGED vars
  BY <1>2, <1>9 DEF MasterStep, terminal, vars
<1> QED
  BY <1>1, <1>3, <1>4, <1>5, <1>6, <1>7, <1>8, <1>9, ModifyWanes
     DEF Filled, Next, EAStep, TerminalStep

\* A filled order: the copy that was free is open now, the others are as they were.
LEMMA OrderFills ==
  ASSUME CopierInv, NEW denied \in BOOLEAN, Fills(denied)
  PROVE  \E n \in Copy \ Placed :
           /\ n = NextCopy /\ Placed' = Placed \cup {n}
           /\ Live(n)' /\ copies'[n].trade = cur.trade /\ copies'[n].denied = denied
           /\ \A d \in Copy : d # n => copies'[d] = copies[d]
           /\ copies' = [copies EXCEPT ![n] = [st |-> "open", trade |-> cur.trade, stop |-> cur.stop,
                                              denied |-> denied]]
<1>1. PICK n \in Copy \ Placed : n = NextCopy
  BY NextCopyFree DEF Fills
<1>2. copies' = [copies EXCEPT ![n] = [st |-> "open", trade |-> cur.trade, stop |-> cur.stop,
                                      denied |-> denied]]
  BY <1>1 DEF Fills
<1>3. Placed' = Placed \cup {n} /\ Live(n)'
  BY <1>1, <1>2 DEF CopierInv, TypeOK, Placed, Live
<1> QED
  BY <1>1, <1>2, <1>3 DEF CopierInv, TypeOK

-----------------------------------------------------------------------------
(* The copies, step by step.                                               *)

LEMMA PhaseNext ==
  ASSUME PhaseInv, [Next]_vars
  PROVE  PhaseInv'
<1> USE DEF PhaseInv
<1>1. ASSUME NEW e \in batch,
             \/ OpenSkipped(e) \/ OpenReserved(e) \/ CloseSkipped(e) \/ CloseDone(e)
             \/ ModifyDone(e)
      PROVE  PhaseInv'
  BY <1>1 DEF OpenSkipped, OpenReserved, CloseSkipped, CloseDone, ModifyDone, Take
<1>2. ASSUME NEW c \in Copy,
             \/ Reconcile(c) \/ Scan(c) \/ OnTradeTransaction(c) \/ Backfill(c)
             \/ CopyCloses(c) \/ HistoryLands(c)
      PROVE  PhaseInv'
  BY <1>2 DEF Reconcile, Scan, OnTradeTransaction, Backfill, CopyCloses, HistoryLands
<1>3. CASE OnInit \/ OnTimer \/ PollFails \/ PollOk \/ BatchDone \/ ReconcileDone \/ ScanDone
           \/ BackfillDone \/ Crash
  BY <1>3 DEF OnInit, OnTimer, PollFails, PollOk, BatchDone, AfterPoll, ReconcileDone, ScanDone,
     BackfillDone, Crash
<1>4. CASE OrderRejected \/ OrderDone \/ OrderLost \/ OpenStashed \/ OpenReported \/ CloseReported
  BY <1>4 DEF OrderRejected, OrderDone, OrderLost, OpenStashed, OpenReported, CloseReported,
     Redispatch
<1>5. CASE MasterStep \/ UNCHANGED vars
  BY <1>5 DEF MasterStep, memory, vars
<1> QED
  BY <1>1, <1>2, <1>3, <1>4, <1>5 DEF Next, EAStep, TerminalStep

LEMMA CopyNext ==
  ASSUME CopierInv, [Next]_vars
  PROVE  CopyInv'
<1> USE DEF CopyInv, Of
<1>1. TypeOK /\ CopyInv /\ HandInv /\ TodoInv /\ PhaseInv /\ EventInv /\ LogGrows
  BY JournalNext DEF CopierInv, Books
<1>2. \A c \in Copy : copies[c].trade \in Trades
  BY <1>1 DEF TypeOK, Position
<1>3. CASE Filled
  <2>1. /\ cur.trade \in Trades /\ journal'[cur.trade].st # "none"
        /\ UNCHANGED <<journal, deals, reported, txq, fills>>
        /\ \E denied \in BOOLEAN : Fills(denied)
    BY <1>1, <1>3 DEF EventInv, Filled, OrderDone, OrderLost, Given, master, kept, TypeOK, Event
  <2>2. PICK n \in Copy \ Placed :
          /\ Placed' = Placed \cup {n} /\ copies'[n].trade = cur.trade
          /\ \A d \in Copy : d # n => copies'[d] = copies[d]
    BY <2>1, OrderFills
  <2>3. \A d : Gone(d) => Gone(d)'
    BY <2>2 DEF Gone, Placed
  <2>4. \A c \in Placed' : journal'[copies'[c].trade].st # "none"
    BY <1>1, <2>1, <2>2 DEF Placed
  <2>5. \A m \in Trades : slot'[m] \in Copy => slot'[m] = slot[m]
    <3>1. slot' = slot \/ slot' = [slot EXCEPT ![cur.trade] = NoSlot]
      BY <1>3 DEF Filled, OrderDone, OrderLost, kept
    <3> QED
      BY <1>1, <3>1 DEF TypeOK, NoSlot, Copy
  <2>6. \A m \in Trades : slot'[m] \in Copy => slot'[m] \in Of(m)'
    BY <1>1, <2>2, <2>5 DEF Placed
  <2> QED
    BY <1>1, <2>1, <2>2, <2>3, <2>4, <2>6
<1>4. ASSUME Wane,
             \A m \in Trades : slot'[m] \in Copy => slot'[m] = slot[m] \/ slot'[m] \in Of(m),
             \A c \in deals' \cup reported' : c \in deals \cup reported \/ Gone(c)',
             txq' \subseteq deals',
             \A c \in Copy : fills'[c] = fills[c] \/ (fills'[c] = "CLOSED" /\ Gone(c)')
                           \/ (fills'[c] = "OPEN" /\ c \in Placed)
      PROVE  CopyInv'
  <2>1. \A c \in Placed' : journal'[copies'[c].trade].st # "none"
    BY <1>1, <1>2, <1>4 DEF Wane, LogGrows, Placed
  <2>2. \A m \in Trades : slot'[m] \in Copy => slot'[m] \in Of(m)'
    BY <1>1, <1>4 DEF Wane, Placed
  <2>3. \A c \in deals' \cup reported' : Gone(c)'
    BY <1>1, <1>4 DEF Wane, Gone
  <2>4. \A c \in Copy : /\ fills'[c] = "CLOSED" => Gone(c)'
                        /\ fills'[c] # "none" => c \in Placed'
    BY <1>1, <1>4 DEF Wane, Gone, Placed
  <2> QED
    BY <1>4, <2>1, <2>2, <2>3, <2>4
<1>5. ASSUME ~Filled PROVE Wane
  BY <1>5, CopiesStep
<1>6. ASSUME NEW e \in batch,
             OpenSkipped(e) \/ OpenReserved(e) \/ CloseSkipped(e) \/ ModifyDone(e)
      PROVE  CopyInv'
  <2>1. ~Filled
    BY <1>6 DEF OpenSkipped, OpenReserved, CloseSkipped, ModifyDone, Take, Filled, OrderDone, OrderLost
  <2>2. UNCHANGED <<deals, reported, txq, fills>>
    BY <1>6 DEF OpenSkipped, OpenReserved, CloseSkipped, ModifyDone, terminal
  <2>3. \A m \in Trades : slot'[m] \in Copy => slot'[m] = slot[m]
    BY <1>1, <1>6 DEF OpenSkipped, OpenReserved, CloseSkipped, ModifyDone, kept, Reserve, TypeOK,
                      NoSlot, Reserved, Copy
  <2> QED
    BY <1>1, <1>4, <1>5, <2>1, <2>2, <2>3
<1>7. ASSUME NEW e \in batch, CloseDone(e)
      PROVE  CopyInv'
  <2>1. PICK c \in Copy :
          /\ Live(c) /\ Closes(c) /\ reported' = reported \cup {c} /\ UNCHANGED fills
          /\ slot' = [slot EXCEPT ![e.trade] = NoSlot]
    BY <1>7 DEF CloseDone, Live
  <2>2. /\ Wane /\ Gone(c)' /\ deals \subseteq deals' /\ deals' \subseteq deals \cup {c}
        /\ txq' \subseteq txq \cup (deals' \cap {c})
    BY <1>1, <2>1, ClosesWane
  <2>3. \A m \in Trades : slot'[m] \in Copy => slot'[m] = slot[m]
    BY <1>1, <2>1 DEF TypeOK, NoSlot, Copy
  <2> QED
    BY <1>1, <1>4, <2>1, <2>2, <2>3
<1>8. ASSUME NEW c \in Copy, Reconcile(c) \/ Scan(c) \/ OnTradeTransaction(c)
      PROVE  CopyInv'
  <2>1. ~Filled
    BY <1>8 DEF Reconcile, Scan, OnTradeTransaction, Filled, OrderDone, OrderLost
  <2>2. Gone(c) /\ UNCHANGED deals /\ reported' \subseteq reported \cup {c} /\ txq' \subseteq txq
        /\ UNCHANGED copies
    BY <1>1, <1>8 DEF Reconcile, Scan, OnTradeTransaction, TodoInv, terminal
  <2>3. \A d \in Copy : fills'[d] = fills[d] \/ (fills'[d] = "CLOSED" /\ Gone(d)')
    BY <1>1, <1>8, <2>2 DEF Reconcile, Scan, OnTradeTransaction, ReportFillClosed, Post, Gone, TypeOK
  <2>4. \A m \in Trades : slot'[m] \in Copy => slot'[m] = slot[m]
    BY <1>1, <1>8 DEF Reconcile, Scan, OnTradeTransaction, Unmap, TypeOK, NoSlot, Copy
  <2> QED
    BY <1>1, <1>4, <1>5, <2>1, <2>2, <2>3, <2>4 DEF Gone
<1>9. ASSUME NEW c \in Copy, Backfill(c)
      PROVE  CopyInv'
  <2>1. ~Filled
    BY <1>9 DEF Backfill, Filled, OrderDone, OrderLost
  <2>2. c \in Placed /\ UNCHANGED <<copies, deals, txq>>
    BY <1>1, <1>9 DEF Backfill, TodoInv, terminal
  <2>3. CASE Live(c)
    <3>1. Post(c, "OPEN") /\ slot' = MapFound(c) /\ UNCHANGED reported
      BY <1>9, <2>3 DEF Backfill
    <3>2. \A d \in Copy : fills'[d] = fills[d] \/ (fills'[d] = "OPEN" /\ d \in Placed)
      BY <1>1, <2>2, <3>1 DEF Post, TypeOK
    <3>3. \A m \in Trades : slot'[m] = slot[m] \/ slot'[m] \in Of(m)
      BY <1>1, <2>2, <3>1 DEF MapFound, TypeOK
    <3> QED
      BY <1>1, <1>4, <1>5, <2>1, <2>2, <3>1, <3>2, <3>3
  <2>4. CASE ~Live(c)
    <3>1. ReportFillClosed(c) /\ slot' = Restash(c, slot) /\ reported' = reported \cup {c}
      BY <1>9, <2>4 DEF Backfill
    <3>2. Gone(c) /\ Gone(c)'
      BY <1>1, <2>2, <2>4 DEF Placed, Live, Gone, TypeOK, Position
    <3>3. \A d \in Copy : fills'[d] = fills[d] \/ (fills'[d] = "CLOSED" /\ Gone(d)')
      BY <1>1, <3>1, <3>2 DEF ReportFillClosed, Post, TypeOK
    <3>4. \A m \in Trades : slot'[m] = slot[m] \/ slot'[m] \in Of(m)
      BY <1>1, <2>2, <3>1 DEF Restash, TypeOK
    <3> QED
      BY <1>1, <1>4, <1>5, <2>1, <2>2, <3>1, <3>2, <3>3, <3>4
  <2> QED
    BY <2>3, <2>4
<1>10. ASSUME NEW c \in Copy, CopyCloses(c)
       PROVE  CopyInv'
  <2>1. /\ Wane /\ Gone(c)' /\ deals \subseteq deals' /\ deals' \subseteq deals \cup {c}
        /\ txq' \subseteq txq \cup (deals' \cap {c})
    BY <1>1, <1>10, ClosesWane DEF CopyCloses
  <2>2. UNCHANGED <<slot, fills, reported>>
    BY <1>10 DEF CopyCloses, kept
  <2> QED
    BY <1>1, <1>4, <2>1, <2>2
<1>11. ASSUME NEW c \in Copy, HistoryLands(c)
       PROVE  CopyInv'
  <2>1. ~Filled
    BY <1>11 DEF HistoryLands, Filled, OrderDone, OrderLost
  <2> QED
    BY <1>1, <1>4, <1>5, <1>11, <2>1 DEF HistoryLands, kept, Gone
<1>12. CASE OnInit \/ OnTimer \/ PollFails \/ PollOk \/ BatchDone \/ ReconcileDone \/ ScanDone
            \/ BackfillDone \/ Crash
  <2>1. ~Filled
    BY <1>12 DEF OnInit, OnTimer, PollFails, PollOk, BatchDone, ReconcileDone, ScanDone, BackfillDone,
       Crash, Filled, OrderDone, OrderLost
  <2>2. UNCHANGED <<copies, slot, fills>> /\ reported' \subseteq reported
    BY <1>12 DEF OnInit, OnTimer, PollFails, PollOk, BatchDone, ReconcileDone, ScanDone, BackfillDone,
       Crash, terminal, kept
  <2>3. CASE OnInit
    <3>1. deals' = {c \in Copy : Gone(c)} /\ txq' = txq
      BY <2>3 DEF OnInit
    <3>2. \A c \in deals : c \in Copy /\ Gone(c)
      BY <1>1 DEF TypeOK
    <3>3. \A c \in Copy : Gone(c)' <=> Gone(c)
      BY <2>2 DEF Gone
    <3> QED
      BY <1>1, <1>4, <1>5, <2>1, <2>2, <3>1, <3>2, <3>3
  <2>4. CASE ~OnInit
    <3>1. deals' = deals /\ txq' \subseteq txq
      BY <1>12, <2>4 DEF OnTimer, PollFails, PollOk, BatchDone, ReconcileDone, ScanDone, BackfillDone,
         Crash, terminal
    <3> QED
      BY <1>1, <1>4, <1>5, <2>1, <2>2, <3>1
  <2> QED
    BY <2>3, <2>4
<1>13. CASE OrderRejected \/ OpenReported
  <2>1. UNCHANGED <<copies, deals, reported, txq>>
    BY <1>13 DEF OrderRejected, OpenReported, terminal
  <2>2. Wane
    BY <2>1 DEF Wane, Live, Gone, Placed
  <2>3. \A m \in Trades : slot'[m] \in Copy => slot'[m] = slot[m]
    BY <1>1, <1>13 DEF OrderRejected, OpenReported, kept, TypeOK, NoSlot, Copy
  <2>4. \A c \in Copy : fills'[c] = fills[c] \/ (fills'[c] = "OPEN" /\ c \in Placed)
    BY <1>1, <1>13 DEF OrderRejected, OpenReported, Post, HandInv, TypeOK
  <2> QED
    BY <1>1, <1>4, <2>1, <2>2, <2>3, <2>4
<1>14. CASE OpenStashed
  <2>1. ~Filled
    BY <1>14 DEF OpenStashed, Filled, OrderDone, OrderLost
  <2>2. UNCHANGED <<copies, deals, reported, txq, fills>> /\ hand \in Of(cur.trade)
        /\ slot' = [slot EXCEPT ![cur.trade] = hand]
    BY <1>1, <1>14 DEF OpenStashed, terminal, HandInv
  <2> QED
    BY <1>1, <1>4, <1>5, <2>1, <2>2 DEF TypeOK
<1>15. CASE CloseReported
  <2>1. ~Filled
    BY <1>15 DEF CloseReported, Filled, OrderDone, OrderLost
  <2>2. PICK d \in Copy : d = hand /\ Gone(d) /\ UNCHANGED <<copies, deals, reported, txq>>
    BY <1>1, <1>15 DEF CloseReported, terminal, HandInv, Gone
  <2>3. ReportFillClosed(d) /\ slot' = Restash(d, slot) /\ Gone(d)' /\ d \in Placed
    BY <1>15, <2>2 DEF CloseReported, Gone, Placed
  <2>4. \A c \in Copy : fills'[c] = fills[c] \/ (fills'[c] = "CLOSED" /\ Gone(c)')
    BY <1>1, <2>3 DEF ReportFillClosed, Post, TypeOK
  <2>5. \A m \in Trades : slot'[m] = slot[m] \/ slot'[m] \in Of(m)
    BY <1>1, <2>3 DEF Restash, TypeOK
  <2> QED
    BY <1>1, <1>4, <1>5, <2>1, <2>2, <2>4, <2>5
<1>16. CASE MasterStep \/ UNCHANGED vars
  <2>1. ~Filled /\ UNCHANGED <<copies, slot, deals, reported, txq, fills>>
    BY <1>16 DEF MasterStep, terminal, kept, memory, vars, Filled, OrderDone, OrderLost
  <2> QED
    BY <1>1, <1>4, <1>5, <2>1
<1> QED
  BY <1>3, <1>6, <1>7, <1>8, <1>9, <1>10, <1>11, <1>12, <1>13, <1>14, <1>15, <1>16
     DEF Filled, Next, EAStep, TerminalStep

\* A trade keeps its copies when none is added.
LEMMA RivalsStay ==
  ASSUME TypeOK, Wane
  PROVE  /\ Astray' = Astray
         /\ \A m : Of(m)' = Of(m) /\ Kin(m)' = Kin(m)
         /\ \A c \in Copy : Rivals(c)' = Rivals(c)
         /\ \A c \in Copy : Owed(c)' => Owed(c) /\ Live(c) /\ copies'[c].trade = copies[c].trade
<1>1. /\ Placed' = Placed /\ Placed \subseteq Copy
      /\ \A d \in Copy : copies'[d].trade = copies[d].trade /\ copies'[d].denied = copies[d].denied
  BY DEF Wane, Placed
<1>2. \A m : Of(m)' = Of(m)
  BY <1>1 DEF Of
<1>3. \A m : Of(m) \subseteq Copy
  BY <1>1 DEF Of
<1>4. Astray' = Astray
  BY <1>1, <1>2, <1>3 DEF Astray
<1>5. \A m : Kin(m)' = Kin(m)
  BY <1>2, <1>4 DEF Kin
<1>6. \A c \in Copy : Rivals(c)' = Rivals(c)
  BY <1>1, <1>5 DEF Rivals
<1> QED
  BY <1>1, <1>2, <1>4, <1>5, <1>6 DEF Owed, Wane

\* Open copies keep their slot, or get it.
LEMMA SlotKept ==
  ASSUME CopierInv, Wane,
         \A c \in Copy : Owed(c)' =>
           slot'[copies[c].trade] \in {slot[copies[c].trade], c, Reserved}
  PROVE  SlotInv'
<1>1. TypeOK /\ SlotInv
  BY DEF CopierInv, Books
<1> SUFFICES ASSUME NEW c \in Copy, Owed(c)'
             PROVE  /\ slot'[copies'[c].trade] \in {c, Reserved}
                    /\ \A d \in Rivals(c)' : Gone(d)'
  BY DEF SlotInv
<1>2. Owed(c) /\ copies'[c].trade = copies[c].trade /\ Rivals(c)' = Rivals(c)
  BY <1>1, RivalsStay DEF Wane
<1>3. slot[copies[c].trade] \in {c, Reserved} /\ \A d \in Rivals(c) : Gone(d)
  BY <1>1, <1>2 DEF SlotInv
<1>4. \A d \in Rivals(c) : Gone(d)'
  BY <1>3 DEF Wane, Rivals, Kin, Of, Placed
<1> QED
  BY <1>2, <1>3, <1>4

\* What was settled stays so, and where a slot changed what is asked of it holds.
LEMMA SettledKept ==
  ASSUME CopierInv, Wane, pc # "down", Settled \subseteq Settled',
         \A m \in Trades : Of(m) # {} /\ Past(m) => Past(m)',
         \A m \in Trades :
           \/ slot'[m] = slot[m]
           \/ /\ slot'[m] \in Copy => Rivals(slot'[m]) \subseteq Settled'
              /\ slot'[m] = NoSlot => Past(m)' \/ Kin(m) \subseteq Settled'
  PROVE  SettledInv'
<1>1. TypeOK /\ SettledInv /\ Placed' = Placed /\ Placed \subseteq Copy
  BY DEF CopierInv, Books, Wane, Placed
<1>2. \A m : Of(m)' = Of(m)
  BY <1>1, RivalsStay
<1>3. /\ \A c \in Copy : Rivals(c)' = Rivals(c)
      /\ \A m : Kin(m)' = Kin(m) /\ (Kin(m) # {} => Of(m) # {})
  BY <1>1, RivalsStay DEF Kin
<1>4. ASSUME NEW c \in Placed', c \notin Settled' PROVE Rivals(c)' \subseteq Settled'
  BY <1>1, <1>3, <1>4 DEF SettledInv
<1>5. ASSUME NEW m \in Trades, NEW c \in Copy, c = slot'[m] PROVE Rivals(c)' \subseteq Settled'
  BY <1>1, <1>3, <1>5 DEF SettledInv
<1>6. ASSUME NEW m \in Trades, slot'[m] = NoSlot PROVE Past(m)' \/ Kin(m)' \subseteq Settled'
  BY <1>1, <1>3, <1>6 DEF SettledInv
<1>7. \A m \in Trades : slot'[m] \in Copy => Rivals(slot[m])' \subseteq Settled'
  BY <1>5 DEF Rivals, Kin, Of
<1> QED
  BY <1>4, <1>6, <1>7 DEF SettledInv

\* The opening of a trade that has copies stays behind the bookmark.
LEMMA PastKept ==
  ASSUME CopierInv, [Next]_vars, pc' \in Dispatching <=> pc \in Dispatching,
         batch' \subseteq batch, mark' = mark, bookmark' = bookmark
  PROVE  \A m \in Trades : Of(m) # {} /\ Past(m) => Past(m)'
<1> SUFFICES ASSUME NEW m \in Trades, Of(m) # {}, Past(m) PROVE Past(m)'
  OBVIOUS
<1>1. journal[m].st # "none"
  BY DEF CopierInv, CopyInv, Of
<1>2. journal'[m].opened = journal[m].opened
  BY <1>1, JournalNext DEF CopierInv, LogGrows
<1> QED
  BY <1>2 DEF Past

\* A step that leaves the slots and the EA's lists alone.
LEMMA QuietStep ==
  ASSUME CopierInv, [Next]_vars, Wane, UNCHANGED <<slot, booting, mark, bookmark, reported>>,
         deals \subseteq deals', batch' \subseteq batch,
         \/ UNCHANGED <<pc, cur, hand, todo, fills>>
         \/ /\ pc \notin Dispatching \cup {"down"} /\ pc' \in {"idle", "poll"}
         \/ pc = "stashed" /\ pc' = "dispatch"
  PROVE  Books'
<1>1. TypeOK /\ PhaseInv /\ SettledInv /\ HandInv /\ TodoInv /\ TrackedInv /\ CopyInv
  BY DEF CopierInv, Books
<1>2. SlotInv'
  BY SlotKept
<1>3. Settled \subseteq Settled'
  BY DEF Settled
<1>4. SettledInv'
  <2>1. CASE pc = "down"
    BY <2>1 DEF SettledInv, Dispatching
  <2>2. CASE pc # "down"
    <3>1. \A m \in Trades : Of(m) # {} /\ Past(m) => Past(m)'
      BY PastKept DEF Dispatching
    <3> QED
      BY <1>3, <2>2, <3>1, SettledKept
  <2> QED
    BY <2>1, <2>2
<1>5. \A m : Of(m)' = Of(m) /\ Kin(m)' = Kin(m)
  BY <1>1, RivalsStay
<1>6. \A c \in Copy : Rivals(c)' = Rivals(c)
  BY <1>1, RivalsStay
<1>7. HandInv'
  <2>1. CASE UNCHANGED <<pc, cur, hand, fills>>
    <3>1. ASSUME pc \in {"filled", "stashed", "closed"}
          PROVE  hand \in Copy /\ Rivals(hand)' = Rivals(hand) /\ (Gone(hand) => Gone(hand)')
      <4>1. hand \in Copy
        BY <1>1, <3>1 DEF HandInv, Gone, Of, Placed
      <4>2. PICK c \in Copy : c = hand
        BY <4>1
      <4>3. Rivals(c)' = Rivals(c) /\ (Gone(c) => Gone(c)')
        BY <1>6 DEF Wane
      <4> QED
        BY <2>1, <4>2, <4>3 DEF Rivals, Gone
    <3> QED
      BY <1>1, <1>3, <1>5, <2>1, <3>1 DEF HandInv
  <2>2. CASE pc' \in {"idle", "poll", "dispatch"}
    BY <2>2 DEF HandInv
  <2> QED
    BY <2>1, <2>2
<1>8. TodoInv'
  <2>1. CASE UNCHANGED <<pc, todo>>
    <3>1. \A c \in Copy : Gone(c) => Gone(c)'
      BY DEF Wane
    <3>2. Placed' = Placed /\ Placed \subseteq Copy /\ todo \subseteq Copy
      BY <1>1 DEF Wane, Placed, TypeOK
    <3>3. Astray' = Astray /\ \A c \in Copy : copies'[c].trade = copies[c].trade
      BY <1>1, RivalsStay DEF Wane
    <3> QED
      BY <1>1, <1>6, <2>1, <3>1, <3>2, <3>3 DEF TodoInv
  <2>2. CASE pc' \in {"idle", "poll", "dispatch"}
    BY <2>2 DEF TodoInv
  <2> QED
    BY <2>1, <2>2
<1>9. TrackedInv'
  <2>1. \A c \in Copy : copies'[c].trade = copies[c].trade /\ (Owed(c)' => Owed(c))
    BY <1>1, RivalsStay DEF Wane
  <2> QED
    BY <1>1, <2>1 DEF TrackedInv, Dispatching
<1> QED
  BY <1>2, <1>4, <1>7, <1>8, <1>9 DEF Books

LEMMA QuietSteps ==
  ASSUME CopierInv, [Next]_vars,
         \/ \E e \in batch : OpenSkipped(e) \/ ModifyDone(e)
         \/ \E c \in Copy : CopyCloses(c) \/ HistoryLands(c)
         \/ OnTimer \/ ScanDone \/ OpenReported \/ MasterStep \/ UNCHANGED vars
  PROVE  Books'
<1> USE DEF Dispatching
<1>1. TypeOK
  BY DEF CopierInv
<1>2. ASSUME UNCHANGED copies PROVE Wane
  BY <1>2 DEF Wane, Live, Gone, Placed
<1>3. ASSUME NEW e \in batch, OpenSkipped(e)
      PROVE  Books'
  BY <1>2, <1>3, QuietStep DEF OpenSkipped, Take, terminal, kept
<1>4. ASSUME NEW e \in batch, ModifyDone(e)
      PROVE  Books'
  BY <1>1, <1>4, ModifyWanes, QuietStep DEF ModifyDone, Take, kept
<1>5. ASSUME NEW c \in Copy, CopyCloses(c)
      PROVE  Books'
  BY <1>1, <1>5, ClosesWane, QuietStep DEF CopyCloses, kept
<1>6. ASSUME NEW c \in Copy, HistoryLands(c)
      PROVE  Books'
  BY <1>2, <1>6, QuietStep DEF HistoryLands, kept
<1>7. CASE OnTimer \/ ScanDone
  BY <1>2, <1>7, QuietStep DEF OnTimer, ScanDone, terminal, kept
<1>8. CASE OpenReported
  BY <1>2, <1>8, QuietStep DEF OpenReported, Redispatch, terminal, kept
<1>9. CASE MasterStep \/ UNCHANGED vars
  BY <1>2, <1>9, QuietStep DEF MasterStep, terminal, kept, memory, vars
<1> QED
  BY <1>3, <1>4, <1>5, <1>6, <1>7, <1>8, <1>9

\* The steps between the events of an answer: it dies, starts, gets an answer or has
\* dispatched it.
LEMMA BetweenSteps ==
  ASSUME CopierInv, [Next]_vars, OnInit \/ PollOk \/ PollFails \/ BatchDone \/ Crash
  PROVE  Books'
<1> USE DEF Dispatching
<1>1. /\ TypeOK /\ PhaseInv /\ SlotInv /\ SettledInv /\ TodoInv /\ TrackedInv /\ CopyInv
      /\ JournalInv /\ EventInv
  BY DEF CopierInv, Books
<1>2. UNCHANGED <<copies, slot, reported>> \/ (Crash /\ UNCHANGED <<copies, slot>>)
  BY DEF OnInit, PollOk, PollFails, BatchDone, Crash, terminal, kept
<1>3. Wane
  BY <1>2 DEF Wane, Live, Gone, Placed
<1>4. SlotInv'
  BY <1>2, <1>3, SlotKept
<1>5. CASE Crash
  BY <1>4, <1>5 DEF Crash, Books, SettledInv, HandInv, TodoInv, TrackedInv
<1>6. Placed' = Placed /\ Astray' = Astray /\ \A m : Kin(m)' = Kin(m)
  BY <1>1, <1>3, RivalsStay DEF Wane
<1>7. /\ \A c \in Copy : Rivals(c)' = Rivals(c) /\ Rivals(c) \subseteq Placed
      /\ \A c \in Copy : Owed(c)' => Owed(c)
  BY <1>1, <1>3, RivalsStay DEF Rivals, Kin, Of
<1>8. \A c \in Placed : c \in Copy /\ (Live(c) \/ Gone(c)) /\ ~(Live(c) /\ Gone(c))
  BY <1>1 DEF Placed, Live, Gone, TypeOK, Position
<1>9. CASE OnInit
  <2>1. Settled' = {c \in Copy : Gone(c)} /\ pc' = "poll" /\ booting'
    BY <1>9 DEF OnInit, Settled
  <2>2. ASSUME NEW c \in Placed, c \notin Settled' PROVE Rivals(c)' \subseteq Settled'
    <3>1. Live(c) /\ c \in Copy
      BY <1>8, <2>1, <2>2
    <3>2. CASE copies[c].trade \in Astray
      BY <1>7, <3>1, <3>2 DEF Rivals, Kin
    <3>3. CASE copies[c].trade \notin Astray
      BY <1>1, <1>7, <2>1, <3>1, <3>3 DEF SlotInv, Owed, Placed
    <3> QED
      BY <3>2, <3>3
  <2>3. ASSUME NEW m \in Trades, NEW c \in Copy, c = slot[m] PROVE Rivals(c)' \subseteq Settled'
    <3>1. SUFFICES ASSUME NEW d \in Rivals(c), Live(d) PROVE FALSE
      BY <1>7, <1>8, <2>1
    <3>2. d \in Copy /\ d # c /\ copies[d].trade = m /\ Owed(d)
      BY <1>1, <2>3, <3>1 DEF Rivals, Kin, Of, Owed, CopyInv, Placed
    <3> QED
      BY <1>1, <2>3, <3>1, <3>2 DEF SlotInv, Reserved, Copy
  <2>4. ASSUME NEW m \in Trades, slot[m] = NoSlot PROVE Kin(m)' \subseteq Settled'
    <3>1. SUFFICES ASSUME NEW d \in Kin(m), Live(d) PROVE FALSE
      BY <1>6, <1>8, <2>1 DEF Kin, Of
    <3>2. d \in Copy /\ copies[d].trade = m /\ Owed(d)
      BY <3>1 DEF Kin, Of, Owed, Placed
    <3> QED
      BY <1>1, <2>4, <3>1, <3>2 DEF SlotInv, Reserved, Copy, NoSlot
  <2>5. SettledInv'
    <3>1. \A m \in Trades : slot'[m] \in Copy => Rivals(slot[m])' \subseteq Settled'
      BY <1>2, <1>9, <2>3 DEF Rivals, OnInit, Crash
    <3> QED
      BY <1>2, <1>6, <2>2, <2>4, <3>1 DEF SettledInv, OnInit, kept, Crash
  <2> QED
    BY <1>4, <2>1, <2>5 DEF Books, HandInv, TodoInv, TrackedInv
<1>10. CASE PollOk
  <2>1. /\ pc = "poll" /\ pc' = "dispatch"
        /\ UNCHANGED <<journal, deals, booting, cur, hand, todo, reported, slot>>
    BY <1>10 DEF PollOk, master, terminal, kept
  <2>2. ASSUME NEW m \in Trades, Past(m) PROVE Past(m)'
    <3>1. journal[m].opened <= bookmark /\ journal[m].opened \in Time
      BY <1>1, <2>1, <2>2 DEF Past, TypeOK, FeedTypeOK, Trade
    <3>2. bookmark # NeverPolled
      BY <3>1, FeedAssumption DEF NeverPolled, Time
    <3>3. PICK page \in Pages(bookmark) :
            batch' \subseteq page /\ mark' = BookmarkAfter(batch', bookmark)
      BY <1>10, <3>2 DEF PollOk
    <3>4. batch' \subseteq Log /\ \A e \in batch' : bookmark < e.ts
      BY <3>3 DEF Pages, Newer
    <3>5. batch' \subseteq Event /\ bookmark \in Time
      BY <1>1, <3>2, <3>4, LogTyped DEF TypeOK
    <3>6. mark' \in {NeverPolled} \cup Time /\ bookmark <= mark'
      BY <3>3, <3>4, <3>5, BookmarkAfterAll
    <3>7. ASSUME NEW e \in batch', e.type = "OPEN", e.trade = m PROVE FALSE
      <4>1. e.ts = journal[m].opened
        BY <1>1, <3>4, <3>7, LogSound DEF Sound
      <4> QED
        BY <3>1, <3>4, <3>5, <4>1, FeedAssumption DEF Time
    <3>8. journal[m].opened <= mark'
      BY <3>1, <3>5, <3>6, FeedAssumption DEF Time, NeverPolled
    <3> QED
      BY <2>1, <3>7, <3>8 DEF Past
  <2>3. Settled' = Settled
    BY <2>1 DEF Settled
  <2>4. SettledInv'
    BY <1>3, <2>1, <2>2, <2>3, SettledKept
  <2>5. TrackedInv'
    BY <1>1, <1>2, <1>7, <2>1 DEF TrackedInv, Live, Crash
  <2> QED
    BY <1>4, <2>1, <2>4, <2>5 DEF Books, HandInv, TodoInv
<1>11. CASE PollFails \/ BatchDone
  <2>1. /\ pc # "down" /\ pc' \in {"reconcile", "backfill"} /\ AfterPoll /\ pc \in {"poll", "dispatch"}
        /\ UNCHANGED <<journal, deals, booting, cur, hand, batch, reported, slot, copies>>
    BY <1>11 DEF PollFails, BatchDone, AfterPoll, master, terminal, kept
  <2>2. \A m \in Trades : Past(m) => Past(m)'
    BY <1>11, <2>1 DEF PollFails, BatchDone, Past, kept
  <2>3. Settled' = Settled
    BY <2>1 DEF Settled
  <2>4. SettledInv'
    BY <1>3, <2>1, <2>2, <2>3, SettledKept
  <2>5. TrackedInv'
    BY <1>1, <1>7, <2>1 DEF TrackedInv
  <2>6. TodoInv'
    <3>1. CASE booting
      <4>1. pc' = "backfill" /\ todo' = Placed
        BY <2>1, <3>1 DEF AfterPoll
      <4> QED
        BY <1>6, <4>1 DEF TodoInv
    <3>2. CASE ~booting
      <4>1. pc' = "reconcile" /\ todo' = {c \in Copy : Gone(c) /\ \E m \in Trades : slot[m] = c}
        BY <2>1, <3>2 DEF AfterPoll
      <4>2. ASSUME NEW c \in todo' PROVE Gone(c)' /\ Rivals(c)' \subseteq reported'
        <5>1. c \in Copy /\ Gone(c) /\ Rivals(c) \subseteq reported
          BY <1>1, <2>1, <3>2, <4>1 DEF SettledInv, Settled
        <5> QED
          BY <1>3, <1>7, <2>1, <5>1 DEF Wane
      <4> QED
        BY <4>1, <4>2 DEF TodoInv
    <3> QED
      BY <3>1, <3>2
  <2> QED
    BY <1>4, <2>1, <2>4, <2>5, <2>6 DEF Books, HandInv
<1> QED
  BY <1>5, <1>9, <1>10, <1>11

\* Which copies there can be of a trade, by what its slot says.
LEMMA OfTrade ==
  ASSUME CopierInv, NEW c \in Placed
  PROVE  /\ c \in Copy /\ copies[c].trade \in Trades /\ c \in Of(copies[c].trade)
         /\ Live(c) \/ Gone(c)
         /\ ~(Live(c) /\ Gone(c))
         /\ Live(c) => c \notin Settled
         /\ copies[c].trade \notin Astray => c \in Kin(copies[c].trade)
BY DEF Kin, CopierInv, TypeOK, Placed, Position, Of, Live, Gone, CopyInv, Settled

\* When the EA takes the close of a trade, its opening is behind it.
LEMMA CloseIsLate ==
  ASSUME CopierInv, [Next]_vars, NEW e \in batch, Take(e, "CLOSE"),
         pc' \in Dispatching, mark' = mark
  PROVE  Past(e.trade)' /\ e.trade \in Trades
<1>1. /\ Sound(e) /\ e.type = "CLOSE" /\ e.ts <= mark /\ batch' = batch \ {e}
      /\ \A f \in batch : e.ts <= f.ts /\ Sound(f)
  BY DEF CopierInv, EventInv, Take, Dispatching
<1>2. /\ e.trade \in Trades /\ batch \subseteq Event /\ journal[e.trade] \in Trade
      /\ mark \in {NeverPolled} \cup Time
  BY DEF CopierInv, TypeOK, FeedTypeOK, Event
<1>3. journal[e.trade].opened < e.ts /\ journal[e.trade].opened \in Time /\ e.ts \in Time
  BY <1>1, <1>2 DEF Sound, Event, Trade
<1>4. journal[e.trade].opened <= mark
  BY <1>1, <1>2, <1>3, FeedAssumption DEF Time, NeverPolled
<1>5. ASSUME NEW f \in batch, f.type = "OPEN", f.trade = e.trade PROVE FALSE
  <2>1. f.ts = journal[e.trade].opened /\ e.ts <= f.ts
    BY <1>1, <1>5 DEF Sound
  <2> QED
    BY <1>3, <2>1, FeedAssumption DEF Time
<1>6. journal'[e.trade].opened = journal[e.trade].opened
  BY <1>1, <1>2, JournalNext DEF CopierInv, LogGrows, Sound
<1> QED
  BY <1>1, <1>2, <1>4, <1>5, <1>6 DEF Past

LEMMA OpenReservedStep ==
  ASSUME CopierInv, [Next]_vars, NEW e \in batch, OpenReserved(e)
  PROVE  Books'
<1> USE DEF Dispatching
<1>1. TypeOK /\ SlotInv /\ SettledInv /\ TrackedInv
  BY DEF CopierInv, Books
<1>2. /\ pc = "dispatch" /\ pc' = "order" /\ cur' = e /\ e.type = "OPEN" /\ batch' = batch \ {e}
      /\ slot[e.trade] = NoSlot /\ slot' = [slot EXCEPT ![e.trade] = Reserved]
      /\ UNCHANGED <<copies, deals, reported, booting, mark, bookmark>>
  BY DEF OpenReserved, Take, Reserve, terminal
<1>3. e.trade \in Trades
  BY <1>1 DEF TypeOK, Event
<1>4. \A m \in Trades : slot'[m] = IF m = e.trade THEN Reserved ELSE slot[m]
  BY <1>1, <1>2, <1>3 DEF TypeOK
<1>5. Wane /\ Settled' = Settled
  BY <1>2 DEF Wane, Live, Gone, Placed, Settled
<1>6. \A c \in Copy : copies[c].trade \in Trades
  BY <1>1 DEF TypeOK, Position
<1>7. SlotInv'
  BY <1>4, <1>5, <1>6, SlotKept
<1>8. ~Past(e.trade)
  BY <1>2 DEF Past
<1>9. Kin(e.trade) \subseteq Settled
  BY <1>1, <1>2, <1>3, <1>8 DEF SettledInv
<1>10. SettledInv'
  <2>1. \A m \in Trades : Of(m) # {} /\ Past(m) => Past(m)'
    BY <1>2, PastKept
  <2>2. \A m \in Trades : slot'[m] = slot[m] \/ (slot'[m] \notin Copy /\ slot'[m] # NoSlot)
    BY <1>4 DEF Reserved, NoSlot, Copy
  <2> QED
    BY <1>2, <1>5, <2>1, <2>2, SettledKept
<1>11. HandInv'
  <2>1. Kin(e.trade)' = Kin(e.trade)
    BY <1>1, <1>5, RivalsStay
  <2>2. Kin(cur.trade)' = Kin(e.trade)'
    BY <1>2 DEF Kin, Of
  <2> QED
    BY <1>2, <1>3, <1>4, <1>5, <1>9, <2>1, <2>2 DEF HandInv
<1>12. TrackedInv'
  <2>1. \A c \in Copy : Owed(c)' => Owed(c) /\ copies'[c].trade = copies[c].trade
    BY <1>1, <1>5, RivalsStay
  <2> QED
    BY <1>1, <1>2, <1>4, <1>6, <2>1 DEF TrackedInv, NoSlot, Copy
<1> QED
  BY <1>2, <1>7, <1>10, <1>11, <1>12 DEF Books, TodoInv

LEMMA OrderRejectedStep ==
  ASSUME CopierInv, [Next]_vars, OrderRejected
  PROVE  Books'
<1> USE DEF Dispatching
<1>1. TypeOK /\ SlotInv /\ SettledInv /\ TrackedInv /\ HandInv
  BY DEF CopierInv, Books
<1>2. /\ pc = "order" /\ pc' = "dispatch" /\ slot' = [slot EXCEPT ![cur.trade] = NoSlot]
      /\ UNCHANGED <<copies, deals, reported, booting, mark, bookmark, batch>>
  BY DEF OrderRejected, terminal
<1>3. cur.trade \in Trades /\ Kin(cur.trade) \subseteq Settled
  BY <1>1, <1>2 DEF TypeOK, Event, HandInv
<1>4. \A m \in Trades : slot'[m] = IF m = cur.trade THEN NoSlot ELSE slot[m]
  BY <1>1, <1>2, <1>3 DEF TypeOK
<1>5. Wane /\ Settled' = Settled
  BY <1>2 DEF Wane, Live, Gone, Placed, Settled
<1>6. \A c \in Copy : Owed(c) => copies[c].trade \in Trades /\ copies[c].trade # cur.trade
  <2> SUFFICES ASSUME NEW c \in Copy, Owed(c)
               PROVE  copies[c].trade \in Trades /\ copies[c].trade # cur.trade
    OBVIOUS
  <2>1. c \in Placed /\ Live(c) /\ copies[c].trade \notin Astray
    BY DEF Owed, Live, Placed
  <2> QED
    BY <1>3, <2>1, OfTrade
<1>7. \A c \in Copy : Owed(c)' => Owed(c) /\ copies'[c].trade = copies[c].trade
  BY <1>1, <1>5, RivalsStay
<1>8. SlotInv'
  BY <1>4, <1>5, <1>6, <1>7, SlotKept
<1>9. SettledInv'
  <2>1. \A m \in Trades : Of(m) # {} /\ Past(m) => Past(m)'
    BY <1>2, PastKept
  <2>2. \A m \in Trades : slot'[m] = slot[m]
                          \/ (slot'[m] \notin Copy /\ Kin(m) \subseteq Settled')
    BY <1>3, <1>4, <1>5 DEF NoSlot, Copy
  <2> QED
    BY <1>2, <1>5, <2>1, <2>2, SettledKept
<1>10. TrackedInv'
  BY <1>1, <1>2, <1>4, <1>6, <1>7 DEF TrackedInv
<1> QED
  BY <1>2, <1>8, <1>9, <1>10 DEF Books, TodoInv, HandInv

\* What the opening of copy n of trade m leaves to the other copies.
Unmoved(n, m) ==
  \A d \in Copy \ {n} : /\ Live(d)' <=> Live(d)
                        /\ Gone(d)' <=> Gone(d)
                        /\ copies'[d].trade = copies[d].trade
                        /\ copies[d].trade # m => Rivals(d)' = Rivals(d)
                        /\ Owed(d)' => Owed(d) /\ copies[d].trade # m

\* What a filled order changes: the new copy is of the trade in hand, whose copies were
\* all settled; those of other trades have the rivals they had.
LEMMA FillStep ==
  ASSUME CopierInv, [Next]_vars, NEW denied \in BOOLEAN, Fills(denied), pc = "order",
         UNCHANGED <<deals, reported, booting>>,
         NEW n \in Copy \ Placed, n = NextCopy, NEW m \in Trades, m = cur.trade
  PROVE  /\ slot[m] = Reserved /\ Settled' = Settled
         /\ Placed' = Placed \cup {n} /\ Live(n)' /\ copies'[n].trade = m
         /\ Astray' = IF denied THEN Astray \cup {m} ELSE Astray
         /\ \A k : k # m => Kin(k)' = Kin(k)
         /\ \A d \in Kin(m) : Gone(d) /\ d \in Settled
         /\ n \in Of(m)' /\ \A d \in Kin(m)' : d \in Kin(m) \cup {n}
         /\ Unmoved(n, m)
<1>1. TypeOK /\ HandInv /\ CopyInv
  BY DEF CopierInv, Books
<1>2. /\ Placed' = Placed \cup {n} /\ Live(n)' /\ copies'[n].trade = m
      /\ copies'[n].denied = denied /\ \A d \in Copy : d # n => copies'[d] = copies[d]
  BY OrderFills
<1>3. slot[m] = Reserved /\ Kin(m) \subseteq Settled
  BY <1>1 DEF HandInv
<1>4. Settled' = Settled
  BY DEF Settled
<1>5. Placed \subseteq Copy /\ n \notin Placed /\ n \in Copy
  BY DEF Placed
<1>6. \A d \in Copy : d # n => /\ Live(d)' <=> Live(d)
                               /\ Gone(d)' <=> Gone(d)
                               /\ copies'[d].trade = copies[d].trade
  BY <1>2 DEF Live, Gone
<1>7. \A k : Of(k)' = IF k = m THEN Of(k) \cup {n} ELSE Of(k)
  BY <1>2, <1>5, <1>6 DEF Of
<1>8. \A k : \A d \in Of(k) : d # n /\ d \in Copy /\ copies'[d].denied = copies[d].denied
  BY <1>2, <1>5 DEF Of
<1>9. Astray' = IF denied THEN Astray \cup {m} ELSE Astray
  <2>1. \A k \in Trades : (\E d \in Of(k)' : copies'[d].denied)
                          <=> (k = m /\ denied) \/ \E d \in Of(k) : copies[d].denied
    BY <1>2, <1>7, <1>8
  <2> QED
    BY <2>1 DEF Astray
<1>10. \A k : k # m => Kin(k)' = Kin(k)
  BY <1>7, <1>9 DEF Kin
<1>11. \A d \in Kin(m) : Gone(d) /\ d \in Settled
  BY <1>1, <1>3 DEF CopyInv, Settled
<1>12. n \in Of(m)' /\ \A d \in Kin(m)' : d \in Kin(m) \cup {n}
  BY <1>7, <1>9 DEF Kin
<1>13. ASSUME NEW d \in Copy, d # n, copies[d].trade # m PROVE Rivals(d)' = Rivals(d)
  BY <1>6, <1>10, <1>13 DEF Rivals
<1>14. ASSUME NEW d \in Copy, d # n, Owed(d)' PROVE Owed(d) /\ copies[d].trade # m
  <2>1. Live(d) /\ d \in Placed /\ copies[d].trade \notin Astray
    BY <1>6, <1>9, <1>14 DEF Owed, Live, Placed
  <2>2. ~Gone(d) /\ d \in Kin(copies[d].trade)
    BY <2>1, OfTrade
  <2> QED
    BY <1>11, <2>1, <2>2 DEF Owed
<1>15. Unmoved(n, m)
  BY <1>6, <1>13, <1>14 DEF Unmoved
<1> QED
  BY <1>2, <1>3, <1>4, <1>9, <1>10, <1>11, <1>12, <1>15

LEMMA OrderDoneStep ==
  ASSUME CopierInv, [Next]_vars, OrderDone
  PROVE  Books'
<1> USE DEF Dispatching
<1>1. TypeOK /\ SlotInv /\ SettledInv /\ TrackedInv /\ HandInv /\ CopyInv
  BY DEF CopierInv, Books
<1>2. /\ pc = "order" /\ pc' = "filled" /\ cur' = cur /\ Fills(FALSE) /\ hand' = NextCopy
      /\ UNCHANGED <<slot, deals, reported, booting, mark, bookmark, batch, fills, journal>>
  BY DEF OrderDone, kept, master
<1>3. PICK n \in Copy \ Placed : n = NextCopy
  BY <1>2, NextCopyFree DEF Fills
<1>4. PICK m \in Trades : m = cur.trade
  BY <1>1 DEF TypeOK, Event
<1>5. /\ slot[m] = Reserved /\ Settled' = Settled
      /\ Placed' = Placed \cup {n} /\ Live(n)' /\ copies'[n].trade = m
      /\ Astray' = Astray
      /\ \A k : k # m => Kin(k)' = Kin(k)
      /\ \A d \in Kin(m) : Gone(d) /\ d \in Settled
      /\ n \in Of(m)' /\ \A d \in Kin(m)' : d \in Kin(m) \cup {n}
  BY <1>4, <1>2, <1>3, FillStep
<1>6. \A d \in Copy \ {n} : /\ Live(d)' <=> Live(d)
                            /\ Gone(d)' <=> Gone(d)
                            /\ copies'[d].trade = copies[d].trade
                            /\ copies[d].trade # m => Rivals(d)' = Rivals(d)
                            /\ Owed(d)' => Owed(d) /\ copies[d].trade # m
  <2>1. Unmoved(n, m)
    BY <1>4, <1>2, <1>3, FillStep
  <2> QED
    BY <2>1 DEF Unmoved
<1>7. n \in Copy /\ n \notin Placed /\ \A k : Kin(k) \subseteq Placed
  BY DEF Placed, Kin, Of
<1>8. \A d \in Rivals(n)' : d # n /\ Gone(d) /\ Gone(d)' /\ d \in Settled'
  <2>1. ASSUME NEW d \in Rivals(n)' PROVE d \in Kin(m) /\ d # n
    BY <1>5, <2>1 DEF Rivals
  <2>2. Kin(m) \subseteq Copy
    BY <1>7 DEF Placed
  <2> QED
    BY <1>5, <1>6, <2>1, <2>2
<1>9. SlotInv'
  <2> SUFFICES ASSUME NEW c \in Copy, Owed(c)'
               PROVE  /\ slot[copies'[c].trade] \in {c, Reserved}
                      /\ \A d \in Rivals(c)' : Gone(d)'
    BY <1>2 DEF SlotInv
  <2>1. CASE c = n
    BY <1>5, <1>8, <2>1
  <2>2. CASE c # n
    <3>1. Owed(c) /\ copies'[c].trade = copies[c].trade /\ Rivals(c)' = Rivals(c)
      BY <1>6, <2>2
    <3>2. \A d \in Rivals(c) : d \in Copy /\ d # n /\ Gone(d)
      BY <1>1, <1>7, <3>1 DEF SlotInv, Rivals, Placed
    <3> QED
      BY <1>1, <1>6, <3>1, <3>2 DEF SlotInv
  <2> QED
    BY <2>1, <2>2
<1>10. SettledInv'
  <2>1. ASSUME NEW c \in Placed', c \notin Settled' PROVE Rivals(c)' \subseteq Settled'
    <3>1. CASE c = n
      BY <1>8, <3>1
    <3>2. CASE c # n
      <4>1. c \in Placed /\ c \in Copy /\ c \notin Settled
        BY <1>5, <2>1, <3>2 DEF Placed
      <4>2. CASE copies[c].trade # m
        BY <1>1, <1>2, <1>5, <1>6, <3>2, <4>1, <4>2 DEF SettledInv
      <4>3. CASE copies[c].trade = m
        <5>1. m \in Astray
          BY <1>5, <4>1, <4>3, OfTrade
        <5> QED
          BY <1>5, <1>6, <3>2, <4>1, <4>3, <5>1 DEF Rivals, Kin
      <4> QED
        BY <4>2, <4>3
    <3> QED
      BY <3>1, <3>2
  <2>2. ASSUME NEW k \in Trades, NEW c \in Copy, c = slot[k] PROVE Rivals(c)' \subseteq Settled'
    <3>1. c \in Of(k) /\ k # m
      BY <1>1, <1>5, <2>2 DEF CopyInv, Reserved, Copy
    <3>2. copies[c].trade # m /\ c # n
      BY <1>7, <3>1 DEF Of
    <3> QED
      BY <1>1, <1>2, <1>5, <1>6, <2>2, <3>2 DEF SettledInv
  <2>3. \A k \in Trades : slot'[k] \in Copy => Rivals(slot[k])' \subseteq Settled'
    BY <1>2, <2>2 DEF Rivals
  <2>4. ASSUME NEW k \in Trades, slot'[k] = NoSlot PROVE Past(k)' \/ Kin(k)' \subseteq Settled'
    <3>1. k # m
      BY <1>2, <1>5, <2>4 DEF Reserved, NoSlot
    <3>2. Past(k)' <=> Past(k)
      BY <1>2 DEF Past
    <3> QED
      BY <1>1, <1>2, <1>5, <2>4, <3>1, <3>2 DEF SettledInv
  <2> QED
    BY <2>1, <2>3, <2>4 DEF SettledInv
<1>11. HandInv'
  <2>1. fills'[n] = "none"
    BY <1>1, <1>2, <1>7 DEF CopyInv
  <2>2. n \in Of(cur.trade)' /\ Rivals(n)' \subseteq Settled'
    BY <1>4, <1>2, <1>5, <1>8
  <2>3. Rivals(hand)' = Rivals(n)'
    BY <1>2, <1>3 DEF Rivals
  <2> QED
    BY <1>2, <1>3, <2>1, <2>2, <2>3 DEF HandInv
<1>12. TrackedInv'
  BY <1>1, <1>2, <1>3, <1>6 DEF TrackedInv
<1> QED
  BY <1>2, <1>9, <1>10, <1>11, <1>12 DEF Books, TodoInv

\* An order filled behind the EA's back: nothing is promised of its trade any more, and
\* all is as it was for the others.
LEMMA OrderLostStep ==
  ASSUME CopierInv, [Next]_vars, OrderLost
  PROVE  Books'
<1> USE DEF Dispatching
<1>1. TypeOK /\ SlotInv /\ SettledInv /\ TrackedInv /\ HandInv /\ CopyInv
  BY DEF CopierInv, Books
<1>2. /\ pc = "order" /\ pc' = "dispatch" /\ Fills(TRUE)
      /\ slot' = [slot EXCEPT ![cur.trade] = NoSlot]
      /\ UNCHANGED <<deals, reported, booting, mark, bookmark, batch, journal>>
  BY DEF OrderLost, master
<1>3. PICK n \in Copy \ Placed : n = NextCopy
  BY <1>2, NextCopyFree DEF Fills
<1>4. PICK m \in Trades : m = cur.trade
  BY <1>1 DEF TypeOK, Event
<1>5. /\ Settled' = Settled
      /\ Placed' = Placed \cup {n} /\ copies'[n].trade = m
      /\ Astray' = Astray \cup {m}
      /\ \A k : k # m => Kin(k)' = Kin(k)
  BY <1>4, <1>2, <1>3, FillStep
<1>6. \A d \in Copy \ {n} : /\ Gone(d)' <=> Gone(d)
                            /\ copies'[d].trade = copies[d].trade
                            /\ copies[d].trade # m => Rivals(d)' = Rivals(d)
                            /\ Owed(d)' => Owed(d) /\ copies[d].trade # m
  <2>1. Unmoved(n, m)
    BY <1>4, <1>2, <1>3, FillStep
  <2> QED
    BY <2>1 DEF Unmoved
<1>7. \A k \in Trades : slot'[k] = IF k = m THEN NoSlot ELSE slot[k]
  BY <1>4, <1>1, <1>2 DEF TypeOK
<1>8. n \in Copy /\ n \notin Placed /\ \A k : Kin(k) \subseteq Placed
  BY DEF Placed, Kin, Of
<1>9. ~Owed(n)' /\ Kin(m)' = {} /\ \A c \in Copy : copies'[c].trade = m => Rivals(c)' = {}
  <2>1. m \in Astray'
    BY <1>5
  <2>2. ~Owed(n)'
    BY <1>5, <2>1 DEF Owed
  <2>3. Kin(m)' = {}
    BY <2>1 DEF Kin
  <2>4. ASSUME NEW c \in Copy, copies'[c].trade = m PROVE Rivals(c)' = {}
    BY <2>3, <2>4 DEF Rivals
  <2> QED
    BY <2>2, <2>3, <2>4
<1>10. SlotInv'
  <2> SUFFICES ASSUME NEW c \in Copy, Owed(c)'
               PROVE  /\ slot'[copies'[c].trade] \in {c, Reserved}
                      /\ \A d \in Rivals(c)' : Gone(d)'
    BY DEF SlotInv
  <2>1. Owed(c) /\ copies'[c].trade = copies[c].trade /\ copies[c].trade # m /\ Rivals(c)' = Rivals(c)
    BY <1>6, <1>9
  <2>2. \A d \in Rivals(c) : d \in Copy /\ d # n /\ Gone(d)
    BY <1>1, <1>8, <2>1 DEF SlotInv, Rivals, Placed
  <2>3. copies[c].trade \in Trades
    BY <1>1 DEF TypeOK, Position
  <2> QED
    BY <1>1, <1>6, <1>7, <2>1, <2>2, <2>3 DEF SlotInv
<1>11. SettledInv'
  <2>1. ASSUME NEW c \in Placed', c \notin Settled' PROVE Rivals(c)' \subseteq Settled'
    <3>1. CASE copies'[c].trade = m
      BY <1>9, <3>1 DEF Placed
    <3>2. CASE copies'[c].trade # m
      <4>1. c \in Placed /\ c \in Copy /\ c # n
        BY <1>5, <2>1, <3>2 DEF Placed
      <4> QED
        BY <1>1, <1>2, <1>5, <1>6, <2>1, <3>2, <4>1 DEF SettledInv
    <3> QED
      BY <3>1, <3>2
  <2>2. ASSUME NEW k \in Trades, NEW c \in Copy, c = slot'[k] PROVE Rivals(c)' \subseteq Settled'
    <3>1. k # m /\ c = slot[k]
      BY <1>7, <2>2 DEF NoSlot, Copy
    <3>2. copies[c].trade = k /\ c # n
      BY <1>1, <1>8, <3>1 DEF CopyInv, Of
    <3> QED
      BY <1>1, <1>2, <1>5, <1>6, <3>1, <3>2 DEF SettledInv
  <2>3. \A k \in Trades : slot'[k] \in Copy => Rivals(slot[k])' \subseteq Settled'
    BY <2>2 DEF Rivals
  <2>4. ASSUME NEW k \in Trades, slot'[k] = NoSlot PROVE Past(k)' \/ Kin(k)' \subseteq Settled'
    <3>1. Past(k)' <=> Past(k)
      BY <1>2 DEF Past
    <3> QED
      BY <1>1, <1>2, <1>5, <1>7, <1>9, <2>4, <3>1 DEF SettledInv
  <2> QED
    BY <2>1, <2>3, <2>4 DEF SettledInv
<1>12. TrackedInv'
  <2>1. \A c \in Copy : copies[c].trade \in Trades
    BY <1>1 DEF TypeOK, Position
  <2> QED
    BY <1>1, <1>2, <1>6, <1>7, <1>9, <2>1 DEF TrackedInv
<1> QED
  BY <1>2, <1>10, <1>11, <1>12 DEF Books, HandInv, TodoInv

LEMMA OpenStashedStep ==
  ASSUME CopierInv, [Next]_vars, OpenStashed
  PROVE  Books'
<1> USE DEF Dispatching
<1>1. TypeOK /\ SlotInv /\ SettledInv /\ TrackedInv /\ HandInv /\ CopyInv
  BY DEF CopierInv, Books
<1>2. /\ pc = "filled" /\ pc' = "stashed" /\ slot' = [slot EXCEPT ![cur.trade] = hand]
      /\ UNCHANGED <<copies, deals, reported, booting, mark, bookmark, batch, cur, hand, fills>>
  BY DEF OpenStashed, terminal
<1>3. PICK c \in Placed : c = hand
  BY <1>1, <1>2 DEF HandInv, Of
<1>4. /\ cur.trade \in Trades /\ c \in Copy /\ copies[c].trade = cur.trade
      /\ Rivals(c) \subseteq Settled /\ fills[c] = "none"
  BY <1>1, <1>2, <1>3 DEF HandInv, Of, Placed, TypeOK, Event
<1>5. \A m \in Trades : slot'[m] = IF m = cur.trade THEN c ELSE slot[m]
  BY <1>1, <1>2, <1>3, <1>4 DEF TypeOK
<1>6. Wane /\ Settled' = Settled
  BY <1>2 DEF Wane, Live, Gone, Placed, Settled
<1>7. \A d \in Copy : Owed(d) => copies[d].trade \in Trades /\ (copies[d].trade = cur.trade => d = c)
  <2> SUFFICES ASSUME NEW d \in Copy, Owed(d)
               PROVE  copies[d].trade \in Trades /\ (copies[d].trade = cur.trade => d = c)
    OBVIOUS
  <2>1. d \in Placed /\ Live(d) /\ copies[d].trade \notin Astray
    BY DEF Owed, Live, Placed
  <2> QED
    BY <1>4, <2>1, OfTrade DEF Rivals
<1>8. \A d \in Copy : Owed(d)' => Owed(d) /\ copies'[d].trade = copies[d].trade
  BY <1>1, <1>6, RivalsStay
<1>9. SlotInv'
  BY <1>5, <1>6, <1>7, <1>8, SlotKept
<1>10. SettledInv'
  <2>1. \A m \in Trades : Of(m) # {} /\ Past(m) => Past(m)'
    BY <1>2, PastKept
  <2>2. \A m \in Trades : slot'[m] = slot[m] \/ slot'[m] = c
    BY <1>5
  <2>3. c # NoSlot
    BY <1>4 DEF NoSlot, Copy
  <2> QED
    BY <1>2, <1>4, <1>6, <2>1, <2>2, <2>3, SettledKept
<1>11. HandInv'
  <2>1. Of(cur.trade)' = Of(cur.trade) /\ Rivals(c)' = Rivals(c)
    BY <1>1, <1>2, <1>4, <1>6, RivalsStay DEF Of, Placed
  <2>2. Rivals(hand)' = Rivals(c)'
    BY <1>2, <1>3 DEF Rivals
  <2> QED
    BY <1>1, <1>2, <1>3, <1>6, <2>1, <2>2 DEF HandInv
<1>12. TrackedInv'
  BY <1>1, <1>2, <1>3, <1>4, <1>5, <1>7, <1>8 DEF TrackedInv
<1> QED
  BY <1>2, <1>10, <1>11, <1>12, <1>9 DEF Books, TodoInv

\* An open copy whose trade's slot is another copy, or empty, there is not.
LEMMA SlotOfLive ==
  ASSUME CopierInv, NEW d \in Copy, Owed(d)
  PROVE  /\ slot[copies[d].trade] \in {d, Reserved} /\ copies[d].trade \in Trades
         /\ d \in Placed /\ Live(d) /\ ~Gone(d) /\ copies[d].trade \notin Astray
BY DEF CopierInv, Books, SlotInv, Owed, TypeOK, Position, Live, Gone, Placed

LEMMA CloseSkippedStep ==
  ASSUME CopierInv, [Next]_vars, NEW e \in batch, CloseSkipped(e)
  PROVE  Books'
<1> USE DEF Dispatching
<1>1. TypeOK /\ TrackedInv /\ HandInv
  BY DEF CopierInv, Books
<1>2. /\ pc = "dispatch" /\ batch' = batch \ {e} /\ Take(e, "CLOSE")
      /\ UNCHANGED <<copies, deals, reported, booting, mark, bookmark, cur, hand, fills, pc, todo>>
  BY DEF CloseSkipped, Take, terminal
<1>3. CASE UNCHANGED slot
  <2>1. Wane
    BY <1>2 DEF Wane, Live, Gone, Placed
  <2> QED
    BY <1>2, <1>3, <2>1, QuietStep
<1>4. CASE Gone(slot[e.trade]) /\ slot' = [slot EXCEPT ![e.trade] = NoSlot]
  <2>1. Past(e.trade)' /\ e.trade \in Trades
    BY <1>2, CloseIsLate
  <2>2. \A m \in Trades : slot'[m] = IF m = e.trade THEN NoSlot ELSE slot[m]
    BY <1>1, <1>4, <2>1 DEF TypeOK
  <2>3. Wane /\ Settled' = Settled
    BY <1>2 DEF Wane, Live, Gone, Placed, Settled
  <2>4. \A d \in Copy : Owed(d) => copies[d].trade \in Trades /\ copies[d].trade # e.trade
    <3> SUFFICES ASSUME NEW d \in Copy, Owed(d)
                 PROVE  copies[d].trade \in Trades /\ copies[d].trade # e.trade
      OBVIOUS
    <3> QED
      BY <1>4, SlotOfLive DEF Gone, Reserved, Copy
  <2>5. \A d \in Copy : Owed(d)' => Owed(d) /\ copies'[d].trade = copies[d].trade
    BY <1>1, <2>3, RivalsStay
  <2>6. SlotInv'
    BY <2>2, <2>3, <2>4, <2>5, SlotKept
  <2>7. SettledInv'
    <3>1. \A m \in Trades : Of(m) # {} /\ Past(m) => Past(m)'
      BY <1>2, PastKept
    <3>2. \A m \in Trades : slot'[m] = slot[m] \/ (slot'[m] \notin Copy /\ Past(m)')
      BY <2>1, <2>2 DEF NoSlot, Copy
    <3> QED
      BY <1>2, <2>3, <3>1, <3>2, SettledKept
  <2>8. TrackedInv'
    BY <1>1, <1>2, <2>2, <2>4, <2>5 DEF TrackedInv
  <2> QED
    BY <1>2, <2>6, <2>7, <2>8 DEF Books, HandInv, TodoInv
<1> QED
  BY <1>3, <1>4 DEF CloseSkipped

LEMMA CloseDoneStep ==
  ASSUME CopierInv, [Next]_vars, NEW e \in batch, CloseDone(e)
  PROVE  Books'
<1> USE DEF Dispatching
<1>1. TypeOK /\ TrackedInv /\ HandInv /\ SettledInv /\ CopyInv
  BY DEF CopierInv, Books
<1>2. /\ pc = "dispatch" /\ pc' = "closed" /\ batch' = batch \ {e} /\ Take(e, "CLOSE")
      /\ slot' = [slot EXCEPT ![e.trade] = NoSlot]
      /\ UNCHANGED <<booting, mark, bookmark, cur, fills, todo>>
  BY DEF CloseDone, Take
<1>3. PICK c \in Copy : c = slot[e.trade] /\ Live(c) /\ Closes(c) /\ reported' = reported \cup {c}
                        /\ hand' = c
  BY DEF CloseDone, Live
<1>4. Past(e.trade)' /\ e.trade \in Trades
  BY <1>2, CloseIsLate
<1>5. \A m \in Trades : slot'[m] = IF m = e.trade THEN NoSlot ELSE slot[m]
  BY <1>1, <1>2, <1>4 DEF TypeOK
<1>6. Wane /\ Gone(c)' /\ deals \subseteq deals'
  BY <1>1, <1>3, ClosesWane
<1>7. Settled \subseteq Settled'
  BY <1>2, <1>3, <1>6 DEF Settled
<1>8. \A d \in Copy : Owed(d)' => /\ Owed(d) /\ copies'[d].trade = copies[d].trade
                                  /\ copies[d].trade \in Trades /\ copies[d].trade # e.trade
  <2> SUFFICES ASSUME NEW d \in Copy, Owed(d)'
               PROVE  /\ Owed(d) /\ copies'[d].trade = copies[d].trade
                      /\ copies[d].trade \in Trades /\ copies[d].trade # e.trade
    OBVIOUS
  <2>1. Owed(d) /\ copies'[d].trade = copies[d].trade
    BY <1>1, <1>6, RivalsStay
  <2>2. d # c
    BY <1>6 DEF Owed, Live, Gone
  <2> QED
    BY <1>3, <2>1, <2>2, SlotOfLive DEF Reserved, Copy
<1>9. SlotInv'
  BY <1>5, <1>6, <1>8, SlotKept
<1>10. SettledInv'
  <2>1. \A m \in Trades : Of(m) # {} /\ Past(m) => Past(m)'
    BY <1>2, PastKept
  <2>2. \A m \in Trades : slot'[m] = slot[m] \/ (slot'[m] \notin Copy /\ Past(m)')
    BY <1>4, <1>5 DEF NoSlot, Copy
  <2> QED
    BY <1>2, <1>6, <1>7, <2>1, <2>2, SettledKept
<1>11. HandInv'
  <2>1. Rivals(c)' \subseteq Settled'
    <3>1. Rivals(c) \subseteq Settled
      BY <1>1, <1>2, <1>3, <1>4 DEF SettledInv
    <3> QED
      BY <1>1, <1>6, <1>7, <3>1, RivalsStay
  <2>2. Rivals(hand)' = Rivals(c)'
    BY <1>3 DEF Rivals, Kin, Of
  <2>3. Gone(hand)'
    BY <1>3, <1>6 DEF Gone
  <2> QED
    BY <1>2, <2>1, <2>2, <2>3 DEF HandInv
<1>12. TrackedInv'
  BY <1>1, <1>2, <1>5, <1>8 DEF TrackedInv
<1> QED
  BY <1>2, <1>9, <1>10, <1>11, <1>12 DEF Books, TodoInv

\* Where a slot is rewritten for a copy that is gone, and no other of the trade is open,
\* nothing changes for the open ones.
LEMMA RestashKept ==
  ASSUME CopierInv, NEW c \in Copy, Gone(c), Rivals(c) \subseteq Settled \/ c \in deals
  PROVE  /\ \A d \in Copy : Owed(d) => Restash(c, slot)[copies[d].trade] = slot[copies[d].trade]
         /\ \A m \in Trades : \/ Restash(c, slot)[m] = slot[m]
                              \/ Restash(c, slot)[m] = c /\ Rivals(c) \subseteq Settled
<1>1. TypeOK /\ CopyInv /\ copies[c].trade \in Trades
  <2>1. TypeOK /\ CopyInv
    BY DEF CopierInv
  <2> QED
    BY <2>1 DEF TypeOK, Position
<1>2. CASE c \in deals
  BY <1>2 DEF Restash
<1>3. CASE c \notin deals
  <2>1. Restash(c, slot) = [slot EXCEPT ![copies[c].trade] = c]
    BY <1>3 DEF Restash
  <2>2. \A m \in Trades : Restash(c, slot)[m] = IF m = copies[c].trade THEN c ELSE slot[m]
    BY <1>1, <2>1 DEF TypeOK
  <2>3. ASSUME NEW d \in Copy, Owed(d)
        PROVE  copies[d].trade \in Trades /\ copies[d].trade # copies[c].trade
    <3>1. d \in Placed /\ Live(d) /\ copies[d].trade \in Trades /\ copies[d].trade \notin Astray /\ ~Gone(d)
      BY <2>3, SlotOfLive
    <3>2. d \notin Settled /\ d \in Kin(copies[d].trade)
      BY <3>1, OfTrade
    <3> QED
      BY <1>3, <3>1, <3>2 DEF Rivals
  <2> QED
    BY <1>3, <2>2, <2>3
<1> QED
  BY <1>2, <1>3

LEMMA CloseReportedStep ==
  ASSUME CopierInv, [Next]_vars, CloseReported
  PROVE  Books'
<1> USE DEF Dispatching
<1>1. TypeOK /\ TrackedInv /\ HandInv
  BY DEF CopierInv, Books
<1>2. /\ pc = "closed" /\ pc' = "dispatch" /\ slot' = Restash(hand, slot)
      /\ UNCHANGED <<copies, deals, reported, booting, mark, bookmark, batch>>
  BY DEF CloseReported, Redispatch, terminal
<1>3. PICK c \in Copy : c = hand /\ Gone(c) /\ Rivals(c) \subseteq Settled
  BY <1>1, <1>2 DEF HandInv, Gone
<1>4. Wane /\ Settled' = Settled
  BY <1>2 DEF Wane, Live, Gone, Placed, Settled
<1>5. \A d \in Copy : Owed(d)' => /\ Owed(d) /\ copies'[d].trade = copies[d].trade
                                  /\ slot'[copies[d].trade] = slot[copies[d].trade]
  BY <1>1, <1>2, <1>3, <1>4, RestashKept, RivalsStay
<1>6. SlotInv'
  BY <1>4, <1>5, SlotKept
<1>7. SettledInv'
  <2>1. \A m \in Trades : Of(m) # {} /\ Past(m) => Past(m)'
    BY <1>2, PastKept
  <2>2. \A m \in Trades : slot'[m] = slot[m] \/ slot'[m] = c
    BY <1>2, <1>3, RestashKept
  <2>3. c # NoSlot
    BY DEF NoSlot, Copy
  <2> QED
    BY <1>2, <1>3, <1>4, <2>1, <2>2, <2>3, SettledKept
<1>8. TrackedInv'
  BY <1>1, <1>2, <1>5 DEF TrackedInv
<1> QED
  BY <1>2, <1>6, <1>7, <1>8 DEF Books, TodoInv, HandInv

\* A closed copy whose trade has no other copy to be done with is done with itself, and
\* its slot given up.
LEMMA UnmapStep ==
  ASSUME CopierInv, [Next]_vars, ~booting, pc \notin Dispatching \cup {"down"}, pc' = pc,
         NEW c \in Copy, Gone(c), Rivals(c) \subseteq reported,
         slot' = Unmap(c), reported' = reported \cup {c}, todo' \subseteq todo,
         UNCHANGED <<copies, deals, booting, mark, bookmark, batch>>
  PROVE  Books'
<1>1. TypeOK /\ TrackedInv /\ TodoInv /\ PhaseInv /\ CopyInv
  BY DEF CopierInv, Books
<1>2. c \in Placed /\ copies[c].trade \in Trades
  <2>1. c \in Placed
    BY DEF Gone, Placed
  <2> QED
    BY <2>1, OfTrade
<1>3. \A m \in Trades : slot'[m] = IF m = copies[c].trade THEN NoSlot ELSE slot[m]
  BY <1>1, <1>2 DEF TypeOK, Unmap
<1>4. Wane
  BY DEF Wane, Live, Gone, Placed
<1>5. Settled = reported /\ Settled' = reported'
  BY DEF Settled
<1>6. \A d \in Copy : Owed(d)' => /\ Owed(d) /\ copies'[d].trade = copies[d].trade
                                  /\ copies[d].trade \in Trades /\ copies[d].trade # copies[c].trade
  <2> SUFFICES ASSUME NEW d \in Copy, Owed(d)'
               PROVE  /\ Owed(d) /\ copies'[d].trade = copies[d].trade
                      /\ copies[d].trade \in Trades /\ copies[d].trade # copies[c].trade
    OBVIOUS
  <2>1. Owed(d) /\ copies'[d].trade = copies[d].trade
    BY <1>1, <1>4, RivalsStay
  <2>2. d \in Placed /\ Live(d) /\ copies[d].trade \in Trades /\ copies[d].trade \notin Astray /\ ~Gone(d)
    BY <2>1, SlotOfLive
  <2>3. d \notin Settled /\ d \in Kin(copies[d].trade)
    BY <2>2, OfTrade
  <2> QED
    BY <1>5, <2>1, <2>2, <2>3 DEF Rivals
<1>7. SlotInv'
  BY <1>3, <1>4, <1>6, SlotKept
<1>8. SettledInv'
  <2>1. \A m \in Trades : Of(m) # {} /\ Past(m) => Past(m)'
    BY PastKept
  <2>2. Kin(copies[c].trade) \subseteq Settled'
    BY <1>5 DEF Rivals
  <2>3. \A m \in Trades : slot'[m] = slot[m] \/ (slot'[m] \notin Copy /\ Kin(m) \subseteq Settled')
    BY <1>3, <2>2 DEF NoSlot, Copy
  <2>4. Settled \subseteq Settled'
    BY <1>5
  <2> QED
    BY <1>4, <2>1, <2>3, <2>4, SettledKept DEF Dispatching
<1>9. TrackedInv'
  BY <1>1, <1>3, <1>6 DEF TrackedInv, Dispatching
<1>10. TodoInv'
  <2>1. pc # "backfill"
    BY <1>1 DEF PhaseInv
  <2>2. \A d \in Copy : (Gone(d)' <=> Gone(d)) /\ Rivals(d)' = Rivals(d)
    BY <1>1, <1>4, RivalsStay DEF Gone
  <2>3. todo \subseteq Copy
    BY <1>1 DEF TypeOK
  <2> QED
    BY <1>1, <2>1, <2>2, <2>3 DEF TodoInv
<1> QED
  BY <1>7, <1>8, <1>9, <1>10 DEF Books, HandInv, Dispatching

LEMMA ClosureSteps ==
  ASSUME CopierInv, [Next]_vars,
         \/ \E c \in Copy : Reconcile(c) \/ Scan(c) \/ OnTradeTransaction(c)
         \/ ReconcileDone
  PROVE  Books'
<1> USE DEF Dispatching
<1>1. TypeOK /\ TrackedInv /\ TodoInv /\ PhaseInv /\ CopyInv /\ SettledInv
  BY DEF CopierInv, Books
<1>2. ASSUME NEW c \in Copy, Reconcile(c) \/ Scan(c)
      PROVE  Books'
  <2>1. Gone(c) /\ Rivals(c) \subseteq reported /\ ~booting /\ pc \in {"reconcile", "scan"}
    BY <1>1, <1>2 DEF Reconcile, Scan, TodoInv, PhaseInv
  <2> QED
    BY <1>2, <2>1, UnmapStep DEF Reconcile, Scan, terminal
<1>3. ASSUME NEW c \in Copy, OnTradeTransaction(c), c \in reported
      PROVE  Books'
  <2>1. /\ UNCHANGED <<copies, deals, pc, fills, slot, bookmark, booting, batch, mark, cur, hand, todo,
                       reported>>
    BY <1>3 DEF OnTradeTransaction, terminal
  <2>2. Wane
    BY <2>1 DEF Wane, Live, Gone, Placed
  <2> QED
    BY <2>1, <2>2, QuietStep
<1>4. ASSUME NEW c \in Copy, OnTradeTransaction(c), c \notin reported
      PROVE  Books'
  <2>1. pc = "idle" /\ ~booting /\ c \in deals /\ Gone(c) /\ c \in Placed
    BY <1>1, <1>4 DEF OnTradeTransaction, PhaseInv, CopyInv, Gone, Placed
  <2>2. Rivals(c) \subseteq reported
    BY <1>1, <1>4, <2>1 DEF SettledInv, Settled
  <2> QED
    BY <1>4, <2>1, <2>2, UnmapStep DEF OnTradeTransaction, terminal
<1>5. CASE ReconcileDone
  <2>1. /\ pc = "reconcile" /\ pc' = "scan" /\ todo' = deals \ reported /\ ~booting
        /\ UNCHANGED <<copies, deals, slot, bookmark, booting, batch, mark, reported>>
    BY <1>1, <1>5 DEF ReconcileDone, terminal, kept, PhaseInv
  <2>2. Wane /\ Settled = reported /\ Settled' = Settled
    BY <2>1 DEF Wane, Live, Gone, Placed, Settled
  <2>3. SlotInv'
    BY <2>1, <2>2, SlotKept
  <2>4. SettledInv'
    <3>1. \A m \in Trades : Of(m) # {} /\ Past(m) => Past(m)'
      BY <2>1, PastKept
    <3> QED
      BY <2>1, <2>2, <3>1, SettledKept
  <2>5. TrackedInv'
    <3>1. \A c \in Copy : Owed(c)' => Owed(c) /\ copies'[c].trade = copies[c].trade
      BY <1>1, <2>2, RivalsStay
    <3> QED
      BY <1>1, <2>1, <3>1 DEF TrackedInv
  <2>6. ASSUME NEW c \in todo' PROVE Gone(c)' /\ Rivals(c)' \subseteq reported'
    <3>1. c \in Copy /\ c \in Placed /\ Gone(c) /\ c \notin reported
      BY <1>1, <2>1, <2>6 DEF CopyInv, TypeOK, Gone, Placed
    <3>2. Rivals(c) \subseteq reported
      BY <1>1, <2>1, <2>2, <3>1 DEF SettledInv
    <3> QED
      BY <1>1, <2>1, <2>2, <3>1, <3>2, RivalsStay DEF Gone
  <2> QED
    BY <2>1, <2>3, <2>4, <2>5, <2>6 DEF Books, HandInv, TodoInv
<1> QED
  BY <1>2, <1>3, <1>4, <1>5

LEMMA BackfillStep ==
  ASSUME CopierInv, [Next]_vars, NEW c \in Copy, Backfill(c)
  PROVE  Books'
<1>1. TypeOK /\ TodoInv /\ PhaseInv /\ CopyInv /\ SettledInv
  BY DEF CopierInv, Books
<1>2. /\ pc = "backfill" /\ pc' = "backfill" /\ booting /\ c \in todo /\ todo' = todo \ {c}
      /\ UNCHANGED <<copies, deals, bookmark, booting, batch, mark>>
  BY <1>1 DEF Backfill, terminal, PhaseInv
<1>3. Wane /\ Settled = deals /\ Settled' = deals
  BY <1>2 DEF Wane, Live, Gone, Placed, Settled
<1>4. /\ todo \subseteq Placed /\ c \in Placed /\ copies[c].trade \in Trades
      /\ Live(c) \/ Gone(c)
      /\ Live(c) => c \notin deals
      /\ c \notin deals => Rivals(c) \subseteq deals
  BY <1>1, <1>2, <1>3, OfTrade DEF TodoInv, SettledInv
<1>5. \A m \in Trades : Of(m) # {} /\ Past(m) => Past(m)'
  BY <1>2, PastKept
\* Of a trade whose copy is still to visit and not among the deals, none was found open.
<1>6. ASSUME c \notin deals, copies[c].trade \notin Astray, NEW d \in Placed \ todo, d \notin reported
      PROVE  copies[d].trade # copies[c].trade
  <2>1. Rivals(d) \subseteq deals
    BY <1>1, <1>2, <1>6 DEF TodoInv
  <2>2. c \in Kin(copies[c].trade)
    BY <1>4, <1>6, OfTrade
  <2> QED
    BY <1>2, <1>4, <1>6, <2>1, <2>2 DEF Rivals
<1>7. ASSUME reported \subseteq reported', ~Live(c) => c \in reported', Live(c) => slot'[copies[c].trade] = c,
             \A m \in Trades : \/ slot'[m] = slot[m]
                               \/ m = copies[c].trade /\ c \notin deals /\ slot'[m] = c
      PROVE  Books'
  <2>1. SlotInv'
    <3>1. ASSUME NEW d \in Copy, Owed(d), copies[d].trade = copies[c].trade, c \notin deals
          PROVE  d = c
      <4>1. d \in Placed /\ Live(d) /\ copies[d].trade \notin Astray
        BY <3>1, SlotOfLive
      <4>2. d \notin deals /\ d \in Kin(copies[d].trade)
        BY <1>3, <4>1, OfTrade
      <4> QED
        BY <1>4, <3>1, <4>2 DEF Rivals
    <3>2. \A d \in Copy : Owed(d)' => Owed(d) /\ copies[d].trade \in Trades
      BY <1>1, <1>3, RivalsStay, SlotOfLive
    <3> QED
      BY <1>3, <1>7, <3>1, <3>2, SlotKept
  <2>2. SettledInv'
    <3>1. \A m \in Trades : slot'[m] = slot[m]
                            \/ (slot'[m] = c /\ c # NoSlot /\ Rivals(c) \subseteq Settled')
      BY <1>3, <1>4, <1>7 DEF NoSlot, Copy
    <3>2. \A m \in Trades :
           \/ slot'[m] = slot[m]
           \/ /\ slot'[m] \in Copy => Rivals(slot'[m]) \subseteq Settled'
              /\ slot'[m] = NoSlot => Past(m)' \/ Kin(m) \subseteq Settled'
      BY <3>1
    <3> QED
      BY <1>2, <1>3, <1>5, <3>2, SettledKept
  <2>3. TodoInv'
    <3>1. Placed' = Placed /\ todo' \subseteq Placed
      BY <1>2, <1>3, <1>4 DEF Wane
    <3> SUFFICES ASSUME NEW d \in Placed, d \notin todo', d \notin reported'
                 PROVE  /\ copies[d].trade \notin Astray => slot'[copies[d].trade] = d
                        /\ Rivals(d) \subseteq deals
                        /\ Rivals(d) \subseteq todo' \cup reported'
      <4>1. Astray' = Astray /\ \A d \in Placed : Rivals(d)' = Rivals(d)
        BY <1>1, <1>3, RivalsStay DEF Placed
      <4> QED
        BY <1>2, <3>1, <4>1 DEF TodoInv
    <3>2. CASE d = c
      <4>1. Live(c) /\ slot'[copies[c].trade] = c /\ Rivals(c) \subseteq deals /\ c \notin deals
        BY <1>4, <1>7, <3>2
      <4>2. Rivals(c) \subseteq todo' \cup reported'
        <5> SUFFICES ASSUME NEW x \in Rivals(c), x \notin todo, x \notin reported PROVE FALSE
          BY <1>2, <1>7 DEF Rivals
        <5>1. x \in Placed /\ copies[x].trade = copies[c].trade /\ copies[c].trade \notin Astray
          BY DEF Rivals, Kin, Of
        <5> QED
          BY <1>6, <4>1, <5>1
      <4> QED
        BY <3>2, <4>1, <4>2
    <3>3. CASE d # c
      <4>1. /\ d \notin todo /\ d \notin reported /\ copies[d].trade \in Trades
            /\ copies[d].trade \notin Astray => slot[copies[d].trade] = d
            /\ Rivals(d) \subseteq deals
            /\ Rivals(d) \subseteq todo \cup reported
        BY <1>1, <1>2, <1>7, <3>3, OfTrade DEF TodoInv
      <4>2. c \notin deals /\ copies[c].trade \notin Astray => copies[d].trade # copies[c].trade
        BY <1>6, <4>1
      <4>3. copies[d].trade \notin Astray => slot'[copies[d].trade] = d
        BY <1>7, <4>1, <4>2
      <4>4. c \in Rivals(d) => c \in deals
        BY <4>1
      <4>5. c \in deals => c \in reported'
        BY <1>4, <1>7
      <4> QED
        BY <1>2, <1>7, <4>1, <4>3, <4>4, <4>5
    <3> QED
      BY <3>2, <3>3
  <2> QED
    BY <1>2, <2>1, <2>2, <2>3 DEF Books, HandInv, TrackedInv
<1>8. CASE Live(c)
  <2>1. slot' = [slot EXCEPT ![copies[c].trade] = c] /\ reported' = reported
    BY <1>8 DEF Backfill, MapFound
  <2>2. \A m \in Trades : slot'[m] = IF m = copies[c].trade THEN c ELSE slot[m]
    BY <1>1, <1>4, <2>1 DEF TypeOK
  <2> QED
    BY <1>4, <1>7, <1>8, <2>1, <2>2
<1>9. CASE ~Live(c)
  <2>1. slot' = Restash(c, slot) /\ reported' = reported \cup {c}
    BY <1>9 DEF Backfill
  <2>2. \A m \in Trades : \/ slot'[m] = slot[m]
                          \/ m = copies[c].trade /\ c \notin deals /\ slot'[m] = c
    BY <1>1, <1>4, <2>1 DEF TypeOK, Restash
  <2> QED
    BY <1>7, <1>9, <2>1, <2>2
<1> QED
  BY <1>8, <1>9

LEMMA BackfillDoneStep ==
  ASSUME CopierInv, [Next]_vars, BackfillDone
  PROVE  Books'
<1> USE DEF Dispatching
<1>1. TypeOK /\ TodoInv /\ PhaseInv /\ CopyInv /\ SettledInv
  BY DEF CopierInv, Books
<1>2. /\ pc = "backfill" /\ pc' = "idle" /\ booting /\ ~booting' /\ todo = {}
      /\ UNCHANGED <<copies, deals, slot, reported, bookmark, batch, mark>>
  BY <1>1 DEF BackfillDone, terminal, kept, PhaseInv
<1>3. Wane /\ Settled = deals /\ Settled' = reported
  BY <1>2 DEF Wane, Live, Gone, Placed, Settled
<1>4. SlotInv'
  BY <1>2, <1>3, SlotKept
<1>5. \A c \in Placed : c \notin reported =>
        /\ copies[c].trade \notin Astray => slot[copies[c].trade] = c
        /\ Rivals(c) \subseteq reported /\ c \in Copy
  BY <1>1, <1>2, OfTrade DEF TodoInv
<1>6. Placed' = Placed /\ \A m : Kin(m)' = Kin(m)
  BY <1>1, <1>3, RivalsStay DEF Wane
<1>7. /\ \A c \in Copy : Rivals(c)' = Rivals(c)
      /\ \A c \in Copy : Owed(c)' => Owed(c) /\ copies'[c].trade = copies[c].trade
  BY <1>1, <1>3, RivalsStay
<1>8. SettledInv'
  <2>1. ASSUME NEW c \in Placed', c \notin Settled' PROVE Rivals(c)' \subseteq Settled'
    BY <1>3, <1>5, <1>6, <1>7, <2>1
  <2>2. ASSUME NEW m \in Trades, NEW c \in Copy, c = slot[m] PROVE Rivals(c)' \subseteq Settled'
    <3>1. copies[c].trade = m /\ c \in Placed
      BY <1>1, <2>2 DEF CopyInv, Of
    <3>2. ASSUME NEW d \in Rivals(c), d \notin reported PROVE FALSE
      <4>1. d \in Placed /\ copies[d].trade = m /\ m \notin Astray /\ d # c
        BY <3>1, <3>2 DEF Rivals, Kin, Of
      <4> QED
        BY <1>5, <2>2, <3>2, <4>1
    <3> QED
      BY <1>3, <1>7, <3>2
  <2>3. \A m \in Trades : slot'[m] \in Copy => Rivals(slot[m])' \subseteq Settled'
    BY <1>2, <2>2 DEF Rivals
  <2>4. ASSUME NEW m \in Trades, slot'[m] = NoSlot PROVE Kin(m)' \subseteq Settled'
    <3>1. \A c \in Kin(m) : c \in Placed /\ copies[c].trade = m /\ m \notin Astray /\ c # NoSlot
      BY DEF Kin, Of, Placed, Copy, NoSlot
    <3> QED
      BY <1>2, <1>3, <1>5, <1>6, <2>4, <3>1
  <2> QED
    BY <2>1, <2>3, <2>4 DEF SettledInv
<1>9. TrackedInv'
  <2>1. \A c \in Copy : Owed(c) => c \in Placed /\ c \notin reported /\ copies[c].trade \notin Astray
    BY <1>1, SlotOfLive DEF CopyInv
  <2> QED
    BY <1>2, <1>5, <1>7, <2>1 DEF TrackedInv
<1> QED
  BY <1>2, <1>4, <1>8, <1>9 DEF Books, HandInv, TodoInv

LEMMA CopierNext == CopierInv /\ [Next]_vars => CopierInv'
<1> SUFFICES ASSUME CopierInv, [Next]_vars PROVE CopierInv'
  OBVIOUS
<1>1. TypeOK' /\ JournalInv' /\ EventInv' /\ PhaseInv' /\ CopyInv'
  BY TypeNext, JournalNext, EventNext, PhaseNext, CopyNext DEF CopierInv
<1>2. ASSUME NEW e \in batch,
             \/ OpenSkipped(e) \/ OpenReserved(e) \/ CloseSkipped(e) \/ CloseDone(e)
             \/ ModifyDone(e)
      PROVE  Books'
  BY <1>2, QuietSteps, OpenReservedStep, CloseSkippedStep, CloseDoneStep
<1>3. ASSUME NEW c \in Copy,
             \/ Reconcile(c) \/ Scan(c) \/ OnTradeTransaction(c) \/ Backfill(c)
             \/ CopyCloses(c) \/ HistoryLands(c)
      PROVE  Books'
  BY <1>3, QuietSteps, ClosureSteps, BackfillStep
<1>4. ASSUME OnTimer \/ ScanDone \/ OpenReported \/ MasterStep \/ UNCHANGED vars
      PROVE  Books'
  BY <1>4, QuietSteps
<1>5. ASSUME OnInit \/ PollFails \/ PollOk \/ BatchDone \/ Crash
      PROVE  Books'
  BY <1>5, BetweenSteps
<1>6. ASSUME ReconcileDone \/ BackfillDone
      PROVE  Books'
  BY <1>6, ClosureSteps, BackfillDoneStep
<1>7. ASSUME OrderRejected \/ OrderDone \/ OrderLost \/ OpenStashed \/ CloseReported
      PROVE  Books'
  BY <1>7, OrderRejectedStep, OrderDoneStep, OrderLostStep, OpenStashedStep, CloseReportedStep
<1>8. Books'
  BY <1>2, <1>3, <1>4, <1>5, <1>6, <1>7 DEF Next, EAStep, TerminalStep
<1> QED
  BY <1>1, <1>8 DEF CopierInv

THEOREM CopierHolds == Spec => []CopierInv
<1> QED
  BY CopierInit, CopierNext, PTL DEF Spec

\* However the EA died on the way and whatever report or deal was late: between two
\* handlers every open copy has its ticket in the slot of its trade (StashMap), so that
\* the master's close finds it, unless an order of that trade was filled and the EA told
\* that it had failed; and ea_fills does not say of any open copy that it was closed.
THEOREM CopiesTracked == Spec => []TrackedWhenIdle
<1>1. CopierInv => TrackedWhenIdle
  <2> SUFFICES ASSUME CopierInv, pc = "idle", NEW c \in Copy, Live(c)
               PROVE  /\ copies[c].trade \notin Astray => slot[copies[c].trade] = c
                      /\ fills[c] # "CLOSED"
    BY DEF TrackedWhenIdle
  <2>1. TrackedInv /\ PhaseInv /\ CopyInv
    BY DEF CopierInv, Books
  <2>2. copies[c].trade \notin Astray => slot[copies[c].trade] = c
    BY <2>1 DEF TrackedInv, PhaseInv, Owed
  <2> QED
    BY <2>1, <2>2 DEF CopyInv, Live, Gone
<1> QED
  BY <1>1, CopierHolds, PTL

-----------------------------------------------------------------------------
(* The promise.                                                            *)

LEMMA PromiseInit == Init => Promise!Init
BY DEF Init, FeedInit, NoTrade, NoPosition, Promise!Init

LEMMA PromiseStutters ==
  UNCHANGED <<journal, mods, copies, fills>> => UNCHANGED Promise!vars
BY DEF Promise!vars

\* What the master does gives a trade a stop, or nothing new.
LEMMA MasterPromise ==
  ASSUME CopierInv, MasterStep
  PROVE  [Promise!Next]_(Promise!vars)
<1>1. TypeOK /\ JournalInv /\ UNCHANGED <<copies, fills>>
  BY DEF CopierInv, MasterStep, terminal
<1> DEFINE G == [m \in Trades |-> Given(m)]
<1>2. ASSUME NEW m \in Trades, NEW s \in Time, G' = [G EXCEPT ![m] = @ \cup {s}]
      PROVE  Promise!Next
  <2>1. Promise!MasterGives(m, s)
    BY <1>1, <1>2 DEF Promise!MasterGives, Given
  <2> QED
    BY <2>1 DEF Promise!Next
<1>3. ASSUME NEW m \in Trades, MasterOpens(m)
      PROVE  Promise!Next
  <2>1. /\ journal[m].st = "none" /\ mods' = mods /\ \A x \in mods : x[1] # m
        /\ journal'[m].st = "OPEN" /\ \A n \in Trades : n # m => journal'[n] = journal[n]
    BY <1>1, <1>3 DEF MasterOpens, JournalInv, TypeOK, FeedTypeOK
  <2>2. Given(m) = {} /\ Given(m)' = {0} /\ \A n \in Trades : n # m => Given(n)' = Given(n)
    BY <2>1 DEF Given
  <2>3. G' = [G EXCEPT ![m] = @ \cup {0}]
    BY <2>2
  <2> QED
    BY <1>2, <2>3, FeedAssumption DEF Time
<1>4. ASSUME NEW m \in Trades, MasterCloses(m) \/ MasterReconciles(m)
      PROVE  UNCHANGED Promise!vars
  <2>1. /\ journal[m].st = "OPEN" /\ mods' = mods
        /\ journal'[m].st = "CLOSED" /\ \A n \in Trades : n # m => journal'[n] = journal[n]
    BY <1>1, <1>4 DEF MasterCloses, MasterReconciles, ClosedAt, TypeOK, FeedTypeOK
  <2>2. \A n \in Trades : (journal'[n].st = "none") <=> (journal[n].st = "none")
    BY <2>1
  <2> QED
    BY <1>1, <2>1, <2>2 DEF Promise!vars
<1>5. ASSUME NEW m \in Trades, MasterModifies(m)
      PROVE  Promise!Next
  <2>1. journal[m].st # "none" /\ journal' = journal /\ mods' = mods \cup {<<m, now'>>}
    BY <1>5 DEF MasterModifies
  <2> DEFINE Moves(n) == {y \in mods : y[1] = n}
             Stops(n) == {x[2] : x \in Moves(n)}
  <2>2. Given(m)' = Given(m) \cup {now'} /\ \A n \in Trades : n # m => Given(n)' = Given(n)
    <3>1. Moves(m)' = Moves(m) \cup {<<m, now'>>}
      BY <2>1
    <3>2. \A n \in Trades : n # m => Moves(n)' = Moves(n)
      BY <2>1
    <3> HIDE DEF Moves
    <3>3. Stops(m)' = Stops(m) \cup {now'}
      <4>1. <<m, now'>>[2] = now' /\ <<m, now'>> \in Moves(m)'
        BY <3>1
      <4>2. \A t \in Stops(m)' : t \in Stops(m) \cup {now'}
        BY <3>1, <4>1
      <4>3. \A t \in Stops(m) \cup {now'} : t \in Stops(m)'
        BY <3>1, <4>1
      <4> QED
        BY <4>2, <4>3
    <3>4. \A n \in Trades : n # m => Stops(n)' = Stops(n)
      BY <3>2
    <3>5. \A n \in Trades : Given(n) = IF journal[n].st = "none" THEN {} ELSE {0} \cup Stops(n)
      BY DEF Given, Moves
    <3>6. \A n \in Trades : Given(n)' = IF journal'[n].st = "none" THEN {} ELSE {0} \cup Stops(n)'
      BY DEF Given, Moves
    <3> QED
      BY <2>1, <3>3, <3>4, <3>5, <3>6
  <2>3. G' = [G EXCEPT ![m] = @ \cup {now'}]
    BY <2>2
  <2>4. now' \in Time
    BY <1>1, <1>5, FeedAssumption DEF MasterModifies, Tick, TypeOK, FeedTypeOK, Time
  <2> QED
    BY <1>2, <2>3, <2>4
<1>6. CASE EditPicks
  BY <1>1, <1>6, PromiseStutters DEF EditPicks, master
<1> QED
  BY <1>3, <1>4, <1>5, <1>6 DEF MasterStep, FeedStep

\* What the server is told: open while it was not told closed, closed when it is.
LEMMA PostPromise ==
  ASSUME CopierInv, UNCHANGED <<journal, mods, copies>>, NEW c \in Copy,
         \/ ReportFillClosed(c)
         \/ Post(c, "OPEN") /\ c \in Placed /\ fills[c] # "CLOSED"
  PROVE  [Promise!Next]_(Promise!vars)
<1>1. CASE fills' = fills
  BY <1>1, PromiseStutters
<1>2. CASE fills' = [fills EXCEPT ![c] = "CLOSED"] /\ c \in deals
  <2>1. Promise!ToldClosed(c)
    BY <1>2 DEF Promise!ToldClosed, CopierInv, CopyInv, Gone
  <2> QED
    BY <2>1 DEF Promise!Next
<1>3. CASE fills' = [fills EXCEPT ![c] = "OPEN"] /\ c \in Placed /\ fills[c] # "CLOSED"
  <2>1. Promise!ToldOpen(c)
    BY <1>3 DEF Promise!ToldOpen, Placed
  <2> QED
    BY <2>1 DEF Promise!Next
<1> QED
  BY <1>1, <1>2, <1>3 DEF ReportFillClosed, Post

\* A copy is closed where one was open.
LEMMA ClosesPromise ==
  ASSUME UNCHANGED <<journal, mods, fills>>, NEW c \in Copy, Live(c), Closes(c)
  PROVE  [Promise!Next]_(Promise!vars)
<1>1. Promise!CopyCloses(c)
  BY DEF Promise!CopyCloses, Promise!IsOpen, Live, Closes
<1> QED
  BY <1>1 DEF Promise!Next

\* The order in flight is for a trade no copy of which is open, unless it has gone astray,
\* at a stop the master gave.
LEMMA OrderPromise ==
  ASSUME CopierInv, Filled
  PROVE  [Promise!Next]_(Promise!vars)
<1>1. TypeOK /\ HandInv /\ EventInv /\ CopyInv
  BY DEF CopierInv, Books
<1>2. pc = "order" /\ UNCHANGED <<journal, mods, fills>>
  BY DEF Filled, OrderDone, OrderLost, master, kept
<1>3. cur.trade \in Trades /\ cur.stop \in Time /\ cur.stop \in Given(cur.trade)
  BY <1>1, <1>2 DEF TypeOK, Event, EventInv
<1>4. PICK denied \in BOOLEAN : Fills(denied)
  BY DEF Filled, OrderDone, OrderLost
<1>5. PICK n \in Copy \ Placed :
        copies' = [copies EXCEPT ![n] = [st |-> "open", trade |-> cur.trade, stop |-> cur.stop,
                                        denied |-> denied]]
  BY <1>4, OrderFills
<1>6. copies[n].st = "none"
  BY DEF Placed
<1>7. ASSUME cur.trade \in Astray PROVE Promise!Denied(cur.trade)
  BY <1>7 DEF Astray, Of, Placed, Promise!Denied
<1>8. ASSUME cur.trade \notin Astray PROVE Promise!CopyOf(cur.trade) = {}
  <2>1. \A c \in Kin(cur.trade) : Gone(c)
    BY <1>1, <1>2 DEF HandInv, CopyInv, Settled
  <2>2. \A c \in Copy : copies[c].st = "open" /\ copies[c].trade = cur.trade => c \in Kin(cur.trade)
    BY <1>8 DEF Kin, Of, Placed
  <2> QED
    BY <2>1, <2>2 DEF Promise!CopyOf, Promise!IsOpen, Gone
<1>9. Promise!CopyOpens(n, cur.trade, cur.stop, denied)
  BY <1>2, <1>3, <1>5, <1>6, <1>7, <1>8 DEF Promise!CopyOpens, Given
<1> QED
  BY <1>3, <1>9 DEF Promise!Next

\* A modification moves the stop of a copy to one the master has given its trade.
LEMMA ModifyPromise ==
  ASSUME CopierInv, NEW e \in batch, ModifyDone(e)
  PROVE  [Promise!Next]_(Promise!vars)
<1>1. TypeOK /\ EventInv /\ CopyInv
  BY DEF CopierInv
<1>2. UNCHANGED <<journal, mods, fills>> /\ e.type = "MODIFY"
  BY DEF ModifyDone, Take, master
<1>3. e.trade \in Trades /\ e.stop \in Time /\ e.stop \in Given(e.trade)
  BY <1>1, <1>2 DEF TypeOK, Event, EventInv, Sound
<1>4. CASE UNCHANGED copies
  BY <1>2, <1>4, PromiseStutters
<1>5. CASE ~UNCHANGED copies
  <2>1. PICK c \in Copy : c = slot[e.trade] /\ Live(c) /\
                          copies' = [copies EXCEPT ![c] = [copies[c] EXCEPT !.stop = e.stop]]
    BY <1>5 DEF ModifyDone, Live
  <2>2. copies[c].trade = e.trade
    BY <1>1, <1>3, <2>1 DEF CopyInv, Of
  <2>3. Promise!CopyMoves(c, e.stop)
    BY <1>2, <1>3, <2>1, <2>2 DEF Promise!CopyMoves, Promise!IsOpen, Live, Given
  <2> QED
    BY <1>3, <2>3 DEF Promise!Next
<1> QED
  BY <1>4, <1>5

\* Every step of the copier is one its promise allows, or changes nothing it speaks of.
LEMMA PromiseNext == CopierInv /\ [Next]_vars => [Promise!Next]_(Promise!vars)
<1> SUFFICES ASSUME CopierInv, [Next]_vars PROVE [Promise!Next]_(Promise!vars)
  OBVIOUS
<1>1. TypeOK /\ HandInv /\ TodoInv /\ CopyInv
  BY DEF CopierInv, Books
<1>2. ASSUME NEW e \in batch, OpenSkipped(e) \/ OpenReserved(e) \/ CloseSkipped(e)
      PROVE  [Promise!Next]_(Promise!vars)
  BY <1>2, PromiseStutters DEF OpenSkipped, OpenReserved, CloseSkipped, master, terminal, kept
<1>3. ASSUME NEW e \in batch, CloseDone(e)
      PROVE  [Promise!Next]_(Promise!vars)
  <2>1. PICK c \in Copy : Live(c) /\ Closes(c)
    BY <1>3 DEF CloseDone, Live
  <2> QED
    BY <1>3, <2>1, ClosesPromise DEF CloseDone, master
<1>4. ASSUME NEW c \in Copy, CopyCloses(c)
      PROVE  [Promise!Next]_(Promise!vars)
  BY <1>4, ClosesPromise DEF CopyCloses, master
<1>5. ASSUME NEW c \in Copy, Reconcile(c) \/ Scan(c) \/ OnTradeTransaction(c)
      PROVE  [Promise!Next]_(Promise!vars)
  <2>1. UNCHANGED <<journal, mods, copies>> /\ (ReportFillClosed(c) \/ UNCHANGED fills)
    BY <1>5 DEF Reconcile, Scan, OnTradeTransaction, master, terminal
  <2> QED
    BY <2>1, PostPromise, PromiseStutters
<1>6. ASSUME NEW c \in Copy, Backfill(c)
      PROVE  [Promise!Next]_(Promise!vars)
  <2>1. UNCHANGED <<journal, mods, copies>> /\ c \in Placed
    BY <1>1, <1>6 DEF Backfill, TodoInv, master, terminal
  <2>2. ReportFillClosed(c) \/ (Post(c, "OPEN") /\ Live(c))
    BY <1>6 DEF Backfill
  <2>3. Live(c) => fills[c] # "CLOSED"
    BY <1>1 DEF CopyInv, Live, Gone
  <2> QED
    BY <2>1, <2>2, <2>3, PostPromise
<1>7. ASSUME OpenReported
      PROVE  [Promise!Next]_(Promise!vars)
  <2>1. UNCHANGED <<journal, mods, copies>> /\ Post(hand, "OPEN")
    BY <1>7 DEF OpenReported, master, terminal
  <2>2. hand \in Placed /\ hand \in Copy /\ fills[hand] # "CLOSED"
    BY <1>1, <1>7 DEF OpenReported, HandInv, Of, Placed
  <2> QED
    BY <2>1, <2>2, PostPromise
<1>8. ASSUME CloseReported
      PROVE  [Promise!Next]_(Promise!vars)
  <2>1. UNCHANGED <<journal, mods, copies>> /\ ReportFillClosed(hand)
    BY <1>8 DEF CloseReported, master, terminal
  <2>2. hand \in Copy
    BY <1>1, <1>8 DEF CloseReported, HandInv, Gone
  <2> QED
    BY <2>1, <2>2, PostPromise
<1>9. ASSUME \/ OnInit \/ OnTimer \/ PollFails \/ PollOk \/ BatchDone \/ OrderRejected \/ OpenStashed
             \/ ReconcileDone \/ ScanDone \/ BackfillDone \/ Crash \/ UNCHANGED vars
      PROVE  UNCHANGED Promise!vars
  BY <1>9, PromiseStutters DEF OnInit, OnTimer, PollFails, PollOk, BatchDone, OrderRejected,
     OpenStashed, ReconcileDone, ScanDone, BackfillDone, Crash, vars, master, terminal, kept
<1>10. ASSUME NEW c \in Copy, HistoryLands(c)
       PROVE  UNCHANGED Promise!vars
  BY <1>10, PromiseStutters DEF HistoryLands, master, kept
<1>11. ASSUME MasterStep
       PROVE  [Promise!Next]_(Promise!vars)
  BY <1>11, MasterPromise
<1>12. ASSUME NEW e \in batch, ModifyDone(e)
       PROVE  [Promise!Next]_(Promise!vars)
  BY <1>12, ModifyPromise
<1>13. ASSUME OrderDone \/ OrderLost
       PROVE  [Promise!Next]_(Promise!vars)
  BY <1>13, OrderPromise DEF Filled
<1> QED
  BY <1>2, <1>3, <1>4, <1>5, <1>6, <1>7, <1>8, <1>9, <1>10, <1>11, <1>12, <1>13
     DEF Next, EAStep, TerminalStep

\* Copier implements CopyTrading: whatever dies, is lost, late or comes twice between the
\* EA, its terminal and the server, the operator holds at most one copy of a trade unless
\* the EA was told that a filled order of that trade had failed; every copy is at a stop
\* the master gave, and ea_fills says closed of no copy that is open.
THEOREM PromiseKept == Spec => KeepsPromise
<1>1. Promise!Init /\ [][Promise!Next]_(Promise!vars) => KeepsPromise
  BY PTL DEF KeepsPromise, Promise!Spec
<1> QED
  BY <1>1, PromiseInit, PromiseNext, CopierHolds, PTL DEF Spec

=============================================================================
