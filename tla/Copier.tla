-------------------------------- MODULE Copier --------------------------------
(***************************************************************************)
(* One operator's copier: the AntiGreedCopier EA (mt5/AntiGreedCopier.mq5) *)
(* polling the feed, copying the master's trades to the operator's MT5,    *)
(* and reporting its fills to the server (src/api/ea_fills.py), which      *)
(* filters the feed by them.                                               *)
(*                                                                         *)
(*   down -> (poll) -> dispatch <-> order -> filled -> stashed             *)
(*                              <-> closed                                 *)
(*        -> backfill -> idle                        OnInit                *)
(*        -> reconcile -> scan -> idle               OnTimer               *)
(*                                                                         *)
(* A step ends at a call to the broker or the server, or where what is     *)
(* kept (terminal globals, the bookmark) changes: the broker, the master   *)
(* and a crash come in between.  MQL5 runs one handler at a time, so       *)
(* OnTradeTransaction waits for idle.                                      *)
(***************************************************************************)
EXTENDS SignalFeed

CONSTANT MaxCopies   \* bound on the positions the EA may open

ASSUME CopierAssumption == MaxCopies \in Nat \ {0}

Copy == 1..MaxCopies
NoSlot == -1        \* no terminal global for the trade
Reserved == 0       \* the sentinel of an order in flight
NeverPolled == -1   \* no bookmark

VARIABLES
  copies,    \* positions at the operator's broker, closed ones included
  deals,     \* copies with a closing deal in the terminal's history
  slot,      \* terminal globals AGCopier_map_<trade>
  bookmark,  \* hidden chart object
  fills,     \* ea_fills.status by broker ticket
  pc, booting,
  batch, mark, \* events of the answer still to dispatch; its bookmark
  cur,       \* the event in hand
  hand,      \* the copy in hand
  todo,      \* copies this pass has still to visit
  reported,  \* g_reported_closures
  txq        \* trade transactions the terminal has queued for the EA

terminal == <<copies, deals>>
kept     == <<slot, bookmark>>
memory   == <<pc, booting, batch, mark, cur, hand, todo, reported, txq>>
vars     == <<master, picked, terminal, kept, fills, memory>>

\* History: "denied" is a copy whose order, the EA was told, had failed.
Position ==
  [st: {"none", "open", "closed"}, trade: Trades, stop: Time, denied: BOOLEAN]

PCs == {"down", "idle", "poll", "dispatch", "order", "filled", "stashed", "closed",
        "reconcile", "scan", "backfill"}

AnyTrade == CHOOSE m \in Trades : TRUE
NoEvent == EventOf("OPEN", AnyTrade, 0, 0)
NoCopy == 0
NoPosition == [st |-> "none", trade |-> AnyTrade, stop |-> 0, denied |-> FALSE]

TypeOK ==
  /\ FeedTypeOK
  /\ copies \in [Copy -> Position]
  /\ deals \subseteq Copy
  /\ slot \in [Trades -> {NoSlot, Reserved} \cup Copy]
  /\ bookmark \in {NeverPolled} \cup Time
  /\ fills \in [Copy -> {"none", "OPEN", "CLOSED"}]
  /\ pc \in PCs /\ booting \in BOOLEAN
  /\ batch \subseteq Event /\ mark \in {NeverPolled} \cup Time
  /\ cur \in Event /\ hand \in {NoCopy} \cup Copy
  /\ todo \subseteq Copy /\ reported \subseteq Copy /\ txq \subseteq Copy

\* PositionSelectByTicket.
Live(c) == c \in Copy /\ copies[c].st = "open"
Gone(c) == c \in Copy /\ copies[c].st = "closed"
Placed == {c \in Copy : copies[c].st # "none"}
Of(m) == {c \in Placed : copies[c].trade = m}

\* Trades of which the EA has a copy it was told it had not.
Astray == {m \in Trades : \E c \in Of(m) : copies[c].denied}

\* ea_fills.open_master_ids: what the server believes the operator holds.
Held == {copies[c].trade : c \in {d \in Copy : fills[d] = "OPEN"}}

Init ==
  /\ FeedInit
  /\ copies = [c \in Copy |-> NoPosition]
  /\ deals = {}
  /\ slot = [m \in Trades |-> NoSlot]
  /\ bookmark = NeverPolled
  /\ fills = [c \in Copy |-> "none"]
  /\ pc = "down" /\ booting = FALSE
  /\ batch = {} /\ mark = NeverPolled /\ cur = NoEvent /\ hand = NoCopy
  /\ todo = {} /\ reported = {} /\ txq = {}

-----------------------------------------------------------------------------
(* Fill reports.                                                           *)

\* Variant: INSERT OR IGNORE.
PostOnce(c, status) == fills' = [fills EXCEPT ![c] = IF @ = "none" THEN status ELSE @]

\* PostFill, one attempt; EAFillStore.upsert.
Post(c, status) ==
  \/ fills' = [fills EXCEPT ![c] = status]
  \/ Can("offline") /\ UNCHANGED fills

\* ReportFillClosed: nothing is sent before the deal is visible; then the map
\* entry is put back.
ReportFillClosed(c) == IF c \in deals THEN Post(c, "CLOSED") ELSE UNCHANGED fills

\* Variant: ticket and trade swapped.
RestashSwapped(c, map) ==
  IF c \in deals THEN map ELSE [map EXCEPT ![copies[c].trade] = copies[c].trade]

Restash(c, map) == IF c \in deals THEN map ELSE [map EXCEPT ![copies[c].trade] = c]

Unmap(c) == [slot EXCEPT ![copies[c].trade] = NoSlot]

-----------------------------------------------------------------------------
(* Poll.                                                                   *)

\* OnInit; ReadBookmark.  By then the terminal has caught up with the history.
OnInit ==
  /\ pc = "down"
  /\ pc' = "poll" /\ booting' = TRUE
  /\ deals' = {c \in Copy : Gone(c)}
  /\ UNCHANGED <<master, picked, copies, kept, fills, batch, mark, cur, hand, todo,
                 reported, txq>>

OnTimer ==
  /\ pc = "idle"
  /\ pc' = "poll"
  /\ UNCHANGED <<master, picked, terminal, kept, fills, booting, batch, mark, cur, hand,
                 todo, reported, txq>>

\* What follows Poll() in the handler that called it.
AfterPoll ==
  IF booting
  THEN pc' = "backfill" /\ todo' = Placed
  ELSE pc' = "reconcile" /\ todo' = {c \in Copy : Gone(c) /\ \E m \in Trades : slot[m] = c}

PollFails ==
  /\ pc = "poll" /\ Can("offline")
  /\ AfterPoll
  /\ UNCHANGED <<master, picked, terminal, kept, fills, booting, batch, mark, cur, hand,
                 reported, txq>>

\* The first poll gets no events; a filter that fails lets everything through.
PollOk ==
  /\ pc = "poll"
  /\ IF bookmark = NeverPolled
     THEN batch' = {} /\ mark' = Latest
     ELSE \E page \in Pages(bookmark) :
            /\ \/ batch' = {e \in page : Served(e, Held)}
               \/ Can("filterFails") /\ batch' = page
            /\ mark' = BookmarkAfter(batch', bookmark)
  /\ pc' = "dispatch"
  /\ UNCHANGED <<master, picked, terminal, kept, fills, booting, cur, hand, todo,
                 reported, txq>>

BatchDone ==
  /\ pc = "dispatch" /\ batch = {}
  /\ bookmark' = mark
  /\ AfterPoll
  /\ UNCHANGED <<master, picked, terminal, slot, fills, booting, batch, mark, cur, hand,
                 reported, txq>>

-----------------------------------------------------------------------------
(* DispatchEvent, in the order of the answer.                              *)

\* Variant: in any order.
TakeAny(e, type) ==
  /\ pc = "dispatch" /\ e \in batch /\ e.type = type
  /\ batch' = batch \ {e}

Take(e, type) ==
  /\ pc = "dispatch" /\ e \in batch /\ e.type = type
  /\ \A f \in batch : e.ts <= f.ts
  /\ batch' = batch \ {e}

\* Variant: no slot is taken before the order.
ReserveLate(m) == slot

Reserve(m) == [slot EXCEPT ![m] = Reserved]

\* HandleOpen up to the order.  Symbol whitelist and lot size may rule it out.
OpenSkipped(e) ==
  /\ Take(e, "OPEN")
  /\ UNCHANGED <<master, picked, terminal, kept, fills, pc, booting, mark, cur, hand,
                 todo, reported, txq>>

OpenReserved(e) ==
  /\ Take(e, "OPEN")
  /\ slot[e.trade] = NoSlot
  /\ slot' = Reserve(e.trade)
  /\ pc' = "order" /\ cur' = e
  /\ UNCHANGED <<master, picked, terminal, bookmark, fills, booting, mark, hand, todo,
                 reported, txq>>

OrderRejected ==
  /\ pc = "order"
  /\ slot' = [slot EXCEPT ![cur.trade] = NoSlot]
  /\ pc' = "dispatch" /\ cur' = NoEvent
  /\ UNCHANGED <<master, picked, terminal, bookmark, fills, booting, batch, mark, hand,
                 todo, reported, txq>>

NextCopy == CHOOSE c \in Copy \ Placed : \A d \in Copy \ Placed : c <= d

\* The broker fills the order.
Fills(denied) ==
  /\ Placed # Copy
  /\ copies' = [copies EXCEPT ![NextCopy] =
       [st |-> "open", trade |-> cur.trade, stop |-> cur.stop, denied |-> denied]]

OrderDone ==
  /\ pc = "order" /\ Fills(FALSE)
  /\ hand' = NextCopy
  /\ pc' = "filled"
  /\ UNCHANGED <<master, picked, deals, kept, fills, booting, batch, mark, cur, todo,
                 reported, txq>>

\* trade.Buy returns FALSE all the same: a timeout, a lost answer.  To the EA that is
\* OrderRejected.
OrderLost ==
  /\ pc = "order" /\ Can("lostReply") /\ Fills(TRUE)
  /\ slot' = [slot EXCEPT ![cur.trade] = NoSlot]
  /\ pc' = "dispatch" /\ cur' = NoEvent
  /\ UNCHANGED <<master, picked, deals, bookmark, fills, booting, batch, mark, hand, todo,
                 reported, txq>>

OpenStashed ==
  /\ pc = "filled"
  /\ slot' = [slot EXCEPT ![cur.trade] = hand]
  /\ pc' = "stashed"
  /\ UNCHANGED <<master, picked, terminal, bookmark, fills, booting, batch, mark, cur,
                 hand, todo, reported, txq>>

Redispatch == pc' = "dispatch" /\ cur' = NoEvent /\ hand' = NoCopy

OpenReported ==
  /\ pc = "stashed"
  /\ Post(hand, "OPEN")
  /\ Redispatch
  /\ UNCHANGED <<master, picked, terminal, kept, booting, batch, mark, todo, reported, txq>>

\* The terminal closes copy c: the deal may show in the history late.
Closes(c) ==
  /\ copies' = [copies EXCEPT ![c] = [copies[c] EXCEPT !.st = "closed"]]
  /\ \/ Can("historyLag") /\ UNCHANGED <<deals, txq>>
     \/ deals' = deals \cup {c} /\ txq' = IF pc = "down" THEN txq ELSE txq \cup {c}

\* Unknown, in flight, already gone, or refused: in each case the event is spent.
CloseSkipped(e) ==
  /\ Take(e, "CLOSE")
  /\ \/ slot[e.trade] \in {NoSlot, Reserved} /\ UNCHANGED slot
     \/ Gone(slot[e.trade]) /\ slot' = [slot EXCEPT ![e.trade] = NoSlot]
     \/ Can("refused") /\ Live(slot[e.trade]) /\ UNCHANGED slot
  /\ UNCHANGED <<master, picked, terminal, bookmark, fills, pc, booting, mark, cur, hand,
                 todo, reported, txq>>

CloseDone(e) ==
  /\ Take(e, "CLOSE")
  /\ Live(slot[e.trade])
  /\ Closes(slot[e.trade])
  /\ slot' = [slot EXCEPT ![e.trade] = NoSlot]
  /\ reported' = reported \cup {slot[e.trade]}
  /\ hand' = slot[e.trade]
  /\ pc' = "closed"
  /\ UNCHANGED <<master, picked, bookmark, fills, booting, mark, cur, todo>>

CloseReported ==
  /\ pc = "closed"
  /\ ReportFillClosed(hand)
  /\ slot' = Restash(hand, slot)
  /\ Redispatch
  /\ UNCHANGED <<master, picked, terminal, bookmark, booting, batch, mark, todo, reported,
                 txq>>

\* The broker may refuse a modification too.
ModifyDone(e) ==
  /\ Take(e, "MODIFY")
  /\ IF Live(slot[e.trade])
     THEN \/ copies' = [copies EXCEPT ![slot[e.trade]] =
                         [copies[slot[e.trade]] EXCEPT !.stop = e.stop]]
          \/ Can("refused") /\ UNCHANGED copies
     ELSE UNCHANGED copies
  /\ UNCHANGED <<master, picked, deals, kept, fills, pc, booting, mark, cur, hand, todo,
                 reported, txq>>

-----------------------------------------------------------------------------
(* Closures the EA did not make.                                           *)

\* One tracked copy that is gone.  The map entry goes last, put back or not.
Reconcile(c) ==
  /\ pc = "reconcile" /\ c \in todo
  /\ todo' = todo \ {c}
  /\ ReportFillClosed(c)
  /\ reported' = reported \cup {c}
  /\ slot' = Unmap(c)
  /\ UNCHANGED <<master, picked, terminal, bookmark, pc, booting, batch, mark, cur, hand,
                 txq>>

ReconcileDone ==
  /\ pc = "reconcile" /\ todo = {}
  /\ pc' = "scan" /\ todo' = deals \ reported
  /\ UNCHANGED <<master, picked, terminal, kept, fills, booting, batch, mark, cur, hand,
                 reported, txq>>

\* Any closing deal the history shows.
Scan(c) ==
  /\ pc = "scan" /\ c \in todo
  /\ todo' = todo \ {c}
  /\ ReportFillClosed(c)
  /\ reported' = reported \cup {c}
  /\ slot' = Unmap(c)
  /\ UNCHANGED <<master, picked, terminal, bookmark, pc, booting, batch, mark, cur, hand,
                 txq>>

ScanDone ==
  /\ pc = "scan" /\ todo = {}
  /\ pc' = "idle"
  /\ UNCHANGED <<master, picked, terminal, kept, fills, booting, batch, mark, cur, hand,
                 todo, reported, txq>>

OnTradeTransaction(c) ==
  /\ pc = "idle" /\ c \in txq
  /\ txq' = txq \ {c}
  /\ IF c \in reported
     THEN UNCHANGED <<fills, reported, slot>>
     ELSE /\ ReportFillClosed(c)
          /\ reported' = reported \cup {c}
          /\ slot' = Unmap(c)
  /\ UNCHANGED <<master, picked, terminal, bookmark, pc, booting, batch, mark, cur, hand,
                 todo>>

\* Variant: the map is not rewritten.
MapFoundNot(c) == slot

MapFound(c) == [slot EXCEPT ![copies[c].trade] = c]

\* BackfillRecentFills, in the order of the deals.
Backfill(c) ==
  /\ pc = "backfill" /\ c \in todo /\ \A d \in todo : c <= d
  /\ todo' = todo \ {c}
  /\ IF Live(c)
     THEN Post(c, "OPEN") /\ slot' = MapFound(c) /\ UNCHANGED reported
     ELSE /\ ReportFillClosed(c)
          /\ slot' = Restash(c, slot)
          /\ reported' = reported \cup {c}
  /\ UNCHANGED <<master, picked, terminal, bookmark, pc, booting, batch, mark, cur, hand,
                 txq>>

BackfillDone ==
  /\ pc = "backfill" /\ todo = {}
  /\ pc' = "idle" /\ booting' = FALSE
  /\ UNCHANGED <<master, picked, terminal, kept, fills, batch, mark, cur, hand, todo,
                 reported, txq>>

-----------------------------------------------------------------------------
(* The environment.                                                        *)

\* Terminal globals and the chart object outlive the EA; its memory does not.
Crash ==
  /\ Can("crash") /\ pc # "down"
  /\ pc' = "down" /\ booting' = FALSE
  /\ batch' = {} /\ mark' = NeverPolled /\ cur' = NoEvent /\ hand' = NoCopy
  /\ todo' = {} /\ reported' = {} /\ txq' = {}
  /\ UNCHANGED <<master, picked, terminal, kept, fills>>

\* Stop, target, or the operator by hand.
CopyCloses(c) ==
  /\ Live(c)
  /\ Closes(c)
  /\ UNCHANGED <<master, picked, kept, fills, pc, booting, batch, mark, cur, hand, todo,
                 reported>>

HistoryLands(c) ==
  /\ Gone(c) /\ c \notin deals
  /\ deals' = deals \cup {c}
  /\ txq' = IF pc = "down" THEN txq ELSE txq \cup {c}
  /\ UNCHANGED <<master, picked, copies, kept, fills, pc, booting, batch, mark, cur, hand,
                 todo, reported>>

EAStep ==
  \/ OnInit \/ OnTimer \/ PollFails \/ PollOk \/ BatchDone
  \/ \E e \in batch :
       \/ OpenSkipped(e) \/ OpenReserved(e)
       \/ CloseSkipped(e) \/ CloseDone(e) \/ ModifyDone(e)
  \/ OrderRejected \/ OrderDone \/ OrderLost \/ OpenStashed \/ OpenReported \/ CloseReported
  \/ \E c \in Copy : Reconcile(c) \/ Scan(c) \/ OnTradeTransaction(c) \/ Backfill(c)
  \/ ReconcileDone \/ ScanDone \/ BackfillDone

MasterStep == FeedStep /\ UNCHANGED <<terminal, kept, fills, memory>>

TerminalStep == \E c \in Copy : CopyCloses(c) \/ HistoryLands(c)

Next == EAStep \/ MasterStep \/ TerminalStep \/ Crash

Spec == Init /\ [][Next]_vars

\* The timer fires every few seconds, a call to the broker or the server has a
\* timeout, and a closing deal reaches the history.
Fairness == WF_vars(EAStep) /\ \A c \in Copy : WF_vars(HistoryLands(c))

FairSpec == Spec /\ Fairness

-----------------------------------------------------------------------------
(* Properties.                                                             *)

\* However often the EA dies and replays its batch, whatever report is lost: the
\* operator never holds two copies of one trade at a time, unless the EA was told that
\* an order of that trade had failed while the broker filled it: the slot is freed then,
\* and a batch that comes again opens a second copy, which HandleOpen's reservation is
\* there to prevent (mq5:413).  No copy is at a stop that was never the master's; and no
\* fill is reported closed before its copy is, or open again afterwards.
Promise == INSTANCE CopyTrading WITH
  Stops <- Time,
  given <- [m \in Trades |->
              IF journal[m].st = "none" THEN {}
              ELSE {0} \cup {x[2] : x \in {y \in mods : y[1] = m}}],
  account <- copies,
  told <- fills
KeepsPromise == Promise!Spec

\* Between handlers every open copy can be closed: its slot leads to it, whatever was
\* lost on the way but the answer to an order of that trade; and the server has not
\* been told of any open copy that it was closed.
TrackedWhenIdle ==
  pc = "idle" => \A c \in Copy : Live(c) =>
    /\ copies[c].trade \notin Astray => slot[copies[c].trade] = c
    /\ fills[c] # "CLOSED"

\* A copy whose master trade was closed is closed, even if the operator or the
\* admin drops the strategy meanwhile.
CopyFollowsClose ==
  \A c \in Copy : (Live(c) /\ journal[copies[c].trade].st = "CLOSED") ~> Gone(c)

\* The stop of a copy ends up where the master's last modification put it.
StopsConverge ==
  \A c \in Copy :
    <>[](Live(c) /\ journal[copies[c].trade].st = "OPEN" =>
           copies[c].stop = StopOf(copies[c].trade))

\* A copy that is gone is reported closed.
FillsSettle == \A c \in Copy : (Gone(c) /\ fills[c] = "OPEN") ~> fills[c] = "CLOSED"

=============================================================================
