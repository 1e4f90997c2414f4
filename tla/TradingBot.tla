------------------------------ MODULE TradingBot ------------------------------
(***************************************************************************)
(* The trading process: Bot.run_forever and Bot.tick (src/bot.py) driving  *)
(* the MT5 order router (src/execution/mt5_live.py), the portfolio gate    *)
(* (RiskManager) and the SQLite stores the process shares with the API     *)
(* (trade journal, signal dedup, bot control, voice kill flag).            *)
(*                                                                         *)
(* A tick is a walk through pc:                                            *)
(*                                                                         *)
(*   idle -> manage <-> trigger -> closed      open orders, one by one     *)
(*        -> reconcile                         every ReconcileTicks ticks  *)
(*        -> scan -> strategies -> gate -> evaluate -> place -> filled     *)
(*        -> idle                                                          *)
(*                                                                         *)
(* A step ends where the process talks to the broker or commits to the     *)
(* database, so that the broker, the operator, the clock and a crash come  *)
(* in between.  Memory written after the last commit of a handler is part  *)
(* of that commit's step: a crash between the two leaves the same state as *)
(* a crash after both.                                                     *)
(***************************************************************************)
EXTENDS RiskManager, FiniteSets, FiniteSetsExt

CONSTANTS
  Strategies, Symbols,
  ReconcileTicks,  \* Bot.journal_reconcile_ticks
  LongCooldown,    \* _CLOSE_RETRY_COOLDOWN_S outlasts the poll interval
  Weights,         \* what risk_per_trade * allocator weight may come to
  MarginScaling,   \* whether _fit_to_margin may shrink an order
  TrailTo,         \* stop distances the trailing stop may move to
  Pnls,            \* results a closing deal may have
  Events,          \* which of AllEvents may happen
  MaxTicket, MaxBar, MaxDay   \* bounds of the instance

AllEvents ==
  {"crash",       \* the process dies between two steps
   "lostReply",   \* order_send executes and its reply is None or not DONE
   "disconnect",  \* the terminal loses the broker and finds it again
   "partial",     \* the operator closes part of a position by hand
   "storeFails",  \* a journal statement raises (locked database)
   "dedupFails",  \* the dedup store raises; the bot trades on without it
   "operator"}    \* Stop/Start in the dashboard, voice kill and its reset

ASSUME BotAssumption ==
  /\ Strategies # {} /\ Symbols # {}
  /\ ReconcileTicks \in Nat \ {0}
  /\ Weights \subseteq 0..RiskPerTrade
  /\ MarginScaling \in BOOLEAN
  /\ LongCooldown \in BOOLEAN
  /\ TrailTo \subseteq Nat
  /\ Pnls \subseteq Int
  /\ Events \subseteq AllEvents
  /\ MaxTicket \in Nat \ {0}
  /\ MaxBar \in Nat \ {0}
  /\ MaxDay \in Nat \ {0}

Ticket == 1..MaxTicket
Side == {"BUY", "SELL"}
None == 0          \* no ticket, no bar

VARIABLES
  connected,  \* the terminal's session with the broker is up
  pos,        \* the broker's positions by ticket, closed ones included
  deal,       \* tickets with a closing deal in the broker's history
  bar,        \* the symbol's current bar
  day,        \* the current UTC day
  rows,       \* the trades table, by ticket
  dedup,      \* bot_signal_dedup: last bar acted on
  shouldRun,  \* bot_control.should_run
  killed,     \* voice_kill_flag.active
  pc, rs,     \* where the process is; RiskManager.state
  lastBar,    \* BotState.last_bar_ts
  cooldown,   \* tickets still in BotState.close_retry_after
  sinceSync,  \* ticks since the last journal reconcile, capped
  todo,       \* tickets this loop has still to visit
  cur,        \* the ticket in hand
  symsLeft, stratsLeft, \* what the signal loops have still to visit
  sig         \* the symbol being scanned and the signal in hand

broker == <<connected, pos, deal>>
clock  == <<bar, day>>
store  == <<rows, dedup>>
flags  == <<shouldRun, killed>>
loops  == <<todo, cur, symsLeft, stratsLeft, sig>>
memory == <<rs, lastBar, cooldown, sinceSync>>
vars   == <<broker, clock, store, flags, pc, memory, loops>>

Position ==
  [st: {"none", "open", "closed"}, strat: Strategies, sym: Symbols,
   bar: 0..MaxBar, side: Side, risk: Nat, stop: Nat, pnl: Int, day: 0..MaxDay]

Row == [st: {"none", "OPEN", "CLOSED"}, risk: Nat, pnl: Int, day: 0..MaxDay]

Signal ==
  [strat: Strategies, sym: Symbols, side: Side, risk: 0..RiskPerTrade]

PCs == {"down", "idle", "manage", "trigger", "closed", "reconcile", "scan",
        "strategies", "gate", "evaluate", "place", "filled"}

\* RiskState.  The heat is a number whose type rests on a sum; HeatMatchesJournal
\* is what constrains it.
RiskTyped(r) ==
  /\ r = RiskRecord(r.count, r.heat, r.pnl, r.reset)
  /\ r.count \in Nat /\ r.pnl \in Int /\ r.reset \in 0..MaxDay

TypeOK ==
  /\ connected \in BOOLEAN
  /\ pos \in [Ticket -> Position]
  /\ deal \in SUBSET Ticket
  /\ bar \in [Symbols -> 1..MaxBar]
  /\ day \in 1..MaxDay
  /\ rows \in [Ticket -> Row]
  /\ dedup \in [Strategies \X Symbols -> 0..MaxBar]
  /\ shouldRun \in BOOLEAN
  /\ killed \in BOOLEAN
  /\ pc \in PCs
  /\ RiskTyped(rs)
  /\ lastBar \in [Symbols -> 0..MaxBar]
  /\ cooldown \in SUBSET Ticket
  /\ sinceSync \in 0..ReconcileTicks
  /\ todo \in SUBSET Ticket
  /\ cur \in Ticket \cup {None}
  /\ symsLeft \in SUBSET Symbols
  /\ stratsLeft \in SUBSET Strategies
  /\ sig \in Signal

-----------------------------------------------------------------------------
(* Derived state.                                                          *)

NoSignal ==
  [strat |-> CHOOSE s \in Strategies : TRUE, sym |-> CHOOSE y \in Symbols : TRUE,
   side |-> "BUY", risk |-> 0]

NoPosition ==
  [st |-> "none", strat |-> NoSignal.strat, sym |-> NoSignal.sym, bar |-> None,
   side |-> "BUY", risk |-> 0, stop |-> 0, pnl |-> 0, day |-> 0]

NoRow == [st |-> "none", risk |-> 0, pnl |-> 0, day |-> 0]
OpenRow(risk) == [st |-> "OPEN", risk |-> risk, pnl |-> 0, day |-> 0]

Placed(t) == pos[t].st # "none"
OpenPositions == {t \in Ticket : pos[t].st = "open"}
OpenRows == {t \in Ticket : rows[t].st = "OPEN"}

\* MT5Executor.open_orders(): an empty list while the broker is unreachable.
OpenOrders == IF connected THEN OpenPositions ELSE {}

\* MT5Executor.list_open_position_tickets(), same when unreachable.
\* Variant: counts positions that are gone.
LiveTicketsStale == {t \in Ticket : Placed(t)}

LiveTickets == IF connected THEN OpenPositions ELSE {}

\* Variant: trusts the position list alone.
CloseInfoUnchecked(t) == connected

\* MT5Executor.fetch_close_info(t) is not None: some OUT deal is visible.
CloseInfo(t) == connected /\ t \in deal

RowRisk == [t \in Ticket |-> rows[t].risk]

Can(event) == event \in Events

\* Whether a call succeeds: it always does unless the event may happen.
Succeeds(event) == IF Can(event) THEN BOOLEAN ELSE {TRUE}

-----------------------------------------------------------------------------
(* Init.                                                                   *)

Init ==
  /\ connected = TRUE
  /\ pos = [t \in Ticket |-> NoPosition]
  /\ deal = {}
  /\ bar = [y \in Symbols |-> 1]
  /\ day = 1
  /\ rows = [t \in Ticket |-> NoRow]
  /\ dedup = [k \in Strategies \X Symbols |-> None]
  /\ shouldRun = TRUE
  /\ killed = FALSE
  /\ pc = "down"
  /\ rs = FreshRisk
  /\ lastBar = [y \in Symbols |-> None]
  /\ cooldown = {}
  /\ sinceSync = ReconcileTicks
  /\ todo = {} /\ cur = None /\ symsLeft = {} /\ stratsLeft = {}
  /\ sig = NoSignal

\* The process is gone and its memory with it.
LoseMemory ==
  /\ pc' = "down"
  /\ rs' = FreshRisk
  /\ lastBar' = [y \in Symbols |-> None]
  /\ cooldown' = {}
  /\ sinceSync' = ReconcileTicks
  /\ todo' = {} /\ cur' = None /\ symsLeft' = {} /\ stratsLeft' = {}
  /\ sig' = NoSignal

\* tick() returned, or raised and run_forever caught it.
EndTick ==
  /\ pc' = "idle"
  /\ todo' = {} /\ cur' = None /\ symsLeft' = {} /\ stratsLeft' = {}
  /\ sig' = NoSignal

-----------------------------------------------------------------------------
(* Start, tick entry, and the environment's hand on both.                  *)

\* run_forever() up to its loop: _seed_risk_state_from_journal.  The journal
\* or the account balance may be unreadable; both errors are swallowed.
StartBot ==
  /\ pc = "down" /\ connected
  /\ pc' = "idle"
  /\ \E readable \in Succeeds("storeFails"), balance \in Succeeds("disconnect") :
       LET seeded == IF readable THEN OpenRows ELSE {} IN
       rs' = RiskRecord(Cardinality(seeded),
                        IF balance THEN SumFunctionOnSet(RowRisk, seeded) ELSE 0,
                        FreshRisk.pnl, FreshRisk.reset)
  /\ UNCHANGED <<broker, clock, store, flags, lastBar, cooldown, sinceSync, loops>>

\* Variant: the flag is not wired into the loop.
KillSeenNever == FALSE

KillSeen == killed

\* The kill flag is read once, on entry; a paused bot never gets here.
TickBegin ==
  /\ pc = "idle" /\ shouldRun
  /\ IF KillSeen
     THEN LoseMemory
     ELSE /\ pc' = "manage"
          /\ todo' = OpenOrders
          /\ sinceSync' = IF sinceSync < ReconcileTicks THEN sinceSync + 1 ELSE sinceSync
          /\ UNCHANGED <<rs, lastBar, cooldown, cur, symsLeft, stratsLeft, sig>>
  /\ UNCHANGED <<broker, clock, store, flags>>

-----------------------------------------------------------------------------
(* Open orders: trailing stop, exit trigger, close.                        *)

\* TradeJournal.record_modify.
PatchStop(t, d) ==
  IF rows[t].st = "none" THEN rows ELSE [rows EXCEPT ![t] = [rows[t] EXCEPT !.risk = d]]

\* StopManager.proposed_stop may propose a stop.  The order was rebuilt from the
\* broker's position, so R is measured from the current stop: a stop at the
\* entry price never moves again.
ProposesStop(t) == pos[t].stop > 0

\* MT5Executor.modify may succeed.
CanModify(t) == t \in OpenOrders

\* _apply_trailing.  The journal row follows only a modification the broker
\* accepted.
Trail(t) ==
  /\ pc = "manage" /\ t \in todo
  /\ pc' = "trigger" /\ cur' = t /\ todo' = todo \ {t}
  /\ \/ UNCHANGED <<pos, rows>>
     \/ /\ ProposesStop(t) /\ CanModify(t)
        /\ \E d \in TrailTo \ {pos[t].stop}, recorded \in Succeeds("storeFails") :
             /\ pos' = [pos EXCEPT ![t] = [pos[t] EXCEPT !.stop = d]]
             /\ rows' = IF recorded THEN PatchStop(t, d) ELSE rows
  /\ UNCHANGED <<connected, deal, clock, dedup, flags, memory, symsLeft, stratsLeft, sig>>

\* No trigger on the last bar, or the ticket is cooling down.
LeaveOpen ==
  /\ pc = "trigger"
  /\ pc' = "manage" /\ cur' = None
  /\ UNCHANGED <<broker, clock, store, flags, memory, todo, symsLeft, stratsLeft, sig>>

\* A deal on position t: a result booked today.
Deal(t, pnl) == [pos[t] EXCEPT !.pnl = pnl, !.day = day]

\* Position t is closed at the broker, today, with this result.
ClosesWith(t, pnl) == pos' = [pos EXCEPT ![t] = [Deal(t, pnl) EXCEPT !.st = "closed"]]

\* MT5Executor.close reports REJECTED: unreachable, position gone, or refused.
\* With "lostReply" the refusal is only a lost answer and the position is gone.
CloseRejected ==
  /\ pc = "trigger" /\ cur \notin cooldown
  /\ \/ UNCHANGED pos
     \/ /\ Can("lostReply") /\ cur \in OpenOrders
        /\ \E pnl \in Pnls : ClosesWith(cur, pnl)
  /\ cooldown' = IF LongCooldown THEN cooldown \cup {cur} ELSE {}
  /\ pc' = "manage" /\ cur' = None
  /\ UNCHANGED <<connected, deal, clock, store, flags, rs, lastBar, sinceSync,
                 todo, symsLeft, stratsLeft, sig>>

CloseDone ==
  /\ pc = "trigger" /\ cur \notin cooldown
  /\ cur \in OpenOrders
  /\ \E pnl \in Pnls : ClosesWith(cur, pnl)
  /\ pc' = "closed"
  /\ UNCHANGED <<connected, deal, clock, store, flags, memory, loops>>

\* UPDATE trades SET status = 'CLOSED' ... : no effect without a row.
Settle(t) ==
  rows' = IF rows[t].st = "none" THEN rows
          ELSE [rows EXCEPT ![t] = [st |-> "CLOSED", risk |-> rows[t].risk,
                                    pnl |-> pos[t].pnl, day |-> pos[t].day]]

\* The rest of _close_order.  Order.extra is empty here (open_orders built the
\* order afresh), so the refund is the full risk_per_trade.
BookClose ==
  /\ pc = "closed"
  /\ Settle(cur)
  /\ rs' = RegisterClosed(rs, RiskPerTrade, pos[cur].pnl)
  /\ cooldown' = cooldown \ {cur}
  /\ pc' = "manage" /\ cur' = None
  /\ UNCHANGED <<broker, clock, dedup, flags, lastBar, sinceSync, todo, symsLeft,
                 stratsLeft, sig>>

\* journal.record_close raised: the rest of the tick is lost with it.
BookCloseFails ==
  /\ pc = "closed" /\ Can("storeFails")
  /\ cooldown' = cooldown \ {cur}
  /\ EndTick
  /\ UNCHANGED <<broker, clock, store, flags, rs, lastBar, sinceSync>>

\* latest_bars raises out of the order loop when the broker is unreachable.
ManageAborts ==
  /\ pc = "trigger" \/ (pc = "manage" /\ todo # {})
  /\ ~connected
  /\ EndTick
  /\ UNCHANGED <<broker, clock, store, flags, memory>>

-----------------------------------------------------------------------------
(* Journal reconcile.                                                      *)

\* Housekeeping after the order loop.  The tick counter is stamped before
\* anything is read; an unreadable journal ends the pass.
Sync ==
  /\ pc = "manage" /\ todo = {}
  /\ IF sinceSync < ReconcileTicks
     THEN /\ pc' = "scan" /\ symsLeft' = Symbols
          /\ UNCHANGED <<sinceSync, todo>>
     ELSE /\ pc' = "reconcile" /\ sinceSync' = 0
          /\ \E readable \in Succeeds("storeFails") :
               todo' = IF readable THEN OpenRows \ LiveTickets ELSE {}
          /\ UNCHANGED symsLeft
  /\ UNCHANGED <<broker, clock, store, flags, rs, lastBar, cooldown, cur, stratsLeft, sig>>

\* One row the position list does not know.  Without a closing deal the row is
\* left for the next pass; an error while marking it is swallowed, before the
\* refund.  The refund is rebuilt from the journal's current stop.
ReconcileRow(t) ==
  /\ pc = "reconcile" /\ t \in todo
  /\ todo' = todo \ {t}
  /\ \/ /\ ~CloseInfo(t) \/ Can("storeFails")
        /\ UNCHANGED <<rows, rs>>
     \/ /\ CloseInfo(t)
        /\ Settle(t)
        /\ \E balance \in Succeeds("disconnect") :
             rs' = RegisterClosed(rs, IF balance THEN RowRisk[t] ELSE 0, pos[t].pnl)
  /\ UNCHANGED <<broker, clock, dedup, flags, pc, lastBar, cooldown, sinceSync,
                 cur, symsLeft, stratsLeft, sig>>

ReconcileDone ==
  /\ pc = "reconcile" /\ todo = {}
  /\ pc' = "scan" /\ symsLeft' = Symbols
  /\ UNCHANGED <<broker, clock, store, flags, memory, todo, cur, stratsLeft, sig>>

-----------------------------------------------------------------------------
(* Signals.                                                                *)

\* A symbol without bars, or whose current bar was already scanned.
SkipSymbol(y) ==
  /\ pc = "scan" /\ y \in symsLeft
  /\ ~connected \/ lastBar[y] = bar[y]
  /\ symsLeft' = symsLeft \ {y}
  /\ UNCHANGED <<broker, clock, store, flags, pc, memory, todo, cur, stratsLeft, sig>>

\* The bar is remembered as scanned before any strategy runs on it.
ScanSymbol(y) ==
  /\ pc = "scan" /\ y \in symsLeft
  /\ connected /\ lastBar[y] # bar[y]
  /\ lastBar' = [lastBar EXCEPT ![y] = bar[y]]
  /\ symsLeft' = symsLeft \ {y}
  /\ stratsLeft' = Strategies
  /\ sig' = [sig EXCEPT !.sym = y]
  /\ pc' = "strategies"
  /\ UNCHANGED <<broker, clock, store, flags, rs, cooldown, sinceSync, todo, cur>>

ScanDone ==
  /\ pc = "scan" /\ symsLeft = {}
  /\ EndTick
  /\ UNCHANGED <<broker, clock, store, flags, memory>>

\* Switched off, gated by regime or filter, or no signal on this bar.
StrategyQuiet(s) ==
  /\ pc = "strategies" /\ s \in stratsLeft
  /\ stratsLeft' = stratsLeft \ {s}
  /\ UNCHANGED <<broker, clock, store, flags, pc, memory, todo, cur, symsLeft, sig>>

AlreadyActed(s, y) == dedup[<<s, y>>] = lastBar[y]

\* Variant: the mark lives in memory only.
RememberNothing(s, y) == UNCHANGED dedup

Remember(s, y) == dedup' = [dedup EXCEPT ![<<s, y>>] = lastBar[y]]

\* A signal the dedup store knows is dropped; any other is marked at once,
\* before it is known whether an order follows.  In signal mode it stops there.
SignalSeen(s) ==
  /\ pc = "strategies" /\ s \in stratsLeft
  /\ stratsLeft' = stratsLeft \ {s}
  /\ IF AlreadyActed(s, sig.sym) THEN UNCHANGED dedup ELSE Remember(s, sig.sym)
  /\ UNCHANGED <<broker, clock, rows, flags, pc, memory, todo, cur, symsLeft, sig>>

\* The same in execute mode: the signal goes on to the gates.
SignalTaken(s) ==
  /\ pc = "strategies" /\ s \in stratsLeft
  /\ stratsLeft' = stratsLeft \ {s}
  /\ \/ ~AlreadyActed(s, sig.sym) /\ Remember(s, sig.sym)
     \/ Can("dedupFails") /\ UNCHANGED dedup
  /\ \E side \in Side : sig' = [sig EXCEPT !.strat = s, !.side = side]
  /\ pc' = "gate"
  /\ UNCHANGED <<broker, clock, rows, flags, memory, todo, cur, symsLeft>>

StrategiesDone ==
  /\ pc = "strategies" /\ stratsLeft = {}
  /\ pc' = "scan" /\ sig' = NoSignal
  /\ UNCHANGED <<broker, clock, store, flags, memory, todo, cur, symsLeft, stratsLeft>>

NextStrategy == pc' = "strategies" /\ sig' = [NoSignal EXCEPT !.sym = sig.sym]

\* Variant: a strategy looks at its own positions only.
OppositeOwn(t) == pos[t].strat = sig.strat /\ pos[t].sym = sig.sym /\ pos[t].side # sig.side

\* The opposite-side guard, on a snapshot that is empty when unreachable.
Opposite(t) == pos[t].sym = sig.sym /\ pos[t].side # sig.side

Guard ==
  /\ pc = "gate"
  /\ IF \E t \in OpenOrders : Opposite(t)
     THEN NextStrategy
     ELSE pc' = "evaluate" /\ UNCHANGED sig
  /\ UNCHANGED <<broker, clock, store, flags, memory, todo, cur, symsLeft, stratsLeft>>

\* RiskManager.evaluate.  The day rolls over here and nowhere else, even when
\* the answer is no.
Evaluate ==
  /\ pc = "evaluate" /\ connected
  /\ rs' = DailyReset(rs, day)
  /\ \/ NextStrategy
     \/ \E risk \in Weights :
          /\ Approves(rs', risk)
          /\ pc' = "place" /\ sig' = [sig EXCEPT !.risk = risk]
  /\ UNCHANGED <<broker, clock, store, flags, lastBar, cooldown, sinceSync,
                 todo, cur, symsLeft, stratsLeft>>

\* account_balance raises out of the tick.
BalanceFails ==
  /\ pc \in {"evaluate", "place"} /\ ~connected
  /\ EndTick
  /\ UNCHANGED <<broker, clock, store, flags, memory>>

-----------------------------------------------------------------------------
(* Placement.                                                              *)

\* The broker never hands out a ticket twice; MaxTicket bounds them.
NextTicket == CHOOSE t \in Ticket : ~Placed(t)
CanPlace == \E t \in Ticket : ~Placed(t)

\* What _fit_to_margin leaves of an order for this much risk.
Fitted(risk) == IF MarginScaling THEN 1..risk ELSE {risk}

Fill(t, risk) ==
  pos' = [pos EXCEPT ![t] =
           [st |-> "open", strat |-> sig.strat, sym |-> sig.sym, bar |-> lastBar[sig.sym],
            side |-> sig.side, risk |-> risk, stop |-> risk, pnl |-> 0, day |-> 0]]

\* REJECTED: no tick, no margin, refused.  With "lostReply" the broker filled
\* the order and the bot does not know.
PlaceRejected ==
  /\ pc = "place" /\ connected
  /\ \/ UNCHANGED pos
     \/ Can("lostReply") /\ CanPlace /\ \E risk \in Fitted(sig.risk) : Fill(NextTicket, risk)
  /\ NextStrategy
  /\ UNCHANGED <<connected, deal, clock, store, flags, memory, todo, cur, symsLeft,
                 stratsLeft>>

PlaceDone ==
  /\ pc = "place" /\ connected /\ CanPlace
  /\ \E risk \in Fitted(sig.risk) : Fill(NextTicket, risk)
  /\ cur' = NextTicket
  /\ pc' = "filled"
  /\ UNCHANGED <<connected, deal, clock, store, flags, memory, todo, symsLeft,
                 stratsLeft, sig>>

\* journal.record_open, then the risk actually taken is booked.
RecordOpen ==
  /\ pc = "filled"
  /\ rows' = [rows EXCEPT ![cur] = OpenRow(pos[cur].risk)]
  /\ rs' = RegisterOpened(rs, pos[cur].risk)
  /\ cur' = None
  /\ NextStrategy
  /\ UNCHANGED <<broker, clock, dedup, flags, lastBar, cooldown, sinceSync, todo,
                 symsLeft, stratsLeft>>

\* record_open raised: the position is at the broker and nowhere else.
RecordOpenFails ==
  /\ pc = "filled" /\ Can("storeFails")
  /\ EndTick
  /\ UNCHANGED <<broker, clock, store, flags, memory>>

-----------------------------------------------------------------------------
(* The environment.                                                        *)

Crash ==
  /\ Can("crash") /\ pc # "down"
  /\ LoseMemory
  /\ UNCHANGED <<broker, clock, store, flags>>

\* The stop, the target or the operator closes a position at the broker.
BrokerCloses(t) ==
  /\ pos[t].st = "open"
  /\ \E pnl \in Pnls : ClosesWith(t, pnl)
  /\ UNCHANGED <<connected, deal, clock, store, flags, pc, memory, loops>>

\* The operator closes part of a position: it stays open and has a closing deal.
PartialClose(t) ==
  /\ Can("partial") /\ pos[t].st = "open" /\ t \notin deal
  /\ deal' = deal \cup {t}
  /\ \E pnl \in Pnls : pos' = [pos EXCEPT ![t] = Deal(t, pnl)]
  /\ UNCHANGED <<connected, clock, store, flags, pc, memory, loops>>

\* The closing deal of a closed position reaches the history.
DealLands(t) ==
  /\ pos[t].st = "closed" /\ t \notin deal
  /\ deal' = deal \cup {t}
  /\ UNCHANGED <<connected, pos, clock, store, flags, pc, memory, loops>>

Connection ==
  /\ Can("disconnect")
  /\ connected' = ~connected
  /\ UNCHANGED <<pos, deal, clock, store, flags, pc, memory, loops>>

NewBar(y) ==
  /\ bar[y] < MaxBar
  /\ bar' = [bar EXCEPT ![y] = @ + 1]
  /\ UNCHANGED <<broker, day, store, flags, pc, memory, loops>>

Midnight ==
  /\ day < MaxDay
  /\ day' = day + 1
  /\ UNCHANGED <<broker, bar, store, flags, pc, memory, loops>>

CooldownExpires(t) ==
  /\ t \in cooldown
  /\ cooldown' = cooldown \ {t}
  /\ UNCHANGED <<broker, clock, store, flags, pc, rs, lastBar, sinceSync, loops>>

\* Stop and Start in the dashboard; the voice kill and its reset.
Operate ==
  /\ Can("operator")
  /\ \/ shouldRun' = ~shouldRun /\ UNCHANGED killed
     \/ killed' = ~killed /\ UNCHANGED shouldRun
  /\ UNCHANGED <<broker, clock, store, pc, memory, loops>>

-----------------------------------------------------------------------------

BotStep ==
  \/ StartBot \/ TickBegin
  \/ \E t \in Ticket : Trail(t) \/ ReconcileRow(t)
  \/ LeaveOpen \/ CloseRejected \/ CloseDone \/ BookClose \/ BookCloseFails
  \/ ManageAborts \/ Sync \/ ReconcileDone
  \/ \E y \in Symbols : SkipSymbol(y) \/ ScanSymbol(y)
  \/ ScanDone
  \/ \E s \in Strategies : StrategyQuiet(s) \/ SignalSeen(s) \/ SignalTaken(s)
  \/ StrategiesDone \/ Guard \/ Evaluate \/ BalanceFails
  \/ PlaceRejected \/ PlaceDone \/ RecordOpen \/ RecordOpenFails

BrokerStep ==
  \/ \E t \in Ticket : BrokerCloses(t) \/ PartialClose(t) \/ DealLands(t)
  \/ Connection
  \/ \E y \in Symbols : NewBar(y)

OtherStep ==
  \/ Crash \/ Midnight \/ Operate
  \/ \E t \in Ticket : CooldownExpires(t)

Next == BotStep \/ BrokerStep \/ OtherStep

Spec == Init /\ [][Next]_vars

\* The loop never blocks for good: every wait in it is a bounded sleep or a call
\* with a timeout; the task scheduler or the watchdog restarts a process that
\* ended; a deal that closed a position reaches the history.
Fairness == WF_vars(BotStep) /\ \A t \in Ticket : WF_vars(DealLands(t))

FairSpec == Spec /\ Fairness

-----------------------------------------------------------------------------
(* Properties.                                                             *)

\* Every position the broker holds or held has a journal row, apart from the
\* one being recorded at this moment.
NoOrphans ==
  \A t \in Ticket : Placed(t) /\ rows[t].st = "none" => pc = "filled" /\ t = cur

\* However often the process dies and re-reads the bar it died on, a strategy
\* gets at most one position per symbol and bar: the dedup row is committed
\* before the order is sent, and outlives the process.
OneEntryPerBar ==
  \A t, u \in Ticket :
    /\ Placed(t) /\ Placed(u)
    /\ <<pos[t].strat, pos[t].sym, pos[t].bar>> = <<pos[u].strat, pos[u].sym, pos[u].bar>>
    => t = u

\* The open-trades gate never counts a trade the journal does not hold open, so
\* no fault can leave slots taken for ever: whatever settles the rows frees them.
NoPhantomExposure == rs.count <= Cardinality(OpenRows)

\* As long as no position escaped the journal, the gate's counter is the number
\* of open rows, through fills, both ways of closing, restarts and seeding.
CountMatchesJournal ==
  NoOrphans /\ pc # "down" => rs.count = Cardinality(OpenRows)

\* As long as no position escaped the journal, the broker never holds more
\* positions than max_open_trades, restarts included.
MaxOpenRespected == NoOrphans => Cardinality(OpenPositions) <= MaxOpenTrades

\* The bot never ends up hedging itself: no two open positions on one symbol
\* with opposite sides.
NoOppositeSides ==
  \A t, u \in OpenPositions : pos[t].sym = pos[u].sym => pos[t].side = pos[u].side

\* The journal settles a trade only when its position is really gone, whatever
\* the position list happened to say.
SettledMeansClosed == \A t \in Ticket : rows[t].st = "CLOSED" => pos[t].st = "closed"

\* What the dashboard shows as lost today, from the journal.
LossToday ==
  -SumFunctionOnSet([t \in Ticket |-> rows[t].pnl],
                    {t \in Ticket : rows[t].st = "CLOSED" /\ rows[t].day = day})

\* As long as no position escaped the journal, no order is sent once the journal
\* shows the daily loss limit reached: every way of closing a trade reaches the
\* circuit breaker.
DailyLossBreaker == NoOrphans /\ pc = "place" => LossToday < DailyLossLimit

\* The operator has left the bot running.
LeftRunning == <>[](shouldRun /\ ~killed)

\* A row of a position that is gone is settled in the end, while the bot runs.
RowsSettle ==
  LeftRunning =>
    \A t \in Ticket :
      (pos[t].st = "closed" /\ rows[t].st = "OPEN") ~> rows[t].st = "CLOSED"

Flat == OpenPositions = {} /\ pc \notin {"place", "filled"}

\* Once every position is gone for good the gate is wide open again: nothing of
\* their count or heat stays booked.
HeatDrains ==
  LeftRunning /\ <>[]Flat => <>[](pc # "down" => rs.count = 0 /\ rs.heat = 0)

\* A voice kill ends the process, unless it is reset or the bot is paused first:
\* a tick in progress reaches its end and the next one halts.
KillHalts == killed ~> (pc = "down" \/ ~killed \/ ~shouldRun)

\* As long as no position escaped the journal, the heat booked in memory is the
\* heat of the open rows, through fills, both ways of closing, restarts and
\* seeding.  (For full-size orders whose stop never moves.)
HeatMatchesJournal ==
  NoOrphans /\ pc # "down" => rs.heat = SumFunctionOnSet(RowRisk, OpenRows)

=============================================================================
