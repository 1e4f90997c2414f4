------------------------------ MODULE SignalFeed ------------------------------
(***************************************************************************)
(* The copy-trading feed: the master's journal as a log of OPEN, MODIFY    *)
(* and CLOSE events (src/api/ea_signals.py), and what GET /signals/feed of *)
(* src/api/server.py answers to one operator's EA.                         *)
(*                                                                         *)
(* The journal is written by the trading process (TradingBot), read here.  *)
(* Timestamps are integers; the master's writes carry increasing ones,     *)
(* except for a close the bot found in the broker's history, which carries *)
(* the time of the deal.                                                   *)
(***************************************************************************)
EXTENDS Integers, FiniteSets, FiniteSetsExt

CONSTANTS
  Trades,      \* the master's trades
  Strategies,
  Limit,       \* the page size of the feed
  MaxTime,     \* bound on the master's clock
  Faults       \* which of AllFaults may happen

AllFaults ==
  {"crash",        \* the EA dies between two steps
   "offline",      \* a request of the EA does not reach the server
   "historyLag",   \* a closing deal shows in the terminal's history late
   "refused",      \* the operator's broker refuses a close or a modification
   "lostReply",    \* it fills an order and the EA is told that it failed
   "pickEdits",    \* operator or admin change what is copied
   "modifies",     \* the master trails its stops
   "reconciled",   \* the master's broker closes trades on its own
   "filterFails"}  \* the filter of the feed raises

ASSUME FeedAssumption ==
  /\ Trades # {} /\ Strategies # {}
  /\ Limit \in Nat \ {0} /\ MaxTime \in Nat
  /\ Faults \subseteq AllFaults

Can(fault) == fault \in Faults

VARIABLES
  journal,   \* the trades table
  mods,      \* the trade_modifications table
  now,       \* the time of the last write
  picked     \* strategies both copyable (admin) and executed (operator)

master == <<journal, mods, now>>

Time == 0..MaxTime

Trade ==
  [st: {"none", "OPEN", "CLOSED"}, strat: Strategies, opened: Time, closed: Time]

\* The stop a trade has is named by the time of the modification that set it.
Event ==
  [type: {"OPEN", "CLOSE", "MODIFY"}, trade: Trades, ts: Time, stop: Time]

NoTrade ==
  [st |-> "none", strat |-> CHOOSE s \in Strategies : TRUE, opened |-> 0, closed |-> 0]

FeedTypeOK ==
  /\ journal \in [Trades -> Trade]
  /\ mods \subseteq Trades \X Time
  /\ now \in Time
  /\ picked \subseteq Strategies

FeedInit ==
  /\ journal = [m \in Trades |-> NoTrade]
  /\ mods = {}
  /\ now = 0
  /\ picked = Strategies

-----------------------------------------------------------------------------
(* The query.                                                              *)

EventOf(type, m, ts, stop) == [type |-> type, trade |-> m, ts |-> ts, stop |-> stop]

\* The stop in the row of a trade: record_modify keeps it current.
StopOf(m) == Max({0} \cup {x[2] : x \in {y \in mods : y[1] = m}})

\* Every event the journal holds.
Log ==
  {EventOf("OPEN", m, journal[m].opened, StopOf(m)) :
     m \in {n \in Trades : journal[n].st # "none"}}
  \cup {EventOf("CLOSE", m, journal[m].closed, 0) :
          m \in {n \in Trades : journal[n].st = "CLOSED"}}
  \cup {EventOf("MODIFY", x[1], x[2], x[2]) : x \in mods}

Newer(since) == {e \in Log : e.ts > since}

\* ORDER BY ts LIMIT: the oldest events, whichever of those that tie.
Pages(since) ==
  {page \in SUBSET Newer(since) :
     /\ Cardinality(page) = IF Cardinality(Newer(since)) < Limit
                            THEN Cardinality(Newer(since)) ELSE Limit
     /\ \A e \in page, f \in Newer(since) \ page : e.ts <= f.ts}

\* What an EA that never polled is told to start from.
Latest ==
  Max({0} \cup {e.ts : e \in {f \in Log : f.type \in {"OPEN", "CLOSE"}}})

\* Variant: without the exception for trades the operator holds.
ServedByPicks(e, held) == journal[e.trade].strat \in picked

\* The filter at delivery: the operator's picks, and any close or modification
\* of a trade the operator holds by the fills its EA reported.
Served(e, held) ==
  \/ journal[e.trade].strat \in picked
  \/ e.type \in {"CLOSE", "MODIFY"} /\ e.trade \in held

\* The bookmark sent along: the last event served, else the one that came in.
BookmarkAfter(events, since) ==
  IF events = {} THEN since ELSE Max({e.ts : e \in events})

-----------------------------------------------------------------------------
(* The writers.                                                            *)

Tick == now < MaxTime /\ now' = now + 1

\* TradeJournal.record_open.
MasterOpens(m) ==
  /\ journal[m].st = "none"
  /\ Tick
  /\ \E s \in Strategies :
       journal' = [journal EXCEPT ![m] =
         [st |-> "OPEN", strat |-> s, opened |-> now', closed |-> 0]]
  /\ UNCHANGED <<mods, picked>>

ClosedAt(m, ts) ==
  [st |-> "CLOSED", strat |-> journal[m].strat, opened |-> journal[m].opened, closed |-> ts]

\* TradeJournal.record_close.
MasterCloses(m) ==
  /\ journal[m].st = "OPEN"
  /\ Tick
  /\ journal' = [journal EXCEPT ![m] = ClosedAt(m, now')]
  /\ UNCHANGED <<mods, picked>>

\* TradeJournal.mark_closed_by_ticket: closed_at is the time of the broker's deal.
MasterReconciles(m) ==
  /\ Can("reconciled") /\ journal[m].st = "OPEN"
  /\ \E ts \in Time :
       /\ journal[m].opened < ts /\ ts <= now
       /\ journal' = [journal EXCEPT ![m] = ClosedAt(m, ts)]
  /\ UNCHANGED <<mods, now, picked>>

\* TradeJournal.record_modify.
MasterModifies(m) ==
  /\ Can("modifies") /\ journal[m].st = "OPEN"
  /\ Tick
  /\ mods' = mods \cup {<<m, now'>>}
  /\ UNCHANGED <<journal, picked>>

\* The admin's user_copyable switch, the operator's execute picks.
EditPicks ==
  /\ Can("pickEdits")
  /\ picked' \in SUBSET Strategies
  /\ UNCHANGED master

FeedStep ==
  \/ \E m \in Trades :
       MasterOpens(m) \/ MasterCloses(m) \/ MasterReconciles(m) \/ MasterModifies(m)
  \/ EditPicks

=============================================================================
