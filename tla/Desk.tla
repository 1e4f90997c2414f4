-------------------------------- MODULE Desk --------------------------------
(***************************************************************************)
(* What decides over an entry and an exit inside a tick of the bot         *)
(* (Bot.tick, Bot._handle_signal, RiskManager.evaluate of src/bot.py and   *)
(* src/risk/risk_manager.py), as far as TradingBot leaves it open: stops,  *)
(* prop-firm guard, calendar, correlation, allocator, regime, toggles and  *)
(* lot size, over prices, results, news and days.                          *)
(*                                                                         *)
(*   idle -> manage <-> trigger -> observe -> refresh                      *)
(*        -> scan -> mode -> gate -> place -> note -> scan ... -> idle     *)
(*                                                                         *)
(* Journal, dedup, counters and failing orders are in TradingBot; orders   *)
(* are accepted or refused here, and the gates over the counters may       *)
(* refuse any signal.                                                      *)
(***************************************************************************)
EXTENDS PropFirmGuard, Allocator, Filters, Sizing, Alerts

CONSTANTS
  Strategies, Symbols,
  Preferred,        \* preferred_regimes of each strategy
  Currencies,       \* currencies_for_symbol
  CalendarWired,    \* whether the RiskManager has a BlackoutChecker; main.py gives it none
  Feeds,            \* what the provider may publish: sets of events
  Tables,           \* what a correlation matrix may hold
  StopDistance, TargetDistance,   \* of every signal, in price
  Exits,            \* how far from its entry a trade may be closed from outside
  StartBalances, MinBalance,
  DayLength,        \* minutes of a day
  Scenarios,        \* what one behaviour has: events, signals, a number of orders
  MaxMinute, MaxPrice, MaxTicket   \* bounds

AllEvents ==
  {"prices",      \* prices move and hit stops
   "results",     \* trades are closed from outside, at any of Exits
   "time",        \* minutes pass
   "restart",     \* the process ends and comes back
   "unread",      \* the balance or the guard's row cannot be read
   "unwritten",   \* the guard's row cannot be written
   "guard",       \* PROPFIRM_ENABLED
   "allocator",   \* ALLOCATOR_ENABLED
   "news",        \* the provider publishes, the API refreshes
   "matrix",      \* correlations are refreshed
   "blind",       \* the position list is empty because the broker is away
   "switches",    \* the operator turns strategies on and off, or to signals only
   "alerts",      \* Telegram is set up
   "noPips"}      \* symbol_info answers nothing

ASSUME DeskAssumption ==
  /\ Strategies # {} /\ Symbols # {}
  /\ Preferred \in [Strategies -> SUBSET {"trend_up", "trend_down", "range"}]
  /\ DOMAIN Currencies = Symbols
  /\ CalendarWired \in BOOLEAN
  /\ \A f \in Feeds : \A e \in f : e.at \in Nat /\ e.high \in BOOLEAN
  /\ StopDistance \in Nat \ {0} /\ TargetDistance \in Nat \ {0} /\ Exits \subseteq Int
  /\ StartBalances \subseteq Nat /\ MinBalance \in Nat
  /\ DayLength \in Nat \ {0}
  /\ \A c \in Scenarios : c.events \subseteq AllEvents /\ c.orders \in 0..MaxTicket
                       /\ c.signals \subseteq Strategies \X Symbols \X Sides
  /\ {} \in Feeds /\ \A m \in Tables : \A k \in DOMAIN m : m[k] \in Int
  /\ MaxMinute \in Nat /\ MaxPrice \in Nat /\ MaxTicket \in Nat \ {0}

Ticket == 1..MaxTicket
None == 0

VARIABLES
  scenario,   \* one of Scenarios, chosen once
  now,        \* minutes since a midnight
  price, bar, \* the market's price of a symbol, and its last bar
  pos,        \* positions by ticket, closed ones included
  closed,     \* closed tickets of the journal, in the order of closing
  balance,    \* the account's balance
  row,        \* propfirm_state
  feed,       \* what the provider publishes at this moment
  events,     \* calendar_events
  table,      \* correlation_pairs
  enabled, mode,   \* strategy_toggles
  pc, todo, cur, sig,   \* where the tick is, what it has in hand
  alloc,      \* BotState.allocations; {} until the allocator has run
  pips,       \* PipResolver: what it keeps of a symbol's size and value
  alerts,     \* BotState: when a signal or a refused setup was last announced
  throttle,   \* TelegramNotifier._setup_throttle
  \* history
  listed,     \* the provider's list at the last refresh of the table
  opened,     \* the balance when the day began
  slipped,    \* the guard's anchor of today is not the balance the day began with
  broke,      \* [day |-> day of a breach, ever |-> whether a total one was], of those
              \* the guard has written down
  loose,      \* a held position was let in blindly or against another table
  heard       \* when the operator last heard of a refused setup

market == <<price, bar>>
stores == <<row, events, table, enabled, mode>>
notices == <<alerts, throttle, heard>>
memory == <<alloc, pips, alerts, throttle>>
inHand == <<todo, cur, sig>>
history == <<listed, opened, slipped, broke, loose, heard>>
vars == <<scenario, now, market, pos, closed, balance, feed, stores, pc, inHand, memory, history>>

Can(event) == event \in scenario.events
Today == now \div DayLength + 1

Signal == [strat : Strategies, sym : Symbols, side : Sides, lots : 0..MaxLots]
NoSignal == [strat |-> CHOOSE s \in Strategies : TRUE, sym |-> CHOOSE y \in Symbols : TRUE,
             side |-> "BUY", lots |-> 0]
NoPosition == [st |-> "none", strat |-> NoSignal.strat, sym |-> NoSignal.sym, side |-> "BUY",
               entry |-> 0, stop |-> 0, target |-> 0, exit |-> 0, weight |-> 0, lots |-> 0]

Held == {t \in Ticket : pos[t].st = "open"}
HeldRecords == {[t |-> t, sym |-> pos[t].sym, side |-> pos[t].side] : t \in Held}

\* A terminal that always answers has as good as answered.
NothingKnown ==
  LET all == IF Can("noPips") THEN "none" ELSE "live"
  IN [y \in Symbols |-> [size |-> all, value |-> all]]

Setups == Symbols \X Sides \X Gates

NoAlerts == [signal |-> [k \in Strategies \X Symbols \X Sides |-> Never],
             setup  |-> [k \in Strategies \X Symbols |-> Never]]
NoThrottle == [k \in Setups |-> Unheard]

\* What a caller of the allocations gets for a strategy: "unmanaged" is 1.0.
Weight(s, y) == IF alloc = <<>> THEN FullWeight ELSE alloc[y][s]

-----------------------------------------------------------------------------
Init ==
  /\ scenario \in Scenarios
  /\ now = 0
  /\ price = [y \in Symbols |-> MaxPrice \div 2]
  /\ bar = [y \in Symbols |-> [high |-> price[y], low |-> price[y]]]
  /\ pos = [t \in Ticket |-> NoPosition] /\ closed = <<>>
  /\ balance \in StartBalances
  /\ row = NoGuardRow
  /\ feed = {} /\ events = {} /\ table = <<>>
  /\ enabled = Strategies /\ mode = [s \in Strategies |-> "execute"]
  /\ pc = "idle" /\ todo = {} /\ cur = None /\ sig = NoSignal
  /\ alloc = <<>>
  /\ pips = NothingKnown /\ alerts = NoAlerts /\ throttle = NoThrottle
  /\ heard = [k \in Setups |-> Never]
  /\ listed = {} /\ opened = balance
  /\ slipped = FALSE
  /\ broke = [day |-> NoDay, ever |-> FALSE]
  /\ loose = FALSE

-----------------------------------------------------------------------------
(* Exits.                                                                  *)

TickBegin ==
  /\ pc = "idle"
  /\ pc' = "manage" /\ todo' = Held
  /\ UNCHANGED <<scenario, now, market, pos, closed, balance, feed, stores, cur, sig, memory,
                 listed, opened, slipped, broke, loose, heard>>

\* _apply_trailing.  The broker takes a stop only on the losing side of the price.
Trail(t) ==
  /\ pc = "manage" /\ t \in todo
  /\ LET p == pos[t]
         stop == ProposedStop(p.side, p.entry, p.stop, Peak(p.side, bar[p.sym]))
         accepted == p.st = "open" /\ Ahead(p.side, stop, price[p.sym]) > 0
     IN pos' = IF accepted THEN [pos EXCEPT ![t] = [p EXCEPT !.stop = stop]] ELSE pos
  /\ pc' = "trigger" /\ todo' = todo \ {t} /\ cur' = t
  /\ UNCHANGED <<scenario, now, market, closed, balance, feed, stores, sig, memory, history>>

\* A deal closes position t; its result is booked on the account.
Book(t, exit) ==
  /\ IF Can("allocator")
     THEN /\ pos' = [pos EXCEPT ![t] = [pos[t] EXCEPT !.st = "closed", !.exit = exit]]
          /\ closed' = Append(closed, t)
     ELSE /\ pos' = [pos EXCEPT ![t] = [NoPosition EXCEPT !.st = "closed"]]
          /\ UNCHANGED closed
  /\ balance' = IF Can("guard") THEN balance + Ahead(pos[t].side, pos[t].entry, exit) ELSE balance
  /\ slipped' = (slipped \/ (Can("guard") /\ row.date # Today))
  /\ loose' = (loose /\ Held \ {t} # {})

\* _close_trigger and _close_order: the position is closed at the market.
Trigger ==
  /\ pc = "trigger"
  /\ LET p == pos[cur] IN
     IF p.st = "open" /\ Hit(p.side, p.stop, p.target, bar[p.sym]) # "none"
     THEN Book(cur, price[p.sym])
     ELSE UNCHANGED <<pos, closed, balance, slipped, loose>>
  /\ pc' = "manage" /\ cur' = None
  /\ UNCHANGED <<scenario, now, market, feed, stores, todo, sig, memory,
                 listed, opened, broke, heard>>

-----------------------------------------------------------------------------
(* Bookkeeping before the signals.                                         *)

\* propfirm_guard.observe(account_balance()): its failure is logged and the tick goes on.
\* A new row is committed before the balance is looked at.
Observe ==
  /\ pc = "manage" /\ todo = {} /\ pc' = "refresh"
  /\ \/ /\ ~Can("guard") \/ Can("unread")
        /\ UNCHANGED <<row, broke, slipped>>
     \/ /\ Can("guard")
        /\ slipped' = (slipped \/ (row = NoGuardRow /\ balance # InitialBalance))
        /\ LET state == IF row = NoGuardRow THEN Initialized(Today) ELSE row
               after == Observed(state, balance, Today)
           IN \/ /\ row' = after
                 /\ broke' =
                      [day |-> IF ~slipped' /\ Breach(opened - balance, DailyLossAmount)
                               THEN Today ELSE broke.day,
                       ever |-> broke.ever \/ Breach(InitialBalance - balance, MaxDrawdownAmount)]
              \/ /\ Can("unwritten") /\ after # state
                 /\ row' = state /\ UNCHANGED broke
  /\ UNCHANGED <<scenario, now, market, pos, closed, balance, feed, events, table, enabled, mode,
                 inHand, memory, listed, opened, loose, heard>>

TradesOf(s, y) ==
  LET mine[n \in 0..Len(closed)] ==
        IF n = 0 THEN <<>>
        ELSE IF pos[closed[n]].strat = s /\ pos[closed[n]].sym = y
             THEN Append(mine[n - 1], pos[closed[n]]) ELSE mine[n - 1]
  IN mine[Len(closed)]

Scores(y) == [s \in Strategies |-> Score(TradesOf(s, y))]
Allocate == [y \in Symbols |-> AllocateSymbol(Scores(y))]

\* Either may be off, not due, or fail; then it leaves things as they were.
RefreshCorrelations ==
  \/ UNCHANGED <<table, loose>>
  \/ /\ Can("matrix")
     /\ \E matrix \in Tables : table' = WithMatrix(table, matrix)
     /\ loose' = (loose \/ (Held # {} /\ table' # table))

RefreshAllocator ==
  \/ UNCHANGED alloc
  \/ Can("allocator") /\ alloc' = Allocate

Refresh ==
  /\ pc = "refresh" /\ pc' = "scan"
  /\ RefreshCorrelations /\ RefreshAllocator
  /\ UNCHANGED <<scenario, now, market, pos, closed, balance, feed, row, events, enabled, mode,
                 inHand, pips, alerts, throttle, listed, opened, slipped,
                 broke, heard>>

-----------------------------------------------------------------------------
(* Entries.                                                                *)

\* _send_signal_alert.
SignalAlert ==
  LET k == <<sig.strat, sig.sym, sig.side>> IN
  /\ alerts' = IF Can("alerts") /\ Due(alerts.signal[k], now, SignalEvery)
               THEN [alerts EXCEPT !.signal[k] = now] ELSE alerts
  /\ UNCHANGED <<throttle, heard>>

\* _maybe_send_setup_alert, and the notifier behind it.
SetupAlert(s, y, side, gate) ==
  LET k == <<y, side, gate>> IN
  IF Can("alerts") /\ Due(alerts.setup[<<s, y>>], now, SetupEvery)
  THEN /\ alerts' = [alerts EXCEPT !.setup[<<s, y>>] = now]
       /\ throttle' = [throttle EXCEPT ![k] = Throttled(throttle[k], now)]
       /\ heard' = IF Shows(throttle[k], now) THEN [heard EXCEPT ![k] = now] ELSE heard
  ELSE UNCHANGED notices

\* A strategy that is on has a signal, and the regime does not object.
HasSignal(s, y, side) ==
  /\ pc = "scan" /\ s \in enabled /\ <<s, y, side>> \in scenario.signals
  /\ \E reading \in Readings : RegimeAllows(Preferred[s], Trend(reading))

\* Nor does the model behind the ML filter, if there is one.
ScanSignal(s, y, side) ==
  /\ HasSignal(s, y, side)
  /\ pc' = "mode" /\ sig' = [strat |-> s, sym |-> y, side |-> side, lots |-> 0]
  /\ UNCHANGED <<scenario, now, market, pos, closed, balance, feed, stores, todo, cur, memory,
                 history>>

FilteredOut(s, y, side) ==
  /\ Can("alerts") /\ HasSignal(s, y, side)
  /\ SetupAlert(s, y, side, "ml filter")
  /\ UNCHANGED <<scenario, now, market, pos, closed, balance, feed, stores, pc, inHand, alloc, pips,
                 listed, opened, slipped, broke, loose>>

\* Nothing more to act on, or an error ends the tick.
ScanDone ==
  /\ pc = "scan" /\ pc' = "idle"
  /\ UNCHANGED <<scenario, now, market, pos, closed, balance, feed, stores, inHand, memory,
                 listed, opened, slipped, broke, loose, heard>>

\* The signal ends here.
Dropped ==
  /\ pc' = "scan" /\ sig' = NoSignal
  /\ UNCHANGED <<scenario, now, market, pos, closed, balance, feed, row, events, table, enabled,
                 mode, todo, cur, alloc, listed, opened, slipped, broke>>

Refused(gate) == Dropped /\ SetupAlert(sig.strat, sig.sym, sig.side, gate)

\* _strategy_mode, and the guard against opposite sides.
Opposed == \E h \in HeldRecords : h.sym = sig.sym /\ h.side # sig.side

HandleSignal ==
  /\ pc = "mode"
  /\ \/ /\ mode[sig.strat] = "signal" /\ Dropped /\ SignalAlert
        /\ UNCHANGED <<pips, loose>>
     \/ /\ mode[sig.strat] # "signal" /\ Opposed /\ Refused("opposite-side guard")
        /\ UNCHANGED <<pips, loose>>
     \/ /\ mode[sig.strat] # "signal" /\ ~Opposed /\ pc' = "gate"
        /\ UNCHANGED <<scenario, now, market, pos, closed, balance, feed, stores, inHand, memory,
                       history>>

Budget(w) == balance * w

\* The pips of a symbol, looked up the first time they are needed.
LookUp(y) ==
  \E size \in {TRUE, ~Can("noPips")}, value \in {TRUE, ~Can("noPips")} :
    pips' = [pips EXCEPT ![y] = [size |-> Known(pips[y].size, size),
                                 value |-> Known(pips[y].value, value)]]

Lots(y, w) == LotSize(Budget(w), StopDistance, PipSizeOf(pips'[y].size), PipValueOf(pips'[y].value))

\* RiskManager.evaluate, in the order of its gates.
Approved(held, w, lots) ==
  /\ w > 0
  /\ balance >= MinBalance
  /\ CalendarWired => ~Blackout(events, Currencies[sig.sym], now)
  /\ ThrottleApproves(table, sig, held, FullWeight, w)
  /\ lots > 0
  /\ Can("guard") => GuardApproves(row, lots)

Gate ==
  /\ pc = "gate"
  /\ LookUp(sig.sym)
  /\ \E held \in IF Can("blind") THEN {HeldRecords, {}} ELSE {HeldRecords} :
       LET w == Weight(sig.strat, sig.sym)
           lots == Lots(sig.sym, w)
       IN
       \/ loose' = loose /\ Refused("risk manager")
       \/ /\ Approved(held, w, lots)
          /\ pc' = "place" /\ sig' = [sig EXCEPT !.lots = lots]
          /\ loose' = (loose \/ held # HeldRecords)
          /\ UNCHANGED <<scenario, now, market, pos, closed, balance, feed, stores, todo, cur, alloc,
                         listed, opened, slipped, broke, notices>>

\* The order is filled at the market.
Place(t) ==
  /\ pc = "place" /\ pos[t].st = "none" /\ \A u \in 1..(t - 1) : pos[u].st # "none"
  /\ t <= scenario.orders
  /\ LET entry == price[sig.sym] IN
     pos' = [pos EXCEPT ![t] =
          [st |-> "open", strat |-> sig.strat, sym |-> sig.sym, side |-> sig.side, entry |-> entry,
           stop |-> Shifted(sig.side, entry, -StopDistance),
           target |-> Shifted(sig.side, entry, TargetDistance), exit |-> 0,
           weight |-> Weight(sig.strat, sig.sym), lots |-> sig.lots]]
  /\ pc' = "note"
  /\ UNCHANGED <<scenario, now, market, closed, balance, feed, stores, inHand, memory, history>>

PlaceRejected ==
  /\ pc = "place" /\ Dropped /\ UNCHANGED <<pips, loose, notices>>

\* note_trade_opened: its failure is logged.
Note ==
  /\ pc = "note" /\ pc' = "scan" /\ sig' = NoSignal
  /\ row' \in IF row = NoGuardRow THEN {row}
              ELSE {Noted(row, Today)} \cup (IF Can("unread") \/ Can("unwritten") THEN {row} ELSE {})
  /\ UNCHANGED <<scenario, now, market, pos, closed, balance, feed, events, table, enabled, mode,
                 todo, cur, memory,
                 listed, opened, slipped, broke, loose, heard>>

-----------------------------------------------------------------------------
(* Everybody else.                                                         *)

\* The price of a symbol moves by one, within the bar or into a new one.
PriceMoves(y, p) ==
  /\ Can("prices") /\ \E g \in scenario.signals : g[2] = y
  /\ p \in 0..MaxPrice /\ (p = price[y] + 1 \/ p = price[y] - 1)
  /\ price' = [price EXCEPT ![y] = p]
  /\ \E high \in {p, Greater(p, bar[y].high)} :
       LET new == high = p /\ p < bar[y].high
       IN bar' = [bar EXCEPT ![y] =
            [high |-> high, low |-> IF new \/ p < bar[y].low THEN p ELSE bar[y].low]]
  /\ UNCHANGED <<scenario, now, pos, closed, balance, feed, stores, pc, inHand, memory, history>>

\* The broker closes a position at its stop, or anybody anywhere.
TradeCloses(t, exit) ==
  /\ pos[t].st = "open"
  /\ \/ Can("prices") /\ exit = pos[t].stop /\ Ahead(pos[t].side, pos[t].stop, price[pos[t].sym]) <= 0
     \/ Can("results") /\ \E d \in Exits : exit = Shifted(pos[t].side, pos[t].entry, d)
  /\ Book(t, exit)
  /\ UNCHANGED <<scenario, now, market, feed, stores, pc, inHand, memory,
                 listed, opened, broke, heard>>

\* A minute passes; at midnight a day begins.
Minute ==
  /\ Can("time") /\ now < MaxMinute
  /\ now' = now + 1
  /\ IF now' \div DayLength # now \div DayLength
     THEN opened' = balance /\ slipped' = FALSE
     ELSE UNCHANGED <<opened, slipped>>
  /\ UNCHANGED <<scenario, market, pos, closed, balance, feed, stores, pc, inHand, memory,
                 listed, broke, loose, heard>>

Publish(f) ==
  /\ Can("news") /\ f # feed /\ feed' = f
  /\ UNCHANGED <<scenario, now, market, pos, closed, balance, stores, pc, inHand, memory, history>>

\* The API refreshes the calendar (run_once); a failing fetch changes nothing.
RefreshCalendar ==
  /\ Can("news")
  /\ events' = Purged(Upserted(events, feed), now) /\ listed' = feed
  /\ UNCHANGED <<scenario, now, market, pos, closed, balance, feed, row, table, enabled, mode, pc,
                 inHand, memory, opened, slipped, broke, loose, heard>>

\* The operator's switches in the dashboard.
Switch(s) ==
  /\ Can("switches")
  /\ \/ enabled' = (enabled \ {s}) \cup ({s} \ enabled) /\ UNCHANGED mode
     \/ \E m \in {"execute", "signal"} : mode' = [mode EXCEPT ![s] = m] /\ UNCHANGED enabled
  /\ UNCHANGED <<scenario, now, market, pos, closed, balance, feed, row, events, table, pc, inHand,
                 memory, history>>

\* The process ends anywhere and starts again without its memory.
Restart ==
  /\ Can("restart")
  /\ pc' = "idle" /\ todo' = {} /\ cur' = None /\ sig' = NoSignal
  /\ alloc' = <<>>
  /\ pips' = NothingKnown /\ alerts' = NoAlerts /\ throttle' = NoThrottle
  /\ UNCHANGED <<scenario, now, market, pos, closed, balance, feed, stores,
                 listed, opened, slipped, broke, loose, heard>>

-----------------------------------------------------------------------------
BotStep ==
  \/ TickBegin \/ Trigger \/ Observe \/ Refresh
  \/ \E t \in Ticket : Trail(t) \/ Place(t)
  \/ \E s \in Strategies, y \in Symbols, side \in Sides :
       ScanSignal(s, y, side) \/ FilteredOut(s, y, side)
  \/ ScanDone \/ HandleSignal \/ Gate \/ PlaceRejected \/ Note

OtherStep ==
  \/ \E y \in Symbols, p \in 0..MaxPrice : PriceMoves(y, p)
  \/ \E t \in Ticket, exit \in -MaxPrice..2 * MaxPrice : TradeCloses(t, exit)
  \/ Minute
  \/ \E f \in Feeds : Publish(f)
  \/ RefreshCalendar
  \/ \E s \in Strategies : Switch(s)
  \/ Restart

Next == BotStep \/ OtherStep

Spec == Init /\ [][Next]_vars

-----------------------------------------------------------------------------
(* Properties.                                                             *)

(* No order goes out after the guard has written a breach down: on that    *)
(* day for the daily limit, ever for the total one, over restarts,         *)
(* midnights and later looks that fail.  The day's loss is measured from   *)
(* its midnight, provided that nothing was booked between midnight and the *)
(* guard's first look, and that on its very first day the account held the *)
(* balance of the policy.  A breach seen but not written is left out:      *)
(* bot.py:248 says that it "kills new entries this same tick", but the     *)
(* error of the write is swallowed and the gate reads the old row.         *)
BreachStopsEntries == Can("guard") /\ pc = "place" => ~broke.ever /\ broke.day # Today

(* Whatever was fetched and purged meanwhile: whenever the list last       *)
(* fetched has an event of high impact near, /calendar/blackout says so of *)
(* every symbol of its currency.  The bot itself has no checker to ask     *)
(* (main.py:271) and trades all the same.                                  *)
BlackoutShown ==
  \A y \in Symbols :
    (\E e \in listed : e.high /\ e.ccy \in Currencies[y] /\ e.at - BeforeMin <= now /\ now <= e.at + AfterMin)
      => Blackout(events, Currencies[y], now)

(* Whatever was opened and closed in between, each position was let in     *)
(* beside the earlier ones that are still held: what moves with it, a      *)
(* hedge counting nothing, stays under the limit.                          *)
ClusterCapped ==
  ~loose =>
    \A t \in Held :
      LET With(u) ==
            LET c == IF pos[u].sym = pos[t].sym THEN CorrUnit
                     ELSE RawCorr(table, pos[u].sym, pos[t].sym)
            IN IF pos[u].side = pos[t].side THEN c ELSE -c
          together == {u \in Held : u < t /\ With(u) > 0 /\ With(u) >= CorrFloor}
      IN pos[t].weight * CorrUnit + SumFunctionOnSet([u \in together |-> pos[u].weight * With(u)], together)
           <= HeatLimit \/ together = {}

(* A stop never moves against its trade, and when it moves it protects the *)
(* entry: the trade cannot lose at its stop any more.                      *)
StopsProtect ==
  [][\A t \in Ticket :
       pos[t].st = "open" /\ pos'[t].st = "open" /\ pos'[t].stop # pos[t].stop =>
         /\ Ahead(pos[t].side, pos[t].stop, pos'[t].stop) > 0
         /\ Ahead(pos[t].side, pos[t].entry, pos'[t].stop) >= 0]_vars

(* Refused setups of one kind may go unheard for a while, never longer      *)
(* than the window since the operator last heard of them                    *)
(* (telegram_notifier.py:141-143: the window is "how long a setup_alert key *)
(* stays throttled before we'll send another one").                         *)
RepeatsSurface ==
  [][\A k \in Setups :
       throttle[k].suppressed < throttle'[k].suppressed => now - heard[k] < SetupWindow]_vars

=============================================================================
