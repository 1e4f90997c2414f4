# Forex-EA: a TLA+ model of the trading system

Forex-EA ("AntiGreed") is an automated trading system for MetaTrader 5: a Python
process trades the master account, an API publishes its trades, and an MQL5 expert
advisor copies them into the accounts of operators.  This directory holds TLA+ modules
of its core, TLC configurations that check them on small instances, and proofs that
TLAPS checks for every value of the constants.

Paths below are relative to the root of the repository (`src/bot.py` is the bot).

## 1. Inventory

All Python processes share one SQLite file (`data/trades.db`, WAL mode, 5 s busy
timeout, `src/utils/db.py`); every store opens a connection per call, so each statement
is a transaction of its own and nothing spans two stores.

| Component | State | Operations | Hard behaviour |
|---|---|---|---|
| Trading loop (`src/bot.py`) | `BotState` in memory: last bar per symbol, tick counter, close cool-downs | one tick: trailing stops and exits of open orders, journal reconcile, signals, gates, placement | crash between broker and database, exceptions that end a tick early |
| Portfolio gate (`src/risk/risk_manager.py`) | count, heat, P&L of the day, last reset, in memory | `evaluate`, `register_trade_opened/closed`, daily reset, seeding from the journal | counters kept by hand through four code paths |
| MT5 router (`src/execution/mt5_live.py`) | none; the terminal's session | place, modify, close, open orders, live tickets, deal history, reconnect | every call can fail or lie; an empty list means "none" or "unreachable" |
| Journal and dedup stores (`src/execution/journal.py`, `signal_dedup.py`) | tables `trades`, `trade_modifications`, `bot_signal_dedup` | record open/modify/close, settle by ticket, remember a signal | written by the bot, read by API and feed |
| Bot control, kill switch (`src/api/bot_control.py`, `src/voice/killswitch.py`) | one row each | pause/resume; trip and reset | latch read once per tick |
| Copy-trading feed (`src/api/ea_signals.py`, `/signals/feed` of `src/api/server.py`) | none: a query over the journal, filtered by picks and fills | events since a bookmark | pages, ties, events dated in the past, edits while trades are open |
| Copier EA (`mt5/AntiGreedCopier.mq5`) | terminal globals (trade to ticket), bookmark, closures reported | poll, dispatch, reconcile, history scan, transaction hook, backfill | crash in a batch, failing calls, four paths that report one closure |
| EA fills, EA account reports (`src/api/ea_fills.py`, `ea_account_reports.py`) | tables `ea_fills`, `ea_account_reports` | upsert per ticket | reports repeated or lost |
| Watchdog and heartbeat (`src/watchdog/`, `scripts/watchdog.py`, `src/api/broker_status.py`) | rows `watchdog_heartbeat`, `broker_status`, the history of its actions | check, cool-down, restart the bot's scheduled task, kill the terminal | restart of a process that is booting, paused or ended on purpose |
| Prop-firm guard (`src/propfirm/`) | high-water mark, day start balance, kills, persisted | observe, check, note a trade | day rollover, latched kills, stale anchors |
| Stop manager (`src/execution/stops.py`) | peak and initial stop in `Order.extra` | propose a stop | the order is rebuilt every tick |
| Filters (`src/regime/`, `src/econ_calendar/`, `src/correlation/`) | tables of events and correlations | regime, blackout, correlated heat of an entry | refreshed by other processes, read at each signal |
| Strategy modes, allocator (`src/execution/strategy_toggles.py`, `src/allocator/`) | switches and modes; weights in memory | gate or scale a signal | scores read back from the journal |
| Accounts (`src/api/users.py`, `setup_tokens.py`, `subscription_requests.py`) | users, pool of AD-IDs, requests, links | approval, assignment, setup, renewal, expiry | handlers in threads, single-use tokens |
| Sign-up (`src/api/telegram_signup.py`) | conversation and offset in the database, phone numbers in memory | one handler per message or button | writes without a common transaction, late buttons |
| Access (`auth.py`, `totp_store.py`, EA keys of `users.py`) | failures and keys, pending and active secret | login, second factor, key issue, rotation and lookup | check and act apart |
| Strategies, sizing, backtest, replay | bars, paths | signal, lot, exit | levels on the wrong side, bars that touch both |
| Notifiers (`src/monitoring/`) | throttles in memory | send | failures swallowed |
| ML, drift, narrator, dashboard, mobile app, deploy scripts | none that trading reads | presentation, offline jobs | I/O |

How they interact: the bot writes the journal and the dedup store, reads control and
kill flags, and writes its heartbeat row; the API writes the flags and answers the feed
from the journal; the EA polls the feed, trades, and reports fills, which filter its
next answer; the watchdog reads the heartbeat and restarts the bot's scheduled task; nothing locks across
processes.

What makes each part correct is listed in section 4 next to the run that checks it; the
hazards behind the properties, each at its line, are in `PROJECT.json`.

## 2. Modules

| Module | Models | Composes |
|---|---|---|
| `RiskManager` | `RiskState` and the gate, as operators on a record | |
| `TradingBot` | the bot process, its router, its stores, the broker and the operator | extends `RiskManager` |
| `TradingBotProofs` | theorems about `TradingBot` | extends `TradingBot`, `Sums` |
| `PropFirmGuard`, `StopManager`, `Allocator`, `Filters`, `Sizing`, `Alerts` | one policy of the bot each, as operators on its state | |
| `Desk` | the tick again, with every decision `TradingBot` leaves open | extends these six |
| `DeskProofs` | theorems about `Desk` and its policies | extends `Desk`, `Sums` |
| `SignalFeed` | the master's journal as an event log, and the answer of `/signals/feed` | |
| `CopyTrading` | what copy trading promises: the abstract specification | |
| `Copier` | one operator's EA, terminal and fills, polling the feed; implements `CopyTrading` | extends `SignalFeed`, instantiates `CopyTrading` |
| `CopierProofs` | theorems about `Copier`, and that it implements `CopyTrading` | extends `Copier`, `TLAPS` |
| `Watchdog` | bot process and session, scheduled task, terminal and watchdog, minute by minute | |
| `Accounts` | requests, pool of AD-IDs, users and setup links under concurrent handlers of the API | |
| `AccountsProofs` | theorems about `Accounts` | extends `Accounts`, `TLAPS` |
| `SignUp` | the Telegram conversation that makes the requests of `Accounts` | |
| `SignUpProofs` | theorems about `SignUp` | extends `SignUp`, `Sums`, `SequenceTheorems` |
| `Access` | login and its limiter, EA keys, the check-in of an EA | |
| `Console` | second factor, kill switch, switches and subscription of the dashboard | extends `Access` |
| `ConsoleProofs` | theorems about `Access` and `Console` | extends `Console`, `TLAPS` |
| `Signals` | the twelve strategies | extends `StopManager` |
| `Lab` | backtest, live trade, recorder and replay on the same bars | extends `Signals`, `Sizing` |
| `SupportProofs` | theorems about `Watchdog` and `Lab` | extends both, `SequenceTheorems` |
| `Sums` | facts about sums over finite sets, which several proofs need | `TLAPS` |
| `MC...` | instances for TLC | |

`RiskManager` has no variables: the code's `RiskState` is a dataclass that `Bot` calls
into, so it is a record (`rs` of `TradingBot`) and each method an operator on it.

### From code to `TradingBot`

A tick of the code is a walk of `pc`: `idle`, then `manage`/`trigger`/`closed` for every
open order, `reconcile` every `ReconcileTicks` ticks, and for every symbol with a new bar
`strategies`, `gate`, `evaluate`, `place`, `filled`.  A step ends where the process talks
to the terminal or commits to SQLite, so that a broker's stop, a disconnect, the operator,
midnight or a crash can come between any two of them.  An exception that
`run_forever` catches is `EndTick`: the rest of the tick is lost, memory is kept.

| State | In the code |
|---|---|
| `pos`, `deal`, `connected` | MT5 positions, closing deals in the history, the session (external) |
| `rows`, `dedup` | tables `trades`, `bot_signal_dedup` |
| `shouldRun`, `killed` | `bot_control`, `voice_kill_flag` |
| `rs` | `RiskManager.state`: count, heat, P&L of the day, last reset |
| `lastBar`, `cooldown`, `sinceSync` | `BotState` |
| `todo`, `cur`, `symsLeft`, `stratsLeft`, `sig` | the local variables of the loops |

What is abstract: a price is a stop distance, a lot is the share of the account it risks
(`risk`), a balance is readable or not; the vetoes before the gate (toggles, regime,
filters, news blackout, correlation, allocator) are one free choice, an allocator weight is a member
of `Weights`; `Desk` (below) makes them as the code does.  What is not: which snapshot a decision reads, the order of broker call,
commit and counter, and what each failing call leaves behind.

### From code to `Desk`

`Desk` walks the same tick (`idle`, `manage`/`trigger`, `observe`, `refresh`, `scan`, `mode`,
`gate`, `place`, `note`), but in it journal, counters and failing calls are simple, and
the policies are exact:

* `PropFirmGuard`: `row` is `propfirm_state`; `Observed` is `observe`, in its order: rollover,
  peak, daily kill, total kill; `Observe` has its read or its write fail; `GuardApproves` is
  `check`, which reads the row again, whatever became of the last observe.
* `StopManager`: `ProposedStop` is the two stages with R taken from the current stop, as
  the order that `open_orders` rebuilds has no initial one.
* `Allocator`: `Score` from the last closed trades of the journal, `AllocateSymbol` with
  champion, eligible challengers and the floor; `weight` 0 is a refusal.
* `Filters`: events keyed by title, currency and time (`Upserted`, `Purged`, `EventsInWindow`),
  the matrix of unordered pairs, `CorrelatedHeat` with its floor and its clipped hedges.
* `Sizing`: pips as the terminal says or as the table says, kept for the life of the process.
* `Alerts`: both throttles; the bot marks before it sends and the notifier before it posts.

Heat, correlation and budgets are whole units; a price moves within `0..MaxPrice`.
A scenario is a set of things that may happen with the signals and the number of orders
of a behaviour; scenarios keep unrelated dimensions apart, they remove no step of the bot.

### From code to `Copier`

MQL5 runs one handler at a time, so `pc` walks `OnInit` (`poll`, `dispatch`, `backfill`)
or `OnTimer` (`poll`, `dispatch`, `reconcile`, `scan`), and `OnTradeTransaction` is a
step taken at `idle`.  `slot` is the terminal global `AGCopier_map_<trade>` with its
sentinel 0 for an order in flight, `bookmark` the hidden chart object; both outlive the
EA, whose memory (`batch`, `reported`, `txq`, ...) does not.  `fills` is the status column
of `ea_fills`; `Held` is what the server derives from it for its filter.  The feed
(`Served`, `Pages`, `BookmarkAfter`) filters after the page is cut, as
`signal_feed_endpoint` does.  `MasterReconciles` dates a close with the time of its deal,
which may lie before events already served.

`CopyTrading` has three variables: the stops the master has `given` a trade, the operator's
`account` (what became of each copy, of which trade, at which stop), and what the server
was `told`.  `Copier!Promise` maps `journal` and `mods` to the first, `copies` to the
second, `fills` to the third; slot, bookmark, batch and handlers disappear.

### From code to `Watchdog`

One unit of time is a minute, the period of the watchdog's task, and the constants in
`watchdog.cfg` are the defaults of `WatchdogConfig` (180 s, 300 s, 600 s).  `Minute`
waits until everybody due in that minute has acted.  `mt5` is the terminal and the bot's
session with it: up, evicted by another login, or dropped; a tick calls the executor
(which reconnects) and the feed (which does not), and `Refreshes` is the fifth tick that
writes `broker_status`.  That row is shared: the bot, and a test of credentials at the
dashboard, write it; the watchdog reads it.  A hung, failed or ended process, a failing
restart, a lost session, a test, a pause and a wedged terminal are mishaps, of which
`MaxTrouble` happen.

### From code to `Accounts`

The routes of `src/api/server.py` are plain functions that FastAPI runs on a pool of
threads, and every call of a store is a transaction of its own; so each handler is a small
process in `call`, whose steps are transactions.  `assign` is two steps: the look into the
pool comes before sqlite3 opens the transaction at the `DELETE`.  `requests`, `pool`,
`users` and `links` are the tables `subscription_requests`, `ad_id_pool`, `auth_users` with
`user_strategy_picks`, and the setup tokens with `used_setup_tokens`.  A row that was
deleted is remembered as `deleted`, and `new_ad_id` is taken not to draw the ID of such a
row again (36^8 IDs).  Whose address, chat and picks a row has is the person who made the
request.  The EA key and durations are in `Console`.

### From code to `SignUp`

A handler is a sequence of writes (`Handler` gives it for an update and a row), each a
transaction of its own, and the acknowledgement, which stores the offset, is the last;
`HandleUpdate` runs it whole, `HandlerRaises` stops it at a failing write and acknowledges,
`Crash` stops it anywhere and does not.  `chat` is `telegram_chat_state`, `phones` the
cache in memory, `screen` the last keyboard sent; `strayed` remembers whose tap
was handled when a later keyboard had already been sent.  `AWAITING_EMAIL` and its handler are left out: no handler leads there.

### From code to `Access` and `Console`

A request of the API is a thread in `call` (access) or `req` (dashboard) whose steps are
transactions; what it read is kept with it.  Keys and secrets are numbered as they are
made; `keyRow` is the pair of columns `ea_api_key`, `ea_api_key_hash`, `paper` and `app`
what the operator was shown or has in the authenticator app.  `hits` is the sliding window
of the limiter, `session` the end of a token, `joined` the first check-in of the EA.
`job` is the expiry task: asleep, about to mail, about to mark.  `crossed` remembers a
renewal made while a notice was on its way.  `Restart` forgets requests, task and limiter.

### From code to `Signals`, `Sizing` and `Lab`

A strategy is an operator from the last bars and a reading of the indicators to a setup,
and from that to a stop and a target; readings take any value the indicators could have,
so their formulas are not needed.  Prices are whole tenths of an ATR of ten.  `Lab` draws
bar after bar: `Iterate` is one pass of `run_backtest`'s loop (exit, then entry, then next
bar) and beside it what the broker (`Touched`: either level, in either order, if both
are hit) and the bot (`Trigger`, `Trail`) do with the same signal live.

## 3. Plan

The order in which the modules were written: `RiskManager`, `TradingBot` and its proofs
(the master account is where money is lost first), `SignalFeed` and `Copier`, `Watchdog`,
`Accounts` and its proofs; then `SignUp`, the policies and `Desk`, `Access` and `Console`,
the strategies and `Lab`, and the refinement of `CopyTrading` by `Copier`.

The proofs followed in the same order: the bot and the accounts; the copier with its
refinement, the watchdog, the dashboard; the sums over the journal (`Sums`) and what needs
them in the bot; the policies of `Desk`; the conversation of `SignUp`; last the two
properties of `Lab`, which need lemmas about quotients and about the bars of a path.

A candidate for more: an abstract journal that both `TradingBot` and `SignalFeed` implement.

## 4. Runs

### The bot

| Run | Instance | Checks |
|---|---|---|
| `bot_crash` | two strategies, one symbol, three tickets, two bars; crashes and lost replies | `TypeOK`, `OneEntryPerBar`, `CountMatchesJournal`, `HeatMatchesJournal`, `MaxOpenRespected`, `NoOppositeSides` |
| `bot_faults` | one strategy; drops, lost replies, failing journal and dedup store; orders scaled down to the margin; losses against a limit of 2 | `NoPhantomExposure`, `SettledMeansClosed`, `DailyLossBreaker` |
| `bot_liveness` | one strategy; lost replies, partial closes by hand, Stop/Start and kill; fairness | `RowsSettle`, `HeatDrains`, `KillHalts` |

What they show.  A strategy enters a symbol once per bar however often the process dies
on it, because the dedup row is committed before the order is sent (`OneEntryPerBar`); a
lost reply may therefore cost an entry, never double it.  The counters in memory agree
with the journal through fills, both ways of closing, crashes and seeding
(`CountMatchesJournal`, `HeatMatchesJournal`), and hence the broker never holds more than
`max_open_trades` (`MaxOpenRespected`).  These three exclude the states in which a
position escaped the journal (`NoOrphans`): the bot dies or the reply is lost
between order and row, and nothing adopts the position.  Without that premise they are
false, and only the weaker `NoPhantomExposure` remains, which needs no premise.
`SettledMeansClosed` covers the worst reading of the router's empty lists: an
unreachable broker makes every position look gone, but only a closing deal settles a
row.  `HeatDrains` says that nothing stays booked for ever once the account is flat.

Bounds.  Three tickets let a third order meet a full gate of two while one position
closes; two bars let a crash fall before and after a bar changed; one symbol suffices
because symbols share only the gate and the tickets, which two strategies already
contend for; one loss of 2 reaches the limit, and with two tickets a win
could not make room for a third order;
`Midnight` happens in `bot_liveness`, whose two days make the reset fire at a gate.

Deliberate restrictions, each visible in a cfg: heat is compared for full-size orders
whose stop stays put (`Weights = {2}`, no `TrailTo`, no `MarginScaling`), since seeding
reads the current stop and a close by the bot refunds full risk even for an order that was
scaled down to its margin (`src/bot.py:1329`: the order it closes was rebuilt by
`open_orders` without `booked_risk_pct`).  `SettledMeansClosed` and `MaxOpenRespected`
leave out partial closes by hand: their deal is all `fetch_close_info` asks for.
`DailyLossBreaker` leaves out crashes: section 6 says why.

### Decisions inside a tick

| Run | Instance | Checks |
|---|---|---|
| `desk` | two strategies, two symbols, four minutes in days of two, up to three orders, eight scenarios; no calendar at the gate, as `main.py` builds it | `BreachStopsEntries`, `ClusterCapped`, `BlackoutShown`, `StopsProtect` |
| `desk_alerts` (violation) | three strategies whose setups are refused | `RepeatsSurface` |

What they show.  After the guard has written down that a limit of the challenge is reached,
no order goes out on that day (daily limit) or ever (total drawdown), over midnights,
restarts, later reads and writes that fail, and recoveries of the balance; the property
computes the losses from its own history, not from the guard's row.  A breach that was seen
but could not be written stops nothing in its tick (section 6).  However positions were opened, closed and hedged in
between, what is held beside each position never exceeded the correlated heat when it was
let in.  `/calendar/blackout` names a symbol's blackout whenever an event of the list last
fetched is near, although the API upserts and purges the table meanwhile; the bot does not
ask (section 6).  A stop that moves only tightens and, once moved, cannot lose.

Bounds.  Three orders let a third meet a pair of held ones, one with it and one against
it; a day of two minutes lets a midnight fall before and after a breach; balances of 4 with limits
of 25 and 50 per cent make both kills reachable in one or two losses; events at minutes
1 to 3 with windows of one minute reach before, inside and behind each window.

### The copier

| Run | Instance | Checks |
|---|---|---|
| `copier_crash` | one trade, two copies; crashes, lost answers to orders, late history, refusals, lost requests, reconciled and modified trades | `TypeOK`, `KeepsPromise`, `TrackedWhenIdle` |
| `copier_liveness` | two trades, two copies; picks edited, stops trailed, a failing filter; fairness | `CopyFollowsClose`, `StopsConverge`, `FillsSettle` |

What they show.  `KeepsPromise` is the refinement: every behaviour of the EA is one of
`CopyTrading`.  A replayed batch never leads to two copies of a trade at once, because the
slot is taken before the order is sent - unless an order was filled and the EA told that it
had failed: it then frees the slot, and one copy at a time is no longer promised of that
trade (`Denied` of `CopyTrading`, `Astray` of `Copier`; section 6), while all others keep
it.  Two copies in turn are possible anyhow: with OPEN and CLOSE of a trade in one batch,
the close has emptied the slot when the replayed open comes.  No copy has a stop that was
never the master's; a fill is not reported closed before the copy is, and stays closed
although four paths report it.  Between handlers every open copy of a trade without such an
order is reachable from its slot, and no open copy of any trade is reported closed.  When
the request path works, closes and stops reach the copies even if the operator's picks
change.  Two copies are what a replay needs to open a second one, at a time or in turn;
three ticks of the master's clock hold an open, a modification and a close; section 7 proves
all three properties for any number of trades and copies.

### The watchdog

| Run | Instance | Checks |
|---|---|---|
| `watchdog` | default thresholds, one minute of boot, three mishaps | `TypeOK`, `HealthyLeftAlone`, `BotRecovers` |

What it shows.  A bot that went through its loop this minute is not restarted, paused
or not; a bot that hung, failed or ended comes back, and so does its session with the
terminal, although a restart may fail half way, a recycle may drop the session under a
healthy bot, and the watchdog may interrupt a boot, because of the cool-down.  Three
mishaps are enough for a hang, a failing restart and a second hang within one cool-down.

### Accounts, sign-up and dashboard

| Run | Instance | Checks |
|---|---|---|
| `accounts` | one request, two AD-IDs, two handlers, two links; restarts, deletions, the form | `TypeOK`, `PoolUnclaimed`, `ApprovedHasAccount`, `LinkUsedOnce`, `DecidedOnce`, `ActivatedKept` |
| `signup` | one person, two strategies (two picks of the first kind, one of the second), two updates waiting, one handler cut off; fairness | `PicksAsRequired`, `PhoneReachesRequest`, `UpdatesHandled` |
| `console` | two threads, seven scenarios, six units of time; fairness | `NoLockout`, `LoginsLimited`, `LapseAnnounced`, `AccessKept` |

What they show.  However two administrators, a restart and the owner of a link interleave,
an ID that has a user never returns to the pool, a request is decided once and never counts
as approved without its account, and no assignment under way resets an account whose owner
has chosen a password.  Two handlers are enough for a decision that meets another between
its check and its write; one request suffices because a form and a second approval of the
same request contend for the same IDs, and the theorems of section 7 cover any number.
The run switches deadlock checking off: once every request is decided and the links are
spent, nothing needs to happen any more.  An approval may also leave a second, unmarked
account behind when the request is approved twice at once; the code does not clean it up.

`signup`: as long as no handler was cut off, a request has the picks the plan asks for
although Continue looks at its own count only, and the phone although it is kept in memory;
with handlers cut off neither is true, but no update ever blocks those behind it.  One
person suffices: rows are per chat.  A backlog of two lets a button of the last round
arrive behind the one that ended it; section 7 proves both invariants for any backlog.
The phone is promised to people whose taps are handled while their keyboard is the last one
sent: of somebody who starts over while two taps on an earlier Continue still wait, the
first takes the number from memory and the second files a request without it.

`console`: whatever enrolments cross and answers are lost, the operator holds the secret
that is asked for; the limiter's record of a window holds at most the limit of failed logins
and one more for each other thread, counted since a sign-in from the address last worked
(`server.py:663`) and since the last restart, which both empty it: how many failures a
window really had is not bounded; the end of a term is announced unless it was renewed under the notice; no
call takes a working key away but a rotation, or a call that read the row before it
changed.  Two threads meet between any check and its write; three keys and secrets allow
a third to overtake two; six units of time hold two terms with their ends.

### Strategies, backtest and replay

| Run | Instance | Checks |
|---|---|---|
| `lab` | twelve strategies, courses of five bars from seven candles | `StopCapsLoss`, `Pessimistic` |

What it shows.  The lot of `lot_size_from_risk` and the levels of ten strategies keep the
loss of a backtested trade within its budget, whatever ends it (two strategies are left
out, see section 6); and neither the backtest nor a replay shows a target for a trade that
was stopped live, whichever way the market went inside a bar.  Seven candles include bars that touch both levels
and bars that gap over either.  Data ends, so deadlock checking is off.

## 5. Fairness

* `TradingBot`: weak fairness of the bot's steps as a whole (the loop consists of
  bounded sleeps and calls with timeouts, and the task scheduler or the watchdog starts a
  process that ended) and of `DealLands` (a closing deal reaches the history).  Nothing is
  assumed of the operator, the connection, bars or midnight.
* `Copier`: weak fairness of the EA's steps (timer, call timeouts) and of `HistoryLands`.
  Which step is taken is left open: an EA may skip every open.
* `Watchdog`: weak fairness of the bot's loop, of the watchdog's run and of time, and strong
  fairness of a tick that refreshes `broker_status`: every fifth one does, so it is not put
  off for ever.  Mishaps are never fair.
* `SignUp`: weak fairness of `HandleUpdate`: the loop polls for ever.  Nothing is assumed of
  the people; only finitely many handlers are cut off.
* `Console`: weak fairness of the notifier, a loop with a sleep, and strong fairness of
  `MailSent`: the mail server does not refuse for ever.  Requests are never fair.
* `Accounts`, `Desk`, `Lab`: none; they have safety properties only.

## 6. Where code and its words disagree

Checked by a violation run, with the quotation under `findings` in `PROJECT.json`:

* `desk_alerts`: a suppressed repeat renews the window of its key
  (`src/monitoring/telegram_notifier.py:476`), so several strategies together can keep a
  key silent for ever, where the docstring promises one message per window.

Met while modelling.  The models do what the code does; the properties are stated
without these cases, in a premise that names them or by a bound of the instance:

* `trade.Buy` may return false although the broker filled the order (a timeout, a lost
  answer); `HandleOpen` then frees the slot (`mt5/AntiGreedCopier.mq5:434`), and a
  replayed batch opens a second copy, against the comment at lines 410-421 ("a missed trade
  is better than a phantom duplicate").  `OrderLost` of `Copier` is this step.
* A breach that `observe` sees but cannot write (`guard.py:101`) is swallowed by the tick
  (`bot.py:251-254`); `check` reads the old row and approves, against `bot.py:248-249`,
  "kills new entries this same tick".  `Observe` of `Desk` has this branch ("unwritten").
* The calendar does not block anything: `main.py:271-281` builds `RiskManager` without its
  `blackout_checker`, which only a test passes; `.env.example:116-118` says new trades are
  blocked.  The runs have `CalendarWired = FALSE`, so `Desk` trades in a blackout too.
* A restart forgets the day's loss (`RiskState.daily_pnl` starts at 0), against the comment
  at `risk_manager.py:95`.
* A close the bot finds in the history is dated with its deal, which may lie before the
  bookmarks of the EAs (`journal.py:163`, `ea_signals.py:87`): it is never delivered, against
  `mt5/AntiGreedCopier.mq5:20-22`.
* The feed cuts its page before it filters and keeps the bookmark when nothing is left
  (`server.py:1286`): a page full of filtered events is read for ever and a close behind it
  never arrives.  The page of the runs is larger than what is filtered.
* Two approvals may take one AD-ID: the pool is read before the transaction that claims it
  (`users.py:290`, `server.py:1606`), and the second overwrites the person of the first,
  against `users.py:5-6`.  `accounts` has one request.
* A terminal that wedges under a live bot is not recycled, against `deploy/README.md:281`:
  the bot stops beating, and the stale heartbeat is looked at first (`watchdog.py:158`).  The
  recycle happens only when a failing test of credentials stored a broken connection while
  the bot still beats, also one that is paused.  The test's server and login stay in the row
  for good (`bot.py:512`).
* R is measured from the current stop, so after breakeven a stop is never trailed
  (`stops.py:35`), against its docstring.
* With the allocator on and an empty journal every strategy has weight 0 and nothing is ever
  traded, against `bot.py:966-968`: once scored, a strategy without enough trades is `cold`, not unknown.
* The recorder raises on bars with a `DatetimeIndex` that overlap the trade
  (`recorder.py`, `mask.values`) and keeps nothing; the tests use a `time` column.
* `inside_bar_breakout` may place its stop, and `bollinger_bounce` its target, on the wrong
  side of the price; the size is computed from the absolute distance.
* `donchian_breakout` enters when the bar's high or low leaves the channel
  (`breakout.py:58`); its docstring (lines 4-5) says when the close does.
* A rotation of an EA key may be undone by a lazy migration that read the row before
  (`users.py:661-665`); two first requests issue two keys of which one works; and
  `complete_setup` throws the first key away, so the call of `/me/ea-config` that is said to
  generate it (`server.py:1180`) shows none.
* The voice command is logged before the switch is tripped: if the log fails, so does the
  stop (`server.py:2633`).
* After a restart a request may be saved without its phone, or twice (`telegram_signup.py:16-18`).
* "(will retry next tick)" of the daily summary never happens, as a failing send returns
  False and raises nothing; and a restart may send a summary twice.
* Alerts go to everybody who picked a strategy, also after the subscription has lapsed
  (`main.py:331-355`).

## 7. Proofs

`TradingBotProofs` proves, for every set of strategies and symbols, every limit and
bound, under the assumptions `LimitsAssumption` and `BotAssumption`:

| Theorem | Statement | Faults excluded |
|---|---|---|
| `TypeCorrect` | `[]TypeOK` | none |
| `PhantomFree` | `[]NoPhantomExposure` | none |
| `SettledIsGone` | `[]SettledMeansClosed` | partial closes by hand |
| `SingleEntry` | `[]OneEntryPerBar` | a failing dedup store |
| `CountExact` | `[]CountMatchesJournal` | partial closes, a failing journal |
| `ExposureBounded` | `[]MaxOpenRespected` | partial closes, a failing journal |

The argument.  `TypeOK` is not inductive: `BookClose` and `RecordOpen` use the ticket in
hand as a key, so `CurInHand` says at which `pc` there is one.  `Ledger` strengthens
`NoPhantomExposure` by "a row has a position" and "a position just filled has no row
yet": with them a new row is a new one and a clamped decrement goes with at most one row
settled.  `SettledInv` adds that a closing deal, and the ticket in `closed`, belong to a
position that is gone.  `DedupInv` keeps marks behind the market: every position's bar is
marked, no mark is ahead of the bar being scanned, and the signal in hand is marked but
has no position yet; that is why the dedup row must be committed before the order.
`GateInv` has the exact count, an open row behind a close in progress, and a free slot
behind an order on its way, all as long as there is no orphan; `SettledInv` is needed
under it, for a row settled while its position is open would free a slot that is taken.
Each invariant has one step lemma, with one step per action, and the three ledger-like
invariants are proved together.

`AccountsProofs` proves, for any number of requests, IDs, handlers and links, and whatever
events may happen:

| Theorem | Statement |
|---|---|
| `AccountsTyped` | `[]TypeOK` |
| `PoolHoldsUnclaimed` | `[]PoolUnclaimed` |
| `ApprovalHasAccount` | `[]ApprovedHasAccount` |
| `OneUsePerLink` | `[]LinkUsedOnce` |
| `RequestDecidedOnce` | `DecidedOnce` |
| `ActivationKept` | `ActivatedKept` |

`AccountInv` adds to the invariants what a handler holds between its steps: `InHand`, an ID
and a request of a person where the step uses them, and `AccountBehind`, an account behind
every approval past `assign`.  `LinkInv` adds that a link in work is burnt.

### The rest of the bot's promises

| Theorem (`TradingBotProofs`) | Statement | Hypothesis |
|---|---|---|
| `NeverHedged` | `[]NoOppositeSides` | the terminal keeps its session |
| `HeatExact` | `[]HeatMatchesJournal` | `FullSize` |
| `BreakerHolds` | `[]DailyLossBreaker` | `OneDay` |

The hypotheses are what the runs have, no more.  A dropped session lets `open_orders` answer
with an empty list, and the guard against hedging then sees nothing.  `FullSize` and
`OneDay` name the restrictions of section 4: a close by the bot refunds full risk, and a new
process, or a new day, starts with a `RiskState` that knows no loss.  `SidesInv` carries the
verdict of the guard to the order; broker steps in between only close positions.  `HeatInv`
and `DayInv` compare a counter with a sum over the journal, as long as no position escaped
it: a step that opens or settles one row changes the sum by that row (`Sums`).

### Copier

| Theorem (`CopierProofs`) | Statement |
|---|---|
| `CopierTyped` | `[]TypeOK` |
| `CopiesTracked` | `[]TrackedWhenIdle` |
| `PromiseKept` | `KeepsPromise`: `Copier` implements `CopyTrading` |

For any number of trades, strategies and copies, any page size and clock, and all faults,
with what `KeepsPromise` and `TrackedWhenIdle` leave open for trades `Astray`: those of which
an order was filled and denied.
The crux is that an open copy of any other trade (`Owed`) is the only one of its trade and its
slot is taken (`SlotInv`); of the slot of a trade that went astray, nothing is claimed (`Kin`
is empty).  That alone is not inductive: the EA empties slots, so `SettledInv` says of
which copies nothing is to come any more, that a slot may be empty only if there are
none but these, or if the opening of the trade is `Past` the bookmark; `HandInv` and
`TodoInv` say the same of the copy in hand and of those that a pass over the history has
still to visit, `EventInv` relates events in hand to the journal (their stops are ones the
master gave).  The refinement then goes step by step: what the master gives, a filled order, a moved
stop, a close and a report map to steps of `CopyTrading`; what concerns slot, bookmark,
batch and notices, a crash included, to stutters.

### Watchdog, strategies, dashboard, sign-up

| Theorem | Statement |
|---|---|
| `WatchdogTyped` (`SupportProofs`) | `[]TypeOK` |
| `HealthyBotSpared` | `HealthyLeftAlone` |
| `LossCapped` | `[]StopCapsLoss` |
| `ReplayPessimistic` | `[]Pessimistic` |
| `KeyKeepsWorking` (`ConsoleProofs`) | `AccessKept` |
| `GuessesBounded` | `[]LoginsLimited` |
| `NobodyLockedOut` | `[]NoLockout` |
| `PicksComplete` (`SignUpProofs`) | `[]PicksAsRequired` |
| `PhoneKept` | `[]PhoneReachesRequest` |

`HealthyBotSpared` needs only that a bot that went through its loop this minute has a beat of
age zero (`FreshBeat`).  `KeyInv` says that a row holds its key in one form and that a call
which is about to migrate a key carries the one it read.  `LoginInv` counts: the failures
on record in a window and the attempts checked but not recorded together stay below the
limit plus the number of threads.  `FactorInv` follows a secret from the verified code to its activation.

`LossCapped` holds for any bars, courses, readings, equity, risk and symbol.  A booked loss
says nothing of the next trade, so the invariant is about the open one (`Covered`): its
levels are on their sides of the entry, its lots times the distance to the stop fit the
share of the equity it was opened with, which is still the equity, and the last close has
not passed its stop, so that not even the end of the data costs more.  Hence the equity
never falls below zero, which the next share relies on.  Beneath it are lemmas about the
rounding: a quotient is the greatest number that fits (`Floor`), so
`LotSize` never rounds a risk up; and one for each strategy's levels.

`ReplayPessimistic` compares two trades and a path.  While the live trade is open
(`Companion`) it is the backtest's, with a stop that has only moved ahead; no bar since its
entry has touched its target; nothing is recorded.  When a later bar stops it, its path is
the bars after the entry (`RecordedPath`), only the last of which may touch the target, and
that one touches the stop, which the replay looks at first.  From then on `Held` keeps what
was concluded, until the backtest closes the same trade; `Dated` tells that trade from the
next.  `WalkHeld` is about the replay's loop: the least bar of the path that touches either
level is one that touches the stop.

A handler of `SignUp` is a sequence of writes, so its proof comes in layers: what one write
does to the row of a chat, what a sequence comes to, what each handler leaves.  `SignUpInv`
then speaks of rows.  `PicksFollow`: picks of the second round, or its state, come with
complete picks of the first; this is why Continue need not look at the state.
`KeyboardTells`: of a person whose taps meet the last keyboard, that keyboard tells the
state, and from the first picker on the phone is in memory.

### Desk

| Theorem (`DeskProofs`) | Statement |
|---|---|
| `StopsOnlyProtect` | `StopsProtect` |
| `BlackoutTold` | `[]BlackoutShown` |
| `BreachesStop` | `[]BreachStopsEntries` |
| `ClusterHolds` | `[]ClusterCapped` |

`CalendarInv`: what was listed last is in the table unless its time, and the purge margin,
are over; the margin is longer than the window behind an event (`FilterAssumption`).
`RowInv`: the guard's row remembers every breach that was written down, the day's for that day, and measures the day from the balance at its midnight, unless its
anchor slipped.  `ClusterInv`: every held position fits under the limit, with the sum taken
over the positions before it, and between gate and order there is `Room`, which closes,
hedges and reallocations in between do not use up; terms of the sum are not negative
because whatever moves against the entry counts nothing in it.

### Assumptions of the constants

The proofs use the named `ASSUME`s only.  Those a reader may not expect: the limits of the
prop-firm policy are whole amounts (`PolicyAssumption`), as are the entries of a correlation
matrix (`DeskAssumption`; the model counts in units of `CorrUnit`); a plan has at least one
pick of the second kind (`SignUpAssumption`; `PICKS_REQUIRED`); the threads of the
API are finitely many (`AccessAssumption`); bars are whole prices with open and close
between low and high, and a course of them starts with two at least (`LabAssumption`; the
loop of the backtest starts after `lookback` bars).  `Sums` states what the proofs need of
`SumFunctionOnSet`, by induction over finite sets from `WellFoundedInduction`, whose theorem
for sets needs no operator as a parameter.

## 8. Only model-checked, and assumed

With TLC only:

* `RowsSettle`, `HeatDrains`, `KillHalts`, `CopyFollowsClose`, `StopsConverge`,
  `FillsSettle`, `BotRecovers`, `UpdatesHandled`, `LapseAnnounced`: liveness under fairness is
  out of reach of the proof system.
* `RepeatsSurface`, which the code violates.

Assumed throughout:

* Terminal globals and the chart object survive a restart of the EA; it is not moved to
  another terminal.
* The windows of `ScanRecentClosures` and `BackfillRecentFills` are longer than any
  downtime.
* Nobody closes part of a copy; the history has caught up when the EA starts again.
  (A lag that outlives a restart makes `Backfill` put back the slot of a dead copy.)
* An order whose answer is lost is filled before the EA goes on, not later.
* `copier_liveness` has no lost answers to orders: a copy that was denied has no slot
  until the next backfill, and a close of the master that comes before is spent.
* A request to the server is processed or lost, not delayed; one EA per operator.
* The watchdog's store accepts its rows; the bot has beaten once before it hangs.
* Clocks agree; the broker never reuses a ticket.
* An offset of the sign-up bot can be stored (a failing `set_update_offset` ends its task
  silently); a password, a code and a token signature are checks that succeed or fail.

## 9. Not modelled

`PROJECT.json` gives every component its status and reason.  In short: the formulas of the
indicators, of correlations and of the ML filter are inputs; drift, narrator and
explanations compute reports that nothing trades on; the daily summary, digests and texts
are left out of the notifiers; profile edits and read-only routes of the API, the
dashboard's broker settings (which `main.py` keeps from the bot on purpose), the dashboard,
the mobile app, deployment and maintenance scripts are presentation, input and output, or
run by hand.  Panel, symbol mapping and lot scaling of the EA do not touch what is copied
when.
