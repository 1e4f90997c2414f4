------------------------------- MODULE Watchdog -------------------------------
(***************************************************************************)
(* What keeps the trading process alive: its heartbeat and broker_status   *)
(* rows, the scheduled task that restarts it when it fails, and the        *)
(* watchdog (src/watchdog/, scripts/watchdog.py) that the scheduler runs   *)
(* every minute.                                                           *)
(*                                                                         *)
(* Time passes a minute at a time, and only when everybody has done what   *)
(* is due within it: the watchdog ran once, a running bot went through its *)
(* loop, a failed one was restarted.  Ages stop counting at the threshold  *)
(* they are compared with.                                                 *)
(***************************************************************************)
EXTENDS Integers

CONSTANTS
  StaleAfter,   \* WatchdogConfig.heartbeat_stale_s, in minutes
  RecycleAfter, \* WatchdogConfig.broker_disconnect_s
  CooldownFor,  \* WatchdogConfig.cooldown_s
  BootTime,     \* bound on the minutes the bot takes to connect
  MaxTrouble    \* bound on the mishaps of a behaviour

ASSUME WatchdogAssumption ==
  /\ StaleAfter \in Nat \ {0} /\ RecycleAfter \in Nat \ {0}
  /\ CooldownFor \in Nat /\ BootTime \in Nat /\ MaxTrouble \in Nat

VARIABLES
  useMT5,    \* USE_MT5
  bot,       \* the process
  wait,      \* minutes it has been failed or booting
  beaten,    \* it went through its loop this minute
  watched,   \* the watchdog ran this minute
  terminal,  \* the MT5 terminal: a wedged one answers nothing until killed
  session,   \* the bot's session with it, and the symbols in its Market Watch
  beatAge,   \* age of the heartbeat
  status,    \* broker_status.connected
  statusAge, \* age of broker_status.updated_at
  lastOk,    \* minutes since the last successful action of a kind
  paused, killed, \* bot_control, voice_kill_flag
  trouble    \* mishaps left

rows  == <<beatAge, status, statusAge, lastOk>>
flags == <<paused, killed>>
mt5   == <<terminal, session>>
vars  == <<useMT5, bot, wait, beaten, watched, mt5, rows, flags, trouble>>

Actions == {"restart_bot", "recycle_mt5"}
NoBeat == -1

\* "ended" with exit code 0, "failed" with another one.
Bots == {"booting", "running", "hung", "failed", "ended"}

\* An "evicted" symbol is served again once it is selected.
Sessions == {"up", "evicted", "dropped"}

TypeOK ==
  /\ useMT5 \in BOOLEAN /\ bot \in Bots /\ wait \in 0..(BootTime + 1)
  /\ beaten \in BOOLEAN /\ watched \in BOOLEAN
  /\ terminal \in {"ok", "wedged"} /\ session \in Sessions
  /\ terminal = "wedged" => session = "dropped"
  /\ beatAge \in {NoBeat} \cup 0..StaleAfter
  /\ status \in {"none", "up", "down"} /\ statusAge \in 0..RecycleAfter
  /\ lastOk \in [Actions -> 0..CooldownFor]
  /\ paused \in BOOLEAN /\ killed \in BOOLEAN
  /\ trouble \in 0..MaxTrouble

Init ==
  /\ useMT5 \in BOOLEAN
  /\ bot = "booting" /\ wait = 0 /\ beaten = FALSE /\ watched = FALSE
  /\ terminal = "ok" /\ session = "dropped"
  /\ beatAge = NoBeat /\ status = "none" /\ statusAge = 0
  /\ lastOk = [a \in Actions |-> CooldownFor]
  /\ paused = FALSE /\ killed = FALSE
  /\ trouble = MaxTrouble

Mishap == trouble > 0 /\ trouble' = trouble - 1

-----------------------------------------------------------------------------
(* The bot.                                                                *)

Stored(value) == status' = value /\ statusAge' = 0

\* main(): connected, or (without MT5) not meant to be.
Boot ==
  /\ bot = "booting" /\ (useMT5 => terminal = "ok")
  /\ bot' = "running" /\ beaten' = FALSE /\ wait' = 0
  /\ Stored(IF useMT5 THEN "up" ELSE "down")
  /\ session' = IF useMT5 THEN "evicted" ELSE session
  /\ UNCHANGED <<useMT5, watched, terminal, beatAge, lastOk, flags, trouble>>

\* initialize() fails or runs into its timeout; main() stores that and raises.
BootFails ==
  /\ bot = "booting" /\ useMT5 /\ terminal = "wedged"
  /\ bot' = "failed" /\ wait' = 0
  /\ Stored("down")
  /\ UNCHANGED <<useMT5, beaten, watched, mt5, beatAge, lastOk, flags, trouble>>

\* Variant: a paused loop is silent.
HeartbeatUnlessPaused == beatAge' = IF paused THEN beatAge ELSE 0

\* HeartbeatStore.write.
Heartbeat == beatAge' = 0

\* main._reconnect_mt5: initialize() again; nothing is selected after it.
Reconnected == IF terminal = "ok" THEN "evicted" ELSE "dropped"

\* MT5Executor.account_info, like its other calls: again after a reconnect.
AccountRead(s) == IF s = "dropped" THEN Reconnected ELSE s

Selected(s) == IF s = "evicted" THEN "up" ELSE s

\* MT5DataFeed.latest_bars: again after selecting the symbol, then after a
\* reconnect.  (The few seconds it waits between attempts are within the minute.)
BarsRead(s) == IF Selected(s) = "dropped" THEN Selected(Reconnected) ELSE "up"

\* _maybe_refresh_broker_status, every few ticks.
Refreshes ==
  /\ AccountRead(session) # "dropped"
  /\ Stored("up")

\* A minute of ticks, which come to the refresh or not.
Ticks ==
  /\ useMT5 /\ ~paused
  /\ session' = BarsRead(AccountRead(session))
  /\ Refreshes \/ UNCHANGED <<status, statusAge>>

Skips == (paused \/ ~useMT5) /\ UNCHANGED <<session, status, statusAge>>

\* run_forever: a tick, a tick that raised, or a paused loop; each one beats.
Loop ==
  /\ bot = "running" /\ ~beaten /\ (paused \/ ~killed)
  /\ beaten' = TRUE
  /\ Heartbeat
  /\ Ticks \/ Skips
  /\ UNCHANGED <<useMT5, bot, wait, watched, terminal, lastOk, flags, trouble>>

\* The kill flag ends the loop, and main() with it.
Halt ==
  /\ bot = "running" /\ ~paused /\ killed
  /\ bot' = "ended" /\ beaten' = FALSE
  /\ Heartbeat
  /\ IF useMT5 THEN Stored("down") ELSE UNCHANGED <<status, statusAge>>
  /\ UNCHANGED <<useMT5, wait, watched, mt5, lastOk, flags, trouble>>

\* A call into the terminal never returns.  (Before its first heartbeat ever the
\* watchdog leaves the bot alone, by design.)
Hangs ==
  /\ bot = "running" /\ beatAge # NoBeat
  /\ Mishap
  /\ bot' = "hung"
  /\ UNCHANGED <<useMT5, wait, beaten, watched, mt5, rows, flags>>

\* The process dies.
Dies ==
  /\ bot = "running"
  /\ Mishap
  /\ bot' = "failed" /\ wait' = 0 /\ beaten' = FALSE
  /\ UNCHANGED <<useMT5, watched, mt5, rows, flags>>

\* RestartOnFailure of the scheduled task: a minute later.
Reschedule ==
  /\ bot = "failed" /\ wait > 0
  /\ bot' = "booting" /\ wait' = 0
  /\ UNCHANGED <<useMT5, beaten, watched, mt5, rows, flags, trouble>>

-----------------------------------------------------------------------------
(* Watchdog.run_once.                                                      *)

Decide ==
  IF beatAge = NoBeat THEN "none"
  ELSE IF beatAge >= StaleAfter THEN "restart_bot"
  ELSE IF status = "down" /\ statusAge >= RecycleAfter THEN "recycle_mt5"
  ELSE "none"

\* Variant: every run acts.
InCooldownNever(action) == FALSE

InCooldown(action) == lastOk[action] < CooldownFor

Watch == ~watched /\ watched' = TRUE

Acts(action) == Decide = action /\ ~InCooldown(action)

NoAction ==
  /\ Watch
  /\ ~\E action \in Actions : Acts(action)
  /\ UNCHANGED <<useMT5, bot, wait, beaten, mt5, rows, flags, trouble>>

\* The row of the action is what the cool-down is counted from.
Record(action) == lastOk' = [lastOk EXCEPT ![action] = 0]

\* _restart_bot_service: whatever runs is stopped, and a new one started.
RestartBot ==
  /\ Watch
  /\ Acts("restart_bot")
  /\ bot' = "booting" /\ wait' = 0 /\ beaten' = FALSE
  /\ Record("restart_bot")
  /\ UNCHANGED <<useMT5, mt5, beatAge, status, statusAge, flags, trouble>>

\* PowerShell fails or runs into its timeout: nothing done, only stopped, or
\* both done; no success recorded.
RestartBotFails ==
  /\ Watch
  /\ Acts("restart_bot")
  /\ Mishap
  /\ \/ UNCHANGED <<bot, wait, beaten>>
     \/ bot' \in {"ended", "booting"} /\ wait' = 0 /\ beaten' = FALSE
  /\ UNCHANGED <<useMT5, mt5, rows, flags>>

\* taskkill; the next connect starts a fresh terminal.
RecycleMT5 ==
  /\ Watch
  /\ Acts("recycle_mt5")
  /\ terminal' = "ok" /\ session' = "dropped"
  /\ Record("recycle_mt5")
  /\ UNCHANGED <<useMT5, bot, wait, beaten, beatAge, status, statusAge, flags, trouble>>

-----------------------------------------------------------------------------
(* The environment.                                                        *)

TerminalWedges ==
  /\ terminal = "ok"
  /\ Mishap
  /\ terminal' = "wedged" /\ session' = "dropped"
  /\ UNCHANGED <<useMT5, bot, wait, beaten, watched, rows, flags>>

\* The broker drops the session, or the terminal a symbol.
SessionDrops ==
  /\ session = "up"
  /\ Mishap
  /\ session' \in {"evicted", "dropped"}
  /\ UNCHANGED <<useMT5, bot, wait, beaten, watched, terminal, rows, flags>>

\* Stop and Start, the voice kill and its reset.
Operate ==
  /\ Mishap
  /\ \/ paused' = ~paused /\ UNCHANGED killed
     \/ killed' = ~killed /\ UNCHANGED paused
  /\ UNCHANGED <<useMT5, bot, wait, beaten, watched, mt5, rows>>

\* The administrator tests credentials at the dashboard, in a connection of its
\* own: wrong ones store a broken connection, whatever the bot has.
TestBroker ==
  /\ Mishap
  /\ \/ Stored("down")
     \/ terminal = "ok" /\ Stored("up")
  /\ UNCHANGED <<useMT5, bot, wait, beaten, watched, mt5, beatAge, lastOk, flags>>

\* Variant: ages that keep counting.
OlderForever(age, cap) == age + 1

Older(age, cap) == IF age < cap THEN age + 1 ELSE age

Due ==
  \/ ~watched
  \/ bot = "running" /\ ~beaten
  \/ bot = "failed" /\ wait > 0
  \/ bot = "booting" /\ wait > BootTime

Minute ==
  /\ ~Due
  /\ watched' = FALSE /\ beaten' = FALSE
  /\ wait' = IF bot \in {"failed", "booting"} THEN wait + 1 ELSE wait
  /\ beatAge' = IF beatAge = NoBeat THEN NoBeat ELSE Older(beatAge, StaleAfter)
  /\ statusAge' = Older(statusAge, RecycleAfter)
  /\ lastOk' = [a \in Actions |-> Older(lastOk[a], CooldownFor)]
  /\ UNCHANGED <<useMT5, bot, mt5, status, flags, trouble>>

BotStep == Boot \/ BootFails \/ Loop \/ Halt \/ Reschedule
WatchdogStep == NoAction \/ RestartBot \/ RecycleMT5
Trouble == Hangs \/ Dies \/ RestartBotFails \/ TerminalWedges \/ SessionDrops \/ Operate \/ TestBroker

Next == BotStep \/ WatchdogStep \/ Minute \/ Trouble

Spec == Init /\ [][Next]_vars

\* The scheduler runs the watchdog, the bot's loop sleeps for seconds, time goes
\* on, and every fifth tick refreshes broker_status.
Fairness ==
  /\ WF_vars(BotStep) /\ WF_vars(WatchdogStep) /\ WF_vars(Minute)
  /\ SF_vars(Loop /\ Ticks /\ Refreshes)

FairSpec == Spec /\ Fairness

-----------------------------------------------------------------------------
(* Properties.                                                             *)

\* No run of the watchdog cuts off a bot that went through its loop within the
\* last minute, whatever the tick did: traded, raised, or was skipped.
HealthyLeftAlone ==
  [][bot = "running" /\ beaten /\ watched' /\ ~watched => bot' = bot]_vars

\* However the bot went down, it runs again in the end, as long as the terminal
\* answers and no voice kill is set: neither the restart policy nor the watchdog
\* gives up, and no restart keeps cutting off the boot of the one before.  And the
\* session it trades through is up again, without a restart (main.py:215: the bot
\* used to stall silently): the terminal is not recycled under it for ever.
BotRecovers ==
  <>[](terminal = "ok" /\ ~killed)
    => <>[](bot = "running" /\ (useMT5 /\ ~paused => session = "up"))

=============================================================================
