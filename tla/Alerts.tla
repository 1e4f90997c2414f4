------------------------------- MODULE Alerts -------------------------------
(***************************************************************************)
(* The throttles on the messages about signals: one in the bot, per        *)
(* strategy (src/bot.py), then one in the notifier, per symbol, side and   *)
(* gate (src/monitoring/telegram_notifier.py).  Both mark a message before *)
(* it is sent; whether Telegram takes it changes nothing.                  *)
(***************************************************************************)
EXTENDS Integers

CONSTANTS
  SignalEvery,    \* of _send_signal_alert
  SetupEvery,     \* of _maybe_send_setup_alert
  SetupWindow     \* setup_alert_window

ASSUME AlertAssumption ==
  SignalEvery \in Nat /\ SetupEvery \in Nat /\ SetupWindow \in Nat

Never == -1

Due(last, now, every) == last = Never \/ now - last >= every

\* What _gate_key makes of the gates a setup is refused by.
Gates == {"risk manager", "opposite-side guard", "ml filter"}

\* _ThrottleEntry: the last message, sent or not, and those kept back since one was.
Unheard == [last |-> Never, suppressed |-> 0]

\* TelegramNotifier.setup_alert: whether it sends, and the entry it leaves.
Shows(entry, now) == Due(entry.last, now, SetupWindow)
Throttled(entry, now) ==
  [last |-> now, suppressed |-> IF Shows(entry, now) THEN 0 ELSE entry.suppressed + 1]

=============================================================================
