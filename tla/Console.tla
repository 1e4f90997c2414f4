------------------------------- MODULE Console -------------------------------
(***************************************************************************)
(* The control API behind the dashboard (src/api/server.py) as far as it   *)
(* is not about applicants and copies: past the sign-in and beside the EA's *)
(* key (Access), second factor, kill switch, start and stop, strategy      *)
(* switches, and one operator's subscription with the notice of its end.   *)
(*                                                                         *)
(* Requests run in a thread pool: a step is one transaction on the         *)
(* database, and a SELECT is not in the transaction of the UPDATE that     *)
(* follows it.  The notifier is a background task.                         *)
(*                                                                         *)
(*   free -> (the guard of the second factor) -> act -> free               *)
(*                                                                         *)
(* One account, that of whoever is at the dashboard, has the second        *)
(* factor; secrets are numbered as they are made.                          *)
(***************************************************************************)
EXTENDS Access

CONSTANTS
  Slots,        \* threads of the pool
  Strategies,
  Plans,        \* durations of a renewal
  MaxSecret     \* bound

ASSUME ConsoleAssumption ==
  /\ Slots # {} /\ Strategies # {}
  /\ Plans \subseteq Nat \ {0}
  /\ MaxSecret \in Nat \ {0}

VARIABLES
  req,               \* what each thread is at
  pending, active,   \* user_totp
  made,              \* secrets made so far
  app,               \* what the operator's authenticator holds
  killed,            \* voice_kill_flag
  shouldRun,         \* bot_control
  enabled,           \* strategy_toggles.enabled
  notified,          \* auth_users.expired_notified_at
  job,               \* where the notifier is
  told,              \* whether the present term's end was mailed
  crossed            \* the term was renewed under a notice on its way

factor == <<pending, active, made, app>>
switches == <<killed, shouldRun, enabled>>
term == <<expires, notified, told, crossed>>
console == <<req, factor, switches, notified, told, crossed, job>>
vars == <<scenario, req, factor, switches, now, term, job, access>>

Free == [at |-> "free", secret |-> None, strat |-> None, to |-> FALSE, end |-> 0]

Init ==
  /\ AccessInit
  /\ req = [r \in Slots |-> Free]
  /\ pending = None /\ active = None /\ made = 0 /\ app = {}
  /\ killed = FALSE /\ shouldRun = TRUE /\ enabled = Strategies
  /\ notified = FALSE /\ told = FALSE /\ crossed = FALSE
  /\ job = "asleep"

Goes(r, next) == req' = [req EXCEPT ![r] = next]
Leaves(r) == Goes(r, Free)

-----------------------------------------------------------------------------
(* Second factor.                                                          *)

\* totp_enroll: a new secret is staged; the answer shows it, if it arrives.
Enroll ==
  /\ Can("factor") /\ SignedIn /\ made < MaxSecret
  /\ made' = made + 1 /\ pending' = made'
  /\ app' \in {app \cup {made'}} \cup (IF Can("lost") THEN {app} ELSE {})
  /\ UNCHANGED <<scenario, access, req, active, switches, now, term, job>>

\* totp_confirm reads the pending secret and verifies the code against it.
ConfirmVerified(r) ==
  /\ Can("factor") /\ SignedIn /\ req[r] = Free
  /\ pending # None /\ pending \in app
  /\ Goes(r, [Free EXCEPT !.at = "confirm", !.secret = pending])
  /\ UNCHANGED <<scenario, access, factor, switches, now, term, job>>

\* Variant: whatever is pending becomes active.
ActivatedPending(verified) == pending

\* TOTPStore.activate writes the secret that was verified.
Activated(verified) == verified

ConfirmActivates(r) ==
  /\ req[r].at = "confirm"
  /\ active' = Activated(req[r].secret) /\ pending' = None
  /\ Leaves(r)
  /\ UNCHANGED <<scenario, access, made, app, switches, now, term, job>>

\* totp_disable, in two transactions as well: the row is deleted.
DisableVerified(r) ==
  /\ Can("factor") /\ SignedIn /\ req[r] = Free
  /\ active # None /\ active \in app
  /\ Goes(r, [Free EXCEPT !.at = "disable"])
  /\ UNCHANGED <<scenario, access, factor, switches, now, term, job>>

Disables(r) ==
  /\ req[r].at = "disable"
  /\ pending' = None /\ active' = None
  /\ Leaves(r)
  /\ UNCHANGED <<scenario, access, made, app, switches, now, term, job>>

\* require_2fa: no second factor, or a code of the one that is active.
Admitted == SignedIn /\ (active = None \/ active \in app)

-----------------------------------------------------------------------------
(* Switches.                                                               *)

\* voice_command on a phrase that matches: the log first, in a transaction of its
\* own, then the flag.  It asks for no code.
VoiceLogged(r) ==
  /\ Can("switches") /\ SignedIn /\ req[r] = Free
  /\ Goes(r, [Free EXCEPT !.at = "kill"])
  /\ UNCHANGED <<scenario, access, factor, switches, now, term, job>>

KillActivates(r) ==
  /\ req[r].at = "kill"
  /\ killed' = TRUE
  /\ Leaves(r)
  /\ UNCHANGED <<scenario, access, factor, shouldRun, enabled, now, term, job>>

\* voice_clear, start_bot, stop_bot: past the guard.
Guarded(r, step) ==
  /\ Can("switches") /\ req[r] = Free /\ Admitted
  /\ Goes(r, [Free EXCEPT !.at = step])
  /\ UNCHANGED <<scenario, access, factor, switches, now, term, job>>

Clears(r) ==
  /\ req[r].at = "clear"
  /\ killed' = FALSE
  /\ Leaves(r)
  /\ UNCHANGED <<scenario, access, factor, shouldRun, enabled, now, term, job>>

StartsOrStops(r) ==
  /\ req[r].at \in {"start", "stop"}
  /\ shouldRun' = (req[r].at = "start")
  /\ Leaves(r)
  /\ UNCHANGED <<scenario, access, factor, killed, enabled, now, term, job>>

\* toggle reads the flag, then writes its negation.
ToggleReads(r, s) ==
  /\ Can("toggles") /\ req[r] = Free /\ Admitted
  /\ Goes(r, [Free EXCEPT !.at = "toggle", !.strat = s, !.to = s \notin enabled])
  /\ UNCHANGED <<scenario, access, factor, switches, now, term, job>>

ToggleWrites(r) ==
  /\ req[r].at = "toggle"
  /\ enabled' = IF req[r].to THEN enabled \cup {req[r].strat} ELSE enabled \ {req[r].strat}
  /\ Leaves(r)
  /\ UNCHANGED <<scenario, access, factor, killed, shouldRun, now, term, job>>

-----------------------------------------------------------------------------
(* Subscription.                                                           *)

\* UserStore.extend reads the end of the term; a lapsed one restarts from now.
ExtendReads(r, plan) ==
  /\ Can("renewals") /\ req[r] = Free
  /\ LET anchor == IF Lapsed THEN now ELSE expires IN
     /\ anchor + plan < MaxTime
     /\ Goes(r, [Free EXCEPT !.at = "extend", !.end = anchor + plan])
  /\ UNCHANGED <<scenario, access, factor, switches, now, term, job>>

\* Variant: the mark of the last notice stays.
NotifiedAfterRenewalKept == notified

NotifiedAfterRenewal == FALSE

ExtendWrites(r) ==
  /\ req[r].at = "extend"
  /\ expires' = req[r].end /\ notified' = NotifiedAfterRenewal
  /\ told' = FALSE /\ crossed' = (job # "asleep")
  /\ Leaves(r)
  /\ UNCHANGED <<scenario, access, factor, switches, now, job>>

\* _send_expiry_emails: list, mail, mark.
NotifierScans ==
  /\ Can("term") /\ job = "asleep"
  /\ Lapsed /\ ~notified
  /\ job' = "mail"
  /\ UNCHANGED <<scenario, access, req, factor, switches, now, term>>

MailSent ==
  /\ job = "mail" /\ job' = "mark"
  /\ told' = (told \/ Lapsed)
  /\ UNCHANGED <<scenario, access, req, factor, switches, now, expires, notified, crossed>>

\* The next scan tries again.
MailFails ==
  /\ job = "mail" /\ Can("lost") /\ job' = "asleep"
  /\ UNCHANGED <<scenario, access, req, factor, switches, now, term>>

\* Logged like a failing mail, which will then go out twice.
Marks ==
  /\ job = "mark" /\ job' = "asleep"
  /\ notified' \in {TRUE} \cup (IF Can("locked") THEN {notified} ELSE {})
  /\ UNCHANGED <<scenario, access, req, factor, switches, now, expires, told, crossed>>

-----------------------------------------------------------------------------
(* Everything else.                                                        *)

TimePasses ==
  /\ Can("term") \/ Can("logins")
  /\ now < MaxTime /\ now' = now + 1
  /\ UNCHANGED <<scenario, access, req, factor, switches, term, job>>

\* A transaction fails, and the request with it.
RequestFails(r) ==
  /\ Can("locked") /\ req[r] # Free
  /\ Leaves(r)
  /\ UNCHANGED <<scenario, access, factor, switches, now, term, job>>

\* What was in memory: the requests, the notifier, the limiter.
Restart ==
  /\ Can("restart")
  /\ req' = [r \in Slots |-> Free] /\ job' = "asleep"
  /\ call' = [c \in Callers |-> Idle] /\ hits' = {}
  /\ UNCHANGED <<scenario, factor, switches, now, term, keys, session>>

Notifier == NotifierScans \/ MailSent \/ MailFails \/ Marks

RequestStep(r) ==
  \/ ConfirmVerified(r) \/ ConfirmActivates(r) \/ DisableVerified(r) \/ Disables(r)
  \/ VoiceLogged(r) \/ KillActivates(r) \/ Clears(r) \/ StartsOrStops(r)
  \/ \E step \in {"clear", "start", "stop"} : Guarded(r, step)
  \/ \E s \in Strategies : ToggleReads(r, s)
  \/ ToggleWrites(r)
  \/ \E plan \in Plans : ExtendReads(r, plan)
  \/ ExtendWrites(r) \/ RequestFails(r)

Next ==
  \/ \E r \in Slots : RequestStep(r)
  \/ Enroll \/ Notifier \/ TimePasses \/ Restart
  \/ AccessNext /\ UNCHANGED console

Spec == Init /\ [][Next]_vars

\* The notifier scans every quarter of an hour, and the mail server is not away
\* for ever.
Fairness == WF_vars(Notifier) /\ SF_vars(MailSent)

FairSpec == Spec /\ Fairness

-----------------------------------------------------------------------------
(* Properties.                                                             *)

\* Whatever enrolments run into each other and whatever answers get lost: the
\* operator holds the secret that is asked for (server.py:1894: a botched
\* enrolment does not lock the user out).
NoLockout == active # None => active \in app

\* The end of a term is mailed, also after earlier ends and renewals, unless it
\* was renewed while the last notice was on its way; or it is renewed first.
LapseAnnounced ==
  \A t \in Time : (expires = t /\ Lapsed /\ ~crossed) ~> (told \/ expires # t)

=============================================================================
