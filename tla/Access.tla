------------------------------- MODULE Access --------------------------------
(***************************************************************************)
(* How an operator gets in: the login form with its limit per address      *)
(* (src/api/auth.py), and the key of the operator's copier EA              *)
(* (src/api/users.py), from the row of a release that kept it in plain     *)
(* text to the report the EA sends with it (ea_account_reports.py).        *)
(*                                                                         *)
(* Each call runs in a thread of its own and a SELECT is not in the        *)
(* transaction of the UPDATE that follows it: what a call has read is in   *)
(* call[c].seen.  Keys are numbered as they are made.                      *)
(*                                                                         *)
(*   my_ea_config:  idle -> config -> idle                                 *)
(*   ea_caller:     idle -> unhashed -> legacy -> known -> idle            *)
(*   login:         idle -> login -> idle                                  *)
(***************************************************************************)
EXTENDS Integers, FiniteSets

CONSTANTS
  Callers,      \* threads of the pool
  Scenarios,    \* what is going on in one behaviour: sets of AllEvents
  MaxAttempts, Window,   \* LoginRateLimiter
  SessionFor,   \* _DEFAULT_TTL_S
  MaxKey, MaxTime        \* bounds

AllEvents ==
  {"keys",       \* the EA's key is asked for, rotated, pasted and used
   "logins",     \* sign-ins one by one; else whoever asks is signed in
   "factor",     \* the second factor is set up, confirmed, disabled
   "switches",   \* kill switch, start and stop
   "toggles",    \* strategies are switched on and off
   "term",       \* time passes and subscriptions lapse
   "renewals",   \* they are renewed
   "lost",       \* an answer, or a mail, does not arrive
   "locked",     \* a write fails on a locked database
   "restart"}    \* the API is restarted

ASSUME AccessAssumption ==
  /\ Callers # {} /\ IsFiniteSet(Callers)
  /\ Scenarios \subseteq SUBSET AllEvents
  /\ MaxAttempts \in Nat \ {0} /\ Window \in Nat /\ SessionFor \in Nat
  /\ MaxKey \in Nat \ {0} /\ MaxTime \in Nat

None == 0
Time == 0..MaxTime

VARIABLES
  scenario,          \* one of Scenarios
  now,
  expires,           \* auth_users.expires_at
  keyRow,            \* auth_users.ea_api_key and ea_api_key_hash
  minted,            \* keys made so far
  paper,             \* keys the operator has been shown
  ea,                \* the key pasted into the EA
  joined,            \* ea_account_reports.first_seen_at
  hits,              \* LoginRateLimiter._hits of the operator's address: the time
                     \* of each failure, and which of that time it is
  session,           \* end of the operator's token
  call               \* what each thread is at

keys == <<keyRow, minted, paper, ea, joined>>
logins == <<hits, session>>
access == <<keys, logins, call>>

Can(event) == event \in scenario

NoKey == [plain |-> None, hash |-> None]
NotYet == -1
Idle == [at |-> "idle", seen |-> NoKey, key |-> None]

\* No key yet, one of the release before, or one of this release.
AccessInit ==
  /\ scenario \in Scenarios
  /\ now = 0 /\ expires = IF Can("term") THEN 1 ELSE MaxTime
  /\ \/ keyRow = NoKey /\ minted = 0
     \/ Can("keys") /\ minted = 1 /\ keyRow \in {[NoKey EXCEPT !.plain = 1], [NoKey EXCEPT !.hash = 1]}
  /\ paper = 1..minted /\ ea = minted
  /\ joined = NotYet
  /\ hits = {} /\ session = None
  /\ call = [c \in Callers |-> Idle]

Proceeds(c, next) == call' = [call EXCEPT ![c] = next]
Done(c) == Proceeds(c, Idle)

-----------------------------------------------------------------------------
(* Sessions.                                                               *)

Lapsed == expires < now

\* current_user: a token that is not over, of a subscription that is not either.
SignedIn == (Can("logins") => now < session) /\ ~Lapsed

Recent == {failure \in hits : failure.at >= now - Window}

\* Variant: one attempt too many.
WithinLimitAndOne(attempts) == Cardinality(attempts) <= MaxAttempts

WithinLimit(attempts) == Cardinality(attempts) < MaxAttempts

\* login: the attempts that count are looked at before the password is...
LoginChecked(c) ==
  /\ Can("logins") /\ call[c] = Idle
  /\ hits' = Recent
  /\ \/ WithinLimit(Recent) /\ Proceeds(c, [Idle EXCEPT !.at = "login"])
     \/ ~WithinLimit(Recent) /\ UNCHANGED call
  /\ UNCHANGED <<scenario, now, expires, keys, session>>

\* ... and a wrong one is recorded after the slow comparison with the hash.
LoginFails(c) ==
  /\ call[c].at = "login"
  /\ hits' = hits \cup
       {[at |-> now, nth |-> Cardinality({failure \in hits : failure.at = now}) + 1]}
  /\ Done(c)
  /\ UNCHANGED <<scenario, now, expires, keys, session>>

LoginSucceeds(c) ==
  /\ call[c].at = "login"
  /\ hits' = {} /\ session' = now + SessionFor
  /\ Done(c)
  /\ UNCHANGED <<scenario, now, expires, keys>>

-----------------------------------------------------------------------------
(* The key, at the dashboard.                                              *)

\* An answer is read, or lost; that of complete_setup is thrown away.
Shown(k) == paper' \in {paper \cup {k}} \cup (IF Can("lost") THEN {paper} ELSE {})

ConfigReads(c) ==
  /\ Can("keys") /\ SignedIn /\ call[c] = Idle
  /\ Proceeds(c, [Idle EXCEPT !.at = "config", !.seen = keyRow])
  /\ UNCHANGED <<scenario, now, expires, keys, logins>>

\* _migrate_one_ea_key: whatever the row says by now.
Migrated(k) == [plain |-> None, hash |-> k]

Mints ==
  /\ minted < MaxKey
  /\ minted' = minted + 1 /\ keyRow' = Migrated(minted')
  /\ Shown(minted')

\* Variant: a key that can no longer be shown is replaced by one that can.
IssuedAnew(seen) ==
  IF seen.plain # None THEN keyRow' = Migrated(seen.plain) /\ Shown(seen.plain) /\ UNCHANGED minted
  ELSE Mints

\* ensure_ea_api_key: the old key, the hidden one, or the first one.
Issued(seen) ==
  IF seen.plain # None THEN keyRow' = Migrated(seen.plain) /\ Shown(seen.plain) /\ UNCHANGED minted
  ELSE IF seen.hash # None THEN UNCHANGED <<keyRow, minted, paper>>
  ELSE Mints

ConfigAnswers(c) ==
  /\ call[c].at = "config"
  /\ Issued(call[c].seen)
  /\ Done(c)
  /\ UNCHANGED <<scenario, now, expires, ea, joined, logins>>

\* rotate_ea_api_key: a single UPDATE.
Rotates ==
  /\ Can("keys") /\ SignedIn
  /\ Mints
  /\ UNCHANGED <<scenario, now, expires, ea, joined, logins, call>>

Pastes(k) ==
  /\ Can("keys") /\ k \in paper /\ ea' = k
  /\ UNCHANGED <<scenario, now, expires, keyRow, minted, paper, joined, logins, call>>

-----------------------------------------------------------------------------
(* The key, at the EA.                                                     *)

\* get_username_by_ea_key: by the hash...
LooksUpHash(c) ==
  /\ Can("keys") /\ call[c] = Idle /\ ea # None
  /\ Proceeds(c, [at |-> IF keyRow.hash = ea THEN "known" ELSE "unhashed",
                  seen |-> keyRow, key |-> ea])
  /\ UNCHANGED <<scenario, now, expires, keys, logins>>

\* ... then by the plain text; neither is a refusal.
LooksUpPlain(c) ==
  /\ call[c].at = "unhashed"
  /\ IF keyRow.plain = call[c].key
       THEN Proceeds(c, [call[c] EXCEPT !.at = "legacy", !.seen = keyRow])
       ELSE Done(c)
  /\ UNCHANGED <<scenario, now, expires, keys, logins>>

Migrates(c) ==
  /\ call[c].at = "legacy"
  /\ keyRow' = Migrated(call[c].key)
  /\ Proceeds(c, [call[c] EXCEPT !.at = "known"])
  /\ UNCHANGED <<scenario, now, expires, minted, paper, ea, joined, logins>>

\* EAAccountReportStore.upsert keeps the first check-in.
Upserted == IF joined = NotYet THEN now ELSE joined

\* ea_caller turns a lapsed operator away; the others' account is stored.
Reports(c) ==
  /\ call[c].at = "known"
  /\ joined' = IF Lapsed THEN joined ELSE Upserted
  /\ Done(c)
  /\ UNCHANGED <<scenario, now, expires, keyRow, minted, paper, ea, logins>>

-----------------------------------------------------------------------------
\* A write fails on a locked database, and the call with it.
CallFails(c) ==
  /\ Can("locked") /\ call[c].at \in {"config", "legacy", "known"}
  /\ Done(c)
  /\ UNCHANGED <<scenario, now, expires, keys, logins>>

CallStep(c) ==
  \/ LoginChecked(c) \/ LoginFails(c) \/ LoginSucceeds(c)
  \/ ConfigReads(c) \/ ConfigAnswers(c)
  \/ LooksUpHash(c) \/ LooksUpPlain(c) \/ Migrates(c) \/ Reports(c)
  \/ CallFails(c)

AccessNext ==
  \/ \E c \in Callers : CallStep(c)
  \/ Rotates
  \/ \E k \in 1..MaxKey : Pastes(k)

-----------------------------------------------------------------------------
(* Properties.                                                             *)

Working == {keyRow.plain, keyRow.hash} \ {None}

\* Asking for the key never takes it away (users.py:631: that would silently
\* invalidate the operator's installed EA), nor does using it or the move to
\* hashes: a key stops working by a rotation, or under a call that read the row
\* before it last changed.  And the check-in from which an operator sees the
\* history never moves.
AccessKept ==
  [][/\ Working \subseteq Working'
        \/ Rotates
        \/ \E c \in Callers : call'[c] # call[c] /\ call[c].seen # keyRow
     /\ joined # NotYet => joined' = joined]_<<keys, call>>

\* What the limiter keeps of an address in a window never exceeds the limit and
\* one for each other thread: a check and the record that follows it are apart,
\* but no further than that.  These are the failures since a sign-in from there
\* last worked (which forgets them, server.py:663) and since the last restart;
\* of how many there really were in a window it says nothing.
LoginsLimited == Cardinality(Recent) < MaxAttempts + Cardinality(Callers)
=============================================================================
