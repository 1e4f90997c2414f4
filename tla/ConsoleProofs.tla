---------------------------- MODULE ConsoleProofs ----------------------------
(***************************************************************************)
(* Theorems about Console and Access, for every number of threads, keys    *)
(* and secrets, every limit of the login form, and whatever a behaviour    *)
(* has going on at a time.                                                 *)
(***************************************************************************)
EXTENDS Console, FiniteSetTheorems, TLAPS

-----------------------------------------------------------------------------
(* The EA's key.                                                           *)

Key == 0..MaxKey
Row == [plain : Key, hash : Key]
CallSteps == {"idle", "login", "config", "unhashed", "legacy", "known"}
Call == [at : CallSteps, seen : Row, key : Key]

\* A row holds its key in one form at a time, a call that looks a key up has one, and
\* one that is about to migrate it carries the key it has read in plain text.
KeyInv ==
  /\ keyRow \in Row /\ minted \in Key /\ paper \subseteq Key /\ ea \in Key
  /\ call \in [Callers -> Call]
  /\ keyRow.plain = None \/ keyRow.hash = None
  /\ \A c \in Callers :
       /\ call[c].at \in {"unhashed", "legacy"} => call[c].key # None
       /\ call[c].at = "legacy" => call[c].key = call[c].seen.plain

LEMMA IdleTyped == Idle \in Call /\ Idle.at = "idle"
BY AccessAssumption DEF Idle, NoKey, Call, CallSteps, Row, Key, None

\* What any move of a thread leaves behind.
LEMMA CallMoves ==
  ASSUME KeyInv, NEW c \in Callers, NEW next \in Call, Proceeds(c, next)
  PROVE  /\ call' \in [Callers -> Call]
         /\ call'[c] = next
         /\ \A d \in Callers : d # c => call'[d] = call[d]
BY DEF KeyInv, Proceeds

\* A move past or away from the look-up, which leaves a sound row.
LEMMA KeyAfterMove ==
  ASSUME KeyInv, NEW c \in Callers, NEW next \in Call, Proceeds(c, next),
         next.at \notin {"unhashed", "legacy"},
         keyRow' \in Row, minted' \in Key, paper' \subseteq Key, ea' \in Key,
         keyRow'.plain = None \/ keyRow'.hash = None
  PROVE  KeyInv'
BY CallMoves DEF KeyInv

LEMMA KeyInit == Init => KeyInv
<1> SUFFICES ASSUME Init PROVE KeyInv
  OBVIOUS
<1> USE AccessAssumption DEF Init, AccessInit
<1>1. keyRow \in Row /\ minted \in Key /\ (keyRow.plain = None \/ keyRow.hash = None)
  BY DEF NoKey, Row, Key, None
<1>2. paper \subseteq Key /\ ea \in Key
  BY <1>1 DEF Key
<1>3. call \in [Callers -> Call] /\ \A c \in Callers : call[c].at = "idle"
  BY IdleTyped
<1> QED
  BY <1>1, <1>2, <1>3 DEF KeyInv

\* Whoever issues a key leaves a row with its key in one form.
LEMMA MintsTyped ==
  ASSUME KeyInv, Mints
  PROVE  /\ keyRow' \in Row /\ minted' \in Key /\ paper' \subseteq Key
         /\ keyRow'.plain = None
<1>1. minted' \in Key /\ keyRow' = [plain |-> None, hash |-> minted']
  BY AccessAssumption DEF KeyInv, Mints, Migrated, Key
<1>2. paper' \subseteq paper \cup {minted'}
  BY DEF Mints, Shown
<1> QED
  BY <1>1, <1>2, AccessAssumption DEF KeyInv, Row, Key, None

LEMMA IssuedTyped ==
  ASSUME KeyInv, NEW seen \in Row, Issued(seen)
  PROVE  /\ keyRow' \in Row /\ minted' \in Key /\ paper' \subseteq Key
         /\ keyRow'.plain = None \/ keyRow'.hash = None
<1>1. CASE seen.plain # None
  <2>1. keyRow' = [plain |-> None, hash |-> seen.plain] /\ minted' = minted
    BY <1>1 DEF Issued, Migrated
  <2>2. paper' \subseteq paper \cup {seen.plain}
    BY <1>1 DEF Issued, Shown
  <2> QED
    BY <2>1, <2>2, AccessAssumption DEF KeyInv, Row, Key, None
<1>2. CASE seen.plain = None /\ seen.hash # None
  BY <1>2 DEF KeyInv, Issued
<1>3. CASE seen.plain = None /\ seen.hash = None
  BY <1>3, MintsTyped DEF Issued
<1> QED
  BY <1>1, <1>2, <1>3

LEMMA KeyCallStep ==
  ASSUME KeyInv, NEW c \in Callers, CallStep(c)
  PROVE  KeyInv'
<1> DEFINE rest == keyRow' = keyRow /\ minted' = minted /\ paper' = paper /\ ea' = ea
<1>1. call[c] \in Call
  BY DEF KeyInv
<1>2. CASE LoginChecked(c) \/ LoginFails(c) \/ LoginSucceeds(c) \/ ConfigReads(c) \/ CallFails(c)
           \/ Reports(c)
  <2>1. rest
    BY <1>2 DEF LoginChecked, LoginFails, LoginSucceeds, ConfigReads, CallFails, Reports, keys
  <2>2. CASE LoginChecked(c) \/ ConfigReads(c)
    <3> DEFINE checked == [Idle EXCEPT !.at = "login"]
               asked == [Idle EXCEPT !.at = "config", !.seen = keyRow]
    <3>1. checked \in Call /\ checked.at = "login" /\ asked \in Call /\ asked.at = "config"
      BY IdleTyped DEF KeyInv, Call, CallSteps
    <3>2. UNCHANGED call \/ Proceeds(c, checked) \/ Proceeds(c, asked)
      BY <2>2 DEF LoginChecked, ConfigReads
    <3> HIDE DEF checked, asked
    <3>3. CASE Proceeds(c, checked)
      BY <2>1, <3>1, <3>3, KeyAfterMove DEF KeyInv
    <3>4. CASE Proceeds(c, asked)
      BY <2>1, <3>1, <3>4, KeyAfterMove DEF KeyInv
    <3> QED
      BY <2>1, <3>2, <3>3, <3>4 DEF KeyInv
  <2>3. CASE LoginFails(c) \/ LoginSucceeds(c) \/ CallFails(c) \/ Reports(c)
    <3>1. Proceeds(c, Idle)
      BY <2>3 DEF LoginFails, LoginSucceeds, CallFails, Reports, Done
    <3> QED
      BY <2>1, <3>1, IdleTyped, KeyAfterMove DEF KeyInv
  <2> QED
    BY <1>2, <2>2, <2>3
<1>3. CASE ConfigAnswers(c)
  <2>1. ea' = ea /\ Proceeds(c, Idle) /\ Issued(call[c].seen)
    BY <1>3 DEF ConfigAnswers, Done
  <2>2. call[c].seen \in Row
    BY <1>1 DEF Call
  <2> QED
    BY <2>1, <2>2, IssuedTyped, IdleTyped, KeyAfterMove DEF KeyInv
<1>4. CASE LooksUpHash(c)
  <2> DEFINE next == [at |-> IF keyRow.hash = ea THEN "known" ELSE "unhashed",
                      seen |-> keyRow, key |-> ea]
  <2>1. rest /\ Proceeds(c, next)
    BY <1>4 DEF LooksUpHash, keys
  <2>2. next \in Call /\ next.at # "legacy" /\ next.key # None
    BY <1>4 DEF LooksUpHash, KeyInv, Call, CallSteps
  <2> QED
    BY <2>1, <2>2, CallMoves DEF KeyInv
<1>5. CASE LooksUpPlain(c)
  <2> DEFINE next == [call[c] EXCEPT !.at = "legacy", !.seen = keyRow]
  <2>1. rest
    BY <1>5 DEF LooksUpPlain, keys
  <2>2. CASE keyRow.plain = call[c].key
    <3>1. next \in Call /\ next.key = next.seen.plain /\ next.key # None
      BY <1>1, <1>5, <2>2 DEF LooksUpPlain, KeyInv, Call, CallSteps
    <3>2. Proceeds(c, next)
      BY <1>5, <2>2 DEF LooksUpPlain
    <3> HIDE DEF next
    <3> QED
      BY <2>1, <3>1, <3>2, CallMoves DEF KeyInv
  <2>3. CASE keyRow.plain # call[c].key
    <3>1. Proceeds(c, Idle)
      BY <1>5, <2>3 DEF LooksUpPlain, Done
    <3> QED
      BY <2>1, <3>1, IdleTyped, CallMoves DEF KeyInv
  <2> QED
    BY <2>2, <2>3
<1>6. CASE Migrates(c)
  <2> DEFINE next == [call[c] EXCEPT !.at = "known"]
  <2>1. minted' = minted /\ paper' = paper /\ ea' = ea /\ Proceeds(c, next)
    BY <1>6 DEF Migrates
  <2>2. next \in Call /\ next.at = "known"
    BY <1>1 DEF Call, CallSteps
  <2>3. keyRow' \in Row /\ keyRow'.plain = None
    BY <1>1, <1>6, AccessAssumption DEF Migrates, Migrated, Call, Row, Key, None
  <2> HIDE DEF next
  <2> QED
    BY <2>1, <2>2, <2>3, KeyAfterMove DEF KeyInv
<1> QED
  BY <1>2, <1>3, <1>4, <1>5, <1>6 DEF CallStep

LEMMA KeyNext == KeyInv /\ [Next]_vars => KeyInv'
<1> SUFFICES ASSUME KeyInv, [Next]_vars PROVE KeyInv'
  OBVIOUS
<1>1. CASE UNCHANGED <<keys, call>>
  BY <1>1 DEF keys, KeyInv
<1>2. CASE \E c \in Callers : CallStep(c)
  BY <1>2, KeyCallStep
<1>3. CASE Rotates
  BY <1>3, MintsTyped DEF Rotates, KeyInv
<1>4. CASE \E k \in 1..MaxKey : Pastes(k)
  BY <1>4 DEF Pastes, KeyInv, Key
<1>5. CASE Restart
  BY <1>5, IdleTyped DEF Restart, keys, KeyInv
<1>6. CASE \E r \in Slots : RequestStep(r)
  BY <1>1, <1>6 DEF RequestStep, ConfirmVerified, ConfirmActivates, DisableVerified, Disables,
     VoiceLogged, KillActivates, Clears, StartsOrStops, Guarded, ToggleReads, ToggleWrites,
     ExtendReads, ExtendWrites, RequestFails, access
<1>7. CASE Enroll \/ Notifier \/ TimePasses
  BY <1>1, <1>7 DEF Enroll, Notifier, NotifierScans, MailSent, MailFails, Marks, TimePasses, access
<1> QED
  BY <1>1, <1>2, <1>3, <1>4, <1>5, <1>6, <1>7 DEF Next, AccessNext, vars, access

\* The step AccessKept allows.
KeptStep ==
  /\ \/ Working \subseteq Working'
     \/ Rotates
     \/ \E c \in Callers : call'[c] # call[c] /\ call[c].seen # keyRow
  /\ joined # NotYet => joined' = joined

LEMMA KeptCallStep ==
  ASSUME KeyInv, NEW c \in Callers, CallStep(c)
  PROVE  KeptStep
<1>1. joined # NotYet => joined' = joined
  BY DEF CallStep, LoginChecked, LoginFails, LoginSucceeds, ConfigReads, ConfigAnswers, LooksUpHash,
         LooksUpPlain, Migrates, Reports, CallFails, Upserted, keys
<1>2. call[c] \in Call
  BY DEF KeyInv
<1>3. CASE ConfigAnswers(c)
  <2>1. call[c].at = "config" /\ Issued(call[c].seen) /\ Proceeds(c, Idle)
    BY <1>3 DEF ConfigAnswers, Done
  <2>2. call'[c] # call[c]
    BY <2>1, IdleTyped, CallMoves
  <2>3. SUFFICES ASSUME call[c].seen = keyRow PROVE Working \subseteq Working'
    BY <1>1, <2>2 DEF KeptStep
  <2>4. CASE keyRow.plain # None
    BY <2>1, <2>3, <2>4 DEF Issued, Migrated, Working, KeyInv
  <2>5. CASE keyRow.plain = None /\ keyRow.hash # None
    BY <2>1, <2>3, <2>5 DEF Issued, Working
  <2>6. CASE keyRow.plain = None /\ keyRow.hash = None
    BY <2>6 DEF Working
  <2> QED
    BY <2>4, <2>5, <2>6
<1>4. CASE Migrates(c)
  <2>1. keyRow' = Migrated(call[c].key) /\ call[c].at = "legacy"
        /\ Proceeds(c, [call[c] EXCEPT !.at = "known"])
    BY <1>4 DEF Migrates
  <2>2. [call[c] EXCEPT !.at = "known"] \in Call /\ [call[c] EXCEPT !.at = "known"] # call[c]
    BY <1>2, <2>1 DEF Call, CallSteps
  <2>3. call'[c] # call[c]
    BY <2>1, <2>2, CallMoves
  <2>4. SUFFICES ASSUME call[c].seen = keyRow PROVE Working \subseteq Working'
    BY <1>1, <2>3 DEF KeptStep
  <2>5. call[c].key = keyRow.plain /\ keyRow.plain # None
    BY <2>1, <2>4 DEF KeyInv
  <2> QED
    BY <2>1, <2>5 DEF KeyInv, Working, Migrated
<1>5. CASE ~ConfigAnswers(c) /\ ~Migrates(c)
  <2>1. UNCHANGED keyRow
    BY <1>5 DEF CallStep, LoginChecked, LoginFails, LoginSucceeds, ConfigReads, LooksUpHash,
                LooksUpPlain, Reports, CallFails, keys
  <2> QED
    BY <1>1, <2>1 DEF KeptStep, Working
<1> QED
  BY <1>3, <1>4, <1>5

LEMMA KeptNext == KeyInv /\ [Next]_vars => [KeptStep]_<<keys, call>>
<1> SUFFICES ASSUME KeyInv, [Next]_vars PROVE [KeptStep]_<<keys, call>>
  OBVIOUS
<1>1. CASE \E c \in Callers : CallStep(c)
  BY <1>1, KeptCallStep
<1>2. CASE Rotates
  BY <1>2 DEF Rotates, KeptStep
<1>3. CASE \E k \in 1..MaxKey : Pastes(k)
  BY <1>3 DEF Pastes, KeptStep, Working
<1>4. CASE Restart
  BY <1>4 DEF Restart, keys, KeptStep, Working
<1>5. CASE \E r \in Slots : RequestStep(r)
  BY <1>5 DEF RequestStep, ConfirmVerified, ConfirmActivates, DisableVerified, Disables,
     VoiceLogged, KillActivates, Clears, StartsOrStops, Guarded, ToggleReads, ToggleWrites,
     ExtendReads, ExtendWrites, RequestFails, access
<1>6. CASE Enroll \/ Notifier \/ TimePasses
  BY <1>6 DEF Enroll, Notifier, NotifierScans, MailSent, MailFails, Marks, TimePasses, access
<1>7. CASE UNCHANGED vars
  BY <1>7 DEF vars, access
<1> QED
  BY <1>1, <1>2, <1>3, <1>4, <1>5, <1>6, <1>7 DEF Next, AccessNext

\* An EA's key keeps working through every request for it, every use of it and its
\* move from plain text to a hash, however these overlap, unless it is rotated or the
\* call acts on a row read before the last change; and the first check-in stands.
THEOREM KeyKeepsWorking == Spec => AccessKept
<1>1. Spec => []KeyInv
  BY KeyInit, KeyNext, PTL DEF Spec
<1>2. AccessKept <=> [][KeptStep]_<<keys, call>>
  BY PTL DEF AccessKept, KeptStep
<1> QED
  BY <1>1, <1>2, KeptNext, PTL DEF Spec

-----------------------------------------------------------------------------
(* The login form.                                                         *)

\* Attempts past the check whose outcome is not recorded yet.
Pending == {c \in Callers : call[c].at = "login"}

\* An attempt is let in when fewer than MaxAttempts count, and until it is recorded it
\* holds a thread: counted together they stay below the sum of both.
LoginInv ==
  /\ IsFiniteSet(hits) /\ now \in Int
  /\ \A failure \in hits : failure.at \in Int
  /\ Cardinality(Recent) + Cardinality(Pending) < MaxAttempts + Cardinality(Callers)

LEMMA FiniteLogins ==
  /\ IsFiniteSet(Callers) /\ Cardinality(Callers) \in Nat /\ Cardinality(Callers) > 0
  /\ IsFiniteSet(Pending) /\ Cardinality(Pending) \in 0..Cardinality(Callers)
<1>1. IsFiniteSet(Callers) /\ Callers # {}
  BY AccessAssumption
<1>2. Pending \subseteq Callers
  BY DEF Pending
<1> QED
  BY <1>1, <1>2, FS_Subset, FS_CardinalityType, FS_EmptySet

LEMMA FiniteRecent ==
  ASSUME LoginInv
  PROVE  IsFiniteSet(Recent) /\ Cardinality(Recent) \in Nat
<1>1. Recent \subseteq hits
  BY DEF Recent
<1> QED
  BY <1>1, FS_Subset, FS_CardinalityType DEF LoginInv

\* Fewer count and fewer are pending: the bound stands.
LEMMA LoginShrinks ==
  ASSUME LoginInv, Recent' \subseteq Recent, Pending' \subseteq Pending
  PROVE  Cardinality(Recent') + Cardinality(Pending') < MaxAttempts + Cardinality(Callers)
<1>1. Cardinality(Recent') \in Nat /\ Cardinality(Recent') <= Cardinality(Recent)
  BY FiniteRecent, FS_Subset, FS_CardinalityType
<1>2. Cardinality(Pending') \in Nat /\ Cardinality(Pending') <= Cardinality(Pending)
  BY FiniteLogins, FS_Subset, FS_CardinalityType
<1> QED
  BY <1>1, <1>2, FiniteRecent, FiniteLogins, AccessAssumption DEF LoginInv

LEMMA LoginInit == Init => LoginInv
<1> SUFFICES ASSUME Init PROVE LoginInv
  OBVIOUS
<1>1. Recent = {} /\ Pending = {} /\ hits = {} /\ now = 0
  BY DEF Init, AccessInit, Recent, Pending, Idle
<1>2. Cardinality({}) = 0 /\ IsFiniteSet({})
  BY FS_EmptySet
<1> QED
  BY <1>1, <1>2, FiniteLogins, AccessAssumption DEF LoginInv

\* The threads a step moves are the only ones that can begin or end to be pending.
LEMMA PendingOthers ==
  ASSUME KeyInv, NEW c \in Callers, NEW next \in Call, Proceeds(c, next), next.at # "login"
  PROVE  Pending' = Pending \ {c}
BY CallMoves DEF Pending

LEMMA LoginCallStep ==
  ASSUME KeyInv, LoginInv, NEW c \in Callers, CallStep(c)
  PROVE  LoginInv'
<1>1. CASE LoginChecked(c)
  <2>1. hits' = Recent /\ now' = now
    BY <1>1 DEF LoginChecked
  <2>2. Recent' = Recent
    BY <2>1 DEF Recent
  <2>3. IsFiniteSet(hits') /\ now' \in Int /\ \A failure \in hits' : failure.at \in Int
    BY <2>1, FiniteRecent DEF LoginInv, Recent
  <2>4. CASE WithinLimit(Recent)
    <3>1. Pending' \subseteq Callers
      BY DEF Pending
    <3>2. Cardinality(Pending') \in 0..Cardinality(Callers)
      BY <3>1, FiniteLogins, FS_Subset, FS_CardinalityType
    <3> QED
      BY <2>2, <2>3, <2>4, <3>2, FiniteRecent, FiniteLogins, AccessAssumption
         DEF LoginInv, WithinLimit
  <2>5. CASE ~WithinLimit(Recent)
    <3>1. Pending' = Pending
      BY <1>1, <2>5 DEF LoginChecked, Pending
    <3> QED
      BY <2>2, <2>3, <3>1, LoginShrinks DEF LoginInv
  <2> QED
    BY <2>4, <2>5
<1>2. CASE LoginFails(c)
  <2> DEFINE failure == [at |-> now, nth |-> Cardinality({h \in hits : h.at = now}) + 1]
  <2>1. hits' = hits \cup {failure} /\ now' = now /\ c \in Pending
    BY <1>2 DEF LoginFails, Pending
  <2>2. Pending' = Pending \ {c}
    BY <1>2, IdleTyped, PendingOthers DEF LoginFails, Done
  <2>3. failure.at = now
    OBVIOUS
  <2> HIDE DEF failure
  <2>4. Recent' \subseteq Recent \cup {failure}
    BY <2>1 DEF Recent
  <2>5. IsFiniteSet(hits') /\ now' \in Int /\ \A h \in hits' : h.at \in Int
    BY <2>1, <2>3, FS_AddElement DEF LoginInv
  <2>6. /\ IsFiniteSet(Recent \cup {failure})
        /\ Cardinality(Recent \cup {failure}) <= Cardinality(Recent) + 1
    <3>1. /\ IsFiniteSet(Recent \cup {failure})
          /\ Cardinality(Recent \cup {failure})
               = IF failure \in Recent THEN Cardinality(Recent) ELSE Cardinality(Recent) + 1
      BY FiniteRecent, FS_AddElement
    <3> QED
      BY <3>1, FiniteRecent
  <2>7. Cardinality(Recent') <= Cardinality(Recent) + 1 /\ Cardinality(Recent') \in Nat
    BY <2>4, <2>6, FiniteRecent, FS_Subset, FS_CardinalityType
  <2>8. Cardinality(Pending') = Cardinality(Pending) - 1
    BY <2>1, <2>2, FiniteLogins, FS_RemoveElement
  <2> QED
    BY <2>5, <2>7, <2>8, FiniteRecent, FiniteLogins, AccessAssumption DEF LoginInv
<1>3. CASE LoginSucceeds(c)
  <2>1. hits' = {} /\ now' = now
    BY <1>3 DEF LoginSucceeds
  <2>2. Pending' = Pending \ {c}
    BY <1>3, IdleTyped, PendingOthers DEF LoginSucceeds, Done
  <2>3. Recent' = {}
    BY <2>1 DEF Recent
  <2> QED
    BY <2>1, <2>2, <2>3, LoginShrinks, FS_EmptySet DEF LoginInv
<1>4. CASE ~LoginChecked(c) /\ ~LoginFails(c) /\ ~LoginSucceeds(c)
  <2>1. hits' = hits /\ now' = now
    BY <1>4 DEF CallStep, ConfigReads, ConfigAnswers, LooksUpHash, LooksUpPlain, Migrates, Reports,
                CallFails, logins
  <2>2. Pending' \subseteq Pending
    <3>1. call[c] \in Call
      BY DEF KeyInv
    <3> DEFINE asked == [Idle EXCEPT !.at = "config", !.seen = keyRow]
               looked == [at |-> IF keyRow.hash = ea THEN "known" ELSE "unhashed",
                          seen |-> keyRow, key |-> ea]
               legacy == [call[c] EXCEPT !.at = "legacy", !.seen = keyRow]
               known == [call[c] EXCEPT !.at = "known"]
    <3>2. asked.at # "login" /\ looked.at # "login" /\ legacy.at # "login" /\ known.at # "login"
      BY <3>1, IdleTyped DEF Call
    <3>3. \/ Proceeds(c, asked) \/ Proceeds(c, looked) \/ Proceeds(c, legacy)
          \/ Proceeds(c, known) \/ Proceeds(c, Idle)
      BY <1>4 DEF CallStep, ConfigReads, ConfigAnswers, LooksUpHash, LooksUpPlain, Migrates, Reports,
                  CallFails, Done
    <3> HIDE DEF asked, looked, legacy, known
    <3>4. call'[c].at # "login" /\ \A d \in Callers : d # c => call'[d] = call[d]
      BY <3>2, <3>3, IdleTyped DEF Proceeds, KeyInv
    <3> QED
      BY <3>4 DEF Pending
  <2>3. Recent' = Recent
    BY <2>1 DEF Recent
  <2> QED
    BY <2>1, <2>2, <2>3, LoginShrinks DEF LoginInv
<1> QED
  BY <1>1, <1>2, <1>3, <1>4

LEMMA LoginNext == KeyInv /\ LoginInv /\ [Next]_vars => LoginInv'
<1> SUFFICES ASSUME KeyInv, LoginInv, [Next]_vars PROVE LoginInv'
  OBVIOUS
<1>1. CASE \E c \in Callers : CallStep(c)
  BY <1>1, LoginCallStep
<1>2. CASE TimePasses
  <2>1. hits' = hits /\ now' = now + 1 /\ call' = call
    BY <1>2 DEF TimePasses, access, logins
  <2>2. Recent' \subseteq Recent
    BY <2>1, AccessAssumption DEF LoginInv, Recent
  <2>3. Pending' = Pending
    BY <2>1 DEF Pending
  <2> QED
    BY <2>1, <2>2, <2>3, LoginShrinks DEF LoginInv
<1>3. CASE Restart
  <2>1. hits' = {} /\ now' = now /\ Recent' = {} /\ Pending' = {}
    BY <1>3 DEF Restart, Recent, Pending, Idle
  <2> QED
    BY <2>1, LoginShrinks, FS_EmptySet DEF LoginInv
<1>4. CASE UNCHANGED <<hits, now, call>>
  BY <1>4 DEF LoginInv, Recent, Pending
<1>5. CASE Rotates \/ \E k \in 1..MaxKey : Pastes(k)
  BY <1>4, <1>5 DEF Rotates, Pastes, logins
<1>6. CASE \E r \in Slots : RequestStep(r)
  BY <1>4, <1>6 DEF RequestStep, ConfirmVerified, ConfirmActivates, DisableVerified, Disables,
     VoiceLogged, KillActivates, Clears, StartsOrStops, Guarded, ToggleReads, ToggleWrites,
     ExtendReads, ExtendWrites, RequestFails, access, logins
<1>7. CASE Enroll \/ Notifier
  BY <1>4, <1>7 DEF Enroll, Notifier, NotifierScans, MailSent, MailFails, Marks, access, logins
<1>8. CASE UNCHANGED vars
  BY <1>4, <1>8 DEF vars, access, logins
<1> QED
  BY <1>1, <1>2, <1>3, <1>5, <1>6, <1>7, <1>8 DEF Next, AccessNext

\* However many sign-ins are checked before the first failure is recorded: the limiter
\* never holds more wrong passwords of a window than the limit and one for every other
\* thread.  What it held is forgotten when a sign-in works and when the API restarts.
THEOREM GuessesBounded == Spec => []LoginsLimited
<1>1. Spec => [](KeyInv /\ LoginInv)
  BY KeyInit, KeyNext, LoginInit, LoginNext, PTL DEF Spec
<1>2. KeyInv /\ LoginInv => LoginsLimited
  BY FiniteRecent, FiniteLogins, AccessAssumption DEF LoginInv, LoginsLimited
<1> QED
  BY <1>1, <1>2, PTL

-----------------------------------------------------------------------------
(* The second factor.                                                      *)

\* A code was verified against a secret the operator holds, and what is activated
\* later is that secret, whatever has been staged by then.
FactorInv ==
  /\ DOMAIN req = Slots /\ req = [r \in Slots |-> req[r]]
  /\ NoLockout
  /\ \A r \in Slots : req[r].at = "confirm" => req[r].secret \in app

LEMMA RequestMoves ==
  ASSUME FactorInv, NEW r \in Slots, NEW next, Goes(r, next)
  PROVE  /\ DOMAIN req' = Slots /\ req' = [q \in Slots |-> req'[q]]
         /\ req'[r] = next
         /\ \A q \in Slots : q # r => req'[q] = req[q]
BY DEF FactorInv, Goes

\* Where a request is after it moves, if it moves to no confirmation.
LEMMA FactorAfterMove ==
  ASSUME FactorInv, NEW r \in Slots, NEW next, Goes(r, next), next.at # "confirm",
         app' = app, active' = active
  PROVE  FactorInv'
BY RequestMoves DEF FactorInv, NoLockout

LEMMA FactorRequestStep ==
  ASSUME FactorInv, NEW r \in Slots, RequestStep(r)
  PROVE  FactorInv'
<1>1. CASE ConfirmVerified(r)
  <2> DEFINE next == [Free EXCEPT !.at = "confirm", !.secret = pending]
  <2>1. Goes(r, next) /\ pending \in app /\ active' = active /\ app' = app
    BY <1>1 DEF ConfirmVerified, factor
  <2>2. next.secret = pending
    BY DEF Free
  <2> HIDE DEF next
  <2> QED
    BY <2>1, <2>2, RequestMoves DEF FactorInv, NoLockout
<1>2. CASE ConfirmActivates(r)
  <2>1. active' = req[r].secret /\ req[r].at = "confirm" /\ app' = app /\ Goes(r, Free)
    BY <1>2 DEF ConfirmActivates, Activated, Leaves
  <2> QED
    BY <2>1, RequestMoves DEF FactorInv, NoLockout, Free
<1>3. CASE Disables(r)
  <2>1. active' = None /\ app' = app /\ Goes(r, Free)
    BY <1>3 DEF Disables, Leaves
  <2> QED
    BY <2>1, RequestMoves DEF FactorInv, NoLockout, Free
<1>4. CASE ~ConfirmVerified(r) /\ ~ConfirmActivates(r) /\ ~Disables(r)
  <2>1. active' = active /\ app' = app
    BY <1>4 DEF RequestStep, DisableVerified, VoiceLogged, KillActivates, Clears, StartsOrStops,
       Guarded, ToggleReads, ToggleWrites, ExtendReads, ExtendWrites, RequestFails, factor
  <2>2. CASE KillActivates(r) \/ Clears(r) \/ StartsOrStops(r) \/ ToggleWrites(r)
             \/ ExtendWrites(r) \/ RequestFails(r)
    <3>1. Goes(r, Free)
      BY <2>2 DEF KillActivates, Clears, StartsOrStops, ToggleWrites, ExtendWrites, RequestFails,
                  Leaves
    <3> QED
      BY <2>1, <3>1, FactorAfterMove DEF Free
  <2>3. CASE DisableVerified(r) \/ VoiceLogged(r) \/ \E step \in {"clear", "start", "stop"} : Guarded(r, step)
    <3>1. PICK step \in {"disable", "kill", "clear", "start", "stop"} : Goes(r, [Free EXCEPT !.at = step])
      BY <2>3 DEF DisableVerified, VoiceLogged, Guarded
    <3>2. [Free EXCEPT !.at = step].at # "confirm"
      BY <3>1 DEF Free
    <3> QED
      BY <2>1, <3>1, <3>2, FactorAfterMove
  <2>4. CASE \E s \in Strategies : ToggleReads(r, s)
    <3>1. PICK s \in Strategies :
            Goes(r, [Free EXCEPT !.at = "toggle", !.strat = s, !.to = s \notin enabled])
      BY <2>4 DEF ToggleReads
    <3>2. [Free EXCEPT !.at = "toggle", !.strat = s, !.to = s \notin enabled].at # "confirm"
      BY DEF Free
    <3> QED
      BY <2>1, <3>1, <3>2, FactorAfterMove
  <2>5. CASE \E plan \in Plans : ExtendReads(r, plan)
    <3>1. PICK end : Goes(r, [Free EXCEPT !.at = "extend", !.end = end])
      BY <2>5 DEF ExtendReads
    <3>2. [Free EXCEPT !.at = "extend", !.end = end].at # "confirm"
      BY DEF Free
    <3> QED
      BY <2>1, <3>1, <3>2, FactorAfterMove
  <2> QED
    BY <1>4, <2>2, <2>3, <2>4, <2>5 DEF RequestStep
<1> QED
  BY <1>1, <1>2, <1>3, <1>4

LEMMA FactorNext == FactorInv /\ [Next]_vars => FactorInv'
<1> SUFFICES ASSUME FactorInv, [Next]_vars PROVE FactorInv'
  OBVIOUS
<1>1. CASE \E r \in Slots : RequestStep(r)
  BY <1>1, FactorRequestStep
<1>2. CASE Enroll
  <2>1. app \subseteq app' /\ req' = req /\ active' = active
    BY <1>2 DEF Enroll
  <2> QED
    BY <2>1 DEF FactorInv, NoLockout
<1>3. CASE Restart
  BY <1>3 DEF Restart, factor, FactorInv, NoLockout, Free
<1>4. CASE UNCHANGED <<req, factor>>
  BY <1>4 DEF factor, FactorInv, NoLockout
<1>5. CASE Notifier \/ TimePasses \/ UNCHANGED console
  BY <1>4, <1>5 DEF Notifier, NotifierScans, MailSent, MailFails, Marks, TimePasses, console
<1>6. CASE UNCHANGED vars
  BY <1>4, <1>6 DEF vars
<1> QED
  BY <1>1, <1>2, <1>3, <1>5, <1>6 DEF Next

\* The secret that is asked for is one the operator's authenticator has, whatever
\* enrolments overlap and whichever answers are lost.
THEOREM NobodyLockedOut == Spec => []NoLockout
<1>1. Init => FactorInv
  BY DEF Init, FactorInv, NoLockout, Free
<1>2. FactorInv => NoLockout
  BY DEF FactorInv
<1> QED
  BY <1>1, <1>2, FactorNext, PTL DEF Spec

=============================================================================
