------------------------------- MODULE Accounts -------------------------------
(***************************************************************************)
(* Operator accounts: requests of the signup bot, the pool of AD-IDs, the  *)
(* users table and the setup links (src/api/subscription_requests.py,      *)
(* src/api/users.py and the admin and setup routes of src/api/server.py).  *)
(*                                                                         *)
(* The routes are plain functions that FastAPI runs on a pool of threads;  *)
(* every call of a store is a transaction of its own.  A handler is thus a *)
(* small process:                                                          *)
(*                                                                         *)
(*   pick -> claim -> assign -> chat -> picks -> mark -> deliver   approve *)
(*           claim -> assign ----------------------------> deliver   form  *)
(*   reject                                                        reject  *)
(*   deliver                                                       resend  *)
(*   check -> set                                    link opened by person *)
(*                                                                         *)
(* A step is one transaction and what the handler decides on its result.   *)
(***************************************************************************)
EXTENDS Integers, FiniteSets

CONSTANTS
  Requests,  \* signup requests, each of a person of its own
  AdIds,     \* the AD-IDs new_ad_id() may come up with
  PoolSize,  \* what refill_pool tops the pool up to
  Handlers,  \* requests the server works on at a time
  Links,     \* bound on the setup links that reach somebody
  Events     \* which of AllEvents may happen

AllEvents ==
  {"crash",   \* the API restarts
   "delete",  \* the admin deletes a user
   "form"}    \* the admin assigns an AD-ID without a request

ASSUME AccountsAssumption ==
  /\ Requests # {} /\ AdIds # {} /\ Links # {}
  /\ PoolSize \in Nat
  /\ Events \subseteq AllEvents

Can(event) == event \in Events

VARIABLES
  requests,  \* subscription_requests
  pool,      \* ad_id_pool
  users,     \* auth_users and user_strategy_picks
  links,     \* setup tokens that reached somebody; used_setup_tokens
  call       \* the handlers

stores == <<requests, pool, users, links>>
vars   == <<requests, pool, users, links, call>>

\* Whose e-mail address, chat and picks an account has.
Form == "form"
Nobody == "nobody"
NoId == "noId"
NoLink == "noLink"
Contact == Requests \cup {Form}

Request == [st: {"none", "pending", "approved", "rejected"}, adId: AdIds \cup {NoId}]

\* "deleted" rows are gone; the state remembers that they were there.
User ==
  [st: {"none", "pending", "active", "deleted"}, email: Contact \cup {Nobody},
   chat: Requests \cup {Nobody}, picks: Requests \cup {Nobody}]

Link == [st: {"none", "sent", "burnt"}, adId: AdIds \cup {NoId}]

Steps == {"idle", "pick", "claim", "assign", "chat", "picks", "mark", "deliver",
          "reject", "check", "set"}

Call ==
  [at: Steps, req: Contact, adId: AdIds \cup {NoId}, link: Links \cup {NoLink}]

TypeOK ==
  /\ requests \in [Requests -> Request]
  /\ pool \subseteq AdIds
  /\ users \in [AdIds -> User]
  /\ links \in [Links -> Link]
  /\ call \in [Handlers -> Call]

Handling(step, r, a, l) == [at |-> step, req |-> r, adId |-> a, link |-> l]
Idle == Handling("idle", Form, NoId, NoLink)
Row(st, contact, picks) == [st |-> st, email |-> contact, chat |-> Nobody, picks |-> picks]
NoUser == Row("none", Nobody, Nobody)

Exists(a) == users[a].st \in {"pending", "active"}

Init ==
  /\ requests = [r \in Requests |-> [st |-> "none", adId |-> NoId]]
  /\ pool = {}
  /\ users = [a \in AdIds |-> NoUser]
  /\ links = [l \in Links |-> [st |-> "none", adId |-> NoId]]
  /\ call = [h \in Handlers |-> Idle]

At(h, step) == call[h].at = step
Goes(h, step) ==
  call' = [call EXCEPT ![h] =
             [call[h] EXCEPT !.at = step, !.req = IF step = "deliver" THEN Form ELSE call[h].req]]
Returns(h) == call' = [call EXCEPT ![h] = Idle]
Enters(h, new) == At(h, "idle") /\ call' = [call EXCEPT ![h] = new]

-----------------------------------------------------------------------------
(* Requests and the pool.                                                  *)

\* create_request, called by the signup bot.
Arrives(r) ==
  /\ requests[r].st = "none"
  /\ requests' = [requests EXCEPT ![r] = [requests[r] EXCEPT !.st = "pending"]]
  /\ UNCHANGED <<pool, users, links, call>>

\* refill_pool: an ID that is in the pool or has a user is drawn again.  A random
\* ID that was ever used before does not come up a second time.
RefillPool ==
  \E S \in SUBSET {a \in AdIds \ pool : users[a].st = "none"} :
    /\ S # {} /\ Cardinality(S) = PoolSize - Cardinality(pool)
    /\ pool' = pool \cup S
    /\ UNCHANGED <<requests, users, links, call>>

-----------------------------------------------------------------------------
(* approve_subscription_request and assign_user.                           *)

\* The order of the approval.  Variant: the request is marked first.
StepAfterMarkFirst ==
  [pick |-> "mark", mark |-> "claim", claim |-> "assign", assign |-> "chat",
   chat |-> "picks", picks |-> "deliver"]

StepAfter ==
  [pick |-> "claim", claim |-> "assign", assign |-> "chat", chat |-> "picks",
   picks |-> "mark", mark |-> "deliver"]

\* The request is read, and is pending.
OpenRequest(h, r, step) ==
  /\ requests[r].st = "pending"
  /\ Enters(h, Handling(step, r, NoId, NoLink))
  /\ UNCHANGED stores

\* The ID the admin asked for, which assign will look up in the pool, or the head of
\* the pool; an empty pool or a bad duration end the request.
Pick(h) ==
  /\ At(h, "pick")
  /\ \/ Returns(h)
     \/ \E a \in AdIds :
          call' = [call EXCEPT ![h] = [call[h] EXCEPT !.at = StepAfter.pick, !.adId = a]]
  /\ UNCHANGED stores

\* The same without a request.
OpenForm(h, a) ==
  /\ Can("form")
  /\ Enters(h, Handling("claim", Form, a, NoLink))
  /\ UNCHANGED stores

\* UserStore.assign up to its DELETE: the SELECT on the pool comes before the
\* connection holds the write lock.
Claim(h) ==
  /\ At(h, "claim")
  /\ IF call[h].adId \in pool THEN Goes(h, StepAfter.claim) ELSE Returns(h)
  /\ UNCHANGED stores

Assigned(a, contact) ==
  [users EXCEPT ![a] =
     IF users[a].st = "pending"
     THEN [users[a] EXCEPT !.email = contact]
     ELSE Row("pending", contact, users[a].picks)]

\* Variant: the ID stays in the pool.
TakenNot(a) == pool

Taken(a) == pool \ {a}

\* Variant: the password is not looked at.
AssignableAlways(a) == TRUE

Assignable(a) == users[a].st # "active"

\* The rest of UserStore.assign, one transaction; a row with a password rolls it
\* back.
Assign(h) ==
  /\ At(h, "assign")
  /\ IF Assignable(call[h].adId)
     THEN /\ pool' = Taken(call[h].adId)
          /\ users' = Assigned(call[h].adId, call[h].req)
          /\ Goes(h, IF call[h].req = Form THEN "deliver" ELSE StepAfter.assign)
     ELSE Returns(h) /\ UNCHANGED <<pool, users>>
  /\ UNCHANGED <<requests, links>>

\* set_telegram_chat_id: an UPDATE, without effect when there is no row; an error is
\* swallowed.
SetChat(h) ==
  /\ At(h, "chat")
  /\ LET a == call[h].adId IN
     \/ Exists(a) /\ users' = [users EXCEPT ![a] = [users[a] EXCEPT !.chat = call[h].req]]
     \/ UNCHANGED users
  /\ Goes(h, StepAfter.chat)
  /\ UNCHANGED <<requests, pool, links>>

\* set_user_picks: a table of its own, whose error is swallowed too.
SetPicks(h) ==
  /\ At(h, "picks")
  /\ \/ users' = [users EXCEPT ![call[h].adId] = [users[call[h].adId] EXCEPT !.picks = call[h].req]]
     \/ UNCHANGED users
  /\ Goes(h, StepAfter.picks)
  /\ UNCHANGED <<requests, pool, links>>

\* Variant: UPDATE ... WHERE id = ?
DecideAgain(r, st, a) == requests' = [requests EXCEPT ![r] = [st |-> st, adId |-> a]]

\* UPDATE ... WHERE id = ? AND status = 'pending'
Decide(r, st, a) ==
  IF requests[r].st = "pending"
  THEN requests' = [requests EXCEPT ![r] = [st |-> st, adId |-> a]]
  ELSE UNCHANGED requests

MarkApproved(h) ==
  /\ At(h, "mark")
  /\ Decide(call[h].req, "approved", call[h].adId)
  /\ Goes(h, StepAfter.mark)
  /\ UNCHANGED <<pool, users, links>>

\* The link is minted and sent, or not: the answer is 502, and nothing is undone.
Deliver(h) ==
  /\ At(h, "deliver")
  /\ \/ UNCHANGED links
     \/ \E l \in Links :
          /\ links[l].st = "none"
          /\ links' = [links EXCEPT ![l] = [st |-> "sent", adId |-> call[h].adId]]
  /\ Returns(h)
  /\ UNCHANGED <<requests, pool, users>>

-----------------------------------------------------------------------------
(* The other routes of the admin.                                          *)

\* Variant: a status the readers of the table do not know.
MarkDeclined(h) ==
  /\ At(h, "reject")
  /\ Decide(call[h].req, "declined", NoId)
  /\ Returns(h)
  /\ UNCHANGED <<pool, users, links>>

MarkRejected(h) ==
  /\ At(h, "reject")
  /\ Decide(call[h].req, "rejected", NoId)
  /\ Returns(h)
  /\ UNCHANGED <<pool, users, links>>

\* resend_setup_link, for a user without a password.
Resend(h, a) ==
  /\ users[a].st = "pending"
  /\ Enters(h, Handling("deliver", Form, a, NoLink))
  /\ UNCHANGED stores

\* delete_user: the picks table is not touched.
DeleteUser(a) ==
  /\ Can("delete") /\ Exists(a)
  /\ users' = [users EXCEPT ![a] = Row("deleted", Nobody, users[a].picks)]
  /\ UNCHANGED <<requests, pool, links, call>>

\* set_password: no effect without a row.
SetHash(a) ==
  users' = IF Exists(a) THEN [users EXCEPT ![a] = [users[a] EXCEPT !.st = "active"]] ELSE users

ResetPassword(a) ==
  /\ Exists(a)
  /\ SetHash(a)
  /\ UNCHANGED <<requests, pool, links, call>>

-----------------------------------------------------------------------------
(* complete_setup.                                                         *)

\* Variant: a burnt token is not turned away.
LinkValidAlways(l) == links[l].st # "none"

LinkValid(l) == links[l].st = "sent"

\* mark_token_used: the INSERT is the check.
OpenLink(h, l) ==
  /\ LinkValid(l)
  /\ links' = [links EXCEPT ![l] = [links[l] EXCEPT !.st = "burnt"]]
  /\ Enters(h, Handling("check", Form, links[l].adId, l))
  /\ UNCHANGED <<requests, pool, users>>

CheckHash(h) ==
  /\ At(h, "check")
  /\ IF users[call[h].adId].st = "active" THEN Returns(h) ELSE Goes(h, "set")
  /\ UNCHANGED stores

\* hash_password may refuse the password.  The EA key that is issued afterwards, if it
\* can be, is left out.
SetPassword(h) ==
  /\ At(h, "set")
  /\ SetHash(call[h].adId) \/ UNCHANGED users
  /\ Returns(h)
  /\ UNCHANGED <<requests, pool, links>>

-----------------------------------------------------------------------------

\* The API restarts: what its threads were doing is lost, what they wrote is not.
Crash ==
  /\ Can("crash")
  /\ call' = [h \in Handlers |-> Idle]
  /\ UNCHANGED stores

Approval(h) ==
  \/ \E r \in Requests : OpenRequest(h, r, "pick") \/ OpenRequest(h, r, "reject")
  \/ Pick(h) \/ Claim(h) \/ Assign(h) \/ SetChat(h) \/ SetPicks(h)
  \/ MarkApproved(h) \/ MarkRejected(h) \/ Deliver(h)

Setup(h) ==
  \/ \E l \in Links : OpenLink(h, l)
  \/ CheckHash(h) \/ SetPassword(h)

Admin ==
  \/ \E a \in AdIds : DeleteUser(a) \/ ResetPassword(a)
  \/ \E h \in Handlers, a \in AdIds : OpenForm(h, a) \/ Resend(h, a)

Next ==
  \/ \E r \in Requests : Arrives(r)
  \/ RefillPool
  \/ \E h \in Handlers : Approval(h) \/ Setup(h)
  \/ Admin
  \/ Crash

Spec == Init /\ [][Next]_vars

-----------------------------------------------------------------------------
(* Properties.                                                             *)

\* An ID in the pool has no user, now or before: a claim cannot hand somebody
\* else's account over.
PoolUnclaimed == \A a \in pool : users[a].st = "none"

\* However many admins approve and reject one request at a time, it is decided
\* once, and the ID it was given stays.
DecidedOnce ==
  [][\A r \in Requests :
       requests[r].st \in {"approved", "rejected"} => requests'[r] = requests[r]]_requests

\* Once somebody chose a password no assignment that was under way resets the
\* account or gives it to another address, unless the admin deletes it.
ActivatedKept ==
  [][\A a \in AdIds :
       users[a].st = "active" /\ users'[a].st # "deleted"
         => users'[a].st = "active" /\ users'[a].email = users[a].email]_users

\* A request that counts as approved had its account made: no failure and no restart on
\* the way leaves an approval without one.
ApprovedHasAccount ==
  \A r \in Requests :
    requests[r].st = "approved" =>
      requests[r].adId \in AdIds /\ users[requests[r].adId].st # "none"

\* Two clicks on one setup link: only one of them goes on.
LinkUsedOnce ==
  \A g, h \in Handlers :
    At(g, "set") /\ At(h, "set") /\ call[g].link = call[h].link => g = h

=============================================================================
