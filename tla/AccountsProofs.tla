---------------------------- MODULE AccountsProofs ----------------------------
(***************************************************************************)
(* Theorems about Accounts, for every set of requests, AD-IDs, handlers    *)
(* and links, and whatever events may happen.                              *)
(***************************************************************************)
EXTENDS Accounts, TLAPS

-----------------------------------------------------------------------------
(* The invariant.                                                          *)

\* Steps at which the handler has an ID in hand, and those at which the request in
\* hand is a person's.
WithId == {"claim", "assign", "chat", "picks", "mark", "deliver", "check", "set"}
WithRequest == {"pick", "chat", "picks", "mark", "reject"}

\* What TypeOK lacks to be inductive.
InHand ==
  /\ \A h \in Handlers :
       /\ call[h].at \in WithId => call[h].adId \in AdIds
       /\ call[h].at \in WithRequest => call[h].req \in Requests
  /\ \A l \in Links : links[l].st # "none" => links[l].adId \in AdIds

\* A handler that is past assign has made the account it goes on to mark.
AccountBehind ==
  \A h \in Handlers :
    call[h].at \in {"chat", "picks", "mark"} => users[call[h].adId].st # "none"

AccountInv ==
  /\ TypeOK
  /\ InHand
  /\ AccountBehind
  /\ PoolUnclaimed
  /\ ApprovedHasAccount

\* A link a handler works on is burnt, and no other handler works on it.
LinkInv ==
  /\ \A h \in Handlers :
       call[h].at \in {"check", "set"} =>
         call[h].link \in Links /\ links[call[h].link].st = "burnt"
  /\ \A g, h \in Handlers :
       /\ call[g].at \in {"check", "set"} /\ call[h].at \in {"check", "set"}
       /\ call[g].link = call[h].link
       => g = h

-----------------------------------------------------------------------------

LEMMA AccountInit == Init => AccountInv /\ LinkInv
  BY DEF Init, AccountInv, LinkInv, TypeOK, InHand, AccountBehind, PoolUnclaimed,
         ApprovedHasAccount, Idle, Handling, NoUser, Row, WithId, WithRequest, Request, User, Link, Call,
         Steps, Contact, Form, Nobody, NoId, NoLink

\* What the three ways to move a handler leave behind.
LEMMA Untouched ==
  ASSUME TypeOK, NEW h \in Handlers, NEW c \in Call, call' = [call EXCEPT ![h] = c]
  PROVE  /\ call' \in [Handlers -> Call]
         /\ call'[h] = c
         /\ \A g \in Handlers : g # h => call'[g] = call[g]
BY DEF TypeOK

LEMMA IdleTyped == Idle \in Call /\ Idle.at = "idle"
BY DEF Idle, Handling, Call, Steps, Contact, NoId, NoLink, Form

LEMMA HandlerGoes ==
  ASSUME TypeOK, NEW h \in Handlers, NEW step \in Steps, Goes(h, step)
  PROVE  /\ call' \in [Handlers -> Call]
         /\ call'[h].at = step
         /\ call'[h].adId = call[h].adId
         /\ call'[h].link = call[h].link
         /\ step # "deliver" => call'[h].req = call[h].req
         /\ \A g \in Handlers : g # h => call'[g] = call[g]
<1> DEFINE c == [call[h] EXCEPT !.at = step,
                                !.req = IF step = "deliver" THEN Form ELSE call[h].req]
<1>1. call[h] \in Call
  BY DEF TypeOK
<1>2. /\ c \in Call /\ c.at = step /\ c.adId = call[h].adId /\ c.link = call[h].link
      /\ step # "deliver" => c.req = call[h].req
  BY <1>1 DEF Call, Contact, Form
<1>3. call' = [call EXCEPT ![h] = c]
  BY DEF Goes
<1> HIDE DEF c
<1> QED
  BY <1>2, <1>3, Untouched

LEMMA HandlerReturns ==
  ASSUME TypeOK, NEW h \in Handlers, Returns(h)
  PROVE  /\ call' \in [Handlers -> Call]
         /\ call'[h].at = "idle"
         /\ \A g \in Handlers : g # h => call'[g] = call[g]
BY IdleTyped, Untouched DEF Returns

\* Setting a password, or not, makes no row and takes none away.
LEMMA HashKeepsRows ==
  ASSUME TypeOK, NEW a \in AdIds, SetHash(a) \/ UNCHANGED users
  PROVE  /\ users' \in [AdIds -> User]
         /\ \A b \in AdIds : users'[b].st = "none" <=> users[b].st = "none"
BY DEF TypeOK, SetHash, User, Exists

LEMMA DecideTyped ==
  ASSUME TypeOK, NEW r \in Requests, NEW st \in {"approved", "rejected"},
         NEW a \in AdIds \cup {NoId}, Decide(r, st, a)
  PROVE  /\ requests' \in [Requests -> Request]
         /\ \A q \in Requests :
              \/ requests'[q] = requests[q]
              \/ q = r /\ requests'[q] = [st |-> st, adId |-> a]
<1>1. [st |-> st, adId |-> a] \in Request
  BY DEF Request
<1>2. CASE requests[r].st = "pending"
  BY <1>1, <1>2 DEF TypeOK, Decide
<1>3. CASE requests[r].st # "pending"
  BY <1>3 DEF TypeOK, Decide
<1> QED
  BY <1>2, <1>3

-----------------------------------------------------------------------------
(* The invariant holds step by step.                                       *)

LEMMA AccountStep == AccountInv /\ [Next]_vars => AccountInv'
<1> SUFFICES ASSUME AccountInv, [Next]_vars PROVE AccountInv'
  OBVIOUS
<1> USE DEF AccountInv, InHand, AccountBehind, PoolUnclaimed, ApprovedHasAccount,
            WithId, WithRequest, stores, At
<1>1. ASSUME NEW r \in Requests, Arrives(r) PROVE AccountInv'
  BY <1>1 DEF TypeOK, Request, Arrives
<1>2. CASE RefillPool
  BY <1>2 DEF TypeOK, RefillPool
<1>3. ASSUME NEW h \in Handlers, NEW r \in Requests, NEW step \in {"pick", "reject"},
             OpenRequest(h, r, step)
      PROVE  AccountInv'
  <2> DEFINE c == [at |-> step, req |-> r, adId |-> NoId, link |-> NoLink]
  <2>2. call' = [call EXCEPT ![h] = c] /\ UNCHANGED stores
    BY <1>3 DEF OpenRequest, Enters, Handling
  <2>3. c \in Call /\ c.at = step /\ c.req = r
    BY DEF Call, Steps, Contact
  <2> HIDE DEF c
  <2> QED
    BY <2>2, <2>3, Untouched DEF TypeOK
<1>4. ASSUME NEW h \in Handlers, Pick(h) PROVE AccountInv'
  <2>1. UNCHANGED stores /\ call[h].at = "pick" /\ call[h] \in Call
    BY <1>4 DEF Pick, TypeOK
  <2>2. CASE Returns(h)
    BY <2>1, <2>2, HandlerReturns DEF TypeOK
  <2>3. ASSUME NEW a \in AdIds,
               call' = [call EXCEPT ![h] = [call[h] EXCEPT !.at = StepAfter.pick, !.adId = a]]
        PROVE  AccountInv'
    <3> DEFINE c == [call[h] EXCEPT !.at = StepAfter.pick, !.adId = a]
    <3>1. c \in Call /\ c.at = "claim" /\ c.adId = a
      BY <2>1 DEF Call, Steps, StepAfter
    <3>2. call' = [call EXCEPT ![h] = c]
      BY <2>3
    <3> HIDE DEF c
    <3> QED
      BY <2>1, <3>1, <3>2, Untouched DEF TypeOK
  <2> QED
    BY <1>4, <2>2, <2>3 DEF Pick
<1>5. ASSUME NEW h \in Handlers, Claim(h) PROVE AccountInv'
  <2>1. UNCHANGED stores /\ call[h].at = "claim"
    BY <1>5 DEF Claim
  <2>2. Goes(h, "assign") \/ Returns(h)
    BY <1>5 DEF Claim, StepAfter
  <2> QED
    BY <2>1, <2>2, HandlerGoes, HandlerReturns DEF TypeOK, Steps
<1>6. ASSUME NEW h \in Handlers, Assign(h) PROVE AccountInv'
  <2> DEFINE a == call[h].adId
             r == call[h].req
  <2>1. /\ call[h].at = "assign" /\ a \in AdIds /\ r \in Contact
        /\ UNCHANGED <<requests, links>>
    BY <1>6 DEF Assign, TypeOK, Call
  <2>2. CASE Returns(h) /\ UNCHANGED <<pool, users>>
    BY <2>1, <2>2, HandlerReturns DEF TypeOK
  <2>3. ASSUME pool' = Taken(a), users' = Assigned(a, r),
               Goes(h, IF r = Form THEN "deliver" ELSE StepAfter.assign)
        PROVE  AccountInv'
    <3> DEFINE u == IF users[a].st = "pending"
                    THEN [users[a] EXCEPT !.email = r]
                    ELSE Row("pending", r, users[a].picks)
    <3>5. u \in User /\ u.st = "pending"
      BY <2>1 DEF TypeOK, User, Row, Nobody, Contact
    <3>6. users' = [users EXCEPT ![a] = u]
      BY <2>3 DEF Assigned
    <3> HIDE DEF u
    <3>1. /\ users' \in [AdIds -> User] /\ users'[a].st = "pending"
          /\ \A b \in AdIds : b # a => users'[b] = users[b]
      BY <2>1, <3>5, <3>6 DEF TypeOK
    <3>2. pool' = pool \ {a}
      BY <2>3 DEF Taken
    <3>3. CASE r = Form
      <4>1. Goes(h, "deliver")
        BY <2>3, <3>3
      <4> QED
        BY <2>1, <3>1, <3>2, <4>1, HandlerGoes DEF TypeOK, Steps
    <3>4. CASE r # Form
      <4>1. Goes(h, "chat") /\ r \in Requests
        BY <2>1, <2>3, <3>4 DEF StepAfter, Contact
      <4> QED
        BY <2>1, <3>1, <3>2, <4>1, HandlerGoes DEF TypeOK, Steps
    <3> QED
      BY <3>3, <3>4
  <2> QED
    BY <1>6, <2>2, <2>3 DEF Assign
<1>7. ASSUME NEW h \in Handlers, SetChat(h) PROVE AccountInv'
  <2>1. /\ call[h].at = "chat" /\ call[h].adId \in AdIds /\ call[h].req \in Requests
        /\ UNCHANGED <<requests, pool, links>>
    BY <1>7 DEF SetChat
  <2>2. Goes(h, "picks")
    BY <1>7 DEF SetChat, StepAfter
  <2>3. users' \in [AdIds -> User] /\ \A b \in AdIds : users'[b].st = users[b].st
    BY <1>7, <2>1 DEF SetChat, TypeOK, User
  <2> QED
    BY <2>1, <2>2, <2>3, HandlerGoes DEF TypeOK, Steps
<1>8. ASSUME NEW h \in Handlers, SetPicks(h) PROVE AccountInv'
  <2>1. /\ call[h].at = "picks" /\ call[h].adId \in AdIds /\ call[h].req \in Requests
        /\ UNCHANGED <<requests, pool, links>>
    BY <1>8 DEF SetPicks
  <2>2. Goes(h, "mark")
    BY <1>8 DEF SetPicks, StepAfter
  <2>3. users' \in [AdIds -> User] /\ \A b \in AdIds : users'[b].st = users[b].st
    BY <1>8, <2>1 DEF SetPicks, TypeOK, User
  <2> QED
    BY <2>1, <2>2, <2>3, HandlerGoes DEF TypeOK, Steps
<1>9. ASSUME NEW h \in Handlers, MarkApproved(h) PROVE AccountInv'
  <2>1. /\ call[h].at = "mark" /\ call[h].adId \in AdIds /\ call[h].req \in Requests
        /\ Decide(call[h].req, "approved", call[h].adId) /\ Goes(h, "deliver")
        /\ UNCHANGED <<pool, users, links>>
    BY <1>9 DEF MarkApproved, StepAfter
  <2>2. /\ requests' \in [Requests -> Request]
        /\ \A q \in Requests :
             \/ requests'[q] = requests[q]
             \/ requests'[q] = [st |-> "approved", adId |-> call[h].adId]
    BY <2>1, DecideTyped
  <2>3. \A q \in Requests :
          requests'[q].st = "approved" =>
            requests'[q].adId \in AdIds /\ users[requests'[q].adId].st # "none"
    BY <2>1, <2>2
  <2> QED
    BY <2>1, <2>2, <2>3, HandlerGoes DEF TypeOK, Steps
<1>10. ASSUME NEW h \in Handlers, Deliver(h) PROVE AccountInv'
  <2>1. /\ call[h].adId \in AdIds /\ Returns(h) /\ UNCHANGED <<requests, pool, users>>
    BY <1>10 DEF Deliver
  <2>2. /\ links' \in [Links -> Link]
        /\ \A l \in Links : links'[l].st # "none" => links'[l].adId \in AdIds
    <3>1. CASE UNCHANGED links
      BY <3>1 DEF TypeOK
    <3>2. ASSUME NEW l \in Links,
                 links' = [links EXCEPT ![l] = [st |-> "sent", adId |-> call[h].adId]]
          PROVE  /\ links' \in [Links -> Link]
                 /\ \A k \in Links : links'[k].st # "none" => links'[k].adId \in AdIds
      <4>1. [st |-> "sent", adId |-> call[h].adId] \in Link
        BY <2>1 DEF Link
      <4> QED
        BY <2>1, <3>2, <4>1 DEF TypeOK
    <3> QED
      BY <1>10, <3>1, <3>2 DEF Deliver
  <2> QED
    BY <2>1, <2>2, HandlerReturns DEF TypeOK
<1>11. ASSUME NEW h \in Handlers, MarkRejected(h) PROVE AccountInv'
  <2>1. /\ call[h].req \in Requests /\ Decide(call[h].req, "rejected", NoId) /\ Returns(h)
        /\ UNCHANGED <<pool, users, links>>
    BY <1>11 DEF MarkRejected
  <2>2. /\ requests' \in [Requests -> Request]
        /\ \A q \in Requests :
             \/ requests'[q] = requests[q]
             \/ requests'[q] = [st |-> "rejected", adId |-> NoId]
    BY <2>1, DecideTyped
  <2>3. \A q \in Requests :
          requests'[q].st = "approved" =>
            requests'[q].adId \in AdIds /\ users[requests'[q].adId].st # "none"
    BY <2>1, <2>2
  <2> QED
    BY <2>1, <2>2, <2>3, HandlerReturns DEF TypeOK, Steps
<1>12. ASSUME NEW h \in Handlers, NEW l \in Links, OpenLink(h, l) PROVE AccountInv'
  <2> DEFINE c == [at |-> "check", req |-> Form, adId |-> links[l].adId, link |-> l]
  <2>2. call' = [call EXCEPT ![h] = c] /\ UNCHANGED <<requests, pool, users>>
    BY <1>12 DEF OpenLink, Enters, Handling
  <2>3. links[l].adId \in AdIds
    BY <1>12 DEF OpenLink, LinkValid
  <2>4. c \in Call /\ c.at = "check" /\ c.adId \in AdIds
    BY <2>3 DEF Call, Steps, Contact
  <2>5. [links[l] EXCEPT !.st = "burnt"] \in Link
    BY DEF TypeOK, Link
  <2>6. /\ links' \in [Links -> Link]
        /\ \A k \in Links : links'[k].st # "none" => links'[k].adId \in AdIds
    BY <1>12, <2>3, <2>5 DEF OpenLink, TypeOK
  <2> HIDE DEF c
  <2> QED
    BY <2>2, <2>4, <2>6, Untouched DEF TypeOK
<1>13. ASSUME NEW h \in Handlers, CheckHash(h) PROVE AccountInv'
  <2>1. UNCHANGED stores /\ call[h].at = "check" /\ (Goes(h, "set") \/ Returns(h))
    BY <1>13 DEF CheckHash
  <2> QED
    BY <2>1, HandlerGoes, HandlerReturns DEF TypeOK, Steps
<1>14. ASSUME NEW h \in Handlers, SetPassword(h) PROVE AccountInv'
  <2>1. /\ call[h].adId \in AdIds /\ Returns(h) /\ UNCHANGED <<requests, pool, links>>
        /\ SetHash(call[h].adId) \/ UNCHANGED users
    BY <1>14 DEF SetPassword
  <2> QED
    BY <2>1, HandlerReturns, HashKeepsRows DEF TypeOK
<1>15. ASSUME NEW a \in AdIds, DeleteUser(a) PROVE AccountInv'
  <2>1. UNCHANGED <<requests, pool, links, call>> /\ users[a].st # "none"
    BY <1>15 DEF DeleteUser, Exists
  <2>2. /\ users' \in [AdIds -> User] /\ users'[a].st = "deleted"
        /\ \A b \in AdIds : b # a => users'[b] = users[b]
    BY <1>15 DEF DeleteUser, TypeOK, User, Row, Nobody
  <2> QED
    BY <2>1, <2>2 DEF TypeOK, Call
<1>16. ASSUME NEW a \in AdIds, ResetPassword(a) PROVE AccountInv'
  <2>1. SetHash(a) /\ UNCHANGED <<requests, pool, links, call>>
    BY <1>16 DEF ResetPassword
  <2> QED
    BY <2>1, HashKeepsRows DEF TypeOK, Call
<1>17. ASSUME NEW h \in Handlers, NEW a \in AdIds, OpenForm(h, a) PROVE AccountInv'
  <2> DEFINE c == [at |-> "claim", req |-> Form, adId |-> a, link |-> NoLink]
  <2>2. call' = [call EXCEPT ![h] = c] /\ UNCHANGED stores
    BY <1>17 DEF OpenForm, Enters, Handling
  <2>3. c \in Call /\ c.at = "claim" /\ c.adId = a
    BY DEF Call, Steps, Contact
  <2> HIDE DEF c
  <2> QED
    BY <2>2, <2>3, Untouched DEF TypeOK
<1>18. ASSUME NEW h \in Handlers, NEW a \in AdIds, Resend(h, a) PROVE AccountInv'
  <2> DEFINE c == [at |-> "deliver", req |-> Form, adId |-> a, link |-> NoLink]
  <2>2. call' = [call EXCEPT ![h] = c] /\ UNCHANGED stores
    BY <1>18 DEF Resend, Enters, Handling
  <2>3. c \in Call /\ c.at = "deliver" /\ c.adId = a
    BY DEF Call, Steps, Contact
  <2> HIDE DEF c
  <2> QED
    BY <2>2, <2>3, Untouched DEF TypeOK
<1>19. CASE Crash
  BY <1>19, IdleTyped DEF Crash, TypeOK
<1>20. CASE UNCHANGED vars
  BY <1>20 DEF vars, TypeOK
<1> QED
  BY <1>1, <1>2, <1>3, <1>4, <1>5, <1>6, <1>7, <1>8, <1>9, <1>10, <1>11, <1>12, <1>13,
     <1>14, <1>15, <1>16, <1>17, <1>18, <1>19, <1>20 DEF Next, Approval, Setup, Admin

-----------------------------------------------------------------------------
(* One handler per link.                                                   *)

\* A handler that moves on keeps its link if it only goes from check to set.
LEMMA LinkUnmoved ==
  ASSUME TypeOK, LinkInv, NEW h \in Handlers, call' \in [Handlers -> Call],
         \A g \in Handlers : g # h => call'[g] = call[g],
         \/ call'[h].at \notin {"check", "set"}
         \/ call[h].at \in {"check", "set"} /\ call'[h].link = call[h].link,
         \A l \in Links : links[l].st = "burnt" => links'[l].st = "burnt"
  PROVE  LinkInv'
BY DEF LinkInv

LEMMA LinkStep == AccountInv /\ LinkInv /\ [Next]_vars => LinkInv'
<1> SUFFICES ASSUME TypeOK, LinkInv, [Next]_vars PROVE LinkInv'
  BY DEF AccountInv
<1> USE DEF stores, At
<1>1. CASE UNCHANGED <<call, links>>
  BY <1>1 DEF LinkInv
<1>2. ASSUME NEW h \in Handlers, Returns(h),
             \A l \in Links : links[l].st = "burnt" => links'[l].st = "burnt"
      PROVE  LinkInv'
  BY <1>2, HandlerReturns, LinkUnmoved
<1>3. ASSUME NEW h \in Handlers, NEW step \in Steps \ {"check", "set"}, Goes(h, step),
             UNCHANGED links
      PROVE  LinkInv'
  BY <1>3, HandlerGoes, LinkUnmoved
<1>4. ASSUME NEW h \in Handlers, NEW step \in Steps \ {"check", "set"}, NEW c \in Call,
             c.at = step, call' = [call EXCEPT ![h] = c], UNCHANGED links
      PROVE  LinkInv'
  BY <1>4, Untouched, LinkUnmoved
<1>5. ASSUME NEW h \in Handlers, NEW step \in {"claim", "deliver", "pick", "reject"},
             NEW r \in Contact, NEW a \in AdIds \cup {NoId},
             Enters(h, Handling(step, r, a, NoLink)), UNCHANGED links
      PROVE  LinkInv'
  <2> DEFINE c == [at |-> step, req |-> r, adId |-> a, link |-> NoLink]
  <2>1. call' = [call EXCEPT ![h] = c]
    BY <1>5 DEF Enters, Handling
  <2>2. c \in Call /\ c.at = step /\ step \in Steps \ {"check", "set"}
    BY DEF Call, Steps
  <2> HIDE DEF c
  <2> QED
    BY <1>5, <2>1, <2>2, <1>4
<1>6. ASSUME NEW h \in Handlers, Pick(h) PROVE LinkInv'
  <2>1. CASE Returns(h)
    BY <1>6, <2>1, <1>2 DEF Pick
  <2>2. ASSUME NEW a \in AdIds,
               call' = [call EXCEPT ![h] = [call[h] EXCEPT !.at = StepAfter.pick, !.adId = a]]
        PROVE  LinkInv'
    <3> DEFINE c == [call[h] EXCEPT !.at = StepAfter.pick, !.adId = a]
    <3>1. c \in Call /\ c.at = "claim" /\ "claim" \in Steps \ {"check", "set"}
      BY DEF TypeOK, Call, Steps, StepAfter
    <3>2. call' = [call EXCEPT ![h] = c] /\ UNCHANGED links
      BY <1>6, <2>2 DEF Pick
    <3> HIDE DEF c
    <3> QED
      BY <3>1, <3>2, <1>4
  <2> QED
    BY <1>6, <2>1, <2>2 DEF Pick
<1>7. ASSUME NEW h \in Handlers,
             Claim(h) \/ Assign(h) \/ SetChat(h) \/ SetPicks(h) \/ MarkApproved(h)
      PROVE  LinkInv'
  <2>1. UNCHANGED links
    BY <1>7 DEF Claim, Assign, SetChat, SetPicks, MarkApproved
  <2>2. Returns(h) \/ \E step \in {"assign", "chat", "picks", "mark", "deliver"} : Goes(h, step)
    BY <1>7 DEF Claim, Assign, SetChat, SetPicks, MarkApproved, StepAfter
  <2> QED
    BY <2>1, <2>2, <1>2, <1>3 DEF Steps
<1>8. ASSUME NEW h \in Handlers, Deliver(h) PROVE LinkInv'
  <2>1. \A l \in Links : links[l].st = "burnt" => links'[l].st = "burnt"
    BY <1>8 DEF Deliver, TypeOK
  <2> QED
    BY <1>8, <2>1, <1>2 DEF Deliver
<1>9. ASSUME NEW h \in Handlers, MarkRejected(h) \/ SetPassword(h) PROVE LinkInv'
  BY <1>9, <1>2 DEF MarkRejected, SetPassword
<1>10. ASSUME NEW h \in Handlers, NEW l \in Links, OpenLink(h, l) PROVE LinkInv'
  <2> DEFINE c == [at |-> "check", req |-> Form, adId |-> links[l].adId, link |-> l]
  <2>1. call' = [call EXCEPT ![h] = c]
    BY <1>10 DEF OpenLink, Enters, Handling
  <2>2. c \in Call /\ c.link = l
    BY DEF TypeOK, Link, Call, Steps, Contact
  <2>3. /\ links[l].st = "sent" /\ links'[l].st = "burnt"
        /\ \A k \in Links : k # l => links'[k] = links[k]
    BY <1>10 DEF OpenLink, LinkValid, TypeOK, Link
  <2> HIDE DEF c
  <2>4. call' \in [Handlers -> Call] /\ call'[h].link = l
        /\ \A g \in Handlers : g # h => call'[g] = call[g]
    BY <2>1, <2>2, Untouched
  <2> QED
    BY <2>3, <2>4 DEF LinkInv
<1>11. ASSUME NEW h \in Handlers, CheckHash(h) PROVE LinkInv'
  <2>1. call[h].at = "check" /\ UNCHANGED links
    BY <1>11 DEF CheckHash
  <2>2. CASE Returns(h)
    BY <2>1, <2>2, <1>2
  <2>3. CASE Goes(h, "set")
    <3>1. "set" \in Steps
      BY DEF Steps
    <3> QED
      BY <2>1, <2>3, <3>1, HandlerGoes, LinkUnmoved
  <2> QED
    BY <1>11, <2>2, <2>3 DEF CheckHash
<1>12. CASE Crash
  BY <1>12, IdleTyped DEF Crash, LinkInv
<1>13. ASSUME NEW h \in Handlers, NEW r \in Requests, NEW step \in {"pick", "reject"},
              OpenRequest(h, r, step)
       PROVE  LinkInv'
  BY <1>13, <1>5 DEF OpenRequest, Contact
<1>14. ASSUME NEW h \in Handlers, NEW a \in AdIds, OpenForm(h, a) \/ Resend(h, a)
       PROVE  LinkInv'
  BY <1>14, <1>5 DEF OpenForm, Resend, Contact
<1>15. ASSUME NEW r \in Requests, Arrives(r) PROVE LinkInv'
  BY <1>15, <1>1 DEF Arrives
<1>16. CASE RefillPool
  BY <1>16, <1>1 DEF RefillPool
<1>17. ASSUME NEW a \in AdIds, DeleteUser(a) \/ ResetPassword(a) PROVE LinkInv'
  BY <1>17, <1>1 DEF DeleteUser, ResetPassword
<1>18. CASE UNCHANGED vars
  BY <1>18, <1>1 DEF vars
<1> QED
  BY <1>6, <1>7, <1>8, <1>9, <1>10, <1>11, <1>12, <1>13, <1>14, <1>15, <1>16, <1>17,
     <1>18 DEF Next, Approval, Setup, Admin

-----------------------------------------------------------------------------
(* Theorems.                                                               *)

THEOREM AccountsInvariant == Spec => [](AccountInv /\ LinkInv)
<1>1. AccountInv /\ LinkInv /\ [Next]_vars => AccountInv' /\ LinkInv'
  BY AccountStep, LinkStep
<1> QED
  BY AccountInit, <1>1, PTL DEF Spec

\* The types of the stores and of the handlers.
THEOREM AccountsTyped == Spec => []TypeOK
BY AccountsInvariant, PTL DEF AccountInv

\* refill_pool and assign keep every ID that has or had a user out of the pool.
THEOREM PoolHoldsUnclaimed == Spec => []PoolUnclaimed
BY AccountsInvariant, PTL DEF AccountInv

\* approve marks a request only after its account was made, wherever it is cut off.
THEOREM ApprovalHasAccount == Spec => []ApprovedHasAccount
BY AccountsInvariant, PTL DEF AccountInv

\* mark_token_used lets one request per link through to the password.
THEOREM OneUsePerLink == Spec => []LinkUsedOnce
<1>1. LinkInv => LinkUsedOnce
  BY DEF LinkInv, LinkUsedOnce, At
<1> QED
  BY AccountsInvariant, <1>1, PTL

\* The UPDATEs of mark_approved and mark_rejected decide a request once.
THEOREM RequestDecidedOnce == Spec => DecidedOnce
<1>1. TypeOK /\ [Next]_vars =>
        [\A r \in Requests :
           requests[r].st \in {"approved", "rejected"} => requests'[r] = requests[r]]_requests
  <2> SUFFICES ASSUME TypeOK, [Next]_vars, NEW r \in Requests,
                      requests[r].st \in {"approved", "rejected"}
               PROVE  requests'[r] = requests[r]
    OBVIOUS
  <2>1. CASE UNCHANGED requests
    BY <2>1
  <2>2. ASSUME NEW q \in Requests, Arrives(q) PROVE requests'[r] = requests[r]
    BY <2>2 DEF Arrives, TypeOK
  <2>3. ASSUME NEW h \in Handlers, MarkApproved(h) \/ MarkRejected(h)
        PROVE  requests'[r] = requests[r]
    BY <2>3 DEF MarkApproved, MarkRejected, Decide, TypeOK
  <2> QED
    BY <2>1, <2>2, <2>3
       DEF Next, Approval, Setup, Admin, RefillPool, OpenRequest, Pick, Claim, Assign, SetChat,
           SetPicks, Deliver, OpenLink, CheckHash, SetPassword, DeleteUser, ResetPassword,
           OpenForm, Resend, Crash, stores, vars
<1> QED
  BY AccountsTyped, <1>1, PTL DEF Spec, DecidedOnce

\* The check of password_hash inside assign's transaction protects a chosen password
\* from every assignment under way.
THEOREM ActivationKept == Spec => ActivatedKept
<1>1. TypeOK /\ InHand /\ [Next]_vars =>
        [\A a \in AdIds :
           users[a].st = "active" /\ users'[a].st # "deleted"
             => users'[a].st = "active" /\ users'[a].email = users[a].email]_users
  <2> SUFFICES ASSUME TypeOK, InHand, [Next]_vars, NEW a \in AdIds,
                      users[a].st = "active", users'[a].st # "deleted"
               PROVE  users'[a].st = "active" /\ users'[a].email = users[a].email
    OBVIOUS
  <2> USE DEF InHand, WithId, WithRequest, At
  <2>1. CASE UNCHANGED users
    BY <2>1
  <2>2. ASSUME NEW h \in Handlers, Assign(h)
        PROVE  users'[a] = users[a]
    BY <2>2 DEF Assign, Assignable, Assigned, TypeOK
  <2>3. ASSUME NEW h \in Handlers, SetChat(h) \/ SetPicks(h)
        PROVE  users'[a].st = users[a].st /\ users'[a].email = users[a].email
    BY <2>3 DEF SetChat, SetPicks, TypeOK, User
  <2>4. ASSUME NEW b \in AdIds, SetHash(b)
        PROVE  users'[a].st = "active" /\ users'[a].email = users[a].email
    BY <2>4 DEF SetHash, TypeOK, User
  <2>5. ASSUME NEW b \in AdIds, DeleteUser(b) PROVE users'[a] = users[a]
    BY <2>5 DEF DeleteUser, Row, TypeOK
  <2>6. ASSUME NEW h \in Handlers, SetPassword(h)
        PROVE  UNCHANGED users \/ (SetHash(call[h].adId) /\ call[h].adId \in AdIds)
    BY <2>6 DEF SetPassword
  <2> QED
    BY <2>1, <2>2, <2>3, <2>4, <2>5, <2>6
       DEF Next, Approval, Setup, Admin, Arrives, RefillPool, OpenRequest, Pick, Claim,
           MarkApproved, MarkRejected, Deliver, OpenLink, CheckHash, ResetPassword, OpenForm,
           Resend, Crash, stores, vars
<1> QED
  BY AccountsInvariant, <1>1, PTL DEF Spec, ActivatedKept, AccountInv

=============================================================================
