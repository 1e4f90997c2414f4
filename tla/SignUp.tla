------------------------------- MODULE SignUp -------------------------------
(***************************************************************************)
(* The Telegram conversation that ends in a subscription request:          *)
(* TelegramSignupBot in src/api/telegram_signup.py, over the tables        *)
(* telegram_chat_state, subscription_requests and telegram_signup_offset   *)
(* of src/api/subscription_requests.py.                                    *)
(*                                                                         *)
(* Telegram keeps every update until the bot acknowledges it.  The bot     *)
(* handles one update at a time: a handler is a sequence of writes, each a *)
(* transaction of its own, and the last write is the acknowledgement.  The *)
(* process may die after any of them; what it kept in memory is then lost, *)
(* and the update is handled anew.                                         *)
(***************************************************************************)
EXTENDS Naturals, Sequences, FiniteSets

CONSTANTS
  Chats,            \* the people who talk to the bot
  Strategies,       \* what they can pick from
  SignalPicks,      \* PICKS_REQUIRED["signal"], 3 in the code
  ExecutePicks,     \* PICKS_REQUIRED["execute"], 2 in the code
  MaxBacklog,       \* bound: updates waiting at Telegram
  MaxRequests,      \* bound: different pending requests while people write
  MaxCrashes        \* bound: handlers cut off half way

ASSUME SignUpAssumption ==
  /\ SignalPicks \in Nat /\ ExecutePicks \in Nat \ {0}
  /\ MaxBacklog \in Nat \ {0} /\ MaxRequests \in Nat \ {0} /\ MaxCrashes \in Nat

VARIABLES
  backlog,    \* updates not yet acknowledged, oldest first
  chat,       \* telegram_chat_state: one row per chat
  phones,     \* _phone_cache: chats whose number is in memory
  requests,   \* subscription_requests with status 'pending'
  screen,     \* the keyboard each person was sent last
  strayed,    \* history: chats of which a tap was handled on another keyboard than the last
  crashes     \* history: handlers cut off so far, by a death or an error

vars == <<backlog, chat, phones, requests, screen, strayed, crashes>>

Kinds == {"signal", "execute"}
Required(kind) == IF kind = "signal" THEN SignalPicks ELSE ExecutePicks
Round(kind) == IF kind = "signal" THEN "picking_signals" ELSE "picking_execute"

States == {"idle", "awaiting_phone", "picking_signals", "picking_execute"}
Request == [chat : Chats, phone : BOOLEAN,
            signal : SUBSET Strategies, execute : SUBSET Strategies]

\* An update; `button` is the keyboard that offers it, "none" for plain messages.
Plain == [chat : Chats, is : {"start", "text"}, button : {"none"}]
Answers == [chat : Chats, is : {"duration"}, button : {"durations"}]
   \cup [chat : Chats, is : {"contact"}, button : {"contact"}]
Taps == [chat : Chats, is : {"pick"}, button : Kinds, strategy : Strategies]
   \cup [chat : Chats, is : {"done"}, button : Kinds]

Update == Plain \cup Answers \cup Taps

-----------------------------------------------------------------------------
(* The writes of a handler.  Each is a function from what persists, the    *)
(* cache and the screen to the same after the write.                       *)

UpsertState(c, state, duration) ==
  [op |-> "upsert", chat |-> c, state |-> state, duration |-> duration]
ClearPicks(c) == [op |-> "clear", chat |-> c]
SetPicks(c, kind, picks) == [op |-> "picks", chat |-> c, kind |-> kind, picks |-> picks]
CreateRequest(c) == [op |-> "create", chat |-> c]
KeepPhone(c) == [op |-> "keep", chat |-> c]
PopPhone(c) == [op |-> "pop", chat |-> c]
Send(c, keyboard) == [op |-> "send", chat |-> c, keyboard |-> keyboard]
Acknowledge == [op |-> "offset"]

\* `held`, the phone _finalize_signup popped, is a local variable of the handler.
World == [backlog |-> backlog, chat |-> chat, phones |-> phones, held |-> FALSE,
          requests |-> requests, screen |-> screen]

Write(w, wr) ==
  CASE wr.op = "upsert" -> [w EXCEPT !.chat[wr.chat].state = wr.state,
                                     !.chat[wr.chat].duration = wr.duration]
    [] wr.op = "clear" -> [w EXCEPT !.chat[wr.chat].signal = {},
                                    !.chat[wr.chat].execute = {}]
    [] wr.op = "picks" -> [w EXCEPT !.chat[wr.chat][wr.kind] = wr.picks]
    [] wr.op = "keep" -> [w EXCEPT !.phones = @ \cup {wr.chat}]
    [] wr.op = "pop" -> [w EXCEPT !.held = wr.chat \in w.phones,
                                  !.phones = @ \ {wr.chat}]
    [] wr.op = "create" ->
         [w EXCEPT !.requests = @ \cup
            {[chat |-> wr.chat, phone |-> w.held,
              signal |-> w.chat[wr.chat].signal, execute |-> w.chat[wr.chat].execute]}]
    [] wr.op = "send" -> [w EXCEPT !.screen[wr.chat] = wr.keyboard]
    [] wr.op = "offset" -> [w EXCEPT !.backlog = Tail(@)]

\* What a sequence of writes makes of the present state.
After(writes) ==
  LET w[n \in 0..Len(writes)] == IF n = 0 THEN World ELSE Write(w[n - 1], writes[n])
  IN w[Len(writes)]

Commit(w) ==
  /\ backlog' = w.backlog /\ chat' = w.chat /\ requests' = w.requests
  /\ phones' = w.phones /\ screen' = w.screen

-----------------------------------------------------------------------------
(* The handlers: what each kind of update writes, from the row it reads.   *)

Welcome(c) == <<UpsertState(c, "idle", FALSE), Send(c, "durations")>>

\* Mutant: the picker starts with what was picked in an earlier conversation.
HandlePhoneKeepsPicks(c) ==
  IF ~chat[c].duration THEN Welcome(c)
  ELSE <<KeepPhone(c), UpsertState(c, "picking_signals", TRUE), Send(c, "signal")>>

HandlePhone(c) ==
  IF ~chat[c].duration THEN Welcome(c)
  ELSE <<KeepPhone(c), UpsertState(c, "picking_signals", TRUE),
         ClearPicks(c), Send(c, "signal")>>

\* The profile is refreshed first: the row is written back as it was read.
HandleMessage(u) ==
  <<UpsertState(u.chat, chat[u.chat].state, chat[u.chat].duration)>> \o
    CASE u.is = "start" -> Welcome(u.chat)
      [] u.is = "contact" /\ chat[u.chat].state = "awaiting_phone" -> HandlePhone(u.chat)
      [] u.is = "text" /\ chat[u.chat].state = "awaiting_phone" -> <<Send(u.chat, "contact")>>
      [] OTHER -> <<>>

HandleDuration(u) ==
  <<UpsertState(u.chat, "awaiting_phone", TRUE), Send(u.chat, "contact")>>

HandlePickToggle(u) ==
  LET picks == chat[u.chat][u.button]
      Picked(p) == <<SetPicks(u.chat, u.button, p), Send(u.chat, u.button)>>
  IN IF chat[u.chat].state # Round(u.button) THEN <<>>
     ELSE CASE u.strategy \in picks -> Picked(picks \ {u.strategy})
            [] u.strategy \notin picks /\ Cardinality(picks) < Required(u.button) ->
                 Picked(picks \cup {u.strategy})
            [] OTHER -> <<>>

FinalizeSignup(c) ==
  <<PopPhone(c)>> \o
    IF ~chat[c].duration THEN Welcome(c)
    ELSE <<CreateRequest(c), UpsertState(c, "idle", FALSE), ClearPicks(c), Send(c, "none")>>

\* Mutant: the end of the first round clears the cache with the picker's message.
HandlePickDoneClears(u) ==
  IF Cardinality(chat[u.chat][u.button]) # Required(u.button) THEN <<>>
  ELSE IF u.button = "signal"
       THEN <<PopPhone(u.chat), UpsertState(u.chat, "picking_execute", chat[u.chat].duration),
              Send(u.chat, "execute")>>
       ELSE FinalizeSignup(u.chat)

\* The counts are checked, the state of the conversation is not.
HandlePickDone(u) ==
  IF Cardinality(chat[u.chat][u.button]) # Required(u.button) THEN <<>>
  ELSE IF u.button = "signal"
       THEN <<UpsertState(u.chat, "picking_execute", chat[u.chat].duration),
              Send(u.chat, "execute")>>
       ELSE FinalizeSignup(u.chat)

Handler(u) ==
  CASE u.is \in {"start", "text", "contact"} -> HandleMessage(u)
    [] u.is = "duration" -> HandleDuration(u)
    [] u.is = "pick" -> HandlePickToggle(u)
    [] u.is = "done" -> HandlePickDone(u)

\* Mutant: an update nobody understands is not acknowledged.
RunUnlessIgnored(u) ==
  IF Handler(u) = <<>> THEN <<>> ELSE Append(Handler(u), Acknowledge)

\* The offset is saved after the handler, and last.
Run(u) == Append(Handler(u), Acknowledge)

-----------------------------------------------------------------------------
Init ==
  /\ backlog = <<>>
  /\ chat = [c \in Chats |-> [state |-> "idle", duration |-> FALSE,
                              signal |-> {}, execute |-> {}]]
  /\ phones = {} /\ requests = {} /\ strayed = {} /\ crashes = 0
  /\ screen = [c \in Chats |-> "none"]

\* A person writes to the bot or taps any keyboard the bot can have sent.
Arrives(u) ==
  /\ Len(backlog) < MaxBacklog /\ Cardinality(requests) < MaxRequests
  /\ backlog' = Append(backlog, u)
  /\ UNCHANGED <<chat, phones, requests, screen, strayed, crashes>>

\* One turn of the loop of _run: the update is handled and acknowledged.
HandleUpdate ==
  /\ backlog # <<>>
  /\ LET u == Head(backlog) IN
     /\ Commit(After(Run(u)))
     /\ strayed' = IF u.button \in {"none", screen[u.chat]} THEN strayed
                   ELSE strayed \cup {u.chat}
  /\ UNCHANGED crashes

\* A write fails (a locked database): the handler stops there, _run logs the
\* exception and acknowledges the update all the same.
HandlerRaises ==
  /\ backlog # <<>>
  /\ LET writes == Handler(Head(backlog))
     IN \E n \in 1..Len(writes) :
          /\ writes[n].op \in {"upsert", "clear", "picks", "create"}
          /\ Commit(After(Append(SubSeq(writes, 1, n - 1), Acknowledge)))
  /\ crashes < MaxCrashes /\ crashes' = crashes + 1
  /\ UNCHANGED strayed

\* The process dies between two writes, and starts again without its memory.
Crash ==
  /\ crashes < MaxCrashes /\ crashes' = crashes + 1
  /\ LET writes == IF backlog = <<>> THEN <<>> ELSE Run(Head(backlog))
     IN \E n \in 0..Len(writes) :
          Commit([After(SubSeq(writes, 1, n)) EXCEPT !.phones = {}])
  /\ UNCHANGED strayed

\* An administrator approves or rejects a request (module Accounts).
Decided(r) ==
  /\ requests' = requests \ {r}
  /\ UNCHANGED <<backlog, chat, phones, screen, strayed, crashes>>

Next ==
  \/ \E r \in requests : Decided(r)
  \/ \E u \in Update : Arrives(u)
  \/ HandleUpdate
  \/ HandlerRaises
  \/ Crash

Spec == Init /\ [][Next]_vars /\ WF_vars(HandleUpdate)

-----------------------------------------------------------------------------
(* As long as no handler was cut off, every request carries exactly the    *)
(* picks the subscription asks for, whatever keyboards of earlier rounds   *)
(* are tapped: Continue checks its own count only, and not the state.      *)
PicksAsRequired ==
  crashes = 0 =>
    \A r \in requests : Cardinality(r.signal) = SignalPicks
                        /\ Cardinality(r.execute) = ExecutePicks

(* The number a person shared reaches the request, as long as no handler   *)
(* was cut off and each tap of the person was handled while its keyboard   *)
(* was the last one sent.  The number lives in memory in between.          *)
PhoneReachesRequest ==
  crashes = 0 => \A r \in requests : r.phone \/ r.chat \in strayed

(* Every update is handled in the end: none blocks those behind it, also   *)
(* one whose handler fails or that the process dies on.                    *)
UpdatesHandled == []<>(backlog = <<>>) \/ []<><<Len(backlog') < Len(backlog)>>_backlog

=============================================================================
