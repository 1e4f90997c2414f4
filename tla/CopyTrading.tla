----------------------------- MODULE CopyTrading -----------------------------
(***************************************************************************)
(* What copy trading promises, whatever dies, is lost or comes twice: the  *)
(* operator's account holds at most one copy of a trade at a time - as     *)
(* long as whoever placed the orders of that trade was told the truth of   *)
(* them -, only of trades the master has made, at a stop the master has    *)
(* given them; and the server's list of fills never says that a copy is    *)
(* closed before it is, nor takes it back.  Copier is shown to implement   *)
(* this module.                                                            *)
(***************************************************************************)
EXTENDS Integers

CONSTANTS Trades, Copy, Stops

VARIABLES
  given,    \* the stops the master has given a trade, {} until it is made
  account,  \* the copies: what became of each, the trade and the stop it has, and
            \* whether the one who placed it was told that it had failed
  told      \* what the server was told of each

vars == <<given, account, told>>

IsOpen(c) == account[c].st = "open"
CopyOf(m) == {c \in Copy : IsOpen(c) /\ account[c].trade = m}
Denied(m) == \E c \in Copy : account[c].st # "none" /\ account[c].trade = m /\ account[c].denied

Init ==
  /\ given = [m \in Trades |-> {}]
  /\ \A c \in Copy : account[c].st = "none"
  /\ told = [c \in Copy |-> "none"]

\* The master makes the trade or moves its stop.
MasterGives(m, s) ==
  /\ given' = [given EXCEPT ![m] = @ \cup {s}]
  /\ UNCHANGED <<account, told>>

CopyOpens(c, m, s, denied) ==
  /\ account[c].st = "none"
  /\ CopyOf(m) = {} \/ Denied(m)
  /\ s \in given[m]
  /\ account' = [account EXCEPT ![c] = [st |-> "open", trade |-> m, stop |-> s, denied |-> denied]]
  /\ UNCHANGED <<given, told>>

CopyMoves(c, s) ==
  /\ IsOpen(c) /\ s \in given[account[c].trade]
  /\ account' = [account EXCEPT ![c] = [account[c] EXCEPT !.stop = s]]
  /\ UNCHANGED <<given, told>>

CopyCloses(c) ==
  /\ IsOpen(c)
  /\ account' = [account EXCEPT ![c] = [account[c] EXCEPT !.st = "closed"]]
  /\ UNCHANGED <<given, told>>

\* A copy told open may be closed by then.
ToldOpen(c) ==
  /\ account[c].st # "none" /\ told[c] # "CLOSED"
  /\ told' = [told EXCEPT ![c] = "OPEN"]
  /\ UNCHANGED <<given, account>>

ToldClosed(c) ==
  /\ account[c].st = "closed"
  /\ told' = [told EXCEPT ![c] = "CLOSED"]
  /\ UNCHANGED <<given, account>>

Next ==
  \/ \E m \in Trades, s \in Stops : MasterGives(m, s)
  \/ \E c \in Copy :
       \/ \E m \in Trades, s \in Stops, denied \in BOOLEAN : CopyOpens(c, m, s, denied)
       \/ \E s \in Stops : CopyMoves(c, s)
       \/ CopyCloses(c) \/ ToldOpen(c) \/ ToldClosed(c)

Spec == Init /\ [][Next]_vars

=============================================================================
