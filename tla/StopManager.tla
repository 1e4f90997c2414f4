---------------------------- MODULE StopManager ----------------------------
(***************************************************************************)
(* Breakeven and trailing stop (src/execution/stops.py), in whole units of *)
(* price.  The order the bot passes was rebuilt from the broker's position *)
(* a moment ago (mt5_live.open_orders), so its extra is empty: R is the    *)
(* distance to the stop of this moment, and the best price is the one of   *)
(* the last bar.                                                           *)
(***************************************************************************)
EXTENDS Integers

CONSTANTS BreakevenR, TrailStartR, TrailDistanceR   \* StopPolicy: 1, 2, 1

ASSUME StopPolicyAssumption ==
  /\ BreakevenR \in Nat /\ TrailStartR \in Nat /\ TrailDistanceR \in Nat
  /\ TrailDistanceR <= TrailStartR

Sides == {"BUY", "SELL"}

\* How far price q lies on the winning side of price p.
Ahead(side, p, q) == IF side = "BUY" THEN q - p ELSE p - q

\* The price that lies d ahead of p.
Shifted(side, p, d) == IF side = "BUY" THEN p + d ELSE p - d

\* update_peak on an order without extra.
Peak(side, bar) == IF side = "BUY" THEN bar.high ELSE bar.low

StopRisk(entry, stop) == IF entry > stop THEN entry - stop ELSE stop - entry

\* _target_stop: trailing comes before breakeven; a stop that is to stay is its
\* own target.
TargetStop(side, entry, stop, peak) ==
  LET risk == StopRisk(entry, stop)
      gain == Ahead(side, entry, peak)
  IN IF gain >= TrailStartR * risk THEN Shifted(side, peak, -(TrailDistanceR * risk))
     ELSE IF gain >= BreakevenR * risk THEN entry ELSE stop

\* Mutant: without the ratchet.
ProposedStopLoose(side, entry, stop, peak) ==
  IF StopRisk(entry, stop) = 0 THEN stop ELSE TargetStop(side, entry, stop, peak)

\* proposed_stop: the new stop, or the present one when there is none.
ProposedStop(side, entry, stop, peak) ==
  LET target == TargetStop(side, entry, stop, peak)
  IN IF StopRisk(entry, stop) > 0 /\ Ahead(side, stop, target) > 0 THEN target ELSE stop

\* _close_trigger: whether the last bar touched a level, the stop before the target.
Hit(side, stop, target, bar) ==
  LET worst == IF side = "BUY" THEN bar.low ELSE bar.high
  IN CASE Ahead(side, stop, worst) <= 0 -> "stop"
       [] Ahead(side, stop, worst) > 0 /\ Ahead(side, target, Peak(side, bar)) >= 0 -> "target"
       [] OTHER -> "none"

=============================================================================
