------------------------------ MODULE MCWatchdog ------------------------------
(***************************************************************************)
(* The watchdog with the ratio of its default thresholds kept, in minutes: *)
(* a heartbeat is stale after 3, a broker is given 5, actions are 10 apart.*)
(***************************************************************************)
EXTENDS Watchdog
=============================================================================
