------------------------------ MODULE MCConsole ------------------------------
(* Instance of Console for TLC: two threads, and one part of the API at a  *)
(* time with what may go wrong there.                                       *)
EXTENDS Console

CONSTANTS r1, r2, s1

MCScenarios ==
  {{"factor", "switches", "toggles", "lost", "restart"},
   {"factor", "lost", "locked", "restart"},
   {"switches", "toggles", "locked"},
   {"toggles", "logins", "restart"},
   {"term", "renewals", "lost", "locked", "restart"},
   {"keys", "term", "restart"},
   {"keys", "lost", "locked", "restart"}}
=============================================================================
