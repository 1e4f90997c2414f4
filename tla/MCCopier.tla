------------------------------- MODULE MCCopier -------------------------------
(***************************************************************************)
(* The copier on small instances: one or two of the master's trades and a  *)
(* few positions at the operator's broker, numbers the copier_*.cfg give.  *)
(* Each trade is one strategy's: what the operator picks decides between   *)
(* them.                                                                   *)
(***************************************************************************)
EXTENDS Copier
=============================================================================
