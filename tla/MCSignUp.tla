------------------------------- MODULE MCSignUp -------------------------------
(***************************************************************************)
(* SignUp on a small instance: one strategy to pick for each purpose.      *)
(***************************************************************************)
EXTENDS SignUp
=============================================================================
