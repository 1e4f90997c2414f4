------------------------------ MODULE MCAccounts ------------------------------
(***************************************************************************)
(* Accounts on small instances.  Requests, AD-IDs, handlers and setup      *)
(* links are interchangeable.                                              *)
(***************************************************************************)
EXTENDS Accounts, TLC

MCSymmetry ==
  Permutations(Requests) \cup Permutations(AdIds)
    \cup Permutations(Handlers) \cup Permutations(Links)

=============================================================================
