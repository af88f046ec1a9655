------------------------------- MODULE MCAccounts -------------------------------
(***************************************************************************)
(* Instances of Accounts for TLC.                                          *)
(***************************************************************************)
EXTENDS Accounts, TLC

\* Sessions run the same handlers.
SomeSession == Permutations(Sessions)
=============================================================================
