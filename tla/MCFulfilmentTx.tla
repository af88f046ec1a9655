--------------------------- MODULE MCFulfilmentTx ---------------------------
(***************************************************************************)
(* Instances of FulfilmentTx for TLC.                                      *)
(***************************************************************************)
EXTENDS FulfilmentTx, MCFulfilment, TLC

\* Sessions run the same handlers and are exchangeable.
SomeSession == Permutations(Sessions)
=============================================================================
