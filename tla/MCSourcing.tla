------------------------------ MODULE MCSourcing ------------------------------
(***************************************************************************)
(* Instances of Sourcing for TLC.                                          *)
(***************************************************************************)
EXTENDS Sourcing, TLC

\* Vendors answer alike and sessions run the same handlers.
Alike == Permutations(Vendors) \cup Permutations(Sessions)
=============================================================================
