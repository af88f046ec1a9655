-------------------------------- MODULE MCStore --------------------------------
(***************************************************************************)
(* Instances of Store for TLC.                                             *)
(***************************************************************************)
EXTENDS Store, TLC

\* Sessions run the same handlers.
SomeSession == Permutations(Sessions)
=============================================================================
