---------------------------- MODULE MCFulfilment ----------------------------
(***************************************************************************)
(* Instances of Fulfilment and Screens for TLC.                            *)
(***************************************************************************)
EXTENDS Screens

\* Stock found that was never counted, and a loss written down too far.
SomeAdjustments == {<<1, 0>>, <<-1, -2>>}
=============================================================================
