------------------------------ MODULE MCSupply ------------------------------
(***************************************************************************)
(* An instance of Supply for TLC.                                          *)
(***************************************************************************)
EXTENDS Supply, TLC

NumberSymmetry == Permutations(Numbers)
=============================================================================
