------------------------------- MODULE MCSupport -------------------------------
(***************************************************************************)
(* Instances of Support for TLC.                                           *)
(***************************************************************************)
EXTENDS Support

\* A ticket falls due before anybody need act on it.
Pressing == [urgent |-> 0]
=============================================================================
