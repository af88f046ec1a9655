------------------------------ MODULE MCCatalogue ------------------------------
(***************************************************************************)
(* Instances of Catalogue for TLC.                                         *)
(***************************************************************************)
EXTENDS Catalogue, TLC

CONSTANT Word

\* A number the sequence of style codes would come to, and a word.
SomeCodes == {2, Word}

\* Vendors offer alike and sessions run the same handler.
Alike == Permutations(Vendors) \cup Permutations(Products) \cup Permutations(Sessions)
         \cup Permutations(Locations)
=============================================================================
