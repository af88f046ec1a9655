-------------------------------- MODULE Ledgers --------------------------------
(***************************************************************************)
(* Adding up a column: the sum of the counts in a column is the number of  *)
(* the units they count, one pair for each.                                *)
(***************************************************************************)
EXTENDS Integers, FiniteSets

Units(count) == UNION {{i} \X (1..count[i]) : i \in DOMAIN count}
Tally(count) == Cardinality(Units(count))
=============================================================================
