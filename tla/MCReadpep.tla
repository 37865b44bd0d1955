----------------------------- MODULE MCReadpep -----------------------------
(***************************************************************************)
(* Files with few lines, whose numbers exceed the first size of the tables, *)
(* and two that no table can hold.                                         *)
(***************************************************************************)
EXTENDS Readpep

SmallIdents == {-1, 0, 1, 2, 6}
SomeKeywords == {"DPL", "PL", "TR", "TP", "PT", "RA", "TX", "unknown"}
=============================================================================
