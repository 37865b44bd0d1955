----------------------------- MODULE MCAmoTree -----------------------------
(* Vectors of up to six literals of either sign.                           *)
EXTENDS AmoTree

UpToSix == 1..6
=============================================================================
