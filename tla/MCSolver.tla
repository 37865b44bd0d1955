------------------------------ MODULE MCSolver ------------------------------
(***************************************************************************)
(* Small formulas for the solver.                                          *)
(***************************************************************************)
EXTENDS SolverProps

(* Formulas over three variables with all of a set of signs.               *)
Clauses3 == [i \in 0..7 |->
  <<IF i % 2 = 0 THEN 1 ELSE -1, IF (i \div 2) % 2 = 0 THEN 2 ELSE -2,
    IF i \div 4 = 0 THEN 3 ELSE -3>>]

Listed(S) == FoldSet(LAMBDA x, l : Append(l, x), <<>>, S)

(* A cube with some of its corners: the symmetries of the cube rename the  *)
(* variables and swap signs.                                               *)
Bit(i, k) == (i \div 2^k) % 2

Symmetries ==
  LET perms == {f \in [0..2 -> 0..2] : Range(f) = 0..2} IN
  {[i \in 0..7 |-> SumSet({2^f[k] * ((Bit(i, k) + Bit(x, k)) % 2) : k \in 0..2})] :
     f \in perms, x \in 0..7}

Number(I) == SumSet({2^i : i \in I})

Corners ==
  {I \in SUBSET (0..7) : \A g \in Symmetries : Number(I) <= Number({g[i] : i \in I})}

Ternary == {LET is == Listed(I) IN [k \in DOMAIN is |-> Clauses3[is[k]]] : I \in Corners}

(* Three pigeons, two holes.                                               *)
Pigeons ==
  << <<1, 2>>, <<3, 4>>, <<5, 6>>, <<-1, -3>>, <<-1, -5>>, <<-3, -5>>,
     <<-2, -4>>, <<-2, -6>>, <<-4, -6>> >>

(* Clauses that are repeated, valid, satisfied and shortened when they are *)
(* added, and a unit clause late.                                          *)
Units ==
  << <<1, 2, 3>>, <<2, -1, 2, 3>>, <<1, -1, 4>>, <<-4, 3, 2>>, <<4>>, <<-4, -2>>,
     <<4, 3>>, <<-3, 1, -4>> >>

Failing == << <<1, 2>>, <<1, -2, 3>>, <<-3, 1>>, <<-1>>, <<2, 3>> >>

Contradictory == << <<1, 2>>, <<-1>>, <<-2, 3>>, <<-3>>, <<1, 3>>, <<2>> >>

Empty == << <<>> >>

(* A literal of a learnt clause whose reason is a decision outside of it.  *)
Chain == << <<-1, 2>>, <<-3, -2, 4>>, <<-3, -2, -4>> >>

(* A learnt clause of three literals.                                      *)
Long == << <<1, 2, 3, 4>>, <<1, 2, 3, -4>>, <<-1, 2, -3, 4>> >>

Small == Ternary \cup {Pigeons, Units, Failing, Chain, Long, Contradictory, Empty}
=============================================================================
