------------------------------ MODULE AmoTree ------------------------------
(***************************************************************************)
(* Cnf::amo_2tree_two_ways of src/sat/cnf.cc: clauses that force at most   *)
(* one of the literals of the vector l, and make p equivalent to their     *)
(* disjunction.  Pairs of literals are replaced by a new variable, layer   *)
(* by layer, until two are left.                                           *)
(*                                                                         *)
(* Variables are numbered from 1 and a literal is a number or its          *)
(* negative, as Lit::to_dimacs prints them.  The first n variables are     *)
(* those of l, the next one is p, and Cnf::new_var hands out the following. *)
(***************************************************************************)
EXTENDS Integers, Sequences

CONSTANT Sizes    \* lengths of the vector

ASSUME SizesAssumption == Sizes \subseteq Nat \ {0}

VARIABLES
  n,        \* the length of the vector, and
  signs,    \* the signs of its literals
  pc,       \* "start", "layer" (head of the while), "pair" (in the for), "done"
  l, laux,  \* the vectors of the code
  i,        \* position in l of the next pair
  next,     \* the next variable
  clauses

vars == <<n, signs, pc, l, laux, i, next, clauses>>

P == n + 1

(* Mutants: the clause for q and r, or the one that bounds s, is left out;  *)
(* p is not bounded.                                                       *)
NodeNoExclusion(s, q, r) == {{-q, s}, {-r, s}, {-s, q, r}}
NodeUnbounded(s, q, r)   == {{-q, -r}, {-q, s}, {-r, s}}
NodeEquals(s, q, r)      == {{-q, -r}, {-q, s}, {-r, s}, {-s, q}}

(* s <=> q v r, and not both q and r.                                      *)
Node(s, q, r) == {{-q, -r}, {-q, s}, {-r, s}, {-s, q, r}}

Single ==
  /\ pc = "start" /\ Len(l) = 1
  /\ clauses' = clauses \cup {{-P, l[1]}, {P, -l[1]}}
  /\ pc' = "done"
  /\ UNCHANGED <<n, signs, l, laux, i, next>>

Begin ==
  /\ pc = "start" /\ Len(l) # 1
  /\ pc' = "layer"
  /\ UNCHANGED <<n, signs, l, laux, i, next, clauses>>

(* Mutant: the literal left over in a layer is lost.                       *)
LayerDrops ==
  /\ pc = "layer" /\ Len(l) # 2
  /\ i' = 1 + (Len(l) % 2)
  /\ laux' = <<>>
  /\ pc' = "pair"
  /\ UNCHANGED <<n, signs, l, next, clauses>>

(* A layer starts; of an odd number of literals the first goes up as it is. *)
Layer ==
  /\ pc = "layer" /\ Len(l) # 2
  /\ i' = 1 + (Len(l) % 2)
  /\ laux' = SubSeq(l, 1, Len(l) % 2)
  /\ pc' = "pair"
  /\ UNCHANGED <<n, signs, l, next, clauses>>

Pair ==
  /\ pc = "pair" /\ i <= Len(l)
  /\ clauses' = clauses \cup Node(next, l[i], l[i + 1])
  /\ laux' = Append(laux, next)
  /\ next' = next + 1
  /\ i' = i + 2
  /\ UNCHANGED <<n, signs, pc, l>>

EndLayer ==
  /\ pc = "pair" /\ i > Len(l)
  /\ l' = laux
  /\ laux' = <<>>
  /\ i' = 1
  /\ pc' = "layer"
  /\ UNCHANGED <<n, signs, next, clauses>>

Root ==
  /\ pc = "layer" /\ Len(l) = 2
  /\ clauses' = clauses \cup Node(P, l[1], l[2])
  /\ pc' = "done"
  /\ UNCHANGED <<n, signs, l, laux, i, next>>

Init ==
  /\ n \in Sizes
  /\ signs \in [1..n -> {-1, 1}]
  /\ pc = "start"
  /\ l = [k \in 1..n |-> signs[k] * k]
  /\ laux = <<>>
  /\ i = 1
  /\ next = n + 2
  /\ clauses = {}

Next == Single \/ Begin \/ Layer \/ Pair \/ EndLayer \/ Root

Spec == Init /\ [][Next]_vars /\ WF_vars(Next)

-----------------------------------------------------------------------------
(* What the clauses say.  An assignment gives a value to every variable     *)
(* that can be used; the tree has fewer than n inner nodes.                *)

Assignments == [1..(2 * n) -> BOOLEAN]
Inputs      == [1..n -> BOOLEAN]

True(a, x) == IF x > 0 THEN a[x] ELSE ~ a[-x]

Models(a) == \A c \in clauses : \E x \in c : True(a, x)

Input(k) == signs[k] * k

AtMostOne(a) ==
  \A j, k \in 1..n : True(a, Input(j)) /\ True(a, Input(k)) => j = k

SomeOne(a) == \E k \in 1..n : True(a, Input(k))

(* The clauses do what their caller counts on: at most one literal of the  *)
(* vector is true and p says whether one is, ...                           *)
Sound ==
  pc = "done" =>
    \A a \in Assignments : Models(a) => AtMostOne(a) /\ (a[P] <=> SomeOne(a))

(* ... and they forbid nothing else, at any time.                          *)
Conservative ==
  \A v \in Inputs : AtMostOne(v) =>
    \E b \in Assignments : /\ \A k \in 1..n : b[k] = v[k]
                           /\ Models(b)

(* The loop ends although it tests for exactly two: a layer of three or    *)
(* more leaves at least two, and no pair reaches over the end of l.        *)
InBounds ==
  /\ Len(l) >= 1
  /\ Len(l) = 1 => n = 1 /\ pc \in {"start", "done"}
  /\ pc = "pair" => (Len(l) - i) % 2 = 1

Terminates == <>(pc = "done")

-----------------------------------------------------------------------------
(* The inductive invariant: the literals that still wait for a parent, in  *)
(* laux and from position i on in l, stand for the whole input.            *)

Among(x, nx, p) == x \in Int /\ x # 0 /\ -nx < x /\ x < nx /\ x # p /\ x # -p

Fresh(x) == Among(x, next, P)

Waiting(k) == IF k <= Len(laux) THEN laux[k] ELSE l[k - Len(laux) + i - 1]

Front == 1..(Len(laux) + Len(l) - i + 1)

TypeOK ==
  /\ n \in Sizes
  /\ signs \in [1..n -> {-1, 1}]
  /\ pc \in {"start", "layer", "pair", "done"}
  /\ l \in Seq(Int) /\ laux \in Seq(Int)
  /\ i \in Nat \ {0} /\ next \in Nat
  /\ clauses \subseteq SUBSET Int

Counts ==
  /\ InBounds
  /\ i <= Len(l) + 1
  /\ pc # "pair" => i = 1 /\ laux = <<>>
  /\ pc = "pair" => 2 * Len(laux) + Len(l) - i + 1 >= 3
  /\ next = 2 * n + 2 - (Len(laux) + Len(l) - i + 1)
  /\ next >= n + 2

Used ==
  /\ \A k \in 1..Len(l) : Fresh(l[k])
  /\ \A k \in 1..Len(laux) : Fresh(laux[k])
  /\ pc # "done" => \A c \in clauses : \A x \in c : Fresh(x)

Stands ==
  pc # "done" =>
    \A a \in Assignments : Models(a) =>
      /\ SomeOne(a) <=> \E k \in Front : True(a, Waiting(k))
      /\ AtMostOne(a) <=>
           \A j, k \in Front : True(a, Waiting(j)) /\ True(a, Waiting(k)) => j = k

IInv == TypeOK /\ Counts /\ Used /\ Stands /\ Sound /\ Conservative
=============================================================================
