------------------------------- MODULE PEQueue -------------------------------
(***************************************************************************)
(* The queue of possible extensions of src/cunf/pe.c: a heap in an array,  *)
(* from position 1, that grows and shrinks by reallocation; in interactive *)
(* mode the same array without an order.  One iteration of the loops of    *)
(* _pe_q_insert and of pe_pop is one step.                                 *)
(*                                                                         *)
(* The branch of _pe_q_insert for u.stoptr and the flag skip are left out: *)
(* u.stoptr is always null (cunf.cc:425) and nothing calls pe_skip.        *)
(***************************************************************************)
EXTENDS Integers

CONSTANTS
  MaxHist,  \* histories are numbered 1..MaxHist in the order of insertion
  Inputs    \* opt.interactive, and the places of the histories in the order
            \* h_cmp: histories it holds for equal have one weight

Hist == 1..MaxHist

ASSUME MaxHistAssumption == MaxHist \in Nat
ASSUME InputsAssumption ==
  Inputs \subseteq [interactive : BOOLEAN, weight : [Hist -> Int]]

VARIABLES
  interactive, weight,
  next,           \* the history to be inserted next
  tab, cap, size, \* pe.q.tab, the slots allocated for it (0..cap-1), pe.q.size
  pc,             \* "idle", "up" in _pe_q_insert, "down" in pe_pop, "quit"
  hole,           \* idx, the position to be filled, 0 when idle
  carry,          \* h of _pe_q_insert and lst of pe_pop, 0 when idle
  last            \* what pe_pop returned last, or 0

input   == <<interactive, weight>>
array   == <<tab, cap, size>>
loop    == <<pc, hole, carry>>
vars    == <<input, next, array, loop, last>>

-----------------------------------------------------------------------------
(* n & (n - 1) = 0, for n > 0: no odd number but 1 divides n.              *)
PowerOf2(n) == \A d, q \in 1..n : n = d * q => d = 1 \/ d % 2 = 0

(* _pe_q_alloc for the incremented size n, which is never 0: the slots     *)
(* there are afterwards, and the array, with 0 in the fresh slots.         *)
Slots(n) == IF PowerOf2(n) THEN 2 * n ELSE cap
Grown(n) == [i \in 0..(Slots(n) - 1) |-> IF i < cap THEN tab[i] ELSE 0]

(* Mutant: the parent off by one.                                          *)
ParentOff(i) == (i + 1) \div 2

Parent(i) == i \div 2

(* The smaller child of i, which is not a leaf.                            *)
Smaller(i) ==
  IF 2 * i < size /\ weight[tab[2 * i]] > weight[tab[2 * i + 1]] THEN 2 * i + 1 ELSE 2 * i

Fill ==
  /\ tab' = [tab EXCEPT ![hole] = carry]
  /\ pc' = "idle" /\ hole' = 0 /\ carry' = 0
  /\ UNCHANGED <<input, next, cap, size, last>>

Shift(i) ==
  /\ tab' = [tab EXCEPT ![hole] = tab[i]]
  /\ hole' = i
  /\ UNCHANGED <<input, next, cap, size, pc, carry, last>>

(* The next history arrives: _pe_q_insert up to its loop, and whole in     *)
(* interactive mode (_pe_q_insert_interactive).                            *)
Insert ==
  /\ pc = "idle"
  /\ next \in Hist
  /\ next' = next + 1
  /\ size' = size + 1
  /\ cap' = Slots(size + 1)
  /\ IF interactive
     THEN /\ tab' = [Grown(size + 1) EXCEPT ![size + 1] = next]
          /\ UNCHANGED loop
     ELSE /\ tab' = Grown(size + 1)
          /\ pc' = "up" /\ hole' = size + 1 /\ carry' = next
  /\ UNCHANGED <<input, last>>

(* The loop of _pe_q_insert, and the assignment after it.                  *)
Above == hole > 1 /\ weight[carry] <= weight[tab[Parent(hole)]]
Up    == pc = "up" /\ IF Above THEN Shift(Parent(hole)) ELSE Fill

(* pe_pop up to its loop; the loop, and the assignment after it.           *)
Pop ==
  /\ pc = "idle" /\ ~ interactive
  /\ size > 0
  /\ last'  = tab[1]
  /\ carry' = tab[size]
  /\ size'  = size - 1
  /\ hole'  = 1
  /\ pc'    = "down"
  /\ UNCHANGED <<input, next, tab, cap>>

BelowChild == 2 * hole <= size /\ weight[carry] > weight[tab[Smaller(hole)]]
Down == pc = "down" /\ IF BelowChild THEN Shift(Smaller(hole)) ELSE Fill

(* Mutant: the last history always goes to the first position.             *)
GapFirst(i) == [tab EXCEPT ![1] = tab[size]]

CloseGap(i) == [tab EXCEPT ![i] = tab[size]]

(* _pe_interactive_shell: the history that the user names by its event, or  *)
(* the end.  (Of several histories of one event the user gets the first in *)
(* the array; which these are is left open here.)                          *)
Select ==
  /\ pc = "idle" /\ interactive
  /\ \E i \in 1..size : /\ last' = tab[i]
                        /\ tab' = CloseGap(i)
  /\ size' = size - 1
  /\ UNCHANGED <<input, next, cap, loop>>

Quit ==
  /\ pc = "idle" /\ interactive
  /\ size > 0
  /\ pc' = "quit"
  /\ UNCHANGED <<input, next, array, hole, carry, last>>

Init ==
  /\ \E in \in Inputs : interactive = in.interactive /\ weight = in.weight
  /\ next = 1
  /\ tab = [i \in {} |-> 0] /\ cap = 0 /\ size = 0
  /\ pc = "idle" /\ hole = 0 /\ carry = 0
  /\ last = 0

Next == Insert \/ Up \/ Pop \/ Down \/ Select \/ Quit

Spec == Init /\ [][Next]_vars

-----------------------------------------------------------------------------
(* Properties.                                                             *)

(* The positions in use, and the histories in the queue.                   *)
Used == (1..size) \ {hole}
Contents == {tab[i] : i \in Used} \cup (IF hole \in 1..size THEN {carry} ELSE {})

TypeOK ==
  /\ interactive \in BOOLEAN /\ weight \in [Hist -> Int]
  /\ next \in 1..(MaxHist + 1)
  /\ size \in Nat /\ cap \in Nat
  /\ tab \in [0..(cap - 1) -> Nat]
  /\ pc \in {"idle", "up", "down", "quit"}
  /\ {hole, carry, last} \subseteq Nat

(* Invariants 1 to 3 of the comment: there is a slot for the position that *)
(* is written next, and the one after the last reallocation never ends     *)
(* before it -- although the array shrinks when the queue refills.         *)
Room ==
  /\ cap = 0 => size = 0 /\ pc = "idle"
  /\ cap > 0 => size < cap /\ hole < cap /\ PowerOf2(cap)

(* Each history is in one position only, or in hand.                       *)
Distinct ==
  /\ \A i \in Used : tab[i] \in 1..(next - 1)
  /\ \A i, j \in Used : tab[i] = tab[j] => i = j
  /\ hole # 0 => carry \in 1..(next - 1)
  /\ hole \in 1..size => \A i \in Used : tab[i] # carry

(* Invariant 4 of the comment, with the gap that the loops move.           *)
Edge(i, j) == j = 2 * i \/ j = 2 * i + 1

HeapOrder ==
  ~ interactive =>
    \A i, j \in 1..size :
      Edge(i, j) /\ hole \notin {i, j} => weight[tab[i]] <= weight[tab[j]]

(* What the loops keep around the gap.                                     *)
Gap ==
  /\ pc \in {"idle", "quit"} <=> hole = 0
  /\ pc \in {"up", "down"} => ~ interactive /\ hole \in 1..(size + 1)
  /\ pc = "up" => hole <= size /\ \A j \in 1..size :
                    Edge(hole, j) => weight[carry] <= weight[tab[j]]
  /\ pc = "down" => (hole = 1 \/ hole <= size) /\ \A i \in 1..size :
                    Edge(i, hole) => weight[tab[i]] <= weight[carry]
  /\ \A i, j \in 1..size : Edge(i, hole) /\ Edge(hole, j)
                             => weight[tab[i]] <= weight[tab[j]]

IInv == TypeOK /\ Room /\ Distinct /\ HeapOrder /\ Gap

(* The array is a set of histories from which a minimal one leaves.        *)
Bag == INSTANCE PEBag WITH new <- next..MaxHist, bag <- Contents
BagSpec == Bag!Spec
=============================================================================
