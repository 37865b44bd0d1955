-------------------------------- MODULE PEBag --------------------------------
(***************************************************************************)
(* What the unfolder needs of the queue of possible extensions: a set of   *)
(* histories from which one leaves that is minimal in the order h_cmp or,  *)
(* in interactive mode, any.  It is the variable queue of Unfolder, with   *)
(* its actions Pop and Pick.                                               *)
(***************************************************************************)
EXTENDS Integers

CONSTANTS Hist

VARIABLES interactive,
          weight,  \* the histories in the order h_cmp: ties have one weight
          new,     \* the histories that did not enter the queue yet
          bag,     \* the queue
          last     \* the one that left last, or 0

vars == <<interactive, weight, new, bag, last>>

Init ==
  /\ interactive \in BOOLEAN
  /\ weight \in [Hist -> Int]
  /\ new = Hist
  /\ bag = {}
  /\ last = 0

Insert(h) ==
  /\ h \in new
  /\ new' = new \ {h}
  /\ bag' = bag \cup {h}
  /\ UNCHANGED <<interactive, weight, last>>

Remove(h) ==
  /\ h \in bag
  /\ interactive \/ \A x \in bag : weight[h] <= weight[x]
  /\ bag' = bag \ {h}
  /\ last' = h
  /\ UNCHANGED <<interactive, weight, new>>

Next == \E h \in Hist : Insert(h) \/ Remove(h)

Spec == Init /\ [][Next]_vars
=============================================================================
