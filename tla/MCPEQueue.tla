----------------------------- MODULE MCPEQueue -----------------------------
(***************************************************************************)
(* The queue of possible extensions and the order it goes by.  Either      *)
(* small queues are at work: every assignment of weights to the histories, *)
(* with ties, and the interactive mode, where weights play no role.  Or    *)
(* two histories are compared, and the queue stays empty.                  *)
(***************************************************************************)
EXTENDS PEQueue

SmallInputs ==
  [interactive : {FALSE}, weight : [Hist -> 0..2]]
    \cup [interactive : {TRUE}, weight : [Hist -> {0}]]

(* Two levels of three transitions, or three levels of two.                *)
SmallShapes == {<<2, 3>>, <<3, 2>>}

VARIABLES P, Q, lab, dep, order, result

pair == <<P, Q, lab, dep, order, result>>

Pairs == INSTANCE HOrderPairs WITH Shapes <- SmallShapes

NoPair == P = {} /\ Q = {} /\ lab = <<>> /\ dep = <<>> /\ order = "none" /\ result = <<>>

MCInit == Init /\ (NoPair \/ (interactive /\ Pairs!Init))

Queue   == P = {} /\ Next /\ UNCHANGED pair
Compare == P # {} /\ Pairs!Compare /\ UNCHANGED vars

MCSpec == MCInit /\ [][Queue \/ Compare]_<<vars, pair>>

(* h_cmp, which the queue calls, answers by its sign which history is      *)
(* smaller in the order defined on words in HOrderPairs.                   *)
ComparesHistories == Pairs!ComparesHistories
=============================================================================
