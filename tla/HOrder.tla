------------------------------- MODULE HOrder -------------------------------
(***************************************************************************)
(* h_cmp of src/cunf/h.c: the order in which histories leave the queue of  *)
(* possible extensions and that decides which of two histories with equal  *)
(* markings is the cutoff.                                                 *)
(*                                                                         *)
(* A history is the set of nodes of the history graph reachable from it    *)
(* (itself included); lab[x] is the transition that labels the event of    *)
(* node x and dep[x] its depth.  Results are read by their sign only.      *)
(***************************************************************************)
EXTENDS Integers, Sequences, FiniteSets, SequencesExt

Orders == {"mcm", "parikh", "erv", "mole", "none"}

(* have_total_order of marking.c *)
HasTotalOrder(order) == order \in {"erv", "mole"}

-----------------------------------------------------------------------------
(* The Parikh vector h_marking stores: one entry per transition that       *)
(* occurs, sorted by its number.                                           *)
Count(P, lab, t) == Cardinality({x \in P : lab[x] = t})

ParikhVector(P, lab) ==
  LET ts    == {lab[x] : x \in P}
      nth(i) == CHOOSE t \in ts : Cardinality({u \in ts : u < t}) = i - 1
  IN  [i \in 1..Cardinality(ts) |-> [t |-> nth(i), count |-> Count(P, lab, nth(i))]]

(* Mutant: a comparison that answers "greater or not".                     *)
CmpParikhBoolean(v1, v2) ==
  LET min  == IF Len(v1) < Len(v2) THEN Len(v1) ELSE Len(v2)
      diff == {i \in 1..min : v1[i] # v2[i]}
      i    == CHOOSE j \in diff : \A k \in diff : j <= k
  IN  IF diff # {} /\ v1[i].t > v2[i].t THEN 1 ELSE 0

CmpParikh(v1, v2) ==
  LET min  == IF Len(v1) < Len(v2) THEN Len(v1) ELSE Len(v2)
      diff == {i \in 1..min : v1[i] # v2[i]}
      i    == CHOOSE j \in diff : \A k \in diff : j <= k
  IN  IF diff = {} THEN 0
      ELSE IF v1[i].t # v2[i].t THEN v1[i].t - v2[i].t
      ELSE IF v2[i].count > v1[i].count
           THEN IF i < Len(v1) THEN 1 ELSE -1
           ELSE IF i < Len(v2) THEN -1 ELSE 1

-----------------------------------------------------------------------------
(* _h_lists: the nodes of one history only, and the shared ones.           *)
Lists(P, Q) == [l1 |-> P \ Q, l2 |-> Q \ P, l12 |-> P \cap Q]

AtDepth(L, dep, d) == {x \in L : dep[x] = d}

(* Mutant: the shared nodes of a level are never counted.                  *)
CmpLevelOwnOnly(P, Q, lab, dep, d, mole) ==
  LET own == AtDepth(P \ Q, dep, d) \cup AtDepth(Q \ P, dep, d)
      l   == {lab[x] : x \in own}
      c1  == [t \in l |-> Count(AtDepth(P \ Q, dep, d), lab, t)]
      c2  == [t \in l |-> Count(AtDepth(Q \ P, dep, d), lab, t)]
      diff  == {t \in l : c1[t] # c2[t]}
      first == CHOOSE t \in diff : \A u \in diff : t <= u
      found == c1[first] - c2[first]
  IN  IF diff = {} THEN 0
      ELSE IF (found < 0 /\ \E t \in l : t > first /\ c1[t] # 0)
                \/ (found > 0 /\ \E t \in l : t > first /\ c2[t] # 0) THEN - found
      ELSE found

(* The list l of labels of level d.  The shared nodes are looked at only   *)
(* where another node is (or for mole), which is the optimisation that the *)
(* comment of the code justifies.                                          *)
LevelLabels(P, Q, lab, dep, d, mole) ==
  LET ls  == Lists(P, Q)
      own == AtDepth(ls.l1 \cup ls.l2, dep, d)
  IN  {lab[x] : x \in own \cup
         (IF own # {} \/ mole THEN AtDepth(ls.l12, dep, d) ELSE {})}

(* The first label of l that does not occur equally often, and what comes  *)
(* after it.                                                               *)
CmpCounts(l, c1, c2) ==
  LET diff  == {t \in l : c1[t] # c2[t]}
      first == CHOOSE t \in diff : \A u \in diff : t <= u
      found == c1[first] - c2[first]
      later(c) == \E t \in l : t > first /\ c[t] # 0
  IN  IF diff = {} THEN 0
      ELSE IF (found < 0 /\ later(c1)) \/ (found > 0 /\ later(c2)) THEN - found
      ELSE found

(* One round of the loop of _h_cmp_foata, for level d.                     *)
CmpLevel(P, Q, lab, dep, d, mole) ==
  LET l   == LevelLabels(P, Q, lab, dep, d, mole)
      c1  == [t \in l |-> Count(AtDepth(P, dep, d), lab, t)]
      c2  == [t \in l |-> Count(AtDepth(Q, dep, d), lab, t)]
      kinds == IF mole THEN Cardinality({t \in l : c1[t] > 0})
                            - Cardinality({t \in l : c2[t] > 0})
               ELSE 0
  IN  IF kinds # 0 THEN kinds ELSE CmpCounts(l, c1, c2)

CmpFoata(P, Q, lab, dep, mole) ==
  LET ls    == Lists(P, Q)
      Left(L, d) == \E x \in L : dep[x] >= d
      run   == {d \in 1..(1 + Cardinality(P) + Cardinality(Q)) :
                   Left(ls.l1, d) /\ Left(ls.l2, d)}
      found == {d \in run : CmpLevel(P, Q, lab, dep, d, mole) # 0}
      d1    == CHOOSE d \in found : \A k \in found : d <= k
      stop  == 1 + Cardinality(run)
  IN  IF found # {} THEN CmpLevel(P, Q, lab, dep, d1, mole)
      ELSE IF Left(ls.l1, stop) THEN 1
      ELSE IF Left(ls.l2, stop) THEN -1
      ELSE 0

-----------------------------------------------------------------------------
HCmp(P, Q, lab, dep, order) ==
  LET parikh == CmpParikh(ParikhVector(P, lab), ParikhVector(Q, lab))
  IN  IF Cardinality(P) # Cardinality(Q) THEN Cardinality(P) - Cardinality(Q)
      ELSE IF order \in {"mcm", "none"} THEN 0
      ELSE IF parikh # 0 THEN parikh
      ELSE IF order = "parikh" THEN 0
      ELSE CmpFoata(P, Q, lab, dep, order = "mole")
=============================================================================
