----------------------------- MODULE HOrderPairs -----------------------------
(***************************************************************************)
(* h_cmp on small pairs of histories, against the order of Esparza, Römer  *)
(* and Vogler that it implements: sizes first, then the labels of the      *)
(* history as a sorted word, then the words of its levels one by one.      *)
(***************************************************************************)
EXTENDS HOrder

CONSTANTS Shapes  \* pairs of a number of levels and a number of transitions

(* A node <<d, t, k>> has depth d and label t, and is in one history or in  *)
(* both.  (In one history no two nodes of a level have one label: they     *)
(* would put two tokens into one place.)                                   *)
Nodes(s) == (1..s[1]) \X (1..s[2]) \X {"first", "second", "shared"}
Depth(N) == [x \in N |-> x[1]]
Label(N) == [x \in N |-> x[2]]
Part(N, k) == {x \in N : x[3] \in {k, "shared"}}

(* The nodes of two histories: every node is above one of the same history, *)
(* a shared one above a shared one, and the greatest is alone on its level. *)
IsHistory(P) ==
  /\ \A x, y \in P : x[1] = y[1] /\ x[2] = y[2] => x = y
  /\ \A x \in P : x[1] > 1 => \E y \in P : y[1] = x[1] - 1 /\ y[3] \in {x[3], "shared"}
  /\ \A x \in P : x[1] > 1 /\ x[3] = "shared" => \E y \in P : y[1] = x[1] - 1 /\ y[3] = "shared"
  /\ \E x \in P : \A y \in P \ {x} : y[1] < x[1]

VARIABLES
  P, Q,    \* two histories
  lab, dep,
  order,   \* opt.cutoffs
  result   \* what h_cmp returned, if it did

vars == <<P, Q, lab, dep, order, result>>

Init ==
  \E s \in Shapes : \E N \in SUBSET Nodes(s) :
    /\ IsHistory(Part(N, "first")) /\ IsHistory(Part(N, "second"))
    /\ P = Part(N, "first") /\ Q = Part(N, "second")
    /\ lab = Label(N) /\ dep = Depth(N)
    /\ order \in Orders
    /\ result = <<>>

Compare ==
  /\ result = <<>>
  /\ result' = <<HCmp(P, Q, lab, dep, order)>>
  /\ UNCHANGED <<P, Q, lab, dep, order>>

Spec == Init /\ [][Compare]_vars

-----------------------------------------------------------------------------
Word(L) ==
  LET s == SetToSortSeq(L, LAMBDA x, y : lab[x] < lab[y]) IN [i \in DOMAIN s |-> lab[s[i]]]

(* Of two different words the smaller one.                                 *)
Less(v, w) ==
  \/ \E i \in 1..Len(v) : i <= Len(w) /\ v[i] < w[i] /\ \A j \in 1..(i - 1) : v[j] = w[j]
  \/ Len(v) < Len(w) /\ \A j \in 1..Len(v) : v[j] = w[j]

Kinds(L) == Cardinality({lab[x] : x \in L})

(* The level d of a history in the order of mole: first its number of      *)
(* different labels.                                                       *)
LevelWord(R, d) ==
  LET L == AtDepth(R, dep, d)
  IN  IF order = "mole" THEN <<Kinds(L)>> \o Word(L) ELSE Word(L)

SmallerHistory(R, S) ==
  \/ Cardinality(R) < Cardinality(S)
  \/ /\ Cardinality(R) = Cardinality(S)
     /\ order \in {"parikh", "erv", "mole"}
     /\ \/ Less(Word(R), Word(S))
        \/ /\ Word(R) = Word(S)
           /\ order \in {"erv", "mole"}
           /\ \E d \in 1..Cardinality(R) :
                /\ Less(LevelWord(R, d), LevelWord(S, d))
                /\ \A k \in 1..(d - 1) : LevelWord(R, k) = LevelWord(S, k)

(* h_cmp answers by its sign which history is smaller; its traversal of    *)
(* the shared nodes on some levels only, the comment of _h_cmp_foata says, *)
(* does not matter.                                                        *)
ComparesHistories ==
  result # <<>> => /\ result[1] < 0 <=> SmallerHistory(P, Q)
                   /\ result[1] > 0 <=> SmallerHistory(Q, P)
=============================================================================
