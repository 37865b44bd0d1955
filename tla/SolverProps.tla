----------------------------- MODULE SolverProps -----------------------------
(***************************************************************************)
(* What makes the search of Solver correct.                                *)
(***************************************************************************)
EXTENDS Solver

Live == clauses \cup learnts

Assignments == SUBSET Vars
Holds(l, A) == IF l > 0 THEN l \in A ELSE -l \notin A
Satisfies(A, c) == \E l \in Range(c) : Holds(l, A)

Models == {A \in Assignments : \A i \in DOMAIN cnf : Satisfies(A, cnf[i])}

Position(l) == CHOOSE i \in DOMAIN trail : trail[i] = l

(* When all of the trail has been propagated without a conflict, no clause *)
(* is false and none has one literal left: every clause is still found by  *)
(* way of the lists of two of its literals, however often it was moved     *)
(* between lists, and whatever was undone since.                           *)
PropagationComplete ==
  Propagated /\ ok =>
    \A cr \in Live :
      Satisfied(cr) \/ Cardinality({l \in Range(ca[cr]) : ~ IsFalse(l)}) > 1

(* The reason of a literal on the trail is a clause that was not deleted,  *)
(* has the literal in front, and whose other literals became false before, *)
(* one of them on the level of the literal: analyze depends on all of it.  *)
(* Only the decisions, one for a level, and level 0 go without a reason.   *)
ReasonsJustify ==
  \A i \in DOMAIN trail :
    LET v == Var(trail[i])
        r == reason[v]
        others == Range(Tail(ca[r]))
    IN
    IF r = CRef_Undef THEN level[v] = 0 \/ trail_lim[level[v]] = i - 1
    ELSE /\ r \in Live
         /\ ca[r][1] = trail[i]
         /\ \A l \in others : \E j \in 1..i - 1 : trail[j] = -l
         /\ level[v] = Max({level[Var(l)] : l \in others})

(* The learnt clauses and the literals of level 0 hold in every model of   *)
(* the clauses that were added, and what simplify and reduceDB leave still *)
(* says all of it.                                                         *)
KeepsModels ==
  ok =>
    \A A \in Assignments :
      A \in Models <=>
        /\ \A i \in added + 1..Len(cnf) : Satisfies(A, cnf[i])
        /\ \A cr \in Live : Satisfies(A, ca[cr])
        /\ \A i \in DOMAIN trail : level[Var(trail[i])] = 0 => Holds(trail[i], A)

(* The answer is the right one, with a model in the case of SAT: no        *)
(* variable a clause depends on was forgotten.                             *)
Answers ==
  pc = "done" => IF result = "SAT" THEN model \in Models ELSE Models = {}
=============================================================================
