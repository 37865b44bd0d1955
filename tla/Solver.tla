------------------------------- MODULE Solver -------------------------------
(***************************************************************************)
(* The SAT solver that comes with the program (src/minisat/core/Solver.cc) *)
(* as Msat of src/sat/cnf_minisat.cc uses it: clauses are added, simplify  *)
(* and solveLimited are called once, there are no assumptions, no budget   *)
(* and no released variables.                                              *)
(*                                                                         *)
(* A literal is a variable or its negative.  The heuristics are left open: *)
(* activities decide which variable is tried and which learnt clauses are  *)
(* dropped, a limit on their number when, saved phases decide the sign of  *)
(* a variable, and a count of propagations delays the simplification.      *)
(* Clauses keep their place: the garbage collector, which moves them, is   *)
(* left out.                                                               *)
(***************************************************************************)
EXTENDS Integers, Sequences, FiniteSets, SequencesExt, FiniteSetsExt

CONSTANTS
  Formulas,            \* sequences of clauses, which are sequences of literals
  restart_first,       \* option -rfirst
  MaxRestarts          \* bound of the model

(* A clause is a sequence of literals, a variable is positive.             *)
ASSUME FormulasAssumption ==
  /\ Formulas \subseteq Seq(Seq(Int \ {0}))
  /\ restart_first \in Nat /\ MaxRestarts \in Nat

VARIABLES
  cnf,                     \* the clauses of the caller; they outlive simplify
  pc, added, ok, result, model,
  ca, clauses, learnts,    \* all clauses, and the ones in the two lists
  removed,                 \* clauses marked as deleted
  watches, dirty, todo,    \* todo: what propagate still has to visit of a list
  trail, trail_lim, qhead, reason, level,
  order_heap, confl, an,   \* an: what analyze works on
  simpDB_assigns, curr_restarts, conflictC

input  == <<cnf, added, ok>>
answer == <<result, model>>
base   == <<ca, clauses, learnts, removed>>
lists  == <<watches, dirty, todo>>
asgn   == <<trail, trail_lim, qhead, reason, level>>
limits == <<simpDB_assigns, curr_restarts, conflictC>>
vars   == <<input, pc, answer, base, lists, asgn, order_heap, confl, an, limits>>

Var(l) == IF l > 0 THEN l ELSE -l

VarsOf(f)  == {Var(l) : l \in UNION {Range(f[i]) : i \in DOMAIN f}}
Vars       == VarsOf(cnf)
Literals   == Vars \cup {-v : v \in Vars}

IsTrue(l)  == l \in Range(trail)
IsFalse(l) == -l \in Range(trail)

decisionLevel == Len(trail_lim)
CRef_Undef == 0

Propagated == qhead = Len(trail) /\ todo = <<>> /\ confl = CRef_Undef

(* The members of the sequence s that are in S, in their order.            *)
Among(s, S) ==
  LET among[i \in 0..Len(s)] ==
        IF i = 0 THEN <<>>
        ELSE IF s[i] \in S THEN Append(among[i - 1], s[i]) ELSE among[i - 1]
  IN  among[Len(s)]

uncheckedEnqueue(p, from, lv, tr) ==
  /\ trail'  = Append(tr, p)
  /\ reason' = [reason EXCEPT ![Var(p)] = from]
  /\ level'  = [level EXCEPT ![Var(p)] = lv]

(* Watch lists ws with a new clause cr, in the lists of its first two      *)
(* literals.                                                               *)
Attached(ws, c, cr) ==
  LET one == [ws EXCEPT ![-c[1]] = Append(@, [cref |-> cr, blocker |-> c[2]])]
  IN  [one EXCEPT ![-c[2]] = Append(@, [cref |-> cr, blocker |-> c[1]])]

-----------------------------------------------------------------------------
(* addClause_: false literals are dropped and the clause with a true one,  *)
(* or with a literal and its complement, too; the rest is sorted.          *)

Kept(ps) == {l \in Range(ps) : ~ IsFalse(l)}

Redundant(ps) == \E l \in Range(ps) : IsTrue(l) \/ -l \in Range(ps)

Sorted(S) ==
  {c \in [1..Cardinality(S) -> S] :
     Range(c) = S /\ \A i, j \in DOMAIN c : i < j => Var(c[i]) < Var(c[j])}

AddClause ==
  /\ pc = "add" /\ added < Len(cnf) /\ Propagated
  /\ added' = added + 1
  /\ \/ /\ ~ ok \/ Redundant(cnf[added + 1])
        /\ UNCHANGED <<ok, base, watches, asgn>>
     \/ /\ ok /\ ~ Redundant(cnf[added + 1])
        /\ \E c \in Sorted(Kept(cnf[added + 1])) :
             \/ /\ Len(c) = 0
                /\ ok' = FALSE
                /\ UNCHANGED <<base, watches, asgn>>
             \/ /\ Len(c) = 1
                /\ uncheckedEnqueue(c[1], CRef_Undef, 0, trail)
                /\ UNCHANGED <<ok, base, watches, trail_lim, qhead>>
             \/ /\ Len(c) > 1
                /\ ca' = Append(ca, c)
                /\ clauses' = clauses \cup {Len(ca) + 1}
                /\ watches' = Attached(watches, c, Len(ca) + 1)
                /\ UNCHANGED <<ok, learnts, removed, asgn>>
  /\ UNCHANGED <<cnf, pc, answer, dirty, todo, order_heap, confl, an, limits>>

(* The propagation of a unit clause has failed.                            *)
Contradiction ==
  /\ pc = "add" /\ confl # CRef_Undef
  /\ ok' = FALSE /\ confl' = CRef_Undef
  /\ UNCHANGED <<cnf, added, pc, answer, base, lists, asgn, order_heap, an, limits>>

EndAdding ==
  /\ pc = "add" /\ added = Len(cnf) /\ Propagated
  /\ pc' = "presolve"
  /\ UNCHANGED <<input, answer, base, lists, asgn, order_heap, confl, an, limits>>

-----------------------------------------------------------------------------
(* propagate: the next literal p of the trail is taken off the queue, and  *)
(* the clauses that watch -p are visited one by one.  They are satisfied,  *)
(* find another literal to watch, or are unit or false.                    *)

Swap(c, i, j) == [c EXCEPT ![i] = c[j], ![j] = c[i]]

(* lookup takes deleted clauses off a list where that is due.              *)
lookup(p) ==
  IF p \in dirty THEN Among(watches[p], {w \in Range(watches[p]) : w.cref \notin removed})
  ELSE watches[p]

Propagate ==
  /\ qhead < Len(trail) /\ todo = <<>> /\ confl = CRef_Undef
  /\ \E p \in {trail[qhead + 1]} :
       /\ todo' = lookup(p)
       /\ watches' = [watches EXCEPT ![p] = <<>>]
       /\ dirty' = dirty \ {p}
  /\ qhead' = qhead + 1
  /\ UNCHANGED <<input, pc, answer, base, trail, trail_lim, reason, level, order_heap, confl,
                 an, limits>>

(* A visited clause, the false literal in the second place.                *)
Turned(c, p) == IF c[1] = -p THEN Swap(c, 1, 2) ELSE c

Free(c) == {k \in 3..Len(c) : ~ IsFalse(c[k])}

(* The watcher w stays in the list of p.                                   *)
Pass(p, w) ==
  /\ watches' = [watches EXCEPT ![p] = Append(@, w)]
  /\ todo' = Tail(todo)

(* Mutant: the watchers behind the one of a conflict are not copied.       *)
PassAllLost(p, w) ==
  /\ watches' = [watches EXCEPT ![p] = Append(@, w)]
  /\ todo' = <<>>

PassAll(p, w) ==
  /\ watches' = [watches EXCEPT ![p] = Append(@, w) \o Tail(todo)]
  /\ todo' = <<>>

VisitSatisfied(p, w) ==
  /\ IsTrue(w.blocker)
  /\ Pass(p, w)
  /\ UNCHANGED <<ca, asgn, confl>>

(* A watcher of the clause cr with another blocker is called w, c is the   *)
(* clause with the false literal in the second place.                      *)
VisitTrue(p, cr, c, w) ==
  /\ IsTrue(c[1])
  /\ ca' = [ca EXCEPT ![cr] = c]
  /\ Pass(p, w)
  /\ UNCHANGED <<asgn, confl>>

VisitMove(cr, c, w) ==
  /\ ~ IsTrue(c[1]) /\ Free(c) # {}
  /\ \E k \in {Min(Free(c))} :
       /\ ca' = [ca EXCEPT ![cr] = Swap(c, 2, k)]
       /\ watches' = [watches EXCEPT ![-c[k]] = Append(@, w)]
  /\ todo' = Tail(todo)
  /\ UNCHANGED <<asgn, confl>>

VisitUnit(p, cr, c, w) ==
  /\ ~ IsTrue(c[1]) /\ ~ IsFalse(c[1]) /\ Free(c) = {}
  /\ ca' = [ca EXCEPT ![cr] = c]
  /\ Pass(p, w)
  /\ uncheckedEnqueue(c[1], cr, decisionLevel, trail)
  /\ UNCHANGED <<trail_lim, qhead, confl>>

VisitFalse(p, cr, c, w) ==
  /\ IsFalse(c[1]) /\ Free(c) = {}
  /\ ca' = [ca EXCEPT ![cr] = c]
  /\ PassAll(p, w)
  /\ confl' = cr
  /\ qhead' = Len(trail)
  /\ UNCHANGED <<trail, trail_lim, reason, level>>

Visit ==
  /\ todo # <<>>
  /\ \E w \in {Head(todo)}, p \in {trail[qhead]} :
       \/ VisitSatisfied(p, w)
       \/ /\ ~ IsTrue(w.blocker)
          /\ \E c \in {Turned(ca[w.cref], p)} :
             \E w1 \in {[cref |-> w.cref, blocker |-> c[1]]} :
               \/ VisitTrue(p, w.cref, c, w1)
               \/ VisitMove(w.cref, c, w1)
               \/ VisitUnit(p, w.cref, c, w1)
               \/ VisitFalse(p, w.cref, c, w1)
  /\ UNCHANGED <<input, pc, answer, clauses, learnts, removed, dirty, order_heap, an, limits>>

-----------------------------------------------------------------------------
(* analyze: resolution backwards along the trail until one literal of the  *)
(* current level is left, an.p.  an.seen are the variables in question,    *)
(* an.pathC how many of them are of the current level.                     *)

Idle == [p |-> 0, index |-> 0, seen |-> {}, pathC |-> 0, out |-> <<>>, confl |-> CRef_Undef]

Analyze ==
  /\ pc = "search" /\ confl # CRef_Undef /\ decisionLevel > 0
  /\ an' = [Idle EXCEPT !.index = Len(trail), !.confl = confl]
  /\ pc' = "analyze"
  /\ UNCHANGED <<input, answer, base, lists, asgn, order_heap, confl, limits>>

(* The literals of the clause an.confl that are new to the analysis.       *)
New ==
  {q \in Range(IF an.p = 0 THEN ca[an.confl] ELSE Tail(ca[an.confl])) :
     Var(q) \notin an.seen /\ level[Var(q)] > 0}

Resolve ==
  /\ pc = "analyze"
  /\ LET now  == {q \in New : level[Var(q)] >= decisionLevel}
         seen == an.seen \cup {Var(q) : q \in New}
     IN
     \E i \in {Max({k \in 1..an.index : Var(trail[k]) \in seen})} :
       /\ an' = [p |-> trail[i], index |-> i - 1, seen |-> seen \ {Var(trail[i])},
                 pathC |-> an.pathC + Cardinality(now) - 1,
                 out |-> an.out \o Among(ca[an.confl], New \ now),
                 confl |-> reason[Var(trail[i])]]
       /\ pc' = IF an.pathC + Cardinality(now) > 1 THEN "analyze" ELSE "learn"
  /\ UNCHANGED <<input, answer, base, lists, asgn, order_heap, confl, limits>>

(* Mutant: a decision is no local reason to keep a literal.                *)
litRedundantAny ==
  an.seen \cap UNION {S \in SUBSET Vars : \A v \in S :
    reason[v] # CRef_Undef =>
      \A l \in Range(Tail(ca[reason[v]])) : level[Var(l)] = 0 \/ Var(l) \in an.seen \cup S}

(* The variables of the clause that follow from the others: their reasons  *)
(* lead back to variables of the clause and to level 0 only.               *)
litRedundant ==
  an.seen \cap UNION {S \in SUBSET Vars : \A v \in S :
    /\ reason[v] # CRef_Undef
    /\ \A l \in Range(Tail(ca[reason[v]])) : level[Var(l)] = 0 \/ Var(l) \in an.seen \cup S}

(* The learnt clause: the asserting literal first, then one of the greatest *)
(* level of the others.                                                    *)
Learnt ==
  LET rest == Among(an.out, {l \in Range(an.out) : Var(l) \notin litRedundant})
      out  == <<-an.p>> \o rest
      top  == {i \in 2..Len(out) : \A l \in Range(rest) : level[Var(l)] <= level[Var(out[i])]}
  IN  IF rest = <<>> THEN out ELSE Swap(out, 2, Min(top))

TrailUntil(lv) ==
  IF lv < decisionLevel THEN SubSeq(trail, 1, trail_lim[lv + 1]) ELSE trail

(* Mutant: variables do not return to the heap.                            *)
cancelUntilForgets(lv, heap) ==
  /\ trail_lim' = SubSeq(trail_lim, 1, lv)
  /\ qhead' = Len(TrailUntil(lv))
  /\ order_heap' = heap

(* The levels above lv are undone; the caller sets the trail.              *)
cancelUntil(lv, heap) ==
  /\ trail_lim' = SubSeq(trail_lim, 1, lv)
  /\ qhead' = Len(TrailUntil(lv))
  /\ order_heap' = heap \cup {Var(trail[i]) : i \in Len(TrailUntil(lv)) + 1..Len(trail)}

Learn ==
  /\ pc = "learn"
  /\ \E c \in {Learnt} :
     \E lv \in {IF Len(c) = 1 THEN 0 ELSE level[Var(c[2])]} :
       /\ cancelUntil(lv, order_heap)
       /\ \/ /\ Len(c) = 1
             /\ uncheckedEnqueue(c[1], CRef_Undef, 0, TrailUntil(0))
             /\ UNCHANGED <<ca, learnts, watches>>
          \/ /\ Len(c) > 1
             /\ ca' = Append(ca, c)
             /\ learnts' = learnts \cup {Len(ca) + 1}
             /\ watches' = Attached(watches, c, Len(ca) + 1)
             /\ uncheckedEnqueue(c[1], Len(ca) + 1, lv, TrailUntil(lv))
  /\ an' = Idle
  /\ confl' = CRef_Undef /\ conflictC' = conflictC + 1
  /\ pc' = "search"
  /\ UNCHANGED <<input, answer, clauses, removed, dirty, todo, simpDB_assigns, curr_restarts>>

(* Without any decision, or before the search: there is no model.          *)
Refuted ==
  /\ \/ pc = "presolve" /\ ~ ok
     \/ pc = "search" /\ confl # CRef_Undef /\ decisionLevel = 0
  /\ ok' = FALSE /\ result' = "UNSAT" /\ pc' = "done"
  /\ UNCHANGED <<cnf, added, model, base, lists, asgn, order_heap, confl, an, limits>>

-----------------------------------------------------------------------------
(* Between two propagations search restarts after enough conflicts, or     *)
(* simplifies at level 0, reduces the learnt clauses and branches.         *)

luby[x \in 0..MaxRestarts] ==
  LET k == Min({j \in 1..x + 1 : 2^j - 1 >= x + 1})
  IN  IF 2^k - 2 = x THEN 2^(k - 1) ELSE luby[x % (2^(k - 1) - 1)]

OverLimit ==
  curr_restarts < MaxRestarts /\ conflictC >= luby[curr_restarts] * restart_first

Restart ==
  /\ pc = "search" /\ Propagated /\ OverLimit
  /\ cancelUntil(0, order_heap)
  /\ trail' = TrailUntil(0)
  /\ curr_restarts' = curr_restarts + 1 /\ conflictC' = 0
  /\ UNCHANGED <<input, pc, answer, base, lists, reason, level, confl, an, simpDB_assigns>>

NoRestart ==
  /\ pc = "search" /\ Propagated /\ ~ OverLimit
  /\ pc' = IF decisionLevel = 0 THEN "simplify" ELSE "reduce"
  /\ UNCHANGED <<input, answer, base, lists, asgn, order_heap, confl, an, limits>>

(* removeClause, for a set of clauses: their watchers stay in the lists    *)
(* until those are looked up, and reasons that point to them are reset.    *)
Locked(cr) == IsTrue(ca[cr][1]) /\ reason[Var(ca[cr][1])] = cr

removeClauses(R) ==
  /\ removed' = removed \cup R
  /\ dirty' = dirty \cup UNION {{-ca[cr][1], -ca[cr][2]} : cr \in R}
  /\ reason' = [v \in Vars |-> IF \E cr \in R : Locked(cr) /\ Var(ca[cr][1]) = v
                               THEN CRef_Undef ELSE reason[v]]

Satisfied(cr) == \E l \in Range(ca[cr]) : IsTrue(l)

(* removeSatisfied: a false literal behind the watched ones is replaced by  *)
(* the last one of the clause, which is looked at next.                    *)
Trimmed(c) ==
  LET visit(s) ==
        IF s.k > Len(s.c) THEN s
        ELSE IF IsFalse(s.c[s.k])
        THEN [c |-> Front([s.c EXCEPT ![s.k] = Last(s.c)]), k |-> s.k]
        ELSE [c |-> s.c, k |-> s.k + 1]
      after[n \in 0..Len(c)] == IF n = 0 THEN [c |-> c, k |-> 3] ELSE visit(after[n - 1])
  IN  after[Len(c)].c

(* simplify, at level 0 with everything propagated.                        *)
SimplifyDone ==
  /\ pc' = IF pc = "presolve" THEN "search" ELSE "reduce"
  /\ UNCHANGED <<input, answer, watches, todo, trail, trail_lim, qhead, level, confl, an,
                 curr_restarts, conflictC>>

SimplifyNothing ==
  /\ pc \in {"presolve", "simplify"} /\ ok
  /\ simpDB_assigns # -1   \* at the first call simpDB_props is not positive
  /\ SimplifyDone
  /\ UNCHANGED <<base, dirty, reason, order_heap, simpDB_assigns>>

Simplify ==
  /\ pc \in {"presolve", "simplify"} /\ ok
  /\ Len(trail) # simpDB_assigns
  /\ LET sat == {cr \in clauses \cup learnts : Satisfied(cr)} IN
     /\ removeClauses(sat)
     /\ clauses' = clauses \ sat /\ learnts' = learnts \ sat
     /\ ca' = [cr \in DOMAIN ca |->
                 IF cr \in (clauses \cup learnts) \ sat THEN Trimmed(ca[cr]) ELSE ca[cr]]
  /\ order_heap' = {v \in Vars : ~ IsTrue(v) /\ ~ IsFalse(v)}
  /\ simpDB_assigns' = Len(trail)
  /\ SimplifyDone

(* Mutant: also the clauses that are reasons are dropped.                  *)
DroppableAll == {cr \in learnts : Len(ca[cr]) > 2}

Droppable == {cr \in learnts : Len(ca[cr]) > 2 /\ ~ Locked(cr)}

(* reduceDB, when there are too many learnt clauses: what it drops of those *)
(* it may drop is decided by activities.                                   *)
Reduce ==
  /\ pc = "reduce"
  /\ pc' = "branch"
  /\ \E R \in SUBSET Droppable : removeClauses(R) /\ learnts' = learnts \ R
  /\ UNCHANGED <<input, answer, ca, clauses, watches, todo, trail, trail_lim, qhead, level,
                 order_heap, confl, an, limits>>

(* pickBranchLit takes variables off the heap until one is not assigned.   *)
Open == {v \in order_heap : ~ IsTrue(v) /\ ~ IsFalse(v)}

Branch ==
  /\ pc = "branch"
  /\ \E v \in Open, popped \in SUBSET (order_heap \ Open) :
       /\ order_heap' = order_heap \ (popped \cup {v})
       /\ trail_lim' = Append(trail_lim, Len(trail))
       /\ \E p \in {v, -v} : uncheckedEnqueue(p, CRef_Undef, decisionLevel + 1, trail)
  /\ pc' = "search"
  /\ UNCHANGED <<input, answer, base, lists, qhead, confl, an, limits>>

(* Nothing is left to decide.  A variable without a value counts as false. *)
ModelFound ==
  /\ pc = "branch" /\ Open = {}
  /\ result' = "SAT"
  /\ model' = {v \in Vars : IsTrue(v)}
  /\ cancelUntil(0, {})
  /\ trail' = TrailUntil(0)
  /\ pc' = "done"
  /\ UNCHANGED <<input, base, lists, reason, level, confl, an, limits>>

-----------------------------------------------------------------------------
Init ==
  /\ cnf \in Formulas
  /\ pc = "add" /\ added = 0 /\ ok = TRUE /\ result = "none" /\ model = {}
  /\ ca = <<>> /\ clauses = {} /\ learnts = {} /\ removed = {}
  /\ watches = [l \in Literals |-> <<>>] /\ dirty = {} /\ todo = <<>>
  /\ trail = <<>> /\ trail_lim = <<>> /\ qhead = 0
  /\ reason = [v \in Vars |-> CRef_Undef] /\ level = [v \in Vars |-> 0]
  /\ order_heap = Vars /\ confl = CRef_Undef /\ an = Idle
  /\ simpDB_assigns = -1 /\ curr_restarts = 0 /\ conflictC = 0

Next ==
  \/ AddClause \/ Contradiction \/ EndAdding \/ Propagate \/ Visit
  \/ Analyze \/ Resolve \/ Learn \/ Refuted
  \/ Restart \/ NoRestart \/ Simplify \/ SimplifyNothing \/ Reduce
  \/ Branch \/ ModelFound

Spec == Init /\ [][Next]_vars
=============================================================================
