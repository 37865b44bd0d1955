---------------------------- MODULE SolverProofs ----------------------------
(***************************************************************************)
(* The answers of the solver, for every formula: proofs of the properties  *)
(* of SolverProps.                                                         *)
(*                                                                         *)
(* The parts of the inductive invariant use each other: the types, the     *)
(* order of the phases, the levels of the trail, the watch lists, the      *)
(* reasons, the clauses whose watched literals were visited, the analysis  *)
(* of a conflict, and the models.                                          *)
(***************************************************************************)
EXTENDS SolverProps, FiniteSetTheorems, NaturalsInduction, WellFoundedInduction, TLAPS

Lv(i) == level[Var(trail[i])]
Watchers == [cref : Nat, blocker : Literals]
Refs == DOMAIN ca

TypeFlow ==
  /\ cnf \in Formulas /\ added \in 0..Len(cnf) /\ ok \in BOOLEAN
  /\ pc \in {"add", "presolve", "search", "analyze", "learn", "simplify", "reduce", "branch",
             "done"}
  /\ result \in {"none", "SAT", "UNSAT"} /\ model \subseteq Vars
  /\ order_heap \subseteq Vars /\ confl \in Nat
  /\ simpDB_assigns \in Int /\ curr_restarts \in Nat /\ conflictC \in Nat

TypeBase ==
  /\ ca \in Seq(Seq(Literals))
  /\ clauses \subseteq Refs /\ learnts \subseteq Refs /\ removed \subseteq Refs

TypeLists ==
  /\ watches \in [Literals -> Seq(Watchers)] /\ dirty \subseteq Literals
  /\ todo \in Seq(Watchers)

TypeTrail ==
  /\ trail \in Seq(Literals) /\ trail_lim \in Seq(Nat) /\ qhead \in 0..Len(trail)
  /\ reason \in [Vars -> Nat] /\ level \in [Vars -> Nat]

TypeAnalysis ==
  an \in [p : Int, index : Nat, seen : SUBSET Vars, pathC : Int, out : Seq(Literals), confl : Nat]

TypeOK == TypeFlow /\ TypeBase /\ TypeLists /\ TypeTrail /\ TypeAnalysis

(* Where there are decisions, a conflict, or something left to propagate.  *)
FlowInv ==
  /\ pc \in {"add", "presolve", "simplify"} => decisionLevel = 0
  /\ pc \in {"presolve", "simplify", "reduce", "branch"} => Propagated
  /\ pc \in {"analyze", "learn"} => confl # CRef_Undef /\ decisionLevel > 0
  /\ pc \notin {"add", "presolve", "done"} => ok
  /\ pc # "add" => added = Len(cnf)
  /\ pc # "done" => result = "none"
  /\ todo # <<>> => qhead > 0
  /\ confl # CRef_Undef => todo = <<>> /\ qhead = Len(trail)

(* The literals of a level are next to each other on the trail, and those  *)
(* of the levels below the current one have been looked at.                *)
TrailInv ==
  /\ \A i, j \in DOMAIN trail : Var(trail[i]) = Var(trail[j]) => i = j
  /\ \A k \in DOMAIN trail_lim : trail_lim[k] < Len(trail)
  /\ \A k, m \in DOMAIN trail_lim : k < m => trail_lim[k] < trail_lim[m]
  /\ \A i \in DOMAIN trail :
       /\ Lv(i) <= decisionLevel
       /\ Lv(i) > 0 => trail_lim[Lv(i)] < i
       /\ Lv(i) < decisionLevel => i <= trail_lim[Lv(i) + 1]
  /\ decisionLevel > 0 =>
       /\ trail_lim[decisionLevel] <= qhead
       /\ todo # <<>> => trail_lim[decisionLevel] < qhead

(* Clauses have two literals at least and none twice; they are in one of   *)
(* the lists or deleted.                                                   *)
ClauseInv ==
  /\ \A cr \in Refs : Len(ca[cr]) > 1
  /\ \A cr \in Refs : \A i, j \in DOMAIN ca[cr] : ca[cr][i] = ca[cr][j] => i = j
  /\ Refs = Live \cup removed /\ Live \cap removed = {} /\ clauses \cap learnts = {}

(* Nothing undoes l.                                                       *)
Fixed(l) == \E i \in DOMAIN trail : trail[i] = l /\ Lv(i) = 0

(* A watcher of the list of l, or of what is left of that list.            *)
Proper(w, l) ==
  /\ w.cref \in Refs
  /\ l = -ca[w.cref][1] \/ l = -ca[w.cref][2]
  /\ \/ w.blocker \in Range(ca[w.cref])
     \/ Fixed(-w.blocker)

In(cr, ws) == \E w \in Range(ws) : w.cref = cr

Once(ws) == \A k, m \in DOMAIN ws : ws[k].cref = ws[m].cref => k = m

Watched(cr, l) == In(cr, watches[l]) \/ (In(cr, todo) /\ l = trail[qhead])

(* A live clause is watched by way of its first two literals, and a deleted*)
(* one only in lists that will be cleaned.                                 *)
WatchInv ==
  /\ \A cr \in Live : Watched(cr, -ca[cr][1]) /\ Watched(cr, -ca[cr][2])
  /\ \A l \in Literals : \A w \in Range(watches[l]) :
       Proper(w, l) /\ (w.cref \in removed => l \in dirty)
  /\ \A w \in Range(todo) :
       /\ Proper(w, trail[qhead]) /\ w.cref \notin removed
       /\ ~ In(w.cref, watches[trail[qhead]])
  /\ \A l \in Literals : Once(watches[l])
  /\ Once(todo)

Before(l, i) == \E j \in 1..i - 1 : trail[j] = -l

(* r is the reason of the literal at i.                                    *)
Justified(i, r) ==
  /\ r \in Live
  /\ ca[r][1] = trail[i]
  /\ \A k \in 2..Len(ca[r]) : Before(ca[r][k], i)
  /\ \E k \in 2..Len(ca[r]) : level[Var(ca[r][k])] = Lv(i)

(* Decisions open a level, level 0 needs no reason, all others have one.   *)
ReasonInv ==
  \A i \in DOMAIN trail :
    IF reason[Var(trail[i])] = CRef_Undef THEN Lv(i) = 0 \/ trail_lim[Lv(i)] = i - 1
    ELSE Justified(i, reason[Var(trail[i])])

(* The clause of a conflict is false because of the current level.         *)
ConflictInv ==
  confl # CRef_Undef =>
    /\ confl \in Live
    /\ \A k \in DOMAIN ca[confl] : IsFalse(ca[confl][k])
    /\ \E k \in DOMAIN ca[confl] : level[Var(ca[confl][k])] = decisionLevel

(* The clause cr, if it watches the literal at i, has been visited for it. *)
Processed(i, cr) ==
  IF confl # CRef_Undef THEN Lv(i) < decisionLevel
  ELSE i < qhead \/ (i = qhead /\ ~ In(cr, todo))

(* The clause cr is true, and stays so as long as the literal at i stays.  *)
Supported(cr, i) ==
  \E j \in DOMAIN trail : trail[j] \in Range(ca[cr]) /\ Lv(j) <= Lv(i)

(* A clause that was visited and keeps a false literal in front is true.   *)
SupportInv ==
  ok => \A cr \in Live : \A i \in DOMAIN trail :
          (trail[i] = -ca[cr][1] \/ trail[i] = -ca[cr][2]) /\ Processed(i, cr)
            => Supported(cr, i)

(* No variable that is left to decide is missing in the heap.              *)
HeapInv == pc # "done" => \A v \in Vars : v \in order_heap \/ IsTrue(v) \/ IsFalse(v)

(* What holds of a, the state of an analysis.                              *)
SeenOnTrail(a) ==
  \A v \in a.seen : \E i \in DOMAIN trail :
    Var(trail[i]) = v /\ Lv(i) > 0 /\ (Lv(i) = decisionLevel => i <= a.index)

Counted(a) == a.pathC = Cardinality({v \in a.seen : level[v] = decisionLevel})

OutIsSeen(a) ==
  /\ \A k \in DOMAIN a.out :
       IsFalse(a.out[k]) /\ Var(a.out[k]) \in a.seen /\ level[Var(a.out[k])] < decisionLevel
  /\ \A v \in a.seen : level[v] < decisionLevel => \E k \in DOMAIN a.out : Var(a.out[k]) = v
  /\ \A k, m \in DOMAIN a.out : a.out[k] = a.out[m] => k = m

LastPicked(a) ==
  /\ a.index + 1 \in DOMAIN trail /\ trail[a.index + 1] = a.p
  /\ Lv(a.index + 1) = decisionLevel /\ Var(a.p) \notin a.seen
  /\ a.confl = reason[Var(a.p)]

(* The literals in question are not all true in a model.                   *)
Excluded(a, A) ==
  \/ ~ Holds(a.p, A)
  \/ \E i \in DOMAIN trail : Var(trail[i]) \in a.seen /\ ~ Holds(trail[i], A)

(* What is left of the analysis is a cut of the trail that no model of the *)
(* formula agrees with.                                                    *)
AnalyzeInv ==
  pc \in {"analyze", "learn"} =>
    /\ SeenOnTrail(an) /\ Counted(an) /\ OutIsSeen(an)
    /\ an.p = 0 =>
         pc = "analyze" /\ an.seen = {} /\ an.confl = confl /\ an.index = Len(trail)
    /\ an.p # 0 =>
         /\ LastPicked(an)
         /\ pc = "analyze" <=> an.pathC > 0
         /\ \A A \in Models : Excluded(an, A)

(* The literals of level 0 hold in A.                                      *)
Root(A) == \A i \in DOMAIN trail : Lv(i) = 0 => Holds(trail[i], A)

(* Clauses and level 0 follow from the formula, and the ones that are left *)
(* of the caller, with level 0, say all of it.                             *)
ModelInv ==
  /\ \A A \in Models : Root(A) /\ \A cr \in Refs : Satisfies(A, ca[cr])
  /\ ok => \A A \in Assignments :
       /\ \A i \in added + 1..Len(cnf) : Satisfies(A, cnf[i])
       /\ \A cr \in clauses : Satisfies(A, ca[cr])
       /\ Root(A)
       => A \in Models
  /\ ~ ok => Models = {}
  /\ pc = "done" => IF result = "SAT" THEN model \in Models ELSE Models = {}

-----------------------------------------------------------------------------
(* Least and greatest numbers.                                             *)
LEMMA NatMin ==
  ASSUME NEW S \in SUBSET Nat, S # {}
  PROVE  \E m \in S : \A k \in S : m <= k
<1> DEFINE R == OpToRel(<, Nat)
<1>1. PICK m \in S : \A k \in S : <<k, m>> \notin R
  BY WFMin, NatLessThanWellFounded
<1>2. \A k \in S : ~ (k < m)
  BY <1>1 DEF OpToRel
<1> QED
  BY <1>2

LEMMA NatMax ==
  ASSUME NEW S \in SUBSET Nat, S # {}, NEW n \in Nat, \A k \in S : k <= n
  PROVE  \E m \in S : \A k \in S : k <= m
<1> DEFINE T == {b \in Nat : \A k \in S : k <= b}
<1>1. PICK b \in T : \A k \in T : b <= k
  BY NatMin
<1>2. b \in S
  <2>1. SUFFICES ASSUME b \notin S PROVE FALSE
    OBVIOUS
  <2>2. PICK k \in S : TRUE
    OBVIOUS
  <2>3. b - 1 \in Nat
    BY <1>1, <2>1, <2>2
  <2>4. b - 1 \in T
    BY <2>1, <2>3
  <2> QED
    BY <1>1, <2>4
<1> QED
  BY <1>1, <1>2

-----------------------------------------------------------------------------
(* A function that is defined by recursion on the numbers up to n exists.  *)
AmongNext(s, S, f, i) ==
  IF i = 0 THEN <<>> ELSE IF s[i] \in S THEN Append(f[i - 1], s[i]) ELSE f[i - 1]

AmongFcn(s, S) == CHOOSE f : f = [i \in 0..Len(s) |-> AmongNext(s, S, f, i)]

LEMMA AmongIs == ASSUME NEW s, NEW S PROVE Among(s, S) = AmongFcn(s, S)[Len(s)]
BY DEF Among, AmongNext, AmongFcn

AmongUpTo(s, S, n) == \E f : f = [i \in 0..n |-> AmongNext(s, S, f, i)]

LEMMA AmongExists ==
  ASSUME NEW s, NEW S, Len(s) \in Nat
  PROVE  AmongFcn(s, S) = [i \in 0..Len(s) |-> AmongNext(s, S, AmongFcn(s, S), i)]
<1> DEFINE Bad == {n \in Nat : ~ AmongUpTo(s, S, n)}
<1>1. Bad = {}
  <2> SUFFICES ASSUME Bad # {} PROVE FALSE
    OBVIOUS
  <2>1. PICK n \in Bad : \A k \in Bad : n <= k
    BY NatMin
  <2>2. n \in Nat /\ ~ AmongUpTo(s, S, n)
    BY <2>1
  <2>3. n # 0
    <3> DEFINE f == [i \in 0..0 |-> <<>>]
    <3>1. f = [i \in 0..0 |-> AmongNext(s, S, f, i)]
      BY DEF AmongNext
    <3> HIDE DEF f
    <3>2. AmongUpTo(s, S, 0)
      BY <3>1 DEF AmongUpTo
    <3> QED
      BY <2>2, <3>2
  <2>4. AmongUpTo(s, S, n - 1)
    BY <2>1, <2>2, <2>3
  <2>5. PICK g : g = [i \in 0..n - 1 |-> AmongNext(s, S, g, i)]
    BY <2>4 DEF AmongUpTo
  <2> DEFINE f == [i \in 0..n |-> IF i < n THEN g[i] ELSE AmongNext(s, S, g, n)]
  <2>6. ASSUME NEW i \in 0..n PROVE f[i] = AmongNext(s, S, f, i)
    <3>1. i # 0 => f[i - 1] = g[i - 1]
      BY <2>2
    <3>2. AmongNext(s, S, f, i) = AmongNext(s, S, g, i)
      BY <3>1 DEF AmongNext
    <3>3. CASE i < n
      <4>1. g[i] = AmongNext(s, S, g, i)
        <5>1. i \in 0..n - 1
          BY <2>2, <3>3
        <5> QED
          BY <2>5, <5>1, Zenon
      <4> QED
        BY <3>2, <3>3, <4>1
    <3>4. CASE i = n
      BY <2>2, <3>2, <3>4
    <3> QED
      BY <2>2, <3>3, <3>4
  <2>7. f = [i \in 0..n |-> f[i]]
    OBVIOUS
  <2> HIDE DEF f
  <2>8. f = [i \in 0..n |-> AmongNext(s, S, f, i)]
    BY <2>6, <2>7
  <2>9. AmongUpTo(s, S, n)
    BY <2>8 DEF AmongUpTo
  <2> QED
    BY <2>2, <2>9
<1>2. \E f : f = [i \in 0..Len(s) |-> AmongNext(s, S, f, i)]
  BY <1>1 DEF AmongUpTo
<1> QED
  BY <1>2 DEF AmongFcn

(* r holds the members of S among the first n of s, each place of s once.  *)
Places(s, S, n, r, h) ==
  /\ \A k \in 1..Len(r) : h[k] \in 1..n /\ r[k] = s[h[k]] /\ r[k] \in S
  /\ \A k, m \in 1..Len(r) : h[k] = h[m] => k = m
  /\ \A i \in 1..n : s[i] \in S => \E k \in 1..Len(r) : h[k] = i

Sifted(s, S, n, r) == \E h : Places(s, S, n, r, h)

LEMMA SiftedNext ==
  ASSUME NEW D, NEW s \in Seq(D), NEW S, NEW n \in 1..Len(s), NEW r \in Seq(D),
         Sifted(s, S, n - 1, r), NEW q,
         q = IF s[n] \in S THEN Append(r, s[n]) ELSE r
  PROVE  q \in Seq(D) /\ Sifted(s, S, n, q)
<1>1. PICK h : Places(s, S, n - 1, r, h)
  BY DEF Sifted
<1>2. CASE s[n] \notin S
  <2>1. Places(s, S, n, r, h)
    BY <1>1, <1>2 DEF Places
  <2> QED
    BY <1>2, <2>1 DEF Sifted
<1>3. CASE s[n] \in S
  <2> DEFINE g == [k \in 1..Len(r) + 1 |-> IF k <= Len(r) THEN h[k] ELSE n]
  <2>1. q = Append(r, s[n]) /\ s[n] \in D
    BY <1>3
  <2>2. /\ q \in Seq(D) /\ Len(q) = Len(r) + 1 /\ q[Len(r) + 1] = s[n]
        /\ \A k \in 1..Len(r) : q[k] = r[k]
    BY <2>1
  <2>3. /\ \A k \in 1..Len(r) : g[k] = h[k]
        /\ g[Len(r) + 1] = n
    OBVIOUS
  <2> HIDE DEF g
  <2>4. \A k \in 1..Len(r) + 1 : k \in 1..Len(r) \/ k = Len(r) + 1
    OBVIOUS
  <2>5. \A k \in 1..Len(q) : g[k] \in 1..n /\ q[k] = s[g[k]] /\ q[k] \in S
    BY <1>1, <1>3, <2>2, <2>3, <2>4 DEF Places
  <2>6. \A k, m \in 1..Len(q) : g[k] = g[m] => k = m
    BY <1>1, <2>2, <2>3, <2>4 DEF Places
  <2>7. \A i \in 1..n : s[i] \in S => \E k \in 1..Len(q) : g[k] = i
    <3> SUFFICES ASSUME NEW i \in 1..n, s[i] \in S
                 PROVE  \E k \in 1..Len(q) : g[k] = i
      OBVIOUS
    <3>1. CASE i = n
      BY <2>2, <2>3, <3>1
    <3>2. CASE i # n
      <4>1. PICK k \in 1..Len(r) : h[k] = i
        BY <1>1, <3>2 DEF Places
      <4> QED
        BY <2>2, <2>3, <4>1
    <3> QED
      BY <3>1, <3>2
  <2>8. Places(s, S, n, q, g)
    BY <2>5, <2>6, <2>7 DEF Places
  <2> QED
    BY <2>2, <2>8 DEF Sifted
<1> QED
  BY <1>2, <1>3

LEMMA AmongSifts ==
  ASSUME NEW D, NEW s \in Seq(D), NEW S
  PROVE  Among(s, S) \in Seq(D) /\ Sifted(s, S, Len(s), Among(s, S))
<1>0. PICK f : f = AmongFcn(s, S)
  OBVIOUS
<1>1. f = [i \in 0..Len(s) |-> AmongNext(s, S, f, i)]
  BY <1>0, AmongExists
<1>2. \A i \in 0..Len(s) : f[i] = AmongNext(s, S, f, i)
  BY <1>1, Zenon
<1> DEFINE Bad == {n \in Nat : n <= Len(s) /\ ~ (f[n] \in Seq(D) /\ Sifted(s, S, n, f[n]))}
<1>3. Bad = {}
  <2> SUFFICES ASSUME Bad # {} PROVE FALSE
    OBVIOUS
  <2>1. PICK n \in Bad : \A k \in Bad : n <= k
    BY NatMin
  <2>2. n \in 0..Len(s)
    OBVIOUS
  <2>3. n # 0
    <3>1. SUFFICES ASSUME n = 0 PROVE FALSE
      OBVIOUS
    <3>2. f[0] = <<>>
      BY <1>2 DEF AmongNext
    <3>3. Places(s, S, 0, <<>>, <<>>)
      BY DEF Places
    <3>4. Sifted(s, S, 0, <<>>)
      BY <3>3 DEF Sifted
    <3>5. f[0] \in Seq(D) /\ Sifted(s, S, 0, f[0])
      BY <3>2, <3>4
    <3> QED
      BY <3>1, <3>5
  <2>4. f[n - 1] \in Seq(D) /\ Sifted(s, S, n - 1, f[n - 1])
    <3>1. n - 1 \notin Bad /\ n - 1 \in Nat /\ n - 1 <= Len(s)
      BY <2>1, <2>2, <2>3
    <3> QED
      BY <3>1
  <2>5. f[n] = IF s[n] \in S THEN Append(f[n - 1], s[n]) ELSE f[n - 1]
    BY <1>2, <2>2, <2>3 DEF AmongNext
  <2>6. PICK r : r = f[n - 1]
    OBVIOUS
  <2>7. f[n] \in Seq(D) /\ Sifted(s, S, n, f[n])
    <3>1. PICK q : q = f[n]
      OBVIOUS
    <3>2. n \in 1..Len(s)
      BY <2>2, <2>3
    <3>3. q = IF s[n] \in S THEN Append(r, s[n]) ELSE r
      BY <2>5, <2>6, <3>1
    <3>4. r \in Seq(D) /\ Sifted(s, S, n - 1, r)
      BY <2>4, <2>6
    <3>5. q \in Seq(D) /\ Sifted(s, S, n, q)
      BY <3>2, <3>3, <3>4, SiftedNext
    <3> QED
      BY <3>1, <3>5
  <2> QED
    BY <2>7
<1>4. Len(s) \in Nat
  OBVIOUS
<1>5. f[Len(s)] \in Seq(D) /\ Sifted(s, S, Len(s), f[Len(s)])
  BY <1>3, <1>4
<1> QED
  BY <1>0, <1>5, AmongIs

(* r has the members of s that are in S.                                   *)
Filtered(s, S, r) ==
  /\ \A k \in 1..Len(r) : r[k] \in S /\ \E i \in 1..Len(s) : r[k] = s[i]
  /\ \A i \in 1..Len(s) : s[i] \in S => \E k \in 1..Len(r) : r[k] = s[i]

LEMMA AmongFacts ==
  ASSUME NEW D, NEW s \in Seq(D), NEW S, NEW r, r = Among(s, S)
  PROVE  r \in Seq(D) /\ Filtered(s, S, r)
<1>1. r \in Seq(D) /\ Sifted(s, S, Len(s), r)
  BY AmongSifts
<1>2. PICK h : Places(s, S, Len(s), r, h)
  BY <1>1 DEF Sifted
<1>3. Filtered(s, S, r)
  BY <1>2 DEF Places, Filtered
<1> QED
  BY <1>1, <1>3

-----------------------------------------------------------------------------
(* Trimmed keeps the two literals in front and all that are not false.     *)
TrimNext(s) ==
  IF s.k > Len(s.c) THEN s
  ELSE IF IsFalse(s.c[s.k])
  THEN [c |-> Front([s.c EXCEPT ![s.k] = Last(s.c)]), k |-> s.k]
  ELSE [c |-> s.c, k |-> s.k + 1]

TrimBody(c, f, n) == IF n = 0 THEN [c |-> c, k |-> 3] ELSE TrimNext(f[n - 1])

TrimFcn(c) == CHOOSE f : f = [n \in 0..Len(c) |-> TrimBody(c, f, n)]

LEMMA TrimmedIs == ASSUME NEW c PROVE Trimmed(c) = TrimFcn(c)[Len(c)].c
BY DEF Trimmed, TrimNext, TrimBody, TrimFcn

TrimUpTo(c, n) == \E f : f = [i \in 0..n |-> TrimBody(c, f, i)]

LEMMA TrimExists ==
  ASSUME NEW c, Len(c) \in Nat
  PROVE  TrimFcn(c) = [n \in 0..Len(c) |-> TrimBody(c, TrimFcn(c), n)]
<1> DEFINE Bad == {n \in Nat : ~ TrimUpTo(c, n)}
<1>1. Bad = {}
  <2> SUFFICES ASSUME Bad # {} PROVE FALSE
    OBVIOUS
  <2>1. PICK n \in Bad : \A k \in Bad : n <= k
    BY NatMin
  <2>2. n \in Nat /\ ~ TrimUpTo(c, n)
    BY <2>1
  <2>3. n # 0
    <3> DEFINE f == [i \in 0..0 |-> [c |-> c, k |-> 3]]
    <3>1. f = [i \in 0..0 |-> TrimBody(c, f, i)]
      BY DEF TrimBody
    <3> HIDE DEF f
    <3>2. TrimUpTo(c, 0)
      BY <3>1 DEF TrimUpTo
    <3> QED
      BY <2>2, <3>2
  <2>4. TrimUpTo(c, n - 1)
    BY <2>1, <2>2, <2>3
  <2>5. PICK g : g = [i \in 0..n - 1 |-> TrimBody(c, g, i)]
    BY <2>4 DEF TrimUpTo
  <2> DEFINE f == [i \in 0..n |-> IF i < n THEN g[i] ELSE TrimBody(c, g, n)]
  <2>6. ASSUME NEW i \in 0..n PROVE f[i] = TrimBody(c, f, i)
    <3>1. i # 0 => f[i - 1] = g[i - 1]
      BY <2>2
    <3>2. TrimBody(c, f, i) = TrimBody(c, g, i)
      BY <3>1 DEF TrimBody
    <3>3. CASE i < n
      <4>1. g[i] = TrimBody(c, g, i)
        <5>1. i \in 0..n - 1
          BY <2>2, <3>3
        <5> QED
          BY <2>5, <5>1, Zenon
      <4> QED
        BY <3>2, <3>3, <4>1
    <3>4. CASE i = n
      BY <2>2, <3>2, <3>4
    <3> QED
      BY <2>2, <3>3, <3>4
  <2>7. f = [i \in 0..n |-> f[i]]
    OBVIOUS
  <2> HIDE DEF f
  <2>8. f = [i \in 0..n |-> TrimBody(c, f, i)]
    BY <2>6, <2>7
  <2>9. TrimUpTo(c, n)
    BY <2>8 DEF TrimUpTo
  <2> QED
    BY <2>2, <2>9
<1>2. \E f : f = [n \in 0..Len(c) |-> TrimBody(c, f, n)]
  BY <1>1 DEF TrimUpTo
<1> QED
  BY <1>2 DEF TrimFcn

Alone(c) == \A i, j \in 1..Len(c) : c[i] = c[j] => i = j

(* d is c without some of the literals that are false.                     *)
Shorter(c, d) ==
  /\ Len(d) > 1 /\ d[1] = c[1] /\ d[2] = c[2]
  /\ \A k \in 1..Len(d) : \E i \in 1..Len(c) : d[k] = c[i]
  /\ \A i \in 1..Len(c) : IsFalse(c[i]) \/ \E k \in 1..Len(d) : d[k] = c[i]
  /\ Alone(d)

LEMMA TrimStep ==
  ASSUME NEW D, NEW c \in Seq(D), NEW s, s.c \in Seq(D), s.k \in Nat, s.k > 2, Shorter(c, s.c),
         NEW t, t = TrimNext(s)
  PROVE  t.c \in Seq(D) /\ t.k \in Nat /\ t.k > 2 /\ Shorter(c, t.c)
<1>1. CASE s.k > Len(s.c)
  BY <1>1 DEF TrimNext
<1>2. CASE ~ (s.k > Len(s.c)) /\ ~ IsFalse(s.c[s.k])
  BY <1>2 DEF TrimNext
<1>3. CASE ~ (s.k > Len(s.c)) /\ IsFalse(s.c[s.k])
  <2>1. PICK e : e = s.c
    OBVIOUS
  <2>2. PICK x : x = s.k
    OBVIOUS
  <2>3. PICK d : d = t.c
    OBVIOUS
  <2>4. t = [c |-> Front([e EXCEPT ![x] = Last(e)]), k |-> x]
    BY <1>3, <2>1, <2>2 DEF TrimNext
  <2>5. e \in Seq(D) /\ x \in 3..Len(e) /\ Shorter(c, e) /\ IsFalse(e[x])
    BY <1>3, <2>1, <2>2
  <2>6. PICK e1 : e1 = [e EXCEPT ![x] = e[Len(e)]]
    OBVIOUS
  <2>7. /\ e1 \in Seq(D) /\ Len(e1) = Len(e) /\ e1[x] = e[Len(e)]
        /\ \A k \in 1..Len(e) : k # x => e1[k] = e[k]
    BY <2>5, <2>6
  <2>8. d = SubSeq(e1, 1, Len(e1) - 1)
    BY <2>3, <2>4, <2>6 DEF Front, Last
  <2>9. /\ d \in Seq(D) /\ Len(d) = Len(e) - 1
        /\ \A k \in 1..Len(e) - 1 : d[k] = IF k = x THEN e[Len(e)] ELSE e[k]
    BY <2>5, <2>7, <2>8
  <2>10. Len(d) > 1 /\ d[1] = c[1] /\ d[2] = c[2]
    <3>1. x \in Nat /\ x > 2 /\ Len(e) \in Nat /\ Len(e) > 2
      BY <2>5
    <3>2. d[1] = e[1] /\ d[2] = e[2]
      BY <2>9, <3>1
    <3>3. e[1] = c[1] /\ e[2] = c[2]
      BY <2>5 DEF Shorter
    <3> QED
      BY <2>9, <3>1, <3>2, <3>3
  <2>11. \A k \in 1..Len(d) : \E i \in 1..Len(c) : d[k] = c[i]
    <3>1. \A k \in 1..Len(d) : \E m \in 1..Len(e) : d[k] = e[m]
      BY <2>5, <2>9
    <3>2. \A m \in 1..Len(e) : \E i \in 1..Len(c) : e[m] = c[i]
      BY <2>5 DEF Shorter
    <3> QED
      BY <3>1, <3>2
  <2>12. \A i \in 1..Len(c) : IsFalse(c[i]) \/ \E k \in 1..Len(d) : d[k] = c[i]
    <3> SUFFICES ASSUME NEW i \in 1..Len(c), ~ IsFalse(c[i])
                 PROVE  \E k \in 1..Len(d) : d[k] = c[i]
      OBVIOUS
    <3>1. PICK m \in 1..Len(e) : e[m] = c[i]
      BY <2>5 DEF Shorter
    <3>2. m # x
      BY <2>5, <3>1
    <3>3. CASE m = Len(e)
      BY <2>5, <2>9, <3>1, <3>2, <3>3
    <3>4. CASE m # Len(e)
      <4>1. m \in 1..Len(d) /\ d[m] = e[m]
        <5>1. Len(e) \in Nat /\ m \in 1..Len(e) - 1
          BY <2>5, <3>4
        <5> QED
          BY <2>9, <3>2, <5>1
      <4> QED
        BY <3>1, <4>1
    <3> QED
      BY <3>3, <3>4
  <2>13. Alone(d)
    <3>1. \A i, j \in 1..Len(e) : e[i] = e[j] => i = j
      BY <2>5 DEF Shorter, Alone
    <3>2. x \in 1..Len(e) /\ Len(e) \in Nat
      BY <2>5
    <3>3. ASSUME NEW i \in 1..Len(d), NEW j \in 1..Len(d), d[i] = d[j] PROVE i = j
      <4> DEFINE at(k) == IF k = x THEN Len(e) ELSE k
      <4>1. \A k \in 1..Len(d) : at(k) \in 1..Len(e) /\ d[k] = e[at(k)]
        BY <2>9, <3>2
      <4>2. at(i) = at(j)
        <5> HIDE DEF at
        <5> QED
          BY <3>1, <3>3, <4>1
      <4>3. i \in 1..Len(e) - 1 /\ j \in 1..Len(e) - 1
        BY <2>9
      <4> QED
        BY <3>2, <4>2, <4>3
    <3> QED
      BY <3>3 DEF Alone
  <2>14. Shorter(c, d)
    BY <2>10, <2>11, <2>12, <2>13 DEF Shorter
  <2>15. t.k = x /\ x \in Nat /\ x > 2
    BY <2>4, <2>5
  <2> QED
    BY <2>3, <2>9, <2>14, <2>15
<1> QED
  BY <1>1, <1>2, <1>3

LEMMA TrimmedFacts ==
  ASSUME NEW D, NEW c \in Seq(D), Len(c) > 1, Alone(c)
  PROVE  Trimmed(c) \in Seq(D) /\ Shorter(c, Trimmed(c))
<1>0. PICK f : f = TrimFcn(c)
  OBVIOUS
<1>1. f = [i \in 0..Len(c) |-> TrimBody(c, f, i)]
  BY <1>0, TrimExists
<1>2. \A i \in 0..Len(c) : f[i] = TrimBody(c, f, i)
  BY <1>1, Zenon
<1> DEFINE Good(s) == s.c \in Seq(D) /\ s.k \in Nat /\ s.k > 2 /\ Shorter(c, s.c)
           Bad == {n \in Nat : n <= Len(c) /\ ~ Good(f[n])}
<1>3. Bad = {}
  <2> SUFFICES ASSUME Bad # {} PROVE FALSE
    OBVIOUS
  <2>1. PICK n \in Bad : \A k \in Bad : n <= k
    BY NatMin
  <2>2. n \in 0..Len(c)
    OBVIOUS
  <2>3. n # 0
    <3>1. SUFFICES ASSUME n = 0 PROVE FALSE
      OBVIOUS
    <3>2. f[0] = [c |-> c, k |-> 3]
      BY <1>2 DEF TrimBody
    <3>3. Shorter(c, c)
      BY DEF Shorter
    <3>4. Good(f[0])
      BY <3>2, <3>3
    <3> QED
      BY <3>1, <3>4
  <2>4. Good(f[n - 1])
    <3>1. n - 1 \notin Bad /\ n - 1 \in Nat /\ n - 1 <= Len(c)
      BY <2>1, <2>2, <2>3
    <3> QED
      BY <3>1
  <2>5. f[n] = TrimNext(f[n - 1])
    BY <1>2, <2>2, <2>3 DEF TrimBody
  <2>6. PICK s : s = f[n - 1]
    OBVIOUS
  <2>7. PICK t : t = f[n]
    OBVIOUS
  <2>8. Good(s)
    BY <2>4, <2>6
  <2>9. Good(t)
    BY <2>5, <2>6, <2>7, <2>8, TrimStep
  <2> QED
    BY <2>7, <2>9
<1>4. Len(c) \in Nat
  OBVIOUS
<1>5. Good(f[Len(c)])
  BY <1>3, <1>4
<1> QED
  BY <1>0, <1>5, TrimmedIs

-----------------------------------------------------------------------------
(* Literals.                                                               *)
LEMMA Lits ==
  ASSUME cnf \in Formulas
  PROVE  /\ \A l \in Literals : /\ l \in Int /\ l # 0 /\ -l \in Literals /\ -(-l) = l /\ l # -l
                                /\ Var(l) \in Vars /\ Var(-l) = Var(l)
         /\ \A l, m \in Literals : Var(l) = Var(m) => l = m \/ l = -m
         /\ \A v \in Vars : v \in Nat /\ v > 0 /\ v \in Literals /\ Var(v) = v
         /\ cnf \in Seq(Seq(Literals))
<1>1. cnf \in Seq(Seq(Int \ {0}))
  BY FormulasAssumption
<1>2. \A i \in DOMAIN cnf : \A k \in DOMAIN cnf[i] : cnf[i][k] \in Int \ {0}
  BY <1>1
<1>3. \A v \in Vars : \E i \in DOMAIN cnf : \E k \in DOMAIN cnf[i] : v = Var(cnf[i][k])
  BY DEF Vars, VarsOf, Range
<1>4. \A i \in DOMAIN cnf : \A k \in DOMAIN cnf[i] : Var(cnf[i][k]) \in Vars
  BY DEF Vars, VarsOf, Range
<1>5. \A v \in Vars : v \in Nat /\ v > 0 /\ v \in Literals /\ -v \in Literals /\ Var(v) = v
  BY <1>2, <1>3 DEF Var, Literals
<1>6. \A l \in Literals : l \in Vars \/ \E v \in Vars : l = -v
  BY DEF Literals
<1>7. \A l \in Literals : /\ l \in Int /\ l # 0 /\ -l \in Literals /\ -(-l) = l /\ l # -l
                          /\ Var(l) \in Vars /\ Var(-l) = Var(l)
  BY <1>5, <1>6 DEF Var
<1>8. \A l, m \in Literals : Var(l) = Var(m) => l = m \/ l = -m
  BY <1>5, <1>6 DEF Var
<1>9. cnf \in Seq(Seq(Literals))
  <2>1. \A i \in DOMAIN cnf : \A k \in DOMAIN cnf[i] : cnf[i][k] \in Literals
    <3> SUFFICES ASSUME NEW i \in DOMAIN cnf, NEW k \in DOMAIN cnf[i]
                 PROVE  cnf[i][k] \in Literals
      OBVIOUS
    <3>1. Var(cnf[i][k]) \in Vars /\ cnf[i][k] \in Int \ {0}
      BY <1>2, <1>4
    <3>2. cnf[i][k] = Var(cnf[i][k]) \/ cnf[i][k] = -Var(cnf[i][k])
      BY <3>1 DEF Var
    <3> QED
      BY <1>5, <3>1, <3>2
  <2>2. \A i \in DOMAIN cnf : cnf[i] \in Seq(Literals)
    <3> SUFFICES ASSUME NEW i \in DOMAIN cnf
                 PROVE  cnf[i] \in Seq(Literals)
      OBVIOUS
    <3>1. cnf[i] \in Seq(Int \ {0})
      BY <1>1
    <3> QED
      BY <2>1, <3>1
  <2> QED
    BY <1>1, <2>2
<1> QED
  BY <1>5, <1>7, <1>8, <1>9

LEMMA SameLits ==
  ASSUME cnf' = cnf
  PROVE  Vars' = Vars /\ Literals' = Literals
BY DEF Vars, Literals

(* The trail as a set.                                                     *)
LEMMA OnTrail ==
  ASSUME TypeOK, NEW l
  PROVE  /\ IsTrue(l) <=> \E i \in DOMAIN trail : trail[i] = l
         /\ IsFalse(l) <=> \E i \in DOMAIN trail : trail[i] = -l
BY DEF IsTrue, IsFalse, Range

LEMMA NeverBoth ==
  ASSUME TypeOK, TrailInv, NEW l \in Literals
  PROVE  ~ (IsTrue(l) /\ IsFalse(l))
<1> SUFFICES ASSUME IsTrue(l), IsFalse(l) PROVE FALSE
  OBVIOUS
<1>1. PICK i \in DOMAIN trail : trail[i] = l
  BY OnTrail
<1>2. PICK j \in DOMAIN trail : trail[j] = -l
  BY OnTrail
<1>3. Var(-l) = Var(l) /\ l # -l
  BY Lits DEF TypeOK, TypeFlow
<1>4. i = j
  BY <1>1, <1>2, <1>3 DEF TrailInv
<1> QED
  BY <1>1, <1>2, <1>3, <1>4

(* The trail up to a level.                                                *)
LEMMA Until ==
  ASSUME TypeOK, TrailInv, NEW lv \in 0..decisionLevel, NEW tr, tr = TrailUntil(lv)
  PROVE  /\ tr \in Seq(Literals) /\ Len(tr) <= Len(trail)
         /\ \A i \in 1..Len(tr) : tr[i] = trail[i]
         /\ \A i \in DOMAIN trail : i <= Len(tr) <=> Lv(i) <= lv
         /\ lv > 0 => trail_lim[lv] < Len(tr)
         /\ lv < decisionLevel => Len(tr) = trail_lim[lv + 1]
<1>1. trail \in Seq(Literals) /\ trail_lim \in Seq(Nat) /\ decisionLevel = Len(trail_lim)
      /\ level \in [Vars -> Nat]
  BY DEF TypeOK, TypeTrail, decisionLevel
<1>2. CASE lv < decisionLevel
  <2>1. PICK n : n = trail_lim[lv + 1]
    OBVIOUS
  <2>2. n \in Nat /\ n < Len(trail)
    BY <1>1, <1>2, <2>1 DEF TrailInv
  <2>3. tr = SubSeq(trail, 1, n)
    BY <1>2, <2>1 DEF TrailUntil
  <2>4. /\ tr \in Seq(Literals) /\ Len(tr) = n
        /\ \A i \in 1..Len(tr) : tr[i] = trail[i]
    BY <1>1, <2>2, <2>3
  <2>5. lv > 0 => trail_lim[lv] < n
    <3> SUFFICES ASSUME lv > 0 PROVE trail_lim[lv] < n
      OBVIOUS
    <3>1. lv \in DOMAIN trail_lim /\ lv + 1 \in DOMAIN trail_lim /\ lv < lv + 1
      BY <1>1, <1>2
    <3> QED
      BY <2>1, <3>1 DEF TrailInv
  <2>6. \A i \in DOMAIN trail : i <= n <=> Lv(i) <= lv
    <3> SUFFICES ASSUME NEW i \in DOMAIN trail PROVE i <= n <=> Lv(i) <= lv
      OBVIOUS
    <3>1. PICK x : x = Lv(i)
      OBVIOUS
    <3>2. /\ x \in Nat /\ x <= decisionLevel
          /\ x > 0 => trail_lim[x] < i
          /\ x < decisionLevel => i <= trail_lim[x + 1]
      <4>1. Var(trail[i]) \in Vars
        BY <1>1, Lits DEF TypeOK, TypeFlow
      <4> QED
        BY <1>1, <3>1, <4>1 DEF TrailInv, Lv
    <3>3. CASE x <= lv
      <4>1. x + 1 \in DOMAIN trail_lim /\ lv + 1 \in DOMAIN trail_lim
        BY <1>1, <1>2, <3>2, <3>3
      <4>2. trail_lim[x + 1] <= trail_lim[lv + 1]
        <5>1. CASE x = lv
          BY <1>1, <4>1, <5>1
        <5>2. CASE x # lv
          <6>1. x + 1 < lv + 1
            BY <3>2, <3>3, <5>2
          <6>2. trail_lim[x + 1] < trail_lim[lv + 1]
            BY <4>1, <6>1 DEF TrailInv
          <6> QED
            BY <1>1, <4>1, <6>2
        <5> QED
          BY <5>1, <5>2
      <4>3. i <= trail_lim[x + 1] /\ trail_lim[x + 1] \in Nat
        BY <1>1, <1>2, <3>2, <3>3, <4>1
      <4> QED
        BY <2>1, <2>2, <3>1, <3>3, <4>2, <4>3
    <3>4. CASE x > lv
      <4>1. x \in DOMAIN trail_lim /\ lv + 1 \in DOMAIN trail_lim
        BY <1>1, <1>2, <3>2, <3>4
      <4>2. trail_lim[lv + 1] <= trail_lim[x]
        <5>1. CASE x = lv + 1
          BY <1>1, <4>1, <5>1
        <5>2. CASE x # lv + 1
          <6>1. lv + 1 < x
            BY <3>2, <3>4, <5>2
          <6>2. trail_lim[lv + 1] < trail_lim[x]
            BY <4>1, <6>1 DEF TrailInv
          <6> QED
            BY <1>1, <4>1, <6>2
        <5> QED
          BY <5>1, <5>2
      <4>3. trail_lim[x] < i /\ trail_lim[x] \in Nat
        BY <1>1, <3>2, <3>4, <4>1
      <4> QED
        BY <2>1, <2>2, <3>1, <3>2, <3>4, <4>2, <4>3
    <3> QED
      BY <3>2, <3>3, <3>4
  <2> QED
    BY <2>1, <2>2, <2>4, <2>5, <2>6
<1>3. CASE lv = decisionLevel
  <2>1. tr = trail
    BY <1>1, <1>3 DEF TrailUntil
  <2>2. \A i \in DOMAIN trail : Lv(i) <= lv
    BY <1>3 DEF TrailInv
  <2>3. lv > 0 => trail_lim[lv] < Len(tr)
    BY <1>1, <1>3, <2>1 DEF TrailInv
  <2> QED
    BY <1>1, <1>3, <2>1, <2>2, <2>3
<1> QED
  BY <1>1, <1>2, <1>3

-----------------------------------------------------------------------------
(* The whole invariant.                                                    *)
SolverInv ==
  /\ TypeOK /\ FlowInv /\ TrailInv /\ ClauseInv /\ WatchInv /\ ReasonInv /\ ConflictInv
  /\ SupportInv /\ HeapInv /\ AnalyzeInv /\ ModelInv

(* The clause d has the literals of c in another order.                    *)
Permuted(c, d) ==
  /\ d \in Seq(Literals) /\ Len(d) = Len(c) /\ Alone(d)
  /\ \A l : l \in Range(d) <=> l \in Range(c)

LEMMA RangeIs ==
  ASSUME NEW D, NEW s \in Seq(D), NEW l
  PROVE  l \in Range(s) <=> \E k \in 1..Len(s) : s[k] = l
BY DEF Range

LEMMA SwapFacts ==
  ASSUME NEW c \in Seq(Literals), Alone(c), NEW i \in 1..Len(c), NEW j \in 1..Len(c), i # j,
         NEW d, d = Swap(c, i, j)
  PROVE  /\ Permuted(c, d) /\ d[i] = c[j] /\ d[j] = c[i]
         /\ \A k \in 1..Len(c) : k # i /\ k # j => d[k] = c[k]
<1>1. d \in Seq(Literals) /\ Len(d) = Len(c) /\ d[i] = c[j] /\ d[j] = c[i]
  BY DEF Swap
<1>2. \A k \in 1..Len(c) : k # i /\ k # j => d[k] = c[k]
  BY DEF Swap
<1>3. Alone(d)
  BY <1>1, <1>2 DEF Alone
<1>4. ASSUME NEW l PROVE l \in Range(d) <=> l \in Range(c)
  BY <1>1, <1>2, RangeIs
<1> QED
  BY <1>1, <1>2, <1>3, <1>4 DEF Permuted

LEMMA PermutedSelf ==
  ASSUME NEW c \in Seq(Literals), Alone(c)
  PROVE  Permuted(c, c)
BY DEF Permuted

(* What there is to know of a clause that is visited.                      *)
Visited(w, p, c) ==
  /\ w \in Watchers /\ w = todo[1] /\ w.cref \in Live /\ w.cref \in Refs
  /\ qhead \in DOMAIN trail /\ p = trail[qhead] /\ p \in Literals /\ IsFalse(-p)
  /\ confl = CRef_Undef /\ Lv(qhead) = decisionLevel
  /\ Permuted(ca[w.cref], c) /\ Len(c) > 1 /\ c[2] = -p
  /\ \/ c = ca[w.cref]
     \/ c = Swap(ca[w.cref], 1, 2) /\ ca[w.cref][1] = -p /\ ca[w.cref][2] = c[1]
  /\ \/ c[1] = ca[w.cref][1] /\ c[2] = ca[w.cref][2]
     \/ c[2] = ca[w.cref][1] /\ c[1] = ca[w.cref][2]
  /\ \A k \in 3..Len(c) : c[k] = ca[w.cref][k]

LEMMA TopLevel ==
  ASSUME TypeOK, TrailInv, NEW i \in DOMAIN trail
  PROVE  /\ Lv(i) \in Nat /\ Var(trail[i]) \in Vars
         /\ Lv(i) = decisionLevel <=> (decisionLevel = 0 \/ trail_lim[decisionLevel] < i)
<1>1. trail \in Seq(Literals) /\ trail_lim \in Seq(Nat) /\ decisionLevel = Len(trail_lim)
      /\ level \in [Vars -> Nat]
  BY DEF TypeOK, TypeTrail, decisionLevel
<1>2. Var(trail[i]) \in Vars /\ Lv(i) \in Nat
  <2>1. Var(trail[i]) \in Vars
    BY <1>1, Lits DEF TypeOK, TypeFlow
  <2> QED
    BY <1>1, <2>1 DEF Lv
<1>3. CASE Lv(i) = decisionLevel
  BY <1>1, <1>2, <1>3 DEF TrailInv
<1>4. CASE Lv(i) # decisionLevel
  <2>1. PICK x : x = Lv(i)
    OBVIOUS
  <2>2. x \in Nat /\ x < decisionLevel /\ i <= trail_lim[x + 1]
    BY <1>1, <1>2, <1>4, <2>1 DEF TrailInv
  <2>3. x + 1 \in DOMAIN trail_lim /\ decisionLevel \in DOMAIN trail_lim
    BY <1>1, <2>2
  <2>4. trail_lim[x + 1] <= trail_lim[decisionLevel]
    <3>1. CASE x + 1 = decisionLevel
      BY <1>1, <2>3, <3>1
    <3>2. CASE x + 1 # decisionLevel
      <4>1. x + 1 < decisionLevel
        BY <1>1, <2>2, <3>2
      <4>2. trail_lim[x + 1] < trail_lim[decisionLevel]
        BY <2>3, <4>1 DEF TrailInv
      <4> QED
        BY <1>1, <2>3, <4>2
    <3> QED
      BY <3>1, <3>2
  <2>5. ~ (trail_lim[decisionLevel] < i) /\ decisionLevel # 0
    BY <1>1, <2>2, <2>3, <2>4
  <2> QED
    BY <1>2, <1>4, <2>5
<1> QED
  BY <1>2, <1>3, <1>4

LEMMA VisitFacts ==
  ASSUME TypeOK, FlowInv, TrailInv, ClauseInv, WatchInv, todo # <<>>,
         NEW w, w = Head(todo), NEW p, p = trail[qhead], NEW c, c = Turned(ca[w.cref], p)
  PROVE  Visited(w, p, c)
<1>1. /\ w \in Watchers /\ w = todo[1] /\ 1 \in DOMAIN todo /\ confl = CRef_Undef
      /\ qhead \in DOMAIN trail /\ p \in Literals
  BY DEF TypeOK, TypeLists, TypeTrail, FlowInv
<1>2. w.cref \in Refs /\ w.cref \notin removed
      /\ (p = -ca[w.cref][1] \/ p = -ca[w.cref][2])
  <2>1. w \in Range(todo)
    BY <1>1 DEF Range
  <2> QED
    BY <2>1 DEF WatchInv, Proper
<1>3. w.cref \in Live
  BY <1>2 DEF ClauseInv
<1>4. PICK b : b = ca[w.cref]
  OBVIOUS
<1>5. b \in Seq(Literals) /\ Len(b) > 1 /\ Alone(b)
  <2>1. b \in Seq(Literals)
    BY <1>2, <1>4 DEF TypeOK, TypeBase, Refs
  <2>2. Len(b) > 1 /\ \A i, j \in DOMAIN b : b[i] = b[j] => i = j
    BY <1>2, <1>4 DEF ClauseInv
  <2> QED
    BY <2>1, <2>2 DEF Alone
<1>6. b[1] \in Literals /\ b[2] \in Literals
  BY <1>5
<1>7. p = -b[1] \/ p = -b[2]
  BY <1>2, <1>4
<1>8. b[1] = -p \/ b[2] = -p
  BY <1>6, <1>7, Lits DEF TypeOK, TypeFlow
<1>9. /\ Permuted(b, c) /\ Len(c) > 1 /\ c[2] = -p
      /\ c = b \/ (c = Swap(b, 1, 2) /\ b[1] = -p /\ b[2] = c[1])
      /\ (c[1] = b[1] /\ c[2] = b[2]) \/ (c[2] = b[1] /\ c[1] = b[2])
      /\ \A k \in 3..Len(c) : c[k] = b[k]
  <2>1. CASE b[1] = -p
    <3>1. c = Swap(b, 1, 2)
      BY <1>4, <2>1 DEF Turned
    <3>2. 1 \in 1..Len(b) /\ 2 \in 1..Len(b)
      BY <1>5
    <3>3. /\ Permuted(b, c) /\ c[1] = b[2] /\ c[2] = b[1]
          /\ \A k \in 1..Len(b) : k # 1 /\ k # 2 => c[k] = b[k]
      BY <1>5, <3>1, <3>2, SwapFacts
    <3>4. Len(c) = Len(b)
      BY <3>3 DEF Permuted
    <3>5. \A k \in 3..Len(c) : c[k] = b[k]
      BY <1>5, <3>3, <3>4
    <3> QED
      BY <1>5, <2>1, <3>1, <3>3, <3>4, <3>5
  <2>2. CASE b[1] # -p
    <3>1. c = b
      BY <1>4, <2>2 DEF Turned
    <3> QED
      BY <1>5, <1>8, <2>2, <3>1, PermutedSelf
  <2> QED
    BY <2>1, <2>2
<1>10. IsFalse(-p)
  <2>1. -(-p) = p
    BY <1>1, Lits DEF TypeOK, TypeFlow
  <2> QED
    BY <1>1, <2>1, OnTrail
<1>11. Lv(qhead) = decisionLevel
  <2>0. decisionLevel \in Nat
    BY DEF TypeOK, TypeTrail, decisionLevel
  <2>1. decisionLevel = 0 \/ trail_lim[decisionLevel] < qhead
    BY <2>0 DEF TrailInv
  <2> QED
    BY <1>1, <2>1, TopLevel
<1> QED
  BY <1>1, <1>2, <1>3, <1>4, <1>9, <1>10, <1>11 DEF Visited

LEMMA LitFacts ==
  ASSUME TypeOK
  PROVE  /\ \A l \in Literals : /\ l \in Int /\ l # 0 /\ -l \in Literals /\ -(-l) = l /\ l # -l
                                /\ Var(l) \in Vars /\ Var(-l) = Var(l)
         /\ \A l, m \in Literals : Var(l) = Var(m) => l = m \/ l = -m
         /\ \A v \in Vars : v \in Nat /\ v > 0 /\ v \in Literals /\ Var(v) = v
BY Lits DEF TypeOK, TypeFlow

LEMMA TrailTypes ==
  ASSUME TypeOK
  PROVE  /\ trail \in Seq(Literals) /\ trail_lim \in Seq(Nat) /\ qhead \in 0..Len(trail)
         /\ decisionLevel = Len(trail_lim) /\ decisionLevel \in Nat
         /\ level \in [Vars -> Nat] /\ reason \in [Vars -> Nat]
         /\ \A i \in DOMAIN trail :
              /\ trail[i] \in Literals /\ -trail[i] \in Literals
              /\ Var(trail[i]) \in Vars /\ Lv(i) \in Nat
         /\ decisionLevel > 0 => trail_lim[decisionLevel] \in Nat
<1>1. /\ trail \in Seq(Literals) /\ trail_lim \in Seq(Nat) /\ qhead \in 0..Len(trail)
      /\ level \in [Vars -> Nat] /\ reason \in [Vars -> Nat]
  BY DEF TypeOK, TypeTrail
<1>2. \A i \in DOMAIN trail : trail[i] \in Literals
  BY <1>1
<1>3. \A i \in DOMAIN trail : -trail[i] \in Literals /\ Var(trail[i]) \in Vars
  BY <1>2, LitFacts
<1>4. \A i \in DOMAIN trail : Lv(i) \in Nat
  BY <1>1, <1>3 DEF Lv
<1> QED
  BY <1>1, <1>2, <1>3, <1>4 DEF decisionLevel

LEMMA ClauseTypes ==
  ASSUME TypeOK, ClauseInv
  PROVE  /\ ca \in Seq(Seq(Literals)) /\ Refs = 1..Len(ca)
         /\ \A cr \in Refs : /\ ca[cr] \in Seq(Literals) /\ Len(ca[cr]) > 1 /\ Alone(ca[cr])
                             /\ DOMAIN ca[cr] = 1..Len(ca[cr])
                             /\ ca[cr][1] \in Literals /\ ca[cr][2] \in Literals
                             /\ ca[cr][1] # ca[cr][2]
         /\ Live \subseteq Refs
<1>1. ca \in Seq(Seq(Literals)) /\ Refs = 1..Len(ca)
  BY DEF TypeOK, TypeBase, Refs
<1>2. ASSUME NEW cr \in Refs
      PROVE  /\ ca[cr] \in Seq(Literals) /\ Len(ca[cr]) > 1
             /\ DOMAIN ca[cr] = 1..Len(ca[cr])
  BY <1>1 DEF ClauseInv
<1>3. ASSUME NEW cr \in Refs PROVE Alone(ca[cr])
  <2>1. \A i, j \in DOMAIN ca[cr] : ca[cr][i] = ca[cr][j] => i = j
    BY DEF ClauseInv
  <2> QED
    BY <1>2, <2>1 DEF Alone
<1>4. ASSUME NEW cr \in Refs
      PROVE  ca[cr][1] \in Literals /\ ca[cr][2] \in Literals /\ ca[cr][1] # ca[cr][2]
  <2>1. 1 \in 1..Len(ca[cr]) /\ 2 \in 1..Len(ca[cr])
    BY <1>2
  <2> QED
    BY <1>2, <1>3, <2>1 DEF Alone
<1> QED
  BY <1>1, <1>2, <1>3, <1>4 DEF ClauseInv

-----------------------------------------------------------------------------
(* The analysis of a conflict.                                             *)
LEMMA TailRange ==
  ASSUME NEW D, NEW s \in Seq(D), Len(s) > 0, NEW l
  PROVE  l \in Range(Tail(s)) <=> \E k \in 2..Len(s) : s[k] = l
<1>1. /\ Tail(s) \in Seq(D) /\ Len(Tail(s)) = Len(s) - 1
      /\ \A k \in 1..Len(s) - 1 : Tail(s)[k] = s[k + 1]
  OBVIOUS
<1>2. ASSUME NEW k \in 2..Len(s) PROVE k - 1 \in 1..Len(s) - 1 /\ Tail(s)[k - 1] = s[k]
  BY <1>1
<1>3. l \in Range(Tail(s)) <=> \E k \in 1..Len(s) - 1 : Tail(s)[k] = l
  BY <1>1, RangeIs
<1>4. \A k \in 1..Len(s) - 1 : k + 1 \in 2..Len(s)
  OBVIOUS
<1> QED
  BY <1>1, <1>2, <1>3, <1>4

(* The clause C whose literals Q are visited next is true only if one of   *)
(* Q or an.p is, and an.p is the literal it was the reason for.            *)
Source(C, Q) ==
  /\ an.confl \in Live /\ C = ca[an.confl]
  /\ C \in Seq(Literals) /\ Len(C) > 1 /\ Alone(C) /\ an.index <= Len(trail)
  /\ \A q \in Q : /\ q \in Literals /\ q \in Range(C) /\ q # an.p
                  /\ \E i \in 1..an.index : trail[i] = -q
  /\ \A k \in 1..Len(C) : C[k] \in Q \/ (C[k] = an.p /\ an.p # 0)
  /\ \E i \in 1..an.index : /\ Lv(i) = decisionLevel
                            /\ \/ Var(trail[i]) \in an.seen
                               \/ \E q \in Q : Var(q) = Var(trail[i])

LEMMA SourceStart ==
  ASSUME TypeOK, FlowInv, TrailInv, ClauseInv, ConflictInv, AnalyzeInv, pc = "analyze", an.p = 0,
         NEW C, C = ca[an.confl], NEW Q, Q = Range(C)
  PROVE  Source(C, Q)
<1>1. an.confl = confl /\ confl # CRef_Undef /\ an.index = Len(trail)
  BY DEF AnalyzeInv, FlowInv
<1>2. /\ confl \in Live
      /\ \A k \in DOMAIN C : IsFalse(C[k])
      /\ \E k \in DOMAIN C : level[Var(C[k])] = decisionLevel
  BY <1>1 DEF ConflictInv
<1>3. C \in Seq(Literals) /\ Len(C) > 1 /\ Alone(C)
  BY <1>1, <1>2, ClauseTypes
<1>4. \A l : l \in Q <=> \E k \in 1..Len(C) : C[k] = l
  BY <1>3, RangeIs
<1>5. \A k \in 1..Len(C) : C[k] \in Literals /\ \E i \in 1..Len(trail) : trail[i] = -C[k]
  <2> SUFFICES ASSUME NEW k \in 1..Len(C)
               PROVE  C[k] \in Literals /\ \E i \in 1..Len(trail) : trail[i] = -C[k]
    OBVIOUS
  <2>1. C[k] \in Literals /\ IsFalse(C[k])
    BY <1>2, <1>3
  <2>2. DOMAIN trail = 1..Len(trail)
    BY TrailTypes
  <2> QED
    BY <2>1, <2>2, OnTrail
<1>6. \A q \in Q : q \in Literals /\ q \in Range(C) /\ q # 0 /\ \E i \in 1..Len(trail) : trail[i] = -q
  BY <1>4, <1>5, LitFacts, RangeIs, <1>3
<1>7. \E i \in 1..Len(trail) : /\ Lv(i) = decisionLevel
                               /\ \E q \in Q : Var(q) = Var(trail[i])
  <2>1. PICK k \in 1..Len(C) : level[Var(C[k])] = decisionLevel
    BY <1>2, <1>3
  <2>2. PICK i \in 1..Len(trail) : trail[i] = -C[k]
    BY <1>5
  <2>3. Var(C[k]) = Var(trail[i]) /\ C[k] \in Q
    BY <1>4, <1>5, <2>2, LitFacts
  <2> QED
    BY <2>1, <2>3 DEF Lv
<1>8. an.index <= Len(trail) /\ 1..an.index = 1..Len(trail)
  BY <1>1 DEF TypeOK, TypeTrail
<1> QED
  BY <1>1, <1>2, <1>3, <1>4, <1>6, <1>7, <1>8 DEF Source

LEMMA SourceReason ==
  ASSUME TypeOK, FlowInv, TrailInv, ClauseInv, ReasonInv, AnalyzeInv, pc = "analyze", an.p # 0,
         NEW C, C = ca[an.confl], NEW Q, Q = Range(Tail(C))
  PROVE  Source(C, Q)
<1> DEFINE i == an.index + 1
<1>1. /\ an.index \in Nat /\ i \in DOMAIN trail /\ trail[i] = an.p /\ Lv(i) = decisionLevel
      /\ an.confl = reason[Var(an.p)] /\ an.pathC > 0 /\ decisionLevel > 0
      /\ an.pathC = Cardinality({v \in an.seen : level[v] = decisionLevel})
  <2>1. an.index \in Nat
    BY DEF TypeOK, TypeAnalysis
  <2> QED
    BY <2>1 DEF AnalyzeInv, FlowInv, LastPicked, Counted
<1>2. PICK v \in an.seen : level[v] = decisionLevel
  <2>1. Cardinality({v \in an.seen : level[v] = decisionLevel}) # 0
    BY <1>1
  <2>2. {v \in an.seen : level[v] = decisionLevel} # {}
    BY <2>1, FS_EmptySet
  <2> QED
    BY <2>2
<1>3. PICK j \in DOMAIN trail : Var(trail[j]) = v /\ (Lv(j) = decisionLevel => j <= an.index)
  BY <1>2 DEF AnalyzeInv, SeenOnTrail
<1>4. j \in 1..an.index /\ Lv(j) = decisionLevel
  <2>1. Lv(j) = decisionLevel
    BY <1>2, <1>3 DEF Lv
  <2> QED
    BY <1>1, <1>3, <2>1, TrailTypes
<1>5. Justified(i, an.confl)
  <2>1. trail_lim[decisionLevel] < j
    BY <1>1, <1>3, <1>4, TopLevel
  <2>2. trail_lim[decisionLevel] \in Nat
    BY <1>1, TrailTypes
  <2>3. trail_lim[decisionLevel] # i - 1
    BY <1>1, <1>4, <2>1, <2>2
  <2>4. ~ (Lv(i) = 0 \/ trail_lim[Lv(i)] = i - 1)
    BY <1>1, <2>3, TrailTypes
  <2> QED
    BY <1>1, <2>4 DEF ReasonInv
<1>6. an.confl \in Live /\ C[1] = an.p /\ \A k \in 2..Len(C) : Before(C[k], i)
  BY <1>1, <1>5 DEF Justified
<1>7. C \in Seq(Literals) /\ Len(C) > 1 /\ Alone(C)
  BY <1>6, ClauseTypes
<1>8. \A l : l \in Q <=> \E k \in 2..Len(C) : C[k] = l
  BY <1>7, TailRange
<1>9. \A q \in Q : /\ q \in Literals /\ q \in Range(C) /\ q # an.p
                   /\ \E m \in 1..an.index : trail[m] = -q
  <2> SUFFICES ASSUME NEW q \in Q
               PROVE  /\ q \in Literals /\ q \in Range(C) /\ q # an.p
                      /\ \E m \in 1..an.index : trail[m] = -q
    OBVIOUS
  <2>1. PICK k \in 2..Len(C) : C[k] = q
    BY <1>8
  <2>2. k \in 1..Len(C) /\ 1 \in 1..Len(C) /\ k # 1
    BY <1>7
  <2>3. q \in Literals /\ q \in Range(C)
    BY <1>7, <2>1, <2>2, RangeIs
  <2>4. q # an.p
    BY <1>6, <1>7, <2>1, <2>2 DEF Alone
  <2>5. \E m \in 1..i - 1 : trail[m] = -q
    BY <1>6, <2>1 DEF Before
  <2>6. i - 1 = an.index
    BY <1>1
  <2> QED
    BY <2>3, <2>4, <2>5, <2>6
<1>10. \A k \in 1..Len(C) : C[k] \in Q \/ (C[k] = an.p /\ an.p # 0)
  BY <1>6, <1>8
<1>11. an.index <= Len(trail)
  BY <1>1
<1> QED
  BY <1>1, <1>2, <1>3, <1>4, <1>6, <1>7, <1>9, <1>10, <1>11 DEF Source

LEMMA SourceFacts ==
  ASSUME TypeOK, FlowInv, TrailInv, ClauseInv, ReasonInv, ConflictInv, AnalyzeInv,
         pc = "analyze", NEW C, C = ca[an.confl],
         NEW Q, Q = Range(IF an.p = 0 THEN C ELSE Tail(C))
  PROVE  Source(C, Q)
<1>1. CASE an.p = 0
  BY <1>1, SourceStart
<1>2. CASE an.p # 0
  BY <1>2, SourceReason
<1> QED
  BY <1>1, <1>2

LEMMA FiniteRange ==
  ASSUME NEW D, NEW s \in Seq(D)
  PROVE  IsFiniteSet(Range(s))
<1> DEFINE f == [k \in 1..Len(s) |-> s[k]]
<1>1. f \in Surjection(1..Len(s), Range(s))
  BY RangeIs DEF Surjection
<1>2. IsFiniteSet(1..Len(s))
  BY FS_Interval
<1> HIDE DEF f
<1> QED
  BY <1>1, <1>2, FS_Surjection

OnTrailVars == {Var(trail[i]) : i \in DOMAIN trail}

LEMMA FiniteTrail ==
  ASSUME TypeOK
  PROVE  IsFiniteSet(OnTrailVars)
<1> DEFINE f == [i \in DOMAIN trail |-> Var(trail[i])]
<1>1. f \in Surjection(DOMAIN trail, OnTrailVars)
  BY DEF Surjection, OnTrailVars
<1>2. IsFiniteSet(DOMAIN trail)
  <2>1. DOMAIN trail = 1..Len(trail) /\ Len(trail) \in Nat
    BY TrailTypes
  <2> QED
    BY <2>1, FS_Interval
<1> HIDE DEF f
<1> QED
  BY <1>1, <1>2, FS_Surjection

(* The literal of the trail that is resolved on next, at i.                *)
Picked(i, S) ==
  /\ i \in 1..an.index /\ i \in DOMAIN trail /\ Lv(i) = decisionLevel
  /\ Var(trail[i]) \in S
  /\ \A k \in 1..an.index : Var(trail[k]) \in S => k <= i

LEMMA PickedFacts ==
  ASSUME TypeOK, TrailInv, FlowInv, AnalyzeInv, pc = "analyze", NEW C, NEW Q, Source(C, Q),
         NEW S, S = an.seen \cup {Var(q) : q \in {q \in Q : Var(q) \notin an.seen /\ level[Var(q)] > 0}},
         NEW i, i = Max({k \in 1..an.index : Var(trail[k]) \in S})
  PROVE  Picked(i, S)
<1> DEFINE K == {k \in 1..an.index : Var(trail[k]) \in S}
<1>1. an.index \in Nat /\ an.index <= Len(trail) /\ decisionLevel > 0
  BY DEF TypeOK, TypeAnalysis, Source, FlowInv
<1>2. PICK j \in 1..an.index : /\ Lv(j) = decisionLevel
                               /\ \/ Var(trail[j]) \in an.seen
                                  \/ \E q \in Q : Var(q) = Var(trail[j])
  BY DEF Source
<1>3. j \in K
  <2>1. CASE Var(trail[j]) \in an.seen
    BY <2>1
  <2>2. CASE Var(trail[j]) \notin an.seen
    <3>1. PICK q \in Q : Var(q) = Var(trail[j])
      BY <1>2, <2>2
    <3>2. level[Var(q)] > 0
      BY <1>1, <1>2, <3>1 DEF Lv
    <3>3. Var(q) \in {Var(r) : r \in {r \in Q : Var(r) \notin an.seen /\ level[Var(r)] > 0}}
      BY <2>2, <3>1, <3>2
    <3> QED
      BY <3>1, <3>3
  <2> QED
    BY <2>1, <2>2
<1> HIDE DEF K
<1>4. K \in SUBSET Nat /\ K # {} /\ \A k \in K : k <= an.index
  BY <1>1, <1>3 DEF K
<1>5. \E m \in K : \A k \in K : k <= m
  BY <1>1, <1>4, NatMax
<1>6. i \in K /\ \A k \in K : k <= i
  <2>1. i = CHOOSE x \in K : \A y \in K : x >= y
    BY DEF Max, K
  <2>2. \E x \in K : \A y \in K : x >= y
    BY <1>4, <1>5
  <2>3. i \in K /\ \A y \in K : i >= y
    BY <2>1, <2>2
  <2> QED
    BY <1>4, <2>3
<1>7. i \in 1..an.index /\ Var(trail[i]) \in S /\ \A k \in 1..an.index : Var(trail[k]) \in S => k <= i
  BY <1>6 DEF K
<1>8. i \in DOMAIN trail /\ j \in DOMAIN trail
  BY <1>1, <1>7, TrailTypes
<1>9. Lv(i) = decisionLevel
  <2>1. trail_lim[decisionLevel] < j /\ j <= i /\ trail_lim[decisionLevel] \in Nat
    <3>1. trail_lim[decisionLevel] < j
      <4>1. decisionLevel = 0 \/ trail_lim[decisionLevel] < j
        BY <1>2, <1>8, TopLevel
      <4> QED
        BY <1>1, <4>1
    <3>2. trail_lim[decisionLevel] \in Nat
      BY <1>1, TrailTypes
    <3> QED
      BY <1>3, <1>6, <3>1, <3>2
  <2>2. trail_lim[decisionLevel] < i
    BY <1>7, <2>1
  <2> QED
    BY <1>8, <2>2, TopLevel
<1> QED
  BY <1>7, <1>8, <1>9 DEF Picked

LEMMA NewIs ==
  ASSUME NEW C, C = ca[an.confl], NEW Q, Q = Range(IF an.p = 0 THEN C ELSE Tail(C))
  PROVE  New = {q \in Q : Var(q) \notin an.seen /\ level[Var(q)] > 0}
BY DEF New

LEMMA HoldsNot ==
  ASSUME TypeOK, NEW l \in Literals, NEW A
  PROVE  Holds(-l, A) <=> ~ Holds(l, A)
<1>1. l \in Int /\ l # 0
  BY LitFacts
<1> QED
  BY <1>1 DEF Holds

(* One step of the analysis, from an to b.                                 *)
Step(C, Q, N, now, S, i, b) ==
  /\ Source(C, Q) /\ Picked(i, S)
  /\ N = {q \in Q : Var(q) \notin an.seen /\ level[Var(q)] > 0}
  /\ now = {q \in N : level[Var(q)] >= decisionLevel}
  /\ S = an.seen \cup {Var(q) : q \in N}
  /\ b = [p |-> trail[i], index |-> i - 1, seen |-> S \ {Var(trail[i])},
          pathC |-> an.pathC + Cardinality(now) - 1,
          out |-> an.out \o Among(C, N \ now), confl |-> reason[Var(trail[i])]]

LEMMA FreshFacts ==
  ASSUME TypeOK, TrailInv, NEW C, NEW Q, NEW N, NEW now, NEW S, NEW i, NEW b,
         Step(C, Q, N, now, S, i, b), NEW q \in N
  PROVE  /\ q \in Literals /\ Var(q) \in Vars /\ q \in Range(C) /\ IsFalse(q)
         /\ Var(q) \notin an.seen /\ level[Var(q)] > 0 /\ level[Var(q)] <= decisionLevel
         /\ \E k \in DOMAIN trail : /\ k \in 1..an.index /\ trail[k] = -q /\ Var(trail[k]) = Var(q)
                                    /\ Lv(k) = level[Var(q)]
<1>1. q \in Q /\ Var(q) \notin an.seen /\ level[Var(q)] > 0
  BY DEF Step
<1>2. q \in Literals /\ q \in Range(C) /\ \E k \in 1..an.index : trail[k] = -q
  BY <1>1 DEF Step, Source
<1>3. PICK k \in 1..an.index : trail[k] = -q
  BY <1>2
<1>4. an.index <= Len(trail) /\ an.index \in Nat
  BY DEF Step, Source, TypeOK, TypeAnalysis
<1>5. k \in DOMAIN trail
  BY <1>4, TrailTypes
<1>6. Var(trail[k]) = Var(q) /\ Var(q) \in Vars
  BY <1>2, <1>3, LitFacts
<1>7. Lv(k) = level[Var(q)]
  BY <1>6 DEF Lv
<1>8. level[Var(q)] <= decisionLevel
  BY <1>5, <1>7 DEF TrailInv
<1>9. IsFalse(q)
  BY <1>3, <1>5, OnTrail
<1> QED
  BY <1>1, <1>2, <1>3, <1>5, <1>6, <1>7, <1>8, <1>9

LEMMA StepSeen ==
  ASSUME TypeOK, TrailInv, SeenOnTrail(an), NEW C, NEW Q, NEW N, NEW now, NEW S, NEW i, NEW b,
         Step(C, Q, N, now, S, i, b)
  PROVE  /\ SeenOnTrail(b) /\ LastPicked(b) /\ b.p # 0
         /\ \A v \in S : v \in Vars /\ \E k \in DOMAIN trail :
              Var(trail[k]) = v /\ Lv(k) > 0 /\ (Lv(k) = decisionLevel => k <= an.index)
<1>1. ASSUME NEW v \in S
      PROVE  v \in Vars /\ \E k \in DOMAIN trail :
               Var(trail[k]) = v /\ Lv(k) > 0 /\ (Lv(k) = decisionLevel => k <= an.index)
  <2>1. CASE v \in an.seen
    <3>1. \E k \in DOMAIN trail :
            Var(trail[k]) = v /\ Lv(k) > 0 /\ (Lv(k) = decisionLevel => k <= an.index)
      BY <2>1 DEF SeenOnTrail
    <3> QED
      BY <3>1, TrailTypes
  <2>2. CASE v \notin an.seen
    <3>1. PICK q \in N : v = Var(q)
      BY <2>2 DEF Step
    <3> QED
      BY <3>1, FreshFacts
  <2> QED
    BY <2>1, <2>2
<1>2. /\ b.seen = S \ {Var(trail[i])} /\ b.index = i - 1 /\ b.p = trail[i]
      /\ b.confl = reason[Var(trail[i])]
      /\ i \in Nat /\ i \in DOMAIN trail /\ Lv(i) = decisionLevel
      /\ \A k \in 1..an.index : Var(trail[k]) \in S => k <= i
  BY DEF Step, Picked
<1>3. SeenOnTrail(b)
  <2> SUFFICES ASSUME NEW v \in b.seen
               PROVE  \E k \in DOMAIN trail :
                 Var(trail[k]) = v /\ Lv(k) > 0 /\ (Lv(k) = decisionLevel => k <= b.index)
    BY DEF SeenOnTrail
  <2>1. v \in S /\ v # Var(trail[i])
    BY <1>2
  <2>2. PICK k \in DOMAIN trail :
          Var(trail[k]) = v /\ Lv(k) > 0 /\ (Lv(k) = decisionLevel => k <= an.index)
    BY <1>1, <2>1
  <2>3. Lv(k) = decisionLevel => k <= b.index
    <3> SUFFICES ASSUME Lv(k) = decisionLevel PROVE k <= b.index
      OBVIOUS
    <3>1. k \in 1..an.index
      <4>1. an.index \in Nat /\ DOMAIN trail = 1..Len(trail)
        BY TrailTypes DEF TypeOK, TypeAnalysis
      <4> QED
        BY <2>2, <4>1
    <3>2. k <= i /\ k # i
      BY <1>2, <2>1, <2>2, <3>1
    <3> QED
      BY <1>2, <3>1, <3>2
  <2> QED
    BY <2>2, <2>3
<1>4. LastPicked(b) /\ b.p # 0
  <2>1. b.index + 1 = i
    BY <1>2
  <2>2. b.p # 0
    BY <1>2, TrailTypes, LitFacts
  <2> QED
    BY <1>2, <2>1, <2>2 DEF LastPicked
<1> QED
  BY <1>1, <1>3, <1>4

LEMMA StepCounted ==
  ASSUME TypeOK, TrailInv, SeenOnTrail(an), Counted(an),
         NEW C, NEW Q, NEW N, NEW now, NEW S, NEW i, NEW b,
         Step(C, Q, N, now, S, i, b)
  PROVE  Counted(b) /\ b.pathC \in Nat /\ Cardinality(now) \in Nat
<1> DEFINE T == {v \in an.seen : level[v] = decisionLevel}
           W == {Var(q) : q \in now}
           f == [q \in now |-> Var(q)]
<1>1. \A q \in now : q \in N /\ level[Var(q)] = decisionLevel
  <2> SUFFICES ASSUME NEW q \in now PROVE q \in N /\ level[Var(q)] = decisionLevel
    OBVIOUS
  <2>1. q \in N /\ level[Var(q)] >= decisionLevel
    BY DEF Step
  <2>2. level[Var(q)] <= decisionLevel /\ Var(q) \in Vars
    BY <2>1, FreshFacts
  <2>3. level[Var(q)] \in Nat
    BY <2>2, TrailTypes
  <2> QED
    BY <2>1, <2>2, <2>3, TrailTypes
<1>2. IsFiniteSet(now)
  <2>1. now \subseteq Range(C)
    BY <1>1, FreshFacts
  <2>2. IsFiniteSet(Range(C))
    BY FiniteRange DEF Step, Source
  <2> QED
    BY <2>1, <2>2, FS_Subset
<1>3. f \in Injection(now, W)
  <2>1. \A q, r \in now : Var(q) = Var(r) => q = r
    <3> SUFFICES ASSUME NEW q \in now, NEW r \in now, Var(q) = Var(r) PROVE q = r
      OBVIOUS
    <3>1. q \in N /\ r \in N
      BY <1>1
    <3>2. PICK k \in DOMAIN trail : trail[k] = -q /\ Var(trail[k]) = Var(q)
      BY <3>1, FreshFacts
    <3>3. PICK m \in DOMAIN trail : trail[m] = -r /\ Var(trail[m]) = Var(r)
      BY <3>1, FreshFacts
    <3>4. k = m
      BY <3>2, <3>3 DEF TrailInv
    <3>5. -(-q) = q /\ -(-r) = r
      BY <3>1, FreshFacts, LitFacts
    <3> QED
      BY <3>2, <3>3, <3>4, <3>5
  <2> QED
    BY <2>1 DEF Injection, IsInjective
<1>4. f \in Surjection(now, W)
  BY DEF Surjection
<1>5. IsFiniteSet(W) /\ Cardinality(W) = Cardinality(now) /\ Cardinality(now) \in Nat
  <2> HIDE DEF f, W
  <2>1. IsFiniteSet(W) /\ (Cardinality(W) = Cardinality(now) <=> f \in Injection(now, W))
    BY <1>2, <1>4, FS_Surjection
  <2> QED
    BY <1>2, <1>3, <2>1, FS_CardinalityType
<1>6. IsFiniteSet(T) /\ Cardinality(T) = an.pathC
  <2>1. T \subseteq OnTrailVars
    BY DEF SeenOnTrail, OnTrailVars
  <2>2. IsFiniteSet(T)
    BY <2>1, FiniteTrail, FS_Subset
  <2> QED
    BY <2>2 DEF Counted
<1>7. T \cap W = {}
  BY <1>1, FreshFacts
<1>8. IsFiniteSet(T \cup W) /\ Cardinality(T \cup W) = an.pathC + Cardinality(now)
  <2> HIDE DEF T, W
  <2>1. Cardinality(T \cap W) = 0
    BY <1>7, FS_EmptySet
  <2>2. Cardinality(T) \in Nat
    BY <1>6, FS_CardinalityType
  <2>3. /\ IsFiniteSet(T \cup W)
        /\ Cardinality(T \cup W) = Cardinality(T) + Cardinality(W) - Cardinality(T \cap W)
    BY <1>5, <1>6, FS_Union
  <2> QED
    BY <1>5, <1>6, <2>1, <2>2, <2>3
<1>9. T \cup W = {v \in S : level[v] = decisionLevel}
  <2>1. ASSUME NEW v \in S, level[v] = decisionLevel PROVE v \in T \cup W
    <3>1. CASE v \in an.seen
      BY <2>1, <3>1
    <3>2. CASE v \notin an.seen
      <4>1. PICK q \in N : v = Var(q)
        BY <3>2 DEF Step
      <4>2. q \in now
        BY <2>1, <4>1, TrailTypes DEF Step
      <4> QED
        BY <4>1, <4>2
    <3> QED
      BY <3>1, <3>2
  <2>2. \A v \in T : v \in S
    BY DEF Step
  <2>3. \A v \in W : v \in S /\ level[v] = decisionLevel
    BY <1>1 DEF Step
  <2> QED
    BY <2>1, <2>2, <2>3
<1>10. Var(trail[i]) \in T \cup W
  BY <1>9 DEF Step, Picked, Lv
<1>11. {v \in b.seen : level[v] = decisionLevel} = (T \cup W) \ {Var(trail[i])}
  <2>1. b.seen = S \ {Var(trail[i])}
    BY DEF Step
  <2> QED
    BY <1>9, <2>1
<1>12. Cardinality({v \in b.seen : level[v] = decisionLevel}) = an.pathC + Cardinality(now) - 1
  <2> HIDE DEF T, W
  <2>1. PICK U : U = T \cup W
    OBVIOUS
  <2>2. PICK x : x = Var(trail[i])
    OBVIOUS
  <2>3. IsFiniteSet(U) /\ x \in U
    BY <1>8, <1>10, <2>1, <2>2
  <2>4. Cardinality(U \ {x}) = Cardinality(U) - 1
    BY <2>3, FS_RemoveElement
  <2>5. {v \in b.seen : level[v] = decisionLevel} = U \ {x}
    BY <1>11, <2>1, <2>2, Zenon
  <2>6. Cardinality(U) = an.pathC + Cardinality(now)
    BY <1>8, <2>1, Zenon
  <2>7. Cardinality({v \in b.seen : level[v] = decisionLevel}) = Cardinality(U) - 1
    BY <2>4, <2>5, Zenon
  <2>8. Cardinality(U) - 1 = an.pathC + Cardinality(now) - 1
    <3>1. an.pathC \in Int /\ Cardinality(now) \in Nat /\ Cardinality(U) \in Nat
      BY <1>5, <2>3, FS_CardinalityType DEF TypeOK, TypeAnalysis
    <3> QED
      BY <2>6, <3>1
  <2> QED
    BY <2>7, <2>8, Zenon
<1>13. b.pathC = an.pathC + Cardinality(now) - 1
  BY DEF Step
<1>14. Cardinality({v \in b.seen : level[v] = decisionLevel}) \in Nat
  <2> HIDE DEF T, W
  <2> QED
    BY <1>8, <1>11, FS_RemoveElement, FS_CardinalityType
<1> QED
  BY <1>5, <1>12, <1>13, <1>14 DEF Counted

LEMMA AmongAlone ==
  ASSUME NEW D, NEW s \in Seq(D), NEW S, Alone(s)
  PROVE  Alone(Among(s, S))
<1>1. PICK h : Places(s, S, Len(s), Among(s, S), h)
  BY AmongSifts DEF Sifted
<1> QED
  BY <1>1 DEF Places, Alone

LEMMA Joined ==
  ASSUME NEW D, NEW s \in Seq(D), NEW t \in Seq(D), NEW u, u = s \o t
  PROVE  /\ u \in Seq(D) /\ Len(u) = Len(s) + Len(t)
         /\ \A k \in 1..Len(u) :
              (k \in 1..Len(s) /\ u[k] = s[k])
              \/ (k - Len(s) \in 1..Len(t) /\ u[k] = t[k - Len(s)])
         /\ \A k \in 1..Len(s) : k \in 1..Len(u) /\ u[k] = s[k]
         /\ \A k \in 1..Len(t) : Len(s) + k \in 1..Len(u) /\ u[Len(s) + k] = t[k]
OBVIOUS

LEMMA StepOut ==
  ASSUME TypeOK, TrailInv, SeenOnTrail(an), OutIsSeen(an),
         NEW C, NEW Q, NEW N, NEW now, NEW S, NEW i, NEW b,
         Step(C, Q, N, now, S, i, b)
  PROVE  OutIsSeen(b) /\ b.out \in Seq(Literals)
<1>1. PICK r : r = Among(C, N \ now)
  OBVIOUS
<1>2. /\ b.out = an.out \o r /\ b.seen = S \ {Var(trail[i])}
      /\ level[Var(trail[i])] = decisionLevel
  BY <1>1 DEF Step, Picked, Lv
<1>3. C \in Seq(Literals) /\ Alone(C) /\ an.out \in Seq(Literals)
  BY DEF Step, Source, TypeOK, TypeAnalysis
<1>4. /\ r \in Seq(Literals) /\ Alone(r)
      /\ \A k \in 1..Len(r) : r[k] \in N \ now
      /\ \A q \in N \ now : q \in Range(C) => \E k \in 1..Len(r) : r[k] = q
  <2>1. /\ r \in Seq(Literals) /\ Alone(r)
        /\ \A k \in 1..Len(r) : r[k] \in N \ now
        /\ \A k \in 1..Len(C) : C[k] \in N \ now => \E m \in 1..Len(r) : r[m] = C[k]
    <3>1. PICK T : T = N \ now
      OBVIOUS
    <3>2. r = Among(C, T)
      BY <1>1, <3>1
    <3>3. Alone(r)
      BY <1>3, <3>2, AmongAlone
    <3>4. r \in Seq(Literals) /\ Filtered(C, T, r)
      BY <1>3, <3>2, AmongFacts
    <3> QED
      BY <3>1, <3>3, <3>4 DEF Filtered
  <2> QED
    BY <1>3, <2>1, RangeIs
<1>5. ASSUME NEW q \in N \ now
      PROVE  /\ IsFalse(q) /\ Var(q) \in b.seen /\ level[Var(q)] < decisionLevel
             /\ Var(q) \notin an.seen /\ q \in Range(C)
  <2>1. /\ q \in N /\ Var(q) \in Vars /\ IsFalse(q) /\ Var(q) \notin an.seen /\ q \in Range(C)
    BY FreshFacts
  <2>2. ~ (level[Var(q)] >= decisionLevel)
    BY <2>1 DEF Step
  <2>3. level[Var(q)] < decisionLevel
    BY <2>1, <2>2, TrailTypes
  <2>4. Var(q) \in S
    BY <2>1 DEF Step
  <2> QED
    BY <1>2, <2>1, <2>2, <2>3, <2>4, TrailTypes
<1>6. PICK o : o = an.out
  OBVIOUS
<1>7. PICK u : u = b.out
  OBVIOUS
<1>8. o \in Seq(Literals) /\ u = o \o r
  BY <1>2, <1>3, <1>6, <1>7
<1>9. /\ u \in Seq(Literals)
      /\ \A k \in 1..Len(u) :
           (k \in 1..Len(o) /\ u[k] = o[k])
           \/ (k - Len(o) \in 1..Len(r) /\ u[k] = r[k - Len(o)])
      /\ \A k \in 1..Len(o) : k \in 1..Len(u) /\ u[k] = o[k]
      /\ \A k \in 1..Len(r) : Len(o) + k \in 1..Len(u) /\ u[Len(o) + k] = r[k]
  BY <1>4, <1>8, Joined
<1>10. DOMAIN u = 1..Len(u) /\ DOMAIN o = 1..Len(o) /\ Len(o) \in Nat
  BY <1>8, <1>9
<1>11. \A k \in 1..Len(o) : /\ IsFalse(o[k]) /\ Var(o[k]) \in an.seen /\ Var(o[k]) \in b.seen
                            /\ level[Var(o[k])] < decisionLevel
  <2> SUFFICES ASSUME NEW k \in 1..Len(o)
               PROVE  /\ IsFalse(o[k]) /\ Var(o[k]) \in an.seen /\ Var(o[k]) \in b.seen
                      /\ level[Var(o[k])] < decisionLevel
    OBVIOUS
  <2>1. IsFalse(o[k]) /\ Var(o[k]) \in an.seen /\ level[Var(o[k])] < decisionLevel
    BY <1>6, <1>10 DEF OutIsSeen
  <2>2. Var(o[k]) \in S
    BY <2>1 DEF Step
  <2>3. Var(o[k]) # Var(trail[i])
    BY <1>2, <2>1, TrailTypes
  <2> QED
    BY <1>2, <2>1, <2>2, <2>3
<1>12. \A k \in 1..Len(u) :
         IsFalse(u[k]) /\ Var(u[k]) \in b.seen /\ level[Var(u[k])] < decisionLevel
  BY <1>4, <1>5, <1>9, <1>11
<1>13. ASSUME NEW v \in b.seen, level[v] < decisionLevel
       PROVE  \E k \in 1..Len(u) : Var(u[k]) = v
  <2>1. CASE v \in an.seen
    <3>1. \E k \in 1..Len(o) : Var(o[k]) = v
      BY <1>6, <1>10, <1>13, <2>1 DEF OutIsSeen
    <3> QED
      BY <1>9, <3>1
  <2>2. CASE v \notin an.seen
    <3>1. PICK q \in N : v = Var(q)
      BY <1>2, <2>2 DEF Step
    <3>2. q \notin now
      <4>1. level[Var(q)] \in Nat /\ level[v] = level[Var(q)]
        BY <3>1, FreshFacts, TrailTypes
      <4>2. ~ (level[Var(q)] >= decisionLevel)
        BY <1>13, <4>1, TrailTypes
      <4> QED
        BY <4>2 DEF Step
    <3>3. PICK k \in 1..Len(r) : r[k] = q
      BY <1>4, <1>5, <3>1, <3>2
    <3> QED
      BY <1>9, <3>1, <3>3
  <2> QED
    BY <2>1, <2>2
<1>14. ASSUME NEW k \in 1..Len(u), NEW m \in 1..Len(u), u[k] = u[m] PROVE k = m
  <2>1. \A x, y \in 1..Len(o) : o[x] = o[y] => x = y
    BY <1>6, <1>10 DEF OutIsSeen
  <2>2. \A x, y \in 1..Len(r) : r[x] = r[y] => x = y
    BY <1>4 DEF Alone
  <2>3. \A x \in 1..Len(o), y \in 1..Len(r) : o[x] # r[y]
    BY <1>4, <1>5, <1>11
  <2>4. CASE k \in 1..Len(o) /\ m \in 1..Len(o)
    BY <1>9, <1>14, <2>1, <2>4
  <2>5. CASE k - Len(o) \in 1..Len(r) /\ m - Len(o) \in 1..Len(r)
    <3>1. \A x \in 1..Len(u) : x - Len(o) \in 1..Len(r) => u[x] = r[x - Len(o)]
      BY <1>9, <1>10
    <3>2. k - Len(o) = m - Len(o)
      BY <1>14, <2>2, <2>5, <3>1
    <3> QED
      BY <1>10, <3>2
  <2> QED
    BY <1>9, <1>14, <2>3, <2>4, <2>5
<1> QED
  BY <1>7, <1>9, <1>10, <1>12, <1>13, <1>14 DEF OutIsSeen

LEMMA StepExcluded ==
  ASSUME TypeOK, TrailInv, ClauseInv, SeenOnTrail(an), ModelInv,
         an.p # 0 => \A A \in Models : Excluded(an, A),
         NEW C, NEW Q, NEW N, NEW now, NEW S, NEW i, NEW b,
         Step(C, Q, N, now, S, i, b), NEW A \in Models
  PROVE  Excluded(b, A)
<1>1. b.p = trail[i] /\ b.seen = S \ {Var(trail[i])} /\ i \in DOMAIN trail
  BY DEF Step, Picked
<1>2. an.seen \subseteq S /\ \A q \in Q : Var(q) \in S \/ ~ (level[Var(q)] > 0)
  BY DEF Step
<1>3. SUFFICES \E m \in DOMAIN trail : Var(trail[m]) \in S /\ ~ Holds(trail[m], A)
  <2>1. PICK m \in DOMAIN trail : Var(trail[m]) \in S /\ ~ Holds(trail[m], A)
    BY <1>3
  <2>2. CASE Var(trail[m]) = Var(trail[i])
    <3>1. m = i
      BY <1>1, <2>2 DEF TrailInv
    <3> QED
      BY <1>1, <2>1, <3>1 DEF Excluded
  <2>3. CASE Var(trail[m]) # Var(trail[i])
    BY <1>1, <2>1, <2>3 DEF Excluded
  <2> QED
    BY <2>2, <2>3
<1>4. C \in Seq(Literals) /\ C = ca[an.confl] /\ an.confl \in Refs /\ an.index <= Len(trail)
  BY ClauseTypes DEF Step, Source
<1>5. PICK l \in Range(C) : Holds(l, A)
  BY <1>4 DEF ModelInv, Satisfies
<1>6. PICK k \in 1..Len(C) : C[k] = l
  BY <1>4, RangeIs
<1>7. CASE l \in Q
  <2>1. l \in Literals /\ \E m \in 1..an.index : trail[m] = -l
    BY <1>7 DEF Step, Source
  <2>2. PICK m \in 1..an.index : trail[m] = -l
    BY <2>1
  <2>3. m \in DOMAIN trail
    <3>1. an.index \in Nat /\ DOMAIN trail = 1..Len(trail)
      BY TrailTypes DEF TypeOK, TypeAnalysis
    <3> QED
      BY <1>4, <3>1, TrailTypes
  <2>4. Var(trail[m]) = Var(l)
    BY <2>1, <2>2, LitFacts
  <2>5. ~ Holds(trail[m], A)
    BY <1>5, <2>1, <2>2, HoldsNot
  <2>6. level[Var(l)] > 0
    <3>1. Lv(m) # 0
      BY <2>3, <2>5 DEF ModelInv, Root
    <3> QED
      BY <2>3, <2>4, <3>1, TrailTypes DEF Lv
  <2>7. Var(l) \in S
    BY <1>2, <1>7, <2>6
  <2> QED
    BY <2>3, <2>4, <2>5, <2>7
<1>8. CASE l \notin Q
  <2>1. l = an.p /\ an.p # 0
    BY <1>6, <1>8 DEF Step, Source
  <2>2. Excluded(an, A)
    BY <2>1
  <2> QED
    BY <1>2, <1>5, <2>1, <2>2 DEF Excluded
<1> QED
  BY <1>7, <1>8

(* The reasons of the variables of litRedundant lead back to the others.   *)
Closed ==
  {S \in SUBSET Vars : \A v \in S :
    /\ reason[v] # CRef_Undef
    /\ \A l \in Range(Tail(ca[reason[v]])) : level[Var(l)] = 0 \/ Var(l) \in an.seen \cup S}

LEMMA RedundantIs == litRedundant = an.seen \cap UNION Closed
BY DEF litRedundant, Closed

(* If no literal that is kept holds in a model, all of the ones that were   *)
(* assumed true do.                                                        *)
LEMMA RedundantFollows ==
  ASSUME TypeOK, TrailInv, ClauseInv, ReasonInv, OutIsSeen(an), ModelInv,
         \A v \in an.seen : level[v] < decisionLevel,
         NEW A \in Models,
         \A l \in Range(an.out) : Var(l) \notin litRedundant => ~ Holds(l, A)
  PROVE  \A i \in DOMAIN trail : Var(trail[i]) \in an.seen => Holds(trail[i], A)
<1> DEFINE U == UNION Closed
           Known(i) == Lv(i) = 0 \/ Var(trail[i]) \in an.seen \/ Var(trail[i]) \in U
           Bad == {i \in DOMAIN trail : Known(i) /\ ~ Holds(trail[i], A)}
<1>1. SUFFICES ASSUME Bad # {} PROVE FALSE
  OBVIOUS
<1>2. PICK i \in Bad : \A k \in Bad : i <= k
  <2>1. Bad \in SUBSET Nat
    BY TrailTypes
  <2> HIDE DEF Bad
  <2> QED
    BY <1>1, <2>1, NatMin
<1>3. i \in DOMAIN trail /\ Known(i) /\ ~ Holds(trail[i], A)
  OBVIOUS
<1>4. ASSUME NEW j \in 1..i - 1, Known(j) PROVE Holds(trail[j], A)
  <2>1. j \in DOMAIN trail /\ ~ (i <= j)
    BY <1>3, TrailTypes
  <2> QED
    BY <1>2, <1>4, <2>1
<1>5. Lv(i) # 0
  BY <1>3 DEF ModelInv, Root
<1>6. CASE Var(trail[i]) \in U
  <2>1. PICK S \in Closed : Var(trail[i]) \in S
    BY <1>6
  <2>2. PICK r : r = reason[Var(trail[i])]
    OBVIOUS
  <2>3. r # CRef_Undef
        /\ \A l \in Range(Tail(ca[r])) : level[Var(l)] = 0 \/ Var(l) \in an.seen \cup S
    BY <2>1, <2>2 DEF Closed
  <2>4. Justified(i, r)
    BY <1>3, <2>2, <2>3 DEF ReasonInv
  <2>5. PICK C : C = ca[r]
    OBVIOUS
  <2>6. /\ r \in Refs /\ C \in Seq(Literals) /\ Len(C) > 1
        /\ C[1] = trail[i] /\ \A k \in 2..Len(C) : Before(C[k], i)
    BY <2>4, <2>5, ClauseTypes DEF Justified
  <2>7. PICK l \in Range(C) : Holds(l, A)
    BY <2>5, <2>6 DEF ModelInv, Satisfies
  <2>8. PICK k \in 1..Len(C) : C[k] = l
    BY <2>6, RangeIs
  <2>9. k \in 2..Len(C)
    BY <1>3, <2>6, <2>7, <2>8
  <2>10. PICK j \in 1..i - 1 : trail[j] = -l
    BY <2>6, <2>8, <2>9 DEF Before
  <2>11. l \in Literals /\ Var(trail[j]) = Var(l)
    BY <2>6, <2>8, <2>10, LitFacts
  <2>12. ~ Holds(trail[j], A)
    BY <2>7, <2>10, <2>11, HoldsNot
  <2>13. l \in Range(Tail(C))
    BY <2>6, <2>8, <2>9, TailRange
  <2>14. level[Var(l)] = 0 \/ Var(l) \in an.seen \cup S
    BY <2>3, <2>5, <2>13
  <2>15. Known(j)
    BY <2>1, <2>11, <2>14 DEF Lv
  <2> QED
    BY <1>4, <2>12, <2>15
<1>7. CASE Var(trail[i]) \notin U
  <2>1. Var(trail[i]) \in an.seen /\ Var(trail[i]) \notin litRedundant
    BY <1>3, <1>5, <1>7, RedundantIs
  <2>2. PICK k \in DOMAIN an.out : Var(an.out[k]) = Var(trail[i])
    BY <2>1 DEF OutIsSeen
  <2>3. an.out \in Seq(Literals)
    BY DEF TypeOK, TypeAnalysis
  <2>4. PICK l : l = an.out[k]
    OBVIOUS
  <2>5. l \in Literals /\ l \in Range(an.out) /\ IsFalse(l)
    BY <2>2, <2>3, <2>4 DEF Range, OutIsSeen
  <2>6. PICK j \in DOMAIN trail : trail[j] = -l
    BY <2>5, OnTrail
  <2>7. Var(trail[j]) = Var(trail[i])
    BY <2>2, <2>4, <2>5, <2>6, LitFacts
  <2>8. trail[i] = -l
    BY <1>3, <2>6, <2>7 DEF TrailInv
  <2>9. ~ Holds(l, A)
    BY <2>1, <2>2, <2>4, <2>5
  <2> QED
    BY <1>3, <2>5, <2>8, <2>9, HoldsNot
<1> QED
  BY <1>6, <1>7

LearntRight(c) ==
  /\ c \in Seq(Literals) /\ Len(c) > 0 /\ c[1] = -an.p /\ Alone(c)
  /\ \A k \in 2..Len(c) : /\ IsFalse(c[k]) /\ Var(c[k]) \in an.seen
                          /\ level[Var(c[k])] < decisionLevel
                          /\ level[Var(c[k])] <= level[Var(c[2])]
  /\ \A A \in Models : Satisfies(A, c)

LEMMA LearnStart ==
  ASSUME TypeOK, FlowInv, TrailInv, AnalyzeInv, pc = "learn"
  PROVE  /\ an.p # 0 /\ an.p \in Literals /\ LastPicked(an) /\ SeenOnTrail(an) /\ OutIsSeen(an)
         /\ \A A \in Models : Excluded(an, A)
         /\ an.out \in Seq(Literals) /\ decisionLevel > 0
         /\ \A v \in an.seen : v \in Vars /\ level[v] < decisionLevel
<1>1. /\ an.p # 0 /\ LastPicked(an) /\ SeenOnTrail(an) /\ OutIsSeen(an) /\ Counted(an)
      /\ \A A \in Models : Excluded(an, A)
      /\ ~ (an.pathC > 0) /\ decisionLevel > 0
  BY DEF AnalyzeInv, FlowInv
<1>2. an.p \in Literals
  BY <1>1, TrailTypes DEF LastPicked
<1> DEFINE T == {v \in an.seen : level[v] = decisionLevel}
<1>3. T = {}
  <2>1. T \subseteq OnTrailVars
    BY <1>1 DEF SeenOnTrail, OnTrailVars
  <2>2. IsFiniteSet(T)
    BY <2>1, FiniteTrail, FS_Subset
  <2>3. Cardinality(T) = an.pathC
    BY <1>1 DEF Counted
  <2> HIDE DEF T
  <2>4. Cardinality(T) \in Nat
    BY <2>2, FS_CardinalityType
  <2>5. Cardinality(T) = 0
    BY <1>1, <2>3, <2>4
  <2> QED
    BY <2>2, <2>5, FS_EmptySet
<1>4. ASSUME NEW v \in an.seen PROVE v \in Vars /\ level[v] < decisionLevel
  <2>1. PICK i \in DOMAIN trail : Var(trail[i]) = v
    BY <1>1 DEF SeenOnTrail
  <2>2. v \in Vars /\ level[v] = Lv(i) /\ Lv(i) \in Nat
    BY <2>1, TrailTypes DEF Lv
  <2>3. Lv(i) <= decisionLevel
    BY DEF TrailInv
  <2>4. level[v] # decisionLevel
    BY <1>3
  <2> QED
    BY <2>2, <2>3, <2>4, TrailTypes
<1>5. an.out \in Seq(Literals)
  BY DEF TypeOK, TypeAnalysis
<1> QED
  BY <1>1, <1>2, <1>4, <1>5

LEMMA LearntFacts ==
  ASSUME TypeOK, FlowInv, TrailInv, ClauseInv, ReasonInv, AnalyzeInv, ModelInv, pc = "learn",
         NEW c, c = Learnt
  PROVE  LearntRight(c)
<1> DEFINE K == {l \in Range(an.out) : Var(l) \notin litRedundant}
           rest == Among(an.out, K)
           out == <<-an.p>> \o rest
           top == {i \in 2..Len(out) : \A l \in Range(rest) : level[Var(l)] <= level[Var(out[i])]}
<1>0. c = IF rest = <<>> THEN out ELSE Swap(out, 2, Min(top))
  BY DEF Learnt
<1>1. /\ an.p # 0 /\ an.p \in Literals /\ LastPicked(an) /\ SeenOnTrail(an) /\ OutIsSeen(an)
      /\ \A A \in Models : Excluded(an, A)
      /\ an.out \in Seq(Literals) /\ decisionLevel > 0
      /\ \A v \in an.seen : v \in Vars /\ level[v] < decisionLevel
  BY LearnStart
<1>2. Alone(an.out)
  BY <1>1 DEF OutIsSeen, Alone
<1>3. rest \in Seq(Literals) /\ Filtered(an.out, K, rest) /\ Alone(rest)
  <2> HIDE DEF K
  <2> QED
    BY <1>1, <1>2, AmongFacts, AmongAlone
<1>4. \A k \in 1..Len(rest) : rest[k] \in K
  <2> HIDE DEF K
  <2> QED
    BY <1>3 DEF Filtered
<1>5. \A l \in K : \E k \in 1..Len(rest) : rest[k] = l
  <2>1. \A l \in K : \E k \in 1..Len(an.out) : an.out[k] = l
    BY <1>1, RangeIs
  <2> HIDE DEF K
  <2> QED
    BY <1>3, <2>1 DEF Filtered
<1>6. \A l \in K : /\ l \in Literals /\ IsFalse(l) /\ Var(l) \in an.seen
                   /\ level[Var(l)] \in Nat /\ level[Var(l)] < decisionLevel
  <2> SUFFICES ASSUME NEW l \in K
               PROVE  /\ l \in Literals /\ IsFalse(l) /\ Var(l) \in an.seen
                      /\ level[Var(l)] \in Nat /\ level[Var(l)] < decisionLevel
    OBVIOUS
  <2>1. PICK k \in 1..Len(an.out) : an.out[k] = l
    BY <1>1, RangeIs
  <2>2. l \in Literals /\ k \in DOMAIN an.out
    BY <1>1, <2>1
  <2>3. IsFalse(l) /\ Var(l) \in an.seen
    BY <1>1, <2>1, <2>2 DEF OutIsSeen
  <2> QED
    BY <1>1, <2>2, <2>3, TrailTypes
<1>7. -an.p \in Literals /\ \A l \in K : l # -an.p
  <2>1. -an.p \in Literals /\ Var(-an.p) = Var(an.p)
    BY <1>1, LitFacts
  <2>2. Var(an.p) \notin an.seen
    BY <1>1 DEF LastPicked
  <2> QED
    BY <1>6, <2>1, <2>2
<1> HIDE DEF K, rest
<1>8. /\ out \in Seq(Literals) /\ Len(out) = Len(rest) + 1 /\ out[1] = -an.p /\ Len(rest) \in Nat
      /\ \A k \in 2..Len(out) : k - 1 \in 1..Len(rest) /\ out[k] = rest[k - 1]
      /\ \A k \in 1..Len(rest) : k + 1 \in 2..Len(out) /\ out[k + 1] = rest[k]
  BY <1>3, <1>7
<1> HIDE DEF out
<1>9. \A k \in 2..Len(out) : out[k] \in K
  BY <1>4, <1>8
<1>10. Alone(out)
  <2> SUFFICES ASSUME NEW k \in 1..Len(out), NEW m \in 1..Len(out), out[k] = out[m]
               PROVE  k = m
    BY DEF Alone
  <2>1. CASE k = 1 /\ m = 1
    BY <2>1
  <2>2. CASE k = 1 /\ m # 1
    BY <1>7, <1>8, <1>9, <2>2
  <2>3. CASE k # 1 /\ m = 1
    BY <1>7, <1>8, <1>9, <2>3
  <2>4. CASE k # 1 /\ m # 1
    <3>1. k \in 2..Len(out) /\ m \in 2..Len(out)
      BY <1>8, <2>4
    <3>2. k - 1 \in 1..Len(rest) /\ m - 1 \in 1..Len(rest) /\ rest[k - 1] = rest[m - 1]
      BY <1>8, <3>1
    <3>3. k - 1 = m - 1
      BY <1>3, <3>2 DEF Alone
    <3> QED
      BY <3>3
  <2> QED
    BY <2>1, <2>2, <2>3, <2>4
<1>11. ASSUME NEW A \in Models PROVE \E k \in 1..Len(out) : Holds(out[k], A)
  <2> SUFFICES ASSUME \A k \in 1..Len(out) : ~ Holds(out[k], A) PROVE FALSE
    OBVIOUS
  <2>1. Holds(an.p, A)
    <3>1. ~ Holds(-an.p, A)
      <4>1. 1 \in 1..Len(out)
        BY <1>8
      <4> QED
        BY <1>8, <4>1
    <3> QED
      BY <1>1, <3>1, HoldsNot
  <2>2. \A l \in K : ~ Holds(l, A)
    <3> SUFFICES ASSUME NEW l \in K PROVE ~ Holds(l, A)
      OBVIOUS
    <3>1. PICK k \in 1..Len(rest) : rest[k] = l
      BY <1>5
    <3>2. k + 1 \in 1..Len(out) /\ out[k + 1] = l
      BY <1>8, <3>1
    <3> QED
      BY <3>2
  <2>3. \A l \in Range(an.out) : Var(l) \notin litRedundant => ~ Holds(l, A)
    BY <2>2 DEF K
  <2>4. \A i \in DOMAIN trail : Var(trail[i]) \in an.seen => Holds(trail[i], A)
    BY <1>1, <2>3, RedundantFollows
  <2>5. Excluded(an, A)
    BY <1>1
  <2> QED
    BY <2>1, <2>4, <2>5 DEF Excluded
<1>12. CASE rest = <<>>
  <2>1. c = out /\ Len(out) = 1
    BY <1>0, <1>8, <1>12
  <2>2. \A A \in Models : Satisfies(A, c)
    BY <1>8, <1>11, <2>1, RangeIs DEF Satisfies
  <2>3. \A k \in 2..Len(c) : FALSE
    BY <2>1
  <2>4. c \in Seq(Literals) /\ Len(c) > 0 /\ c[1] = -an.p /\ Alone(c)
    BY <1>8, <1>10, <2>1
  <2> QED
    BY <2>2, <2>3, <2>4 DEF LearntRight
<1>13. CASE rest # <<>>
  <2> DEFINE L == {level[Var(rest[k])] : k \in 1..Len(rest)}
  <2>1. Len(rest) > 0
    BY <1>3, <1>13
  <2>2. PICK x \in L : \A y \in L : y <= x
    <3>1. L \in SUBSET Nat /\ \A y \in L : y <= decisionLevel
      BY <1>4, <1>6, TrailTypes
    <3>2. L # {}
      <4>1. 1 \in 1..Len(rest)
        BY <1>8, <2>1
      <4>2. level[Var(rest[1])] \in L
        BY <4>1
      <4> QED
        BY <4>2
    <3> HIDE DEF L
    <3> QED
      BY <3>1, <3>2, NatMax, TrailTypes
  <2>3. PICK k0 \in 1..Len(rest) : x = level[Var(rest[k0])]
    OBVIOUS
  <2>4. \A l \in Range(rest) : level[Var(l)] <= x
    BY <1>3, <2>2, RangeIs
  <2>5. k0 + 1 \in top
    BY <1>8, <2>3, <2>4
  <2>6. Min(top) \in top
    <3>1. top \in SUBSET Nat /\ top # {}
      BY <2>5
    <3> HIDE DEF top
    <3>2. \E m \in top : \A y \in top : m <= y
      BY <3>1, NatMin
    <3> QED
      BY <3>2 DEF Min
  <2>7. PICK j : j = Min(top)
    OBVIOUS
  <2>8. j \in 2..Len(out) /\ \A l \in Range(rest) : level[Var(l)] <= level[Var(out[j])]
    BY <2>6, <2>7
  <2>9. c = Swap(out, 2, j)
    BY <1>0, <1>13, <2>7
  <2>10. Permuted(out, c) /\ c[1] = out[1] /\ c[2] = out[j]
    <3>1. CASE j = 2
      <4>1. c = out
        <5>1. 2 \in DOMAIN out
          BY <1>8, <2>8
        <5> QED
          BY <1>8, <2>9, <3>1, <5>1 DEF Swap
      <4> QED
        BY <1>8, <1>10, <3>1, <4>1, PermutedSelf
    <3>2. CASE j # 2
      <4>1. 2 \in 1..Len(out) /\ j \in 1..Len(out) /\ 1 \in 1..Len(out) /\ 1 # j
        BY <1>8, <2>8
      <4>2. /\ Permuted(out, c) /\ c[2] = out[j]
            /\ \A k \in 1..Len(out) : k # 2 /\ k # j => c[k] = out[k]
        BY <1>8, <1>10, <2>9, <3>2, <4>1, SwapFacts
      <4> QED
        BY <4>1, <4>2
    <3> QED
      BY <3>1, <3>2
  <2>11. /\ c \in Seq(Literals) /\ Len(c) = Len(out) /\ Alone(c)
         /\ \A l : l \in Range(c) <=> l \in Range(out)
    BY <2>10 DEF Permuted
  <2>12. ASSUME NEW k \in 2..Len(c) PROVE c[k] \in K
    <3>1. k \in 1..Len(c) /\ 1 \in 1..Len(c) /\ k # 1
      BY <2>11
    <3>2. c[k] # c[1] /\ c[k] \in Range(c)
      BY <2>11, <3>1, RangeIs DEF Alone
    <3>3. PICK m \in 1..Len(out) : out[m] = c[k]
      BY <1>8, <2>11, <3>2, RangeIs
    <3>4. m \in 2..Len(out)
      BY <2>10, <3>2, <3>3
    <3> QED
      BY <1>9, <3>3, <3>4
  <2>13. ASSUME NEW k \in 2..Len(c) PROVE level[Var(c[k])] <= level[Var(c[2])]
    <3>1. c[k] \in Range(rest)
      BY <1>3, <1>5, <2>12, RangeIs
    <3> QED
      BY <2>8, <2>10, <3>1
  <2>14. ASSUME NEW A \in Models PROVE Satisfies(A, c)
    <3>1. PICK k \in 1..Len(out) : Holds(out[k], A)
      BY <1>11
    <3>2. out[k] \in Range(c)
      BY <1>8, <2>11, <3>1, RangeIs
    <3> QED
      BY <3>1, <3>2 DEF Satisfies
  <2> QED
    BY <1>6, <1>8, <2>10, <2>11, <2>12, <2>13, <2>14 DEF LearntRight
<1> QED
  BY <1>12, <1>13

-----------------------------------------------------------------------------
(* The formula stays as it is.                                             *)
LEMMA CnfStays ==
  ASSUME Next
  PROVE  cnf' = cnf
BY DEF Next, AddClause, Contradiction, EndAdding, Propagate, Visit, Analyze, Resolve, Learn, Refuted,
       Restart, NoRestart, Simplify, SimplifyDone, SimplifyNothing, Reduce, Branch, ModelFound, input

LEMMA Same ==
  ASSUME Next
  PROVE  Vars' = Vars /\ Literals' = Literals /\ Watchers' = Watchers /\ cnf' = cnf
BY CnfStays, SameLits DEF Watchers

(* A literal that is assigned by a learnt clause, and the level of that.   *)
LearnLevel(c, lv) == lv = IF Len(c) = 1 THEN 0 ELSE level[Var(c[2])]

LEMMA LearnLevelFacts ==
  ASSUME TypeOK, FlowInv, TrailInv, AnalyzeInv, pc = "learn", NEW c, LearntRight(c), NEW lv, LearnLevel(c, lv)
  PROVE  /\ lv \in 0..decisionLevel /\ lv < decisionLevel /\ lv \in Nat
         /\ c \in Seq(Literals) /\ c[1] \in Literals /\ Len(c) > 0 /\ Len(c) \in Nat
         /\ \A k \in 2..Len(c) : c[k] \in Literals /\ level[Var(c[k])] <= lv
<1>1. c \in Seq(Literals) /\ c[1] \in Literals /\ Len(c) > 0 /\ Len(c) \in Nat
  BY DEF LearntRight
<1>2. decisionLevel > 0 /\ decisionLevel \in Nat /\ level \in [Vars -> Nat]
  BY LearnStart, TrailTypes
<1>3. \A k \in 2..Len(c) : /\ c[k] \in Literals /\ level[Var(c[k])] \in Nat
                           /\ level[Var(c[k])] < decisionLevel /\ level[Var(c[k])] <= level[Var(c[2])]
  BY <1>1, <1>2, LitFacts DEF LearntRight
<1>4. CASE Len(c) = 1
  BY <1>1, <1>2, <1>4 DEF LearnLevel
<1>5. CASE Len(c) # 1
  <2>0. 2 \in 2..Len(c)
    <3>1. PICK n : n = Len(c)
      OBVIOUS
    <3>2. n \in Nat /\ n > 0 /\ n # 1
      BY <1>1, <1>5, <3>1
    <3>3. 2 \in 2..n
      BY <3>2
    <3> QED
      BY <3>1, <3>3
  <2>1. 2 \in 2..Len(c) /\ lv = level[Var(c[2])]
    BY <1>5, <2>0 DEF LearnLevel
  <2> QED
    BY <1>1, <1>2, <1>3, <2>1
<1> QED
  BY <1>4, <1>5

LEMMA HeapTypes ==
  ASSUME TypeOK, TrailInv, NEW lv \in 0..decisionLevel, NEW heap \in SUBSET Vars,
         cancelUntil(lv, heap)
  PROVE  order_heap' \subseteq Vars
<1>1. PICK tr : tr = TrailUntil(lv)
  OBVIOUS
<1>2. Len(tr) \in Nat /\ \A i \in Len(tr) + 1..Len(trail) : i \in DOMAIN trail
  <2>1. Len(tr) \in Nat
    BY <1>1, Until
  <2> QED
    BY <2>1, TrailTypes
<1>3. \A i \in Len(tr) + 1..Len(trail) : Var(trail[i]) \in Vars
  BY <1>2, TrailTypes
<1>4. order_heap' = heap \cup {Var(trail[i]) : i \in Len(tr) + 1..Len(trail)}
  BY <1>1 DEF cancelUntil
<1> QED
  BY <1>3, <1>4

LEMMA TypeFlowStep ==
  ASSUME SolverInv, Next
  PROVE  TypeFlow'
<1>1. /\ TypeOK /\ TypeFlow /\ FlowInv /\ TrailInv /\ ClauseInv /\ WatchInv /\ ReasonInv
      /\ AnalyzeInv /\ ModelInv
      /\ Vars' = Vars /\ Literals' = Literals /\ cnf' = cnf
  BY Same DEF SolverInv, TypeOK
<1>2. CASE AddClause
  <2>1. added' \in 0..Len(cnf) /\ ok' \in BOOLEAN
    <3>1. ok' \in BOOLEAN
      BY <1>1, <1>2 DEF TypeFlow, AddClause
    <3>2. added \in 0..Len(cnf) /\ Len(cnf) \in Nat /\ added' = added + 1 /\ added < Len(cnf)
      BY <1>1, <1>2, Lits DEF TypeFlow, AddClause
    <3> QED
      BY <3>1, <3>2
  <2>2. UNCHANGED <<cnf, pc, answer, order_heap, confl, limits>>
    BY <1>2 DEF AddClause
  <2> QED
    BY <1>1, <2>1, <2>2 DEF TypeFlow, answer, limits
<1>3. CASE Contradiction \/ EndAdding \/ Propagate \/ Analyze \/ Refuted \/ NoRestart
  <2>1. CASE Contradiction
    BY <1>1, <2>1 DEF TypeFlow, Contradiction, answer, limits, CRef_Undef
  <2>2. CASE EndAdding \/ Propagate \/ Analyze \/ NoRestart
    BY <1>1, <2>2 DEF TypeFlow, EndAdding, Propagate, Analyze, NoRestart, input, answer, limits
  <2>3. CASE Refuted
    BY <1>1, <2>3 DEF TypeFlow, Refuted, limits
  <2> QED
    BY <1>3, <2>1, <2>2, <2>3
<1>4. CASE Visit
  <2>1. PICK w : w = Head(todo)
    OBVIOUS
  <2>2. PICK p : p = trail[qhead]
    OBVIOUS
  <2>3. PICK c : c = Turned(ca[w.cref], p)
    OBVIOUS
  <2>4. w.cref \in Nat
    <3>1. Visited(w, p, c)
      BY <1>1, <1>4, <2>1, <2>2, <2>3, VisitFacts DEF Visit
    <3> QED
      BY <3>1 DEF Visited, Watchers
  <2>5. confl' = confl \/ confl' = w.cref
    <3>1. \/ VisitSatisfied(p, w)
          \/ \E d, u : \/ VisitTrue(p, w.cref, d, u) \/ VisitMove(w.cref, d, u)
                       \/ VisitUnit(p, w.cref, d, u) \/ VisitFalse(p, w.cref, d, u)
      BY <1>4, <2>1, <2>2 DEF Visit
    <3>2. VisitSatisfied(p, w) => confl' = confl
      BY DEF VisitSatisfied
    <3>3. ASSUME NEW d, NEW u
          PROVE  /\ VisitTrue(p, w.cref, d, u) => confl' = confl
                 /\ VisitMove(w.cref, d, u) => confl' = confl
                 /\ VisitUnit(p, w.cref, d, u) => confl' = confl
                 /\ VisitFalse(p, w.cref, d, u) => confl' = w.cref
      BY DEF VisitTrue, VisitMove, VisitUnit, VisitFalse
    <3> QED
      BY <3>1, <3>2, <3>3
  <2> QED
    BY <1>1, <1>4, <2>4, <2>5 DEF TypeFlow, Visit, input, answer, limits
<1>5. CASE Resolve
  BY <1>1, <1>5 DEF TypeFlow, Resolve, input, answer, limits
<1>6. CASE Learn
  <2>1. PICK c, lv : c = Learnt /\ LearnLevel(c, lv) /\ cancelUntil(lv, order_heap)
    BY <1>6 DEF Learn, LearnLevel
  <2>2. LearntRight(c)
    BY <1>1, <1>6, <2>1, LearntFacts DEF Learn
  <2>3. lv \in 0..decisionLevel
    BY <1>1, <1>6, <2>1, <2>2, LearnLevelFacts DEF Learn
  <2>4. order_heap' \subseteq Vars
    BY <1>1, <2>1, <2>3, HeapTypes DEF TypeFlow
  <2> QED
    BY <1>1, <1>6, <2>4 DEF TypeFlow, Learn, input, answer, CRef_Undef
<1>7. CASE Restart
  <2>0. 0 \in 0..decisionLevel
    BY <1>1, TrailTypes
  <2>1. order_heap' \subseteq Vars
    BY <1>1, <1>7, <2>0, HeapTypes DEF TypeFlow, Restart
  <2> QED
    BY <1>1, <1>7, <2>1 DEF TypeFlow, Restart, input, answer
<1>8. CASE ModelFound
  <2>0. 0 \in 0..decisionLevel
    BY <1>1, TrailTypes
  <2>1. order_heap' \subseteq Vars
    BY <1>1, <1>8, <2>0, HeapTypes DEF TypeFlow, ModelFound
  <2> QED
    BY <1>1, <1>8, <2>1 DEF TypeFlow, ModelFound, input, limits
<1>9. CASE Simplify
  BY <1>1, <1>9, TrailTypes DEF TypeFlow, Simplify, SimplifyDone, input, answer
<1>10. CASE SimplifyNothing
  BY <1>1, <1>10 DEF TypeFlow, SimplifyNothing, SimplifyDone, input, answer
<1>11. CASE Reduce
  BY <1>1, <1>11 DEF TypeFlow, Reduce, input, answer, limits
<1>12. CASE Branch
  BY <1>1, <1>12 DEF TypeFlow, Branch, input, answer, limits
<1> QED
  BY <1>2, <1>3, <1>4, <1>5, <1>6, <1>7, <1>8, <1>9, <1>10, <1>11, <1>12 DEF Next

(* What an assignment does.                                                *)
Enqueued(p, from, lv, tr) ==
  /\ trail' \in Seq(Literals) /\ Len(trail') = Len(tr) + 1 /\ trail'[Len(tr) + 1] = p
  /\ \A i \in 1..Len(tr) : trail'[i] = tr[i]
  /\ reason' \in [Vars -> Nat] /\ reason'[Var(p)] = from
  /\ level' \in [Vars -> Nat] /\ level'[Var(p)] = lv
  /\ \A v \in Vars : v # Var(p) => reason'[v] = reason[v] /\ level'[v] = level[v]

LEMMA EnqueueFacts ==
  ASSUME TypeOK, NEW p \in Literals, NEW from \in Nat, NEW lv \in Nat, NEW tr \in Seq(Literals),
         uncheckedEnqueue(p, from, lv, tr)
  PROVE  Enqueued(p, from, lv, tr)
<1>1. reason \in [Vars -> Nat] /\ level \in [Vars -> Nat] /\ Var(p) \in Vars
  BY TrailTypes, LitFacts
<1>2. /\ trail' \in Seq(Literals) /\ Len(trail') = Len(tr) + 1 /\ trail'[Len(tr) + 1] = p
      /\ \A i \in 1..Len(tr) : trail'[i] = tr[i]
  BY DEF uncheckedEnqueue
<1>3. /\ reason' \in [Vars -> Nat] /\ reason'[Var(p)] = from
      /\ \A v \in Vars : v # Var(p) => reason'[v] = reason[v]
  BY <1>1 DEF uncheckedEnqueue
<1>4. /\ level' \in [Vars -> Nat] /\ level'[Var(p)] = lv
      /\ \A v \in Vars : v # Var(p) => level'[v] = level[v]
  BY <1>1 DEF uncheckedEnqueue
<1> QED
  BY <1>2, <1>3, <1>4 DEF Enqueued

(* What going back to a level does.                                        *)
Cut(lv, tr) ==
  /\ tr \in Seq(Literals) /\ Len(tr) \in Nat /\ Len(tr) <= Len(trail) /\ qhead' = Len(tr)
  /\ \A i \in 1..Len(tr) : i \in DOMAIN trail /\ tr[i] = trail[i] /\ Lv(i) <= lv
  /\ \A i \in DOMAIN trail : Lv(i) <= lv => i \in 1..Len(tr)
  /\ trail_lim' \in Seq(Nat) /\ Len(trail_lim') = lv /\ lv \in Nat /\ lv <= decisionLevel
  /\ \A k \in 1..lv : trail_lim'[k] = trail_lim[k]
  /\ lv > 0 => trail_lim[lv] < Len(tr)
  /\ lv < decisionLevel => Len(tr) = trail_lim[lv + 1]

LEMMA CutFacts ==
  ASSUME TypeOK, TrailInv, NEW lv \in 0..decisionLevel, NEW tr, tr = TrailUntil(lv), NEW heap,
         cancelUntil(lv, heap)
  PROVE  Cut(lv, tr)
<1>1. /\ trail \in Seq(Literals) /\ trail_lim \in Seq(Nat) /\ decisionLevel = Len(trail_lim)
      /\ lv \in Nat /\ lv <= Len(trail_lim) /\ DOMAIN trail = 1..Len(trail)
  BY TrailTypes
<1>2. /\ tr \in Seq(Literals) /\ Len(tr) <= Len(trail)
      /\ \A i \in 1..Len(tr) : tr[i] = trail[i]
      /\ \A i \in DOMAIN trail : i <= Len(tr) <=> Lv(i) <= lv
      /\ lv > 0 => trail_lim[lv] < Len(tr)
      /\ lv < decisionLevel => Len(tr) = trail_lim[lv + 1]
  BY Until
<1>3. trail_lim' = SubSeq(trail_lim, 1, lv) /\ qhead' = Len(tr)
  BY DEF cancelUntil
<1>4. /\ trail_lim' \in Seq(Nat) /\ Len(trail_lim') = lv
      /\ \A k \in 1..lv : trail_lim'[k] = trail_lim[k]
  BY <1>1, <1>3
<1>5. \A i \in 1..Len(tr) : i \in DOMAIN trail /\ i <= Len(tr)
  BY <1>1, <1>2
<1>6. \A i \in DOMAIN trail : i <= Len(tr) => i \in 1..Len(tr)
  BY <1>1, <1>2
<1>7. Len(tr) \in Nat
  BY <1>2
<1> QED
  BY <1>1, <1>2, <1>3, <1>4, <1>5, <1>6, <1>7 DEF Cut

(* The watch lists with a new clause.                                      *)
LEMMA AttachedFacts ==
  ASSUME TypeOK, NEW c \in Seq(Literals), Len(c) > 1, Alone(c), NEW cr \in Nat,
         NEW ws, ws = Attached(watches, c, cr)
  PROVE  /\ ws \in [Literals -> Seq(Watchers)]
         /\ -c[1] \in Literals /\ -c[2] \in Literals /\ -c[1] # -c[2]
         /\ ws[-c[1]] = Append(watches[-c[1]], [cref |-> cr, blocker |-> c[2]])
         /\ ws[-c[2]] = Append(watches[-c[2]], [cref |-> cr, blocker |-> c[1]])
         /\ \A l \in Literals : l # -c[1] /\ l # -c[2] => ws[l] = watches[l]
<1>1. c[1] \in Literals /\ c[2] \in Literals /\ c[1] # c[2]
  <2>1. 1 \in 1..Len(c) /\ 2 \in 1..Len(c)
    OBVIOUS
  <2> QED
    BY <2>1 DEF Alone
<1>2. PICK l1, l2 : l1 = -c[1] /\ l2 = -c[2]
  OBVIOUS
<1>3. l1 \in Literals /\ l2 \in Literals /\ l1 # l2
  BY <1>1, <1>2, LitFacts
<1>4. PICK w1, w2 : w1 = [cref |-> cr, blocker |-> c[2]] /\ w2 = [cref |-> cr, blocker |-> c[1]]
  OBVIOUS
<1>5. w1 \in Watchers /\ w2 \in Watchers
  BY <1>1, <1>4 DEF Watchers
<1>7. watches \in [Literals -> Seq(Watchers)]
  BY DEF TypeOK, TypeLists
<1>8. PICK us : us = [watches EXCEPT ![l1] = Append(@, w1)]
  OBVIOUS
<1>9. /\ us \in [Literals -> Seq(Watchers)] /\ us[l1] = Append(watches[l1], w1)
      /\ \A l \in Literals : l # l1 => us[l] = watches[l]
  BY <1>3, <1>5, <1>7, <1>8
<1>10. ws = [us EXCEPT ![l2] = Append(@, w2)]
  BY <1>2, <1>4, <1>8 DEF Attached
<1>11. /\ ws \in [Literals -> Seq(Watchers)] /\ ws[l2] = Append(us[l2], w2)
       /\ \A l \in Literals : l # l2 => ws[l] = us[l]
  BY <1>3, <1>5, <1>9, <1>10
<1>12. ws[l1] = Append(watches[l1], w1) /\ ws[l2] = Append(watches[l2], w2)
  BY <1>3, <1>9, <1>11
<1>13. \A l \in Literals : l # l1 /\ l # l2 => ws[l] = watches[l]
  BY <1>9, <1>11
<1> QED
  BY <1>2, <1>3, <1>4, <1>11, <1>12, <1>13

LEMMA KeptFacts ==
  ASSUME TypeOK, added < Len(cnf), NEW c \in Sorted(Kept(cnf[added + 1]))
  PROVE  /\ c \in Seq(Literals) /\ Alone(c)
         /\ \A l : l \in Range(c) <=> l \in Range(cnf[added + 1]) /\ ~ IsFalse(l)
         /\ cnf[added + 1] \in Seq(Literals)
<1>1. cnf[added + 1] \in Seq(Literals)
  <2>1. cnf \in Seq(Seq(Literals)) /\ added + 1 \in 1..Len(cnf)
    BY Lits DEF TypeOK, TypeFlow
  <2> QED
    BY <2>1
<1>2. PICK ps : ps = cnf[added + 1]
  OBVIOUS
<1>3. Range(c) = Kept(ps) /\ \A i, j \in DOMAIN c : i < j => Var(c[i]) < Var(c[j])
  BY <1>2 DEF Sorted
<1>4. IsFiniteSet(Kept(ps))
  <2>1. IsFiniteSet(Range(ps))
    BY <1>1, <1>2, FiniteRange
  <2>2. Kept(ps) \subseteq Range(ps)
    BY DEF Kept
  <2> QED
    BY <2>1, <2>2, FS_Subset
<1>5. PICK n : n = Cardinality(Kept(ps))
  OBVIOUS
<1>6. n \in Nat
  BY <1>4, <1>5, FS_CardinalityType
<1>7. c \in [1..n -> Kept(ps)]
  BY <1>2, <1>5 DEF Sorted
<1>8. \A l \in Kept(ps) : l \in Literals
  <2>1. \A l \in Range(ps) : l \in Literals
    BY <1>1, <1>2, RangeIs
  <2> QED
    BY <2>1 DEF Kept
<1>9. c \in Seq(Literals) /\ DOMAIN c = 1..Len(c)
  BY <1>6, <1>7, <1>8
<1>10. Alone(c)
  <2> SUFFICES ASSUME NEW i \in 1..Len(c), NEW j \in 1..Len(c), c[i] = c[j] PROVE i = j
    BY DEF Alone
  <2>1. Var(c[i]) \in Nat
    BY <1>9, LitFacts
  <2>2. ~ (i < j) /\ ~ (j < i)
    BY <1>3, <1>9, <2>1
  <2> QED
    BY <2>2
<1> QED
  BY <1>1, <1>2, <1>3, <1>9, <1>10 DEF Kept

(* A clause is added to the ones there are.                                *)
Appended(c) ==
  /\ ca' \in Seq(Seq(Literals)) /\ Len(ca') = Len(ca) + 1 /\ Len(ca) \in Nat
  /\ Refs' = Refs \cup {Len(ca) + 1} /\ Len(ca) + 1 \notin Refs /\ 0 \notin Refs'
  /\ ca'[Len(ca) + 1] = c /\ \A cr \in Refs : ca'[cr] = ca[cr]

LEMMA AppendedFacts ==
  ASSUME TypeOK, NEW c \in Seq(Literals), ca' = Append(ca, c)
  PROVE  Appended(c)
<1>1. ca \in Seq(Seq(Literals)) /\ Refs = 1..Len(ca)
  BY DEF TypeOK, TypeBase, Refs
<1>2. ca' \in Seq(Seq(Literals)) /\ Len(ca') = Len(ca) + 1 /\ Refs' = 1..Len(ca')
  BY <1>1 DEF Refs
<1>3. ca'[Len(ca) + 1] = c /\ \A cr \in 1..Len(ca) : ca'[cr] = ca[cr]
  BY <1>1
<1>4. Len(ca) \in Nat
  BY <1>1
<1> QED
  BY <1>1, <1>2, <1>3, <1>4 DEF Appended

(* The literals of the clause cr change places.                            *)
Reordered(cr, d) ==
  /\ ca' \in Seq(Seq(Literals)) /\ Len(ca') = Len(ca) /\ Refs' = Refs
  /\ ca'[cr] = d /\ \A r \in Refs : r # cr => ca'[r] = ca[r]

LEMMA ReorderedFacts ==
  ASSUME TypeOK, NEW cr \in Refs, NEW d \in Seq(Literals), ca' = [ca EXCEPT ![cr] = d]
  PROVE  Reordered(cr, d)
<1>1. ca \in Seq(Seq(Literals)) /\ Refs = 1..Len(ca)
  BY DEF TypeOK, TypeBase, Refs
<1>2. /\ ca' \in Seq(Seq(Literals)) /\ Len(ca') = Len(ca)
      /\ ca'[cr] = d /\ \A r \in Refs : r # cr => ca'[r] = ca[r]
  BY <1>1
<1>3. Refs' = 1..Len(ca')
  BY <1>2 DEF Refs
<1> QED
  BY <1>1, <1>2, <1>3 DEF Reordered

(* The literal that a clause finds instead of the false one.               *)
Found(c, k) ==
  /\ k \in 3..Len(c) /\ ~ IsFalse(c[k]) /\ c[k] \in Literals /\ -c[k] \in Literals

LEMMA FreeFacts ==
  ASSUME TypeOK, NEW c \in Seq(Literals), Free(c) # {}, NEW k, k = Min(Free(c))
  PROVE  Found(c, k)
<1>1. Free(c) \in SUBSET Nat
  BY DEF Free
<1>2. \E m \in Free(c) : \A y \in Free(c) : m <= y
  BY <1>1, NatMin
<1>3. k \in Free(c)
  BY <1>2 DEF Min
<1>4. k \in 3..Len(c) /\ ~ IsFalse(c[k])
  BY <1>3 DEF Free
<1>5. c[k] \in Literals
  BY <1>4
<1> QED
  BY <1>4, <1>5, LitFacts DEF Found

(* What a visit does, in terms of the clause before and after.             *)
Moved(w, c, k, d, w1) ==
  /\ Found(c, k) /\ d = Swap(c, 2, k)
  /\ Permuted(ca[w.cref], d) /\ d[1] = c[1] /\ d[2] = c[k] /\ d[k] = c[2]
  /\ \A m \in 1..Len(c) : m # 2 /\ m # k => d[m] = c[m]
  /\ watches' = [watches EXCEPT ![-c[k]] = Append(@, w1)]

VisitEffect(w, p, c) ==
  \/ /\ VisitSatisfied(p, w)
  \/ \E w1 \in Watchers :
       /\ ~ IsTrue(w.blocker) /\ w1 = [cref |-> w.cref, blocker |-> c[1]]
       /\ \/ VisitTrue(p, w.cref, c, w1) /\ Reordered(w.cref, c)
          \/ \E k, d : /\ ~ IsTrue(c[1]) /\ todo' = Tail(todo) /\ UNCHANGED <<asgn, confl>>
                       /\ Reordered(w.cref, d) /\ Moved(w, c, k, d, w1)
          \/ VisitUnit(p, w.cref, c, w1) /\ Reordered(w.cref, c)
             /\ Enqueued(c[1], w.cref, decisionLevel, trail)
          \/ VisitFalse(p, w.cref, c, w1) /\ Reordered(w.cref, c)

LEMMA VisitSplit ==
  ASSUME TypeOK, FlowInv, TrailInv, ClauseInv, WatchInv, Visit
  PROVE  \E w, p, c : Visited(w, p, c) /\ VisitEffect(w, p, c) /\ todo # <<>>
<1>1. PICK w : w = Head(todo)
  OBVIOUS
<1>2. PICK p : p = trail[qhead]
  OBVIOUS
<1>3. PICK c : c = Turned(ca[w.cref], p)
  OBVIOUS
<1>4. todo # <<>>
  BY DEF Visit
<1>5. Visited(w, p, c)
  BY <1>1, <1>2, <1>3, <1>4, VisitFacts
<1>6. w.cref \in Refs /\ w.cref \in Nat /\ Len(c) > 1 /\ Permuted(ca[w.cref], c)
  BY <1>5 DEF Visited, Watchers
<1>7. c \in Seq(Literals) /\ Alone(c)
  BY <1>6 DEF Permuted
<1>8. c[1] \in Literals
  BY <1>6, <1>7
<1>9. PICK w1 : w1 = [cref |-> w.cref, blocker |-> c[1]]
  OBVIOUS
<1>10. w1 \in Watchers
  BY <1>6, <1>8, <1>9 DEF Watchers
<1>11. \/ VisitSatisfied(p, w)
       \/ /\ ~ IsTrue(w.blocker)
          /\ \/ VisitTrue(p, w.cref, c, w1)
             \/ VisitMove(w.cref, c, w1)
             \/ VisitUnit(p, w.cref, c, w1)
             \/ VisitFalse(p, w.cref, c, w1)
  BY <1>1, <1>2, <1>3, <1>9 DEF Visit
<1>12. CASE VisitSatisfied(p, w)
  BY <1>4, <1>5, <1>12 DEF VisitEffect
<1>13. CASE ~ IsTrue(w.blocker) /\ (VisitTrue(p, w.cref, c, w1) \/ VisitFalse(p, w.cref, c, w1))
  <2>1. ca' = [ca EXCEPT ![w.cref] = c]
    BY <1>13 DEF VisitTrue, VisitFalse
  <2>2. Reordered(w.cref, c)
    BY <1>6, <1>7, <2>1, ReorderedFacts
  <2> QED
    BY <1>4, <1>5, <1>9, <1>10, <1>13, <2>2 DEF VisitEffect
<1>14. CASE ~ IsTrue(w.blocker) /\ VisitUnit(p, w.cref, c, w1)
  <2>1. ca' = [ca EXCEPT ![w.cref] = c] /\ uncheckedEnqueue(c[1], w.cref, decisionLevel, trail)
    BY <1>14 DEF VisitUnit
  <2>2. Reordered(w.cref, c)
    BY <1>6, <1>7, <2>1, ReorderedFacts
  <2>3. Enqueued(c[1], w.cref, decisionLevel, trail)
    BY <1>6, <1>8, <2>1, TrailTypes, EnqueueFacts
  <2> QED
    BY <1>4, <1>5, <1>9, <1>10, <1>14, <2>2, <2>3 DEF VisitEffect
<1>15. CASE ~ IsTrue(w.blocker) /\ VisitMove(w.cref, c, w1)
  <2>1. PICK k : k = Min(Free(c))
    OBVIOUS
  <2>2. Found(c, k)
    BY <1>7, <1>15, <2>1, FreeFacts DEF VisitMove
  <2>3. PICK d : d = Swap(c, 2, k)
    OBVIOUS
  <2>4. k \in 1..Len(c) /\ 2 \in 1..Len(c) /\ 2 # k /\ 1 \in 1..Len(c) /\ 1 # k
    BY <1>7, <2>2 DEF Found
  <2>5. /\ Permuted(c, d) /\ d[2] = c[k] /\ d[k] = c[2]
        /\ \A m \in 1..Len(c) : m # 2 /\ m # k => d[m] = c[m]
    BY <1>7, <2>3, <2>4, SwapFacts
  <2>6. Permuted(ca[w.cref], d) /\ d \in Seq(Literals)
    BY <1>6, <2>5 DEF Permuted
  <2>7. /\ ca' = [ca EXCEPT ![w.cref] = d] /\ todo' = Tail(todo) /\ UNCHANGED <<asgn, confl>>
        /\ watches' = [watches EXCEPT ![-c[k]] = Append(@, w1)] /\ ~ IsTrue(c[1])
    BY <1>15, <2>1, <2>3 DEF VisitMove
  <2>8. Reordered(w.cref, d)
    BY <1>6, <2>6, <2>7, ReorderedFacts
  <2>9. d[1] = c[1]
    BY <2>4, <2>5
  <2>10. Moved(w, c, k, d, w1)
    BY <2>2, <2>3, <2>5, <2>6, <2>7, <2>9 DEF Moved
  <2> QED
    BY <1>4, <1>5, <1>9, <1>10, <1>15, <2>7, <2>8, <2>10 DEF VisitEffect
<1> QED
  BY <1>11, <1>12, <1>13, <1>14, <1>15

AttachedTo(c, cr) ==
  /\ watches' \in [Literals -> Seq(Watchers)]
  /\ -c[1] \in Literals /\ -c[2] \in Literals /\ -c[1] # -c[2]
  /\ watches'[-c[1]] = Append(watches[-c[1]], [cref |-> cr, blocker |-> c[2]])
  /\ watches'[-c[2]] = Append(watches[-c[2]], [cref |-> cr, blocker |-> c[1]])
  /\ \A l \in Literals : l # -c[1] /\ l # -c[2] => watches'[l] = watches[l]

KeptRight(c) ==
  /\ c \in Seq(Literals) /\ Alone(c) /\ Len(c) \in Nat
  /\ \A l : l \in Range(c) <=> l \in Range(cnf[added + 1]) /\ ~ IsFalse(l)
  /\ cnf[added + 1] \in Seq(Literals)

AddEffect ==
  \/ /\ ~ ok \/ Redundant(cnf[added + 1])
     /\ UNCHANGED <<ok, base, watches, asgn>>
  \/ /\ ok /\ ~ Redundant(cnf[added + 1])
     /\ \E c : /\ KeptRight(c)
               /\ \/ Len(c) = 0 /\ ok' = FALSE /\ UNCHANGED <<base, watches, asgn>>
                  \/ /\ Len(c) = 1 /\ Enqueued(c[1], CRef_Undef, 0, trail)
                     /\ UNCHANGED <<ok, base, watches, trail_lim, qhead>>
                  \/ /\ Len(c) > 1 /\ Appended(c) /\ AttachedTo(c, Len(ca) + 1)
                     /\ clauses' = clauses \cup {Len(ca) + 1}
                     /\ UNCHANGED <<ok, learnts, removed, asgn>>

LEMMA AddSplit ==
  ASSUME TypeOK, AddClause
  PROVE  AddEffect
<1>1. CASE (~ ok \/ Redundant(cnf[added + 1])) /\ UNCHANGED <<ok, base, watches, asgn>>
  BY <1>1 DEF AddEffect
<1>2. CASE ok /\ ~ Redundant(cnf[added + 1])
  <2>1. PICK c \in Sorted(Kept(cnf[added + 1])) :
          \/ /\ Len(c) = 0
             /\ ok' = FALSE
             /\ UNCHANGED <<base, watches, asgn>>
          \/ /\ Len(c) = 1
             /\ uncheckedEnqueue(c[1], CRef_Undef, 0, trail)
             /\ UNCHANGED <<ok, base, watches, trail_lim, qhead>>
          \/ /\ Len(c) > 1
             /\ ca' = Append(ca, c)
             /\ clauses' = clauses \cup {Len(ca) + 1}
             /\ watches' = Attached(watches, c, Len(ca) + 1)
             /\ UNCHANGED <<ok, learnts, removed, asgn>>
    BY <1>2 DEF AddClause
  <2>2. added < Len(cnf)
    BY DEF AddClause
  <2>3. /\ c \in Seq(Literals) /\ Alone(c)
        /\ \A l : l \in Range(c) <=> l \in Range(cnf[added + 1]) /\ ~ IsFalse(l)
        /\ cnf[added + 1] \in Seq(Literals)
    BY <2>2, KeptFacts
  <2>4. KeptRight(c)
    BY <2>3 DEF KeptRight
  <2>5. CASE Len(c) = 0 /\ ok' = FALSE /\ UNCHANGED <<base, watches, asgn>>
    BY <1>2, <2>4, <2>5 DEF AddEffect
  <2>6. CASE /\ Len(c) = 1 /\ uncheckedEnqueue(c[1], CRef_Undef, 0, trail)
             /\ UNCHANGED <<ok, base, watches, trail_lim, qhead>>
    <3>1. c[1] \in Literals
      <4>1. c \in Seq(Literals) /\ 1 \in 1..Len(c)
        BY <2>3, <2>6
      <4> QED
        BY <4>1
    <3>2. Enqueued(c[1], CRef_Undef, 0, trail)
      BY <2>6, <3>1, EnqueueFacts, TrailTypes DEF CRef_Undef
    <3> QED
      BY <1>2, <2>4, <2>6, <3>2 DEF AddEffect
  <2>7. CASE /\ Len(c) > 1 /\ ca' = Append(ca, c) /\ clauses' = clauses \cup {Len(ca) + 1}
             /\ watches' = Attached(watches, c, Len(ca) + 1)
             /\ UNCHANGED <<ok, learnts, removed, asgn>>
    <3>1. Appended(c)
      BY <2>3, <2>7, AppendedFacts
    <3>2. PICK cr : cr = Len(ca) + 1
      OBVIOUS
    <3>3. cr \in Nat
      BY <3>1, <3>2 DEF Appended
    <3>4. AttachedTo(c, cr)
      <4>1. PICK ws : ws = watches'
        OBVIOUS
      <4>2. Len(c) > 1 /\ ws = Attached(watches, c, cr)
        BY <2>7, <3>2, <4>1
      <4>3. c \in Seq(Literals) /\ Alone(c) /\ cr \in Nat
        BY <2>3, <3>3
      <4>4. /\ ws \in [Literals -> Seq(Watchers)]
            /\ -c[1] \in Literals /\ -c[2] \in Literals /\ -c[1] # -c[2]
            /\ ws[-c[1]] = Append(watches[-c[1]], [cref |-> cr, blocker |-> c[2]])
            /\ ws[-c[2]] = Append(watches[-c[2]], [cref |-> cr, blocker |-> c[1]])
            /\ \A l \in Literals : l # -c[1] /\ l # -c[2] => ws[l] = watches[l]
        BY <4>2, <4>3, AttachedFacts, Zenon
      <4> QED
        BY <4>1, <4>4 DEF AttachedTo
    <3> QED
      BY <1>2, <2>4, <2>7, <3>1, <3>2, <3>4 DEF AddEffect
  <2> QED
    BY <2>1, <2>5, <2>6, <2>7
<1> QED
  BY <1>1, <1>2 DEF AddClause

(* The literal of the learnt clause c is assigned at the level lv, after   *)
(* the trail tr.                                                           *)
LearnEffect(c, lv, tr) ==
  /\ LearntRight(c) /\ LearnLevel(c, lv) /\ lv < decisionLevel /\ Len(c) \in Nat
  /\ c[1] \in Literals /\ tr = TrailUntil(lv) /\ cancelUntil(lv, order_heap) /\ Cut(lv, tr)
  /\ \A k \in 2..Len(c) : c[k] \in Literals /\ level[Var(c[k])] <= lv
  /\ \/ /\ Len(c) = 1 /\ Enqueued(c[1], CRef_Undef, lv, tr)
        /\ UNCHANGED <<ca, learnts, watches>>
     \/ /\ Len(c) > 1 /\ Enqueued(c[1], Len(ca) + 1, lv, tr)
        /\ Appended(c) /\ AttachedTo(c, Len(ca) + 1)
        /\ learnts' = learnts \cup {Len(ca) + 1}

LEMMA LearnSplit ==
  ASSUME TypeOK, FlowInv, TrailInv, ClauseInv, ReasonInv, AnalyzeInv, ModelInv, Learn
  PROVE  \E c, lv, tr : LearnEffect(c, lv, tr)
<1>1. PICK c : c = Learnt
  OBVIOUS
<1>2. PICK lv : lv = IF Len(c) = 1 THEN 0 ELSE level[Var(c[2])]
  OBVIOUS
<1>3. /\ pc = "learn" /\ cancelUntil(lv, order_heap)
      /\ \/ /\ Len(c) = 1
            /\ uncheckedEnqueue(c[1], CRef_Undef, 0, TrailUntil(0))
            /\ UNCHANGED <<ca, learnts, watches>>
         \/ /\ Len(c) > 1
            /\ ca' = Append(ca, c)
            /\ learnts' = learnts \cup {Len(ca) + 1}
            /\ watches' = Attached(watches, c, Len(ca) + 1)
            /\ uncheckedEnqueue(c[1], Len(ca) + 1, lv, TrailUntil(lv))
  BY <1>1, <1>2 DEF Learn
<1>4. LearntRight(c)
  BY <1>1, <1>3, LearntFacts
<1>5. LearnLevel(c, lv)
  BY <1>2 DEF LearnLevel
<1>6. /\ lv \in 0..decisionLevel /\ lv < decisionLevel /\ lv \in Nat
      /\ c \in Seq(Literals) /\ c[1] \in Literals /\ Len(c) > 0 /\ Len(c) \in Nat
      /\ \A k \in 2..Len(c) : c[k] \in Literals /\ level[Var(c[k])] <= lv
  BY <1>3, <1>4, <1>5, LearnLevelFacts
<1>7. PICK tr : tr = TrailUntil(lv)
  OBVIOUS
<1>8. Cut(lv, tr)
  BY <1>3, <1>6, <1>7, CutFacts
<1>9. tr \in Seq(Literals)
  BY <1>8 DEF Cut
<1>10. CASE /\ Len(c) = 1 /\ uncheckedEnqueue(c[1], CRef_Undef, 0, TrailUntil(0))
            /\ UNCHANGED <<ca, learnts, watches>>
  <2>1. lv = 0
    BY <1>2, <1>10
  <2>2. Enqueued(c[1], CRef_Undef, lv, tr)
    BY <1>6, <1>7, <1>9, <1>10, <2>1, EnqueueFacts DEF CRef_Undef
  <2> QED
    BY <1>3, <1>4, <1>5, <1>6, <1>7, <1>8, <1>10, <2>2 DEF LearnEffect
<1>11. CASE /\ Len(c) > 1
            /\ ca' = Append(ca, c)
            /\ learnts' = learnts \cup {Len(ca) + 1}
            /\ watches' = Attached(watches, c, Len(ca) + 1)
            /\ uncheckedEnqueue(c[1], Len(ca) + 1, lv, TrailUntil(lv))
  <2>1. Appended(c)
    BY <1>6, <1>11, AppendedFacts
  <2>2. PICK cr : cr = Len(ca) + 1
    OBVIOUS
  <2>3. cr \in Nat /\ Alone(c)
    BY <1>4, <2>1, <2>2 DEF Appended, LearntRight
  <2>4. AttachedTo(c, cr)
    <3>1. PICK ws : ws = watches'
      OBVIOUS
    <3>2. Len(c) > 1 /\ ws = Attached(watches, c, cr)
      BY <1>11, <2>2, <3>1
    <3>3. c \in Seq(Literals) /\ Alone(c) /\ cr \in Nat
      BY <1>6, <2>3
    <3>4. /\ ws \in [Literals -> Seq(Watchers)]
          /\ -c[1] \in Literals /\ -c[2] \in Literals /\ -c[1] # -c[2]
          /\ ws[-c[1]] = Append(watches[-c[1]], [cref |-> cr, blocker |-> c[2]])
          /\ ws[-c[2]] = Append(watches[-c[2]], [cref |-> cr, blocker |-> c[1]])
          /\ \A l \in Literals : l # -c[1] /\ l # -c[2] => ws[l] = watches[l]
      BY <3>2, <3>3, AttachedFacts, Zenon
    <3> QED
      BY <3>1, <3>4 DEF AttachedTo
  <2>5. Enqueued(c[1], cr, lv, tr)
    BY <1>6, <1>7, <1>9, <1>11, <2>2, <2>3, EnqueueFacts
  <2> QED
    BY <1>3, <1>4, <1>5, <1>6, <1>7, <1>8, <1>11, <2>1, <2>2, <2>4, <2>5 DEF LearnEffect
<1> QED
  BY <1>3, <1>10, <1>11

(* What simplify does to the clauses; S are the ones that are satisfied.   *)
SimplifyEffect(S) ==
  /\ S = {cr \in Live : Satisfied(cr)} /\ removeClauses(S)
  /\ clauses' = clauses \ S /\ learnts' = learnts \ S /\ Live' = Live \ S
  /\ ca' \in Seq(Seq(Literals)) /\ Refs' = Refs
  /\ \A cr \in Refs : IF cr \in Live' THEN Shorter(ca[cr], ca'[cr]) ELSE ca'[cr] = ca[cr]

LEMMA SimplifySplit ==
  ASSUME TypeOK, ClauseInv, Simplify
  PROVE  \E S : SimplifyEffect(S)
<1>1. PICK S : S = {cr \in Live : Satisfied(cr)}
  OBVIOUS
<1>2. /\ removeClauses(S) /\ clauses' = clauses \ S /\ learnts' = learnts \ S
      /\ ca' = [cr \in DOMAIN ca |-> IF cr \in Live \ S THEN Trimmed(ca[cr]) ELSE ca[cr]]
  BY <1>1 DEF Simplify, Live
<1>3. Live' = Live \ S
  BY <1>2 DEF Live
<1>4. Refs = 1..Len(ca) /\ DOMAIN ca = Refs /\ Len(ca) \in Nat
  BY ClauseTypes DEF Refs
<1>5. ASSUME NEW cr \in Refs
      PROVE  /\ ca[cr] \in Seq(Literals) /\ Trimmed(ca[cr]) \in Seq(Literals)
             /\ Shorter(ca[cr], Trimmed(ca[cr]))
  <2>1. PICK C : C = ca[cr]
    OBVIOUS
  <2>2. C \in Seq(Literals) /\ Len(C) > 1 /\ Alone(C)
    BY <2>1, ClauseTypes
  <2>3. Trimmed(C) \in Seq(Literals) /\ Shorter(C, Trimmed(C))
    BY <2>2, TrimmedFacts
  <2> QED
    BY <2>1, <2>2, <2>3
<1>6. \A cr \in Refs : ca'[cr] = IF cr \in Live \ S THEN Trimmed(ca[cr]) ELSE ca[cr]
  BY <1>2, <1>4
<1>7. ca' \in [1..Len(ca) -> Seq(Literals)]
  BY <1>2, <1>4, <1>5
<1>8. ca' \in Seq(Seq(Literals)) /\ Refs' = Refs
  BY <1>4, <1>7 DEF Refs
<1>9. \A cr \in Refs : IF cr \in Live' THEN Shorter(ca[cr], ca'[cr]) ELSE ca'[cr] = ca[cr]
  BY <1>3, <1>5, <1>6
<1> QED
  BY <1>1, <1>2, <1>3, <1>8, <1>9 DEF SimplifyEffect

LEMMA TypeBaseStep ==
  ASSUME SolverInv, Next
  PROVE  TypeBase'
<1>1. /\ TypeOK /\ TypeBase /\ FlowInv /\ TrailInv /\ ClauseInv /\ WatchInv /\ ReasonInv
      /\ AnalyzeInv /\ ModelInv /\ Literals' = Literals
  BY Same DEF SolverInv, TypeOK
<1>2. ASSUME UNCHANGED base PROVE TypeBase'
  BY <1>1, <1>2 DEF TypeBase, base, Refs
<1>3. CASE Contradiction \/ EndAdding \/ Propagate \/ Analyze \/ Resolve \/ Refuted
           \/ Restart \/ NoRestart \/ SimplifyNothing \/ Branch \/ ModelFound
  BY <1>2, <1>3 DEF Contradiction, EndAdding, Propagate, Analyze, Resolve, Refuted, Restart,
                    NoRestart, SimplifyNothing, Branch, ModelFound
<1>4. CASE AddClause
  <2>1. AddEffect
    BY <1>1, <1>4, AddSplit
  <2>2. ASSUME NEW c, Appended(c), clauses' = clauses \cup {Len(ca) + 1},
               UNCHANGED <<learnts, removed>>
        PROVE  TypeBase'
    BY <1>1, <2>2 DEF TypeBase, Appended
  <2> QED
    BY <1>2, <2>1, <2>2 DEF AddEffect
<1>5. CASE Visit
  <2>1. PICK w, p, c : Visited(w, p, c) /\ VisitEffect(w, p, c)
    BY <1>1, <1>5, VisitSplit
  <2>2. UNCHANGED <<clauses, learnts, removed>>
    BY <1>5 DEF Visit
  <2>3. ASSUME NEW d, Reordered(w.cref, d) PROVE TypeBase'
    BY <1>1, <2>2, <2>3 DEF TypeBase, Reordered
  <2>4. ASSUME VisitSatisfied(p, w) PROVE TypeBase'
    BY <1>2, <2>2, <2>4 DEF VisitSatisfied, base
  <2> QED
    BY <2>1, <2>3, <2>4 DEF VisitEffect
<1>6. CASE Learn
  <2>1. PICK c, lv, tr : LearnEffect(c, lv, tr)
    BY <1>1, <1>6, LearnSplit
  <2>2. UNCHANGED <<clauses, removed>>
    BY <1>6 DEF Learn
  <2>3. ASSUME Appended(c), learnts' = learnts \cup {Len(ca) + 1} PROVE TypeBase'
    BY <1>1, <2>2, <2>3 DEF TypeBase, Appended
  <2>4. ASSUME UNCHANGED <<ca, learnts>> PROVE TypeBase'
    BY <1>2, <2>2, <2>4 DEF base
  <2> QED
    BY <2>1, <2>3, <2>4 DEF LearnEffect
<1>7. CASE Simplify
  <2>1. PICK S : SimplifyEffect(S)
    BY <1>1, <1>7, SimplifySplit
  <2>2. S \subseteq Live /\ removed' = removed \cup S
    BY <2>1 DEF SimplifyEffect, removeClauses
  <2> QED
    BY <1>1, <2>1, <2>2 DEF TypeBase, SimplifyEffect, Live
<1>8. CASE Reduce
  <2>1. PICK R \in SUBSET Droppable : removeClauses(R) /\ learnts' = learnts \ R
    BY <1>8 DEF Reduce
  <2>2. UNCHANGED <<ca, clauses>> /\ removed' = removed \cup R /\ R \subseteq learnts
    BY <1>8, <2>1 DEF Reduce, removeClauses, Droppable
  <2> QED
    BY <1>1, <2>1, <2>2 DEF TypeBase, Refs
<1> QED
  BY <1>3, <1>4, <1>5, <1>6, <1>7, <1>8 DEF Next

LEMMA TypeListsStep ==
  ASSUME SolverInv, Next
  PROVE  TypeLists'
<1>1. /\ TypeOK /\ TypeLists /\ FlowInv /\ TrailInv /\ ClauseInv /\ WatchInv /\ ReasonInv
      /\ AnalyzeInv /\ ModelInv /\ Literals' = Literals /\ Watchers' = Watchers
  BY Same DEF SolverInv, TypeOK
<1>2. ASSUME UNCHANGED lists PROVE TypeLists'
  BY <1>1, <1>2 DEF TypeLists, lists
<1>3. CASE Contradiction \/ EndAdding \/ Analyze \/ Resolve \/ Refuted
           \/ Restart \/ NoRestart \/ Branch \/ ModelFound
  BY <1>2, <1>3 DEF Contradiction, EndAdding, Analyze, Resolve, Refuted, Restart, NoRestart,
                    Branch, ModelFound
<1>4. CASE SimplifyNothing
  BY <1>2, <1>4 DEF SimplifyNothing, SimplifyDone, lists
<1>5. CASE AddClause
  <2>1. AddEffect /\ UNCHANGED <<dirty, todo>>
    BY <1>1, <1>5, AddSplit DEF AddClause
  <2>2. watches' = watches \/ \E c : AttachedTo(c, Len(ca) + 1)
    BY <2>1 DEF AddEffect
  <2> QED
    BY <1>1, <2>1, <2>2 DEF TypeLists, AttachedTo
<1>6. CASE Propagate
  <2>1. PICK p : p = trail[qhead + 1]
    OBVIOUS
  <2>2. p \in Literals
    <3>1. qhead + 1 \in DOMAIN trail
      <4>1. qhead \in 0..Len(trail) /\ DOMAIN trail = 1..Len(trail) /\ Len(trail) \in Nat
            /\ qhead < Len(trail)
        BY <1>1, <1>6, TrailTypes DEF Propagate
      <4> QED
        BY <4>1
    <3> QED
      BY <1>1, <2>1, <3>1, TrailTypes
  <2>3. /\ todo' = lookup(p) /\ watches' = [watches EXCEPT ![p] = <<>>] /\ dirty' = dirty \ {p}
    BY <1>6, <2>1 DEF Propagate
  <2>4. watches[p] \in Seq(Watchers)
    BY <1>1, <2>2 DEF TypeLists
  <2>5. lookup(p) \in Seq(Watchers)
    BY <2>4, AmongFacts DEF lookup
  <2> QED
    BY <1>1, <2>2, <2>3, <2>5 DEF TypeLists
<1>7. CASE Visit
  <2>1. PICK w, p, c : Visited(w, p, c) /\ VisitEffect(w, p, c) /\ todo # <<>>
    BY <1>1, <1>7, VisitSplit
  <2>2. dirty' = dirty
    BY <1>7 DEF Visit
  <2>3. Tail(todo) \in Seq(Watchers) /\ w \in Watchers /\ p \in Literals
    BY <1>1, <2>1 DEF TypeLists, Visited
  <2>4. ASSUME NEW w1 \in Watchers, Pass(p, w1) PROVE TypeLists'
    BY <1>1, <2>2, <2>3, <2>4 DEF TypeLists, Pass
  <2>5. ASSUME NEW w1 \in Watchers, PassAll(p, w1) PROVE TypeLists'
    <3>1. Append(watches[p], w1) \o Tail(todo) \in Seq(Watchers)
      BY <1>1, <2>3 DEF TypeLists
    <3> QED
      BY <1>1, <2>2, <2>3, <2>5, <3>1 DEF TypeLists, PassAll
  <2>6. ASSUME NEW w1 \in Watchers, NEW k, NEW d, Moved(w, c, k, d, w1), todo' = Tail(todo)
        PROVE  TypeLists'
    BY <1>1, <2>2, <2>3, <2>6 DEF TypeLists, Moved, Found
  <2> QED
    BY <2>1, <2>3, <2>4, <2>5, <2>6
    DEF VisitEffect, VisitSatisfied, VisitTrue, VisitUnit, VisitFalse
<1>8. CASE Learn
  <2>1. PICK c, lv, tr : LearnEffect(c, lv, tr)
    BY <1>1, <1>8, LearnSplit
  <2>2. UNCHANGED <<dirty, todo>>
    BY <1>8 DEF Learn
  <2>3. watches' = watches \/ AttachedTo(c, Len(ca) + 1)
    BY <2>1 DEF LearnEffect
  <2> QED
    BY <1>1, <2>2, <2>3 DEF TypeLists, AttachedTo
<1>9. ASSUME NEW R, R \subseteq Refs, removeClauses(R), UNCHANGED <<watches, todo>>
      PROVE  TypeLists'
  <2>1. \A cr \in R : -ca[cr][1] \in Literals /\ -ca[cr][2] \in Literals
    BY <1>1, <1>9, ClauseTypes, LitFacts
  <2>2. dirty' = dirty \cup UNION {{-ca[cr][1], -ca[cr][2]} : cr \in R}
    BY <1>9 DEF removeClauses
  <2>3. dirty' \subseteq Literals
    BY <1>1, <2>1, <2>2 DEF TypeLists
  <2> QED
    BY <1>1, <1>9, <2>3 DEF TypeLists
<1>10. CASE Simplify
  <2>1. PICK S : SimplifyEffect(S)
    BY <1>1, <1>10, SimplifySplit
  <2>2. S \subseteq Refs /\ removeClauses(S)
    BY <1>1, <2>1, ClauseTypes DEF SimplifyEffect
  <2> QED
    BY <1>9, <1>10, <2>2 DEF Simplify, SimplifyDone
<1>11. CASE Reduce
  <2>1. PICK R \in SUBSET Droppable : removeClauses(R)
    BY <1>11 DEF Reduce
  <2>2. R \subseteq Refs
    BY <1>1, <2>1, ClauseTypes DEF Droppable, Live
  <2> QED
    BY <1>9, <1>11, <2>1, <2>2 DEF Reduce
<1> QED
  BY <1>3, <1>4, <1>5, <1>6, <1>7, <1>8, <1>10, <1>11 DEF Next

LEMMA TypeTrailStep ==
  ASSUME SolverInv, Next
  PROVE  TypeTrail'
<1>1. /\ TypeOK /\ TypeTrail /\ FlowInv /\ TrailInv /\ ClauseInv /\ WatchInv /\ ReasonInv
      /\ AnalyzeInv /\ ModelInv /\ Literals' = Literals /\ Vars' = Vars
  BY Same DEF SolverInv, TypeOK
<1>2. ASSUME UNCHANGED asgn PROVE TypeTrail'
  BY <1>1, <1>2 DEF TypeTrail, asgn
<1>3. CASE Contradiction \/ EndAdding \/ Analyze \/ Resolve \/ Refuted \/ NoRestart
  BY <1>2, <1>3 DEF Contradiction, EndAdding, Analyze, Resolve, Refuted, NoRestart
<1>4. CASE SimplifyNothing
  BY <1>2, <1>4 DEF SimplifyNothing, SimplifyDone, asgn
<1>5. ASSUME NEW p, NEW from, NEW lv, Enqueued(p, from, lv, trail), UNCHANGED <<trail_lim, qhead>>
      PROVE  TypeTrail'
  <2>1. qhead \in 0..Len(trail) /\ Len(trail) \in Nat /\ Len(trail') = Len(trail) + 1
    BY <1>1, <1>5 DEF TypeTrail, Enqueued
  <2>2. qhead \in 0..Len(trail')
    BY <2>1
  <2> QED
    BY <1>1, <1>5, <2>2 DEF TypeTrail, Enqueued
<1>6. CASE AddClause
  <2>1. AddEffect
    BY <1>1, <1>6, AddSplit
  <2> QED
    BY <1>2, <1>5, <2>1 DEF AddEffect
<1>7. CASE Propagate
  <2>1. qhead \in 0..Len(trail) /\ Len(trail) \in Nat /\ qhead < Len(trail) /\ qhead' = qhead + 1
        /\ UNCHANGED <<trail, trail_lim, reason, level>>
    BY <1>1, <1>7 DEF TypeTrail, Propagate
  <2>2. qhead' \in 0..Len(trail)
    BY <2>1
  <2> QED
    BY <1>1, <2>1, <2>2 DEF TypeTrail
<1>8. CASE Visit
  <2>1. PICK w, p, c : Visited(w, p, c) /\ VisitEffect(w, p, c)
    BY <1>1, <1>8, VisitSplit
  <2>2. UNCHANGED asgn
        \/ (Enqueued(c[1], w.cref, decisionLevel, trail) /\ UNCHANGED <<trail_lim, qhead>>)
        \/ (UNCHANGED <<trail, trail_lim, reason, level>> /\ qhead' = Len(trail))
    BY <2>1 DEF VisitEffect, VisitSatisfied, VisitTrue, VisitUnit, VisitFalse
  <2>3. ASSUME UNCHANGED <<trail, trail_lim, reason, level>>, qhead' = Len(trail)
        PROVE  TypeTrail'
    BY <1>1, <2>3 DEF TypeTrail
  <2> QED
    BY <1>2, <1>5, <2>2, <2>3
<1>9. CASE Learn
  <2>1. PICK c, lv, tr : LearnEffect(c, lv, tr)
    BY <1>1, <1>9, LearnSplit
  <2>2. Cut(lv, tr) /\ \E r : Enqueued(c[1], r, lv, tr)
    BY <2>1 DEF LearnEffect
  <2>3. Len(tr) \in Nat /\ qhead' = Len(tr) /\ Len(trail') = Len(tr) + 1 /\ trail_lim' \in Seq(Nat)
    BY <2>2 DEF Cut, Enqueued
  <2>4. qhead' \in 0..Len(trail')
    BY <2>3
  <2> QED
    BY <1>1, <2>2, <2>3, <2>4 DEF TypeTrail, Enqueued
<1>10. ASSUME NEW heap, cancelUntil(0, heap), trail' = TrailUntil(0), UNCHANGED <<reason, level>>
       PROVE  TypeTrail'
  <2>1. PICK tr : tr = TrailUntil(0)
    OBVIOUS
  <2>2. Cut(0, tr)
    <3>1. 0 \in 0..decisionLevel
      BY <1>1, TrailTypes
    <3> QED
      BY <1>1, <1>10, <2>1, <3>1, CutFacts
  <2>3. trail' \in Seq(Literals) /\ qhead' \in 0..Len(trail') /\ trail_lim' \in Seq(Nat)
    BY <1>10, <2>1, <2>2 DEF Cut
  <2> QED
    BY <1>1, <1>10, <2>3 DEF TypeTrail
<1>11. CASE Restart \/ ModelFound
  BY <1>10, <1>11 DEF Restart, ModelFound
<1>12. ASSUME NEW R, removeClauses(R), UNCHANGED <<trail, trail_lim, qhead, level>>
       PROVE  TypeTrail'
  <2>1. reason' = [v \in Vars |-> IF \E cr \in R : Locked(cr) /\ Var(ca[cr][1]) = v
                                  THEN CRef_Undef ELSE reason[v]]
    BY <1>12 DEF removeClauses
  <2>2. reason' \in [Vars -> Nat]
    BY <1>1, <2>1 DEF TypeTrail, CRef_Undef
  <2> QED
    BY <1>1, <1>12, <2>2 DEF TypeTrail
<1>13. CASE Simplify
  BY <1>12, <1>13 DEF Simplify, SimplifyDone
<1>14. CASE Reduce
  BY <1>12, <1>14 DEF Reduce
<1>15. CASE Branch
  <2>1. PICK v, p :
          /\ v \in Open /\ p \in {v, -v}
          /\ trail_lim' = Append(trail_lim, Len(trail))
          /\ uncheckedEnqueue(p, CRef_Undef, decisionLevel + 1, trail)
    BY <1>15 DEF Branch
  <2>2. v \in Vars
    BY <1>1, <2>1 DEF Open, TypeOK, TypeFlow
  <2>3. p \in Literals
    BY <1>1, <2>1, <2>2, LitFacts
  <2>4. Enqueued(p, CRef_Undef, decisionLevel + 1, trail)
    BY <1>1, <2>1, <2>3, EnqueueFacts, TrailTypes DEF CRef_Undef
  <2>5. qhead' \in 0..Len(trail')
    <3>1. qhead \in 0..Len(trail) /\ Len(trail) \in Nat /\ Len(trail') = Len(trail) + 1
      BY <1>1, <2>4 DEF TypeTrail, Enqueued
    <3>2. qhead' = qhead
      BY <1>15 DEF Branch
    <3> QED
      BY <3>1, <3>2
  <2>6. trail_lim' \in Seq(Nat)
    BY <1>1, <2>1 DEF TypeTrail
  <2> QED
    BY <1>1, <2>4, <2>5, <2>6 DEF TypeTrail, Enqueued
<1> QED
  BY <1>3, <1>4, <1>6, <1>7, <1>8, <1>9, <1>11, <1>13, <1>14, <1>15 DEF Next

(* The next step of an analysis.                                           *)
LEMMA ResolveSplit ==
  ASSUME TypeOK, FlowInv, TrailInv, ClauseInv, ReasonInv, ConflictInv, AnalyzeInv, Resolve
  PROVE  \E C, Q, N, now, S, i, b :
           /\ Step(C, Q, N, now, S, i, b) /\ an' = b
           /\ pc' = IF an.pathC + Cardinality(now) > 1 THEN "analyze" ELSE "learn"
<1>1. pc = "analyze"
  BY DEF Resolve
<1>2. PICK C : C = ca[an.confl]
  OBVIOUS
<1>3. PICK Q : Q = Range(IF an.p = 0 THEN C ELSE Tail(C))
  OBVIOUS
<1>4. Source(C, Q)
  BY <1>1, <1>2, <1>3, SourceFacts
<1>5. PICK N : N = New
  OBVIOUS
<1>6. N = {q \in Q : Var(q) \notin an.seen /\ level[Var(q)] > 0}
  BY <1>2, <1>3, <1>5, NewIs
<1>7. PICK now : now = {q \in N : level[Var(q)] >= decisionLevel}
  OBVIOUS
<1>8. PICK S : S = an.seen \cup {Var(q) : q \in N}
  OBVIOUS
<1>9. PICK i : i = Max({k \in 1..an.index : Var(trail[k]) \in S})
  OBVIOUS
<1>10. Picked(i, S)
  <2>1. S = an.seen \cup {Var(q) : q \in {q \in Q : Var(q) \notin an.seen /\ level[Var(q)] > 0}}
    BY <1>6, <1>8, Zenon
  <2> QED
    BY <1>1, <1>4, <1>9, <2>1, PickedFacts
<1>11. PICK b : b = [p |-> trail[i], index |-> i - 1, seen |-> S \ {Var(trail[i])},
                     pathC |-> an.pathC + Cardinality(now) - 1,
                     out |-> an.out \o Among(C, N \ now), confl |-> reason[Var(trail[i])]]
  OBVIOUS
<1>12. Step(C, Q, N, now, S, i, b)
  BY <1>4, <1>6, <1>7, <1>8, <1>10, <1>11 DEF Step
<1>13. an' = b /\ pc' = IF an.pathC + Cardinality(now) > 1 THEN "analyze" ELSE "learn"
  BY <1>2, <1>5, <1>7, <1>8, <1>9, <1>11, Zenon DEF Resolve
<1> QED
  BY <1>12, <1>13

LEMMA TypeAnalysisStep ==
  ASSUME SolverInv, Next
  PROVE  TypeAnalysis'
<1>1. /\ TypeOK /\ TypeAnalysis /\ FlowInv /\ TrailInv /\ ClauseInv /\ WatchInv /\ ReasonInv
      /\ ConflictInv /\ AnalyzeInv /\ ModelInv /\ Literals' = Literals /\ Vars' = Vars
  BY Same DEF SolverInv, TypeOK
<1>2. ASSUME an' = an PROVE TypeAnalysis'
  BY <1>1, <1>2 DEF TypeAnalysis
<1>3. CASE Resolve
  <2>1. PICK C, Q, N, now, S, i, b : Step(C, Q, N, now, S, i, b) /\ an' = b
    BY <1>1, <1>3, ResolveSplit
  <2>2. /\ SeenOnTrail(an) /\ Counted(an) /\ OutIsSeen(an)
    BY <1>1, <1>3 DEF AnalyzeInv, Resolve
  <2>3. b.out \in Seq(Literals) /\ b.pathC \in Nat /\ \A v \in S : v \in Vars
    <3>1. b.out \in Seq(Literals)
      BY <1>1, <2>1, <2>2, StepOut
    <3>2. b.pathC \in Nat
      BY <1>1, <2>1, <2>2, StepCounted
    <3> QED
      BY <1>1, <2>1, <2>2, <3>1, <3>2, StepSeen
  <2>4. i \in DOMAIN trail /\ i \in 1..an.index
    BY <2>1 DEF Step, Picked
  <2>5. trail[i] \in Int /\ i - 1 \in Nat /\ reason[Var(trail[i])] \in Nat
    <3>1. trail[i] \in Int /\ reason[Var(trail[i])] \in Nat
      BY <1>1, <2>4, TrailTypes, LitFacts
    <3>2. i - 1 \in Nat
      BY <2>4
    <3> QED
      BY <3>1, <3>2
  <2>6. PICK o, n : o = b.out /\ n = b.pathC
    OBVIOUS
  <2>7. b = [p |-> trail[i], index |-> i - 1, seen |-> S \ {Var(trail[i])},
             pathC |-> n, out |-> o, confl |-> reason[Var(trail[i])]]
    BY <2>1, <2>6 DEF Step
  <2>8. o \in Seq(Literals) /\ n \in Int /\ S \ {Var(trail[i])} \in SUBSET Vars
    BY <2>3, <2>6
  <2>9. b \in [p : Int, index : Nat, seen : SUBSET Vars, pathC : Int, out : Seq(Literals), confl : Nat]
    BY <2>5, <2>7, <2>8
  <2> QED
    BY <1>1, <2>1, <2>9 DEF TypeAnalysis
<1>4. CASE Analyze
  <2>1. an' = [p |-> 0, index |-> Len(trail), seen |-> {}, pathC |-> 0, out |-> <<>>,
               confl |-> confl]
    BY <1>4 DEF Analyze, Idle
  <2>2. Len(trail) \in Nat /\ confl \in Nat
    BY <1>1, TrailTypes DEF TypeOK, TypeFlow
  <2> QED
    BY <2>1, <2>2 DEF TypeAnalysis
<1>5. CASE Learn
  BY <1>5 DEF Learn, Idle, TypeAnalysis, CRef_Undef
<1>6. CASE AddClause \/ Contradiction \/ EndAdding \/ Propagate \/ Visit \/ Refuted \/ Restart
           \/ NoRestart \/ Reduce \/ Branch \/ ModelFound
  BY <1>2, <1>6 DEF AddClause, Contradiction, EndAdding, Propagate, Visit, Refuted, Restart,
                    NoRestart, Reduce, Branch, ModelFound
<1>7. CASE Simplify \/ SimplifyNothing
  BY <1>2, <1>7 DEF Simplify, SimplifyNothing, SimplifyDone
<1> QED
  BY <1>3, <1>4, <1>5, <1>6, <1>7 DEF Next

LEMMA TypeStep ==
  ASSUME SolverInv, Next
  PROVE  TypeOK'
BY TypeFlowStep, TypeBaseStep, TypeListsStep, TypeTrailStep, TypeAnalysisStep DEF TypeOK

-----------------------------------------------------------------------------
(* The order of the phases.                                                *)
LEMMA FlowStep ==
  ASSUME SolverInv, Next
  PROVE  FlowInv'
<1>1. TypeOK /\ FlowInv /\ TrailInv /\ ClauseInv /\ WatchInv /\ ReasonInv /\ AnalyzeInv /\ ModelInv
      /\ trail_lim \in Seq(Nat) /\ todo \in Seq(Watchers)
  BY DEF SolverInv, TypeOK, TypeTrail, TypeLists
<1>2. CASE AddClause
  <2>1. AddEffect
    BY <1>1, <1>2, AddSplit
  <2>2. trail_lim' = trail_lim
    BY <2>1 DEF AddEffect, asgn
  <2> QED
    BY <1>1, <1>2, <2>2
    DEF FlowInv, AddClause, answer, decisionLevel, Propagated
<1>3. CASE Contradiction
  BY <1>1, <1>3 DEF FlowInv, Contradiction, answer, lists, asgn, decisionLevel, Propagated
<1>4. CASE EndAdding
  BY <1>1, <1>4 DEF FlowInv, EndAdding, input, answer, lists, asgn, decisionLevel, Propagated
<1>5. CASE Propagate
  <2>1. qhead \in Nat
    BY <1>1, TrailTypes
  <2>2. qhead' > 0
    BY <1>5, <2>1 DEF Propagate
  <2>3. UNCHANGED <<ok, added, cnf, pc, result, trail, trail_lim, confl>>
        /\ confl = CRef_Undef /\ qhead # Len(trail)
    BY <1>1, <1>5, TrailTypes DEF Propagate, input, answer
  <2> QED
    BY <1>1, <2>2, <2>3 DEF FlowInv, decisionLevel, Propagated
<1>6. CASE Visit
  <2>1. PICK w, p, c : Visited(w, p, c) /\ VisitEffect(w, p, c) /\ todo # <<>>
    BY <1>1, <1>6, VisitSplit
  <2>2. /\ UNCHANGED <<ok, added, cnf, pc, result, trail_lim>>
        /\ confl = CRef_Undef
        /\ \/ UNCHANGED <<confl, qhead>>
           \/ qhead' = Len(trail) /\ trail' = trail /\ todo' = <<>>
    BY <1>6, <2>1 DEF Visit, input, answer, VisitEffect, VisitSatisfied, VisitTrue, VisitUnit,
                      VisitFalse, PassAll, asgn, Visited
  <2>3. pc \notin {"presolve", "simplify", "reduce", "branch", "analyze", "learn"}
    BY <1>1, <2>1, <2>2 DEF FlowInv, Propagated
  <2> QED
    BY <1>1, <2>1, <2>2, <2>3 DEF FlowInv, decisionLevel
<1>7. CASE Analyze
  BY <1>1, <1>7 DEF FlowInv, Analyze, input, answer, lists, asgn, decisionLevel
<1>8. CASE Resolve
  BY <1>1, <1>8 DEF FlowInv, Resolve, input, answer, lists, asgn, decisionLevel
<1>9. CASE Learn
  BY <1>1, <1>9 DEF FlowInv, Learn, input, answer
<1>10. CASE Refuted
  BY <1>1, <1>10 DEF FlowInv, Refuted, lists, asgn, decisionLevel
<1>11. CASE Restart
  BY <1>1, <1>11 DEF FlowInv, Restart, input, answer, lists, Propagated
<1>12. CASE NoRestart
  BY <1>1, <1>12 DEF FlowInv, NoRestart, input, answer, lists, asgn, decisionLevel, Propagated
<1>13. CASE Simplify \/ SimplifyNothing
  BY <1>1, <1>13 DEF FlowInv, Simplify, SimplifyNothing, SimplifyDone, input, answer,
                     decisionLevel, Propagated
<1>14. CASE Reduce
  BY <1>1, <1>14 DEF FlowInv, Reduce, input, answer, decisionLevel, Propagated
<1>15. CASE Branch
  BY <1>1, <1>15 DEF FlowInv, Branch, input, answer, lists, Propagated
<1>16. CASE ModelFound
  BY <1>1, <1>16 DEF FlowInv, ModelFound, input, lists, Propagated
<1> QED
  BY <1>2, <1>3, <1>4, <1>5, <1>6, <1>7, <1>8, <1>9, <1>10, <1>11, <1>12, <1>13, <1>14, <1>15,
     <1>16 DEF Next

-----------------------------------------------------------------------------
(* The levels of the trail.                                                *)

(* tr is the part of the trail that is kept.                               *)
Below(lv, tr) ==
  /\ tr \in Seq(Literals) /\ Len(tr) \in Nat /\ Len(tr) <= Len(trail)
  /\ \A i \in 1..Len(tr) : i \in DOMAIN trail /\ tr[i] = trail[i] /\ Lv(i) <= lv
  /\ \A i \in DOMAIN trail : Lv(i) <= lv => i \in 1..Len(tr)
  /\ trail_lim' \in Seq(Nat) /\ Len(trail_lim') = lv /\ lv \in Nat /\ lv <= decisionLevel
  /\ \A k \in 1..lv : trail_lim'[k] = trail_lim[k]
  /\ lv > 0 => trail_lim[lv] < Len(tr)

LEMMA CutBelow == ASSUME NEW lv, NEW tr, Cut(lv, tr) PROVE Below(lv, tr)
BY DEF Cut, Below

LEMMA SelfBelow ==
  ASSUME TypeOK, TrailInv, trail_lim' = trail_lim, NEW lv, lv = decisionLevel, NEW tr, tr = trail
  PROVE  Below(lv, tr)
<1>1. /\ trail \in Seq(Literals) /\ trail_lim \in Seq(Nat) /\ decisionLevel = Len(trail_lim)
      /\ lv \in Nat /\ DOMAIN trail = 1..Len(trail) /\ Len(trail) \in Nat
  BY TrailTypes
<1>2. lv > 0 => trail_lim[lv] < Len(trail)
  BY <1>1 DEF TrailInv
<1>3. \A i \in 1..Len(tr) : i \in DOMAIN trail /\ tr[i] = trail[i] /\ Lv(i) <= lv
  BY <1>1 DEF TrailInv
<1> QED
  BY <1>1, <1>2, <1>3 DEF Below

(* The trail with another literal p at its end.                            *)
Grown(p, from, lv, tr) ==
  /\ Len(tr) \in Nat /\ DOMAIN trail' = 1..Len(tr) + 1 /\ Len(trail') = Len(tr) + 1
  /\ \A i \in 1..Len(tr) : /\ i \in DOMAIN trail /\ i \in DOMAIN trail' /\ trail'[i] = trail[i]
                           /\ Var(trail'[i]) # Var(p) /\ level'[Var(trail'[i])] = Lv(i)
                           /\ reason'[Var(trail'[i])] = reason[Var(trail[i])]
  /\ trail'[Len(tr) + 1] = p /\ level'[Var(p)] = lv /\ reason'[Var(p)] = from

LEMMA GrownFacts ==
  ASSUME TypeOK, NEW tr \in Seq(Literals),
         \A i \in 1..Len(tr) : i \in DOMAIN trail /\ tr[i] = trail[i],
         NEW p, NEW from, NEW lv, Enqueued(p, from, lv, tr),
         \A i \in 1..Len(tr) : Var(trail[i]) # Var(p)
  PROVE  Grown(p, from, lv, tr)
<1>1. /\ trail' \in Seq(Literals) /\ Len(trail') = Len(tr) + 1 /\ trail'[Len(tr) + 1] = p
      /\ \A i \in 1..Len(tr) : trail'[i] = tr[i]
      /\ level'[Var(p)] = lv /\ reason'[Var(p)] = from
      /\ \A v \in Vars : v # Var(p) => reason'[v] = reason[v] /\ level'[v] = level[v]
  BY DEF Enqueued
<1>2. \A i \in DOMAIN trail : Var(trail[i]) \in Vars
  BY TrailTypes
<1>3. Len(tr) \in Nat /\ DOMAIN trail' = 1..Len(tr) + 1
  BY <1>1
<1>4. \A i \in 1..Len(tr) : i \in DOMAIN trail'
  BY <1>3
<1>5. \A i \in 1..Len(tr) : /\ trail'[i] = trail[i]
                            /\ Var(trail'[i]) # Var(p) /\ level'[Var(trail'[i])] = Lv(i)
                            /\ reason'[Var(trail'[i])] = reason[Var(trail[i])]
  BY <1>1, <1>2 DEF Lv
<1> QED
  BY <1>1, <1>3, <1>4, <1>5 DEF Grown

LEMMA TrailGrows ==
  ASSUME TypeOK, TypeOK', TrailInv, NEW lv, NEW tr, Below(lv, tr), NEW p, NEW from,
         Grown(p, from, lv, tr),
         lv > 0 => trail_lim'[lv] <= qhead' /\ (todo' # <<>> => trail_lim'[lv] < qhead')
  PROVE  TrailInv'
<1> DEFINE n == Len(tr) + 1
<1>1. /\ n \in Nat /\ DOMAIN trail' = 1..n /\ Len(trail') = n /\ trail'[n] = p
      /\ level'[Var(p)] = lv /\ lv \in Nat
      /\ \A i \in DOMAIN trail' : i \in 1..Len(tr) \/ i = n
      /\ n \notin 1..Len(tr)
  BY DEF Grown, Below
<1>2. /\ decisionLevel' = lv /\ DOMAIN trail_lim' = 1..lv /\ lv <= decisionLevel
      /\ \A k \in 1..lv : k \in DOMAIN trail_lim /\ trail_lim'[k] = trail_lim[k]
      /\ trail_lim' \in Seq(Nat)
  BY TrailTypes DEF Below, decisionLevel
<1>3. \A i \in 1..Len(tr) :
        /\ i \in DOMAIN trail /\ i \in DOMAIN trail' /\ trail'[i] = trail[i] /\ Var(trail'[i]) # Var(p)
        /\ level'[Var(trail'[i])] = Lv(i) /\ Lv(i) \in Nat /\ Lv(i) <= lv
  BY TrailTypes DEF Grown, Below
<1> HIDE DEF n
<1>4. \A i, j \in DOMAIN trail' : Var(trail'[i]) = Var(trail'[j]) => i = j
  <2> SUFFICES ASSUME NEW i \in DOMAIN trail', NEW j \in DOMAIN trail',
                      Var(trail'[i]) = Var(trail'[j])
               PROVE  i = j
    OBVIOUS
  <2>1. CASE i \in 1..Len(tr) /\ j \in 1..Len(tr)
    BY <1>3, <2>1 DEF TrailInv
  <2>2. CASE ~ (i \in 1..Len(tr) /\ j \in 1..Len(tr))
    BY <1>1, <1>3, <2>2
  <2> QED
    BY <2>1, <2>2
<1>5. ASSUME lv > 0 PROVE trail_lim[lv] < n - 1 /\ n - 1 \in Nat
  BY <1>5 DEF Below, n
<1>6. \A k, m \in DOMAIN trail_lim' : k < m => trail_lim'[k] < trail_lim'[m]
  BY <1>2 DEF TrailInv
<1>7. \A k \in DOMAIN trail_lim' : trail_lim'[k] < Len(trail')
  <2> SUFFICES ASSUME NEW k \in DOMAIN trail_lim' PROVE trail_lim'[k] < n
    BY <1>1
  <2>1. lv > 0 /\ lv \in DOMAIN trail_lim' /\ k \in Nat /\ k <= lv
    BY <1>1, <1>2
  <2>2. trail_lim'[lv] < n - 1 /\ n - 1 \in Nat
    BY <1>2, <1>5, <2>1
  <2>3. trail_lim'[k] <= trail_lim'[lv]
    <3>1. CASE k = lv
      BY <1>2, <2>1, <3>1
    <3>2. CASE k # lv
      <4>1. k < lv
        BY <1>1, <2>1, <3>2
      <4>2. trail_lim'[k] < trail_lim'[lv]
        BY <1>6, <2>1, <4>1
      <4> QED
        BY <1>2, <2>1, <4>2
    <3> QED
      BY <3>1, <3>2
  <2>4. trail_lim'[k] \in Nat /\ trail_lim'[lv] \in Nat
    BY <1>2, <2>1
  <2> QED
    BY <1>1, <2>2, <2>3, <2>4
<1>8. ASSUME NEW i \in DOMAIN trail'
      PROVE  /\ Lv(i)' <= decisionLevel'
             /\ Lv(i)' > 0 => trail_lim'[Lv(i)'] < i
             /\ Lv(i)' < decisionLevel' => i <= trail_lim'[Lv(i)' + 1]
  <2>1. CASE i \in 1..Len(tr)
    <3>1. PICK x : x = Lv(i)
      OBVIOUS
    <3>2. Lv(i)' = x /\ x \in Nat /\ x <= lv
      BY <1>3, <2>1, <3>1 DEF Lv
    <3>3. /\ x > 0 => trail_lim[x] < i
          /\ x < decisionLevel => i <= trail_lim[x + 1]
      BY <1>3, <2>1, <3>1 DEF TrailInv
    <3>4. x > 0 => x \in 1..lv
      BY <1>1, <3>2
    <3>5. x < lv => x + 1 \in 1..lv /\ x < decisionLevel
      BY <1>1, <1>2, <3>2, TrailTypes
    <3> QED
      BY <1>2, <3>2, <3>3, <3>4, <3>5
  <2>2. CASE i = n
    <3>1. Lv(i)' = lv
      BY <1>1, <2>2 DEF Lv
    <3>2. lv > 0 => trail_lim'[lv] < n
      <4> SUFFICES ASSUME lv > 0 PROVE trail_lim'[lv] < n
        OBVIOUS
      <4>1. lv \in DOMAIN trail_lim'
        BY <1>1, <1>2
      <4> QED
        BY <1>1, <1>7, <4>1
    <3> QED
      BY <1>1, <1>2, <2>2, <3>1, <3>2
  <2> QED
    BY <1>1, <2>1, <2>2
<1> QED
  BY <1>2, <1>4, <1>6, <1>7, <1>8 DEF TrailInv

LEMMA TrailCut ==
  ASSUME TypeOK, TypeOK', TrailInv, NEW tr, Cut(0, tr), trail' = tr, level' = level
  PROVE  TrailInv'
<1>1. /\ decisionLevel' = 0 /\ DOMAIN trail_lim' = {}
  BY TrailTypes DEF Cut, decisionLevel
<1>2. \A i \in DOMAIN trail' :
        /\ i \in DOMAIN trail /\ trail'[i] = trail[i] /\ Lv(i)' = Lv(i) /\ Lv(i) = 0
  <2>1. DOMAIN trail' = 1..Len(tr)
    BY DEF Cut
  <2>2. \A i \in DOMAIN trail' : i \in DOMAIN trail /\ trail'[i] = trail[i] /\ Lv(i) <= 0
    BY <2>1 DEF Cut
  <2> QED
    BY <2>2, TrailTypes DEF Lv
<1> QED
  BY <1>1, <1>2 DEF TrailInv

LEMMA TrailBranches ==
  ASSUME TypeOK, TypeOK', TrailInv, Propagated, NEW p, NEW n, n = decisionLevel + 1,
         NEW tr, tr = trail, Grown(p, CRef_Undef, n, tr),
         trail_lim' = Append(trail_lim, Len(trail)), UNCHANGED <<qhead, todo>>
  PROVE  TrailInv'
<1>1. /\ decisionLevel \in Nat /\ trail_lim \in Seq(Nat) /\ Len(trail_lim) = decisionLevel
      /\ DOMAIN trail = 1..Len(trail) /\ Len(trail) \in Nat
  BY TrailTypes
<1>2. /\ n \in Nat /\ n > 0 /\ trail_lim' \in Seq(Nat) /\ DOMAIN trail_lim' = 1..n /\ decisionLevel' = n
      /\ trail_lim'[n] = Len(trail)
      /\ \A k \in 1..n - 1 : k \in DOMAIN trail_lim /\ trail_lim'[k] = trail_lim[k]
      /\ \A k \in 1..n : k \in 1..n - 1 \/ k = n
  BY <1>1 DEF decisionLevel
<1>3. /\ DOMAIN trail' = 1..Len(trail) + 1 /\ Len(trail') = Len(trail) + 1
      /\ trail'[Len(trail) + 1] = p /\ level'[Var(p)] = n
      /\ \A i \in DOMAIN trail' : i \in DOMAIN trail \/ i = Len(trail) + 1
  BY <1>1 DEF Grown
<1>4. \A i \in DOMAIN trail :
        /\ i \in DOMAIN trail' /\ trail'[i] = trail[i] /\ Var(trail'[i]) # Var(p)
        /\ level'[Var(trail'[i])] = Lv(i) /\ Lv(i) \in Nat
  BY <1>1, TrailTypes DEF Grown
<1>5. \A i, j \in DOMAIN trail' : Var(trail'[i]) = Var(trail'[j]) => i = j
  <2> SUFFICES ASSUME NEW i \in DOMAIN trail', NEW j \in DOMAIN trail',
                      Var(trail'[i]) = Var(trail'[j])
               PROVE  i = j
    OBVIOUS
  <2>1. CASE i \in DOMAIN trail /\ j \in DOMAIN trail
    BY <1>4, <2>1 DEF TrailInv
  <2>2. CASE ~ (i \in DOMAIN trail /\ j \in DOMAIN trail)
    BY <1>3, <1>4, <2>2
  <2> QED
    BY <2>1, <2>2
<1>6. \A k \in DOMAIN trail_lim : trail_lim[k] < Len(trail) /\ trail_lim[k] \in Nat
  BY <1>1 DEF TrailInv
<1>7. \A k \in DOMAIN trail_lim' : trail_lim'[k] < Len(trail')
  BY <1>1, <1>2, <1>3, <1>6
<1>8. \A k, m \in DOMAIN trail_lim' : k < m => trail_lim'[k] < trail_lim'[m]
  <2> SUFFICES ASSUME NEW k \in DOMAIN trail_lim', NEW m \in DOMAIN trail_lim', k < m
               PROVE  trail_lim'[k] < trail_lim'[m]
    OBVIOUS
  <2>1. k \in 1..n - 1
    BY <1>2
  <2>2. CASE m \in 1..n - 1
    BY <1>2, <2>1, <2>2 DEF TrailInv
  <2>3. CASE m = n
    BY <1>2, <1>6, <2>1, <2>3
  <2> QED
    BY <1>2, <2>2, <2>3
<1>9. ASSUME NEW i \in DOMAIN trail'
      PROVE  /\ Lv(i)' <= decisionLevel'
             /\ Lv(i)' > 0 => trail_lim'[Lv(i)'] < i
             /\ Lv(i)' < decisionLevel' => i <= trail_lim'[Lv(i)' + 1]
  <2>1. CASE i \in DOMAIN trail
    <3>1. PICK x : x = Lv(i)
      OBVIOUS
    <3>2. Lv(i)' = x /\ x \in Nat
      BY <1>4, <2>1, <3>1 DEF Lv
    <3>3. /\ x <= decisionLevel
          /\ x > 0 => trail_lim[x] < i
          /\ x < decisionLevel => i <= trail_lim[x + 1]
      BY <2>1, <3>1 DEF TrailInv
    <3>4. x > 0 => x \in 1..n - 1
      BY <1>1, <3>2, <3>3
    <3>5. x < decisionLevel => x + 1 \in 1..n - 1
      BY <1>1, <3>2
    <3>6. x = decisionLevel => trail_lim'[x + 1] = Len(trail)
      BY <1>2
    <3>7. i <= Len(trail) /\ x <= n
      BY <1>1, <2>1, <3>2, <3>3
    <3>8. x < decisionLevel \/ x = decisionLevel
      BY <1>1, <3>2, <3>3
    <3> QED
      BY <1>2, <3>2, <3>3, <3>4, <3>5, <3>6, <3>7, <3>8
  <2>2. CASE i = Len(trail) + 1
    <3>1. Lv(i)' = n
      BY <1>3, <2>2 DEF Lv
    <3> QED
      BY <1>1, <1>2, <2>2, <3>1
  <2> QED
    BY <1>3, <2>1, <2>2
<1>10. decisionLevel' > 0 =>
         /\ trail_lim'[decisionLevel'] <= qhead'
         /\ todo' # <<>> => trail_lim'[decisionLevel'] < qhead'
  BY <1>1, <1>2 DEF Propagated
<1> QED
  BY <1>5, <1>7, <1>8, <1>9, <1>10 DEF TrailInv

(* A literal without a value is not on the trail in any form.              *)
LEMMA NotOnTrail ==
  ASSUME TypeOK, NEW p \in Literals, ~ IsTrue(p), ~ IsFalse(p), NEW i \in DOMAIN trail
  PROVE  Var(trail[i]) # Var(p)
<1>1. trail[i] \in Literals /\ trail[i] # p /\ trail[i] # -p
  BY OnTrail, TrailTypes
<1> QED
  BY <1>1, LitFacts

(* A literal without a value is assigned at the current level.             *)
LEMMA UnitGrown ==
  ASSUME TypeOK, TrailInv, NEW p \in Literals, NEW from, NEW lv, NEW tr, tr = trail,
         lv = decisionLevel, Enqueued(p, from, lv, tr), ~ IsTrue(p), ~ IsFalse(p),
         trail_lim' = trail_lim
  PROVE  Below(lv, tr) /\ Grown(p, from, lv, tr)
<1>1. Below(lv, tr)
  BY SelfBelow
<1>2. tr \in Seq(Literals)
      /\ \A i \in 1..Len(tr) : i \in DOMAIN trail /\ tr[i] = trail[i] /\ Var(trail[i]) # Var(p)
  BY <1>1, NotOnTrail DEF Below
<1>3. Grown(p, from, lv, tr)
  BY <1>2, GrownFacts
<1> QED
  BY <1>1, <1>3

LEMMA AddGrown ==
  ASSUME TypeOK, FlowInv, TrailInv, AddClause, NEW c, KeptRight(c), Len(c) = 1,
         Enqueued(c[1], CRef_Undef, 0, trail), ~ Redundant(cnf[added + 1]), trail_lim' = trail_lim,
         NEW p, p = c[1], NEW lv, lv = 0, NEW tr, tr = trail
  PROVE  p \in Literals /\ Below(lv, tr) /\ Grown(p, CRef_Undef, lv, tr) /\ lv = decisionLevel
<1>1. lv = decisionLevel
  BY DEF FlowInv, AddClause
<1>2. p \in Literals /\ p \in Range(c)
  <2>1. c \in Seq(Literals) /\ 1 \in 1..Len(c)
    BY DEF KeptRight
  <2> QED
    BY <2>1, RangeIs
<1>3. ~ IsTrue(p) /\ ~ IsFalse(p)
  BY <1>2 DEF KeptRight, Redundant
<1>4. Enqueued(p, CRef_Undef, lv, tr)
  BY <1>1
<1>5. Below(lv, tr) /\ Grown(p, CRef_Undef, lv, tr)
  BY <1>1, <1>2, <1>3, <1>4, UnitGrown
<1> QED
  BY <1>1, <1>2, <1>5

LEMMA VisitGrown ==
  ASSUME TypeOK, TrailInv, NEW w, NEW p, NEW c, Visited(w, p, c), NEW w1,
         VisitUnit(p, w.cref, c, w1), Enqueued(c[1], w.cref, decisionLevel, trail),
         NEW q, q = c[1], NEW r, r = w.cref, NEW lv, lv = decisionLevel, NEW tr, tr = trail
  PROVE  q \in Literals /\ Below(lv, tr) /\ Grown(q, r, lv, tr)
<1>1. q \in Literals
  <2>1. c \in Seq(Literals) /\ 1 \in 1..Len(c)
    BY DEF Visited, Permuted
  <2> QED
    BY <2>1
<1>2. Enqueued(q, r, lv, tr) /\ trail_lim' = trail_lim /\ ~ IsTrue(q) /\ ~ IsFalse(q)
  BY DEF VisitUnit
<1> QED
  BY <1>1, <1>2, UnitGrown

LEMMA LearnGrown ==
  ASSUME TypeOK, FlowInv, TrailInv, AnalyzeInv, Learn, NEW c, NEW lv, NEW tr,
         LearnEffect(c, lv, tr), NEW p, p = c[1],
         NEW r, r = IF Len(c) = 1 THEN CRef_Undef ELSE Len(ca) + 1
  PROVE  p \in Literals /\ Below(lv, tr) /\ Grown(p, r, lv, tr)
<1>1. Cut(lv, tr) /\ Below(lv, tr) /\ lv < decisionLevel /\ p = -an.p /\ p \in Literals
  BY CutBelow DEF LearnEffect, LearntRight
<1>2. Enqueued(p, r, lv, tr)
  BY DEF LearnEffect
<1>3. \A i \in 1..Len(tr) : i \in DOMAIN trail /\ tr[i] = trail[i] /\ Var(trail[i]) # Var(p)
  <2> SUFFICES ASSUME NEW i \in 1..Len(tr)
               PROVE  i \in DOMAIN trail /\ tr[i] = trail[i] /\ Var(trail[i]) # Var(p)
    OBVIOUS
  <2>1. i \in DOMAIN trail /\ tr[i] = trail[i] /\ Lv(i) <= lv
    BY <1>1 DEF Below
  <2>2. an.p \in Literals /\ LastPicked(an)
    BY LearnStart DEF Learn
  <2>3. Var(p) = Var(an.p)
    BY <1>1, <2>2, LitFacts
  <2>4. level[Var(an.p)] = decisionLevel
    BY <2>2 DEF LastPicked, Lv
  <2>5. lv \in Nat /\ Lv(i) \in Nat /\ decisionLevel \in Nat
    BY <1>1, <2>1, TrailTypes DEF Below
  <2> QED
    BY <1>1, <2>1, <2>3, <2>4, <2>5 DEF Lv
<1>4. Grown(p, r, lv, tr)
  BY <1>1, <1>2, <1>3, GrownFacts DEF Below
<1> QED
  BY <1>1, <1>4

LEMMA BranchGrown ==
  ASSUME TypeOK, Branch
  PROVE  \E p, n, tr : /\ p \in Literals /\ ~ IsTrue(p) /\ ~ IsFalse(p)
                       /\ n = decisionLevel + 1 /\ tr = trail /\ Grown(p, CRef_Undef, n, tr)
                       /\ trail_lim' = Append(trail_lim, Len(trail))
<1>1. PICK v, p :
        /\ v \in Open /\ p \in {v, -v}
        /\ trail_lim' = Append(trail_lim, Len(trail))
        /\ uncheckedEnqueue(p, CRef_Undef, decisionLevel + 1, trail)
  BY DEF Branch
<1>2. v \in Vars /\ ~ IsTrue(v) /\ ~ IsFalse(v)
  BY <1>1 DEF Open, TypeOK, TypeFlow
<1>3. p \in Literals /\ ~ IsTrue(p) /\ ~ IsFalse(p)
  BY <1>1, <1>2, LitFacts DEF IsTrue, IsFalse
<1>4. PICK tr, n : tr = trail /\ n = decisionLevel + 1
  OBVIOUS
<1>5. tr \in Seq(Literals) /\ n \in Nat /\ 0 \in Nat
  BY <1>4, TrailTypes
<1>6. Enqueued(p, CRef_Undef, n, tr)
  BY <1>1, <1>3, <1>4, <1>5, EnqueueFacts DEF CRef_Undef
<1>7. \A i \in 1..Len(tr) : i \in DOMAIN trail /\ tr[i] = trail[i] /\ Var(trail[i]) # Var(p)
  BY <1>3, <1>4, NotOnTrail, TrailTypes
<1>8. Grown(p, CRef_Undef, n, tr)
  BY <1>5, <1>6, <1>7, GrownFacts
<1> QED
  BY <1>1, <1>3, <1>4, <1>8

LEMMA CutZero ==
  ASSUME TypeOK, TrailInv, Restart \/ ModelFound
  PROVE  \E tr : Cut(0, tr) /\ tr = TrailUntil(0) /\ trail' = tr /\ UNCHANGED <<level, reason>>
<1>1. PICK tr : tr = TrailUntil(0)
  OBVIOUS
<1>2. PICK heap : cancelUntil(0, heap)
  BY DEF Restart, ModelFound
<1>3. Cut(0, tr)
  <2>1. 0 \in 0..decisionLevel
    BY TrailTypes
  <2> QED
    BY <1>1, <1>2, <2>1, CutFacts
<1> QED
  BY <1>1, <1>3 DEF Restart, ModelFound

LEMMA TrailStep ==
  ASSUME SolverInv, Next
  PROVE  TrailInv'
<1>1. TypeOK /\ TypeOK' /\ FlowInv /\ TrailInv /\ ClauseInv /\ WatchInv /\ ReasonInv
      /\ AnalyzeInv /\ ModelInv
  BY TypeStep DEF SolverInv
<1>2. ASSUME UNCHANGED <<trail, trail_lim, level>>, qhead' = qhead, todo' # <<>> => todo # <<>>
      PROVE  TrailInv'
  <2>1. decisionLevel' = decisionLevel /\ \A i : Lv(i)' = Lv(i)
    BY <1>2 DEF decisionLevel, Lv
  <2> QED
    BY <1>1, <1>2, <2>1 DEF TrailInv
<1>3. CASE Contradiction \/ EndAdding \/ Analyze \/ Resolve \/ Refuted \/ NoRestart
  BY <1>2, <1>3 DEF Contradiction, EndAdding, Analyze, Resolve, Refuted, NoRestart, asgn, lists
<1>4. CASE SimplifyNothing \/ Simplify \/ Reduce
  BY <1>2, <1>4 DEF SimplifyNothing, Simplify, SimplifyDone, Reduce
<1>5. ASSUME NEW p, NEW from, NEW lv, NEW tr, lv = decisionLevel,
             Below(lv, tr), Grown(p, from, lv, tr),
             UNCHANGED <<trail_lim, qhead>>, todo' # <<>> => todo # <<>>
      PROVE  TrailInv'
  <2>1. lv > 0 => trail_lim'[lv] <= qhead' /\ (todo' # <<>> => trail_lim'[lv] < qhead')
    BY <1>1, <1>5 DEF TrailInv
  <2> QED
    BY <1>1, <1>5, <2>1, TrailGrows
<1>6. CASE AddClause
  <2>1. AddEffect /\ todo' = todo
    BY <1>1, <1>6, AddSplit DEF AddClause
  <2>2. ASSUME NEW c, KeptRight(c), Len(c) = 1, Enqueued(c[1], CRef_Undef, 0, trail),
               ~ Redundant(cnf[added + 1]), UNCHANGED <<trail_lim, qhead>>
        PROVE  TrailInv'
    <3>1. PICK p, lv, tr : p = c[1] /\ lv = 0 /\ tr = trail
      OBVIOUS
    <3>2. Below(lv, tr) /\ Grown(p, CRef_Undef, lv, tr) /\ lv = decisionLevel
      BY <1>1, <1>6, <2>2, <3>1, AddGrown
    <3> QED
      BY <1>5, <2>1, <2>2, <3>2
  <2> QED
    BY <1>2, <2>1, <2>2 DEF AddEffect, asgn
<1>7. CASE Propagate
  <2>1. UNCHANGED <<trail, trail_lim, level>> /\ qhead' = qhead + 1 /\ qhead \in Nat
    BY <1>1, <1>7, TrailTypes DEF Propagate
  <2>2. decisionLevel' = decisionLevel /\ \A i : Lv(i)' = Lv(i)
    BY <2>1 DEF decisionLevel, Lv
  <2>3. decisionLevel > 0 => trail_lim[decisionLevel] < qhead'
    BY <1>1, <2>1, TrailTypes DEF TrailInv
  <2>4. decisionLevel > 0 => trail_lim[decisionLevel] <= qhead'
    BY <1>1, <2>1, <2>3, TrailTypes
  <2> QED
    BY <1>1, <2>1, <2>2, <2>3, <2>4 DEF TrailInv
<1>8. CASE Visit
  <2>1. PICK w, p, c : Visited(w, p, c) /\ VisitEffect(w, p, c) /\ todo # <<>>
    BY <1>1, <1>8, VisitSplit
  <2>2. \/ UNCHANGED asgn
        \/ \E w1 : VisitUnit(p, w.cref, c, w1) /\ Enqueued(c[1], w.cref, decisionLevel, trail)
        \/ UNCHANGED <<trail, trail_lim, reason, level>> /\ qhead' = Len(trail) /\ todo' = <<>>
    BY <2>1 DEF VisitEffect, VisitSatisfied, VisitTrue, VisitFalse, PassAll
  <2>3. CASE UNCHANGED asgn
    BY <1>2, <2>1, <2>3 DEF asgn
  <2>4. ASSUME NEW w1, VisitUnit(p, w.cref, c, w1), Enqueued(c[1], w.cref, decisionLevel, trail)
        PROVE  TrailInv'
    <3>1. PICK q, lv, tr, r : q = c[1] /\ lv = decisionLevel /\ tr = trail /\ r = w.cref
      OBVIOUS
    <3>2. Below(lv, tr) /\ Grown(q, r, lv, tr)
      BY <1>1, <2>1, <2>4, <3>1, VisitGrown
    <3>3. UNCHANGED <<trail_lim, qhead>>
      BY <2>4 DEF VisitUnit
    <3> QED
      BY <1>5, <2>1, <3>1, <3>2, <3>3
  <2>5. CASE UNCHANGED <<trail, trail_lim, reason, level>> /\ qhead' = Len(trail) /\ todo' = <<>>
    <3>1. decisionLevel' = decisionLevel /\ \A i : Lv(i)' = Lv(i)
      BY <2>5 DEF decisionLevel, Lv
    <3>2. decisionLevel > 0 => trail_lim[decisionLevel] <= qhead'
      <4>1. decisionLevel > 0 => trail_lim[decisionLevel] < Len(trail)
        BY <1>1, TrailTypes DEF TrailInv
      <4> QED
        BY <1>1, <2>5, <4>1, TrailTypes
    <3> QED
      BY <1>1, <2>5, <3>1, <3>2 DEF TrailInv
  <2> QED
    BY <2>2, <2>3, <2>4, <2>5
<1>9. CASE Learn
  <2>1. PICK c, lv, tr : LearnEffect(c, lv, tr)
    BY <1>1, <1>9, LearnSplit
  <2>2. PICK p, r : p = c[1] /\ r = IF Len(c) = 1 THEN CRef_Undef ELSE Len(ca) + 1
    OBVIOUS
  <2>3. Below(lv, tr) /\ Grown(p, r, lv, tr) /\ Cut(lv, tr)
    BY <1>1, <1>9, <2>1, <2>2, LearnGrown DEF LearnEffect
  <2>4. lv > 0 => trail_lim'[lv] <= qhead' /\ (todo' # <<>> => trail_lim'[lv] < qhead')
    <3> SUFFICES ASSUME lv > 0
                 PROVE  trail_lim'[lv] <= qhead' /\ (todo' # <<>> => trail_lim'[lv] < qhead')
      OBVIOUS
    <3>1. lv \in 1..lv /\ trail_lim[lv] < Len(tr) /\ qhead' = Len(tr)
      BY <2>3 DEF Cut
    <3>2. trail_lim'[lv] < Len(tr) /\ trail_lim'[lv] \in Nat
      BY <2>3, <3>1 DEF Cut
    <3>3. Len(tr) \in Nat
      BY <2>3 DEF Cut
    <3> QED
      BY <3>1, <3>2, <3>3
  <2> QED
    BY <1>1, <2>3, <2>4, TrailGrows
<1>10. CASE Restart \/ ModelFound
  BY <1>1, <1>10, CutZero, TrailCut
<1>11. CASE Branch
  <2>1. PICK p, n, tr : /\ n = decisionLevel + 1 /\ tr = trail /\ Grown(p, CRef_Undef, n, tr)
                        /\ trail_lim' = Append(trail_lim, Len(trail))
    BY <1>1, <1>11, BranchGrown
  <2>2. Propagated /\ UNCHANGED <<qhead, todo>>
    BY <1>1, <1>11 DEF FlowInv, Branch, lists
  <2> QED
    BY <1>1, <2>1, <2>2, TrailBranches
<1> QED
  BY <1>3, <1>4, <1>6, <1>7, <1>8, <1>9, <1>10, <1>11 DEF Next

-----------------------------------------------------------------------------
(* The clauses.                                                            *)
LEMMA ClauseAppended ==
  ASSUME TypeOK, ClauseInv, NEW c \in Seq(Literals), Appended(c), Len(c) > 1, Alone(c),
         Live' = Live \cup {Len(ca) + 1}, removed' = removed, clauses' \cap learnts' = {}
  PROVE  ClauseInv'
<1>1. \A cr \in Refs' : cr \in Refs \/ cr = Len(ca) + 1
  BY DEF Appended
<1>2. ASSUME NEW cr \in Refs'
      PROVE  /\ Len(ca'[cr]) > 1
             /\ \A i, j \in DOMAIN ca'[cr] : ca'[cr][i] = ca'[cr][j] => i = j
  <2>1. CASE cr \in Refs
    BY <2>1 DEF ClauseInv, Appended
  <2>2. CASE cr = Len(ca) + 1
    <3>1. ca'[cr] = c
      BY <2>2 DEF Appended
    <3> QED
      BY <3>1 DEF Alone
  <2> QED
    BY <1>1, <2>1, <2>2
<1>3. Refs' = Live' \cup removed' /\ Live' \cap removed' = {}
  BY DEF ClauseInv, Appended, TypeOK, TypeBase
<1> QED
  BY <1>2, <1>3 DEF ClauseInv

LEMMA ClauseReordered ==
  ASSUME TypeOK, ClauseInv, NEW cr \in Refs, NEW d, Reordered(cr, d), Permuted(ca[cr], d),
         UNCHANGED <<clauses, learnts, removed>>
  PROVE  ClauseInv'
<1>1. ASSUME NEW r \in Refs
      PROVE  /\ Len(ca'[r]) > 1
             /\ \A i, j \in DOMAIN ca'[r] : ca'[r][i] = ca'[r][j] => i = j
  <2>1. CASE r # cr
    BY <2>1 DEF ClauseInv, Reordered
  <2>2. CASE r = cr
    <3>1. d \in Seq(Literals) /\ Len(d) = Len(ca[cr]) /\ Alone(d) /\ ca'[r] = d
      BY <2>2 DEF Permuted, Reordered
    <3>2. Len(ca[cr]) > 1
      BY DEF ClauseInv
    <3> QED
      BY <3>1, <3>2 DEF Alone
  <2> QED
    BY <2>1, <2>2
<1> QED
  BY <1>1 DEF ClauseInv, Reordered, Live

LEMMA ClauseStep ==
  ASSUME SolverInv, Next
  PROVE  ClauseInv'
<1>1. TypeOK /\ TypeOK' /\ FlowInv /\ TrailInv /\ ClauseInv /\ WatchInv /\ ReasonInv
      /\ AnalyzeInv /\ ModelInv
  BY TypeStep DEF SolverInv
<1>2. ASSUME UNCHANGED base PROVE ClauseInv'
  BY <1>1, <1>2 DEF ClauseInv, base, Refs, Live
<1>3. CASE Contradiction \/ EndAdding \/ Propagate \/ Analyze \/ Resolve \/ Refuted
           \/ Restart \/ NoRestart \/ SimplifyNothing \/ Branch \/ ModelFound
  BY <1>2, <1>3 DEF Contradiction, EndAdding, Propagate, Analyze, Resolve, Refuted, Restart,
                    NoRestart, SimplifyNothing, Branch, ModelFound
<1>4. CASE AddClause
  <2>1. AddEffect
    BY <1>1, <1>4, AddSplit
  <2>2. ASSUME NEW c, KeptRight(c), Appended(c), Len(c) > 1, clauses' = clauses \cup {Len(ca) + 1},
               UNCHANGED <<learnts, removed>>
        PROVE  ClauseInv'
    <3>1. Live' = Live \cup {Len(ca) + 1}
      BY <2>2 DEF Live
    <3>2. clauses' \cap learnts' = {}
      BY <1>1, <2>2 DEF ClauseInv, Appended, TypeOK, TypeBase
    <3>3. c \in Seq(Literals) /\ Alone(c)
      BY <2>2 DEF KeptRight
    <3> QED
      BY <1>1, <2>2, <3>1, <3>2, <3>3, ClauseAppended
  <2> QED
    BY <1>2, <2>1, <2>2 DEF AddEffect
<1>5. CASE Visit
  <2>1. PICK w, p, c : Visited(w, p, c) /\ VisitEffect(w, p, c)
    BY <1>1, <1>5, VisitSplit
  <2>2. UNCHANGED <<clauses, learnts, removed>> /\ w.cref \in Refs /\ Permuted(ca[w.cref], c)
    BY <1>5, <2>1 DEF Visit, Visited
  <2>3. PICK r : r = w.cref
    OBVIOUS
  <2>4. ASSUME NEW d, Reordered(w.cref, d), Permuted(ca[w.cref], d) PROVE ClauseInv'
    BY <1>1, <2>2, <2>3, <2>4, ClauseReordered
  <2>5. ASSUME VisitSatisfied(p, w) PROVE ClauseInv'
    BY <1>2, <2>2, <2>5 DEF VisitSatisfied, base
  <2> QED
    BY <2>1, <2>2, <2>4, <2>5 DEF VisitEffect, Moved
<1>6. CASE Learn
  <2>1. PICK c, lv, tr : LearnEffect(c, lv, tr)
    BY <1>1, <1>6, LearnSplit
  <2>2. UNCHANGED <<clauses, removed>>
    BY <1>6 DEF Learn
  <2>3. ASSUME Len(c) > 1, Appended(c), learnts' = learnts \cup {Len(ca) + 1} PROVE ClauseInv'
    <3>1. Live' = Live \cup {Len(ca) + 1}
      BY <2>2, <2>3 DEF Live
    <3>2. clauses' \cap learnts' = {}
      BY <1>1, <2>2, <2>3 DEF ClauseInv, Appended, TypeOK, TypeBase
    <3>3. c \in Seq(Literals) /\ Alone(c)
      BY <2>1 DEF LearnEffect, LearntRight
    <3> QED
      BY <1>1, <2>2, <2>3, <3>1, <3>2, <3>3, ClauseAppended
  <2>4. ASSUME UNCHANGED <<ca, learnts>> PROVE ClauseInv'
    BY <1>2, <2>2, <2>4 DEF base
  <2> QED
    BY <2>1, <2>3, <2>4 DEF LearnEffect
<1>7. CASE Simplify
  <2>1. PICK S : SimplifyEffect(S)
    BY <1>1, <1>7, SimplifySplit
  <2>2. S \subseteq Live /\ removed' = removed \cup S /\ Live' = Live \ S /\ Refs' = Refs
        /\ clauses' \cap learnts' = {}
    BY <1>1, <2>1 DEF SimplifyEffect, removeClauses, ClauseInv
  <2>3. ASSUME NEW cr \in Refs
        PROVE  /\ Len(ca'[cr]) > 1
               /\ \A i, j \in DOMAIN ca'[cr] : ca'[cr][i] = ca'[cr][j] => i = j
    <3>1. CASE cr \in Live'
      <4>1. PICK d : d = ca'[cr]
        OBVIOUS
      <4>2. Shorter(ca[cr], d) /\ d \in Seq(Literals)
        <5>1. ca' \in Seq(Seq(Literals)) /\ cr \in DOMAIN ca' /\ Shorter(ca[cr], ca'[cr])
          BY <2>1, <2>2, <3>1 DEF SimplifyEffect, Refs
        <5> QED
          BY <4>1, <5>1
      <4>3. Len(d) > 1 /\ Alone(d)
        BY <4>2 DEF Shorter
      <4> QED
        BY <4>1, <4>2, <4>3 DEF Alone
    <3>2. CASE cr \notin Live'
      BY <1>1, <2>1, <3>2 DEF SimplifyEffect, ClauseInv
    <3> QED
      BY <3>1, <3>2
  <2>4. Refs' = Live' \cup removed' /\ Live' \cap removed' = {}
    BY <1>1, <2>2 DEF ClauseInv
  <2> QED
    BY <2>2, <2>3, <2>4 DEF ClauseInv
<1>8. CASE Reduce
  <2>1. PICK R \in SUBSET Droppable : removeClauses(R) /\ learnts' = learnts \ R
    BY <1>8 DEF Reduce
  <2>2. UNCHANGED <<ca, clauses>> /\ removed' = removed \cup R /\ R \subseteq learnts
    BY <1>8, <2>1 DEF Reduce, removeClauses, Droppable
  <2>3. Refs' = Refs /\ Live' = Live \ R
    BY <1>1, <2>1, <2>2 DEF Refs, Live, ClauseInv
  <2>4. /\ Refs' = Live' \cup removed' /\ Live' \cap removed' = {} /\ clauses' \cap learnts' = {}
    BY <1>1, <2>1, <2>2, <2>3 DEF ClauseInv, Live
  <2> QED
    BY <1>1, <2>2, <2>3, <2>4 DEF ClauseInv
<1> QED
  BY <1>3, <1>4, <1>5, <1>6, <1>7, <1>8 DEF Next

-----------------------------------------------------------------------------
(* The heap.                                                               *)
LEMMA CutHeap ==
  ASSUME TypeOK, NEW lv, NEW tr, Cut(lv, tr), tr = TrailUntil(lv), NEW heap, cancelUntil(lv, heap),
         NEW v, IsTrue(v) \/ IsFalse(v), v \in Vars
  PROVE  v \in order_heap' \/ \E i \in 1..Len(tr) : trail[i] = v \/ trail[i] = -v
<1>1. PICK i \in DOMAIN trail : trail[i] = v \/ trail[i] = -v
  BY OnTrail
<1>2. Var(trail[i]) = v
  BY <1>1, LitFacts
<1>3. CASE i \in 1..Len(tr)
  BY <1>1, <1>3
<1>4. CASE i \notin 1..Len(tr)
  <2>1. i \in Len(tr) + 1..Len(trail)
    <3>1. i \in 1..Len(trail) /\ Len(tr) \in Nat
      <4>1. DOMAIN trail = 1..Len(trail)
        BY TrailTypes
      <4>2. Len(tr) \in Nat
        BY DEF Cut
      <4> QED
        BY <4>1, <4>2
    <3> QED
      BY <1>4, <3>1
  <2>2. order_heap' = heap \cup {Var(trail[k]) : k \in Len(tr) + 1..Len(trail)}
    BY DEF cancelUntil
  <2> QED
    BY <1>2, <2>1, <2>2
<1> QED
  BY <1>3, <1>4

LEMMA HeapStep ==
  ASSUME SolverInv, Next
  PROVE  HeapInv'
<1>1. TypeOK /\ TypeOK' /\ FlowInv /\ TrailInv /\ ClauseInv /\ WatchInv /\ ReasonInv
      /\ AnalyzeInv /\ ModelInv /\ HeapInv /\ Vars' = Vars
  BY TypeStep, Same DEF SolverInv
<1>2. ASSUME pc # "done", order_heap' = order_heap,
             \A i \in DOMAIN trail : i \in DOMAIN trail' /\ trail'[i] = trail[i]
      PROVE  HeapInv'
  <2>1. \A l : (IsTrue(l) => IsTrue(l)') /\ (IsFalse(l) => IsFalse(l)')
    BY <1>2 DEF IsTrue, IsFalse, Range
  <2> QED
    BY <1>1, <1>2, <2>1 DEF HeapInv
<1>3. ASSUME pc' # "done" => pc # "done", order_heap' = order_heap, trail' = trail PROVE HeapInv'
  BY <1>1, <1>3 DEF HeapInv, IsTrue, IsFalse
<1>4. CASE Contradiction \/ EndAdding \/ Propagate \/ Analyze \/ Resolve \/ Refuted \/ NoRestart
           \/ Reduce
  BY <1>3, <1>4 DEF Contradiction, EndAdding, Propagate, Analyze, Resolve, Refuted, NoRestart,
                    Reduce, asgn
<1>5. CASE SimplifyNothing
  BY <1>3, <1>5 DEF SimplifyNothing, SimplifyDone
<1>6. ASSUME NEW p, NEW from, NEW lv, NEW tr, tr = trail, Enqueued(p, from, lv, tr)
      PROVE  \A i \in DOMAIN trail : i \in DOMAIN trail' /\ trail'[i] = trail[i]
  <2>1. DOMAIN trail = 1..Len(trail) /\ Len(trail) \in Nat
    BY <1>1, TrailTypes
  <2> QED
    BY <1>6, <2>1 DEF Enqueued
<1>7. CASE AddClause
  <2>1. AddEffect /\ order_heap' = order_heap /\ pc' = pc /\ pc # "done"
    BY <1>1, <1>7, AddSplit DEF AddClause
  <2>2. ASSUME NEW c, Enqueued(c[1], CRef_Undef, 0, trail) PROVE HeapInv'
    BY <1>2, <1>6, <2>1, <2>2
  <2> QED
    BY <1>3, <2>1, <2>2 DEF AddEffect, asgn
<1>8. CASE Visit
  <2>1. PICK w, p, c : Visited(w, p, c) /\ VisitEffect(w, p, c) /\ todo # <<>>
    BY <1>1, <1>8, VisitSplit
  <2>2. trail' = trail \/ Enqueued(c[1], w.cref, decisionLevel, trail)
    BY <2>1 DEF VisitEffect, VisitSatisfied, VisitTrue, VisitUnit, VisitFalse, asgn
  <2>3. \A i \in DOMAIN trail : i \in DOMAIN trail' /\ trail'[i] = trail[i]
    BY <1>6, <2>2
  <2>4. pc' = pc /\ order_heap' = order_heap
    BY <1>8 DEF Visit
  <2> QED
    BY <1>2, <2>3, <2>4 DEF HeapInv
<1>9. ASSUME NEW lv, NEW tr, NEW heap, Cut(lv, tr), tr = TrailUntil(lv), cancelUntil(lv, heap),
             \A i \in 1..Len(tr) : i \in DOMAIN trail' /\ trail'[i] = trail[i],
             heap = order_heap \/ pc' = "done", pc # "done"
      PROVE  HeapInv'
  <2> SUFFICES ASSUME pc' # "done", NEW v \in Vars
               PROVE  v \in order_heap' \/ IsTrue(v)' \/ IsFalse(v)'
    BY <1>1 DEF HeapInv
  <2>1. heap = order_heap /\ order_heap \subseteq order_heap'
    BY <1>9 DEF cancelUntil
  <2>2. CASE v \in order_heap
    BY <2>1, <2>2
  <2>3. CASE IsTrue(v) \/ IsFalse(v)
    <3>1. v \in order_heap' \/ \E i \in 1..Len(tr) : trail[i] = v \/ trail[i] = -v
      BY <1>1, <1>9, <2>3, CutHeap
    <3>2. \A i \in DOMAIN trail' : trail'[i] \in Range(trail')
      BY DEF Range
    <3> QED
      BY <1>9, <3>1, <3>2 DEF IsTrue, IsFalse
  <2>4. v \in order_heap \/ IsTrue(v) \/ IsFalse(v)
    BY <1>1, <1>9 DEF HeapInv
  <2> QED
    BY <2>2, <2>3, <2>4
<1>10. CASE Learn
  <2>1. PICK c, lv, tr : LearnEffect(c, lv, tr)
    BY <1>1, <1>10, LearnSplit
  <2>2. PICK heap : heap = order_heap
    OBVIOUS
  <2>3. Cut(lv, tr) /\ tr = TrailUntil(lv) /\ cancelUntil(lv, heap) /\ pc # "done"
    BY <1>10, <2>1, <2>2 DEF LearnEffect, Learn
  <2>4. PICK p, r : Enqueued(p, r, lv, tr)
    BY <2>1 DEF LearnEffect
  <2>5. \A i \in 1..Len(tr) : i \in DOMAIN trail' /\ trail'[i] = trail[i]
    BY <2>3, <2>4 DEF Enqueued, Cut
  <2> QED
    BY <1>9, <2>2, <2>3, <2>5
<1>11. CASE Restart \/ ModelFound
  <2>1. PICK tr : tr = TrailUntil(0)
    OBVIOUS
  <2>2. PICK heap : cancelUntil(0, heap) /\ (heap = order_heap \/ pc' = "done")
    BY <1>11 DEF Restart, ModelFound
  <2>3. Cut(0, tr)
    <3>1. 0 \in 0..decisionLevel
      BY <1>1, TrailTypes
    <3> QED
      BY <1>1, <2>1, <2>2, <3>1, CutFacts
  <2>4. trail' = tr /\ pc # "done"
    BY <1>11, <2>1 DEF Restart, ModelFound
  <2>5. \A i \in 1..Len(tr) : i \in DOMAIN trail' /\ trail'[i] = trail[i]
    BY <2>3, <2>4 DEF Cut
  <2> QED
    BY <1>9, <2>1, <2>2, <2>3, <2>4, <2>5
<1>12. CASE Simplify
  <2>1. /\ order_heap' = {v \in Vars : ~ IsTrue(v) /\ ~ IsFalse(v)}
        /\ trail' = trail
    BY <1>12 DEF Simplify, SimplifyDone
  <2> QED
    BY <1>1, <2>1 DEF HeapInv, IsTrue, IsFalse
<1>13. CASE Branch
  <2>1. PICK v, popped, p :
          /\ v \in Open /\ popped \in SUBSET (order_heap \ Open) /\ p \in {v, -v}
          /\ order_heap' = order_heap \ (popped \cup {v})
          /\ uncheckedEnqueue(p, CRef_Undef, decisionLevel + 1, trail)
    BY <1>13 DEF Branch
  <2>2. trail' = Append(trail, p) /\ trail \in Seq(Literals)
    BY <1>1, <2>1, TrailTypes DEF uncheckedEnqueue
  <2>3. \A l : l \in Range(trail) \/ l = p => l \in Range(trail')
    <3>1. p \in Literals
      BY <1>1, <2>1, LitFacts DEF Open, TypeOK, TypeFlow
    <3>2. trail' \in Seq(Literals) /\ Len(trail') = Len(trail) + 1 /\ trail'[Len(trail) + 1] = p
          /\ \A i \in 1..Len(trail) : trail'[i] = trail[i] /\ i \in 1..Len(trail')
          /\ Len(trail) + 1 \in 1..Len(trail')
      BY <2>2, <3>1
    <3> QED
      BY <2>2, <3>2 DEF Range
  <2> SUFFICES ASSUME NEW x \in Vars
               PROVE  x \in order_heap' \/ IsTrue(x)' \/ IsFalse(x)'
    BY <1>1 DEF HeapInv
  <2>4. x \in order_heap \/ IsTrue(x) \/ IsFalse(x)
    BY <1>1, <1>13 DEF HeapInv, Branch
  <2>5. CASE x = v
    BY <2>1, <2>3, <2>5 DEF IsTrue, IsFalse
  <2>6. CASE x \in popped
    BY <2>1, <2>3, <2>4, <2>6 DEF Open, IsTrue, IsFalse
  <2>7. CASE x \notin popped /\ x # v
    BY <2>1, <2>3, <2>4, <2>7 DEF IsTrue, IsFalse
  <2> QED
    BY <2>5, <2>6, <2>7
<1> QED
  BY <1>4, <1>5, <1>7, <1>8, <1>10, <1>11, <1>12, <1>13 DEF Next

-----------------------------------------------------------------------------
(* How the trail changes.                                                  *)
TrailMoves ==
  \/ UNCHANGED <<trail, trail_lim, level>>
  \/ \E p, from, lv, tr : p \in Literals /\ Below(lv, tr) /\ Grown(p, from, lv, tr)
  \/ \E tr : Cut(0, tr) /\ trail' = tr /\ level' = level
  \/ \E p, n, tr : /\ p \in Literals /\ n = decisionLevel + 1 /\ tr = trail
                   /\ Grown(p, CRef_Undef, n, tr)

LEMMA TrailSplit ==
  ASSUME SolverInv, Next
  PROVE  TrailMoves
<1>1. TypeOK /\ FlowInv /\ TrailInv /\ ClauseInv /\ WatchInv /\ ReasonInv /\ AnalyzeInv /\ ModelInv
  BY DEF SolverInv
<1>2. ASSUME UNCHANGED <<trail, trail_lim, level>> PROVE TrailMoves
  BY <1>2 DEF TrailMoves
<1>3. CASE Contradiction \/ EndAdding \/ Propagate \/ Analyze \/ Resolve \/ Refuted \/ NoRestart
           \/ Reduce
  BY <1>2, <1>3 DEF Contradiction, EndAdding, Propagate, Analyze, Resolve, Refuted, NoRestart,
                    Reduce, asgn
<1>4. CASE Simplify \/ SimplifyNothing
  BY <1>2, <1>4 DEF Simplify, SimplifyNothing, SimplifyDone
<1>5. CASE AddClause
  <2>1. AddEffect
    BY <1>1, <1>5, AddSplit
  <2>2. ASSUME NEW c, KeptRight(c), Len(c) = 1, Enqueued(c[1], CRef_Undef, 0, trail),
               ~ Redundant(cnf[added + 1]), UNCHANGED <<trail_lim, qhead>>
        PROVE  TrailMoves
    <3>1. PICK p, lv, tr : p = c[1] /\ lv = 0 /\ tr = trail
      OBVIOUS
    <3>2. p \in Literals /\ Below(lv, tr) /\ Grown(p, CRef_Undef, lv, tr)
      BY <1>1, <1>5, <2>2, <3>1, AddGrown
    <3> QED
      BY <3>2 DEF TrailMoves
  <2> QED
    BY <1>2, <2>1, <2>2 DEF AddEffect, asgn
<1>6. CASE Visit
  <2>1. PICK w, p, c : Visited(w, p, c) /\ VisitEffect(w, p, c)
    BY <1>1, <1>6, VisitSplit
  <2>2. \/ UNCHANGED <<trail, trail_lim, level>>
        \/ \E w1 : VisitUnit(p, w.cref, c, w1) /\ Enqueued(c[1], w.cref, decisionLevel, trail)
    BY <2>1 DEF VisitEffect, VisitSatisfied, VisitTrue, VisitFalse, asgn
  <2>3. ASSUME NEW w1, VisitUnit(p, w.cref, c, w1), Enqueued(c[1], w.cref, decisionLevel, trail)
        PROVE  TrailMoves
    <3>1. PICK q, lv, tr, r : q = c[1] /\ lv = decisionLevel /\ tr = trail /\ r = w.cref
      OBVIOUS
    <3>2. q \in Literals /\ Below(lv, tr) /\ Grown(q, r, lv, tr)
      BY <1>1, <2>1, <2>3, <3>1, VisitGrown
    <3> QED
      BY <3>2 DEF TrailMoves
  <2> QED
    BY <1>2, <2>2, <2>3
<1>7. CASE Learn
  <2>1. PICK c, lv, tr : LearnEffect(c, lv, tr)
    BY <1>1, <1>7, LearnSplit
  <2>2. PICK p, r : p = c[1] /\ r = IF Len(c) = 1 THEN CRef_Undef ELSE Len(ca) + 1
    OBVIOUS
  <2>3. p \in Literals /\ Below(lv, tr) /\ Grown(p, r, lv, tr)
    BY <1>1, <1>7, <2>1, <2>2, LearnGrown
  <2> QED
    BY <2>3 DEF TrailMoves
<1>8. CASE Restart \/ ModelFound
  BY <1>1, <1>8, CutZero DEF TrailMoves
<1>9. CASE Branch
  BY <1>1, <1>9, BranchGrown DEF TrailMoves
<1> QED
  BY <1>3, <1>4, <1>5, <1>6, <1>7, <1>8, <1>9 DEF Next

LEMMA FixedStays ==
  ASSUME SolverInv, Next
  PROVE  \A l : Fixed(l) => Fixed(l)'
<1> SUFFICES ASSUME NEW l, Fixed(l) PROVE Fixed(l)'
  OBVIOUS
<1>1. TypeOK /\ TrailMoves
  BY TrailSplit DEF SolverInv
<1>2. PICK i \in DOMAIN trail : trail[i] = l /\ Lv(i) = 0
  BY DEF Fixed
<1>3. CASE UNCHANGED <<trail, trail_lim, level>>
  BY <1>3 DEF Fixed, Lv
<1>4. ASSUME NEW p, NEW from, NEW lv, NEW tr, Grown(p, from, lv, tr), i \in 1..Len(tr)
      PROVE  Fixed(l)'
  BY <1>2, <1>4 DEF Grown, Fixed, Lv
<1>5. ASSUME NEW p, NEW from, NEW lv, NEW tr, Below(lv, tr), Grown(p, from, lv, tr)
      PROVE  Fixed(l)'
  <2>1. i \in 1..Len(tr)
    BY <1>2, <1>5 DEF Below
  <2> QED
    BY <1>4, <1>5, <2>1
<1>6. ASSUME NEW tr, Cut(0, tr), trail' = tr, level' = level
      PROVE  Fixed(l)'
  <2>1. i \in 1..Len(tr)
    BY <1>2, <1>6 DEF Cut
  <2>2. i \in DOMAIN trail' /\ trail'[i] = l
    BY <1>2, <1>6, <2>1 DEF Cut
  <2> QED
    BY <1>2, <1>6, <2>2 DEF Fixed, Lv
<1>7. ASSUME NEW p, NEW n, NEW tr, tr = trail, Grown(p, CRef_Undef, n, tr)
      PROVE  Fixed(l)'
  <2>1. i \in 1..Len(tr)
    BY <1>1, <1>2, <1>7, TrailTypes
  <2> QED
    BY <1>4, <1>7, <2>1
<1> QED
  BY <1>1, <1>3, <1>5, <1>6, <1>7 DEF TrailMoves

-----------------------------------------------------------------------------
(* The watchers in a list that grows, or loses its first member.           *)
Extended(s, w, t) ==
  /\ \A u : u \in Range(t) <=> u \in Range(s) \/ u = w
  /\ \A cr : In(cr, t) <=> In(cr, s) \/ w.cref = cr
  /\ Once(s) /\ ~ In(w.cref, s) => Once(t)

LEMMA InIs ==
  ASSUME NEW D, NEW s \in Seq(D), NEW cr
  PROVE  In(cr, s) <=> \E k \in 1..Len(s) : s[k].cref = cr
BY RangeIs DEF In

LEMMA AppendIn ==
  ASSUME NEW D, NEW s \in Seq(D), NEW w \in D, NEW t, t = Append(s, w)
  PROVE  t \in Seq(D) /\ Extended(s, w, t)
<1>1. /\ t \in Seq(D) /\ Len(t) = Len(s) + 1 /\ Len(s) \in Nat /\ t[Len(s) + 1] = w
      /\ \A k \in 1..Len(s) : t[k] = s[k]
  OBVIOUS
<1>2. \A k \in 1..Len(t) : k \in 1..Len(s) \/ k = Len(s) + 1
  BY <1>1
<1>6. \A u : u \in Range(s) <=> \E k \in 1..Len(s) : s[k] = u
  BY RangeIs
<1>7. \A u : u \in Range(t) <=> \E k \in 1..Len(t) : t[k] = u
  <2>1. t \in Seq(D)
    BY <1>1
  <2> QED
    BY <2>1, RangeIs
<1>8. (\A k \in 1..Len(s) : k \in 1..Len(t)) /\ Len(s) + 1 \in 1..Len(t)
  BY <1>1
<1>3. ASSUME NEW u PROVE u \in Range(t) <=> u \in Range(s) \/ u = w
  BY <1>1, <1>2, <1>6, <1>7, <1>8, Zenon
<1>4. ASSUME NEW cr PROVE In(cr, t) <=> In(cr, s) \/ w.cref = cr
  BY <1>3 DEF In
<1>5. ASSUME Once(s), ~ In(w.cref, s) PROVE Once(t)
  <2> SUFFICES ASSUME NEW k \in 1..Len(t), NEW m \in 1..Len(t), t[k].cref = t[m].cref
               PROVE  k = m
    BY <1>1 DEF Once
  <2>1. \A i \in 1..Len(s) : s[i].cref # w.cref
    BY <1>5, InIs
  <2>2. \A i, j \in 1..Len(s) : s[i].cref = s[j].cref => i = j
    BY <1>5 DEF Once
  <2>3. CASE k \in 1..Len(s) /\ m \in 1..Len(s)
    BY <1>1, <2>2, <2>3
  <2>4. CASE k \in 1..Len(s) /\ m = Len(s) + 1
    BY <1>1, <2>1, <2>4
  <2>5. CASE k = Len(s) + 1 /\ m \in 1..Len(s)
    BY <1>1, <2>1, <2>5
  <2> QED
    BY <1>2, <2>3, <2>4, <2>5
<1> QED
  BY <1>1, <1>3, <1>4, <1>5 DEF Extended

Beheaded(s, w, t) ==
  /\ \A u : u \in Range(s) <=> u = w \/ u \in Range(t)
  /\ \A cr : In(cr, s) <=> w.cref = cr \/ In(cr, t)
  /\ Once(s) => Once(t) /\ ~ In(w.cref, t)

LEMMA TailIn ==
  ASSUME NEW D, NEW s \in Seq(D), s # <<>>, NEW w, w = s[1], NEW t, t = Tail(s)
  PROVE  t \in Seq(D) /\ Beheaded(s, w, t)
<1>1. /\ t \in Seq(D) /\ Len(s) \in Nat /\ Len(s) > 0 /\ Len(t) = Len(s) - 1
      /\ \A k \in 1..Len(t) : t[k] = s[k + 1]
  OBVIOUS
<1>2. \A k \in 1..Len(s) : k = 1 \/ (k - 1 \in 1..Len(t) /\ s[k] = t[k - 1])
  BY <1>1
<1>6. \A u : u \in Range(s) <=> \E k \in 1..Len(s) : s[k] = u
  BY RangeIs
<1>7. \A u : u \in Range(t) <=> \E k \in 1..Len(t) : t[k] = u
  <2>1. t \in Seq(D)
    BY <1>1
  <2> QED
    BY <2>1, RangeIs
<1>3. ASSUME NEW u PROVE u \in Range(s) <=> u = w \/ u \in Range(t)
  <2>1. u \in Range(s) => u = w \/ u \in Range(t)
    BY <1>2, <1>6, <1>7
  <2>2. u = w => u \in Range(s)
    <3>1. 1 \in 1..Len(s)
      BY <1>1
    <3> QED
      BY <3>1, RangeIs
  <2>3. u \in Range(t) => u \in Range(s)
    <3> SUFFICES ASSUME u \in Range(t) PROVE u \in Range(s)
      OBVIOUS
    <3>3. t \in Seq(D)
      BY <1>1
    <3>1. PICK k \in 1..Len(t) : t[k] = u
      BY <3>3, RangeIs
    <3>2. k + 1 \in 1..Len(s) /\ s[k + 1] = u
      BY <1>1, <3>1
    <3> QED
      BY <3>2, RangeIs
  <2> QED
    BY <2>1, <2>2, <2>3
<1>4. ASSUME NEW cr PROVE In(cr, s) <=> w.cref = cr \/ In(cr, t)
  BY <1>3 DEF In
<1>5. ASSUME Once(s) PROVE Once(t) /\ ~ In(w.cref, t)
  <2>1. \A i, j \in 1..Len(s) : s[i].cref = s[j].cref => i = j
    BY <1>5 DEF Once
  <2>2. \A k \in 1..Len(t) : k + 1 \in 1..Len(s) /\ k + 1 # 1 /\ t[k] = s[k + 1]
    BY <1>1
  <2>3. 1 \in 1..Len(s)
    BY <1>1
  <2>4. ~ In(w.cref, t)
    <3> SUFFICES ASSUME In(w.cref, t) PROVE FALSE
      OBVIOUS
    <3>0. \A cr : In(cr, t) <=> \E k \in 1..Len(t) : t[k].cref = cr
      <4>1. t \in Seq(D)
        BY <1>1
      <4> QED
        BY <4>1, InIs
    <3>1. PICK k \in 1..Len(t) : t[k].cref = s[1].cref
      BY <3>0
    <3> QED
      BY <2>1, <2>2, <2>3, <3>1
  <2>5. ASSUME NEW k \in 1..Len(t), NEW m \in 1..Len(t), t[k].cref = t[m].cref
        PROVE  k = m
    <3>1. s[k + 1].cref = s[m + 1].cref
      BY <2>2, <2>5
    <3>2. k + 1 = m + 1
      BY <2>1, <2>2, <3>1
    <3> QED
      BY <3>2
  <2>6. Once(t)
    BY <1>1, <2>5 DEF Once
  <2> QED
    BY <2>4, <2>6
<1> QED
  BY <1>1, <1>3, <1>4, <1>5 DEF Beheaded

Followed(s, t, u) ==
  /\ \A w : w \in Range(u) <=> w \in Range(s) \/ w \in Range(t)
  /\ \A cr : In(cr, u) <=> In(cr, s) \/ In(cr, t)
  /\ Once(s) /\ Once(t) /\ (\A w \in Range(t) : ~ In(w.cref, s)) => Once(u)

LEMMA JoinedIn ==
  ASSUME NEW D, NEW s \in Seq(D), NEW t \in Seq(D), NEW u, u = s \o t
  PROVE  u \in Seq(D) /\ Followed(s, t, u)
<1>1. /\ u \in Seq(D) /\ Len(u) = Len(s) + Len(t) /\ Len(s) \in Nat /\ Len(t) \in Nat
      /\ \A k \in 1..Len(u) :
           (k \in 1..Len(s) /\ u[k] = s[k])
           \/ (k - Len(s) \in 1..Len(t) /\ u[k] = t[k - Len(s)])
      /\ \A k \in 1..Len(s) : k \in 1..Len(u) /\ u[k] = s[k]
      /\ \A k \in 1..Len(t) : Len(s) + k \in 1..Len(u) /\ u[Len(s) + k] = t[k]
  BY Joined
<1>6. \A w : w \in Range(s) <=> \E k \in 1..Len(s) : s[k] = w
  BY RangeIs
<1>7. \A w : w \in Range(t) <=> \E k \in 1..Len(t) : t[k] = w
  BY RangeIs
<1>8. \A w : w \in Range(u) <=> \E k \in 1..Len(u) : u[k] = w
  <2>1. u \in Seq(D)
    BY <1>1
  <2> QED
    BY <2>1, RangeIs
<1>2. ASSUME NEW w PROVE w \in Range(u) <=> w \in Range(s) \/ w \in Range(t)
  <2>1. w \in Range(u) => w \in Range(s) \/ w \in Range(t)
    BY <1>1, <1>6, <1>7, <1>8
  <2>2. w \in Range(s) => w \in Range(u)
    BY <1>1, <1>6, <1>7, <1>8
  <2>3. w \in Range(t) => w \in Range(u)
    BY <1>1, <1>6, <1>7, <1>8
  <2> QED
    BY <2>1, <2>2, <2>3
<1>3. ASSUME NEW cr PROVE In(cr, u) <=> In(cr, s) \/ In(cr, t)
  BY <1>2 DEF In
<1>4. ASSUME Once(s), Once(t), \A w \in Range(t) : ~ In(w.cref, s) PROVE Once(u)
  <2> SUFFICES ASSUME NEW k \in 1..Len(u), NEW m \in 1..Len(u), u[k].cref = u[m].cref
               PROVE  k = m
    BY <1>1 DEF Once
  <2>1. \A i, j \in 1..Len(s) : s[i].cref = s[j].cref => i = j
    BY <1>4 DEF Once
  <2>2. \A i, j \in 1..Len(t) : t[i].cref = t[j].cref => i = j
    BY <1>4 DEF Once
  <2>3. \A i \in 1..Len(s), j \in 1..Len(t) : s[i].cref # t[j].cref
    <3> SUFFICES ASSUME NEW i \in 1..Len(s), NEW j \in 1..Len(t), s[i].cref = t[j].cref
                 PROVE  FALSE
      OBVIOUS
    <3>1. t[j] \in Range(t)
      BY RangeIs
    <3>2. In(t[j].cref, s)
      BY InIs
    <3> QED
      BY <1>4, <3>1, <3>2
  <2>4. CASE k \in 1..Len(s) /\ m \in 1..Len(s)
    BY <1>1, <2>1, <2>4
  <2>5. CASE k - Len(s) \in 1..Len(t) /\ u[k] = t[k - Len(s)] /\ m - Len(s) \in 1..Len(t) /\ u[m] = t[m - Len(s)]
    <3>1. k - Len(s) = m - Len(s)
      BY <2>2, <2>5
    <3> QED
      BY <1>1, <3>1
  <2>6. CASE k \in 1..Len(s) /\ m - Len(s) \in 1..Len(t) /\ u[m] = t[m - Len(s)]
    BY <1>1, <2>3, <2>6
  <2>7. CASE m \in 1..Len(s) /\ k - Len(s) \in 1..Len(t) /\ u[k] = t[k - Len(s)]
    BY <1>1, <2>3, <2>7
  <2> QED
    BY <1>1, <2>4, <2>5, <2>6, <2>7
<1> QED
  BY <1>1, <1>2, <1>3, <1>4 DEF Followed

-----------------------------------------------------------------------------
(* A step that leaves the lists alone.                                     *)
Stays == \A l : Fixed(l) => Fixed(l)'

(* What the watchers of the clause cr depend on.                           *)
Kin(cr) ==
  /\ cr \in Refs'
  /\ \/ ca'[cr][1] = ca[cr][1] /\ ca'[cr][2] = ca[cr][2]
     \/ ca'[cr][1] = ca[cr][2] /\ ca'[cr][2] = ca[cr][1]
  /\ \A l : l \in Range(ca[cr]) => l \in Range(ca'[cr]) \/ Fixed(-l)'

LEMMA ProperStays ==
  ASSUME NEW w, NEW l, Proper(w, l), Stays, Kin(w.cref)
  PROVE  Proper(w, l)'
<1>1. w.cref \in Refs'
  BY DEF Kin
<1>2. l = -ca'[w.cref][1] \/ l = -ca'[w.cref][2]
  BY DEF Kin, Proper
<1>3. w.blocker \in Range(ca'[w.cref]) \/ Fixed(-w.blocker)'
  <2>1. CASE Fixed(-w.blocker)
    BY <2>1 DEF Stays
  <2>2. CASE w.blocker \in Range(ca[w.cref])
    BY <2>2 DEF Kin
  <2> QED
    BY <2>1, <2>2 DEF Proper
<1> QED
  BY <1>1, <1>2, <1>3 DEF Proper

LEMMA KinSelf ==
  ASSUME NEW cr, cr \in Refs', ca'[cr] = ca[cr]
  PROVE  Kin(cr)
BY DEF Kin

SameLists ==
  /\ UNCHANGED <<watches, todo>> /\ (todo # <<>> => trail'[qhead'] = trail[qhead])
  /\ Literals' = Literals
  /\ \A cr : cr \in Live' => cr \in Live
  /\ \A cr \in Refs : Kin(cr)
  /\ \A l \in Literals : \A w \in Range(watches[l]) : w.cref \in removed' => l \in dirty'
  /\ \A w \in Range(todo) : w.cref \notin removed'

LEMMA WatchSame ==
  ASSUME ClauseInv, WatchInv, Stays, SameLists, TypeOK
  PROVE  WatchInv'
<1>0. /\ watches' = watches /\ todo' = todo /\ Literals' = Literals
      /\ todo = <<>> => Range(todo) = {}
  BY DEF SameLists, Range
<1>1. ASSUME NEW l, NEW cr, Watched(cr, l) PROVE Watched(cr, l)'
  <2>1. CASE In(cr, watches[l])
    BY <1>0, <2>1 DEF Watched, In
  <2>2. CASE In(cr, todo) /\ l = trail[qhead]
    <3>1. todo # <<>>
      BY <1>0, <2>2 DEF In
    <3>2. l = trail'[qhead']
      BY <2>2, <3>1 DEF SameLists
    <3> QED
      BY <1>0, <2>2, <3>2 DEF Watched, In
  <2> QED
    BY <1>1, <2>1, <2>2 DEF Watched
<1>2. ASSUME NEW cr \in Live' PROVE Watched(cr, -ca[cr][1])' /\ Watched(cr, -ca[cr][2])'
  <2>1. cr \in Live /\ cr \in Refs
    BY <1>2 DEF SameLists, ClauseInv
  <2>2. Watched(cr, -ca[cr][1]) /\ Watched(cr, -ca[cr][2])
    BY <2>1 DEF WatchInv
  <2>3. PICK a, b : a = -ca[cr][1] /\ b = -ca[cr][2]
    OBVIOUS
  <2>4. Watched(cr, a)' /\ Watched(cr, b)'
    BY <1>1, <2>2, <2>3
  <2>5. Kin(cr)
    BY <2>1 DEF SameLists
  <2>6. \/ -ca'[cr][1] = a /\ -ca'[cr][2] = b
        \/ -ca'[cr][1] = b /\ -ca'[cr][2] = a
    BY <2>3, <2>5 DEF Kin
  <2> QED
    BY <2>4, <2>6 DEF Watched
<1>3. ASSUME NEW l \in Literals, NEW w \in Range(watches[l])
      PROVE  Proper(w, l)' /\ (w.cref \in removed' => l \in dirty')
  <2>1. Proper(w, l)
    BY <1>3 DEF WatchInv
  <2>2. Kin(w.cref)
    BY <2>1 DEF SameLists, Proper
  <2> QED
    BY <1>3, <2>1, <2>2, ProperStays DEF SameLists
<1>4. ASSUME NEW w \in Range(todo)
      PROVE  /\ Proper(w, trail[qhead])' /\ w.cref \notin removed'
             /\ ~ In(w.cref, watches[trail[qhead]])'
  <2>1. PICK l : l = trail[qhead]
    OBVIOUS
  <2>2. todo # <<>> /\ l = trail'[qhead']
    BY <1>0, <1>4, <2>1 DEF SameLists
  <2>3. Proper(w, l) /\ ~ In(w.cref, watches[l])
    BY <1>4, <2>1 DEF WatchInv
  <2>4. Kin(w.cref)
    BY <2>3 DEF SameLists, Proper
  <2>5. Proper(w, l)'
    BY <2>3, <2>4, ProperStays
  <2>6. Proper(w, trail[qhead])'
    BY <2>2, <2>5 DEF Proper
  <2>7. ~ In(w.cref, watches'[trail'[qhead']])
    BY <1>0, <2>2, <2>3
  <2> QED
    BY <1>4, <2>6, <2>7 DEF SameLists, In
<1>5. (\A l \in Literals : Once(watches[l])) /\ Once(todo)
  BY DEF WatchInv
<1> QED
  BY <1>0, <1>2, <1>3, <1>4, <1>5 DEF WatchInv

LEMMA WatchFrame ==
  ASSUME SolverInv, Next, UNCHANGED <<ca, clauses, learnts, removed, watches, dirty, todo>>,
         todo # <<>> => trail'[qhead'] = trail[qhead]
  PROVE  WatchInv'
<1>1. TypeOK /\ ClauseInv /\ WatchInv /\ Stays /\ Literals' = Literals
  BY FixedStays, Same DEF SolverInv, Stays
<1>2. \A cr \in Refs : Kin(cr)
  BY KinSelf DEF Refs
<1>3. SameLists
  BY <1>1, <1>2 DEF SameLists, Live, WatchInv
<1> QED
  BY <1>1, <1>3, WatchSame

LEMMA WatchDropped ==
  ASSUME SolverInv, Next, NEW R \in SUBSET Live, removeClauses(R),
         UNCHANGED <<watches, todo>>, todo = <<>>,
         \A cr \in Refs : Kin(cr), Live' \subseteq Live
  PROVE  WatchInv'
<1>1. TypeOK /\ ClauseInv /\ WatchInv /\ Stays /\ Literals' = Literals
  BY FixedStays, Same DEF SolverInv, Stays
<1>2. ASSUME NEW l \in Literals, NEW w \in Range(watches[l]), w.cref \in removed'
      PROVE  l \in dirty'
  <2>1. Proper(w, l) /\ (w.cref \in removed => l \in dirty)
    BY <1>1 DEF WatchInv
  <2>2. w.cref \in R => l \in dirty'
    BY <2>1 DEF removeClauses, Proper
  <2> QED
    BY <1>2, <2>1, <2>2 DEF removeClauses
<1>3. Range(todo) = {}
  BY DEF Range
<1>4. SameLists
  BY <1>1, <1>2, <1>3 DEF SameLists
<1> QED
  BY <1>1, <1>4, WatchSame

LEMMA SimplifyKin ==
  ASSUME SolverInv, Next, Simplify, NEW S, SimplifyEffect(S)
  PROVE  \A cr \in Refs : Kin(cr)
<1>1. /\ TypeOK /\ ClauseInv /\ TrailInv /\ FlowInv /\ Stays
      /\ pc \in {"presolve", "simplify"}
  BY FixedStays DEF SolverInv, Stays, Simplify
<1>2. decisionLevel = 0
  BY <1>1 DEF FlowInv
<1>3. ASSUME NEW l, IsFalse(l) PROVE Fixed(-l)'
  <2>1. PICK i \in DOMAIN trail : trail[i] = -l
    BY <1>1, <1>3, OnTrail
  <2>2. Lv(i) <= 0 /\ Lv(i) \in Nat
    BY <1>1, <1>2, <2>1, TrailTypes DEF TrailInv
  <2>3. Fixed(-l)
    BY <2>1, <2>2 DEF Fixed
  <2> QED
    BY <1>1, <2>3 DEF Stays
<1> SUFFICES ASSUME NEW cr \in Refs PROVE Kin(cr)
  OBVIOUS
<1>4. cr \in Refs' /\ (Shorter(ca[cr], ca'[cr]) \/ ca'[cr] = ca[cr])
  BY DEF SimplifyEffect
<1>5. CASE ca'[cr] = ca[cr]
  BY <1>4, <1>5, KinSelf
<1>6. CASE Shorter(ca[cr], ca'[cr])
  <2>1. PICK c, d : c = ca[cr] /\ d = ca'[cr]
    OBVIOUS
  <2>2. c \in Seq(Literals)
    BY <1>1, <2>1, ClauseTypes
  <2>3. d \in Seq(Literals')
    BY <1>4, <2>1, TypeBaseStep DEF TypeBase, Refs
  <2>4. Shorter(c, d)
    BY <1>6, <2>1
  <2>5. d[1] = c[1] /\ d[2] = c[2]
    BY <2>4 DEF Shorter
  <2>6. ASSUME NEW l \in Range(c) PROVE l \in Range(d) \/ Fixed(-l)'
    <3>1. PICK i \in 1..Len(c) : c[i] = l
      BY <2>2, RangeIs
    <3>2. IsFalse(c[i]) \/ \E k \in 1..Len(d) : d[k] = c[i]
      BY <2>4 DEF Shorter
    <3>3. CASE IsFalse(l)
      BY <1>3, <3>3
    <3>4. ASSUME NEW k \in 1..Len(d), d[k] = l PROVE l \in Range(d)
      BY <2>3, <3>4, RangeIs
    <3> QED
      BY <3>1, <3>2, <3>3, <3>4
  <2> QED
    BY <1>4, <2>1, <2>5, <2>6 DEF Kin
<1> QED
  BY <1>4, <1>5, <1>6

LEMMA WatchSimplify ==
  ASSUME SolverInv, Next, Simplify
  PROVE  WatchInv'
<1>1. TypeOK /\ ClauseInv /\ FlowInv
  BY DEF SolverInv
<1>2. PICK S : SimplifyEffect(S)
  BY <1>1, SimplifySplit
<1>3. \A cr \in Refs : Kin(cr)
  BY <1>2, SimplifyKin
<1>4. UNCHANGED <<watches, todo>> /\ todo = <<>>
  BY <1>1 DEF Simplify, SimplifyDone, FlowInv, Propagated
<1>5. removeClauses(S) /\ S \subseteq Live /\ Live' \subseteq Live
  BY <1>2 DEF SimplifyEffect
<1> QED
  BY <1>3, <1>4, <1>5, WatchDropped

LEMMA WatchReduce ==
  ASSUME SolverInv, Next, Reduce
  PROVE  WatchInv'
<1>1. TypeOK /\ ClauseInv /\ FlowInv
  BY DEF SolverInv
<1>2. PICK R \in SUBSET Droppable : removeClauses(R) /\ learnts' = learnts \ R
  BY DEF Reduce
<1>3. UNCHANGED <<ca, clauses, watches, todo>> /\ todo = <<>>
  BY <1>1 DEF Reduce, FlowInv, Propagated
<1>4. \A cr \in Refs : Kin(cr)
  BY <1>3, KinSelf DEF Refs
<1>5. R \in SUBSET Live /\ Live' \subseteq Live
  BY <1>2, <1>3 DEF Live, Droppable
<1> QED
  BY <1>2, <1>3, <1>4, <1>5, WatchDropped

LEMMA WatchAttached ==
  ASSUME SolverInv, Next, NEW c \in Seq(Literals), Len(c) > 1, Alone(c),
         NEW n, n = Len(ca) + 1, Appended(c), AttachedTo(c, n),
         UNCHANGED <<dirty, todo, removed>>, todo = <<>>, Live' = Live \cup {n}
  PROVE  WatchInv'
<1>1. /\ TypeOK /\ ClauseInv /\ WatchInv /\ Stays /\ Literals' = Literals
      /\ watches \in [Literals -> Seq(Watchers)]
  BY FixedStays, Same DEF SolverInv, Stays, TypeOK, TypeLists
<1>2. /\ n \notin Refs /\ n \in Refs' /\ ca'[n] = c /\ n \in Nat
      /\ \A cr \in Refs : cr \in Refs' /\ ca'[cr] = ca[cr]
  BY DEF Appended
<1>3. PICK a, b : a = -c[1] /\ b = -c[2]
  OBVIOUS
<1>4. PICK u, v : u = [cref |-> n, blocker |-> c[2]] /\ v = [cref |-> n, blocker |-> c[1]]
  OBVIOUS
<1>5. /\ a \in Literals /\ b \in Literals /\ a # b
      /\ watches'[a] = Append(watches[a], u) /\ watches'[b] = Append(watches[b], v)
      /\ \A l \in Literals : l # a /\ l # b => watches'[l] = watches[l]
  BY <1>3, <1>4 DEF AttachedTo
<1>6. /\ c[1] \in Literals /\ c[2] \in Literals /\ c[1] \in Range(c) /\ c[2] \in Range(c)
  <2>1. 1 \in 1..Len(c) /\ 2 \in 1..Len(c)
    OBVIOUS
  <2> QED
    BY <2>1, RangeIs
<1>7. u \in Watchers /\ v \in Watchers /\ u.cref = n /\ v.cref = n
      /\ u.blocker = c[2] /\ v.blocker = c[1]
  BY <1>2, <1>4, <1>6 DEF Watchers
<1>8. ASSUME NEW l \in Literals, In(n, watches[l]) PROVE FALSE
  BY <1>1, <1>2, <1>8 DEF In, WatchInv, Proper
<1>9. Extended(watches[a], u, watches'[a]) /\ Extended(watches[b], v, watches'[b])
  BY <1>1, <1>5, <1>7, AppendIn
<1>10. ASSUME NEW l \in Literals, NEW w \in Range(watches[l])
       PROVE  Proper(w, l)' /\ (w.cref \in removed' => l \in dirty')
  <2>1. Proper(w, l) /\ (w.cref \in removed => l \in dirty)
    BY <1>1 DEF WatchInv
  <2>2. Kin(w.cref)
    BY <1>2, <2>1, KinSelf DEF Proper
  <2> QED
    BY <1>1, <2>1, <2>2, ProperStays
<1>11. /\ Proper(u, a)' /\ Proper(v, b)' /\ n \notin removed'
  <2>1. n \notin removed'
    BY <1>1, <1>2 DEF TypeOK, TypeBase
  <2> QED
    BY <1>2, <1>3, <1>6, <1>7, <2>1 DEF Proper
<1>12. ASSUME NEW l \in Literals, NEW w \in Range(watches'[l])
       PROVE  Proper(w, l)' /\ (w.cref \in removed' => l \in dirty')
  <2>1. \/ w \in Range(watches[l]) \/ (l = a /\ w = u) \/ (l = b /\ w = v)
    BY <1>5, <1>9, <1>12 DEF Extended
  <2> QED
    BY <1>7, <1>10, <1>11, <2>1
<1>13. ASSUME NEW l \in Literals PROVE Once(watches'[l])
  <2>1. Once(watches[l]) /\ ~ In(n, watches[l])
    BY <1>1, <1>8 DEF WatchInv
  <2> QED
    BY <1>5, <1>7, <1>9, <2>1 DEF Extended
<1>14. In(n, watches'[a]) /\ In(n, watches'[b])
  BY <1>7, <1>9 DEF Extended
<1>15. ASSUME NEW cr \in Live PROVE Watched(cr, -ca[cr][1])' /\ Watched(cr, -ca[cr][2])'
  <2>1. PICK x, y : x = -ca[cr][1] /\ y = -ca[cr][2]
    OBVIOUS
  <2>2. cr \in Refs /\ x \in Literals /\ y \in Literals
    BY <1>1, <2>1, ClauseTypes, LitFacts
  <2>3. In(cr, watches[x]) /\ In(cr, watches[y])
    BY <1>1, <2>1 DEF WatchInv, Watched, In, Range
  <2>4. In(cr, watches'[x]) /\ In(cr, watches'[y])
    BY <1>5, <1>9, <2>2, <2>3 DEF Extended
  <2>5. x = -ca'[cr][1] /\ y = -ca'[cr][2]
    BY <1>2, <2>1, <2>2
  <2> QED
    BY <2>4, <2>5 DEF Watched, In
<1>16. Watched(n, -ca[n][1])' /\ Watched(n, -ca[n][2])'
  BY <1>2, <1>3, <1>14 DEF Watched, In
<1>17. Range(todo') = {} /\ Once(todo')
  BY DEF Range, Once
<1> QED
  BY <1>1, <1>12, <1>13, <1>15, <1>16, <1>17 DEF WatchInv

LookedUp(s, t) ==
  /\ t \in Seq(Watchers)
  /\ \A w : w \in Range(t) <=> w \in Range(s) /\ w.cref \notin removed
  /\ Once(s) => Once(t)

LEMMA LookupFacts ==
  ASSUME TypeOK, WatchInv, NEW p \in Literals, NEW s, s = watches[p], NEW t, t = lookup(p)
  PROVE  LookedUp(s, t)
<1>1. s \in Seq(Watchers)
  BY DEF TypeOK, TypeLists
<1>2. CASE p \notin dirty
  <2>1. t = s
    BY <1>2 DEF lookup
  <2>2. \A w \in Range(s) : w.cref \notin removed
    BY <1>2 DEF WatchInv
  <2> QED
    BY <1>1, <2>1, <2>2 DEF LookedUp
<1>3. CASE p \in dirty
  <2>1. PICK S : S = {w \in Range(s) : w.cref \notin removed}
    OBVIOUS
  <2>2. t = Among(s, S)
    BY <1>3, <2>1 DEF lookup
  <2>3. t \in Seq(Watchers) /\ Sifted(s, S, Len(s), t)
    BY <1>1, <2>2, AmongSifts
  <2>4. PICK h : Places(s, S, Len(s), t, h)
    BY <2>3 DEF Sifted
  <2>5. /\ \A k \in 1..Len(t) : h[k] \in 1..Len(s) /\ t[k] = s[h[k]] /\ t[k] \in S
        /\ \A k, m \in 1..Len(t) : h[k] = h[m] => k = m
        /\ \A i \in 1..Len(s) : s[i] \in S => \E k \in 1..Len(t) : h[k] = i
    BY <2>4 DEF Places
  <2>6. \A w : w \in Range(s) <=> \E k \in 1..Len(s) : s[k] = w
    BY <1>1, RangeIs
  <2>7. \A w : w \in Range(t) <=> \E k \in 1..Len(t) : t[k] = w
    <3>1. t \in Seq(Watchers)
      BY <2>3
    <3> QED
      BY <3>1, RangeIs
  <2>8. ASSUME NEW w PROVE w \in Range(t) <=> w \in Range(s) /\ w.cref \notin removed
    <3>1. w \in Range(t) => w \in S
      BY <2>5, <2>7
    <3>2. w \in S => w \in Range(t)
      <4> SUFFICES ASSUME w \in S PROVE w \in Range(t)
        OBVIOUS
      <4>1. PICK i \in 1..Len(s) : s[i] = w
        BY <2>1, <2>6
      <4>2. PICK k \in 1..Len(t) : h[k] = i
        BY <2>5, <4>1
      <4> QED
        BY <2>5, <2>7, <4>1, <4>2
    <3> QED
      BY <2>1, <3>1, <3>2
  <2>9. ASSUME Once(s) PROVE Once(t)
    <3>1. \A i, j \in 1..Len(s) : s[i].cref = s[j].cref => i = j
      BY <1>1, <2>9 DEF Once
    <3>2. ASSUME NEW k \in 1..Len(t), NEW m \in 1..Len(t), t[k].cref = t[m].cref
          PROVE  k = m
      <4>1. s[h[k]].cref = s[h[m]].cref
        BY <2>5, <3>2
      <4>2. h[k] = h[m]
        BY <2>5, <3>1, <4>1
      <4> QED
        BY <2>5, <4>2
    <3>3. DOMAIN t = 1..Len(t)
      BY <2>3
    <3> QED
      BY <3>2, <3>3 DEF Once
  <2> QED
    BY <2>3, <2>8, <2>9 DEF LookedUp
<1> QED
  BY <1>2, <1>3

LEMMA WatchPropagate ==
  ASSUME SolverInv, Next, Propagate
  PROVE  WatchInv'
<1>1. /\ TypeOK /\ ClauseInv /\ WatchInv /\ Stays /\ Literals' = Literals
      /\ watches \in [Literals -> Seq(Watchers)]
      /\ trail \in Seq(Literals) /\ qhead \in Nat
  BY FixedStays, Same DEF SolverInv, Stays, TypeOK, TypeLists, TypeTrail
<1>2. PICK p : /\ p = trail[qhead + 1] /\ todo' = lookup(p)
               /\ watches' = [watches EXCEPT ![p] = <<>>] /\ dirty' = dirty \ {p}
  BY DEF Propagate
<1>3. /\ UNCHANGED <<trail, ca, clauses, learnts, removed>> /\ qhead' = qhead + 1
      /\ todo = <<>> /\ qhead < Len(trail)
  BY DEF Propagate, base
<1>4. p \in Literals /\ trail'[qhead'] = p
  <2>1. qhead + 1 \in 1..Len(trail)
    BY <1>1, <1>3
  <2> QED
    BY <1>1, <1>2, <1>3, <2>1
<1>5. LookedUp(watches[p], todo')
  BY <1>1, <1>2, <1>4, LookupFacts
<1>6. watches'[p] = <<>> /\ \A l \in Literals : l # p => watches'[l] = watches[l]
  BY <1>1, <1>2, <1>4
<1>7. Range(watches'[p]) = {} /\ Range(todo) = {}
  BY <1>3, <1>6 DEF Range
<1>8. ASSUME NEW l \in Literals, NEW w \in Range(watches[l]) PROVE Proper(w, l)'
  <2>1. Proper(w, l)
    BY <1>1 DEF WatchInv
  <2>2. Kin(w.cref)
    BY <1>3, <2>1, KinSelf DEF Proper, Refs
  <2> QED
    BY <1>1, <2>1, <2>2, ProperStays
<1>9. ASSUME NEW l \in Literals, NEW w \in Range(watches'[l])
      PROVE  Proper(w, l)' /\ (w.cref \in removed' => l \in dirty')
  <2>1. l # p /\ w \in Range(watches[l])
    BY <1>6, <1>7, <1>9
  <2>2. w.cref \in removed => l \in dirty
    BY <1>1, <2>1 DEF WatchInv
  <2> QED
    BY <1>2, <1>3, <1>8, <2>1, <2>2
<1>10. ASSUME NEW w \in Range(todo')
       PROVE  /\ Proper(w, trail[qhead])' /\ w.cref \notin removed'
              /\ ~ In(w.cref, watches'[p])
  <2>1. w \in Range(watches[p]) /\ w.cref \notin removed
    BY <1>5, <1>10 DEF LookedUp
  <2>2. Proper(w, p)'
    BY <1>4, <1>8, <2>1
  <2> QED
    BY <1>3, <1>4, <1>7, <2>1, <2>2 DEF Proper, In
<1>11. ASSUME NEW l \in Literals PROVE Once(watches'[l])
  <2>1. Once(watches[l]) /\ Once(<<>>)
    BY <1>1 DEF WatchInv, Once
  <2> QED
    BY <1>6, <2>1
<1>12. Once(todo')
  BY <1>1, <1>4, <1>5 DEF LookedUp, WatchInv
<1>13. ASSUME NEW cr \in Live, NEW l \in Literals, Watched(cr, l) PROVE Watched(cr, l)'
  <2>1. In(cr, watches[l])
    BY <1>7, <1>13 DEF Watched, In
  <2>2. CASE l # p
    BY <1>6, <2>1, <2>2 DEF Watched, In
  <2>3. CASE l = p
    <3>1. cr \notin removed
      BY <1>1 DEF ClauseInv
    <3>2. In(cr, todo')
      BY <1>5, <2>1, <2>3, <3>1 DEF LookedUp, In
    <3> QED
      BY <1>4, <2>3, <3>2 DEF Watched, In
  <2> QED
    BY <2>2, <2>3
<1>14. ASSUME NEW cr \in Live' PROVE Watched(cr, -ca[cr][1])' /\ Watched(cr, -ca[cr][2])'
  <2>1. cr \in Live /\ ca'[cr] = ca[cr]
    BY <1>3, <1>14 DEF Live
  <2>2. PICK x, y : x = -ca[cr][1] /\ y = -ca[cr][2]
    OBVIOUS
  <2>3. x \in Literals /\ y \in Literals
    BY <1>1, <2>1, <2>2, ClauseTypes, LitFacts
  <2>4. Watched(cr, x)' /\ Watched(cr, y)'
    BY <1>1, <1>13, <2>1, <2>2, <2>3 DEF WatchInv
  <2> QED
    BY <2>1, <2>2, <2>4 DEF Watched
<1>15. trail'[qhead'] \in Literals' /\ watches'[trail'[qhead']] = watches'[p]
  BY <1>1, <1>4
<1> QED
  BY <1>1, <1>9, <1>10, <1>11, <1>12, <1>14, <1>15 DEF WatchInv, In

(* The visited watcher goes back to the list of p, as u.                   *)
PassedOn(p, u) ==
  /\ \A l \in Literals : l # p => watches'[l] = watches[l]
  /\ \A x : x \in Range(watches'[p]) =>
       x \in Range(watches[p]) \/ x = u \/ x \in Range(todo)
  /\ \A x : x \in Range(todo') => x \in Range(todo) /\ ~ In(x.cref, watches'[p])
  /\ Once(watches'[p]) /\ Once(todo')
  /\ \A cr : In(cr, watches[p]) \/ In(cr, todo) => In(cr, watches'[p]) \/ In(cr, todo')

LEMMA PassOn ==
  ASSUME TypeOK, WatchInv, NEW w, NEW p, NEW c, Visited(w, p, c), todo # <<>>,
         NEW u \in Watchers, u.cref = w.cref, Pass(p, u) \/ PassAll(p, u)
  PROVE  PassedOn(p, u)
<1>1. PICK s, r, h : s = watches[p] /\ r = Tail(todo) /\ h = Append(s, u)
  OBVIOUS
<1>2. /\ s \in Seq(Watchers) /\ todo \in Seq(Watchers) /\ p \in Literals /\ w = todo[1]
      /\ p = trail[qhead] /\ w \in Range(todo) /\ Once(s) /\ Once(todo) /\ ~ In(w.cref, s)
      /\ \A x \in Range(todo) : ~ In(x.cref, s)
      /\ watches \in [Literals -> Seq(Watchers)]
  <2>1. watches \in [Literals -> Seq(Watchers)] /\ todo \in Seq(Watchers)
    BY DEF TypeOK, TypeLists
  <2>2. p \in Literals /\ w = todo[1] /\ p = trail[qhead]
    BY DEF Visited
  <2>3. w \in Range(todo)
    <3>1. 1 \in 1..Len(todo)
      BY <2>1
    <3> QED
      BY <2>1, <2>2, <3>1, RangeIs
  <2> QED
    BY <1>1, <2>1, <2>2, <2>3 DEF WatchInv
<1>3. r \in Seq(Watchers) /\ Beheaded(todo, w, r)
  BY <1>1, <1>2, TailIn
<1>4. h \in Seq(Watchers) /\ Extended(s, u, h)
  BY <1>1, <1>2, AppendIn
<1>5. /\ \A x : x \in Range(todo) <=> x = w \/ x \in Range(r)
      /\ \A cr : In(cr, todo) <=> w.cref = cr \/ In(cr, r)
      /\ Once(r) /\ ~ In(w.cref, r)
  BY <1>2, <1>3 DEF Beheaded
<1>6. /\ \A x : x \in Range(h) <=> x \in Range(s) \/ x = u
      /\ \A cr : In(cr, h) <=> In(cr, s) \/ w.cref = cr
      /\ Once(h)
  BY <1>2, <1>4 DEF Extended
<1>7. ASSUME NEW x \in Range(r) PROVE ~ In(x.cref, h)
  BY <1>2, <1>5, <1>6, <1>7 DEF In
<1>8. CASE Pass(p, u)
  <2>1. /\ watches'[p] = h /\ todo' = r
        /\ \A l \in Literals : l # p => watches'[l] = watches[l]
    BY <1>1, <1>2, <1>8 DEF Pass
  <2> QED
    BY <1>1, <1>5, <1>6, <1>7, <2>1 DEF PassedOn
<1>9. CASE PassAll(p, u)
  <2>1. /\ watches'[p] = h \o r /\ todo' = <<>>
        /\ \A l \in Literals : l # p => watches'[l] = watches[l]
    BY <1>1, <1>2, <1>9 DEF PassAll
  <2>2. PICK t : t = watches'[p]
    OBVIOUS
  <2>3. Followed(h, r, t)
    BY <1>3, <1>4, <2>1, <2>2, JoinedIn
  <2>4. Once(t)
    BY <1>5, <1>6, <1>7, <2>3 DEF Followed
  <2>5. Range(todo') = {} /\ Once(todo')
    BY <2>1 DEF Range, Once
  <2>6. \A x : x \in Range(t) => x \in Range(s) \/ x = u \/ x \in Range(todo)
    BY <1>5, <1>6, <2>3 DEF Followed
  <2>7. \A cr : In(cr, s) \/ In(cr, todo) => In(cr, t)
    BY <1>5, <1>6, <2>3 DEF Followed
  <2> QED
    BY <1>1, <2>1, <2>2, <2>4, <2>5, <2>6, <2>7 DEF PassedOn
<1> QED
  BY <1>8, <1>9

LEMMA WatchPassed ==
  ASSUME SolverInv, Next, NEW w, NEW p, NEW c, Visited(w, p, c), todo # <<>>,
         NEW u, u.cref = w.cref, PassedOn(p, u),
         UNCHANGED <<clauses, learnts, removed, dirty>>, todo' # <<>> => trail'[qhead'] = p,
         \A cr \in Refs : Kin(cr),
         u.blocker \in Range(ca'[w.cref]) \/ Fixed(-u.blocker)'
  PROVE  WatchInv'
<1>1. /\ TypeOK /\ ClauseInv /\ WatchInv /\ Stays /\ Literals' = Literals
      /\ watches \in [Literals -> Seq(Watchers)]
  BY FixedStays, Same DEF SolverInv, Stays, TypeOK, TypeLists
<1>2. /\ p = trail[qhead] /\ p \in Literals /\ w = todo[1] /\ w.cref \in Live /\ w.cref \in Refs
  BY DEF Visited
<1>3. ASSUME NEW x, NEW l, Proper(x, l) PROVE Proper(x, l)'
  <2>1. Kin(x.cref)
    BY <1>3 DEF Proper
  <2> QED
    BY <1>1, <1>3, <2>1, ProperStays
<1>4. w \in Range(todo)
  <2>1. todo \in Seq(Watchers)
    BY <1>1 DEF TypeOK, TypeLists
  <2>2. 1 \in 1..Len(todo)
    BY <2>1
  <2> QED
    BY <1>2, <2>1, <2>2, RangeIs
<1>5. Proper(u, p)'
  <2>1. Proper(w, p)'
    BY <1>1, <1>2, <1>3, <1>4 DEF WatchInv
  <2> QED
    BY <2>1 DEF Proper
<1>6. w.cref \notin removed
  BY <1>1, <1>2 DEF ClauseInv
<1>7. ASSUME NEW l \in Literals, NEW x \in Range(watches'[l])
      PROVE  Proper(x, l)' /\ (x.cref \in removed' => l \in dirty')
  <2>1. CASE x \in Range(watches[l])
    BY <1>1, <1>3, <2>1 DEF WatchInv
  <2>2. CASE l = p /\ x = u
    BY <1>5, <1>6, <2>2
  <2>3. CASE l = p /\ x \in Range(todo)
    BY <1>1, <1>2, <1>3, <2>3 DEF WatchInv
  <2> QED
    BY <1>7, <2>1, <2>2, <2>3 DEF PassedOn
<1>8. ASSUME NEW x \in Range(todo')
      PROVE  /\ Proper(x, trail[qhead])' /\ x.cref \notin removed'
             /\ ~ In(x.cref, watches'[p])
  <2>1. x \in Range(todo) /\ ~ In(x.cref, watches'[p])
    BY <1>8 DEF PassedOn
  <2>2. Proper(x, p)'
    BY <1>1, <1>2, <1>3, <2>1 DEF WatchInv
  <2>3. x.cref \notin removed
    BY <1>1, <2>1 DEF WatchInv
  <2>4. trail'[qhead'] = p
    BY <1>8 DEF Range
  <2> QED
    BY <2>1, <2>2, <2>3, <2>4 DEF Proper
<1>9. ASSUME NEW l \in Literals PROVE Once(watches'[l])
  BY <1>1 DEF WatchInv, PassedOn
<1>10. Once(todo')
  BY DEF PassedOn
<1>11. ASSUME NEW cr, NEW l \in Literals, Watched(cr, l) PROVE Watched(cr, l)'
  <2>1. CASE l # p
    <3>1. In(cr, watches[l])
      BY <1>2, <1>11, <2>1 DEF Watched
    <3> QED
      BY <2>1, <3>1 DEF PassedOn, Watched, In
  <2>2. CASE l = p
    <3>1. In(cr, watches[p]) \/ In(cr, todo)
      BY <1>11, <2>2 DEF Watched
    <3>2. In(cr, watches'[p]) \/ In(cr, todo')
      BY <3>1 DEF PassedOn
    <3>3. In(cr, todo') => trail'[qhead'] = p
      BY DEF In, Range
    <3> QED
      BY <2>2, <3>2, <3>3 DEF Watched, In
  <2> QED
    BY <2>1, <2>2
<1>12. ASSUME NEW cr \in Live' PROVE Watched(cr, -ca[cr][1])' /\ Watched(cr, -ca[cr][2])'
  <2>1. cr \in Live /\ cr \in Refs
    BY <1>1, <1>12 DEF Live, ClauseInv
  <2>2. PICK x, y : x = -ca[cr][1] /\ y = -ca[cr][2]
    OBVIOUS
  <2>3. x \in Literals /\ y \in Literals
    BY <1>1, <2>1, <2>2, ClauseTypes, LitFacts
  <2>4. Watched(cr, x)' /\ Watched(cr, y)'
    BY <1>1, <1>11, <2>1, <2>2, <2>3 DEF WatchInv
  <2>5. \/ -ca'[cr][1] = x /\ -ca'[cr][2] = y
        \/ -ca'[cr][1] = y /\ -ca'[cr][2] = x
    BY <2>1, <2>2 DEF Kin
  <2> QED
    BY <2>4, <2>5 DEF Watched
<1>13. \A x \in Range(todo') : trail'[qhead'] = p
  BY DEF Range
<1> QED
  BY <1>1, <1>7, <1>8, <1>9, <1>10, <1>12, <1>13 DEF WatchInv, In

LEMMA VisitKin ==
  ASSUME TypeOK, ClauseInv, NEW w, NEW p, NEW c, Visited(w, p, c), Reordered(w.cref, c)
  PROVE  (\A cr \in Refs : Kin(cr)) /\ c[1] \in Range(ca'[w.cref])
<1>1. w.cref \in Refs /\ c \in Seq(Literals) /\ Len(c) > 1 /\ ca'[w.cref] = c
  BY DEF Visited, Permuted, Reordered
<1>2. Kin(w.cref)
  BY <1>1 DEF Visited, Permuted, Reordered, Kin
<1>3. ASSUME NEW cr \in Refs, cr # w.cref PROVE Kin(cr)
  BY <1>3, KinSelf DEF Reordered
<1>4. c[1] \in Range(c)
  <2>1. 1 \in 1..Len(c)
    BY <1>1
  <2> QED
    BY <1>1, <2>1, RangeIs
<1> QED
  BY <1>1, <1>2, <1>3, <1>4

LEMMA WatchMoved ==
  ASSUME SolverInv, Next, NEW w, NEW p, NEW c, Visited(w, p, c), todo # <<>>,
         NEW k, NEW d, NEW u \in Watchers, u = [cref |-> w.cref, blocker |-> c[1]],
         Reordered(w.cref, d), Moved(w, c, k, d, u), todo' = Tail(todo),
         UNCHANGED <<clauses, learnts, removed, dirty, trail, qhead>>
  PROVE  WatchInv'
<1>1. /\ TypeOK /\ ClauseInv /\ WatchInv /\ Stays /\ Literals' = Literals
      /\ watches \in [Literals -> Seq(Watchers)] /\ todo \in Seq(Watchers)
  BY FixedStays, Same DEF SolverInv, Stays, TypeOK, TypeLists
<1>2. PICK cr, q, f : cr = w.cref /\ q = -c[k] /\ f = -c[1]
  OBVIOUS
<1>3. /\ p = trail[qhead] /\ p \in Literals /\ w = todo[1] /\ cr \in Live /\ cr \in Refs
      /\ c[2] = -p /\ Permuted(ca[cr], c) /\ Len(c) > 1
      /\ \/ c[1] = ca[cr][1] /\ c[2] = ca[cr][2]
         \/ c[2] = ca[cr][1] /\ c[1] = ca[cr][2]
  BY <1>2 DEF Visited
<1>4. /\ c \in Seq(Literals) /\ Alone(c) /\ \A l : l \in Range(c) <=> l \in Range(ca[cr])
  BY <1>3 DEF Permuted
<1>5. /\ k \in 3..Len(c) /\ c[k] \in Literals /\ q \in Literals
      /\ d[1] = c[1] /\ d[2] = c[k] /\ d \in Seq(Literals)
      /\ \A l : l \in Range(d) <=> l \in Range(ca[cr])
      /\ watches' = [watches EXCEPT ![q] = Append(@, u)]
  BY <1>2 DEF Moved, Found, Permuted
<1>6. /\ c[1] \in Literals /\ f \in Literals /\ f = -c[1] /\ q = -c[k] /\ p = -c[2]
      /\ c[k] # c[1] /\ c[k] # c[2] /\ c[1] # c[2] /\ q # p /\ q # f /\ f # p
  <2>1. 1 \in 1..Len(c) /\ 2 \in 1..Len(c) /\ k \in 1..Len(c) /\ k # 1 /\ k # 2
    BY <1>3, <1>4, <1>5
  <2>2. c[k] # c[1] /\ c[k] # c[2] /\ c[1] # c[2]
    BY <1>4, <2>1 DEF Alone
  <2>3. c[1] \in Literals /\ c[2] \in Literals
    BY <1>4, <2>1
  <2> QED
    <3>1. PICK x, y, z : x = c[1] /\ y = c[2] /\ z = c[k]
      OBVIOUS
    <3>2. x \in Int /\ y \in Int /\ z \in Int /\ p \in Int /\ -x \in Literals
      BY <1>1, <1>3, <1>5, <2>3, <3>1, LitFacts
    <3>3. y = -p /\ q = -z /\ f = -x /\ x # y /\ x # z /\ y # z
      BY <1>2, <1>3, <2>2, <3>1
    <3>4. p = -y /\ q # p /\ q # f /\ f # p
      BY <3>2, <3>3
    <3> QED
      BY <2>2, <2>3, <3>1, <3>2, <3>3, <3>4
<1>7. ca'[cr] = d /\ Refs' = Refs /\ \A r \in Refs : r # cr => ca'[r] = ca[r]
  BY <1>2 DEF Reordered
<1>8. u.cref = cr /\ u.blocker = c[1]
  BY <1>2
<1>9. w \in Range(todo)
  <2>1. 1 \in 1..Len(todo)
    BY <1>1
  <2> QED
    BY <1>1, <1>3, <2>1, RangeIs
<1>10. cr \notin removed /\ ~ In(cr, watches[p])
  BY <1>1, <1>2, <1>3, <1>9 DEF ClauseInv, WatchInv
<1>11. ~ In(cr, watches[q])
  <2> SUFFICES ASSUME NEW x \in Range(watches[q]), x.cref = cr PROVE FALSE
    BY DEF In
  <2>1. Proper(x, q)
    BY <1>1, <1>5 DEF WatchInv
  <2>2. q = -c[1] \/ q = -c[2]
    BY <1>3, <2>1 DEF Proper
  <2> QED
    BY <1>6, <2>2
<1>12. Extended(watches[q], u, watches'[q]) /\ \A l \in Literals : l # q => watches'[l] = watches[l]
  <2>1. watches'[q] = Append(watches[q], u)
    BY <1>1, <1>5
  <2> QED
    BY <1>1, <1>5, <2>1, AppendIn
<1>13. Beheaded(todo, w, todo')
  BY <1>1, <1>3, TailIn
<1>14. ASSUME NEW x, NEW l, Proper(x, l), x.cref # cr PROVE Proper(x, l)'
  <2>1. Kin(x.cref)
    BY <1>7, <1>14, KinSelf DEF Proper
  <2> QED
    BY <1>1, <1>14, <2>1, ProperStays
<1>15. ASSUME NEW l \in Literals, NEW x \in Range(watches[l]), x.cref = cr
       PROVE  Proper(x, l)'
  <2>1. Proper(x, l)
    BY <1>1 DEF WatchInv
  <2>2. l # p
    BY <1>10, <1>15 DEF In
  <2>3. l = f
    BY <1>3, <1>6, <1>15, <2>1, <2>2 DEF Proper
  <2>4. l = -ca'[x.cref][1] /\ x.cref \in Refs'
    BY <1>3, <1>5, <1>6, <1>7, <1>15, <2>3
  <2>5. x.blocker \in Range(ca'[x.cref]) \/ Fixed(-x.blocker)'
    BY <1>1, <1>5, <1>7, <1>15, <2>1 DEF Proper, Stays
  <2> QED
    BY <2>4, <2>5 DEF Proper
<1>16. Proper(u, q)'
  <2>1. c[1] \in Range(ca[cr])
    <3>1. 1 \in 1..Len(c)
      BY <1>3, <1>4
    <3> QED
      BY <1>4, <3>1, RangeIs
  <2>2. u.blocker \in Range(ca'[cr])
    BY <1>5, <1>7, <1>8, <2>1
  <2>3. q = -ca'[cr][2]
    BY <1>5, <1>6, <1>7
  <2> QED
    BY <1>3, <1>7, <1>8, <2>2, <2>3 DEF Proper
<1>17. ASSUME NEW l \in Literals, NEW x \in Range(watches'[l])
       PROVE  Proper(x, l)' /\ (x.cref \in removed' => l \in dirty')
  <2>1. CASE x \in Range(watches[l])
    <3>1. Proper(x, l) /\ (x.cref \in removed => l \in dirty)
      BY <1>1, <2>1 DEF WatchInv
    <3> QED
      BY <1>14, <1>15, <2>1, <3>1
  <2>2. CASE l = q /\ x = u
    BY <1>8, <1>10, <1>16, <2>2
  <2> QED
    BY <1>12, <1>17, <2>1, <2>2 DEF Extended
<1>18. ASSUME NEW x \in Range(todo')
       PROVE  /\ Proper(x, trail[qhead])' /\ x.cref \notin removed'
              /\ ~ In(x.cref, watches'[p])
  <2>1. x \in Range(todo) /\ ~ In(cr, todo')
    BY <1>1, <1>2, <1>13, <1>18 DEF Beheaded, WatchInv
  <2>2. x.cref # cr
    BY <1>18, <2>1 DEF In
  <2>3. Proper(x, p) /\ x.cref \notin removed /\ ~ In(x.cref, watches[p])
    BY <1>1, <1>3, <2>1 DEF WatchInv
  <2>4. Proper(x, p)'
    BY <1>14, <2>2, <2>3
  <2>5. watches'[p] = watches[p]
    BY <1>3, <1>6, <1>12
  <2> QED
    BY <1>3, <2>3, <2>4, <2>5 DEF Proper
<1>19. ASSUME NEW l \in Literals PROVE Once(watches'[l])
  BY <1>1, <1>8, <1>11, <1>12 DEF WatchInv, Extended
<1>20. Once(todo')
  BY <1>1, <1>13 DEF WatchInv, Beheaded
<1>21. ASSUME NEW r, NEW l \in Literals, Watched(r, l), r # cr \/ l # p PROVE Watched(r, l)'
  <2>1. CASE In(r, watches[l])
    <3>1. In(r, watches'[l])
      BY <1>12, <2>1 DEF Extended
    <3> QED
      BY <3>1 DEF Watched, In
  <2>2. CASE In(r, todo) /\ l = p
    <3>1. In(r, todo')
      BY <1>2, <1>13, <1>21, <2>2 DEF Beheaded
    <3> QED
      BY <1>3, <2>2, <3>1 DEF Watched, In
  <2> QED
    BY <1>3, <1>21, <2>1, <2>2 DEF Watched
<1>22. Watched(cr, q)'
  <2>1. In(cr, watches'[q])
    BY <1>8, <1>12 DEF Extended
  <2> QED
    BY <2>1 DEF Watched, In
<1>23. ASSUME NEW r \in Live' PROVE Watched(r, -ca[r][1])' /\ Watched(r, -ca[r][2])'
  <2>1. r \in Live /\ r \in Refs
    BY <1>1, <1>23 DEF Live, ClauseInv
  <2>2. PICK x, y : x = -ca[r][1] /\ y = -ca[r][2]
    OBVIOUS
  <2>3. x \in Literals /\ y \in Literals
    BY <1>1, <2>1, <2>2, ClauseTypes, LitFacts
  <2>4. Watched(r, x) /\ Watched(r, y)
    BY <1>1, <2>1, <2>2 DEF WatchInv
  <2>5. CASE r # cr
    <3>1. Watched(r, x)' /\ Watched(r, y)'
      BY <1>21, <2>3, <2>4, <2>5
    <3>2. -ca'[r][1] = x /\ -ca'[r][2] = y
      BY <1>7, <2>1, <2>2, <2>5
    <3> QED
      BY <3>1, <3>2 DEF Watched
  <2>6. CASE r = cr
    <3>1. f = x \/ f = y
      BY <1>3, <1>6, <2>2, <2>6
    <3>2. Watched(cr, f)'
      BY <1>6, <1>21, <2>4, <2>6, <3>1
    <3>3. -ca'[r][1] = f /\ -ca'[r][2] = q
      BY <1>5, <1>6, <1>7, <2>6
    <3> QED
      BY <1>22, <2>6, <3>2, <3>3 DEF Watched
  <2> QED
    BY <2>5, <2>6
<1>24. watches'[trail'[qhead']] = watches'[p]
  BY <1>3
<1> QED
  BY <1>1, <1>17, <1>18, <1>19, <1>20, <1>23, <1>24 DEF WatchInv, In

LEMMA WatchVisit ==
  ASSUME SolverInv, Next, Visit
  PROVE  WatchInv'
<1>1. /\ TypeOK /\ FlowInv /\ TrailInv /\ ClauseInv /\ WatchInv /\ Stays
  BY FixedStays DEF SolverInv, Stays
<1>2. PICK w, p, c : Visited(w, p, c) /\ VisitEffect(w, p, c) /\ todo # <<>>
  BY <1>1, VisitSplit
<1>3. UNCHANGED <<clauses, learnts, removed, dirty>>
  BY DEF Visit
<1>4. w \in Watchers /\ p = trail[qhead] /\ w \in Range(todo) /\ w.cref \in Refs
  <2>1. todo \in Seq(Watchers)
    BY <1>1 DEF TypeOK, TypeLists
  <2>2. w = todo[1] /\ w \in Watchers /\ p = trail[qhead] /\ w.cref \in Refs
    BY <1>2 DEF Visited
  <2>3. 1 \in 1..Len(todo)
    BY <1>2, <2>1
  <2> QED
    BY <2>1, <2>2, <2>3, RangeIs
<1>5. CASE VisitSatisfied(p, w)
  <2>1. Pass(p, w) /\ UNCHANGED <<ca, trail, qhead>>
    BY <1>5 DEF VisitSatisfied, asgn
  <2>2. PassedOn(p, w)
    BY <1>1, <1>2, <1>4, <2>1, PassOn
  <2>3. \A cr \in Refs : Kin(cr)
    BY <2>1, KinSelf DEF Refs
  <2>4. w.blocker \in Range(ca'[w.cref]) \/ Fixed(-w.blocker)'
    BY <1>1, <1>4, <2>1 DEF WatchInv, Proper, Stays
  <2>5. trail'[qhead'] = p
    BY <1>4, <2>1
  <2> QED
    BY <1>2, <1>3, <2>2, <2>3, <2>4, <2>5, WatchPassed
<1>6. ASSUME NEW u \in Watchers, u = [cref |-> w.cref, blocker |-> c[1]],
             Reordered(w.cref, c), Pass(p, u) \/ PassAll(p, u),
             todo' # <<>> => trail'[qhead'] = p
      PROVE  WatchInv'
  <2>1. u.cref = w.cref /\ u.blocker = c[1]
    BY <1>6
  <2>2. PassedOn(p, u)
    BY <1>1, <1>2, <1>6, <2>1, PassOn
  <2>3. (\A cr \in Refs : Kin(cr)) /\ c[1] \in Range(ca'[w.cref])
    BY <1>1, <1>2, <1>6, VisitKin
  <2>4. u.blocker \in Range(ca'[w.cref])
    BY <2>1, <2>3
  <2> QED
    BY <1>2, <1>3, <1>6, <2>1, <2>2, <2>3, <2>4, WatchPassed
<1>7. ASSUME NEW u \in Watchers, u = [cref |-> w.cref, blocker |-> c[1]],
             VisitTrue(p, w.cref, c, u), Reordered(w.cref, c)
      PROVE  WatchInv'
  BY <1>4, <1>6, <1>7 DEF VisitTrue, asgn
<1>8. ASSUME NEW u \in Watchers, u = [cref |-> w.cref, blocker |-> c[1]],
             NEW k, NEW d, todo' = Tail(todo), UNCHANGED <<asgn, confl>>,
             Reordered(w.cref, d), Moved(w, c, k, d, u)
      PROVE  WatchInv'
  <2>1. UNCHANGED <<trail, qhead>>
    BY <1>8 DEF asgn
  <2> QED
    BY <1>2, <1>3, <1>8, <2>1, WatchMoved
<1>9. ASSUME NEW u \in Watchers, u = [cref |-> w.cref, blocker |-> c[1]],
             VisitUnit(p, w.cref, c, u), Reordered(w.cref, c),
             Enqueued(c[1], w.cref, decisionLevel, trail)
      PROVE  WatchInv'
  <2>1. Pass(p, u) /\ qhead' = qhead
    BY <1>9 DEF VisitUnit
  <2>2. qhead \in 1..Len(trail)
    BY <1>1, <1>2, TrailTypes DEF Visited
  <2>3. trail'[qhead'] = p
    BY <1>4, <1>9, <2>1, <2>2 DEF Enqueued
  <2> QED
    BY <1>6, <1>9, <2>1, <2>3
<1>10. ASSUME NEW u \in Watchers, u = [cref |-> w.cref, blocker |-> c[1]],
              VisitFalse(p, w.cref, c, u), Reordered(w.cref, c)
       PROVE  WatchInv'
  BY <1>6, <1>10 DEF VisitFalse, PassAll
<1> QED
  BY <1>2, <1>5, <1>7, <1>8, <1>9, <1>10 DEF VisitEffect

LEMMA WatchStep ==
  ASSUME SolverInv, Next
  PROVE  WatchInv'
<1>1. /\ TypeOK /\ FlowInv /\ TrailInv /\ ClauseInv /\ WatchInv /\ ReasonInv
      /\ AnalyzeInv /\ ModelInv
  BY DEF SolverInv
<1>2. CASE Contradiction \/ EndAdding \/ Analyze \/ Resolve \/ Refuted \/ NoRestart
  <2>1. UNCHANGED <<base, lists, asgn>>
    BY <1>2 DEF Contradiction, EndAdding, Analyze, Resolve, Refuted, NoRestart
  <2> QED
    BY <2>1, WatchFrame DEF base, lists, asgn
<1>3. CASE Restart \/ ModelFound \/ Branch \/ SimplifyNothing
  <2>1. UNCHANGED <<base, watches, dirty, todo>> /\ todo = <<>>
    BY <1>1, <1>3 DEF Restart, ModelFound, Branch, SimplifyNothing, SimplifyDone, lists, FlowInv,
                      Propagated
  <2> QED
    BY <2>1, WatchFrame DEF base
<1>4. CASE AddClause
  <2>1. AddEffect /\ UNCHANGED <<dirty, todo>> /\ todo = <<>>
    BY <1>1, <1>4, AddSplit DEF AddClause, Propagated
  <2>2. ASSUME UNCHANGED <<base, watches>> PROVE WatchInv'
    BY <2>1, <2>2, WatchFrame DEF base
  <2>3. ASSUME NEW c, KeptRight(c), Len(c) > 1, Appended(c), AttachedTo(c, Len(ca) + 1),
               clauses' = clauses \cup {Len(ca) + 1}, UNCHANGED <<learnts, removed>>
        PROVE  WatchInv'
    <3>1. PICK n : n = Len(ca) + 1
      OBVIOUS
    <3>2. c \in Seq(Literals) /\ Alone(c) /\ Live' = Live \cup {n}
      BY <2>3, <3>1 DEF KeptRight, Live
    <3>3. AttachedTo(c, n)
      BY <2>3, <3>1
    <3> QED
      BY <2>1, <2>3, <3>1, <3>2, <3>3, WatchAttached
  <2> QED
    BY <2>1, <2>2, <2>3 DEF AddEffect
<1>5. CASE Learn
  <2>1. PICK c, lv, tr : LearnEffect(c, lv, tr)
    BY <1>1, <1>5, LearnSplit
  <2>2. UNCHANGED <<clauses, removed, dirty, todo>> /\ todo = <<>>
    BY <1>1, <1>5 DEF Learn, FlowInv
  <2>3. ASSUME UNCHANGED <<ca, learnts, watches>> PROVE WatchInv'
    BY <2>2, <2>3, WatchFrame
  <2>4. ASSUME Len(c) > 1, Appended(c), AttachedTo(c, Len(ca) + 1),
               learnts' = learnts \cup {Len(ca) + 1}
        PROVE  WatchInv'
    <3>1. PICK n : n = Len(ca) + 1
      OBVIOUS
    <3>2. c \in Seq(Literals) /\ Alone(c) /\ Live' = Live \cup {n}
      BY <2>1, <2>2, <2>4, <3>1 DEF LearnEffect, LearntRight, Live
    <3>3. AttachedTo(c, n)
      BY <2>4, <3>1
    <3> QED
      BY <2>2, <2>4, <3>1, <3>2, <3>3, WatchAttached
  <2> QED
    BY <2>1, <2>3, <2>4 DEF LearnEffect
<1> QED
  BY <1>2, <1>3, <1>4, <1>5, WatchVisit, WatchPropagate, WatchSimplify, WatchReduce DEF Next

-----------------------------------------------------------------------------
(* The reason of the literal at i, and what it depends on in a step.       *)
Reasoned(i) ==
  IF reason[Var(trail[i])] = CRef_Undef THEN Lv(i) = 0 \/ trail_lim[Lv(i)] = i - 1
  ELSE Justified(i, reason[Var(trail[i])])

Carried(i) ==
  /\ i \in DOMAIN trail /\ i \in DOMAIN trail'
  /\ \A j \in 1..i : j \in DOMAIN trail /\ trail'[j] = trail[j] /\ level'[Var(trail[j])] = Lv(j)
  /\ Lv(i) > 0 => trail_lim'[Lv(i)] = trail_lim[Lv(i)]

LEMMA ReasonCarried ==
  ASSUME TypeOK, ClauseInv, ReasonInv, NEW i, Carried(i), NEW r, r = reason[Var(trail[i])],
         reason'[Var(trail[i])] = r,
         r # CRef_Undef => r \in Live' /\ ca'[r] = ca[r]
  PROVE  Reasoned(i)'
<1>1. /\ i \in DOMAIN trail /\ trail'[i] = trail[i] /\ Lv(i)' = Lv(i)
      /\ Lv(i) \in Nat /\ i \in Nat
  <2>1. i \in DOMAIN trail /\ \A j \in 1..i : trail'[j] = trail[j] /\ level'[Var(trail[j])] = Lv(j)
    BY DEF Carried
  <2>2. i \in Nat /\ i \in 1..i /\ Lv(i) \in Nat
    BY <2>1, TrailTypes
  <2>3. trail'[i] = trail[i] /\ level'[Var(trail[i])] = Lv(i)
    BY <2>1, <2>2
  <2> QED
    BY <2>1, <2>2, <2>3 DEF Lv
<1>2. CASE r = CRef_Undef
  <2>1. Lv(i) = 0 \/ trail_lim[Lv(i)] = i - 1
    BY <1>1, <1>2 DEF ReasonInv
  <2>2. Lv(i) = 0 \/ trail_lim'[Lv(i)] = i - 1
    BY <1>1, <2>1 DEF Carried
  <2> QED
    BY <1>1, <1>2, <2>2 DEF Reasoned
<1>3. CASE r # CRef_Undef
  <2>1. Justified(i, r)
    BY <1>1, <1>3 DEF ReasonInv
  <2>2. PICK c : c = ca[r]
    OBVIOUS
  <2>3. /\ r \in Live' /\ ca'[r] = c /\ c[1] = trail[i]
        /\ \A k \in 2..Len(c) : Before(c[k], i)
        /\ \E k \in 2..Len(c) : level[Var(c[k])] = Lv(i)
    BY <1>3, <2>1, <2>2 DEF Justified
  <2>4. c \in Seq(Literals)
    BY <2>1, <2>2, ClauseTypes DEF Justified
  <2>5. ASSUME NEW k \in 2..Len(c)
        PROVE  Before(c[k], i)' /\ level'[Var(c[k])] = level[Var(c[k])]
    <3>1. PICK j \in 1..i - 1 : trail[j] = -c[k]
      BY <2>3 DEF Before
    <3>2. j \in 1..i
      BY <1>1
    <3>3. trail'[j] = -c[k] /\ level'[Var(trail[j])] = level[Var(trail[j])]
      BY <3>1, <3>2 DEF Carried, Lv
    <3>4. c[k] \in Literals
      BY <2>4
    <3>5. Var(trail[j]) = Var(c[k])
      BY <3>1, <3>4, LitFacts
    <3> QED
      BY <3>3, <3>5 DEF Before
  <2>6. Justified(i, r)'
    BY <1>1, <2>3, <2>5 DEF Justified
  <2> QED
    BY <1>1, <1>3, <2>6 DEF Reasoned
<1> QED
  BY <1>2, <1>3

LEMMA CarriedSame ==
  ASSUME TypeOK, UNCHANGED <<trail, trail_lim, level>>, NEW i \in DOMAIN trail
  PROVE  Carried(i)
<1>1. \A j \in 1..i : j \in DOMAIN trail
  BY TrailTypes
<1> QED
  BY <1>1 DEF Carried, Lv

LEMMA CarriedGrown ==
  ASSUME TypeOK, NEW p, NEW from, NEW lv, NEW tr, Below(lv, tr), Grown(p, from, lv, tr),
         NEW i \in 1..Len(tr)
  PROVE  Carried(i) /\ reason'[Var(trail[i])] = reason[Var(trail[i])]
<1>1. Len(tr) \in Nat /\ \A j \in 1..i : j \in 1..Len(tr)
  BY DEF Below
<1>2. \A j \in 1..i : j \in DOMAIN trail /\ trail'[j] = trail[j] /\ level'[Var(trail[j])] = Lv(j)
  <2> SUFFICES ASSUME NEW j \in 1..i
               PROVE  j \in DOMAIN trail /\ trail'[j] = trail[j] /\ level'[Var(trail[j])] = Lv(j)
    OBVIOUS
  <2>1. j \in 1..Len(tr)
    BY <1>1
  <2>2. j \in DOMAIN trail /\ trail'[j] = trail[j] /\ level'[Var(trail'[j])] = Lv(j)
    BY <2>1 DEF Grown
  <2> QED
    BY <2>2
<1>3. i \in DOMAIN trail /\ i \in DOMAIN trail' /\ trail'[i] = trail[i]
      /\ reason'[Var(trail'[i])] = reason[Var(trail[i])]
  BY DEF Grown
<1>4. Lv(i) > 0 => Lv(i) \in 1..lv
  <2>1. Lv(i) \in Nat /\ Lv(i) <= lv /\ lv \in Nat
    BY <1>3, TrailTypes DEF Below
  <2> QED
    BY <2>1
<1>5. Lv(i) > 0 => trail_lim'[Lv(i)] = trail_lim[Lv(i)]
  BY <1>4 DEF Below
<1> QED
  BY <1>2, <1>3, <1>5 DEF Carried

LEMMA CarriedCut ==
  ASSUME TypeOK, NEW tr, Cut(0, tr), trail' = tr, level' = level, NEW i \in 1..Len(tr)
  PROVE  Carried(i)
<1>1. Len(tr) \in Nat /\ DOMAIN tr = 1..Len(tr) /\ \A j \in 1..i : j \in 1..Len(tr)
  BY DEF Cut
<1>2. \A j \in 1..i : j \in DOMAIN trail /\ trail'[j] = trail[j] /\ level'[Var(trail[j])] = Lv(j)
  BY <1>1 DEF Cut, Lv
<1>3. i \in DOMAIN trail /\ i \in DOMAIN trail' /\ Lv(i) <= 0
  BY <1>1 DEF Cut
<1>4. ~ (Lv(i) > 0)
  BY <1>3, TrailTypes
<1> QED
  BY <1>2, <1>3, <1>4 DEF Carried

LEMMA CarriedBranch ==
  ASSUME TypeOK, TrailInv, NEW p, NEW n, NEW tr, n = decisionLevel + 1, tr = trail,
         Grown(p, CRef_Undef, n, tr), trail_lim' = Append(trail_lim, Len(trail)),
         NEW i \in 1..Len(tr)
  PROVE  Carried(i) /\ reason'[Var(trail[i])] = reason[Var(trail[i])]
<1>1. Len(tr) \in Nat /\ \A j \in 1..i : j \in 1..Len(tr)
  BY DEF Grown
<1>2. \A j \in 1..i : j \in DOMAIN trail /\ trail'[j] = trail[j] /\ level'[Var(trail[j])] = Lv(j)
  <2> SUFFICES ASSUME NEW j \in 1..i
               PROVE  j \in DOMAIN trail /\ trail'[j] = trail[j] /\ level'[Var(trail[j])] = Lv(j)
    OBVIOUS
  <2>1. j \in 1..Len(tr)
    BY <1>1
  <2>2. j \in DOMAIN trail /\ trail'[j] = trail[j] /\ level'[Var(trail'[j])] = Lv(j)
    BY <2>1 DEF Grown
  <2> QED
    BY <2>2
<1>3. i \in DOMAIN trail /\ i \in DOMAIN trail' /\ trail'[i] = trail[i]
      /\ reason'[Var(trail'[i])] = reason[Var(trail[i])]
  BY DEF Grown
<1>4. Lv(i) \in Nat /\ Lv(i) <= decisionLevel /\ decisionLevel = Len(trail_lim)
      /\ trail_lim \in Seq(Nat) /\ Len(trail) \in Nat
  BY <1>3, TrailTypes DEF TrailInv
<1>5. Lv(i) > 0 => trail_lim'[Lv(i)] = trail_lim[Lv(i)]
  <2>1. PICK v : v = Lv(i)
    OBVIOUS
  <2>2. v > 0 => v \in 1..Len(trail_lim)
    BY <1>4, <2>1
  <2>3. v > 0 => trail_lim'[v] = trail_lim[v]
    BY <1>4, <2>2
  <2> QED
    BY <2>1, <2>3
<1> QED
  BY <1>2, <1>3, <1>5 DEF Carried

(* A visit changes no clause whose first literal is true.                  *)
LEMMA VisitKeeps ==
  ASSUME TypeOK, TrailInv, ClauseInv, NEW w, NEW p, NEW c, Visited(w, p, c), VisitEffect(w, p, c),
         NEW r \in Refs, IsTrue(ca[r][1])
  PROVE  ca'[r] = ca[r]
<1>1. CASE VisitSatisfied(p, w)
  BY <1>1 DEF VisitSatisfied
<1>2. CASE ~ VisitSatisfied(p, w) /\ r # w.cref
  BY <1>2 DEF VisitEffect, Reordered
<1>3. CASE ~ VisitSatisfied(p, w) /\ r = w.cref
  <2>1. c = ca[r] \/ (c = Swap(ca[r], 1, 2) /\ ca[r][1] = -p)
    BY <1>3 DEF Visited
  <2>2. ca[r][1] # -p
    <3>1. IsFalse(-p) /\ -p \in Literals
      BY LitFacts DEF Visited
    <3> QED
      BY <3>1, NeverBoth
  <2>3. c = ca[r]
    BY <2>1, <2>2
  <2>4. c[1] \in Literals /\ IsTrue(c[1]) /\ ~ IsFalse(c[1])
    <3>1. c[1] \in Literals
      BY <2>3, ClauseTypes
    <3> QED
      BY <2>3, <3>1, NeverBoth
  <2>5. ca'[r] = c
    BY <1>3, <2>4 DEF VisitEffect, VisitUnit, VisitFalse, Reordered
  <2> QED
    BY <2>3, <2>5
<1> QED
  BY <1>1, <1>2, <1>3

(* The reason of a literal is a clause that it satisfies.                  *)
LEMMA ReasonIs ==
  ASSUME TypeOK, ClauseInv, ReasonInv, NEW i \in DOMAIN trail, NEW r,
         r = reason[Var(trail[i])], r # CRef_Undef
  PROVE  /\ Justified(i, r) /\ r \in Live /\ r \in Refs /\ ca[r][1] = trail[i]
         /\ IsTrue(ca[r][1]) /\ Satisfied(r) /\ Locked(r)
<1>1. Justified(i, r) /\ r \in Live /\ r \in Refs /\ ca[r][1] = trail[i]
  BY ClauseTypes DEF ReasonInv, Justified
<1>2. IsTrue(trail[i])
  BY OnTrail
<1>3. ca[r][1] \in Range(ca[r])
  <2>1. ca[r] \in Seq(Literals) /\ Len(ca[r]) > 1
    BY <1>1, ClauseTypes
  <2>2. PICK c : c = ca[r]
    OBVIOUS
  <2>3. 1 \in 1..Len(c) /\ c \in Seq(Literals)
    BY <2>1, <2>2
  <2>4. c[1] \in Range(c)
    BY <2>3, RangeIs
  <2> QED
    BY <2>2, <2>4
<1> QED
  BY <1>1, <1>2, <1>3 DEF Satisfied, Locked

LEMMA ReasonSimplify ==
  ASSUME SolverInv, Simplify
  PROVE  ReasonInv'
<1>1. /\ TypeOK /\ FlowInv /\ TrailInv /\ ClauseInv /\ ReasonInv
      /\ pc \in {"presolve", "simplify"}
  BY DEF SolverInv, Simplify
<1>2. PICK S : SimplifyEffect(S)
  BY <1>1, SimplifySplit
<1>3. UNCHANGED <<trail, trail_lim, level>> /\ decisionLevel = 0
  BY <1>1 DEF Simplify, SimplifyDone, FlowInv
<1>4. ASSUME NEW i \in DOMAIN trail' PROVE Reasoned(i)'
  <2>1. i \in DOMAIN trail /\ Var(trail[i]) \in Vars /\ Lv(i) = 0
    <3>1. i \in DOMAIN trail
      BY <1>3, <1>4
    <3>2. Lv(i) \in Nat /\ Lv(i) <= 0 /\ Var(trail[i]) \in Vars
      BY <1>1, <1>3, <3>1, TrailTypes DEF TrailInv
    <3> QED
      BY <3>1, <3>2
  <2>2. PICK v : v = Var(trail[i])
    OBVIOUS
  <2>3. reason'[v] = CRef_Undef
    <3>1. reason' = [x \in Vars |-> IF \E cr \in S : Locked(cr) /\ Var(ca[cr][1]) = x
                                    THEN CRef_Undef ELSE reason[x]]
      BY <1>2 DEF SimplifyEffect, removeClauses
    <3>2. CASE reason[v] = CRef_Undef
      BY <2>1, <2>2, <3>1, <3>2
    <3>3. CASE reason[v] # CRef_Undef
      <4>1. PICK r : r = reason[v]
        OBVIOUS
      <4>2. r \in Live /\ Satisfied(r) /\ Locked(r) /\ ca[r][1] = trail[i]
        BY <1>1, <2>1, <2>2, <3>3, <4>1, ReasonIs
      <4>3. r \in S
        BY <1>2, <4>2 DEF SimplifyEffect
      <4> QED
        BY <2>1, <2>2, <3>1, <4>2, <4>3
    <3> QED
      BY <3>2, <3>3
  <2>4. Lv(i)' = 0
    BY <1>3, <2>1 DEF Lv
  <2> QED
    BY <1>3, <2>2, <2>3, <2>4 DEF Reasoned
<1> QED
  BY <1>4 DEF ReasonInv, Reasoned

LEMMA ReasonReduce ==
  ASSUME SolverInv, Reduce
  PROVE  ReasonInv'
<1>1. TypeOK /\ ClauseInv /\ ReasonInv
  BY DEF SolverInv
<1>2. PICK R \in SUBSET Droppable : removeClauses(R) /\ learnts' = learnts \ R
  BY DEF Reduce
<1>3. UNCHANGED <<trail, trail_lim, level, ca, clauses>>
  BY DEF Reduce
<1>4. \A cr \in R : ~ Locked(cr)
  BY <1>2 DEF Droppable
<1>5. ASSUME NEW i \in DOMAIN trail' PROVE Reasoned(i)'
  <2>1. i \in DOMAIN trail /\ Carried(i)
    BY <1>1, <1>3, <1>5, CarriedSame
  <2>2. PICK v, r : v = Var(trail[i]) /\ r = reason[v]
    OBVIOUS
  <2>3. v \in Vars
    BY <1>1, <2>1, <2>2, TrailTypes
  <2>4. reason'[v] = r
    BY <1>2, <1>4, <2>2, <2>3 DEF removeClauses
  <2>5. r # CRef_Undef => r \in Live' /\ ca'[r] = ca[r]
    <3> SUFFICES ASSUME r # CRef_Undef PROVE r \in Live' /\ ca'[r] = ca[r]
      OBVIOUS
    <3>1. r \in Live /\ Locked(r)
      BY <1>1, <2>1, <2>2, ReasonIs
    <3>2. r \notin R
      BY <1>4, <3>1
    <3> QED
      BY <1>2, <1>3, <3>1, <3>2 DEF Live
  <2> QED
    BY <1>1, <2>1, <2>2, <2>4, <2>5, ReasonCarried
<1> QED
  BY <1>5 DEF ReasonInv, Reasoned

KeepsReasons == \A r \in Live : r \in Live' /\ (IsTrue(ca[r][1]) => ca'[r] = ca[r])

LEMMA ReasonKept ==
  ASSUME TypeOK, ClauseInv, ReasonInv, KeepsReasons, NEW i, Carried(i),
         reason'[Var(trail[i])] = reason[Var(trail[i])]
  PROVE  Reasoned(i)'
<1>1. PICK r : r = reason[Var(trail[i])]
  OBVIOUS
<1>2. i \in DOMAIN trail
  BY DEF Carried
<1>3. r # CRef_Undef => r \in Live' /\ ca'[r] = ca[r]
  BY <1>1, <1>2, ReasonIs DEF KeepsReasons
<1> QED
  BY <1>1, <1>3, ReasonCarried

LEMMA ReasonSame ==
  ASSUME TypeOK, ClauseInv, ReasonInv, KeepsReasons, UNCHANGED <<trail, trail_lim, level, reason>>
  PROVE  ReasonInv'
<1>1. ASSUME NEW i \in DOMAIN trail' PROVE Reasoned(i)'
  BY <1>1, CarriedSame, ReasonKept
<1> QED
  BY <1>1 DEF ReasonInv, Reasoned

LEMMA ReasonGrown ==
  ASSUME TypeOK, ClauseInv, ReasonInv, KeepsReasons,
         NEW p, NEW from, NEW lv, NEW tr, Below(lv, tr), Grown(p, from, lv, tr),
         NEW n, n = Len(tr) + 1, Reasoned(n)'
  PROVE  ReasonInv'
<1>1. \A i \in DOMAIN trail' : i \in 1..Len(tr) \/ i = n
  BY DEF Grown
<1>2. ASSUME NEW i \in 1..Len(tr) PROVE Reasoned(i)'
  BY CarriedGrown, ReasonKept
<1> QED
  BY <1>1, <1>2 DEF ReasonInv, Reasoned

(* A unit clause, or a clause that the literals on tr leave one literal.   *)
LEMMA ReasonUnit ==
  ASSUME NEW p, NEW tr, Grown(p, CRef_Undef, 0, tr), NEW n, n = Len(tr) + 1
  PROVE  Reasoned(n)'
BY DEF Grown, Reasoned, Lv

LEMMA ReasonNew ==
  ASSUME TypeOK, NEW p, NEW r, NEW lv, NEW tr, Below(lv, tr), Grown(p, r, lv, tr),
         r # CRef_Undef, r \in Live', NEW c \in Seq(Literals), ca'[r] = c, c[1] = p,
         Len(c) > 1, level[Var(c[2])] = lv,
         \A k \in 2..Len(c) : IsFalse(c[k]) /\ level[Var(c[k])] <= lv,
         NEW n, n = Len(tr) + 1
  PROVE  Reasoned(n)'
<1>1. /\ trail'[n] = p /\ level'[Var(p)] = lv /\ reason'[Var(p)] = r /\ Len(tr) \in Nat
  BY DEF Grown
<1>2. ASSUME NEW k \in 2..Len(c)
      PROVE  Before(c[k], n)' /\ level'[Var(c[k])] = level[Var(c[k])]
  <2>1. PICK j \in DOMAIN trail : trail[j] = -c[k]
    BY OnTrail
  <2>2. c[k] \in Literals
    OBVIOUS
  <2>3. Var(trail[j]) = Var(c[k])
    BY <2>1, <2>2, LitFacts
  <2>4. Lv(j) <= lv
    BY <2>3 DEF Lv
  <2>5. j \in 1..Len(tr)
    BY <2>4 DEF Below
  <2>6. trail'[j] = trail[j] /\ level'[Var(trail'[j])] = Lv(j)
    BY <2>5 DEF Grown
  <2>7. j \in 1..n - 1
    BY <1>1, <2>5
  <2>8. Before(c[k], n)'
    BY <2>1, <2>6, <2>7 DEF Before
  <2> QED
    BY <2>3, <2>6, <2>8 DEF Lv
<1>3. \E k \in 2..Len(c) : level'[Var(c[k])] = lv
  <2>1. 2 \in 2..Len(c)
    OBVIOUS
  <2> QED
    BY <1>2, <2>1
<1>4. Lv(n)' = lv
  BY <1>1 DEF Lv
<1>5. Justified(n, r)'
  BY <1>1, <1>2, <1>3, <1>4 DEF Justified
<1> QED
  BY <1>1, <1>5 DEF Reasoned

(* What a visit knows about the clause when it finds no other literal.     *)
LEMMA VisitEnd ==
  ASSUME TypeOK, TrailInv, NEW w, NEW p, NEW c, Visited(w, p, c), Free(c) = {}
  PROVE  /\ c \in Seq(Literals) /\ Len(c) > 1
         /\ \A k \in 2..Len(c) : IsFalse(c[k]) /\ level[Var(c[k])] <= decisionLevel
         /\ level[Var(c[2])] = decisionLevel
<1>1. /\ c \in Seq(Literals) /\ Len(c) > 1 /\ c[2] = -p /\ IsFalse(-p) /\ p \in Literals
      /\ qhead \in DOMAIN trail /\ p = trail[qhead] /\ Lv(qhead) = decisionLevel
  BY DEF Visited, Permuted
<1>2. level[Var(c[2])] = decisionLevel
  BY <1>1, LitFacts DEF Lv
<1>3. ASSUME NEW k \in 2..Len(c) PROVE IsFalse(c[k]) /\ level[Var(c[k])] <= decisionLevel
  <2>1. IsFalse(c[k])
    <3>1. CASE k = 2
      BY <1>1, <3>1
    <3>2. CASE k # 2
      <4>1. k \in 3..Len(c)
        BY <1>1, <3>2
      <4> QED
        BY <4>1 DEF Free
    <3> QED
      BY <3>1, <3>2
  <2>2. PICK j \in DOMAIN trail : trail[j] = -c[k]
    BY <2>1, OnTrail
  <2>3. c[k] \in Literals
    BY <1>1
  <2>4. Var(trail[j]) = Var(c[k])
    BY <2>2, <2>3, LitFacts
  <2> QED
    BY <2>1, <2>4 DEF TrailInv, Lv
<1> QED
  BY <1>1, <1>2, <1>3

LEMMA ReasonVisit ==
  ASSUME SolverInv, Visit
  PROVE  ReasonInv'
<1>1. /\ TypeOK /\ FlowInv /\ TrailInv /\ ClauseInv /\ WatchInv /\ ReasonInv
  BY DEF SolverInv
<1>2. PICK w, p, c : Visited(w, p, c) /\ VisitEffect(w, p, c) /\ todo # <<>>
  BY <1>1, VisitSplit
<1>3. UNCHANGED <<clauses, learnts>>
  BY DEF Visit
<1>4. KeepsReasons
  BY <1>1, <1>2, <1>3, VisitKeeps, ClauseTypes DEF KeepsReasons, Live
<1>5. CASE UNCHANGED <<trail, trail_lim, level, reason>>
  BY <1>1, <1>4, <1>5, ReasonSame
<1>6. ASSUME NEW u, VisitUnit(p, w.cref, c, u), Reordered(w.cref, c),
             Enqueued(c[1], w.cref, decisionLevel, trail)
      PROVE  ReasonInv'
  <2>1. PICK q, r, lv, tr : q = c[1] /\ r = w.cref /\ lv = decisionLevel /\ tr = trail
    OBVIOUS
  <2>2. q \in Literals /\ Below(lv, tr) /\ Grown(q, r, lv, tr)
    BY <1>1, <1>2, <1>6, <2>1, VisitGrown
  <2>3. Free(c) = {}
    BY <1>6 DEF VisitUnit
  <2>4. /\ c \in Seq(Literals) /\ Len(c) > 1
        /\ \A k \in 2..Len(c) : IsFalse(c[k]) /\ level[Var(c[k])] <= decisionLevel
        /\ level[Var(c[2])] = decisionLevel
    BY <1>1, <1>2, <2>3, VisitEnd
  <2>5. r # CRef_Undef /\ r \in Live' /\ ca'[r] = c
    <3>1. r \in Live /\ r \in Refs /\ ca'[r] = c
      BY <1>2, <1>6, <2>1 DEF Visited, Reordered
    <3>2. Refs = 1..Len(ca)
      BY <1>1, ClauseTypes
    <3> QED
      BY <1>3, <3>1, <3>2 DEF Live, CRef_Undef
  <2>6. PICK n : n = Len(tr) + 1
    OBVIOUS
  <2>7. Reasoned(n)'
    BY <1>1, <2>1, <2>2, <2>4, <2>5, <2>6, ReasonNew
  <2> QED
    BY <1>1, <1>4, <2>2, <2>6, <2>7, ReasonGrown
<1> QED
  BY <1>2, <1>5, <1>6 DEF VisitEffect, VisitSatisfied, VisitTrue, VisitFalse, asgn

LEMMA ReasonLearn ==
  ASSUME SolverInv, Learn
  PROVE  ReasonInv'
<1>1. /\ TypeOK /\ FlowInv /\ TrailInv /\ ClauseInv /\ WatchInv /\ ReasonInv /\ AnalyzeInv
      /\ ModelInv
  BY DEF SolverInv
<1>2. PICK c, lv, tr : LearnEffect(c, lv, tr)
  BY <1>1, LearnSplit
<1>3. PICK p, r, n : /\ p = c[1] /\ r = IF Len(c) = 1 THEN CRef_Undef ELSE Len(ca) + 1
                     /\ n = Len(tr) + 1
  OBVIOUS
<1>4. p \in Literals /\ Below(lv, tr) /\ Grown(p, r, lv, tr)
  BY <1>1, <1>2, <1>3, LearnGrown
<1>5. UNCHANGED clauses
  BY DEF Learn
<1>6. Refs = 1..Len(ca) /\ ca \in Seq(Seq(Literals)) /\ Live \subseteq Refs
  BY <1>1, ClauseTypes
<1>7. CASE Len(c) = 1 /\ UNCHANGED <<ca, learnts>>
  <2>1. KeepsReasons
    BY <1>5, <1>7 DEF KeepsReasons, Live
  <2>2. lv = 0 /\ r = CRef_Undef
    BY <1>2, <1>3, <1>7 DEF LearnEffect, LearnLevel
  <2>3. Grown(p, CRef_Undef, 0, tr)
    BY <1>4, <2>2
  <2>4. Reasoned(n)'
    BY <1>3, <2>3, ReasonUnit
  <2> QED
    BY <1>1, <1>3, <1>4, <2>1, <2>4, ReasonGrown
<1>8. CASE Len(c) > 1 /\ Appended(c) /\ learnts' = learnts \cup {Len(ca) + 1}
  <2>1. KeepsReasons
    BY <1>5, <1>6, <1>8 DEF KeepsReasons, Live, Appended
  <2>2. r = Len(ca) + 1 /\ lv = level[Var(c[2])]
    BY <1>2, <1>3, <1>8 DEF LearnEffect, LearnLevel
  <2>3. r \in Live' /\ ca'[r] = c /\ r # CRef_Undef
    BY <1>6, <1>8, <2>2 DEF Appended, Live, CRef_Undef
  <2>4. c \in Seq(Literals) /\ \A k \in 2..Len(c) : IsFalse(c[k]) /\ level[Var(c[k])] <= lv
    BY <1>2 DEF LearnEffect, LearntRight
  <2>5. Reasoned(n)'
    BY <1>1, <1>3, <1>4, <1>8, <2>2, <2>3, <2>4, ReasonNew
  <2> QED
    BY <1>1, <1>3, <1>4, <2>1, <2>5, ReasonGrown
<1> QED
  BY <1>2, <1>7, <1>8 DEF LearnEffect

LEMMA ReasonStep ==
  ASSUME SolverInv, Next
  PROVE  ReasonInv'
<1>1. /\ TypeOK /\ FlowInv /\ TrailInv /\ ClauseInv /\ ReasonInv
  BY DEF SolverInv
<1>2. ASSUME UNCHANGED <<ca, clauses, learnts>> PROVE KeepsReasons
  BY <1>2 DEF KeepsReasons, Live
<1>3. ASSUME UNCHANGED <<ca, clauses, learnts>>, UNCHANGED <<trail, trail_lim, level, reason>>
      PROVE  ReasonInv'
  BY <1>1, <1>2, <1>3, ReasonSame
<1>4. CASE Contradiction \/ EndAdding \/ Propagate \/ Analyze \/ Resolve \/ Refuted \/ NoRestart
           \/ SimplifyNothing
  BY <1>3, <1>4 DEF Contradiction, EndAdding, Propagate, Analyze, Resolve, Refuted, NoRestart,
                    SimplifyNothing, SimplifyDone, base, asgn
<1>5. CASE AddClause
  <2>1. AddEffect
    BY <1>1, <1>5, AddSplit
  <2>2. ASSUME NEW c, KeptRight(c), Len(c) = 1, Enqueued(c[1], CRef_Undef, 0, trail),
               ~ Redundant(cnf[added + 1]), UNCHANGED <<ca, clauses, learnts, trail_lim, qhead>>
        PROVE  ReasonInv'
    <3>1. PICK p, lv, tr, n : p = c[1] /\ lv = 0 /\ tr = trail /\ n = Len(tr) + 1
      OBVIOUS
    <3>2. Below(lv, tr) /\ Grown(p, CRef_Undef, lv, tr)
      BY <1>1, <1>5, <2>2, <3>1, AddGrown
    <3>3. Grown(p, CRef_Undef, 0, tr)
      BY <3>1, <3>2
    <3>4. Reasoned(n)'
      BY <3>1, <3>3, ReasonUnit
    <3> QED
      BY <1>1, <1>2, <2>2, <3>1, <3>2, <3>4, ReasonGrown
  <2>3. ASSUME NEW c, Appended(c), clauses' = clauses \cup {Len(ca) + 1},
               UNCHANGED <<learnts, asgn>>
        PROVE  ReasonInv'
    <3>1. KeepsReasons
      BY <1>1, <2>3, ClauseTypes DEF KeepsReasons, Live, Appended
    <3> QED
      BY <1>1, <2>3, <3>1, ReasonSame DEF asgn
  <2> QED
    BY <1>3, <2>1, <2>2, <2>3 DEF AddEffect, base, asgn
<1>6. CASE Restart \/ ModelFound
  <2>1. PICK tr : Cut(0, tr) /\ trail' = tr /\ UNCHANGED <<level, reason>>
    BY <1>1, <1>6, CutZero
  <2>2. KeepsReasons
    BY <1>2, <1>6 DEF Restart, ModelFound, base
  <2>3. ASSUME NEW i \in DOMAIN trail' PROVE Reasoned(i)'
    <3>1. i \in 1..Len(tr)
      BY <2>1, <2>3 DEF Cut
    <3>2. Carried(i)
      BY <1>1, <2>1, <3>1, CarriedCut
    <3> QED
      BY <1>1, <2>1, <2>2, <3>2, ReasonKept
  <2> QED
    BY <2>3 DEF ReasonInv, Reasoned
<1>7. CASE Branch
  <2>1. PICK p, n, tr : /\ n = decisionLevel + 1 /\ tr = trail /\ Grown(p, CRef_Undef, n, tr)
                        /\ trail_lim' = Append(trail_lim, Len(trail))
    BY <1>1, <1>7, BranchGrown
  <2>2. KeepsReasons
    BY <1>2, <1>7 DEF Branch, base
  <2>3. ASSUME NEW i \in 1..Len(tr) PROVE Reasoned(i)'
    BY <1>1, <2>1, <2>2, <2>3, CarriedBranch, ReasonKept
  <2>4. PICK m : m = Len(tr) + 1
    OBVIOUS
  <2>5. trail_lim \in Seq(Nat) /\ decisionLevel = Len(trail_lim) /\ Len(trail) \in Nat
    BY <1>1, TrailTypes
  <2>6. trail_lim'[n] = m - 1
    BY <2>1, <2>4, <2>5
  <2>7. trail'[m] = p /\ level'[Var(p)] = n /\ reason'[Var(p)] = CRef_Undef
    BY <2>1, <2>4 DEF Grown
  <2>8. Reasoned(m)'
    BY <2>6, <2>7 DEF Reasoned, Lv
  <2>9. \A i \in DOMAIN trail' : i \in 1..Len(tr) \/ i = m
    BY <2>1, <2>4 DEF Grown
  <2> QED
    BY <2>3, <2>8, <2>9 DEF ReasonInv, Reasoned
<1> QED
  BY <1>4, <1>5, <1>6, <1>7, ReasonVisit, ReasonLearn, ReasonSimplify, ReasonReduce DEF Next

LEMMA ConflictStep ==
  ASSUME SolverInv, Next
  PROVE  ConflictInv'
<1>1. /\ TypeOK /\ FlowInv /\ TrailInv /\ ClauseInv /\ WatchInv /\ ConflictInv
  BY DEF SolverInv
<1>2. ASSUME UNCHANGED <<ca, clauses, learnts, trail, trail_lim, level, confl>>
      PROVE  ConflictInv'
  <2>1. Live' = Live /\ decisionLevel' = decisionLevel /\ \A l : IsFalse(l)' = IsFalse(l)
    BY <1>2 DEF Live, decisionLevel, IsFalse
  <2> QED
    BY <1>1, <1>2, <2>1 DEF ConflictInv
<1>3. CASE EndAdding \/ Analyze \/ Resolve \/ Refuted \/ NoRestart
  BY <1>2, <1>3 DEF EndAdding, Analyze, Resolve, Refuted, NoRestart, base, asgn
<1>4. ASSUME confl' = CRef_Undef PROVE ConflictInv'
  BY <1>4 DEF ConflictInv
<1>5. CASE AddClause \/ Contradiction \/ Propagate \/ Learn \/ Restart \/ Simplify
           \/ SimplifyNothing \/ Reduce \/ Branch \/ ModelFound
  <2>1. confl' = CRef_Undef
    BY <1>1, <1>5 DEF AddClause, Contradiction, Propagate, Learn, Restart, Simplify,
                      SimplifyNothing, SimplifyDone, Reduce, Branch, ModelFound, FlowInv, Propagated
  <2> QED
    BY <1>4, <2>1
<1>6. CASE Visit
  <2>1. PICK w, p, c : Visited(w, p, c) /\ VisitEffect(w, p, c) /\ todo # <<>>
    BY <1>1, <1>6, VisitSplit
  <2>2. UNCHANGED <<clauses, learnts>> /\ confl = CRef_Undef
    BY <1>6, <2>1 DEF Visit, Visited
  <2>3. ASSUME NEW u, VisitFalse(p, w.cref, c, u), Reordered(w.cref, c) PROVE ConflictInv'
    <3>1. /\ UNCHANGED <<trail, trail_lim, level>> /\ confl' = w.cref /\ ca'[w.cref] = c
          /\ IsFalse(c[1]) /\ Free(c) = {} /\ w.cref \in Live'
      BY <2>1, <2>2, <2>3 DEF VisitFalse, Reordered, Visited, Live
    <3>2. /\ c \in Seq(Literals) /\ Len(c) > 1
          /\ \A k \in 2..Len(c) : IsFalse(c[k])
          /\ level[Var(c[2])] = decisionLevel
      BY <1>1, <2>1, <3>1, VisitEnd
    <3>3. \A k \in DOMAIN c : IsFalse(c[k])
      <4>1. \A k \in DOMAIN c : k = 1 \/ k \in 2..Len(c)
        BY <3>2
      <4> QED
        BY <3>1, <3>2, <4>1
    <3>4. 2 \in DOMAIN c
      BY <3>2
    <3> QED
      BY <3>1, <3>2, <3>3, <3>4 DEF ConflictInv, IsFalse, decisionLevel
  <2>4. confl' = CRef_Undef \/ \E u : VisitFalse(p, w.cref, c, u) /\ Reordered(w.cref, c)
    BY <2>1, <2>2 DEF VisitEffect, VisitSatisfied, VisitTrue, VisitUnit
  <2> QED
    BY <1>4, <2>3, <2>4
<1> QED
  BY <1>3, <1>5, <1>6 DEF Next

-----------------------------------------------------------------------------
(* A clause with a false literal in front that needs no visit any more.    *)
Sup(cr, i) ==
  (trail[i] = -ca[cr][1] \/ trail[i] = -ca[cr][2]) /\ Processed(i, cr) => Supported(cr, i)

(* The trail keeps its literals up to the level of the one at i.           *)
LevelKept(i) ==
  /\ i \in DOMAIN trail /\ trail'[i] = trail[i] /\ level'[Var(trail[i])] = Lv(i)
  /\ \A j \in DOMAIN trail : Lv(j) <= Lv(i) =>
       j \in DOMAIN trail' /\ trail'[j] = trail[j] /\ level'[Var(trail[j])] = Lv(j)

ClauseKept(cr) ==
  /\ cr \in Live
  /\ \/ ca'[cr][1] = ca[cr][1] /\ ca'[cr][2] = ca[cr][2]
     \/ ca'[cr][1] = ca[cr][2] /\ ca'[cr][2] = ca[cr][1]
  /\ \A l : l \in Range(ca[cr]) => l \in Range(ca'[cr])

LEMMA SupportCarried ==
  ASSUME NEW cr, NEW i, ClauseKept(cr), LevelKept(i), Supported(cr, i)
  PROVE  Supported(cr, i)'
<1>1. PICK j \in DOMAIN trail : trail[j] \in Range(ca[cr]) /\ Lv(j) <= Lv(i)
  BY DEF Supported
<1>2. /\ j \in DOMAIN trail' /\ trail'[j] = trail[j] /\ level'[Var(trail[j])] = Lv(j)
      /\ trail'[i] = trail[i] /\ level'[Var(trail[i])] = Lv(i)
  BY <1>1 DEF LevelKept
<1>3. trail'[j] \in Range(ca'[cr])
  BY <1>1, <1>2 DEF ClauseKept
<1>4. Lv(j)' <= Lv(i)'
  BY <1>1, <1>2 DEF Lv
<1> QED
  BY <1>2, <1>3, <1>4 DEF Supported

LEMMA SupCarried ==
  ASSUME SupportInv, ok, NEW cr, NEW i, ClauseKept(cr), LevelKept(i),
         Processed(i, cr)' => Processed(i, cr)
  PROVE  Sup(cr, i)'
<1>1. SUFFICES ASSUME trail'[i] = -ca'[cr][1] \/ trail'[i] = -ca'[cr][2], Processed(i, cr)'
               PROVE  Supported(cr, i)'
  BY DEF Sup
<1>2. cr \in Live /\ i \in DOMAIN trail /\ trail'[i] = trail[i]
  BY DEF ClauseKept, LevelKept
<1>3. trail[i] = -ca[cr][1] \/ trail[i] = -ca[cr][2]
  BY <1>1, <1>2 DEF ClauseKept
<1>4. Supported(cr, i)
  BY <1>1, <1>2, <1>3 DEF SupportInv
<1> QED
  BY <1>4, SupportCarried

LEMMA LevelSame ==
  ASSUME UNCHANGED <<trail, level>>, NEW i \in DOMAIN trail
  PROVE  LevelKept(i)
BY DEF LevelKept, Lv

LEMMA LevelGrown ==
  ASSUME TypeOK, NEW p, NEW from, NEW lv, NEW tr, Below(lv, tr), Grown(p, from, lv, tr),
         NEW i \in 1..Len(tr)
  PROVE  LevelKept(i)
<1>1. ASSUME NEW j \in 1..Len(tr)
      PROVE  /\ j \in DOMAIN trail /\ j \in DOMAIN trail' /\ trail'[j] = trail[j]
             /\ level'[Var(trail[j])] = Lv(j)
  <2>1. /\ j \in DOMAIN trail /\ j \in DOMAIN trail' /\ trail'[j] = trail[j]
        /\ level'[Var(trail'[j])] = Lv(j)
    BY DEF Grown
  <2> QED
    BY <2>1
<1>2. ASSUME NEW j \in DOMAIN trail, Lv(j) <= Lv(i) PROVE j \in 1..Len(tr)
  <2>1. Lv(j) \in Nat /\ Lv(i) \in Nat /\ lv \in Nat /\ Lv(i) <= lv
    BY <1>1, TrailTypes DEF Below
  <2>2. Lv(j) <= lv
    BY <1>2, <2>1
  <2> QED
    BY <2>2 DEF Below
<1> QED
  BY <1>1, <1>2 DEF LevelKept

LEMMA LevelCut ==
  ASSUME TypeOK, NEW tr, Cut(0, tr), trail' = tr, level' = level, NEW i \in 1..Len(tr)
  PROVE  LevelKept(i)
<1>1. ASSUME NEW j \in 1..Len(tr)
      PROVE  /\ j \in DOMAIN trail /\ j \in DOMAIN trail' /\ trail'[j] = trail[j]
             /\ level'[Var(trail[j])] = Lv(j)
  BY DEF Cut, Lv
<1>2. ASSUME NEW j \in DOMAIN trail, Lv(j) <= Lv(i) PROVE j \in 1..Len(tr)
  <2>1. Lv(j) \in Nat /\ Lv(i) \in Nat /\ Lv(i) <= 0
    BY <1>1, TrailTypes DEF Cut
  <2>2. Lv(j) <= 0
    BY <1>2, <2>1
  <2> QED
    BY <2>2 DEF Cut
<1> QED
  BY <1>1, <1>2 DEF LevelKept

LEMMA LevelBranch ==
  ASSUME TypeOK, NEW p, NEW n, NEW tr, tr = trail, Grown(p, CRef_Undef, n, tr),
         NEW i \in 1..Len(tr)
  PROVE  LevelKept(i)
<1>1. ASSUME NEW j \in 1..Len(tr)
      PROVE  /\ j \in DOMAIN trail /\ j \in DOMAIN trail' /\ trail'[j] = trail[j]
             /\ level'[Var(trail[j])] = Lv(j)
  <2>1. /\ j \in DOMAIN trail /\ j \in DOMAIN trail' /\ trail'[j] = trail[j]
        /\ level'[Var(trail'[j])] = Lv(j)
    BY DEF Grown
  <2> QED
    BY <2>1
<1>2. DOMAIN trail = 1..Len(tr)
  BY TrailTypes
<1> QED
  BY <1>1, <1>2 DEF LevelKept

LEMMA ClauseSame ==
  ASSUME NEW cr \in Live, ca'[cr] = ca[cr]
  PROVE  ClauseKept(cr)
BY DEF ClauseKept

LEMMA ClauseTurned ==
  ASSUME TypeOK, ClauseInv, NEW w, NEW p, NEW c, Visited(w, p, c), Reordered(w.cref, c),
         NEW cr \in Live
  PROVE  ClauseKept(cr)
<1>1. CASE cr = w.cref
  BY <1>1 DEF Visited, Permuted, Reordered, ClauseKept
<1>2. CASE cr # w.cref
  BY <1>2, ClauseSame DEF Reordered, ClauseInv
<1> QED
  BY <1>1, <1>2

LEMMA VisitProcessed ==
  ASSUME TypeOK, NEW w, NEW p, NEW c, Visited(w, p, c), todo # <<>>, todo' = Tail(todo),
         qhead' = qhead, confl' = CRef_Undef, NEW cr, NEW i, Processed(i, cr)',
         cr # w.cref \/ i # qhead
  PROVE  Processed(i, cr)
<1>1. confl = CRef_Undef /\ w = todo[1] /\ todo \in Seq(Watchers)
  BY DEF Visited, TypeOK, TypeLists
<1>2. i < qhead \/ (i = qhead /\ ~ In(cr, todo'))
  BY DEF Processed, In
<1>3. Beheaded(todo, w, todo')
  BY <1>1, TailIn
<1>4. i = qhead /\ ~ In(cr, todo') => ~ In(cr, todo)
  BY <1>3 DEF Beheaded
<1> QED
  BY <1>1, <1>2, <1>4 DEF Processed

(* The visited clause has a true literal.                                  *)
LEMMA VisitSupported ==
  ASSUME TypeOK, TrailInv, NEW w, NEW p, NEW c, Visited(w, p, c), NEW l,
         IsTrue(l), l \in Range(ca[w.cref])
  PROVE  Supported(w.cref, qhead)
<1>1. PICK j \in DOMAIN trail : trail[j] = l
  BY OnTrail
<1>2. Lv(j) <= decisionLevel /\ Lv(qhead) = decisionLevel
  BY <1>1 DEF TrailInv, Visited
<1> QED
  BY <1>1, <1>2 DEF Supported

LEMMA SupportPassed ==
  ASSUME SolverInv, ok, NEW w, NEW p, NEW c, Visited(w, p, c), todo # <<>>, todo' = Tail(todo),
         UNCHANGED <<trail, level, qhead>>, confl' = CRef_Undef,
         Live' = Live, \A cr \in Live : ClauseKept(cr),
         NEW l, IsTrue(l), l \in Range(ca[w.cref])
  PROVE  \A cr \in Live' : \A i \in DOMAIN trail' : Sup(cr, i)'
<1> SUFFICES ASSUME NEW cr \in Live', NEW i \in DOMAIN trail' PROVE Sup(cr, i)'
  OBVIOUS
<1>1. TypeOK /\ TrailInv /\ SupportInv
  BY DEF SolverInv
<1>2. cr \in Live /\ ClauseKept(cr) /\ i \in DOMAIN trail /\ LevelKept(i)
  BY LevelSame
<1>3. CASE cr # w.cref \/ i # qhead
  <2>1. Processed(i, cr)' => Processed(i, cr)
    BY <1>1, <1>3, VisitProcessed
  <2> QED
    BY <1>1, <1>2, <2>1, SupCarried
<1>4. CASE cr = w.cref /\ i = qhead
  <2>1. Supported(cr, i)
    BY <1>1, <1>4, VisitSupported
  <2>2. Supported(cr, i)'
    BY <1>2, <2>1, SupportCarried
  <2> QED
    BY <2>2 DEF Sup
<1> QED
  BY <1>3, <1>4

LEMMA SupportMoved ==
  ASSUME SolverInv, ok, NEW w, NEW p, NEW c, Visited(w, p, c), todo # <<>>, todo' = Tail(todo),
         UNCHANGED <<trail, level, qhead>>, confl' = CRef_Undef, Live' = Live,
         NEW k, NEW d, NEW u, Reordered(w.cref, d), Moved(w, c, k, d, u)
  PROVE  \A cr \in Live' : \A i \in DOMAIN trail' : Sup(cr, i)'
<1> SUFFICES ASSUME NEW cr \in Live', NEW i \in DOMAIN trail' PROVE Sup(cr, i)'
  OBVIOUS
<1>1. TypeOK /\ TrailInv /\ SupportInv /\ ClauseInv
  BY DEF SolverInv
<1>2. cr \in Live /\ cr \in Refs /\ i \in DOMAIN trail /\ LevelKept(i)
  BY <1>1, LevelSame, ClauseTypes
<1>3. CASE cr # w.cref
  <2>1. Processed(i, cr)' => Processed(i, cr)
    BY <1>1, <1>3, VisitProcessed
  <2>2. ClauseKept(cr)
    BY <1>2, <1>3, ClauseSame DEF Reordered
  <2> QED
    BY <1>1, <1>2, <2>1, <2>2, SupCarried
<1>4. CASE cr = w.cref
  <2>1. /\ ca'[cr] = d /\ d[1] = c[1] /\ d[2] = c[k] /\ ~ IsFalse(c[k])
        /\ \A l : l \in Range(d) <=> l \in Range(ca[cr])
    BY <1>4 DEF Reordered, Moved, Found, Permuted
  <2>2. /\ p = trail[qhead] /\ p \in Literals /\ c[2] = -p /\ c \in Seq(Literals) /\ Alone(c)
        /\ Len(c) > 1
        /\ \/ c[1] = ca[cr][1] /\ c[2] = ca[cr][2]
           \/ c[2] = ca[cr][1] /\ c[1] = ca[cr][2]
    BY <1>4 DEF Visited, Permuted
  <2>3. SUFFICES ASSUME trail'[i] = -ca'[cr][1] \/ trail'[i] = -ca'[cr][2], Processed(i, cr)'
                 PROVE  Supported(cr, i)'
    BY DEF Sup
  <2>4. trail[i] # -c[k]
    BY <1>1, <1>2, <2>1, OnTrail
  <2>5. trail[i] = -c[1]
    BY <2>1, <2>3, <2>4
  <2>6. i # qhead
    <3>1. c[1] \in Literals /\ c[2] \in Literals /\ c[1] # c[2]
      <4>1. 1 \in 1..Len(c) /\ 2 \in 1..Len(c)
        BY <2>2
      <4> QED
        BY <2>2, <4>1 DEF Alone
    <3>2. PICK x, y : x = c[1] /\ y = c[2]
      OBVIOUS
    <3>3. x \in Int /\ y \in Int /\ p \in Int /\ x # y /\ y = -p
      BY <1>1, <2>2, <3>1, <3>2, LitFacts
    <3>4. p # -x
      BY <3>3
    <3> QED
      BY <2>2, <2>5, <3>2, <3>4
  <2>7. Processed(i, cr)
    BY <1>1, <2>3, <2>6, VisitProcessed
  <2>8. Supported(cr, i)
    BY <1>1, <1>2, <2>2, <2>5, <2>7 DEF SupportInv
  <2>9. PICK j \in DOMAIN trail : trail[j] \in Range(ca[cr]) /\ Lv(j) <= Lv(i)
    BY <2>8 DEF Supported
  <2> QED
    BY <2>1, <2>9 DEF Supported, Lv
<1> QED
  BY <1>3, <1>4

LEMMA SupportUnit ==
  ASSUME SolverInv, ok, NEW w, NEW p, NEW c, Visited(w, p, c), todo # <<>>, todo' = Tail(todo),
         qhead' = qhead, confl' = CRef_Undef, Live' = Live, Reordered(w.cref, c),
         NEW q, q = c[1], NEW lv, lv = decisionLevel, NEW tr, tr = trail,
         Below(lv, tr), Grown(q, w.cref, lv, tr)
  PROVE  \A cr \in Live' : \A i \in DOMAIN trail' : Sup(cr, i)'
<1> SUFFICES ASSUME NEW cr \in Live', NEW i \in DOMAIN trail' PROVE Sup(cr, i)'
  OBVIOUS
<1>1. TypeOK /\ TrailInv /\ SupportInv /\ ClauseInv
  BY DEF SolverInv
<1>2. cr \in Live /\ ClauseKept(cr)
  BY <1>1, ClauseTurned
<1>3. PICK n : n = Len(tr) + 1
  OBVIOUS
<1>4. /\ i \in 1..Len(tr) \/ i = n
      /\ n \in DOMAIN trail' /\ trail'[n] = q /\ level'[Var(q)] = lv
  BY <1>3 DEF Grown
<1>5. CASE i \in 1..Len(tr)
  <2>1. LevelKept(i)
    BY <1>1, <1>5, LevelGrown
  <2>2. CASE cr # w.cref \/ i # qhead
    <3>1. Processed(i, cr)' => Processed(i, cr)
      BY <1>1, <2>2, VisitProcessed
    <3> QED
      BY <1>1, <1>2, <2>1, <3>1, SupCarried
  <2>3. CASE cr = w.cref /\ i = qhead
    <3>1. ca'[cr] = c /\ q \in Range(c)
      <4>1. ca'[cr] = c /\ c \in Seq(Literals) /\ Len(c) > 1
        BY <2>3 DEF Reordered, Visited, Permuted
      <4>2. 1 \in 1..Len(c)
        BY <4>1
      <4> QED
        BY <4>1, <4>2, RangeIs
    <3>2. Lv(i) = lv /\ lv \in Nat
      BY <2>3 DEF Visited, Below
    <3>3. Lv(i)' = lv
      BY <2>1, <3>2 DEF LevelKept, Lv
    <3>4. Lv(n)' <= Lv(i)'
      BY <1>4, <3>2, <3>3 DEF Lv
    <3>5. Supported(cr, i)'
      BY <1>4, <3>1, <3>4 DEF Supported
    <3> QED
      BY <3>5 DEF Sup
  <2> QED
    BY <2>2, <2>3
<1>6. CASE i = n
  <2>1. qhead \in Nat /\ qhead <= Len(tr) /\ Len(tr) \in Nat
    BY <1>1, TrailTypes DEF Below
  <2>2. ~ (i < qhead) /\ i # qhead
    BY <1>3, <1>6, <2>1
  <2>3. ~ Processed(i, cr)'
    BY <2>2 DEF Processed
  <2> QED
    BY <2>3 DEF Sup
<1> QED
  BY <1>4, <1>5, <1>6

LEMMA SupportFalse ==
  ASSUME SolverInv, ok, NEW w, NEW p, NEW c, Visited(w, p, c),
         UNCHANGED <<trail, trail_lim, level>>, confl' # CRef_Undef, Live' = Live,
         Reordered(w.cref, c)
  PROVE  \A cr \in Live' : \A i \in DOMAIN trail' : Sup(cr, i)'
<1> SUFFICES ASSUME NEW cr \in Live', NEW i \in DOMAIN trail' PROVE Sup(cr, i)'
  OBVIOUS
<1>1. TypeOK /\ TrailInv /\ SupportInv /\ ClauseInv
  BY DEF SolverInv
<1>2. cr \in Live /\ ClauseKept(cr) /\ i \in DOMAIN trail /\ LevelKept(i)
  BY <1>1, ClauseTurned, LevelSame
<1>3. ASSUME Processed(i, cr)' PROVE Processed(i, cr)
  <2>1. Lv(i)' < decisionLevel'
    BY <1>3 DEF Processed
  <2>2. Lv(i) < decisionLevel
    BY <2>1 DEF Lv, decisionLevel
  <2>3. /\ confl = CRef_Undef /\ qhead \in DOMAIN trail /\ Lv(qhead) = decisionLevel
    BY DEF Visited
  <2>4. /\ Lv(i) \in Nat /\ decisionLevel \in Nat /\ qhead \in Nat /\ i \in Nat
        /\ decisionLevel > 0 => trail_lim[decisionLevel] \in Nat
    BY <1>1, <1>2, TrailTypes
  <2>5. Lv(i) # decisionLevel
    BY <2>2, <2>4
  <2>6. ~ (decisionLevel = 0 \/ trail_lim[decisionLevel] < i)
    BY <1>1, <1>2, <2>5, TopLevel
  <2>7. trail_lim[decisionLevel] < qhead
    BY <1>1, <2>3, <2>6, TopLevel
  <2>8. i < qhead
    BY <2>4, <2>6, <2>7
  <2> QED
    BY <2>3, <2>8 DEF Processed
<1> QED
  BY <1>1, <1>2, <1>3, SupCarried

LEMMA SupportVisit ==
  ASSUME SolverInv, Next, Visit
  PROVE  SupportInv'
<1>1. /\ TypeOK /\ FlowInv /\ TrailInv /\ ClauseInv /\ WatchInv
  BY DEF SolverInv
<1>2. PICK w, p, c : Visited(w, p, c) /\ VisitEffect(w, p, c) /\ todo # <<>>
  BY <1>1, VisitSplit
<1>3. Live' = Live /\ ok' = ok /\ confl = CRef_Undef
  BY <1>2 DEF Visit, input, Live, Visited
<1>4. SUFFICES ASSUME ok PROVE \A cr \in Live' : \A i \in DOMAIN trail' : Sup(cr, i)'
  BY <1>3 DEF SupportInv, Sup
<1>5. CASE VisitSatisfied(p, w)
  <2>1. /\ IsTrue(w.blocker) /\ todo' = Tail(todo) /\ confl' = CRef_Undef
        /\ UNCHANGED <<ca, trail, level, qhead>>
    BY <1>3, <1>5 DEF VisitSatisfied, Pass, asgn
  <2>2. Proper(w, p)
    <3>1. w = todo[1] /\ p = trail[qhead] /\ todo \in Seq(Watchers)
      BY <1>1, <1>2 DEF Visited, TypeOK, TypeLists
    <3>2. 1 \in 1..Len(todo)
      BY <1>2, <3>1
    <3>3. w \in Range(todo)
      BY <3>1, <3>2, RangeIs
    <3> QED
      BY <1>1, <3>1, <3>3 DEF WatchInv
  <2>3. w.blocker \in Range(ca[w.cref])
    <3>1. w.blocker \in Literals
      BY <1>2 DEF Visited, Watchers
    <3>2. ~ Fixed(-w.blocker)
      <4> SUFFICES ASSUME Fixed(-w.blocker) PROVE FALSE
        OBVIOUS
      <4>1. IsFalse(w.blocker)
        BY <1>1, OnTrail DEF Fixed
      <4> QED
        BY <1>1, <2>1, <3>1, <4>1, NeverBoth
    <3> QED
      BY <2>2, <3>2 DEF Proper
  <2>4. \A cr \in Live : ClauseKept(cr)
    BY <2>1, ClauseSame
  <2> QED
    BY <1>2, <1>3, <1>4, <2>1, <2>3, <2>4, SupportPassed
<1>6. ASSUME NEW u, VisitTrue(p, w.cref, c, u), Reordered(w.cref, c)
      PROVE  \A cr \in Live' : \A i \in DOMAIN trail' : Sup(cr, i)'
  <2>1. /\ IsTrue(c[1]) /\ todo' = Tail(todo) /\ confl' = CRef_Undef
        /\ UNCHANGED <<trail, level, qhead>>
    BY <1>3, <1>6 DEF VisitTrue, Pass, asgn
  <2>2. c[1] \in Range(ca[w.cref])
    <3>1. /\ c \in Seq(Literals) /\ Len(c) > 1
          /\ \A l : l \in Range(c) <=> l \in Range(ca[w.cref])
      BY <1>2 DEF Visited, Permuted
    <3>2. 1 \in 1..Len(c)
      BY <3>1
    <3>3. c[1] \in Range(c)
      BY <3>1, <3>2, RangeIs
    <3> QED
      BY <3>1, <3>3
  <2>3. \A cr \in Live : ClauseKept(cr)
    BY <1>1, <1>2, <1>6, ClauseTurned
  <2> QED
    BY <1>2, <1>3, <1>4, <2>1, <2>2, <2>3, SupportPassed
<1>7. ASSUME NEW k, NEW d, NEW u, todo' = Tail(todo), UNCHANGED <<asgn, confl>>,
             Reordered(w.cref, d), Moved(w, c, k, d, u)
      PROVE  \A cr \in Live' : \A i \in DOMAIN trail' : Sup(cr, i)'
  <2>1. UNCHANGED <<trail, level, qhead>> /\ confl' = CRef_Undef
    BY <1>3, <1>7 DEF asgn
  <2> QED
    BY <1>2, <1>3, <1>4, <1>7, <2>1, SupportMoved
<1>8. ASSUME NEW u, VisitUnit(p, w.cref, c, u), Reordered(w.cref, c),
             Enqueued(c[1], w.cref, decisionLevel, trail)
      PROVE  \A cr \in Live' : \A i \in DOMAIN trail' : Sup(cr, i)'
  <2>1. todo' = Tail(todo) /\ qhead' = qhead /\ confl' = CRef_Undef
    BY <1>3, <1>8 DEF VisitUnit, Pass
  <2>2. PICK q, r, lv, tr : q = c[1] /\ r = w.cref /\ lv = decisionLevel /\ tr = trail
    OBVIOUS
  <2>3. Below(lv, tr) /\ Grown(q, r, lv, tr)
    BY <1>1, <1>2, <1>8, <2>2, VisitGrown
  <2>4. Grown(q, w.cref, lv, tr)
    BY <2>2, <2>3
  <2> QED
    BY <1>2, <1>3, <1>4, <1>8, <2>1, <2>2, <2>3, <2>4, SupportUnit
<1>9. ASSUME NEW u, VisitFalse(p, w.cref, c, u), Reordered(w.cref, c)
      PROVE  \A cr \in Live' : \A i \in DOMAIN trail' : Sup(cr, i)'
  <2>1. UNCHANGED <<trail, trail_lim, level>> /\ confl' = w.cref
    BY <1>9 DEF VisitFalse
  <2>2. confl' # CRef_Undef
    <3>1. w.cref \in Refs /\ Refs = 1..Len(ca)
      BY <1>1, <1>2, ClauseTypes DEF Visited
    <3> QED
      BY <2>1, <3>1 DEF CRef_Undef
  <2> QED
    BY <1>2, <1>3, <1>4, <1>9, <2>1, <2>2, SupportFalse
<1> QED
  BY <1>2, <1>5, <1>6, <1>7, <1>8, <1>9 DEF VisitEffect

(* A trail that grows behind the literals that were looked at.             *)
LEMMA SupportGrown ==
  ASSUME SolverInv, ok, NEW p, NEW from, NEW lv, NEW tr, Below(lv, tr), Grown(p, from, lv, tr),
         qhead' \in Nat, qhead' <= Len(tr), confl' = CRef_Undef,
         NEW cr, ClauseKept(cr),
         \A i \in 1..Len(tr) : Processed(i, cr)
  PROVE  \A i \in DOMAIN trail' : Sup(cr, i)'
<1> SUFFICES ASSUME NEW i \in DOMAIN trail' PROVE Sup(cr, i)'
  OBVIOUS
<1>1. TypeOK /\ SupportInv
  BY DEF SolverInv
<1>2. Len(tr) \in Nat /\ (i \in 1..Len(tr) \/ i = Len(tr) + 1)
  BY DEF Grown
<1>3. CASE i \in 1..Len(tr)
  BY <1>1, <1>3, LevelGrown, SupCarried
<1>4. CASE i = Len(tr) + 1
  <2>1. ~ (i < qhead') /\ i # qhead'
    BY <1>2, <1>4
  <2>2. ~ Processed(i, cr)'
    BY <2>1 DEF Processed
  <2> QED
    BY <2>2 DEF Sup
<1> QED
  BY <1>2, <1>3, <1>4

LEMMA SupportLearn ==
  ASSUME SolverInv, Next, Learn
  PROVE  SupportInv'
<1>1. /\ TypeOK /\ FlowInv /\ TrailInv /\ ClauseInv /\ WatchInv /\ ReasonInv /\ AnalyzeInv
      /\ ModelInv
  BY DEF SolverInv
<1>2. PICK c, lv, tr : LearnEffect(c, lv, tr)
  BY <1>1, LearnSplit
<1>3. PICK p, r, n : /\ p = c[1] /\ r = IF Len(c) = 1 THEN CRef_Undef ELSE Len(ca) + 1
                     /\ n = Len(tr) + 1
  OBVIOUS
<1>4. p \in Literals /\ Below(lv, tr) /\ Grown(p, r, lv, tr)
  BY <1>1, <1>2, <1>3, LearnGrown
<1>5. /\ ok' = ok /\ confl # CRef_Undef /\ confl' = CRef_Undef /\ clauses' = clauses
      /\ lv < decisionLevel /\ qhead' = Len(tr)
  BY <1>1, <1>2 DEF Learn, input, FlowInv, LearnEffect, Cut
<1>6. SUFFICES ASSUME ok, NEW cr \in Live', NEW i \in DOMAIN trail' PROVE Sup(cr, i)'
  BY <1>5 DEF SupportInv, Sup
<1>7. /\ Len(tr) \in Nat /\ (i \in 1..Len(tr) \/ i = n) /\ n \in DOMAIN trail'
      /\ trail'[n] = p /\ level'[Var(p)] = lv
  BY <1>3, <1>4 DEF Grown
<1>8. \A j \in 1..Len(tr) : j \in DOMAIN trail /\ Lv(j) <= lv /\ Lv(j) \in Nat
  BY <1>1, <1>4, TrailTypes DEF Below
<1>9. lv \in Nat /\ decisionLevel \in Nat
  BY <1>1, <1>4, TrailTypes DEF Below
<1>10. CASE cr \in Live /\ ca'[cr] = ca[cr]
  <2>1. ClauseKept(cr)
    BY <1>10, ClauseSame
  <2>2. ASSUME NEW j \in 1..Len(tr) PROVE Processed(j, cr)
    <3>1. Lv(j) < decisionLevel
      BY <1>5, <1>8, <1>9
    <3> QED
      BY <1>5, <3>1 DEF Processed
  <2>3. qhead' \in Nat /\ qhead' <= Len(tr)
    BY <1>5, <1>7
  <2> QED
    BY <1>4, <1>5, <1>6, <2>1, <2>2, <2>3, SupportGrown
<1>11. CASE cr = Len(ca) + 1 /\ Len(c) > 1 /\ Appended(c)
  <2>1. ca'[cr] = c /\ c \in Seq(Literals) /\ c[1] = -an.p /\ lv = level[Var(c[2])]
    BY <1>2, <1>11 DEF Appended, LearnEffect, LearntRight, LearnLevel
  <2>2. CASE i = n
    <3>1. ~ (i < qhead') /\ i # qhead'
      BY <1>3, <1>5, <1>7, <2>2
    <3>2. ~ Processed(i, cr)'
      BY <1>5, <3>1 DEF Processed
    <3> QED
      BY <3>2 DEF Sup
  <2>3. CASE i \in 1..Len(tr)
    <3>1. i \in DOMAIN trail /\ trail'[i] = trail[i] /\ level'[Var(trail[i])] = Lv(i)
      <4>1. /\ i \in DOMAIN trail /\ trail'[i] = trail[i] /\ level'[Var(trail'[i])] = Lv(i)
        BY <1>4, <2>3 DEF Grown
      <4> QED
        BY <4>1
    <3>2. trail[i] # -c[1]
      <4>1. LastPicked(an) /\ an.p \in Literals
        BY <1>1, LearnStart DEF Learn
      <4>2. PICK a : a = an.index + 1
        OBVIOUS
      <4>3. a \in DOMAIN trail /\ trail[a] = an.p /\ Lv(a) = decisionLevel
        BY <4>1, <4>2 DEF LastPicked
      <4>4. Lv(i) # decisionLevel
        BY <1>5, <1>8, <1>9, <2>3
      <4>5. -c[1] = an.p
        BY <1>1, <2>1, <4>1, LitFacts
      <4>6. trail[i] = an.p => Lv(i) = Lv(a)
        BY <4>3 DEF Lv
      <4> QED
        BY <4>3, <4>4, <4>5, <4>6
    <3>3. CASE trail[i] = -c[2]
      <4>1. c[2] \in Literals
        BY <1>11, <2>1
      <4>2. Var(trail[i]) = Var(c[2])
        BY <1>1, <3>3, <4>1, LitFacts
      <4>3. Lv(i) = lv
        BY <2>1, <4>2 DEF Lv
      <4>4. Lv(n)' <= Lv(i)'
        BY <1>7, <1>9, <3>1, <4>3 DEF Lv
      <4>5. p \in Range(c)
        <5>1. 1 \in 1..Len(c)
          BY <1>11, <2>1
        <5> QED
          BY <1>3, <2>1, <5>1, RangeIs
      <4>6. Supported(cr, i)'
        BY <1>7, <2>1, <4>4, <4>5 DEF Supported
      <4> QED
        BY <4>6 DEF Sup
    <3> QED
      BY <2>1, <3>1, <3>2, <3>3 DEF Sup
  <2> QED
    BY <1>7, <2>2, <2>3
<1>12. \/ cr \in Live /\ ca'[cr] = ca[cr]
       \/ cr = Len(ca) + 1 /\ Len(c) > 1 /\ Appended(c)
  <2>1. \/ UNCHANGED <<ca, learnts>>
        \/ Len(c) > 1 /\ Appended(c) /\ learnts' = learnts \cup {Len(ca) + 1}
    BY <1>2 DEF LearnEffect
  <2>2. Live \subseteq Refs
    BY <1>1, ClauseTypes
  <2> QED
    BY <1>5, <1>6, <2>1, <2>2 DEF Live, Appended
<1> QED
  BY <1>10, <1>11, <1>12

LEMMA SupportPropagate ==
  ASSUME SolverInv, Next, Propagate
  PROVE  SupportInv'
<1>1. /\ TypeOK /\ FlowInv /\ TrailInv /\ ClauseInv /\ WatchInv /\ SupportInv /\ WatchInv'
  BY WatchStep DEF SolverInv
<1>2. PICK p : p = trail[qhead + 1] /\ watches' = [watches EXCEPT ![p] = <<>>]
  BY DEF Propagate
<1>3. /\ UNCHANGED <<ok, trail, level, ca, confl>> /\ Live' = Live /\ qhead' = qhead + 1
      /\ todo = <<>> /\ confl = CRef_Undef /\ qhead < Len(trail) /\ qhead \in Nat
  BY <1>1, TrailTypes DEF Propagate, base, input, Live
<1>4. SUFFICES ASSUME ok, NEW cr \in Live', NEW i \in DOMAIN trail' PROVE Sup(cr, i)'
  BY <1>3 DEF SupportInv, Sup
<1>5. cr \in Live /\ i \in DOMAIN trail /\ ClauseKept(cr) /\ LevelKept(i) /\ i \in Nat
  BY <1>1, <1>3, <1>4, ClauseSame, LevelSame, TrailTypes
<1>6. CASE i # qhead'
  <2>1. Processed(i, cr)' => i < qhead'
    BY <1>3, <1>6 DEF Processed
  <2>2. i < qhead' => i < qhead \/ i = qhead
    BY <1>3, <1>5
  <2>3. ~ In(cr, todo)
    BY <1>3 DEF In, Range
  <2>4. Processed(i, cr)' => Processed(i, cr)
    BY <1>3, <2>1, <2>2, <2>3 DEF Processed
  <2> QED
    BY <1>1, <1>4, <1>5, <2>4, SupCarried
<1>7. CASE i = qhead'
  <2>1. SUFFICES ASSUME trail'[i] = -ca'[cr][1] \/ trail'[i] = -ca'[cr][2], Processed(i, cr)'
                 PROVE  FALSE
    BY DEF Sup
  <2>2. trail'[i] = p /\ p \in Literals
    <3>1. qhead + 1 \in 1..Len(trail) /\ trail \in Seq(Literals)
      BY <1>1, <1>3, TrailTypes
    <3> QED
      BY <1>2, <1>3, <1>7, <3>1
  <2>3. Watched(cr, p)'
    <3>1. Watched(cr, -ca[cr][1])' /\ Watched(cr, -ca[cr][2])'
      BY <1>1, <1>4 DEF WatchInv
    <3> QED
      BY <2>1, <2>2, <3>1 DEF Watched
  <2>4. ~ (i < qhead')
    BY <1>5, <1>7
  <2>5. ~ In(cr, todo)'
    BY <1>3, <2>1, <2>4 DEF Processed
  <2>6. In(cr, watches'[p])
    BY <2>3, <2>5 DEF Watched, In
  <2>7. watches'[p] = <<>>
    <3>1. watches \in [Literals -> Seq(Watchers)]
      BY <1>1 DEF TypeOK, TypeLists
    <3> QED
      BY <1>2, <2>2, <3>1
  <2> QED
    BY <2>6, <2>7 DEF In, Range
<1> QED
  BY <1>6, <1>7

LEMMA SupportSimplify ==
  ASSUME SolverInv, Next, Simplify
  PROVE  SupportInv'
<1>1. TypeOK /\ FlowInv /\ ClauseInv /\ SupportInv
  BY DEF SolverInv
<1>2. PICK S : SimplifyEffect(S)
  BY <1>1, SimplifySplit
<1>3. /\ UNCHANGED <<ok, trail, level, confl>> /\ ok /\ Propagated
  BY <1>1 DEF Simplify, SimplifyDone, input, FlowInv
<1>4. ASSUME NEW cr \in Live', NEW i \in DOMAIN trail' PROVE Sup(cr, i)'
  <2>1. SUFFICES ASSUME trail'[i] = -ca'[cr][1] \/ trail'[i] = -ca'[cr][2]
                 PROVE  FALSE
    BY DEF Sup
  <2>2. cr \in Live /\ cr \in Refs /\ cr \notin S /\ Shorter(ca[cr], ca'[cr])
    BY <1>1, <1>2, <1>4, ClauseTypes DEF SimplifyEffect
  <2>3. i \in DOMAIN trail /\ (trail[i] = -ca[cr][1] \/ trail[i] = -ca[cr][2])
    BY <1>3, <1>4, <2>1, <2>2 DEF Shorter
  <2>4. Processed(i, cr)
    <3>1. qhead = Len(trail) /\ ~ In(cr, todo) /\ confl = CRef_Undef
      BY <1>3 DEF Propagated, In, Range
    <3>2. i \in 1..Len(trail) /\ Len(trail) \in Nat
      BY <1>1, <2>3, TrailTypes
    <3>3. i < qhead \/ i = qhead
      BY <3>1, <3>2
    <3> QED
      BY <3>1, <3>3 DEF Processed
  <2>5. Supported(cr, i)
    BY <1>1, <1>3, <2>2, <2>3, <2>4 DEF SupportInv
  <2>6. Satisfied(cr)
    BY <1>1, <2>5, OnTrail DEF Supported, Satisfied
  <2> QED
    BY <1>2, <2>2, <2>6 DEF SimplifyEffect
<1> QED
  BY <1>4 DEF SupportInv, Sup

LEMMA SupportFrame ==
  ASSUME SolverInv, ok' => ok, UNCHANGED <<ca, trail, trail_lim, level, qhead, todo, confl>>,
         Live' \subseteq Live
  PROVE  SupportInv'
<1>1. SUFFICES ASSUME ok, NEW cr \in Live', NEW i \in DOMAIN trail' PROVE Sup(cr, i)'
  BY DEF SupportInv, Sup
<1>2. ClauseKept(cr) /\ LevelKept(i)
  BY <1>1, ClauseSame, LevelSame
<1>3. Processed(i, cr)' => Processed(i, cr)
  BY DEF Processed, In, Lv, decisionLevel
<1> QED
  BY <1>1, <1>2, <1>3, SupCarried DEF SolverInv

LEMMA AllProcessed ==
  ASSUME TypeOK, Propagated, NEW i \in DOMAIN trail, NEW cr
  PROVE  Processed(i, cr)
<1>1. qhead = Len(trail) /\ ~ In(cr, todo) /\ confl = CRef_Undef
  BY DEF Propagated, In, Range
<1>2. i \in 1..Len(trail) /\ Len(trail) \in Nat
  BY TrailTypes
<1>3. i < qhead \/ i = qhead
  BY <1>1, <1>2
<1> QED
  BY <1>1, <1>3 DEF Processed

LEMMA SupportAdd ==
  ASSUME SolverInv, Next, AddClause
  PROVE  SupportInv'
<1>1. TypeOK /\ FlowInv /\ TrailInv /\ ClauseInv /\ SupportInv /\ Propagated
  BY DEF SolverInv, AddClause
<1>2. AddEffect /\ UNCHANGED <<todo, confl>>
  BY <1>1, AddSplit DEF AddClause
<1>3. ASSUME UNCHANGED <<base, asgn>>, ok' => ok PROVE SupportInv'
  BY <1>2, <1>3, SupportFrame DEF base, asgn, Live
<1>4. ASSUME ok' = FALSE PROVE SupportInv'
  BY <1>4 DEF SupportInv
<1>5. ASSUME NEW c, KeptRight(c), Len(c) = 1, Enqueued(c[1], CRef_Undef, 0, trail),
             ~ Redundant(cnf[added + 1]), UNCHANGED <<ok, base, trail_lim, qhead>>
      PROVE  SupportInv'
  <2>1. PICK p, lv, tr : p = c[1] /\ lv = 0 /\ tr = trail
    OBVIOUS
  <2>2. Below(lv, tr) /\ Grown(p, CRef_Undef, lv, tr)
    BY <1>1, <1>5, <2>1, AddGrown
  <2>3. SUFFICES ASSUME ok, NEW cr \in Live' PROVE \A i \in DOMAIN trail' : Sup(cr, i)'
    BY <1>5 DEF SupportInv, Sup
  <2>4. ClauseKept(cr)
    BY <1>5, <2>3, ClauseSame DEF base, Live
  <2>5. \A i \in 1..Len(tr) : Processed(i, cr)
    <3>1. DOMAIN trail = 1..Len(tr)
      BY <1>1, <2>1, TrailTypes
    <3> QED
      BY <1>1, <3>1, AllProcessed
  <2>6. qhead' \in Nat /\ qhead' <= Len(tr) /\ confl' = CRef_Undef
    BY <1>1, <1>2, <1>5, <2>1, TrailTypes DEF Propagated
  <2> QED
    BY <2>2, <2>3, <2>4, <2>5, <2>6, SupportGrown
<1>6. ASSUME NEW c, KeptRight(c), Len(c) > 1, Appended(c), ok,
             clauses' = clauses \cup {Len(ca) + 1}, UNCHANGED <<learnts, removed, asgn>>
      PROVE  SupportInv'
  <2>1. UNCHANGED <<trail, trail_lim, level, qhead>>
    BY <1>6 DEF asgn
  <2>2. SUFFICES ASSUME NEW cr \in Live', NEW i \in DOMAIN trail' PROVE Sup(cr, i)'
    BY DEF SupportInv, Sup
  <2>3. i \in DOMAIN trail /\ LevelKept(i)
    BY <2>1, <2>2, LevelSame
  <2>4. CASE cr \in Live
    <3>1. ca'[cr] = ca[cr]
      BY <1>1, <1>6, <2>4, ClauseTypes DEF Appended
    <3>2. ClauseKept(cr)
      BY <2>4, <3>1, ClauseSame
    <3>3. Processed(i, cr)
      BY <1>1, <2>3, AllProcessed
    <3> QED
      BY <1>1, <1>6, <2>3, <3>2, <3>3, SupCarried
  <2>5. CASE cr = Len(ca) + 1
    <3>1. ca'[cr] = c
      BY <1>6, <2>5 DEF Appended
    <3>2. ASSUME NEW k \in 1..Len(c) PROVE trail[i] # -c[k]
      <4>1. c[k] \in Range(c)
        BY <1>6, <3>2, RangeIs DEF KeptRight
      <4>2. ~ IsFalse(c[k])
        BY <1>6, <4>1 DEF KeptRight
      <4> QED
        BY <1>1, <2>3, <4>2, OnTrail
    <3>3. 1 \in 1..Len(c) /\ 2 \in 1..Len(c)
      BY <1>6 DEF KeptRight
    <3>4. trail'[i] # -ca'[cr][1] /\ trail'[i] # -ca'[cr][2]
      BY <2>1, <3>1, <3>2, <3>3
    <3> QED
      BY <3>4 DEF Sup
  <2>6. cr \in Live \/ cr = Len(ca) + 1
    BY <1>6, <2>2 DEF Live
  <2> QED
    BY <2>4, <2>5, <2>6
<1> QED
  BY <1>2, <1>3, <1>4, <1>5, <1>6 DEF AddEffect

LEMMA SupportStep ==
  ASSUME SolverInv, Next
  PROVE  SupportInv'
<1>1. /\ TypeOK /\ FlowInv /\ TrailInv /\ ClauseInv /\ SupportInv
  BY DEF SolverInv
<1>2. CASE Contradiction \/ Refuted
  <2>1. ok' = FALSE
    BY <1>2 DEF Contradiction, Refuted
  <2> QED
    BY <2>1 DEF SupportInv
<1>3. CASE EndAdding \/ Analyze \/ Resolve \/ NoRestart
  <2>1. UNCHANGED <<base, lists, asgn, confl, input>>
    BY <1>3 DEF EndAdding, Analyze, Resolve, NoRestart
  <2> QED
    BY <2>1, SupportFrame DEF base, lists, asgn, input, Live
<1>4. CASE SimplifyNothing
  <2>1. UNCHANGED <<base, todo, trail, trail_lim, level, qhead, confl, ok>>
    BY <1>4 DEF SimplifyNothing, SimplifyDone, input
  <2> QED
    BY <2>1, SupportFrame DEF base, Live
<1>5. CASE Reduce
  <2>1. UNCHANGED <<ca, clauses, todo, trail, trail_lim, level, qhead, confl, ok>>
    BY <1>5 DEF Reduce, input
  <2>2. learnts' \subseteq learnts
    BY <1>5 DEF Reduce
  <2> QED
    BY <2>1, <2>2, SupportFrame DEF Live
<1>6. CASE Restart \/ ModelFound
  <2>1. PICK tr : Cut(0, tr) /\ trail' = tr /\ UNCHANGED <<level, reason>>
    BY <1>1, <1>6, CutZero
  <2>2. Propagated /\ UNCHANGED <<base, ok>>
    BY <1>1, <1>6 DEF Restart, ModelFound, FlowInv, input
  <2>3. SUFFICES ASSUME ok, NEW cr \in Live', NEW i \in DOMAIN trail' PROVE Sup(cr, i)'
    BY <2>2 DEF SupportInv, Sup
  <2>4. ClauseKept(cr)
    BY <2>2, <2>3, ClauseSame DEF base, Live
  <2>5. i \in 1..Len(tr) /\ i \in DOMAIN trail
    BY <2>1, <2>3 DEF Cut
  <2>6. LevelKept(i) /\ Processed(i, cr)
    BY <1>1, <2>1, <2>2, <2>5, LevelCut, AllProcessed
  <2> QED
    BY <1>1, <2>3, <2>4, <2>6, SupCarried
<1>7. CASE Branch
  <2>1. PICK p, n, tr : tr = trail /\ Grown(p, CRef_Undef, n, tr)
    BY <1>1, <1>7, BranchGrown
  <2>2. Propagated /\ UNCHANGED <<base, ok, qhead, confl>>
    BY <1>1, <1>7 DEF Branch, FlowInv, input
  <2>3. SUFFICES ASSUME ok, NEW cr \in Live', NEW i \in DOMAIN trail' PROVE Sup(cr, i)'
    BY <2>2 DEF SupportInv, Sup
  <2>4. ClauseKept(cr)
    BY <2>2, <2>3, ClauseSame DEF base, Live
  <2>5. Len(tr) \in Nat /\ (i \in 1..Len(tr) \/ i = Len(tr) + 1)
    BY <2>1 DEF Grown
  <2>6. CASE i \in 1..Len(tr)
    <3>1. LevelKept(i)
      BY <1>1, <2>1, <2>6, LevelBranch
    <3>2. Processed(i, cr)
      <4>1. i \in DOMAIN trail
        BY <1>1, <2>1, <2>6, TrailTypes
      <4> QED
        BY <1>1, <2>2, <4>1, AllProcessed
    <3> QED
      BY <1>1, <2>3, <2>4, <3>1, <3>2, SupCarried
  <2>7. CASE i = Len(tr) + 1
    <3>1. qhead' = Len(tr) /\ confl' = CRef_Undef
      BY <2>1, <2>2 DEF Propagated
    <3>2. ~ (i < qhead') /\ i # qhead'
      BY <2>5, <2>7, <3>1
    <3>3. ~ Processed(i, cr)'
      BY <3>1, <3>2 DEF Processed
    <3> QED
      BY <3>3 DEF Sup
  <2> QED
    BY <2>5, <2>6, <2>7
<1> QED
  BY <1>2, <1>3, <1>4, <1>5, <1>6, <1>7, SupportAdd, SupportPropagate, SupportVisit, SupportLearn,
     SupportSimplify DEF Next

-----------------------------------------------------------------------------
LEMMA ModelsStay ==
  ASSUME cnf' = cnf
  PROVE  Assignments' = Assignments /\ Models' = Models
BY SameLits DEF Assignments, Models, Satisfies, Holds

LEMMA AnalyzeStart ==
  ASSUME SolverInv, Next, Analyze
  PROVE  AnalyzeInv'
<1>1. PICK a : a = an'
  OBVIOUS
<1>2. /\ a.p = 0 /\ a.index = Len(trail) /\ a.seen = {} /\ a.pathC = 0 /\ a.out = <<>>
      /\ a.confl = confl
  BY <1>1 DEF Analyze, Idle
<1>3. pc' = "analyze" /\ confl' = confl /\ trail' = trail
  BY DEF Analyze, asgn
<1>4. SeenOnTrail(an)' /\ OutIsSeen(an)'
  BY <1>1, <1>2 DEF SeenOnTrail, OutIsSeen
<1>5. Counted(an)'
  <2>1. {v \in a.seen : level'[v] = decisionLevel'} = {}
    BY <1>2
  <2> QED
    BY <1>1, <1>2, <2>1, FS_EmptySet DEF Counted
<1> QED
  BY <1>1, <1>2, <1>3, <1>4, <1>5 DEF AnalyzeInv

LEMMA AnalyzeGoesOn ==
  ASSUME SolverInv, Next, Resolve
  PROVE  AnalyzeInv'
<1>1. /\ TypeOK /\ FlowInv /\ TrailInv /\ ClauseInv /\ ReasonInv /\ ConflictInv /\ AnalyzeInv
      /\ ModelInv /\ pc = "analyze"
  BY DEF SolverInv, Resolve
<1>2. PICK C, Q, N, now, S, i, b :
           /\ Step(C, Q, N, now, S, i, b) /\ an' = b
           /\ pc' = IF an.pathC + Cardinality(now) > 1 THEN "analyze" ELSE "learn"
  BY <1>1, ResolveSplit
<1>3. /\ SeenOnTrail(an) /\ Counted(an) /\ OutIsSeen(an)
      /\ an.p # 0 => \A A \in Models : Excluded(an, A)
  BY <1>1 DEF AnalyzeInv
<1>4. SeenOnTrail(b) /\ LastPicked(b) /\ b.p # 0
  BY <1>1, <1>2, <1>3, StepSeen
<1>5. Counted(b) /\ b.pathC \in Nat /\ Cardinality(now) \in Nat
  BY <1>1, <1>2, <1>3, StepCounted
<1>6. OutIsSeen(b)
  BY <1>1, <1>2, <1>3, StepOut
<1>7. \A A \in Models : Excluded(b, A)
  BY <1>1, <1>2, <1>3, StepExcluded
<1>8. UNCHANGED <<trail, trail_lim, level, reason, confl, cnf>>
  BY DEF Resolve, asgn, input
<1>9. SeenOnTrail(an)'
  BY <1>2, <1>4, <1>8 DEF SeenOnTrail, Lv, decisionLevel
<1>10. Counted(an)'
  <2>1. {v \in b.seen : level'[v] = decisionLevel'} = {v \in b.seen : level[v] = decisionLevel}
    BY <1>8 DEF decisionLevel
  <2> QED
    BY <1>2, <1>5, <2>1 DEF Counted
<1>11. OutIsSeen(an)'
  BY <1>2, <1>6, <1>8 DEF OutIsSeen, IsFalse, decisionLevel
<1>12. LastPicked(an)'
  BY <1>2, <1>4, <1>8 DEF LastPicked, Lv, decisionLevel
<1>13. \A A \in Models' : Excluded(an, A)'
  <2>1. Models' = Models
    BY <1>8, ModelsStay
  <2> QED
    BY <1>2, <1>7, <1>8, <2>1 DEF Excluded, Holds
<1>14. pc' \in {"analyze", "learn"} /\ (pc' = "analyze" <=> b.pathC > 0)
  <2>1. b.pathC = an.pathC + Cardinality(now) - 1
    BY <1>2 DEF Step
  <2>2. an.pathC \in Int
    BY <1>1 DEF TypeOK, TypeAnalysis
  <2>3. an.pathC + Cardinality(now) > 1 <=> b.pathC > 0
    BY <1>5, <2>1, <2>2
  <2> QED
    BY <1>2, <2>3
<1> QED
  BY <1>2, <1>4, <1>9, <1>10, <1>11, <1>12, <1>13, <1>14 DEF AnalyzeInv

LEMMA AnalyzeStep ==
  ASSUME SolverInv, Next
  PROVE  AnalyzeInv'
<1>1. FlowInv
  BY DEF SolverInv
<1>2. SUFFICES ASSUME pc' \in {"analyze", "learn"} PROVE Analyze \/ Resolve
  BY AnalyzeStart, AnalyzeGoesOn DEF AnalyzeInv
<1>3. ~ Learn /\ ~ Refuted /\ ~ NoRestart /\ ~ Reduce /\ ~ Branch /\ ~ ModelFound /\ ~ EndAdding
  BY <1>2 DEF Learn, Refuted, NoRestart, Reduce, Branch, ModelFound, EndAdding
<1>4. ~ Simplify /\ ~ SimplifyNothing
  BY <1>2 DEF Simplify, SimplifyNothing, SimplifyDone
<1>5. ~ AddClause /\ ~ Contradiction /\ ~ Restart
  BY <1>2 DEF AddClause, Contradiction, Restart
<1>6. ~ Propagate /\ ~ Visit
  BY <1>1, <1>2 DEF Propagate, Visit, FlowInv
<1> QED
  BY <1>3, <1>4, <1>5, <1>6 DEF Next

-----------------------------------------------------------------------------
(* The literals of level 0 hold in the assignment A.                       *)
LEMMA TrueHolds ==
  ASSUME TypeOK, NEW A, Root(A), NEW l \in Literals, level[Var(l)] = 0
  PROVE  /\ IsTrue(l) => Holds(l, A)
         /\ IsFalse(l) => ~ Holds(l, A)
<1>1. ASSUME NEW m \in Literals, Var(m) = Var(l), IsTrue(m) PROVE Holds(m, A)
  <2>1. PICK i \in DOMAIN trail : trail[i] = m
    BY <1>1, OnTrail
  <2>2. Lv(i) = 0
    BY <1>1, <2>1 DEF Lv
  <2> QED
    BY <2>1, <2>2 DEF Root
<1>2. -l \in Literals /\ Var(-l) = Var(l)
  BY LitFacts
<1>3. IsFalse(l) => Holds(-l, A)
  BY <1>1, <1>2 DEF IsFalse, IsTrue
<1> QED
  BY <1>1, <1>3, HoldsNot

LEMMA AtZero ==
  ASSUME TypeOK, TrailInv, decisionLevel = 0, NEW l \in Literals, IsTrue(l) \/ IsFalse(l)
  PROVE  level[Var(l)] = 0
<1>1. PICK i \in DOMAIN trail : trail[i] = l \/ trail[i] = -l
  BY OnTrail
<1>2. Var(trail[i]) = Var(l)
  BY <1>1, LitFacts
<1>3. Lv(i) \in Nat /\ Lv(i) <= 0
  BY TrailTypes DEF TrailInv
<1> QED
  BY <1>2, <1>3 DEF Lv

(* A clause that A satisfies, of which the literals at level 0 leave one.  *)
LEMMA UnitHolds ==
  ASSUME TypeOK, NEW A, Root(A), NEW c \in Seq(Literals), Satisfies(A, c),
         \A k \in 2..Len(c) : IsFalse(c[k]) /\ level[Var(c[k])] = 0
  PROVE  Len(c) > 0 /\ Holds(c[1], A)
<1>1. PICK l : l \in Range(c) /\ Holds(l, A)
  BY DEF Satisfies
<1>2. PICK k \in 1..Len(c) : c[k] = l
  BY <1>1, RangeIs
<1>3. k \notin 2..Len(c)
  <2> SUFFICES ASSUME k \in 2..Len(c) PROVE FALSE
    OBVIOUS
  <2>1. l \in Literals /\ IsFalse(l) /\ level[Var(l)] = 0
    BY <1>2
  <2> QED
    BY <1>1, <2>1, TrueHolds
<1>4. k = 1 /\ Len(c) > 0
  BY <1>2, <1>3
<1> QED
  BY <1>1, <1>2, <1>4

LEMMA RootGrown ==
  ASSUME TypeOK, NEW A, Root(A), NEW p, NEW from, NEW lv, NEW tr, Grown(p, from, lv, tr),
         lv = 0 => Holds(p, A)
  PROVE  Root(A)'
<1> SUFFICES ASSUME NEW i \in DOMAIN trail', Lv(i)' = 0 PROVE Holds(trail[i], A)'
  BY DEF Root
<1>1. i \in 1..Len(tr) \/ i = Len(tr) + 1
  BY DEF Grown
<1>2. CASE i \in 1..Len(tr)
  <2>1. i \in DOMAIN trail /\ trail'[i] = trail[i] /\ level'[Var(trail'[i])] = Lv(i)
    BY <1>2 DEF Grown
  <2>2. Lv(i) = 0
    BY <2>1 DEF Lv
  <2> QED
    BY <2>1, <2>2 DEF Root, Holds
<1>3. CASE i = Len(tr) + 1
  BY <1>3 DEF Grown, Lv, Holds
<1> QED
  BY <1>1, <1>2, <1>3

LEMMA RootSame ==
  ASSUME NEW A, Root(A), UNCHANGED <<trail, level>>
  PROVE  Root(A)'
BY DEF Root, Lv, Holds

LEMMA RootBack ==
  ASSUME Stays, NEW A, Root(A)'
  PROVE  Root(A)
<1> SUFFICES ASSUME NEW i \in DOMAIN trail, Lv(i) = 0 PROVE Holds(trail[i], A)
  BY DEF Root
<1>1. PICK l : l = trail[i]
  OBVIOUS
<1>2. Fixed(l)'
  BY <1>1 DEF Fixed, Stays
<1>3. PICK j \in DOMAIN trail' : trail'[j] = l /\ Lv(j)' = 0
  BY <1>2 DEF Fixed
<1>4. Holds(trail[j], A)'
  BY <1>3 DEF Root
<1> QED
  BY <1>1, <1>3, <1>4 DEF Holds

(* The models of two clauses with the same literals.                       *)
LEMMA SatisfiesMore ==
  ASSUME NEW A, NEW c, NEW d, Satisfies(A, c), \A l : l \in Range(c) => l \in Range(d) \/ ~ Holds(l, A)
  PROVE  Satisfies(A, d)
BY DEF Satisfies

(* What is left of a clause that is added.                                 *)
LEMMA AddedHolds ==
  ASSUME TypeOK, FlowInv, TrailInv, pc = "add", added < Len(cnf), NEW c, KeptRight(c),
         NEW A, Root(A), Satisfies(A, cnf[added + 1])
  PROVE  Satisfies(A, c)
<1>1. decisionLevel = 0
  BY DEF FlowInv
<1>2. PICK d : d = cnf[added + 1]
  OBVIOUS
<1>3. /\ d \in Seq(Literals) /\ Satisfies(A, d)
      /\ \A l : l \in Range(c) <=> l \in Range(d) /\ ~ IsFalse(l)
  BY <1>2 DEF KeptRight
<1>4. ASSUME NEW l \in Range(d) PROVE l \in Range(c) \/ ~ Holds(l, A)
  <2>1. l \in Literals
    <3>1. PICK k \in 1..Len(d) : d[k] = l
      BY <1>3, RangeIs
    <3> QED
      BY <1>3, <3>1
  <2>2. IsFalse(l) => ~ Holds(l, A)
    BY <1>1, <2>1, AtZero, TrueHolds
  <2> QED
    BY <1>3, <2>2
<1> QED
  BY <1>3, <1>4, SatisfiesMore

LEMMA RootStep ==
  ASSUME SolverInv, Next, NEW A \in Models
  PROVE  Root(A)'
<1>1. /\ TypeOK /\ FlowInv /\ TrailInv /\ ClauseInv /\ WatchInv /\ ReasonInv /\ AnalyzeInv
      /\ ModelInv
  BY DEF SolverInv
<1>2. Root(A) /\ \A cr \in Refs : Satisfies(A, ca[cr])
  BY <1>1 DEF ModelInv
<1>3. ASSUME UNCHANGED <<trail, level>> PROVE Root(A)'
  BY <1>2, <1>3, RootSame
<1>4. CASE Contradiction \/ EndAdding \/ Propagate \/ Analyze \/ Resolve \/ Refuted \/ NoRestart
           \/ Reduce \/ Simplify \/ SimplifyNothing
  BY <1>3, <1>4 DEF Contradiction, EndAdding, Propagate, Analyze, Resolve, Refuted, NoRestart,
                    Reduce, Simplify, SimplifyNothing, SimplifyDone, asgn
<1>5. CASE AddClause
  <2>1. AddEffect /\ pc = "add" /\ added < Len(cnf)
    BY <1>1, <1>5, AddSplit DEF AddClause
  <2>2. ASSUME NEW c, KeptRight(c), Len(c) = 1, Enqueued(c[1], CRef_Undef, 0, trail),
               ~ Redundant(cnf[added + 1]), UNCHANGED <<trail_lim, qhead>>
        PROVE  Root(A)'
    <3>1. PICK p, lv, tr : p = c[1] /\ lv = 0 /\ tr = trail
      OBVIOUS
    <3>2. Below(lv, tr) /\ Grown(p, CRef_Undef, lv, tr)
      BY <1>1, <1>5, <2>2, <3>1, AddGrown
    <3>3. Satisfies(A, cnf[added + 1])
      <4>1. added + 1 \in DOMAIN cnf
        BY <1>1, <2>1, LitFacts, Lits DEF TypeOK, TypeFlow
      <4> QED
        BY <4>1 DEF Models
    <3>4. Satisfies(A, c)
      BY <1>1, <1>2, <2>1, <2>2, <3>3, AddedHolds
    <3>5. Holds(p, A)
      <4>1. c \in Seq(Literals) /\ \A k \in 2..Len(c) : FALSE
        BY <2>2 DEF KeptRight
      <4> QED
        BY <1>1, <1>2, <3>1, <3>4, <4>1, UnitHolds
    <3> QED
      BY <1>1, <1>2, <3>2, <3>5, RootGrown
  <2> QED
    BY <1>3, <2>1, <2>2 DEF AddEffect, asgn
<1>6. CASE Visit
  <2>1. PICK w, p, c : Visited(w, p, c) /\ VisitEffect(w, p, c)
    BY <1>1, <1>6, VisitSplit
  <2>2. \/ UNCHANGED <<trail, level>>
        \/ \E u : VisitUnit(p, w.cref, c, u) /\ Enqueued(c[1], w.cref, decisionLevel, trail)
    BY <2>1 DEF VisitEffect, VisitSatisfied, VisitTrue, VisitFalse, asgn
  <2>3. ASSUME NEW u, VisitUnit(p, w.cref, c, u), Enqueued(c[1], w.cref, decisionLevel, trail)
        PROVE  Root(A)'
    <3>1. PICK q, r, lv, tr : q = c[1] /\ r = w.cref /\ lv = decisionLevel /\ tr = trail
      OBVIOUS
    <3>2. Grown(q, r, lv, tr)
      BY <1>1, <2>1, <2>3, <3>1, VisitGrown
    <3>3. /\ c \in Seq(Literals) /\ Len(c) > 1
          /\ \A k \in 2..Len(c) : IsFalse(c[k]) /\ level[Var(c[k])] <= lv
      <4>1. Free(c) = {}
        BY <2>3 DEF VisitUnit
      <4> QED
        BY <1>1, <2>1, <3>1, <4>1, VisitEnd
    <3>4. Satisfies(A, c)
      <4>1. w.cref \in Refs /\ \A l : l \in Range(c) <=> l \in Range(ca[w.cref])
        BY <2>1 DEF Visited, Permuted
      <4> QED
        BY <1>2, <4>1 DEF Satisfies
    <3>5. lv = 0 => \A k \in 2..Len(c) : level[Var(c[k])] = 0
      <4> SUFFICES ASSUME lv = 0, NEW k \in 2..Len(c) PROVE level[Var(c[k])] = 0
        OBVIOUS
      <4>1. c[k] \in Literals
        BY <3>3
      <4>2. level[Var(c[k])] \in Nat
        BY <1>1, <4>1, LitFacts, TrailTypes
      <4> QED
        BY <3>3, <4>2
    <3>6. lv = 0 => Holds(q, A)
      BY <1>1, <1>2, <3>1, <3>3, <3>4, <3>5, UnitHolds
    <3> QED
      BY <1>1, <1>2, <3>2, <3>6, RootGrown
  <2> QED
    BY <1>3, <2>2, <2>3
<1>7. CASE Learn
  <2>1. PICK c, lv, tr : LearnEffect(c, lv, tr)
    BY <1>1, <1>7, LearnSplit
  <2>2. PICK p, r : p = c[1] /\ r = IF Len(c) = 1 THEN CRef_Undef ELSE Len(ca) + 1
    OBVIOUS
  <2>3. Grown(p, r, lv, tr)
    BY <1>1, <1>7, <2>1, <2>2, LearnGrown
  <2>4. /\ c \in Seq(Literals) /\ Satisfies(A, c)
        /\ \A k \in 2..Len(c) : IsFalse(c[k]) /\ c[k] \in Literals /\ level[Var(c[k])] <= lv
    BY <2>1 DEF LearnEffect, LearntRight
  <2>5. lv = 0 => \A k \in 2..Len(c) : level[Var(c[k])] = 0
    <3> SUFFICES ASSUME lv = 0, NEW k \in 2..Len(c) PROVE level[Var(c[k])] = 0
      OBVIOUS
    <3>1. level[Var(c[k])] \in Nat
      BY <1>1, <2>4, LitFacts, TrailTypes
    <3> QED
      BY <2>4, <3>1
  <2>6. lv = 0 => Holds(p, A)
    BY <1>1, <1>2, <2>2, <2>4, <2>5, UnitHolds
  <2> QED
    BY <1>1, <1>2, <2>3, <2>6, RootGrown
<1>8. CASE Restart \/ ModelFound
  <2>1. PICK tr : Cut(0, tr) /\ trail' = tr /\ level' = level
    BY <1>1, <1>8, CutZero
  <2>2. ASSUME NEW i \in DOMAIN trail' PROVE i \in DOMAIN trail /\ trail'[i] = trail[i]
    BY <2>1, <2>2 DEF Cut
  <2> QED
    BY <1>2, <2>1, <2>2 DEF Root, Lv, Holds
<1>9. CASE Branch
  <2>1. PICK p, n, tr : n = decisionLevel + 1 /\ Grown(p, CRef_Undef, n, tr)
    BY <1>1, <1>9, BranchGrown
  <2>2. n # 0
    BY <1>1, <2>1, TrailTypes
  <2> QED
    BY <1>1, <1>2, <2>1, <2>2, RootGrown
<1> QED
  BY <1>4, <1>5, <1>6, <1>7, <1>8, <1>9 DEF Next

(* Satisfied clauses stay satisfied when false literals are dropped.       *)
LEMMA TrimmedHolds ==
  ASSUME TypeOK, TrailInv, decisionLevel = 0, NEW A, Root(A), NEW c \in Seq(Literals),
         NEW d, d \in Seq(Literals), Shorter(c, d), Satisfies(A, c)
  PROVE  Satisfies(A, d)
<1>1. ASSUME NEW l \in Range(c) PROVE l \in Range(d) \/ ~ Holds(l, A)
  <2>1. PICK i \in 1..Len(c) : c[i] = l
    BY <1>1, RangeIs
  <2>2. l \in Literals
    BY <2>1
  <2>3. IsFalse(c[i]) \/ \E k \in 1..Len(d) : d[k] = c[i]
    BY DEF Shorter
  <2>4. CASE IsFalse(l)
    BY <2>2, <2>4, AtZero, TrueHolds
  <2>5. ASSUME NEW k \in 1..Len(d), d[k] = l PROVE l \in Range(d)
    BY <2>5, RangeIs
  <2> QED
    BY <2>1, <2>3, <2>4, <2>5
<1> QED
  BY <1>1, SatisfiesMore

LEMMA BaseHolds ==
  ASSUME SolverInv, Next, NEW A \in Models
  PROVE  \A cr \in Refs' : Satisfies(A, ca'[cr])
<1>1. /\ TypeOK /\ FlowInv /\ TrailInv /\ ClauseInv /\ WatchInv /\ ReasonInv /\ AnalyzeInv
      /\ ModelInv
  BY DEF SolverInv
<1>2. Root(A) /\ \A cr \in Refs : Satisfies(A, ca[cr])
  BY <1>1 DEF ModelInv
<1>3. ASSUME UNCHANGED ca PROVE \A cr \in Refs' : Satisfies(A, ca'[cr])
  BY <1>2, <1>3 DEF Refs
<1>4. CASE Contradiction \/ EndAdding \/ Propagate \/ Analyze \/ Resolve \/ Refuted \/ NoRestart
           \/ Restart \/ ModelFound \/ Branch \/ Reduce \/ SimplifyNothing
  BY <1>3, <1>4 DEF Contradiction, EndAdding, Propagate, Analyze, Resolve, Refuted, NoRestart,
                    Restart, ModelFound, Branch, Reduce, SimplifyNothing, base
<1>5. ASSUME NEW c, Appended(c), Satisfies(A, c) PROVE \A cr \in Refs' : Satisfies(A, ca'[cr])
  BY <1>2, <1>5 DEF Appended
<1>6. CASE AddClause
  <2>1. AddEffect /\ pc = "add" /\ added < Len(cnf)
    BY <1>1, <1>6, AddSplit DEF AddClause
  <2>2. ASSUME NEW c, KeptRight(c), Appended(c) PROVE \A cr \in Refs' : Satisfies(A, ca'[cr])
    <3>1. Satisfies(A, cnf[added + 1])
      <4>1. added + 1 \in DOMAIN cnf
        BY <1>1, <2>1, LitFacts, Lits DEF TypeOK, TypeFlow
      <4> QED
        BY <4>1 DEF Models
    <3>2. Satisfies(A, c)
      BY <1>1, <1>2, <2>1, <2>2, <3>1, AddedHolds
    <3> QED
      BY <1>5, <2>2, <3>2
  <2> QED
    BY <1>3, <2>1, <2>2 DEF AddEffect, base
<1>7. CASE Visit
  <2>1. PICK w, p, c : Visited(w, p, c) /\ VisitEffect(w, p, c)
    BY <1>1, <1>7, VisitSplit
  <2>2. ASSUME NEW d, Reordered(w.cref, d), Permuted(ca[w.cref], d)
        PROVE  \A cr \in Refs' : Satisfies(A, ca'[cr])
    <3>1. Satisfies(A, d)
      <4>1. w.cref \in Refs
        BY <2>1 DEF Visited
      <4> QED
        BY <1>2, <2>2, <4>1 DEF Satisfies, Permuted
    <3> QED
      BY <1>2, <2>2, <3>1 DEF Reordered
  <2>3. \/ UNCHANGED ca
        \/ \E d : Reordered(w.cref, d) /\ Permuted(ca[w.cref], d)
    BY <2>1 DEF VisitEffect, VisitSatisfied, Visited, Moved
  <2> QED
    BY <1>3, <2>2, <2>3
<1>8. CASE Learn
  <2>1. PICK c, lv, tr : LearnEffect(c, lv, tr)
    BY <1>1, <1>8, LearnSplit
  <2>2. Satisfies(A, c)
    BY <2>1 DEF LearnEffect, LearntRight
  <2> QED
    BY <1>3, <1>5, <2>1, <2>2 DEF LearnEffect
<1>9. CASE Simplify
  <2>1. PICK S : SimplifyEffect(S)
    BY <1>1, <1>9, SimplifySplit
  <2>2. decisionLevel = 0
    BY <1>1, <1>9 DEF FlowInv, Simplify
  <2>3. ca' \in Seq(Seq(Literals)) /\ DOMAIN ca' = Refs' /\ Refs' = Refs
    BY <2>1 DEF SimplifyEffect, Refs
  <2>4. ASSUME NEW cr \in Refs' PROVE Satisfies(A, ca'[cr])
    <3>1. cr \in Refs /\ (Shorter(ca[cr], ca'[cr]) \/ ca'[cr] = ca[cr])
      BY <2>1, <2>3, <2>4 DEF SimplifyEffect
    <3>2. CASE ca'[cr] = ca[cr]
      BY <1>2, <3>1, <3>2
    <3>3. CASE Shorter(ca[cr], ca'[cr])
      <4>1. PICK c, d : c = ca[cr] /\ d = ca'[cr]
        OBVIOUS
      <4>2. c \in Seq(Literals) /\ Satisfies(A, c)
        BY <1>1, <1>2, <3>1, <4>1, ClauseTypes
      <4>3. d \in Seq(Literals)
        BY <2>3, <2>4, <4>1
      <4>4. Satisfies(A, d)
        BY <1>1, <1>2, <2>2, <3>3, <4>1, <4>2, <4>3, TrimmedHolds
      <4> QED
        BY <4>1, <4>4
    <3> QED
      BY <3>1, <3>2, <3>3
  <2> QED
    BY <2>4
<1> QED
  BY <1>4, <1>6, <1>7, <1>8, <1>9 DEF Next

(* Nothing is lost: what is left has no other models.                      *)
Enough(A) ==
  /\ \A i \in added + 1..Len(cnf) : Satisfies(A, cnf[i])
  /\ \A cr \in clauses : Satisfies(A, ca[cr])
  /\ Root(A)

LEMMA EnoughAdd ==
  ASSUME SolverInv, Next, AddClause, ok', NEW A \in Assignments, Enough(A)'
  PROVE  Enough(A)
<1>1. /\ TypeOK /\ FlowInv /\ TrailInv /\ ClauseInv /\ Stays
      /\ pc = "add" /\ added < Len(cnf) /\ added' = added + 1 /\ cnf' = cnf
  BY FixedStays DEF SolverInv, AddClause, Stays
<1>2. /\ added \in Nat /\ Len(cnf) \in Nat /\ decisionLevel = 0
      /\ cnf \in Seq(Seq(Literals))
  BY <1>1, Lits DEF TypeOK, TypeFlow, FlowInv
<1>3. Root(A)
  BY <1>1, RootBack DEF Enough
<1>4. PICK n, d : n = added + 1 /\ d = cnf[n]
  OBVIOUS
<1>5. n \in 1..Len(cnf) /\ d \in Seq(Literals)
  BY <1>1, <1>2, <1>4
<1>6. ASSUME NEW l \in Range(d) PROVE l \in Literals
  <2>1. PICK k \in 1..Len(d) : d[k] = l
    BY <1>5, <1>6, RangeIs
  <2> QED
    BY <1>5, <2>1
<1>7. AddEffect
  BY <1>1, AddSplit
<1>8. ASSUME Redundant(d) PROVE Satisfies(A, d)
  <2>1. PICK l \in Range(d) : IsTrue(l) \/ -l \in Range(d)
    BY <1>8 DEF Redundant
  <2>2. CASE IsTrue(l)
    <3>1. Holds(l, A)
      BY <1>1, <1>2, <1>3, <1>6, <2>1, <2>2, AtZero, TrueHolds
    <3> QED
      BY <2>1, <3>1 DEF Satisfies
  <2>3. CASE -l \in Range(d)
    <3>1. Holds(l, A) \/ Holds(-l, A)
      BY <1>1, <1>6, <2>1, HoldsNot
    <3> QED
      BY <2>1, <2>3, <3>1 DEF Satisfies
  <2> QED
    BY <2>1, <2>2, <2>3
<1>9. ASSUME NEW c, KeptRight(c), Satisfies(A, c) PROVE Satisfies(A, d)
  <2>1. \A l : l \in Range(c) => l \in Range(d)
    BY <1>4, <1>9 DEF KeptRight
  <2> QED
    BY <1>9, <2>1 DEF Satisfies
<1>10. ASSUME Satisfies(A, d), \A cr \in clauses : Satisfies(A, ca[cr]) PROVE Enough(A)
  <2>1. ASSUME NEW i \in added + 1..Len(cnf) PROVE Satisfies(A, cnf[i])
    <3>1. CASE i = n
      BY <1>4, <1>10, <3>1
    <3>2. CASE i # n
      <4>1. i \in n + 1..Len(cnf)
        BY <1>2, <1>4, <3>2
      <4>2. \A j \in n + 1..Len(cnf) : Satisfies(A, cnf[j])
        BY <1>1, <1>4 DEF Enough, Satisfies, Holds
      <4> QED
        BY <4>1, <4>2
    <3> QED
      BY <3>1, <3>2
  <2> QED
    BY <1>3, <1>10, <2>1 DEF Enough
<1>11. \A cr \in clauses' : Satisfies(A, ca'[cr])
  BY DEF Enough, Satisfies, Holds
<1>12. CASE UNCHANGED <<ok, base, watches, asgn>> /\ (~ ok \/ Redundant(d))
  BY <1>8, <1>10, <1>11, <1>12 DEF base
<1>13. ASSUME NEW c, KeptRight(c), Len(c) = 1, Enqueued(c[1], CRef_Undef, 0, trail),
              ~ Redundant(cnf[added + 1]), UNCHANGED <<base, trail_lim, qhead>>
       PROVE  Enough(A)
  <2>1. PICK p, lv, tr, m : p = c[1] /\ lv = 0 /\ tr = trail /\ m = Len(tr) + 1
    OBVIOUS
  <2>2. Grown(p, CRef_Undef, lv, tr)
    BY <1>1, <1>13, <2>1, AddGrown
  <2>3. m \in DOMAIN trail' /\ trail'[m] = p /\ Lv(m)' = 0
    BY <2>1, <2>2 DEF Grown, Lv
  <2>4. Holds(p, A)
    BY <2>3 DEF Enough, Root, Holds
  <2>5. Satisfies(A, c)
    <3>1. c \in Seq(Literals) /\ 1 \in 1..Len(c)
      BY <1>13 DEF KeptRight
    <3>2. p \in Range(c)
      BY <2>1, <3>1, RangeIs
    <3> QED
      BY <2>4, <3>2 DEF Satisfies
  <2> QED
    BY <1>9, <1>10, <1>11, <1>13, <2>5 DEF base
<1>14. ASSUME NEW c, KeptRight(c), Appended(c), clauses' = clauses \cup {Len(ca) + 1}
       PROVE  Enough(A)
  <2>1. Satisfies(A, c)
    BY <1>11, <1>14 DEF Appended
  <2>2. \A cr \in clauses : Satisfies(A, ca[cr])
    BY <1>1, <1>11, <1>14, ClauseTypes DEF Live, Appended
  <2> QED
    BY <1>9, <1>10, <1>14, <2>1, <2>2
<1> QED
  BY <1>4, <1>7, <1>12, <1>13, <1>14 DEF AddEffect

LEMMA EnoughStep ==
  ASSUME SolverInv, Next, ok', NEW A \in Assignments, Enough(A)'
  PROVE  ok /\ Enough(A)
<1>1. /\ TypeOK /\ FlowInv /\ TrailInv /\ ClauseInv /\ WatchInv /\ ReasonInv /\ AnalyzeInv
      /\ ModelInv /\ Stays /\ cnf' = cnf
  BY FixedStays, Same DEF SolverInv, Stays
<1>2. Root(A)
  BY <1>1, RootBack DEF Enough
<1>3. \A cr \in clauses' : Satisfies(A, ca'[cr])
  BY DEF Enough, Satisfies, Holds
<1>4. CASE AddClause
  <2>1. ok
    BY <1>1, <1>4, AddSplit DEF AddEffect
  <2> QED
    BY <1>4, <2>1, EnoughAdd
<1>5. CASE ~ AddClause
  <2>1. ok' = ok /\ added' = added
    BY <1>5 DEF Next, Contradiction, EndAdding, Propagate, Analyze, Resolve, Refuted, NoRestart,
                Restart, ModelFound, Branch, Reduce, SimplifyNothing, Simplify, SimplifyDone, Visit,
                Learn, input
  <2>2. \A i \in added + 1..Len(cnf) : Satisfies(A, cnf[i])
    BY <1>1, <2>1 DEF Enough, Satisfies, Holds
  <2>3. SUFFICES \A cr \in clauses : Satisfies(A, ca[cr])
    BY <1>2, <2>1, <2>2 DEF Enough
  <2>4. clauses \subseteq Refs
    BY <1>1, ClauseTypes DEF Live
  <2>5. CASE Contradiction \/ EndAdding \/ Propagate \/ Analyze \/ Resolve \/ Refuted \/ NoRestart
             \/ Restart \/ ModelFound \/ Branch \/ Reduce \/ SimplifyNothing
    BY <1>3, <2>5 DEF Contradiction, EndAdding, Propagate, Analyze, Resolve, Refuted, NoRestart,
                      Restart, ModelFound, Branch, Reduce, SimplifyNothing, base
  <2>6. CASE Visit
    <3>1. PICK w, p, c : Visited(w, p, c) /\ VisitEffect(w, p, c)
      BY <1>1, <2>6, VisitSplit
    <3>2. clauses' = clauses
      BY <2>6 DEF Visit
    <3>3. \/ UNCHANGED ca
          \/ \E d : Reordered(w.cref, d) /\ Permuted(ca[w.cref], d)
      BY <3>1 DEF VisitEffect, VisitSatisfied, Visited, Moved
    <3>4. ASSUME NEW d, Reordered(w.cref, d), Permuted(ca[w.cref], d), NEW cr \in clauses
          PROVE  Satisfies(A, ca[cr])
      <4>1. Satisfies(A, ca'[cr]) /\ cr \in Refs
        BY <1>3, <2>4, <3>2
      <4>2. CASE cr = w.cref
        BY <3>4, <4>1, <4>2 DEF Reordered, Permuted, Satisfies
      <4>3. CASE cr # w.cref
        BY <3>4, <4>1, <4>3 DEF Reordered
      <4> QED
        BY <4>2, <4>3
    <3> QED
      BY <1>3, <3>2, <3>3, <3>4
  <2>7. CASE Learn
    <3>1. PICK c, lv, tr : LearnEffect(c, lv, tr)
      BY <1>1, <2>7, LearnSplit
    <3>2. clauses' = clauses
      BY <2>7 DEF Learn
    <3> QED
      BY <1>3, <2>4, <3>1, <3>2 DEF LearnEffect, Appended
  <2>8. CASE Simplify
    <3>1. PICK S : SimplifyEffect(S)
      BY <1>1, <2>8, SimplifySplit
    <3>2. decisionLevel = 0
      BY <1>1, <2>8 DEF FlowInv, Simplify
    <3>3. ASSUME NEW cr \in clauses PROVE Satisfies(A, ca[cr])
      <4>1. PICK c : c = ca[cr]
        OBVIOUS
      <4>2. cr \in Refs /\ c \in Seq(Literals)
        BY <1>1, <2>4, <3>3, <4>1, ClauseTypes
      <4>3. CASE cr \in S
        <5>1. PICK l \in Range(c) : IsTrue(l)
          BY <3>1, <4>1, <4>3 DEF SimplifyEffect, Satisfied
        <5>2. l \in Literals
          <6>1. PICK k \in 1..Len(c) : c[k] = l
            BY <4>2, <5>1, RangeIs
          <6> QED
            BY <4>2, <6>1
        <5>3. Holds(l, A)
          BY <1>1, <1>2, <3>2, <5>1, <5>2, AtZero, TrueHolds
        <5> QED
          BY <4>1, <5>1, <5>3 DEF Satisfies
      <4>4. CASE cr \notin S
        <5>1. cr \in clauses' /\ cr \in Live'
          BY <3>1, <3>3, <4>4 DEF SimplifyEffect, Live
        <5>2. PICK d : d = ca'[cr]
          OBVIOUS
        <5>3. Shorter(c, d) /\ Satisfies(A, d)
          BY <1>3, <3>1, <4>1, <4>2, <5>1, <5>2 DEF SimplifyEffect
        <5>4. d \in Seq(Literals)
          <6>1. ca' \in Seq(Seq(Literals)) /\ DOMAIN ca' = Refs' /\ Refs' = Refs
            BY <3>1 DEF SimplifyEffect, Refs
          <6> QED
            BY <4>2, <5>2, <6>1
        <5>5. PICK l \in Range(d) : Holds(l, A)
          BY <5>3 DEF Satisfies
        <5>6. PICK k \in 1..Len(d) : d[k] = l
          BY <5>4, <5>5, RangeIs
        <5>7. PICK i \in 1..Len(c) : c[i] = l
          BY <5>3, <5>6 DEF Shorter
        <5>8. l \in Range(c)
          BY <4>2, <5>7, RangeIs
        <5> QED
          BY <4>1, <5>5, <5>8 DEF Satisfies
      <4> QED
        BY <4>3, <4>4
    <3> QED
      BY <3>3
  <2> QED
    BY <1>5, <2>5, <2>6, <2>7, <2>8 DEF Next
<1> QED
  BY <1>4, <1>5

LEMMA ConflictAtZero ==
  ASSUME TypeOK, TrailInv, ClauseInv, ConflictInv, ModelInv, confl # CRef_Undef, decisionLevel = 0
  PROVE  Models = {}
<1> SUFFICES ASSUME NEW A \in Models PROVE FALSE
  OBVIOUS
<1>1. PICK c : c = ca[confl]
  OBVIOUS
<1>2. confl \in Refs /\ c \in Seq(Literals) /\ \A k \in DOMAIN c : IsFalse(c[k])
  BY <1>1, ClauseTypes DEF ConflictInv
<1>3. Root(A) /\ Satisfies(A, c)
  BY <1>1, <1>2 DEF ModelInv
<1>4. PICK l : l \in Range(c) /\ Holds(l, A)
  BY <1>3 DEF Satisfies
<1>5. PICK k \in 1..Len(c) : c[k] = l
  BY <1>2, <1>4, RangeIs
<1>6. l \in Literals /\ IsFalse(l)
  BY <1>2, <1>5
<1> QED
  BY <1>3, <1>4, <1>6, AtZero, TrueHolds

LEMMA RefutedStep ==
  ASSUME SolverInv, Next, ~ ok'
  PROVE  Models = {}
<1>1. /\ TypeOK /\ FlowInv /\ TrailInv /\ ClauseInv /\ ConflictInv /\ ModelInv
  BY DEF SolverInv
<1>2. CASE ~ ok
  BY <1>1, <1>2 DEF ModelInv
<1>3. CASE ok
  <2>1. AddClause \/ Contradiction \/ Refuted
    BY <1>3 DEF Next, EndAdding, Propagate, Analyze, Resolve, NoRestart, Restart, ModelFound,
                Branch, Reduce, SimplifyNothing, Simplify, SimplifyDone, Visit, Learn, input
  <2>2. CASE Contradiction \/ Refuted
    <3>1. confl # CRef_Undef /\ decisionLevel = 0
      BY <1>1, <1>3, <2>2 DEF Contradiction, Refuted, FlowInv
    <3> QED
      BY <1>1, <3>1, ConflictAtZero
  <2>3. CASE AddClause
    <3>1. AddEffect /\ pc = "add" /\ added < Len(cnf)
      BY <1>1, <2>3, AddSplit DEF AddClause
    <3>2. PICK c : KeptRight(c) /\ Len(c) = 0
      BY <1>3, <3>1 DEF AddEffect
    <3>3. ASSUME NEW A \in Models PROVE FALSE
      <4>1. Root(A)
        BY <1>1 DEF ModelInv
      <4>2. Satisfies(A, cnf[added + 1])
        <5>1. added + 1 \in DOMAIN cnf
          BY <1>1, <3>1, Lits DEF TypeOK, TypeFlow
        <5> QED
          BY <5>1 DEF Models
      <4>3. Satisfies(A, c)
        BY <1>1, <3>1, <3>2, <4>1, <4>2, AddedHolds
      <4>4. PICK l : l \in Range(c)
        BY <4>3 DEF Satisfies
      <4>5. c \in Seq(Literals)
        BY <3>2 DEF KeptRight
      <4>6. PICK k \in 1..Len(c) : c[k] = l
        BY <4>4, <4>5, RangeIs
      <4> QED
        BY <3>2, <4>6
    <3> QED
      BY <3>3
  <2> QED
    BY <2>1, <2>2, <2>3
<1> QED
  BY <1>2, <1>3

(* With every variable assigned and all propagated the trail is a model.   *)
LEMMA TrailIsModel ==
  ASSUME SolverInv, pc = "branch", Open = {}, NEW A, A = {v \in Vars : IsTrue(v)}
  PROVE  A \in Models
<1>1. /\ TypeOK /\ FlowInv /\ TrailInv /\ ClauseInv /\ SupportInv /\ HeapInv /\ ModelInv
      /\ ok /\ Propagated /\ added = Len(cnf) /\ Len(cnf) \in Nat
  BY Lits DEF SolverInv, FlowInv, TypeOK, TypeFlow
<1>2. ASSUME NEW v \in Vars PROVE IsTrue(v) \/ IsFalse(v)
  BY <1>1 DEF HeapInv, Open
<1>3. ASSUME NEW l \in Literals, IsTrue(l) PROVE Holds(l, A)
  <2>1. /\ l \in Int /\ l # 0 /\ Var(l) \in Vars /\ (l > 0 => l = Var(l))
        /\ ~ (l > 0) => -l = Var(l)
    BY <1>1, LitFacts DEF Var
  <2>2. ~ IsFalse(l)
    BY <1>1, <1>3, NeverBoth
  <2>3. CASE l > 0
    BY <1>3, <2>1, <2>3 DEF Holds
  <2>4. CASE ~ (l > 0)
    <3>1. ~ IsTrue(-l)
      BY <2>2 DEF IsTrue, IsFalse
    <3> QED
      BY <2>4, <3>1 DEF Holds
  <2> QED
    BY <2>3, <2>4
<1>4. Root(A)
  <2> SUFFICES ASSUME NEW i \in DOMAIN trail PROVE Holds(trail[i], A)
    BY DEF Root
  <2>1. trail[i] \in Literals /\ IsTrue(trail[i])
    BY <1>1, TrailTypes, OnTrail
  <2> QED
    BY <1>3, <2>1
<1>5. ASSUME NEW cr \in clauses PROVE Satisfies(A, ca[cr])
  <2>1. PICK c, l : c = ca[cr] /\ l = c[1]
    OBVIOUS
  <2>2. cr \in Live /\ cr \in Refs /\ c \in Seq(Literals) /\ Len(c) > 1
    BY <1>1, <2>1, ClauseTypes DEF Live
  <2>3. l \in Literals /\ l \in Range(c)
    <3>1. 1 \in 1..Len(c)
      BY <2>2
    <3> QED
      BY <2>1, <2>2, <3>1, RangeIs
  <2>4. IsTrue(l) \/ IsFalse(l)
    <3>1. Var(l) \in Vars /\ Var(Var(l)) = Var(l) /\ Var(l) \in Literals
      BY <1>1, <2>3, LitFacts
    <3>2. l = Var(l) \/ l = -Var(l)
      BY <1>1, <2>3, <3>1, LitFacts
    <3>3. -(-Var(l)) = Var(l)
      BY <1>1, <3>1, LitFacts
    <3>4. IsTrue(Var(l)) \/ IsFalse(Var(l))
      BY <1>2, <3>1
    <3> QED
      BY <3>2, <3>3, <3>4 DEF IsTrue, IsFalse
  <2>5. CASE IsTrue(l)
    BY <1>3, <2>1, <2>3, <2>5 DEF Satisfies
  <2>6. CASE IsFalse(l)
    <3>1. PICK i \in DOMAIN trail : trail[i] = -l
      BY <1>1, <2>6, OnTrail
    <3>2. Processed(i, cr)
      BY <1>1, AllProcessed
    <3>3. Supported(cr, i)
      BY <1>1, <2>1, <2>2, <3>1, <3>2 DEF SupportInv
    <3>4. PICK j \in DOMAIN trail : trail[j] \in Range(c)
      BY <2>1, <3>3 DEF Supported
    <3>5. trail[j] \in Literals /\ IsTrue(trail[j])
      BY <1>1, TrailTypes, OnTrail
    <3> QED
      BY <1>3, <2>1, <3>4, <3>5 DEF Satisfies
  <2> QED
    BY <2>4, <2>5, <2>6
<1>6. \A i \in added + 1..Len(cnf) : Satisfies(A, cnf[i])
  BY <1>1
<1>7. A \in Assignments
  BY DEF Assignments
<1> QED
  BY <1>1, <1>4, <1>5, <1>6, <1>7 DEF ModelInv

LEMMA ModelStep ==
  ASSUME SolverInv, Next
  PROVE  ModelInv'
<1>1. /\ ModelInv /\ FlowInv /\ Models' = Models /\ Assignments' = Assignments /\ cnf' = cnf
  BY Same, ModelsStay DEF SolverInv
<1>2. \A A \in Models' : Root(A)' /\ \A cr \in Refs' : Satisfies(A, ca'[cr])
  BY <1>1, RootStep, BaseHolds
<1>3. ASSUME ok', NEW A \in Assignments', Enough(A)' PROVE A \in Models'
  <2>1. ok /\ Enough(A)
    BY <1>1, <1>3, EnoughStep
  <2> QED
    BY <1>1, <1>3, <2>1 DEF ModelInv, Enough
<1>4. ~ ok' => Models' = {}
  BY <1>1, RefutedStep
<1>5. pc' = "done" => IF result' = "SAT" THEN model' \in Models' ELSE Models' = {}
  <2> SUFFICES ASSUME pc' = "done"
               PROVE  IF result' = "SAT" THEN model' \in Models ELSE Models = {}
    BY <1>1
  <2>1. CASE Refuted
    <3>1. result' = "UNSAT" /\ ~ ok'
      BY <2>1 DEF Refuted
    <3> QED
      BY <3>1, RefutedStep
  <2>2. CASE ModelFound
    <3>1. result' = "SAT" /\ model' = {v \in Vars : IsTrue(v)} /\ pc = "branch" /\ Open = {}
      BY <2>2 DEF ModelFound
    <3> QED
      BY <3>1, TrailIsModel
  <2>3. CASE ~ Refuted /\ ~ ModelFound
    <3>1. pc = "done" /\ UNCHANGED <<result, model>>
      BY <2>3 DEF Next, AddClause, Contradiction, EndAdding, Propagate, Visit, Analyze, Resolve,
                  Learn, Restart, NoRestart, Simplify, SimplifyNothing, SimplifyDone, Reduce,
                  Branch, answer
    <3> QED
      BY <1>1, <3>1 DEF ModelInv
  <2> QED
    BY <2>1, <2>2, <2>3
<1>6. \A A : A \in Models' => \A cr \in Refs' : Satisfies(A, ca[cr])'
  BY <1>2 DEF Satisfies, Holds
<1> QED
  BY <1>2, <1>3, <1>4, <1>5, <1>6 DEF ModelInv, Enough

LEMMA NoVars ==
  ASSUME Init
  PROVE  /\ trail = <<>> /\ trail_lim = <<>> /\ ca = <<>> /\ todo = <<>>
         /\ DOMAIN trail = {} /\ DOMAIN trail_lim = {} /\ Refs = {} /\ Live = {}
         /\ Len(trail) = 0 /\ Len(trail_lim) = 0 /\ decisionLevel = 0
         /\ Range(trail) = {} /\ qhead = 0
BY DEF Init, Refs, Live, decisionLevel, Range

LEMMA InitType ==
  ASSUME Init
  PROVE  TypeOK
<1>1. cnf \in Formulas
  BY DEF Init
<1>2. cnf \in Seq(Seq(Literals))
  BY <1>1, Lits
<1>3. TypeFlow
  BY <1>1, <1>2 DEF Init, TypeFlow, CRef_Undef
<1>4. TypeBase
  BY NoVars DEF Init, TypeBase
<1>5. TypeLists
  BY DEF Init, TypeLists
<1>6. TypeTrail
  BY NoVars DEF Init, TypeTrail, CRef_Undef
<1>7. TypeAnalysis
  BY DEF Init, TypeAnalysis, Idle, CRef_Undef
<1> QED
  BY <1>3, <1>4, <1>5, <1>6, <1>7 DEF TypeOK

LEMMA InitInv ==
  ASSUME Init
  PROVE  SolverInv
<1>1. TypeOK
  BY InitType
<1>2. /\ pc = "add" /\ ok = TRUE /\ added = 0 /\ confl = CRef_Undef /\ result = "none"
      /\ removed = {} /\ order_heap = Vars /\ clauses = {} /\ learnts = {}
      /\ watches = [l \in Literals |-> <<>>]
  BY DEF Init
<1>3. FlowInv
  BY <1>2, NoVars DEF FlowInv, Propagated
<1>4. TrailInv
  BY NoVars DEF TrailInv
<1>5. ClauseInv
  BY <1>2, NoVars DEF ClauseInv
<1>6. WatchInv
  <2>1. \A l \in Literals : Range(watches[l]) = {} /\ DOMAIN watches[l] = {}
    BY <1>2 DEF Range
  <2>2. Range(todo) = {} /\ DOMAIN todo = {}
    BY NoVars DEF Range
  <2> QED
    BY <2>1, <2>2, NoVars DEF WatchInv, Once
<1>7. ReasonInv
  BY NoVars DEF ReasonInv
<1>8. ConflictInv /\ SupportInv /\ HeapInv /\ AnalyzeInv
  BY <1>2, NoVars DEF ConflictInv, SupportInv, HeapInv, AnalyzeInv
<1>9. ModelInv
  <2>1. cnf \in Seq(Seq(Literals))
    BY <1>1, Lits DEF TypeOK, TypeFlow
  <2>2. \A A \in Assignments : (\A i \in added + 1..Len(cnf) : Satisfies(A, cnf[i])) => A \in Models
    BY <1>2, <2>1 DEF Models
  <2>3. \A A \in Models : Root(A)
    BY NoVars DEF Root
  <2> QED
    BY <1>2, <2>2, <2>3, NoVars DEF ModelInv
<1> QED
  BY <1>1, <1>3, <1>4, <1>5, <1>6, <1>7, <1>8, <1>9 DEF SolverInv

LEMMA StutterType ==
  ASSUME TypeOK, UNCHANGED vars
  PROVE  TypeOK'
<1>1. Vars' = Vars /\ Literals' = Literals
  BY SameLits DEF vars, input
<1>2. TypeFlow'
  BY <1>1 DEF TypeOK, TypeFlow, vars, input, answer, limits
<1>3. TypeBase'
  BY <1>1 DEF TypeOK, TypeBase, vars, base, Refs
<1>4. TypeLists'
  BY <1>1 DEF TypeOK, TypeLists, vars, lists, Watchers
<1>5. TypeTrail'
  BY <1>1 DEF TypeOK, TypeTrail, vars, asgn
<1>6. TypeAnalysis'
  BY <1>1 DEF TypeOK, TypeAnalysis, vars
<1> QED
  BY <1>2, <1>3, <1>4, <1>5, <1>6 DEF TypeOK

LEMMA Stutter ==
  ASSUME SolverInv, UNCHANGED vars
  PROVE  SolverInv'
<1>1. /\ TypeOK' /\ Vars' = Vars /\ Literals' = Literals /\ Models' = Models
      /\ Assignments' = Assignments
  BY StutterType, SameLits, ModelsStay DEF SolverInv, vars, input
<1>2. FlowInv'
  BY DEF SolverInv, FlowInv, vars, input, answer, lists, asgn, decisionLevel, Propagated, CRef_Undef
<1>3. TrailInv'
  BY DEF SolverInv, TrailInv, vars, lists, asgn, decisionLevel, Lv
<1>4. ClauseInv'
  BY DEF SolverInv, ClauseInv, vars, base, Refs, Live
<1>5. WatchInv'
  BY <1>1 DEF SolverInv, WatchInv, Watched, Proper, In, Once, Fixed, vars, base, lists, asgn, Refs, Live, Lv
<1>6. ReasonInv'
  BY DEF SolverInv, ReasonInv, Justified, Before, vars, base, asgn, Live, Lv, CRef_Undef
<1>7. ConflictInv'
  BY DEF SolverInv, ConflictInv, vars, base, asgn, Live, IsFalse, decisionLevel, CRef_Undef
<1>8. SupportInv'
  BY DEF SolverInv, SupportInv, Processed, Supported, In, vars, input, base, lists, asgn, Live, Lv,
         decisionLevel, CRef_Undef
<1>9. HeapInv'
  BY <1>1 DEF SolverInv, HeapInv, vars, asgn, IsTrue, IsFalse
<1>10. AnalyzeInv'
  BY <1>1 DEF SolverInv, AnalyzeInv, SeenOnTrail, Counted, OutIsSeen, LastPicked, Excluded, vars, asgn,
              IsFalse, decisionLevel, Lv
<1>11. ModelInv'
  BY <1>1 DEF SolverInv, ModelInv, Root, Lv, vars, input, answer, base, asgn, Refs
<1> QED
  BY <1>1, <1>2, <1>3, <1>4, <1>5, <1>6, <1>7, <1>8, <1>9, <1>10, <1>11 DEF SolverInv

(* All of it is kept by every step of the solver.                          *)
THEOREM SolverInvariant == Spec => []SolverInv
<1>1. Init => SolverInv
  BY InitInv
<1>2. SolverInv /\ [Next]_vars => SolverInv'
  <2> SUFFICES ASSUME SolverInv, [Next]_vars PROVE SolverInv'
    OBVIOUS
  <2>1. CASE Next
    BY <2>1, TypeStep, FlowStep, TrailStep, ClauseStep, WatchStep, ReasonStep, ConflictStep,
       SupportStep, HeapStep, AnalyzeStep, ModelStep DEF SolverInv
  <2>2. CASE UNCHANGED vars
    BY <2>2, Stutter
  <2> QED
    BY <2>1, <2>2
<1> QED
  BY <1>1, <1>2, PTL DEF Spec

(* Every variable has its type, for every formula and any number of steps: *)
(* references are clauses that exist, and literals are those of the        *)
(* formula.                                                                *)
THEOREM SolverTypes == Spec => []TypeOK
<1>1. SolverInv => TypeOK
  BY DEF SolverInv
<1> QED
  BY <1>1, SolverInvariant, PTL

LEMMA TwoFree ==
  ASSUME NEW S, IsFiniteSet(S), NEW a \in S, NEW b \in S, a # b
  PROVE  Cardinality(S) > 1
<1>1. PICK T : T = S \ {a}
  OBVIOUS
<1>2. IsFiniteSet(T) /\ Cardinality(T) = Cardinality(S) - 1
  BY <1>1, FS_RemoveElement
<1>3. T # {}
  BY <1>1
<1>4. Cardinality(T) # 0 /\ Cardinality(T) \in Nat /\ Cardinality(S) \in Nat
  BY <1>2, <1>3, FS_EmptySet, FS_CardinalityType
<1> QED
  BY <1>2, <1>4

LEMMA OverlooksNone ==
  ASSUME SolverInv, Propagated, ok, NEW cr \in Live, ~ Satisfied(cr)
  PROVE  Cardinality({l \in Range(ca[cr]) : ~ IsFalse(l)}) > 1
<1>1. TypeOK /\ TrailInv /\ ClauseInv /\ SupportInv
  BY DEF SolverInv
<1>2. PICK c : c = ca[cr]
  OBVIOUS
<1>3. cr \in Refs /\ c \in Seq(Literals) /\ Len(c) > 1 /\ c[1] # c[2]
  BY <1>1, <1>2, ClauseTypes
<1>4. c[1] \in Range(c) /\ c[2] \in Range(c)
  BY <1>3, RangeIs
<1>5. ASSUME NEW i \in DOMAIN trail, trail[i] = -c[1] \/ trail[i] = -c[2]
      PROVE  FALSE
  <2>1. Processed(i, cr)
    BY <1>1, AllProcessed
  <2>2. Supported(cr, i)
    BY <1>1, <1>2, <1>5, <2>1 DEF SupportInv
  <2>3. PICK j \in DOMAIN trail : trail[j] \in Range(ca[cr])
    BY <2>2 DEF Supported
  <2>4. IsTrue(trail[j])
    BY <1>1, OnTrail
  <2> QED
    BY <2>3, <2>4 DEF Satisfied
<1>6. ~ IsFalse(c[1]) /\ ~ IsFalse(c[2])
  BY <1>1, <1>5, OnTrail
<1>7. PICK S : S = {l \in Range(c) : ~ IsFalse(l)}
  OBVIOUS
<1>8. IsFiniteSet(S)
  <2>1. IsFiniteSet(Range(c))
    BY <1>3, FiniteRange
  <2> QED
    BY <1>7, <2>1, FS_Subset
<1>9. Cardinality(S) > 1
  BY <1>3, <1>4, <1>6, <1>7, <1>8, TwoFree
<1> QED
  BY <1>2, <1>7, <1>9

(* Propagation overlooks no clause that is false or has one literal left,  *)
(* whatever the order of the watch lists and however often the search has  *)
(* gone back.                                                              *)
THEOREM PropagatesAll == Spec => []PropagationComplete
<1>1. SolverInv => PropagationComplete
  BY OverlooksNone DEF PropagationComplete
<1> QED
  BY <1>1, SolverInvariant, PTL

LEMMA LevelsGrow ==
  ASSUME TypeOK, TrailInv, NEW i \in DOMAIN trail, NEW j \in 1..i
  PROVE  Lv(j) <= Lv(i)
<1>1. /\ Lv(i) \in Nat /\ Lv(j) \in Nat /\ i \in Nat /\ j \in Nat /\ j <= i /\ j \in DOMAIN trail
      /\ decisionLevel \in Nat
  BY TrailTypes
<1>2. SUFFICES ASSUME Lv(i) < Lv(j) PROVE FALSE
  BY <1>1
<1>3. /\ Lv(i) < decisionLevel => i <= trail_lim[Lv(i) + 1]
      /\ Lv(j) > 0 => trail_lim[Lv(j)] < j
      /\ Lv(j) <= decisionLevel
  BY <1>1 DEF TrailInv
<1>4. PICK a, b, x, y : a = Lv(i) + 1 /\ b = Lv(j) /\ x = trail_lim[a] /\ y = trail_lim[b]
  OBVIOUS
<1>5. a \in Nat /\ b \in Nat /\ a <= b /\ b <= decisionLevel /\ a > 0
  BY <1>1, <1>2, <1>3, <1>4
<1>6. a \in DOMAIN trail_lim /\ b \in DOMAIN trail_lim /\ x \in Nat /\ y \in Nat
  BY <1>4, <1>5, TrailTypes
<1>7. x <= y
  <2>1. CASE a = b
    BY <1>4, <1>6, <2>1
  <2>2. CASE a # b
    <3>1. a < b
      BY <1>5, <2>2
    <3>2. trail_lim[a] < trail_lim[b]
      BY <1>6, <3>1 DEF TrailInv
    <3> QED
      BY <1>4, <1>6, <3>2
  <2> QED
    BY <2>1, <2>2
<1>8. i <= x /\ y < j
  BY <1>1, <1>2, <1>3, <1>4, <1>5
<1> QED
  BY <1>1, <1>6, <1>7, <1>8

LEMMA MaxIs ==
  ASSUME NEW S \in SUBSET Nat, NEW m \in S, \A k \in S : k <= m
  PROVE  Max(S) = m
<1>1. \A x \in S : (\A y \in S : x >= y) => x = m
  BY SMT
<1>2. \A y \in S : m >= y
  BY SMT
<1> QED
  BY <1>1, <1>2 DEF Max

LEMMA JustifiedOthers ==
  ASSUME SolverInv, NEW i \in DOMAIN trail, NEW r, Justified(i, r),
         NEW others, others = Range(Tail(ca[r]))
  PROVE  /\ \A l \in others : Before(l, i)
         /\ Lv(i) = Max({level[Var(l)] : l \in others})
<1>1. TypeOK /\ TrailInv /\ ClauseInv
  BY DEF SolverInv
<1>2. PICK c : c = ca[r]
  OBVIOUS
<1>3. r \in Refs /\ c \in Seq(Literals) /\ Len(c) > 1
  BY <1>1, <1>2, ClauseTypes DEF Justified
<1>4. \A l : l \in others <=> \E k \in 2..Len(c) : c[k] = l
  BY <1>2, <1>3, TailRange
<1>5. \A l \in others : Before(l, i)
  BY <1>2, <1>4 DEF Justified
<1>6. ASSUME NEW l \in others PROVE level[Var(l)] \in Nat /\ level[Var(l)] <= Lv(i)
  <2>1. PICK j \in 1..i - 1 : trail[j] = -l
    BY <1>5, <1>6 DEF Before
  <2>2. l \in Literals
    BY <1>3, <1>4, <1>6
  <2>3. Var(trail[j]) = Var(l)
    BY <1>1, <2>1, <2>2, LitFacts
  <2>4. j \in 1..i /\ j \in DOMAIN trail
    BY <1>1, <2>1, TrailTypes
  <2>5. Lv(j) = level[Var(l)] /\ Lv(j) \in Nat
    BY <1>1, <2>3, <2>4, TrailTypes DEF Lv
  <2>6. Lv(j) <= Lv(i)
    BY <1>1, <2>4, LevelsGrow
  <2> QED
    BY <2>5, <2>6
<1>7. PICK q \in others : level[Var(q)] = Lv(i)
  BY <1>2, <1>4 DEF Justified
<1>8. PICK S : S = {level[Var(l)] : l \in others}
  OBVIOUS
<1>9. PICK m : m = Lv(i)
  OBVIOUS
<1>10. S \in SUBSET Nat /\ m \in S /\ \A k \in S : k <= m
  BY <1>6, <1>7, <1>8, <1>9
<1>11. Max(S) = m
  BY <1>10, MaxIs
<1> QED
  BY <1>5, <1>8, <1>9, <1>11

LEMMA Justifies ==
  ASSUME SolverInv
  PROVE  ReasonsJustify
<1>1. TypeOK /\ ReasonInv
  BY DEF SolverInv
<1>2. ASSUME NEW i \in DOMAIN trail, NEW v, v = Var(trail[i]), NEW r, r = reason[v],
             NEW others, others = Range(Tail(ca[r]))
      PROVE  IF r = CRef_Undef THEN level[v] = 0 \/ trail_lim[level[v]] = i - 1
             ELSE /\ r \in Live
                  /\ ca[r][1] = trail[i]
                  /\ \A l \in others : \E j \in 1..i - 1 : trail[j] = -l
                  /\ level[v] = Max({level[Var(l)] : l \in others})
  <2>1. CASE r = CRef_Undef
    BY <1>1, <1>2, <2>1 DEF ReasonInv, Lv
  <2>2. CASE r # CRef_Undef
    <3>1. Justified(i, r)
      BY <1>1, <1>2, <2>2 DEF ReasonInv
    <3>2. r \in Live /\ ca[r][1] = trail[i]
      BY <3>1 DEF Justified
    <3>3. /\ \A l \in others : Before(l, i)
          /\ Lv(i) = Max({level[Var(l)] : l \in others})
      BY <1>2, <3>1, JustifiedOthers
    <3>4. \A l \in others : \E j \in 1..i - 1 : trail[j] = -l
      BY <3>3 DEF Before
    <3>5. level[v] = Lv(i)
      BY <1>2 DEF Lv
    <3> QED
      BY <2>2, <3>2, <3>3, <3>4, <3>5
  <2> QED
    BY <2>1, <2>2
<1> QED
  BY <1>2 DEF ReasonsJustify

(* A reason is a clause that is still there and became unit where the      *)
(* trail says so: neither simplify nor reduceDB drops one that analyze may *)
(* ask for, and propagate does not turn one around.                        *)
THEOREM ReasonsAlwaysJustify == Spec => []ReasonsJustify
<1>1. SolverInv => ReasonsJustify
  BY Justifies
<1> QED
  BY <1>1, SolverInvariant, PTL

LEMMA ModelsKept ==
  ASSUME SolverInv
  PROVE  KeepsModels
<1>1. TypeOK /\ ClauseInv /\ ModelInv
  BY DEF SolverInv
<1>2. Live \subseteq Refs /\ clauses \subseteq Live
  BY <1>1, ClauseTypes DEF Live
<1>3. ASSUME ok, NEW A \in Assignments, A \in Models
      PROVE  /\ \A i \in added + 1..Len(cnf) : Satisfies(A, cnf[i])
             /\ \A cr \in Live : Satisfies(A, ca[cr])
             /\ Root(A)
  <2>1. cnf \in Seq(Seq(Literals)) /\ added \in 0..Len(cnf)
    BY <1>1, Lits DEF TypeOK, TypeFlow
  <2>2. \A i \in added + 1..Len(cnf) : i \in DOMAIN cnf
    BY <2>1
  <2>3. \A i \in added + 1..Len(cnf) : Satisfies(A, cnf[i])
    BY <1>3, <2>2 DEF Models
  <2> QED
    BY <1>1, <1>2, <1>3, <2>3 DEF ModelInv
<1>4. ASSUME ok, NEW A \in Assignments, \A i \in added + 1..Len(cnf) : Satisfies(A, cnf[i]),
             \A cr \in Live : Satisfies(A, ca[cr]), Root(A)
      PROVE  A \in Models
  BY <1>1, <1>2, <1>4 DEF ModelInv
<1>5. \A A : Root(A) <=> \A i \in DOMAIN trail : level[Var(trail[i])] = 0 => Holds(trail[i], A)
  BY DEF Root, Lv
<1> QED
  BY <1>3, <1>4, <1>5 DEF KeepsModels

(* The clauses and the literals of level 0 have the models of the formula  *)
(* and no others: what was learnt follows from it, minimisation included,  *)
(* and what simplify and reduceDB drop was not needed.                     *)
THEOREM ModelsAlwaysKept == Spec => []KeepsModels
<1>1. SolverInv => KeepsModels
  BY ModelsKept
<1> QED
  BY <1>1, SolverInvariant, PTL

(* SAT comes with a model of the formula and UNSAT means that it has none, *)
(* for every formula and every choice of the heuristics.                   *)
THEOREM AnswersAlways == Spec => []Answers
<1>1. SolverInv => Answers
  BY DEF SolverInv, ModelInv, Answers
<1> QED
  BY <1>1, SolverInvariant, PTL
=============================================================================
