--------------------------- MODULE AmoTreeProofs ---------------------------
(***************************************************************************)
(* The at-most-one tree means the same as its definition, for vectors of   *)
(* any length and literals of either sign.                                 *)
(***************************************************************************)
EXTENDS AmoTree, SequenceTheorems, TLAPS

-----------------------------------------------------------------------------
(* Truth of literals.                                                      *)

Literal(x) == x \in Int /\ x # 0 /\ -(2 * n) <= x /\ x <= 2 * n

(* A literal and its negation have opposite values.                        *)
LEMMA Negation ==
  ASSUME TypeOK, NEW a \in Assignments, NEW x, Literal(x)
  PROVE  True(a, x) \in BOOLEAN /\ Literal(-x) /\ (True(a, -x) <=> ~ True(a, x))
<1>1. n \in Nat
  BY SizesAssumption DEF TypeOK
<1>2. CASE x > 0
  <2>1. x \in 1..(2 * n) /\ ~ (-x > 0) /\ -(-x) = x
    BY <1>1, <1>2 DEF Literal
  <2>2. a[x] \in BOOLEAN
    BY <2>1 DEF Assignments
  <2> QED
    BY <1>1, <1>2, <2>1, <2>2 DEF True, Literal
<1>3. CASE ~ (x > 0)
  <2>1. -x \in 1..(2 * n) /\ -x > 0
    BY <1>1, <1>3 DEF Literal
  <2>2. a[-x] \in BOOLEAN
    BY <2>1 DEF Assignments
  <2> QED
    BY <1>1, <1>3, <2>1, <2>2 DEF True, Literal
<1> QED
  BY <1>2, <1>3

(* The four clauses of a node.                                             *)
LEMMA NodeClauses ==
  ASSUME TypeOK, NEW a \in Assignments,
         NEW s, NEW q, NEW r, Literal(s), Literal(q), Literal(r)
  PROVE  (\A c \in Node(s, q, r) : \E x \in c : True(a, x)) <=>
           /\ True(a, s) <=> True(a, q) \/ True(a, r)
           /\ ~ (True(a, q) /\ True(a, r))
<1>1. /\ True(a, -s) <=> ~ True(a, s)
      /\ True(a, -q) <=> ~ True(a, q)
      /\ True(a, -r) <=> ~ True(a, r)
  BY Negation
<1>2. (\A c \in Node(s, q, r) : \E x \in c : True(a, x)) <=>
        /\ True(a, -q) \/ True(a, -r)
        /\ True(a, -q) \/ True(a, s)
        /\ True(a, -r) \/ True(a, s)
        /\ True(a, -s) \/ True(a, q) \/ True(a, r)
  BY Zenon DEF Node
<1> QED
  BY <1>1, <1>2

(* Two neighbours that exclude each other, replaced by their disjunction:  *)
(* S and T are the positions of true literals before and after.            *)
Merged(m, k0, S, T) ==
  /\ m \in Nat /\ k0 \in Nat /\ k0 + 2 <= m
  /\ S \in SUBSET (1..m) /\ T \in SUBSET (1..(m - 1))
  /\ \A k \in 1..k0 : k \in T <=> k \in S
  /\ k0 + 1 \in T <=> (k0 + 1 \in S \/ k0 + 2 \in S)
  /\ \A k \in (k0 + 2)..(m - 1) : k \in T <=> k + 1 \in S
  /\ ~ (k0 + 1 \in S /\ k0 + 2 \in S)

LEMMA Merge ==
  ASSUME NEW m, NEW k0, NEW S, NEW T, Merged(m, k0, S, T)
  PROVE  /\ S = {} <=> T = {}
         /\ (\A j, k \in S : j = k) <=> (\A j, k \in T : j = k)
<1> USE DEF Merged
<1> DEFINE up(k) == IF k <= k0 + 1 THEN k ELSE k - 1
<1>1. \A k \in S : up(k) \in T
  OBVIOUS
<1>2. \A k \in T : \E x \in S : up(x) = k
  <2> SUFFICES ASSUME NEW k \in T
               PROVE  \E x \in S : up(x) = k
    OBVIOUS
  <2>1. CASE k <= k0
    BY <2>1
  <2>2. CASE k = k0 + 1
    BY <2>2
  <2>3. CASE k > k0 + 1
    <3>1. up(k + 1) = k /\ k + 1 \in S
      BY <2>3
    <3> QED
      BY <3>1
  <2> QED
    BY <2>1, <2>2, <2>3
<1>3. \A j, k \in S : up(j) = up(k) => j = k
  OBVIOUS
<1> HIDE DEF up, Merged
<1> QED
  BY <1>1, <1>2, <1>3

-----------------------------------------------------------------------------
(* Facts about a state of the invariant.                                   *)

(* What waits, and the next variable, are literals of the assignments.     *)
LEMMA InRange ==
  ASSUME IInv
  PROVE  /\ n \in Nat \ {0} /\ 2 * n \in Nat /\ P \in Nat
         /\ Literal(P)
         /\ \A x : Fresh(x) => Literal(x)
         /\ pc = "pair" /\ i <= Len(l) => Literal(next) /\ i + 1 <= Len(l)
<1>1. n \in Nat \ {0} /\ next \in Nat /\ i \in Nat \ {0} /\ Len(l) \in Nat /\ Len(laux) \in Nat
  BY SizesAssumption DEF IInv, TypeOK
<1>2. next <= 2 * n \/ (n = 1 /\ next <= 3)
  <2>1. CASE pc = "pair"
    BY <1>1, <2>1 DEF IInv, Counts
  <2>2. CASE pc # "pair"
    <3>1. i = 1 /\ Len(laux) = 0 /\ Len(l) >= 1 /\ (Len(l) = 1 => n = 1)
      BY <2>2 DEF IInv, Counts, InBounds
    <3>2. next = 2 * n + 2 - (Len(laux) + Len(l) - i + 1)
      BY DEF IInv, Counts
    <3>3. next = 2 * n + 2 - Len(l)
      BY <1>1, <3>1, <3>2
    <3>4. CASE Len(l) = 1
      BY <1>1, <3>1, <3>3, <3>4
    <3>5. CASE Len(l) # 1
      <4>1. Len(l) >= 2
        <5>1. \A y \in Nat : y >= 1 /\ y # 1 => y >= 2
          OBVIOUS
        <5>2. Len(l) \in Nat /\ Len(l) >= 1 /\ Len(l) # 1
          BY <1>1, <3>1, <3>5
        <5> QED
          BY <5>1, <5>2
      <4>2. \A x, y \in Nat : y >= 2 => 2 * x + 2 - y <= 2 * x
        OBVIOUS
      <4> QED
        BY <1>1, <3>3, <4>1, <4>2
    <3> QED
      BY <3>4, <3>5
  <2> QED
    BY <2>1, <2>2
<1>3. pc = "pair" /\ i <= Len(l) => next + 1 <= 2 * n /\ i + 1 <= Len(l) /\ next > 0
  <2> SUFFICES ASSUME pc = "pair", i <= Len(l)
               PROVE  next + 1 <= 2 * n /\ i + 1 <= Len(l) /\ next > 0
    OBVIOUS
  <2>1. i # Len(l)
    <3>1. (Len(l) - i) % 2 = 1
      BY DEF IInv, Counts, InBounds
    <3>2. 0 % 2 = 0
      OBVIOUS
    <3> QED
      BY <1>1, <3>1, <3>2
  <2>2. /\ 2 * Len(laux) + Len(l) - i + 1 >= 3
        /\ next = 2 * n + 2 - (Len(laux) + Len(l) - i + 1)
    BY DEF IInv, Counts
  <2>3. next > 0
    BY <1>1 DEF IInv, Counts
  <2> QED
    BY <1>1, <2>1, <2>2, <2>3
<1> QED
  BY <1>1, <1>2, <1>3 DEF Literal, Fresh, Among, P

(* Inputs and assignments that agree on the vector.                        *)
LEMMA Agree ==
  ASSUME TypeOK, NEW v, NEW b, \A k \in 1..n : b[k] = v[k]
  PROVE  /\ AtMostOne(b) <=> AtMostOne(v)
         /\ SomeOne(b) <=> SomeOne(v)
<1>1. n \in Nat
  BY SizesAssumption DEF TypeOK
<1>2. \A k \in 1..n : True(b, Input(k)) <=> True(v, Input(k))
  <2> TAKE k \in 1..n
  <2>1. signs[k] = -1 \/ signs[k] = 1
    BY DEF TypeOK
  <2>2. CASE signs[k] = 1
    BY <1>1, <2>2 DEF Input, True
  <2>3. CASE signs[k] = -1
    <3>1. Input(k) = -k /\ ~ (-k > 0) /\ -(-k) = k
      BY <1>1, <2>3 DEF Input
    <3> QED
      BY <3>1 DEF True
  <2> QED
    BY <2>1, <2>2, <2>3
<1> QED
  BY <1>2 DEF AtMostOne, SomeOne

(* A value given to a variable that no clause has changes no clause.       *)
LEMMA Change ==
  ASSUME NEW b, NEW b2, NEW x, NEW y, TypeOK, b \in Assignments,
         x \in 1..(2 * n), y \in BOOLEAN, b2 = [b EXCEPT ![x] = y]
  PROVE  /\ b2 \in Assignments
         /\ True(b2, x) <=> y
         /\ \A z : Literal(z) /\ z # x /\ z # -x => (True(b2, z) <=> True(b, z))
<1>1. n \in Nat /\ x \in Int /\ x > 0
  BY SizesAssumption DEF TypeOK
<1>2. b2 \in Assignments /\ b2[x] = y
  BY DEF Assignments
<1>3. \A z \in 1..(2 * n) : z # x => b2[z] = b[z]
  BY DEF Assignments
<1>4. ASSUME NEW z, Literal(z), z # x, z # -x
      PROVE  True(b2, z) <=> True(b, z)
  <2>1. CASE z > 0
    BY <1>1, <1>3, <1>4, <2>1 DEF Literal, True
  <2>2. CASE ~ (z > 0)
    <3>1. -z \in 1..(2 * n) /\ -z # x
      BY <1>1, <1>4, <2>2 DEF Literal
    <3> QED
      BY <1>3, <2>2, <3>1 DEF True
  <2> QED
    BY <2>1, <2>2
<1>5. True(b2, x) <=> y
  BY <1>1, <1>2 DEF True
<1> QED
  BY <1>2, <1>4, <1>5

-----------------------------------------------------------------------------
(* The initial state.                                                      *)

LEMMA Initially == Init => IInv
<1> SUFFICES ASSUME Init PROVE IInv
  OBVIOUS
<1>1. n \in Nat \ {0} /\ n \in Sizes
  BY SizesAssumption DEF Init
<1>2. \A k \in 1..n : signs[k] * k \in Int /\ signs[k] * k = Input(k)
                       /\ (signs[k] * k = k \/ signs[k] * k = -k)
  BY <1>1 DEF Init, Input
<1>3. l \in Seq(Int) /\ Len(l) = n /\ \A k \in 1..n : l[k] = Input(k)
  BY <1>1, <1>2 DEF Init
<1>4. Len(laux) = 0 /\ i = 1 /\ pc = "start" /\ next = n + 2 /\ clauses = {}
  BY DEF Init
<1>5. TypeOK
  BY <1>1, <1>3, <1>4 DEF Init, TypeOK
<1>6. Counts
  BY <1>1, <1>3, <1>4 DEF Init, Counts, InBounds
<1>7. Used
  BY <1>1, <1>2, <1>3, <1>4 DEF Used, Fresh, Among, P
<1>8. Front = 1..n /\ \A k \in 1..n : Waiting(k) = Input(k)
  <2>1. Front = 1..n
    BY <1>1, <1>3, <1>4 DEF Front
  <2>2. ASSUME NEW k \in 1..n
        PROVE  Waiting(k) = Input(k)
    <3>1. ~ (k <= Len(laux)) /\ k - Len(laux) + i - 1 = k
      BY <1>4
    <3> QED
      BY <1>3, <3>1 DEF Waiting
  <2> QED
    BY <2>1, <2>2
<1>9. Stands
  BY <1>8 DEF Stands, SomeOne, AtMostOne
<1>10. Sound
  BY <1>4 DEF Sound
<1>11. Conservative
  <2> SUFFICES ASSUME NEW v \in Inputs
               PROVE  \E b \in Assignments : \A k \in 1..n : b[k] = v[k]
    BY <1>4 DEF Conservative, Models
  <2> DEFINE b == [k \in 1..(2 * n) |-> k <= n /\ v[k]]
  <2>1. b \in Assignments
    BY Zenon DEF Assignments
  <2>2. ASSUME NEW k \in 1..n
        PROVE  b[k] = v[k]
    <3>1. k \in 1..(2 * n) /\ k <= n
      BY <1>1
    <3>2. v[k] \in BOOLEAN
      BY DEF Inputs
    <3>3. b[k] = (k <= n /\ v[k])
      BY <3>1, Zenon
    <3> QED
      BY <3>1, <3>2, <3>3, Zenon
  <2> QED
    BY <2>1, <2>2
<1> QED
  BY <1>5, <1>6, <1>7, <1>9, <1>10, <1>11 DEF IInv

-----------------------------------------------------------------------------
(* A new node over two neighbours that wait.                               *)

(* Assignments that agree on what waits satisfy the same clauses.          *)
LEMMA SameClauses ==
  ASSUME IInv, pc # "done", NEW b, NEW b2,
         \A z : Fresh(z) => (True(b2, z) <=> True(b, z)), Models(b)
  PROVE  Models(b2)
BY DEF IInv, Used, Models

(* What a model of the clauses says of the two literals of the pair.       *)
LEMMA PairMerges ==
  ASSUME IInv, Pair, NEW a \in Assignments,
         True(a, next) <=> True(a, l[i]) \/ True(a, l[i + 1]),
         ~ (True(a, l[i]) /\ True(a, l[i + 1]))
  PROVE  /\ (\E k \in Front : True(a, Waiting(k))) <=>
              (\E k \in Front' : True(a, Waiting(k)'))
         /\ (\A j, k \in Front : True(a, Waiting(j)) /\ True(a, Waiting(k)) => j = k) <=>
              (\A j, k \in Front' : True(a, Waiting(j)') /\ True(a, Waiting(k)') => j = k)
<1> SUFFICES ASSUME NEW k0, k0 = Len(laux), NEW m, m = Len(laux) + Len(l) - i + 1
             PROVE  /\ (\E k \in Front : True(a, Waiting(k))) <=>
                         (\E k \in Front' : True(a, Waiting(k)'))
                    /\ (\A j, k \in Front : True(a, Waiting(j)) /\ True(a, Waiting(k)) => j = k) <=>
                         (\A j, k \in Front' : True(a, Waiting(j)') /\ True(a, Waiting(k)') => j = k)
  OBVIOUS
<1>1. /\ pc = "pair" /\ i <= Len(l) /\ i + 1 <= Len(l) /\ i \in Nat \ {0}
      /\ l \in Seq(Int) /\ laux \in Seq(Int) /\ Len(l) \in Nat /\ k0 \in Nat
      /\ next \in Int
  BY InRange DEF Pair, IInv, TypeOK
<1>2. /\ l' = l /\ i' = i + 2 /\ laux' = Append(laux, next) /\ Len(laux') = k0 + 1
      /\ laux'[k0 + 1] = next
      /\ \A k \in 1..k0 : laux'[k] = laux[k]
  BY <1>1 DEF Pair
<1>3. Front = 1..m /\ Front' = 1..(m - 1) /\ m \in Nat /\ k0 + 2 <= m
  BY <1>1, <1>2 DEF Front
<1>6. \A k \in 1..k0 : Waiting(k)' = Waiting(k)
  BY <1>1, <1>2 DEF Waiting
<1>7. Waiting(k0 + 1)' = next /\ Waiting(k0 + 1) = l[i] /\ Waiting(k0 + 2) = l[i + 1]
  <2>1. /\ k0 + 1 <= Len(laux') /\ ~ (k0 + 1 <= k0) /\ ~ (k0 + 2 <= k0)
        /\ k0 + 1 - k0 + i - 1 = i /\ k0 + 2 - k0 + i - 1 = i + 1
    BY <1>1, <1>2
  <2>2. Waiting(k0 + 1)' = laux'[k0 + 1]
    BY <2>1 DEF Waiting
  <2>3. Waiting(k0 + 1) = l[k0 + 1 - k0 + i - 1]
    BY <1>1, <2>1 DEF Waiting
  <2>4. Waiting(k0 + 2) = l[k0 + 2 - k0 + i - 1]
    BY <1>1, <2>1 DEF Waiting
  <2> QED
    BY <1>2, <2>1, <2>2, <2>3, <2>4, Zenon
<1>8. \A k \in (k0 + 2)..(m - 1) : Waiting(k)' = Waiting(k + 1)
  <2> TAKE k \in (k0 + 2)..(m - 1)
  <2>1. /\ ~ (k <= Len(laux')) /\ ~ (k + 1 <= k0)
        /\ k - Len(laux') + i' - 1 = k + 1 - k0 + i - 1
    <3>1. Len(laux') = k0 + 1 /\ i' = i + 2
      BY <1>2
    <3>2. k \in Int /\ k >= k0 + 2 /\ k0 \in Nat /\ i \in Nat
      BY <1>1, <1>3
    <3> QED
      BY <3>1, <3>2
  <2> QED
    BY <1>2, <2>1 DEF Waiting
<1>10. m \in Nat /\ k0 \in Nat /\ k0 + 2 <= m
  BY <1>1, <1>3
<1>11. PICK S : S = {k \in 1..m : True(a, Waiting(k))}
  OBVIOUS
<1>12. PICK T : T = {k \in 1..(m - 1) : True(a, Waiting(k)')}
  OBVIOUS
<1>13. S \in SUBSET (1..m) /\ T \in SUBSET (1..(m - 1))
  BY <1>11, <1>12
<1>14. \A k \in 1..k0 : k \in T <=> k \in S
  <2> TAKE k \in 1..k0
  <2>1. k \in 1..m /\ k \in 1..(m - 1)
    BY <1>10
  <2> QED
    BY <1>6, <1>11, <1>12, <2>1, Zenon
<1>15. \A k \in (k0 + 2)..(m - 1) : k \in T <=> k + 1 \in S
  <2> TAKE k \in (k0 + 2)..(m - 1)
  <2>1. k \in 1..(m - 1) /\ k + 1 \in 1..m
    BY <1>10
  <2> QED
    BY <1>8, <1>11, <1>12, <2>1, Zenon
<1>16. k0 + 1 \in 1..(m - 1) /\ k0 + 1 \in 1..m /\ k0 + 2 \in 1..m
  BY <1>10
<1>17. k0 + 1 \in T <=> True(a, next)
  BY <1>7, <1>12, <1>16, Zenon
<1>18. /\ k0 + 1 \in S <=> True(a, l[i])
       /\ k0 + 2 \in S <=> True(a, l[i + 1])
  BY <1>7, <1>11, <1>16, Zenon
<1>19. /\ k0 + 1 \in T <=> (k0 + 1 \in S \/ k0 + 2 \in S)
       /\ ~ (k0 + 1 \in S /\ k0 + 2 \in S)
  BY <1>17, <1>18, Zenon
<1>20. /\ S = {} <=> T = {}
       /\ (\A j, k \in S : j = k) <=> (\A j, k \in T : j = k)
  <2>1. Merged(m, k0, S, T)
    BY <1>10, <1>13, <1>14, <1>15, <1>19, Zenon DEF Merged
  <2> QED
    BY <2>1, Merge, Zenon
<1>21. (\E k \in Front : True(a, Waiting(k))) <=> S # {}
  BY <1>3, <1>11, Zenon
<1>22. (\E k \in Front' : True(a, Waiting(k)')) <=> T # {}
  BY <1>3, <1>12, Zenon
<1>23. (\A j, k \in Front : True(a, Waiting(j)) /\ True(a, Waiting(k)) => j = k)
         <=> (\A j, k \in S : j = k)
  BY <1>3, <1>11, Zenon
<1>24. (\A j, k \in Front' : True(a, Waiting(j)') /\ True(a, Waiting(k)') => j = k)
         <=> (\A j, k \in T : j = k)
  BY <1>3, <1>12, Zenon
<1> QED
  BY <1>20, <1>21, <1>22, <1>23, <1>24, Zenon

(* The parity of what is left of a layer.                                  *)
LEMMA Parity == \A x \in Int : x % 2 = 1 => (x - 2) % 2 = 1
OBVIOUS

(* The loop over the pairs of a layer.                                     *)
LEMMA PairStep == IInv /\ Pair => IInv'
<1> SUFFICES ASSUME IInv, Pair
             PROVE  IInv'
  OBVIOUS
<1>1. /\ n' = n /\ signs' = signs /\ pc = "pair" /\ pc' = "pair" /\ l' = l
      /\ i' = i + 2 /\ next' = next + 1 /\ laux' = Append(laux, next)
      /\ clauses' = clauses \cup Node(next, l[i], l[i + 1])
  BY DEF Pair, IInv, TypeOK
<1>2. /\ n \in Nat \ {0} /\ Literal(next) /\ i + 1 <= Len(l) /\ i \in Nat \ {0}
      /\ l \in Seq(Int) /\ laux \in Seq(Int) /\ next \in Nat
      /\ next >= n + 2 /\ Len(l) \in Nat /\ Len(laux) \in Nat
  <2>1. /\ n \in Nat \ {0}
        /\ pc = "pair" /\ i <= Len(l) => Literal(next) /\ i + 1 <= Len(l)
    BY InRange, Zenon
  <2>2. pc = "pair" /\ i <= Len(l)
    BY DEF Pair
  <2> QED
    BY <2>1, <2>2 DEF IInv, TypeOK, Counts
<1>3. /\ Len(laux') = Len(laux) + 1 /\ laux' \in Seq(Int)
      /\ laux'[Len(laux) + 1] = next
      /\ \A k \in 1..Len(laux) : laux'[k] = laux[k]
  BY <1>1, <1>2
<1>4. Fresh(l[i]) /\ Fresh(l[i + 1])
  BY <1>2 DEF IInv, Used
<1>5. /\ Literal(l[i]) /\ Literal(l[i + 1])
      /\ next \in Int /\ -next \in Int /\ l[i] \in Int /\ -l[i] \in Int
      /\ l[i + 1] \in Int /\ -l[i + 1] \in Int
  BY <1>2, <1>4, InRange DEF Literal
<1>6. \A c \in Node(next, l[i], l[i + 1]) : \A x \in c :
         x \in {next, -next, l[i], -l[i], l[i + 1], -l[i + 1]}
  BY DEF Node
<1>7. TypeOK'
  <2>1. \A c \in clauses' : \A x \in c : x \in Int
    <3>1. \A c \in clauses : \A x \in c : x \in Int
      BY DEF IInv, TypeOK
    <3> QED
      BY <1>1, <1>5, <1>6, <3>1
  <2>2. clauses' \subseteq SUBSET Int
    BY <2>1
  <2> QED
    BY <1>1, <1>2, <1>3, <2>2 DEF IInv, TypeOK
<1>8. Counts'
  <2>1. (Len(l) - (i + 2)) % 2 = 1
    <3>1. (Len(l) - i) % 2 = 1 /\ Len(l) - i \in Int
      BY <1>1, <1>2 DEF IInv, Counts, InBounds
    <3>2. Len(l) - (i + 2) = (Len(l) - i) - 2
      BY <1>2
    <3> QED
      BY <3>1, <3>2, Parity
  <2>2. InBounds'
    BY <1>1, <2>1 DEF IInv, Counts, InBounds
  <2>3. /\ i <= Len(l) + 1
        /\ 2 * Len(laux) + Len(l) - i + 1 >= 3
        /\ next = 2 * n + 2 - (Len(laux) + Len(l) - i + 1)
    BY <1>1 DEF IInv, Counts
  <2>4. /\ i' <= Len(l') + 1
        /\ 2 * Len(laux') + Len(l') - i' + 1 >= 3
    <3>1. Len(l') = Len(l) /\ i' = i + 2 /\ Len(laux') = Len(laux) + 1
      BY <1>1, <1>3
    <3> QED
      BY <1>2, <2>3, <3>1
  <2>5. next' = 2 * n' + 2 - (Len(laux') + Len(l') - i' + 1) /\ next' >= n' + 2
    <3>1. /\ Len(l') = Len(l) /\ i' = i + 2 /\ Len(laux') = Len(laux) + 1
          /\ next' = next + 1 /\ n' = n
      BY <1>1, <1>3
    <3> QED
      BY <1>2, <2>3, <3>1
  <2> QED
    BY <1>1, <2>2, <2>4, <2>5 DEF Counts
<1>9. P' = P /\ P \in Int /\ P < next
  BY <1>1, <1>2 DEF P
<1>10. \A x : Fresh(x) => Among(x, next', P) /\ Among(-x, next', P)
  BY <1>1, <1>2, <1>9 DEF Fresh, Among
<1>11. Among(next, next', P) /\ Among(-next, next', P)
  BY <1>1, <1>2, <1>9 DEF Among, P
<1>12. Used'
  <2>1. \A k \in 1..Len(l) : Among(l[k], next', P)
    BY <1>10 DEF IInv, Used
  <2>2. \A k \in 1..Len(laux') : Among(laux'[k], next', P)
    <3> TAKE k \in 1..Len(laux')
    <3>1. k \in 1..Len(laux) \/ k = Len(laux) + 1
      BY <1>2, <1>3
    <3>2. \A j \in 1..Len(laux) : Fresh(laux[j])
      BY DEF IInv, Used
    <3> QED
      BY <1>3, <1>10, <1>11, <3>1, <3>2
  <2>3. \A c \in clauses' : \A x \in c : Among(x, next', P)
    <3> TAKE c \in clauses'
    <3> TAKE x \in c
    <3>1. CASE c \in clauses
      BY <1>1, <1>10, <3>1 DEF IInv, Used
    <3>2. CASE c \in Node(next, l[i], l[i + 1])
      BY <1>4, <1>6, <1>10, <1>11, <3>2, Zenon
    <3> QED
      BY <1>1, <3>1, <3>2
  <2> QED
    BY <1>1, <1>9, <2>1, <2>2, <2>3 DEF Used, Fresh
<1>13. ASSUME NEW a \in Assignments
       PROVE  Models(a)' <=> /\ Models(a)
                             /\ True(a, next) <=> True(a, l[i]) \/ True(a, l[i + 1])
                             /\ ~ (True(a, l[i]) /\ True(a, l[i + 1]))
  <2>1. Models(a)' <=> /\ Models(a)
                       /\ \A c \in Node(next, l[i], l[i + 1]) : \E x \in c : True(a, x)
    BY <1>1, Zenon DEF Models, True
  <2> QED
    BY <1>2, <1>5, <2>1, NodeClauses DEF IInv
<1>14. Stands'
  <2> SUFFICES ASSUME NEW a \in Assignments, Models(a)'
               PROVE  /\ SomeOne(a) <=> \E k \in Front' : True(a, Waiting(k)')
                      /\ AtMostOne(a) <=> \A j, k \in Front' :
                           True(a, Waiting(j)') /\ True(a, Waiting(k)') => j = k
    BY <1>1 DEF Stands, Assignments, SomeOne, AtMostOne, Input, True
  <2>1. /\ SomeOne(a) <=> \E k \in Front : True(a, Waiting(k))
        /\ AtMostOne(a) <=>
             \A j, k \in Front : True(a, Waiting(j)) /\ True(a, Waiting(k)) => j = k
    BY <1>1, <1>13 DEF IInv, Stands
  <2> QED
    BY <1>13, <2>1, PairMerges, Zenon
<1>15. Sound'
  BY <1>1 DEF Sound
<1>16. Conservative'
  <2> SUFFICES ASSUME NEW v \in Inputs, AtMostOne(v)
               PROVE  \E b \in Assignments : /\ \A k \in 1..n : b[k] = v[k]
                                             /\ Models(b)'
    BY <1>1 DEF Conservative, Inputs, Assignments, AtMostOne, Input, True
  <2>1. PICK b \in Assignments : (\A k \in 1..n : b[k] = v[k]) /\ Models(b)
    BY DEF IInv, Conservative
  <2>2. True(b, l[i]) \in BOOLEAN /\ True(b, l[i + 1]) \in BOOLEAN
    BY <1>5, Negation DEF IInv
  <2>3. PICK y \in BOOLEAN : y <=> True(b, l[i]) \/ True(b, l[i + 1])
    BY <2>2
  <2>4. next \in 1..(2 * n) /\ next > n
    BY <1>2 DEF Literal
  <2>5. PICK b2 : b2 = [b EXCEPT ![next] = y]
    OBVIOUS
  <2>6. /\ b2 \in Assignments
        /\ True(b2, next) <=> y
        /\ \A z : Fresh(z) => (True(b2, z) <=> True(b, z))
    <3>1. \A z : Fresh(z) => Literal(z)
      BY InRange, Zenon
    <3>2. \A z : Fresh(z) => z # next /\ z # -next
      BY <1>2 DEF Fresh, Among
    <3>3. TypeOK
      BY DEF IInv
    <3> QED
      BY <2>1, <2>4, <2>5, <3>1, <3>2, <3>3, Change, Zenon
  <2>7. \A k \in 1..n : b2[k] = v[k]
    BY <1>2, <2>1, <2>4, <2>5 DEF Assignments
  <2>8. Models(b2)
    BY <1>1, <2>1, <2>6, SameClauses
  <2>9. ~ (True(b, l[i]) /\ True(b, l[i + 1]))
    <3>1. AtMostOne(b)
      BY <2>1, Agree DEF IInv
    <3>2. \A j, k \in Front : True(b, Waiting(j)) /\ True(b, Waiting(k)) => j = k
      BY <1>1, <2>1, <3>1 DEF IInv, Stands
    <3>3. /\ Len(laux) + 1 \in Front /\ Len(laux) + 2 \in Front
          /\ Waiting(Len(laux) + 1) = l[i] /\ Waiting(Len(laux) + 2) = l[i + 1]
      <4>1. Front = 1..(Len(laux) + Len(l) - i + 1)
        BY DEF Front
      <4>2. /\ ~ (Len(laux) + 1 <= Len(laux)) /\ ~ (Len(laux) + 2 <= Len(laux))
            /\ Len(laux) + 1 - Len(laux) + i - 1 = i
            /\ Len(laux) + 2 - Len(laux) + i - 1 = i + 1
        BY <1>2
      <4> QED
        BY <1>2, <4>1, <4>2 DEF Waiting
    <3>4. Len(laux) + 1 # Len(laux) + 2
      BY <1>2
    <3> QED
      BY <3>2, <3>3, <3>4
  <2>10. /\ True(b2, next) <=> True(b2, l[i]) \/ True(b2, l[i + 1])
         /\ ~ (True(b2, l[i]) /\ True(b2, l[i + 1]))
    BY <1>4, <2>3, <2>6, <2>9, Zenon
  <2>11. Models(b2)'
    BY <1>13, <2>6, <2>8, <2>10, Zenon
  <2> QED
    BY <2>6, <2>7, <2>11
<1> QED
  BY <1>7, <1>8, <1>12, <1>14, <1>15, <1>16 DEF IInv

-----------------------------------------------------------------------------
(* The steps that only move literals from one vector to the other.         *)

LEMMA SameFront ==
  ASSUME IInv, pc # "done", pc' # "done",
         UNCHANGED <<n, signs, next, clauses>>,
         Front' = Front, \A k \in Front : Waiting(k)' = Waiting(k)
  PROVE  Stands' /\ Sound' /\ Conservative'
<1>1. Assignments' = Assignments /\ Inputs' = Inputs
  BY DEF Assignments, Inputs
<1>2. \A a : /\ Models(a)' <=> Models(a)
             /\ AtMostOne(a)' <=> AtMostOne(a)
             /\ SomeOne(a)' <=> SomeOne(a)
  BY DEF Models, AtMostOne, SomeOne, Input, True
<1>3. Stands'
  <2> SUFFICES ASSUME NEW a \in Assignments, Models(a)
               PROVE  /\ SomeOne(a) <=> \E k \in Front' : True(a, Waiting(k)')
                      /\ AtMostOne(a) <=> \A j, k \in Front' :
                           True(a, Waiting(j)') /\ True(a, Waiting(k)') => j = k
    BY <1>1, <1>2, Zenon DEF Stands, True
  <2>1. /\ SomeOne(a) <=> \E k \in Front : True(a, Waiting(k))
        /\ AtMostOne(a) <=>
             \A j, k \in Front : True(a, Waiting(j)) /\ True(a, Waiting(k)) => j = k
    BY DEF IInv, Stands
  <2> QED
    BY <2>1, Zenon
<1>4. Sound'
  BY DEF Sound
<1>5. Conservative'
  BY <1>1, <1>2, Zenon DEF IInv, Conservative
<1> QED
  BY <1>3, <1>4, <1>5

LEMMA BeginStep == IInv /\ Begin => IInv'
<1> SUFFICES ASSUME IInv, Begin
             PROVE  IInv'
  OBVIOUS
<1>1. /\ pc = "start" /\ pc' = "layer" /\ Len(l) # 1
      /\ UNCHANGED <<n, signs, l, laux, i, next, clauses>>
  BY DEF Begin
<1>2. TypeOK' /\ Used'
  BY <1>1 DEF IInv, TypeOK, Used, Fresh, P
<1>3. Counts'
  BY <1>1 DEF IInv, Counts, InBounds
<1>4. Front' = Front /\ \A k \in Front : Waiting(k)' = Waiting(k)
  BY <1>1 DEF Front, Waiting
<1> QED
  BY <1>1, <1>2, <1>3, <1>4, SameFront DEF IInv

LEMMA LayerStep == IInv /\ Layer => IInv'
<1> SUFFICES ASSUME IInv, Layer
             PROVE  IInv'
  OBVIOUS
<1>1. /\ pc = "layer" /\ pc' = "pair" /\ UNCHANGED <<n, signs, l, next, clauses>>
      /\ i = 1 /\ laux = <<>> /\ Len(laux) = 0 /\ Len(l) # 2
      /\ i' = 1 + (Len(l) % 2) /\ laux' = SubSeq(l, 1, Len(l) % 2)
  BY DEF Layer, IInv, Counts
<1>2. /\ n \in Nat /\ next \in Nat /\ l \in Seq(Int) /\ Len(l) \in Nat /\ l[1] \in Int
      /\ next = 2 * n + 2 - Len(l) /\ next >= n + 2
      /\ \A k \in 1..Len(l) : Fresh(l[k])
  <2>1. n \in Nat
    BY InRange, Zenon
  <2>2. /\ next \in Nat /\ l \in Seq(Int) /\ next >= n + 2
        /\ next = 2 * n + 2 - (Len(laux) + Len(l) - i + 1)
        /\ \A k \in 1..Len(l) : Fresh(l[k])
    BY DEF IInv, TypeOK, Counts, Used
  <2>3. Len(l) \in Nat /\ 1 \in 1..Len(l) /\ Len(laux) = 0 /\ i = 1
    <3>1. Len(l) \in Nat /\ Len(l) >= 1
      BY <2>2 DEF IInv, Counts, InBounds
    <3> QED
      BY <1>1, <3>1
  <2>4. l[1] \in Int
    BY <2>2, <2>3
  <2>5. \A x \in Nat : 0 + x - 1 + 1 = x
    OBVIOUS
  <2> QED
    BY <2>1, <2>2, <2>3, <2>4, <2>5
<1>12. l' = l /\ Len(l) \in Nat /\ Len(l) > 2
  <2>3. Len(l) \in Nat /\ Len(l) # 2 /\ pc = "layer"
    BY <1>1, <1>2
  <2>1. Len(l) >= 1 /\ Len(l) # 1
    BY <2>3 DEF IInv, Counts, InBounds
  <2>2. \A x \in Nat : x >= 1 /\ x # 1 /\ x # 2 => x > 2
    OBVIOUS
  <2> QED
    BY <1>1, <2>1, <2>2, <2>3
<1>3. Front = 1..Len(l) /\ \A k \in Front : Waiting(k) = l[k]
  BY <1>1, <1>2 DEF Front, Waiting
<1>4. \/ Len(l) % 2 = 0 /\ i' = 1 /\ laux' = <<>> /\ Len(laux') = 0
      \/ Len(l) % 2 = 1 /\ i' = 2 /\ laux' = <<l[1]>> /\ Len(laux') = 1 /\ laux'[1] = l[1]
  <2>1. \A x \in Nat : x % 2 = 0 \/ x % 2 = 1
    OBVIOUS
  <2>2. SubSeq(l, 1, 0) = <<>>
    BY <1>2
  <2>3. SubSeq(l, 1, 1) = <<l[1]>>
    <3>1. 1 \in 1..Len(l)
      BY <1>12
    <3>2. /\ SubSeq(l, 1, 1) \in Seq(Int)
          /\ Len(SubSeq(l, 1, 1)) = IF 1 <= 1 THEN 1 - 1 + 1 ELSE 0
          /\ \A k \in 1..(1 - 1 + 1) : SubSeq(l, 1, 1)[k] = l[1 + k - 1]
      <4>1. \A k \in 1..1 : l[k] \in Int
        BY <1>2
      <4>2. 1 \in Int
        OBVIOUS
      <4> QED
        BY <4>1, <4>2, SubSeqProperties
    <3>3. /\ SubSeq(l, 1, 1) \in Seq(Int) /\ Len(SubSeq(l, 1, 1)) = 1
          /\ SubSeq(l, 1, 1)[1] = l[1]
      BY <3>2
    <3>4. \A s \in Seq(Int) : Len(s) = 1 => s = <<s[1]>>
      OBVIOUS
    <3> QED
      BY <3>3, <3>4, Zenon
  <2>4. CASE Len(l) % 2 = 0
    BY <1>1, <2>2, <2>4
  <2>5. CASE Len(l) % 2 = 1
    BY <1>1, <2>3, <2>5
  <2> QED
    BY <1>2, <2>1, <2>4, <2>5
<1>5. (Len(l) - i') % 2 = 1
  <2>1. \A x \in Nat : /\ x % 2 = 0 => (x - 1) % 2 = 1
                       /\ x % 2 = 1 => (x - 2) % 2 = 1
    OBVIOUS
  <2> QED
    BY <1>2, <1>4, <2>1
<1>6. TypeOK'
  BY <1>1, <1>2, <1>4 DEF IInv, TypeOK
<1>7. InBounds'
  BY <1>1, <1>5 DEF IInv, Counts, InBounds
<1>8. Counts'
  <2>1. Len(l') = Len(l) /\ n' = n /\ next' = next /\ pc' = "pair"
    BY <1>1
  <2>2. /\ i' <= Len(l) + 1
        /\ 2 * Len(laux') + Len(l) - i' + 1 >= 3
        /\ Len(laux') + Len(l) - i' + 1 = Len(l)
    <3>1. CASE i' = 1 /\ Len(laux') = 0
      BY <1>12, <3>1
    <3>2. CASE i' = 2 /\ Len(laux') = 1
      BY <1>12, <3>2
    <3> QED
      BY <1>4, <3>1, <3>2
  <2> QED
    BY <1>2, <1>7, <2>1, <2>2 DEF Counts
<1>9. \A x : Fresh(x)' <=> Among(x, next, P)
  BY <1>1 DEF Fresh, P, Among
<1>10. Used'
  BY <1>1, <1>2, <1>4 DEF IInv, Used, Fresh, P
<1>11. Front' = Front /\ \A k \in Front : Waiting(k)' = Waiting(k)
  <2>1. CASE Len(laux') = 0 /\ i' = 1
    <3>1. Front' = 1..Len(l)
      <4>1. Len(laux') + Len(l') - i' + 1 = Len(l)
        BY <1>12, <2>1
      <4> QED
        BY <4>1 DEF Front
    <3>2. ASSUME NEW k \in 1..Len(l)
          PROVE  Waiting(k)' = l[k]
      <4>1. ~ (k <= Len(laux')) /\ k - Len(laux') + i' - 1 = k
        BY <1>2, <2>1
      <4> QED
        BY <1>1, <4>1 DEF Waiting
    <3> QED
      BY <1>3, <3>1, <3>2
  <2>2. CASE i' = 2 /\ Len(laux') = 1 /\ laux'[1] = l[1]
    <3>1. Front' = 1..Len(l)
      <4>1. Len(laux') + Len(l') - i' + 1 = Len(l)
        BY <1>12, <2>2
      <4> QED
        BY <4>1 DEF Front
    <3>2. ASSUME NEW k \in 1..Len(l)
          PROVE  Waiting(k)' = l[k]
      <4>1. CASE k = 1
        BY <2>2, <4>1 DEF Waiting
      <4>2. CASE k # 1
        <5>1. ~ (k <= Len(laux')) /\ k - Len(laux') + i' - 1 = k
          BY <1>2, <2>2, <4>2
        <5> QED
          BY <1>1, <5>1 DEF Waiting
      <4> QED
        BY <4>1, <4>2
    <3> QED
      BY <1>3, <3>1, <3>2
  <2> QED
    BY <1>4, <2>1, <2>2
<1> QED
  BY <1>1, <1>6, <1>8, <1>10, <1>11, SameFront DEF IInv

LEMMA EndLayerStep == IInv /\ EndLayer => IInv'
<1> SUFFICES ASSUME IInv, EndLayer
             PROVE  IInv'
  OBVIOUS
<1>1. /\ pc = "pair" /\ pc' = "layer" /\ UNCHANGED <<n, signs, next, clauses>>
      /\ i > Len(l) /\ i' = 1 /\ laux' = <<>> /\ Len(laux') = 0 /\ l' = laux
  BY DEF EndLayer
<1>2. /\ n \in Nat /\ next \in Nat /\ l \in Seq(Int) /\ Len(l) \in Nat /\ i \in Nat
      /\ laux \in Seq(Int) /\ Len(laux) \in Nat
  BY InRange DEF IInv, TypeOK
<1>3. /\ i = Len(l) + 1 /\ Len(laux) >= 2 /\ next = 2 * n + 2 - Len(laux) /\ next >= n + 2
  <2>1. /\ i <= Len(l) + 1 /\ next >= n + 2
        /\ 2 * Len(laux) + Len(l) - i + 1 >= 3
        /\ next = 2 * n + 2 - (Len(laux) + Len(l) - i + 1)
    BY <1>1 DEF IInv, Counts
  <2>2. i = Len(l) + 1
    BY <1>1, <1>2, <2>1
  <2>3. \A x, y \in Nat : 2 * x + y - (y + 1) + 1 >= 3 => x >= 2
    OBVIOUS
  <2>4. \A x, y, z \in Nat : z - (x + y - (y + 1) + 1) = z - x
    OBVIOUS
  <2>5. 2 * n + 2 \in Nat
    BY <1>2
  <2> QED
    BY <1>2, <2>1, <2>2, <2>3, <2>4, <2>5
<1>4. TypeOK'
  BY <1>1, <1>2 DEF IInv, TypeOK
<1>5. Counts'
  <2>1. Len(l') = Len(laux) /\ pc' # "pair"
    BY <1>1
  <2>2. Len(laux) >= 1 /\ Len(laux) # 1 /\ 1 <= Len(laux) + 1
    <3>1. Len(laux) \in Nat /\ Len(laux) >= 2
      BY <1>2, <1>3
    <3>2. \A x \in Nat : x >= 2 => x >= 1 /\ x # 1 /\ 1 <= x + 1
      OBVIOUS
    <3> QED
      BY <3>1, <3>2
  <2>3. InBounds'
    BY <2>1, <2>2 DEF InBounds
  <2>4. \A x \in Nat : 0 + x - 1 + 1 = x
    OBVIOUS
  <2>5. next' = 2 * n' + 2 - (Len(laux') + Len(l') - i' + 1) /\ next' >= n' + 2
    BY <1>1, <1>2, <1>3, <2>1, <2>4
  <2> QED
    BY <1>1, <2>1, <2>2, <2>3, <2>5 DEF Counts
<1>6. Used'
  BY <1>1 DEF IInv, Used, Fresh, P
<1>7. Front' = Front /\ \A k \in Front : Waiting(k)' = Waiting(k)
  BY <1>1, <1>2, <1>3 DEF Front, Waiting
<1> QED
  BY <1>1, <1>4, <1>5, <1>6, <1>7, SameFront DEF IInv

-----------------------------------------------------------------------------
(* The steps that tie what waits to p.                                     *)

(* p can be given the value that its disjunction asks for.                  *)
LEMMA Choice ==
  ASSUME IInv, NEW b \in Assignments, NEW K
  PROVE  \E b2 \in Assignments :
           /\ True(b2, P) <=> \E k \in K : True(b, Waiting(k))
           /\ \A z : Fresh(z) => (True(b2, z) <=> True(b, z))
           /\ \A k \in 1..n : b2[k] = b[k]
<1>9. PICK y \in BOOLEAN : y <=> \E k \in K : True(b, Waiting(k))
  OBVIOUS
<1>1. n \in Nat \ {0} /\ P = n + 1 /\ P \in 1..(2 * n) /\ TypeOK
  BY InRange DEF P, Literal, IInv
<1>2. PICK p0 : p0 = P
  OBVIOUS
<1>3. PICK b2 : b2 = [b EXCEPT ![p0] = y]
  OBVIOUS
<1>4. p0 \in 1..(2 * n)
  BY <1>1, <1>2
<1>5. /\ b2 \in Assignments
      /\ True(b2, p0) <=> y
      /\ \A z : Literal(z) /\ z # p0 /\ z # -p0 => (True(b2, z) <=> True(b, z))
  BY <1>1, <1>3, <1>4, Change, Zenon
<1>6. \A z : Fresh(z) => Literal(z) /\ z # p0 /\ z # -p0
  <2>1. \A z : Fresh(z) => Literal(z)
    BY InRange, Zenon
  <2>2. \A z : Fresh(z) => z # p0 /\ z # -p0
    BY <1>2 DEF Fresh, Among
  <2> QED
    BY <2>1, <2>2
<1>7. \A k \in 1..n : b2[k] = b[k]
  BY <1>1, <1>2, <1>3, <1>4 DEF Assignments
<1>8. /\ True(b2, P) <=> \E k \in K : True(b, Waiting(k))
      /\ \A z : Fresh(z) => (True(b2, z) <=> True(b, z))
  BY <1>2, <1>5, <1>6, <1>9, Zenon
<1> QED
  BY <1>5, <1>7, <1>8, Zenon

(* The clauses C say that p is what waits, and that at most one of it holds. *)
Closes(C) ==
  \A a \in Assignments : (\A c \in C : \E x \in c : True(a, x)) <=>
    /\ True(a, P) <=> \E k \in Front : True(a, Waiting(k))
    /\ \A j, k \in Front : True(a, Waiting(j)) /\ True(a, Waiting(k)) => j = k

(* The steps that end the code's loop add such clauses.                     *)
Ends(C) ==
  /\ pc \in {"start", "layer"} /\ pc' = "done"
  /\ UNCHANGED <<n, signs, l, laux, i, next>>
  /\ clauses' = clauses \cup C /\ C \subseteq SUBSET Int
  /\ Closes(C)

LEMMA Finish ==
  ASSUME NEW C, IInv, Ends(C)
  PROVE  IInv'
<1>1. n \in Nat \ {0} /\ Literal(P) /\ P = n + 1 /\ P' = P
  BY InRange DEF Ends, P
<1>2. Assignments' = Assignments /\ Inputs' = Inputs
  BY DEF Ends, Assignments, Inputs
<1>3. \A a : /\ AtMostOne(a)' <=> AtMostOne(a)
             /\ SomeOne(a)' <=> SomeOne(a)
             /\ Models(a)' <=> Models(a) /\ \A c \in C : \E x \in c : True(a, x)
  <2> TAKE a
  <2>1. n' = n /\ signs' = signs /\ clauses' = clauses \cup C
    BY DEF Ends
  <2>2. AtMostOne(a)' <=> AtMostOne(a)
    BY <2>1 DEF AtMostOne, Input, True
  <2>3. SomeOne(a)' <=> SomeOne(a)
    BY <2>1 DEF SomeOne, Input, True
  <2>4. Models(a)' <=> \A c \in clauses' : \E x \in c : True(a, x)
    BY Zenon DEF Models, True
  <2>5. Models(a)' <=> Models(a) /\ \A c \in C : \E x \in c : True(a, x)
    BY <2>1, <2>4 DEF Models
  <2> QED
    BY <2>2, <2>3, <2>5
<1>4. TypeOK'
  BY DEF Ends, IInv, TypeOK
<1>5. Counts'
  BY DEF Ends, IInv, Counts, InBounds
<1>6. Used'
  BY DEF Ends, IInv, Used, Fresh, P
<1>7. Stands'
  BY DEF Ends, Stands
<1>9. Sound'
  <2> SUFFICES ASSUME NEW a \in Assignments, Models(a)'
               PROVE  AtMostOne(a) /\ (a[P] <=> SomeOne(a))
    BY <1>1, <1>2, <1>3, Zenon DEF Sound
  <2>1. Models(a) /\ \A c \in C : \E x \in c : True(a, x)
    BY <1>3, Zenon
  <2>2. /\ SomeOne(a) <=> \E k \in Front : True(a, Waiting(k))
        /\ AtMostOne(a) <=>
             \A j, k \in Front : True(a, Waiting(j)) /\ True(a, Waiting(k)) => j = k
    BY <2>1 DEF Ends, IInv, Stands
  <2>3. True(a, P) <=> SomeOne(a)
    BY <2>1, <2>2, Zenon DEF Ends, Closes
  <2>4. AtMostOne(a)
    BY <2>1, <2>2, Zenon DEF Ends, Closes
  <2>5. True(a, P) <=> a[P]
    BY <1>1 DEF True
  <2> QED
    BY <2>3, <2>4, <2>5, Zenon
<1>10. \A k \in Front : Fresh(Waiting(k))
  <2>1. i = 1 /\ laux = <<>> /\ Len(laux) = 0 /\ l \in Seq(Int) /\ Len(l) \in Nat
    BY DEF Ends, IInv, TypeOK, Counts
  <2>2. Front = 1..Len(l) /\ \A k \in Front : Waiting(k) = l[k]
    BY <2>1 DEF Front, Waiting
  <2> QED
    BY <2>2 DEF IInv, Used
<1>11. Conservative'
  <2> SUFFICES ASSUME NEW v \in Inputs, AtMostOne(v)
               PROVE  \E b \in Assignments : /\ \A k \in 1..n : b[k] = v[k]
                                             /\ Models(b)'
    <3>1. n' = n
      BY DEF Ends
    <3> QED
      BY <1>2, <1>3, <3>1, Zenon DEF Conservative
  <2>1. PICK b \in Assignments : (\A k \in 1..n : b[k] = v[k]) /\ Models(b)
    BY DEF IInv, Conservative
  <2>3. PICK b2 \in Assignments :
           /\ True(b2, P) <=> \E k \in Front : True(b, Waiting(k))
           /\ \A z : Fresh(z) => (True(b2, z) <=> True(b, z))
           /\ \A k \in 1..n : b2[k] = b[k]
    BY <2>1, Choice, Zenon
  <2>5. /\ b2 \in Assignments
        /\ True(b2, P) <=> \E k \in Front : True(b, Waiting(k))
        /\ \A z : Fresh(z) => (True(b2, z) <=> True(b, z))
    BY <2>3
  <2>6. \A k \in 1..n : b2[k] = v[k]
    BY <2>1, <2>3
  <2>7. Models(b2)
    BY <2>1, <2>5, SameClauses DEF Ends
  <2>8. \A j, k \in Front : True(b, Waiting(j)) /\ True(b, Waiting(k)) => j = k
    <3>1. AtMostOne(b)
      BY <2>1, Agree DEF IInv
    <3> QED
      BY <2>1, <3>1 DEF Ends, IInv, Stands
  <2>9. /\ True(b2, P) <=> \E k \in Front : True(b2, Waiting(k))
        /\ \A j, k \in Front : True(b2, Waiting(j)) /\ True(b2, Waiting(k)) => j = k
    BY <1>10, <2>5, <2>8, Zenon
  <2>10. Models(b2)'
    BY <1>3, <2>5, <2>7, <2>9, Zenon DEF Ends, Closes
  <2> QED
    BY <2>5, <2>6, <2>10
<1> QED
  BY <1>4, <1>5, <1>6, <1>7, <1>9, <1>11 DEF IInv

LEMMA SingleStep == IInv /\ Single => IInv'
<1> SUFFICES ASSUME IInv, Single
             PROVE  IInv'
  OBVIOUS
<1> DEFINE C == {{-P, l[1]}, {P, -l[1]}}
<1>1. /\ pc = "start" /\ pc' = "done" /\ UNCHANGED <<n, signs, l, laux, i, next>>
      /\ clauses' = clauses \cup C /\ Len(l) = 1 /\ i = 1 /\ Len(laux) = 0
  BY DEF Single, IInv, Counts
<1>2. Literal(P) /\ Literal(l[1])
  BY <1>1, InRange DEF IInv, Used
<1>3. Front = {1} /\ Waiting(1) = l[1]
  <2>1. ~ (1 <= Len(laux)) /\ 1 - Len(laux) + i - 1 = 1
    BY <1>1
  <2> QED
    BY <1>1, <2>1 DEF Front, Waiting
<1>4. C \subseteq SUBSET Int
  BY <1>2 DEF Literal
<1>5. ASSUME NEW a \in Assignments
      PROVE  (\A c \in C : \E x \in c : True(a, x)) <=> (True(a, P) <=> True(a, l[1]))
  <2>1. (\A c \in C : \E x \in c : True(a, x)) <=>
          /\ True(a, -P) \/ True(a, l[1])
          /\ True(a, P) \/ True(a, -l[1])
    BY Zenon
  <2>2. /\ True(a, -P) <=> ~ True(a, P)
        /\ True(a, -l[1]) <=> ~ True(a, l[1])
    BY <1>2, Negation DEF IInv
  <2> QED
    BY <2>1, <2>2
<1>6. Closes(C)
  BY <1>3, <1>5, Zenon DEF Closes
<1> HIDE DEF C
<1> QED
  <2>1. Ends(C)
    BY <1>1, <1>4, <1>6 DEF Ends
  <2> QED
    BY <2>1, Finish

LEMMA RootStep == IInv /\ Root => IInv'
<1> SUFFICES ASSUME IInv, Root
             PROVE  IInv'
  OBVIOUS
<1>1. /\ pc = "layer" /\ pc' = "done" /\ UNCHANGED <<n, signs, l, laux, i, next>>
      /\ clauses' = clauses \cup Node(P, l[1], l[2])
      /\ Len(l) = 2 /\ i = 1 /\ Len(laux) = 0
  BY DEF Root, IInv, Counts
<1>2. Literal(P) /\ Literal(l[1]) /\ Literal(l[2])
  BY <1>1, InRange DEF IInv, Used
<1>3. Front = {1, 2} /\ Waiting(1) = l[1] /\ Waiting(2) = l[2]
  <2>1. /\ ~ (1 <= Len(laux)) /\ 1 - Len(laux) + i - 1 = 1
        /\ ~ (2 <= Len(laux)) /\ 2 - Len(laux) + i - 1 = 2
    BY <1>1
  <2>2. Front = 1..2
    BY <1>1 DEF Front
  <2> QED
    BY <2>1, <2>2 DEF Waiting
<1>4. Node(P, l[1], l[2]) \subseteq SUBSET Int
  BY <1>2 DEF Literal, Node
<1>5. \A a \in Assignments :
         (\A c \in Node(P, l[1], l[2]) : \E x \in c : True(a, x)) <=>
           /\ True(a, P) <=> True(a, l[1]) \/ True(a, l[2])
           /\ ~ (True(a, l[1]) /\ True(a, l[2]))
  BY <1>2, NodeClauses DEF IInv
<1>6. Closes(Node(P, l[1], l[2]))
  <2>1. 1 # 2
    OBVIOUS
  <2> QED
    BY <1>3, <1>5, <2>1, Zenon DEF Closes
<1> QED
  <2>1. Ends(Node(P, l[1], l[2]))
    BY <1>1, <1>4, <1>6 DEF Ends
  <2> QED
    BY <2>1, Finish

LEMMA Stuttering == IInv /\ UNCHANGED vars => IInv'
<1> SUFFICES ASSUME IInv, UNCHANGED vars
             PROVE  IInv'
  OBVIOUS
<1> USE DEF vars
<1>1. Assignments' = Assignments /\ Inputs' = Inputs /\ P' = P /\ Front' = Front
  BY DEF Assignments, Inputs, P, Front
<1>2. \A a : /\ Models(a)' <=> Models(a)
             /\ AtMostOne(a)' <=> AtMostOne(a)
             /\ SomeOne(a)' <=> SomeOne(a)
  BY DEF Models, AtMostOne, SomeOne, Input, True
<1>3. \A k : Waiting(k)' = Waiting(k)
  BY DEF Waiting
<1>4. TypeOK' /\ Counts' /\ Used'
  BY DEF IInv, TypeOK, Counts, InBounds, Used, Fresh, P
<1>5. Stands'
  BY <1>1, <1>2, <1>3, Zenon DEF IInv, Stands, True
<1>6. Sound'
  BY <1>1, <1>2, Zenon DEF IInv, Sound
<1>7. Conservative'
  BY <1>1, <1>2, Zenon DEF IInv, Conservative
<1> QED
  BY <1>4, <1>5, <1>6, <1>7 DEF IInv

-----------------------------------------------------------------------------
(* The results.                                                            *)

(* At every step of Cnf::amo_2tree_two_ways the literals that wait for a    *)
(* parent stand for the whole vector.                                      *)
THEOREM Invariance == Spec => []IInv
<1>1. IInv /\ [Next]_vars => IInv'
  BY SingleStep, BeginStep, LayerStep, PairStep, EndLayerStep, RootStep, Stuttering DEF Next
<1> QED
  BY <1>1, Initially, PTL DEF Spec

(* When Cnf::amo_2tree_two_ways returns, every model of its clauses makes at *)
(* most one literal of the vector true, and p the disjunction of them all.  *)
THEOREM Soundness == Spec => []Sound
<1>1. IInv => Sound
  BY DEF IInv
<1> QED
  BY <1>1, Invariance, PTL

(* The clauses of Cnf::amo_2tree_two_ways never forbid a choice of at most  *)
(* one literal: the new variables can follow any of them.                   *)
THEOREM Conservativity == Spec => []Conservative
<1>1. IInv => Conservative
  BY DEF IInv
<1> QED
  BY <1>1, Invariance, PTL
=============================================================================
