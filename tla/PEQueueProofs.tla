---------------------------- MODULE PEQueueProofs ----------------------------
(***************************************************************************)
(* The queue of possible extensions implements a priority queue, for any   *)
(* number of histories and any order of them.                              *)
(***************************************************************************)
EXTENDS PEQueue, WellFoundedInduction, TLAPS

LEMMA Product ==
  ASSUME NEW d \in Nat, NEW q \in Nat, d # 0, q # 0
  PROVE  d * q \in Nat /\ d <= d * q /\ q <= d * q
BY SMT

(* Doubling keeps a power of 2 one: the array may double again.            *)
LEMMA Doubled ==
  ASSUME NEW n \in Nat \ {0}, PowerOf2(n)
  PROVE  PowerOf2(2 * n)
<1> SUFFICES ASSUME NEW d \in 1..(2 * n), NEW q \in 1..(2 * n),
                    2 * n = d * q, d # 1, d % 2 # 0
             PROVE  FALSE
  BY DEF PowerOf2
<1> DEFINE a == d \div 2
           h == n - q * a
<1>1. a \in Nat /\ d = 2 * a + 1 /\ a >= 1
  BY SMT
<1>2. q * a \in Int /\ h \in Int
  BY <1>1, SMT
<1>3. q = 2 * h
  <2>1. d * q = (2 * a + 1) * q
    BY <1>1
  <2>2. (2 * a + 1) * q = 2 * (q * a) + q
    BY <1>1, SMT
  <2> QED
    BY <2>1, <2>2, <1>2, SMT
<1>4. h \in 1..n
  BY <1>3, <1>2, SMT
<1>5. d * h = n
  <2>1. d * q = 2 * (d * h) /\ d * h \in Int
    BY <1>3, <1>2, SMT
  <2> QED
    BY <2>1, SMT
<1>6. d \in 1..n
  <2>1. d <= d * h
    BY <1>4, Product, SMT
  <2> QED
    BY <2>1, <1>5, SMT
<1> QED
  BY <1>4, <1>5, <1>6, SMT DEF PowerOf2

LEMMA Two == PowerOf2(1) /\ PowerOf2(2)
<1>1. PowerOf2(1)
  BY DEF PowerOf2
<1> QED
  BY <1>1, Doubled

LEMMA ParentFacts ==
  ASSUME NEW i \in Nat
  PROVE  /\ Parent(i) \in Nat
         /\ i = 2 * Parent(i) \/ i = 2 * Parent(i) + 1
         /\ i > 1 => Parent(i) \in 1..(i - 1)
BY SMT DEF Parent

LEMMA WeightType ==
  ASSUME TypeOK, NEW h \in Hist
  PROVE  weight[h] \in Int
BY DEF TypeOK

(* The array after _pe_q_alloc has room for one more history.              *)
LEMMA GrownFacts ==
  ASSUME TypeOK, Room, NEW n, n = size + 1
  PROVE  /\ n \in Nat \ {0}
         /\ Slots(n) \in Nat /\ n < Slots(n) /\ PowerOf2(Slots(n))
         /\ Grown(n) \in [0..(Slots(n) - 1) -> Nat]
         /\ \A i \in 1..size : Grown(n)[i] = tab[i]
<1>1. n \in Nat \ {0} /\ size \in Nat /\ cap \in Nat
  BY DEF TypeOK
<1>2. Slots(n) \in Nat /\ n < Slots(n) /\ PowerOf2(Slots(n))
  <2>1. CASE PowerOf2(n)
    BY <1>1, <2>1, Doubled DEF Slots
  <2>2. CASE ~ PowerOf2(n)
    <3>1. cap # 0
      BY <2>2, <1>1, Two DEF Room
    <3>2. size < cap /\ PowerOf2(cap)
      BY <3>1, <1>1 DEF Room
    <3>3. n # cap
      BY <3>2, <2>2
    <3> QED
      BY <3>2, <3>3, <2>2, <1>1 DEF Slots
  <2> QED
    BY <2>1, <2>2
<1>3. Grown(n) \in [0..(Slots(n) - 1) -> Nat]
  BY <1>1, <1>2 DEF Grown, TypeOK
<1>4. ASSUME NEW i \in 1..size PROVE Grown(n)[i] = tab[i]
  <2>1. i \in 0..(Slots(n) - 1)
    BY <1>1, <1>2
  <2>2. i < cap
    BY <1>1 DEF Room
  <2> QED
    BY <2>1, <2>2 DEF Grown
<1> QED
  BY <1>1, <1>2, <1>3, <1>4

-----------------------------------------------------------------------------
(* The invariant.                                                          *)

LEMMA InitInv == Init => IInv
<1> SUFFICES ASSUME Init PROVE IInv
  OBVIOUS
<1>1. TypeOK
  BY MaxHistAssumption, InputsAssumption DEF Init, TypeOK
<1>2. size = 0 /\ hole = 0 /\ cap = 0 /\ pc = "idle"
  BY DEF Init
<1>3. Room /\ Distinct /\ HeapOrder /\ Gap
  BY <1>2 DEF Room, Distinct, HeapOrder, Gap, Used
<1> QED
  BY <1>1, <1>3 DEF IInv

LEMMA InsertInv ==
  ASSUME IInv, Insert
  PROVE  IInv'
<1> DEFINE n == size + 1
<1>1. /\ pc = "idle" /\ hole = 0 /\ next \in Nat /\ size \in Nat /\ next \in Hist
      /\ next' = next + 1 /\ size' = n /\ cap' = Slots(n)
      /\ weight' = weight /\ interactive' = interactive /\ last' = last
  BY DEF IInv, TypeOK, Gap, Insert, input, Hist
<1>2. /\ n \in Nat \ {0}
      /\ Slots(n) \in Nat /\ n < Slots(n) /\ PowerOf2(Slots(n))
      /\ Grown(n) \in [0..(Slots(n) - 1) -> Nat]
      /\ \A i \in 1..size : Grown(n)[i] = tab[i]
  BY GrownFacts DEF IInv
<1>3. Room'
  <2>1. hole' = 0 \/ hole' = n
    BY <1>1 DEF Insert, loop
  <2> QED
    BY <1>1, <1>2, <2>1 DEF Room, PowerOf2
<1>4. \A i, j \in 1..size : tab[i] \in 1..(next - 1) /\ (tab[i] = tab[j] => i = j)
  BY <1>1 DEF IInv, Distinct, Used
<1>5. CASE interactive
  <2>1. tab' = [Grown(n) EXCEPT ![n] = next] /\ UNCHANGED loop
    BY <1>5 DEF Insert
  <2>2. pc' = "idle" /\ hole' = 0 /\ carry' = carry
    BY <2>1, <1>1 DEF loop
  <2>3. TypeOK'
    <3>1. tab' \in [0..(cap' - 1) -> Nat]
      BY <1>1, <1>2, <2>1
    <3>2. pc' \in {"idle", "up", "down", "quit"} /\ {hole', carry', last'} \subseteq Nat
      BY <1>1, <2>2 DEF IInv, TypeOK
    <3>3. next' \in 1..(MaxHist + 1) /\ size' \in Nat /\ cap' \in Nat
      BY <1>1, <1>2, MaxHistAssumption DEF Hist
    <3> QED
      BY <1>1, <3>1, <3>2, <3>3 DEF IInv, TypeOK
  <2>4. \A i \in 1..n : tab'[i] = IF i = n THEN next ELSE tab[i]
    BY <1>1, <1>2, <2>1
  <2>5. Used' = 1..n
    BY <1>1, <2>2 DEF Used
  <2>6. Distinct'
    <3>1. \A i \in 1..n : i # n => i \in 1..size
      BY <1>1
    <3>2. \A i \in Used' : tab'[i] \in 1..(next' - 1)
      BY <1>1, <1>4, <2>4, <2>5, <3>1 DEF Hist
    <3>3. \A i, j \in Used' : tab'[i] = tab'[j] => i = j
      BY <1>1, <1>4, <2>4, <2>5, <3>1
    <3> QED
      BY <1>1, <2>2, <3>2, <3>3 DEF Distinct
  <2>7. HeapOrder' /\ Gap'
    BY <1>1, <1>5, <2>2 DEF HeapOrder, Gap, Edge
  <2> QED
    BY <1>3, <2>3, <2>6, <2>7 DEF IInv
<1>6. CASE ~ interactive
  <2>1. tab' = Grown(n) /\ pc' = "up" /\ hole' = n /\ carry' = next
    BY <1>6 DEF Insert
  <2>2. TypeOK'
    <3>1. tab' \in [0..(cap' - 1) -> Nat]
      BY <1>1, <1>2, <2>1
    <3>2. pc' \in {"idle", "up", "down", "quit"} /\ {hole', carry', last'} \subseteq Nat
      BY <1>1, <1>2, <2>1 DEF IInv, TypeOK
    <3>3. next' \in 1..(MaxHist + 1) /\ size' \in Nat /\ cap' \in Nat
      BY <1>1, <1>2, MaxHistAssumption DEF Hist
    <3> QED
      BY <1>1, <3>1, <3>2, <3>3 DEF IInv, TypeOK
  <2>3. \A i \in 1..size : tab'[i] = tab[i]
    BY <1>2, <2>1
  <2>4. Used' = 1..size
    BY <1>1, <2>1 DEF Used
  <2>5. Distinct'
    BY <1>1, <1>4, <2>1, <2>3, <2>4 DEF Distinct, Hist
  <2>6. HeapOrder'
    BY <1>1, <1>6, <2>1, <2>3 DEF HeapOrder, Edge, IInv
  <2>7. Gap'
    BY <1>1, <1>6, <2>1 DEF Gap, Edge
  <2> QED
    BY <1>3, <2>2, <2>5, <2>6, <2>7 DEF IInv
<1> QED
  BY <1>5, <1>6

(* Moving a history into the gap and leaving one behind, or filling it.    *)
LEMMA ShiftKeeps ==
  ASSUME IInv, NEW i \in Used, hole \in 1..size, Shift(i)
  PROVE  /\ TypeOK' /\ Room' /\ Distinct'
         /\ \A j \in 1..size : tab'[j] = IF j = hole THEN tab[i] ELSE tab[j]
<1>1. /\ tab' = [tab EXCEPT ![hole] = tab[i]]
      /\ hole' = i
      /\ UNCHANGED <<interactive, weight, next, cap, size, pc, carry, last>>
  BY DEF Shift, input
<1>2. /\ size \in Nat /\ cap \in Nat /\ hole \in Nat /\ carry \in Nat /\ next \in Nat
      /\ i \in 1..size /\ i # hole
      /\ cap > 0 /\ size < cap
  BY DEF IInv, TypeOK, Room, Used
<1>3. \A j \in 1..size : tab'[j] = IF j = hole THEN tab[i] ELSE tab[j]
  BY <1>1, <1>2 DEF IInv, TypeOK
<1>4. TypeOK'
  BY <1>1, <1>2 DEF IInv, TypeOK
<1>5. Room'
  BY <1>1, <1>2 DEF IInv, Room, PowerOf2
<1>6. Distinct'
  <2>1. Used' = (1..size) \ {i}
    BY <1>1 DEF Used
  <2>2. \A j \in Used' : \E k \in Used :
          tab'[j] = tab[k] /\ (j = hole => k = i) /\ (j # hole => k = j)
    BY <1>2, <1>3, <2>1 DEF Used
  <2>3. \A j, k \in Used' : tab'[j] = tab'[k] => j = k
    <3> SUFFICES ASSUME NEW j \in Used', NEW k \in Used', tab'[j] = tab'[k] PROVE j = k
      OBVIOUS
    <3> QED
      BY <1>2, <1>3, <2>1 DEF IInv, Distinct, Used
  <2>4. \A j \in Used' : tab'[j] \in 1..(next - 1) /\ tab'[j] # carry
    BY <2>2 DEF IInv, Distinct
  <2> QED
    BY <1>1, <1>2, <2>3, <2>4 DEF IInv, Distinct
<1> QED
  BY <1>3, <1>4, <1>5, <1>6

LEMMA FillKeeps ==
  ASSUME IInv, hole # 0, Fill
  PROVE  /\ TypeOK' /\ Room' /\ Distinct'
         /\ \A j \in 1..size : tab'[j] = IF j = hole THEN carry ELSE tab[j]
<1>1. /\ tab' = [tab EXCEPT ![hole] = carry]
      /\ pc' = "idle" /\ hole' = 0 /\ carry' = 0
      /\ UNCHANGED <<interactive, weight, next, cap, size, last>>
  BY DEF Fill, input
<1>2. /\ size \in Nat /\ cap \in Nat /\ hole \in Nat /\ carry \in Nat /\ next \in Nat
      /\ cap > 0 => size < cap /\ hole < cap
  BY DEF IInv, TypeOK, Room
<1>3. \A j \in 1..size : tab'[j] = IF j = hole THEN carry ELSE tab[j]
  BY <1>1, <1>2 DEF IInv, TypeOK, Room
<1>4. TypeOK'
  <2>1. tab' \in [0..(cap' - 1) -> Nat]
    BY <1>1, <1>2 DEF IInv, TypeOK
  <2>2. pc' \in {"idle", "up", "down", "quit"} /\ {hole', carry', last'} \subseteq Nat
    BY <1>1 DEF IInv, TypeOK
  <2> QED
    BY <1>1, <2>1, <2>2 DEF IInv, TypeOK
<1>5. Room'
  BY <1>1, <1>2 DEF IInv, Room, PowerOf2
<1>6. Distinct'
  <2>1. Used' = 1..size
    BY <1>1, <1>2 DEF Used
  <2>2. \A j \in 1..size : j # hole => j \in Used
    BY DEF Used
  <2>3. \A j, k \in Used' : tab'[j] = tab'[k] => j = k
    <3> SUFFICES ASSUME NEW j \in Used', NEW k \in Used', tab'[j] = tab'[k] PROVE j = k
      OBVIOUS
    <3> QED
      BY <1>2, <1>3, <2>1, <2>2 DEF IInv, Distinct
  <2>4. \A j \in Used' : tab'[j] \in 1..(next - 1)
    BY <1>2, <1>3, <2>1, <2>2 DEF IInv, Distinct
  <2> QED
    BY <1>1, <1>2, <2>3, <2>4 DEF Distinct
<1> QED
  BY <1>3, <1>4, <1>5, <1>6

(* The weights of what is in the array and of what is in hand.             *)
LEMMA WeightFacts ==
  ASSUME IInv
  PROVE  /\ \A i \in Used : weight[tab[i]] \in Int
         /\ hole # 0 => weight[carry] \in Int
<1>1. \A h \in 1..(next - 1) : h \in Hist
  BY MaxHistAssumption DEF IInv, TypeOK, Hist
<1> QED
  BY <1>1, WeightType DEF IInv, Distinct

LEMMA UpInv ==
  ASSUME IInv, Up
  PROVE  IInv'
<1>1. /\ pc = "up" /\ ~ interactive /\ size \in Nat /\ hole \in 1..size
      /\ \A j \in 1..size : Edge(hole, j) => weight[carry] <= weight[tab[j]]
  BY DEF Up, IInv, Gap, TypeOK
<1>2. \A i \in 1..size : i # hole => i \in Used /\ weight[tab[i]] \in Int
  BY WeightFacts DEF Used
<1>3. weight[carry] \in Int
  BY <1>1, WeightFacts
<1>4. CASE Above
  <2> DEFINE p == Parent(hole)
  <2>1. /\ p \in 1..size /\ p < hole /\ Edge(p, hole) /\ p \in Used
        /\ weight[carry] <= weight[tab[p]]
    BY <1>1, <1>2, <1>4, ParentFacts DEF Above, Edge
  <2>2. Shift(p)
    BY <1>4 DEF Up
  <2>3. /\ TypeOK' /\ Room' /\ Distinct'
        /\ \A j \in 1..size : tab'[j] = IF j = hole THEN tab[p] ELSE tab[j]
    BY <1>1, <2>1, <2>2, ShiftKeeps
  <2>4. size' = size /\ hole' = p /\ pc' = pc /\ carry' = carry
        /\ interactive' = interactive /\ weight' = weight
    BY <2>2 DEF Shift, input
  <2>5. \A i \in 1..size : Edge(i, hole) => i = p
    BY <1>1, <2>1 DEF Edge
  <2>6. \A j \in 1..size : Edge(p, j) /\ j # hole => weight[tab[p]] <= weight[tab[j]]
    BY <1>1, <2>1 DEF IInv, HeapOrder, Edge
  <2>7. HeapOrder'
    <3> SUFFICES ASSUME NEW i \in 1..size, NEW j \in 1..size, Edge(i, j),
                        i # p, j # p
                 PROVE  weight[tab'[i]] <= weight[tab'[j]]
      BY <2>4 DEF HeapOrder, Edge
    <3>1. CASE i = hole
      <4>1. j # hole
        BY <3>1, <1>1 DEF Edge
      <4> QED
        BY <3>1, <4>1, <1>1, <2>1, <2>3 DEF IInv, Gap
    <3>2. CASE i # hole
      <4>1. j # hole
        BY <2>5
      <4> QED
        BY <3>2, <4>1, <1>1, <2>3 DEF IInv, HeapOrder
    <3> QED
      BY <3>1, <3>2
  <2>8. Gap'
    <3>1. \A j \in 1..size : Edge(p, j) => weight[carry] <= weight[tab'[j]]
      BY <1>2, <1>3, <2>1, <2>3, <2>6
    <3>2. \A i, j \in 1..size :
            Edge(i, p) /\ Edge(p, j) => weight[tab'[i]] <= weight[tab'[j]]
      <4> SUFFICES ASSUME NEW i \in 1..size, NEW j \in 1..size, Edge(i, p), Edge(p, j)
                   PROVE  weight[tab'[i]] <= weight[tab'[j]]
        OBVIOUS
      <4>1. i < p /\ i # hole
        BY <2>1, <1>1 DEF Edge
      <4>2. weight[tab[i]] <= weight[tab[p]]
        BY <4>1, <1>1, <2>1 DEF IInv, HeapOrder
      <4> QED
        BY <4>1, <4>2, <1>2, <2>1, <2>3, <2>6
    <3> QED
      BY <1>1, <2>1, <2>4, <3>1, <3>2 DEF Gap, Edge
  <2> QED
    BY <2>3, <2>7, <2>8 DEF IInv
<1>5. CASE ~ Above
  <2>1. Fill
    BY <1>5 DEF Up
  <2>2. /\ TypeOK' /\ Room' /\ Distinct'
        /\ \A j \in 1..size : tab'[j] = IF j = hole THEN carry ELSE tab[j]
    BY <1>1, <2>1, FillKeeps
  <2>3. size' = size /\ hole' = 0 /\ pc' = "idle"
        /\ interactive' = interactive /\ weight' = weight
    BY <2>1 DEF Fill, input
  <2>4. HeapOrder'
    <3> SUFFICES ASSUME NEW i \in 1..size, NEW j \in 1..size, Edge(i, j)
                 PROVE  weight[tab'[i]] <= weight[tab'[j]]
      BY <2>3 DEF HeapOrder, Edge
    <3>1. i # j
      BY DEF Edge
    <3>2. CASE i = hole
      BY <3>1, <3>2, <1>1, <2>2
    <3>3. CASE j = hole
      <4>1. i = Parent(hole) /\ hole > 1
        BY <3>3, <1>1, ParentFacts DEF Edge
      <4> QED
        BY <4>1, <3>1, <3>3, <1>2, <1>3, <1>5, <2>2 DEF Above
    <3>4. CASE i # hole /\ j # hole
      BY <3>4, <1>1, <2>2 DEF IInv, HeapOrder
    <3> QED
      BY <3>2, <3>3, <3>4
  <2>5. Gap'
    BY <1>1, <2>3 DEF Gap, Edge
  <2> QED
    BY <2>2, <2>4, <2>5 DEF IInv
<1> QED
  BY <1>4, <1>5

LEMMA SmallerFacts ==
  ASSUME IInv, hole \in 1..size, 2 * hole <= size
  PROVE  /\ Smaller(hole) \in Used /\ Smaller(hole) > hole /\ Edge(hole, Smaller(hole))
         /\ \A j \in 1..size : Edge(hole, j) => weight[tab[Smaller(hole)]] <= weight[tab[j]]
<1>1. size \in Nat /\ hole \in Nat
  BY DEF IInv, TypeOK
<1>2. \A i \in 1..size : i # hole => i \in Used /\ weight[tab[i]] \in Int
  BY WeightFacts DEF Used
<1>3. CASE 2 * hole < size /\ weight[tab[2 * hole]] > weight[tab[2 * hole + 1]]
  <2>1. Smaller(hole) = 2 * hole + 1
    BY <1>3 DEF Smaller
  <2> QED
    BY <1>1, <1>2, <1>3, <2>1 DEF Edge
<1>4. CASE ~ (2 * hole < size /\ weight[tab[2 * hole]] > weight[tab[2 * hole + 1]])
  <2>1. Smaller(hole) = 2 * hole
    BY <1>4 DEF Smaller
  <2>2. ASSUME NEW j \in 1..size, Edge(hole, j)
        PROVE  weight[tab[2 * hole]] <= weight[tab[j]]
    BY <1>1, <1>2, <1>4, <2>2 DEF Edge
  <2> QED
    BY <1>1, <1>2, <2>1, <2>2 DEF Edge
<1> QED
  BY <1>3, <1>4

LEMMA DownInv ==
  ASSUME IInv, Down
  PROVE  IInv'
<1>1. /\ pc = "down" /\ ~ interactive /\ size \in Nat /\ hole \in Nat /\ hole # 0
      /\ hole = 1 \/ hole <= size
      /\ \A i \in 1..size : Edge(i, hole) => weight[tab[i]] <= weight[carry]
  BY DEF Down, IInv, Gap, TypeOK
<1>2. \A i \in 1..size : i # hole => i \in Used /\ weight[tab[i]] \in Int
  BY WeightFacts DEF Used
<1>3. weight[carry] \in Int
  BY <1>1, WeightFacts
<1>4. CASE BelowChild
  <2> DEFINE c == Smaller(hole)
  <2>1. 2 * hole <= size /\ hole \in 1..size /\ weight[carry] > weight[tab[c]]
    BY <1>1, <1>4 DEF BelowChild
  <2>2. /\ c \in Used /\ c > hole /\ Edge(hole, c)
        /\ \A j \in 1..size : Edge(hole, j) => weight[tab[c]] <= weight[tab[j]]
    BY <2>1, SmallerFacts
  <2>3. Shift(c)
    BY <1>4 DEF Down
  <2>4. /\ TypeOK' /\ Room' /\ Distinct'
        /\ \A j \in 1..size : tab'[j] = IF j = hole THEN tab[c] ELSE tab[j]
    BY <2>1, <2>2, <2>3, ShiftKeeps
  <2>5. size' = size /\ hole' = c /\ pc' = pc /\ carry' = carry
        /\ interactive' = interactive /\ weight' = weight
    BY <2>3 DEF Shift, input
  <2>6. c \in 1..size
    BY <2>2 DEF Used
  <2>7. HeapOrder'
    <3> SUFFICES ASSUME NEW i \in 1..size, NEW j \in 1..size, Edge(i, j),
                        i # c, j # c
                 PROVE  weight[tab'[i]] <= weight[tab'[j]]
      BY <2>5 DEF HeapOrder, Edge
    <3>1. i # j
      BY DEF Edge
    <3>2. CASE i = hole
      BY <3>1, <3>2, <2>2, <2>4
    <3>3. CASE j = hole
      BY <3>1, <3>3, <1>1, <2>2, <2>4, <2>6 DEF IInv, Gap
    <3>4. CASE i # hole /\ j # hole
      BY <3>4, <1>1, <2>4 DEF IInv, HeapOrder
    <3> QED
      BY <3>2, <3>3, <3>4
  <2>8. Gap'
    <3>1. \A i \in 1..size : Edge(i, c) => i = hole
      BY <1>1, <2>1, <2>2, <2>6 DEF Edge
    <3>2. \A i \in 1..size : Edge(i, c) => weight[tab'[i]] <= weight[carry]
      BY <1>2, <1>3, <2>1, <2>2, <2>4, <2>6, <3>1
    <3>3. \A j \in 1..size : Edge(c, j) => j # hole /\ weight[tab[c]] <= weight[tab[j]]
      BY <1>1, <2>2, <2>6 DEF IInv, HeapOrder, Edge
    <3>4. \A i, j \in 1..size :
            Edge(i, c) /\ Edge(c, j) => weight[tab'[i]] <= weight[tab'[j]]
      BY <2>4, <3>1, <3>3
    <3> QED
      BY <1>1, <2>5, <2>6, <3>2, <3>4 DEF Gap
  <2> QED
    BY <2>4, <2>7, <2>8 DEF IInv
<1>5. CASE ~ BelowChild
  <2>1. Fill
    BY <1>5 DEF Down
  <2>2. /\ TypeOK' /\ Room' /\ Distinct'
        /\ \A j \in 1..size : tab'[j] = IF j = hole THEN carry ELSE tab[j]
    BY <1>1, <2>1, FillKeeps
  <2>3. size' = size /\ hole' = 0 /\ pc' = "idle"
        /\ interactive' = interactive /\ weight' = weight
    BY <2>1 DEF Fill, input
  <2>4. HeapOrder'
    <3> SUFFICES ASSUME NEW i \in 1..size, NEW j \in 1..size, Edge(i, j)
                 PROVE  weight[tab'[i]] <= weight[tab'[j]]
      BY <2>3 DEF HeapOrder, Edge
    <3>1. i # j
      BY DEF Edge
    <3>2. CASE i = hole
      <4>1. 2 * hole <= size /\ hole \in 1..size
        BY <3>2, <1>1 DEF Edge
      <4>2. weight[carry] <= weight[tab[Smaller(hole)]]
        BY <4>1, <1>2, <1>3, <1>5, SmallerFacts DEF BelowChild, Used
      <4>3. weight[tab[Smaller(hole)]] <= weight[tab[j]]
        BY <4>1, <3>2, SmallerFacts
      <4>4. weight[tab[Smaller(hole)]] \in Int /\ weight[tab[j]] \in Int
        BY <4>1, <1>2, <3>1, <3>2, SmallerFacts, WeightFacts
      <4> QED
        BY <4>2, <4>3, <4>4, <1>3, <3>1, <3>2, <2>2
    <3>3. CASE j = hole
      BY <3>1, <3>3, <1>1, <2>2
    <3>4. CASE i # hole /\ j # hole
      BY <3>4, <1>1, <2>2 DEF IInv, HeapOrder
    <3> QED
      BY <3>2, <3>3, <3>4
  <2>5. Gap'
    BY <1>1, <2>3 DEF Gap, Edge
  <2> QED
    BY <2>2, <2>4, <2>5 DEF IInv
<1> QED
  BY <1>4, <1>5

LEMMA PopInv ==
  ASSUME IInv, Pop
  PROVE  IInv'
<1>1. /\ pc = "idle" /\ ~ interactive /\ size \in Nat /\ size > 0 /\ hole = 0
      /\ last' = tab[1] /\ carry' = tab[size] /\ size' = size - 1
      /\ hole' = 1 /\ pc' = "down"
      /\ UNCHANGED <<interactive, weight, next, tab, cap>>
  BY DEF Pop, IInv, TypeOK, Gap, input
<1>2. cap \in Nat /\ cap > 0 /\ size < cap /\ PowerOf2(cap)
  BY <1>1 DEF IInv, TypeOK, Room
<1>3. Used = 1..size /\ Used' = 2..(size - 1)
  BY <1>1 DEF Used
<1>4. TypeOK'
  <2>1. tab[1] \in Nat /\ tab[size] \in Nat
    BY <1>1, <1>2 DEF IInv, TypeOK
  <2>2. pc' \in {"idle", "up", "down", "quit"} /\ {hole', carry', last'} \subseteq Nat
    BY <1>1, <2>1
  <2> QED
    BY <1>1, <2>2 DEF IInv, TypeOK
<1>5. Room'
  BY <1>1, <1>2 DEF Room, PowerOf2
<1>6. Distinct'
  BY <1>1, <1>3 DEF IInv, Distinct
<1>7. HeapOrder'
  BY <1>1 DEF IInv, HeapOrder
<1>8. Gap'
  BY <1>1 DEF Gap, Edge
<1> QED
  BY <1>4, <1>5, <1>6, <1>7, <1>8 DEF IInv

LEMMA SelectInv ==
  ASSUME IInv, Select
  PROVE  IInv'
<1>1. PICK i \in 1..size : last' = tab[i] /\ tab' = [tab EXCEPT ![i] = tab[size]]
  BY DEF Select, CloseGap
<1>2. /\ pc = "idle" /\ interactive /\ size \in Nat /\ size > 0 /\ hole = 0
      /\ size' = size - 1
      /\ UNCHANGED <<interactive, weight, next, cap, pc, hole, carry>>
  BY <1>1 DEF Select, IInv, TypeOK, Gap, input, loop
<1>3. cap \in Nat /\ cap > 0 /\ size < cap /\ PowerOf2(cap)
  BY <1>2 DEF IInv, TypeOK, Room
<1>4. Used = 1..size /\ Used' = 1..(size - 1)
  BY <1>2 DEF Used
<1>5. \A j \in 1..size : tab'[j] = IF j = i THEN tab[size] ELSE tab[j]
  BY <1>1, <1>2, <1>3 DEF IInv, TypeOK
<1>6. TypeOK'
  <2>1. tab' \in [0..(cap' - 1) -> Nat] /\ last' \in Nat
    BY <1>1, <1>2, <1>3 DEF IInv, TypeOK
  <2> QED
    BY <1>2, <2>1 DEF IInv, TypeOK
<1>7. Room'
  BY <1>2, <1>3 DEF Room, PowerOf2
<1>8. Distinct'
  <2>1. \A j \in Used' : j \in 1..size /\ j # size
    BY <1>2, <1>4
  <2>2. \A j \in Used' : tab'[j] \in 1..(next' - 1)
    BY <1>2, <1>4, <1>5, <2>1 DEF IInv, Distinct
  <2>3. \A j, k \in Used' : tab'[j] = tab'[k] => j = k
    BY <1>2, <1>4, <1>5, <2>1 DEF IInv, Distinct
  <2> QED
    BY <1>2, <2>2, <2>3 DEF Distinct
<1>9. HeapOrder' /\ Gap'
  BY <1>2 DEF HeapOrder, Gap, Edge
<1> QED
  BY <1>6, <1>7, <1>8, <1>9 DEF IInv

LEMMA NextInv == IInv /\ [Next]_vars => IInv'
<1> SUFFICES ASSUME IInv, [Next]_vars PROVE IInv'
  OBVIOUS
<1>1. CASE Insert
  BY <1>1, InsertInv
<1>2. CASE Up
  BY <1>2, UpInv
<1>3. CASE Pop
  BY <1>3, PopInv
<1>4. CASE Down
  BY <1>4, DownInv
<1>5. CASE Select
  BY <1>5, SelectInv
<1>6. CASE Quit
  <2>1. /\ pc = "idle" /\ pc' = "quit" /\ interactive
        /\ UNCHANGED <<interactive, weight, next, tab, cap, size, hole, carry, last>>
        /\ size > 0
    BY <1>6 DEF Quit, input, array
  <2>2. cap # 0
    BY <2>1 DEF IInv, Room, TypeOK
  <2> QED
    BY <2>1, <2>2 DEF IInv, TypeOK, Room, Distinct, HeapOrder, Gap, Used, PowerOf2, Edge
<1>7. CASE UNCHANGED vars
  <2>1. UNCHANGED <<interactive, weight, next, tab, cap, size, pc, hole, carry, last>>
    BY <1>7 DEF vars, input, array, loop
  <2> QED
    BY <2>1 DEF IInv, TypeOK, Room, Distinct, HeapOrder, Gap, Used, PowerOf2, Edge
<1> QED
  BY <1>1, <1>2, <1>3, <1>4, <1>5, <1>6, <1>7 DEF Next

(* The array always is a heap with a gap that no history is lost in.       *)
THEOREM Invariant == Spec => []IInv
BY InitInv, NextInv, PTL DEF Spec

(* Invariants 1 and 3 of the comment in pe.c: every position that is       *)
(* written has been allocated.                                             *)
THEOREM NoOverrun == Spec => []Room
BY Invariant, PTL DEF IInv

(* Invariant 4 of the comment.                                             *)
THEOREM IsHeap == Spec => []HeapOrder
BY Invariant, PTL DEF IInv

-----------------------------------------------------------------------------
(* The refinement of PEBag.                                                *)

(* The root of the heap is minimal: a least position of a smaller history  *)
(* would have a parent.                                                    *)
LEMMA RootIsMinimal ==
  ASSUME IInv, pc = "idle", ~ interactive, NEW i \in 1..size
  PROVE  weight[tab[1]] <= weight[tab[i]]
<1>1. size \in Nat /\ hole = 0 /\ Used = 1..size
  BY DEF IInv, TypeOK, Gap, Used
<1>2. \A j \in 1..size : weight[tab[j]] \in Int
  BY <1>1, WeightFacts
<1> DEFINE S == {j \in 1..size : ~ (weight[tab[1]] <= weight[tab[j]])}
<1>3. SUFFICES ASSUME S # {} PROVE FALSE
  OBVIOUS
<1>4. PICK m \in S : \A k \in S : m <= k
  <2> DEFINE R == OpToRel(<, Nat)
  <2>1. S \in SUBSET Nat
    OBVIOUS
  <2>2. PICK m \in S : \A k \in S : <<k, m>> \notin R
    BY <1>3, <2>1, WFMin, NatLessThanWellFounded
  <2>3. \A k \in S : ~ (k < m)
    BY <2>1, <2>2 DEF OpToRel
  <2> QED
    BY <2>1, <2>3
<1>5. m \in 1..size /\ m > 1
  BY <1>1, <1>2, <1>4
<1>6. Parent(m) \in 1..size /\ Parent(m) < m /\ Edge(Parent(m), m)
  <2>1. m \in Nat
    BY <1>1, <1>5
  <2>2. /\ m = 2 * Parent(m) \/ m = 2 * Parent(m) + 1
        /\ Parent(m) \in 1..(m - 1)
    BY <1>5, <2>1, ParentFacts
  <2> QED
    BY <1>1, <1>5, <2>1, <2>2 DEF Edge
<1>7. weight[tab[Parent(m)]] <= weight[tab[m]]
  BY <1>1, <1>5, <1>6 DEF IInv, HeapOrder
<1>8. Parent(m) \in S
  BY <1>1, <1>2, <1>4, <1>5, <1>6, <1>7
<1> QED
  BY <1>4, <1>5, <1>6, <1>8

LEMMA StutterMapped ==
  ASSUME UNCHANGED <<interactive, weight, next, last>>, Contents' = Contents
  PROVE  UNCHANGED Bag!vars
BY DEF Bag!vars

LEMMA InitMapped == Init => Bag!Init
<1> SUFFICES ASSUME Init PROVE Bag!Init
  OBVIOUS
<1>1. /\ interactive \in BOOLEAN /\ weight \in [Hist -> Int]
      /\ next = 1 /\ size = 0 /\ hole = 0 /\ last = 0
  BY InputsAssumption DEF Init
<1>2. Contents = {}
  BY <1>1 DEF Contents, Used
<1> QED
  BY <1>1, <1>2 DEF Bag!Init, Hist

LEMMA InsertMapped ==
  ASSUME IInv, Insert
  PROVE  Bag!Insert(next)
<1>1. /\ next \in 1..MaxHist /\ MaxHist \in Nat /\ size \in Nat /\ hole = 0
      /\ next' = next + 1 /\ size' = size + 1
      /\ interactive' = interactive /\ weight' = weight /\ last' = last
  BY MaxHistAssumption DEF Insert, IInv, TypeOK, Gap, input, Hist
<1>2. /\ size + 1 < Slots(size + 1)
      /\ Grown(size + 1) \in [0..(Slots(size + 1) - 1) -> Nat]
      /\ \A i \in 1..size : Grown(size + 1)[i] = tab[i]
  BY GrownFacts DEF IInv
<1>3. Contents = {tab[i] : i \in 1..size}
  BY <1>1 DEF Contents, Used
<1>4. Contents' = Contents \cup {next}
  <2>1. CASE interactive
    <3>1. tab' = [Grown(size + 1) EXCEPT ![size + 1] = next] /\ hole' = 0
      BY <2>1, <1>1 DEF Insert, loop
    <3>2. /\ \A i \in 1..size : tab'[i] = tab[i]
          /\ tab'[size + 1] = next
      <4>1. /\ size + 1 \in 0..(Slots(size + 1) - 1)
            /\ \A i \in 1..size : i # size + 1 /\ i \in 0..(Slots(size + 1) - 1)
        <5>1. Slots(size + 1) \in Int
          BY <1>1, GrownFacts DEF IInv
        <5> QED
          BY <1>1, <1>2, <5>1
      <4> QED
        BY <1>2, <3>1, <4>1
    <3>3. Contents' = {tab'[i] : i \in 1..(size + 1)}
      BY <1>1, <3>1 DEF Contents, Used
    <3>4. 1..(size + 1) = (1..size) \cup {size + 1}
      BY <1>1
    <3> QED
      BY <1>3, <3>2, <3>3, <3>4
  <2>2. CASE ~ interactive
    <3>1. tab' = Grown(size + 1) /\ hole' = size + 1 /\ carry' = next
      BY <2>2 DEF Insert
    <3>2. Used' = 1..size /\ hole' \in 1..size'
      BY <1>1, <3>1 DEF Used
    <3> QED
      BY <1>2, <1>3, <3>1, <3>2 DEF Contents
  <2> QED
    BY <2>1, <2>2
<1>5. next'..MaxHist = (next..MaxHist) \ {next} /\ next \in next..MaxHist
  BY <1>1
<1> QED
  BY <1>1, <1>4, <1>5 DEF Bag!Insert

(* The loops move histories around, and lose none.                         *)
LEMMA ShiftMapped ==
  ASSUME IInv, NEW i \in Used, hole \in 1..size, Shift(i)
  PROVE  Contents' = Contents
<1>1. \A j \in 1..size : tab'[j] = IF j = hole THEN tab[i] ELSE tab[j]
  BY ShiftKeeps
<1>2. /\ hole' = i /\ size' = size /\ carry' = carry
      /\ i \in 1..size /\ i # hole /\ Used' = (1..size) \ {i}
  BY DEF Shift, Used
<1>3. {tab'[j] : j \in Used'} = {tab[j] : j \in Used}
  <2>1. \A j \in Used' : \E k \in Used : tab'[j] = tab[k]
    BY <1>1, <1>2 DEF Used
  <2>2. \A k \in Used : \E j \in Used' : tab'[j] = tab[k]
    <3> SUFFICES ASSUME NEW k \in Used PROVE \E j \in Used' : tab'[j] = tab[k]
      OBVIOUS
    <3>1. CASE k = i
      BY <3>1, <1>1, <1>2
    <3>2. CASE k # i
      BY <3>2, <1>1, <1>2 DEF Used
    <3> QED
      BY <3>1, <3>2
  <2> QED
    BY <2>1, <2>2
<1> QED
  BY <1>2, <1>3 DEF Contents

LEMMA FillMapped ==
  ASSUME IInv, hole # 0, Fill
  PROVE  Contents' = Contents
<1>1. \A j \in 1..size : tab'[j] = IF j = hole THEN carry ELSE tab[j]
  BY FillKeeps
<1>2. hole' = 0 /\ size' = size /\ size \in Nat /\ Used' = 1..size
  BY DEF Fill, Used, IInv, TypeOK
<1>3. Contents' = {tab'[j] : j \in 1..size}
  BY <1>2 DEF Contents
<1>4. CASE hole \in 1..size
  <2>1. 1..size = Used \cup {hole} /\ hole \notin Used
    BY <1>4 DEF Used
  <2> QED
    BY <1>1, <1>3, <1>4, <2>1 DEF Contents
<1>5. CASE hole \notin 1..size
  <2>1. Used = 1..size
    BY <1>5 DEF Used
  <2> QED
    BY <1>1, <1>3, <1>5, <2>1 DEF Contents
<1> QED
  BY <1>4, <1>5

LEMMA PopMapped ==
  ASSUME IInv, Pop
  PROVE  Bag!Remove(tab[1])
<1>1. /\ pc = "idle" /\ ~ interactive /\ size \in Nat /\ size > 0 /\ hole = 0
      /\ last' = tab[1] /\ carry' = tab[size] /\ size' = size - 1 /\ hole' = 1
      /\ UNCHANGED <<interactive, weight, next, tab>>
  BY DEF Pop, IInv, TypeOK, Gap, input
<1>2. Used = 1..size /\ Used' = 2..(size - 1) /\ Contents = {tab[i] : i \in 1..size}
  BY <1>1 DEF Used, Contents
<1>3. tab[1] \in Contents /\ \A x \in Contents : weight[tab[1]] <= weight[x]
  BY <1>1, <1>2, RootIsMinimal
<1>4. \A i, j \in 1..size : tab[i] = tab[j] => i = j
  BY <1>2 DEF IInv, Distinct
<1>5. Contents' = {tab[i] : i \in 2..size}
  <2>1. CASE size = 1
    BY <1>1, <1>2, <2>1 DEF Contents
  <2>2. CASE size > 1
    <3>1. 2..size = 2..(size - 1) \cup {size} /\ 1 \in 1..(size - 1)
      BY <1>1, <2>2
    <3> QED
      BY <1>1, <1>2, <3>1 DEF Contents
  <2> QED
    BY <1>1, <2>1, <2>2
<1>6. Contents' = Contents \ {tab[1]}
  <2>1. 1..size = {1} \cup 2..size /\ 1 \notin 2..size
    BY <1>1
  <2> QED
    BY <1>2, <1>4, <1>5, <2>1
<1> QED
  BY <1>1, <1>3, <1>6 DEF Bag!Remove

LEMMA SelectMapped ==
  ASSUME IInv, Select
  PROVE  \E h \in Contents : Bag!Remove(h)
<1>1. PICK i \in 1..size : last' = tab[i] /\ tab' = [tab EXCEPT ![i] = tab[size]]
  BY DEF Select, CloseGap
<1>2. /\ pc = "idle" /\ interactive /\ size \in Nat /\ hole = 0
      /\ size' = size - 1 /\ hole' = 0
      /\ UNCHANGED <<interactive, weight, next>>
  BY <1>1 DEF Select, IInv, TypeOK, Gap, input, loop
<1>3. cap \in Nat /\ size < cap
  BY <1>1, <1>2 DEF IInv, TypeOK, Room
<1>4. \A j \in 1..size : tab'[j] = IF j = i THEN tab[size] ELSE tab[j]
  BY <1>1, <1>2, <1>3 DEF IInv, TypeOK
<1>5. /\ Contents = {tab[j] : j \in 1..size}
      /\ Contents' = {tab'[j] : j \in 1..(size - 1)}
  BY <1>2 DEF Contents, Used
<1>6. \A j, k \in 1..size : tab[j] = tab[k] => j = k
  BY <1>2 DEF IInv, Distinct, Used
<1>7. Contents' = Contents \ {tab[i]}
  <2>1. ASSUME NEW x \in Contents' PROVE x \in Contents \ {tab[i]}
    <3>1. PICK j \in 1..(size - 1) : x = tab'[j]
      BY <1>5
    <3>2. j \in 1..size /\ j # size /\ size \in 1..size
      BY <1>2
    <3> QED
      BY <3>1, <3>2, <1>4, <1>5, <1>6
  <2>2. ASSUME NEW x \in Contents \ {tab[i]} PROVE x \in Contents'
    <3>1. PICK j \in 1..size : x = tab[j] /\ j # i
      BY <1>5
    <3>2. CASE j = size
      <4>1. i \in 1..(size - 1) /\ tab'[i] = x
        BY <3>1, <3>2, <1>2, <1>4
      <4> QED
        BY <4>1, <1>5
    <3>3. CASE j # size
      <4>1. j \in 1..(size - 1) /\ tab'[j] = x
        BY <3>1, <3>3, <1>2, <1>4
      <4> QED
        BY <4>1, <1>5
    <3> QED
      BY <3>2, <3>3
  <2> QED
    BY <2>1, <2>2
<1>8. tab[i] \in Contents
  BY <1>5
<1>9. Bag!Remove(tab[i])
  BY <1>1, <1>2, <1>7, <1>8 DEF Bag!Remove
<1> QED
  BY <1>8, <1>9

LEMMA StepMapped == IInv /\ [Next]_vars => [Bag!Next]_Bag!vars
<1> SUFFICES ASSUME IInv, [Next]_vars PROVE [Bag!Next]_Bag!vars
  OBVIOUS
<1>1. \A h \in 1..(next - 1) : h \in Hist
  BY MaxHistAssumption DEF IInv, TypeOK, Hist
<1>2. Contents \subseteq Hist
  BY <1>1 DEF IInv, Distinct, Contents
<1>3. CASE Insert
  <2>1. next \in Hist
    BY <1>3 DEF Insert
  <2> QED
    BY <1>3, <2>1, InsertMapped DEF Bag!Next
<1>4. CASE Up
  <2>1. hole \in 1..size /\ pc = "up" /\ size \in Nat
    BY <1>4 DEF Up, IInv, Gap, TypeOK
  <2>2. CASE Above
    <3>1. Parent(hole) \in Used /\ Shift(Parent(hole))
      BY <1>4, <2>1, <2>2, ParentFacts DEF Up, Above, Used
    <3>2. Contents' = Contents
      BY <2>1, <3>1, ShiftMapped
    <3> QED
      BY <3>1, <3>2, StutterMapped DEF Shift, input
  <2>3. CASE ~ Above
    <3>1. Fill
      BY <1>4, <2>3 DEF Up
    <3>2. Contents' = Contents
      BY <2>1, <3>1, FillMapped
    <3> QED
      BY <3>1, <3>2, StutterMapped DEF Fill, input
  <2> QED
    BY <2>2, <2>3
<1>5. CASE Pop
  <2>1. Bag!Remove(tab[1]) /\ tab[1] \in Contents
    BY <1>5, PopMapped DEF Bag!Remove
  <2> QED
    BY <1>2, <2>1 DEF Bag!Next
<1>6. CASE Down
  <2>1. hole # 0 /\ hole \in Nat /\ size \in Nat
    BY <1>6 DEF Down, IInv, Gap, TypeOK
  <2>2. CASE BelowChild
    <3>1. hole \in 1..size /\ 2 * hole <= size /\ Shift(Smaller(hole))
      BY <1>6, <2>1, <2>2 DEF Down, BelowChild
    <3>2. Contents' = Contents
      BY <3>1, SmallerFacts, ShiftMapped
    <3> QED
      BY <3>1, <3>2, StutterMapped DEF Shift, input
  <2>3. CASE ~ BelowChild
    <3>1. Fill
      BY <1>6, <2>3 DEF Down
    <3>2. Contents' = Contents
      BY <2>1, <3>1, FillMapped
    <3> QED
      BY <3>1, <3>2, StutterMapped DEF Fill, input
  <2> QED
    BY <2>2, <2>3
<1>7. CASE Select
  BY <1>2, <1>7, SelectMapped DEF Bag!Next
<1>8. CASE Quit
  <2>1. UNCHANGED <<interactive, weight, next, tab, size, hole, carry, last>>
    BY <1>8 DEF Quit, input, array
  <2> QED
    BY <2>1, StutterMapped DEF Contents, Used
<1>9. CASE UNCHANGED vars
  <2>1. UNCHANGED <<interactive, weight, next, tab, size, hole, carry, last>>
    BY <1>9 DEF vars, input, array, loop
  <2> QED
    BY <2>1, StutterMapped DEF Contents, Used
<1> QED
  BY <1>3, <1>4, <1>5, <1>6, <1>7, <1>8, <1>9 DEF Next

(* The heap in its growing array is a set of histories from which a minimal *)
(* one leaves, the queue that the unfolder is modelled with.               *)
THEOREM QueueIsBag == Spec => BagSpec
<1>1. Spec => [][Bag!Next]_Bag!vars
  BY Invariant, StepMapped, PTL DEF Spec
<1> QED
  BY <1>1, InitMapped, PTL DEF Spec, BagSpec, Bag!Spec
=============================================================================
