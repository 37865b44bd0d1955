---------------------------- MODULE SpecTreeProofs ----------------------------
(***************************************************************************)
(* Proofs about the formulas on the heap: push_negations, the verifications *)
(* that call it and the destructors at the end keep one owner per object,  *)
(* and the rewriting keeps the meaning of each formula; and about the      *)
(* clauses over the prefix, whose models are its configurations.           *)
(***************************************************************************)
EXTENDS CutoffProofs, Verify

-----------------------------------------------------------------------------
(* The nodes of a tree, which Nodes computes step by step, are the least   *)
(* set that holds its root and, with a node, its children.                 *)
ClosedIn(N, S) == \A y \in S : Children(N, y) \subseteq S

(* A heap none of whose objects points outside.                            *)
Whole(N) == IsFiniteSet(DOMAIN N) /\ ClosedIn(N, DOMAIN N)

More(N, S) == S \cup UNION {Children(N, y) : y \in S}

Hull(N, S) == {z \in DOMAIN N : \A T \in SUBSET DOMAIN N : S \subseteq T /\ ClosedIn(N, T) => z \in T}

LEMMA MoreFacts ==
  ASSUME NEW N, Whole(N), NEW S \in SUBSET DOMAIN N
  PROVE  /\ More(N, S) \in SUBSET DOMAIN N
         /\ S \subseteq More(N, S)
         /\ More(N, S) = S <=> ClosedIn(N, S)
         /\ \A T : S \subseteq T /\ ClosedIn(N, T) => More(N, S) \subseteq T
BY DEF Whole, ClosedIn, More

LEMMA HullFacts ==
  ASSUME NEW N, Whole(N), NEW S \in SUBSET DOMAIN N
  PROVE  /\ Hull(N, S) \in SUBSET DOMAIN N
         /\ S \subseteq Hull(N, S)
         /\ ClosedIn(N, Hull(N, S))
         /\ \A T \in SUBSET DOMAIN N : S \subseteq T /\ ClosedIn(N, T) => Hull(N, S) \subseteq T
         /\ ClosedIn(N, S) => Hull(N, S) = S
         /\ Hull(N, More(N, S)) = Hull(N, S)
<1>1. /\ Hull(N, S) \in SUBSET DOMAIN N
      /\ S \subseteq Hull(N, S)
      /\ \A T \in SUBSET DOMAIN N : S \subseteq T /\ ClosedIn(N, T) => Hull(N, S) \subseteq T
  BY DEF Hull
<1>2. ClosedIn(N, Hull(N, S))
  <2> SUFFICES ASSUME NEW y \in Hull(N, S), NEW z \in Children(N, y)
               PROVE  z \in Hull(N, S)
    BY DEF ClosedIn
  <2>1. z \in DOMAIN N
    BY <1>1 DEF Whole, ClosedIn
  <2>2. \A T \in SUBSET DOMAIN N : S \subseteq T /\ ClosedIn(N, T) => z \in T
    BY DEF Hull, ClosedIn
  <2> QED
    BY <2>1, <2>2 DEF Hull
<1>3. ClosedIn(N, S) => Hull(N, S) = S
  BY <1>1
<1>4. Hull(N, More(N, S)) = Hull(N, S)
  <2>1. \A T \in SUBSET DOMAIN N : ClosedIn(N, T) => (S \subseteq T <=> More(N, S) \subseteq T)
    BY MoreFacts
  <2> QED
    BY <2>1 DEF Hull
<1> QED
  BY <1>1, <1>2, <1>3, <1>4

(* The recursive function in Nodes.                                        *)
Step(N, f, S) == IF More(N, S) = S THEN S ELSE f[More(N, S)]

NodesFcn(N) == CHOOSE f : f = [S \in SUBSET DOMAIN N |-> Step(N, f, S)]

LEMMA NodesBelow ==
  ASSUME NEW N, NEW x
  PROVE  Nodes(N, x) = NodesFcn(N)[{x}]
BY DEF Nodes, NodesFcn, Step, More

LEMMA BelowExists ==
  ASSUME NEW N, Whole(N)
  PROVE  NodesFcn(N) = [S \in SUBSET DOMAIN N |-> Step(N, NodesFcn(N), S)]
<1> DEFINE f == [S \in SUBSET DOMAIN N |-> Hull(N, S)]
<1>1. \A S \in SUBSET DOMAIN N : f[S] = Step(N, f, S)
  BY MoreFacts, HullFacts DEF Step
<1>2. f = [S \in SUBSET DOMAIN N |-> Step(N, f, S)]
  BY <1>1
<1> HIDE DEF f
<1>3. \E g : g = [S \in SUBSET DOMAIN N |-> Step(N, g, S)]
  BY <1>2
<1> QED
  BY <1>3 DEF NodesFcn


LEMMA BelowIsHull ==
  ASSUME NEW N, Whole(N), NEW S \in SUBSET DOMAIN N
  PROVE  NodesFcn(N)[S] = Hull(N, S)
<1> DEFINE b      == NodesFcn(N)
           Wrong  == {T \in SUBSET DOMAIN N : b[T] # Hull(N, T)}
           Out(T) == (DOMAIN N) \ T
           Outs   == {Out(T) : T \in Wrong}
<1> SUFFICES ASSUME S \in Wrong PROVE FALSE
  OBVIOUS
<1>1. \A T \in SUBSET DOMAIN N : b[T] = Step(N, b, T)
  <2>1. b = [T \in SUBSET DOMAIN N |-> Step(N, b, T)]
    BY BelowExists
  <2> HIDE DEF b
  <2> QED
    BY <2>1
<1> HIDE DEF b
<1>2. PICK X \in Outs : \A Y \in Outs : Y \subseteq X => Y = X
  <2>1. Outs # {} /\ Outs \in SUBSET SUBSET DOMAIN N /\ IsFiniteSet(DOMAIN N)
    BY DEF Whole
  <2> HIDE DEF Outs
  <2> QED
    BY <2>1, LeastSet
<1>3. PICK T \in Wrong : X = Out(T)
  OBVIOUS
<1>4. b[T] # Hull(N, T) /\ T \in SUBSET DOMAIN N
  OBVIOUS
<1>5. More(N, T) # T
  BY <1>1, <1>4, MoreFacts, HullFacts DEF Step
<1>6. /\ b[More(N, T)] = b[T]
      /\ Hull(N, More(N, T)) = Hull(N, T)
      /\ More(N, T) \in SUBSET DOMAIN N /\ T \subseteq More(N, T)
  BY <1>1, <1>4, <1>5, MoreFacts, HullFacts DEF Step
<1>7. More(N, T) \in Wrong
  BY <1>4, <1>6
<1>8. Out(More(N, T)) \in Outs
  BY <1>7
<1>9. Out(More(N, T)) \subseteq X /\ Out(More(N, T)) # X
  BY <1>3, <1>5, <1>6
<1> QED
  BY <1>2, <1>8, <1>9

LEMMA NodesFacts ==
  ASSUME NEW N, Whole(N), NEW x \in DOMAIN N
  PROVE  /\ Nodes(N, x) \in SUBSET DOMAIN N
         /\ x \in Nodes(N, x)
         /\ ClosedIn(N, Nodes(N, x))
         /\ \A T : x \in T /\ ClosedIn(N, T) => Nodes(N, x) \subseteq T
<1>1. {x} \in SUBSET DOMAIN N
  OBVIOUS
<1>2. Nodes(N, x) = Hull(N, {x})
  BY <1>1, NodesBelow, BelowIsHull
<1>3. ASSUME NEW T, x \in T, ClosedIn(N, T) PROVE Nodes(N, x) \subseteq T
  <2>1. ClosedIn(N, T \cap DOMAIN N)
    BY <1>3 DEF ClosedIn, Whole
  <2> QED
    BY <1>1, <1>2, <1>3, <2>1, HullFacts
<1> QED
  BY <1>1, <1>2, <1>3, HullFacts

(* A node other than the root is the child of another.                     *)
LEMMA HasParent ==
  ASSUME NEW N, Whole(N), NEW x \in DOMAIN N, NEW z \in Nodes(N, x), z # x
  PROVE  \E y \in Nodes(N, x) : z \in Children(N, y)
<1> SUFFICES ASSUME \A y \in Nodes(N, x) : z \notin Children(N, y)
             PROVE  FALSE
  OBVIOUS
<1>1. ClosedIn(N, Nodes(N, x) \ {z})
  BY NodesFacts DEF ClosedIn
<1> QED
  BY <1>1, NodesFacts

LEMMA SubTree ==
  ASSUME NEW N, Whole(N), NEW x \in DOMAIN N, NEW y \in Nodes(N, x)
  PROVE  y \in DOMAIN N /\ Nodes(N, y) \subseteq Nodes(N, x)
BY NodesFacts

-----------------------------------------------------------------------------
(* A forest: the heap N, of which the objects A are allocated and R are the *)
(* roots.  Each object has one owner, and all are below a root.            *)
Single(N, A) ==
  \A x, y, z \in A : x \in Children(N, y) /\ x \in Children(N, z) => y = z

RootPointers(N, A, R) ==
  /\ \A k \in DOMAIN R : R[k] \in A /\ \A y \in A : R[k] \notin Children(N, y)
  /\ \A j, k \in DOMAIN R : R[j] = R[k] => j = k

TwoChildren(N, A) ==
  \A y \in A : N[y].type \in {"and", "or"} => N[y].left # N[y].right

UnderRoots(N, A, R) == \A x \in A : \E k \in DOMAIN R : x \in Nodes(N, R[k])

Forest(N, A, R) ==
  /\ Whole(N) /\ A \in SUBSET DOMAIN N /\ ClosedIn(N, A)
  /\ Single(N, A)
  /\ RootPointers(N, A, R)
  /\ TwoChildren(N, A)
  /\ UnderRoots(N, A, R)

LEMMA ForestNodes ==
  ASSUME NEW N, NEW A, NEW R, Forest(N, A, R), NEW x \in A
  PROVE  Nodes(N, x) \subseteq A /\ x \in DOMAIN N
BY NodesFacts DEF Forest

(* No object is below its child.                                           *)
LEMMA NoLoops ==
  ASSUME NEW N, NEW A, NEW R, Forest(N, A, R), NEW p \in A, NEW z \in Children(N, p)
  PROVE  p \notin Nodes(N, z)
<1> SUFFICES ASSUME p \in Nodes(N, z) PROVE FALSE
  OBVIOUS
<1>1. Whole(N) /\ A \subseteq DOMAIN N /\ z \in A
  BY DEF Forest, ClosedIn
<1>2. PICK k \in DOMAIN R : p \in Nodes(N, R[k])
  BY DEF Forest, UnderRoots
<1>3. PICK r : r = R[k]
  OBVIOUS
<1>4. r \in A /\ \A y \in A : r \notin Children(N, y)
  BY <1>3 DEF Forest, RootPointers
<1>5. Nodes(N, r) \subseteq A /\ Nodes(N, z) \subseteq A
  BY <1>1, <1>4, ForestNodes
<1>6. \A w \in Nodes(N, z), y \in A : w \in Children(N, y) => y \in Nodes(N, z)
  <2> SUFFICES ASSUME NEW w \in Nodes(N, z), NEW y \in A, w \in Children(N, y)
               PROVE  y \in Nodes(N, z)
    OBVIOUS
  <2>1. CASE w = z
    BY <2>1, <1>5 DEF Forest, Single
  <2>2. CASE w # z
    <3>1. PICK q \in Nodes(N, z) : w \in Children(N, q)
      BY <2>2, <1>1, HasParent
    <3> QED
      BY <3>1, <1>5 DEF Forest, Single
  <2> QED
    BY <2>1, <2>2
<1>7. ClosedIn(N, Nodes(N, r) \ Nodes(N, z))
  BY <1>1, <1>4, <1>5, <1>6, NodesFacts DEF ClosedIn
<1>8. r \notin Nodes(N, z)
  <2>1. r # z
    BY <1>4
  <2>2. r \in Nodes(N, z) => \E q \in Nodes(N, z) : r \in Children(N, q)
    BY <1>1, <2>1, HasParent
  <2> QED
    BY <2>2, <1>4, <1>5
<1>9. Nodes(N, r) \subseteq Nodes(N, r) \ Nodes(N, z)
  BY <1>1, <1>4, <1>7, <1>8, NodesFacts
<1> QED
  BY <1>2, <1>3, <1>9

(* Nothing is below two children of an object.                             *)
LEMMA Branches ==
  ASSUME NEW N, NEW A, NEW R, Forest(N, A, R), NEW p \in A,
         NEW a \in Children(N, p), NEW b \in Children(N, p), a # b
  PROVE  Nodes(N, a) \cap Nodes(N, b) = {}
<1>1. Whole(N) /\ A \subseteq DOMAIN N /\ a \in A /\ b \in A
  BY DEF Forest, ClosedIn
<1>2. p \notin Nodes(N, a) /\ p \notin Nodes(N, b)
  BY NoLoops
<1>3. Nodes(N, a) \subseteq A /\ Nodes(N, b) \subseteq A
  BY <1>1, ForestNodes
<1>4. a \notin Nodes(N, b)
  <2> SUFFICES ASSUME a \in Nodes(N, b) PROVE FALSE
    OBVIOUS
  <2>1. PICK q \in Nodes(N, b) : a \in Children(N, q)
    BY <1>1, HasParent
  <2> QED
    BY <2>1, <1>1, <1>2, <1>3 DEF Forest, Single
<1>5. ASSUME NEW y \in Nodes(N, a), y \notin Nodes(N, b), NEW w \in Children(N, y)
      PROVE  w \notin Nodes(N, b)
  <2>1. CASE w = b
    BY <2>1, <1>1, <1>2, <1>3, <1>5 DEF Forest, Single
  <2>2. CASE w # b
    <3> SUFFICES ASSUME w \in Nodes(N, b) PROVE FALSE
      OBVIOUS
    <3>1. PICK q \in Nodes(N, b) : w \in Children(N, q)
      BY <2>2, <1>1, HasParent
    <3> QED
      BY <3>1, <1>3, <1>5 DEF Forest, Single
  <2> QED
    BY <2>1, <2>2
<1>6. ClosedIn(N, Nodes(N, a) \ Nodes(N, b))
  BY <1>1, <1>5, NodesFacts DEF ClosedIn
<1> QED
  BY <1>1, <1>4, <1>6, NodesFacts

(* Everything below an object but itself is below a child.                 *)
LEMMA NodesSplit ==
  ASSUME NEW N, Whole(N), NEW x \in DOMAIN N, NEW z \in Nodes(N, x), z # x
  PROVE  \E y \in Children(N, x) : z \in Nodes(N, y)
<1> SUFFICES ASSUME \A y \in Children(N, x) : z \notin Nodes(N, y)
             PROVE  FALSE
  OBVIOUS
<1>1. Children(N, x) \subseteq DOMAIN N
  BY DEF Whole, ClosedIn
<1> DEFINE S == {w \in Nodes(N, x) : w = x \/ \E y \in Children(N, x) : w \in Nodes(N, y)}
<1>2. ASSUME NEW w \in S PROVE Children(N, w) \subseteq S
  <2>1. w \in Nodes(N, x) /\ Children(N, w) \subseteq Nodes(N, x)
    BY NodesFacts DEF ClosedIn
  <2>2. CASE w = x
    BY <1>1, <2>1, <2>2, NodesFacts
  <2>3. CASE w # x
    <3>1. PICK y \in Children(N, x) : w \in Nodes(N, y)
      BY <2>3
    <3>2. Children(N, w) \subseteq Nodes(N, y)
      BY <1>1, <3>1, NodesFacts DEF ClosedIn
    <3> QED
      BY <2>1, <3>2
  <2> QED
    BY <2>2, <2>3
<1>3. x \in S /\ z \notin S
  BY NodesFacts
<1> HIDE DEF S
<1>4. Nodes(N, x) \subseteq S
  BY <1>2, <1>3, NodesFacts DEF ClosedIn
<1> QED
  BY <1>3, <1>4

-----------------------------------------------------------------------------
(* Values.                                                                 *)
Rule(N, V, y, true) ==
  CASE N[y].type = "not" -> N[y].left \notin V
    [] N[y].type = "and" -> N[y].left \in V /\ N[y].right \in V
    [] N[y].type = "or"  -> N[y].left \in V \/ N[y].right \in V
    [] OTHER             -> Atom(N, y) \in true

(* V are the objects of S with the value true.                             *)
Valued(N, S, V, true) == V \subseteq S /\ \A y \in S : y \in V <=> Rule(N, V, y, true)

(* The rule only looks at the children.                                    *)
LEMMA RuleLocal ==
  ASSUME NEW N, NEW V, NEW W, NEW y, NEW true,
         \A z \in Children(N, y) : z \in V <=> z \in W
  PROVE  Rule(N, V, y, true) <=> Rule(N, W, y, true)
<1>1. CASE N[y].type = "not"
  BY <1>1 DEF Rule, Children
<1>2. CASE N[y].type = "and"
  BY <1>2 DEF Rule, Children
<1>3. CASE N[y].type = "or"
  BY <1>3 DEF Rule, Children
<1>4. CASE N[y].type \notin {"not", "and", "or"}
  BY <1>4 DEF Rule
<1> QED
  BY <1>1, <1>2, <1>3, <1>4

LEMMA ValuedPart ==
  ASSUME NEW N, NEW S, NEW V, NEW true, Valued(N, S, V, true), NEW T \in SUBSET S, ClosedIn(N, T)
  PROVE  Valued(N, T, V \cap T, true)
<1> SUFFICES ASSUME NEW y \in T PROVE y \in V \cap T <=> Rule(N, V \cap T, y, true)
  BY DEF Valued
<1>1. y \in V <=> Rule(N, V, y, true)
  BY DEF Valued
<1>2. Rule(N, V, y, true) <=> Rule(N, V \cap T, y, true)
  BY RuleLocal DEF ClosedIn
<1> QED
  BY <1>1, <1>2

(* An object of S whose children are not in S.                             *)
LEMMA Bottom ==
  ASSUME NEW N, NEW A, NEW R, Forest(N, A, R), NEW S \in SUBSET A, S # {}
  PROVE  \E y \in S : \A z \in Children(N, y) : z \notin S
<1> DEFINE F == {Nodes(N, y) : y \in S}
<1>1. Whole(N) /\ IsFiniteSet(DOMAIN N) /\ S \subseteq DOMAIN N
  BY DEF Forest, Whole
<1>2. F # {} /\ F \in SUBSET SUBSET DOMAIN N
  BY <1>1, NodesFacts
<1>3. PICK X \in F : \A Y \in F : Y \subseteq X => Y = X
  <2> HIDE DEF F
  <2> QED
    BY <1>1, <1>2, LeastSet
<1>4. PICK y \in S : X = Nodes(N, y)
  OBVIOUS
<1>5. ASSUME NEW z \in Children(N, y) PROVE z \notin S
  <2> SUFFICES ASSUME z \in S PROVE FALSE
    OBVIOUS
  <2>1. z \in Nodes(N, y) /\ y \in Nodes(N, y)
    BY <1>1, NodesFacts DEF ClosedIn
  <2>2. Nodes(N, z) \subseteq Nodes(N, y)
    BY <1>1, <2>1, SubTree
  <2>3. Nodes(N, z) = Nodes(N, y)
    BY <1>3, <1>4, <2>2
  <2> QED
    BY <2>1, <2>3, NoLoops
<1> QED
  BY <1>5

LEMMA ValuedOnce ==
  ASSUME NEW N, NEW A, NEW R, Forest(N, A, R), NEW S \in SUBSET A, ClosedIn(N, S),
         NEW true, NEW V, NEW W, Valued(N, S, V, true), Valued(N, S, W, true)
  PROVE  V = W
<1> DEFINE E == {y \in S : ~ (y \in V <=> y \in W)}
<1> SUFFICES ASSUME E # {} PROVE FALSE
  BY DEF Valued
<1>1. PICK y \in E : \A z \in Children(N, y) : z \notin E
  <2>1. E \in SUBSET A
    OBVIOUS
  <2> HIDE DEF E
  <2> QED
    BY <2>1, Bottom
<1>2. \A z \in Children(N, y) : z \in V <=> z \in W
  BY <1>1 DEF ClosedIn
<1>3. Rule(N, V, y, true) <=> Rule(N, W, y, true)
  BY <1>2, RuleLocal
<1> QED
  BY <1>3 DEF Valued

LEMMA ValuedExists ==
  ASSUME NEW N, NEW A, NEW R, Forest(N, A, R), NEW true
  PROVE  \E V : Valued(N, A, V, true)
<1> DEFINE P(S) == ClosedIn(N, S) /\ \E V : Valued(N, S, V, true)
           F == {A \ S : S \in {T \in SUBSET A : P(T)}}
<1>1. IsFiniteSet(A)
  BY FS_Subset DEF Forest, Whole
<1>2. P({})
  <2>1. ClosedIn(N, {}) /\ Valued(N, {}, {}, true)
    BY DEF ClosedIn, Valued
  <2> QED
    BY <2>1
<1>3. F # {} /\ F \in SUBSET SUBSET A
  BY <1>2
<1>4. PICK X \in F : \A Y \in F : Y \subseteq X => Y = X
  <2> HIDE DEF F
  <2> QED
    BY <1>1, <1>3, LeastSet
<1>5. PICK S \in SUBSET A : X = A \ S /\ P(S)
  OBVIOUS
<1>6. PICK V : Valued(N, S, V, true)
  BY <1>5
<1>7. CASE S = A
  BY <1>6, <1>7
<1>8. CASE S # A
  <2>1. PICK y \in A \ S : \A z \in Children(N, y) : z \notin A \ S
    <3>1. A \ S \in SUBSET A /\ A \ S # {}
      BY <1>8
    <3> QED
      BY <3>1, Bottom
  <2> DEFINE T == S \cup {y}
             W == V \cup {z \in {y} : Rule(N, V, y, true)}
  <2>2. \A z \in Children(N, y) : z \in S
    BY <2>1 DEF Forest, ClosedIn
  <2>3. ClosedIn(N, T)
    BY <1>5, <2>2 DEF ClosedIn
  <2>4. ASSUME NEW z \in T PROVE z \in W <=> Rule(N, W, z, true)
    <3>1. \A x \in Children(N, z) : x \in V <=> x \in W
      BY <1>5, <2>1, <2>2 DEF ClosedIn
    <3>2. Rule(N, W, z, true) <=> Rule(N, V, z, true)
      BY <3>1, RuleLocal
    <3>3. CASE z = y
      BY <1>6, <2>1, <3>2, <3>3 DEF Valued
    <3>4. CASE z # y
      BY <1>6, <3>2, <3>4 DEF Valued
    <3> QED
      BY <3>3, <3>4
  <2>5. Valued(N, T, W, true)
    <3>1. W \subseteq T
      BY <1>6 DEF Valued
    <3> HIDE DEF T, W
    <3> QED
      BY <2>4, <3>1 DEF Valued
  <2>6. T \in SUBSET A /\ P(T)
    BY <2>3, <2>5
  <2>7. A \ T \in F
    BY <2>6
  <2>8. A \ T \subseteq X /\ A \ T # X
    BY <1>5, <2>1
  <2> QED
    BY <1>4, <2>7, <2>8
<1> QED
  BY <1>7, <1>8

(* The recursive function in Value.                                        *)
Worth(N, f, y, true) ==
  CASE N[y].type = "not" -> ~ f[N[y].left]
    [] N[y].type = "and" -> f[N[y].left] /\ f[N[y].right]
    [] N[y].type = "or"  -> f[N[y].left] \/ f[N[y].right]
    [] OTHER             -> Atom(N, y) \in true

ValueFcn(N, x, true) == CHOOSE f : f = [y \in Nodes(N, x) |-> Worth(N, f, y, true)]

LEMMA ValueIs ==
  ASSUME NEW N, NEW x, NEW true
  PROVE  Value(N, x, true) = ValueFcn(N, x, true)[x]
BY DEF Value, ValueFcn, Worth

LEMMA WorthRule ==
  ASSUME NEW N, NEW f, NEW V, NEW y, NEW true,
         \A z \in Children(N, y) : f[z] <=> z \in V
  PROVE  Worth(N, f, y, true) <=> Rule(N, V, y, true)
<1>1. CASE N[y].type = "not"
  BY <1>1 DEF Rule, Worth, Children
<1>2. CASE N[y].type = "and"
  BY <1>2 DEF Rule, Worth, Children
<1>3. CASE N[y].type = "or"
  BY <1>3 DEF Rule, Worth, Children
<1>4. CASE N[y].type \notin {"not", "and", "or"}
  BY <1>4 DEF Rule, Worth
<1> QED
  BY <1>1, <1>2, <1>3, <1>4

LEMMA WorthBoolean ==
  ASSUME NEW N, NEW f, NEW y, NEW true
  PROVE  Worth(N, f, y, true) \in BOOLEAN
<1>1. CASE N[y].type = "not"
  BY <1>1 DEF Worth
<1>2. CASE N[y].type = "and"
  BY <1>2 DEF Worth
<1>3. CASE N[y].type = "or"
  BY <1>3 DEF Worth
<1>4. CASE N[y].type \notin {"not", "and", "or"}
  <2>1. /\ N[y].type # "not"
        /\ N[y].type # "and"
        /\ N[y].type # "or"
    BY <1>4
  <2>2. Worth(N, f, y, true) = (Atom(N, y) \in true)
    BY <2>1 DEF Worth
  <2>3. (Atom(N, y) \in true) \in BOOLEAN
    OBVIOUS
  <2>4. PICK w : w = (Atom(N, y) \in true)
    OBVIOUS
  <2>5. w \in BOOLEAN
    BY <2>3, <2>4
  <2> QED
    BY <2>2, <2>4, <2>5
<1> QED
  BY <1>1, <1>2, <1>3, <1>4

LEMMA ValueExists ==
  ASSUME NEW N, NEW A, NEW R, Forest(N, A, R), NEW x \in A, NEW true
  PROVE  \E f : f = [y \in Nodes(N, x) |-> Worth(N, f, y, true)]
<1>1. PICK V : Valued(N, A, V, true)
  BY ValuedExists
<1> DEFINE S == Nodes(N, x)
           f == [y \in S |-> y \in V]
<1>2. S \subseteq A /\ ClosedIn(N, S)
  BY ForestNodes, NodesFacts DEF Forest
<1> HIDE DEF S
<1>3. ASSUME NEW y \in S PROVE f[y] = Worth(N, f, y, true)
  <2>1. \A z \in Children(N, y) : z \in S
    BY <1>2 DEF ClosedIn
  <2>2. \A z \in Children(N, y) : f[z] <=> z \in V
    BY <2>1
  <2>3. f[y] = (y \in V)
    OBVIOUS
  <2> HIDE DEF f
  <2>4. Worth(N, f, y, true) <=> Rule(N, V, y, true)
    BY <2>2, WorthRule
  <2>5. y \in V <=> Rule(N, V, y, true)
    BY <1>1, <1>2 DEF Valued
  <2>6. Worth(N, f, y, true) \in BOOLEAN
    BY WorthBoolean
  <2> QED
    BY <2>3, <2>4, <2>5, <2>6
<1>4. f = [y \in S |-> Worth(N, f, y, true)]
  BY <1>3
<1> HIDE DEF f
<1> QED
  BY <1>4 DEF S

(* The value of a formula is the one its objects can only have.            *)
LEMMA ValueFacts ==
  ASSUME NEW N, NEW A, NEW R, Forest(N, A, R), NEW x \in A, NEW true,
         NEW V, Valued(N, A, V, true)
  PROVE  Value(N, x, true) <=> x \in V
<1> DEFINE S == Nodes(N, x)
           f == ValueFcn(N, x, true)
<1>1. S \subseteq A /\ ClosedIn(N, S) /\ x \in S
  BY ForestNodes, NodesFacts DEF Forest
<1>2. f = [y \in S |-> Worth(N, f, y, true)]
  BY ValueExists DEF ValueFcn
<1>3. Value(N, x, true) = f[x]
  BY ValueIs
<1> HIDE DEF S, f
<1> DEFINE W == {y \in S : f[y]}
<1>4. ASSUME NEW y \in S PROVE y \in W <=> Rule(N, W, y, true)
  <2>1. \A z \in Children(N, y) : f[z] <=> z \in W
    BY <1>1 DEF ClosedIn
  <2>2. f[y] = Worth(N, f, y, true)
    BY <1>2
  <2>3. y \in W <=> f[y]
    OBVIOUS
  <2> HIDE DEF W
  <2> QED
    BY <2>1, <2>2, <2>3, WorthRule
<1>5. W \subseteq S /\ (x \in W <=> f[x])
  BY <1>1
<1> HIDE DEF W
<1>6. Valued(N, S, W, true)
  BY <1>4, <1>5 DEF Valued
<1>7. Valued(N, S, V \cap S, true)
  BY <1>1, ValuedPart
<1>8. W = V \cap S
  BY <1>1, <1>6, <1>7, ValuedOnce
<1> QED
  BY <1>1, <1>3, <1>5, <1>8

-----------------------------------------------------------------------------
(* The heap M that the rule of De Morgan makes of N: the negation s of l    *)
(* turns into the dual connective of l and the new object n.               *)
Morgan(N, M, s, l, n) ==
  /\ N[s].type = "not" /\ N[s].left = l
  /\ N[l].type \in {"and", "or"}
  /\ n \notin DOMAIN N /\ DOMAIN M = DOMAIN N \cup {n}
  /\ M[s].type = Dual(N[l].type) /\ M[s].left = l /\ M[s].right = n
  /\ M[l].type = "not" /\ M[l].left = N[l].left
  /\ M[n].type = "not" /\ M[n].left = N[l].right
  /\ \A y \in DOMAIN N \ {s, l} : M[y] = N[y]

(* How the children change; a and b are those of l before.                 *)
MorganFacts(N, M, A, s, l, n, a, b) ==
  /\ l \in A /\ s # l /\ n \notin A /\ A \subseteq DOMAIN N
  /\ a \in A \ {s, l} /\ b \in A \ {s, l} /\ a # b
  /\ Children(N, s) = {l} /\ Children(N, l) = {a, b}
  /\ Children(M, s) = {l, n} /\ Children(M, l) = {a} /\ Children(M, n) = {b}
  /\ \A y \in DOMAIN N \ {s, l} : Children(M, y) = Children(N, y)

LEMMA MorganChildren ==
  ASSUME NEW N, NEW M, NEW A, NEW R, NEW s \in A, NEW l, NEW n,
         Forest(N, A, R), Morgan(N, M, s, l, n)
  PROVE  MorganFacts(N, M, A, s, l, n, N[l].left, N[l].right)
<1>1. /\ Children(N, s) = {l}
      /\ Children(N, l) = {N[l].left, N[l].right}
  BY DEF Morgan, Children
<1>2. l \in A /\ A \subseteq DOMAIN N /\ Whole(N)
  BY <1>1 DEF Forest, ClosedIn
<1>3. N[l].left \in A /\ N[l].right \in A
  BY <1>1, <1>2 DEF Forest, ClosedIn
<1>4. s \notin Nodes(N, l)
  BY <1>1, NoLoops
<1>5. /\ l \in Nodes(N, l)
      /\ N[l].left \in Nodes(N, l) /\ N[l].right \in Nodes(N, l)
  BY <1>1, <1>2, NodesFacts DEF ClosedIn
<1>6. l # N[l].left /\ l # N[l].right
  <2>1. l \notin Nodes(N, N[l].left) /\ l \notin Nodes(N, N[l].right)
    BY <1>1, <1>2, NoLoops
  <2>2. N[l].left \in DOMAIN N /\ N[l].right \in DOMAIN N
    BY <1>2, <1>3
  <2> QED
    BY <1>2, <2>1, <2>2, NodesFacts
<1>7. N[l].left # N[l].right
  BY <1>2 DEF Forest, TwoChildren, Morgan
<1>8. Children(M, s) = {l, n}
  BY DEF Morgan, Children, Dual
<1>9. /\ Children(M, l) = {N[l].left}
      /\ Children(M, n) = {N[l].right}
  BY DEF Morgan, Children
<1>10. \A y \in DOMAIN N \ {s, l} : Children(M, y) = Children(N, y)
  BY DEF Morgan, Children
<1>11. n \notin A
  BY <1>2 DEF Morgan
<1> QED
  BY <1>1, <1>2, <1>3, <1>4, <1>5, <1>6, <1>7, <1>8, <1>9, <1>10, <1>11 DEF MorganFacts

LEMMA MorganOwners ==
  ASSUME NEW N, NEW M, NEW A, NEW R, NEW s \in A, NEW l, NEW n,
         Forest(N, A, R), Morgan(N, M, s, l, n)
  PROVE  /\ Whole(M) /\ A \cup {n} \in SUBSET DOMAIN M /\ ClosedIn(M, A \cup {n})
         /\ Single(M, A \cup {n})
         /\ RootPointers(M, A \cup {n}, R)
         /\ TwoChildren(M, A \cup {n})
<1> DEFINE a == N[l].left
           b == N[l].right
<1>0. MorganFacts(N, M, A, s, l, n, a, b) /\ n \notin DOMAIN N /\ DOMAIN M = DOMAIN N \cup {n}
  BY MorganChildren DEF Morgan
<1>1. /\ l \in A /\ s # l /\ n \notin A /\ A \subseteq DOMAIN N
      /\ a \in A \ {s, l} /\ b \in A \ {s, l} /\ a # b
      /\ n \notin DOMAIN N /\ DOMAIN M = DOMAIN N \cup {n}
  BY <1>0 DEF MorganFacts
<1>2. /\ Children(N, s) = {l} /\ Children(N, l) = {a, b}
      /\ Children(M, s) = {l, n} /\ Children(M, l) = {a} /\ Children(M, n) = {b}
      /\ \A y \in DOMAIN N \ {s, l} : Children(M, y) = Children(N, y)
  BY <1>0 DEF MorganFacts
<1>3. /\ IsFiniteSet(DOMAIN N)
      /\ \A y \in DOMAIN N : Children(N, y) \subseteq DOMAIN N
      /\ \A y \in A : Children(N, y) \subseteq A
      /\ \A x, y, z \in A : x \in Children(N, y) /\ x \in Children(N, z) => y = z
      /\ \A k \in DOMAIN R : R[k] \in A /\ \A y \in A : R[k] \notin Children(N, y)
  BY DEF Forest, Whole, ClosedIn, Single, RootPointers
<1>4. IsFiniteSet(DOMAIN M)
  BY <1>1, <1>3, FS_AddElement
<1>5. \A y \in A \ {s, l} : N[y].type \in {"and", "or"} => N[y].left # N[y].right
  BY DEF Forest, TwoChildren
<1>6. \A y \in A \ {s, l} : M[y] = N[y]
  BY <1>1 DEF Morgan
<1>7. M[s].left # M[s].right
  BY <1>1 DEF Morgan
<1>8. M[l].type = "not" /\ M[n].type = "not"
  BY DEF Morgan
<1>9. \A j, k \in DOMAIN R : R[j] = R[k] => j = k
  BY DEF Forest, RootPointers
<1> HIDE DEF a, b
<1>10. \A y \in DOMAIN M : Children(M, y) \subseteq DOMAIN M
  BY <1>1, <1>2, <1>3
<1>11. \A y \in A \cup {n} : Children(M, y) \subseteq A \cup {n}
  BY <1>1, <1>2, <1>3
<1>12. ASSUME NEW x \in A \cup {n}, NEW y \in A \cup {n}, x \in Children(M, y)
       PROVE  /\ x = l => y = s
              /\ x = n => y = s
              /\ x = a => y = l
              /\ x = b => y = n
              /\ x \notin {l, n, a, b} => x \in Children(N, y) /\ y \in A
  <2>1. CASE y = s
    BY <2>1, <1>1, <1>2, <1>12
  <2>2. CASE y = l
    BY <2>2, <1>1, <1>2, <1>12
  <2>3. CASE y = n
    BY <2>3, <1>1, <1>2, <1>12
  <2>4. CASE y \in A \ {s, l}
    <3>1. x \in Children(N, y)
      BY <2>4, <1>1, <1>2, <1>12
    <3>2. x \in A
      BY <3>1, <1>3, <2>4
    <3>3. x # l /\ x # a /\ x # b
      BY <3>1, <3>2, <2>4, <1>1, <1>2, <1>3
    <3> QED
      BY <3>1, <3>2, <3>3, <2>4, <1>1
  <2> QED
    BY <2>1, <2>2, <2>3, <2>4
<1>13. ASSUME NEW x \in A \cup {n}, NEW y \in A \cup {n}, NEW z \in A \cup {n},
              x \in Children(M, y), x \in Children(M, z)
       PROVE  y = z
  <2>1. CASE x \in {l, n, a, b}
    BY <2>1, <1>12, <1>13
  <2>2. CASE x \notin {l, n, a, b}
    <3>1. x \in Children(N, y) /\ y \in A /\ x \in Children(N, z) /\ z \in A
      BY <2>2, <1>12, <1>13
    <3> QED
      BY <3>1, <1>3
  <2> QED
    BY <2>1, <2>2
<1>14. \A k \in DOMAIN R : R[k] \in A \cup {n} /\ \A y \in A \cup {n} : R[k] \notin Children(M, y)
  <2> SUFFICES ASSUME NEW k \in DOMAIN R, NEW y \in A \cup {n}, R[k] \in Children(M, y)
               PROVE  FALSE
    BY <1>3
  <2>1. R[k] \in A /\ R[k] # l /\ R[k] # a /\ R[k] # b /\ R[k] # n
    BY <1>1, <1>2, <1>3
  <2>2. R[k] \in Children(N, y) /\ y \in A
    BY <2>1, <1>12
  <2> QED
    BY <2>2, <1>3
<1>15. Whole(M) /\ ClosedIn(M, A \cup {n})
  BY <1>4, <1>10, <1>11 DEF Whole, ClosedIn
<1>16. Single(M, A \cup {n})
  BY <1>13 DEF Single
<1>17. RootPointers(M, A \cup {n}, R)
  BY <1>9, <1>14 DEF RootPointers
<1>18. TwoChildren(M, A \cup {n})
  BY <1>1, <1>5, <1>6, <1>7, <1>8 DEF TwoChildren
<1> QED
  BY <1>1, <1>15, <1>16, <1>17, <1>18

(* The trees are what they were, with n in the one that holds s.           *)
LEMMA MorganNodes ==
  ASSUME NEW N, NEW M, NEW A, NEW R, NEW s \in A, NEW l, NEW n,
         Forest(N, A, R), Morgan(N, M, s, l, n), NEW x \in A, x # l
  PROVE  /\ Nodes(N, x) \subseteq Nodes(M, x)
         /\ Nodes(M, x) \subseteq Nodes(N, x) \cup {n}
         /\ s \in Nodes(N, x) => n \in Nodes(M, x)
         /\ s \notin Nodes(N, x) => Nodes(M, x) \subseteq Nodes(N, x)
<1> DEFINE a == N[l].left
           b == N[l].right
           B == A \cup {n}
<1>0. MorganFacts(N, M, A, s, l, n, a, b) /\ n \notin DOMAIN N /\ DOMAIN M = DOMAIN N \cup {n}
  BY MorganChildren DEF Morgan
<1>1. /\ l \in A /\ s # l /\ n \notin A /\ A \subseteq DOMAIN N
      /\ a \in A \ {s, l} /\ b \in A \ {s, l} /\ a # b
  BY <1>0 DEF MorganFacts
<1>2. /\ Children(N, s) = {l} /\ Children(N, l) = {a, b}
      /\ Children(M, s) = {l, n} /\ Children(M, l) = {a} /\ Children(M, n) = {b}
      /\ \A y \in A \ {s, l} : Children(M, y) = Children(N, y)
  BY <1>0 DEF MorganFacts
<1>3. /\ Whole(N) /\ ClosedIn(N, A)
      /\ \A w, y, z \in A : w \in Children(N, y) /\ w \in Children(N, z) => y = z
  BY DEF Forest, Single
<1>4. /\ Whole(M) /\ B \subseteq DOMAIN M /\ ClosedIn(M, B)
      /\ \A w, y, z \in B : w \in Children(M, y) /\ w \in Children(M, z) => y = z
  <2>1. Whole(M) /\ A \cup {n} \in SUBSET DOMAIN M /\ ClosedIn(M, A \cup {n})
    BY MorganOwners
  <2>2. Single(M, A \cup {n})
    BY MorganOwners
  <2> QED
    BY <2>1, <2>2 DEF Single
<1> HIDE DEF a, b
<1> DEFINE SN == Nodes(N, x)
           SM == Nodes(M, x)
<1>5. x \in SN /\ SN \subseteq A /\ ClosedIn(N, SN)
  BY <1>1, <1>3, NodesFacts
<1>6. x \in SM /\ SM \subseteq B /\ ClosedIn(M, SM)
  BY <1>4, NodesFacts
<1>7. l \in SN => s \in SN
  <2> SUFFICES ASSUME l \in SN PROVE s \in SN
    OBVIOUS
  <2>1. PICK y \in SN : l \in Children(N, y)
    BY <1>1, <1>3, HasParent
  <2> QED
    BY <2>1, <1>1, <1>2, <1>3, <1>5
<1>8. l \in SM => s \in SM
  <2> SUFFICES ASSUME l \in SM PROVE s \in SM
    OBVIOUS
  <2>1. PICK y \in SM : l \in Children(M, y)
    BY <1>1, <1>4, HasParent
  <2> QED
    BY <2>1, <1>1, <1>2, <1>4, <1>6
<1>9. \A T : x \in T /\ ClosedIn(N, T) => SN \subseteq T
  BY <1>1, <1>3, NodesFacts
<1>10. \A T : x \in T /\ ClosedIn(M, T) => SM \subseteq T
  BY <1>4, NodesFacts
<1> HIDE DEF SN, SM
<1>11. ClosedIn(N, SM \cap A)
  <2> SUFFICES ASSUME NEW y \in SM \cap A, NEW z \in Children(N, y) PROVE z \in SM \cap A
    BY DEF ClosedIn
  <2>1. z \in A
    BY <1>3 DEF ClosedIn
  <2>2. CASE y = l
    BY <2>1, <2>2, <1>1, <1>2, <1>6, <1>8 DEF ClosedIn
  <2>3. CASE y = s
    BY <2>1, <2>3, <1>1, <1>2, <1>6 DEF ClosedIn
  <2>4. CASE y \notin {l, s}
    BY <2>1, <2>4, <1>2, <1>6 DEF ClosedIn
  <2> QED
    BY <2>2, <2>3, <2>4
<1>12. SN \subseteq SM
  BY <1>6, <1>9, <1>11
<1>13. CASE s \in SN
  <2>1. ClosedIn(M, SN \cup {n})
    <3> SUFFICES ASSUME NEW y \in SN \cup {n}, NEW z \in Children(M, y)
                 PROVE  z \in SN \cup {n}
      BY DEF ClosedIn
    <3>1. CASE y = n
      BY <3>1, <1>2, <1>5, <1>13 DEF ClosedIn
    <3>2. CASE y \in {s, l}
      BY <3>2, <1>1, <1>2, <1>5, <1>13 DEF ClosedIn
    <3>3. CASE y \in SN \ {s, l}
      BY <3>3, <1>2, <1>5 DEF ClosedIn
    <3> QED
      BY <3>1, <3>2, <3>3
  <2>2. SM \subseteq SN \cup {n}
    BY <2>1, <1>5, <1>10
  <2>3. n \in SM
    BY <1>2, <1>6, <1>12, <1>13 DEF ClosedIn
  <2> QED
    BY <1>12, <1>13, <2>2, <2>3 DEF SN, SM
<1>14. CASE s \notin SN
  <2>1. ClosedIn(M, SN)
    BY <1>2, <1>5, <1>7, <1>14 DEF ClosedIn
  <2>2. SM \subseteq SN
    BY <2>1, <1>5, <1>10
  <2> QED
    BY <1>12, <1>14, <2>2 DEF SN, SM
<1> QED
  BY <1>13, <1>14

LEMMA MorganForest ==
  ASSUME NEW N, NEW M, NEW A, NEW R, NEW s \in A, NEW l, NEW n,
         Forest(N, A, R), Morgan(N, M, s, l, n)
  PROVE  Forest(M, A \cup {n}, R)
<1>1. ASSUME NEW x \in A \cup {n} PROVE \E k \in DOMAIN R : x \in Nodes(M, R[k])
  <2> DEFINE y == IF x = n THEN s ELSE x
  <2>1. y \in A
    OBVIOUS
  <2>2. PICK k \in DOMAIN R : y \in Nodes(N, R[k])
    BY <2>1 DEF Forest, UnderRoots
  <2>3. R[k] \in A /\ R[k] # l
    <3>1. l \in Children(N, s)
      BY DEF Morgan, Children
    <3>2. R[k] \in A /\ R[k] \notin Children(N, s)
      BY DEF Forest, RootPointers
    <3> QED
      BY <3>1, <3>2
  <2>4. PICK r : r = R[k]
    OBVIOUS
  <2>5. /\ Nodes(N, r) \subseteq Nodes(M, r)
        /\ s \in Nodes(N, r) => n \in Nodes(M, r)
    BY <2>3, <2>4, MorganNodes
  <2> QED
    BY <2>2, <2>4, <2>5
<1>2. UnderRoots(M, A \cup {n}, R)
  BY <1>1 DEF UnderRoots
<1> QED
  BY <1>2, MorganOwners DEF Forest

Revalued(M, B, A, l, V, true) ==
  \E W : Valued(M, B, W, true) /\ \A x \in A \ {l} : x \in W <=> x \in V

LEMMA MorganValued ==
  ASSUME NEW N, NEW M, NEW A, NEW R, NEW s \in A, NEW l, NEW n,
         Forest(N, A, R), Morgan(N, M, s, l, n),
         NEW true, NEW V, Valued(N, A, V, true)
  PROVE  Revalued(M, A \cup {n}, A, l, V, true)
<1> DEFINE a == N[l].left
           b == N[l].right
           B == A \cup {n}
           W == (V \ {l}) \cup {x \in {l} : a \notin V} \cup {x \in {n} : b \notin V}
<1>0. MorganFacts(N, M, A, s, l, n, a, b)
  BY MorganChildren
<1>1. /\ l \in A /\ s # l /\ n \notin A /\ A \subseteq DOMAIN N
      /\ a \in A \ {s, l} /\ b \in A \ {s, l} /\ a # b
  BY <1>0 DEF MorganFacts
<1>2. \A y \in A \ {s, l} : Children(M, y) = Children(N, y)
  BY <1>0 DEF MorganFacts
<1>3. V \subseteq A /\ \A y \in A : y \in V <=> Rule(N, V, y, true)
  BY DEF Valued
<1>4. /\ W \subseteq B
      /\ l \in W <=> a \notin V
      /\ n \in W <=> b \notin V
      /\ \A x \in A \ {l} : x \in W <=> x \in V
  BY <1>1, <1>3
<1> HIDE DEF W
<1>5. /\ s \in V <=> l \notin V
      /\ N[l].type = "and" => (l \in V <=> a \in V /\ b \in V)
      /\ N[l].type = "or" => (l \in V <=> a \in V \/ b \in V)
  <2>1. s \in V <=> l \notin V
    <3>1. s \in V <=> Rule(N, V, s, true)
      BY <1>3
    <3>2. N[s].type = "not" /\ N[s].left = l
      BY DEF Morgan
    <3> QED
      BY <3>1, <3>2 DEF Rule
  <2>2. l \in V <=> Rule(N, V, l, true)
    BY <1>1, <1>3
  <2> QED
    BY <2>1, <2>2 DEF Rule
<1>6. s \in W <=> Rule(M, W, s, true)
  <2>1. CASE N[l].type = "and"
    <3>1. M[s].type = "or" /\ M[s].left = l /\ M[s].right = n
      BY <2>1 DEF Morgan, Dual
    <3>2. Rule(M, W, s, true) <=> l \in W \/ n \in W
      BY <3>1 DEF Rule
    <3> QED
      BY <3>2, <2>1, <1>1, <1>4, <1>5
  <2>2. CASE N[l].type = "or"
    <3>1. M[s].type = "and" /\ M[s].left = l /\ M[s].right = n
      BY <2>2 DEF Morgan, Dual
    <3>2. Rule(M, W, s, true) <=> l \in W /\ n \in W
      BY <3>1 DEF Rule
    <3> QED
      BY <3>2, <2>2, <1>1, <1>4, <1>5
  <2> QED
    BY <2>1, <2>2 DEF Morgan
<1>7. l \in W <=> Rule(M, W, l, true)
  <2>1. M[l].type = "not" /\ M[l].left = a
    BY DEF Morgan
  <2> HIDE DEF a, b
  <2> QED
    BY <2>1, <1>1, <1>4 DEF Rule
<1>8. n \in W <=> Rule(M, W, n, true)
  <2>1. M[n].type = "not" /\ M[n].left = b
    BY DEF Morgan
  <2> HIDE DEF a, b
  <2> QED
    BY <2>1, <1>1, <1>4 DEF Rule
<1>9. ASSUME NEW y \in A \ {s, l} PROVE y \in W <=> Rule(M, W, y, true)
  <2>1. M[y] = N[y]
    BY <1>1 DEF Morgan
  <2>2. Rule(M, W, y, true) <=> Rule(N, W, y, true)
    BY <2>1 DEF Rule, Atom
  <2>3. \A z \in Children(N, y) : z \in V <=> z \in W
    <3> SUFFICES ASSUME NEW z \in Children(N, y) PROVE z \in A \ {l}
      BY <1>4
    <3>1. z \in A
      BY DEF Forest, ClosedIn
    <3>2. z # l
      BY <1>0, <1>1 DEF Forest, Single, MorganFacts
    <3> QED
      BY <3>1, <3>2
  <2>4. Rule(N, V, y, true) <=> Rule(N, W, y, true)
    BY <2>3, RuleLocal
  <2> QED
    BY <2>2, <2>4, <1>3, <1>4
<1>10. Valued(M, B, W, true)
  BY <1>4, <1>6, <1>7, <1>8, <1>9 DEF Valued
<1> QED
  BY <1>4, <1>10 DEF Revalued

-----------------------------------------------------------------------------
(* The heap M after s has taken over its grandchild g, and ss and g, the    *)
(* two objects below it, are deleted.                                      *)
Double(N, M, s, ss, g) ==
  /\ N[s].type = "not" /\ N[s].left = ss
  /\ N[ss].type = "not" /\ N[ss].left = g
  /\ DOMAIN M = DOMAIN N
  /\ M[s] = N[g] /\ M[g].type = "deadlock"
  /\ \A y \in DOMAIN N \ {s, g} : M[y] = N[y]

DoubleFacts(N, M, A, s, ss, g) ==
  /\ ss \in A /\ g \in A /\ s # ss /\ s # g /\ ss # g /\ A \subseteq DOMAIN N
  /\ Children(N, s) = {ss} /\ Children(N, ss) = {g}
  /\ Children(N, g) \subseteq A \ {s, ss, g}
  /\ Children(M, s) = Children(N, g) /\ Children(M, ss) = {g} /\ Children(M, g) = {}
  /\ \A y \in DOMAIN N \ {s, g} : Children(M, y) = Children(N, y)

LEMMA DoubleChildren ==
  ASSUME NEW N, NEW M, NEW A, NEW R, NEW s \in A, NEW ss, NEW g,
         Forest(N, A, R), Double(N, M, s, ss, g)
  PROVE  DoubleFacts(N, M, A, s, ss, g)
<1>1. Children(N, s) = {ss} /\ Children(N, ss) = {g}
  BY DEF Double, Children
<1>2. ss \in A /\ A \subseteq DOMAIN N /\ Whole(N)
  BY <1>1 DEF Forest, ClosedIn
<1>3. g \in A
  BY <1>1, <1>2 DEF Forest, ClosedIn
<1>4. Children(N, g) \subseteq A
  BY <1>3 DEF Forest, ClosedIn
<1>5. /\ ss \in Nodes(N, ss) /\ g \in Nodes(N, ss)
      /\ Children(N, g) \subseteq Nodes(N, ss)
  BY <1>1, <1>2, NodesFacts DEF ClosedIn
<1>6. s \notin Nodes(N, ss)
  BY <1>1, NoLoops
<1>7. g \in Nodes(N, g) /\ Children(N, g) \subseteq Nodes(N, g)
  <2>1. g \in DOMAIN N
    BY <1>2, <1>3
  <2> QED
    BY <1>2, <2>1, NodesFacts DEF ClosedIn
<1>8. ss \notin Nodes(N, g)
  BY <1>1, <1>2, NoLoops
<1>9. g \notin Children(N, g)
  <2> SUFFICES ASSUME g \in Children(N, g) PROVE FALSE
    OBVIOUS
  <2>1. g \notin Nodes(N, g)
    BY <1>3, NoLoops
  <2> QED
    BY <1>7, <2>1
<1>10. Children(N, g) \subseteq A \ {s, ss, g}
  BY <1>4, <1>5, <1>6, <1>7, <1>8, <1>9
<1>11. s # ss /\ s # g /\ ss # g
  BY <1>5, <1>6, <1>7, <1>8
<1>12. Children(M, s) = Children(N, g)
  BY DEF Double, Children
<1>13. Children(M, g) = {}
  BY DEF Double, Children
<1>14. \A y \in DOMAIN N \ {s, g} : Children(M, y) = Children(N, y)
  BY DEF Double, Children
<1>15. Children(M, ss) = {g}
  BY <1>1, <1>2, <1>11, <1>14
<1> QED
  BY <1>1, <1>2, <1>3, <1>10, <1>11, <1>12, <1>13, <1>14, <1>15 DEF DoubleFacts

(* What the destructor deletes.                                            *)
LEMMA DoubleDeletes ==
  ASSUME NEW N, NEW M, NEW A, NEW R, NEW s \in A, NEW ss, NEW g,
         Forest(N, A, R), Double(N, M, s, ss, g)
  PROVE  Whole(M) /\ ss \in Nodes(M, ss) /\ g \in Nodes(M, ss) /\ Nodes(M, ss) \subseteq {ss, g}
<1>1. DoubleFacts(N, M, A, s, ss, g) /\ DOMAIN M = DOMAIN N
  BY DoubleChildren DEF Double
<1>2. /\ ss \in A /\ g \in A /\ A \subseteq DOMAIN N
      /\ Children(N, g) \subseteq A
      /\ Children(M, s) = Children(N, g) /\ Children(M, ss) = {g} /\ Children(M, g) = {}
      /\ \A y \in DOMAIN N \ {s, g} : Children(M, y) = Children(N, y)
  BY <1>1 DEF DoubleFacts
<1>3. Whole(M)
  <2>1. IsFiniteSet(DOMAIN N) /\ \A y \in DOMAIN N : Children(N, y) \subseteq DOMAIN N
    BY DEF Forest, Whole, ClosedIn
  <2> QED
    BY <1>1, <1>2, <2>1 DEF Whole, ClosedIn
<1>4. ss \in DOMAIN M
  BY <1>1, <1>2
<1>5. ClosedIn(M, {ss, g})
  BY <1>2 DEF ClosedIn
<1>6. ss \in Nodes(M, ss) /\ g \in Nodes(M, ss)
  BY <1>2, <1>3, <1>4, NodesFacts DEF ClosedIn
<1>7. Nodes(M, ss) \subseteq {ss, g}
  BY <1>3, <1>4, <1>5, NodesFacts
<1> QED
  BY <1>3, <1>6, <1>7

LEMMA DoubleOwners ==
  ASSUME NEW N, NEW M, NEW A, NEW R, NEW s \in A, NEW ss, NEW g,
         Forest(N, A, R), Double(N, M, s, ss, g)
  PROVE  /\ A \ {ss, g} \in SUBSET DOMAIN M /\ ClosedIn(M, A \ {ss, g})
         /\ Single(M, A \ {ss, g})
         /\ RootPointers(M, A \ {ss, g}, R)
         /\ TwoChildren(M, A \ {ss, g})
<1> DEFINE B == A \ {ss, g}
<1>0. DoubleFacts(N, M, A, s, ss, g) /\ DOMAIN M = DOMAIN N
  BY DoubleChildren DEF Double
<1>1. /\ ss \in A /\ g \in A /\ s # ss /\ s # g /\ ss # g /\ A \subseteq DOMAIN N
      /\ Children(N, s) = {ss} /\ Children(N, ss) = {g}
      /\ Children(N, g) \subseteq B \ {s}
      /\ Children(M, s) = Children(N, g)
      /\ \A y \in B \ {s} : Children(M, y) = Children(N, y)
  BY <1>0 DEF DoubleFacts
<1>2. /\ \A y \in A : Children(N, y) \subseteq A
      /\ \A x, y, z \in A : x \in Children(N, y) /\ x \in Children(N, z) => y = z
      /\ \A k \in DOMAIN R : R[k] \in A /\ \A y \in A : R[k] \notin Children(N, y)
      /\ \A j, k \in DOMAIN R : R[j] = R[k] => j = k
  BY DEF Forest, ClosedIn, Single, RootPointers
<1>3. \A y \in A : N[y].type \in {"and", "or"} => N[y].left # N[y].right
  BY DEF Forest, TwoChildren
<1>4. M[s] = N[g] /\ \A y \in B \ {s} : M[y] = N[y]
  BY <1>1 DEF Double
<1>5. s \in B
  BY <1>1
(* Every object has the parent it had, s in the place of g.                *)
<1>6. ASSUME NEW x, NEW y \in B, x \in Children(M, y)
      PROVE  x \in B /\ x \in Children(N, IF y = s THEN g ELSE y)
  <2>1. CASE y = s
    BY <2>1, <1>1, <1>6
  <2>2. CASE y # s
    <3>1. x \in Children(N, y) /\ x \in A
      BY <2>2, <1>1, <1>2, <1>6
    <3>2. x # ss /\ x # g
      BY <2>2, <3>1, <1>1, <1>2
    <3> QED
      BY <2>2, <3>1, <3>2
  <2> QED
    BY <2>1, <2>2
<1>7. ClosedIn(M, B)
  BY <1>6 DEF ClosedIn
<1>8. ASSUME NEW x \in B, NEW y \in B, NEW z \in B, x \in Children(M, y), x \in Children(M, z)
      PROVE  y = z
  <2> DEFINE p == IF y = s THEN g ELSE y
             q == IF z = s THEN g ELSE z
  <2>1. x \in Children(N, p) /\ x \in Children(N, q) /\ p \in A /\ q \in A
    BY <1>1, <1>6, <1>8
  <2>2. p = q
    <3> HIDE DEF p, q
    <3> QED
      BY <2>1, <1>2
  <2> QED
    BY <2>2
<1>9. ASSUME NEW k \in DOMAIN R
      PROVE  R[k] \in B /\ \A y \in B : R[k] \notin Children(M, y)
  <2>1. R[k] \in B
    BY <1>1, <1>2
  <2>2. ASSUME NEW y \in B, R[k] \in Children(M, y) PROVE FALSE
    BY <1>1, <1>2, <1>6, <2>2
  <2> QED
    BY <2>1, <2>2
<1>10. ASSUME NEW y \in B, M[y].type \in {"and", "or"} PROVE M[y].left # M[y].right
  BY <1>1, <1>3, <1>4, <1>10
<1>11. Single(M, B)
  BY <1>8 DEF Single
<1>12. RootPointers(M, B, R)
  BY <1>2, <1>9 DEF RootPointers
<1>13. TwoChildren(M, B)
  BY <1>10 DEF TwoChildren
<1> QED
  BY <1>0, <1>1, <1>7, <1>11, <1>12, <1>13

LEMMA DoubleNodes ==
  ASSUME NEW N, NEW M, NEW A, NEW R, NEW s \in A, NEW ss, NEW g,
         Forest(N, A, R), Double(N, M, s, ss, g), NEW x \in A \ {ss, g}
  PROVE  /\ Nodes(M, x) = Nodes(N, x) \ {ss, g}
         /\ s \notin Nodes(N, x) => Nodes(M, x) = Nodes(N, x)
<1> DEFINE B == A \ {ss, g}
<1>0. DoubleFacts(N, M, A, s, ss, g) /\ DOMAIN M = DOMAIN N
  BY DoubleChildren DEF Double
<1>1. /\ ss \in A /\ g \in A /\ s # ss /\ s # g /\ ss # g /\ A \subseteq DOMAIN N
      /\ Children(N, s) = {ss} /\ Children(N, ss) = {g}
      /\ Children(N, g) \subseteq B \ {s}
      /\ Children(M, s) = Children(N, g)
      /\ \A y \in B \ {s} : Children(M, y) = Children(N, y)
  BY <1>0 DEF DoubleFacts
<1>2. /\ Whole(N) /\ ClosedIn(N, A)
      /\ \A w, y, z \in A : w \in Children(N, y) /\ w \in Children(N, z) => y = z
  BY DEF Forest, Single
<1>3. Whole(M) /\ B \subseteq DOMAIN M /\ ClosedIn(M, B)
  BY DoubleDeletes, DoubleOwners
<1> DEFINE SN == Nodes(N, x)
           SM == Nodes(M, x)
<1>5. x \in SN /\ SN \subseteq A /\ ClosedIn(N, SN)
  BY <1>1, <1>2, NodesFacts
<1>6. x \in SM /\ SM \subseteq B /\ ClosedIn(M, SM)
  BY <1>3, NodesFacts
<1>7. /\ ss \in SN => s \in SN
      /\ g \in SN => ss \in SN
  <2>1. ASSUME ss \in SN PROVE s \in SN
    <3>1. PICK y \in SN : ss \in Children(N, y)
      BY <1>1, <1>2, <2>1, HasParent
    <3> QED
      BY <3>1, <1>1, <1>2, <1>5
  <2>2. ASSUME g \in SN PROVE ss \in SN
    <3>1. PICK y \in SN : g \in Children(N, y)
      BY <1>1, <1>2, <2>2, HasParent
    <3> QED
      BY <3>1, <1>1, <1>2, <1>5
  <2> QED
    BY <2>1, <2>2
<1>9. \A T : x \in T /\ ClosedIn(N, T) => SN \subseteq T
  BY <1>1, <1>2, NodesFacts
<1>10. \A T : x \in T /\ ClosedIn(M, T) => SM \subseteq T
  BY <1>3, NodesFacts
<1> HIDE DEF SN, SM
<1>11. ClosedIn(M, SN \ {ss, g})
  <2> SUFFICES ASSUME NEW y \in SN \ {ss, g}, NEW z \in Children(M, y)
               PROVE  z \in SN \ {ss, g}
    BY DEF ClosedIn
  <2>1. z \in B
    BY <1>3, <1>5 DEF ClosedIn
  <2>2. CASE y = s
    <3>1. ss \in SN /\ g \in SN
      BY <2>2, <1>1, <1>5 DEF ClosedIn
    <3> QED
      BY <2>1, <2>2, <3>1, <1>1, <1>5 DEF ClosedIn
  <2>3. CASE y # s
    BY <2>1, <2>3, <1>1, <1>5 DEF ClosedIn
  <2> QED
    BY <2>2, <2>3
<1>12. SM \subseteq SN \ {ss, g}
  BY <1>5, <1>10, <1>11
<1>13. ClosedIn(N, SM \cup {z \in {ss, g} : s \in SM})
  <2> SUFFICES ASSUME NEW y \in SM \cup {z \in {ss, g} : s \in SM}, NEW z \in Children(N, y)
               PROVE  z \in SM \cup {w \in {ss, g} : s \in SM}
    BY DEF ClosedIn
  <2>1. CASE y \in {s, ss}
    BY <2>1, <1>1, <1>6
  <2>2. CASE y = g
    BY <2>2, <1>1, <1>6 DEF ClosedIn
  <2>3. CASE y \in SM \ {s}
    BY <2>3, <1>1, <1>6 DEF ClosedIn
  <2> QED
    BY <2>1, <2>2, <2>3
<1>14. SN \subseteq SM \cup {ss, g}
  BY <1>6, <1>9, <1>13
<1>15. SM = SN \ {ss, g}
  BY <1>12, <1>14
<1>16. s \notin SN => SM = SN
  BY <1>7, <1>15
<1> QED
  BY <1>15, <1>16 DEF SN, SM

LEMMA DoubleForest ==
  ASSUME NEW N, NEW M, NEW A, NEW R, NEW s \in A, NEW ss, NEW g,
         Forest(N, A, R), Double(N, M, s, ss, g)
  PROVE  Forest(M, A \ {ss, g}, R)
<1>1. ASSUME NEW x \in A \ {ss, g} PROVE \E k \in DOMAIN R : x \in Nodes(M, R[k])
  <2>1. PICK k \in DOMAIN R : x \in Nodes(N, R[k])
    BY DEF Forest, UnderRoots
  <2>2. PICK r : r = R[k]
    OBVIOUS
  <2>3. RootPointers(M, A \ {ss, g}, R)
    BY DoubleOwners
  <2>4. r \in A \ {ss, g}
    BY <2>2, <2>3 DEF RootPointers
  <2>5. Nodes(M, r) = Nodes(N, r) \ {ss, g}
    BY <2>4, DoubleNodes
  <2> QED
    BY <2>1, <2>2, <2>5
<1>2. UnderRoots(M, A \ {ss, g}, R)
  BY <1>1 DEF UnderRoots
<1> QED
  BY <1>2, DoubleDeletes, DoubleOwners DEF Forest

LEMMA DoubleValued ==
  ASSUME NEW N, NEW M, NEW A, NEW R, NEW s \in A, NEW ss, NEW g,
         Forest(N, A, R), Double(N, M, s, ss, g),
         NEW true, NEW V, Valued(N, A, V, true)
  PROVE  Valued(M, A \ {ss, g}, V \ {ss, g}, true)
<1> DEFINE B == A \ {ss, g}
           W == V \ {ss, g}
<1>0. DoubleFacts(N, M, A, s, ss, g)
  BY DoubleChildren
<1>1. /\ ss \in A /\ g \in A /\ s # ss /\ s # g /\ A \subseteq DOMAIN N
      /\ Children(N, g) \subseteq B
      /\ Children(M, s) = Children(N, g)
      /\ \A y \in B \ {s} : Children(M, y) = Children(N, y)
  BY <1>0 DEF DoubleFacts
<1>2. V \subseteq A /\ \A y \in A : y \in V <=> Rule(N, V, y, true)
  BY DEF Valued
<1>3. ClosedIn(M, B)
  BY DoubleOwners
<1>4. ASSUME NEW y \in B PROVE y \in W <=> Rule(M, W, y, true)
  <2> DEFINE p == IF y = s THEN g ELSE y
  <2>1. M[y] = N[p] /\ p \in A
    BY <1>1 DEF Double
  <2>2. y \in V <=> p \in V
    <3>1. CASE y = s
      <4>1. s \in V <=> ss \notin V
        <5>1. s \in V <=> Rule(N, V, s, true)
          BY <1>2
        <5> QED
          BY <5>1 DEF Rule, Double
      <4>2. ss \in V <=> g \notin V
        <5>1. ss \in V <=> Rule(N, V, ss, true)
          BY <1>1, <1>2
        <5> QED
          BY <5>1 DEF Rule, Double
      <4> QED
        BY <3>1, <4>1, <4>2
    <3>2. CASE y # s
      BY <3>2
    <3> QED
      BY <3>1, <3>2
  <2> HIDE DEF p
  <2>3. p \in V <=> Rule(N, V, p, true)
    BY <1>2, <2>1
  <2>4. Rule(N, V, p, true) <=> Rule(M, V, y, true)
    BY <2>1 DEF Rule, Atom
  <2>5. \A z \in Children(M, y) : z \in V <=> z \in W
    BY <1>3 DEF ClosedIn
  <2>6. Rule(M, V, y, true) <=> Rule(M, W, y, true)
    BY <2>5, RuleLocal
  <2> QED
    BY <2>2, <2>3, <2>4, <2>6
<1>5. W \subseteq B
  BY <1>2
<1> HIDE DEF B, W
<1>6. Valued(M, B, W, true)
  BY <1>4, <1>5 DEF Valued
<1> QED
  BY <1>6 DEF B, W

-----------------------------------------------------------------------------
(* Counting owners, as the specification of the parser and Ownership do.    *)
LEMMA OneInTwo ==
  ASSUME NEW P, NEW Q, IsFiniteSet(P), IsFiniteSet(Q)
  PROVE  Cardinality(P) + Cardinality(Q) = 1
           <=> \/ Q = {} /\ \E u : P = {u}
               \/ P = {} /\ \E u : Q = {u}
<1>1. /\ Cardinality(P) \in Nat /\ Cardinality(Q) \in Nat
      /\ Cardinality(P) = 0 <=> P = {}
      /\ Cardinality(Q) = 0 <=> Q = {}
  BY FS_CardinalityType, FS_EmptySet
<1>2. /\ Cardinality(P) = 1 <=> \E u : P = {u}
      /\ Cardinality(Q) = 1 <=> \E u : Q = {u}
  BY FS_Singleton
<1> DEFINE p == Cardinality(P)
           q == Cardinality(Q)
<1> HIDE DEF p, q
<1>3. p \in Nat /\ q \in Nat => (p + q = 1 <=> (p = 1 /\ q = 0) \/ (p = 0 /\ q = 1))
  OBVIOUS
<1> QED
  BY <1>1, <1>2, <1>3 DEF p, q

Owned(N, A, R, x) ==
  Cardinality({y \in A : x \in Children(N, y)})
    + Cardinality({k \in DOMAIN R : R[k] = x}) = 1

LEMMA OwnedFacts ==
  ASSUME NEW N, NEW A, IsFiniteSet(A), NEW R, IsFiniteSet(DOMAIN R), NEW x
  PROVE  Owned(N, A, R, x) <=>
           \/ /\ \A k \in DOMAIN R : R[k] # x
              /\ \E y \in A : x \in Children(N, y)
              /\ \A y, z \in A : x \in Children(N, y) /\ x \in Children(N, z) => y = z
           \/ /\ \A y \in A : x \notin Children(N, y)
              /\ \E k \in DOMAIN R : R[k] = x
              /\ \A j, k \in DOMAIN R : R[j] = x /\ R[k] = x => j = k
<1> DEFINE P == {y \in A : x \in Children(N, y)}
           Q == {k \in DOMAIN R : R[k] = x}
<1>1. IsFiniteSet(P) /\ IsFiniteSet(Q)
  BY FS_Subset
<1>2. Owned(N, A, R, x) <=> Cardinality(P) + Cardinality(Q) = 1
  BY DEF Owned
<1>3. /\ P = {} <=> \A y \in A : x \notin Children(N, y)
      /\ Q = {} <=> \A k \in DOMAIN R : R[k] # x
  OBVIOUS
<1>4. (\E u : P = {u}) <=> /\ \E y \in A : x \in Children(N, y)
                           /\ \A y, z \in A : x \in Children(N, y) /\ x \in Children(N, z) => y = z
  <2>1. ASSUME NEW u, P = {u}
        PROVE  /\ \E y \in A : x \in Children(N, y)
               /\ \A y, z \in A : x \in Children(N, y) /\ x \in Children(N, z) => y = z
    BY <2>1
  <2>2. ASSUME NEW u \in A, x \in Children(N, u),
               \A y, z \in A : x \in Children(N, y) /\ x \in Children(N, z) => y = z
        PROVE  P = {u}
    BY <2>2
  <2> QED
    BY <2>1, <2>2
<1>5. (\E u : Q = {u}) <=> /\ \E k \in DOMAIN R : R[k] = x
                           /\ \A j, k \in DOMAIN R : R[j] = x /\ R[k] = x => j = k
  <2>1. ASSUME NEW u, Q = {u}
        PROVE  /\ \E k \in DOMAIN R : R[k] = x
               /\ \A j, k \in DOMAIN R : R[j] = x /\ R[k] = x => j = k
    BY <2>1
  <2>2. ASSUME NEW u \in DOMAIN R, R[u] = x,
               \A j, k \in DOMAIN R : R[j] = x /\ R[k] = x => j = k
        PROVE  Q = {u}
    BY <2>2
  <2> QED
    BY <2>1, <2>2
<1> HIDE DEF P, Q
<1>6. Cardinality(P) + Cardinality(Q) = 1
        <=> \/ Q = {} /\ \E u : P = {u}
            \/ P = {} /\ \E u : Q = {u}
  BY <1>1, OneInTwo
<1> QED
  BY <1>2, <1>3, <1>4, <1>5, <1>6

(* The objects of a forest are owned once.                                 *)
LEMMA ForestOwned ==
  ASSUME NEW N, NEW A, NEW R, Forest(N, A, R), IsFiniteSet(DOMAIN R), NEW x \in A
  PROVE  Owned(N, A, R, x)
<1>1. Whole(N) /\ A \subseteq DOMAIN N /\ IsFiniteSet(A)
  BY FS_Subset DEF Forest, Whole
<1>2. /\ \A y, z \in A : x \in Children(N, y) /\ x \in Children(N, z) => y = z
      /\ \A k \in DOMAIN R : R[k] \in A /\ \A y \in A : R[k] \notin Children(N, y)
      /\ \A j, k \in DOMAIN R : R[j] = R[k] => j = k
  BY DEF Forest, Single, RootPointers
<1>3. PICK k \in DOMAIN R : x \in Nodes(N, R[k])
  BY DEF Forest, UnderRoots
<1>4. CASE x = R[k]
  <2>1. /\ \A y \in A : x \notin Children(N, y)
        /\ \E j \in DOMAIN R : R[j] = x
        /\ \A i1, j \in DOMAIN R : R[i1] = x /\ R[j] = x => i1 = j
    BY <1>2, <1>4
  <2> QED
    BY <1>1, <2>1, OwnedFacts
<1>5. CASE x # R[k]
  <2>1. PICK r : r = R[k]
    OBVIOUS
  <2>2. r \in A
    BY <1>2, <2>1
  <2>3. Nodes(N, r) \subseteq A
    BY <2>2, ForestNodes
  <2>4. PICK y \in Nodes(N, r) : x \in Children(N, y)
    BY <1>1, <1>3, <1>5, <2>1, <2>2, HasParent
  <2>5. /\ \A j \in DOMAIN R : R[j] # x
        /\ \E z \in A : x \in Children(N, z)
    BY <1>2, <2>3, <2>4
  <2> QED
    BY <1>1, <1>2, <2>5, OwnedFacts
<1> QED
  BY <1>4, <1>5

(* What the parser builds is a forest.                                     *)
LEMMA SpecificationSeq ==
  ASSUME NEW p, IsSpecification(p)
  PROVE  /\ p.roots \in Seq(DOMAIN p.nodes)
         /\ \E n \in Nat : n = Len(p.nodes) /\ DOMAIN p.nodes = 1..n
         /\ \E T : p.nodes \in Seq(T)
         /\ \A x \in DOMAIN p.nodes : IsObject(p.nodes[x])
BY DEF IsSpecification

LEMMA SpecificationOwned ==
  ASSUME NEW p, IsSpecification(p), NEW x \in DOMAIN p.nodes
  PROVE  /\ Children(p.nodes, x) \subseteq 1..(x - 1)
         /\ p.nodes[x].type \in {"and", "or"} => p.nodes[x].left # p.nodes[x].right
         /\ Owned(p.nodes, DOMAIN p.nodes, p.roots, x)
BY DEF IsSpecification, Owned

LEMMA SpecificationForest ==
  ASSUME NEW p, IsSpecification(p)
  PROVE  Forest(p.nodes, DOMAIN p.nodes, p.roots)
<1>1. PICK N : N = p.nodes
  OBVIOUS
<1>2. PICK R : R = p.roots
  OBVIOUS
<1>3. PICK n \in Nat : DOMAIN N = 1..n
  BY <1>1, SpecificationSeq
<1>4. R \in Seq(1..n)
  BY <1>1, <1>2, <1>3, SpecificationSeq
<1>5. /\ IsFiniteSet(1..n)
      /\ IsFiniteSet(DOMAIN R)
  <2>1. IsFiniteSet(1..n)
    BY FS_Interval
  <2>2. IsFiniteSet(1..Len(R))
    BY <1>4, FS_Interval
  <2> QED
    BY <1>4, <2>1, <2>2
<1>6. ASSUME NEW x \in 1..n
      PROVE  /\ Children(N, x) \subseteq 1..(x - 1)
             /\ N[x].type \in {"and", "or"} => N[x].left # N[x].right
             /\ Owned(N, 1..n, R, x)
  BY <1>1, <1>2, <1>3, SpecificationOwned
<1> DEFINE D == 1..n
<1>7. ASSUME NEW x \in 1..n
      PROVE  \/ /\ \A k \in DOMAIN R : R[k] # x
                /\ \E y \in 1..n : x \in Children(N, y)
                /\ \A y, z \in 1..n : x \in Children(N, y) /\ x \in Children(N, z) => y = z
             \/ /\ \A y \in 1..n : x \notin Children(N, y)
                /\ \E k \in DOMAIN R : R[k] = x
                /\ \A j, k \in DOMAIN R : R[j] = x /\ R[k] = x => j = k
  <2>1. IsFiniteSet(D) /\ Owned(N, D, R, x)
    BY <1>5, <1>6
  <2> HIDE DEF D
  <2>2. \/ /\ \A k \in DOMAIN R : R[k] # x
           /\ \E y \in D : x \in Children(N, y)
           /\ \A y, z \in D : x \in Children(N, y) /\ x \in Children(N, z) => y = z
        \/ /\ \A y \in D : x \notin Children(N, y)
           /\ \E k \in DOMAIN R : R[k] = x
           /\ \A j, k \in DOMAIN R : R[j] = x /\ R[k] = x => j = k
    BY <1>5, <2>1, OwnedFacts
  <2> QED
    BY <2>2 DEF D
<1>8. Whole(N) /\ ClosedIn(N, 1..n)
  <2>1. \A x \in 1..n : Children(N, x) \subseteq 1..n
    BY <1>6
  <2> QED
    BY <1>3, <1>5, <2>1 DEF Whole, ClosedIn
<1>9. Single(N, 1..n)
  <2> SUFFICES ASSUME NEW x \in 1..n, NEW y \in 1..n, NEW z \in 1..n,
                      x \in Children(N, y), x \in Children(N, z)
               PROVE  y = z
    BY DEF Single
  <2> QED
    BY <1>7
<1>10. RootPointers(N, 1..n, R)
  <2>1. ASSUME NEW k \in DOMAIN R
        PROVE  R[k] \in 1..n /\ \A y \in 1..n : R[k] \notin Children(N, y)
    <3>1. R[k] \in 1..n
      BY <1>4
    <3> QED
      BY <3>1, <1>7
  <2>2. ASSUME NEW j \in DOMAIN R, NEW k \in DOMAIN R, R[j] = R[k] PROVE j = k
    <3>1. R[k] \in 1..n
      BY <1>4
    <3> QED
      BY <3>1, <2>2, <1>7
  <2> QED
    BY <2>1, <2>2 DEF RootPointers
<1>11. TwoChildren(N, 1..n)
  BY <1>6 DEF TwoChildren
<1>12. UnderRoots(N, 1..n, R)
  <2> DEFINE Lost == {x \in 1..n : \A k \in DOMAIN R : x \notin Nodes(N, R[k])}
  <2> SUFFICES ASSUME Lost # {} PROVE FALSE
    BY DEF UnderRoots
  <2> DEFINE F == {x..n : x \in Lost}
  <2>1. F # {} /\ F \in SUBSET SUBSET D /\ IsFiniteSet(D)
    BY <1>5
  <2>2. PICK X \in F : \A Y \in F : Y \subseteq X => Y = X
    <3> HIDE DEF F, D
    <3> QED
      BY <2>1, LeastSet
  <2>3. PICK x \in Lost : X = x..n
    OBVIOUS
  <2>4. x \in 1..n /\ \A k \in DOMAIN R : x \notin Nodes(N, R[k])
    OBVIOUS
  <2>5. ASSUME NEW y \in Lost PROVE y <= x
    <3>1. y \in 1..n /\ y..n \in F
      OBVIOUS
    <3>2. y..n \subseteq X => y..n = X
      BY <2>2, <3>1
    <3>3. ASSUME y > x PROVE FALSE
      <4>1. y..n \subseteq x..n /\ x \in x..n /\ x \notin y..n
        BY <2>4, <3>1, <3>3
      <4> QED
        BY <2>3, <3>2, <4>1
    <3> QED
      BY <2>4, <3>1, <3>3
  <2>6. CASE \E y \in 1..n : x \in Children(N, y)
    <3>1. PICK y \in 1..n : x \in Children(N, y)
      BY <2>6
    <3>2. y > x
      BY <3>1, <2>4, <1>6
    <3>3. y \notin Lost
      BY <2>4, <2>5, <3>2
    <3>4. PICK k \in DOMAIN R : y \in Nodes(N, R[k])
      BY <3>3
    <3>5. R[k] \in DOMAIN N
      BY <1>3, <1>4
    <3>6. ClosedIn(N, Nodes(N, R[k]))
      BY <1>8, <3>5, NodesFacts
    <3>7. x \in Nodes(N, R[k])
      BY <3>1, <3>4, <3>6 DEF ClosedIn
    <3> QED
      BY <2>4, <3>7
  <2>7. CASE \E k \in DOMAIN R : R[k] = x
    <3>1. x \in DOMAIN N
      BY <1>3, <2>4
    <3>2. x \in Nodes(N, x)
      BY <1>8, <3>1, NodesFacts
    <3> QED
      BY <2>4, <2>7, <3>2
  <2> QED
    BY <1>7, <2>4, <2>6, <2>7
<1>13. Forest(N, 1..n, R)
  BY <1>3, <1>8, <1>9, <1>10, <1>11, <1>12 DEF Forest
<1> QED
  BY <1>1, <1>2, <1>3, <1>13

-----------------------------------------------------------------------------
(* The steps of push_negations.                                            *)
Objects(N) ==
  /\ \E T : N \in Seq(T)
  /\ \A x \in DOMAIN N : IsObject(N[x])

LEMMA SeqFacts ==
  ASSUME NEW N, Objects(N)
  PROVE  /\ Len(N) \in Nat /\ DOMAIN N = 1..Len(N) /\ Len(N) + 1 \notin DOMAIN N
         /\ IsFiniteSet(DOMAIN N)
<1>1. PICK T : N \in Seq(T)
  BY DEF Objects
<1>2. Len(N) \in Nat /\ DOMAIN N = 1..Len(N) /\ Len(N) + 1 \notin DOMAIN N
  BY <1>1
<1>3. IsFiniteSet(1..Len(N))
  BY <1>2, FS_Interval
<1> QED
  BY <1>2, <1>3

IsMap(f, D) == f = [x \in D |-> f[x]]

(* A function on an interval is a sequence of its values.                  *)
LEMMA FcnSeq ==
  ASSUME NEW n \in Nat, NEW f, IsMap(f, 1..n)
  PROVE  (\E T : f \in Seq(T)) /\ Len(f) = n
<1> DEFINE T == {f[x] : x \in 1..n}
<1>1. \A x \in 1..n : f[x] \in T
  OBVIOUS
<1> HIDE DEF T
<1>2. f \in [1..n -> T]
  BY <1>1 DEF IsMap
<1>3. f \in Seq(T) /\ Len(f) = n
  BY <1>2
<1> QED
  BY <1>3

Extended(F, o, M) == M = Append(F, o)
Longer(N, F, o, M) ==
  /\ DOMAIN M = DOMAIN N \cup {Len(N) + 1}
  /\ M[Len(N) + 1] = o
  /\ \A x \in DOMAIN N : M[x] = F[x]
OfObjects(F, D) == \A x \in D : IsObject(F[x])

LEMMA ObjectAppended ==
  ASSUME NEW N, Objects(N), NEW F, IsMap(F, DOMAIN N), NEW o, NEW M, Extended(F, o, M),
         OfObjects(F, DOMAIN N), IsObject(o)
  PROVE  Objects(M) /\ Longer(N, F, o, M)
<1>1. Len(N) \in Nat /\ DOMAIN N = 1..Len(N)
  BY SeqFacts
<1>2. PICK n : n = Len(N)
  OBVIOUS
<1>3. PICK T : F \in Seq(T) /\ Len(F) = n
  <2>1. n \in Nat /\ IsMap(F, 1..n)
    BY <1>1, <1>2
  <2> QED
    BY <2>1, FcnSeq
<1>4. F \in Seq(T \cup {o})
  BY <1>3
<1>5. M \in Seq(T \cup {o}) /\ Len(M) = n + 1
  BY <1>1, <1>2, <1>3, <1>4 DEF Extended
<1>6. /\ M[n + 1] = o
      /\ \A x \in 1..n : M[x] = F[x]
  BY <1>1, <1>2, <1>3, <1>4 DEF Extended
<1>7. DOMAIN M = 1..(n + 1) /\ 1..(n + 1) = 1..n \cup {n + 1}
  BY <1>1, <1>2, <1>5
<1>8. \A x \in DOMAIN M : IsObject(M[x])
  BY <1>1, <1>2, <1>6, <1>7 DEF OfObjects
<1> QED
  BY <1>1, <1>2, <1>5, <1>6, <1>7, <1>8 DEF Objects, Longer

MorganHeap(N, s, l, n) ==
  Append([N EXCEPT ![s].type = Dual(N[l].type), ![s].right = n, ![l].type = "not", ![l].right = 0],
         [N[l] EXCEPT !.type = "not", !.left = N[l].right, !.right = 0])

(* A record, changed.                                                      *)
Changed(o, type, right, p) == p = [o EXCEPT !.type = type, !.right = right]
Negation(o, p) == p = [o EXCEPT !.type = "not", !.left = o.right, !.right = 0]

LEMMA ChangedObject ==
  ASSUME NEW o, IsObject(o), NEW type \in {"not", "and", "or"}, NEW right,
         NEW p, Changed(o, type, right, p)
  PROVE  IsObject(p) /\ p.type = type /\ p.right = right /\ p.left = o.left
BY DEF IsObject, Changed

LEMMA NewObject ==
  ASSUME NEW o, IsObject(o),
         NEW p, Negation(o, p)
  PROVE  IsObject(p) /\ p.type = "not" /\ p.left = o.right
BY DEF IsObject, Negation

ChangedObjects(N, s, st, sr, l, lt, lr, F) ==
  F = [N EXCEPT ![s].type = st, ![s].right = sr, ![l].type = lt, ![l].right = lr]

LEMMA ChangedTwo ==
  ASSUME NEW N, NEW s \in DOMAIN N, NEW l \in DOMAIN N, s # l, IsMap(N, DOMAIN N),
         NEW st, NEW sr, NEW lt, NEW lr,
         NEW F, ChangedObjects(N, s, st, sr, l, lt, lr, F)
  PROVE  /\ IsMap(F, DOMAIN N)
         /\ Changed(N[s], st, sr, F[s])
         /\ Changed(N[l], lt, lr, F[l])
         /\ \A y \in DOMAIN N \ {s, l} : F[y] = N[y]
<1>1. PICK G1 : G1 = [N EXCEPT ![s].type = st]
  OBVIOUS
<1>2. PICK G2 : G2 = [G1 EXCEPT ![s].right = sr]
  OBVIOUS
<1>3. PICK G3 : G3 = [G2 EXCEPT ![l].type = lt]
  OBVIOUS
<1>4. PICK G4 : G4 = [G3 EXCEPT ![l].right = lr]
  OBVIOUS
<1>5. F = G4
  BY <1>1, <1>2, <1>3, <1>4 DEF ChangedObjects
<1>6. /\ IsMap(G1, DOMAIN N)
      /\ G1[s] = [N[s] EXCEPT !.type = st]
      /\ \A y \in DOMAIN N \ {s} : G1[y] = N[y]
  BY <1>1 DEF IsMap
<1>7. /\ IsMap(G2, DOMAIN N)
      /\ G2[s] = [G1[s] EXCEPT !.right = sr]
      /\ \A y \in DOMAIN N \ {s} : G2[y] = N[y]
  BY <1>2, <1>6 DEF IsMap
<1>8. /\ IsMap(G3, DOMAIN N)
      /\ G3[l] = [N[l] EXCEPT !.type = lt]
      /\ \A y \in DOMAIN N \ {l} : G3[y] = G2[y]
  BY <1>3, <1>7 DEF IsMap
<1>9. /\ IsMap(G4, DOMAIN N)
      /\ G4[l] = [G3[l] EXCEPT !.right = lr]
      /\ \A y \in DOMAIN N \ {l} : G4[y] = G2[y]
  BY <1>4, <1>8 DEF IsMap
<1>10. Changed(N[s], st, sr, G4[s])
  BY <1>6, <1>7, <1>9 DEF Changed
<1>11. Changed(N[l], lt, lr, G4[l])
  BY <1>7, <1>8, <1>9 DEF Changed
<1>12. \A y \in DOMAIN N \ {s, l} : G4[y] = N[y]
  BY <1>7, <1>9
<1>13. IsMap(G4, DOMAIN N)
  BY <1>9
<1> QED
  BY <1>5, <1>10, <1>11, <1>12, <1>13

LEMMA MorganStep ==
  ASSUME NEW N, Objects(N), NEW s \in DOMAIN N, NEW l \in DOMAIN N, s # l,
         N[s].type = "not", N[s].left = l, N[l].type \in {"and", "or"},
         NEW n, n = Len(N) + 1, NEW M, M = MorganHeap(N, s, l, n)
  PROVE  Morgan(N, M, s, l, n) /\ Objects(M)
<1>1. PICK o : o = [N[l] EXCEPT !.type = "not", !.left = N[l].right, !.right = 0]
  OBVIOUS
<1>2. PICK F : F = [N EXCEPT ![s].type = Dual(N[l].type), ![s].right = n,
                             ![l].type = "not", ![l].right = 0]
  OBVIOUS
<1>3. Extended(F, o, M)
  BY <1>1, <1>2 DEF MorganHeap, Extended
<1>4. IsMap(N, DOMAIN N)
  BY DEF Objects, IsMap
<1>5. /\ IsMap(F, DOMAIN N)
      /\ Changed(N[s], Dual(N[l].type), n, F[s])
      /\ Changed(N[l], "not", 0, F[l])
      /\ \A y \in DOMAIN N \ {s, l} : F[y] = N[y]
  <2>1. ChangedObjects(N, s, Dual(N[l].type), n, l, "not", 0, F)
    BY <1>2 DEF ChangedObjects
  <2> QED
    BY <1>4, <2>1, ChangedTwo
<1>6. IsObject(N[s]) /\ IsObject(N[l])
  BY DEF Objects
<1>7. IsObject(o) /\ o.type = "not" /\ o.left = N[l].right
  <2>1. Negation(N[l], o)
    BY <1>1 DEF Negation
  <2> QED
    BY <1>6, <2>1, NewObject
<1>8. IsObject(F[s]) /\ F[s].type = Dual(N[l].type) /\ F[s].right = n /\ F[s].left = l
  <2>1. Dual(N[l].type) \in {"not", "and", "or"}
    BY DEF Dual
  <2> QED
    BY <1>5, <1>6, <2>1, ChangedObject
<1>9. IsObject(F[l]) /\ F[l].type = "not" /\ F[l].left = N[l].left
  BY <1>5, <1>6, ChangedObject
<1>10. OfObjects(F, DOMAIN N)
  BY <1>5, <1>8, <1>9 DEF Objects, OfObjects
<1>11. /\ Objects(M)
       /\ DOMAIN M = DOMAIN N \cup {n}
       /\ M[n] = o
       /\ \A x \in DOMAIN N : M[x] = F[x]
  <2>1. IsMap(F, DOMAIN N)
    BY <1>5
  <2>2. IsObject(o)
    BY <1>7
  <2>3. Objects(M) /\ Longer(N, F, o, M)
    BY <1>3, <1>10, <2>1, <2>2, ObjectAppended
  <2> QED
    BY <2>3 DEF Longer
<1>12. n \notin DOMAIN N
  BY SeqFacts
<1> QED
  BY <1>5, <1>7, <1>8, <1>9, <1>11, <1>12 DEF Morgan

DoubleHeap(N, s, g) == [N EXCEPT ![s] = N[g], ![g].type = "deadlock"]

LEMMA DoubleStep ==
  ASSUME NEW N, Objects(N), NEW s \in DOMAIN N, NEW ss \in DOMAIN N, NEW g \in DOMAIN N, s # g,
         N[s].type = "not", N[s].left = ss, N[ss].type = "not", N[ss].left = g,
         NEW M, M = DoubleHeap(N, s, g)
  PROVE  Double(N, M, s, ss, g) /\ Objects(M)
<1>1. IsMap(N, DOMAIN N)
  BY DEF Objects, IsMap
<1>2. PICK G : G = [N EXCEPT ![s] = N[g]]
  OBVIOUS
<1>3. M = [G EXCEPT ![g].type = "deadlock"]
  BY <1>2 DEF DoubleHeap
<1>4. /\ IsMap(G, DOMAIN N)
      /\ G[s] = N[g]
      /\ \A y \in DOMAIN N \ {s} : G[y] = N[y]
  BY <1>1, <1>2 DEF IsMap
<1>5. /\ IsMap(M, DOMAIN N)
      /\ M[g] = [N[g] EXCEPT !.type = "deadlock"]
      /\ \A y \in DOMAIN N \ {g} : M[y] = G[y]
  BY <1>3, <1>4 DEF IsMap
<1>6. IsObject(N[g]) /\ \A y \in DOMAIN N : IsObject(N[y])
  BY DEF Objects
<1>7. IsObject(M[g]) /\ M[g].type = "deadlock"
  BY <1>5, <1>6 DEF IsObject
<1>8. /\ M[s] = N[g]
      /\ \A y \in DOMAIN N \ {s, g} : M[y] = N[y]
  BY <1>4, <1>5
<1>9. \A y \in DOMAIN N : IsObject(M[y])
  BY <1>6, <1>7, <1>8
<1>10. /\ DOMAIN M = DOMAIN N
       /\ \E T : M \in Seq(T)
  <2>1. PICK n : n = Len(N)
    OBVIOUS
  <2>2. n \in Nat /\ DOMAIN N = 1..n
    BY <2>1, SeqFacts
  <2>3. IsMap(M, 1..n)
    BY <1>5, <2>2
  <2>4. \E T : M \in Seq(T)
    BY <2>2, <2>3, FcnSeq
  <2>5. DOMAIN M = DOMAIN N
    BY <2>2, <2>3 DEF IsMap
  <2> QED
    BY <2>4, <2>5
<1> QED
  BY <1>7, <1>8, <1>9, <1>10 DEF Double, Objects

-----------------------------------------------------------------------------
(* The calls to come: no object is below two of them, and each negation of  *)
(* the formula x that has to be rewritten is below one.                    *)
Bad(N, y) == N[y].type = "not" /\ N[N[y].left].type \notin {"place", "trans", "deadlock"}

Apart(N, t) == \A j, k \in DOMAIN t : j # k => Nodes(N, t[j]) \cap Nodes(N, t[k]) = {}

Covers(N, t, x) == \A y \in Nodes(N, x) : Bad(N, y) => \E k \in DOMAIN t : y \in Nodes(N, t[k])

(* Calls in the place of the first one.                                    *)
Next1(xs, t) == xs \o Tail(t)

LEMMA CallsFacts ==
  ASSUME NEW S, NEW T, NEW xs \in Seq(S), NEW t \in Seq(T), t # <<>>
  PROVE  /\ \A k \in DOMAIN Next1(xs, t) :
              \/ k \in DOMAIN xs /\ Next1(xs, t)[k] = xs[k]
              \/ \E j \in DOMAIN t : j # 1 /\ k = j - 1 + Len(xs) /\ Next1(xs, t)[k] = t[j]
         /\ \A k \in DOMAIN xs : k \in DOMAIN Next1(xs, t) /\ Next1(xs, t)[k] = xs[k]
         /\ \A j \in DOMAIN t : j # 1 =>
              \E k \in DOMAIN Next1(xs, t) : Next1(xs, t)[k] = t[j]
<1> DEFINE u == Next1(xs, t)
           m == Len(xs)
           n == Len(t)
<1>1. m \in Nat /\ n \in Nat /\ n >= 1
  OBVIOUS
<1>2. DOMAIN xs = 1..m /\ DOMAIN t = 1..n /\ DOMAIN u = 1..(m + n - 1)
  BY DEF Next1
<1>3. \A k \in 1..m : u[k] = xs[k]
  BY DEF Next1
<1>4. ASSUME NEW k \in 1..(m + n - 1), k > m PROVE u[k] = t[k - m + 1]
  BY <1>4 DEF Next1
<1> HIDE DEF u, m, n
<1>5. ASSUME NEW k \in DOMAIN u
      PROVE  \/ k \in DOMAIN xs /\ u[k] = xs[k]
             \/ \E j \in DOMAIN t : j # 1 /\ k = j - 1 + m /\ u[k] = t[j]
  <2>1. CASE k <= m
    BY <2>1, <1>1, <1>2, <1>3
  <2>2. CASE k > m
    <3>1. k - m + 1 \in 1..n /\ k - m + 1 # 1 /\ k = (k - m + 1) - 1 + m
      BY <2>2, <1>1, <1>2
    <3>2. u[k] = t[k - m + 1]
      BY <2>2, <1>2, <1>4
    <3> QED
      BY <3>1, <3>2, <1>2
  <2> QED
    BY <2>1, <2>2, <1>1, <1>2
<1>6. ASSUME NEW k \in DOMAIN xs PROVE k \in DOMAIN u /\ u[k] = xs[k]
  BY <1>1, <1>2, <1>3
<1>7. ASSUME NEW j \in DOMAIN t, j # 1 PROVE \E k \in DOMAIN u : u[k] = t[j]
  <2>1. PICK k : k = j - 1 + m
    OBVIOUS
  <2>2. k \in 1..(m + n - 1) /\ k > m /\ k - m + 1 = j
    BY <2>1, <1>1, <1>2, <1>7
  <2>3. u[k] = t[j]
    BY <2>2, <1>4
  <2> QED
    BY <2>2, <2>3, <1>2
<1> QED
  BY <1>5, <1>6, <1>7 DEF u, m

(* The new calls are below the first old one, or for new objects F; the     *)
(* other old ones are as they were.                                        *)
Within(N, M, t, xs, F) ==
  \A j \in DOMAIN xs : Nodes(M, xs[j]) \subseteq Nodes(N, t[1]) \cup F

Steady(N, M, B, t, F) ==
  \A k \in DOMAIN t : k # 1 =>
    t[k] \in B /\ Nodes(M, t[k]) = Nodes(N, t[k]) /\ Nodes(N, t[k]) \cap F = {}

LEMMA CallsStay ==
  ASSUME NEW N, NEW M, NEW A, NEW B, NEW t \in Seq(A), t # <<>>, Apart(N, t),
         NEW xs \in Seq(B), Apart(M, xs), NEW F,
         Within(N, M, t, xs, F), Steady(N, M, B, t, F)
  PROVE  Next1(xs, t) \in Seq(B) /\ Apart(M, Next1(xs, t))
<1> DEFINE u == Next1(xs, t)
<1>1. /\ \A k \in DOMAIN u :
           \/ k \in DOMAIN xs /\ u[k] = xs[k]
           \/ \E j \in DOMAIN t : j # 1 /\ k = j - 1 + Len(xs) /\ u[k] = t[j]
  BY CallsFacts
<1>2. u \in Seq(B)
  <2>1. u \in Seq(A \cup B)
    BY DEF Next1
  <2>2. \A k \in DOMAIN u : u[k] \in B
    BY <1>1 DEF Steady
  <2> HIDE DEF u
  <2> QED
    BY <2>1, <2>2
<1> HIDE DEF u
<1>3. ASSUME NEW i1 \in DOMAIN xs, NEW j \in DOMAIN t, j # 1
      PROVE  Nodes(M, xs[i1]) \cap Nodes(M, t[j]) = {}
  <2>1. 1 \in DOMAIN t
    OBVIOUS
  <2>2. Nodes(N, t[1]) \cap Nodes(N, t[j]) = {}
    BY <1>3, <2>1 DEF Apart
  <2> QED
    BY <1>3, <2>2 DEF Within, Steady
<1>4. ASSUME NEW j \in DOMAIN t, NEW k \in DOMAIN t, j # 1, k # 1, j # k
      PROVE  Nodes(M, t[j]) \cap Nodes(M, t[k]) = {}
  BY <1>4 DEF Apart, Steady
<1>5. ASSUME NEW j \in DOMAIN u, NEW k \in DOMAIN u, j # k
      PROVE  Nodes(M, u[j]) \cap Nodes(M, u[k]) = {}
  <2>1. CASE j \in DOMAIN xs /\ u[j] = xs[j] /\ k \in DOMAIN xs /\ u[k] = xs[k]
    BY <2>1, <1>5 DEF Apart
  <2>2. CASE j \in DOMAIN xs /\ u[j] = xs[j] /\ \E q \in DOMAIN t : q # 1 /\ u[k] = t[q]
    BY <2>2, <1>3
  <2>3. CASE k \in DOMAIN xs /\ u[k] = xs[k] /\ \E q \in DOMAIN t : q # 1 /\ u[j] = t[q]
    BY <2>3, <1>3
  <2>4. ASSUME NEW p \in DOMAIN t, NEW q \in DOMAIN t, p # 1, q # 1, u[j] = t[p], u[k] = t[q],
               j = p - 1 + Len(xs), k = q - 1 + Len(xs)
        PROVE  Nodes(M, u[j]) \cap Nodes(M, u[k]) = {}
    BY <2>4, <1>4, <1>5
  <2> QED
    BY <1>1, <2>1, <2>2, <2>3, <2>4
<1> QED
  BY <1>2, <1>5 DEF Apart, u

(* What has to be rewritten is below a new call or one that stays.         *)
Called(M, t, xs, x) ==
  \A y \in Nodes(M, x) : Bad(M, y) =>
    \/ \E j \in DOMAIN xs : y \in Nodes(M, xs[j])
    \/ \E k \in DOMAIN t : k # 1 /\ y \in Nodes(M, t[k])

LEMMA CallsCover ==
  ASSUME NEW M, NEW S, NEW T, NEW xs \in Seq(S), NEW t \in Seq(T), t # <<>>, NEW x,
         Called(M, t, xs, x)
  PROVE  Covers(M, Next1(xs, t), x)
<1> DEFINE u == Next1(xs, t)
<1>1. /\ \A k \in DOMAIN xs : k \in DOMAIN u /\ u[k] = xs[k]
      /\ \A j \in DOMAIN t : j # 1 => \E k \in DOMAIN u : u[k] = t[j]
  BY CallsFacts
<1> HIDE DEF u
<1> QED
  BY <1>1 DEF Covers, Called, u

(* The four cases of a call.                                               *)
LEMMA LiteralCalls ==
  ASSUME NEW N, NEW A, NEW R, Forest(N, A, R), NEW t \in Seq(A), t # <<>>, Apart(N, t),
         NEW x, Covers(N, t, x), NEW s, s = t[1],
         \/ N[s].type \in {"place", "trans", "deadlock"}
         \/ N[s].type = "not" /\ N[N[s].left].type \in {"place", "trans", "deadlock"}
  PROVE  Tail(t) \in Seq(A) /\ Apart(N, Tail(t)) /\ Covers(N, Tail(t), x)
<1>1. s \in A /\ Whole(N) /\ A \subseteq DOMAIN N
  BY DEF Forest
<1>2. ASSUME NEW y \in Nodes(N, s) PROVE ~ Bad(N, y)
  <2>1. CASE y = s
    BY <2>1 DEF Bad
  <2>2. CASE y # s
    <3>1. PICK z \in Children(N, s) : y \in Nodes(N, z)
      BY <1>1, <2>2, NodesSplit
    <3>2. N[s].type = "not" /\ z = N[s].left /\ N[z].type \in {"place", "trans", "deadlock"}
      BY <3>1 DEF Children
    <3>3. z \in DOMAIN N /\ Children(N, z) = {}
      BY <3>1, <3>2, <1>1 DEF Children, Whole, ClosedIn
    <3>4. ClosedIn(N, {z})
      BY <3>3 DEF ClosedIn
    <3>5. y = z
      BY <1>1, <3>1, <3>3, <3>4, NodesFacts
    <3> QED
      BY <3>2, <3>5 DEF Bad
  <2> QED
    BY <2>1, <2>2
<1>3. <<>> \in Seq(A) /\ Apart(N, <<>>)
  BY DEF Apart
<1>4. Next1(<<>>, t) = Tail(t)
  BY DEF Next1
<1>5. Tail(t) \in Seq(A) /\ Apart(N, Tail(t))
  <2>1. Next1(<<>>, t) \in Seq(A) /\ Apart(N, Next1(<<>>, t))
    <3>1. PICK e : e = <<>>
      OBVIOUS
    <3>2. e \in Seq(A) /\ Apart(N, e)
      BY <1>3, <3>1
    <3>3. Within(N, N, t, e, {}) /\ Steady(N, N, A, t, {})
      BY <3>1 DEF Within, Steady
    <3> QED
      BY <3>1, <3>2, <3>3, CallsStay
  <2> QED
    BY <1>4, <2>1
<1>6. Called(N, t, <<>>, x)
  BY <1>2 DEF Covers, Called
<1>7. Covers(N, Next1(<<>>, t), x)
  BY <1>3, <1>6, CallsCover
<1> QED
  BY <1>4, <1>5, <1>7

LEMMA TwoCalls ==
  ASSUME NEW B, NEW l \in B, NEW r \in B
  PROVE  /\ <<l, r>> \in Seq(B)
         /\ DOMAIN <<l, r>> = {1, 2} /\ <<l, r>>[1] = l /\ <<l, r>>[2] = r
OBVIOUS

LEMMA BranchCalls ==
  ASSUME NEW N, NEW A, NEW R, Forest(N, A, R), NEW t \in Seq(A), t # <<>>, Apart(N, t),
         NEW x, Covers(N, t, x), NEW s, s = t[1], N[s].type \in {"and", "or"},
         NEW u, u = Next1(<<N[s].left, N[s].right>>, t)
  PROVE  u \in Seq(A) /\ Apart(N, u) /\ Covers(N, u, x)
<1> DEFINE l == N[s].left
           r == N[s].right
<1>1. s \in A /\ Whole(N) /\ A \subseteq DOMAIN N /\ ClosedIn(N, A)
  BY DEF Forest
<1>2. Children(N, s) = {l, r}
  BY DEF Children
<1>3. l \in A /\ r \in A
  BY <1>1, <1>2 DEF ClosedIn
<1>4. l # r
  BY <1>1 DEF Forest, TwoChildren
<1>5. Nodes(N, l) \cap Nodes(N, r) = {}
  BY <1>1, <1>2, <1>4, Branches
<1>6. Nodes(N, l) \subseteq Nodes(N, s) /\ Nodes(N, r) \subseteq Nodes(N, s)
  <2>1. l \in Nodes(N, s) /\ r \in Nodes(N, s)
    BY <1>1, <1>2, NodesFacts DEF ClosedIn
  <2> QED
    BY <1>1, <2>1, SubTree
<1>7. PICK xs : xs = <<l, r>>
  OBVIOUS
<1>8. /\ xs \in Seq(A) /\ DOMAIN xs = {1, 2} /\ xs[1] = l /\ xs[2] = r
  BY <1>3, <1>7, TwoCalls
<1>9. Apart(N, xs)
  BY <1>5, <1>8 DEF Apart
<1>10. Within(N, N, t, xs, {}) /\ Steady(N, N, A, t, {})
  BY <1>6, <1>8 DEF Within, Steady
<1>11. ASSUME NEW y \in Nodes(N, x), Bad(N, y)
       PROVE  \/ \E j \in DOMAIN xs : y \in Nodes(N, xs[j])
              \/ \E k \in DOMAIN t : k # 1 /\ y \in Nodes(N, t[k])
  <2>1. PICK k \in DOMAIN t : y \in Nodes(N, t[k])
    BY <1>11 DEF Covers
  <2>2. CASE k = 1
    <3>1. y # s
      BY <1>11 DEF Bad
    <3>2. PICK z \in Children(N, s) : y \in Nodes(N, z)
      BY <1>1, <2>1, <2>2, <3>1, NodesSplit
    <3> QED
      BY <1>2, <1>8, <3>2
  <2> QED
    BY <2>1, <2>2
<1>12. u = Next1(xs, t)
  BY <1>7
<1>13. u \in Seq(A) /\ Apart(N, u)
  BY <1>8, <1>9, <1>10, <1>12, CallsStay
<1>14. Covers(N, u, x)
  <2>1. Called(N, t, xs, x)
    BY <1>11 DEF Called
  <2> QED
    BY <1>8, <1>12, <2>1, CallsCover
<1> QED
  BY <1>13, <1>14

LEMMA MorganCalls ==
  ASSUME NEW N, NEW M, NEW A, NEW R, Forest(N, A, R), NEW t \in Seq(A), t # <<>>, Apart(N, t),
         NEW x \in A, NEW s, s = t[1], NEW l, NEW n, Morgan(N, M, s, l, n), x # l, Covers(N, t, x),
         NEW u, u = Next1(<<l, n>>, t)
  PROVE  u \in Seq(A \cup {n}) /\ Apart(M, u) /\ Covers(M, u, x)
<1> DEFINE B == A \cup {n}
           a == N[l].left
           b == N[l].right
<1>1. s \in A /\ Whole(N) /\ A \subseteq DOMAIN N /\ ClosedIn(N, A)
  BY DEF Forest
<1>2. Forest(M, B, R) /\ Whole(M) /\ ClosedIn(M, B) /\ B \subseteq DOMAIN M
  <2>1. Forest(M, A \cup {n}, R)
    BY <1>1, MorganForest
  <2> QED
    BY <2>1 DEF Forest
<1>3. MorganFacts(N, M, A, s, l, n, a, b)
  BY <1>1, MorganChildren
<1>4. /\ l \in A /\ s # l /\ n \notin A
      /\ Children(N, s) = {l} /\ Children(M, s) = {l, n}
      /\ \A y \in DOMAIN N \ {s, l} : Children(M, y) = Children(N, y)
  BY <1>3 DEF MorganFacts
<1> HIDE DEF a, b
<1>5. PICK xs : xs = <<l, n>>
  OBVIOUS
<1>6. xs \in Seq(B) /\ DOMAIN xs = {1, 2} /\ xs[1] = l /\ xs[2] = n
  BY <1>4, <1>5, TwoCalls
<1>7. Nodes(M, l) \cap Nodes(M, n) = {}
  <2>1. s \in B /\ l \in Children(M, s) /\ n \in Children(M, s) /\ l # n
    BY <1>1, <1>4
  <2> QED
    BY <1>2, <2>1, Branches
<1>8. Nodes(M, l) \subseteq Nodes(N, s) \cup {n} /\ Nodes(M, n) \subseteq Nodes(N, s) \cup {n}
  <2>1. s \in DOMAIN M /\ s \in A
    BY <1>1, <1>2
  <2>2. l \in Nodes(M, s) /\ n \in Nodes(M, s)
    BY <1>2, <1>4, <2>1, NodesFacts DEF ClosedIn
  <2>3. Nodes(M, l) \subseteq Nodes(M, s) /\ Nodes(M, n) \subseteq Nodes(M, s)
    BY <1>2, <2>1, <2>2, SubTree
  <2>4. Nodes(M, s) \subseteq Nodes(N, s) \cup {n}
    BY <1>1, <1>4, MorganNodes
  <2> QED
    BY <2>3, <2>4
<1>9. s \in Nodes(N, s) /\ l \in Nodes(N, s)
  BY <1>1, <1>4, NodesFacts DEF ClosedIn
<1>10. ASSUME NEW k \in DOMAIN t, k # 1
       PROVE  t[k] \in A /\ Nodes(M, t[k]) = Nodes(N, t[k]) /\ Nodes(N, t[k]) \cap {n} = {}
  <2>1. PICK w : w = t[k]
    OBVIOUS
  <2>2. w \in A
    BY <2>1
  <2>3. Nodes(N, s) \cap Nodes(N, w) = {}
    BY <1>10, <2>1 DEF Apart
  <2>4. w \in Nodes(N, w) /\ Nodes(N, w) \subseteq A
    BY <1>1, <2>2, NodesFacts
  <2>5. w # l /\ s \notin Nodes(N, w)
    BY <1>9, <2>3, <2>4
  <2>6. Nodes(M, w) \subseteq Nodes(N, w) /\ Nodes(N, w) \subseteq Nodes(M, w)
    BY <1>1, <2>2, <2>5, MorganNodes
  <2> QED
    BY <1>4, <2>1, <2>2, <2>4, <2>6
<1>11. Apart(M, xs)
  BY <1>6, <1>7 DEF Apart
<1>12. Within(N, M, t, xs, {n}) /\ Steady(N, M, B, t, {n})
  BY <1>6, <1>8, <1>10 DEF Within, Steady
<1>13. ASSUME NEW y \in Nodes(M, x), Bad(M, y)
       PROVE  \/ \E j \in DOMAIN xs : y \in Nodes(M, xs[j])
              \/ \E k \in DOMAIN t : k # 1 /\ y \in Nodes(M, t[k])
  <2>1. y \in Nodes(N, x) \cup {n} /\ Nodes(N, x) \subseteq A
    <3>1. Nodes(M, x) \subseteq Nodes(N, x) \cup {n}
      BY <1>1, MorganNodes
    <3> QED
      BY <1>1, <3>1, ForestNodes
  <2>2. CASE y = n
    <3>1. n \in Nodes(M, n)
      BY <1>2, NodesFacts
    <3> QED
      BY <1>6, <2>2, <3>1
  <2>3. CASE y = l
    <3>1. l \in Nodes(M, l)
      BY <1>2, <1>4, NodesFacts
    <3> QED
      BY <1>6, <2>3, <3>1
  <2>4. CASE y = s
    BY <2>4, <1>13 DEF Bad, Morgan, Dual
  <2>5. CASE y \notin {n, l, s}
    <3>1. M[y] = N[y] /\ y \in A
      BY <1>1, <2>1, <2>5 DEF Morgan
    <3>2. Bad(N, y)
      <4> DEFINE z == N[y].left
      <4>1. N[y].type = "not" /\ M[z].type \notin {"place", "trans", "deadlock"}
        BY <1>13, <3>1 DEF Bad
      <4>2. z \in Children(N, y)
        BY <4>1 DEF Children
      <4>3. z \in A
        BY <1>1, <3>1, <4>2 DEF ClosedIn
      <4>4. z # l
        BY <1>1, <1>4, <2>5, <3>1, <4>2 DEF Forest, Single
      <4>5. CASE z = s
        <5>1. N[z].type = "not"
          BY <4>5 DEF Morgan
        <5> QED
          BY <4>1, <5>1 DEF Bad
      <4>6. CASE z # s
        <5>1. M[z] = N[z]
          BY <1>1, <4>3, <4>4, <4>6 DEF Morgan
        <5> QED
          BY <4>1, <5>1 DEF Bad
      <4> QED
        BY <4>5, <4>6
    <3>3. PICK k \in DOMAIN t : y \in Nodes(N, t[k])
      BY <2>1, <2>5, <3>2 DEF Covers
    <3>4. CASE k = 1
      <4>1. y \in Nodes(M, s)
        BY <1>1, <1>4, <3>3, <3>4, MorganNodes
      <4>2. PICK z \in Children(M, s) : y \in Nodes(M, z)
        BY <1>1, <1>2, <2>5, <4>1, NodesSplit
      <4> QED
        BY <1>4, <1>6, <4>2
    <3>5. CASE k # 1
      BY <1>10, <3>3, <3>5
    <3> QED
      BY <3>4, <3>5
  <2> QED
    BY <2>2, <2>3, <2>4, <2>5
<1>14. u = Next1(xs, t)
  BY <1>5
<1>15. u \in Seq(B) /\ Apart(M, u)
  <2> HIDE DEF B
  <2> QED
    BY <1>6, <1>11, <1>12, <1>14, CallsStay
<1>16. Covers(M, u, x)
  <2>1. Called(M, t, xs, x)
    BY <1>13 DEF Called
  <2> QED
    BY <1>6, <1>14, <2>1, CallsCover
<1> QED
  BY <1>15, <1>16

LEMMA DoubleCalls ==
  ASSUME NEW N, NEW M, NEW A, NEW R, Forest(N, A, R), NEW t \in Seq(A), t # <<>>, Apart(N, t),
         NEW s, s = t[1], NEW ss, NEW g, Double(N, M, s, ss, g),
         NEW B, B = A \ {ss, g}, NEW x \in B, Covers(N, t, x)
  PROVE  t \in Seq(B) /\ Apart(M, t) /\ Covers(M, t, x)
<1>1. s \in A /\ Whole(N) /\ A \subseteq DOMAIN N /\ ClosedIn(N, A) /\ 1 \in DOMAIN t
  BY DEF Forest
<1>2. DoubleFacts(N, M, A, s, ss, g)
  BY <1>1, DoubleChildren
<1>3. /\ ss \in A /\ g \in A /\ s # ss /\ s # g
      /\ Children(N, s) = {ss} /\ Children(N, ss) = {g}
  BY <1>2 DEF DoubleFacts
<1>4. s \in Nodes(N, s) /\ ss \in Nodes(N, s) /\ g \in Nodes(N, s)
  BY <1>1, <1>3, NodesFacts DEF ClosedIn
<1>5. ASSUME NEW k \in DOMAIN t PROVE t[k] \in B
  <2>1. CASE k = 1
    BY <1>1, <1>3, <2>1
  <2>2. CASE k # 1
    <3>1. PICK w : w = t[k]
      OBVIOUS
    <3>2. w \in A
      BY <3>1
    <3>3. Nodes(N, s) \cap Nodes(N, w) = {}
      BY <1>1, <2>2, <3>1 DEF Apart
    <3>4. w \in Nodes(N, w)
      BY <1>1, <3>2, NodesFacts
    <3> QED
      BY <1>4, <3>1, <3>2, <3>3, <3>4
  <2> QED
    BY <2>1, <2>2
<1>6. t \in Seq(B)
  BY <1>5
<1>7. \A w \in B : Nodes(M, w) = Nodes(N, w) \ {ss, g}
  BY <1>1, DoubleNodes
<1>8. Apart(M, t)
  BY <1>5, <1>7 DEF Apart
<1>9. ASSUME NEW y \in Nodes(M, x), Bad(M, y)
      PROVE  \E k \in DOMAIN t : y \in Nodes(M, t[k])
  <2>1. y \in Nodes(N, x) /\ y \notin {ss, g} /\ y \in A
    BY <1>7, ForestNodes
  <2>2. CASE y = s
    BY <1>1, <1>3, <1>4, <1>7, <2>2
  <2>3. CASE y # s
    <3>1. M[y] = N[y]
      BY <1>1, <2>1, <2>3 DEF Double
    <3>2. Bad(N, y)
      <4> DEFINE z == N[y].left
      <4>1. N[y].type = "not" /\ M[z].type \notin {"place", "trans", "deadlock"}
        BY <1>9, <3>1 DEF Bad
      <4>2. z \in Children(N, y)
        BY <4>1 DEF Children
      <4>3. z \in A
        BY <1>1, <2>1, <4>2 DEF ClosedIn
      <4>4. z # g
        BY <1>1, <1>3, <2>1, <4>2 DEF Forest, Single
      <4>5. CASE z = s
        <5>1. N[z].type = "not"
          BY <4>5 DEF Double
        <5> QED
          BY <4>1, <5>1 DEF Bad
      <4>6. CASE z # s
        <5>1. M[z] = N[z]
          BY <1>1, <4>3, <4>4, <4>6 DEF Double
        <5> QED
          BY <4>1, <5>1 DEF Bad
      <4> QED
        BY <4>5, <4>6
    <3>3. PICK k \in DOMAIN t : y \in Nodes(N, t[k])
      BY <2>1, <3>2 DEF Covers
    <3> QED
      BY <1>5, <1>7, <2>1, <3>3
  <2> QED
    BY <2>2, <2>3
<1>10. Covers(M, t, x)
  BY <1>9 DEF Covers
<1> QED
  BY <1>6, <1>8, <1>10

-----------------------------------------------------------------------------
(* The values of the formulas R in M are those in N.                       *)
Same(N, M, R) == \A k \in DOMAIN R : \A true : Value(M, R[k], true) <=> Value(N, R[k], true)

LEMMA MorganSame ==
  ASSUME NEW N, NEW M, NEW A, NEW R, NEW s \in A, NEW l, NEW n,
         Forest(N, A, R), Morgan(N, M, s, l, n)
  PROVE  Same(N, M, R)
<1> SUFFICES ASSUME NEW k \in DOMAIN R, NEW true
             PROVE  Value(M, R[k], true) <=> Value(N, R[k], true)
  BY DEF Same
<1>1. PICK r : r = R[k]
  OBVIOUS
<1>2. r \in A /\ r # l
  <2>1. l \in Children(N, s)
    BY DEF Morgan, Children
  <2>2. r \in A /\ r \notin Children(N, s)
    BY <1>1 DEF Forest, RootPointers
  <2> QED
    BY <2>1, <2>2
<1>3. PICK B : B = A \cup {n}
  OBVIOUS
<1>4. Forest(M, B, R) /\ r \in B
  BY <1>2, <1>3, MorganForest
<1>5. PICK V : Valued(N, A, V, true)
  BY ValuedExists
<1>6. PICK W : Valued(M, B, W, true) /\ \A x \in A \ {l} : x \in W <=> x \in V
  <2>1. Revalued(M, A \cup {n}, A, l, V, true)
    BY <1>5, MorganValued
  <2> QED
    BY <1>3, <2>1 DEF Revalued
<1>7. Value(N, r, true) <=> r \in V
  BY <1>2, <1>5, ValueFacts
<1>8. Value(M, r, true) <=> r \in W
  BY <1>4, <1>6, ValueFacts
<1> QED
  BY <1>1, <1>2, <1>6, <1>7, <1>8

LEMMA DoubleSame ==
  ASSUME NEW N, NEW M, NEW A, NEW R, NEW s \in A, NEW ss, NEW g,
         Forest(N, A, R), Double(N, M, s, ss, g)
  PROVE  Same(N, M, R)
<1> SUFFICES ASSUME NEW k \in DOMAIN R, NEW true
             PROVE  Value(M, R[k], true) <=> Value(N, R[k], true)
  BY DEF Same
<1>1. PICK r : r = R[k]
  OBVIOUS
<1>2. PICK B : B = A \ {ss, g}
  OBVIOUS
<1>3. Forest(M, B, R)
  BY <1>2, DoubleForest
<1>4. r \in B /\ r \in A /\ r \notin {ss, g}
  BY <1>1, <1>2, <1>3 DEF Forest, RootPointers
<1>5. PICK V : Valued(N, A, V, true)
  BY ValuedExists
<1>6. PICK W : W = V \ {ss, g}
  OBVIOUS
<1>7. Valued(M, B, W, true)
  BY <1>2, <1>5, <1>6, DoubleValued
<1>8. Value(N, r, true) <=> r \in V
  BY <1>4, <1>5, ValueFacts
<1>9. Value(M, r, true) <=> r \in W
  BY <1>3, <1>4, <1>7, ValueFacts
<1> QED
  BY <1>1, <1>4, <1>6, <1>8, <1>9

-----------------------------------------------------------------------------
(* The invariant of the verification.                                      *)
Heap == Objects(nodes) /\ freed \subseteq DOMAIN nodes /\ Forest(nodes, Allocated, roots)

Calls(x) == todo \in Seq(Allocated) /\ Apart(nodes, todo) /\ Covers(nodes, todo, x)

(* No atom appears that was not there.                                     *)
SameTrans(N, M) ==
  \A y \in DOMAIN M : M[y].type = "trans" =>
    \E z \in DOMAIN N : N[z].type = "trans" /\ N[z].trans = M[y].trans

(* A step of push_negations at work on the formula x.                      *)
LEMMA LiteralStep ==
  ASSUME Heap, NEW x, Calls(x), todo # <<>>, Literal(todo[1])
  PROVE  /\ Heap' /\ (Calls(x))' /\ Same(nodes, nodes', roots) /\ roots' = roots
         /\ SameTrans(nodes, nodes')
<1>1. UNCHANGED <<nodes, freed, roots>> /\ todo' = Tail(todo)
  BY DEF Literal, Return
<1>2. Same(nodes, nodes', roots) /\ SameTrans(nodes, nodes')
  BY <1>1 DEF Same, SameTrans
<1>3. Heap'
  BY <1>1 DEF Heap, Allocated
<1>4. PICK A : A = Allocated
  OBVIOUS
<1>5. PICK t : t = todo
  OBVIOUS
<1>6. PICK s : s = t[1]
  OBVIOUS
<1>7. \/ nodes[s].type \in {"place", "trans", "deadlock"}
      \/ nodes[s].type = "not" /\ nodes[nodes[s].left].type \in {"place", "trans", "deadlock"}
  BY <1>5, <1>6 DEF Literal, IsAtom, IsNot
<1>8. /\ Forest(nodes, A, roots) /\ t \in Seq(A) /\ t # <<>> /\ Apart(nodes, t)
      /\ Covers(nodes, t, x)
  BY <1>4, <1>5 DEF Heap, Calls
<1>9. Tail(t) \in Seq(A) /\ Apart(nodes, Tail(t)) /\ Covers(nodes, Tail(t), x)
  BY <1>6, <1>7, <1>8, LiteralCalls
<1>10. (Calls(x))'
  BY <1>1, <1>4, <1>5, <1>9 DEF Calls, Allocated
<1> QED
  BY <1>1, <1>2, <1>3, <1>10

LEMMA BranchStep ==
  ASSUME Heap, NEW x, Calls(x), todo # <<>>, Branch(todo[1])
  PROVE  /\ Heap' /\ (Calls(x))' /\ Same(nodes, nodes', roots) /\ roots' = roots
         /\ SameTrans(nodes, nodes')
<1>1. UNCHANGED <<nodes, freed, roots>>
  BY DEF Branch
<1>2. Same(nodes, nodes', roots) /\ SameTrans(nodes, nodes')
  BY <1>1 DEF Same, SameTrans
<1>3. Heap'
  BY <1>1 DEF Heap, Allocated
<1>4. PICK A : A = Allocated
  OBVIOUS
<1>5. PICK t : t = todo
  OBVIOUS
<1>6. PICK s : s = t[1]
  OBVIOUS
<1>7. PICK u : u = todo'
  OBVIOUS
<1>8. u = Next1(<<nodes[s].left, nodes[s].right>>, t) /\ nodes[s].type \in {"and", "or"}
  BY <1>5, <1>6, <1>7 DEF Branch, Call, Next1
<1>9. /\ Forest(nodes, A, roots) /\ t \in Seq(A) /\ t # <<>> /\ Apart(nodes, t)
      /\ Covers(nodes, t, x)
  BY <1>4, <1>5 DEF Heap, Calls
<1>10. u \in Seq(A) /\ Apart(nodes, u) /\ Covers(nodes, u, x)
  BY <1>6, <1>8, <1>9, BranchCalls
<1>11. (Calls(x))'
  BY <1>1, <1>4, <1>7, <1>10 DEF Calls, Allocated
<1> QED
  BY <1>1, <1>2, <1>3, <1>11

LEMMA DeMorganStep ==
  ASSUME Heap, NEW k \in DOMAIN roots, NEW x, x = roots[k], Calls(x), todo # <<>>, DeMorgan(todo[1])
  PROVE  /\ Heap' /\ (Calls(x))' /\ Same(nodes, nodes', roots) /\ roots' = roots
         /\ SameTrans(nodes, nodes')
<1>1. freed' = freed /\ roots' = roots
  BY DEF DeMorgan
<1>2. PICK N : N = nodes
  OBVIOUS
<1>3. PICK M : M = nodes'
  OBVIOUS
<1>4. PICK A : A = Allocated
  OBVIOUS
<1>5. PICK t : t = todo
  OBVIOUS
<1>6. PICK s : s = t[1]
  OBVIOUS
<1>7. PICK l : l = N[s].left
  OBVIOUS
<1>8. PICK n : n = Len(N) + 1
  OBVIOUS
<1>9. PICK R : R = roots
  OBVIOUS
<1>10. /\ N[s].type = "not" /\ N[l].type \in {"and", "or"}
       /\ M = MorganHeap(N, s, l, n)
  BY <1>2, <1>3, <1>5, <1>6, <1>7, <1>8 DEF DeMorgan, MorganHeap, IsNot
<1>11. PICK u : u = todo'
  OBVIOUS
<1>12. u = Next1(<<l, n>>, t)
  BY <1>2, <1>5, <1>6, <1>7, <1>8, <1>11 DEF DeMorgan, Call, Next1
<1>13. /\ Forest(N, A, R) /\ t \in Seq(A) /\ t # <<>> /\ Apart(N, t)
       /\ Covers(N, t, x) /\ Objects(N)
  BY <1>2, <1>4, <1>5, <1>9 DEF Heap, Calls
<1>14. s \in A /\ Whole(N) /\ A \subseteq DOMAIN N /\ ClosedIn(N, A)
  BY <1>6, <1>13 DEF Forest
<1>15. l \in Children(N, s)
  BY <1>7, <1>10 DEF Children
<1>16. l \in A
  BY <1>14, <1>15 DEF ClosedIn
<1>17. s # l
  BY <1>13, <1>14, <1>15, <1>16, NoLoops, NodesFacts
<1>18. Morgan(N, M, s, l, n) /\ Objects(M)
  BY <1>7, <1>8, <1>10, <1>13, <1>14, <1>16, <1>17, MorganStep
<1>19. x \in A /\ x # l
  BY <1>9, <1>13, <1>14, <1>15 DEF Forest, RootPointers
<1>20. PICK B : B = A \cup {n}
  OBVIOUS
<1>21. Forest(M, B, R)
  BY <1>13, <1>14, <1>18, <1>20, MorganForest
<1>22. u \in Seq(B) /\ Apart(M, u) /\ Covers(M, u, x)
  BY <1>6, <1>12, <1>13, <1>18, <1>19, <1>20, MorganCalls
<1>23. Same(N, M, R)
  BY <1>13, <1>14, <1>18, MorganSame
<1>24. Allocated' = B /\ freed' \subseteq DOMAIN nodes'
  <2>1. DOMAIN M = DOMAIN N \cup {n} /\ n \notin DOMAIN N
    BY <1>18 DEF Morgan
  <2>2. freed \subseteq DOMAIN N
    BY <1>2 DEF Heap
  <2>3. A = DOMAIN N \ freed
    BY <1>2, <1>4 DEF Allocated
  <2>4. Allocated' = DOMAIN M \ freed
    BY <1>1, <1>3 DEF Allocated
  <2> QED
    BY <1>1, <1>3, <1>20, <2>1, <2>2, <2>3, <2>4
<1>25. Heap'
  BY <1>1, <1>3, <1>9, <1>18, <1>21, <1>24 DEF Heap
<1>26. (Calls(x))'
  BY <1>3, <1>11, <1>22, <1>24 DEF Calls
<1>27. SameTrans(N, M)
  BY <1>18 DEF Morgan, Dual, SameTrans
<1> QED
  BY <1>1, <1>2, <1>3, <1>9, <1>23, <1>25, <1>26, <1>27

LEMMA DoubleNegationStep ==
  ASSUME Heap, NEW k \in DOMAIN roots, NEW x, x = roots[k], Calls(x), todo # <<>>,
         DoubleNegation(todo[1])
  PROVE  /\ Heap' /\ (Calls(x))' /\ Same(nodes, nodes', roots) /\ roots' = roots
         /\ SameTrans(nodes, nodes')
<1>1. roots' = roots /\ todo' = todo
  BY DEF DoubleNegation
<1>2. PICK N : N = nodes
  OBVIOUS
<1>3. PICK M : M = nodes'
  OBVIOUS
<1>4. PICK A : A = Allocated
  OBVIOUS
<1>5. PICK t : t = todo
  OBVIOUS
<1>6. PICK s : s = t[1]
  OBVIOUS
<1>7. PICK ss : ss = N[s].left
  OBVIOUS
<1>8. PICK g : g = N[ss].left
  OBVIOUS
<1>9. PICK R : R = roots
  OBVIOUS
<1>10. /\ N[s].type = "not" /\ N[ss].type = "not"
       /\ M = DoubleHeap(N, s, g)
       /\ freed' = freed \cup Nodes(M, ss)
  BY <1>2, <1>3, <1>5, <1>6, <1>7, <1>8 DEF DoubleNegation, IsNot, DoubleHeap
<1>11. /\ Forest(N, A, R) /\ t \in Seq(A) /\ t # <<>> /\ Apart(N, t)
       /\ Covers(N, t, x) /\ Objects(N)
  BY <1>2, <1>4, <1>5, <1>9 DEF Heap, Calls
<1>12. s \in A /\ Whole(N) /\ A \subseteq DOMAIN N /\ ClosedIn(N, A)
  BY <1>6, <1>11 DEF Forest
<1>13. ss \in Children(N, s) /\ g \in Children(N, ss)
  BY <1>7, <1>8, <1>10 DEF Children
<1>14. ss \in A
  BY <1>12, <1>13 DEF ClosedIn
<1>15. g \in A
  BY <1>12, <1>13, <1>14 DEF ClosedIn
<1>16. s # g
  <2>1. s \notin Nodes(N, ss)
    BY <1>11, <1>12, <1>13, NoLoops
  <2>2. ss \in DOMAIN N
    BY <1>12, <1>14
  <2>3. ss \in Nodes(N, ss) /\ ClosedIn(N, Nodes(N, ss))
    BY <1>12, <2>2, NodesFacts
  <2>4. g \in Nodes(N, ss)
    BY <1>13, <2>3 DEF ClosedIn
  <2> QED
    BY <2>1, <2>4
<1>17. Double(N, M, s, ss, g) /\ Objects(M)
  <2>1. s \in DOMAIN N /\ ss \in DOMAIN N /\ g \in DOMAIN N
    BY <1>12, <1>14, <1>15
  <2> QED
    BY <1>7, <1>8, <1>10, <1>11, <1>16, <2>1, DoubleStep
<1>18. PICK B : B = A \ {ss, g}
  OBVIOUS
<1>19. Forest(M, B, R)
  BY <1>11, <1>12, <1>17, <1>18, DoubleForest
<1>20. x \in B
  BY <1>9, <1>19 DEF Forest, RootPointers
<1>21. t \in Seq(B) /\ Apart(M, t) /\ Covers(M, t, x)
  BY <1>6, <1>11, <1>17, <1>18, <1>20, DoubleCalls
<1>22. Same(N, M, R)
  BY <1>11, <1>12, <1>17, DoubleSame
<1>23. ss \in Nodes(M, ss) /\ g \in Nodes(M, ss) /\ Nodes(M, ss) \subseteq {ss, g}
  BY <1>11, <1>12, <1>17, DoubleDeletes
<1>24. Allocated' = B /\ freed' \subseteq DOMAIN nodes'
  <2>1. DOMAIN M = DOMAIN N
    BY <1>17 DEF Double
  <2>2. freed \subseteq DOMAIN N
    BY <1>2 DEF Heap
  <2>3. A = DOMAIN N \ freed
    BY <1>2, <1>4 DEF Allocated
  <2>4. Allocated' = DOMAIN M \ freed'
    BY <1>3 DEF Allocated
  <2> QED
    BY <1>3, <1>10, <1>12, <1>14, <1>15, <1>18, <1>23, <2>1, <2>2, <2>3, <2>4
<1>25. Heap'
  BY <1>1, <1>3, <1>9, <1>17, <1>19, <1>24 DEF Heap
<1>26. (Calls(x))'
  BY <1>1, <1>3, <1>5, <1>21, <1>24 DEF Calls
<1>27. SameTrans(N, M)
  BY <1>12, <1>15, <1>17 DEF Double, SameTrans
<1> QED
  BY <1>1, <1>2, <1>3, <1>9, <1>22, <1>25, <1>26, <1>27

Meaning ==
  \A k \in DOMAIN roots : \A true :
    Value(nodes, roots[k], true) <=> Value(loaded.nodes, loaded.roots[k], true)

TreeInv ==
  /\ Heap
  /\ IsFiniteSet(DOMAIN roots)
  /\ phase # "encode" => todo = <<>>
  /\ phase = "encode" => i \in DOMAIN roots /\ Calls(roots[i])
  /\ phase # "end" => DOMAIN specs = DOMAIN roots
  /\ phase = "end" => Allocated = {}
  /\ Meaning

LEMMA TreeInit == VerifyInit => TreeInv
<1> SUFFICES ASSUME VerifyInit PROVE TreeInv
  OBVIOUS
<1>1. PICK p : p = loaded
  OBVIOUS
<1>2. IsSpecification(p)
  BY <1>1, SpecificationsAssumption DEF VerifyInit
<1>3. /\ nodes = p.nodes /\ roots = p.roots /\ freed = {} /\ todo = <<>> /\ phase = "unfold"
      /\ DOMAIN specs = DOMAIN roots
  BY <1>1 DEF VerifyInit
<1>4. Allocated = DOMAIN p.nodes
  BY <1>3 DEF Allocated
<1>5. Forest(p.nodes, DOMAIN p.nodes, p.roots)
  BY <1>2, SpecificationForest
<1>6. /\ p.roots \in Seq(DOMAIN p.nodes)
      /\ Objects(p.nodes)
  BY <1>2, SpecificationSeq DEF Objects
<1>7. IsFiniteSet(DOMAIN p.roots)
  <2>1. Len(p.roots) \in Nat /\ DOMAIN p.roots = 1..Len(p.roots)
    BY <1>6
  <2> QED
    BY <2>1, FS_Interval
<1>8. Heap
  BY <1>3, <1>4, <1>5, <1>6 DEF Heap
<1>9. Meaning
  BY <1>1, <1>3 DEF Meaning
<1> QED
  BY <1>3, <1>7, <1>8, <1>9 DEF TreeInv

LEMMA TreePush ==
  ASSUME TreeInv, Normalise
  PROVE  TreeInv'
<1>1. /\ phase = "encode" /\ phase' = "encode" /\ i' = i /\ specs' = specs /\ loaded' = loaded
      /\ todo # <<>>
  BY DEF Normalise, PushNegations, checker
<1>2. /\ Heap /\ IsFiniteSet(DOMAIN roots) /\ i \in DOMAIN roots /\ DOMAIN specs = DOMAIN roots
      /\ Meaning
  BY <1>1 DEF TreeInv
<1>3. PICK k : k = i
  OBVIOUS
<1>4. PICK x : x = roots[k]
  OBVIOUS
<1>5. Calls(x)
  BY <1>1, <1>3, <1>4 DEF TreeInv
<1>6. Head(todo) = todo[1]
  <2>1. todo \in Seq(Allocated)
    BY <1>5 DEF Calls
  <2> QED
    BY <1>1, <2>1
<1>7. \/ Literal(todo[1]) \/ Branch(todo[1]) \/ DoubleNegation(todo[1]) \/ DeMorgan(todo[1])
  BY <1>6 DEF Normalise, PushNegations
<1>8. Heap' /\ (Calls(x))' /\ Same(nodes, nodes', roots) /\ roots' = roots
  BY <1>1, <1>2, <1>3, <1>4, <1>5, <1>7, LiteralStep, BranchStep, DoubleNegationStep, DeMorganStep
<1>9. Meaning'
  BY <1>1, <1>2, <1>8 DEF Meaning, Same
<1>10. (i \in DOMAIN roots /\ Calls(roots[i]))'
  <2>1. x = roots'[i']
    BY <1>1, <1>3, <1>4, <1>8
  <2> QED
    BY <1>1, <1>2, <1>8, <2>1 DEF Calls
<1> QED
  BY <1>1, <1>2, <1>8, <1>9, <1>10 DEF TreeInv

(* A node for the formula that a verification takes up.                    *)
LEMMA OneCall ==
  ASSUME NEW N, NEW A, NEW x \in A
  PROVE  <<x>> \in Seq(A) /\ Apart(N, <<x>>) /\ Covers(N, <<x>>, x)
<1>1. <<x>> \in Seq(A) /\ DOMAIN <<x>> = {1} /\ <<x>>[1] = x
  OBVIOUS
<1> QED
  BY <1>1 DEF Apart, Covers

LEMMA TreeBegin ==
  ASSUME TreeInv, Begin
  PROVE  TreeInv'
<1>1. /\ UNCHANGED <<nodes, freed, roots, loaded>> /\ i' = i
      /\ phase = "verify" /\ i \in DOMAIN specs /\ todo' = <<roots[i]>> /\ phase' = "encode"
      /\ DOMAIN specs' = DOMAIN specs
  BY DEF Begin
<1>2. Heap /\ IsFiniteSet(DOMAIN roots) /\ DOMAIN specs = DOMAIN roots /\ Meaning
  BY <1>1 DEF TreeInv
<1>3. Heap' /\ Meaning'
  BY <1>1, <1>2 DEF Heap, Meaning, Allocated
<1>4. PICK x : x = roots[i]
  OBVIOUS
<1>5. PICK A : A = Allocated
  OBVIOUS
<1>6. x \in A
  BY <1>1, <1>2, <1>4, <1>5 DEF Heap, Forest, RootPointers
<1>7. <<x>> \in Seq(A) /\ Apart(nodes, <<x>>) /\ Covers(nodes, <<x>>, x)
  BY <1>6, OneCall
<1>8. (Calls(roots[i]))'
  BY <1>1, <1>4, <1>5, <1>7 DEF Calls, Allocated
<1> QED
  BY <1>1, <1>2, <1>3, <1>8 DEF TreeInv

(* The actions that leave the trees alone.                                 *)
LEMMA TreeRest ==
  ASSUME TreeInv, UNCHANGED <<tree, loaded>>, phase # "encode" \/ todo = <<>>,
         phase' # "encode", phase' # "end", phase # "end", DOMAIN specs' = DOMAIN specs
  PROVE  TreeInv'
<1>1. UNCHANGED <<nodes, freed, roots, todo, loaded>>
  BY DEF tree
<1>2. Heap' /\ Meaning'
  BY <1>1 DEF Heap, Meaning, Allocated, TreeInv
<1>3. todo = <<>>
  BY DEF TreeInv
<1> QED
  BY <1>1, <1>2, <1>3 DEF TreeInv

LEMMA TreeDestroy ==
  ASSUME TreeInv, Destroy
  PROVE  TreeInv'
<1>1. /\ phase = "print" /\ phase' = "end" /\ UNCHANGED <<nodes, todo, loaded>>
      /\ roots' = <<>>
      /\ freed' = freed \cup UNION {Nodes(nodes, roots[k]) : k \in DOMAIN roots}
  BY DEF Destroy
<1>2. Heap
  BY DEF TreeInv
<1>3. UNION {Nodes(nodes, roots[k]) : k \in DOMAIN roots} = Allocated
  <2>1. ASSUME NEW k \in DOMAIN roots PROVE Nodes(nodes, roots[k]) \subseteq Allocated
    <3>1. PICK A : A = Allocated
      OBVIOUS
    <3>2. PICK r : r = roots[k]
      OBVIOUS
    <3>3. Forest(nodes, A, roots) /\ r \in A
      BY <1>2, <3>1, <3>2 DEF Heap, Forest, RootPointers
    <3>4. Nodes(nodes, r) \subseteq A
      BY <3>3, ForestNodes
    <3> QED
      BY <3>1, <3>2, <3>4
  <2>2. ASSUME NEW x \in Allocated PROVE \E k \in DOMAIN roots : x \in Nodes(nodes, roots[k])
    BY <1>2 DEF Heap, Forest, UnderRoots
  <2> QED
    BY <2>1, <2>2
<1>4. freed' = DOMAIN nodes
  BY <1>1, <1>2, <1>3 DEF Allocated, Heap
<1>5. Allocated' = {}
  BY <1>1, <1>4 DEF Allocated
<1>6. Forest(nodes, {}, <<>>)
  <2>1. DOMAIN <<>> = {}
    OBVIOUS
  <2> QED
    BY <1>2, <2>1 DEF Heap, Forest, ClosedIn, Single, RootPointers, TwoChildren, UnderRoots
<1>7. Heap'
  BY <1>1, <1>2, <1>4, <1>5, <1>6 DEF Heap
<1>8. DOMAIN roots' = {} /\ IsFiniteSet(DOMAIN roots')
  <2>1. DOMAIN roots' = {}
    BY <1>1
  <2> QED
    BY <2>1, FS_EmptySet
<1>9. Meaning'
  BY <1>8 DEF Meaning
<1>10. todo' = <<>>
  BY <1>1 DEF TreeInv
<1> QED
  BY <1>1, <1>5, <1>7, <1>8, <1>9, <1>10 DEF TreeInv

LEMMA TreeSame ==
  ASSUME TreeInv, UNCHANGED <<tree, checker>>
  PROVE  TreeInv'
<1>1. UNCHANGED <<nodes, freed, roots, todo, loaded, specs, phase, i>>
  BY DEF tree, checker
<1>2. Heap' /\ Meaning'
  BY <1>1 DEF Heap, Meaning, Allocated, TreeInv
<1>3. (Calls(roots[i]))' <=> Calls(roots[i])
  BY <1>1 DEF Calls, Allocated
<1> QED
  BY <1>1, <1>2, <1>3 DEF TreeInv, Allocated

LEMMA TreeNext == TreeInv /\ [VerifyNext]_all => TreeInv'
<1> SUFFICES ASSUME TreeInv, [VerifyNext]_all PROVE TreeInv'
  OBVIOUS
<1>1. CASE UnfoldStep
  BY <1>1, TreeSame DEF UnfoldStep
<1>2. CASE Partial
  BY <1>2, TreeRest DEF Partial
<1>3. CASE Final
  BY <1>3, TreeRest DEF Final
<1>4. CASE SkipSolved
  BY <1>4, TreeRest DEF SkipSolved
<1>5. CASE Reject
  <2>1. DOMAIN specs' = DOMAIN specs
    BY <1>5 DEF Reject
  <2> QED
    BY <1>5, <2>1, TreeRest DEF Reject
<1>6. CASE Begin
  BY <1>6, TreeBegin
<1>7. CASE Normalise
  BY <1>7, TreePush
<1>8. CASE RejectPlace
  <2>1. DOMAIN specs' = DOMAIN specs
    BY <1>8 DEF RejectPlace
  <2> QED
    BY <1>8, <2>1, TreeRest DEF RejectPlace
<1>9. CASE Answer
  <2>1. DOMAIN specs' = DOMAIN specs
    BY <1>9 DEF Answer
  <2> QED
    BY <1>9, <2>1, TreeRest DEF Answer
<1>10. CASE EndVerify
  <2>1. phase' \in {"print", "unfold"}
    BY <1>10 DEF EndVerify
  <2> QED
    BY <1>10, <2>1, TreeRest DEF EndVerify
<1>11. CASE Destroy
  BY <1>11, TreeDestroy
<1>12. CASE UNCHANGED all
  BY <1>12, TreeSame DEF all
<1> QED
  BY <1>1, <1>2, <1>3, <1>4, <1>5, <1>6, <1>7, <1>8, <1>9, <1>10, <1>11, <1>12 DEF VerifyNext

LEMMA TreeAlways == VerifySpec => []TreeInv
<1> QED
  BY TreeInit, TreeNext, PTL DEF VerifySpec

(* No object is shared, leaked or reachable after its deletion.             *)
LEMMA TreeOwnership == TreeInv => Ownership
<1> SUFFICES ASSUME TreeInv PROVE Ownership
  OBVIOUS
<1>1. PICK A : A = Allocated
  OBVIOUS
<1>2. PICK N : N = nodes
  OBVIOUS
<1>3. PICK R : R = roots
  OBVIOUS
<1>4. Forest(N, A, R) /\ IsFiniteSet(DOMAIN R)
  BY <1>1, <1>2, <1>3 DEF TreeInv, Heap
<1>5. \A x \in A : Owned(N, A, R, x)
  BY <1>4, ForestOwned
<1>6. /\ \A x \in A : Children(N, x) \subseteq A
      /\ \A x \in A : N[x].type \in {"and", "or"} => N[x].left # N[x].right
      /\ \A k \in DOMAIN R : R[k] \in A
  BY <1>4 DEF Forest, ClosedIn, TwoChildren, RootPointers
<1> QED
  BY <1>1, <1>2, <1>3, <1>5, <1>6 DEF Ownership, Owned

LEMMA TreeNormal == TreeInv => Normalised
<1> SUFFICES ASSUME TreeInv, phase = "encode", todo = <<>> PROVE IsNormal(roots[i])
  BY DEF Normalised, TreeInv, Meaning
<1>1. Covers(nodes, todo, roots[i])
  BY DEF TreeInv, Calls
<1>2. DOMAIN todo = {}
  OBVIOUS
<1>3. \A y \in Nodes(nodes, roots[i]) : ~ Bad(nodes, y)
  BY <1>1, <1>2 DEF Covers
<1> QED
  BY <1>3 DEF Bad, IsNormal, IsNot, IsAtom

(* Whatever the specification and the order of the calls: between two calls *)
(* each object that is not deleted has one owner, and no deleted object is *)
(* reachable.                                                              *)
THEOREM OwnedOnce == VerifySpec => []Ownership
<1> QED
  BY TreeAlways, TreeOwnership, PTL

(* push_negations keeps the meaning of every formula, and when the encoding *)
(* looks at one it has negations before atoms only.                        *)
THEOREM MeaningKept == VerifySpec => []Normalised
<1> QED
  BY TreeAlways, TreeNormal, PTL

(* The destructors delete every object the parser and push_negations made.  *)
THEOREM NothingLeaks == VerifySpec => [](phase = "end" => Allocated = {})
<1>1. TreeInv => (phase = "end" => Allocated = {})
  BY DEF TreeInv
<1> QED
  BY <1>1, TreeAlways, PTL

-----------------------------------------------------------------------------
(* What Minisat is taken to answer: Satisfiable says that the clauses have *)
(* a model.                                                                *)

Literals(V) == [v : V, pos : BOOLEAN]

(* l holds where the variables of A are true.                              *)
Holds(A, l) == IF l.pos THEN l.v \in A ELSE l.v \notin A

Models(A, G) == \A d \in G : \E l \in d : Holds(A, l)

HasModel(V, G) == \E A \in SUBSET V : Models(A, G)

LEMMA NegFacts ==
  ASSUME NEW V, NEW l \in Literals(V)
  PROVE  /\ Neg(l) \in Literals(V) /\ Neg(l).v = l.v /\ Neg(l) # l /\ Neg(Neg(l)) = l
         /\ \A A : Holds(A, Neg(l)) <=> ~ Holds(A, l)
         /\ \A k \in Literals(V) : k.v = l.v => k = l \/ k = Neg(l)
<1>1. PICK x \in V, b \in BOOLEAN : l = [v |-> x, pos |-> b]
  BY DEF Literals
<1>2. Neg(l) = [v |-> x, pos |-> ~ b]
  BY <1>1 DEF Neg
<1>3. Neg(l) \in Literals(V) /\ Neg(l).v = l.v /\ Neg(l) # l /\ Neg(Neg(l)) = l
  BY <1>1, <1>2 DEF Literals, Neg
<1>4. ASSUME NEW A PROVE Holds(A, Neg(l)) <=> ~ Holds(A, l)
  <2>1. CASE b = TRUE
    <3>1. l = [v |-> x, pos |-> TRUE] /\ Neg(l) = [v |-> x, pos |-> FALSE]
      BY <1>1, <1>2, <2>1
    <3> QED
      BY <3>1 DEF Holds
  <2>2. CASE b = FALSE
    <3>1. l = [v |-> x, pos |-> FALSE] /\ Neg(l) = [v |-> x, pos |-> TRUE]
      BY <1>1, <1>2, <2>2
    <3> QED
      BY <3>1 DEF Holds
  <2> QED
    BY <2>1, <2>2
<1>5. ASSUME NEW k \in Literals(V), k.v = l.v PROVE k = l \/ k = Neg(l)
  <2>1. PICK y \in V, a \in BOOLEAN : k = [v |-> y, pos |-> a]
    BY DEF Literals
  <2>2. y = x
    BY <1>1, <1>5, <2>1
  <2>3. a = b \/ a = ~ b
    OBVIOUS
  <2> QED
    BY <1>1, <1>2, <2>1, <2>2, <2>3
<1> QED
  BY <1>3, <1>4, <1>5

(* With l decided, the clauses lose l and what denies it.                  *)
LEMMA AssignFacts ==
  ASSUME NEW V, NEW l \in Literals(V), NEW G \in SUBSET SUBSET Literals(V),
         NEW H, H = Assign(G, l)
  PROVE  /\ UNION H \subseteq (UNION G) \ {l, Neg(l)}
         /\ \A A \in SUBSET V : Holds(A, l) => (Models(A, G) <=> Models(A, H))
         /\ HasModel(V, H) => HasModel(V, G)
<1>1. H = {c \ {Neg(l)} : c \in {d \in G : l \notin d}}
  BY DEF Assign
<1>2. UNION H \subseteq (UNION G) \ {l, Neg(l)}
  BY <1>1
<1>3. ASSUME NEW A \in SUBSET V, Holds(A, l), Models(A, G) PROVE Models(A, H)
  <2> SUFFICES ASSUME NEW c \in G, l \notin c PROVE \E k \in c \ {Neg(l)} : Holds(A, k)
    BY <1>1 DEF Models
  <2>1. PICK k \in c : Holds(A, k)
    BY <1>3 DEF Models
  <2>2. ~ Holds(A, Neg(l))
    BY <1>3, NegFacts
  <2> QED
    BY <2>1, <2>2
<1>4. ASSUME NEW A \in SUBSET V, Holds(A, l), Models(A, H) PROVE Models(A, G)
  <2> SUFFICES ASSUME NEW c \in G PROVE \E k \in c : Holds(A, k)
    BY DEF Models
  <2>1. CASE l \in c
    BY <1>4, <2>1
  <2>2. CASE l \notin c
    <3>1. c \ {Neg(l)} \in H
      BY <1>1, <2>2
    <3>2. \E k \in c \ {Neg(l)} : Holds(A, k)
      BY <1>4, <3>1 DEF Models
    <3> QED
      BY <3>2
  <2> QED
    BY <2>1, <2>2
<1>5. ASSUME HasModel(V, H) PROVE HasModel(V, G)
  <2>1. PICK A \in SUBSET V : Models(A, H)
    BY <1>5 DEF HasModel
  <2>2. PICK x \in V, b \in BOOLEAN : l = [v |-> x, pos |-> b]
    BY DEF Literals
  <2>3. PICK B \in SUBSET V : B = IF b THEN A \cup {x} ELSE A \ {x}
    BY <2>2
  <2>4. Holds(B, l)
    BY <2>2, <2>3 DEF Holds
  <2>5. ASSUME NEW k \in UNION H, Holds(A, k) PROVE Holds(B, k)
    <3>1. k \in Literals(V) /\ k # l /\ k # Neg(l)
      BY <1>2
    <3>2. k.v # x
      BY <2>2, <3>1, NegFacts
    <3>3. k.v \in A <=> k.v \in B
      BY <2>3, <3>2
    <3> QED
      BY <2>5, <3>3 DEF Holds
  <2>6. Models(B, H)
    BY <2>1, <2>5 DEF Models
  <2>7. Models(B, G)
    BY <1>4, <2>4, <2>6
  <2> QED
    BY <2>7 DEF HasModel
<1> QED
  BY <1>2, <1>3, <1>4, <1>5

(* A shortest clause, and what the search goes on with.                    *)
Shortest(G) == CHOOSE d \in G : \A k \in G : Cardinality(d) <= Cardinality(k)
Some(c)     == CHOOSE k \in c : TRUE

Subproblems(G) ==
  {Assign(G, Some(Shortest(G)))}
    \cup (IF Cardinality(Shortest(G)) > 1 THEN {Assign(G, Neg(Some(Shortest(G))))} ELSE {})

LEMMA ShortestIn ==
  ASSUME NEW G, G # {}, \A d \in G : IsFiniteSet(d)
  PROVE  Shortest(G) \in G
<1>1. PICK N : N = {Cardinality(d) : d \in G}
  OBVIOUS
<1>2. N \in SUBSET Nat /\ N # {}
  BY <1>1, FS_CardinalityType
<1>3. PICK n \in N : \A m \in N : ~ (m < n)
  <2>1. PICK n \in N : \A m \in N : <<m, n>> \notin OpToRel(<, Nat)
    BY <1>2, WFMin, NatLessThanWellFounded
  <2> QED
    BY <1>2, <2>1 DEF OpToRel
<1>4. PICK d \in G : n = Cardinality(d)
  BY <1>1
<1>5. \A k \in G : Cardinality(d) <= Cardinality(k)
  <2> SUFFICES ASSUME NEW k \in G PROVE Cardinality(d) <= Cardinality(k)
    OBVIOUS
  <2>1. Cardinality(k) \in N /\ Cardinality(k) \in Nat /\ n \in Nat
    BY <1>1, <1>2
  <2> QED
    BY <1>3, <1>4, <2>1
<1> QED
  BY <1>4, <1>5 DEF Shortest

LEMMA BranchFacts ==
  ASSUME NEW V, NEW G \in SUBSET SUBSET Literals(V), G # {}, {} \notin G,
         \A d \in G : IsFiniteSet(d)
  PROVE  /\ \E l \in UNION G : \A H \in Subproblems(G) : UNION H \subseteq (UNION G) \ {l}
         /\ HasModel(V, G) <=> \E H \in Subproblems(G) : HasModel(V, H)
<1>1. PICK c, l : c = Shortest(G) /\ l = Some(Shortest(G))
  OBVIOUS
<1>2. c \in G
  BY <1>1, ShortestIn
<1>3. l \in c
  BY <1>1, <1>2 DEF Some
<1>4. PICK m : m = Neg(l)
  OBVIOUS
<1>5. /\ l \in Literals(V) /\ m \in Literals(V) /\ Neg(m) = l
      /\ \A A : Holds(A, m) <=> ~ Holds(A, l)
  BY <1>2, <1>3, <1>4, NegFacts
<1>6. PICK H, K : H = Assign(G, l) /\ K = Assign(G, m)
  OBVIOUS
<1>7. Subproblems(G) = {H} \cup (IF Cardinality(c) > 1 THEN {K} ELSE {})
  BY <1>1, <1>4, <1>6 DEF Subproblems
<1>8. /\ UNION H \subseteq (UNION G) \ {l, m}
      /\ \A A \in SUBSET V : Holds(A, l) => (Models(A, G) <=> Models(A, H))
      /\ HasModel(V, H) => HasModel(V, G)
  BY <1>4, <1>5, <1>6, AssignFacts
<1>9. /\ UNION K \subseteq (UNION G) \ {m, l}
      /\ \A A \in SUBSET V : Holds(A, m) => (Models(A, G) <=> Models(A, K))
      /\ HasModel(V, K) => HasModel(V, G)
  BY <1>5, <1>6, AssignFacts
<1>10. \A X \in Subproblems(G) : UNION X \subseteq (UNION G) \ {l}
  BY <1>7, <1>8, <1>9
<1>11. l \in UNION G
  BY <1>2, <1>3
<1>12. ASSUME HasModel(V, G) PROVE \E X \in Subproblems(G) : HasModel(V, X)
  <2>1. PICK A \in SUBSET V : Models(A, G)
    BY <1>12 DEF HasModel
  <2>2. CASE Holds(A, l)
    BY <1>7, <1>8, <2>1, <2>2 DEF HasModel
  <2>3. CASE ~ Holds(A, l)
    <3>1. HasModel(V, K)
      BY <1>5, <1>9, <2>1, <2>3 DEF HasModel
    <3>2. PICK k \in c : Holds(A, k)
      BY <1>2, <2>1 DEF Models
    <3>3. k # l
      BY <2>3, <3>2
    <3>4. Cardinality(c) > 1
      <4>1. IsFiniteSet(c) /\ Cardinality(c) \in Nat
        BY <1>2, FS_CardinalityType
      <4>2. Cardinality(c) # 0
        BY <1>3, <4>1, FS_EmptySet
      <4>3. Cardinality(c) # 1
        BY <1>3, <3>2, <3>3, <4>1, FS_Singleton
      <4> QED
        BY <4>1, <4>2, <4>3
    <3> QED
      BY <1>7, <3>1, <3>4
  <2> QED
    BY <2>2, <2>3
<1>13. ASSUME NEW X \in Subproblems(G), HasModel(V, X) PROVE HasModel(V, G)
  BY <1>7, <1>8, <1>9, <1>13
<1> QED
  BY <1>10, <1>11, <1>12, <1>13

(* The recursive function of Satisfiable.                                  *)
Solving(g, G) ==
  IF {} \in G \/ G = {} THEN G = {} ELSE \E H \in Subproblems(G) : g[H]

Solves(F, g) == g = [G \in SUBSET SUBSET UNION F |-> Solving(g, G)]

LEMMA SatisfiableFcn ==
  ASSUME NEW F
  PROVE  Satisfiable(F) = (CHOOSE g : Solves(F, g))[F]
BY DEF Satisfiable, Solves, Solving, Subproblems, Shortest, Some

LEMMA SolvesAt ==
  ASSUME NEW F, NEW g, Solves(F, g), NEW G \in SUBSET SUBSET UNION F
  PROVE  g[G] = Solving(g, G)
BY DEF Solves

(* Such a function says whether there is a model.                          *)
LEMMA SolvesRight ==
  ASSUME NEW V, NEW F \in SUBSET SUBSET Literals(V), IsFiniteSet(UNION F),
         NEW g, Solves(F, g), NEW G0 \in SUBSET SUBSET UNION F
  PROVE  g[G0] <=> HasModel(V, G0)
<1> DEFINE Wrong == {U \in SUBSET UNION F : \E G \in SUBSET SUBSET U : ~ (g[G] <=> HasModel(V, G))}
<1> SUFFICES ASSUME ~ (g[G0] <=> HasModel(V, G0)) PROVE FALSE
  OBVIOUS
<1>1. PICK U \in Wrong : \A Y \in Wrong : Y \subseteq U => Y = U
  <2>1. UNION F \in Wrong
    OBVIOUS
  <2>2. Wrong \in SUBSET SUBSET UNION F /\ Wrong # {}
    BY <2>1
  <2> HIDE DEF Wrong
  <2> QED
    BY <2>2, LeastSet
<1>2. PICK G \in SUBSET SUBSET U : ~ (g[G] <=> HasModel(V, G))
  BY <1>1
<1>3. /\ U \in SUBSET UNION F /\ G \in SUBSET SUBSET UNION F
      /\ G \in SUBSET SUBSET Literals(V)
  BY <1>1, <1>2
<1>4. g[G] = Solving(g, G)
  BY <1>3, SolvesAt
<1>5. CASE {} \in G
  <2>1. ~ HasModel(V, G)
    BY <1>5 DEF HasModel, Models
  <2>2. ~ g[G]
    BY <1>4, <1>5 DEF Solving
  <2> QED
    BY <1>2, <2>1, <2>2
<1>6. CASE G = {}
  <2>1. HasModel(V, G)
    BY <1>6 DEF HasModel, Models
  <2>2. g[G]
    BY <1>4, <1>6 DEF Solving
  <2> QED
    BY <1>2, <2>1, <2>2
<1>7. CASE {} \notin G /\ G # {}
  <2>1. \A d \in G : IsFiniteSet(d)
    BY <1>3, FS_Subset
  <2>2. /\ \E l \in UNION G : \A H \in Subproblems(G) : UNION H \subseteq (UNION G) \ {l}
        /\ HasModel(V, G) <=> \E H \in Subproblems(G) : HasModel(V, H)
    BY <1>3, <1>7, <2>1, BranchFacts
  <2>3. PICK l \in UNION G : \A H \in Subproblems(G) : UNION H \subseteq (UNION G) \ {l}
    BY <2>2
  <2>4. g[G] <=> \E H \in Subproblems(G) : g[H]
    BY <1>4, <1>7 DEF Solving
  <2>5. ASSUME NEW H \in Subproblems(G) PROVE g[H] <=> HasModel(V, H)
    <3>1. PICK W : W = (UNION G) \ {l}
      OBVIOUS
    <3>2. H \in SUBSET SUBSET W /\ W \in SUBSET UNION F /\ W \subseteq U /\ W # U
      <4>1. UNION H \subseteq W
        BY <2>3, <3>1
      <4>2. l \in U /\ UNION G \subseteq U
        BY <1>2
      <4> QED
        BY <1>3, <3>1, <4>1, <4>2
    <3>3. W \notin Wrong
      BY <1>1, <3>2
    <3> QED
      BY <3>2, <3>3
  <2> QED
    BY <1>2, <2>2, <2>4, <2>5
<1> QED
  BY <1>5, <1>6, <1>7

(* There is one.                                                           *)
LEMMA SolvesExists ==
  ASSUME NEW V, NEW F \in SUBSET SUBSET Literals(V), IsFiniteSet(UNION F)
  PROVE  \E g : Solves(F, g)
<1>1. PICK g : g = [G \in SUBSET SUBSET UNION F |-> HasModel(V, G)]
  OBVIOUS
<1>2. ASSUME NEW G \in SUBSET SUBSET UNION F PROVE HasModel(V, G) = Solving(g, G)
  <2>1. G \in SUBSET SUBSET Literals(V) /\ \A d \in G : IsFiniteSet(d)
    BY FS_Subset
  <2>2. CASE {} \in G
    <3>1. ~ HasModel(V, G)
      BY <2>2 DEF HasModel, Models
    <3> QED
      BY <2>2, <3>1 DEF Solving, HasModel
  <2>3. CASE G = {}
    <3>1. HasModel(V, G)
      BY <2>3 DEF HasModel, Models
    <3> QED
      BY <2>3, <3>1 DEF Solving, HasModel
  <2>4. CASE {} \notin G /\ G # {}
    <3>1. /\ \E l \in UNION G : \A H \in Subproblems(G) : UNION H \subseteq (UNION G) \ {l}
          /\ HasModel(V, G) <=> \E H \in Subproblems(G) : HasModel(V, H)
      BY <2>1, <2>4, BranchFacts
    <3>2. HasModel(V, G) <=> \E H \in Subproblems(G) : HasModel(V, H)
      BY <3>1
    <3>3. \A H \in Subproblems(G) : H \in SUBSET SUBSET UNION F
      BY <3>1
    <3>4. \A H \in Subproblems(G) : g[H] = HasModel(V, H)
      BY <1>1, <3>3
    <3>5. HasModel(V, G) <=> \E H \in Subproblems(G) : g[H]
      BY <3>2, <3>4
    <3>6. Solving(g, G) = \E H \in Subproblems(G) : g[H]
      BY <2>4 DEF Solving
    <3> QED
      BY <3>5, <3>6 DEF HasModel
  <2> QED
    BY <2>2, <2>3, <2>4
<1>3. g = [G \in SUBSET SUBSET UNION F |-> Solving(g, G)]
  BY <1>1, <1>2
<1> QED
  BY <1>3 DEF Solves

LEMMA SatisfiableIff ==
  ASSUME NEW V, NEW F \in SUBSET SUBSET Literals(V), IsFiniteSet(UNION F)
  PROVE  Satisfiable(F) <=> HasModel(V, F)
<1>1. PICK g : g = CHOOSE f : Solves(F, f)
  OBVIOUS
<1>2. Solves(F, g)
  BY <1>1, SolvesExists
<1>3. F \in SUBSET SUBSET UNION F
  OBVIOUS
<1>4. g[F] <=> HasModel(V, F)
  BY <1>2, <1>3, SolvesRight
<1>5. Satisfiable(F) = g[F]
  BY <1>1, SatisfiableFcn
<1> QED
  BY <1>4, <1>5

(* When the clauses of the encoding hold where the variables of A are true. *)
LEMMA LitFacts ==
  ASSUME NEW A, NEW k, NEW x
  PROVE  /\ Holds(A, Lit(k, x)) <=> <<k, x>> \in A
         /\ Holds(A, Neg(Lit(k, x))) <=> <<k, x>> \notin A
<1>1. Lit(k, x) = [v |-> <<k, x>>, pos |-> TRUE]
  BY DEF Lit
<1>2. Neg(Lit(k, x)) = [v |-> <<k, x>>, pos |-> FALSE]
  <2>1. PICK y, b : y = <<k, x>> /\ b = TRUE /\ b \in BOOLEAN
    <3>1. TRUE \in BOOLEAN
      OBVIOUS
    <3> QED
      BY <3>1, Zenon
  <2>2. Lit(k, x) = [v |-> y, pos |-> b]
    BY <1>1, <2>1
  <2>3. Neg(Lit(k, x)) = [v |-> y, pos |-> ~ b]
    BY <2>2 DEF Neg
  <2> QED
    BY <2>1, <2>3
<1> QED
  BY <1>1, <1>2 DEF Holds

LEMMA PairHolds ==
  ASSUME NEW A, NEW a, NEW b
  PROVE  (\E l \in {a, b} : Holds(A, l)) <=> Holds(A, a) \/ Holds(A, b)
OBVIOUS

LEMMA CausalityModels ==
  ASSUME NEW A
  PROVE  Models(A, Causality) <=>
           \A e \in Live : \A f \in ImmPred(e) : <<"event", e>> \in A => <<"event", f>> \in A
<1>1. ASSUME NEW e, NEW f
      PROVE  (\E l \in {Neg(EventVar(e)), EventVar(f)} : Holds(A, l))
               <=> (<<"event", e>> \in A => <<"event", f>> \in A)
  <2>1. Holds(A, EventVar(f)) <=> <<"event", f>> \in A
    BY LitFacts DEF EventVar
  <2>2. Holds(A, Neg(EventVar(e))) <=> <<"event", e>> \notin A
    BY LitFacts DEF EventVar
  <2> QED
    BY <2>1, <2>2
<1>2. Models(A, Causality) <=>
        \A e \in Live : \A f \in ImmPred(e) :
          \E l \in {Neg(EventVar(e)), EventVar(f)} : Holds(A, l)
  <2>1. ASSUME NEW e \in Live, NEW f \in ImmPred(e)
        PROVE  {Neg(EventVar(e)), EventVar(f)} \in Causality
    BY DEF Causality
  <2>2. ASSUME NEW d \in Causality
        PROVE  \E e \in Live : \E f \in ImmPred(e) : d = {Neg(EventVar(e)), EventVar(f)}
    BY DEF Causality
  <2>3. ASSUME Models(A, Causality), NEW e \in Live, NEW f \in ImmPred(e)
        PROVE  \E l \in {Neg(EventVar(e)), EventVar(f)} : Holds(A, l)
    BY <2>1, <2>3 DEF Models
  <2>4. ASSUME \A e \in Live : \A f \in ImmPred(e) :
                 \E l \in {Neg(EventVar(e)), EventVar(f)} : Holds(A, l),
               NEW d \in Causality
        PROVE  \E l \in d : Holds(A, l)
    BY <2>2, <2>4
  <2> QED
    BY <2>3, <2>4 DEF Models
<1> QED
  BY <1>1, <1>2

(* The clauses that say which events occur.                                *)
Units(E) == {{EventVar(e)} : e \in E} \cup {{Neg(EventVar(e))} : e \in Live \ E}

LEMMA UnitsModels ==
  ASSUME NEW A, NEW E \in SUBSET Live
  PROVE  Models(A, Units(E)) <=> \A e \in Live : <<"event", e>> \in A <=> e \in E
<1>1. ASSUME NEW e
      PROVE  /\ (\E l \in {EventVar(e)} : Holds(A, l)) <=> <<"event", e>> \in A
             /\ (\E l \in {Neg(EventVar(e))} : Holds(A, l)) <=> <<"event", e>> \notin A
  <2>1. Holds(A, EventVar(e)) <=> <<"event", e>> \in A
    BY LitFacts DEF EventVar
  <2>2. Holds(A, Neg(EventVar(e))) <=> <<"event", e>> \notin A
    BY LitFacts DEF EventVar
  <2> QED
    BY <2>1, <2>2
<1>2. Models(A, Units(E)) <=>
        /\ \A e \in E : \E l \in {EventVar(e)} : Holds(A, l)
        /\ \A e \in Live \ E : \E l \in {Neg(EventVar(e))} : Holds(A, l)
  <2>1. /\ \A e \in E : {EventVar(e)} \in Units(E)
        /\ \A e \in Live \ E : {Neg(EventVar(e))} \in Units(E)
    BY DEF Units
  <2>2. ASSUME NEW d \in Units(E)
        PROVE  \/ \E e \in E : d = {EventVar(e)}
               \/ \E e \in Live \ E : d = {Neg(EventVar(e))}
    BY DEF Units
  <2>3. ASSUME Models(A, Units(E))
        PROVE  /\ \A e \in E : \E l \in {EventVar(e)} : Holds(A, l)
               /\ \A e \in Live \ E : \E l \in {Neg(EventVar(e))} : Holds(A, l)
    BY <2>1, <2>3 DEF Models
  <2>4. ASSUME \A e \in E : \E l \in {EventVar(e)} : Holds(A, l),
               \A e \in Live \ E : \E l \in {Neg(EventVar(e))} : Holds(A, l),
               NEW d \in Units(E)
        PROVE  \E l \in d : Holds(A, l)
    BY <2>2, <2>4
  <2> QED
    BY <2>3, <2>4 DEF Models
<1>3. Models(A, Units(E)) <=>
        /\ \A e \in E : <<"event", e>> \in A
        /\ \A e \in Live \ E : <<"event", e>> \notin A
  BY <1>1, <1>2
<1> QED
  BY <1>3

(* At most one event of S occurs, and c is taken if one does.              *)
OneTakes(A, S, c) ==
  /\ \A e, f \in S : e # f => ~ (<<"event", e>> \in A /\ <<"event", f>> \in A)
  /\ <<"cond", c>> \in A <=> \E e \in S : <<"event", e>> \in A

LEMMA TreeModels ==
  ASSUME NEW A, NEW S, NEW c
  PROVE  Models(A, AtMostOneTree({EventVar(e) : e \in S}, CondVar(c))) <=> OneTakes(A, S, c)
<1>1. PICK L, p : L = {EventVar(e) : e \in S} /\ p = CondVar(c)
  OBVIOUS
<1>2. /\ \A e \in S : Holds(A, EventVar(e)) <=> <<"event", e>> \in A
      /\ \A e \in S : Holds(A, Neg(EventVar(e))) <=> <<"event", e>> \notin A
      /\ Holds(A, p) <=> <<"cond", c>> \in A
      /\ Holds(A, Neg(p)) <=> <<"cond", c>> \notin A
  BY <1>1, LitFacts DEF EventVar, CondVar
<1>3. \A e, f \in S : EventVar(e) = EventVar(f) => e = f
  BY DEF EventVar, Lit
<1>4. Models(A, AtMostOneTree(L, p)) <=>
        /\ \A x \in {y \in L \X L : y[1] # y[2]} : \E l \in {Neg(x[1]), Neg(x[2])} : Holds(A, l)
        /\ \A q \in L : \E l \in {Neg(q), p} : Holds(A, l)
        /\ \E l \in {Neg(p)} \cup L : Holds(A, l)
  <2>1. PICK T : T = AtMostOneTree(L, p)
    OBVIOUS
  <2>2. /\ \A x \in {y \in L \X L : y[1] # y[2]} : {Neg(x[1]), Neg(x[2])} \in T
        /\ \A q \in L : {Neg(q), p} \in T
        /\ {Neg(p)} \cup L \in T
    BY <2>1 DEF AtMostOneTree
  <2>3. ASSUME NEW d \in T
        PROVE  \/ \E x \in {y \in L \X L : y[1] # y[2]} : d = {Neg(x[1]), Neg(x[2])}
               \/ \E q \in L : d = {Neg(q), p}
               \/ d = {Neg(p)} \cup L
    BY <2>1 DEF AtMostOneTree
  <2>4. ASSUME Models(A, T)
        PROVE  /\ \A x \in {y \in L \X L : y[1] # y[2]} :
                    \E l \in {Neg(x[1]), Neg(x[2])} : Holds(A, l)
               /\ \A q \in L : \E l \in {Neg(q), p} : Holds(A, l)
               /\ \E l \in {Neg(p)} \cup L : Holds(A, l)
    BY <2>2, <2>4 DEF Models
  <2>5. ASSUME \A x \in {y \in L \X L : y[1] # y[2]} :
                 \E l \in {Neg(x[1]), Neg(x[2])} : Holds(A, l),
               \A q \in L : \E l \in {Neg(q), p} : Holds(A, l),
               \E l \in {Neg(p)} \cup L : Holds(A, l)
        PROVE  Models(A, T)
    <3> SUFFICES ASSUME NEW d \in T PROVE \E l \in d : Holds(A, l)
      BY DEF Models
    <3> QED
      BY <2>3, <2>5
  <2> QED
    BY <2>1, <2>4, <2>5
<1>5. (\A x \in {y \in L \X L : y[1] # y[2]} : \E l \in {Neg(x[1]), Neg(x[2])} : Holds(A, l))
        <=> \A q, r \in L : q # r => Holds(A, Neg(q)) \/ Holds(A, Neg(r))
  <2>1. ASSUME NEW x \in L \X L
        PROVE  (\E l \in {Neg(x[1]), Neg(x[2])} : Holds(A, l))
                 <=> Holds(A, Neg(x[1])) \/ Holds(A, Neg(x[2]))
    BY PairHolds
  <2>2. ASSUME NEW q \in L, NEW r \in L, q # r,
               \A x \in {y \in L \X L : y[1] # y[2]} :
                 \E l \in {Neg(x[1]), Neg(x[2])} : Holds(A, l)
        PROVE  Holds(A, Neg(q)) \/ Holds(A, Neg(r))
    <3>1. PICK x \in L \X L : x = <<q, r>>
      OBVIOUS
    <3>2. x[1] = q /\ x[2] = r
      BY <3>1
    <3>3. \E l \in {Neg(x[1]), Neg(x[2])} : Holds(A, l)
      BY <2>2, <3>2
    <3> QED
      BY <2>1, <3>2, <3>3
  <2>3. ASSUME \A q, r \in L : q # r => Holds(A, Neg(q)) \/ Holds(A, Neg(r)),
               NEW x \in L \X L, x[1] # x[2]
        PROVE  \E l \in {Neg(x[1]), Neg(x[2])} : Holds(A, l)
    <3>1. Holds(A, Neg(x[1])) \/ Holds(A, Neg(x[2]))
      BY <2>3
    <3> QED
      BY <2>1, <3>1
  <2> QED
    BY <2>2, <2>3
<1>6. (\A q, r \in L : q # r => Holds(A, Neg(q)) \/ Holds(A, Neg(r)))
        <=> \A e, f \in S : e # f => ~ (<<"event", e>> \in A /\ <<"event", f>> \in A)
  <2>1. (\A q, r \in L : q # r => Holds(A, Neg(q)) \/ Holds(A, Neg(r)))
          <=> \A e, f \in S : EventVar(e) # EventVar(f)
                => Holds(A, Neg(EventVar(e))) \/ Holds(A, Neg(EventVar(f)))
    BY <1>1
  <2> QED
    BY <1>2, <1>3, <2>1
<1>7. (\A q \in L : \E l \in {Neg(q), p} : Holds(A, l))
        <=> \A e \in S : <<"event", e>> \in A => <<"cond", c>> \in A
  <2>1. (\A q \in L : \E l \in {Neg(q), p} : Holds(A, l))
          <=> \A e \in S : Holds(A, Neg(EventVar(e))) \/ Holds(A, p)
    BY <1>1
  <2> QED
    BY <1>2, <2>1
<1>8. (\E l \in {Neg(p)} \cup L : Holds(A, l))
        <=> (<<"cond", c>> \in A => \E e \in S : <<"event", e>> \in A)
  <2>1. (\E l \in {Neg(p)} \cup L : Holds(A, l))
          <=> Holds(A, Neg(p)) \/ \E e \in S : Holds(A, EventVar(e))
    BY <1>1
  <2> QED
    BY <1>2, <2>1
<1>9. Models(A, AtMostOneTree(L, p)) <=> OneTakes(A, S, c)
  BY <1>4, <1>5, <1>6, <1>7, <1>8 DEF OneTakes
<1> QED
  BY <1>1, <1>9

Takers(c) == Consumers(c) \cap NonCutoffs

LEMMA ConflictModels ==
  ASSUME NEW A
  PROVE  Models(A, SymConflict) <=>
           \A c \in DOMAIN conds : Contested(c) => OneTakes(A, Takers(c), c)
<1>1. Models(A, SymConflict) <=>
        \A c \in {d \in DOMAIN conds : Contested(d)} :
          Models(A, AtMostOneTree({EventVar(e) : e \in Takers(c)}, CondVar(c)))
  <2>1. ASSUME NEW c \in {d \in DOMAIN conds : Contested(d)}
        PROVE  AtMostOneTree({EventVar(e) : e \in Takers(c)}, CondVar(c)) \subseteq SymConflict
    BY DEF SymConflict, Takers
  <2>2. ASSUME NEW x \in SymConflict
        PROVE  \E c \in {d \in DOMAIN conds : Contested(d)} :
                 x \in AtMostOneTree({EventVar(e) : e \in Takers(c)}, CondVar(c))
    BY DEF SymConflict, Takers
  <2> QED
    BY <2>1, <2>2 DEF Models
<1>2. \A c : Models(A, AtMostOneTree({EventVar(e) : e \in Takers(c)}, CondVar(c)))
               <=> OneTakes(A, Takers(c), c)
  BY TreeModels
<1> QED
  BY <1>1, <1>2

(* The variables, and that there are finitely many literals.               *)
Variables == {"event", "cond"} \X (DOMAIN events \cup DOMAIN conds)

LEMMA LiteralsFinite ==
  ASSUME NEW V, IsFiniteSet(V)
  PROVE  IsFiniteSet(Literals(V))
<1>1. IsFiniteSet(BOOLEAN)
  <2>1. BOOLEAN = {TRUE} \cup {FALSE}
    OBVIOUS
  <2>2. IsFiniteSet({TRUE}) /\ IsFiniteSet({FALSE})
    BY FS_Singleton
  <2> QED
    BY <2>1, <2>2, FS_Union
<1>2. IsFiniteSet(V \X BOOLEAN)
  BY <1>1, FS_Product
<1>3. PICK f : f = [p \in V \X BOOLEAN |-> [v |-> p[1], pos |-> p[2]]]
  OBVIOUS
<1>4. ASSUME NEW l \in Literals(V) PROVE \E p \in V \X BOOLEAN : f[p] = l
  <2>1. PICK x \in V, b \in BOOLEAN : l = [v |-> x, pos |-> b]
    BY DEF Literals
  <2>2. <<x, b>> \in V \X BOOLEAN
    OBVIOUS
  <2>3. f[<<x, b>>] = l
    BY <1>3, <2>1, <2>2
  <2> QED
    BY <2>2, <2>3
<1>5. f \in [V \X BOOLEAN -> Literals(V)]
  BY <1>3 DEF Literals
<1>6. f \in Surjection(V \X BOOLEAN, Literals(V))
  BY <1>4, <1>5 DEF Surjection
<1> QED
  BY <1>2, <1>6, FS_Surjection

LEMMA ClausesTyped ==
  ASSUME TypeOK, NEW E \in SUBSET Live
  PROVE  Causality \cup SymConflict \cup Units(E) \in SUBSET SUBSET Literals(Variables)
<1>1. /\ \A e \in DOMAIN events : EventVar(e) \in Literals(Variables)
      /\ \A c \in DOMAIN conds : CondVar(c) \in Literals(Variables)
  BY DEF EventVar, CondVar, Lit, Literals, Variables
<1>2. /\ \A e \in DOMAIN events : Neg(EventVar(e)) \in Literals(Variables)
      /\ \A c \in DOMAIN conds : Neg(CondVar(c)) \in Literals(Variables)
  BY <1>1, NegFacts
<1>3. Live \subseteq DOMAIN events /\ \A c : Takers(c) \subseteq DOMAIN events
  BY DEF Live, NonCutoffs, Takers
<1>4. Units(E) \in SUBSET SUBSET Literals(Variables)
  BY <1>1, <1>2, <1>3 DEF Units
<1>5. ASSUME NEW c \in DOMAIN conds
      PROVE  AtMostOneTree({EventVar(e) : e \in Takers(c)}, CondVar(c))
               \in SUBSET SUBSET Literals(Variables)
  <2>1. PICK L, p : L = {EventVar(e) : e \in Takers(c)} /\ p = CondVar(c)
    OBVIOUS
  <2>2. /\ L \in SUBSET Literals(Variables) /\ p \in Literals(Variables)
        /\ \A q \in L : Neg(q) \in Literals(Variables)
        /\ Neg(p) \in Literals(Variables)
    BY <1>1, <1>2, <1>3, <2>1
  <2>3. AtMostOneTree(L, p) \in SUBSET SUBSET Literals(Variables)
    BY <2>2 DEF AtMostOneTree
  <2> QED
    BY <2>1, <2>3
<1>6. SymConflict \in SUBSET SUBSET Literals(Variables)
  <2>1. ASSUME NEW x \in SymConflict
        PROVE  \E c \in {d \in DOMAIN conds : Contested(d)} :
                 x \in AtMostOneTree({EventVar(e) : e \in Takers(c)}, CondVar(c))
    BY DEF SymConflict, Takers
  <2>2. ASSUME NEW x \in SymConflict PROVE x \in SUBSET Literals(Variables)
    <3>1. PICK c \in DOMAIN conds :
            x \in AtMostOneTree({EventVar(e) : e \in Takers(c)}, CondVar(c))
      BY <2>1
    <3> QED
      BY <1>5, <3>1
  <2> QED
    BY <2>2
<1>7. Causality \in SUBSET SUBSET Literals(Variables)
  <2>1. ASSUME NEW x \in Causality
        PROVE  \E e \in Live : \E f \in ImmPred(e) : x = {Neg(EventVar(e)), EventVar(f)}
    BY DEF Causality
  <2>2. \A e \in Live : ImmPred(e) \subseteq DOMAIN events
    <3> SUFFICES ASSUME NEW e \in Live, NEW c \in events[e].pre \cup events[e].cont
                 PROVE  conds[c].pre \in DOMAIN events
      BY DEF ImmPred
    <3>1. events[e] \in EventType
      BY <1>3, Elements
    <3>2. c \in DOMAIN conds
      BY <3>1 DEF EventType
    <3> QED
      BY <3>2, Elements DEF CondType
  <2>3. ASSUME NEW x \in Causality PROVE x \in SUBSET Literals(Variables)
    <3>1. PICK e \in Live : \E f \in ImmPred(e) : x = {Neg(EventVar(e)), EventVar(f)}
      BY <2>1
    <3>2. PICK f \in ImmPred(e) : x = {Neg(EventVar(e)), EventVar(f)}
      BY <3>1
    <3>3. e \in DOMAIN events /\ f \in DOMAIN events
      BY <1>3, <2>2
    <3> QED
      BY <1>1, <1>2, <3>2, <3>3
  <2> QED
    BY <2>3
<1>8. \A P, Q, R \in SUBSET SUBSET Literals(Variables) : P \cup Q \cup R \in SUBSET SUBSET Literals(Variables)
  OBVIOUS
<1> QED
  BY <1>4, <1>6, <1>7, <1>8

(* What the encoding rests on.                                             *)
Encodable == Recorded /\ OfPlainNets

LEMMA EncodableAlways == Spec => []Encodable
<1>1. Recorded /\ OfPlainNets => Encodable
  BY DEF Encodable
<1> QED
  BY <1>1, RecordedAlways, OfPlainNetsAlways, PTL

(* The events that another one needs are live or e0.                       *)
LEMMA NeedsLive ==
  ASSUME Encodable, IsPlain(net), NEW e \in DOMAIN events,
         NEW c \in events[e].pre \cup events[e].cont
  PROVE  conds[c].pre \in NonCutoffs
<1>1. IInv /\ Foundation /\ CutoffEvents /\ OfPlainNets /\ Grounded
  BY DEF Encodable, Recorded, Foundation
<1>3. PICK h \in DOMAIN hists : hists[h].e = e
  BY <1>1 DEF Grounded
<1>4. h \in DOMAIN hists
  OBVIOUS
<1>5. PICK g \in hists[h].ecl : ecs[g].c = c
  BY <1>1, <1>3, <1>4 DEF IInv, Linked
<1>6. g \in DOMAIN ecs
  BY <1>1, <1>4, Elements DEF IInv, HistType
<1>7. conds[c].pre = hists[ecs[g].h].e /\ ecs[g].hs = {ecs[g].h}
  BY <1>1, <1>5, <1>6 DEF OfPlainNets
<1>8. PICK x : x = ecs[g].h
  OBVIOUS
<1>9. hists[x].corr = 0
  BY <1>1, <1>6, <1>7, <1>8 DEF IInv, EcsOfNonCutoffs
<1>10. x \in DOMAIN hists
  <2>1. ecs[g].hs \in SUBSET DOMAIN hists
    BY <1>1, <1>6, Elements DEF IInv, EcType
  <2> QED
    BY <1>7, <1>8, <2>1
<1>11. x \notin queue
  <2> SUFFICES ASSUME x \in queue PROVE FALSE
    OBVIOUS
  <2>1. hists[x].corr = x
    BY <1>1 DEF IInv, Discipline
  <2>2. x # 0
    BY <1>1, <1>10, Elements DEF IInv
  <2> QED
    BY <1>9, <2>1, <2>2
<1>12. hists[x].e \in DOMAIN events
  BY <1>1, <1>10, Elements DEF IInv, HistType
<1>13. ~ events[hists[x].e].iscutoff
  BY <1>1, <1>9, <1>10, <1>11, <1>12 DEF CutoffEvents, Popped
<1> QED
  BY <1>7, <1>8, <1>12, <1>13 DEF NonCutoffs

(* Without read arcs the order of the events is that of their numbers.     *)
LEMMA PlainAcyclic ==
  ASSUME Encodable, IsPlain(net), NEW E \in SUBSET DOMAIN events
  PROVE  Acyclic(E)
<1>1. IInv /\ Labelled /\ Causal
  BY DEF Encodable, Recorded, Foundation, IInv
<1>2. DOMAIN events = 1..Len(events) /\ Len(events) \in Nat
  BY <1>1, Elements DEF IInv
<1>3. IsFiniteSet(E)
  <2>1. IsFiniteSet(1..Len(events))
    BY <1>2, FS_Interval
  <2> QED
    BY <1>2, <2>1, FS_Subset
<1>4. \A x \in DOMAIN events : events[x].cont = {}
  <2> SUFFICES ASSUME NEW x \in DOMAIN events PROVE events[x].cont = {}
    OBVIOUS
  <2>1. x # 1 => net.cont[events[x].ft] = {}
    BY <1>1, LabelFacts DEF IsPlain
  <2> QED
    BY <1>1, <2>1, LabelFacts
<1>5. \A x, y \in DOMAIN events : Before(x, y) => x < y
  <2> SUFFICES ASSUME NEW x \in DOMAIN events, NEW y \in DOMAIN events, Before(x, y)
               PROVE  x < y
    OBVIOUS
  <2>1. PICK c \in EventPost(x) : c \in events[y].pre
    BY <1>4 DEF Before
  <2> QED
    BY <1>1, <2>1 DEF Causal, EventPost
<1>6. ASSUME NEW f \in E, NEW x \in Below(E, f) PROVE x <= f
  <2>1. PICK S \in SUBSET E : S = {y \in E : y <= f}
    OBVIOUS
  <2>2. f \in S
    BY <1>2, <2>1
  <2>3. Initial(S, E)
    <3> SUFFICES ASSUME NEW y \in E, NEW z \in S, Before(y, z) PROVE y \in S
      BY DEF Initial
    <3>1. y < z /\ z <= f /\ y \in Nat /\ z \in Nat /\ f \in Nat
      BY <1>2, <1>5, <2>1
    <3> QED
      BY <2>1, <3>1
  <2>4. Below(E, f) \subseteq S
    BY <1>3, <2>2, <2>3, BelowFacts
  <2> QED
    BY <1>6, <2>1, <2>4
<1> SUFFICES ASSUME NEW e \in E, NEW f \in E, e # f, e \in Below(E, f), f \in Below(E, e)
             PROVE  FALSE
  BY DEF Acyclic
<1>7. e <= f /\ f <= e /\ e \in Nat /\ f \in Nat
  BY <1>2, <1>6
<1> QED
  BY <1>7

LEMMA ContestedBy ==
  ASSUME Encodable, NEW c, NEW e \in Takers(c), NEW f \in Takers(c), e # f
  PROVE  Contested(c)
<1>1. PICK S : S = Takers(c)
  OBVIOUS
<1>2. DOMAIN events = 1..Len(events) /\ Len(events) \in Nat
  BY Elements DEF Encodable, Recorded, Foundation, IInv
<1>3. IsFiniteSet(1..Len(events)) /\ S \subseteq 1..Len(events)
  BY <1>1, <1>2, FS_Interval DEF Takers, NonCutoffs
<1>4. IsFiniteSet(S)
  BY <1>3, FS_Subset
<1>5. Cardinality(S) \in Nat /\ Cardinality(S) # 0 /\ Cardinality(S) # 1
  <2>1. Cardinality(S) \in Nat
    BY <1>4, FS_CardinalityType
  <2>2. Cardinality(S) # 0
    BY <1>1, <1>4, FS_EmptySet
  <2>3. Cardinality(S) # 1
    BY <1>1, <1>4, FS_Singleton
  <2> QED
    BY <2>1, <2>2, <2>3
<1> QED
  BY <1>1, <1>5 DEF Contested, Takers

(* The events of a model are a configuration, ...                          *)
LEMMA ModelIsConfiguration ==
  ASSUME Encodable, IsPlain(net), NEW E \in SUBSET Live, NEW A,
         Models(A, Causality), Models(A, SymConflict), Models(A, Units(E))
  PROVE  IsConfiguration(E \cup {1})
<1>1. \A e \in Live : <<"event", e>> \in A <=> e \in E
  BY UnitsModels
<1>2. /\ 1 \in DOMAIN events /\ events[1].pre = {} /\ events[1].cont = {}
      /\ Live \subseteq DOMAIN events
  <2>1. 1 \in DOMAIN events
    BY FirstKept DEF Encodable
  <2> QED
    BY <2>1, LabelFacts DEF Encodable, Recorded, Foundation, Live, NonCutoffs
<1>3. Closed(E \cup {1})
  <2> SUFFICES ASSUME NEW e \in E, NEW c \in events[e].pre \cup events[e].cont
               PROVE  conds[c].pre \in E \cup {1}
    BY <1>2 DEF Closed
  <2>1. PICK f : f = conds[c].pre
    OBVIOUS
  <2>2. f \in NonCutoffs
    BY <1>2, <2>1, NeedsLive
  <2>3. CASE f # 1
    <3>1. f \in ImmPred(e) /\ f \in Live
      BY <2>1, <2>2, <2>3 DEF ImmPred, Live
    <3>2. <<"event", f>> \in A
      BY <1>1, <3>1, CausalityModels
    <3> QED
      BY <1>1, <2>1, <3>1, <3>2
  <2> QED
    BY <2>1, <2>3
<1>4. ASSUME NEW e \in E, NEW f \in E, e # f, NEW c \in events[e].pre \cap events[f].pre
      PROVE  FALSE
  <2>1. e \in DOMAIN events /\ f \in DOMAIN events /\ e \in NonCutoffs /\ f \in NonCutoffs
    BY DEF Live, NonCutoffs
  <2>2. e \in Takers(c) /\ f \in Takers(c)
    BY <2>1 DEF Takers, Consumers
  <2>3. Contested(c)
    BY <1>4, <2>2, ContestedBy
  <2>4. c \in DOMAIN conds
    BY <2>1, Elements DEF Encodable, Recorded, Foundation, IInv, EventType
  <2>5. OneTakes(A, Takers(c), c)
    BY <2>3, <2>4, ConflictModels
  <2>6. <<"event", e>> \in A /\ <<"event", f>> \in A
    BY <1>1
  <2> QED
    BY <1>4, <2>2, <2>5, <2>6 DEF OneTakes
<1>5. \A e, f \in E \cup {1} : ~ Conflict(e, f)
  BY <1>2, <1>4 DEF Conflict
<1>6. Acyclic(E \cup {1})
  <2>1. E \cup {1} \in SUBSET DOMAIN events
    BY <1>2
  <2> QED
    BY <2>1, PlainAcyclic
<1> QED
  BY <1>3, <1>5, <1>6 DEF IsConfiguration

(* ... and a configuration is one of a model.                              *)
LEMMA ConfigurationIsModel ==
  ASSUME Encodable, NEW E \in SUBSET Live, IsConfiguration(E \cup {1})
  PROVE  \E A \in SUBSET Variables :
           Models(A, Causality) /\ Models(A, SymConflict) /\ Models(A, Units(E))
<1>1. PICK X, Y : /\ X = {<<"event", e>> : e \in E}
                  /\ Y = {<<"cond", c>> : c \in {d \in DOMAIN conds : E \cap Takers(d) # {}}}
  OBVIOUS
<1>2. PICK A : A = X \cup Y
  OBVIOUS
<1>3. /\ \A e : <<"event", e>> \in A <=> e \in E
      /\ \A c \in DOMAIN conds : <<"cond", c>> \in A <=> E \cap Takers(c) # {}
  <2>1. \A e : <<"event", e>> \in X <=> e \in E
    BY <1>1
  <2>2. \A e : <<"event", e>> \notin Y
    BY <1>1
  <2>3. \A c : <<"cond", c>> \notin X
    BY <1>1
  <2>4. \A c \in DOMAIN conds : <<"cond", c>> \in Y <=> E \cap Takers(c) # {}
    BY <1>1
  <2> QED
    BY <1>2, <2>1, <2>2, <2>3, <2>4
<1>4. E \subseteq DOMAIN events /\ E \subseteq NonCutoffs /\ 1 \notin E
  BY DEF Live, NonCutoffs
<1>5. A \in SUBSET Variables
  BY <1>1, <1>2, <1>4 DEF Variables
<1>6. Models(A, Units(E))
  BY <1>3, UnitsModels
<1>7. Models(A, Causality)
  <2>1. ASSUME NEW e \in E, NEW f \in ImmPred(e) PROVE f \in E
    BY <1>4 DEF ImmPred, IsConfiguration, Closed
  <2>2. \A e \in Live : \A f \in ImmPred(e) : <<"event", e>> \in A => <<"event", f>> \in A
    BY <1>3, <2>1
  <2> QED
    BY <2>2, CausalityModels
<1>8. Models(A, SymConflict)
  <2>1. ASSUME NEW c \in DOMAIN conds PROVE OneTakes(A, Takers(c), c)
    <3>1. ASSUME NEW e \in Takers(c), NEW f \in Takers(c), e # f, e \in E, f \in E PROVE FALSE
      <4>1. c \in events[e].pre /\ c \in events[f].pre
        BY DEF Takers, Consumers
      <4>2. Conflict(e, f)
        BY <3>1, <4>1 DEF Conflict
      <4> QED
        BY <3>1, <4>2 DEF IsConfiguration
    <3>2. \A e, f \in Takers(c) : e # f => ~ (<<"event", e>> \in A /\ <<"event", f>> \in A)
      BY <1>3, <3>1
    <3>3. <<"cond", c>> \in A <=> \E e \in Takers(c) : <<"event", e>> \in A
      BY <1>3
    <3> QED
      BY <3>2, <3>3 DEF OneTakes
  <2> QED
    BY <2>1, ConflictModels
<1> QED
  BY <1>5, <1>6, <1>7, <1>8

LEMMA ModelsUnion ==
  ASSUME NEW A, NEW P, NEW Q, NEW R
  PROVE  Models(A, P \cup Q \cup R) <=> Models(A, P) /\ Models(A, Q) /\ Models(A, R)
BY DEF Models

LEMMA ConfigurationsEncoded ==
  ASSUME Encodable, IsPlain(net), NEW E \in SUBSET Live
  PROVE  Satisfiable(Causality \cup SymConflict \cup Units(E)) <=> IsConfiguration(E \cup {1})
<1>1. TypeOK
  BY DEF Encodable, Recorded, Foundation, IInv
<1>2. PICK F, V : F = Causality \cup SymConflict \cup Units(E) /\ V = Variables
  OBVIOUS
<1>3. F \in SUBSET SUBSET Literals(V)
  BY <1>1, <1>2, ClausesTyped
<1>4. IsFiniteSet(V)
  <2>1. /\ IsFiniteSet(1..Len(events)) /\ IsFiniteSet(1..Len(conds))
        /\ DOMAIN events = 1..Len(events) /\ DOMAIN conds = 1..Len(conds)
    BY <1>1, Elements, FS_Interval
  <2>2. IsFiniteSet(DOMAIN events \cup DOMAIN conds)
    BY <2>1, FS_Union
  <2>3. IsFiniteSet({"event", "cond"})
    <3>1. {"event", "cond"} = {"event"} \cup {"cond"}
      OBVIOUS
    <3>2. IsFiniteSet({"event"}) /\ IsFiniteSet({"cond"})
      BY FS_Singleton
    <3> QED
      BY <3>1, <3>2, FS_Union
  <2> QED
    BY <1>2, <2>2, <2>3, FS_Product DEF Variables
<1>5. IsFiniteSet(UNION F)
  <2>1. IsFiniteSet(Literals(V))
    BY <1>4, LiteralsFinite
  <2>2. UNION F \in SUBSET Literals(V)
    BY <1>3
  <2> QED
    BY <2>1, <2>2, FS_Subset
<1>6. Satisfiable(F) <=> HasModel(V, F)
  BY <1>3, <1>5, SatisfiableIff
<1>7. \A A : Models(A, F) <=> Models(A, Causality) /\ Models(A, SymConflict) /\ Models(A, Units(E))
  BY <1>2, ModelsUnion
<1>8. ASSUME HasModel(V, F) PROVE IsConfiguration(E \cup {1})
  <2>1. PICK A \in SUBSET V : Models(A, F)
    BY <1>8 DEF HasModel
  <2> QED
    BY <1>7, <2>1, ModelIsConfiguration
<1>9. ASSUME IsConfiguration(E \cup {1}) PROVE HasModel(V, F)
  <2>1. PICK A \in SUBSET Variables :
          Models(A, Causality) /\ Models(A, SymConflict) /\ Models(A, Units(E))
    BY <1>9, ConfigurationIsModel
  <2>2. Models(A, F)
    BY <1>7, <2>1
  <2> QED
    BY <1>2, <2>1, <2>2 DEF HasModel
<1> QED
  BY <1>2, <1>6, <1>8, <1>9

(* A verification leaves the prefix alone.                                 *)
LEMMA VerifyUnfolds == VerifySpec => Spec
<1>1. VerifyInit => Init
  BY DEF VerifyInit
<1>2. [VerifyNext]_all => [Next]_vars
  <2> SUFFICES ASSUME [VerifyNext]_all, vars' # vars PROVE Next
    OBVIOUS
  <2>1. VerifyNext
    BY DEF all
  <2>2. UnfoldStep
    BY <2>1 DEF VerifyNext, Partial, Final, SkipSolved, Reject, Begin, Normalise, RejectPlace,
                Answer, EndVerify, Destroy
  <2> QED
    BY <2>2 DEF UnfoldStep
<1> QED
  BY <1>1, <1>2, PTL DEF VerifySpec, Spec

(* The clauses for causality and conflicts have the configurations without *)
(* cutoffs of the prefix for their models, and no other, at every call of  *)
(* the SAT solver on a net without read arcs (encode_causality and         *)
(* encode_sym_conflict of cunfsat.cc).                                     *)
THEOREM ClausesConfigure == VerifySpec => []ConfigurationsOnly
<1>1. Encodable => ConfigurationsOnly
  <2> SUFFICES ASSUME Encodable, IsPlain(net) PROVE EncodesConfigurations
    BY DEF ConfigurationsOnly
  <2> SUFFICES ASSUME NEW E \in SUBSET Live
               PROVE  (\E F \in {Causality \cup SymConflict \cup Units(E)} : Satisfiable(F))
                        <=> IsConfiguration(E \cup {1})
    BY DEF EncodesConfigurations, Units
  <2>1. Satisfiable(Causality \cup SymConflict \cup Units(E)) <=> IsConfiguration(E \cup {1})
    BY ConfigurationsEncoded
  <2> QED
    BY <2>1
<1> QED
  BY <1>1, VerifyUnfolds, EncodableAlways, PTL
=============================================================================
