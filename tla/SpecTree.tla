------------------------------ MODULE SpecTree ------------------------------
(***************************************************************************)
(* Formulas of the specification as trees of objects on the heap, and the   *)
(* rewriting of Spec::push_negations (src/cna/spec.cc) that brings one into *)
(* negation normal form in place: it changes, shares for a moment, creates *)
(* and deletes nodes.                                                      *)
(*                                                                         *)
(* Objects are numbered in the order of their allocation, 0 is the null    *)
(* pointer.  A leaf has no children.  One step is the body of one call of  *)
(* push_negations up to its recursive calls, which wait in todo.           *)
(***************************************************************************)
EXTENDS Integers, Sequences, FiniteSets

CONSTANT Specifications   \* [nodes, roots] : what the parser can build

VARIABLES
  nodes,   \* [type, place, trans, left, right]
  freed,   \* the objects deleted
  roots,   \* the pointers spec of the properties
  todo     \* the calls of push_negations to come, innermost first

tree == <<nodes, freed, roots, todo>>

Children(N, x) ==
  CASE N[x].type = "not"           -> {N[x].left}
    [] N[x].type \in {"and", "or"} -> {N[x].left, N[x].right}
    [] OTHER                       -> {}

(* The nodes of the tree below x, which are what ~Spec deletes.             *)
Nodes(N, x) ==
  LET below[S \in SUBSET DOMAIN N] ==
        LET T == S \cup UNION {Children(N, y) : y \in S}
        IN  IF T = S THEN S ELSE below[T]
  IN  below[{x}]

IsObject(o) ==
  /\ DOMAIN o = {"type", "place", "trans", "left", "right"}
  /\ o.type \in {"place", "trans", "deadlock", "not", "and", "or"}

(* The constructors are called bottom up by the parser, and each object is *)
(* the child of one other or the formula of one property.                  *)
IsSpecification(s) ==
  /\ s.nodes \in Seq({s.nodes[x] : x \in DOMAIN s.nodes})
  /\ s.roots \in Seq(DOMAIN s.nodes)
  /\ \A x \in DOMAIN s.nodes : IsObject(s.nodes[x])
  /\ \A x \in DOMAIN s.nodes :
       /\ Children(s.nodes, x) \subseteq 1..(x - 1)
       /\ s.nodes[x].type \in {"and", "or"} => s.nodes[x].left # s.nodes[x].right
       /\ Cardinality({y \in DOMAIN s.nodes : x \in Children(s.nodes, y)})
            + Cardinality({i \in DOMAIN s.roots : s.roots[i] = x}) = 1

ASSUME SpecificationsAssumption == \A s \in Specifications : IsSpecification(s)

IsAtom(x) == nodes[x].type \in {"place", "trans", "deadlock"}
IsNot(x)  == nodes[x].type = "not"

Dual(type) == IF type = "and" THEN "or" ELSE "and"

Return   == todo' = Tail(todo)
Call(xs) == todo' = xs \o Tail(todo)

(* A leaf, or the negation of one.                                         *)
Literal(s) ==
  /\ IsAtom(s) \/ (IsNot(s) /\ IsAtom(nodes[s].left))
  /\ Return
  /\ UNCHANGED <<nodes, freed, roots>>

Branch(s) ==
  /\ nodes[s].type \in {"and", "or"}
  /\ Call(<<nodes[s].left, nodes[s].right>>)
  /\ UNCHANGED <<nodes, freed, roots>>

(* Mutant: the destructor finds the subformula that was moved.             *)
DoubleNegationDeletes(s) ==
  LET ss == nodes[s].left IN
  /\ IsNot(s) /\ IsNot(ss)
  /\ nodes' = [nodes EXCEPT ![s] = nodes[nodes[ss].left]]
  /\ freed' = freed \cup Nodes(nodes', ss)
  /\ UNCHANGED <<roots, todo>>

(* s takes over its grandchild, and the two nodes below it are deleted; the *)
(* type of the grandchild is changed so that its destructor stops there.   *)
(* The call goes on with s.                                                *)
DoubleNegation(s) ==
  LET ss    == nodes[s].left
      grand == nodes[ss].left
  IN
  /\ IsNot(s) /\ IsNot(ss)
  /\ nodes' = [nodes EXCEPT ![s] = nodes[grand], ![grand].type = "deadlock"]
  /\ freed' = freed \cup Nodes(nodes', ss)
  /\ UNCHANGED <<roots, todo>>

(* Mutant: the right branch is not explored.                               *)
DeMorganLeft(s) ==
  LET l == nodes[s].left
      n == Len(nodes) + 1
  IN
  /\ IsNot(s) /\ nodes[l].type \in {"and", "or"}
  /\ nodes' = Append([nodes EXCEPT ![s].type = Dual(nodes[l].type), ![s].right = n,
                                   ![l].type = "not", ![l].right = 0],
                     [nodes[l] EXCEPT !.type = "not", !.left = nodes[l].right,
                                      !.right = 0])
  /\ Call(<<l>>)
  /\ UNCHANGED <<freed, roots>>

(* The child becomes the negation of its left branch, a new node that of   *)
(* its right one.                                                          *)
DeMorgan(s) ==
  LET l == nodes[s].left
      n == Len(nodes) + 1
  IN
  /\ IsNot(s) /\ nodes[l].type \in {"and", "or"}
  /\ nodes' = Append([nodes EXCEPT ![s].type = Dual(nodes[l].type), ![s].right = n,
                                   ![l].type = "not", ![l].right = 0],
                     [nodes[l] EXCEPT !.type = "not", !.left = nodes[l].right,
                                      !.right = 0])
  /\ Call(<<l, n>>)
  /\ UNCHANGED <<freed, roots>>

PushNegations ==
  /\ todo # <<>>
  /\ LET s == Head(todo)
     IN  Literal(s) \/ Branch(s) \/ DoubleNegation(s) \/ DeMorgan(s)

-----------------------------------------------------------------------------
(* The value of a formula, given the set of its true atoms.                *)

Atom(N, x) ==
  CASE N[x].type = "place" -> <<"place", N[x].place>>
    [] N[x].type = "trans" -> <<"trans", N[x].trans>>
    [] OTHER               -> <<"deadlock">>

Value(N, x, true) ==
  LET v[y \in Nodes(N, x)] ==
        CASE N[y].type = "not" -> ~ v[N[y].left]
          [] N[y].type = "and" -> v[N[y].left] /\ v[N[y].right]
          [] N[y].type = "or"  -> v[N[y].left] \/ v[N[y].right]
          [] OTHER             -> Atom(N, y) \in true
  IN  v[x]

Atoms(N, x) == {Atom(N, y) : y \in {z \in Nodes(N, x) : Children(N, z) = {}}}

Allocated == DOMAIN nodes \ freed

(* Between two calls every object that is not deleted is the child of one   *)
(* other or the formula of one property, and no deleted one is: nothing is *)
(* leaked, and the destructors will delete nothing twice.                  *)
Ownership ==
  /\ \A x \in Allocated :
       Cardinality({y \in Allocated : x \in Children(nodes, y)})
         + Cardinality({i \in DOMAIN roots : roots[i] = x}) = 1
  /\ \A x \in Allocated : Children(nodes, x) \subseteq Allocated
  /\ \A x \in Allocated :
       nodes[x].type \in {"and", "or"} => nodes[x].left # nodes[x].right
  /\ \A i \in DOMAIN roots : roots[i] \in Allocated

(* Negations only before atoms, as the assertion of mark_atoms demands.     *)
IsNormal(x) ==
  \A y \in Nodes(nodes, x) : IsNot(y) => IsAtom(nodes[y].left)
=============================================================================
