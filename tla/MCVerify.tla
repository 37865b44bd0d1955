------------------------------ MODULE MCVerify ------------------------------
(***************************************************************************)
(* Small nets and specifications for the model checker.                    *)
(***************************************************************************)
EXTENDS Verify, MCUnfolder

(* A transition in a loop and one that leaves it: the loop is a cutoff, and *)
(* the other one the only non-cutoff that takes a.                         *)
LoopOrLeave == NetOf({"a"}, << <<{"a"}, {}, {"b"}>>, <<{"a"}, {}, {"a"}>> >>)

(* A choice after which all is over, next to a cycle with a dead end.      *)
Decisions == NetOf({"a", "x"},
  << <<{"a"}, {}, {"b"}>>, <<{"a"}, {}, {"c"}>>, <<{"b", "x"}, {}, {"a", "x"}>>,
     <<{"x"}, {}, {"y"}>> >>)

(* Three consumers, one of them never enabled; no deadlock.                *)
NoDeadlock == NetOf({"a"},
  << <<{"a"}, {}, {"b"}>>, <<{"a"}, {}, {"c"}>>, <<{"b"}, {}, {"a"}>>,
     <<{"c"}, {}, {"b"}>>, <<{"a", "c"}, {}, {"a"}>> >>)

(* Two processes that take two locks in opposite orders.                   *)
Locks == NetOf({"i1", "i2", "a", "b"},
  << <<{"i1", "a"}, {}, {"h1"}>>, <<{"h1", "b"}, {}, {"c1"}>>,
     <<{"c1"}, {}, {"i1", "a", "b"}>>, <<{"i2", "b"}, {}, {"h2"}>>,
     <<{"h2", "a"}, {}, {"c2"}>>, <<{"c2"}, {}, {"i2", "a", "b"}>> >>)

(* No cycle: a choice, and two tokens that meet.                           *)
Meeting == NetOf({"a", "x"},
  << <<{"a"}, {}, {"b"}>>, <<{"a"}, {}, {"c"}>>, <<{"x"}, {}, {"y"}>>,
     <<{"c", "y"}, {}, {"d"}>> >>)

Leaf(type)   == [type |-> type, place |-> "", trans |-> 0, left |-> 0, right |-> 0]
D            == Leaf("deadlock")
T(t)         == [Leaf("trans") EXCEPT !.trans = t]
Pl(p)        == [Leaf("place") EXCEPT !.place = p]
No(x)        == [Leaf("not") EXCEPT !.left = x]
Two(op, x, y) == [Leaf(op) EXCEPT !.left = x, !.right = y]

(* deadlock; !deadlock; t1 && !t2                                          *)
Plainly == [nodes |-> <<D, D, No(2), T(1), T(2), No(5), Two("and", 4, 6)>>,
            roots |-> <<1, 3, 7>>]

(* !(t1 || !(t2 && !!!deadlock)); !!t1; !t2; !(t1 && t2)                   *)
Nested ==
  [nodes |-> <<T(1), T(2), D, No(3), No(4), No(5), Two("and", 2, 6), No(7),
               Two("or", 1, 8), No(9), T(1), No(11), No(12), T(2), No(14),
               T(1), T(2), Two("and", 16, 17), No(18)>>,
   roots |-> <<10, 13, 15, 19>>]

(* a; !(!t1 || a); (!t1 && !t2) || deadlock; !!!!deadlock                  *)
WithPlace ==
  [nodes |-> <<Pl("a"), T(1), No(2), Pl("a"), Two("or", 3, 4), No(5),
               T(1), No(7), T(2), No(9), Two("and", 8, 10), D, Two("or", 11, 12),
               D, No(14), No(15), No(16), No(17)>>,
   roots |-> <<1, 6, 13, 18>>]

PlainNets == {Locks, LoopOrLeave, Decisions, NoDeadlock, Meeting}
CheckedNets == PlainNets \cup {Sem}
Files == {Plainly, Nested, WithPlace}
ErvOrUser == ErvOnly \cup Interactive
LoopNet == {LoopOrLeave}
OneFile == {Plainly}
=============================================================================
