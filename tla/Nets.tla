-------------------------------- MODULE Nets --------------------------------
(***************************************************************************)
(* Small contextual nets, most of them for one way in which read arcs,     *)
(* conflicts and cycles can meet.                                          *)
(***************************************************************************)
EXTENDS CNet

(* A net from its initial marking and its transitions <<pre, cont, post>>.  *)
NetOf(m0, ts) ==
  LET all == m0 \cup UNION {t[1] \cup t[2] \cup t[3] : t \in {ts[i] : i \in DOMAIN ts}}
  IN  [places |-> all,
       trans  |-> DOMAIN ts,
       pre    |-> [i \in DOMAIN ts \cup {T0} |-> IF i = T0 THEN {} ELSE ts[i][1]],
       cont   |-> [i \in DOMAIN ts \cup {T0} |-> IF i = T0 THEN {} ELSE ts[i][2]],
       post   |-> [i \in DOMAIN ts \cup {T0} |-> IF i = T0 THEN m0 ELSE ts[i][3]]]

(* examples/tiny/sem.ll_net: one read arc, two histories of an event.      *)
Sem == NetOf({"s0", "s1"},
  << <<{"s0"}, {}, {"s2"}>>, <<{"s1"}, {"s2"}, {"s3"}>>, <<{"s2"}, {}, {"s0"}>> >>)

(* Two concurrent readers of p and a consumer: compound conditions.        *)
TwoReaders == NetOf({"p", "x", "z"},
  << <<{"x"}, {"p"}, {"x1"}>>, <<{"z"}, {"p"}, {"z1"}>>, <<{"p"}, {}, {"q"}>>,
     <<{"q"}, {"x1"}, {"p"}>> >>)

(* The second reader of p is after the first one.                          *)
ChainedReaders == NetOf({"p", "x", "z"},
  << <<{"x"}, {"p"}, {"x1"}>>, <<{"x1"}, {"p"}, {"x2"}>>, <<{"z"}, {"p"}, {"z1"}>>,
     <<{"p"}, {}, {"q"}>> >>)

(* Plain: two concurrent cycles with a synchronisation and a conflict.     *)
Plain == NetOf({"a", "b"},
  << <<{"a"}, {}, {"c"}>>, <<{"b"}, {}, {"d"}>>, <<{"c", "d"}, {}, {"a", "b"}>>,
     <<{"c"}, {}, {"a"}>>, <<{"b"}, {}, {"b"}>> >>)

(* A reader of a place that another transition fills and empties.          *)
Cycle == NetOf({"p", "s"},
  << <<{"p"}, {}, {"q"}>>, <<{"q"}, {"s"}, {"p"}>>, <<{"s"}, {"q"}, {"r"}>>,
     <<{"r"}, {}, {"s"}>> >>)

(* Two transitions with two read arcs each on the same places.             *)
TwoContexts == NetOf({"x", "z", "p1", "p2"},
  << <<{"z"}, {"p1"}, {"w"}>>, <<{"x"}, {"p1", "p2"}, {"y"}>>,
     <<{"p1", "p2"}, {}, {"q"}>>, <<{"q", "y"}, {}, {"v"}>> >>)

(* Not 1-safe: two transitions put a token into q.                         *)
NotSafe == NetOf({"a", "b"},
  << <<{"a"}, {}, {"q"}>>, <<{"b"}, {}, {"q"}>>, <<{"q"}, {}, {"a"}>> >>)

(* Not 1-safe: the place that gets a second token is also read.            *)
UnsafeRead == NetOf({"a", "q", "r"},
  << <<{"r"}, {"q"}, {"s"}>>, <<{"a"}, {}, {"q"}>>, <<{"q"}, {}, {"a"}>> >>)

(* Not 1-safe, but only after a cycle.                                     *)
UnsafeLater == NetOf({"a", "b"},
  << <<{"a"}, {"b"}, {"c"}>>, <<{"c"}, {}, {"a", "d"}>>, <<{"d"}, {}, {"e"}>>,
     <<{"e"}, {"a"}, {"b"}>> >>)

(* What the reader of p produces is concurrent with p after it was read    *)
(* once more.                                                              *)
ForkedReader == NetOf({"p", "x"},
  << <<{"x"}, {"p"}, {"x1", "y"}>>, <<{"x1"}, {"p"}, {"x2"}>>,
     <<{"p", "y"}, {}, {"q"}>> >>)

(* A circle of readers: any two of three transitions can occur, in one     *)
(* order, but not all three.                                               *)
Circle == NetOf({"p", "q", "r"},
  << <<{"p"}, {"q"}, {"x"}>>, <<{"q"}, {"r"}, {"y"}>>, <<{"r"}, {"p"}, {"z"}>>,
     <<{"x", "y", "z"}, {}, {"p"}>> >>)

(* The history of a consumer after the reader has the marking of one       *)
(* transition; and a transition that produces nothing.                     *)
Shortcut == NetOf({"p", "x"},
  << <<{"x"}, {"p"}, {"x1"}>>, <<{"p"}, {}, {"q"}>>, <<{"p", "x"}, {}, {"q", "x1"}>>,
     <<{"x1"}, {"q"}, {}>> >>)

(* Two ways of equal length to one marking, with equal and with different  *)
(* transitions on them.                                                    *)
Diamond == NetOf({"a", "r"},
  << <<{"a"}, {}, {"b"}>>, <<{"a"}, {}, {"c"}>>, <<{"b"}, {"r"}, {"d"}>>,
     <<{"c"}, {}, {"d"}>>, <<{"d", "r"}, {}, {"a", "r"}>> >>)

(* Two ways of different length to one marking, with a reader on the way.  *)
Detour == NetOf({"a", "r"},
  << <<{"a"}, {}, {"b"}>>, <<{"b"}, {"r"}, {"c"}>>, <<{"a"}, {}, {"c"}>>,
     <<{"c"}, {}, {"d"}>> >>)
=============================================================================
