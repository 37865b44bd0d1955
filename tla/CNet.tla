-------------------------------- MODULE CNet --------------------------------
(***************************************************************************)
(* Contextual Petri nets: places, transitions, and for every transition    *)
(* the places it consumes (pre), reads (cont) and produces (post).  A net  *)
(* is a record; transitions are numbered as the reader of PEP files does,  *)
(* from 1 in file order, and 0 is the transition _t0_ that it appends to   *)
(* produce the initial marking.                                            *)
(*                                                                         *)
(* The token game is the one of the class Marking of src/net/net.cc on     *)
(* 1-safe markings, which are sets of places.                              *)
(***************************************************************************)
EXTENDS Integers, FiniteSets

T0 == 0

(* The nets the reader can build and the static checks let through: an     *)
(* initial marking that is not empty; of a transition that consumes        *)
(* nothing the program at most warns that it is not restricted.            *)
IsNet(n) ==
  /\ n.trans \subseteq Nat \ {T0}
  /\ n.pre  \in [n.trans \cup {T0} -> SUBSET n.places]
  /\ n.cont \in [n.trans \cup {T0} -> SUBSET n.places]
  /\ n.post \in [n.trans \cup {T0} -> SUBSET n.places]
  /\ n.pre[T0] = {} /\ n.cont[T0] = {} /\ n.post[T0] # {}

(* Those the unfolder is modelled on.  The lists co of a net where a        *)
(* transition reads and consumes nothing hold pairs twice, and its         *)
(* histories are found as often: sets cannot say that.  (See the README,   *)
(* also for places that one transition both consumes and reads.)           *)
Consuming(n) ==
  \A t \in n.trans : n.pre[t] # {} /\ n.pre[t] \cap n.cont[t] = {}

IsPlain(n) == \A t \in n.trans : n.cont[t] = {}

Enabled(n, m, t) == n.pre[t] \cup n.cont[t] \subseteq m

Fire(n, m, t) == (m \ n.pre[t]) \cup n.post[t]

Successors(n, m) == {Fire(n, m, t) : t \in {u \in n.trans : Enabled(n, m, u)}}

(* Markings reachable from the one T0 produces, breadth first.             *)
Reachable(n) ==
  LET R[S \in SUBSET SUBSET n.places] ==
        LET S1 == S \cup UNION {Successors(n, m) : m \in S}
        IN  IF S1 = S THEN S ELSE R[S1]
  IN  R[{n.post[T0]}]

(* 1-safety: no reachable marking lets a transition put a second token     *)
(* into a place.                                                           *)
IsSafe(n) ==
  \A m \in Reachable(n), t \in n.trans :
     Enabled(n, m, t) => (m \ n.pre[t]) \cap n.post[t] = {}
=============================================================================
