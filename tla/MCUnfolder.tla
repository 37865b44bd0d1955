----------------------------- MODULE MCUnfolder -----------------------------
(***************************************************************************)
(* Small nets and command lines for the unfolder.                          *)
(***************************************************************************)
EXTENDS Cuf, Nets

(* Every net with three places and two transitions that can both fire, the *)
(* first of which reads a place, and neither more than one; initial        *)
(* markings up to the names of the places.                                 *)
P3 == {"a", "b", "c"}

Transitions3 ==
  {t \in (SUBSET P3) \X (SUBSET P3) \X (SUBSET P3) :
     /\ t[1] # {} /\ t[3] # {}
     /\ Cardinality(t[2]) <= 1
     /\ t[2] \cap (t[1] \cup t[3]) = {}}

(* A number for a net whose places are numbered by f; of the nets that only *)
(* differ in the names of the places the one with the least is taken.      *)
Code(n, f) ==
  LET bits(S) == SumSet({2^f[p] : p \in S})
      sets == <<n.pre[1], n.cont[1], n.post[1], n.pre[2], n.cont[2], n.post[2], n.post[T0]>>
  IN  SumSet({8^(i - 1) * bits(sets[i]) : i \in DOMAIN sets})

Numberings == {f \in [P3 -> 0..2] : {f[p] : p \in P3} = 0..2}

SmallNets ==
  {n \in {NetOf(m, <<t, u>>) : m \in {{"a"}, {"a", "b"}, P3},
                              t \in {v \in Transitions3 : v[2] # {}},
                              u \in Transitions3} :
     /\ n.places = P3
     /\ \A t \in n.trans : \E m \in Reachable(n) : Enabled(n, m, t)
     /\ LET g == [p \in P3 |-> CASE p = "a" -> 0 [] p = "b" -> 1 [] OTHER -> 2]
        IN  \A f \in Numberings : Code(n, g) <= Code(n, f)}

Default(order) ==
  [order |-> order, maxdepth |-> 10000, maxev |-> 10000, maxcond |-> 10000,
   maxh |-> 10000, interactive |-> FALSE]

SafeNets ==
  {Sem, TwoReaders, ChainedReaders, ForkedReader, Circle, Shortcut, Plain, Cycle, Diamond}
FewNets == {Sem, Detour, Plain}
SmallAndUnsafeNets == SmallNets \cup {NotSafe, UnsafeRead, UnsafeLater}
Contexts == {TwoContexts}

(* A transition that leads back to the initial marking: all events are     *)
(* cutoffs.                                                                *)
Loop == NetOf({"a"}, << <<{"a"}, {}, {"a"}>> >>)
LoopOnly == {Loop}
TotalOrders == {Default("erv"), Default("mole")}
PartialOrders == {Default("mcm"), Default("parikh")}

Quotas ==
  {[Default("erv") EXCEPT !.maxdepth = 0], [Default("erv") EXCEPT !.maxdepth = 2],
   [Default("erv") EXCEPT !.maxev = 3],    [Default("erv") EXCEPT !.maxcond = 4],
   [Default("erv") EXCEPT !.maxh = 4],     [Default("none") EXCEPT !.maxdepth = 1],
   [Default("none") EXCEPT !.maxh = 4]}

Interactive == {[Default("erv") EXCEPT !.interactive = TRUE]}
QuotasOrUser == Quotas \cup Interactive

ErvOnly == {Default("erv")}

(* Which nets are unfolded with which options, and the unfolder on them.    *)
Inputs ==
  (SafeNets \X TotalOrders)
  \cup ((SafeNets \ {ChainedReaders, Circle}) \X PartialOrders)
  \cup (SmallAndUnsafeNets \X ErvOnly)
  \cup (FewNets \X QuotasOrUser)

AllNets == SafeNets \cup SmallAndUnsafeNets \cup FewNets
AllOptions == TotalOrders \cup PartialOrders \cup QuotasOrUser

PrefixInit == \E i \in Inputs : net = i[1] /\ opt = i[2] /\ Init

PrefixSpec == PrefixInit /\ [][Next]_vars /\ Fairness
=============================================================================
