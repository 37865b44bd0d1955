--------------------------- MODULE UnfolderProps ---------------------------
(***************************************************************************)
(* What the unfolder promises: reference definitions of configurations,    *)
(* histories and concurrency on the prefix, independent of the way the     *)
(* algorithm computes them, and the properties stated with them.           *)
(***************************************************************************)
EXTENDS Unfolder

EventType ==
  [ft : net.trans \cup {T0}, pre : SUBSET DOMAIN conds, cont : SUBSET DOMAIN conds,
   iscutoff : BOOLEAN]

CondType == [pre : DOMAIN events, fp : net.places]

HistType ==
  [e : DOMAIN events, nod : SUBSET DOMAIN hists, past : SUBSET DOMAIN hists,
   ecl : SUBSET DOMAIN ecs, depth : 0..Len(hists), corr : DOMAIN hists \cup {0},
   rd : SUBSET DOMAIN events, sd : SUBSET DOMAIN events, marking : SUBSET net.places]

EcType ==
  [c : DOMAIN conds, h : DOMAIN hists \cup {0}, hs : (SUBSET DOMAIN hists) \ {{}},
   r1 : DOMAIN ecs \cup {0}, r2 : DOMAIN ecs \cup {0}, rd : SUBSET DOMAIN events]

TypeOK ==
  /\ net \in Nets /\ opt \in Options
  /\ status \in {"run", "unsafe", "quit"}
  /\ events \in Seq(EventType)
  /\ conds \in Seq(CondType)
  /\ hists \in Seq(HistType)
  /\ ecs \in Seq(EcType)
  /\ {co, dir, rco} \subseteq SUBSET ((DOMAIN ecs) \X (DOMAIN ecs))
  /\ queue \subseteq DOMAIN hists
  /\ table \in Seq(DOMAIN hists)
  /\ cur \in DOMAIN hists
  /\ gens \cup reads \subseteq DOMAIN conds
  /\ reader \in DOMAIN ecs \cup {0}
  /\ combine \subseteq DOMAIN ecs
  /\ \A s \in sols : /\ s.t \in net.trans
                     /\ s.at \in [net.pre[s.t] \cup net.cont[s.t] -> DOMAIN ecs]
  /\ numco \in Nat

-----------------------------------------------------------------------------
(* Reference definitions.                                                  *)

Done == status = "run" /\ Idle /\ queue = {}

ReachableOf == [n \in Nets |-> Reachable(n)]
SafeNet == [n \in Nets |-> IsSafe(n)]

Unbounded == \A q \in {opt.maxdepth, opt.maxev, opt.maxcond, opt.maxh} : q >= 1000

Popped == DOMAIN hists \ queue

(* e must come before f in every configuration that holds both.            *)
Before(e, f) ==
  /\ e # f
  /\ \/ EventPost(e) \cap (events[f].pre \cup events[f].cont) # {}
     \/ events[e].cont \cap events[f].pre # {}

Conflict(e, f) == e # f /\ events[e].pre \cap events[f].pre # {}

(* The cut of a set of events: conditions produced and not consumed.       *)
CutOf(E) ==
  {c \in DOMAIN conds : conds[c].pre \in E /\ \A e \in E : c \notin events[e].pre}

MarkingOf(E) == {conds[c].fp : c \in CutOf(E)}

Closed(E) == \A e \in E : \A c \in events[e].pre \cup events[e].cont : conds[c].pre \in E

(* The events of E that must come before e, transitively, and e.           *)
Below(E, e) ==
  LET B[S \in SUBSET E] ==
        LET S1 == S \cup {f \in E : \E g \in S : Before(f, g)}
        IN  IF S1 = S THEN S ELSE B[S1]
  IN  B[{e}]

Acyclic(E) == \A e, f \in E : e # f => ~ (e \in Below(E, f) /\ f \in Below(E, e))

IsConfiguration(E) ==
  /\ Closed(E)
  /\ \A e, f \in E : ~ Conflict(e, f)
  /\ Acyclic(E)

(* Two configurations that can both be extended to their union.            *)
Compose(E, F) ==
  /\ \A e \in E, f \in F : ~ Conflict(e, f)
  /\ \A e \in E, f \in F \ E : ~ Before(f, e)
  /\ \A e \in E \ F, f \in F : ~ Before(e, f)

(* The events of the histories of an enriched condition.                   *)
ConfOf(r) == EventsOf(UNION {hists[h].past : h \in ecs[r].hs})

Concurrent(r, rp) ==
  LET E == ConfOf(r)
      F == ConfOf(rp)
  IN  /\ ecs[r].c # ecs[rp].c
      /\ Compose(E, F)
      /\ {ecs[r].c, ecs[rp].c} \subseteq CutOf(E \cup F)

(* r // rp : moreover no reader of r's condition is in rp's history only.  *)
KeepsReaders(r, rp) ==
  Readers(ecs[r].c) \cap ConfOf(rp) \subseteq ConfOf(r)

-----------------------------------------------------------------------------
(* The list co never relates conditions that are not concurrent, and its   *)
(* two bits are right: an unsound entry would put an event or a history    *)
(* into the prefix that no firing sequence has.                            *)
ConcurrencySound ==
  Idle => \A p \in co : /\ Concurrent(p[1], p[2])
                        /\ p \in dir <=> KeepsReaders(p[1], p[2])

(* Between two rounds of the main loop every two concurrent enriched       *)
(* conditions are related: a missing entry loses possible extensions.      *)
ConcurrencyComplete ==
  Idle /\ status = "run" =>
    \A r, rp \in DOMAIN ecs : Concurrent(r, rp) => <<r, rp>> \in co

(* No pair is entered twice into the lists co: the sibling pairs and those *)
(* of the intersection are disjoint, so the counter u.unf.numco is exact.  *)
ConcurrencyCount == numco = Cardinality(co)

(* Every history is a configuration with its event as the only maximum,    *)
(* has one node per event, the size and the depth h_cmp compares, and the  *)
(* marking of a reachable state of the net.                                *)
HistoriesSound ==
  Idle => LET markings == ReachableOf[net] IN \A h \in DOMAIN hists :
    LET E == EventsOf(hists[h].past) IN
    /\ IsConfiguration(E)
    /\ \A f \in E : f \in Below(E, hists[h].e)
    /\ Cardinality(E) = Cardinality(hists[h].past)
    /\ h \in Popped => MarkingOf(E) \in markings
    /\ h \in Popped /\ hists[h].corr = 0 => hists[h].marking = MarkingOf(E)
    /\ hists[h].rd = {x \in E : events[x].cont \cap CutOf(E) # {}}

(* _pe_comb_instance_of finds every occurrence: no two events have the     *)
(* same transition, preset and context.                                    *)
NoDuplicateEvents ==
  \A e, f \in DOMAIN events :
    /\ events[e].ft = events[f].ft
    /\ events[e].pre = events[f].pre
    /\ events[e].cont = events[f].cont
    => e = f

(* Each history is found once, whatever readers its conditions are combined *)
(* from.                                                                   *)
NoDuplicateHistories ==
  \A x, y \in DOMAIN hists :
    EventsOf(hists[x].past) = EventsOf(hists[y].past) /\ hists[x].e = hists[y].e
      => x = y

(* The assertion of h_add, for every history and not only direct edges:    *)
(* nothing is built on a cutoff or on a history still in the queue.        *)
BuiltOnNonCutoffs ==
  \A h \in DOMAIN hists : \A x \in hists[h].past \ {h} : hists[x].corr = 0

(* Enriched conditions, too, only stand for histories that left the queue  *)
(* and are not cutoffs.                                                    *)
EcsOfNonCutoffs ==
  \A r \in DOMAIN ecs : \A h \in ecs[r].hs : hists[h].corr = 0

(* A cutoff refers to a history that is not one: the program never builds  *)
(* chains of corresponding histories.                                      *)
CutoffsOfNonCutoffs ==
  \A h \in DOMAIN hists : hists[h].corr \notin {0, h} => hists[hists[h].corr].corr = 0

(* An event consumes and reads conditions of older events only: no event is *)
(* below itself, and a history never reads what its own event produces.    *)
Causal ==
  \A e \in DOMAIN events : \A c \in events[e].pre \cup events[e].cont : conds[c].pre < e

(* What the links of the data structures rely on; with the properties above *)
(* it is inductive.                                                        *)
Linked ==
  /\ \A h \in DOMAIN hists :
       \A c \in events[hists[h].e].pre \cup events[hists[h].e].cont :
         \E g \in hists[h].ecl : ecs[g].c = c
  /\ gens \subseteq EventPost(hists[cur].e)
  /\ reads \subseteq events[hists[cur].e].cont
  /\ reader # 0 => ecs[reader].r1 # 0
  /\ combine # {} => reader # 0

Discipline ==
  /\ \A h \in queue : hists[h].corr = h
  /\ \A i \in DOMAIN table : hists[table[i]].corr = 0
  /\ gens \cup reads # {} => hists[cur].corr = 0

IInv ==
  /\ TypeOK
  /\ Causal
  /\ Linked
  /\ Discipline
  /\ BuiltOnNonCutoffs
  /\ EcsOfNonCutoffs
  /\ CutoffsOfNonCutoffs

(* The conditions of S are one for each place of ps.                       *)
OnePerPlace(S, ps) ==
  /\ {conds[c].fp : c \in S} = ps
  /\ \A c, d \in S : conds[c].fp = conds[d].fp => c = d

(* Events are labelled by transitions, and their conditions by the places  *)
(* of those; e0 alone is labelled by _t0_.                                 *)
Label(e) ==
  /\ events[e].ft = T0 <=> e = 1
  /\ OnePerPlace(events[e].pre, net.pre[events[e].ft])
  /\ OnePerPlace(events[e].cont, net.cont[events[e].ft])
  /\ EventPost(e) # {} => OnePerPlace(EventPost(e), net.post[events[e].ft])

Labelled == \A e \in DOMAIN events : Label(e)

(* What is searched are extensions with the newest enriched condition, one *)
(* of the history that left the queue last.                                *)
Searching ==
  /\ reader # 0 => cur \in ecs[reader].hs
  /\ \A s \in sols : /\ s = [t |-> s.t, at |-> s.at]
                     /\ \A p \in DOMAIN s.at : Place(s.at[p]) = p
                     /\ Newest \in Ecl(s)
                     /\ cur \in ecs[Newest].hs

(* A history has one enriched condition for each condition that its event  *)
(* consumes or reads, and every event has a history.                       *)
Footing(h) ==
  /\ {ecs[r].c : r \in hists[h].ecl} = events[hists[h].e].pre \cup events[hists[h].e].cont
  /\ \A r, q \in hists[h].ecl : ecs[r].c = ecs[q].c => r = q

Grounded ==
  /\ \A h \in DOMAIN hists : Footing(h)
  /\ \A e \in DOMAIN events : \E h \in DOMAIN hists : hists[h].e = e

(* A transition occurs on a set of enriched conditions once.               *)
UniqueEcls ==
  /\ \A x, y \in DOMAIN hists :
       /\ hists[x].ecl = hists[y].ecl
       /\ events[hists[x].e].ft = events[hists[y].e].ft
       => x = y
  /\ \A s \in sols, x \in DOMAIN hists :
       hists[x].ecl = Ecl(s) => events[hists[x].e].ft # s.t

(* In a net without read arcs an event has one history, and a condition    *)
(* one enriched condition.                                                 *)
OfPlainNets ==
  IsPlain(net) =>
    /\ \A x, y \in DOMAIN hists : hists[x].e = hists[y].e => x = y
    /\ \A r, q \in DOMAIN ecs : ecs[r].c = ecs[q].c => r = q
    /\ \A r \in DOMAIN ecs : /\ conds[ecs[r].c].pre = hists[ecs[r].h].e
                             /\ ecs[r].hs = {ecs[r].h}
                             /\ ecs[r].c \notin gens
    /\ reads = {} /\ combine = {}

(* What the event of a history consumes is not concurrent with what it     *)
(* produces or reads.                                                      *)
NotBlack ==
  \A r \in DOMAIN ecs : ~ IsComp(r) =>
    \A g \in hists[ecs[r].h].ecl :
      ecs[g].c \in Black(ecs[r].h) => <<g, r>> \notin co

(* Unless a user picks the histories, those that left the queue are not    *)
(* greater than those in it, nor larger than the last of them.             *)
Ordered ==
  /\ cur \in Popped
  /\ ~ opt.interactive =>
       /\ \A g \in Popped : Cardinality(hists[g].past) <= Cardinality(hists[cur].past)
       /\ \A g \in Popped, x \in queue : Cmp(hists, g, x) <= 0

(* The marking of a history is the one of its cut.  Until one history of an *)
(* event leaves the queue the conditions of the event are missing.         *)
MarkingFrom(h) == MarkingOf(EventsOf(hists[h].past)) \cup Fresh(events, hists[h].e)

Marked ==
  /\ \A h \in DOMAIN hists :
       /\ h \in hists[h].past
       /\ h \in queue \/ hists[h].corr = 0 => hists[h].marking = MarkingFrom(h)
  /\ \A h \in Popped : Fresh(events, hists[h].e) = {} /\ hists[h].corr # h

(* The nodes of a history are older than it, closed under taking theirs,   *)
(* and go down to the history of e0, the only one of depth 0; a path to it *)
(* takes less steps than there are nodes.                                  *)
Layered ==
  \A h \in DOMAIN hists :
    /\ 1 \in hists[h].past
    /\ hists[h].depth = 0 <=> h = 1
    /\ hists[h].depth < Cardinality(hists[h].past)
    /\ \A x \in hists[h].past : x <= h /\ hists[x].past \subseteq hists[h].past

(* The events of a history are its event and those of the enriched         *)
(* conditions it consumes and reads, which are concurrent with each other. *)
ConflictFree(E) == \A e, f \in E : ~ Conflict(e, f)

Assembled(h) ==
  LET e == hists[h].e
      E == EventsOf(hists[h].past)
  IN  /\ hists[h].past =
           {h} \cup UNION {hists[x].past : x \in UNION {ecs[g].hs : g \in hists[h].ecl}}
      /\ Closed(E) /\ ConflictFree(E)
      /\ hists[h].rd = {x \in E : events[x].cont \cap CutOf(E) # {}}
      /\ hists[h].sd = {x \in E : events[x].cont \cap events[e].pre # {}}
      /\ \A g, q \in hists[h].ecl :
           /\ e \notin ConfOf(g)
           /\ g # q => /\ <<g, q>> \in co
                       /\ ecs[g].c \in Black(h) => <<g, q>> \in dir

(* An enriched condition is in the cut of its histories, and Rd are their  *)
(* events that read from that cut, all of them.                            *)
EcSound(r) ==
  LET E == ConfOf(r)
  IN  /\ Closed(E) /\ ConflictFree(E)
      /\ ecs[r].c \in CutOf(E)
      /\ Rd(r) \subseteq E
      /\ \A c \in CutOf(E) : Readers(c) \cap E \subseteq Rd(r)
      /\ ~ IsComp(r) => /\ ecs[r].hs = {ecs[r].h}
                        /\ ecs[r].r1 # 0 => /\ ecs[r].r1 \in hists[ecs[r].h].ecl
                                            /\ ecs[ecs[r].r1].c = ecs[r].c

(* Two enriched conditions of one condition whose histories fit together.  *)
Joined(r, rp) ==
  /\ ecs[r].c = ecs[rp].c
  /\ Compose(ConfOf(r), ConfOf(rp))
  /\ ecs[r].c \in CutOf(ConfOf(r) \cup ConfOf(rp))

(* What the lists say of two enriched conditions is so, at any time.       *)
Related ==
  /\ \A p \in co : /\ Concurrent(p[1], p[2])
                   /\ p \in dir <=> KeepsReaders(p[1], p[2])
                   /\ <<p[2], p[1]>> \in co
  /\ dir \subseteq co
  /\ \A p \in rco : Joined(p[1], p[2])
  /\ reader # 0 => ~ IsComp(reader)
  /\ \A rp \in combine : Joined(reader, rp)
  /\ \A s \in sols : \A p, q \in DOMAIN s.at :
       p # q => Joint(s.t, s.at[p], s.at[q])

Coherent ==
  /\ \A h \in DOMAIN hists : Assembled(h)
  /\ \A r \in DOMAIN ecs : EcSound(r)
  /\ Related

(* The second layer of the inductive invariant: what a prefix is made of.  *)
PrefixInv ==
  /\ Labelled
  /\ Searching
  /\ Grounded
  /\ UniqueEcls
  /\ OfPlainNets
  /\ NotBlack
  /\ Ordered
  /\ Marked
  /\ Layered
  /\ Coherent

(* The assertion of marking_add and what makes a cutoff sound: its         *)
(* corresponding history left the queue before, is not a cutoff, has the   *)
(* same marking and, unless a user picks the histories, is not greater in  *)
(* the order -- smaller, where the order may hold different ones for equal. *)
CutoffsJustified ==
  \A h \in DOMAIN hists :
    hists[h].corr \notin {0, h} =>
      LET g == hists[h].corr IN
      /\ hists[g].corr = 0
      /\ MarkingOf(EventsOf(hists[g].past)) = MarkingOf(EventsOf(hists[h].past))
      /\ ~ opt.interactive => /\ Cmp(hists, g, h) <= 0
                              /\ Cmp(hists, g, h) = 0 => HasTotalOrder(opt.order)

(* An event is a cutoff iff all its histories that left the queue are.     *)
CutoffEvents ==
  \A e \in DOMAIN events :
    events[e].iscutoff <=> \A h \in Popped : hists[h].e = e => hists[h].corr # 0

(* h_cmp is a total preorder on the histories of the prefix, which the heap *)
(* and the cutoffs rely on: its sign is antisymmetric, it is transitive,   *)
(* and a total order (see marking.c) holds two histories for equal only if *)
(* they fire the same transitions at the same depths.                      *)
OrderIsPreorder ==
  Done => LET H == DOMAIN hists
              C == [x \in H |-> [y \in H |-> Cmp(hists, x, y)]]
              Level(h, d) == {x \in hists[h].past : hists[x].depth = d}
              lab == [x \in H |-> events[hists[x].e].ft]
          IN \A x, y \in H :
    /\ C[x][y] < 0 <=> C[y][x] > 0
    /\ \A z \in H : C[x][y] <= 0 /\ C[y][z] <= 0
                     => C[x][z] <= 0 /\ (C[x][z] = 0 => C[x][y] = 0 /\ C[y][z] = 0)
    /\ C[x][y] = 0 /\ HasTotalOrder(opt.order) =>
         \A d \in 0..hists[x].depth, t \in net.trans :
           Count(Level(x, d), lab, t) = Count(Level(y, d), lab, t)

(* Histories leave the queue in non-decreasing order, unless a user picks. *)
PopsInOrder ==
  [][\A h \in queue \ queue' : ~ opt.interactive => Cmp(hists, cur, h) <= 0]_vars

(* Unless a user leads it the algorithm stops: there are finitely many     *)
(* markings, hence no infinite chain of histories without a cutoff.  If    *)
(* one does, the work on a history ends, and the user is asked again.      *)
Terminates == []<>(status # "run" \/ Done \/ Waits)

-----------------------------------------------------------------------------
(* Completeness of the finished prefix.                                    *)

(* Configurations of the prefix none of whose histories is a cutoff.       *)
Feasible ==
  {E \in SUBSET {hists[h].e : h \in {x \in DOMAIN hists : hists[x].corr = 0}} :
     /\ 1 \in E
     /\ IsConfiguration(E)
     /\ \A e \in E : \E h \in DOMAIN hists :
          /\ hists[h].e = e /\ hists[h].corr = 0
          /\ EventsOf(hists[h].past) = Below(E, e)}

(* Every reachable marking is the marking of such a configuration, and     *)
(* every transition enabled there labels an event that can extend it.      *)
Complete ==
  Done /\ Unbounded /\ SafeNet[net] =>
    LET F == Feasible IN
    \A m \in ReachableOf[net] : \E E \in F :
      /\ MarkingOf(E) = m
      /\ \A t \in net.trans : Enabled(net, m, t) =>
           \E e \in DOMAIN events :
             /\ events[e].ft = t
             /\ events[e].pre \cup events[e].cont \subseteq CutOf(E)

(* Section 1 of the manual: the unfolding is the finite marking-complete    *)
(* prefix, which represents every reachable marking.                       *)
MarkingComplete ==
  Done /\ Unbounded /\ SafeNet[net] =>
    LET F == Feasible IN \A m \in ReachableOf[net] : \E E \in F : MarkingOf(E) = m

-----------------------------------------------------------------------------
(* Nets that are not 1-safe.                                               *)

(* The program gives up on a net only if the net is really not 1-safe.     *)
UnsafeIsUnsafe == status = "unsafe" => ~ SafeNet[net]

(* Conversely it does not go on with two concurrent enriched conditions of *)
(* one place: what _ec_conc_add looks at before a pair is related finds    *)
(* every pair.                                                             *)
SafeCuts ==
  status = "run" =>
    \A r, rp \in DOMAIN ecs : Concurrent(r, rp) => Place(r) # Place(rp)

-----------------------------------------------------------------------------
(* Quotas.                                                                 *)

(* A round can overshoot the quotas for events, conditions and histories,  *)
(* but once one is exceeded between two rounds no history is ever added.   *)
OverAnyQuota ==
  \/ Len(events) > opt.maxev
  \/ Len(conds) > opt.maxcond
  \/ Len(hists) > opt.maxh

QuotaStops == [][Idle /\ OverAnyQuota => Idle' /\ Len(hists') = Len(hists)]_vars

-----------------------------------------------------------------------------
(* Interactive mode.                                                       *)

(* The assertion of marking_add: the history in the table is not greater   *)
(* than the one it makes a cutoff.                                         *)
CutoffAssertion ==
  \A h \in DOMAIN hists :
    hists[h].corr \notin {0, h} => Cmp(hists, hists[h].corr, h) <= 0
=============================================================================
