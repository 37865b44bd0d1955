---------------------------- MODULE CutoffProofs ----------------------------
(***************************************************************************)
(* The order in which histories leave the queue of possible extensions,    *)
(* their markings, and why a cutoff is one, for every net of NetsAssumption,*)
(* every order and every command line.  On top of ConcurrencyProofs.       *)
(***************************************************************************)
EXTENDS ConcurrencyProofs, Cuf

(* h_cmp compares sizes first.                                             *)
BySize ==
  TypeOK => \A x, y \in DOMAIN hists :
    /\ IsFiniteSet(hists[x].past)
    /\ Cardinality(hists[x].past) \in Nat /\ Cardinality(hists[y].past) \in Nat
    /\ Cmp(hists, x, y) <= 0
         => Cardinality(hists[x].past) <= Cardinality(hists[y].past)
    /\ Cardinality(hists[x].past) < Cardinality(hists[y].past)
         => Cmp(hists, x, y) <= 0

LEMMA CmpSizes == BySize
<1> SUFFICES ASSUME TypeOK, NEW x \in DOMAIN hists, NEW y \in DOMAIN hists
             PROVE  /\ IsFiniteSet(hists[x].past)
                    /\ Cardinality(hists[x].past) \in Nat /\ Cardinality(hists[y].past) \in Nat
                    /\ Cmp(hists, x, y) <= 0
                         => Cardinality(hists[x].past) <= Cardinality(hists[y].past)
                    /\ Cardinality(hists[x].past) < Cardinality(hists[y].past)
                         => Cmp(hists, x, y) <= 0
  BY DEF BySize
<1> DEFINE m == Cardinality(hists[x].past)
           n == Cardinality(hists[y].past)
<1>1. /\ hists[x].past \subseteq 1..Len(hists)
      /\ hists[y].past \subseteq 1..Len(hists)
      /\ Len(hists) \in Nat
  BY Elements DEF HistType
<1>2. IsFiniteSet(1..Len(hists))
  BY <1>1, FS_Interval
<1>3. IsFiniteSet(hists[x].past) /\ m \in Nat /\ n \in Nat
  BY <1>1, <1>2, FS_Subset, FS_CardinalityType
<1>4. m # n => Cmp(hists, x, y) = m - n
  BY DEF Cmp, HCmp
<1> HIDE DEF m, n
<1>5. m # n => (Cmp(hists, x, y) <= 0 => m <= n) /\ (m < n => Cmp(hists, x, y) <= 0)
  BY <1>3, <1>4
<1>6. m = n => m <= n /\ ~ (m < n)
  BY <1>3
<1> QED
  BY <1>3, <1>5, <1>6 DEF m, n

LEMMA CmpSizesNext == BySize'
BY CmpSizes, PTL

(* What is in the prefix stays as it is, but for the cutoffs.              *)
LEMMA PrefixStable ==
  ASSUME IInv, [Next]_vars
  PROVE  /\ opt' = opt /\ net' = net
         /\ DOMAIN hists \subseteq DOMAIN hists'
         /\ \A z \in DOMAIN hists : /\ hists'[z].e = hists[z].e
                                    /\ hists'[z].past = hists[z].past
                                    /\ hists'[z].depth = hists[z].depth
         /\ \A e \in DOMAIN events : /\ e \in DOMAIN events'
                                     /\ events'[e].ft = events[e].ft
                                     /\ events'[e].pre = events[e].pre
<1>1. CASE Still
  BY <1>1, StillFrame
<1>2. ASSUME NEW ec, Enriches(ec) PROVE UNCHANGED <<opt, net, hists, events>>
  BY <1>2, EnrichesFrame
<1>3. CASE \E s \in sols : Solve(s)
  <2>1. PICK s \in sols : Solve(s)
    BY <1>3
  <2>2. /\ opt' = opt /\ net' = net
        /\ DOMAIN hists \subseteq DOMAIN hists'
        /\ \A z \in DOMAIN hists : hists'[z] = hists[z]
    BY <2>1, SolveFrame
  <2>3. \A e \in DOMAIN events : e \in DOMAIN events' /\ events'[e] = events[e]
    BY <2>1, SolveEvent
  <2> QED
    BY <2>2, <2>3
<1>4. CASE \E h \in queue : Pops(h)
  <2>1. PICK h \in queue : Pops(h)
    BY <1>4
  <2>2. Add(h) /\ opt' = opt /\ net' = net
    BY <2>1, AddFrame DEF Pops
  <2> QED
    BY <2>2, AddHists, AddEvents
<1> QED
  BY <1>1, <1>2, <1>3, <1>4, StepCases

(* So is the order of the histories that are there.                        *)
LEMMA CmpStable ==
  ASSUME IInv, [Next]_vars, NEW x \in DOMAIN hists, NEW y \in DOMAIN hists
  PROVE  Cmp(hists, x, y)' = Cmp(hists, x, y)
<1> DEFINE nodes == hists[x].past \cup hists[y].past
<1>1. nodes \subseteq DOMAIN hists
  BY Elements DEF IInv, HistType
<1>2. /\ opt' = opt
      /\ hists'[x].past = hists[x].past /\ hists'[y].past = hists[y].past
  BY PrefixStable
<1>3. \A z \in nodes : /\ events'[hists'[z].e].ft = events[hists[z].e].ft
                       /\ hists'[z].depth = hists[z].depth
  BY <1>1, PrefixStable, Elements DEF IInv, HistType
<1> HIDE DEF nodes
<1>4. /\ [z \in nodes |-> events'[hists'[z].e].ft] = [z \in nodes |-> events[hists[z].e].ft]
      /\ [z \in nodes |-> hists'[z].depth] = [z \in nodes |-> hists[z].depth]
  BY <1>3
<1> QED
  BY <1>2, <1>4 DEF Cmp, nodes

-----------------------------------------------------------------------------
(* The order in which histories leave the queue.                           *)

(* A solution's history is larger than the one that is being worked on.    *)
LEMMA SolveLarger ==
  ASSUME IInv, IInv', Searching, NEW s \in sols, Solve(s)
  PROVE  Cardinality(hists[cur].past) < Cardinality(hists'[Len(hists) + 1].past)
<1>0. PICK id : id = Len(hists) + 1
  OBVIOUS
<1>1. /\ id \notin DOMAIN hists /\ id \in DOMAIN hists'
      /\ hists'[id] = NewHistory(events', EventOf(s), Nod(s), Ecl(s))
  BY <1>0, SolveFrame
<1>2. hists'[id].past = {id} \cup UNION {hists[x].past : x \in Nod(s)}
  BY <1>0, <1>1 DEF NewHistory
<1>3. cur \in Nod(s)
  <2>1. Newest \in Ecl(s) /\ cur \in ecs[Newest].hs
    BY DEF Searching
  <2> QED
    BY <2>1 DEF Nod
<1> DEFINE P == hists[cur].past
           Q == hists'[id].past
<1>4. P \subseteq Q /\ id \in Q /\ id \notin P
  <2>1. cur \in DOMAIN hists
    BY DEF IInv, TypeOK
  <2>2. P \subseteq DOMAIN hists
    BY <2>1, Elements DEF IInv, HistType
  <2> QED
    BY <1>1, <1>2, <1>3, <2>2
<1>5. IsFiniteSet(Q)
  <2>1. TypeOK'
    BY DEF IInv
  <2> QED
    BY <1>1, <2>1, CmpSizesNext DEF BySize
<1> HIDE DEF P, Q
<1>6. IsFiniteSet(P) /\ Cardinality(P) <= Cardinality(Q) /\ Cardinality(P) # Cardinality(Q)
  BY <1>4, <1>5, FS_Subset
<1>7. Cardinality(P) \in Nat /\ Cardinality(Q) \in Nat
  BY <1>5, <1>6, FS_CardinalityType
<1> QED
  BY <1>0, <1>6, <1>7 DEF P, Q

LEMMA OrderedSolve ==
  ASSUME IInv, IInv', [Next]_vars, Searching, Ordered, NEW s \in sols, Solve(s)
  PROVE  Ordered'
<1>0. PICK id : id = Len(hists) + 1
  OBVIOUS
<1>1. /\ cur' = cur /\ opt' = opt
      /\ queue' = queue \cup {id}
      /\ DOMAIN hists' = DOMAIN hists \cup {id} /\ id \notin DOMAIN hists
      /\ \A x \in DOMAIN hists : hists'[x] = hists[x]
  BY <1>0, SolveFrame
<1>2. Popped' = Popped /\ Popped \subseteq DOMAIN hists /\ queue \subseteq DOMAIN hists
  BY <1>1 DEF Popped, IInv, TypeOK
<1>3. cur \in Popped
  BY DEF Ordered
<1> SUFFICES ASSUME ~ opt.interactive
             PROVE  /\ \A g \in Popped : Cardinality(hists'[g].past) <= Cardinality(hists'[cur].past)
                    /\ \A g \in Popped, x \in queue' : Cmp(hists, g, x)' <= 0
  BY <1>1, <1>2, <1>3 DEF Ordered
<1>4. \A g \in Popped : Cardinality(hists[g].past) <= Cardinality(hists[cur].past)
  BY DEF Ordered
<1>5. Cardinality(hists[cur].past) < Cardinality(hists'[id].past)
  BY <1>0, SolveLarger
<1>6. ASSUME NEW g \in Popped PROVE Cmp(hists, g, id)' <= 0
  <2>1. g \in DOMAIN hists' /\ id \in DOMAIN hists' /\ TypeOK'
    BY <1>1, <1>2 DEF IInv
  <2>2. /\ Cardinality(hists'[g].past) \in Nat /\ Cardinality(hists'[id].past) \in Nat
        /\ Cardinality(hists'[g].past) < Cardinality(hists'[id].past) => Cmp(hists, g, id)' <= 0
    BY <2>1, CmpSizesNext DEF BySize
  <2>3. Cardinality(hists[cur].past) \in Nat /\ hists'[g] = hists[g]
    BY <1>1, <1>2, <1>3, CmpSizes DEF BySize, IInv
  <2> QED
    BY <1>4, <1>5, <2>2, <2>3
<1>7. ASSUME NEW g \in Popped, NEW x \in queue PROVE Cmp(hists, g, x)' <= 0
  <2>1. Cmp(hists, g, x)' = Cmp(hists, g, x)
    BY <1>2, CmpStable
  <2> QED
    BY <2>1 DEF Ordered
<1> QED
  BY <1>1, <1>2, <1>3, <1>4, <1>6, <1>7

LEMMA OrderedPops ==
  ASSUME IInv, [Next]_vars, Ordered, NEW h \in queue, Pops(h)
  PROVE  Ordered'
<1>1. /\ cur' = h /\ opt' = opt /\ queue' = queue \ {h}
      /\ h \in DOMAIN hists /\ DOMAIN hists' = DOMAIN hists
      /\ \A x \in DOMAIN hists : hists'[x].past = hists[x].past
  BY AddFrame, AddHists DEF Pops
<1>2. Popped' = Popped \cup {h} /\ Popped \subseteq DOMAIN hists /\ queue \subseteq DOMAIN hists
  BY <1>1 DEF Popped, IInv, TypeOK
<1> SUFFICES ASSUME ~ opt.interactive
             PROVE  /\ \A g \in Popped' : Cardinality(hists'[g].past) <= Cardinality(hists'[h].past)
                    /\ \A g \in Popped', x \in queue' : Cmp(hists, g, x)' <= 0
  BY <1>1, <1>2 DEF Ordered
<1>3. \A g \in Popped, x \in queue : Cmp(hists, g, x) <= 0
  BY DEF Ordered
<1>4. \A x \in queue : Cmp(hists, h, x) <= 0
  BY DEF Pops, Minimal
<1>5. ASSUME NEW g \in Popped'
      PROVE  Cardinality(hists'[g].past) <= Cardinality(hists'[h].past)
  <2>1. Cmp(hists, g, h) <= 0
    BY <1>2, <1>3, <1>4
  <2>2. g \in DOMAIN hists
    BY <1>1, <1>2
  <2> QED
    BY <1>1, <2>1, <2>2, CmpSizes DEF BySize, IInv
<1>6. ASSUME NEW g \in Popped', NEW x \in queue'
      PROVE  Cmp(hists, g, x)' <= 0
  <2>1. Cmp(hists, g, x) <= 0
    BY <1>1, <1>2, <1>3, <1>4
  <2>2. Cmp(hists, g, x)' = Cmp(hists, g, x)
    BY <1>1, <1>2, CmpStable
  <2> QED
    BY <2>1, <2>2
<1> QED
  BY <1>5, <1>6

LEMMA OrderedNext ==
  ASSUME IInv, IInv', [Next]_vars, Searching, Ordered
  PROVE  Ordered'
<1>1. CASE UNCHANGED <<opt, hists, queue, cur>>
  <2>1. Popped' = Popped /\ Popped \subseteq DOMAIN hists /\ queue \subseteq DOMAIN hists
    BY <1>1 DEF Popped, IInv, TypeOK
  <2>2. \A g \in Popped, x \in queue : Cmp(hists, g, x)' = Cmp(hists, g, x)
    BY <2>1, CmpStable
  <2> QED
    BY <1>1, <2>1, <2>2 DEF Ordered
<1> QED
  BY <1>1, StepCases, StillFrame, EnrichesFrame, OrderedSolve, OrderedPops

LEMMA OrderedAlways == Spec => []Ordered
<1>1. Init => Ordered
  <2> SUFFICES ASSUME Init PROVE Ordered
    OBVIOUS
  <2>1. queue = {} /\ cur = 1 /\ DOMAIN hists = {1} /\ Popped = {1}
    BY DEF Init, Popped
  <2>2. Cardinality(hists[1].past) <= Cardinality(hists[1].past)
    <3>1. TypeOK
      BY InitInv DEF IInv
    <3> QED
      BY <2>1, <3>1, CmpSizes DEF BySize
  <2> QED
    BY <2>1, <2>2 DEF Ordered
<1>2. IInv /\ IInv' /\ [Next]_vars /\ Searching /\ Ordered => Ordered'
  BY OrderedNext
<1> QED
  BY <1>1, <1>2, Invariant, SearchingAlways, PTL DEF Spec

(* Histories leave the queue in non-decreasing order: the history that     *)
(* leaves is not smaller than the one that left before it.                 *)
THEOREM PopsOrdered == Spec => PopsInOrder
<1>1. Ordered => \A h \in queue : ~ opt.interactive => Cmp(hists, cur, h) <= 0
  BY DEF Ordered
<1>2. Ordered /\ [Next]_vars
        => [\A h \in queue \ queue' : ~ opt.interactive => Cmp(hists, cur, h) <= 0]_vars
  BY <1>1
<1> QED
  BY <1>2, OrderedAlways, PTL DEF Spec, PopsInOrder

-----------------------------------------------------------------------------
(* Markings.                                                               *)

(* The events of a history, and its own, do not change.                    *)
LEMMA MarkingParts ==
  ASSUME IInv, [Next]_vars, NEW x \in DOMAIN hists,
         NEW E, E = EventsOf(hists[x].past), NEW e, e = hists[x].e
  PROVE  /\ E \subseteq DOMAIN events /\ e \in DOMAIN events
         /\ MarkingFrom(x) = MarkingOf(E) \cup Fresh(events, e)
         /\ MarkingFrom(x)' = MarkingOf(E)' \cup Fresh(events, e)'
<1>1. hists[x].past \subseteq DOMAIN hists /\ e \in DOMAIN events
  BY Elements DEF IInv, HistType
<1>2. E \subseteq DOMAIN events
  BY <1>1, Elements DEF IInv, HistType, EventsOf
<1>3. hists'[x].past = hists[x].past /\ hists'[x].e = e
  BY PrefixStable
<1>4. \A z \in hists[x].past : hists'[z].e = hists[z].e
  BY <1>1, PrefixStable
<1>5. EventsOf(hists[x].past)' = E
  BY <1>3, <1>4 DEF EventsOf
<1>6. MarkingFrom(x)' = MarkingOf(E)' \cup Fresh(events, e)'
  BY <1>3, <1>5 DEF MarkingFrom
<1> QED
  BY <1>1, <1>2, <1>6 DEF MarkingFrom

(* Nor does the marking of a history, the conditions that are missing      *)
(* included, when other events are allocated ...                           *)
LEMMA MarkingSolve ==
  ASSUME IInv, [Next]_vars, NEW s \in sols, Solve(s), NEW x \in DOMAIN hists
  PROVE  MarkingFrom(x)' = MarkingFrom(x)
<1>0. PICK E : E = EventsOf(hists[x].past)
  OBVIOUS
<1>00. PICK e : e = hists[x].e
  OBVIOUS
<1>1. /\ E \subseteq DOMAIN events /\ e \in DOMAIN events
      /\ MarkingFrom(x) = MarkingOf(E) \cup Fresh(events, e)
      /\ MarkingFrom(x)' = MarkingOf(E)' \cup Fresh(events, e)'
  BY <1>0, <1>00, MarkingParts
<1>2. conds' = conds /\ net' = net
  BY SolveFrame
<1>3. \A f \in DOMAIN events : events'[f] = events[f]
  BY SolveEvent
<1>4. CutOf(E)' = CutOf(E)
  BY <1>1, <1>2, <1>3 DEF CutOf
<1>5. MarkingOf(E)' = MarkingOf(E)
  BY <1>2, <1>4 DEF MarkingOf
<1>6. Fresh(events, e)' = Fresh(events, e)
  BY <1>1, <1>2, <1>3 DEF Fresh, EventPost
<1> QED
  BY <1>1, <1>5, <1>6

(* ... or when the conditions of an event are: they were missing in all    *)
(* histories of the event, and no history holds the event otherwise.       *)
LEMMA MarkingAdd ==
  ASSUME IInv, [Next]_vars, Labelled, Marked, NEW h \in queue, Pops(h),
         NEW x \in DOMAIN hists
  PROVE  MarkingFrom(x)' = MarkingFrom(x)
<1>0. PICK E : E = EventsOf(hists[x].past)
  OBVIOUS
<1>00. PICK e : e = hists[x].e
  OBVIOUS
<1>000. PICK d : d = hists[h].e
  OBVIOUS
<1>1. /\ E \subseteq DOMAIN events /\ e \in DOMAIN events
      /\ MarkingFrom(x) = MarkingOf(E) \cup Fresh(events, e)
      /\ MarkingFrom(x)' = MarkingOf(E)' \cup Fresh(events, e)'
  BY <1>0, <1>00, MarkingParts
<1>2. /\ net' = net
      /\ DOMAIN conds \subseteq DOMAIN conds'
      /\ \A c \in DOMAIN conds : conds'[c] = conds[c]
  BY AddFrame
<1>3. \A f \in DOMAIN events : events'[f].ft = events[f].ft /\ events'[f].pre = events[f].pre
  BY AddEvents DEF Pops
<1> DEFINE new == DOMAIN conds' \ DOMAIN conds
           P   == {c \in DOMAIN conds' : conds'[c].pre = d}
<1>4. /\ \A c \in new : conds'[c].pre = d
      /\ conds' = conds \/ EventPost(d) = {}
      /\ {conds'[c].fp : c \in P} = net.post[events[d].ft]
  BY <1>000, AddConds
<1>5. CASE conds' = conds
  <2>1. CutOf(E)' = CutOf(E)
    BY <1>1, <1>3, <1>5 DEF CutOf
  <2>2. MarkingOf(E)' = MarkingOf(E)
    BY <1>5, <2>1 DEF MarkingOf
  <2>3. Fresh(events, e)' = Fresh(events, e)
    BY <1>1, <1>2, <1>3, <1>5 DEF Fresh, EventPost
  <2> QED
    BY <1>1, <2>2, <2>3
<1>6. CASE conds' # conds
  <2>1. EventPost(d) = {}
    BY <1>4, <1>6
  <2>2. P = new
    BY <1>2, <1>4, <2>1 DEF EventPost
  <2>3. {conds'[c].fp : c \in new} = net.post[events[d].ft]
    BY <1>4, <2>2
  <2>4. \A f \in E : events[f].pre \subseteq DOMAIN conds
    BY <1>1, Elements DEF IInv, EventType
  <2>5. CutOf(E)' = CutOf(E) \cup (IF d \in E THEN new ELSE {})
    BY <1>1, <1>2, <1>3, <1>4, <2>4 DEF CutOf
  <2> HIDE DEF new, P
  <2>6. {conds'[c].fp : c \in CutOf(E)} = MarkingOf(E)
    BY <1>2 DEF CutOf, MarkingOf
  <2>7. MarkingOf(E)' = MarkingOf(E) \cup (IF d \in E THEN net.post[events[d].ft] ELSE {})
    <3>1. MarkingOf(E)' = {conds'[c].fp : c \in CutOf(E)'}
      BY DEF MarkingOf
    <3>2. CASE d \in E
      BY <2>3, <2>5, <2>6, <3>1, <3>2
    <3>3. CASE d \notin E
      BY <2>5, <2>6, <3>1, <3>3
    <3> QED
      BY <3>2, <3>3
  <2>8. CASE e = d
    <3>1. d \in E
      BY <1>0, <1>00, <2>8 DEF Marked, EventsOf
    <3>2. Fresh(events, e) = net.post[events[d].ft]
      BY <2>1, <2>8 DEF Fresh
    <3>3. EventPost(e)' = new
      BY <2>2, <2>8 DEF EventPost, P
    <3>4. Fresh(events, e)' = {}
      <4>1. CASE new = {}
        <5>1. net.post[events[d].ft] = {}
          BY <2>3, <4>1
        <5> QED
          BY <1>1, <1>2, <1>3, <2>8, <5>1 DEF Fresh
      <4>2. CASE new # {}
        BY <3>3, <4>2 DEF Fresh
      <4> QED
        BY <4>1, <4>2
    <3> QED
      BY <1>1, <2>7, <3>1, <3>2, <3>4
  <2>9. CASE e # d
    <3>1. EventPost(e)' = EventPost(e)
      BY <1>2, <1>4, <2>9 DEF EventPost, new
    <3>2. Fresh(events, e)' = Fresh(events, e)
      BY <1>1, <1>2, <1>3, <3>1 DEF Fresh
    <3>3. d \in E => net.post[events[d].ft] = {}
      <4> SUFFICES ASSUME d \in E PROVE net.post[events[d].ft] = {}
        OBVIOUS
      <4>1. PICK z \in hists[x].past : hists[z].e = d
        BY <1>0 DEF EventsOf
      <4>2. z # x /\ z \in DOMAIN hists /\ hists[z].corr = 0
        BY <1>00, <2>9, <4>1, Elements DEF IInv, HistType, BuiltOnNonCutoffs
      <4>3. z \notin queue
        <5>1. 0 \notin DOMAIN hists
          BY Elements DEF IInv
        <5> QED
          BY <4>2, <5>1 DEF IInv, Discipline
      <4>4. Fresh(events, d) = {}
        BY <4>1, <4>2, <4>3 DEF Marked, Popped
      <4> QED
        BY <2>1, <4>4 DEF Fresh
    <3> QED
      BY <1>1, <2>7, <3>2, <3>3
  <2> QED
    BY <2>8, <2>9
<1> QED
  BY <1>5, <1>6

(* h_marking computes the marking of the new history.                      *)
LEMMA MarkingNew ==
  ASSUME IInv, NEW s \in sols, Solve(s), NEW id, id = Len(hists) + 1
  PROVE  /\ id \in hists'[id].past
         /\ hists'[id].marking = MarkingFrom(id)'
<1>0. PICK e : e = EventOf(s)
  OBVIOUS
<1>1. /\ conds' = conds /\ net' = net
      /\ id \notin DOMAIN hists
      /\ \A x \in DOMAIN hists : hists'[x] = hists[x]
      /\ hists'[id] = NewHistory(events', e, Nod(s), Ecl(s))
  BY <1>0, SolveFrame
<1> DEFINE past == {id} \cup UNION {hists[x].past : x \in Nod(s)}
           evs  == {e} \cup EventsOf(past \ {id})
           used == UNION {events'[x].pre : x \in evs}
           cut  == {c \in DOMAIN conds : conds[c].pre \in evs /\ c \notin used}
<1>2. /\ hists'[id].e = e /\ hists'[id].past = past
      /\ hists'[id].marking = {conds[c].fp : c \in cut} \cup Fresh(events', e)
  BY <1>1 DEF NewHistory
<1>3. past \ {id} \subseteq DOMAIN hists /\ id \in past
  BY SolutionFacts, Elements DEF IInv, HistType
<1> HIDE DEF past
<1>4. EventsOf(hists[id].past)' = evs
  <2>1. EventsOf(hists[id].past)' = {hists'[z].e : z \in past}
    BY <1>2 DEF EventsOf
  <2>2. {hists'[z].e : z \in past} = {e} \cup {hists[z].e : z \in past \ {id}}
    BY <1>1, <1>2, <1>3
  <2> QED
    BY <2>1, <2>2 DEF EventsOf
<1>5. PICK E : E = evs
  OBVIOUS
<1>6. CutOf(E)' = cut
  BY <1>1, <1>5 DEF CutOf
<1>7. MarkingOf(E)' = {conds[c].fp : c \in cut}
  BY <1>1, <1>6 DEF MarkingOf
<1>8. MarkingOf(EventsOf(hists[id].past))' = {conds[c].fp : c \in cut}
  BY <1>4, <1>5, <1>7 DEF MarkingOf, CutOf
<1>9. Fresh(events, hists[id].e)' = Fresh(events', e)
  BY <1>1, <1>2 DEF Fresh, EventPost
<1> QED
  BY <1>2, <1>3, <1>8, <1>9 DEF MarkingFrom

LEMMA MarkedSolve ==
  ASSUME IInv, [Next]_vars, Marked, NEW s \in sols, Solve(s)
  PROVE  Marked'
<1>0. PICK id : id = Len(hists) + 1
  OBVIOUS
<1>1. /\ conds' = conds /\ net' = net
      /\ queue' = queue \cup {id}
      /\ DOMAIN hists' = DOMAIN hists \cup {id} /\ id \notin DOMAIN hists
      /\ \A x \in DOMAIN hists : hists'[x] = hists[x]
  BY <1>0, SolveFrame
<1>2. Popped' = Popped /\ Popped \subseteq DOMAIN hists
  BY <1>1 DEF Popped
<1>3. ASSUME NEW x \in DOMAIN hists'
      PROVE  /\ x \in hists'[x].past
             /\ x \in queue' \/ hists'[x].corr = 0 => hists'[x].marking = MarkingFrom(x)'
  <2>1. CASE x = id
    BY <1>0, <2>1, MarkingNew
  <2>2. CASE x \in DOMAIN hists
    <3>1. MarkingFrom(x)' = MarkingFrom(x)
      BY <2>2, MarkingSolve
    <3>2. hists'[x] = hists[x] /\ (x \in queue' => x \in queue)
      BY <1>1, <2>2
    <3> QED
      BY <2>2, <3>1, <3>2 DEF Marked
  <2> QED
    BY <1>1, <2>1, <2>2
<1>4. ASSUME NEW x \in Popped
      PROVE  Fresh(events, hists[x].e)' = {} /\ hists'[x].corr # x
  <2>1. x \in DOMAIN hists /\ hists'[x] = hists[x] /\ hists[x].e \in DOMAIN events
    BY <1>1, <1>2, Elements DEF IInv, HistType
  <2>2. events'[hists[x].e] = events[hists[x].e]
    BY <2>1, SolveEvent
  <2>3. Fresh(events, hists[x].e)' = Fresh(events, hists[x].e)
    BY <1>1, <2>1, <2>2 DEF Fresh, EventPost
  <2> QED
    BY <2>1, <2>3 DEF Marked
<1> QED
  BY <1>2, <1>3, <1>4 DEF Marked

LEMMA MarkedPops ==
  ASSUME IInv, [Next]_vars, Labelled, Marked, NEW h \in queue, Pops(h)
  PROVE  Marked'
<1>1. /\ queue' = queue \ {h} /\ h \in DOMAIN hists /\ DOMAIN hists' = DOMAIN hists
      /\ \A x \in DOMAIN hists \ {h} : hists'[x] = hists[x]
      /\ \A x \in DOMAIN hists : hists'[x].e = hists[x].e /\ hists'[x].past = hists[x].past
  BY AddFrame, AddHists DEF Pops
<1>2. /\ IsCutoff(h) => hists'[h].corr = Corresponding(h)
      /\ ~ IsCutoff(h) => hists'[h].corr = 0 /\ hists'[h].marking = hists[h].marking
  BY AddHists DEF Pops
<1>3. 0 \notin DOMAIN hists /\ hists[h].corr = h
  BY Elements DEF IInv, Discipline
<1>4. IsCutoff(h) => Corresponding(h) # h /\ Corresponding(h) # 0
  BY <1>1, <1>3, CorrespondingFacts
<1>5. Popped' = Popped \cup {h} /\ Popped \subseteq DOMAIN hists
  BY <1>1 DEF Popped
<1>6. ASSUME NEW x \in DOMAIN hists'
      PROVE  /\ x \in hists'[x].past
             /\ x \in queue' \/ hists'[x].corr = 0 => hists'[x].marking = MarkingFrom(x)'
  <2>1. MarkingFrom(x)' = MarkingFrom(x)
    BY <1>1, MarkingAdd
  <2>2. CASE x = h
    <3>1. hists[h].marking = MarkingFrom(h) /\ h \in hists[h].past
      BY <1>1 DEF Marked
    <3> QED
      BY <1>1, <1>2, <1>4, <2>1, <2>2, <3>1
  <2>3. CASE x # h
    BY <1>1, <2>1, <2>3 DEF Marked
  <2> QED
    BY <2>2, <2>3
<1>7. ASSUME NEW x \in Popped'
      PROVE  Fresh(events, hists[x].e)' = {} /\ hists'[x].corr # x
  <2>0. PICK e : e = hists[x].e
    OBVIOUS
  <2>1. x \in DOMAIN hists /\ e \in DOMAIN events /\ hists'[x].e = e
    BY <1>1, <1>5, <2>0, Elements DEF IInv, HistType
  <2>2. /\ net' = net
        /\ DOMAIN conds \subseteq DOMAIN conds'
        /\ \A c \in DOMAIN conds : conds'[c] = conds[c]
    BY AddFrame
  <2>3. events'[e].ft = events[e].ft
    BY <2>1, AddEvents DEF Pops
  <2>4. CASE x = h
    <3>1. {conds'[c].fp : c \in EventPost(e)'} = net.post[events[e].ft]
      BY <2>0, <2>4, AddConds DEF EventPost
    <3>2. EventPost(e)' = {} => net.post[events[e].ft] = {}
      BY <3>1
    <3>3. Fresh(events, e)' = {}
      BY <2>2, <2>3, <3>2 DEF Fresh
    <3>4. hists'[h].corr # h
      BY <1>1, <1>2, <1>3, <1>4
    <3> QED
      BY <2>1, <2>4, <3>3, <3>4 DEF Fresh, EventPost
  <2>5. CASE x # h
    <3>1. x \in Popped /\ hists'[x] = hists[x]
      BY <1>1, <1>5, <2>1, <2>5
    <3>2. Fresh(events, e) = {} /\ hists[x].corr # x
      BY <2>0, <3>1 DEF Marked
    <3>3. EventPost(e) # {} => EventPost(e)' # {}
      BY <2>2 DEF EventPost
    <3>4. Fresh(events, e)' = {}
      BY <2>2, <2>3, <3>2, <3>3 DEF Fresh
    <3> QED
      BY <2>1, <3>1, <3>2, <3>4 DEF Fresh, EventPost
  <2> QED
    BY <2>4, <2>5
<1> QED
  BY <1>6, <1>7 DEF Marked

LEMMA MarkedNext ==
  ASSUME IInv, Labelled, Marked, [Next]_vars
  PROVE  Marked'
<1>1. CASE UNCHANGED <<net, events, conds, hists, queue>>
  <2>1. Popped' = Popped
    BY <1>1 DEF Popped
  <2>2. ASSUME NEW h PROVE Fresh(events, hists[h].e)' = Fresh(events, hists[h].e)
    BY <1>1 DEF Fresh, EventPost
  <2>3. ASSUME NEW h PROVE MarkingFrom(h)' = MarkingFrom(h)
    <3>1. EventsOf(hists[h].past)' = EventsOf(hists[h].past)
      BY <1>1 DEF EventsOf
    <3> QED
      BY <1>1, <2>2, <3>1 DEF MarkingFrom, MarkingOf, CutOf
  <2> QED
    BY <1>1, <2>1, <2>2, <2>3 DEF Marked
<1> QED
  BY <1>1, StepCases, StillFrame, EnrichesFrame, MarkedSolve, MarkedPops

LEMMA MarkedInit == Init => Marked
<1> SUFFICES ASSUME Init PROVE Marked
  OBVIOUS
<1>1. Labelled /\ IInv
  BY LabelledInit, InitInv
<1>2. /\ queue = {} /\ DOMAIN hists = {1}
      /\ hists[1].e = 1 /\ hists[1].past = {1} /\ hists[1].corr = 0
      /\ hists[1].marking = net.post[T0]
  BY DEF Init
<1>3. events = <<[ft |-> T0, pre |-> {}, cont |-> {}, iscutoff |-> FALSE]>>
  BY DEF Init
<1>4. DOMAIN events = {1} /\ events[1].ft = T0 /\ events[1].pre = {}
  BY <1>3
<1>5. EventPost(1) = DOMAIN conds
  <2>1. \A c \in DOMAIN conds : conds[c].pre = 1
    BY <1>1, <1>4, Elements DEF IInv, CondType
  <2> QED
    BY <2>1 DEF EventPost
<1>6. EventPost(1) # {}
  <2>1. IsNet(net) /\ IsFiniteSet(net.post[T0])
    BY <1>1, NetFacts DEF IInv, TypeOK
  <2>2. net.post[T0] # {}
    BY <2>1 DEF IsNet
  <2> DEFINE m0 == SetToSeq(net.post[T0])
             n  == Cardinality(net.post[T0])
  <2>3. conds = [i \in DOMAIN m0 |-> [pre |-> 1, fp |-> m0[i]]]
    BY DEF Init
  <2>4. m0 \in [1..n -> net.post[T0]] /\ \E i \in 1..n : TRUE
    BY <2>1, <2>2, SetToSeqBijection
  <2> HIDE DEF m0, n
  <2>5. DOMAIN conds = 1..n
    BY <2>3, <2>4
  <2> QED
    BY <1>5, <2>4, <2>5
<1>7. {conds[c].fp : c \in EventPost(1)} = net.post[T0]
  BY <1>1, <1>4, <1>6 DEF Labelled, Label, OnePerPlace
<1>8. Fresh(events, 1) = {}
  BY <1>6 DEF Fresh
<1>9. EventsOf({1}) = {1}
  BY <1>2 DEF EventsOf
<1>10. CutOf({1}) = EventPost(1)
  BY <1>4 DEF CutOf, EventPost
<1>11. MarkingFrom(1) = net.post[T0]
  BY <1>2, <1>7, <1>8, <1>9, <1>10 DEF MarkingFrom, MarkingOf
<1> QED
  BY <1>2, <1>8, <1>11 DEF Marked, Popped

LEMMA MarkedAlways == Spec => []Marked
<1>1. IInv /\ Labelled /\ Marked /\ [Next]_vars => Marked'
  BY MarkedNext
<1> QED
  BY <1>1, MarkedInit, Invariant, LabelledAlways, PTL DEF Spec

-----------------------------------------------------------------------------
(* The layers of a history: what is below it, and how deep it is.          *)
LEMMA LayeredSolve ==
  ASSUME IInv, IInv', Layered, NEW s \in sols, Solve(s)
  PROVE  Layered'
<1>0. PICK id : id = Len(hists) + 1
  OBVIOUS
<1>1. /\ DOMAIN hists' = DOMAIN hists \cup {id} /\ id \notin DOMAIN hists
      /\ \A x \in DOMAIN hists : hists'[x] = hists[x]
      /\ hists'[id] = NewHistory(events', EventOf(s), Nod(s), Ecl(s))
  BY <1>0, SolveFrame
<1>2. /\ DOMAIN hists = 1..Len(hists) /\ Len(hists) \in Nat
      /\ \A x \in DOMAIN hists : /\ hists[x].past \subseteq DOMAIN hists
                                 /\ hists[x].depth \in Nat
  BY Elements DEF IInv, HistType
<1>3. Nod(s) \subseteq DOMAIN hists /\ Nod(s) # {}
  BY SolutionFacts
<1>4. hists'[id].past = {id} \cup UNION {hists[x].past : x \in Nod(s)}
  BY <1>0, <1>1 DEF NewHistory
<1>5. PICK n \in Nod(s) : hists'[id].depth = hists[n].depth + 1
  <2> DEFINE deep == {hists[x].depth + 1 : x \in Nod(s)}
  <2>1. hists'[id].depth = CHOOSE d \in deep : \A k \in deep : k <= d
    <3>1. ASSUME NEW E, NEW e, NEW nod, NEW ecl
          PROVE  NewHistory(E, e, nod, ecl).depth =
                   CHOOSE d \in {hists[x].depth + 1 : x \in nod} :
                     \A k \in {hists[x].depth + 1 : x \in nod} : k <= d
      BY DEF NewHistory
    <3>2. PICK E, e, nod, ecl : /\ E = events' /\ e = EventOf(s)
                                /\ nod = Nod(s) /\ ecl = Ecl(s)
      OBVIOUS
    <3>3. hists'[id] = NewHistory(E, e, nod, ecl)
      BY <1>1, <3>2
    <3>4. hists'[id].depth = CHOOSE d \in {hists[x].depth + 1 : x \in nod} :
                               \A k \in {hists[x].depth + 1 : x \in nod} : k <= d
      BY <3>1, <3>3
    <3> QED
      BY <3>2, <3>4
  <2>2. deep \in SUBSET Nat /\ deep # {} /\ \A k \in deep : k <= id
    <3>1. \A x \in Nod(s) : hists[x].depth \in 0..Len(hists)
      BY <1>3, Elements DEF IInv, HistType
    <3> QED
      BY <1>0, <1>2, <1>3, <3>1
  <2>3. \E d \in deep : \A k \in deep : k <= d
    <3>1. id \in Nat
      BY <1>0, <1>2
    <3> HIDE DEF deep
    <3> QED
      BY <2>2, <3>1, NatMax
  <2>4. hists'[id].depth \in deep
    BY <2>1, <2>3
  <2> QED
    BY <2>4
<1>6. n \in DOMAIN hists /\ hists[n].past \subseteq hists'[id].past
      /\ id \notin hists[n].past /\ id \in hists'[id].past
  BY <1>1, <1>2, <1>3, <1>4, <1>5
<1>7. Cardinality(hists[n].past) < Cardinality(hists'[id].past)
  <2> DEFINE P == hists[n].past
             Q == hists'[id].past
  <2>1. TypeOK' /\ id \in DOMAIN hists'
    BY <1>1 DEF IInv
  <2>2. IsFiniteSet(Q)
    BY <2>1, CmpSizesNext DEF BySize
  <2>3. P \subseteq Q /\ P # Q
    BY <1>6
  <2> HIDE DEF P, Q
  <2>4. IsFiniteSet(P) /\ Cardinality(P) <= Cardinality(Q) /\ Cardinality(P) # Cardinality(Q)
    BY <2>2, <2>3, FS_Subset
  <2>5. Cardinality(P) \in Nat /\ Cardinality(Q) \in Nat
    BY <2>2, <2>4, FS_CardinalityType
  <2> QED
    BY <2>4, <2>5 DEF P, Q
<1>8. hists[n].depth \in Nat /\ hists[n].depth < Cardinality(hists[n].past)
  BY <1>2, <1>6 DEF Layered
<1>9. hists'[id].depth # 0 /\ id # 1 /\ 1 \in hists'[id].past
  BY <1>0, <1>2, <1>5, <1>6, <1>8 DEF Layered
<1>10. hists'[id].depth < Cardinality(hists'[id].past)
  <2>1. PICK k \in Nat : k = hists[n].depth
    BY <1>8
  <2>2. PICK p \in Int : p = Cardinality(hists[n].past)
    <3>1. TypeOK
      BY DEF IInv
    <3> QED
      BY <1>6, <3>1, CmpSizes, FS_CardinalityType DEF BySize
  <2>3. PICK q \in Int : q = Cardinality(hists'[id].past)
    <3>1. TypeOK' /\ id \in DOMAIN hists'
      BY <1>1 DEF IInv
    <3> QED
      BY <3>1, CmpSizesNext, FS_CardinalityType DEF BySize
  <2> QED
    BY <1>5, <1>7, <1>8, <2>1, <2>2, <2>3
<1>11. ASSUME NEW x \in hists'[id].past
       PROVE  x <= id /\ hists'[x].past \subseteq hists'[id].past
  <2>1. CASE x = id
    BY <1>0, <1>2, <2>1
  <2>2. CASE x # id
    <3>1. PICK m \in Nod(s) : x \in hists[m].past
      BY <1>4, <1>11, <2>2
    <3>2. m \in DOMAIN hists /\ x \in DOMAIN hists
      BY <1>2, <1>3, <3>1
    <3>3. hists[x].past \subseteq hists[m].past
      BY <3>1, <3>2 DEF Layered
    <3> QED
      BY <1>0, <1>1, <1>2, <1>4, <3>1, <3>2, <3>3
  <2> QED
    BY <2>1, <2>2
<1>12. ASSUME NEW h \in DOMAIN hists
       PROVE  /\ 1 \in hists'[h].past
              /\ hists'[h].depth = 0 <=> h = 1
              /\ hists'[h].depth < Cardinality(hists'[h].past)
              /\ \A x \in hists'[h].past : x <= h /\ hists'[x].past \subseteq hists'[h].past
  <2>1. hists'[h] = hists[h] /\ \A x \in hists[h].past : hists'[x] = hists[x]
    BY <1>1, <1>2
  <2> QED
    BY <2>1 DEF Layered
<1> QED
  BY <1>1, <1>9, <1>10, <1>11, <1>12 DEF Layered

LEMMA LayeredKept ==
  ASSUME IInv, Layered, DOMAIN hists' = DOMAIN hists,
         \A x \in DOMAIN hists : /\ hists'[x].past = hists[x].past
                                 /\ hists'[x].depth = hists[x].depth
  PROVE  Layered'
<1>1. \A h \in DOMAIN hists : hists[h].past \subseteq DOMAIN hists
  BY Elements DEF IInv, HistType
<1> QED
  BY <1>1 DEF Layered

LEMMA LayeredNext ==
  ASSUME IInv, IInv', Layered, [Next]_vars
  PROVE  Layered'
<1>1. CASE hists' = hists
  BY <1>1, LayeredKept
<1>2. ASSUME NEW h \in queue, Pops(h) PROVE Layered'
  <2>1. /\ DOMAIN hists' = DOMAIN hists
        /\ \A x \in DOMAIN hists : /\ hists'[x].past = hists[x].past
                                   /\ hists'[x].depth = hists[x].depth
    BY <1>2, AddHists DEF Pops
  <2> QED
    BY <2>1, LayeredKept
<1> QED
  BY <1>1, <1>2, StepCases, StillFrame, EnrichesFrame, LayeredSolve

LEMMA LayeredInit == Init => Layered
<1> SUFFICES ASSUME Init PROVE Layered
  OBVIOUS
<1>1. DOMAIN hists = {1} /\ hists[1].past = {1} /\ hists[1].depth = 0
  BY DEF Init
<1>2. Cardinality({1}) = 1
  BY FS_Singleton
<1> QED
  BY <1>1, <1>2 DEF Layered

LEMMA LayeredAlways == Spec => []Layered
<1>1. IInv /\ IInv' /\ Layered /\ [Next]_vars => Layered'
  BY LayeredNext
<1> QED
  BY <1>1, LayeredInit, Invariant, PTL DEF Spec

-----------------------------------------------------------------------------
(* The invariant of the prefix as a whole.                                 *)
THEOREM PrefixInvariant == Spec => []PrefixInv
<1>1. Labelled /\ Searching /\ Grounded /\ UniqueEcls /\ OfPlainNets /\ NotBlack
        /\ Ordered /\ Marked /\ Layered /\ Coherent => PrefixInv
  BY DEF PrefixInv
<1> QED
  BY <1>1, LabelledAlways, SearchingAlways, GroundedAlways, UniqueEclsAlways,
     OfPlainNetsAlways, NotBlackAlways, OrderedAlways, MarkedAlways,
     LayeredAlways, CoherentAlways, PTL

-----------------------------------------------------------------------------
(* Cutoffs.                                                                *)

(* What CutoffsJustified says of the cutoff h and its history g, with      *)
(* markings that do not change when conditions are allocated.              *)
JustifiedBy(g, h) ==
  /\ g \in DOMAIN hists /\ hists[g].corr = 0
  /\ MarkingFrom(g) = MarkingFrom(h)
  /\ ~ opt.interactive => /\ Cmp(hists, g, h) <= 0
                          /\ Cmp(hists, g, h) = 0 => HasTotalOrder(opt.order)

Justified == \A h \in DOMAIN hists : hists[h].corr \notin {0, h} => JustifiedBy(hists[h].corr, h)

LEMMA MarkingStable ==
  ASSUME IInv, [Next]_vars, Labelled, Marked, NEW x \in DOMAIN hists
  PROVE  MarkingFrom(x)' = MarkingFrom(x)
<1>1. CASE UNCHANGED <<net, events, conds, hists>>
  <2>1. EventsOf(hists[x].past)' = EventsOf(hists[x].past)
    BY <1>1 DEF EventsOf
  <2>2. Fresh(events, hists[x].e)' = Fresh(events, hists[x].e)
    BY <1>1 DEF Fresh, EventPost
  <2> QED
    BY <1>1, <2>1, <2>2 DEF MarkingFrom, MarkingOf, CutOf
<1> QED
  BY <1>1, StepCases, StillFrame, EnrichesFrame, MarkingSolve, MarkingAdd

(* A justification stays one.                                              *)
LEMMA JustifiedByStable ==
  ASSUME IInv, [Next]_vars, Labelled, Marked, NEW h \in DOMAIN hists, NEW g, JustifiedBy(g, h)
  PROVE  JustifiedBy(g, h)'
<1>1. g \in DOMAIN hists /\ hists[g].corr = 0
  BY DEF JustifiedBy
<1>2. g \in DOMAIN hists'
  BY <1>1, PrefixStable
<1>3. hists'[g].corr = 0
  <2>1. CASE UNCHANGED hists
    BY <1>1, <2>1
  <2>2. CASE \E s \in sols : Solve(s)
    BY <1>1, <2>2, SolveFrame
  <2>3. ASSUME NEW x \in queue, Pops(x) PROVE hists'[g].corr = 0
    <3>1. g # x
      <4>1. 0 \notin DOMAIN hists
        BY Elements DEF IInv
      <4> QED
        BY <1>1, <4>1 DEF IInv, Discipline
    <3> QED
      BY <1>1, <2>3, <3>1, AddHists DEF Pops
  <2> QED
    BY <2>1, <2>2, <2>3, StepCases, StillFrame, EnrichesFrame
<1>4. MarkingFrom(g)' = MarkingFrom(h)'
  BY <1>1, MarkingStable DEF JustifiedBy
<1>5. opt' = opt /\ Cmp(hists, g, h)' = Cmp(hists, g, h)
  BY <1>1, PrefixStable, CmpStable
<1>6. ~ opt.interactive => /\ Cmp(hists, g, h) <= 0
                           /\ Cmp(hists, g, h) = 0 => HasTotalOrder(opt.order)
  BY DEF JustifiedBy
<1> QED
  BY <1>2, <1>3, <1>4, <1>5, <1>6 DEF JustifiedBy

(* marking_add has a reason for each cutoff: the entry of the table left   *)
(* the queue earlier, and where the order does not hold it for smaller the *)
(* order is total.                                                         *)
LEMMA CutoffJustified ==
  ASSUME IInv, Ordered, Marked, NEW h \in queue, IsCutoff(h)
  PROVE  JustifiedBy(Corresponding(h), h)
<1> DEFINE g == Corresponding(h)
<1>1. h \in DOMAIN hists
  BY DEF IInv, TypeOK
<1>2. g \in DOMAIN hists /\ hists[g].corr = 0
  BY <1>1, CorrespondingFacts
<1>3. hists[g].marking = hists[h].marking
  <2> DEFINE S == SameMarking(h)
  <2>1. S # {} /\ S \in SUBSET Nat
    BY Elements DEF IInv, IsCutoff, SameMarking
  <2>2. \E i \in S : \A j \in S : i <= j
    BY <2>1, NatMin
  <2>3. (CHOOSE i \in S : \A j \in S : i <= j) \in S
    BY <2>2
  <2> QED
    BY <2>3 DEF Corresponding, SameMarking
<1>4. g \in Popped
  <2>1. 0 \notin DOMAIN hists
    BY Elements DEF IInv
  <2> QED
    BY <1>2, <2>1 DEF Popped, IInv, Discipline
<1>5. MarkingFrom(g) = MarkingFrom(h)
  BY <1>1, <1>2, <1>3 DEF Marked
<1>6. ~ opt.interactive => Cmp(hists, g, h) <= 0
  BY <1>4 DEF Ordered
<1>7. Cmp(hists, g, h) = 0 => HasTotalOrder(opt.order)
  BY DEF IsCutoff
<1> QED
  BY <1>2, <1>5, <1>6, <1>7 DEF JustifiedBy

LEMMA JustifiedNext ==
  ASSUME IInv, Labelled, Ordered, Marked, Justified, [Next]_vars
  PROVE  Justified'
<1> SUFFICES ASSUME NEW x \in DOMAIN hists', hists'[x].corr \notin {0, x}
             PROVE  JustifiedBy(hists[x].corr, x)'
  BY DEF Justified
<1>0. PICK g : g = hists'[x].corr
  OBVIOUS
<1> SUFFICES JustifiedBy(g, x)'
  BY <1>0 DEF JustifiedBy
<1>1. CASE x \in DOMAIN hists /\ hists[x].corr = g
  BY <1>0, <1>1, JustifiedByStable DEF Justified
<1>2. CASE UNCHANGED hists
  BY <1>0, <1>1, <1>2
<1>3. ASSUME NEW s \in sols, Solve(s) PROVE JustifiedBy(g, x)'
  <2>0. PICK id : id = Len(hists) + 1
    OBVIOUS
  <2>1. /\ DOMAIN hists' = DOMAIN hists \cup {id}
        /\ \A y \in DOMAIN hists : hists'[y] = hists[y]
        /\ hists'[id] = NewHistory(events', EventOf(s), Nod(s), Ecl(s))
    BY <1>3, <2>0, SolveFrame
  <2>2. hists'[id].corr = id
    BY <2>0, <2>1 DEF NewHistory
  <2> QED
    BY <1>0, <1>1, <2>1, <2>2
<1>4. ASSUME NEW h \in queue, Pops(h) PROVE JustifiedBy(g, x)'
  <2>1. /\ h \in DOMAIN hists /\ DOMAIN hists' = DOMAIN hists
        /\ \A y \in DOMAIN hists \ {h} : hists'[y] = hists[y]
    BY <1>4, AddHists DEF Pops
  <2>2. /\ IsCutoff(h) => hists'[h].corr = Corresponding(h)
        /\ ~ IsCutoff(h) => hists'[h].corr = 0
    BY <1>4, AddHists DEF Pops
  <2>3. CASE x # h
    BY <1>0, <1>1, <2>1, <2>3
  <2>4. CASE x = h
    <3>1. IsCutoff(h) /\ g = Corresponding(h)
      BY <1>0, <2>2, <2>4
    <3>2. JustifiedBy(g, h)
      BY <3>1, CutoffJustified
    <3> QED
      BY <2>1, <2>4, <3>2, JustifiedByStable
  <2> QED
    BY <2>3, <2>4
<1> QED
  BY <1>2, <1>3, <1>4, StepCases, StillFrame, EnrichesFrame

(* Every cutoff has a corresponding history that is not a cutoff, has the  *)
(* same marking and is not greater in the order -- the premise of the      *)
(* completeness of the prefix, and the assertion of marking_add.           *)
THEOREM CutoffsSound == Spec => []CutoffsJustified
<1>1. Init => Justified
  <2> SUFFICES ASSUME Init PROVE Justified
    OBVIOUS
  <2>1. DOMAIN hists = {1} /\ hists[1].corr = 0
    BY DEF Init
  <2> QED
    BY <2>1 DEF Justified
<1>2. IInv /\ Labelled /\ Ordered /\ Marked /\ Justified /\ [Next]_vars => Justified'
  BY JustifiedNext
<1>3. IInv /\ Marked /\ Justified => CutoffsJustified
  <2> SUFFICES ASSUME IInv, Marked, Justified, NEW h \in DOMAIN hists, hists[h].corr \notin {0, h}
               PROVE  LET g == hists[h].corr IN
                      /\ hists[g].corr = 0
                      /\ MarkingOf(EventsOf(hists[g].past)) = MarkingOf(EventsOf(hists[h].past))
                      /\ ~ opt.interactive => /\ Cmp(hists, g, h) <= 0
                                              /\ Cmp(hists, g, h) = 0 => HasTotalOrder(opt.order)
    BY DEF CutoffsJustified
  <2> DEFINE g == hists[h].corr
  <2>1. JustifiedBy(g, h)
    BY DEF Justified
  <2>2. h \in Popped /\ g \in Popped
    <3>1. 0 \notin DOMAIN hists
      BY Elements DEF IInv
    <3> QED
      BY <2>1, <3>1 DEF JustifiedBy, Popped, IInv, Discipline
  <2>3. /\ MarkingFrom(g) = MarkingOf(EventsOf(hists[g].past))
        /\ MarkingFrom(h) = MarkingOf(EventsOf(hists[h].past))
    BY <2>2 DEF Marked, MarkingFrom
  <2> QED
    BY <2>1, <2>3 DEF JustifiedBy
<1>4. Spec => []Justified
  BY <1>1, <1>2, Invariant, LabelledAlways, OrderedAlways, MarkedAlways, PTL DEF Spec
<1> QED
  BY <1>3, <1>4, Invariant, MarkedAlways, PTL

(* The assertion alone, where no user picks the histories: see the run     *)
(* that refutes it for interactive mode.                                   *)
THEOREM AssertionHolds == Spec => [](~ opt.interactive => CutoffAssertion)
<1>1. CutoffsJustified => (~ opt.interactive => CutoffAssertion)
  BY DEF CutoffsJustified, CutoffAssertion
<1> QED
  BY <1>1, CutoffsSound, PTL

-----------------------------------------------------------------------------
(* The order of the histories.  A finite set of nodes read as a sorted word *)
(* of labels is a function from labels to numbers of occurrences, and of   *)
(* two words the smaller is the first in a dictionary.                     *)
Words == [Nat -> Nat]

WordOf(P, lab) == [t \in Nat |-> Count(P, lab, t)]

AgreeBelow(a, b, n) == \A u \in Nat : u < n => a[u] = b[u]

EndsAt(a, t)    == \A u \in Nat : u > t => a[u] = 0
GoesOn(a, t)    == \E u \in Nat : u > t /\ a[u] # 0

SmallerAt(a, b, t) ==
  /\ AgreeBelow(a, b, t)
  /\ \/ a[t] < b[t] /\ EndsAt(a, t)
     \/ a[t] > b[t] /\ GoesOn(b, t)

SmallerWord(a, b) == \E t \in Nat : SmallerAt(a, b, t)

(* Two different words first differ somewhere, and one of them is smaller. *)
LEMMA FirstDifference ==
  ASSUME NEW a \in Words, NEW b \in Words, a # b
  PROVE  \E t \in Nat : a[t] # b[t] /\ AgreeBelow(a, b, t)
<1> DEFINE D == {t \in Nat : a[t] # b[t]}
<1>1. D \in SUBSET Nat /\ D # {}
  BY DEF Words
<1>2. PICK m \in D : \A k \in D : m <= k
  BY <1>1, NatMin
<1>3. m \in Nat /\ a[m] # b[m]
  BY <1>2
<1>4. ASSUME NEW u \in Nat, u < m  PROVE a[u] = b[u]
  BY <1>2, <1>3, <1>4
<1> QED
  BY <1>3, <1>4 DEF AgreeBelow

LEMMA SmallerWordTotal ==
  ASSUME NEW a \in Words, NEW b \in Words
  PROVE  a = b \/ SmallerWord(a, b) \/ SmallerWord(b, a)
<1> SUFFICES ASSUME a # b  PROVE SmallerWord(a, b) \/ SmallerWord(b, a)
  OBVIOUS
<1>1. PICK t \in Nat : a[t] # b[t] /\ AgreeBelow(a, b, t)
  BY FirstDifference
<1>2. a[t] \in Nat /\ b[t] \in Nat
  BY DEF Words
<1>3. AgreeBelow(b, a, t)
  BY <1>1 DEF AgreeBelow
<1>4. \A c \in Words : EndsAt(c, t) \/ GoesOn(c, t)
  BY DEF Words, EndsAt, GoesOn
<1>5. CASE a[t] < b[t]
  <2>1. EndsAt(a, t) => SmallerAt(a, b, t)
    BY <1>1, <1>5 DEF SmallerAt
  <2>2. GoesOn(a, t) => SmallerAt(b, a, t)
    BY <1>2, <1>3, <1>5 DEF SmallerAt
  <2> QED
    BY <1>4, <2>1, <2>2 DEF SmallerWord
<1>6. CASE b[t] < a[t]
  <2>1. EndsAt(b, t) => SmallerAt(b, a, t)
    BY <1>3, <1>6 DEF SmallerAt
  <2>2. GoesOn(b, t) => SmallerAt(a, b, t)
    BY <1>1, <1>2, <1>6 DEF SmallerAt
  <2> QED
    BY <1>4, <2>1, <2>2 DEF SmallerWord
<1> QED
  BY <1>1, <1>2, <1>5, <1>6

LEMMA SmallerAtFirst ==
  ASSUME NEW a \in Words, NEW b \in Words, NEW t \in Nat, SmallerAt(a, b, t)
  PROVE  a[t] # b[t]
BY DEF SmallerAt, Words

LEMMA SmallerWordAsymmetric ==
  ASSUME NEW a \in Words, NEW b \in Words, SmallerWord(a, b)
  PROVE  ~ SmallerWord(b, a) /\ a # b
<1>1. PICK t \in Nat : SmallerAt(a, b, t)
  BY DEF SmallerWord
<1>2. a[t] # b[t] /\ AgreeBelow(a, b, t)
  BY <1>1, SmallerAtFirst DEF SmallerAt
<1>3. SUFFICES ASSUME NEW u \in Nat, SmallerAt(b, a, u)  PROVE FALSE
  BY <1>2 DEF SmallerWord
<1>4. a[u] # b[u] /\ AgreeBelow(b, a, u)
  BY <1>3, SmallerAtFirst DEF SmallerAt
<1>5. u = t
  <2>1. ~ (u < t) /\ ~ (t < u)
    BY <1>2, <1>4 DEF AgreeBelow
  <2> QED
    BY <2>1
<1>6. a[t] \in Nat /\ b[t] \in Nat
  BY DEF Words
<1>7. ~ (EndsAt(a, t) /\ GoesOn(a, t)) /\ ~ (EndsAt(b, t) /\ GoesOn(b, t))
  BY DEF EndsAt, GoesOn
<1> QED
  BY <1>1, <1>3, <1>5, <1>6, <1>7 DEF SmallerAt

LEMMA SmallerWordTransitive ==
  ASSUME NEW a \in Words, NEW b \in Words, NEW c \in Words,
         SmallerWord(a, b), SmallerWord(b, c)
  PROVE  SmallerWord(a, c)
<1>1. PICK t \in Nat : SmallerAt(a, b, t)
  BY DEF SmallerWord
<1>2. PICK u \in Nat : SmallerAt(b, c, u)
  BY DEF SmallerWord
<1>3. \A x \in Nat : a[x] \in Nat /\ b[x] \in Nat /\ c[x] \in Nat
  BY DEF Words
<1>4. CASE t < u
  <2>1. AgreeBelow(a, c, t) /\ c[t] = b[t]
    BY <1>1, <1>2, <1>4 DEF SmallerAt, AgreeBelow
  <2>2. CASE a[t] < b[t] /\ EndsAt(a, t)
    BY <2>1, <2>2 DEF SmallerWord, SmallerAt
  <2>3. CASE a[t] > b[t] /\ GoesOn(b, t)
    <3>1. PICK v \in Nat : v > t /\ b[v] # 0
      BY <2>3 DEF GoesOn
    <3>2. GoesOn(c, t)
      <4>1. CASE v < u
        BY <1>2, <3>1, <4>1 DEF SmallerAt, AgreeBelow, GoesOn
      <4>2. CASE ~ v < u /\ b[u] < c[u]
        <5>1. c[u] # 0 /\ u > t
          BY <1>3, <1>4, <4>2
        <5> QED
          BY <5>1 DEF GoesOn
      <4>3. CASE b[u] > c[u] /\ GoesOn(c, u)
        <5>1. PICK w \in Nat : w > u /\ c[w] # 0
          BY <4>3 DEF GoesOn
        <5>2. w > t
          BY <5>1, <1>4
        <5> QED
          BY <5>1, <5>2 DEF GoesOn
      <4> QED
        BY <1>2, <4>1, <4>2, <4>3 DEF SmallerAt
    <3> QED
      BY <2>1, <2>3, <3>2 DEF SmallerWord, SmallerAt
  <2> QED
    BY <1>1, <2>2, <2>3 DEF SmallerAt
<1>5. CASE u < t
  <2>1. AgreeBelow(a, c, u) /\ a[u] = b[u]
    BY <1>1, <1>2, <1>5 DEF SmallerAt, AgreeBelow
  <2>2. CASE b[u] < c[u] /\ EndsAt(b, u)
    <3>1. b[t] = 0 /\ EndsAt(b, t)
      BY <1>5, <2>2 DEF EndsAt
    <3>2. ~ (a[t] < 0) /\ ~ GoesOn(b, t)
      BY <1>3, <3>1 DEF EndsAt, GoesOn
    <3> QED
      BY <1>1, <3>1, <3>2 DEF SmallerAt
  <2>3. CASE b[u] > c[u] /\ GoesOn(c, u)
    BY <2>1, <2>3 DEF SmallerWord, SmallerAt
  <2> QED
    BY <1>2, <2>2, <2>3 DEF SmallerAt
<1>6. CASE u = t
  <2>1. AgreeBelow(a, c, t)
    BY <1>1, <1>2, <1>6 DEF SmallerAt, AgreeBelow
  <2>2. CASE a[t] < b[t] /\ EndsAt(a, t) /\ b[t] < c[t]
    <3>1. a[t] < c[t]
      BY <1>3, <2>2
    <3> QED
      BY <2>1, <2>2, <3>1 DEF SmallerWord, SmallerAt
  <2>3. CASE a[t] > b[t] /\ b[t] > c[t] /\ GoesOn(c, t)
    <3>1. a[t] > c[t]
      BY <1>3, <2>3
    <3> QED
      BY <2>1, <2>3, <3>1 DEF SmallerWord, SmallerAt
  <2>4. CASE a[t] > b[t] /\ GoesOn(b, t) /\ EndsAt(b, t)
    BY <2>4 DEF GoesOn, EndsAt
  <2>5. CASE a[t] < b[t] /\ EndsAt(a, t) /\ b[t] > c[t] /\ GoesOn(c, t)
    <3>1. CASE a[t] < c[t]
      BY <2>1, <2>5, <3>1 DEF SmallerWord, SmallerAt
    <3>2. CASE a[t] > c[t]
      BY <2>1, <2>5, <3>2 DEF SmallerWord, SmallerAt
    <3>3. CASE a[t] = c[t]
      <4>1. PICK v \in Nat : v > t /\ c[v] # 0
        BY <2>5 DEF GoesOn
      <4>2. a # c
        BY <2>5, <4>1 DEF EndsAt
      <4>3. PICK w \in Nat : a[w] # c[w] /\ AgreeBelow(a, c, w)
        BY <4>2, FirstDifference
      <4>4. w > t
        BY <2>1, <3>3, <4>3 DEF AgreeBelow
      <4>5. a[w] = 0 /\ EndsAt(a, w)
        BY <2>5, <4>4 DEF EndsAt
      <4>6. a[w] < c[w]
        BY <1>3, <4>3, <4>5
      <4> QED
        BY <4>3, <4>5, <4>6 DEF SmallerWord, SmallerAt
    <3>4. a[t] \in Nat /\ c[t] \in Nat
      BY <1>3
    <3> QED
      BY <3>1, <3>2, <3>3, <3>4
  <2> QED
    BY <1>1, <1>2, <1>6, <2>2, <2>3, <2>4, <2>5 DEF SmallerAt
<1> QED
  BY <1>4, <1>5, <1>6

-----------------------------------------------------------------------------
(* A level of a history: the number of its different labels, which only     *)
(* the order of mole looks at, and its word.  A history: its size, its word *)
(* and its levels; an order that does not look at a part takes it for empty. *)
LevelKeys == [kinds : Nat, word : Words]

SmallerLevel(k, l) ==
  \/ k.kinds < l.kinds
  \/ k.kinds = l.kinds /\ SmallerWord(k.word, l.word)

SmallerFrom(K, L, d) ==
  /\ \A u \in Nat : u < d => K[u] = L[u]
  /\ SmallerLevel(K[d], L[d])

SmallerLevels(K, L) == \E d \in Nat : SmallerFrom(K, L, d)

LevelsKeys == [Nat -> LevelKeys]

Keys == [size : Nat, word : Words, levels : LevelsKeys]

SmallerKey(k, l) ==
  \/ k.size < l.size
  \/ k.size = l.size /\ SmallerWord(k.word, l.word)
  \/ k.size = l.size /\ k.word = l.word /\ SmallerLevels(k.levels, l.levels)

LEMMA SmallerLevelOrder ==
  ASSUME NEW k \in LevelKeys, NEW l \in LevelKeys
  PROVE  /\ k = l \/ SmallerLevel(k, l) \/ SmallerLevel(l, k)
         /\ SmallerLevel(k, l) => ~ SmallerLevel(l, k) /\ k # l
<1>1. /\ k.kinds \in Nat /\ l.kinds \in Nat /\ k.word \in Words /\ l.word \in Words
      /\ k.kinds = l.kinds /\ k.word = l.word => k = l
  BY DEF LevelKeys
<1>2. k.word = l.word \/ SmallerWord(k.word, l.word) \/ SmallerWord(l.word, k.word)
  BY <1>1, SmallerWordTotal
<1>3. SmallerWord(k.word, l.word) => ~ SmallerWord(l.word, k.word) /\ k.word # l.word
  BY <1>1, SmallerWordAsymmetric
<1>4. SmallerLevel(k, l) => ~ SmallerLevel(l, k)
  BY <1>1, <1>3 DEF SmallerLevel
<1>5. SmallerLevel(k, l) => k # l
  BY <1>1, <1>3 DEF SmallerLevel
<1>6. k = l \/ SmallerLevel(k, l) \/ SmallerLevel(l, k)
  BY <1>1, <1>2 DEF SmallerLevel
<1> QED
  BY <1>4, <1>5, <1>6

LEMMA SmallerLevelTransitive ==
  ASSUME NEW k \in LevelKeys, NEW l \in LevelKeys, NEW m \in LevelKeys,
         SmallerLevel(k, l), SmallerLevel(l, m)
  PROVE  SmallerLevel(k, m)
<1>1. /\ k.kinds \in Nat /\ l.kinds \in Nat /\ m.kinds \in Nat
      /\ k.word \in Words /\ l.word \in Words /\ m.word \in Words
  BY DEF LevelKeys
<1>2. SmallerWord(k.word, l.word) /\ SmallerWord(l.word, m.word)
        => SmallerWord(k.word, m.word)
  BY <1>1, SmallerWordTransitive
<1> QED
  BY <1>1, <1>2 DEF SmallerLevel

LEMMA SmallerLevelsOrder ==
  ASSUME NEW K \in LevelsKeys, NEW L \in LevelsKeys
  PROVE  /\ K = L \/ SmallerLevels(K, L) \/ SmallerLevels(L, K)
         /\ SmallerLevels(K, L) => ~ SmallerLevels(L, K) /\ K # L
<1>1. \A d \in Nat : K[d] \in LevelKeys /\ L[d] \in LevelKeys
  BY DEF LevelsKeys
<1>2. \A d \in Nat : /\ K[d] = L[d] \/ SmallerLevel(K[d], L[d]) \/ SmallerLevel(L[d], K[d])
                     /\ SmallerLevel(K[d], L[d]) => ~ SmallerLevel(L[d], K[d]) /\ K[d] # L[d]
                     /\ SmallerLevel(L[d], K[d]) => K[d] # L[d]
  BY <1>1, SmallerLevelOrder
<1>3. ASSUME K # L  PROVE SmallerLevels(K, L) \/ SmallerLevels(L, K)
  <2> DEFINE D == {d \in Nat : K[d] # L[d]}
  <2>1. D \in SUBSET Nat /\ D # {}
    BY <1>3 DEF LevelsKeys
  <2>2. PICK d \in D : \A v \in D : d <= v
    BY <2>1, NatMin
  <2>3. d \in Nat /\ K[d] # L[d]
    BY <2>2
  <2>4. ASSUME NEW u \in Nat, u < d  PROVE K[u] = L[u]
    BY <2>2, <2>3, <2>4
  <2> HIDE DEF D
  <2> QED
    BY <1>2, <2>3, <2>4 DEF SmallerLevels, SmallerFrom
<1>4. ASSUME SmallerLevels(K, L)  PROVE ~ SmallerLevels(L, K) /\ K # L
  <2>1. PICK d \in Nat : SmallerFrom(K, L, d)
    BY <1>4 DEF SmallerLevels
  <2>2. K[d] # L[d] /\ SmallerLevel(K[d], L[d]) /\ \A u \in Nat : u < d => K[u] = L[u]
    BY <1>2, <2>1 DEF SmallerFrom
  <2>3. SUFFICES ASSUME NEW v \in Nat, SmallerFrom(L, K, v)  PROVE FALSE
    BY <2>2 DEF SmallerLevels
  <2>4. K[v] # L[v] /\ SmallerLevel(L[v], K[v]) /\ \A u \in Nat : u < v => L[u] = K[u]
    BY <1>2, <2>3 DEF SmallerFrom
  <2>5. ~ (v < d) /\ ~ (d < v)
    BY <2>2, <2>4
  <2>6. v = d
    BY <2>5
  <2> QED
    BY <1>2, <2>2, <2>4, <2>6
<1> QED
  BY <1>3, <1>4

LEMMA SmallerLevelsTransitive ==
  ASSUME NEW K \in LevelsKeys, NEW L \in LevelsKeys, NEW M \in LevelsKeys,
         SmallerLevels(K, L), SmallerLevels(L, M)
  PROVE  SmallerLevels(K, M)
<1>1. \A d \in Nat : K[d] \in LevelKeys /\ L[d] \in LevelKeys /\ M[d] \in LevelKeys
  BY DEF LevelsKeys
<1>2. PICK d \in Nat : SmallerFrom(K, L, d)
  BY DEF SmallerLevels
<1>3. PICK v \in Nat : SmallerFrom(L, M, v)
  BY DEF SmallerLevels
<1>4. CASE d < v
  BY <1>2, <1>3, <1>4 DEF SmallerLevels, SmallerFrom
<1>5. CASE v < d
  BY <1>2, <1>3, <1>5 DEF SmallerLevels, SmallerFrom
<1>6. CASE v = d
  <2>1. SmallerLevel(K[d], L[d]) /\ SmallerLevel(L[d], M[d])
    BY <1>2, <1>3, <1>6 DEF SmallerFrom
  <2>2. SmallerLevel(K[d], M[d])
    BY <1>1, <2>1, SmallerLevelTransitive
  <2> QED
    BY <1>2, <1>3, <1>6, <2>2 DEF SmallerLevels, SmallerFrom
<1> QED
  BY <1>4, <1>5, <1>6

LEMMA SmallerKeyOrder ==
  ASSUME NEW k \in Keys, NEW l \in Keys
  PROVE  /\ k = l \/ SmallerKey(k, l) \/ SmallerKey(l, k)
         /\ SmallerKey(k, l) => ~ SmallerKey(l, k) /\ k # l
<1>1. /\ k.size \in Nat /\ l.size \in Nat /\ k.word \in Words /\ l.word \in Words
      /\ k.levels \in LevelsKeys /\ l.levels \in LevelsKeys
      /\ k.size = l.size /\ k.word = l.word /\ k.levels = l.levels => k = l
  BY DEF Keys
<1>2. /\ k.word = l.word \/ SmallerWord(k.word, l.word) \/ SmallerWord(l.word, k.word)
      /\ SmallerWord(k.word, l.word) => ~ SmallerWord(l.word, k.word) /\ k.word # l.word
      /\ SmallerWord(l.word, k.word) => k.word # l.word
  BY <1>1, SmallerWordTotal, SmallerWordAsymmetric
<1>3. /\ \/ k.levels = l.levels \/ SmallerLevels(k.levels, l.levels)
         \/ SmallerLevels(l.levels, k.levels)
      /\ SmallerLevels(k.levels, l.levels)
           => ~ SmallerLevels(l.levels, k.levels) /\ k.levels # l.levels
  BY <1>1, SmallerLevelsOrder
<1>4. k = l \/ SmallerKey(k, l) \/ SmallerKey(l, k)
  BY <1>1, <1>2, <1>3 DEF SmallerKey
<1>5. SmallerKey(k, l) => ~ SmallerKey(l, k) /\ k # l
  BY <1>1, <1>2, <1>3 DEF SmallerKey
<1> QED
  BY <1>4, <1>5

LEMMA SmallerKeyTransitive ==
  ASSUME NEW k \in Keys, NEW l \in Keys, NEW m \in Keys,
         SmallerKey(k, l), SmallerKey(l, m)
  PROVE  SmallerKey(k, m)
<1>1. /\ k.size \in Nat /\ l.size \in Nat /\ m.size \in Nat
      /\ k.word \in Words /\ l.word \in Words /\ m.word \in Words
      /\ k.levels \in LevelsKeys /\ l.levels \in LevelsKeys /\ m.levels \in LevelsKeys
  BY DEF Keys
<1>2. SmallerWord(k.word, l.word) /\ SmallerWord(l.word, m.word)
        => SmallerWord(k.word, m.word)
  BY <1>1, SmallerWordTransitive
<1>3. SmallerLevels(k.levels, l.levels) /\ SmallerLevels(l.levels, m.levels)
        => SmallerLevels(k.levels, m.levels)
  BY <1>1, SmallerLevelsTransitive
<1> QED
  BY <1>1, <1>2, <1>3 DEF SmallerKey

-----------------------------------------------------------------------------
(* The Parikh vectors.                                                     *)
Numbered(P, f) == \A x \in P : f[x] \in Nat

LEMMA Counted ==
  ASSUME NEW P, NEW lab, IsFiniteSet(P), NEW t
  PROVE  /\ Count(P, lab, t) \in Nat
         /\ Count(P, lab, t) # 0 <=> \E x \in P : lab[x] = t
<1> DEFINE S == {x \in P : lab[x] = t}
<1>1. IsFiniteSet(S) /\ Cardinality(S) \in Nat
  BY FS_Subset, FS_CardinalityType, S \subseteq P, Zenon
<1>2. Cardinality(S) = 0 <=> S = {}
  BY <1>1, FS_EmptySet, Zenon
<1> QED
  BY <1>1, <1>2 DEF Count

LEMMA WordFacts ==
  ASSUME NEW P, NEW lab, IsFiniteSet(P)
  PROVE  WordOf(P, lab) \in Words
BY Counted DEF WordOf, Words

(* What ParikhVector yields: an entry for each label, in increasing order. *)
IsVector(v, P, lab) ==
  /\ v \in Seq([t : Nat, count : Nat])
  /\ \A i \in 1..Len(v) : /\ \E x \in P : lab[x] = v[i].t
                          /\ v[i].count = Count(P, lab, v[i].t)
  /\ \A i, j \in 1..Len(v) : i < j => v[i].t < v[j].t
  /\ \A x \in P : \E i \in 1..Len(v) : v[i].t = lab[x]

LEMMA ParikhEntries ==
  ASSUME NEW P, NEW lab, IsFiniteSet(P), Numbered(P, lab)
  PROVE  IsVector(ParikhVector(P, lab), P, lab)
<1> DEFINE ts == {lab[x] : x \in P}
           n == Cardinality(ts)
           R(t) == {u \in ts : u < t}
           rank == [t \in ts |-> Cardinality(R(t)) + 1]
           nth(i) == CHOOSE t \in ts : Cardinality(R(t)) = i - 1
<1>1. IsFiniteSet(ts) /\ n \in Nat /\ ts \subseteq Nat
  <2>1. [x \in P |-> lab[x]] \in Surjection(P, ts)
    BY DEF Surjection
  <2>2. IsFiniteSet(ts)
    BY <2>1, FS_Surjection, Zenon
  <2>3. n \in Nat
    BY <2>2, FS_CardinalityType
  <2>4. ts \subseteq Nat
    BY DEF Numbered
  <2> QED
    BY <2>2, <2>3, <2>4
<1>2. ASSUME NEW t \in ts
      PROVE  Cardinality(R(t)) \in Nat /\ Cardinality(R(t)) < n /\ IsFiniteSet(R(t))
  <2>1. R(t) \subseteq ts /\ t \notin R(t)
    BY <1>1, <1>2
  <2>2. IsFiniteSet(R(t)) /\ Cardinality(R(t)) \in Nat
    BY <1>1, <2>1, FS_Subset, FS_CardinalityType, Zenon
  <2>3. Cardinality(R(t)) <= n /\ (Cardinality(R(t)) = n => R(t) = ts)
    BY <1>1, <2>1, FS_Subset, Zenon
  <2> HIDE DEF R, n
  <2> QED
    BY <1>1, <1>2, <2>1, <2>2, <2>3
<1>3. ASSUME NEW t \in ts, NEW u \in ts, t < u
      PROVE  Cardinality(R(t)) < Cardinality(R(u))
  <2> t \in Nat /\ u \in Nat
    BY <1>1
  <2>1. R(t) \subseteq R(u) /\ t \in R(u) /\ t \notin R(t)
    <3>1. \A w \in ts : w < t => w < u
      BY <1>1, <1>3
    <3>2. ~ (t < t)
      OBVIOUS
    <3> HIDE DEF ts
    <3> QED
      BY <1>3, <3>1, <3>2
  <2>2. IsFiniteSet(R(u)) /\ Cardinality(R(t)) \in Nat /\ Cardinality(R(u)) \in Nat
    BY <1>2
  <2>3. Cardinality(R(t)) <= Cardinality(R(u))
        /\ (Cardinality(R(t)) = Cardinality(R(u)) => R(t) = R(u))
    BY <2>1, <2>2, FS_Subset, Zenon
  <2> HIDE DEF R
  <2> QED
    BY <2>1, <2>2, <2>3
<1>4. rank \in Injection(ts, 1..n)
  <2>1. rank \in [ts -> 1..n]
    <3>1. \A t \in ts : Cardinality(R(t)) + 1 \in 1..n
      <4> HIDE DEF R, ts, n
      <4> QED
        BY <1>1, <1>2
    <3> HIDE DEF R, n
    <3> QED
      BY <3>1
  <2>2. ASSUME NEW t \in ts, NEW u \in ts, rank[t] = rank[u]  PROVE t = u
    <3>1. t \in Nat /\ u \in Nat
      BY <1>1
    <3>2. Cardinality(R(t)) = Cardinality(R(u))
      <4> HIDE DEF R, ts
      <4>1. Cardinality(R(t)) \in Nat /\ Cardinality(R(u)) \in Nat
        BY <1>2
      <4> QED
        BY <2>2, <4>1
    <3>3. ~ (t < u) /\ ~ (u < t)
      <4> HIDE DEF R, ts
      <4> QED
        BY <1>2, <1>3, <3>2
    <3> QED
      BY <3>1, <3>3
  <2> HIDE DEF ts, rank, n
  <2>3. \A t, u \in ts : rank[t] = rank[u] => t = u
    BY <2>2
  <2> QED
    BY <2>1, <2>3 DEF Injection, IsInjective
<1>5. rank \in Surjection(ts, 1..n)
  <2>1. IsFiniteSet(1..n) /\ Cardinality(1..n) = n
    BY <1>1, FS_Interval
  <2> HIDE DEF ts, rank, n
  <2>2. Cardinality(ts) = Cardinality(1..n)
    BY <2>1 DEF n
  <2> QED
    BY <1>4, <2>1, <2>2, FS_Injection
<1>6. ASSUME NEW i \in 1..n
      PROVE  nth(i) \in ts /\ Cardinality(R(nth(i))) = i - 1
  <2>1. PICK t \in ts : rank[t] = i
    <3> HIDE DEF ts, rank, n
    <3> QED
      BY <1>5, <1>6 DEF Surjection
  <2>2. Cardinality(R(t)) = i - 1
    <3>1. Cardinality(R(t)) \in Nat
      BY <1>2
    <3> HIDE DEF R, ts, n
    <3> QED
      BY <2>1, <3>1
  <2> HIDE DEF R, ts, n
  <2> QED
    BY <2>2
<1>7. ASSUME NEW t \in ts  PROVE \E i \in 1..n : nth(i) = t
  <2> DEFINE i == Cardinality(R(t)) + 1
  <2>1. i \in 1..n /\ Cardinality(R(t)) = i - 1 /\ Cardinality(R(t)) \in Nat
    <3>1. Cardinality(R(t)) \in Nat /\ Cardinality(R(t)) < n /\ n \in Nat
      BY <1>1, <1>2
    <3> HIDE DEF R, ts, n
    <3> QED
      BY <3>1
  <2>2. nth(i) \in ts /\ Cardinality(R(nth(i))) = i - 1
    <3> HIDE DEF R, ts, n, nth, i
    <3> QED
      BY <1>6, <2>1
  <2>3. ~ (nth(i) < t) /\ ~ (t < nth(i))
    <3> HIDE DEF R, ts, n, nth, i
    <3> QED
      BY <1>3, <2>1, <2>2
  <2>4. nth(i) \in Nat /\ t \in Nat
    <3> HIDE DEF nth, i
    <3> QED
      BY <1>1, <2>2
  <2>5. nth(i) = t
    <3> HIDE DEF nth, i
    <3> QED
      BY <2>3, <2>4
  <2> HIDE DEF nth, i, n
  <2> QED
    BY <2>1, <2>5
<1>8. ASSUME NEW i \in 1..n, NEW j \in 1..n, i < j  PROVE nth(i) < nth(j)
  <2>1. /\ nth(i) \in ts /\ Cardinality(R(nth(i))) = i - 1
        /\ nth(j) \in ts /\ Cardinality(R(nth(j))) = j - 1
    BY <1>6
  <2>2. nth(i) \in Nat /\ nth(j) \in Nat
    <3> HIDE DEF nth
    <3> QED
      BY <1>1, <2>1
  <2>3. ~ (nth(j) < nth(i)) /\ nth(i) # nth(j)
    <3> HIDE DEF R, ts, nth, n
    <3>1. i \in Int /\ j \in Int
      OBVIOUS
    <3>2. nth(i) # nth(j)
      BY <1>8, <2>1, <3>1
    <3>3. ~ (nth(j) < nth(i))
      BY <1>3, <1>8, <2>1, <3>1
    <3> QED
      BY <3>2, <3>3
  <2> HIDE DEF nth
  <2> QED
    BY <2>2, <2>3
<1> DEFINE v == [i \in 1..n |-> [t |-> nth(i), count |-> Count(P, lab, nth(i))]]
<1>9. ParikhVector(P, lab) = v
  BY DEF ParikhVector
<1>10. v \in Seq([t : Nat, count : Nat]) /\ Len(v) = n
  <2>1. \A i \in 1..n : nth(i) \in Nat /\ Count(P, lab, nth(i)) \in Nat
    <3>1. \A i \in 1..n : nth(i) \in ts
      BY <1>6
    <3> HIDE DEF nth, n
    <3> QED
      BY <1>1, <3>1, Counted
  <2> HIDE DEF nth, n
  <2> QED
    BY <1>1, <2>1
<1>11. \A i \in 1..n : v[i].t = nth(i) /\ v[i].count = Count(P, lab, nth(i))
  <2> HIDE DEF nth, n
  <2> QED
    OBVIOUS
<1>12. \A i \in 1..n : \E x \in P : lab[x] = nth(i)
  <2>1. \A i \in 1..n : nth(i) \in ts
    BY <1>6
  <2> HIDE DEF nth, n
  <2> QED
    BY <2>1
<1>13. \A x \in P : \E i \in 1..n : nth(i) = lab[x]
  <2>1. \A t \in ts : \E i \in 1..n : nth(i) = t
    BY <1>7
  <2> HIDE DEF nth, n
  <2> QED
    BY <2>1
<1>14. \A i, j \in 1..n : i < j => nth(i) < nth(j)
  BY <1>8
<1> HIDE DEF nth, n, v
<1>15. \A i \in 1..n : /\ \E x \in P : lab[x] = v[i].t
                       /\ v[i].count = Count(P, lab, v[i].t)
  BY <1>11, <1>12
<1>16. \A i, j \in 1..n : i < j => v[i].t < v[j].t
  BY <1>11, <1>14
<1>17. \A x \in P : \E i \in 1..n : v[i].t = lab[x]
  BY <1>11, <1>13
<1>18. IsVector(v, P, lab)
  BY <1>10, <1>15, <1>16, <1>17, Zenon DEF IsVector
<1> QED
  BY <1>9, <1>18

(* A finite set of nodes has a bound on its labels or depths.              *)
LEMMA FiniteBound ==
  ASSUME NEW P, NEW f, IsFiniteSet(P), Numbered(P, f)
  PROVE  \E n \in Nat : \A x \in P : f[x] < n
<1> DEFINE c == Cardinality(P)
<1>1. c \in Nat /\ ExistsBijection(1..c, P)
  BY FS_CardinalityType, Zenon
<1>2. PICK g \in Bijection(1..c, P) : TRUE
  BY <1>1 DEF ExistsBijection
<1>3. g \in [1..c -> P] /\ \A x \in P : \E i \in 1..c : g[i] = x
  BY <1>2 DEF Bijection, Injection, Surjection
<1> HIDE DEF c
<1> DEFINE Bounds(k, n) == \A i \in 1..c : i <= k => f[g[i]] < n
           Bad == {k \in Nat : k <= c /\ ~ \E n \in Nat : Bounds(k, n)}
<1>4. Bad = {}
  <2>1. SUFFICES ASSUME Bad # {}  PROVE FALSE
    OBVIOUS
  <2>2. PICK k \in Bad : \A l \in Bad : k <= l
    BY <2>1, NatMin
  <2>3. k \in Nat /\ k <= c /\ ~ \E n \in Nat : Bounds(k, n)
    BY <2>2
  <2>4. k # 0
    <3>1. Bounds(0, 0)
      BY <1>1
    <3> HIDE DEF Bounds, Bad
    <3> QED
      BY <2>3, <3>1
  <2>5. k - 1 \in Nat /\ k - 1 <= c /\ k - 1 \notin Bad
    <3> HIDE DEF Bad
    <3> QED
      BY <2>2, <2>3, <2>4, <1>1
  <2>6. PICK n \in Nat : Bounds(k - 1, n)
    BY <2>5
  <2>7. f[g[k]] \in Nat
    <3>1. k \in 1..c
      BY <1>1, <2>3, <2>4
    <3> QED
      BY <1>3, <3>1 DEF Numbered
  <2>8. PICK m \in Nat : n <= m /\ f[g[k]] < m
    <3>1. PICK x \in Nat : x = f[g[k]]
      BY <2>7
    <3>2. \E m \in Nat : n <= m /\ x < m
      <4>1. n <= n + x + 1 /\ x < n + x + 1 /\ n + x + 1 \in Nat
        BY <2>6
      <4> QED
        BY <4>1
    <3> QED
      BY <3>1, <3>2, Zenon
  <2>9. Bounds(k, m)
    <3> SUFFICES ASSUME NEW i \in 1..c, i <= k  PROVE f[g[i]] < m
      OBVIOUS
    <3>1. f[g[i]] \in Nat
      BY <1>3 DEF Numbered
    <3>2. CASE i = k
      <4> QED
        BY <2>8, <3>2
    <3>3. CASE i # k
      <4>0. i \in Int /\ k \in Int
        BY <1>1, <2>3
      <4>1. i <= k - 1
        <5> HIDE DEF Bounds
        <5> QED
          BY <3>3, <4>0
      <4>2. f[g[i]] < n
        BY <2>6, <4>1
      <4>3. \A y \in Nat : y < n => y < m
        BY <2>8
      <4> QED
        BY <3>1, <4>2, <4>3
    <3> QED
      BY <3>2, <3>3
  <2> HIDE DEF Bounds
  <2> QED
    BY <2>3, <2>8, <2>9
<1>5. PICK n \in Nat : Bounds(c, n)
  <2>1. c <= c
    BY <1>1
  <2> HIDE DEF Bounds
  <2> QED
    BY <1>1, <1>4, <2>1
<1>6. \A x \in P : f[x] < n
  BY <1>1, <1>3, <1>5
<1> QED
  BY <1>6

(* Sets of nodes with the same counts below n have as many nodes there.    *)
LEMMA Fibres ==
  ASSUME NEW P, NEW Q, IsFiniteSet(P), IsFiniteSet(Q),
         NEW f, Numbered(P, f), Numbered(Q, f), NEW n \in Nat,
         \A v \in Nat : v < n => Count(P, f, v) = Count(Q, f, v)
  PROVE  Cardinality({x \in P : f[x] < n}) = Cardinality({x \in Q : f[x] < n})
<1> DEFINE U(S, k) == {x \in S : f[x] < k}
           Bad == {k \in Nat : k <= n /\ Cardinality(U(P, k)) # Cardinality(U(Q, k))}
<1>1. ASSUME NEW S, IsFiniteSet(S), Numbered(S, f)
      PROVE  /\ U(S, 0) = {}
             /\ \A k \in Nat : Cardinality(U(S, k + 1)) = Cardinality(U(S, k)) + Count(S, f, k)
  <2>1. U(S, 0) = {}
    BY <1>1 DEF Numbered
  <2>2. ASSUME NEW k \in Nat
        PROVE  Cardinality(U(S, k + 1)) = Cardinality(U(S, k)) + Count(S, f, k)
    <3> DEFINE A == U(S, k)
               B == {x \in S : f[x] = k}
    <3>1. U(S, k + 1) = A \cup B /\ A \cap B = {}
      BY <1>1 DEF Numbered
    <3>2. IsFiniteSet(A) /\ IsFiniteSet(B)
      BY <1>1, FS_Subset, A \subseteq S, B \subseteq S, Zenon
    <3>3. Cardinality(A \cup B) = Cardinality(A) + Cardinality(B)
      <4> HIDE DEF A, B
      <4> QED
        BY <3>1, <3>2, DisjointUnion
    <3>4. Count(S, f, k) = Cardinality(B)
      BY DEF Count
    <3>5. A = U(S, k)
      OBVIOUS
    <3> HIDE DEF A, B, U
    <3> QED
      BY <3>1, <3>3, <3>4, <3>5
  <2> QED
    BY <2>1, <2>2
<1>2. SUFFICES ASSUME Bad # {}  PROVE FALSE
  <2>1. n \in Nat /\ n <= n
    OBVIOUS
  <2> QED
    BY <2>1, <1>2
<1>3. PICK k \in Bad : \A l \in Bad : k <= l
  BY <1>2, NatMin
<1>4. k \in Nat /\ k <= n /\ Cardinality(U(P, k)) # Cardinality(U(Q, k))
  BY <1>3
<1>5. k # 0
  <2>1. U(P, 0) = U(Q, 0)
    BY <1>1
  <2> HIDE DEF U, Bad
  <2> QED
    BY <1>4, <2>1
<1>6. k - 1 \in Nat /\ k - 1 < n /\ k - 1 <= n /\ k - 1 \notin Bad
  <2> HIDE DEF Bad
  <2> QED
    BY <1>3, <1>4, <1>5
<1>7. Cardinality(U(P, k - 1)) = Cardinality(U(Q, k - 1))
  BY <1>6
<1>8. Count(P, f, k - 1) = Count(Q, f, k - 1)
  BY <1>6
<1>9. /\ Cardinality(U(P, (k - 1) + 1)) = Cardinality(U(P, k - 1)) + Count(P, f, k - 1)
      /\ Cardinality(U(Q, (k - 1) + 1)) = Cardinality(U(Q, k - 1)) + Count(Q, f, k - 1)
  BY <1>1, <1>6
<1>10. (k - 1) + 1 = k
  BY <1>4
<1> HIDE DEF U, Bad
<1> QED
  BY <1>4, <1>7, <1>8, <1>9, <1>10

LEMMA SameCountsSameSize ==
  ASSUME NEW P, NEW Q, IsFiniteSet(P), IsFiniteSet(Q),
         NEW f, Numbered(P, f), Numbered(Q, f), WordOf(P, f) = WordOf(Q, f)
  PROVE  Cardinality(P) = Cardinality(Q)
<1>1. PICK n \in Nat : \A x \in P : f[x] < n
  BY FiniteBound
<1>2. PICK m \in Nat : \A x \in Q : f[x] < m
  BY FiniteBound
<1> DEFINE k == IF n <= m THEN m ELSE n
<1>3. k \in Nat /\ n <= k /\ m <= k
  OBVIOUS
<1> HIDE DEF k
<1>4. {x \in P : f[x] < k} = P
  BY <1>1, <1>3 DEF Numbered
<1>5. {x \in Q : f[x] < k} = Q
  BY <1>2, <1>3 DEF Numbered
<1>6. \A v \in Nat : Count(P, f, v) = Count(Q, f, v)
  <2>1. \A v \in Nat : WordOf(P, f)[v] = Count(P, f, v) /\ WordOf(Q, f)[v] = Count(Q, f, v)
    BY DEF WordOf
  <2> QED
    BY <2>1
<1>7. Cardinality({x \in P : f[x] < k}) = Cardinality({x \in Q : f[x] < k})
  BY <1>3, <1>6, Fibres
<1> QED
  BY <1>4, <1>5, <1>7

AgreeUpTo(v, w, i) == \A j \in 1..Len(v) : j < i => j \in 1..Len(w) /\ v[j] = w[j]

LateFrom(v, i, T) == \A j \in 1..Len(v) : ~ (j < i) => T <= v[j].t

LEMMA VectorType ==
  ASSUME NEW P, NEW lab, NEW v, IsVector(v, P, lab)
  PROVE  Len(v) \in Nat /\ \A j \in 1..Len(v) : v[j].t \in Nat /\ v[j].count \in Nat
<1>1. v \in Seq([t : Nat, count : Nat])
  BY DEF IsVector
<1>2. Len(v) \in Nat /\ \A j \in 1..Len(v) : v[j] \in [t : Nat, count : Nat]
  BY <1>1, LenProperties, ElementOfSeq
<1> QED
  BY <1>2

(* Vectors that agree up to their entries for T and above stand for words  *)
(* that agree below T.                                                     *)
LEMMA VectorsAgree ==
  ASSUME NEW P, NEW Q, NEW lab, NEW v, NEW w, IsVector(v, P, lab), IsVector(w, Q, lab),
         NEW i \in Nat, NEW T \in Nat,
         AgreeUpTo(v, w, i), LateFrom(v, i, T),
         NEW x \in P, lab[x] < T
  PROVE  Count(P, lab, lab[x]) = Count(Q, lab, lab[x])
<1>1. PICK j \in 1..Len(v) : v[j].t = lab[x]
  BY DEF IsVector
<1>2. Len(v) \in Nat /\ v[j].t \in Nat
  BY VectorType
<1>3. j < i
  BY <1>1, <1>2 DEF LateFrom
<1>5. j \in 1..Len(w) /\ v[j] = w[j]
  BY <1>3 DEF AgreeUpTo
<1>6. v[j].count = Count(P, lab, v[j].t) /\ w[j].count = Count(Q, lab, w[j].t)
  BY <1>5 DEF IsVector
<1> QED
  BY <1>1, <1>5, <1>6

LEMMA VectorsAgreeBelow ==
  ASSUME NEW P, NEW Q, IsFiniteSet(P), IsFiniteSet(Q), NEW lab,
         NEW v, NEW w, IsVector(v, P, lab), IsVector(w, Q, lab),
         NEW i \in Nat, NEW T \in Nat,
         AgreeUpTo(v, w, i), AgreeUpTo(w, v, i),
         LateFrom(v, i, T), LateFrom(w, i, T)
  PROVE  AgreeBelow(WordOf(P, lab), WordOf(Q, lab), T)
<1> SUFFICES ASSUME NEW u \in Nat, u < T
             PROVE  Count(P, lab, u) = Count(Q, lab, u)
  BY DEF AgreeBelow, WordOf
<1>1. CASE \E x \in P : lab[x] = u
  <2>1. PICK x \in P : lab[x] = u
    BY <1>1
  <2>2. lab[x] < T
    BY <2>1
  <2>3. Count(P, lab, lab[x]) = Count(Q, lab, lab[x])
    BY <2>2, VectorsAgree
  <2> QED
    BY <2>1, <2>3
<1>2. CASE \E x \in Q : lab[x] = u
  <2>1. PICK x \in Q : lab[x] = u
    BY <1>2
  <2>2. lab[x] < T
    BY <2>1
  <2>4. Count(Q, lab, lab[x]) = Count(P, lab, lab[x])
    BY <2>2, VectorsAgree
  <2> QED
    BY <2>1, <2>4
<1>3. CASE ~ (\E x \in P : lab[x] = u) /\ ~ (\E x \in Q : lab[x] = u)
  <2>1. (Count(P, lab, u) # 0 <=> \E x \in P : lab[x] = u)
        /\ (Count(Q, lab, u) # 0 <=> \E x \in Q : lab[x] = u)
    BY Counted
  <2> QED
    BY <1>3, <2>1
<1> QED
  BY <1>1, <1>2, <1>3

(* The first entry where two vectors differ, and what the words are there. *)
LEMMA VectorsDiffer ==
  ASSUME NEW P, NEW Q, IsFiniteSet(P), IsFiniteSet(Q), NEW lab,
         NEW v, NEW w, IsVector(v, P, lab), IsVector(w, Q, lab),
         NEW i \in 1..Len(v), i \in 1..Len(w),
         AgreeUpTo(v, w, i), AgreeUpTo(w, v, i),
         v[i].t <= w[i].t
  PROVE  LET T == v[i].t
             a == WordOf(P, lab)
             b == WordOf(Q, lab)
         IN  /\ T \in Nat /\ w[i].t \in Nat
             /\ AgreeBelow(a, b, T)
             /\ a[T] = v[i].count
             /\ IF T = w[i].t THEN b[T] = w[i].count ELSE b[T] = 0 /\ GoesOn(b, T)
             /\ a[T] \in Nat /\ a[T] # 0
             /\ IF i < Len(v) THEN GoesOn(a, T) ELSE EndsAt(a, T)
<1> DEFINE T == v[i].t
           a == WordOf(P, lab)
           b == WordOf(Q, lab)
<1>1. /\ Len(v) \in Nat /\ Len(w) \in Nat /\ i \in Nat
      /\ \A j \in 1..Len(v) : v[j].t \in Nat
      /\ \A j \in 1..Len(w) : w[j].t \in Nat
  BY VectorType
<1>2. T \in Nat /\ w[i].t \in Nat
  BY <1>1
<1>3. LateFrom(v, i, T)
  <2> SUFFICES ASSUME NEW j \in 1..Len(v), ~ (j < i)  PROVE T <= v[j].t
    BY DEF LateFrom
  <2>1. j = i \/ i < j
    BY <1>1
  <2>2. i < j => v[i].t < v[j].t
    BY DEF IsVector
  <2>3. v[j].t \in Nat /\ v[i].t \in Nat
    BY <1>1
  <2> QED
    BY <2>1, <2>2, <2>3
<1>4. \A j \in 1..Len(w) : ~ (j < i) => w[i].t <= w[j].t
  <2> SUFFICES ASSUME NEW j \in 1..Len(w), ~ (j < i)  PROVE w[i].t <= w[j].t
    OBVIOUS
  <2>1. j = i \/ i < j
    BY <1>1
  <2>2. i < j => w[i].t < w[j].t
    BY DEF IsVector
  <2>3. w[j].t \in Nat /\ w[i].t \in Nat
    BY <1>1
  <2> QED
    BY <2>1, <2>2, <2>3
<1>5. LateFrom(w, i, T)
  <2> SUFFICES ASSUME NEW j \in 1..Len(w), ~ (j < i)  PROVE T <= w[j].t
    BY DEF LateFrom
  <2>1. w[i].t <= w[j].t /\ w[j].t \in Nat /\ w[i].t \in Nat /\ v[i].t \in Nat
    BY <1>1, <1>4
  <2> QED
    BY <2>1
<1>6. AgreeBelow(a, b, T)
  <2> HIDE DEF T
  <2> QED
    BY <1>1, <1>2, <1>3, <1>5, VectorsAgreeBelow
<1>7. /\ \A t \in Nat : a[t] = Count(P, lab, t) /\ b[t] = Count(Q, lab, t)
      /\ \A t \in Nat : a[t] \in Nat /\ b[t] \in Nat
  BY Counted DEF WordOf
<1>8. a[T] = v[i].count /\ a[T] # 0
  <2>1. v[i].count = Count(P, lab, T) /\ \E x \in P : lab[x] = T
    BY DEF IsVector
  <2>2. Count(P, lab, T) # 0
    BY <2>1, Counted
  <2> HIDE DEF a, T
  <2> QED
    BY <1>2, <1>7, <2>1, <2>2
<1>9. b[w[i].t] = w[i].count /\ b[w[i].t] # 0
  <2>1. w[i].count = Count(Q, lab, w[i].t) /\ \E x \in Q : lab[x] = w[i].t
    BY DEF IsVector
  <2>2. Count(Q, lab, w[i].t) # 0
    BY <2>1, Counted
  <2> HIDE DEF b
  <2> QED
    BY <1>2, <1>7, <2>1, <2>2
<1>10. ASSUME T # w[i].t  PROVE b[T] = 0 /\ GoesOn(b, T)
  <2>1. T < w[i].t
    BY <1>2, <1>10
  <2>2. GoesOn(b, T)
    <3> HIDE DEF b, T
    <3> QED
      BY <1>2, <1>9, <2>1 DEF GoesOn
  <2>3. ~ \E x \in Q : lab[x] = T
    <3>1. SUFFICES ASSUME NEW x \in Q, lab[x] = T  PROVE FALSE
      OBVIOUS
    <3>2. PICK j \in 1..Len(w) : w[j].t = T
      BY <3>1 DEF IsVector
    <3>3. j < i
      <4>1. ~ (w[i].t <= w[j].t)
        BY <1>2, <2>1, <3>2
      <4> QED
        BY <1>4, <4>1
    <3>4. v[j] = w[j] /\ j \in 1..Len(v)
      BY <3>3 DEF AgreeUpTo
    <3>5. v[j].t < v[i].t
      BY <3>3, <3>4 DEF IsVector
    <3> QED
      BY <1>2, <3>2, <3>4, <3>5
  <2>4. Count(Q, lab, T) = 0
    BY <2>3, Counted
  <2> HIDE DEF b, T
  <2> QED
    BY <1>2, <1>7, <2>2, <2>4
<1>11. ASSUME i < Len(v)  PROVE GoesOn(a, T)
  <2>1. i + 1 \in 1..Len(v) /\ i < i + 1
    BY <1>1, <1>11
  <2>2. PICK u \in Nat : u = v[i + 1].t
    BY <1>1, <2>1
  <2>3. T < u
    BY <2>1, <2>2 DEF IsVector
  <2>4. \E x \in P : lab[x] = u
    BY <2>1, <2>2 DEF IsVector
  <2>5. Count(P, lab, u) # 0
    BY <2>4, Counted
  <2>6. a[u] # 0
    <3> HIDE DEF a
    <3> QED
      BY <1>7, <2>5
  <2> HIDE DEF a, T
  <2> QED
    BY <2>3, <2>6 DEF GoesOn
<1>12. ASSUME ~ (i < Len(v))  PROVE EndsAt(a, T)
  <2>1. SUFFICES ASSUME NEW u \in Nat, u > T  PROVE Count(P, lab, u) = 0
    <3> HIDE DEF a, T
    <3> QED
      BY <1>7, <2>1 DEF EndsAt
  <2>2. SUFFICES ASSUME NEW x \in P, lab[x] = u  PROVE FALSE
    BY Counted
  <2>3. PICK j \in 1..Len(v) : v[j].t = u
    BY <2>2 DEF IsVector
  <2>4. j = i \/ j < i
    BY <1>1, <1>12
  <2>5. j < i => v[j].t < v[i].t
    BY DEF IsVector
  <2> QED
    BY <1>2, <2>1, <2>3, <2>4, <2>5
<1> QED
  BY <1>2, <1>6, <1>7, <1>8, <1>9, <1>10, <1>11, <1>12

(* A vector is no proper prefix of another one if the sizes are the same.  *)
LEMMA VectorPrefix ==
  ASSUME NEW P, NEW Q, IsFiniteSet(P), IsFiniteSet(Q), NEW lab,
         Numbered(P, lab), Numbered(Q, lab), Cardinality(P) = Cardinality(Q),
         NEW v, NEW w, IsVector(v, P, lab), IsVector(w, Q, lab),
         \A j \in 1..Len(v) : j \in 1..Len(w) => v[j] = w[j]
  PROVE  ~ (Len(v) < Len(w))
<1> SUFFICES ASSUME Len(v) < Len(w)  PROVE FALSE
  OBVIOUS
<1>1. /\ Len(v) \in Nat /\ Len(w) \in Nat
      /\ \A j \in 1..Len(w) : w[j].t \in Nat
  BY VectorType
<1> DEFINE i == Len(v) + 1
<1>2. i \in Nat /\ i \in 1..Len(w) /\ \A j \in 1..Len(v) : j < i /\ j \in 1..Len(w)
  BY <1>1
<1>3. PICK N \in Nat : N = w[i].t
  BY <1>1, <1>2
<1>4. AgreeUpTo(v, w, i) /\ AgreeUpTo(w, v, i)
  BY <1>1 DEF AgreeUpTo
<1>5. LateFrom(v, i, N) /\ LateFrom(w, i, N)
  <2>1. LateFrom(v, i, N)
    BY <1>2 DEF LateFrom
  <2>2. ASSUME NEW j \in 1..Len(w), ~ (j < i)  PROVE N <= w[j].t
    <3>1. j = i \/ i < j
      BY <1>2, <2>2
    <3>2. i < j => w[i].t < w[j].t
      BY <1>2 DEF IsVector
    <3>3. w[j].t \in Nat
      BY <1>1
    <3> HIDE DEF i
    <3> QED
      BY <1>3, <3>1, <3>2, <3>3
  <2> QED
    BY <2>1, <2>2 DEF LateFrom
<1>6. AgreeBelow(WordOf(P, lab), WordOf(Q, lab), N)
  <2> HIDE DEF i
  <2> QED
    BY <1>2, <1>4, <1>5, VectorsAgreeBelow
<1>7. \A u \in Nat : u < N => Count(P, lab, u) = Count(Q, lab, u)
  BY <1>6 DEF AgreeBelow, WordOf
<1> DEFINE U(S) == {x \in S : lab[x] < N}
<1>8. Cardinality(U(P)) = Cardinality(U(Q))
  BY <1>7, Fibres
<1>9. U(P) = P
  <2>1. SUFFICES ASSUME NEW x \in P  PROVE lab[x] < N
    OBVIOUS
  <2>2. PICK j \in 1..Len(v) : v[j].t = lab[x]
    BY DEF IsVector
  <2>3. j < i /\ j \in 1..Len(w) /\ v[j] = w[j]
    BY <1>2
  <2>4. w[j].t < w[i].t
    BY <1>2, <2>3 DEF IsVector
  <2> QED
    BY <1>3, <2>2, <2>3, <2>4
<1>10. U(Q) \subseteq Q /\ U(Q) # Q
  <2>1. PICK x \in Q : lab[x] = N
    BY <1>2, <1>3 DEF IsVector
  <2>2. x \notin U(Q)
    BY <2>1
  <2> HIDE DEF U
  <2>3. U(Q) \subseteq Q
    BY DEF U
  <2> QED
    BY <2>1, <2>2, <2>3
<1>11. Cardinality(U(Q)) # Cardinality(Q)
  <2> HIDE DEF U
  <2> QED
    BY <1>10, FS_Subset, Zenon
<1> HIDE DEF U
<1> QED
  BY <1>8, <1>9, <1>11

(* _h_cmp_parikh: the history whose word is smaller is smaller.            *)
LEMMA ParikhMeaning ==
  ASSUME NEW P, NEW Q, IsFiniteSet(P), IsFiniteSet(Q), NEW lab,
         Numbered(P, lab), Numbered(Q, lab),
         NEW c, c = CmpParikh(ParikhVector(P, lab), ParikhVector(Q, lab)),
         NEW a, a = WordOf(P, lab), NEW b, b = WordOf(Q, lab)
  PROVE  /\ c \in Int
         /\ c < 0 => SmallerWord(a, b)
         /\ c > 0 => SmallerWord(b, a)
         /\ c = 0 /\ Cardinality(P) = Cardinality(Q) => a = b
<1>1. PICK v : v = ParikhVector(P, lab)
  OBVIOUS
<1>2. PICK w : w = ParikhVector(Q, lab)
  OBVIOUS
<1>3. IsVector(v, P, lab) /\ IsVector(w, Q, lab)
  BY <1>1, <1>2, ParikhEntries
<1>4. /\ Len(v) \in Nat /\ Len(w) \in Nat
      /\ \A j \in 1..Len(v) : v[j] \in [t : Nat, count : Nat]
      /\ \A j \in 1..Len(w) : w[j] \in [t : Nat, count : Nat]
  <2>1. v \in Seq([t : Nat, count : Nat]) /\ w \in Seq([t : Nat, count : Nat])
    BY <1>3 DEF IsVector
  <2> QED
    BY <2>1, LenProperties, ElementOfSeq
<1> DEFINE min  == IF Len(v) < Len(w) THEN Len(v) ELSE Len(w)
           diff == {i \in 1..min : v[i] # w[i]}
           ii   == CHOOSE j \in diff : \A k \in diff : j <= k
<1>5. c = IF diff = {} THEN 0
          ELSE IF v[ii].t # w[ii].t THEN v[ii].t - w[ii].t
          ELSE IF w[ii].count > v[ii].count
               THEN IF ii < Len(v) THEN 1 ELSE -1
               ELSE IF ii < Len(w) THEN -1 ELSE 1
  BY <1>1, <1>2 DEF CmpParikh
<1>6. a \in Words /\ b \in Words
  BY WordFacts
<1>7. CASE diff = {}
  <2>1. c = 0
    BY <1>5, <1>7
  <2>2. ASSUME Cardinality(P) = Cardinality(Q)  PROVE a = b
    <3>1. /\ \A j \in 1..Len(v) : j \in 1..Len(w) => v[j] = w[j]
          /\ \A j \in 1..Len(w) : j \in 1..Len(v) => w[j] = v[j]
      BY <1>4, <1>7
    <3>2. ~ (Len(v) < Len(w)) /\ ~ (Len(w) < Len(v))
      BY <1>3, <2>2, <3>1, VectorPrefix
    <3>3. Len(v) = Len(w)
      BY <1>4, <3>2
    <3>4. \A T \in Nat : AgreeBelow(a, b, T)
      <4> SUFFICES ASSUME NEW T \in Nat  PROVE AgreeBelow(a, b, T)
        OBVIOUS
      <4> DEFINE i == Len(v) + 1
      <4>1. /\ i \in Nat /\ AgreeUpTo(v, w, i) /\ AgreeUpTo(w, v, i)
            /\ LateFrom(v, i, T) /\ LateFrom(w, i, T)
        BY <1>4, <3>1, <3>3 DEF AgreeUpTo, LateFrom
      <4> HIDE DEF i
      <4> QED
        BY <1>3, <4>1, VectorsAgreeBelow
    <3>5. \A T \in Nat : a[T] = b[T]
      <4>1. \A T \in Nat : T + 1 \in Nat /\ T < T + 1
        OBVIOUS
      <4> QED
        BY <3>4, <4>1 DEF AgreeBelow
    <3> QED
      BY <1>6, <3>5 DEF Words
  <2> QED
    BY <2>1, <2>2
<1>8. CASE diff # {}
  <2>1. diff \in SUBSET Nat
    BY <1>4
  <2>2. ii \in diff /\ \A k \in diff : ii <= k
    <3>1. \E j \in diff : \A k \in diff : j <= k
      BY <1>8, <2>1, NatMin
    <3> HIDE DEF diff
    <3> QED
      BY <3>1
  <2>3. PICK i : i = ii
    OBVIOUS
  <2>4. i \in 1..Len(v) /\ i \in 1..Len(w) /\ v[i] # w[i]
    <3>1. i \in diff
      BY <2>2, <2>3
    <3> QED
      BY <1>4, <3>1
  <2>5. \A j \in 1..min : j < i => v[j] = w[j]
    <3>1. \A k \in diff : i <= k
      BY <2>2, <2>3
    <3>2. \A j \in 1..min : i <= j => ~ (j < i)
      BY <2>4
    <3> HIDE DEF min
    <3> QED
      BY <3>1, <3>2
  <2>6. AgreeUpTo(v, w, i) /\ AgreeUpTo(w, v, i)
    <3>1. \A j \in 1..Len(v) : j < i => j \in 1..Len(w) /\ j \in 1..min
      BY <1>4, <2>4
    <3>2. \A j \in 1..Len(w) : j < i => j \in 1..Len(v) /\ j \in 1..min
      BY <1>4, <2>4
    <3> HIDE DEF min
    <3> QED
      BY <2>5, <3>1, <3>2 DEF AgreeUpTo
  <2>7. c = IF v[i].t # w[i].t THEN v[i].t - w[i].t
            ELSE IF w[i].count > v[i].count
                 THEN IF i < Len(v) THEN 1 ELSE -1
                 ELSE IF i < Len(w) THEN -1 ELSE 1
    <3> HIDE DEF diff, ii
    <3> QED
      BY <1>5, <1>8, <2>3
  <2>8. PICK t \in Nat, u \in Nat, m \in Nat, n \in Nat :
          v[i] = [t |-> t, count |-> m] /\ w[i] = [t |-> u, count |-> n]
    BY <1>4, <2>4
  <2>9. v[i].t = t /\ w[i].t = u /\ v[i].count = m /\ w[i].count = n /\ (t # u \/ m # n)
    BY <2>4, <2>8
  <2> HIDE DEF min, diff, ii
  <2>10. ASSUME t <= u
         PROVE  /\ AgreeBelow(a, b, t) /\ a[t] = m
                /\ IF t = u THEN b[t] = n ELSE b[t] = 0 /\ GoesOn(b, t)
                /\ m # 0
                /\ IF i < Len(v) THEN GoesOn(a, t) ELSE EndsAt(a, t)
    BY <1>3, <2>4, <2>6, <2>9, <2>10, VectorsDiffer
  <2>11. ASSUME u <= t
         PROVE  /\ AgreeBelow(b, a, u) /\ b[u] = n
                /\ IF u = t THEN a[u] = m ELSE a[u] = 0 /\ GoesOn(a, u)
                /\ n # 0
                /\ IF i < Len(w) THEN GoesOn(b, u) ELSE EndsAt(b, u)
    BY <1>3, <2>4, <2>6, <2>9, <2>11, VectorsDiffer
  <2>12. CASE t < u
    <3>1. c = t - u
      BY <2>7, <2>9, <2>12
    <3>2. c < 0 /\ c \in Int
      BY <2>12, <3>1
    <3>3. a[t] > b[t] /\ GoesOn(b, t) /\ AgreeBelow(a, b, t)
      BY <2>10, <2>12
    <3> QED
      BY <3>2, <3>3 DEF SmallerWord, SmallerAt
  <2>13. CASE u < t
    <3>1. c = t - u
      BY <2>7, <2>9, <2>13
    <3>2. c > 0 /\ c \in Int
      BY <2>13, <3>1
    <3>3. b[u] > a[u] /\ GoesOn(a, u) /\ AgreeBelow(b, a, u)
      BY <2>11, <2>13
    <3> QED
      BY <3>2, <3>3 DEF SmallerWord, SmallerAt
  <2>14. CASE t = u /\ m < n
    <3>1. c = IF i < Len(v) THEN 1 ELSE -1
      BY <2>7, <2>9, <2>14
    <3>2. AgreeBelow(a, b, t) /\ AgreeBelow(b, a, t) /\ a[t] < b[t] /\ b[t] > a[t]
      BY <2>10, <2>11, <2>14
    <3>3. IF i < Len(v) THEN GoesOn(a, t) ELSE EndsAt(a, t)
      BY <2>10, <2>14
    <3> QED
      BY <3>1, <3>2, <3>3 DEF SmallerWord, SmallerAt
  <2>15. CASE t = u /\ n < m
    <3>1. c = IF i < Len(w) THEN -1 ELSE 1
      BY <2>7, <2>9, <2>15
    <3>2. AgreeBelow(a, b, t) /\ AgreeBelow(b, a, t) /\ b[t] < a[t] /\ a[t] > b[t]
      BY <2>10, <2>11, <2>15
    <3>3. IF i < Len(w) THEN GoesOn(b, t) ELSE EndsAt(b, t)
      BY <2>11, <2>15
    <3> QED
      BY <3>1, <3>2, <3>3 DEF SmallerWord, SmallerAt
  <2> QED
    BY <2>9, <2>12, <2>13, <2>14, <2>15
<1> QED
  BY <1>7, <1>8

-----------------------------------------------------------------------------
(* The levels.                                                             *)
LabelsOf(A, lab) == {lab[x] : x \in A}

LevelOf(A, lab, mole) ==
  [kinds |-> IF mole THEN Cardinality(LabelsOf(A, lab)) ELSE 0, word |-> WordOf(A, lab)]

LEMMA LabelsFinite ==
  ASSUME NEW A, IsFiniteSet(A), NEW lab
  PROVE  IsFiniteSet(LabelsOf(A, lab)) /\ Cardinality(LabelsOf(A, lab)) \in Nat
<1>1. [x \in A |-> lab[x]] \in Surjection(A, LabelsOf(A, lab))
  BY DEF Surjection, LabelsOf
<1>2. IsFiniteSet(LabelsOf(A, lab))
  BY <1>1, FS_Surjection, Zenon
<1> QED
  BY <1>2, FS_CardinalityType

LEMMA LevelOfType ==
  ASSUME NEW A, IsFiniteSet(A), NEW lab, NEW mole \in BOOLEAN
  PROVE  LevelOf(A, lab, mole) \in LevelKeys
BY LabelsFinite, WordFacts DEF LevelOf, LevelKeys

(* The comparison of two words by the counts of the labels of L alone.     *)
LEMMA WordsCompared ==
  ASSUME NEW A, NEW B, IsFiniteSet(A), IsFiniteSet(B), NEW lab,
         NEW L \in SUBSET Nat, LabelsOf(A, lab) \subseteq L, LabelsOf(B, lab) \subseteq L,
         NEW a, a = WordOf(A, lab), NEW b, b = WordOf(B, lab),
         NEW p, p = [t \in L |-> Count(A, lab, t)], NEW q, q = [t \in L |-> Count(B, lab, t)],
         NEW c, c = CmpCounts(L, p, q)
  PROVE  /\ c \in Int
         /\ c < 0 => SmallerWord(a, b)
         /\ c > 0 => SmallerWord(b, a)
         /\ c = 0 => a = b
<1> DEFINE diff == {t \in L : p[t] # q[t]}
           first == CHOOSE t \in diff : \A u \in diff : t <= u
<1>1. PICK D : D = diff
  OBVIOUS
<1>2. PICK f : f = first
  OBVIOUS
<1>3. c = IF D = {} THEN 0
          ELSE IF \/ p[f] - q[f] < 0 /\ (\E t \in L : t > f /\ p[t] # 0)
                  \/ p[f] - q[f] > 0 /\ (\E t \in L : t > f /\ q[t] # 0)
               THEN - (p[f] - q[f]) ELSE p[f] - q[f]
  BY <1>1, <1>2 DEF CmpCounts
<1>4. f = CHOOSE t \in D : \A u \in D : t <= u
  BY <1>1, <1>2
<1>5. D = {t \in L : p[t] # q[t]}
  BY <1>1
<1> HIDE DEF diff, first
<1>6. \A t \in L : p[t] = a[t] /\ q[t] = b[t]
  BY DEF WordOf
<1>7. a \in Words /\ b \in Words
  BY WordFacts
<1>8. \A t \in Nat : /\ a[t] \in Nat /\ b[t] \in Nat
                     /\ t \notin L => a[t] = 0 /\ b[t] = 0
  <2> SUFFICES ASSUME NEW t \in Nat
               PROVE  /\ a[t] \in Nat /\ b[t] \in Nat
                      /\ t \notin L => a[t] = 0 /\ b[t] = 0
    OBVIOUS
  <2>1. a[t] = Count(A, lab, t) /\ b[t] = Count(B, lab, t)
    BY DEF WordOf
  <2>2. /\ Count(A, lab, t) \in Nat /\ (Count(A, lab, t) # 0 <=> \E x \in A : lab[x] = t)
        /\ Count(B, lab, t) \in Nat /\ (Count(B, lab, t) # 0 <=> \E x \in B : lab[x] = t)
    BY Counted
  <2>3. /\ (\E x \in A : lab[x] = t) => t \in L
        /\ (\E x \in B : lab[x] = t) => t \in L
    BY DEF LabelsOf
  <2> QED
    BY <2>1, <2>2, <2>3
<1>9. CASE D = {}
  <2>1. c = 0
    BY <1>3, <1>9
  <2>2. \A t \in Nat : a[t] = b[t]
    BY <1>5, <1>6, <1>8, <1>9
  <2>3. a = b
    BY <1>7, <2>2 DEF Words
  <2> QED
    BY <2>1, <2>3
<1>10. CASE D # {}
  <2>1. f \in D /\ \A u \in D : f <= u
    <3>1. D \in SUBSET Nat
      BY <1>5
    <3>2. \E j \in D : \A k \in D : j <= k
      BY <1>10, <3>1, NatMin
    <3> QED
      BY <1>4, <3>2
  <2>2. f \in L /\ f \in Nat /\ a[f] # b[f] /\ p[f] = a[f] /\ q[f] = b[f]
    BY <1>5, <1>6, <2>1
  <2>3. AgreeBelow(a, b, f) /\ AgreeBelow(b, a, f)
    <3> SUFFICES ASSUME NEW u \in Nat, u < f  PROVE a[u] = b[u]
      BY DEF AgreeBelow
    <3>1. CASE u \in L
      <4>1. u \notin D
        BY <2>1, <2>2
      <4> QED
        BY <1>5, <1>6, <3>1, <4>1
    <3>2. CASE u \notin L
      BY <1>8, <3>2
    <3> QED
      BY <3>1, <3>2
  <2>4. /\ (\E t \in L : t > f /\ p[t] # 0) <=> GoesOn(a, f)
        /\ (\E t \in L : t > f /\ q[t] # 0) <=> GoesOn(b, f)
    BY <1>6, <1>8 DEF GoesOn
  <2>5. /\ ~ GoesOn(a, f) <=> EndsAt(a, f)
        /\ ~ GoesOn(b, f) <=> EndsAt(b, f)
    BY DEF GoesOn, EndsAt
  <2>6. PICK m \in Nat, n \in Nat : m = a[f] /\ n = b[f]
    BY <1>8, <2>2
  <2>7. m # n
    BY <2>2, <2>6
  <2>8. c = IF (m - n < 0 /\ GoesOn(a, f)) \/ (m - n > 0 /\ GoesOn(b, f)) THEN - (m - n)
            ELSE m - n
    BY <1>3, <1>10, <2>2, <2>4, <2>6
  <2>9. CASE m < n
    <3>1. c = IF GoesOn(a, f) THEN n - m ELSE m - n
      BY <2>8, <2>9
    <3>2. GoesOn(a, f) => SmallerAt(b, a, f)
      BY <2>3, <2>6, <2>9 DEF SmallerAt
    <3>3. ~ GoesOn(a, f) => SmallerAt(a, b, f)
      BY <2>3, <2>5, <2>6, <2>9 DEF SmallerAt
    <3>4. n - m > 0 /\ m - n < 0 /\ n - m \in Int /\ m - n \in Int
      BY <2>9
    <3>5. CASE GoesOn(a, f)
      BY <2>2, <3>1, <3>2, <3>4, <3>5 DEF SmallerWord
    <3>6. CASE ~ GoesOn(a, f)
      BY <2>2, <3>1, <3>3, <3>4, <3>6 DEF SmallerWord
    <3> QED
      BY <3>5, <3>6
  <2>10. CASE n < m
    <3>1. c = IF GoesOn(b, f) THEN n - m ELSE m - n
      BY <2>8, <2>10
    <3>2. GoesOn(b, f) => SmallerAt(a, b, f)
      BY <2>3, <2>6, <2>10 DEF SmallerAt
    <3>3. ~ GoesOn(b, f) => SmallerAt(b, a, f)
      BY <2>3, <2>5, <2>6, <2>10 DEF SmallerAt
    <3>4. n - m < 0 /\ m - n > 0 /\ n - m \in Int /\ m - n \in Int
      BY <2>10
    <3>5. CASE GoesOn(b, f)
      BY <2>2, <3>1, <3>2, <3>4, <3>5 DEF SmallerWord
    <3>6. CASE ~ GoesOn(b, f)
      BY <2>2, <3>1, <3>3, <3>4, <3>6 DEF SmallerWord
    <3> QED
      BY <3>5, <3>6
  <2> QED
    BY <2>6, <2>7, <2>9, <2>10
<1> QED
  BY <1>9, <1>10

(* A round of _h_cmp_foata compares the levels, although it does not look  *)
(* at the shared nodes where no other node is.                             *)
LEMMA LevelMeaning ==
  ASSUME NEW P, NEW Q, IsFiniteSet(P), IsFiniteSet(Q), NEW lab, NEW dep,
         Numbered(P, lab), Numbered(Q, lab), NEW d, NEW mole \in BOOLEAN,
         NEW A, A = AtDepth(P, dep, d), NEW B, B = AtDepth(Q, dep, d),
         NEW c, c = CmpLevel(P, Q, lab, dep, d, mole)
  PROVE  /\ c \in Int
         /\ c < 0 => SmallerLevel(LevelOf(A, lab, mole), LevelOf(B, lab, mole))
         /\ c > 0 => SmallerLevel(LevelOf(B, lab, mole), LevelOf(A, lab, mole))
         /\ c = 0 => LevelOf(A, lab, mole) = LevelOf(B, lab, mole)
<1> DEFINE ls == Lists(P, Q)
           own == AtDepth(ls.l1 \cup ls.l2, dep, d)
<1>0. PICK l : l = LevelLabels(P, Q, lab, dep, d, mole)
  OBVIOUS
<1> DEFINE c1 == [t \in l |-> Count(A, lab, t)]
           c2 == [t \in l |-> Count(B, lab, t)]
           kinds == IF mole THEN Cardinality({t \in l : c1[t] > 0})
                                  - Cardinality({t \in l : c2[t] > 0})
                    ELSE 0
           word == CmpCounts(l, c1, c2)
<1>1. c = IF kinds # 0 THEN kinds ELSE word
  BY <1>0 DEF CmpLevel
<1>2. IsFiniteSet(A) /\ IsFiniteSet(B)
  <2>1. A \subseteq P /\ B \subseteq Q
    BY DEF AtDepth
  <2> QED
    BY <2>1, FS_Subset
<1>3. own = (A \ B) \cup (B \ A)
  BY DEF Lists, AtDepth
<1>4. AtDepth(ls.l12, dep, d) = A \cap B
  BY DEF Lists, AtDepth
<1>5. \A x \in A \cup B : lab[x] \in Nat
  BY DEF AtDepth, Numbered
<1>5a. l = {lab[x] : x \in own \cup
                        (IF own # {} \/ mole THEN AtDepth(ls.l12, dep, d) ELSE {})}
  BY <1>0 DEF LevelLabels
<1>6. l \subseteq LabelsOf(A, lab) \cup LabelsOf(B, lab)
  <2>1. own \cup (IF own # {} \/ mole THEN AtDepth(ls.l12, dep, d) ELSE {}) \subseteq A \cup B
    <3> HIDE DEF own, ls
    <3> QED
      BY <1>3, <1>4
  <2> HIDE DEF own, ls
  <2> QED
    BY <1>5a, <2>1 DEF LabelsOf
<1>7. A # B \/ mole => l = LabelsOf(A, lab) \cup LabelsOf(B, lab)
  <2> SUFFICES ASSUME A # B \/ mole  PROVE l = LabelsOf(A, lab) \cup LabelsOf(B, lab)
    OBVIOUS
  <2>1. own # {} \/ mole
    BY <1>3
  <2>2. own \cup (IF own # {} \/ mole THEN AtDepth(ls.l12, dep, d) ELSE {}) = A \cup B
    BY <1>3, <1>4, <2>1
  <2>3. l = {lab[x] : x \in A \cup B}
    <3> HIDE DEF own, ls
    <3> QED
      BY <1>5a, <2>2
  <2> QED
    BY <2>3 DEF LabelsOf
<1>8. l \subseteq Nat
  BY <1>5, <1>6 DEF LabelsOf
<1> HIDE DEF ls, own
<1> DEFINE a == WordOf(A, lab)
           b == WordOf(B, lab)
<1>11. A = B => word = 0 /\ kinds = 0
  <2> SUFFICES ASSUME A = B  PROVE word = 0 /\ kinds = 0
    OBVIOUS
  <2>1. c1 = c2
    OBVIOUS
  <2>2. word = 0
    <3> HIDE DEF c1, c2
    <3> QED
      BY <2>1 DEF CmpCounts
  <2>3. ASSUME mole  PROVE kinds = 0
    <3>0. l = LabelsOf(A, lab) \cup LabelsOf(A, lab)
      BY <1>7, <2>3
    <3>1. {t \in l : c1[t] > 0} \subseteq l /\ IsFiniteSet(l)
      <4> HIDE DEF c1
      <4>1. l = LabelsOf(A, lab)
        BY <3>0
      <4>2. IsFiniteSet(l)
        BY <1>2, <4>1, LabelsFinite
      <4> QED
        BY <4>2
    <3>2. Cardinality({t \in l : c1[t] > 0}) \in Nat
      <4> HIDE DEF c1
      <4> QED
        BY <3>1, FS_Subset, FS_CardinalityType
    <3> HIDE DEF c1, c2
    <3> QED
      BY <2>1, <2>3, <3>2
  <2> QED
    BY <2>2, <2>3
<1>12. A # B \/ mole =>
         kinds = LevelOf(A, lab, mole).kinds - LevelOf(B, lab, mole).kinds
  <2> SUFFICES ASSUME A # B \/ mole
               PROVE  kinds = LevelOf(A, lab, mole).kinds - LevelOf(B, lab, mole).kinds
    OBVIOUS
  <2>1. CASE mole
    <3>1. {t \in l : c1[t] > 0} = LabelsOf(A, lab)
      <4>1. \A t \in l : c1[t] > 0 <=> t \in LabelsOf(A, lab)
        <5> SUFFICES ASSUME NEW t \in l  PROVE c1[t] > 0 <=> t \in LabelsOf(A, lab)
          OBVIOUS
        <5>1. c1[t] \in Nat /\ (c1[t] # 0 <=> \E x \in A : lab[x] = t)
          BY <1>2, Counted
        <5> HIDE DEF c1
        <5> QED
          BY <5>1 DEF LabelsOf
      <4> HIDE DEF c1
      <4> QED
        BY <1>7, <2>1, <4>1
    <3>2. {t \in l : c2[t] > 0} = LabelsOf(B, lab)
      <4>1. \A t \in l : c2[t] > 0 <=> t \in LabelsOf(B, lab)
        <5> SUFFICES ASSUME NEW t \in l  PROVE c2[t] > 0 <=> t \in LabelsOf(B, lab)
          OBVIOUS
        <5>1. c2[t] \in Nat /\ (c2[t] # 0 <=> \E x \in B : lab[x] = t)
          BY <1>2, Counted
        <5> HIDE DEF c2
        <5> QED
          BY <5>1 DEF LabelsOf
      <4> HIDE DEF c2
      <4> QED
        BY <1>7, <2>1, <4>1
    <3> HIDE DEF c1, c2
    <3> QED
      BY <2>1, <3>1, <3>2 DEF LevelOf
  <2>2. CASE ~ mole
    BY <2>2 DEF LevelOf
  <2> QED
    BY <2>1, <2>2
<1>13. LevelOf(A, lab, mole) \in LevelKeys /\ LevelOf(B, lab, mole) \in LevelKeys
  BY <1>2, LevelOfType
<1>14. LevelOf(A, lab, mole).word = a /\ LevelOf(B, lab, mole).word = b
  BY DEF LevelOf
<1>15. CASE A = B /\ ~ mole
  <2>1. c = 0
    BY <1>1, <1>11, <1>15
  <2> QED
    BY <1>15, <2>1
<1>16. CASE A # B \/ mole
  <2>1. PICK k, m : k = LevelOf(A, lab, mole) /\ m = LevelOf(B, lab, mole)
    OBVIOUS
  <2>2. /\ k.kinds \in Nat /\ m.kinds \in Nat /\ k.word = a /\ m.word = b
        /\ (k.kinds = m.kinds /\ a = b => k = m)
    BY <1>13, <1>14, <2>1 DEF LevelKeys
  <2>3. /\ word \in Int
        /\ word < 0 => SmallerWord(a, b)
        /\ word > 0 => SmallerWord(b, a)
        /\ word = 0 => a = b
    <3>1. LabelsOf(A, lab) \subseteq l /\ LabelsOf(B, lab) \subseteq l
      BY <1>7, <1>16
    <3>2. c1 = [t \in l |-> Count(A, lab, t)] /\ c2 = [t \in l |-> Count(B, lab, t)]
      OBVIOUS
    <3> HIDE DEF c1, c2
    <3> QED
      BY <1>2, <1>8, <3>1, <3>2, WordsCompared
  <2>4. kinds = k.kinds - m.kinds
    BY <1>12, <1>16, <2>1
  <2> HIDE DEF kinds, word, a, b
  <2>5. CASE kinds # 0
    <3>1. c = k.kinds - m.kinds
      BY <1>1, <2>4, <2>5
    <3>2. PICK i \in Nat, j \in Nat : i = k.kinds /\ j = m.kinds
      BY <2>2
    <3>3. c = i - j /\ c # 0
      BY <2>4, <2>5, <3>1, <3>2
    <3>4. c \in Int /\ (c < 0 => i < j) /\ (c > 0 => j < i)
      BY <3>3
    <3> QED
      BY <2>1, <3>2, <3>3, <3>4 DEF SmallerLevel
  <2>6. CASE kinds = 0
    <3>1. c = word
      BY <1>1, <2>6
    <3>2. k.kinds = m.kinds /\ m.kinds = k.kinds
      BY <2>2, <2>4, <2>6
    <3> QED
      BY <2>1, <2>2, <2>3, <3>1, <3>2 DEF SmallerLevel
  <2> QED
    BY <2>5, <2>6
<1> QED
  BY <1>15, <1>16

-----------------------------------------------------------------------------
(* _h_cmp_foata.                                                           *)
LevelsOf(P, lab, dep, mole) == [d \in Nat |-> LevelOf(AtDepth(P, dep, d), lab, mole)]

LEMMA AtDepthFinite ==
  ASSUME NEW P, IsFiniteSet(P), NEW dep, NEW d
  PROVE  IsFiniteSet(AtDepth(P, dep, d))
<1>1. AtDepth(P, dep, d) \subseteq P
  BY DEF AtDepth
<1> QED
  BY <1>1, FS_Subset

(* When the levels above s are even and one history has no node of its own *)
(* left, then neither has the other, which is as large.                    *)
LEMMA NoneLeft ==
  ASSUME NEW P, NEW Q, IsFiniteSet(P), IsFiniteSet(Q), Cardinality(P) = Cardinality(Q),
         NEW dep, Numbered(P, dep), Numbered(Q, dep), NEW s \in Nat,
         \A d \in Nat : d < s => Count(P, dep, d) = Count(Q, dep, d),
         \A x \in Q \ P : dep[x] < s
  PROVE  \A x \in P \ Q : dep[x] < s
<1> DEFINE U(S) == {x \in S : dep[x] < s}
           V(S) == {x \in S : ~ (dep[x] < s)}
<1>1. ASSUME NEW S, IsFiniteSet(S)
      PROVE  /\ IsFiniteSet(V(S)) /\ Cardinality(V(S)) \in Nat /\ Cardinality(U(S)) \in Nat
             /\ Cardinality(S) = Cardinality(U(S)) + Cardinality(V(S))
  <2>1. IsFiniteSet(V(S)) /\ IsFiniteSet(U(S))
    BY <1>1, FS_Subset, U(S) \subseteq S, V(S) \subseteq S, Zenon
  <2>2. U(S) \cap V(S) = {} /\ S = U(S) \cup V(S)
    OBVIOUS
  <2> HIDE DEF U, V
  <2>3. /\ Cardinality(U(S)) \in Nat /\ Cardinality(V(S)) \in Nat
        /\ Cardinality(U(S) \cup V(S)) = Cardinality(U(S)) + Cardinality(V(S))
    BY <2>1, <2>2, DisjointUnion
  <2> QED
    BY <2>1, <2>2, <2>3
<1>2. Cardinality(U(P)) = Cardinality(U(Q))
  BY Fibres
<1>3. V(Q) \subseteq V(P)
  OBVIOUS
<1>4. /\ Cardinality(P) = Cardinality(U(P)) + Cardinality(V(P))
      /\ Cardinality(Q) = Cardinality(U(Q)) + Cardinality(V(Q))
      /\ Cardinality(U(P)) \in Nat /\ Cardinality(V(P)) \in Nat /\ Cardinality(V(Q)) \in Nat
      /\ IsFiniteSet(V(P))
  BY <1>1
<1>5. Cardinality(V(Q)) = Cardinality(V(P))
  <2> HIDE DEF U, V
  <2>1. PICK u \in Nat, p \in Nat, q \in Nat :
          u = Cardinality(U(P)) /\ p = Cardinality(V(P)) /\ q = Cardinality(V(Q))
    BY <1>4, Zenon
  <2>2. Cardinality(P) = u + p /\ Cardinality(Q) = u + q
    BY <1>2, <1>4, <2>1
  <2>3. u + p = u + q
    BY <2>2, Zenon
  <2>4. u \in Nat /\ p \in Nat /\ q \in Nat
    BY <2>1
  <2>5. \A x, y, z \in Nat : x + y = x + z => y = z
    OBVIOUS
  <2>6. p = q
    BY <2>3, <2>4, <2>5, Zenon
  <2> QED
    BY <2>1, <2>6
<1>6. V(Q) = V(P)
  <2> HIDE DEF U, V
  <2> QED
    BY <1>3, <1>4, <1>5, FS_Subset
<1> QED
  BY <1>6

(* Histories of one size and with one event at depth 0 are compared level  *)
(* by level, and equal only if their levels are.                           *)
LEMMA FoataMeaning ==
  ASSUME NEW P, NEW Q, IsFiniteSet(P), IsFiniteSet(Q), Cardinality(P) = Cardinality(Q),
         NEW lab, NEW dep, Numbered(P, lab), Numbered(Q, lab),
         Numbered(P, dep), Numbered(Q, dep), NEW mole \in BOOLEAN,
         AtDepth(P, dep, 0) = AtDepth(Q, dep, 0),
         \A x \in P \cup Q : dep[x] <= Cardinality(P) + Cardinality(Q),
         NEW c, c = CmpFoata(P, Q, lab, dep, mole),
         NEW K, K = LevelsOf(P, lab, dep, mole), NEW L, L = LevelsOf(Q, lab, dep, mole)
  PROVE  /\ c \in Int
         /\ c < 0 => SmallerLevels(K, L)
         /\ c > 0 => SmallerLevels(L, K)
         /\ c = 0 => K = L
<1> DEFINE Left(X, d) == \E x \in X : dep[x] >= d
           C(d) == CmpLevel(P, Q, lab, dep, d, mole)
<1>1. PICK N \in Nat : N = 1 + Cardinality(P) + Cardinality(Q)
  <2>1. Cardinality(P) \in Nat /\ Cardinality(Q) \in Nat
    BY FS_CardinalityType
  <2> QED
    BY <2>1
<1> DEFINE run0 == {d \in 1..(1 + Cardinality(P) + Cardinality(Q)) :
                      Left(Lists(P, Q).l1, d) /\ Left(Lists(P, Q).l2, d)}
           found0 == {d \in run0 : CmpLevel(P, Q, lab, dep, d, mole) # 0}
           d10 == CHOOSE d \in found0 : \A k \in found0 : d <= k
<1>2a. c = IF found0 # {} THEN CmpLevel(P, Q, lab, dep, d10, mole)
           ELSE IF Left(Lists(P, Q).l1, 1 + Cardinality(run0)) THEN 1
           ELSE IF Left(Lists(P, Q).l2, 1 + Cardinality(run0)) THEN -1
           ELSE 0
  BY DEF CmpFoata
<1>2. PICK run : run = run0
  OBVIOUS
<1>3a. PICK found : found = found0
  OBVIOUS
<1>3. found = {d \in run : C(d) # 0}
  BY <1>2, <1>3a
<1>4a. PICK d1 : d1 = d10
  OBVIOUS
<1>4. d1 = CHOOSE d \in found : \A k \in found : d <= k
  BY <1>3a, <1>4a
<1>5. c = IF found # {} THEN C(d1)
          ELSE IF Left(Lists(P, Q).l1, 1 + Cardinality(run)) THEN 1
          ELSE IF Left(Lists(P, Q).l2, 1 + Cardinality(run)) THEN -1
          ELSE 0
  <2> HIDE DEF run0, found0, d10, Left
  <2> QED
    BY <1>2, <1>2a, <1>3a, <1>4a
<1>6. Lists(P, Q).l1 = P \ Q /\ Lists(P, Q).l2 = Q \ P
  BY DEF Lists
<1>7. run = {d \in 1..N : Left(P \ Q, d) /\ Left(Q \ P, d)}
  BY <1>1, <1>2, <1>6
<1> HIDE DEF run0, found0, d10
<1>8. K \in LevelsKeys /\ L \in LevelsKeys
  <2>1. \A d \in Nat : /\ LevelOf(AtDepth(P, dep, d), lab, mole) \in LevelKeys
                       /\ LevelOf(AtDepth(Q, dep, d), lab, mole) \in LevelKeys
    BY AtDepthFinite, LevelOfType
  <2> QED
    BY <2>1 DEF LevelsOf, LevelsKeys
<1>9. \A d \in Nat : K[d] = LevelOf(AtDepth(P, dep, d), lab, mole)
                     /\ L[d] = LevelOf(AtDepth(Q, dep, d), lab, mole)
  BY DEF LevelsOf
<1>10. \A d \in Nat : /\ C(d) \in Int
                      /\ C(d) < 0 => SmallerLevel(K[d], L[d])
                      /\ C(d) > 0 => SmallerLevel(L[d], K[d])
                      /\ C(d) = 0 => K[d] = L[d]
  <2> SUFFICES ASSUME NEW d \in Nat
               PROVE  /\ C(d) \in Int
                      /\ C(d) < 0 => SmallerLevel(K[d], L[d])
                      /\ C(d) > 0 => SmallerLevel(L[d], K[d])
                      /\ C(d) = 0 => K[d] = L[d]
    OBVIOUS
  <2>1. PICK e : e = C(d)
    OBVIOUS
  <2>2. PICK A : A = AtDepth(P, dep, d)
    OBVIOUS
  <2>3. PICK B : B = AtDepth(Q, dep, d)
    OBVIOUS
  <2>4. /\ e \in Int
        /\ e < 0 => SmallerLevel(LevelOf(A, lab, mole), LevelOf(B, lab, mole))
        /\ e > 0 => SmallerLevel(LevelOf(B, lab, mole), LevelOf(A, lab, mole))
        /\ e = 0 => LevelOf(A, lab, mole) = LevelOf(B, lab, mole)
    BY <2>1, <2>2, <2>3, LevelMeaning
  <2> HIDE DEF C
  <2> QED
    BY <1>9, <2>1, <2>2, <2>3, <2>4
<1> HIDE DEF C
<1>11. K[0] = L[0]
  BY <1>9
<1>12. ASSUME NEW d \in run, NEW k \in Nat, k # 0, k <= d  PROVE k \in run
  <2>1. d \in 1..N /\ Left(P \ Q, d) /\ Left(Q \ P, d)
    BY <1>7
  <2>2. k \in 1..N
    BY <1>12, <2>1
  <2>3. \A x \in P \cup Q : dep[x] >= d => dep[x] >= k
    BY <1>12, <2>1 DEF Numbered
  <2>4. Left(P \ Q, k) /\ Left(Q \ P, k)
    BY <2>1, <2>3
  <2> HIDE DEF Left
  <2> QED
    BY <1>7, <2>2, <2>4
<1>13. run \subseteq Nat
  <2> HIDE DEF Left
  <2> QED
    BY <1>7
<1>14. \A d \in run \ found : K[d] = L[d]
  BY <1>3, <1>10, <1>13
<1>15. CASE found # {}
  <2>1. d1 \in found /\ \A k \in found : d1 <= k
    <3>1. found \in SUBSET Nat
      BY <1>3, <1>13
    <3>2. \E j \in found : \A k \in found : j <= k
      BY <1>15, <3>1, NatMin
    <3> QED
      BY <1>4, <3>2
  <2>2. d1 \in Nat /\ d1 \in run /\ C(d1) # 0
    BY <1>3, <1>13, <2>1
  <2>3. \A u \in Nat : u < d1 => K[u] = L[u]
    <3> SUFFICES ASSUME NEW u \in Nat, u < d1  PROVE K[u] = L[u]
      OBVIOUS
    <3>1. CASE u = 0
      BY <1>11, <3>1
    <3>2. CASE u # 0
      <4>1. u <= d1
        BY <2>2
      <4>2. u \in run
        BY <1>12, <2>2, <3>2, <4>1
      <4>3. u \notin found
        BY <2>1, <2>2
      <4> QED
        BY <1>14, <4>2, <4>3
    <3> QED
      BY <3>1, <3>2
  <2>4. c = C(d1)
    BY <1>5, <1>15
  <2>5. c \in Int /\ c # 0 /\ (c < 0 => SmallerLevel(K[d1], L[d1]))
                           /\ (c > 0 => SmallerLevel(L[d1], K[d1]))
    BY <1>10, <2>2, <2>4
  <2> QED
    BY <2>2, <2>3, <2>5 DEF SmallerLevels, SmallerFrom
<1>16. CASE found = {}
  <2>1. \A d \in run : K[d] = L[d]
    BY <1>14, <1>16
  <2>2. PICK m \in Nat : m + 1 \notin run /\ \A k \in Nat : k + 1 \notin run => m <= k
    <3> DEFINE S == {k \in Nat : k + 1 \notin run}
    <3>1. S # {}
      <4>1. N + 1 \notin 1..N
        OBVIOUS
      <4>2. N + 1 \notin run
        BY <1>7, <4>1
      <4>3. N \in S
        BY <4>2
      <4> QED
        BY <4>3
    <3>2. S \in SUBSET Nat
      OBVIOUS
    <3>3. PICK m \in S : \A k \in S : m <= k
      <4> HIDE DEF S
      <4> QED
        BY <3>1, <3>2, NatMin
    <3> QED
      BY <3>3
  <2>3. run = 1..m
    <3>1. ASSUME NEW d \in run  PROVE d \in 1..m
      <4>1. d \in Nat /\ d # 0
        <5> HIDE DEF Left
        <5> QED
          BY <1>7
      <4>2. ~ (m + 1 <= d)
        <5>1. m + 1 \in Nat /\ m + 1 # 0
          BY <2>2
        <5> QED
          BY <1>12, <2>2, <5>1
      <4> QED
        BY <2>2, <4>1, <4>2
    <3>2. ASSUME NEW d \in 1..m  PROVE d \in run
      <4>1. d - 1 \in Nat /\ ~ (m <= d - 1) /\ (d - 1) + 1 = d
        BY <2>2
      <4> QED
        BY <2>2, <4>1
    <3> QED
      BY <3>1, <3>2
  <2>4. Cardinality(run) = m
    BY <2>2, <2>3, FS_Interval
  <2>5. PICK s \in Nat : s = 1 + m /\ s # 0 /\ s \notin run
    BY <2>2
  <2>6. c = IF Left(P \ Q, s) THEN 1 ELSE IF Left(Q \ P, s) THEN -1 ELSE 0
    <3>1. 1 + Cardinality(run) = s
      BY <2>4, <2>5
    <3> HIDE DEF Left
    <3> QED
      BY <1>5, <1>6, <1>16, <3>1
  <2>7. \A d \in Nat : d < s => K[d] = L[d]
    <3> SUFFICES ASSUME NEW d \in Nat, d < s  PROVE K[d] = L[d]
      OBVIOUS
    <3>1. d = 0 \/ d \in 1..m
      BY <2>2, <2>5
    <3> QED
      BY <1>11, <2>1, <2>3, <3>1
  <2>8. \A d \in Nat : d < s => Count(P, dep, d) = Count(Q, dep, d)
    <3> SUFFICES ASSUME NEW d \in Nat, d < s  PROVE Count(P, dep, d) = Count(Q, dep, d)
      OBVIOUS
    <3>1. PICK A : A = AtDepth(P, dep, d)
      OBVIOUS
    <3>2. PICK B : B = AtDepth(Q, dep, d)
      OBVIOUS
    <3>3. LevelOf(A, lab, mole).word = LevelOf(B, lab, mole).word
      BY <1>9, <2>7, <3>1, <3>2
    <3>4. WordOf(A, lab) = WordOf(B, lab)
      BY <3>3 DEF LevelOf
    <3>5. /\ IsFiniteSet(A) /\ IsFiniteSet(B) /\ Numbered(A, lab) /\ Numbered(B, lab)
      <4>1. IsFiniteSet(A) /\ IsFiniteSet(B)
        BY <3>1, <3>2, AtDepthFinite
      <4>2. A \subseteq P /\ B \subseteq Q
        BY <3>1, <3>2 DEF AtDepth
      <4> QED
        BY <4>1, <4>2 DEF Numbered
    <3>6. Cardinality(A) = Cardinality(B)
      BY <3>4, <3>5, SameCountsSameSize
    <3> QED
      BY <3>1, <3>2, <3>6 DEF Count, AtDepth
  <2>9. ~ Left(P \ Q, s) \/ ~ Left(Q \ P, s)
    <3>1. CASE s \in 1..N
      <4> HIDE DEF Left
      <4> QED
        BY <1>7, <2>5, <3>1
    <3>2. CASE s \notin 1..N
      <4>1. s > N
        BY <2>5, <3>2
      <4>2. \A x \in P \cup Q : ~ (dep[x] >= s)
        <5> SUFFICES ASSUME NEW x \in P \cup Q  PROVE ~ (dep[x] >= s)
          OBVIOUS
        <5>1. dep[x] \in Nat /\ dep[x] <= Cardinality(P) + Cardinality(Q)
          BY DEF Numbered
        <5>2. Cardinality(P) \in Nat /\ Cardinality(Q) \in Nat
          BY FS_CardinalityType
        <5>3. PICK y \in Nat : y = dep[x]
          BY <5>1
        <5>4. y < N
          BY <1>1, <5>1, <5>2, <5>3
        <5> QED
          BY <4>1, <5>3, <5>4
      <4> QED
        BY <4>2
    <3> QED
      BY <3>1, <3>2
  <2>10. \A x \in P \cup Q : ~ (dep[x] >= s) <=> dep[x] < s
    BY DEF Numbered
  <2>11. ~ Left(Q \ P, s) => ~ Left(P \ Q, s)
    <3> SUFFICES ASSUME ~ Left(Q \ P, s)  PROVE ~ Left(P \ Q, s)
      OBVIOUS
    <3>1. \A x \in Q \ P : dep[x] < s
      BY <2>10
    <3>2. \A x \in P \ Q : dep[x] < s
      BY <2>8, <3>1, NoneLeft
    <3> QED
      BY <2>10, <3>2
  <2>12. ~ Left(P \ Q, s) => ~ Left(Q \ P, s)
    <3> SUFFICES ASSUME ~ Left(P \ Q, s)  PROVE ~ Left(Q \ P, s)
      OBVIOUS
    <3>1. \A x \in P \ Q : dep[x] < s
      BY <2>10
    <3>2. \A d \in Nat : d < s => Count(Q, dep, d) = Count(P, dep, d)
      BY <2>8
    <3>3. \A x \in Q \ P : dep[x] < s
      BY <3>1, <3>2, NoneLeft
    <3> QED
      BY <2>10, <3>3
  <2>13. ~ Left(P \ Q, s) /\ ~ Left(Q \ P, s)
    BY <2>9, <2>11, <2>12
  <2>14. c = 0
    <3> HIDE DEF Left
    <3> QED
      BY <2>6, <2>13
  <2>15. \A d \in Nat : K[d] = L[d]
    <3> SUFFICES ASSUME NEW d \in Nat, ~ (d < s)  PROVE K[d] = L[d]
      BY <2>7
    <3>1. d >= s
      BY <2>5
    <3>2. AtDepth(P, dep, d) = AtDepth(Q, dep, d)
      BY <2>13, <3>1 DEF AtDepth
    <3> QED
      BY <1>9, <3>2
  <2>16. K = L
    BY <1>8, <2>15 DEF LevelsKeys
  <2> QED
    BY <2>14, <2>16
<1> QED
  BY <1>15, <1>16

-----------------------------------------------------------------------------
(* h_cmp: a history stands in the order where its key does.                *)
NoWord == [t \in Nat |-> 0]

KeyOf(P, lab, dep, order) ==
  [size   |-> Cardinality(P),
   word   |-> IF order \in {"mcm", "none"} THEN NoWord ELSE WordOf(P, lab),
   levels |-> IF HasTotalOrder(order) THEN LevelsOf(P, lab, dep, order = "mole")
              ELSE [d \in Nat |-> [kinds |-> 0, word |-> NoWord]]]

(* What the comparison needs of the nodes of a history: a label and a      *)
(* depth, less than the number of nodes, and 0 for the same ones always.   *)
IsHistory(P, lab, dep, root) ==
  /\ IsFiniteSet(P)
  /\ Numbered(P, lab) /\ Numbered(P, dep)
  /\ AtDepth(P, dep, 0) = {root}
  /\ \A x \in P : dep[x] <= Cardinality(P)

LEMMA KeyOfType ==
  ASSUME NEW P, IsFiniteSet(P), NEW lab, NEW dep, NEW order
  PROVE  KeyOf(P, lab, dep, order) \in Keys
<1>1. Cardinality(P) \in Nat
  BY FS_CardinalityType
<1>2. NoWord \in Words /\ WordOf(P, lab) \in Words
  BY WordFacts DEF NoWord, Words
<1>3. LevelsOf(P, lab, dep, order = "mole") \in LevelsKeys
  <2>1. \A d \in Nat : LevelOf(AtDepth(P, dep, d), lab, order = "mole") \in LevelKeys
    BY AtDepthFinite, LevelOfType
  <2> QED
    BY <2>1 DEF LevelsOf, LevelsKeys
<1>4. [d \in Nat |-> [kinds |-> 0, word |-> NoWord]] \in LevelsKeys
  BY <1>2 DEF LevelsKeys, LevelKeys
<1> QED
  BY <1>1, <1>2, <1>3, <1>4 DEF KeyOf, Keys

LEMMA KeyParts ==
  ASSUME NEW P, NEW lab, NEW dep, NEW order
  PROVE  /\ KeyOf(P, lab, dep, order).size = Cardinality(P)
         /\ KeyOf(P, lab, dep, order).word =
              IF order \in {"mcm", "none"} THEN NoWord ELSE WordOf(P, lab)
         /\ KeyOf(P, lab, dep, order).levels =
              IF HasTotalOrder(order) THEN LevelsOf(P, lab, dep, order = "mole")
              ELSE [d \in Nat |-> [kinds |-> 0, word |-> NoWord]]
BY DEF KeyOf

LEMMA HCmpMeaning ==
  ASSUME NEW P, NEW Q, NEW lab, NEW dep, NEW root,
         IsHistory(P, lab, dep, root), IsHistory(Q, lab, dep, root),
         NEW order \in Orders,
         NEW k, k = KeyOf(P, lab, dep, order), NEW l, l = KeyOf(Q, lab, dep, order),
         NEW c, c = HCmp(P, Q, lab, dep, order)
  PROVE  /\ c \in Int
         /\ c < 0 <=> SmallerKey(k, l)
         /\ c > 0 <=> SmallerKey(l, k)
         /\ c = 0 <=> k = l
<1>1. /\ IsFiniteSet(P) /\ IsFiniteSet(Q)
      /\ Numbered(P, lab) /\ Numbered(Q, lab) /\ Numbered(P, dep) /\ Numbered(Q, dep)
  BY DEF IsHistory
<1>2. k \in Keys /\ l \in Keys
  BY <1>1, KeyOfType
<1>3. /\ k.size = Cardinality(P) /\ l.size = Cardinality(Q)
      /\ k.word = IF order \in {"mcm", "none"} THEN NoWord ELSE WordOf(P, lab)
      /\ l.word = IF order \in {"mcm", "none"} THEN NoWord ELSE WordOf(Q, lab)
      /\ k.levels = IF HasTotalOrder(order) THEN LevelsOf(P, lab, dep, order = "mole")
                    ELSE [d \in Nat |-> [kinds |-> 0, word |-> NoWord]]
      /\ l.levels = IF HasTotalOrder(order) THEN LevelsOf(Q, lab, dep, order = "mole")
                    ELSE [d \in Nat |-> [kinds |-> 0, word |-> NoWord]]
  BY KeyParts
<1>4. k.size \in Nat /\ l.size \in Nat
      /\ (k.size = l.size /\ k.word = l.word /\ k.levels = l.levels => k = l)
  BY <1>2 DEF Keys
<1> DEFINE Meaning == /\ c \in Int
                      /\ c < 0 => SmallerKey(k, l)
                      /\ c > 0 => SmallerKey(l, k)
                      /\ c = 0 => k = l
<1>5. PICK pk : pk = CmpParikh(ParikhVector(P, lab), ParikhVector(Q, lab))
  OBVIOUS
<1>6. PICK fo : fo = CmpFoata(P, Q, lab, dep, order = "mole")
  OBVIOUS
<1>7. c = IF Cardinality(P) # Cardinality(Q) THEN Cardinality(P) - Cardinality(Q)
          ELSE IF order \in {"mcm", "none"} THEN 0
          ELSE IF pk # 0 THEN pk
          ELSE IF order = "parikh" THEN 0
          ELSE fo
  BY <1>5, <1>6 DEF HCmp
<1>8. /\ pk \in Int
      /\ pk < 0 => SmallerWord(WordOf(P, lab), WordOf(Q, lab))
      /\ pk > 0 => SmallerWord(WordOf(Q, lab), WordOf(P, lab))
      /\ pk = 0 /\ Cardinality(P) = Cardinality(Q) => WordOf(P, lab) = WordOf(Q, lab)
  BY <1>1, <1>5, ParikhMeaning
<1>9. CASE Cardinality(P) # Cardinality(Q)
  <2>1. PICK m \in Nat, n \in Nat : m = k.size /\ n = l.size
    BY <1>4
  <2>2. c = m - n /\ m # n
    BY <1>3, <1>7, <1>9, <2>1
  <2>3. c \in Int /\ (c < 0 => m < n) /\ (c > 0 => n < m) /\ c # 0
    BY <2>1, <2>2
  <2>4. Meaning
    BY <2>1, <2>3 DEF SmallerKey
  <2> QED
    BY <1>2, <2>3, <2>4, SmallerKeyOrder
<1>10. ASSUME Meaning
       PROVE  (c < 0 <=> SmallerKey(k, l)) /\ (c > 0 <=> SmallerKey(l, k)) /\ (c = 0 <=> k = l)
  <2>1. /\ SmallerKey(k, l) => ~ SmallerKey(l, k) /\ k # l
        /\ SmallerKey(l, k) => ~ SmallerKey(k, l) /\ k # l
    BY <1>2, SmallerKeyOrder
  <2>2. c < 0 \/ c = 0 \/ c > 0
    BY <1>10
  <2> QED
    BY <1>10, <2>1, <2>2, Zenon
<1>11. CASE Cardinality(P) = Cardinality(Q)
  <2>1. k.size = l.size
    BY <1>3, <1>11
  <2>2. CASE order \in {"mcm", "none"}
    <3>1. c = 0
      BY <1>7, <1>11, <2>2
    <3>2. k.word = l.word /\ k.levels = l.levels
      BY <1>3, <2>2 DEF HasTotalOrder
    <3>3. k = l
      BY <1>4, <2>1, <3>2
    <3> QED
      BY <1>10, <3>1, <3>3
  <2>3. CASE order \notin {"mcm", "none"} /\ pk # 0
    <3>1. c = pk
      BY <1>7, <1>11, <2>3
    <3>2. k.word = WordOf(P, lab) /\ l.word = WordOf(Q, lab)
      BY <1>3, <2>3
    <3>3. Meaning
      BY <1>8, <2>1, <2>3, <3>1, <3>2 DEF SmallerKey
    <3> QED
      BY <1>10, <3>3
  <2>4. CASE order = "parikh" /\ pk = 0
    <3>1. c = 0
      BY <1>7, <1>11, <2>4
    <3>2. k.word = l.word /\ k.levels = l.levels
      BY <1>3, <1>8, <1>11, <2>4 DEF HasTotalOrder
    <3>3. k = l
      BY <1>4, <2>1, <3>2
    <3> QED
      BY <1>10, <3>1, <3>3
  <2>5. CASE order \in {"erv", "mole"} /\ pk = 0
    <3>1. c = fo
      BY <1>7, <1>11, <2>5
    <3>2. k.word = l.word
      BY <1>3, <1>8, <1>11, <2>5
    <3>3. AtDepth(P, dep, 0) = AtDepth(Q, dep, 0)
      BY DEF IsHistory
    <3>4. \A x \in P \cup Q : dep[x] <= Cardinality(P) + Cardinality(Q)
      <4> SUFFICES ASSUME NEW x \in P \cup Q
                   PROVE  dep[x] <= Cardinality(P) + Cardinality(Q)
        OBVIOUS
      <4>1. PICK m \in Nat : m = Cardinality(P) /\ m = Cardinality(Q)
        BY <1>1, <1>11, FS_CardinalityType
      <4>2. PICK y \in Nat : y = dep[x]
        BY <1>1 DEF Numbered
      <4>3. y <= m
        BY <4>1, <4>2 DEF IsHistory
      <4>4. y <= m + m
        BY <4>3
      <4> QED
        BY <4>1, <4>2, <4>4
    <3>5. k.levels = LevelsOf(P, lab, dep, order = "mole")
          /\ l.levels = LevelsOf(Q, lab, dep, order = "mole")
      BY <1>3, <2>5 DEF HasTotalOrder
    <3>6. PICK mole \in BOOLEAN : mole = (order = "mole")
      OBVIOUS
    <3>7. PICK K : K = LevelsOf(P, lab, dep, mole)
      OBVIOUS
    <3>8. PICK L : L = LevelsOf(Q, lab, dep, mole)
      OBVIOUS
    <3>9. fo = CmpFoata(P, Q, lab, dep, mole)
      BY <1>6, <3>6, Zenon
    <3>10. /\ fo \in Int
           /\ fo < 0 => SmallerLevels(K, L)
           /\ fo > 0 => SmallerLevels(L, K)
           /\ fo = 0 => K = L
      BY <1>1, <1>11, <3>3, <3>4, <3>7, <3>8, <3>9, FoataMeaning
    <3>11. K = k.levels /\ L = l.levels
      BY <3>5, <3>6, <3>7, <3>8, Zenon
    <3>12. fo < 0 => SmallerKey(k, l)
      BY <2>1, <3>2, <3>10, <3>11 DEF SmallerKey
    <3>13. fo > 0 => SmallerKey(l, k)
      BY <2>1, <3>2, <3>10, <3>11 DEF SmallerKey
    <3>14. fo = 0 => k = l
      BY <1>4, <2>1, <3>2, <3>10, <3>11
    <3> QED
      BY <1>10, <3>1, <3>10, <3>12, <3>13, <3>14
  <2>6. order \in {"mcm", "none", "parikh", "erv", "mole"}
    BY DEF Orders
  <2> QED
    BY <1>8, <2>2, <2>3, <2>4, <2>5, <2>6
<1> QED
  BY <1>9, <1>11

(* Histories are compared by keys, and a key only depends on the nodes.    *)
LEMMA KeyLocal ==
  ASSUME NEW P, NEW lab, NEW dep, NEW order, NEW lab1, NEW dep1,
         \A x \in P : lab1[x] = lab[x] /\ dep1[x] = dep[x]
  PROVE  KeyOf(P, lab1, dep1, order) = KeyOf(P, lab, dep, order)
<1>1. ASSUME NEW A \in SUBSET P, NEW t PROVE Count(A, lab1, t) = Count(A, lab, t)
  <2>1. {x \in A : lab1[x] = t} = {x \in A : lab[x] = t}
    OBVIOUS
  <2> QED
    BY <2>1 DEF Count
<1>2. ASSUME NEW A \in SUBSET P
      PROVE  WordOf(A, lab1) = WordOf(A, lab) /\ LabelsOf(A, lab1) = LabelsOf(A, lab)
  BY <1>1 DEF WordOf, LabelsOf
<1>3. ASSUME NEW d \in Nat
      PROVE  AtDepth(P, dep1, d) = AtDepth(P, dep, d) /\ AtDepth(P, dep, d) \in SUBSET P
  BY DEF AtDepth
<1>4. ASSUME NEW mole PROVE LevelsOf(P, lab1, dep1, mole) = LevelsOf(P, lab, dep, mole)
  <2>1. ASSUME NEW d \in Nat
        PROVE  LevelOf(AtDepth(P, dep1, d), lab1, mole) = LevelOf(AtDepth(P, dep, d), lab, mole)
    <3>1. PICK A : A = AtDepth(P, dep, d)
      OBVIOUS
    <3>2. A \in SUBSET P /\ AtDepth(P, dep1, d) = A
      BY <1>3, <3>1
    <3>3. LevelOf(A, lab1, mole) = LevelOf(A, lab, mole)
      BY <1>2, <3>2 DEF LevelOf
    <3> QED
      BY <3>1, <3>2, <3>3
  <2> QED
    BY <2>1 DEF LevelsOf
<1>5. WordOf(P, lab1) = WordOf(P, lab)
  BY <1>2
<1> QED
  BY <1>4, <1>5 DEF KeyOf

HistLab == [z \in DOMAIN hists |-> events[hists[z].e].ft]
HistDep == [z \in DOMAIN hists |-> hists[z].depth]
HistKey(x) == KeyOf(hists[x].past, HistLab, HistDep, opt.order)

LEMMA HistsAreHistories ==
  ASSUME TypeOK, Layered, NEW x \in DOMAIN hists, NEW lab, NEW dep,
         \A z \in hists[x].past : lab[z] = HistLab[z] /\ dep[z] = HistDep[z]
  PROVE  IsHistory(hists[x].past, lab, dep, 1)
<1>0. PICK P : P = hists[x].past
  OBVIOUS
<1>1. /\ P \subseteq DOMAIN hists
      /\ \A z \in DOMAIN hists : /\ hists[z].past \subseteq DOMAIN hists
                                 /\ hists[z].depth \in Nat
                                 /\ events[hists[z].e].ft \in net.trans \cup {T0}
  BY <1>0, Elements DEF HistType, EventType
<1>2. net.trans \subseteq Nat /\ T0 = 0
  BY NetFacts DEF TypeOK, IsNet, T0
<1>3. ASSUME NEW z \in P
      PROVE  lab[z] \in Nat /\ dep[z] = hists[z].depth /\ dep[z] \in Nat
  <2>1. z \in DOMAIN hists /\ lab[z] = HistLab[z] /\ dep[z] = HistDep[z]
    BY <1>0, <1>1
  <2>2. HistLab[z] = events[hists[z].e].ft /\ HistDep[z] = hists[z].depth
    BY <2>1 DEF HistLab, HistDep
  <2>3. events[hists[z].e].ft \in Nat /\ hists[z].depth \in Nat
    BY <1>1, <1>2, <2>1
  <2> QED
    BY <2>1, <2>2, <2>3
<1>4. IsFiniteSet(P)
  BY <1>0, CmpSizes DEF BySize
<1>5. AtDepth(P, dep, 0) = {1}
  BY <1>0, <1>1, <1>3 DEF Layered, AtDepth
<1>6. ASSUME NEW z \in P PROVE dep[z] <= Cardinality(P)
  <2>1. PICK R : R = hists[z].past
    OBVIOUS
  <2>2. R \subseteq P /\ dep[z] < Cardinality(R)
    BY <1>0, <1>1, <1>3, <2>1 DEF Layered
  <2>3. IsFiniteSet(R) /\ Cardinality(R) <= Cardinality(P)
    BY <1>4, <2>2, FS_Subset
  <2>4. Cardinality(R) \in Nat /\ Cardinality(P) \in Nat
    BY <1>4, <2>3, FS_CardinalityType
  <2> QED
    BY <1>3, <2>2, <2>3, <2>4
<1> QED
  BY <1>0, <1>3, <1>4, <1>5, <1>6 DEF IsHistory, Numbered

LEMMA CmpMeaning ==
  ASSUME TypeOK, Layered, NEW x \in DOMAIN hists, NEW y \in DOMAIN hists,
         NEW c, c = Cmp(hists, x, y)
  PROVE  /\ HistKey(x) \in Keys
         /\ c \in Int
         /\ c < 0 <=> SmallerKey(HistKey(x), HistKey(y))
         /\ c > 0 <=> SmallerKey(HistKey(y), HistKey(x))
         /\ c = 0 <=> HistKey(x) = HistKey(y)
<1>0. PICK P, Q, nodes : P = hists[x].past /\ Q = hists[y].past /\ nodes = P \cup Q
  OBVIOUS
<1>1. PICK lab : lab = [z \in nodes |-> events[hists[z].e].ft]
  OBVIOUS
<1>2. PICK dep : dep = [z \in nodes |-> hists[z].depth]
  OBVIOUS
<1>3. c = HCmp(P, Q, lab, dep, opt.order)
  BY <1>0, <1>1, <1>2 DEF Cmp
<1>4. P \subseteq DOMAIN hists /\ Q \subseteq DOMAIN hists
  BY <1>0, Elements DEF HistType
<1>5. \A z \in nodes : lab[z] = HistLab[z] /\ dep[z] = HistDep[z]
  BY <1>0, <1>1, <1>2, <1>4 DEF HistLab, HistDep
<1>6. IsHistory(P, lab, dep, 1) /\ IsHistory(Q, lab, dep, 1)
  BY <1>0, <1>5, HistsAreHistories
<1>7. opt.order \in Orders
  BY OptionsAssumption DEF TypeOK
<1>8. PICK k, l : k = HistKey(x) /\ l = HistKey(y)
  OBVIOUS
<1>9. k = KeyOf(P, lab, dep, opt.order) /\ l = KeyOf(Q, lab, dep, opt.order)
  <2>1. KeyOf(P, lab, dep, opt.order) = KeyOf(P, HistLab, HistDep, opt.order)
    BY <1>0, <1>5, KeyLocal
  <2>2. KeyOf(Q, lab, dep, opt.order) = KeyOf(Q, HistLab, HistDep, opt.order)
    BY <1>0, <1>5, KeyLocal
  <2> QED
    BY <1>0, <1>8, <2>1, <2>2 DEF HistKey
<1>10. k \in Keys
  BY <1>6, <1>9, KeyOfType DEF IsHistory
<1> QED
  BY <1>3, <1>6, <1>7, <1>8, <1>9, <1>10, HCmpMeaning

(* The order of two histories, of three, and what it takes to be equal.    *)
LEMMA Antisymmetric ==
  ASSUME TypeOK, Layered, NEW x \in DOMAIN hists, NEW y \in DOMAIN hists
  PROVE  Cmp(hists, x, y) < 0 <=> Cmp(hists, y, x) > 0
<1>1. PICK c : c = Cmp(hists, x, y)
  OBVIOUS
<1>2. PICK b : b = Cmp(hists, y, x)
  OBVIOUS
<1>3. c < 0 <=> SmallerKey(HistKey(x), HistKey(y))
  BY <1>1, CmpMeaning
<1>4. b > 0 <=> SmallerKey(HistKey(x), HistKey(y))
  BY <1>2, CmpMeaning
<1> QED
  BY <1>1, <1>2, <1>3, <1>4

LEMMA AtMost ==
  ASSUME TypeOK, Layered, NEW x \in DOMAIN hists, NEW y \in DOMAIN hists
  PROVE  /\ Cmp(hists, x, y) <= 0
              <=> HistKey(x) = HistKey(y) \/ SmallerKey(HistKey(x), HistKey(y))
         /\ Cmp(hists, x, y) = 0 <=> HistKey(x) = HistKey(y)
<1>1. PICK c : c = Cmp(hists, x, y)
  OBVIOUS
<1>2. PICK k, l : k = HistKey(x) /\ l = HistKey(y)
  OBVIOUS
<1>3. /\ k \in Keys /\ c \in Int
      /\ c < 0 <=> SmallerKey(k, l)
      /\ c = 0 <=> k = l
  BY <1>1, <1>2, CmpMeaning
<1>4. c <= 0 <=> c = 0 \/ c < 0
  BY <1>3
<1> QED
  BY <1>1, <1>2, <1>3, <1>4

LEMMA Transitive ==
  ASSUME TypeOK, Layered, NEW x \in DOMAIN hists, NEW y \in DOMAIN hists,
         NEW z \in DOMAIN hists, Cmp(hists, x, y) <= 0, Cmp(hists, y, z) <= 0
  PROVE  /\ Cmp(hists, x, z) <= 0
         /\ Cmp(hists, x, z) = 0 => Cmp(hists, x, y) = 0 /\ Cmp(hists, y, z) = 0
<1>1. PICK k, l, m : k = HistKey(x) /\ l = HistKey(y) /\ m = HistKey(z)
  OBVIOUS
<1>2. k \in Keys /\ l \in Keys /\ m \in Keys
  BY <1>1, CmpMeaning
<1>3. (k = l \/ SmallerKey(k, l)) /\ (l = m \/ SmallerKey(l, m))
  BY <1>1, AtMost
<1>4. k = m \/ SmallerKey(k, m)
  BY <1>2, <1>3, SmallerKeyTransitive
<1>5. k = m => k = l /\ l = m
  BY <1>2, <1>3, SmallerKeyOrder
<1> QED
  BY <1>1, <1>4, <1>5, AtMost

LEMMA EqualLevels ==
  ASSUME TypeOK, Layered, HasTotalOrder(opt.order),
         NEW x \in DOMAIN hists, NEW y \in DOMAIN hists, Cmp(hists, x, y) = 0,
         NEW d \in Nat, NEW t \in Nat
  PROVE  Count({z \in hists[x].past : hists[z].depth = d}, HistLab, t)
           = Count({z \in hists[y].past : hists[z].depth = d}, HistLab, t)
<1>1. PICK P, Q : P = hists[x].past /\ Q = hists[y].past
  OBVIOUS
<1>2. PICK mole : mole = (opt.order = "mole")
  OBVIOUS
<1>3. HistKey(x).levels = HistKey(y).levels
  BY AtMost
<1>4. LevelsOf(P, HistLab, HistDep, mole) = LevelsOf(Q, HistLab, HistDep, mole)
  <2>1. HistKey(x).levels = LevelsOf(P, HistLab, HistDep, mole)
    BY <1>1, <1>2, KeyParts DEF HistKey
  <2>2. HistKey(y).levels = LevelsOf(Q, HistLab, HistDep, mole)
    BY <1>1, <1>2, KeyParts DEF HistKey
  <2> QED
    BY <1>3, <2>1, <2>2
<1>5. PICK A, B : A = AtDepth(P, HistDep, d) /\ B = AtDepth(Q, HistDep, d)
  OBVIOUS
<1>6. LevelOf(A, HistLab, mole) = LevelOf(B, HistLab, mole)
  <2>1. /\ LevelsOf(P, HistLab, HistDep, mole)[d] = LevelOf(A, HistLab, mole)
        /\ LevelsOf(Q, HistLab, HistDep, mole)[d] = LevelOf(B, HistLab, mole)
    BY <1>5 DEF LevelsOf
  <2> QED
    BY <1>4, <2>1
<1>7. WordOf(A, HistLab) = WordOf(B, HistLab)
  <2>1. /\ LevelOf(A, HistLab, mole).word = WordOf(A, HistLab)
        /\ LevelOf(B, HistLab, mole).word = WordOf(B, HistLab)
    BY DEF LevelOf
  <2> QED
    BY <1>6, <2>1
<1>8. Count(A, HistLab, t) = Count(B, HistLab, t)
  <2>1. /\ WordOf(A, HistLab)[t] = Count(A, HistLab, t)
        /\ WordOf(B, HistLab)[t] = Count(B, HistLab, t)
    BY DEF WordOf
  <2> QED
    BY <1>7, <2>1
<1>9. P \subseteq DOMAIN hists /\ Q \subseteq DOMAIN hists
  BY <1>1, Elements DEF HistType
<1>10. /\ A = {z \in hists[x].past : hists[z].depth = d}
       /\ B = {z \in hists[y].past : hists[z].depth = d}
  BY <1>1, <1>5, <1>9 DEF AtDepth, HistDep
<1> QED
  BY <1>8, <1>10

LEMMA Preorder ==
  ASSUME TypeOK, Layered
  PROVE  OrderIsPreorder
<1> DEFINE H == DOMAIN hists
           C == [x \in H |-> [y \in H |-> Cmp(hists, x, y)]]
           Level(h, d) == {x \in hists[h].past : hists[x].depth = d}
           lab == [x \in H |-> events[hists[x].e].ft]
<1>1. \A x, y \in H : C[x][y] = Cmp(hists, x, y)
  OBVIOUS
<1>2. ASSUME NEW x \in H, NEW y \in H
      PROVE  C[x][y] < 0 <=> C[y][x] > 0
  <2>1. C[x][y] = Cmp(hists, x, y) /\ C[y][x] = Cmp(hists, y, x)
    BY <1>1
  <2> HIDE DEF C
  <2> QED
    BY <2>1, Antisymmetric
<1>3. ASSUME NEW x \in H, NEW y \in H, NEW z \in H, C[x][y] <= 0, C[y][z] <= 0
      PROVE  C[x][z] <= 0 /\ (C[x][z] = 0 => C[x][y] = 0 /\ C[y][z] = 0)
  <2>1. C[x][y] = Cmp(hists, x, y) /\ C[y][z] = Cmp(hists, y, z)
        /\ C[x][z] = Cmp(hists, x, z)
    BY <1>1
  <2> HIDE DEF C
  <2> QED
    BY <1>3, <2>1, Transitive
<1>4. ASSUME NEW x \in H, NEW y \in H, C[x][y] = 0, HasTotalOrder(opt.order),
             NEW d \in 0..hists[x].depth, NEW t \in net.trans
      PROVE  Count(Level(x, d), lab, t) = Count(Level(y, d), lab, t)
  <2>1. C[x][y] = Cmp(hists, x, y)
    BY <1>1
  <2>2. d \in Nat /\ t \in Nat
    <3>1. net.trans \subseteq Nat
      BY NetFacts DEF TypeOK, IsNet
    <3>2. hists[x].depth \in Nat
      BY Elements DEF HistType
    <3> QED
      BY <3>1, <3>2
  <2>3. Cmp(hists, x, y) = 0
    BY <1>4, <2>1
  <2> HIDE DEF C
  <2>4. lab = HistLab
    BY DEF HistLab
  <2> HIDE DEF lab
  <2> QED
    BY <1>4, <2>2, <2>3, <2>4, EqualLevels
<1> HIDE DEF C
<1>5. ASSUME NEW x \in H, NEW y \in H
      PROVE  /\ C[x][y] < 0 <=> C[y][x] > 0
             /\ \A z \in H : C[x][y] <= 0 /\ C[y][z] <= 0
                              => C[x][z] <= 0 /\ (C[x][z] = 0 => C[x][y] = 0 /\ C[y][z] = 0)
             /\ C[x][y] = 0 /\ HasTotalOrder(opt.order) =>
                  \A d \in 0..hists[x].depth, t \in net.trans :
                    Count(Level(x, d), lab, t) = Count(Level(y, d), lab, t)
  <2> HIDE DEF H, Level, lab
  <2>1. C[x][y] < 0 <=> C[y][x] > 0
    BY <1>2
  <2>2. \A z \in H : C[x][y] <= 0 /\ C[y][z] <= 0
                      => C[x][z] <= 0 /\ (C[x][z] = 0 => C[x][y] = 0 /\ C[y][z] = 0)
    BY <1>3
  <2>3. C[x][y] = 0 /\ HasTotalOrder(opt.order) =>
          \A d \in 0..hists[x].depth, t \in net.trans :
            Count(Level(x, d), lab, t) = Count(Level(y, d), lab, t)
    BY <1>4
  <2> QED
    BY <2>1, <2>2, <2>3
<1> USE DEF C
<1> QED
  BY <1>5, Zenon DEF OrderIsPreorder

(* h_cmp is a total preorder on the histories of every prefix, whatever    *)
(* the net and the command line: the heap and the cutoffs may rely on it.  *)
(* A total order holds two histories for equal only if they fire the same  *)
(* transitions at the same depths.                                         *)
THEOREM OrderPreorder == Spec => []OrderIsPreorder
<1>1. IInv => TypeOK
  BY DEF IInv
<1>2. TypeOK /\ Layered => OrderIsPreorder
  BY Preorder
<1> QED
  BY <1>1, <1>2, Invariant, LayeredAlways, PTL

-----------------------------------------------------------------------------
(* What the recursive functions of Below and Reachable compute.            *)

(* U adds elements of D to a part of D, and more to a larger one.          *)
Expanding(D, U) ==
  /\ IsFiniteSet(D)
  /\ U \in [SUBSET D -> SUBSET D]
  /\ \A S \in SUBSET D : S \subseteq U[S]
  /\ \A S, T \in SUBSET D : S \subseteq T => U[S] \subseteq U[T]

(* The least part of D with S to which U adds nothing.                     *)
Least(D, U, S) == {x \in D : \A T \in SUBSET D : S \subseteq T /\ U[T] = T => x \in T}

Repeats(D, U, b) == \A S \in SUBSET D : b[S] = IF U[S] = S THEN S ELSE b[U[S]]

Repeating(D, U, b) == b = [S \in SUBSET D |-> IF U[S] = S THEN S ELSE b[U[S]]]

LEMMA LeastFacts ==
  ASSUME NEW D, NEW U, Expanding(D, U), NEW S \in SUBSET D
  PROVE  /\ Least(D, U, S) \in SUBSET D
         /\ S \subseteq Least(D, U, S)
         /\ U[Least(D, U, S)] = Least(D, U, S)
         /\ \A T \in SUBSET D : S \subseteq T /\ U[T] = T => Least(D, U, S) \subseteq T
         /\ U[S] = S => Least(D, U, S) = S
         /\ Least(D, U, U[S]) = Least(D, U, S)
<1>1. PICK L : L = Least(D, U, S)
  OBVIOUS
<1>2. /\ L \in SUBSET D /\ S \subseteq L
      /\ \A T \in SUBSET D : S \subseteq T /\ U[T] = T => L \subseteq T
  BY <1>1 DEF Least
<1>3. U[L] = L
  <2>1. L \subseteq U[L] /\ U[L] \in SUBSET D
    BY <1>2 DEF Expanding
  <2>2. ASSUME NEW x \in U[L], NEW T \in SUBSET D, S \subseteq T, U[T] = T
        PROVE  x \in T
    <3>1. L \subseteq T
      BY <1>2, <2>2
    <3>2. U[L] \subseteq U[T]
      BY <1>2, <2>2, <3>1 DEF Expanding
    <3> QED
      BY <2>2, <3>2
  <2>3. U[L] \subseteq L
    BY <1>1, <2>1, <2>2 DEF Least
  <2> QED
    BY <2>1, <2>3
<1>4. U[S] = S => L = S
  BY <1>2
<1>5. Least(D, U, U[S]) = L
  <2>1. U[S] \in SUBSET D /\ S \subseteq U[S]
    BY DEF Expanding
  <2>2. ASSUME NEW T \in SUBSET D, U[T] = T PROVE S \subseteq T <=> U[S] \subseteq T
    <3>1. S \subseteq T => U[S] \subseteq U[T]
      BY DEF Expanding
    <3> QED
      BY <2>1, <2>2, <3>1
  <2> QED
    BY <1>1, <2>2 DEF Least
<1> QED
  BY <1>1, <1>2, <1>3, <1>4, <1>5

(* Of a family of parts of a finite set one holds no other.                *)
LEMMA LeastSet ==
  ASSUME NEW D, IsFiniteSet(D), NEW F \in SUBSET SUBSET D, F # {}
  PROVE  \E X \in F : \A Y \in F : Y \subseteq X => Y = X
<1>1. IsWellFoundedOn(StrictSubsetOrdering(D), FiniteSubsetsOf(D))
  BY FS_StrictSubsetOrderingWellFounded
<1>2. F \subseteq FiniteSubsetsOf(D)
  BY FS_FiniteSubsetsOfFinite
<1>3. PICK X \in F : \A Y \in F : ~ (<<Y, X>> \in StrictSubsetOrdering(D))
  BY <1>1, <1>2, WFMin
<1> QED
  BY <1>3 DEF StrictSubsetOrdering

(* And one is in no other.                                                 *)
LEMMA LargestSet ==
  ASSUME NEW D, IsFiniteSet(D), NEW F \in SUBSET SUBSET D, F # {}
  PROVE  \E X \in F : \A Y \in F : X \subseteq Y => Y = X
<1> DEFINE G == {D \ X : X \in F}
<1>1. G \in SUBSET SUBSET D /\ G # {}
  <2>1. \A Z \in G : Z \subseteq D
    OBVIOUS
  <2>2. PICK X \in F : TRUE
    OBVIOUS
  <2>3. D \ X \in G
    OBVIOUS
  <2> HIDE DEF G
  <2> QED
    BY <2>1, <2>3
<1>2. PICK Z \in G : \A Y \in G : Y \subseteq Z => Y = Z
  <2> HIDE DEF G
  <2> QED
    BY <1>1, LeastSet
<1>3. PICK X \in F : Z = D \ X
  OBVIOUS
<1>4. ASSUME NEW Y \in F, X \subseteq Y PROVE Y = X
  <2>1. D \ Y \in G /\ D \ Y \subseteq Z
    BY <1>3, <1>4
  <2>2. D \ Y = D \ X
    BY <1>2, <1>3, <2>1
  <2>3. Y \subseteq D /\ X \subseteq D
    OBVIOUS
  <2> QED
    BY <2>2, <2>3
<1> QED
  BY <1>4

LEMMA RepeatsLeast ==
  ASSUME NEW D, NEW U, Expanding(D, U), NEW b, Repeats(D, U, b), NEW S \in SUBSET D
  PROVE  b[S] = Least(D, U, S)
<1> DEFINE Wrong == {T \in SUBSET D : b[T] # Least(D, U, T)}
<1> SUFFICES ASSUME S \in Wrong PROVE FALSE
  OBVIOUS
<1>1. IsFiniteSet(D) /\ Wrong \in SUBSET SUBSET D /\ Wrong # {}
  BY DEF Expanding
<1>2. PICK T \in Wrong : \A Y \in Wrong : T \subseteq Y => Y = T
  <2> HIDE DEF Wrong
  <2> QED
    BY <1>1, LargestSet
<1>3. T \in SUBSET D /\ b[T] # Least(D, U, T)
  OBVIOUS
<1>4. PICK V : V = U[T]
  OBVIOUS
<1>5. V \in SUBSET D /\ T \subseteq V
  BY <1>3, <1>4 DEF Expanding
<1>6. V # T /\ b[T] = b[V]
  BY <1>3, <1>4, LeastFacts DEF Repeats
<1>7. Least(D, U, V) = Least(D, U, T)
  BY <1>3, <1>4, LeastFacts
<1>8. V \in Wrong
  BY <1>3, <1>5, <1>6, <1>7
<1> QED
  BY <1>2, <1>5, <1>6, <1>8

LEMMA RepeatsExists ==
  ASSUME NEW D, NEW U, Expanding(D, U)
  PROVE  \E b : Repeating(D, U, b)
<1> DEFINE b == [S \in SUBSET D |-> Least(D, U, S)]
<1>1. ASSUME NEW S \in SUBSET D PROVE b[S] = IF U[S] = S THEN S ELSE b[U[S]]
  <2>1. U[S] \in SUBSET D
    BY DEF Expanding
  <2>2. Least(D, U, U[S]) = Least(D, U, S) /\ (U[S] = S => Least(D, U, S) = S)
    BY LeastFacts
  <2> QED
    BY <2>1, <2>2
<1>2. b = [S \in SUBSET D |-> IF U[S] = S THEN S ELSE b[U[S]]]
  BY <1>1
<1> HIDE DEF b
<1>3. Repeating(D, U, b)
  BY <1>2 DEF Repeating
<1> QED
  BY <1>3

(* The events of E before those of S are added to S.                       *)
Predecessors(E) == [S \in SUBSET E |-> S \cup {f \in E : \E g \in S : Before(f, g)}]

BelowStep(E, b, S) ==
  IF S \cup {f \in E : \E g \in S : Before(f, g)} = S THEN S
  ELSE b[S \cup {f \in E : \E g \in S : Before(f, g)}]

BelowFcn(E) == CHOOSE b : b = [S \in SUBSET E |-> BelowStep(E, b, S)]

LEMMA BelowFacts ==
  ASSUME NEW E, IsFiniteSet(E), NEW e \in E
  PROVE  /\ Below(E, e) \in SUBSET E /\ e \in Below(E, e)
         /\ Initial(Below(E, e), E)
         /\ \A S \in SUBSET E : e \in S /\ Initial(S, E) => Below(E, e) \subseteq S
<1>1. PICK U : U = Predecessors(E)
  OBVIOUS
<1>2. \A S \in SUBSET E : U[S] = S \cup {f \in E : \E g \in S : Before(f, g)}
  BY <1>1 DEF Predecessors
<1>3. Expanding(E, U)
  <2>1. U \in [SUBSET E -> SUBSET E]
    BY <1>1 DEF Predecessors
  <2>2. \A S, T \in SUBSET E : S \subseteq T => U[S] \subseteq U[T]
    BY <1>2
  <2> QED
    BY <1>2, <2>1, <2>2 DEF Expanding
<1>4. \A S \in SUBSET E : U[S] = S <=> Initial(S, E)
  <2> TAKE S \in SUBSET E
  <2>1. U[S] = S \cup {f \in E : \E g \in S : Before(f, g)}
    BY <1>2
  <2>2. U[S] = S => Initial(S, E)
    BY <2>1 DEF Initial
  <2>3. ASSUME Initial(S, E) PROVE U[S] = S
    <3>1. \A f \in E : (\E g \in S : Before(f, g)) => f \in S
      BY <2>3 DEF Initial
    <3> QED
      BY <2>1, <3>1
  <2> QED
    BY <2>2, <2>3
<1>5. PICK b : b = BelowFcn(E)
  OBVIOUS
<1>6. b = [S \in SUBSET E |-> BelowStep(E, b, S)]
  <2>1. PICK a : Repeating(E, U, a)
    BY <1>3, RepeatsExists
  <2>2. \A S \in SUBSET E : (IF U[S] = S THEN S ELSE a[U[S]]) = BelowStep(E, a, S)
    BY <1>2 DEF BelowStep
  <2>3. a = [S \in SUBSET E |-> BelowStep(E, a, S)]
    BY <2>1, <2>2 DEF Repeating
  <2> QED
    BY <1>5, <2>3 DEF BelowFcn
<1>7. Repeats(E, U, b)
  <2>1. \A S \in SUBSET E : b[S] = BelowStep(E, b, S)
    BY <1>6
  <2> QED
    BY <1>2, <2>1 DEF BelowStep, Repeats
<1>8. Below(E, e) = b[{e}]
  BY <1>5 DEF Below, BelowFcn, BelowStep
<1>9. {e} \in SUBSET E /\ b[{e}] = Least(E, U, {e})
  BY <1>3, <1>7, RepeatsLeast
<1>10. PICK L : L = Least(E, U, {e})
  OBVIOUS
<1>11. /\ L \in SUBSET E /\ {e} \subseteq L /\ U[L] = L
       /\ \A T \in SUBSET E : {e} \subseteq T /\ U[T] = T => L \subseteq T
  BY <1>3, <1>9, <1>10, LeastFacts
<1>12. Below(E, e) = L /\ e \in L /\ Initial(L, E)
  BY <1>4, <1>8, <1>9, <1>10, <1>11
<1>13. ASSUME NEW S \in SUBSET E, e \in S, Initial(S, E) PROVE L \subseteq S
  BY <1>4, <1>11, <1>13
<1> QED
  BY <1>11, <1>12, <1>13

(* One step of the token game from each of the markings.                   *)
OneStep(n) == [S \in SUBSET SUBSET n.places |-> S \cup UNION {Successors(n, m) : m \in S}]

ReachableStep(n, b, S) ==
  IF S \cup UNION {Successors(n, m) : m \in S} = S THEN S
  ELSE b[S \cup UNION {Successors(n, m) : m \in S}]

ReachableFcn(n) == CHOOSE b : b = [S \in SUBSET SUBSET n.places |-> ReachableStep(n, b, S)]

LEMMA ReachableFacts ==
  ASSUME NEW n, IsNet(n), IsFiniteSet(n.places)
  PROVE  /\ n.post[T0] \in Reachable(n)
         /\ \A m \in Reachable(n) : Successors(n, m) \subseteq Reachable(n)
         /\ \A T \in SUBSET SUBSET n.places :
              n.post[T0] \in T /\ (\A m \in T : Successors(n, m) \subseteq T)
                => Reachable(n) \subseteq T
<1>1. PICK D, U : D = SUBSET n.places /\ U = OneStep(n)
  OBVIOUS
<1>2. \A S \in SUBSET D : U[S] = S \cup UNION {Successors(n, m) : m \in S}
  BY <1>1 DEF OneStep
<1>3. \A m \in D : Successors(n, m) \subseteq D
  BY <1>1 DEF Successors, Fire, IsNet
<1>4. Expanding(D, U)
  <2>1. ASSUME NEW S \in SUBSET D PROVE U[S] \in SUBSET D
    BY <1>2, <1>3
  <2>2. U \in [SUBSET D -> SUBSET D]
    BY <1>1, <1>2, <2>1 DEF OneStep
  <2>3. \A S, T \in SUBSET D : S \subseteq T => U[S] \subseteq U[T]
    BY <1>2
  <2>4. IsFiniteSet(D)
    BY <1>1, FS_SUBSET
  <2> QED
    BY <1>2, <2>2, <2>3, <2>4 DEF Expanding
<1>5. PICK b : b = ReachableFcn(n)
  OBVIOUS
<1>6. b = [S \in SUBSET D |-> ReachableStep(n, b, S)]
  <2>1. PICK a : Repeating(D, U, a)
    BY <1>4, RepeatsExists
  <2>2. \A S \in SUBSET D : (IF U[S] = S THEN S ELSE a[U[S]]) = ReachableStep(n, a, S)
    BY <1>2 DEF ReachableStep
  <2>3. a = [S \in SUBSET D |-> ReachableStep(n, a, S)]
    BY <2>1, <2>2 DEF Repeating
  <2> QED
    BY <1>1, <1>5, <2>3 DEF ReachableFcn
<1>7. Repeats(D, U, b)
  <2>1. \A S \in SUBSET D : b[S] = ReachableStep(n, b, S)
    BY <1>6
  <2> QED
    BY <1>2, <2>1 DEF ReachableStep, Repeats
<1>8. PICK i : i = n.post[T0]
  OBVIOUS
<1>9. Reachable(n) = b[{i}]
  BY <1>5, <1>8 DEF Reachable, ReachableFcn, ReachableStep
<1>10. {i} \in SUBSET D
  BY <1>1, <1>8 DEF IsNet
<1>11. b[{i}] = Least(D, U, {i})
  BY <1>4, <1>7, <1>10, RepeatsLeast
<1>12. PICK L : L = Least(D, U, {i})
  OBVIOUS
<1>13. L \in SUBSET D /\ {i} \subseteq L /\ U[L] = L
  BY <1>4, <1>10, <1>12, LeastFacts
<1>14. \A m \in L : Successors(n, m) \subseteq L
  BY <1>2, <1>13
<1>15. ASSUME NEW T \in SUBSET D, i \in T, \A m \in T : Successors(n, m) \subseteq T
      PROVE  L \subseteq T
  <2>1. UNION {Successors(n, m) : m \in T} \subseteq T
    BY <1>15
  <2>2. U[T] = T \cup UNION {Successors(n, m) : m \in T}
    BY <1>2
  <2>3. U[T] = T
    BY <2>1, <2>2
  <2> QED
    BY <1>4, <1>10, <1>12, <1>15, <2>3, LeastFacts
<1>16. Reachable(n) = L
  BY <1>9, <1>11, <1>12
<1> QED
  BY <1>1, <1>8, <1>13, <1>14, <1>15, <1>16

-----------------------------------------------------------------------------
(* A set of events with a run of the net.                                  *)

Filled(e) == OnePerPlace(EventPost(e), net.post[events[e].ft])

Runs(E) ==
  /\ E \in SUBSET DOMAIN events /\ E # {}
  /\ Closed(E) /\ ConflictFree(E) /\ Separated(E)
  /\ \A e \in E : Filled(e)

(* Its cut is a reachable marking, each token once.                        *)
Distinct(S) == \A c, d \in CutOf(S) : conds[c].fp = conds[d].fp => c = d
Marks(S) == Distinct(S) /\ MarkingOf(S) \in Reachable(net)

LEMMA FiniteEvents ==
  ASSUME IInv, NEW E \in SUBSET DOMAIN events
  PROVE  IsFiniteSet(E)
<1>1. Len(events) \in Nat /\ DOMAIN events = 1..Len(events)
  BY Elements DEF IInv
<1>2. IsFiniteSet(1..Len(events))
  BY <1>1, FS_Interval
<1> QED
  BY <1>1, <1>2, FS_Subset

LEMMA RootIn ==
  ASSUME IInv, Labelled, NEW E, Runs(E)
  PROVE  1 \in E
<1>1. E \in SUBSET Nat /\ E # {}
  BY Elements DEF IInv, Runs
<1>2. PICK e \in E : \A f \in E : e <= f
  BY <1>1, NatMin
<1>3. CASE events[e].pre # {}
  <2>1. PICK c \in events[e].pre : TRUE
    BY <1>3
  <2>2. conds[c].pre \in E /\ conds[c].pre < e
    BY DEF Runs, Closed, IInv, Causal
  <2> QED
    BY <1>1, <1>2, <2>2
<1>4. CASE events[e].pre = {}
  <2>1. e \in DOMAIN events
    BY DEF Runs
  <2>2. e = 1
    <3>1. net.pre[events[e].ft] = {}
      BY <1>4, <2>1, LabelFacts
    <3>2. e # 1 => events[e].ft \in net.trans
      BY <2>1, LabelFacts
    <3> QED
      BY <3>1, <3>2, Consumes
  <2> QED
    BY <2>2
<1> QED
  BY <1>3, <1>4

LEMMA RootFirst ==
  ASSUME IInv, Labelled, NEW E, Runs(E)
  PROVE  Initial({1}, E) /\ Marks({1})
<1>1. 1 \in E /\ 1 \in DOMAIN events
  BY RootIn DEF Runs
<1>2. events[1].pre = {} /\ events[1].cont = {} /\ events[1].ft = T0
  BY <1>1, LabelFacts DEF Labelled, Label
<1>3. Initial({1}, E)
  BY <1>1, <1>2 DEF Initial, Before
<1>4. CutOf({1}) = EventPost(1)
  BY <1>2 DEF CutOf, EventPost
<1>5. OnePerPlace(EventPost(1), net.post[T0])
  BY <1>1, <1>2 DEF Runs, Filled
<1>6. Distinct({1}) /\ MarkingOf({1}) = net.post[T0]
  BY <1>4, <1>5 DEF Distinct, MarkingOf, OnePerPlace
<1>7. net.post[T0] \in Reachable(net)
  <2>1. IsNet(net) /\ IsFiniteSet(net.places)
    BY NetsAssumption DEF IInv, TypeOK
  <2> QED
    BY <2>1, ReachableFacts
<1> QED
  BY <1>3, <1>6, <1>7 DEF Marks

(* Without its last event a part is one, too.                              *)
LEMMA LastEventOver ==
  ASSUME IInv, NEW E, Runs(E), NEW D, Initial(D, E), NEW S, Initial(S, E), D \subseteq S, S # D
  PROVE  \E R \in SUBSET S : \E m \in S : /\ Initial(R, E) /\ D \subseteq R
                                          /\ m \notin R /\ S = R \cup {m}
<1> DEFINE F == {R \in SUBSET S : Initial(R, E) /\ D \subseteq R /\ R # S}
<1>1. D \in F
  OBVIOUS
<1>2. IsFiniteSet(S)
  BY FiniteEvents DEF Runs, Initial
<1>3. PICK R \in F : \A T \in F : R \subseteq T => T = R
  <2>1. F \in SUBSET SUBSET S /\ F # {}
    BY <1>1
  <2> HIDE DEF F
  <2> QED
    BY <1>2, <2>1, LargestSet
<1>4. R \in SUBSET S /\ Initial(R, E) /\ D \subseteq R /\ R # S
  OBVIOUS
<1>5. PICK m \in S : m \notin R
  BY <1>4
<1>6. ASSUME NEW x \in S, x \notin R, x # m PROVE FALSE
  <2>1. x \in E /\ m \in E
    BY <1>6 DEF Initial
  <2>2. PICK T \in SUBSET E : Initial(T, E) /\ ~ (x \in T <=> m \in T)
    BY <1>6, <2>1 DEF Runs, Separated
  <2>3. PICK V : V = R \cup (T \cap S)
    OBVIOUS
  <2>4. Initial(V, E) /\ V \in SUBSET S
    BY <1>4, <2>2, <2>3 DEF Initial
  <2>5. D \subseteq V /\ V # S /\ R \subseteq V /\ V # R
    BY <1>4, <1>5, <1>6, <2>2, <2>3
  <2> QED
    BY <1>3, <2>4, <2>5
<1> QED
  BY <1>4, <1>5, <1>6

LEMMA LastEvent ==
  ASSUME IInv, Labelled, NEW E, Runs(E), NEW S, Initial(S, E), 1 \in S, S # {1}
  PROVE  \E R \in SUBSET S : \E m \in S : /\ Initial(R, E) /\ 1 \in R
                                          /\ m \notin R /\ S = R \cup {m}
<1>1. Initial({1}, E) /\ {1} \subseteq S
  BY RootFirst
<1>2. PICK D : D = {1}
  OBVIOUS
<1>3. \E R \in SUBSET S : \E m \in S : /\ Initial(R, E) /\ D \subseteq R
                                        /\ m \notin R /\ S = R \cup {m}
  BY <1>1, <1>2, LastEventOver
<1> QED
  BY <1>2, <1>3

(* The part R of E and one more event m.                                   *)
OneMore(E, R, m) ==
  /\ Runs(E) /\ m \in E /\ m \notin R /\ m # 1
  /\ Initial(R, E) /\ Initial(R \cup {m}, E)

LEMMA OneMoreArcs ==
  ASSUME IInv, Labelled, NEW E, NEW R, NEW m, OneMore(E, R, m)
  PROVE  /\ events[m].pre \cup events[m].cont \subseteq CutOf(R)
         /\ \A f \in R : ~ Before(m, f)
<1>1. /\ R \subseteq E /\ E \subseteq DOMAIN events /\ m \in E
      /\ \A f \in R, g \in E : Before(g, f) => g \in R
  BY DEF OneMore, Initial, Runs
<1>2. \A f \in R : ~ Before(m, f)
  BY <1>1 DEF OneMore
<1>3. ASSUME NEW c \in events[m].pre \cup events[m].cont PROVE c \in CutOf(R)
  <2>1. c \in DOMAIN conds /\ m \in DOMAIN events
    BY <1>1, ArcsType
  <2>2. PICK g : g = conds[c].pre
    OBVIOUS
  <2>3. g \in E /\ g # m
    <3>1. g \in E
      BY <1>1, <2>2 DEF OneMore, Runs, Closed
    <3>2. g < m /\ g \in Nat /\ m \in Nat
      BY <1>1, <2>1, <2>2, <3>1, Elements DEF IInv, Causal
    <3> QED
      BY <3>1, <3>2
  <2>4. Before(g, m)
    BY <2>1, <2>2, <2>3 DEF Before, EventPost
  <2>5. g \in R
    BY <2>3, <2>4 DEF OneMore, Initial
  <2>6. ASSUME NEW f \in R, c \in events[f].pre PROVE FALSE
    <3>1. f # m /\ f \in E
      BY <1>1 DEF OneMore
    <3>2. CASE c \in events[m].pre
      BY <1>1, <2>6, <3>1, <3>2 DEF OneMore, Runs, ConflictFree, Conflict
    <3>3. CASE c \in events[m].cont
      BY <1>2, <2>6, <3>1, <3>3 DEF Before
    <3> QED
      BY <3>2, <3>3
  <2> QED
    BY <2>1, <2>2, <2>5, <2>6 DEF CutOf
<1> QED
  BY <1>2, <1>3

LEMMA OneMoreCut ==
  ASSUME IInv, Labelled, NEW E, NEW R, NEW m, OneMore(E, R, m)
  PROVE  CutOf(R \cup {m}) = (CutOf(R) \ events[m].pre) \cup EventPost(m)
<1>1. m \in DOMAIN events /\ \A f \in R : f # m /\ ~ Before(m, f)
  BY OneMoreArcs DEF OneMore, Runs
<1>2. ASSUME NEW c \in EventPost(m) PROVE c \in CutOf(R \cup {m})
  <2>1. c \in DOMAIN conds /\ conds[c].pre = m
    BY DEF EventPost
  <2>2. c \notin events[m].pre
    <3>1. m \in Nat
      BY <1>1, Elements DEF IInv
    <3>2. c \in events[m].pre => m < m
      BY <1>1, <2>1 DEF IInv, Causal
    <3> QED
      BY <3>1, <3>2
  <2>3. \A f \in R : c \notin events[f].pre
    BY <1>1 DEF Before
  <2> QED
    BY <2>1, <2>2, <2>3 DEF CutOf
<1>3. ASSUME NEW c \in CutOf(R), c \notin events[m].pre PROVE c \in CutOf(R \cup {m})
  BY <1>3 DEF CutOf
<1>4. ASSUME NEW c \in CutOf(R \cup {m}), c \notin EventPost(m)
      PROVE  c \in CutOf(R) /\ c \notin events[m].pre
  BY <1>4 DEF CutOf, EventPost
<1> QED
  BY <1>2, <1>3, <1>4

LEMMA OneMoreFires ==
  ASSUME IInv, Labelled, NEW E, NEW R, NEW m, OneMore(E, R, m), Marks(R), IsSafe(net)
  PROVE  Marks(R \cup {m})
<1>1. PICK t, M, C, P, Q : /\ t = events[m].ft /\ M = MarkingOf(R) /\ C = CutOf(R)
                           /\ P = events[m].pre /\ Q = EventPost(m)
  OBVIOUS
<1>2. m \in DOMAIN events /\ m # 1
  BY DEF OneMore, Runs
<1>3. t \in net.trans
  BY <1>1, <1>2, LabelFacts
<1>4. /\ {conds[c].fp : c \in P} = net.pre[t]
      /\ {conds[c].fp : c \in events[m].cont} = net.cont[t]
  BY <1>1, <1>2 DEF Labelled, Label, OnePerPlace
<1>5. /\ {conds[c].fp : c \in Q} = net.post[t]
      /\ \A c, d \in Q : conds[c].fp = conds[d].fp => c = d
  BY <1>1 DEF OneMore, Runs, Filled, OnePerPlace
<1>6. P \subseteq C /\ events[m].cont \subseteq C
  BY <1>1, OneMoreArcs
<1>7. CutOf(R \cup {m}) = (C \ P) \cup Q
  BY <1>1, OneMoreCut
<1>8. /\ \A c, d \in C : conds[c].fp = conds[d].fp => c = d
      /\ M = {conds[c].fp : c \in C} /\ M \in Reachable(net)
  BY <1>1 DEF Marks, Distinct, MarkingOf
<1>9. Enabled(net, M, t)
  BY <1>4, <1>6, <1>8 DEF Enabled
<1>10. (M \ net.pre[t]) \cap net.post[t] = {}
  BY <1>3, <1>8, <1>9 DEF IsSafe
<1>11. {conds[c].fp : c \in C \ P} = M \ net.pre[t]
  <2>1. ASSUME NEW c \in C \ P PROVE conds[c].fp \in M \ net.pre[t]
    BY <1>4, <1>6, <1>8
  <2>2. ASSUME NEW p \in M \ net.pre[t] PROVE \E c \in C \ P : conds[c].fp = p
    BY <1>4, <1>8
  <2> QED
    BY <2>1, <2>2
<1>12. Distinct(R \cup {m})
  <2>1. \A c \in C \ P, d \in Q : conds[c].fp # conds[d].fp
    BY <1>5, <1>10, <1>11
  <2> QED
    BY <1>5, <1>7, <1>8, <2>1 DEF Distinct
<1>13. MarkingOf(R \cup {m}) = Fire(net, M, t)
  BY <1>5, <1>7, <1>11 DEF MarkingOf, Fire
<1>14. Fire(net, M, t) \in Reachable(net)
  <2>1. IsNet(net) /\ IsFiniteSet(net.places)
    BY NetsAssumption DEF IInv, TypeOK
  <2>2. Successors(net, M) \subseteq Reachable(net)
    BY <1>8, <2>1, ReachableFacts
  <2> QED
    BY <1>3, <1>9, <2>2 DEF Successors
<1> QED
  BY <1>12, <1>13, <1>14 DEF Marks

(* In a 1-safe net the events of E can all fire.                           *)
LEMMA RunMarks ==
  ASSUME IInv, Labelled, NEW E, Runs(E), IsSafe(net)
  PROVE  Marks(E)
<1> DEFINE Wrong == {S \in SUBSET E : Initial(S, E) /\ 1 \in S /\ ~ Marks(S)}
<1> SUFFICES ASSUME ~ Marks(E) PROVE FALSE
  OBVIOUS
<1>1. E \in Wrong
  BY RootIn DEF Initial
<1>2. PICK S \in Wrong : \A T \in Wrong : T \subseteq S => T = S
  <2>1. IsFiniteSet(E)
    BY FiniteEvents DEF Runs
  <2>2. Wrong \in SUBSET SUBSET E /\ Wrong # {}
    BY <1>1
  <2> HIDE DEF Wrong
  <2> QED
    BY <2>1, <2>2, LeastSet
<1>3. Initial(S, E) /\ 1 \in S /\ ~ Marks(S)
  OBVIOUS
<1>4. S # {1}
  BY <1>3, RootFirst
<1>5. PICK R, m : /\ R \in SUBSET S /\ m \in S /\ Initial(R, E) /\ 1 \in R
                  /\ m \notin R /\ S = R \cup {m}
  BY <1>3, <1>4, LastEvent
<1>6. Marks(R)
  <2>1. R \in SUBSET E /\ R # S
    BY <1>3, <1>5 DEF Initial
  <2>2. R \notin Wrong
    BY <1>2, <1>5, <2>1
  <2> QED
    BY <1>5, <2>1, <2>2
<1>7. OneMore(E, R, m)
  BY <1>3, <1>5 DEF OneMore, Initial
<1> QED
  BY <1>3, <1>5, <1>6, <1>7, OneMoreFires

LEMMA SeparatedPart ==
  ASSUME NEW E, NEW D, Separated(E), D \subseteq E
  PROVE  Separated(D)
<1> SUFFICES ASSUME NEW e \in D, NEW f \in D, e # f
             PROVE  \E S \in SUBSET D : Initial(S, D) /\ ~ (e \in S <=> f \in S)
  BY DEF Separated
<1>1. PICK S \in SUBSET E : Initial(S, E) /\ ~ (e \in S <=> f \in S)
  BY DEF Separated
<1>2. Initial(S \cap D, D)
  BY <1>1, InitialPart
<1> QED
  BY <1>1, <1>2

(* The events of what left the queue have their conditions.                *)
LEMMA FilledPopped ==
  ASSUME IInv, Labelled, Marked, NEW h \in Popped
  PROVE  Filled(hists[h].e)
<1>1. PICK e : e = hists[h].e
  OBVIOUS
<1>2. e \in DOMAIN events
  BY <1>1, Elements DEF IInv, HistType, Popped
<1>3. Fresh(events, e) = {}
  BY <1>1 DEF Marked
<1>4. EventPost(e) # {} => Filled(e)
  BY <1>2 DEF Labelled, Label, Filled
<1>5. EventPost(e) = {} => Filled(e)
  BY <1>3 DEF Fresh, Filled, OnePerPlace
<1> QED
  BY <1>1, <1>4, <1>5

LEMMA HistoryFilled ==
  ASSUME IInv, Labelled, Marked, NEW h \in Popped
  PROVE  \A f \in Evs(h) : Filled(f)
<1> SUFFICES ASSUME NEW x \in hists[h].past PROVE Filled(hists[x].e)
  BY DEF Evs, EventsOf
<1>1. h \in DOMAIN hists
  BY DEF Popped
<1>2. x \in DOMAIN hists
  BY <1>1, Elements DEF IInv, HistType
<1>3. CASE x = h
  BY <1>3, FilledPopped
<1>4. CASE x # h
  <2>1. hists[x].corr = 0
    BY <1>1, <1>4 DEF IInv, BuiltOnNonCutoffs
  <2>2. x # 0
    BY <1>2, Elements DEF IInv
  <2>3. x \in Popped
    BY <1>2, <2>1, <2>2 DEF IInv, Discipline, Popped
  <2> QED
    BY <2>3, FilledPopped
<1> QED
  BY <1>3, <1>4

LEMMA EcFilled ==
  ASSUME IInv, Labelled, Marked, NEW r \in DOMAIN ecs
  PROVE  \A f \in ConfOf(r) : Filled(f)
<1> SUFFICES ASSUME NEW x \in ecs[r].hs, NEW f \in Evs(x) PROVE Filled(f)
  BY DEF ConfOf, Evs, EventsOf
<1>1. x \in DOMAIN hists /\ x # 0 /\ hists[x].corr = 0
  BY Elements DEF IInv, EcType, EcsOfNonCutoffs
<1>2. x \in Popped
  BY <1>1 DEF IInv, Discipline, Popped
<1> QED
  BY <1>2, HistoryFilled

LEMMA HistoryRuns ==
  ASSUME IInv, Labelled, Marked, Coherent, Shapely, NEW h \in Popped
  PROVE  Runs(Evs(h))
<1>1. h \in DOMAIN hists
  BY DEF Popped
<1>2. Evs(h) \in SUBSET DOMAIN events
  BY <1>1, EvsType
<1>3. Separated(Evs(h)) /\ Rooted(Evs(h), hists[h].e)
  BY <1>1 DEF Shapely, Shaped
<1>4. Closed(Evs(h)) /\ ConflictFree(Evs(h))
  BY <1>1 DEF Coherent, Assembled, Evs
<1>5. \A f \in Evs(h) : Filled(f)
  BY HistoryFilled
<1>6. Evs(h) # {}
  BY <1>3 DEF Rooted
<1> QED
  BY <1>2, <1>3, <1>4, <1>5, <1>6 DEF Runs

LEMMA HistoryConfiguration ==
  ASSUME IInv, Coherent, Shapely, NEW h \in DOMAIN hists
  PROVE  /\ IsConfiguration(Evs(h))
         /\ \A f \in Evs(h) : f \in Below(Evs(h), hists[h].e)
<1>1. PICK E, e : E = Evs(h) /\ e = hists[h].e
  OBVIOUS
<1>2. Separated(E) /\ Rooted(E, e)
  BY <1>1 DEF Shapely, Shaped
<1>3. IsFiniteSet(E)
  BY <1>1, EvsType, FiniteEvents
<1>4. Closed(E) /\ \A x, y \in E : ~ Conflict(x, y)
  BY <1>1 DEF Coherent, Assembled, Evs, ConflictFree
<1>5. Acyclic(E)
  <2> SUFFICES ASSUME NEW x \in E, NEW y \in E, x # y,
                      x \in Below(E, y), y \in Below(E, x)
               PROVE  FALSE
    BY DEF Acyclic
  <2>1. PICK S \in SUBSET E : Initial(S, E) /\ ~ (x \in S <=> y \in S)
    BY <1>2 DEF Separated
  <2>2. CASE x \in S
    <3>1. Below(E, x) \subseteq S
      BY <1>3, <2>1, <2>2, BelowFacts
    <3> QED
      BY <2>1, <2>2, <3>1
  <2>3. CASE y \in S
    <3>1. Below(E, y) \subseteq S
      BY <1>3, <2>1, <2>3, BelowFacts
    <3> QED
      BY <2>1, <2>3, <3>1
  <2> QED
    BY <2>1, <2>2, <2>3
<1>6. Below(E, e) = E
  <2>1. e \in E
    BY <1>2 DEF Rooted
  <2>2. Below(E, e) \in SUBSET E /\ e \in Below(E, e) /\ Initial(Below(E, e), E)
    BY <1>3, <2>1, BelowFacts
  <2> QED
    BY <1>2, <2>2 DEF Rooted
<1> QED
  BY <1>1, <1>4, <1>5, <1>6 DEF IsConfiguration

LEMMA HistoryOnce ==
  ASSUME IInv, Labelled, Grounded, UniqueEcls, Coherent, Arranged, Shapely,
         NEW h \in DOMAIN hists
  PROVE  /\ \A x, y \in hists[h].past : hists[x].e = hists[y].e => x = y
         /\ Cardinality(Evs(h)) = Cardinality(hists[h].past)
<1>1. PICK E, P : E = Evs(h) /\ P = hists[h].past
  OBVIOUS
<1>2. P \subseteq DOMAIN hists /\ IsFiniteSet(P)
  BY <1>1, PastCardinality, Elements DEF IInv, HistType
<1>3. ASSUME NEW x \in P, NEW y \in P, hists[x].e = hists[y].e PROVE x = y
  <2>1. PICK A, B, a : A = Evs(x) /\ B = Evs(y) /\ a = hists[x].e
    OBVIOUS
  <2>2. Initial(A, E) /\ Initial(B, E) /\ Rooted(A, a) /\ Rooted(B, a) /\ Separated(A)
    BY <1>1, <1>2, <1>3, <2>1 DEF Shapely, Shaped
  <2>3. a \in A /\ a \in B
    BY <2>2 DEF Rooted
  <2>4. A = B
    BY <2>2, <2>3, SameTop
  <2>5. Twins(x, y)
    BY <1>3, <2>1, <2>4 DEF Twins
  <2> QED
    BY <1>2, <2>5, TwinsEqual
<1>4. Cardinality(E) = Cardinality(P)
  <2> DEFINE f == [x \in P |-> hists[x].e]
  <2>1. E = {hists[x].e : x \in P}
    BY <1>1 DEF Evs, EventsOf
  <2>2. f \in Injection(P, E)
    BY <1>3, <2>1 DEF Injection, IsInjective
  <2>3. f \in Surjection(P, E)
    BY <2>1 DEF Surjection
  <2> HIDE DEF f
  <2> QED
    BY <1>2, <2>2, <2>3, FS_Surjection
<1> QED
  BY <1>1, <1>3, <1>4

(* What a history is, whatever the net.                                    *)
HistoryIsRight(h) ==
  LET E == EventsOf(hists[h].past)
  IN  /\ IsConfiguration(E)
      /\ \A f \in E : f \in Below(E, hists[h].e)
      /\ Cardinality(E) = Cardinality(hists[h].past)
      /\ h \in Popped /\ hists[h].corr = 0 => hists[h].marking = MarkingOf(E)
      /\ hists[h].rd = {x \in E : events[x].cont \cap CutOf(E) # {}}

Foundation == IInv /\ Labelled /\ Grounded /\ UniqueEcls /\ Marked /\ Coherent /\ Arranged /\ Shapely

LEMMA FoundationAlways == Spec => []Foundation
<1>1. IInv /\ Labelled /\ Grounded /\ UniqueEcls /\ Marked /\ Coherent /\ Arranged /\ Shapely
        => Foundation
  BY DEF Foundation
<1> QED
  BY <1>1, Invariant, LabelledAlways, GroundedAlways, UniqueEclsAlways, MarkedAlways,
     CoherentAlways, ArrangedAlways, ShapelyAlways, PTL

LEMMA HistoryRight ==
  ASSUME Foundation, NEW h \in DOMAIN hists
  PROVE  HistoryIsRight(h)
<1>1. PICK E : E = EventsOf(hists[h].past)
  OBVIOUS
<1>2. IsConfiguration(E) /\ \A f \in E : f \in Below(E, hists[h].e)
  BY <1>1, HistoryConfiguration DEF Foundation, Evs
<1>3. Cardinality(E) = Cardinality(hists[h].past)
  BY <1>1, HistoryOnce DEF Foundation, Evs
<1>4. hists[h].rd = {x \in E : events[x].cont \cap CutOf(E) # {}}
  BY <1>1 DEF Foundation, Coherent, Assembled
<1>5. h \in Popped /\ hists[h].corr = 0 => hists[h].marking = MarkingOf(E)
  BY <1>1 DEF Foundation, Marked, MarkingFrom
<1> QED
  BY <1>1, <1>2, <1>3, <1>4, <1>5 DEF HistoryIsRight

(* The nodes of a history are a configuration, one node for each of its    *)
(* events, with the event of the history as the only maximum,              *)
(* its rd list is the readers of its cut, and its marking the one of that  *)
(* cut, at any time and not only between two rounds of the main loop.      *)
THEOREM HistoriesAreConfigurations == Spec => [](\A h \in DOMAIN hists : HistoryIsRight(h))
<1>1. Foundation => \A h \in DOMAIN hists : HistoryIsRight(h)
  BY HistoryRight
<1> QED
  BY <1>1, FoundationAlways, PTL

(* In a 1-safe net, moreover, the marking of every history that left the   *)
(* queue is reachable: the events of a configuration can be fired one by   *)
(* one, and no step puts a second token into a place.                      *)
THEOREM HistoriesReachable == Spec => [](SafeNet[net] => HistoriesSound)
<1>1. ASSUME Foundation, SafeNet[net], NEW h \in Popped
      PROVE  MarkingOf(EventsOf(hists[h].past)) \in ReachableOf[net]
  <2>1. net \in Nets
    BY <1>1 DEF Foundation, IInv, TypeOK
  <2>2. IsSafe(net) /\ ReachableOf[net] = Reachable(net)
    BY <1>1, <2>1 DEF SafeNet, ReachableOf
  <2>3. Runs(Evs(h))
    BY <1>1, HistoryRuns DEF Foundation
  <2>4. Marks(Evs(h))
    BY <1>1, <2>2, <2>3, RunMarks DEF Foundation
  <2> QED
    BY <2>2, <2>4 DEF Marks, Evs
<1>2. Foundation /\ SafeNet[net] => HistoriesSound
  <2> SUFFICES ASSUME Foundation, SafeNet[net] PROVE HistoriesSound
    OBVIOUS
  <2>1. \A h \in DOMAIN hists : HistoryIsRight(h)
    BY HistoryRight
  <2>2. \A h \in Popped : MarkingOf(EventsOf(hists[h].past)) \in ReachableOf[net]
    BY <1>1
  <2> QED
    BY <2>1, <2>2 DEF HistoriesSound, HistoryIsRight
<1> QED
  BY <1>2, FoundationAlways, PTL

-----------------------------------------------------------------------------
(* Giving up.                                                              *)

(* The conditions that made the program give up are still there.           *)
GaveUp == status = "unsafe" => \E c \in gens \cup reads : Unsafe(c, cur)

LEMMA GaveUpNext ==
  ASSUME GaveUp, [Next]_vars
  PROVE  GaveUp'
<1>1. ASSUME NEW c \in gens, Generate(c) PROVE GaveUp'
  <2>1. CASE Unsafe(c, cur) /\ UnsafeStop
    <3>1. Still
      BY <2>1 DEF UnsafeStop, Still
    <3>2. Unsafe(c, cur)' /\ c \in gens'
      BY <2>1, <3>1, StillFrame DEF Unsafe, Candidates, Place, Black
    <3> QED
      BY <3>2 DEF GaveUp
  <2>2. CASE status' = "run"
    BY <2>2 DEF GaveUp
  <2> QED
    BY <1>1, <2>1, <2>2 DEF Generate
<1>2. ASSUME NEW c \in reads, Read(c) PROVE GaveUp'
  <2>1. CASE Unsafe(c, cur) /\ UnsafeStop
    <3>1. Still
      BY <2>1 DEF UnsafeStop, Still
    <3>2. Unsafe(c, cur)' /\ c \in reads'
      BY <2>1, <3>1, StillFrame DEF Unsafe, Candidates, Place, Black
    <3> QED
      BY <3>2 DEF GaveUp
  <2>2. CASE status' = "run"
    BY <2>2 DEF GaveUp
  <2> QED
    BY <1>2, <2>1, <2>2 DEF Read
<1>3. ASSUME NEW rp \in combine, Combine(rp) PROVE GaveUp'
  BY <1>3 DEF Combine, GaveUp
<1>4. ASSUME NEW s \in sols, Solve(s) PROVE GaveUp'
  BY <1>4 DEF Solve, GaveUp
<1>5. ASSUME NEW h \in queue, Pop(h) \/ Pick(h) PROVE GaveUp'
  BY <1>5 DEF Pop, Pick, Add, GaveUp
<1>6. CASE Quit
  BY <1>6 DEF Quit, GaveUp
<1>7. CASE UNCHANGED vars
  <2>1. Still /\ UNCHANGED status
    BY <1>7 DEF vars, Still
  <2> QED
    BY <2>1, StillFrame DEF GaveUp, Unsafe, Candidates, Place, Black
<1> QED
  BY <1>1, <1>2, <1>3, <1>4, <1>5, <1>6, <1>7 DEF Next

(* Two conditions of one place in the cut of a set that can be fired.      *)

(* What the candidates of a history h are concurrent with.                 *)
LEMMA CandidateFitting ==
  ASSUME Coherent, NEW h \in DOMAIN hists, NEW rp \in Candidates(h)
  PROVE  Fitting(hists[h].ecl, ConfOf(rp), ecs[rp].c)
<1>1. Related
  BY DEF Coherent
<1> SUFFICES ASSUME NEW g \in hists[h].ecl
             PROVE  GoTogether(ConfOf(g), ConfOf(rp), ecs[g].c, ecs[rp].c)
  BY DEF Fitting
<1>2. <<g, rp>> \in co => Concurrent(g, rp)
  BY <1>1 DEF Related
<1>3. <<g, rp>> \in rco => Joined(g, rp)
  BY <1>1 DEF Related
<1>4. CASE <<g, rp>> \in co
  BY <1>2, <1>4 DEF Concurrent, GoTogether
<1>5. CASE <<g, rp>> \in rco
  BY <1>3, <1>5 DEF Joined, GoTogether
<1> QED
  BY <1>4, <1>5 DEF Candidates

LEMMA FittingUnion ==
  ASSUME NEW e, NEW G, Extends(e, G), G # {}, NEW F, NEW d, Fitting(G, F, d)
  PROVE  /\ Compose(All(G), F)
         /\ events[e].pre \cup events[e].cont \cup {d} \subseteq CutOf(All(G) \cup F)
<1>1. \A g \in G : /\ Compose(ConfOf(g), F)
                   /\ ecs[g].c \in CutOf(ConfOf(g) \cup F)
                   /\ d \in CutOf(ConfOf(g) \cup F)
  BY DEF Fitting, GoTogether
<1>2. Compose(All(G), F)
  BY <1>1 DEF All, Compose
<1>3. d \in CutOf(All(G) \cup F)
  BY <1>1 DEF CutOf, All
<1>4. ASSUME NEW c \in events[e].pre \cup events[e].cont
      PROVE  c \in CutOf(All(G) \cup F)
  <2>1. PICK g \in G : c = ecs[g].c
    BY DEF Extends
  <2>2. c \in CutOf(ConfOf(g) \cup F)
    BY <1>1, <2>1
  <2>3. \A q \in G : c \in CutOf(ConfOf(q) \cup ConfOf(g))
    BY <2>1, ExtendsCut
  <2>4. c \in DOMAIN conds /\ conds[c].pre \in All(G) \cup F
    BY <2>2 DEF CutOf, All
  <2>5. ASSUME NEW x \in All(G) \cup F PROVE c \notin events[x].pre
    <3>1. CASE x \in F
      BY <2>2, <3>1 DEF CutOf
    <3>2. CASE x \in All(G)
      BY <2>3, <3>2 DEF CutOf, All
    <3> QED
      BY <3>1, <3>2
  <2> QED
    BY <2>4, <2>5 DEF CutOf
<1> QED
  BY <1>2, <1>3, <1>4

(* The event e on top of a set W that can be fired.                        *)
LEMMA RunsTop ==
  ASSUME IInv, NEW W, Runs(W), NEW e \in DOMAIN events, e \notin W, Filled(e),
         events[e].pre \cup events[e].cont \subseteq CutOf(W),
         \A c \in events[e].pre : conds[c].pre # e
  PROVE  Runs({e} \cup W)
<1>1. Closed(W) /\ ConflictFree(W) /\ Separated(W) /\ W \subseteq DOMAIN events
  BY DEF Runs
<1>2. Closed({e} \cup W)
  BY <1>1 DEF Closed, CutOf
<1>3. ConflictFree({e} \cup W)
  BY <1>1 DEF ConflictFree, Conflict, CutOf
<1>4. Initial(W, {e} \cup W)
  <2> SUFFICES ASSUME NEW f \in W, Before(e, f) PROVE FALSE
    BY DEF Initial
  <2>1. EventPost(e) \cap (events[f].pre \cup events[f].cont) = {}
    BY <1>1 DEF Closed, EventPost
  <2>2. events[e].cont \cap events[f].pre = {}
    BY DEF CutOf
  <2> QED
    BY <2>1, <2>2 DEF Before
<1>5. Separated({e} \cup W)
  BY <1>1, <1>4, SeparatedTop
<1> QED
  BY <1>1, <1>2, <1>3, <1>5 DEF Runs

LEMMA RunsUnion ==
  ASSUME NEW A, NEW F, Compose(A, F), F # {},
         A \in SUBSET DOMAIN events, F \in SUBSET DOMAIN events,
         Closed(A), Closed(F), ConflictFree(A), ConflictFree(F),
         Separated(A), Separated(F), \A f \in A \cup F : Filled(f)
  PROVE  Runs(A \cup F)
<1>1. Closed(A \cup F)
  BY DEF Closed
<1>2. ConflictFree(A \cup F)
  BY DEF ConflictFree, Compose, Conflict
<1>3. PICK C : C = {A, F}
  OBVIOUS
<1>4. CoversOf(C, A \cup F)
  BY <1>3, ComposeInitial DEF CoversOf
<1>5. Separated(A \cup F)
  BY <1>4, SeparatedCover
<1> QED
  BY <1>1, <1>2, <1>5 DEF Runs

(* The events that those of an unsafe stop can be added to.                *)
LEMMA UnsafeUnion ==
  ASSUME Foundation, NEW h \in Popped, NEW rp \in Candidates(h)
  PROVE  Runs(All(hists[h].ecl) \cup ConfOf(rp))
<1>1. PICK e, G, A, F, E : /\ e = hists[h].e /\ G = hists[h].ecl
                           /\ A = All(G) /\ F = ConfOf(rp) /\ E = Evs(h)
  OBVIOUS
<1>2. h \in DOMAIN hists /\ rp \in DOMAIN ecs /\ G # {}
  BY <1>1 DEF Popped, Candidates
<1>3. Extends(e, G)
  BY <1>1, <1>2, HistoryExtends DEF Foundation
<1>4. E = {e} \cup A /\ E \in SUBSET DOMAIN events
  BY <1>1, <1>2, HistoryEvents, EvsType DEF Foundation, Evs
<1>5. Compose(A, F)
  BY <1>1, <1>2, <1>3, CandidateFitting, FittingUnion DEF Foundation
<1>6. EcSound(rp) /\ Anchored(rp) /\ Shaped(h)
  BY <1>2 DEF Foundation, Coherent, Shapely
<1>7. Closed(F) /\ ConflictFree(F) /\ Separated(F) /\ F # {}
  BY <1>1, <1>6 DEF EcSound, Anchored, CutOf
<1>8. Separated(A)
  BY <1>1, <1>4, <1>6, SeparatedPart DEF Shaped
<1>9. Closed(A)
  BY <1>1, <1>3 DEF Extends, Sound, All, Closed
<1>10. ConflictFree(A)
  <2>1. ConflictFree({e} \cup A)
    BY <1>1, <1>3, ExtendsConflictFree
  <2> QED
    BY <2>1 DEF ConflictFree
<1>11. \A f \in E : Filled(f)
  BY <1>1, HistoryFilled DEF Foundation
<1>12. \A f \in F : Filled(f)
  BY <1>1, <1>2, EcFilled DEF Foundation
<1>13. F \in SUBSET DOMAIN events
  <2>1. ecs[rp].hs \subseteq DOMAIN hists /\ \A x \in DOMAIN hists : hists[x] \in HistType
    BY <1>2, Elements DEF Foundation, IInv, EcType
  <2> QED
    BY <1>1, <2>1 DEF ConfOf, EventsOf, HistType
<1>14. \A f \in A \cup F : Filled(f)
  BY <1>4, <1>11, <1>12
<1>15. Runs(A \cup F)
  BY <1>4, <1>5, <1>7, <1>8, <1>9, <1>10, <1>13, <1>14, RunsUnion
<1> QED
  BY <1>1, <1>15

LEMMA UnsafeFires ==
  ASSUME Foundation, NEW h \in Popped, NEW rp \in Candidates(h),
         NEW c \in EventPost(hists[h].e) \cup events[hists[h].e].cont,
         ecs[rp].c # c, Place(rp) = conds[c].fp
  PROVE  \E U : Runs(U) /\ ~ Distinct(U)
<1>1. PICK e, G, A, F, d : /\ e = hists[h].e /\ G = hists[h].ecl
                           /\ A = All(G) /\ F = ConfOf(rp) /\ d = ecs[rp].c
  OBVIOUS
<1>2. PICK W : W = A \cup F
  OBVIOUS
<1>3. h \in DOMAIN hists /\ rp \in DOMAIN ecs /\ G # {} /\ d \notin events[e].pre
  BY <1>1 DEF Popped, Candidates, Black
<1>4. Extends(e, G) /\ e \notin A
  BY <1>1, <1>3, HistoryExtends, ExtendsNew DEF Foundation
<1>5. Fitting(G, F, d)
  BY <1>1, <1>3, CandidateFitting DEF Foundation
<1>6. events[e].pre \cup events[e].cont \cup {d} \subseteq CutOf(W)
  BY <1>1, <1>2, <1>3, <1>4, <1>5, FittingUnion
<1>7. Runs(W)
  BY <1>1, <1>2, UnsafeUnion
<1>8. e \notin W
  BY <1>3, <1>4, <1>6 DEF CutOf, Extends
<1>9. e \in DOMAIN events
  BY <1>1, <1>3, Elements DEF Foundation, IInv, HistType
<1>10. Filled(e)
  BY <1>1, FilledPopped DEF Foundation
<1>11. PICK U : U = {e} \cup W
  OBVIOUS
<1>12. Runs(U)
  BY <1>4, <1>6, <1>7, <1>8, <1>9, <1>10, <1>11, RunsTop DEF Foundation, Extends
<1>13. d \in CutOf(U)
  BY <1>3, <1>6, <1>11 DEF CutOf
<1>14. c \in CutOf(U)
  <2>1. CASE c \in events[e].cont
    BY <1>4, <1>6, <1>11, <2>1 DEF CutOf, Extends
  <2>2. CASE c \in EventPost(e)
    <3>1. c \in DOMAIN conds /\ conds[c].pre = e
      BY <2>2 DEF EventPost
    <3>2. \A f \in W : c \notin events[f].pre
      BY <1>7, <1>8, <3>1 DEF Runs, Closed
    <3>3. c \notin events[e].pre
      BY <1>4, <3>1 DEF Extends
    <3> QED
      BY <1>11, <3>1, <3>2, <3>3 DEF CutOf
  <2> QED
    BY <1>1, <2>1, <2>2
<1>15. conds[d].fp = conds[c].fp /\ d # c
  BY <1>1 DEF Place
<1> QED
  BY <1>12, <1>13, <1>14, <1>15 DEF Distinct

LEMMA GaveUpAlways == Spec => []GaveUp
<1>1. Init => GaveUp
  BY DEF Init, GaveUp
<1>2. GaveUp /\ [Next]_vars => GaveUp'
  BY GaveUpNext
<1> QED
  BY <1>1, <1>2, PTL DEF Spec

(* The program gives up on a net only if the net is not 1-safe: the two    *)
(* conditions that it found are in the cut of a set of events that can be  *)
(* fired one by one, which in a 1-safe net has one condition per place.    *)
THEOREM UnsafeIsReal == Spec => []UnsafeIsUnsafe
<1>1. ASSUME Foundation, GaveUp, status = "unsafe", SafeNet[net]
      PROVE  FALSE
  <2>1. PICK c \in gens \cup reads : Unsafe(c, cur)
    BY <1>1 DEF GaveUp
  <2>2. PICK rp \in Candidates(cur) : ecs[rp].c # c /\ Place(rp) = conds[c].fp
    BY <2>1 DEF Unsafe
  <2>3. c \in EventPost(hists[cur].e) \cup events[hists[cur].e].cont
    BY <1>1, <2>1 DEF Foundation, IInv, Linked
  <2>4. cur \in Popped
    <3>1. hists[cur].corr = 0 /\ cur \in DOMAIN hists
      BY <1>1, <2>1 DEF Foundation, IInv, Discipline, TypeOK
    <3>2. cur # 0
      BY <1>1, <3>1, Elements DEF Foundation, IInv
    <3> QED
      BY <1>1, <3>1, <3>2 DEF Foundation, IInv, Discipline, Popped
  <2>5. PICK U : Runs(U) /\ ~ Distinct(U)
    BY <1>1, <2>2, <2>3, <2>4, UnsafeFires
  <2>6. IsSafe(net)
    BY <1>1 DEF Foundation, IInv, TypeOK, SafeNet
  <2> QED
    BY <1>1, <2>5, <2>6, RunMarks DEF Foundation, Marks
<1>2. Foundation /\ GaveUp => UnsafeIsUnsafe
  BY <1>1 DEF UnsafeIsUnsafe
<1> QED
  BY <1>2, FoundationAlways, GaveUpAlways, PTL

-----------------------------------------------------------------------------
(* The file of the prefix.                                                 *)

(* q lists the members of S.                                               *)
Enumerates(q, S) ==
  /\ q \in Seq(S) /\ Len(q) = Cardinality(S)
  /\ {q[i] : i \in 1..Len(q)} = S

LEMMA ListsOnce ==
  ASSUME NEW S, IsFiniteSet(S), NEW q, Enumerates(q, S)
  PROVE  /\ Len(q) \in Nat /\ DOMAIN q = 1..Len(q)
         /\ \A i \in 1..Len(q) : q[i] \in S
         /\ \A x \in S : \E i \in 1..Len(q) : q[i] = x
         /\ \A i, j \in 1..Len(q) : q[i] = q[j] => i = j
<1>1. PICK n \in Nat : n = Len(q)
  BY DEF Enumerates
<1>2. DOMAIN q = 1..n /\ q \in [1..n -> S]
  BY <1>1 DEF Enumerates
<1>3. {q[i] : i \in 1..n} = S
  BY <1>1 DEF Enumerates
<1>4. q \in Surjection(1..n, S)
  BY <1>2, <1>3 DEF Surjection
<1>5. IsFiniteSet(1..n) /\ Cardinality(1..n) = n
  BY FS_Interval
<1>6. q \in Injection(1..n, S)
  BY <1>1, <1>4, <1>5, FS_Surjection DEF Enumerates
<1>7. \A i, j \in 1..n : q[i] = q[j] => i = j
  BY <1>6 DEF Injection, IsInjective
<1> QED
  BY <1>1, <1>2, <1>3, <1>7

Rank(S, e) == Cardinality({f \in S : f <= e})

LEMMA InOrderLists ==
  ASSUME NEW S \in SUBSET Nat, IsFiniteSet(S)
  PROVE  Enumerates(InOrder(S), S)
<1>1. PICK n \in Nat : n = Cardinality(S)
  BY FS_CardinalityType
<1> DEFINE r == [e \in S |-> Rank(S, e)]
<1>2. \A e \in S : r[e] \in 1..n
  <2> SUFFICES ASSUME NEW e \in S PROVE Rank(S, e) \in 1..n
    OBVIOUS
  <2>1. PICK T \in SUBSET S : T = {f \in S : f <= e}
    OBVIOUS
  <2>2. IsFiniteSet(T) /\ Cardinality(T) <= n /\ Cardinality(T) \in Nat
    BY <1>1, FS_Subset, FS_CardinalityType
  <2>3. T # {}
    BY <2>1
  <2>4. Cardinality(T) # 0
    BY <2>2, <2>3, FS_EmptySet
  <2> QED
    BY <2>1, <2>2, <2>4 DEF Rank
<1>3. ASSUME NEW e \in S, NEW f \in S, e < f PROVE r[e] # r[f]
  <2>1. PICK T, U \in SUBSET S : T = {x \in S : x <= e} /\ U = {x \in S : x <= f}
    OBVIOUS
  <2>2. T \subseteq U /\ f \in U /\ f \notin T
    <3>1. e \in Nat /\ f \in Nat /\ \A x \in S : x \in Nat
      OBVIOUS
    <3>2. f <= f /\ ~ (f <= e) /\ \A x \in S : x <= e => x <= f
      BY <1>3, <3>1
    <3> QED
      BY <2>1, <3>2
  <2>3. IsFiniteSet(U)
    BY FS_Subset
  <2>4. Cardinality(T) # Cardinality(U)
    BY <2>2, <2>3, FS_Subset
  <2> QED
    BY <2>1, <2>4 DEF Rank
<1>4. \A e, f \in S : r[e] = r[f] => e = f
  <2> SUFFICES ASSUME NEW e \in S, NEW f \in S, r[e] = r[f] PROVE e = f
    OBVIOUS
  <2>1. e \in Nat /\ f \in Nat
    OBVIOUS
  <2>2. ~ (e < f) /\ ~ (f < e)
    BY <1>3
  <2> QED
    BY <2>1, <2>2
<1>5. r \in Injection(S, 1..n)
  BY <1>2, <1>4 DEF Injection, IsInjective
<1>6. IsFiniteSet(1..n) /\ Cardinality(1..n) = n
  BY FS_Interval
<1>7. r \in Surjection(S, 1..n)
  <2> HIDE DEF r
  <2> QED
    BY <1>1, <1>5, <1>6, FS_Injection
<1>8. \A i \in 1..n : \E e \in S : Rank(S, e) = i
  <2>1. \A i \in 1..n : \E e \in S : r[e] = i
    <3> HIDE DEF r
    <3> QED
      BY <1>7 DEF Surjection
  <2> QED
    BY <2>1
<1>9. PICK q : q = InOrder(S)
  OBVIOUS
<1>10. q = [i \in 1..n |-> CHOOSE e \in S : Rank(S, e) = i]
  BY <1>1, <1>9 DEF InOrder, Rank
<1>11. \A i \in 1..n : q[i] \in S /\ Rank(S, q[i]) = i
  BY <1>8, <1>10
<1>12. q \in Seq(S) /\ Len(q) = n
  BY <1>10, <1>11
<1>13. ASSUME NEW e \in S PROVE \E i \in 1..n : q[i] = e
  <2>1. r[e] \in 1..n
    BY <1>2
  <2>2. q[r[e]] \in S /\ Rank(S, q[r[e]]) = r[e]
    BY <1>11, <2>1
  <2>3. r[q[r[e]]] = r[e]
    BY <2>2
  <2>4. q[r[e]] = e
    <3> HIDE DEF r
    <3> QED
      BY <1>4, <2>2, <2>3
  <2> QED
    BY <2>1, <2>4
<1> QED
  BY <1>1, <1>9, <1>11, <1>12, <1>13 DEF Enumerates

(* What the fold of Listed computes.                                       *)
First(s) == CHOOSE x \in s : TRUE

Listing(D, g) ==
  g = [s \in SUBSET D |-> IF s = {} THEN <<>> ELSE Append(g[s \ {First(s)}], First(s))]

LEMMA ListingAt ==
  ASSUME NEW D, NEW g, Listing(D, g), NEW s \in SUBSET D
  PROVE  /\ s = {} => g[s] = <<>>
         /\ s # {} => g[s] = Append(g[s \ {First(s)}], First(s))
BY DEF Listing

LEMMA FirstIn ==
  ASSUME NEW s, s # {}
  PROVE  First(s) \in s
BY DEF First

LEMMA ListingStep ==
  ASSUME NEW D, NEW g, Listing(D, g), NEW s \in SUBSET D, s # {},
         NEW x, x = First(s), NEW t, t = s \ {x}
  PROVE  /\ x \in s /\ t \in SUBSET s /\ t # s
         /\ g[s] = Append(g[t], x)
<1>1. x \in s
  BY FirstIn
<1>2. g[s] = Append(g[t], x)
  BY ListingAt
<1> QED
  BY <1>1, <1>2

(* Two such functions agree where both are defined.                        *)
LEMMA ListingUnique ==
  ASSUME NEW D, IsFiniteSet(D), NEW E, NEW g, NEW h, Listing(D, g), Listing(E, h),
         NEW s \in SUBSET (D \cap E)
  PROVE  g[s] = h[s]
<1> DEFINE Wrong == {T \in SUBSET D : T \subseteq E /\ g[T] # h[T]}
<1> SUFFICES ASSUME s \in Wrong PROVE FALSE
  OBVIOUS
<1>1. PICK T \in Wrong : \A Y \in Wrong : Y \subseteq T => Y = T
  <2>1. Wrong \in SUBSET SUBSET D /\ Wrong # {}
    OBVIOUS
  <2> HIDE DEF Wrong
  <2> QED
    BY <2>1, LeastSet
<1>2. T \in SUBSET D /\ T \in SUBSET E /\ g[T] # h[T]
  OBVIOUS
<1>3. T # {}
  BY <1>2, ListingAt
<1>4. PICK x, Z : x = First(T) /\ Z = T \ {x}
  OBVIOUS
<1>5. Z \in SUBSET T /\ Z # T /\ g[T] = Append(g[Z], x)
  BY <1>2, <1>3, <1>4, ListingStep
<1>8. h[T] = Append(h[Z], x)
  BY <1>2, <1>3, <1>4, ListingStep
<1>6. Z \notin Wrong
  BY <1>1, <1>5
<1>7. g[Z] = h[Z]
  BY <1>2, <1>5, <1>6
<1> QED
  BY <1>2, <1>5, <1>7, <1>8

LEMMA ListingExists ==
  ASSUME NEW D, IsFiniteSet(D)
  PROVE  \E g : Listing(D, g)
<1> DEFINE Wrong == {T \in SUBSET D : ~ \E g : Listing(T, g)}
<1> SUFFICES ASSUME D \in Wrong PROVE FALSE
  OBVIOUS
<1>1. PICK T \in Wrong : \A Y \in Wrong : Y \subseteq T => Y = T
  <2>1. Wrong \in SUBSET SUBSET D /\ Wrong # {}
    OBVIOUS
  <2> HIDE DEF Wrong
  <2> QED
    BY <2>1, LeastSet
<1>2. T \in SUBSET D /\ ~ \E g : Listing(T, g)
  OBVIOUS
<1>3. \A Y \in SUBSET T : Y # T => \E g : Listing(Y, g)
  <2> SUFFICES ASSUME NEW Y \in SUBSET T, Y # T PROVE \E g : Listing(Y, g)
    OBVIOUS
  <2>1. Y \in SUBSET D
    BY <1>2
  <2>2. Y \notin Wrong
    BY <1>1
  <2> QED
    BY <2>1, <2>2
<1> DEFINE G(Y) == (CHOOSE g : Listing(Y, g))[Y]
           At(Y) == IF Y = {} THEN <<>> ELSE Append(G(Y \ {First(Y)}), First(Y))
           b == [Y \in SUBSET T |-> At(Y)]
<1>4. ASSUME NEW Y \in SUBSET T, Y # T PROVE G(Y) = At(Y)
  <2>1. PICK g : g = CHOOSE f : Listing(Y, f)
    OBVIOUS
  <2>2. Listing(Y, g) /\ G(Y) = g[Y]
    BY <1>3, <1>4, <2>1
  <2>3. CASE Y = {}
    BY <2>2, <2>3, ListingAt
  <2>4. CASE Y # {}
    <3>1. PICK x, Z : x = First(Y) /\ Z = Y \ {x}
      OBVIOUS
    <3>2. Z \in SUBSET T /\ Z # T /\ Z \in SUBSET Y
      BY <2>4, <3>1, FirstIn
    <3>3. PICK h : h = CHOOSE f : Listing(Z, f)
      OBVIOUS
    <3>4. Listing(Z, h) /\ G(Z) = h[Z]
      BY <1>3, <3>2, <3>3
    <3>5. IsFiniteSet(Y)
      BY <1>2, FS_Subset
    <3>6. g[Z] = h[Z]
      BY <2>2, <3>2, <3>4, <3>5, ListingUnique
    <3>7. g[Y] = Append(g[Z], x)
      BY <2>2, <2>4, <3>1, ListingStep
    <3>8. At(Y) = Append(G(Z), x)
      BY <2>4, <3>1
    <3> QED
      BY <2>2, <3>4, <3>6, <3>7, <3>8
  <2> QED
    BY <2>3, <2>4
<1>5. ASSUME NEW Y \in SUBSET T
      PROVE  b[Y] = IF Y = {} THEN <<>> ELSE Append(b[Y \ {First(Y)}], First(Y))
  <2>1. b[Y] = At(Y)
    OBVIOUS
  <2>2. CASE Y = {}
    BY <2>1, <2>2
  <2>3. CASE Y # {}
    <3>1. PICK Z : Z = Y \ {First(Y)}
      OBVIOUS
    <3>2. Z \in SUBSET T /\ Z # T
      BY <2>3, <3>1, FirstIn
    <3>3. b[Z] = G(Z)
      <4>1. b[Z] = At(Z)
        BY <3>2
      <4> QED
        BY <1>4, <3>2, <4>1
    <3>4. At(Y) = Append(G(Z), First(Y))
      BY <2>3, <3>1
    <3> HIDE DEF b, G, At
    <3> QED
      BY <2>1, <2>3, <3>1, <3>3, <3>4
  <2> QED
    BY <2>2, <2>3
<1>6. b = [Y \in SUBSET T |-> b[Y]]
  OBVIOUS
<1>7. Listing(T, b)
  <2> HIDE DEF b
  <2> QED
    BY <1>5, <1>6 DEF Listing
<1> QED
  BY <1>2, <1>7

LEMMA ListedFcn ==
  ASSUME NEW S, IsFiniteSet(S)
  PROVE  \E g : Listing(S, g) /\ Listed(S) = g[S]
<1> DEFINE b == CHOOSE g : g = [s \in SUBSET S |->
                  IF s = {} THEN <<>> ELSE Append(g[s \ {First(s)}], First(s))]
<1>1. Listed(S) = b[S]
  BY DEF Listed, FoldSet, MapThenFoldSet, First
<1>2. Listing(S, b)
  BY ListingExists DEF Listing
<1> QED
  BY <1>1, <1>2

LEMMA ListedLists ==
  ASSUME NEW S, IsFiniteSet(S)
  PROVE  Enumerates(Listed(S), S)
<1>1. PICK g : Listing(S, g) /\ Listed(S) = g[S]
  BY ListedFcn
<1> DEFINE Wrong == {T \in SUBSET S : ~ Enumerates(g[T], T)}
<1> SUFFICES ASSUME S \in Wrong PROVE FALSE
  BY <1>1
<1>2. PICK T \in Wrong : \A Y \in Wrong : Y \subseteq T => Y = T
  <2>1. Wrong \in SUBSET SUBSET S /\ Wrong # {}
    OBVIOUS
  <2> HIDE DEF Wrong
  <2> QED
    BY <2>1, LeastSet
<1>3. T \in SUBSET S /\ ~ Enumerates(g[T], T) /\ IsFiniteSet(T)
  BY FS_Subset
<1>4. T # {}
  <2>1. ASSUME T = {} PROVE Enumerates(g[T], T)
    <3>1. g[T] = <<>>
      BY <1>1, <1>3, <2>1, ListingAt
    <3> QED
      BY <2>1, <3>1, FS_EmptySet DEF Enumerates
  <2> QED
    BY <1>3, <2>1
<1>5. PICK x, Z, q, n : x = First(T) /\ Z = T \ {x} /\ q = g[Z] /\ n = Len(q)
  OBVIOUS
<1>6. x \in T /\ Z \in SUBSET T /\ Z # T /\ g[T] = Append(q, x)
  BY <1>1, <1>3, <1>4, <1>5, ListingStep
<1>7. Z \notin Wrong
  BY <1>2, <1>5, <1>6
<1>8. Enumerates(q, Z)
  BY <1>3, <1>5, <1>6, <1>7
<1>9. Cardinality(Z) = Cardinality(T) - 1 /\ Cardinality(T) \in Nat
  BY <1>3, <1>5, <1>6, FS_RemoveElement, FS_CardinalityType
<1>10. q \in Seq(T) /\ n \in Nat /\ n + 1 = Cardinality(T)
  <2>1. q \in Seq(Z) /\ n = Cardinality(Z) /\ n \in Nat
    BY <1>5, <1>8 DEF Enumerates
  <2>2. q \in [1..n -> Z]
    BY <1>5, <2>1, LenProperties
  <2>3. q \in [1..n -> T]
    BY <1>6, <2>2
  <2>4. q \in Seq(T)
    BY <2>1, <2>3
  <2> QED
    BY <1>9, <2>1, <2>4
<1>11. /\ Append(q, x) \in Seq(T) /\ Len(Append(q, x)) = n + 1
       /\ \A i \in 1..n : Append(q, x)[i] = q[i]
       /\ Append(q, x)[n + 1] = x
  BY <1>5, <1>6, <1>10, AppendFacts
<1>12. {q[i] : i \in 1..n} = Z
  BY <1>5, <1>8 DEF Enumerates
<1>13. PICK p : p = Append(q, x)
  OBVIOUS
<1>14. {p[i] : i \in 1..n + 1} = T
  <2>1. \A i \in 1..n + 1 : p[i] \in T
    BY <1>10, <1>11, <1>13, <1>6, <1>12
  <2>2. \A y \in T : \E i \in 1..n + 1 : p[i] = y
    <3> SUFFICES ASSUME NEW y \in T PROVE \E i \in 1..n + 1 : p[i] = y
      OBVIOUS
    <3>1. CASE y = x
      BY <1>10, <1>11, <1>13, <3>1
    <3>2. CASE y # x
      <4>1. y \in Z
        BY <1>5, <3>2
      <4>2. PICK i \in 1..n : q[i] = y
        BY <1>12, <4>1
      <4> QED
        BY <1>10, <1>11, <1>13, <4>2
    <3> QED
      BY <3>1, <3>2
  <2> QED
    BY <2>1, <2>2
<1>15. Enumerates(p, T)
  BY <1>10, <1>11, <1>13, <1>14 DEF Enumerates
<1> QED
  BY <1>3, <1>6, <1>13, <1>15

(* r lists U: as p up to the place m, then, n places long, T.              *)
Followed(r, p, U, T, m, n) ==
  /\ Enumerates(r, U) /\ Len(r) = m + n
  /\ \A i \in 1..m : r[i] = p[i]
  /\ \A i \in m + 1..m + n : r[i] \in T

(* One list after another.                                                 *)
LEMMA ListsConcat ==
  ASSUME NEW S, IsFiniteSet(S), NEW T, IsFiniteSet(T), S \cap T = {},
         NEW p, Enumerates(p, S), NEW q, Enumerates(q, T), NEW r, r = p \o q,
         NEW m, m = Cardinality(S), NEW n, n = Cardinality(T), NEW U, U = S \cup T
  PROVE  Followed(r, p, U, T, m, n)
<1>1. m = Len(p) /\ n = Len(q) /\ r = p \o q
  BY DEF Enumerates
<1>2. /\ m \in Nat /\ n \in Nat /\ m = Cardinality(S) /\ n = Cardinality(T)
      /\ \A i \in 1..m : p[i] \in S
      /\ \A i \in 1..n : q[i] \in T
      /\ \A x \in S : \E i \in 1..m : p[i] = x
      /\ \A x \in T : \E i \in 1..n : q[i] = x
  BY <1>1, ListsOnce DEF Enumerates
<1>3. p \in Seq(S \cup T) /\ q \in Seq(S \cup T)
  <2>1. p \in [1..m -> S] /\ q \in [1..n -> T]
    BY <1>1, LenProperties DEF Enumerates
  <2>2. p \in [1..m -> S \cup T] /\ q \in [1..n -> S \cup T]
    BY <2>1
  <2> QED
    BY <1>2, <2>2
<1>4. /\ r \in Seq(S \cup T) /\ Len(r) = m + n
      /\ \A i \in 1..m + n : r[i] = IF i <= m THEN p[i] ELSE q[i - m]
  BY <1>1, <1>3, ConcatProperties
<1>5. \A i \in 1..m : r[i] = p[i]
  BY <1>2, <1>4
<1>6. \A i \in m + 1..m + n : r[i] \in T
  <2> SUFFICES ASSUME NEW i \in m + 1..m + n PROVE r[i] \in T
    OBVIOUS
  <2>1. i \in 1..m + n /\ ~ (i <= m) /\ i - m \in 1..n
    BY <1>2
  <2> QED
    BY <1>2, <1>4, <2>1
<1>7. \A x \in S \cup T : \E i \in 1..m + n : r[i] = x
  <2> SUFFICES ASSUME NEW x \in S \cup T PROVE \E i \in 1..m + n : r[i] = x
    OBVIOUS
  <2>1. CASE x \in S
    <3>1. PICK i \in 1..m : p[i] = x
      BY <1>2, <2>1
    <3>2. i \in 1..m + n
      BY <1>2
    <3>3. r[i] = x
      BY <1>5, <3>1
    <3> QED
      BY <3>2, <3>3
  <2>2. CASE x \in T
    <3>1. PICK i \in 1..n : q[i] = x
      BY <1>2, <2>2
    <3>2. i + m \in 1..m + n /\ ~ (i + m <= m) /\ (i + m) - m = i
      BY <1>2
    <3>3. r[i + m] = x
      BY <1>4, <3>1, <3>2
    <3> QED
      BY <3>2, <3>3
  <2> QED
    BY <2>1, <2>2
<1>8. \A i \in 1..m + n : r[i] \in S \cup T
  <2> SUFFICES ASSUME NEW i \in 1..m + n PROVE r[i] \in S \cup T
    OBVIOUS
  <2>1. CASE i <= m
    <3>1. i \in 1..m
      BY <1>2, <2>1
    <3> QED
      BY <1>2, <1>5, <3>1
  <2>2. CASE ~ (i <= m)
    <3>1. i \in m + 1..m + n
      BY <1>2, <2>2
    <3> QED
      BY <1>6, <3>1
  <2> QED
    BY <2>1, <2>2
<1>9. Cardinality(U) = m + n
  <2>1. Cardinality({}) = 0
    BY FS_EmptySet
  <2>2. Cardinality(S \cap T) = 0
    BY <2>1
  <2>3. Cardinality(S \cup T) = Cardinality(S) + Cardinality(T) - Cardinality(S \cap T)
    BY FS_Union
  <2> QED
    BY <1>2, <2>2, <2>3
<1>10. r \in Seq(U)
  BY <1>4
<1>11. {r[i] : i \in 1..Len(r)} = U
  <2>1. PICK k : k = m + n
    OBVIOUS
  <2>2. \A i \in 1..k : r[i] \in U
    BY <1>8, <2>1
  <2>3. \A x \in U : \E i \in 1..k : r[i] = x
    BY <1>7, <2>1
  <2>4. {r[i] : i \in 1..k} \subseteq U
    BY <2>2
  <2>5. ASSUME NEW x \in U PROVE x \in {r[i] : i \in 1..k}
    <3>1. PICK i \in 1..k : r[i] = x
      BY <2>3
    <3> QED
      BY <3>1
  <2> QED
    BY <1>4, <2>1, <2>4, <2>5
<1>12. Enumerates(r, U)
  BY <1>4, <1>9, <1>10, <1>11 DEF Enumerates
<1> QED
  BY <1>4, <1>5, <1>6, <1>12 DEF Followed

(* What the colours of the file rest on.                                   *)
Recorded == Foundation /\ Ordered /\ Layered /\ CutoffEvents

LEMMA RecordedAlways == Spec => []Recorded
<1>1. Foundation /\ Ordered /\ Layered /\ CutoffEvents => Recorded
  BY DEF Recorded
<1> QED
  BY <1>1, FoundationAlways, OrderedAlways, LayeredAlways, CutoffBits, PTL

(* The history of e0 is kept.                                              *)
LEMMA FirstKept ==
  ASSUME Recorded
  PROVE  /\ 1 \in DOMAIN events /\ ~ events[1].iscutoff
         /\ 1 \in Popped /\ hists[1].corr = 0 /\ hists[1].e = 1
<1>1. IInv /\ Foundation /\ Ordered /\ Layered /\ CutoffEvents /\ TypeOK
  BY DEF Recorded, Foundation, IInv
<1>2. cur \in DOMAIN hists /\ 1 \in DOMAIN hists /\ DOMAIN hists = 1..Len(hists) /\ Len(hists) \in Nat
  <2>1. cur \in DOMAIN hists /\ DOMAIN hists = 1..Len(hists) /\ Len(hists) \in Nat
    BY <1>1, Elements DEF TypeOK
  <2> QED
    BY <2>1
<1>3. 1 \in Popped /\ hists[1].corr = 0
  <2>1. CASE \E h \in DOMAIN hists : h # 1
    <3>1. PICK h \in DOMAIN hists : h # 1
      BY <2>1
    <3>2. hists[1].corr = 0
      BY <1>1, <3>1 DEF Layered, IInv, BuiltOnNonCutoffs
    <3>3. 1 \notin queue
      BY <1>1, <3>2 DEF IInv, Discipline
    <3> QED
      BY <1>2, <3>2, <3>3 DEF Popped
  <2>2. CASE \A h \in DOMAIN hists : h = 1
    <3>1. 1 \in Popped
      BY <1>1, <1>2, <2>2 DEF Ordered
    <3>2. hists[1].corr \in DOMAIN hists \cup {0}
      BY <1>1, <1>2, Elements DEF HistType
    <3>3. hists[1].corr # 1
      BY <1>1, <3>1 DEF Foundation, Marked
    <3> QED
      BY <2>2, <3>1, <3>2, <3>3
  <2> QED
    BY <2>1, <2>2
<1>4. 1 \in DOMAIN events
  <2>1. hists[1].e \in DOMAIN events /\ DOMAIN events = 1..Len(events) /\ Len(events) \in Nat
    BY <1>1, <1>2, Elements DEF HistType
  <2> QED
    BY <2>1
<1>5. hists[1].e = 1
  <2>1. PICK h \in DOMAIN hists : hists[h].e = 1
    BY <1>1, <1>4 DEF Foundation, Grounded
  <2>2. events[1].pre = {} /\ events[1].cont = {}
    BY <1>1, <1>4, LabelFacts DEF Foundation
  <2>3. {ecs[r].c : r \in hists[h].ecl} = {}
    BY <1>1, <2>1, <2>2 DEF Foundation, Grounded, Footing
  <2>4. hists[h].ecl = {}
    BY <2>3
  <2>5. hists[h].past = {h}
    BY <1>1, <2>1, <2>4 DEF Foundation, Coherent, Assembled
  <2>6. h = 1
    BY <1>1, <2>1, <2>5 DEF Layered
  <2> QED
    BY <2>1, <2>6
<1>6. ~ events[1].iscutoff
  BY <1>1, <1>3, <1>4, <1>5 DEF CutoffEvents
<1> QED
  BY <1>3, <1>4, <1>5, <1>6

(* The colours say which histories of an event were kept.                  *)
LEMMA Colours ==
  ASSUME Recorded, NEW e \in DOMAIN events, e # 1
  PROVE  /\ Kept(e) = {} <=> events[e].iscutoff
         /\ Kept(e) = {h \in DOMAIN hists : hists[h].e = e} <=> White(e)
         /\ ~ (White(e) /\ events[e].iscutoff)
<1>1. IInv /\ Foundation /\ CutoffEvents
  BY DEF Recorded, Foundation
<1>2. Kept(e) = {} <=> events[e].iscutoff
  BY <1>1 DEF CutoffEvents, Kept
<1>3. PICK h \in DOMAIN hists : hists[h].e = e
  BY <1>1 DEF Foundation, Grounded
<1>4. \A x \in DOMAIN hists : hists[x].corr = 0 => x \in Popped
  <2> SUFFICES ASSUME NEW x \in queue, x \in DOMAIN hists, hists[x].corr = 0 PROVE FALSE
    BY DEF Popped
  <2>1. hists[x].corr = x
    BY <1>1 DEF IInv, Discipline
  <2>2. x \in 1..Len(hists)
    BY <1>1, Elements DEF IInv
  <2> QED
    BY <2>1, <2>2
<1>5. ASSUME White(e) PROVE Kept(e) = {x \in DOMAIN hists : hists[x].e = e}
  BY <1>4, <1>5 DEF White, Kept, Popped
<1>6. ASSUME Kept(e) = {x \in DOMAIN hists : hists[x].e = e} PROVE White(e)
  <2>1. \A x \in DOMAIN hists : hists[x].e = e => hists[x].corr = 0
    BY <1>6 DEF Kept
  <2>2. Kept(e) # {}
    BY <1>3, <1>6
  <2> QED
    BY <1>2, <2>1, <2>2 DEF White
<1> QED
  BY <1>2, <1>5, <1>6 DEF White

(* The three loops of write_cuf.                                           *)
WhiteSet == {e \in DOMAIN events : White(e)}
GraySet  == {e \in DOMAIN events \ {1} : ~ White(e) /\ ~ events[e].iscutoff}
BlackSet == {e \in DOMAIN events : events[e].iscutoff}

(* q has the white, the gray and the black events one after another.       *)
Coloured(q) ==
  LET w == Cardinality(WhiteSet)
      g == Cardinality(GraySet)
  IN  /\ Enumerates(q, 2..Len(events))
      /\ w \in Nat /\ g \in Nat
      /\ Len(Whites) = w
      /\ Len(events) - 1 - w - Len(Blacks) = g
      /\ \A i \in 1..w : i <= Len(q) /\ q[i] \in WhiteSet
      /\ \A i \in w + 1..w + g : i <= Len(q) /\ q[i] \in GraySet
      /\ \A i \in w + g + 1..Len(q) : q[i] \in BlackSet

LEMMA FileColoured ==
  ASSUME Recorded
  PROVE  Coloured(FileOrder)
<1>1. PICK W, G, B, N : W = WhiteSet /\ G = GraySet /\ B = BlackSet /\ N = Len(events)
  OBVIOUS
<1>2. N \in Nat /\ DOMAIN events = 1..N /\ 1 \in 1..N /\ 1 \notin B
  BY <1>1, FirstKept, Elements DEF Recorded, Foundation, IInv, BlackSet
<1>3. W \cup G \cup B = 2..N
  <2>1. \A e \in 1..N : e # 1 <=> e \in 2..N
    BY <1>2
  <2>2. 1 \notin W /\ 1 \notin G /\ 1 \notin B
    BY <1>1, <1>2 DEF WhiteSet, GraySet, White
  <2>3. W \subseteq 1..N /\ G \subseteq 1..N /\ B \subseteq 1..N /\ 2..N \subseteq 1..N
    BY <1>1, <1>2 DEF WhiteSet, GraySet, BlackSet
  <2>4. \A e \in 1..N : e # 1 => e \in W \cup G \cup B
    BY <1>1, <1>2 DEF WhiteSet, GraySet, BlackSet
  <2> QED
    BY <2>1, <2>2, <2>3, <2>4
<1>4. W \cap G = {} /\ (W \cup G) \cap B = {}
  BY <1>1 DEF WhiteSet, GraySet, BlackSet, White
<1>5. /\ IsFiniteSet(W) /\ IsFiniteSet(G) /\ IsFiniteSet(B) /\ IsFiniteSet(W \cup G)
      /\ W \in SUBSET Nat /\ G \in SUBSET Nat /\ B \in SUBSET Nat
  <2>1. IsFiniteSet(2..N) /\ 2..N \subseteq Nat
    BY <1>2, FS_Interval
  <2>2. W \in SUBSET (2..N) /\ G \in SUBSET (2..N) /\ B \in SUBSET (2..N) /\ W \cup G \in SUBSET (2..N)
    BY <1>3
  <2>3. IsFiniteSet(W) /\ IsFiniteSet(G)
    BY <2>1, <2>2, FS_Subset
  <2>4. IsFiniteSet(B) /\ IsFiniteSet(W \cup G)
    BY <2>1, <2>2, FS_Subset
  <2> QED
    BY <2>1, <2>2, <2>3, <2>4
<1>6. PICK p, s, b : p = Whites /\ s = Grays /\ b = Blacks
  OBVIOUS
<1>7. p = InOrder(W) /\ s = InOrder(G) /\ b = InOrder(B)
  BY <1>1, <1>6 DEF Whites, Grays, Blacks, WhiteSet, GraySet, BlackSet
<1>8. Enumerates(p, W) /\ Enumerates(s, G) /\ Enumerates(b, B)
  BY <1>5, <1>7, InOrderLists
<1>9. PICK ps, q, V : ps = p \o s /\ q = ps \o b /\ V = W \cup G
  OBVIOUS
<1>10. FileOrder = q
  BY <1>6, <1>9 DEF FileOrder
<1>11. PICK w, g, k : w = Cardinality(W) /\ g = Cardinality(G) /\ k = Cardinality(B)
  OBVIOUS
<1>12. w \in Nat /\ g \in Nat /\ k \in Nat /\ Len(p) = w /\ Len(s) = g /\ Len(b) = k
  BY <1>5, <1>8, <1>11, FS_CardinalityType DEF Enumerates
<1>25. Followed(ps, p, V, G, w, g)
  BY <1>4, <1>5, <1>8, <1>9, <1>11, ListsConcat
<1>13. /\ Enumerates(ps, V) /\ Len(ps) = w + g
       /\ \A i \in 1..w : ps[i] = p[i]
       /\ \A i \in w + 1..w + g : ps[i] \in G
  BY <1>25 DEF Followed
<1>16. Cardinality(V) = w + g
  BY <1>13 DEF Enumerates
<1>24. PICK v, E : v = w + g /\ E = V \cup B
  OBVIOUS
<1>26. IsFiniteSet(V) /\ V \cap B = {}
  BY <1>4, <1>5, <1>9
<1>27. Followed(q, ps, E, B, v, k)
  BY <1>5, <1>8, <1>9, <1>11, <1>13, <1>16, <1>24, <1>26, ListsConcat
<1>14. /\ Enumerates(q, E) /\ Len(q) = v + k
       /\ \A i \in 1..v : q[i] = ps[i]
       /\ \A i \in v + 1..v + k : q[i] \in B
  BY <1>27 DEF Followed
<1>15. \A i \in 1..w : p[i] \in W
  BY <1>5, <1>8, <1>12, ListsOnce
<1>17. Len(q) = w + g + k /\ E = 2..N /\ \A i \in w + g + 1..Len(q) : q[i] \in B
  BY <1>3, <1>9, <1>12, <1>14, <1>24
<1>18. N - 1 = w + g + k
  <2>1. Len(q) = Cardinality(2..N)
    BY <1>14, <1>17 DEF Enumerates
  <2>2. Cardinality(2..N) = N - 1
    BY <1>2, FS_Interval
  <2> QED
    BY <1>17, <2>1, <2>2
<1>19. \A i \in 1..w : i <= Len(q) /\ q[i] \in W
  <2> SUFFICES ASSUME NEW i \in 1..w PROVE i <= Len(q) /\ q[i] \in W
    OBVIOUS
  <2>1. i \in 1..w + g /\ i <= Len(q)
    BY <1>12, <1>17
  <2> QED
    BY <1>13, <1>14, <1>15, <1>24, <2>1
<1>20. \A i \in w + 1..w + g : i <= Len(q) /\ q[i] \in G
  <2> SUFFICES ASSUME NEW i \in w + 1..w + g PROVE i <= Len(q) /\ q[i] \in G
    OBVIOUS
  <2>1. i \in 1..w + g /\ i <= Len(q)
    BY <1>12, <1>17
  <2> QED
    BY <1>13, <1>14, <1>24, <2>1
<1>21. Enumerates(q, 2..N)
  BY <1>14, <1>17
<1>22. N - 1 - w - Len(b) = g
  BY <1>2, <1>12, <1>18
<1>23. Coloured(q)
  BY <1>1, <1>6, <1>11, <1>12, <1>17, <1>19, <1>20, <1>21, <1>22 DEF Coloured
<1> QED
  BY <1>10, <1>23

(* The numbers of the events in the file.                                  *)
LEMMA FileNumbers ==
  ASSUME Recorded, NEW q, q = FileOrder, NEW ids, ids = EventIds, NEW n, n = Len(events) - 1
  PROVE  /\ n \in Nat /\ Len(q) = n /\ DOMAIN q = 1..n
         /\ \A i \in 1..n : q[i] \in 2..Len(events) /\ ids[q[i]] = i - 1
         /\ \A e \in 2..Len(events) : ids[e] \in 0..n - 1 /\ q[ids[e] + 1] = e
         /\ 1 \in DOMAIN events /\ ids[1] = 0
<1>1. Enumerates(q, 2..Len(events))
  BY FileColoured DEF Coloured
<1>2. 1 \in DOMAIN events /\ DOMAIN events = 1..Len(events) /\ Len(events) \in Nat
  BY FirstKept, Elements DEF Recorded, Foundation, IInv
<1>8. PICK E : E = 2..Len(events)
  OBVIOUS
<1>9. \A e \in E : e \in DOMAIN events /\ e # 1
  BY <1>2, <1>8
<1>10. PICK N \in Nat : N = Len(events)
  BY <1>2
<1>3. n \in Nat /\ IsFiniteSet(E) /\ Cardinality(E) = n
  <2>1. 1 \in 1..N
    BY <1>2, <1>10
  <2>2. n = N - 1 /\ n \in Nat
    BY <1>10, <2>1
  <2>3. E = 2..N
    BY <1>8, <1>10
  <2>4. IsFiniteSet(2..N) /\ Cardinality(2..N) = N - 2 + 1
    BY <2>1, FS_Interval
  <2> QED
    BY <2>2, <2>3, <2>4
<1>4. /\ Len(q) = n /\ DOMAIN q = 1..n
      /\ \A i \in 1..n : q[i] \in E
      /\ \A e \in E : \E i \in 1..n : q[i] = e
      /\ \A i, j \in 1..n : q[i] = q[j] => i = j
  <2>1. Enumerates(q, E) /\ Len(q) = n
    BY <1>1, <1>3, <1>8 DEF Enumerates
  <2>2. /\ DOMAIN q = 1..Len(q)
        /\ \A i \in 1..Len(q) : q[i] \in E
        /\ \A e \in E : \E i \in 1..Len(q) : q[i] = e
        /\ \A i, j \in 1..Len(q) : q[i] = q[j] => i = j
    BY <1>3, <2>1, ListsOnce
  <2> QED
    BY <2>1, <2>2
<1>5. \A e \in DOMAIN events : ids[e] = IF e = 1 THEN 0 ELSE (CHOOSE i \in DOMAIN q : q[i] = e) - 1
  BY DEF EventIds
<1>6. ASSUME NEW i \in 1..n PROVE ids[q[i]] = i - 1
  <2>1. q[i] \in DOMAIN events /\ q[i] # 1
    BY <1>4, <1>9
  <2>2. (CHOOSE j \in DOMAIN q : q[j] = q[i]) = i
    BY <1>4
  <2> QED
    BY <1>5, <2>1, <2>2
<1>7. ASSUME NEW e \in E PROVE ids[e] \in 0..n - 1 /\ q[ids[e] + 1] = e
  <2>1. PICK i \in 1..n : q[i] = e
    BY <1>4
  <2>2. ids[e] = i - 1
    BY <1>6, <2>1
  <2> QED
    BY <1>3, <2>1, <2>2
<1> QED
  BY <1>2, <1>3, <1>4, <1>5, <1>6, <1>7, <1>8

LEMMA SeqLength ==
  ASSUME NEW n \in Nat, NEW s, DOMAIN s = 1..n, s = [i \in 1..n |-> s[i]]
  PROVE  Len(s) = n
<1>1. PICK X : X = {s[i] : i \in 1..n}
  OBVIOUS
<1>2. \A i \in 1..n : s[i] \in X
  BY <1>1
<1>3. s \in [1..n -> X]
  BY <1>2
<1> QED
  BY <1>3

(* The tables of names.                                                    *)
LEMMA Tables ==
  ASSUME Recorded, NEW nt, nt = Cardinality(net.trans), NEW np, np = Cardinality(net.places)
  PROVE  /\ nt \in Nat /\ np \in Nat
         /\ Len(TransTable \o PlaceTable) = nt + np
         /\ \A t \in net.trans : /\ TransIdx(t) \in 0..nt - 1
                                 /\ (TransTable \o PlaceTable)[TransIdx(t) + 1] = t
         /\ \A p \in net.places : /\ PlaceIdx(p) \in 0..np - 1
                                  /\ (TransTable \o PlaceTable)[nt + PlaceIdx(p) + 1] = p
<1>1. PICK T, P : T = net.trans /\ P = net.places
  OBVIOUS
<1>2. IsFiniteSet(T) /\ IsFiniteSet(P) /\ T = 1..nt /\ nt = Cardinality(T) /\ np = Cardinality(P)
  BY <1>1, NetsAssumption, NumberedAssumption DEF Recorded, Foundation, IInv, TypeOK
<1>3. nt \in Nat /\ np \in Nat
  BY <1>2, FS_CardinalityType
<1>4. PICK a, b, ab : a = TransTable /\ b = PlaceTable /\ ab = a \o b
  OBVIOUS
<1>5. a = [i \in 1..nt |-> nt + 1 - i] /\ a \in [1..nt -> T]
  <2>1. a = [i \in 1..nt |-> nt + 1 - i]
    BY <1>1, <1>2, <1>4 DEF TransTable
  <2>2. \A i \in 1..nt : nt + 1 - i \in 1..nt
    BY <1>3
  <2> QED
    BY <1>2, <2>1, <2>2
<1>6. Enumerates(b, P)
  BY <1>1, <1>2, <1>4, ListedLists DEF PlaceTable
<1>7. /\ Len(b) = np /\ DOMAIN b = 1..np
      /\ \A i \in 1..np : b[i] \in P
      /\ \A x \in P : \E i \in 1..np : b[i] = x
  <2>1. Len(b) = np
    BY <1>2, <1>6 DEF Enumerates
  <2>2. /\ DOMAIN b = 1..Len(b)
        /\ \A i \in 1..Len(b) : b[i] \in P
        /\ \A x \in P : \E i \in 1..Len(b) : b[i] = x
    BY <1>2, <1>6, ListsOnce
  <2> QED
    BY <2>1, <2>2
<1>8. a \in Seq(T \cup P) /\ b \in Seq(T \cup P) /\ Len(a) = nt
  <2>1. a \in [1..nt -> T \cup P]
    BY <1>5
  <2>2. b \in Seq(P)
    BY <1>6 DEF Enumerates
  <2>3. b \in [1..np -> P]
    BY <1>7, <2>2, LenProperties
  <2>4. b \in [1..np -> T \cup P]
    BY <2>3
  <2> QED
    BY <1>3, <2>1, <2>4
<1>9. /\ Len(ab) = nt + np
      /\ \A i \in 1..nt + np : ab[i] = IF i <= nt THEN a[i] ELSE b[i - nt]
  <2>1. /\ Len(a \o b) = Len(a) + Len(b)
        /\ \A i \in 1..Len(a) + Len(b) : (a \o b)[i] = IF i <= Len(a) THEN a[i] ELSE b[i - Len(a)]
    BY <1>8, ConcatProperties
  <2> QED
    BY <1>4, <1>7, <1>8, <2>1
<1>10. ASSUME NEW t \in T PROVE TransIdx(t) \in 0..nt - 1 /\ ab[TransIdx(t) + 1] = t
  <2>1. PICK i : i = TransIdx(t)
    OBVIOUS
  <2>2. i = nt - t /\ t \in 1..nt
    BY <1>1, <1>2, <2>1 DEF TransIdx
  <2>3. i \in 0..nt - 1 /\ i + 1 \in 1..nt + np /\ i + 1 <= nt /\ i + 1 \in 1..nt /\ nt + 1 - (i + 1) = t
    BY <1>3, <2>2
  <2>4. ab[i + 1] = t
    BY <1>5, <1>9, <2>3
  <2> QED
    BY <2>1, <2>3, <2>4
<1>11. ASSUME NEW p \in P PROVE PlaceIdx(p) \in 0..np - 1 /\ ab[nt + PlaceIdx(p) + 1] = p
  <2>1. PICK i : i = PlaceIdx(p)
    OBVIOUS
  <2>2. i = (CHOOSE j \in 1..np : b[j] = p) - 1
    BY <1>4, <1>7, <2>1 DEF PlaceIdx
  <2>3. i + 1 \in 1..np /\ b[i + 1] = p
    <3>1. PICK k : k = CHOOSE j \in 1..np : b[j] = p
      OBVIOUS
    <3>2. k \in 1..np /\ b[k] = p
      BY <1>7, <3>1
    <3>3. k = i + 1
      BY <2>2, <3>1, <3>2
    <3> QED
      BY <3>2, <3>3
  <2>4. /\ i \in 0..np - 1 /\ nt + i + 1 \in 1..nt + np
        /\ ~ (nt + i + 1 <= nt) /\ nt + i + 1 - nt = i + 1
    BY <1>3, <2>2, <2>3
  <2>6. PICK j : j = nt + i + 1
    OBVIOUS
  <2>7. ab[j] = b[j - nt]
    BY <1>9, <2>4, <2>6
  <2>5. ab[nt + i + 1] = p
    <3>1. j - nt = i + 1
      BY <1>3, <2>4, <2>6
    <3>2. ab[j] = p
      BY <2>3, <2>7, <3>1
    <3> QED
      BY <2>6, <3>2
  <2> QED
    BY <2>1, <2>4, <2>5
<1> QED
  BY <1>1, <1>3, <1>4, <1>9, <1>10, <1>11

(* A list of the numbers of events has these numbers.                      *)
LEMMA NumbersListed ==
  ASSUME NEW n \in Nat, NEW S \in SUBSET (0..n - 1)
  PROVE  Range(Listed(S)) = S
<1>1. IsFiniteSet(S)
  <2>1. 0 \in Int /\ n - 1 \in Int
    OBVIOUS
  <2>2. IsFiniteSet(0..n - 1)
    BY <2>1, FS_Interval
  <2> QED
    BY <2>2, FS_Subset
<1>2. PICK q : q = Listed(S)
  OBVIOUS
<1>3. Enumerates(q, S)
  BY <1>1, <1>2, ListedLists
<1>4. DOMAIN q = 1..Len(q)
  BY <1>1, <1>3, ListsOnce
<1>5. {q[i] : i \in DOMAIN q} = S
  BY <1>3, <1>4 DEF Enumerates
<1> QED
  BY <1>2, <1>5 DEF Range

(* With a white event the number 0 is not taken for the initial event.     *)
LEMMA PreFields ==
  ASSUME Recorded, Whites # <<>>, NEW ids, ids = EventIds, NEW c \in DOMAIN conds,
         NEW e, e = conds[c].pre
  PROVE  /\ e \in DOMAIN events
         /\ e = 1 => PreField(ids, c) = NoEvent
         /\ e # 1 => PreField(ids, c) = ids[e]
<1>1. e \in DOMAIN events
  BY Elements DEF Recorded, Foundation, IInv, CondType
<1>2. PreField(ids, c) = IF ids[e] = 0 /\ ~ White(e) THEN NoEvent ELSE ids[e]
  BY DEF PreField
<1>3. PICK q, n : q = FileOrder /\ n = Len(events) - 1
  OBVIOUS
<1>4. /\ \A x \in 2..Len(events) : ids[x] \in 0..n - 1 /\ q[ids[x] + 1] = x
      /\ ids[1] = 0
  BY <1>3, FileNumbers
<1>5. ~ White(1)
  BY DEF White
<1>6. ASSUME e # 1, ids[e] = 0 PROVE White(e)
  <2>1. Coloured(q)
    BY <1>3, FileColoured
  <2>2. Whites \in Seq(WhiteSet) /\ Len(Whites) \in Nat
    <3>1. PICK W : W = WhiteSet
      OBVIOUS
    <3>2. W \in SUBSET Nat /\ IsFiniteSet(W)
      <4>1. Len(events) \in Nat /\ DOMAIN events = 1..Len(events)
        BY Elements DEF Recorded, Foundation, IInv
      <4>2. IsFiniteSet(1..Len(events)) /\ W \in SUBSET (1..Len(events))
        BY <3>1, <4>1, FS_Interval DEF WhiteSet
      <4>3. IsFiniteSet(W)
        BY <4>2, FS_Subset
      <4>4. \A x \in 1..Len(events) : x \in Nat
        BY <4>1
      <4> QED
        BY <4>2, <4>3, <4>4
    <3>3. Enumerates(InOrder(W), W)
      BY <3>2, InOrderLists
    <3>4. Whites = InOrder(W)
      BY <3>1 DEF Whites, WhiteSet
    <3>5. PICK p : p = Whites
      OBVIOUS
    <3>6. Enumerates(p, W)
      BY <3>3, <3>4, <3>5
    <3>7. p \in Seq(W) /\ Len(p) \in Nat
      BY <3>2, <3>6, ListsOnce DEF Enumerates
    <3> QED
      BY <3>1, <3>5, <3>7
  <2>3. Len(Whites) # 0
    BY <2>2
  <2>4. 1 \in 1..Len(Whites)
    BY <2>2, <2>3
  <2>5. q[1] \in WhiteSet
    BY <2>1, <2>4 DEF Coloured
  <2>6. Len(events) \in Nat /\ e \in 2..Len(events)
    BY <1>1, <1>6, Elements DEF Recorded, Foundation, IInv
  <2>7. q[1] = e
    BY <1>4, <1>6, <2>6
  <2> QED
    BY <2>5, <2>7 DEF WhiteSet
<1> QED
  BY <1>1, <1>2, <1>4, <1>5, <1>6

(* The numbers of the events of S.                                         *)
Numbers(ids, S) == {ids[e] : e \in S}

(* What write_cuf writes, field by field.                                  *)
LEMMA WrittenEvents ==
  ASSUME Recorded, NEW f, f = Write, NEW q, q = FileOrder, NEW n, n = Len(events) - 1
  PROVE  /\ f.nwhite = Cardinality(WhiteSet) /\ f.ngray = Cardinality(GraySet)
         /\ DOMAIN f.events = 1..n /\ Len(f.events) = n
         /\ \A i \in 1..n : f.events[i] = TransIdx(events[q[i]].ft)
<1>1. n \in Nat /\ DOMAIN q = 1..n
  BY FileNumbers
<1>2. /\ f.nwhite = Len(Whites)
      /\ f.ngray = Len(events) - 1 - Len(Whites) - Len(Blacks)
  BY DEF Write
<1>3. Coloured(q)
  BY FileColoured
<1>4. Len(Whites) = Cardinality(WhiteSet) /\ Len(events) - 1 - Len(Whites) - Len(Blacks) = Cardinality(GraySet)
  BY <1>3 DEF Coloured
<1>5. PICK s : s = f.events
  OBVIOUS
<1>6. s = [i \in 1..n |-> TransIdx(events[q[i]].ft)]
  BY <1>1, <1>5 DEF Write
<1>7. DOMAIN s = 1..n /\ Len(s) = n
  <2>1. DOMAIN s = 1..n /\ s = [i \in 1..n |-> s[i]]
    BY <1>6
  <2> QED
    BY <1>1, <2>1, SeqLength
<1> QED
  BY <1>2, <1>4, <1>5, <1>6, <1>7

LEMMA WrittenConds ==
  ASSUME Recorded, NEW f, f = Write, NEW ids, ids = EventIds, NEW m, m = Len(conds)
  PROVE  /\ m \in Nat /\ DOMAIN conds = 1..m /\ DOMAIN f.conds = 1..m /\ Len(f.conds) = m
         /\ \A c \in 1..m : /\ f.conds[c].place = PlaceIdx(conds[c].fp)
                            /\ f.conds[c].pre = PreField(ids, c)
                            /\ f.conds[c].post = Listed(Numbers(ids, Consumers(c)))
                            /\ f.conds[c].cont = Listed(Numbers(ids, Readers(c)))
<1>1. m \in Nat /\ DOMAIN conds = 1..m
  BY Elements DEF Recorded, Foundation, IInv
<1>5. PICK s : s = f.conds
  OBVIOUS
<1>6. s = [c \in 1..m |->
            [place |-> PlaceIdx(conds[c].fp), pre |-> PreField(ids, c),
             post |-> Listed(Numbers(ids, Consumers(c))),
             cont |-> Listed(Numbers(ids, Readers(c)))]]
  BY <1>1, <1>5 DEF Write, Numbers
<1>7. DOMAIN s = 1..m /\ Len(s) = m
  <2>1. DOMAIN s = 1..m /\ s = [i \in 1..m |-> s[i]]
    BY <1>6
  <2> QED
    BY <1>1, <2>1, SeqLength
<1>8. \A c \in 1..m : /\ s[c].place = PlaceIdx(conds[c].fp)
                      /\ s[c].pre = PreField(ids, c)
                      /\ s[c].post = Listed(Numbers(ids, Consumers(c)))
                      /\ s[c].cont = Listed(Numbers(ids, Readers(c)))
  BY <1>6
<1> QED
  BY <1>1, <1>5, <1>7, <1>8

LEMMA WrittenNames ==
  ASSUME NEW f, f = Write
  PROVE  /\ f.numtr = Cardinality(net.trans) /\ f.numpl = Cardinality(net.places)
         /\ f.names = TransTable \o PlaceTable
BY DEF Write

(* The events the lists of a condition name.                               *)
LEMMA NamedEvents ==
  ASSUME Recorded, NEW ids, ids = EventIds, NEW n, n = Len(events) - 1, NEW c
  PROVE  /\ Consumers(c) \subseteq 2..Len(events) /\ Readers(c) \subseteq 2..Len(events)
         /\ Range(Listed(Numbers(ids, Consumers(c)))) = Numbers(ids, Consumers(c))
         /\ Range(Listed(Numbers(ids, Readers(c)))) = Numbers(ids, Readers(c))
         /\ Numbers(ids, Consumers(c)) \subseteq 0..n - 1
         /\ Numbers(ids, Readers(c)) \subseteq 0..n - 1
<1>1. /\ n \in Nat
      /\ \A e \in 2..Len(events) : ids[e] \in 0..n - 1
      /\ 1 \in DOMAIN events
  <2>1. PICK q : q = FileOrder
    OBVIOUS
  <2> QED
    BY <2>1, FileNumbers
<1>2. Len(events) \in Nat /\ DOMAIN events = 1..Len(events)
  BY Elements DEF Recorded, Foundation, IInv
<1>3. events[1].pre = {} /\ events[1].cont = {}
  BY <1>1, LabelFacts DEF Recorded, Foundation
<1>4. \A e \in DOMAIN events : e # 1 => e \in 2..Len(events)
  BY <1>2
<1>5. Consumers(c) \subseteq 2..Len(events) /\ Readers(c) \subseteq 2..Len(events)
  BY <1>3, <1>4 DEF Consumers, Readers
<1>6. PICK S, T : S = Numbers(ids, Consumers(c)) /\ T = Numbers(ids, Readers(c))
  OBVIOUS
<1>7. S \in SUBSET (0..n - 1) /\ T \in SUBSET (0..n - 1)
  BY <1>1, <1>5, <1>6 DEF Numbers
<1>8. Range(Listed(S)) = S
  BY <1>1, <1>7, NumbersListed
<1>9. Range(Listed(T)) = T
  BY <1>1, <1>7, NumbersListed
<1> QED
  BY <1>5, <1>6, <1>7, <1>8, <1>9

(* No index of the file is out of range.                                   *)
LEMMA FileInRange ==
  ASSUME Recorded, Whites # <<>>, NEW f, f = Write
  PROVE  InRange(f)
<1>1. PICK ids, q, n, m : ids = EventIds /\ q = FileOrder /\ n = Len(events) - 1 /\ m = Len(conds)
  OBVIOUS
<1>2. PICK nt, np : nt = Cardinality(net.trans) /\ np = Cardinality(net.places)
  OBVIOUS
<1>3. /\ n \in Nat
      /\ \A i \in 1..n : q[i] \in 2..Len(events)
      /\ \A e \in 2..Len(events) : ids[e] \in 0..n - 1
  BY <1>1, FileNumbers
<1>4. /\ nt \in Nat /\ np \in Nat
      /\ Len(TransTable \o PlaceTable) = nt + np
      /\ \A t \in net.trans : TransIdx(t) \in 0..nt - 1
      /\ \A p \in net.places : PlaceIdx(p) \in 0..np - 1
  BY <1>2, Tables
<1>5. /\ DOMAIN f.events = 1..n
      /\ \A i \in 1..n : f.events[i] = TransIdx(events[q[i]].ft)
  BY <1>1, WrittenEvents
<1>6. f.numtr = nt /\ f.numpl = np /\ f.names = TransTable \o PlaceTable
  BY <1>2, WrittenNames
<1>7. /\ DOMAIN f.conds = 1..m
      /\ \A c \in 1..m : /\ f.conds[c].place = PlaceIdx(conds[c].fp)
                         /\ f.conds[c].pre = PreField(ids, c)
                         /\ f.conds[c].post = Listed(Numbers(ids, Consumers(c)))
                         /\ f.conds[c].cont = Listed(Numbers(ids, Readers(c)))
      /\ DOMAIN conds = 1..m
  BY <1>1, WrittenConds
<1>8. Len(events) \in Nat /\ DOMAIN events = 1..Len(events)
  BY Elements DEF Recorded, Foundation, IInv
<1>9. ASSUME NEW i \in 1..n PROVE f.events[i] \in 0..f.numtr - 1
  <2>1. q[i] \in DOMAIN events /\ q[i] # 1
    BY <1>3, <1>8
  <2>2. events[q[i]].ft \in net.trans
    BY <2>1, LabelFacts DEF Recorded, Foundation
  <2> QED
    BY <1>4, <1>5, <1>6, <2>2
<1>10. ASSUME NEW c \in 1..m
       PROVE  /\ f.conds[c].place \in 0..f.numpl - 1
              /\ f.conds[c].pre # NoEvent => f.conds[c].pre + 1 \in 1..n
              /\ \A i \in Range(f.conds[c].post) \cup Range(f.conds[c].cont) : i + 1 \in 1..n
  <2>1. c \in DOMAIN conds
    BY <1>7
  <2>2. conds[c].fp \in net.places
    BY <2>1, Elements DEF Recorded, Foundation, IInv, CondType
  <2>3. f.conds[c].place \in 0..f.numpl - 1
    BY <1>4, <1>6, <1>7, <2>2
  <2>4. PICK e : e = conds[c].pre
    OBVIOUS
  <2>5. /\ e \in DOMAIN events
        /\ e = 1 => PreField(ids, c) = NoEvent
        /\ e # 1 => PreField(ids, c) = ids[e]
    BY <1>1, <2>1, <2>4, PreFields
  <2>6. e # 1 => e \in 2..Len(events)
    BY <1>8, <2>5
  <2>7. f.conds[c].pre # NoEvent => f.conds[c].pre \in 0..n - 1
    BY <1>3, <1>7, <2>5, <2>6
  <2>8. \A i \in Range(f.conds[c].post) \cup Range(f.conds[c].cont) : i \in 0..n - 1
    <3>1. /\ Range(Listed(Numbers(ids, Consumers(c)))) = Numbers(ids, Consumers(c))
          /\ Range(Listed(Numbers(ids, Readers(c)))) = Numbers(ids, Readers(c))
          /\ Numbers(ids, Consumers(c)) \subseteq 0..n - 1
          /\ Numbers(ids, Readers(c)) \subseteq 0..n - 1
      BY <1>1, NamedEvents
    <3> QED
      BY <1>7, <3>1
  <2>9. \A i \in 0..n - 1 : i + 1 \in 1..n
    BY <1>3
  <2> QED
    BY <2>3, <2>7, <2>8, <2>9
<1>11. Len(f.names) = f.numtr + f.numpl
  BY <1>4, <1>6
<1> QED
  BY <1>5, <1>7, <1>9, <1>10, <1>11 DEF InRange

(* What the reader makes of the events.                                    *)
LEMMA ReadEvents ==
  ASSUME Recorded, NEW f, f = Write, NEW r, r = ReadCuf(f), NEW ids, ids = EventIds,
         NEW e \in 2..Len(events)
  PROVE  /\ r.events[ids[e]].label = events[e].ft
         /\ r.events[ids[e]].colour =
              IF Kept(e) = {} THEN "black"
              ELSE IF Kept(e) = {h \in DOMAIN hists : hists[h].e = e} THEN "white" ELSE "gray"
<1>1. PICK q, n, i, w, g : /\ q = FileOrder /\ n = Len(events) - 1 /\ i = ids[e]
                           /\ w = Cardinality(WhiteSet) /\ g = Cardinality(GraySet)
  OBVIOUS
<1>2. n \in Nat /\ i \in 0..n - 1 /\ q[i + 1] = e /\ Len(q) = n
  BY <1>1, FileNumbers
<1>3. /\ f.nwhite = w /\ f.ngray = g /\ Len(f.events) = n
      /\ \A k \in 1..n : f.events[k] = TransIdx(events[q[k]].ft)
  BY <1>1, WrittenEvents
<1>4. e \in DOMAIN events /\ e # 1
  <2>1. TypeOK
    BY DEF Recorded, Foundation, IInv
  <2>2. DOMAIN events = 1..Len(events) /\ Len(events) \in Nat
    BY <2>1, Elements
  <2> QED
    BY <2>2
<1>5. events[e].ft \in net.trans
  BY <1>4, LabelFacts DEF Recorded, Foundation
<1>6. f.events[i + 1] = TransIdx(events[e].ft)
  <2>1. i + 1 \in 1..n
    BY <1>2
  <2> QED
    BY <1>2, <1>3, <2>1
<1>7. r.events[i] = [label |-> f.names[f.events[i + 1] + 1],
                     colour |-> IF i < w THEN "white" ELSE IF i < w + g THEN "gray" ELSE "black"]
  BY <1>2, <1>3 DEF ReadCuf
<1>8. f.names[f.events[i + 1] + 1] = events[e].ft
  <2>1. PICK nt, np : nt = Cardinality(net.trans) /\ np = Cardinality(net.places)
    OBVIOUS
  <2>2. f.names = TransTable \o PlaceTable
    BY WrittenNames
  <2>3. (TransTable \o PlaceTable)[TransIdx(events[e].ft) + 1] = events[e].ft
    BY <1>5, <2>1, Tables
  <2> QED
    BY <1>6, <2>2, <2>3
<1>9. Coloured(q)
  BY <1>1, FileColoured
<1>10. /\ w \in Nat /\ g \in Nat
       /\ \A k \in 1..w : q[k] \in WhiteSet
       /\ \A k \in w + 1..w + g : q[k] \in GraySet
       /\ \A k \in w + g + 1..n : q[k] \in BlackSet
  BY <1>1, <1>2, <1>9 DEF Coloured
<1>11. CASE i < w
  <2>1. i + 1 \in 1..w
    BY <1>2, <1>10, <1>11
  <2>2. White(e)
    BY <1>2, <1>10, <2>1 DEF WhiteSet
  <2> QED
    BY <1>1, <1>4, <1>7, <1>8, <1>11, <2>2, Colours
<1>12. CASE ~ (i < w) /\ i < w + g
  <2>1. i + 1 \in w + 1..w + g
    BY <1>2, <1>10, <1>12
  <2>2. ~ White(e) /\ ~ events[e].iscutoff
    BY <1>2, <1>10, <2>1 DEF GraySet
  <2> QED
    BY <1>1, <1>4, <1>7, <1>8, <1>12, <2>2, Colours
<1>13. CASE ~ (i < w) /\ ~ (i < w + g)
  <2>1. i + 1 \in w + g + 1..n
    BY <1>2, <1>10, <1>13
  <2>2. events[e].iscutoff
    BY <1>2, <1>10, <2>1 DEF BlackSet
  <2> QED
    BY <1>1, <1>4, <1>7, <1>8, <1>13, <2>2, Colours
<1> QED
  BY <1>11, <1>12, <1>13

(* And of the conditions.                                                  *)
ReadAs(z, f) ==
  [label |-> f.names[f.numtr + z.place + 1],
   pre   |-> {z.pre} \ {NoEvent},
   post  |-> Range(z.post),
   cont  |-> Range(z.cont)]

LEMMA ReadConds ==
  ASSUME Recorded, Whites # <<>>, NEW f, f = Write, NEW r, r = ReadCuf(f),
         NEW ids, ids = EventIds, NEW c \in DOMAIN conds
  PROVE  r.conds[c - 1] = [label |-> conds[c].fp,
                           pre   |-> Numbers(ids, {conds[c].pre} \ {1}),
                           post  |-> Numbers(ids, Consumers(c)),
                           cont  |-> Numbers(ids, Readers(c))]
<1>1. PICK m, n : m = Len(conds) /\ n = Len(events) - 1
  OBVIOUS
<1>2. /\ m \in Nat /\ c \in 1..m /\ Len(f.conds) = m
      /\ f.conds[c].place = PlaceIdx(conds[c].fp)
      /\ f.conds[c].pre = PreField(ids, c)
      /\ f.conds[c].post = Listed(Numbers(ids, Consumers(c)))
      /\ f.conds[c].cont = Listed(Numbers(ids, Readers(c)))
  BY <1>1, WrittenConds
<1>3. c - 1 \in 0..m - 1 /\ (c - 1) + 1 = c
  BY <1>2
<1>4. r.conds[c - 1] = [label |-> f.names[f.numtr + f.conds[c].place + 1],
                        pre   |-> {f.conds[c].pre} \ {NoEvent},
                        post  |-> Range(f.conds[c].post),
                        cont  |-> Range(f.conds[c].cont)]
  <2>1. r.conds = [k \in 0..m - 1 |-> ReadAs(f.conds[k + 1], f)]
    BY <1>2 DEF ReadCuf, ReadAs
  <2>2. PICK k : k = c - 1
    OBVIOUS
  <2>3. k \in 0..m - 1 /\ k + 1 = c
    BY <1>3, <2>2
  <2>4. r.conds[k] = ReadAs(f.conds[k + 1], f)
    BY <2>1, <2>3
  <2>5. r.conds[c - 1] = ReadAs(f.conds[c], f)
    BY <2>2, <2>3, <2>4
  <2> QED
    BY <2>5 DEF ReadAs
<1>5. f.names[f.numtr + f.conds[c].place + 1] = conds[c].fp
  <2>1. PICK nt, np : nt = Cardinality(net.trans) /\ np = Cardinality(net.places)
    OBVIOUS
  <2>2. f.names = TransTable \o PlaceTable /\ f.numtr = nt
    BY <2>1, WrittenNames
  <2>3. conds[c].fp \in net.places
    BY Elements DEF Recorded, Foundation, IInv, CondType
  <2>4. (TransTable \o PlaceTable)[nt + PlaceIdx(conds[c].fp) + 1] = conds[c].fp
    BY <2>1, <2>3, Tables
  <2> QED
    BY <1>2, <2>2, <2>4
<1>6. {f.conds[c].pre} \ {NoEvent} = Numbers(ids, {conds[c].pre} \ {1})
  <2>1. PICK x, y : x = conds[c].pre /\ y = f.conds[c].pre
    OBVIOUS
  <2>2. /\ x \in DOMAIN events
        /\ x = 1 => y = NoEvent
        /\ x # 1 => y = ids[x]
    BY <1>2, <2>1, PreFields
  <2>3. x # 1 => x \in 2..Len(events)
    BY <2>2, Elements DEF Recorded, Foundation, IInv
  <2>4. n \in Nat /\ \A e \in 2..Len(events) : ids[e] \in 0..n - 1
    <3>1. PICK q : q = FileOrder
      OBVIOUS
    <3> QED
      BY <1>1, <3>1, FileNumbers
  <2>5. x # 1 => y # NoEvent
    BY <2>2, <2>3, <2>4 DEF NoEvent
  <2>6. {y} \ {NoEvent} = Numbers(ids, {x} \ {1})
    <3>1. CASE x = 1
      BY <2>2, <3>1 DEF Numbers
    <3>2. CASE x # 1
      BY <2>2, <2>5, <3>2 DEF Numbers
    <3> QED
      BY <3>1, <3>2
  <2> QED
    BY <2>1, <2>6
<1>7. /\ Range(Listed(Numbers(ids, Consumers(c)))) = Numbers(ids, Consumers(c))
      /\ Range(Listed(Numbers(ids, Readers(c)))) = Numbers(ids, Readers(c))
  BY <1>1, NamedEvents
<1>8. Range(f.conds[c].post) = Numbers(ids, Consumers(c))
  BY <1>2, <1>7
<1>9. Range(f.conds[c].cont) = Numbers(ids, Readers(c))
  BY <1>2, <1>7
<1> QED
  BY <1>4, <1>5, <1>6, <1>8, <1>9

(* What write_cuf writes is read back as the prefix: with at least one     *)
(* white event every index is in range, the events and the conditions read *)
(* are those of the prefix under one renumbering, with their labels, their *)
(* flow and their context, and the colours say which histories were kept   *)
(* (write_cuf of output.c and __read_cuf3 of unfolding.py).                *)
THEOREM FileHoldsPrefix == Spec => []RoundTrip
<1>1. Recorded => RoundTrip
  <2> SUFFICES ASSUME Recorded, Whites # <<>> PROVE RoundTrip
    BY DEF RoundTrip
  <2>1. PICK f, ids : f = Write /\ ids = EventIds
    OBVIOUS
  <2>2. PICK r, n, q : r = ReadCuf(f) /\ n = Len(events) - 1 /\ q = FileOrder
    OBVIOUS
  <2>3. PICK E : E = 2..Len(events)
    OBVIOUS
  <2>4. PICK id : id = [e \in E |-> ids[e]]
    OBVIOUS
  <2>5. InRange(f)
    BY <2>1, FileInRange
  <2>6. /\ n \in Nat /\ Len(events) \in Nat /\ n = Len(events) - 1 /\ Len(events) # 0
        /\ \A i \in 1..n : q[i] \in E /\ ids[q[i]] = i - 1
        /\ \A e \in E : ids[e] \in 0..n - 1
        /\ DOMAIN events = 1..Len(events)
    <3>1. /\ n \in Nat
          /\ \A i \in 1..n : q[i] \in 2..Len(events) /\ ids[q[i]] = i - 1
          /\ \A e \in 2..Len(events) : ids[e] \in 0..n - 1
          /\ 1 \in DOMAIN events
      BY <2>1, <2>2, FileNumbers
    <3>2. Len(events) \in Nat /\ DOMAIN events = 1..Len(events)
      BY Elements DEF Recorded, Foundation, IInv
    <3> QED
      BY <2>2, <2>3, <3>1, <3>2
  <2>7. Len(f.events) = n
    BY <2>1, <2>2, WrittenEvents
  <2>8. DOMAIN r.events = 0..n - 1
    BY <2>2, <2>7 DEF ReadCuf
  <2>9. {id[e] : e \in E} = 0..n - 1
    <3>1. ASSUME NEW k \in 0..n - 1 PROVE \E e \in E : id[e] = k
      <4>1. k + 1 \in 1..n /\ (k + 1) - 1 = k
        BY <2>6
      <4>2. q[k + 1] \in E /\ ids[q[k + 1]] = k
        BY <2>6, <4>1
      <4> QED
        BY <2>4, <4>2
    <3>2. \A e \in E : id[e] \in 0..n - 1
      BY <2>4, <2>6
    <3> QED
      BY <3>1, <3>2
  <2>10. Cardinality(E) = n
    <3>1. Cardinality(2..Len(events)) = Len(events) - 2 + 1
      BY <2>6, FS_Interval
    <3> QED
      BY <2>3, <2>6, <3>1
  <2>11. ASSUME NEW e \in E
         PROVE  /\ r.events[id[e]].label = events[e].ft
                /\ r.events[id[e]].colour =
                     IF Kept(e) = {} THEN "black"
                     ELSE IF Kept(e) = {h \in DOMAIN hists : hists[h].e = e} THEN "white" ELSE "gray"
    <3>1. /\ r.events[ids[e]].label = events[e].ft
          /\ r.events[ids[e]].colour =
               IF Kept(e) = {} THEN "black"
               ELSE IF Kept(e) = {h \in DOMAIN hists : hists[h].e = e} THEN "white" ELSE "gray"
      BY <2>1, <2>2, <2>3, ReadEvents
    <3>2. id[e] = ids[e]
      BY <2>4
    <3> QED
      BY <3>1, <3>2
  <2>12. DOMAIN r.conds = {c - 1 : c \in DOMAIN conds}
    <3>1. PICK m : m = Len(conds)
      OBVIOUS
    <3>2. m \in Nat /\ DOMAIN conds = 1..m /\ Len(f.conds) = m
      BY <2>1, <3>1, WrittenConds
    <3>3. DOMAIN r.conds = 0..m - 1
      BY <2>2, <3>2 DEF ReadCuf
    <3>4. \A k \in 0..m - 1 : k + 1 \in 1..m /\ (k + 1) - 1 = k
      BY <3>2
    <3>5. \A c \in 1..m : c - 1 \in 0..m - 1
      BY <3>2
    <3>6. {c - 1 : c \in 1..m} = 0..m - 1
      BY <3>4, <3>5
    <3> QED
      BY <3>2, <3>3, <3>6
  <2>13. ASSUME NEW c \in DOMAIN conds
         PROVE  r.conds[c - 1] = [label |-> conds[c].fp,
                                  pre   |-> {id[e] : e \in {conds[c].pre} \ {1}},
                                  post  |-> {id[e] : e \in Consumers(c)},
                                  cont  |-> {id[e] : e \in Readers(c)}]
    <3>1. r.conds[c - 1] = [label |-> conds[c].fp,
                            pre   |-> Numbers(ids, {conds[c].pre} \ {1}),
                            post  |-> Numbers(ids, Consumers(c)),
                            cont  |-> Numbers(ids, Readers(c))]
      BY <2>1, <2>2, ReadConds
    <3>2. Consumers(c) \subseteq E /\ Readers(c) \subseteq E
      BY <2>1, <2>2, <2>3, NamedEvents
    <3>3. {conds[c].pre} \ {1} \subseteq E
      <4>1. conds[c].pre \in DOMAIN events
        BY Elements DEF Recorded, Foundation, IInv, CondType
      <4> QED
        BY <2>3, <2>6, <4>1
    <3>4. {id[e] : e \in {conds[c].pre} \ {1}} = Numbers(ids, {conds[c].pre} \ {1})
      BY <2>4, <3>3 DEF Numbers
    <3>5. {id[e] : e \in Consumers(c)} = Numbers(ids, Consumers(c))
      BY <2>4, <3>2 DEF Numbers
    <3>6. {id[e] : e \in Readers(c)} = Numbers(ids, Readers(c))
      BY <2>4, <3>2 DEF Numbers
    <3> QED
      BY <3>1, <3>4, <3>5, <3>6
  <2>14. {id[e] : e \in E} = DOMAIN r.events /\ Cardinality(E) = Len(f.events)
    BY <2>7, <2>8, <2>9, <2>10
  <2>15. Held(f, r, id)
    BY <2>3, <2>5, <2>11, <2>12, <2>13, <2>14 DEF Held
  <2> QED
    <3>1. id = [e \in 2..Len(events) |-> ids[e]]
      BY <2>3, <2>4
    <3>2. Held(Write, ReadCuf(Write), [e \in 2..Len(events) |-> EventIds[e]])
      BY <2>1, <2>2, <2>15, <3>1
    <3> QED
      BY <3>2 DEF RoundTrip
<1> QED
  BY <1>1, RecordedAlways, PTL

-----------------------------------------------------------------------------
(* Completeness.                                                           *)

(* Where the order may hold different histories for equal, a cutoff is     *)
(* greater than its corresponding history, whoever picks the histories.    *)
CutoffsGreater ==
  ~ HasTotalOrder(opt.order) =>
    \A h \in DOMAIN hists : hists[h].corr \notin {0, h} =>
      hists[h].corr \in DOMAIN hists /\ Cmp(hists, hists[h].corr, h) < 0

LEMMA CutoffsGreaterNext ==
  ASSUME IInv, CutoffsGreater, [Next]_vars
  PROVE  CutoffsGreater'
<1>0. opt' = opt
  BY PrefixStable
<1> SUFFICES ASSUME ~ HasTotalOrder(opt.order), NEW x \in DOMAIN hists', hists'[x].corr \notin {0, x}
             PROVE  hists'[x].corr \in DOMAIN hists' /\ Cmp(hists, hists[x].corr, x)' < 0
  BY <1>0 DEF CutoffsGreater
<1>1. PICK g : g = hists'[x].corr
  OBVIOUS
<1> SUFFICES g \in DOMAIN hists' /\ Cmp(hists, g, x)' < 0
  BY <1>1
<1>2. ASSUME x \in DOMAIN hists, g \in DOMAIN hists, Cmp(hists, g, x) < 0
      PROVE  g \in DOMAIN hists' /\ Cmp(hists, g, x)' < 0
  BY <1>2, PrefixStable, CmpStable
<1>3. CASE x \in DOMAIN hists /\ hists[x].corr = g
  BY <1>1, <1>2, <1>3 DEF CutoffsGreater
<1>4. CASE UNCHANGED hists
  BY <1>1, <1>3, <1>4
<1>5. ASSUME NEW s \in sols, Solve(s) PROVE g \in DOMAIN hists' /\ Cmp(hists, g, x)' < 0
  <2>0. PICK id : id = Len(hists) + 1
    OBVIOUS
  <2>1. /\ DOMAIN hists' = DOMAIN hists \cup {id}
        /\ \A y \in DOMAIN hists : hists'[y] = hists[y]
        /\ hists'[id] = NewHistory(events', EventOf(s), Nod(s), Ecl(s))
    BY <1>5, <2>0, SolveFrame
  <2>2. hists'[id].corr = id
    BY <2>0, <2>1 DEF NewHistory
  <2> QED
    BY <1>1, <1>3, <2>1, <2>2
<1>6. ASSUME NEW h \in queue, Pops(h) PROVE g \in DOMAIN hists' /\ Cmp(hists, g, x)' < 0
  <2>1. /\ h \in DOMAIN hists /\ DOMAIN hists' = DOMAIN hists
        /\ \A y \in DOMAIN hists \ {h} : hists'[y] = hists[y]
    BY <1>6, AddHists DEF Pops
  <2>2. /\ IsCutoff(h) => hists'[h].corr = Corresponding(h)
        /\ ~ IsCutoff(h) => hists'[h].corr = 0
    BY <1>6, AddHists DEF Pops
  <2>3. CASE x # h
    BY <1>1, <1>3, <2>1, <2>3
  <2>4. CASE x = h
    <3>1. IsCutoff(h) /\ g = Corresponding(h)
      BY <1>1, <2>2, <2>4
    <3>2. Cmp(hists, Corresponding(h), h) < 0
      BY <3>1 DEF IsCutoff
    <3>3. Corresponding(h) \in DOMAIN hists
      BY <2>1, <3>1, CorrespondingFacts
    <3> QED
      BY <1>2, <2>1, <2>4, <3>1, <3>2, <3>3
  <2> QED
    BY <2>3, <2>4
<1> QED
  BY <1>4, <1>5, <1>6, StepCases, StillFrame, EnrichesFrame

LEMMA CutoffsGreaterAlways == Spec => []CutoffsGreater
<1>1. Init => CutoffsGreater
  <2> SUFFICES ASSUME Init PROVE CutoffsGreater
    OBVIOUS
  <2>1. DOMAIN hists = {1} /\ hists[1].corr = 0
    BY DEF Init
  <2> QED
    BY <2>1 DEF CutoffsGreater
<1>2. IInv /\ CutoffsGreater /\ [Next]_vars => CutoffsGreater'
  BY CutoffsGreaterNext
<1> QED
  BY <1>1, <1>2, Invariant, PTL DEF Spec

(* McMillan's order compares the sizes alone.                              *)
BySizeAlone == opt.order \in {"mcm", "none"}

LEMMA CutoffLarger ==
  ASSUME IInv, CutoffsGreater, BySizeAlone, NEW h \in DOMAIN hists, hists[h].corr \notin {0, h}
  PROVE  /\ hists[h].corr \in DOMAIN hists
         /\ Cardinality(hists[hists[h].corr].past) < Cardinality(hists[h].past)
<1>1. PICK g : g = hists[h].corr
  OBVIOUS
<1>2. g \in DOMAIN hists /\ Cmp(hists, g, h) < 0
  BY <1>1 DEF CutoffsGreater, BySizeAlone, HasTotalOrder
<1>3. PICK m, n : m = Cardinality(hists[g].past) /\ n = Cardinality(hists[h].past)
  OBVIOUS
<1>4. m \in Nat /\ n \in Nat
  BY <1>2, <1>3, CmpSizes DEF BySize, IInv
<1>5. Cmp(hists, g, h) = IF m # n THEN m - n ELSE 0
  BY <1>3 DEF Cmp, HCmp, BySizeAlone
<1> QED
  BY <1>1, <1>2, <1>3, <1>4, <1>5

-----------------------------------------------------------------------------
(* The search: nothing that a transition could occur on is forgotten.      *)

(* One enriched condition for each place that t consumes or reads, which   *)
(* pass the tests of _pe_comb_init and _pe_comb_explore.                   *)
Arcs(t) == net.pre[t] \cup net.cont[t]

Passes(t, f) ==
  /\ \A p \in Arcs(t) : Place(f[p]) = p /\ (p \in net.cont[t] => IsGen(f[p]))
  /\ \A p, q \in Arcs(t) : p # q => Joint(t, f[p], f[q])

Solution(t, f) == [t |-> t, at |-> f]

OccursOn(t, f) ==
  \E h \in DOMAIN hists : /\ hists[h].ecl = {f[p] : p \in Arcs(t)}
                          /\ events[hists[h].e].ft = t

Explored ==
  \A t \in net.trans : \A f \in [Arcs(t) -> DOMAIN ecs] :
    Passes(t, f) => Solution(t, f) \in sols \/ OccursOn(t, f)

(* With the newest enriched condition the search finds all of them.        *)
SearchComplete ==
  \A t \in net.trans : \A f \in [Arcs(t) -> DOMAIN ecs] :
    Passes(t, f) /\ (\E p \in Arcs(t) : f[p] = Newest) => Solution(t, f) \in Extensions

LEMMA SearchIsComplete == SearchComplete
<1> SUFFICES ASSUME NEW t \in net.trans, NEW f \in [Arcs(t) -> DOMAIN ecs], Passes(t, f),
                    NEW p \in Arcs(t), f[p] = Newest
             PROVE  Solution(t, f) \in Extensions
  BY DEF SearchComplete
<1>1. Place(Newest) = p /\ (p \in net.cont[t] => IsGen(Newest))
  BY DEF Passes
<1> DEFINE near == {x \in DOMAIN ecs : Place(x) \in Arcs(t) \ {Place(Newest)} /\ Joint(t, Newest, x)
                                        /\ (Place(x) \in net.cont[t] => IsGen(x))}
<1>2. ASSUME NEW q \in Arcs(t) PROVE f[q] \in near \cup {Newest}
  <2>1. CASE q = p
    BY <2>1
  <2>2. CASE q # p
    <3>1. f[q] \in DOMAIN ecs /\ Place(f[q]) = q /\ (q \in net.cont[t] => IsGen(f[q]))
      BY DEF Passes
    <3>2. Joint(t, f[p], f[q])
      BY <2>2 DEF Passes
    <3>3. Joint(t, Newest, f[q])
      BY <3>2
    <3> QED
      BY <1>1, <2>2, <3>1, <3>3
  <2> QED
    BY <2>1, <2>2
<1>3. f \in [Arcs(t) -> near \cup {Newest}]
  <2> HIDE DEF near
  <2> QED
    BY <1>2
<1>4. f \in Combs(t, Newest)
  BY <1>3 DEF Combs, Passes, Arcs
<1>5. p \in net.pre[t] \cup (IF IsGen(Newest) THEN net.cont[t] ELSE {})
  BY <1>1 DEF Arcs
<1> QED
  BY <1>1, <1>4, <1>5 DEF Extensions, Solution

LEMMA SearchCompleteNext == SearchComplete'
BY SearchIsComplete, PTL

(* What was there before a step passes after it only if it did before.     *)
LEMMA PassesStable ==
  ASSUME IInv, Grows, net' = net, NEW t \in net.trans, NEW f \in [Arcs(t) -> DOMAIN ecs],
         \A x, y \in DOMAIN ecs : /\ <<x, y>> \in co' => <<x, y>> \in co
                                  /\ <<x, y>> \in dir' => <<x, y>> \in dir,
         Passes(t, f)'
  PROVE  Passes(t, f)
<1>1. \A r \in DOMAIN ecs : Place(r)' = Place(r)
  BY Elements DEF IInv, EcType, Grows, Place
<1>2. Arcs(t)' = Arcs(t)
  BY DEF Arcs
<1>3. ASSUME NEW p \in Arcs(t) PROVE Place(f[p]) = p /\ (p \in net.cont[t] => IsGen(f[p]))
  <2>1. PICK r : r = f[p]
    OBVIOUS
  <2>2. r \in DOMAIN ecs
    BY <2>1
  <2>3. Place(r)' = p /\ (p \in net.cont[t] => IsGen(r)')
    BY <1>2, <2>1 DEF Passes
  <2>4. IsGen(r)' <=> IsGen(r)
    BY <2>2, IsGenStable
  <2> QED
    BY <1>1, <2>1, <2>2, <2>3, <2>4
<1>4. ASSUME NEW p \in Arcs(t), NEW q \in Arcs(t), p # q PROVE Joint(t, f[p], f[q])
  <2>1. PICK r, x : r = f[p] /\ x = f[q]
    OBVIOUS
  <2>2. r \in DOMAIN ecs /\ x \in DOMAIN ecs
    BY <2>1
  <2>3. Joint(t, r, x)'
    BY <1>2, <1>4, <2>1 DEF Passes
  <2>4. Place(r)' = Place(r) /\ Place(x)' = Place(x)
    BY <1>1, <2>2
  <2>5. Joint(t, r, x)
    BY <2>2, <2>3, <2>4 DEF Joint
  <2> QED
    BY <2>1, <2>5
<1> QED
  BY <1>3, <1>4 DEF Passes

LEMMA OccursOnStable ==
  ASSUME IInv, [Next]_vars, NEW t, NEW f, OccursOn(t, f)
  PROVE  OccursOn(t, f)'
<1>1. PICK h \in DOMAIN hists : /\ hists[h].ecl = {f[p] : p \in Arcs(t)}
                                /\ events[hists[h].e].ft = t
  BY DEF OccursOn
<1>2. hists[h].e \in DOMAIN events
  BY Elements DEF IInv, HistType
<1>3. Grows
  BY StepGrows
<1>4. h \in DOMAIN hists' /\ hists'[h].ecl = hists[h].ecl /\ hists'[h].e = hists[h].e
  BY <1>3 DEF Grows
<1>5. events'[hists[h].e].ft = events[hists[h].e].ft /\ net' = net
  BY <1>2, PrefixStable
<1>6. Arcs(t)' = Arcs(t)
  BY <1>5 DEF Arcs
<1> QED
  BY <1>1, <1>4, <1>5, <1>6 DEF OccursOn

LEMMA ExploredNew ==
  ASSUME IInv, Explored, sols = {}, [Next]_vars, NEW ec, Enriches(ec),
         \A x, y \in DOMAIN ecs : /\ <<x, y>> \in co' => <<x, y>> \in co
                                  /\ <<x, y>> \in dir' => <<x, y>> \in dir
  PROVE  Explored'
<1>1. /\ net' = net /\ sols' = Extensions' /\ Grows
      /\ DOMAIN ecs' = DOMAIN ecs \cup {Newest'}
  BY EnrichesFrame, StepGrows
<1> SUFFICES ASSUME NEW t \in net.trans, NEW f \in [Arcs(t)' -> DOMAIN ecs'], Passes(t, f)'
             PROVE  Solution(t, f) \in sols' \/ OccursOn(t, f)'
  BY <1>1 DEF Explored, Solution
<1>2. Arcs(t)' = Arcs(t)
  BY <1>1 DEF Arcs
<1>3. CASE \E p \in Arcs(t)' : f[p] = Newest'
  <2>1. Solution(t, f)' \in Extensions'
    BY <1>1, <1>3, SearchCompleteNext DEF SearchComplete
  <2> QED
    BY <1>1, <2>1 DEF Solution
<1>4. CASE \A p \in Arcs(t) : f[p] # Newest'
  <2>1. f \in [Arcs(t) -> DOMAIN ecs]
    BY <1>1, <1>2, <1>4
  <2>2. Passes(t, f)
    BY <1>1, <2>1, PassesStable
  <2>3. OccursOn(t, f)
    BY <2>1, <2>2 DEF Explored
  <2> QED
    BY <2>3, OccursOnStable
<1> QED
  BY <1>2, <1>3, <1>4

LEMMA ExploredKept ==
  ASSUME IInv, Explored, [Next]_vars, UNCHANGED <<net, ecs, co, dir>>,
         \A s \in sols : s \in sols' \/ OccursOn(s.t, s.at)'
  PROVE  Explored'
<1>1. Grows
  BY StepGrows
<1> SUFFICES ASSUME NEW t \in net.trans, NEW f \in [Arcs(t)' -> DOMAIN ecs], Passes(t, f)'
             PROVE  Solution(t, f) \in sols' \/ OccursOn(t, f)'
  BY DEF Explored, Solution
<1>2. Arcs(t)' = Arcs(t)
  BY DEF Arcs
<1>3. f \in [Arcs(t) -> DOMAIN ecs]
  BY <1>2
<1>4. Passes(t, f)
  BY <1>1, <1>3, PassesStable
<1>5. CASE OccursOn(t, f)
  BY <1>5, OccursOnStable
<1>6. CASE Solution(t, f) \in sols
  BY <1>6 DEF Solution
<1> QED
  BY <1>3, <1>4, <1>5, <1>6 DEF Explored

LEMMA ExploredSolve ==
  ASSUME IInv, Searching, Labelled, Explored, [Next]_vars, NEW s \in sols, Solve(s)
  PROVE  Explored'
<1>1. UNCHANGED <<net, ecs, co, dir>> /\ sols' = sols \ {s}
  BY DEF Solve, enrich, input
<1>2. PICK id : id = Len(hists) + 1
  OBVIOUS
<1>3. id \in DOMAIN hists' /\ hists'[id] = NewHistory(events', EventOf(s), Nod(s), Ecl(s))
  BY <1>2, SolveFrame
<1>4. hists'[id].ecl = Ecl(s) /\ hists'[id].e = EventOf(s)
  BY <1>3 DEF NewHistory
<1>5. events'[EventOf(s)].ft = s.t
  BY EventChosen
<1>6. DOMAIN s.at = Arcs(s.t)
  BY DEF IInv, TypeOK, Arcs
<1>7. Arcs(s.t)' = Arcs(s.t)
  BY <1>1 DEF Arcs
<1>8. hists'[id].ecl = {s.at[p] : p \in Arcs(s.t)}
  BY <1>4, <1>6 DEF Ecl
<1>9. OccursOn(s.t, s.at)'
  BY <1>3, <1>4, <1>5, <1>7, <1>8 DEF OccursOn
<1> QED
  BY <1>1, <1>9, ExploredKept

LEMMA ExploredNext ==
  ASSUME IInv, Searching, Labelled, Explored, [Next]_vars
  PROVE  Explored'
<1>1. CASE Still
  BY <1>1, StillFrame, ExploredKept
<1>2. ASSUME NEW c \in gens, Generate(c), ~ Still PROVE Explored'
  <2>1. PICK ec : ec = EcOf(c, cur)
    OBVIOUS
  <2>2. Enriches(ec) /\ Enrich(c, cur)
    BY <1>2, <2>1, GenerateCases
  <2>3. Newest + 1 \notin DOMAIN ecs
    BY <2>2, EnrichesFrame
  <2>4. \A x, y \in DOMAIN ecs : /\ <<x, y>> \in co' => <<x, y>> \in co
                                 /\ <<x, y>> \in dir' => <<x, y>> \in dir
    BY <2>2, <2>3 DEF Enrich, Both
  <2>5. sols = {}
    BY <1>2 DEF Generate
  <2> QED
    BY <2>2, <2>4, <2>5, ExploredNew
<1>3. ASSUME NEW c \in reads, Read(c), ~ Still PROVE Explored'
  <2>1. PICK ec : ec = EcOf(c, cur)
    OBVIOUS
  <2>2. Enriches(ec) /\ Enrich(c, cur)
    BY <1>3, <2>1, ReadCases
  <2>3. Newest + 1 \notin DOMAIN ecs
    BY <2>2, EnrichesFrame
  <2>4. \A x, y \in DOMAIN ecs : /\ <<x, y>> \in co' => <<x, y>> \in co
                                 /\ <<x, y>> \in dir' => <<x, y>> \in dir
    BY <2>2, <2>3 DEF Enrich, Both
  <2>5. sols = {}
    BY <1>3 DEF Read
  <2> QED
    BY <2>2, <2>4, <2>5, ExploredNew
<1>4. ASSUME NEW rp \in combine, Combine(rp) PROVE Explored'
  <2>1. PICK ec : ec = EcCompound(reader, rp)
    OBVIOUS
  <2>2. Enriches(ec) /\ EnrichCompound(reader, rp)
    BY <1>4, <2>1, CombineCases
  <2>3. Newest + 1 \notin DOMAIN ecs
    BY <2>2, EnrichesFrame
  <2>4. \A x, y \in DOMAIN ecs : /\ <<x, y>> \in co' => <<x, y>> \in co
                                 /\ <<x, y>> \in dir' => <<x, y>> \in dir
    BY <2>2, <2>3 DEF EnrichCompound, Both
  <2>5. sols = {}
    BY <1>4 DEF Combine
  <2> QED
    BY <2>2, <2>4, <2>5, ExploredNew
<1>5. ASSUME NEW s \in sols, Solve(s) PROVE Explored'
  BY <1>5, ExploredSolve
<1>6. ASSUME NEW h \in queue, Pop(h) \/ Pick(h) PROVE Explored'
  <2>1. UNCHANGED <<net, ecs, co, dir, sols>>
    BY <1>6 DEF Pop, Pick, Add, enrich, input
  <2> QED
    BY <2>1, ExploredKept
<1>7. CASE Quit \/ UNCHANGED vars
  BY <1>1, <1>7 DEF Quit, vars, Still
<1> QED
  BY <1>1, <1>2, <1>3, <1>4, <1>5, <1>6, <1>7 DEF Next

LEMMA ExploredAlways == Spec => []Explored
<1>1. Init => Explored
  <2> SUFFICES ASSUME Init, NEW t \in net.trans, NEW f \in [Arcs(t) -> DOMAIN ecs] PROVE FALSE
    BY DEF Explored
  <2>1. net.pre[t] # {}
    <3>1. Consuming(net)
      BY NetsAssumption DEF Init
    <3> QED
      BY <3>1 DEF Consuming
  <2>2. DOMAIN ecs = {}
    BY DEF Init
  <2> QED
    BY <2>1, <2>2 DEF Arcs
<1>2. IInv /\ Searching /\ Labelled /\ Explored /\ [Next]_vars => Explored'
  BY ExploredNext
<1> QED
  BY <1>1, <1>2, Invariant, SearchingAlways, LabelledAlways, PTL DEF Spec

-----------------------------------------------------------------------------
(* What left the queue and is no cutoff has been worked off, unless the    *)
(* quotas stopped it.                                                      *)
WithinQuotas == ~ OverAnyQuota /\ \A h \in DOMAIN hists : hists[h].depth <= opt.maxdepth

Usable(p) == \E t \in net.trans : p \in Arcs(t)

Expanded(h) ==
  \A c \in EventPost(hists[h].e) : Usable(conds[c].fp) =>
    \/ h = cur /\ c \in gens
    \/ \E r \in DOMAIN ecs : ecs[r].c = c /\ ecs[r].h = h

AllExpanded == WithinQuotas => \A h \in Popped : hists[h].corr = 0 => Expanded(h)

LEMMA LongerSeq ==
  ASSUME NEW s, NEW t, Len(s) \in Nat, Len(t) \in Nat, DOMAIN s = 1..Len(s),
         DOMAIN t = 1..Len(t), DOMAIN s \subseteq DOMAIN t
  PROVE  Len(s) <= Len(t)
<1>1. CASE Len(s) = 0
  BY <1>1
<1>2. CASE Len(s) # 0
  <2>1. Len(s) \in DOMAIN s
    BY <1>2
  <2>2. Len(s) \in 1..Len(t)
    BY <2>1
  <2> QED
    BY <2>2
<1> QED
  BY <1>1, <1>2

(* The prefix only grows.                                                  *)
LEMMA QuotasKept ==
  ASSUME IInv, IInv', [Next]_vars, WithinQuotas'
  PROVE  WithinQuotas
<1>1. Grows /\ opt' = opt
  BY StepGrows, PrefixStable
<1>2. /\ Len(events) \in Nat /\ DOMAIN events = 1..Len(events)
      /\ Len(conds) \in Nat /\ DOMAIN conds = 1..Len(conds)
      /\ Len(hists) \in Nat /\ DOMAIN hists = 1..Len(hists)
  BY Elements DEF IInv
<1>3. TypeOK'
  BY DEF IInv
<1>4. /\ Len(events') \in Nat /\ DOMAIN events' = 1..Len(events')
      /\ Len(conds') \in Nat /\ DOMAIN conds' = 1..Len(conds')
      /\ Len(hists') \in Nat /\ DOMAIN hists' = 1..Len(hists')
  BY <1>3, LenProperties DEF TypeOK
<1>5. Len(events) <= Len(events') /\ Len(conds) <= Len(conds') /\ Len(hists) <= Len(hists')
  <2>1. Len(events) <= Len(events')
    BY <1>1, <1>2, <1>4, LongerSeq DEF Grows
  <2>2. Len(conds) <= Len(conds')
    BY <1>1, <1>2, <1>4, LongerSeq DEF Grows
  <2>3. Len(hists) <= Len(hists')
    BY <1>1, <1>2, <1>4, LongerSeq DEF Grows
  <2> QED
    BY <2>1, <2>2, <2>3
<1>6. {opt.maxev, opt.maxcond, opt.maxh} \subseteq Nat
  BY OptionsAssumption DEF IInv, TypeOK
<1>7. ~ OverAnyQuota
  BY <1>1, <1>2, <1>4, <1>5, <1>6 DEF WithinQuotas, OverAnyQuota
<1>8. \A h \in DOMAIN hists : hists[h].depth <= opt.maxdepth
  BY <1>1, PrefixStable DEF WithinQuotas
<1> QED
  BY <1>7, <1>8 DEF WithinQuotas

LEMMA PoppedKept ==
  ASSUME IInv, Labelled, Marked, NEW h \in queue, Pops(h), NEW g \in Popped
  PROVE  /\ (EventPost(hists[g].e))' = EventPost(hists[g].e)
         /\ g # h /\ hists'[g] = hists[g]
<1>1. g \in DOMAIN hists /\ g \notin queue
  BY DEF Popped
<1>2. g # h /\ hists'[g] = hists[g]
  BY <1>1, AddHists DEF Pops
<1>3. PICK e, f : e = hists[h].e /\ f = hists[g].e
  OBVIOUS
<1>4. /\ \A c \in DOMAIN conds' \ DOMAIN conds : conds'[c].pre = e
      /\ conds' = conds \/ EventPost(e) = {}
      /\ {conds'[c].fp : c \in {d \in DOMAIN conds' : conds'[d].pre = e}} = net.post[events[e].ft]
  BY <1>3, AddConds
<1>5. DOMAIN conds \subseteq DOMAIN conds' /\ \A c \in DOMAIN conds : conds'[c] = conds[c]
  BY AddFrame
<1>6. EventPost(f)' = EventPost(f)
  <2>1. CASE conds' = conds
    BY <2>1 DEF EventPost
  <2>2. CASE f # e
    BY <1>4, <1>5, <2>2 DEF EventPost
  <2>3. CASE conds' # conds /\ f = e
    <3>1. Fresh(events, f) = {} /\ EventPost(f) = {}
      BY <1>3, <1>4, <2>3 DEF Marked
    <3>2. net.post[events[f].ft] = {}
      BY <3>1 DEF Fresh
    <3>3. \A c \in DOMAIN conds' : conds'[c].pre # f
      BY <1>4, <2>3, <3>2
    <3> QED
      BY <3>1, <3>3 DEF EventPost
  <2> QED
    BY <2>1, <2>2, <2>3
<1>7. (EventPost(hists[g].e))' = EventPost(f)'
  BY <1>2, <1>3
<1> QED
  BY <1>2, <1>3, <1>6, <1>7

(* Of what the history that leaves the queue produces all that matters is  *)
(* still to do.                                                            *)
LEMMA PopsWork ==
  ASSUME IInv, IInv', [Next]_vars, NEW h \in queue, Pops(h), WithinQuotas', hists'[h].corr = 0
  PROVE  /\ gens' = GensOf(hists[h].e, conds')
         /\ reads' = ReadsOf(hists[h].e, conds')
<1>1. h \in DOMAIN hists /\ DOMAIN hists' = DOMAIN hists /\ Len(hists') = Len(hists)
  BY AddHists DEF Pops
<1>2. ~ IsCutoff(h)
  <2>1. 0 \notin DOMAIN hists
    BY Elements DEF IInv
  <2>2. IsCutoff(h) => hists'[h].corr = Corresponding(h) /\ Corresponding(h) \in DOMAIN hists
    BY <1>1, AddHists, CorrespondingFacts DEF Pops
  <2> QED
    BY <2>1, <2>2
<1>3. opt' = opt /\ hists'[h].depth = hists[h].depth
  BY <1>1, PrefixStable
<1>4. Len(events') = Len(events)
  <2>1. DOMAIN events' = DOMAIN events
    BY AddEvents DEF Pops
  <2>2. Len(events) \in Nat /\ DOMAIN events = 1..Len(events)
    BY Elements DEF IInv
  <2>3. Len(events') \in Nat /\ DOMAIN events' = 1..Len(events')
    BY LenProperties DEF IInv, TypeOK
  <2>4. Len(events) <= Len(events')
    BY <2>1, <2>2, <2>3, LongerSeq
  <2>5. Len(events') <= Len(events)
    BY <2>1, <2>2, <2>3, LongerSeq
  <2>6. PICK m, n : m = Len(events) /\ n = Len(events')
    OBVIOUS
  <2>7. m \in Nat /\ n \in Nat /\ m <= n /\ n <= m
    BY <2>2, <2>3, <2>4, <2>5, <2>6
  <2>8. m = n
    BY <2>7
  <2> QED
    BY <2>6, <2>8
<1>5. ~ OverQuota(h, events, conds')
  <2>1. /\ ~ (hists'[h].depth > opt.maxdepth) 
    <3>1. h \in DOMAIN hists' /\ hists'[h].depth \in Nat /\ opt.maxdepth \in Nat
      <4>1. h \in DOMAIN hists'
        BY <1>1
      <4>2. hists[h].depth \in Nat
        <5>1. hists[h] \in HistType /\ Len(hists) \in Nat
          BY <1>1, Elements DEF IInv
        <5> QED
          BY <5>1 DEF HistType
      <4>3. opt.maxdepth \in Nat
        BY OptionsAssumption DEF IInv, TypeOK
      <4> QED
        BY <1>3, <4>1, <4>2, <4>3
    <3> QED
      BY <1>3, <3>1 DEF WithinQuotas
  <2>2. /\ ~ (Len(events') > opt.maxev) /\ ~ (Len(conds') > opt.maxcond)
        /\ ~ (Len(hists') > opt.maxh)
    BY <1>3 DEF WithinQuotas, OverAnyQuota
  <2> QED
    BY <1>1, <1>3, <1>4, <2>1, <2>2 DEF OverQuota
<1>6. ~ Skip(h, events, conds')
  BY <1>2, <1>5 DEF Skip
<1> QED
  BY <1>6 DEF Pops, Add

LEMMA ExpandedStable ==
  ASSUME IInv, Grows, net' = net, NEW h \in DOMAIN hists, Expanded(h),
         (EventPost(hists[h].e))' = EventPost(hists[h].e),
         h = cur => h = cur' /\ \A c \in gens : \/ c \in gens'
                                                 \/ \E r \in DOMAIN ecs' : ecs'[r].c = c /\ ecs'[r].h = h
  PROVE  Expanded(h)'
<1> SUFFICES ASSUME NEW c \in EventPost(hists[h].e),
                    NEW t \in net.trans, conds'[c].fp \in net.pre[t] \cup net.cont[t]
             PROVE  \/ h = cur' /\ c \in gens'
                    \/ \E r \in DOMAIN ecs' : ecs'[r].c = c /\ ecs'[r].h = h
  BY DEF Expanded, Usable, Arcs, Grows
<1>1. conds'[c] = conds[c]
  BY DEF EventPost, Grows
<1>2. Usable(conds[c].fp)
  BY <1>1 DEF Usable, Arcs
<1>3. CASE h = cur /\ c \in gens
  BY <1>3
<1>4. CASE \E r \in DOMAIN ecs : ecs[r].c = c /\ ecs[r].h = h
  BY <1>4 DEF Grows
<1> QED
  BY <1>2, <1>3, <1>4 DEF Expanded

LEMMA AllExpandedNext ==
  ASSUME IInv, IInv', Labelled, Marked, AllExpanded, [Next]_vars
  PROVE  AllExpanded'
<1> SUFFICES ASSUME WithinQuotas', NEW h \in Popped', hists'[h].corr = 0
             PROVE  Expanded(h)'
  BY DEF AllExpanded
<1>1. Grows /\ net' = net
  BY StepGrows, PrefixStable
<1>2. \A g \in Popped : hists[g].corr = 0 => g \in DOMAIN hists /\ Expanded(g)
  BY QuotasKept DEF AllExpanded, Popped
<1>3. CASE Still
  <2>1. UNCHANGED <<net, events, conds, hists, ecs, queue, cur, gens>>
    BY <1>3, StillFrame
  <2>2. h \in Popped /\ hists[h].corr = 0
    BY <2>1 DEF Popped
  <2>3. (EventPost(hists[h].e))' = EventPost(hists[h].e)
    BY <2>1 DEF EventPost
  <2> QED
    BY <1>1, <1>2, <2>1, <2>2, <2>3, ExpandedStable
<1>4. ASSUME NEW ec, Enriches(ec),
             \A c \in gens : c \in gens' \/ (ec.c = c /\ ec.h = cur)
      PROVE  Expanded(h)'
  <2>1. /\ UNCHANGED <<conds, hists, queue, cur>>
        /\ DOMAIN ecs' = DOMAIN ecs \cup {Newest + 1} /\ ecs'[Newest + 1] = ec
    BY <1>4, EnrichesFrame
  <2>2. h \in Popped /\ hists[h].corr = 0
    BY <2>1 DEF Popped
  <2>3. (EventPost(hists[h].e))' = EventPost(hists[h].e)
    BY <2>1 DEF EventPost
  <2>4. h = cur => h = cur' /\ \A c \in gens : \/ c \in gens'
                                               \/ \E r \in DOMAIN ecs' : ecs'[r].c = c /\ ecs'[r].h = h
    BY <1>4, <2>1
  <2> QED
    BY <1>1, <1>2, <2>2, <2>3, <2>4, ExpandedStable
<1>5. ASSUME NEW c \in gens, Generate(c), ~ Still PROVE Expanded(h)'
  <2>1. PICK ec : ec = EcOf(c, cur)
    OBVIOUS
  <2>2. Enriches(ec) /\ gens' = gens \ {c}
    BY <1>5, <2>1, GenerateCases
  <2>3. ec.c = c /\ ec.h = cur
    BY <2>1 DEF EcOf
  <2> QED
    BY <1>4, <2>2, <2>3
<1>6. ASSUME NEW c \in reads, Read(c), ~ Still PROVE Expanded(h)'
  <2>1. PICK ec : ec = EcOf(c, cur)
    OBVIOUS
  <2>2. Enriches(ec) /\ gens = {}
    BY <1>6, <2>1, ReadCases
  <2> QED
    BY <1>4, <2>2
<1>7. ASSUME NEW rp \in combine, Combine(rp) PROVE Expanded(h)'
  <2>1. PICK ec : ec = EcCompound(reader, rp)
    OBVIOUS
  <2>2. Enriches(ec) /\ gens = {}
    BY <1>7, <2>1, CombineCases
  <2> QED
    BY <1>4, <2>2
<1>8. ASSUME NEW s \in sols, Solve(s) PROVE Expanded(h)'
  <2>1. /\ UNCHANGED <<conds, ecs, cur, gens>>
        /\ queue' = queue \cup {Len(hists) + 1}
        /\ DOMAIN hists' = DOMAIN hists \cup {Len(hists) + 1}
        /\ \A x \in DOMAIN hists : hists'[x] = hists[x]
    BY <1>8, SolveFrame
  <2>2. h \in Popped /\ hists[h].corr = 0 /\ h \in DOMAIN hists
    BY <2>1 DEF Popped
  <2>3. (EventPost(hists[h].e))' = EventPost(hists[h].e)
    BY <2>1, <2>2 DEF EventPost
  <2> QED
    BY <1>1, <1>2, <2>1, <2>2, <2>3, ExpandedStable
<1>9. ASSUME NEW x \in queue, Pop(x) \/ Pick(x) PROVE Expanded(h)'
  <2>1. Pops(x)
    BY <1>9 DEF Pop, Pick, Pops
  <2>2. cur' = x /\ queue' = queue \ {x} /\ gens = {}
    BY <2>1, AddFrame
  <2>3. x \in DOMAIN hists /\ DOMAIN hists' = DOMAIN hists /\ hists'[x].e = hists[x].e
    BY <2>1, AddHists DEF Pops
  <2>4. CASE h \in Popped
    <3>1. (EventPost(hists[h].e))' = EventPost(hists[h].e) /\ hists'[h] = hists[h]
      BY <2>1, <2>4, PoppedKept
    <3>2. \A c \in EventPost(hists[h].e) : Usable(conds[c].fp) =>
            \E r \in DOMAIN ecs : ecs[r].c = c /\ ecs[r].h = h
      BY <1>2, <2>2, <2>4, <3>1 DEF Expanded
    <3>3. \A c \in EventPost(hists[h].e) : conds'[c] = conds[c]
      BY <1>1 DEF EventPost, Grows
    <3>4. \A c \in EventPost(hists[h].e) : Usable(conds[c].fp) =>
            \E r \in DOMAIN ecs' : ecs'[r].c = c /\ ecs'[r].h = h
      BY <1>1, <3>2 DEF Grows
    <3> QED
      BY <1>1, <3>1, <3>3, <3>4 DEF Expanded, Usable, Arcs
  <2>5. CASE h \notin Popped
    <3>1. h = x
      BY <2>2, <2>3, <2>5 DEF Popped
    <3>2. gens' = GensOf(hists[x].e, conds')
      BY <2>1, <3>1, PopsWork
    <3> QED
      BY <1>1, <2>2, <2>3, <3>1, <3>2 DEF Expanded, GensOf, EventPost, Usable, Arcs
  <2> QED
    BY <2>4, <2>5
<1>10. CASE Quit \/ UNCHANGED vars
  BY <1>3, <1>10 DEF Quit, vars, Still
<1> QED
  BY <1>3, <1>5, <1>6, <1>7, <1>8, <1>9, <1>10 DEF Next

LEMMA AllExpandedAlways == Spec => []AllExpanded
<1>1. Init => AllExpanded
  <2> SUFFICES ASSUME Init, WithinQuotas, NEW h \in Popped PROVE Expanded(h)
    BY DEF AllExpanded
  <2>1. DOMAIN hists = {1} /\ hists[1].e = 1 /\ cur = 1
    BY DEF Init
  <2>2. h = 1
    BY <2>1 DEF Popped
  <2>3. ~ OverQuota(1, events, conds)
    <3>1. 1 \in DOMAIN hists /\ hists[1].depth = 0 /\ opt.maxdepth \in Nat
      BY OptionsAssumption DEF Init
    <3> QED
      BY <3>1 DEF WithinQuotas, OverAnyQuota, OverQuota
  <2>4. gens = GensOf(1, conds)
    BY <2>3 DEF Init
  <2> QED
    BY <2>1, <2>2, <2>4 DEF Expanded, GensOf, EventPost, Usable, Arcs
<1>2. IInv /\ IInv' /\ Labelled /\ Marked /\ AllExpanded /\ [Next]_vars => AllExpanded'
  BY AllExpandedNext
<1> QED
  BY <1>1, <1>2, Invariant, LabelledAlways, MarkedAlways, PTL DEF Spec

-----------------------------------------------------------------------------
(* Each set of histories of readers of c that fit together and of which    *)
(* none is below another has its enriched condition: _unfold_combine       *)
(* misses none.                                                            *)
Consumable(p) == \E t \in net.trans : p \in net.pre[t]

ReadTogether(c, Y) ==
  /\ Y # {} /\ Y \subseteq Popped
  /\ \A y \in Y : hists[y].corr = 0 /\ c \in events[hists[y].e].cont
  /\ \A y, z \in Y : y # z => hists[y].e \notin Evs(z) /\ Compose(Evs(y), Evs(z))

HasEc(c, Y) == \E r \in DOMAIN ecs : ecs[r].c = c /\ ecs[r].hs = Y

LeftToCombine(c, Y) ==
  /\ cur \in Y
  /\ \/ c \in reads
     \/ /\ reader # 0 /\ ecs[reader].c = c
        /\ \E rp \in combine : ecs[rp].hs = Y \ {cur}

AllCombined ==
  WithinQuotas /\ SingleReads(net) =>
    \A c \in DOMAIN conds, Y \in SUBSET DOMAIN hists :
      Consumable(conds[c].fp) /\ ReadTogether(c, Y) => LeftToCombine(c, Y) \/ HasEc(c, Y)

LEMMA ReadTogetherBefore ==
  ASSUME IInv, Grows, NEW c \in DOMAIN conds, NEW Y, Y \subseteq Popped, ReadTogether(c, Y)',
         \A y \in Y : hists'[y].corr = hists[y].corr
  PROVE  ReadTogether(c, Y)
<1>1. Y \subseteq DOMAIN hists
  BY DEF Popped
<1>2. ASSUME NEW y \in Y PROVE hists[y].corr = 0 /\ c \in events[hists[y].e].cont
  <2>1. y \in DOMAIN hists
    BY <1>1
  <2>2. c \in events[hists[y].e].cont <=> c \in events'[hists'[y].e].cont
    BY <2>1, TouchesStable
  <2> QED
    BY <2>2 DEF ReadTogether
<1>3. ASSUME NEW y \in Y, NEW z \in Y, y # z
      PROVE  hists[y].e \notin Evs(z) /\ Compose(Evs(y), Evs(z))
  <2>1. PICK E, F : E = Evs(y) /\ F = Evs(z)
    OBVIOUS
  <2>2. /\ Evs(y)' = E /\ E \in SUBSET DOMAIN events
        /\ hists'[y].e = hists[y].e
    BY <1>1, <2>1, EvsStable
  <2>3. Evs(z)' = F /\ F \in SUBSET DOMAIN events
    BY <1>1, <2>1, EvsStable
  <2>4. hists'[y].e \notin Evs(z)' /\ Compose(Evs(y), Evs(z))'
    BY <1>3 DEF ReadTogether
  <2>5. Compose(E, F)'
    BY <2>2, <2>3, <2>4 DEF Compose
  <2>6. Compose(E, F)
    BY <2>2, <2>3, <2>5, ComposeStable
  <2> QED
    BY <2>1, <2>2, <2>3, <2>4, <2>6
<1>4. Y # {}
  BY DEF ReadTogether
<1> QED
  BY <1>2, <1>3, <1>4 DEF ReadTogether

LEMMA ComposeUnion ==
  ASSUME NEW E, NEW S, \A F \in S : Compose(E, F)
  PROVE  Compose(E, UNION S)
BY DEF Compose

(* The histories that the current one is combined with.                    *)
LEMMA FitsToCombine ==
  ASSUME IInv, Labelled, Grounded, UniqueEcls, Coherent, Arranged, Shapely, AtWork, Found,
         NEW c \in DOMAIN conds, NEW Y, ReadTogether(c, Y), cur \in Y,
         NEW rz \in DOMAIN ecs, ecs[rz].c = c, ecs[rz].hs = Y \ {cur}
  PROVE  rz \in ToCombine(c, cur)
<1>1. PICK e, E, F, Z : /\ e = hists[cur].e /\ E = Evs(cur) /\ F = ConfOf(rz)
                        /\ Z = Y \ {cur}
  OBVIOUS
<1>2. cur \in DOMAIN hists /\ c \in events[e].cont /\ Y \subseteq DOMAIN hists
  BY <1>1 DEF ReadTogether, IInv, TypeOK, Popped
<1>3. /\ Z # {} /\ cur \notin Z
      /\ \A z \in Z : /\ z \in DOMAIN hists /\ c \in events[hists[z].e].cont
                      /\ hists[z].e \notin E /\ Compose(E, Evs(z))
  <2>1. Z # {}
    BY <1>1, Elements DEF IInv, EcType
  <2> QED
    BY <1>1, <1>2, <2>1 DEF ReadTogether
<1>4. F = UNION {Evs(z) : z \in Z}
  BY <1>1 DEF ConfOf, EventsOf, Evs
<1>5. Compose(E, F)
  <2>1. PICK S : S = {Evs(z) : z \in Z}
    OBVIOUS
  <2>2. \A G \in S : Compose(E, G)
    BY <1>3, <2>1
  <2>3. Compose(E, UNION S)
    BY <2>2, ComposeUnion
  <2> QED
    BY <1>4, <2>1, <2>3
<1>6. c \in CutOf(E)
  <2>1. c \in CutOf(EventsOf(hists[cur].past))
    BY <1>1, <1>2, HistorySound
  <2> QED
    BY <1>1, <2>1 DEF Evs
<1>7. c \in CutOf(F)
  BY <1>1 DEF Coherent, EcSound
<1>8. c \in CutOf(E \cup F)
  BY <1>6, <1>7, CutUnion
<1>9. GoTogether(Evs(cur), ConfOf(rz), c, ecs[rz].c)
  BY <1>1, <1>5, <1>8 DEF GoTogether
<1>10. rz \in Compatible(cur)
  BY <1>1, <1>3, <1>9, FitCompatible
<1>11. \A z \in Z : hists[z].e \in F
  <2>1. \A z \in Z : z \in hists[z].past
    BY <1>3 DEF Coherent, Assembled
  <2> QED
    BY <1>4, <2>1 DEF Evs, EventsOf
<1>12. rz # EcOf(c, cur).r1
  <2>1. conds[c].pre # e
    BY <1>1, <1>2, ReadNotProduced DEF EventPost
  <2>2. PICK r : r = EcOf(c, cur).r1
    OBVIOUS
  <2>3. r = CHOOSE g \in hists[cur].ecl : ecs[g].c = c
    BY <1>1, <2>1, <2>2 DEF EcOf
  <2>4. \E g \in hists[cur].ecl : ecs[g].c = c
    BY <1>1, <1>2 DEF IInv, Linked
  <2>5. r \in hists[cur].ecl /\ ecs[r].c = c
    BY <2>3, <2>4
  <2>6. ConfOf(r) \subseteq E
    BY <1>1, <1>2, <2>5, HistoryPart DEF Initial
  <2> QED
    BY <1>1, <1>3, <1>11, <2>2, <2>6
<1>13. EventsOf(ecs[rz].hs) \cap hists[cur].rd = {}
  <2>1. hists[cur].rd \subseteq E
    BY <1>1, <1>2 DEF Coherent, Assembled, Evs
  <2> QED
    BY <1>1, <1>3, <2>1 DEF EventsOf
<1> QED
  BY <1>10, <1>12, <1>13 DEF ToCombine

LEMMA ReadTogetherPart ==
  ASSUME NEW c, NEW Y, ReadTogether(c, Y), NEW Z, Z \subseteq Y, Z # {}
  PROVE  ReadTogether(c, Z)
BY DEF ReadTogether

(* Until the step is done.                                                 *)
CombinedLater(c, Y) == LeftToCombine(c, Y)' \/ HasEc(c, Y)'

LEMMA HasEcStable ==
  ASSUME Grows, NEW c, NEW Y, HasEc(c, Y)
  PROVE  HasEc(c, Y)'
BY DEF HasEc, Grows

LEMMA LeftStable ==
  ASSUME IInv, Grows, NEW c, NEW Y, LeftToCombine(c, Y), UNCHANGED <<cur, reads, reader, combine>>
  PROVE  LeftToCombine(c, Y)'
<1>1. combine \subseteq DOMAIN ecs /\ (reader # 0 => reader \in DOMAIN ecs)
  BY DEF IInv, TypeOK
<1> QED
  BY <1>1 DEF LeftToCombine, Grows

LEMMA ReadCombines ==
  ASSUME IInv, Labelled, Grounded, UniqueEcls, Coherent, Arranged, Shapely, AtWork, Found,
         NEW d \in reads, Read(d), ~ Still, Grows,
         NEW c \in DOMAIN conds, NEW Y, ReadTogether(c, Y), cur \in Y, c \in reads,
         \A Z \in SUBSET Y : ReadTogether(c, Z) /\ cur \notin Z => HasEc(c, Z)
  PROVE  CombinedLater(c, Y)
<1>1. PICK ec, n : ec = EcOf(d, cur) /\ n = Newest + 1
  OBVIOUS
<1>2. /\ Enriches(ec) /\ ec.hs = {cur} /\ ec.c = d
      /\ reads' = reads \ {d} /\ reader' = n /\ combine' = ToCombine(d, cur)
  BY <1>1, ReadCases DEF EcOf
<1>3. /\ cur' = cur /\ n \in DOMAIN ecs' /\ ecs'[n] = ec /\ n # 0
  <2>1. Newest \in Nat
    BY LenProperties DEF IInv, TypeOK, Newest
  <2> QED
    BY <1>1, <1>2, <2>1, EnrichesFrame
<1>4. CASE c # d
  BY <1>2, <1>3, <1>4 DEF CombinedLater, LeftToCombine
<1>5. CASE c = d /\ Y = {cur}
  BY <1>2, <1>3, <1>5 DEF CombinedLater, HasEc
<1>6. CASE c = d /\ Y # {cur}
  <2>1. PICK Z : Z = Y \ {cur}
    OBVIOUS
  <2>2. Z \in SUBSET Y /\ Z # {} /\ cur \notin Z
    BY <1>6, <2>1
  <2>3. ReadTogether(c, Z)
    BY <2>2, ReadTogetherPart
  <2>4. PICK rz \in DOMAIN ecs : ecs[rz].c = c /\ ecs[rz].hs = Z
    BY <2>2, <2>3 DEF HasEc
  <2>5. rz \in ToCombine(c, cur)
    BY <2>1, <2>4, FitsToCombine
  <2>6. ecs'[rz] = ecs[rz]
    BY <2>4 DEF Grows
  <2> QED
    BY <1>2, <1>3, <1>6, <2>1, <2>4, <2>5, <2>6 DEF CombinedLater, LeftToCombine
<1> QED
  BY <1>4, <1>5, <1>6

LEMMA CombineCombines ==
  ASSUME IInv, Arranged, Grows, NEW rp \in combine, Combine(rp), NEW c, NEW Y, LeftToCombine(c, Y)
  PROVE  CombinedLater(c, Y)
<1>1. PICK ec, n : ec = EcCompound(reader, rp) /\ n = Newest + 1
  OBVIOUS
<1>2. /\ Enriches(ec) /\ ec.hs = ecs[reader].hs \cup ecs[rp].hs /\ ec.c = ecs[reader].c
      /\ combine' = combine \ {rp} /\ UNCHANGED <<reads, reader>> /\ reader \in DOMAIN ecs
  BY <1>1, CombineCases DEF EcCompound
<1>3. cur' = cur /\ n \in DOMAIN ecs' /\ ecs'[n] = ec
  BY <1>1, <1>2, EnrichesFrame
<1>4. reader # 0
  BY DEF IInv, Linked
<1>5. ecs[reader].hs = {cur}
  BY <1>4 DEF Arranged
<1>6. CASE c \in reads
  BY <1>2, <1>3, <1>6 DEF CombinedLater, LeftToCombine
<1>7. ASSUME NEW rz \in combine, ecs[rz].hs = Y \ {cur}, ecs[reader].c = c PROVE CombinedLater(c, Y)
  <2>1. CASE rz = rp
    <3>1. ec.hs = Y
      BY <1>2, <1>5, <1>7, <2>1 DEF LeftToCombine
    <3> QED
      BY <1>2, <1>3, <1>7, <3>1 DEF CombinedLater, HasEc
  <2>2. CASE rz # rp
    <3>1. rz \in DOMAIN ecs
      BY DEF IInv, TypeOK
    <3>2. ecs'[rz] = ecs[rz] /\ ecs'[reader] = ecs[reader]
      BY <1>2, <3>1 DEF Grows
    <3> QED
      BY <1>2, <1>3, <1>4, <1>7, <2>2, <3>2 DEF CombinedLater, LeftToCombine
  <2> QED
    BY <2>1, <2>2
<1> QED
  BY <1>6, <1>7 DEF LeftToCombine

LEMMA CombinedBefore ==
  ASSUME IInv, Grows, net' = net, AllCombined, WithinQuotas, SingleReads(net), NEW c, NEW Y,
         Y \subseteq Popped, ReadTogether(c, Y)', \E t \in net.trans : conds'[c].fp \in net.pre[t],
         \A y \in Y : hists'[y].corr = hists[y].corr
  PROVE  /\ c \in DOMAIN conds /\ ReadTogether(c, Y) /\ Consumable(conds[c].fp)
         /\ LeftToCombine(c, Y) \/ HasEc(c, Y)
<1>1. Y \subseteq DOMAIN hists
  BY DEF Popped
<1>2. PICK y \in Y : c \in events'[hists'[y].e].cont
  BY DEF ReadTogether
<1>3. hists'[y].e = hists[y].e /\ hists[y].e \in DOMAIN events
  BY <1>1, EvsStable
<1>4. c \in events[hists[y].e].cont
  BY <1>2, <1>3 DEF Grows
<1>5. c \in DOMAIN conds
  BY <1>3, <1>4, ArcsType
<1>6. conds'[c] = conds[c]
  BY <1>5 DEF Grows
<1>7. Consumable(conds[c].fp)
  BY <1>6 DEF Consumable
<1>8. ReadTogether(c, Y)
  BY <1>5, ReadTogetherBefore
<1>9. Y \in SUBSET DOMAIN hists
  BY <1>1
<1> QED
  BY <1>5, <1>7, <1>8, <1>9 DEF AllCombined

LEMMA PopsCombined ==
  ASSUME IInv, IInv', Labelled, Marked, [Next]_vars, AllCombined, WithinQuotas, WithinQuotas',
         SingleReads(net), NEW h \in queue, Pops(h), NEW c, NEW Y, ReadTogether(c, Y)',
         \E t \in net.trans : conds'[c].fp \in net.pre[t]
  PROVE  CombinedLater(c, Y)
<1>1. Grows /\ net' = net
  BY StepGrows, PrefixStable
<1>2. cur' = h /\ queue' = queue \ {h} /\ reads = {} /\ combine = {}
  BY AddFrame
<1>3. h \in DOMAIN hists /\ DOMAIN hists' = DOMAIN hists /\ hists'[h].e = hists[h].e
  BY AddHists DEF Pops
<1>4. Y \subseteq Popped \cup {h}
  BY <1>2, <1>3 DEF ReadTogether, Popped
<1>5. CASE h \in Y
  <2>1. hists'[h].corr = 0 /\ c \in events'[hists'[h].e].cont
    BY <1>5 DEF ReadTogether
  <2>2. reads' = ReadsOf(hists[h].e, conds')
    BY <2>1, PopsWork
  <2>3. c \in events[hists[h].e].cont
    BY <1>1, <1>3, <2>1, EvsStable DEF Grows
  <2>4. c \in reads'
    BY <2>2, <2>3 DEF ReadsOf
  <2> QED
    BY <1>2, <1>5, <2>4 DEF CombinedLater, LeftToCombine
<1>6. CASE h \notin Y
  <2>1. Y \subseteq Popped
    BY <1>4, <1>6
  <2>2. \A y \in Y : hists'[y].corr = hists[y].corr
    BY <2>1, PoppedKept
  <2>3. LeftToCombine(c, Y) \/ HasEc(c, Y)
    BY <1>1, <2>1, <2>2, CombinedBefore
  <2>4. HasEc(c, Y)
    BY <1>2, <2>3 DEF LeftToCombine
  <2> QED
    BY <1>1, <2>4, HasEcStable DEF CombinedLater
<1> QED
  BY <1>5, <1>6

LEMMA AllCombinedNext ==
  ASSUME IInv, IInv', Labelled, Grounded, UniqueEcls, Marked, Coherent, Arranged, Shapely, AtWork,
         FoundInv, AllCombined, [Next]_vars
  PROVE  AllCombined'
<1>1. Grows /\ net' = net
  BY StepGrows, PrefixStable
<1> SUFFICES ASSUME WithinQuotas', SingleReads(net), NEW c, NEW Y, ReadTogether(c, Y)',
                    \E t \in net.trans : conds'[c].fp \in net.pre[t]
             PROVE  CombinedLater(c, Y)
  BY <1>1 DEF AllCombined, Consumable, CombinedLater
<1>2. WithinQuotas /\ Found
  BY QuotasKept DEF FoundInv
<1>3. ASSUME queue \subseteq queue', DOMAIN hists' \subseteq DOMAIN hists \cup queue',
             \A x \in DOMAIN hists : hists'[x] = hists[x]
      PROVE  /\ c \in DOMAIN conds /\ ReadTogether(c, Y) /\ Consumable(conds[c].fp)
             /\ LeftToCombine(c, Y) \/ HasEc(c, Y)
  <2>1. Y \subseteq Popped
    BY <1>3 DEF ReadTogether, Popped
  <2>2. \A y \in Y : hists'[y].corr = hists[y].corr
    BY <1>3, <2>1 DEF Popped
  <2> QED
    BY <1>1, <1>2, <2>1, <2>2, CombinedBefore
<1>4. CASE Still
  <2>1. UNCHANGED <<hists, queue, cur, reads, reader, combine>>
    BY <1>4, StillFrame
  <2>2. LeftToCombine(c, Y) \/ HasEc(c, Y)
    BY <1>3, <2>1
  <2> QED
    BY <1>1, <2>1, <2>2, LeftStable, HasEcStable DEF CombinedLater
<1>5. ASSUME NEW d \in gens, Generate(d), ~ Still PROVE CombinedLater(c, Y)
  <2>1. UNCHANGED <<hists, queue, cur, reads, reader, combine>>
    BY <1>5, GenerateCases, EnrichesFrame
  <2>2. LeftToCombine(c, Y) \/ HasEc(c, Y)
    BY <1>3, <2>1
  <2> QED
    BY <1>1, <2>1, <2>2, LeftStable, HasEcStable DEF CombinedLater
<1>6. ASSUME NEW d \in reads, Read(d), ~ Still PROVE CombinedLater(c, Y)
  <2>1. UNCHANGED <<hists, queue, cur>> /\ combine = {}
    BY <1>6, ReadCases, EnrichesFrame DEF Read
  <2>2. /\ c \in DOMAIN conds /\ ReadTogether(c, Y) /\ Consumable(conds[c].fp)
        /\ LeftToCombine(c, Y) \/ HasEc(c, Y)
    BY <1>3, <2>1
  <2>3. CASE HasEc(c, Y)
    BY <1>1, <2>3, HasEcStable DEF CombinedLater
  <2>4. CASE LeftToCombine(c, Y)
    <3>1. cur \in Y /\ c \in reads
      BY <2>1, <2>4 DEF LeftToCombine
    <3>2. ASSUME NEW Z \in SUBSET Y, ReadTogether(c, Z), cur \notin Z PROVE HasEc(c, Z)
      <4>1. Z \in SUBSET DOMAIN hists
        BY <2>2 DEF ReadTogether, Popped
      <4>2. LeftToCombine(c, Z) \/ HasEc(c, Z)
        BY <1>2, <2>2, <3>2, <4>1 DEF AllCombined
      <4> QED
        BY <3>2, <4>2 DEF LeftToCombine
    <3> QED
      BY <1>1, <1>2, <1>6, <2>2, <3>1, <3>2, ReadCombines
  <2> QED
    BY <2>2, <2>3, <2>4
<1>7. ASSUME NEW rp \in combine, Combine(rp) PROVE CombinedLater(c, Y)
  <2>1. UNCHANGED <<hists, queue>>
    BY <1>7, CombineCases, EnrichesFrame
  <2>2. LeftToCombine(c, Y) \/ HasEc(c, Y)
    BY <1>3, <2>1
  <2>3. CASE HasEc(c, Y)
    BY <1>1, <2>3, HasEcStable DEF CombinedLater
  <2> QED
    BY <1>1, <1>7, <2>2, <2>3, CombineCombines
<1>8. ASSUME NEW s \in sols, Solve(s) PROVE CombinedLater(c, Y)
  <2>1. /\ UNCHANGED <<cur, reads, reader, combine>>
        /\ queue' = queue \cup {Len(hists) + 1}
        /\ DOMAIN hists' = DOMAIN hists \cup {Len(hists) + 1}
        /\ \A x \in DOMAIN hists : hists'[x] = hists[x]
    BY <1>8, SolveFrame
  <2>2. LeftToCombine(c, Y) \/ HasEc(c, Y)
    BY <1>3, <2>1
  <2> QED
    BY <1>1, <2>1, <2>2, LeftStable, HasEcStable DEF CombinedLater
<1>9. ASSUME NEW x \in queue, Pop(x) \/ Pick(x) PROVE CombinedLater(c, Y)
  <2>1. Pops(x)
    BY <1>9 DEF Pop, Pick, Pops
  <2> QED
    BY <1>2, <2>1, PopsCombined
<1>10. CASE Quit \/ UNCHANGED vars
  BY <1>4, <1>10 DEF Quit, vars, Still
<1> QED
  BY <1>4, <1>5, <1>6, <1>7, <1>8, <1>9, <1>10 DEF Next

LEMMA AllCombinedAlways == Spec => []AllCombined
<1>1. Init => AllCombined
  <2> SUFFICES ASSUME Init, NEW c, NEW Y, ReadTogether(c, Y) PROVE FALSE
    BY DEF AllCombined
  <2>1. DOMAIN hists = {1} /\ hists[1].e = 1 /\ events[1].cont = {}
    BY DEF Init
  <2> QED
    BY <2>1 DEF ReadTogether, Popped
<1>2. Foundation /\ IInv' /\ AtWork /\ FoundInv /\ AllCombined /\ [Next]_vars => AllCombined'
  BY AllCombinedNext DEF Foundation
<1> QED
  BY <1>1, <1>2, Invariant, FoundationAlways, AtWorkAlways, FoundAlways, PTL DEF Spec

-----------------------------------------------------------------------------
(* The finished prefix.                                                    *)

(* A run of kept histories of the prefix.                                  *)
KeptIn(E, h) ==
  /\ h \in DOMAIN hists /\ hists[h].corr = 0
  /\ hists[h].e \in E /\ Initial(Evs(h), E)

Built(E) == Runs(E) /\ \A e \in E : \E h \in DOMAIN hists : hists[h].e = e /\ KeptIn(E, h)

(* Between two rounds of the main loop: nothing is in work.                *)
Quiet ==
  /\ Idle /\ Recorded /\ AtWork /\ Found
  /\ Explored /\ AllExpanded /\ AllCombined
  /\ WithinQuotas /\ SingleReads(net) /\ IsSafe(net)

KeptPopped == \A h \in DOMAIN hists : hists[h].corr = 0 => h \in Popped

LEMMA QuietFacts ==
  ASSUME Quiet
  PROVE  /\ Foundation /\ IInv /\ TypeOK /\ Labelled /\ Grounded /\ UniqueEcls /\ Marked
         /\ Coherent /\ Arranged /\ Shapely
         /\ gens = {} /\ reads = {} /\ combine = {} /\ sols = {} /\ KeptPopped
         /\ IsNet(net) /\ IsFiniteSet(net.places)
<1>1. Foundation
  BY DEF Quiet, Recorded
<1>2. IInv /\ TypeOK
  BY <1>1 DEF Foundation, IInv
<1>3. IsNet(net) /\ IsFiniteSet(net.places)
  BY <1>2, NetsAssumption DEF TypeOK
<1>4. KeptPopped
  BY <1>2, Elements DEF IInv, Discipline, Popped, KeptPopped
<1> QED
  BY <1>1, <1>2, <1>3, <1>4 DEF Foundation, Quiet, Idle

EndOfRun == Quiet /\ Done /\ CutoffsGreater /\ CutoffsJustified /\ BySizeAlone

LEMMA EndFacts ==
  ASSUME EndOfRun
  PROVE  /\ IInv /\ Labelled /\ Grounded /\ UniqueEcls /\ Marked
         /\ Coherent /\ Arranged /\ Shapely /\ Recorded
         /\ Quiet /\ Popped = DOMAIN hists
         /\ IsNet(net) /\ IsFiniteSet(net.places) /\ IsSafe(net)
<1>1. Quiet /\ Popped = DOMAIN hists
  BY DEF EndOfRun, Done, Popped
<1> QED
  BY <1>1, QuietFacts DEF Quiet

LEMMA PartsCompose ==
  ASSUME NEW E, ConflictFree(E), NEW A, NEW B, Initial(A, E), Initial(B, E)
  PROVE  Compose(A, B)
BY DEF ConflictFree, Initial, Compose

LEMMA PartRuns ==
  ASSUME IInv, NEW E, Runs(E), NEW R, Initial(R, E), R # {}
  PROVE  Runs(R)
<1>1. /\ R \subseteq E /\ E \subseteq DOMAIN events
      /\ \A f \in R, g \in E : Before(g, f) => g \in R
  BY DEF Initial, Runs
<1>2. ASSUME NEW f \in R, NEW c \in events[f].pre \cup events[f].cont PROVE conds[c].pre \in R
  <2>1. c \in DOMAIN conds /\ f \in DOMAIN events /\ f \in E
    BY <1>1, ArcsType
  <2>2. PICK g : g = conds[c].pre
    OBVIOUS
  <2>3. g \in E
    BY <2>1, <2>2 DEF Runs, Closed
  <2>4. g # f
    <3>1. g < f /\ g \in Nat /\ f \in Nat
      BY <1>1, <2>1, <2>2, <2>3, Elements DEF IInv, Causal
    <3> QED
      BY <3>1
  <2>5. Before(g, f)
    BY <2>1, <2>2, <2>4 DEF Before, EventPost
  <2> QED
    BY <1>1, <2>2, <2>3, <2>5
<1>3. Closed(R)
  BY <1>2 DEF Closed
<1>4. ConflictFree(R)
  BY <1>1 DEF Runs, ConflictFree
<1>5. Separated(R)
  BY <1>1, SeparatedPart DEF Runs
<1> QED
  BY <1>1, <1>3, <1>4, <1>5 DEF Runs

(* The readers of c in E that are below no other.                          *)
ReadersOf(E, c) == {h \in DOMAIN hists : KeptIn(E, h) /\ c \in events[hists[h].e].cont}

LastReaders(E, c) ==
  {y \in ReadersOf(E, c) : \A z \in ReadersOf(E, c) : hists[y].e \in Evs(z) => z = y}

LEMMA LastReadersCover ==
  ASSUME Foundation, NEW E, Runs(E), NEW c, NEW x \in ReadersOf(E, c)
  PROVE  \E y \in LastReaders(E, c) : hists[x].e \in Evs(y)
<1>1. /\ IInv /\ Labelled /\ Grounded /\ UniqueEcls /\ Coherent /\ Arranged /\ Shapely
  BY DEF Foundation
<1>2. \A z \in ReadersOf(E, c) : /\ z \in DOMAIN hists /\ Initial(Evs(z), E)
                                 /\ Rooted(Evs(z), hists[z].e) /\ Separated(Evs(z))
                                 /\ hists[z].e \in Evs(z) /\ Evs(z) \subseteq E
  BY <1>1 DEF ReadersOf, KeptIn, Shapely, Shaped, Rooted, Initial
<1> DEFINE F == {Evs(z) : z \in {u \in ReadersOf(E, c) : hists[x].e \in Evs(u)}}
<1>3. F \in SUBSET SUBSET E /\ F # {}
  <2>1. Evs(x) \in F
    BY <1>2
  <2>2. \A S \in F : S \subseteq E
    BY <1>2
  <2> HIDE DEF F
  <2> QED
    BY <2>1, <2>2
<1>4. IsFiniteSet(E)
  BY <1>1, FiniteEvents DEF Runs
<1>5. PICK B \in F : \A S \in F : B \subseteq S => S = B
  <2> HIDE DEF F
  <2> QED
    BY <1>3, <1>4, LargestSet
<1>6. PICK y \in ReadersOf(E, c) : hists[x].e \in Evs(y) /\ B = Evs(y)
  OBVIOUS
<1>7. ASSUME NEW z \in ReadersOf(E, c), hists[y].e \in Evs(z) PROVE z = y
  <2>1. PICK A, a, b : A = Evs(z) /\ a = hists[z].e /\ b = hists[y].e
    OBVIOUS
  <2>2. /\ Initial(A, E) /\ Rooted(A, a) /\ a \in A /\ A \subseteq E
        /\ Initial(B, E) /\ Rooted(B, b) /\ B \subseteq E /\ b \in A /\ Separated(A)
    BY <1>2, <1>6, <1>7, <2>1
  <2>3. B \subseteq A
    BY <2>2, TopWithin
  <2>4. A \in F
    BY <1>6, <2>1, <2>3
  <2>5. A = B
    BY <1>5, <2>3, <2>4
  <2>6. a = b
    BY <2>2, <2>5, SameTop
  <2>7. Twins(z, y)
    BY <1>6, <2>1, <2>5, <2>6 DEF Twins
  <2> QED
    BY <1>1, <1>2, <2>7, TwinsEqual
<1>8. y \in LastReaders(E, c)
  BY <1>7 DEF LastReaders
<1> QED
  BY <1>6, <1>8

LEMMA LastReadersTogether ==
  ASSUME Foundation, KeptPopped, NEW E, Runs(E), NEW c, NEW x \in ReadersOf(E, c)
  PROVE  ReadTogether(c, LastReaders(E, c))
<1>1. PICK Y : Y = LastReaders(E, c)
  OBVIOUS
<1>2. Y # {}
  BY <1>1, LastReadersCover
<1>3. \A y \in Y : KeptIn(E, y) /\ c \in events[hists[y].e].cont
  BY <1>1 DEF LastReaders, ReadersOf
<1>4. \A y, z \in Y : y # z => hists[y].e \notin Evs(z)
  BY <1>1 DEF LastReaders
<1>5. \A y, z \in Y : Compose(Evs(y), Evs(z))
  BY <1>3, PartsCompose DEF KeptIn, Runs
<1> QED
  BY <1>1, <1>2, <1>3, <1>4, <1>5 DEF ReadTogether, KeptIn, KeptPopped

(* An enriched condition for the condition c of the cut of E, with every   *)
(* reader of c in E if it is consumed and generating if it is read.        *)
Represents(r, E, c) ==
  /\ r \in DOMAIN ecs /\ ecs[r].c = c
  /\ Initial(ConfOf(r), E)

LEMMA GeneratingFound ==
  ASSUME Quiet, NEW E, Built(E), NEW c \in CutOf(E), Usable(conds[c].fp)
  PROVE  \E r : Represents(r, E, c) /\ IsGen(r)
<1>1. /\ IInv /\ Coherent /\ gens = {} /\ KeptPopped
      /\ AllExpanded /\ WithinQuotas
  BY QuietFacts DEF Quiet
<1>2. c \in DOMAIN conds /\ conds[c].pre \in E
  BY DEF CutOf
<1>3. PICK h \in DOMAIN hists : hists[h].e = conds[c].pre /\ KeptIn(E, h)
  BY <1>2 DEF Built
<1>4. Expanded(h)
  BY <1>1, <1>3 DEF AllExpanded, KeptIn, KeptPopped
<1>5. PICK r \in DOMAIN ecs : ecs[r].c = c /\ ecs[r].h = h
  BY <1>1, <1>2, <1>3, <1>4 DEF Expanded, EventPost
<1>6. h # 0
  BY <1>1, Elements DEF IInv
<1>7. ~ IsComp(r) /\ IsGen(r)
  BY <1>3, <1>5, <1>6 DEF IsComp, IsGen
<1>8. ecs[r].hs = {h}
  BY <1>1, <1>5, <1>7 DEF Coherent, EcSound
<1>9. ConfOf(r) = Evs(h)
  BY <1>8 DEF ConfOf, Evs, EventsOf
<1> QED
  BY <1>3, <1>5, <1>7, <1>9 DEF Represents, KeptIn

LEMMA ReadingFound ==
  ASSUME Quiet, NEW E, Built(E), NEW c \in CutOf(E), Consumable(conds[c].fp)
  PROVE  \E r : Represents(r, E, c) /\ Readers(c) \cap E \subseteq ConfOf(r)
<1>1. /\ IInv /\ Foundation /\ reads = {} /\ combine = {} /\ KeptPopped
      /\ AllCombined /\ WithinQuotas /\ SingleReads(net)
  BY QuietFacts DEF Quiet
<1>2. Runs(E) /\ E \subseteq DOMAIN events /\ c \in DOMAIN conds
  BY DEF Built, Runs, CutOf
<1>3. CASE Readers(c) \cap E = {}
  <2>1. Usable(conds[c].fp)
    BY DEF Usable, Consumable, Arcs
  <2> QED
    BY <1>3, <2>1, GeneratingFound
<1>4. CASE Readers(c) \cap E # {}
  <2>1. ASSUME NEW f \in Readers(c) \cap E
        PROVE  \E x \in ReadersOf(E, c) : hists[x].e = f
    <3>1. PICK x \in DOMAIN hists : hists[x].e = f /\ KeptIn(E, x)
      BY DEF Built
    <3>2. c \in events[f].cont
      BY DEF Readers
    <3> QED
      BY <3>1, <3>2 DEF ReadersOf
  <2>2. PICK Y : Y = LastReaders(E, c)
    OBVIOUS
  <2>3. ReadTogether(c, Y)
    BY <1>1, <1>2, <1>4, <2>1, <2>2, LastReadersTogether
  <2>4. Y \in SUBSET DOMAIN hists /\ \A y \in Y : Initial(Evs(y), E)
    BY <2>2 DEF LastReaders, ReadersOf, KeptIn
  <2>5. LeftToCombine(c, Y) \/ HasEc(c, Y)
    BY <1>1, <1>2, <2>3, <2>4 DEF AllCombined
  <2>6. PICK r \in DOMAIN ecs : ecs[r].c = c /\ ecs[r].hs = Y
    BY <1>1, <2>5 DEF LeftToCombine, HasEc
  <2>7. ConfOf(r) = UNION {Evs(y) : y \in Y}
    BY <2>6 DEF ConfOf, EventsOf, Evs
  <2>8. Initial(ConfOf(r), E)
    BY <2>4, <2>7 DEF Initial
  <2>9. ASSUME NEW f \in Readers(c) \cap E PROVE f \in ConfOf(r)
    <3>1. PICK x \in ReadersOf(E, c) : hists[x].e = f
      BY <2>1
    <3>2. PICK y \in Y : f \in Evs(y)
      BY <1>1, <1>2, <2>2, <3>1, LastReadersCover
    <3> QED
      BY <2>7, <3>2
  <2> QED
    BY <2>6, <2>8, <2>9 DEF Represents
<1> QED
  BY <1>3, <1>4

(* One for each place that t consumes or reads.                            *)
Picks(E, t, p, r) ==
  /\ r \in DOMAIN ecs /\ ecs[r].c \in CutOf(E) /\ Place(r) = p
  /\ Initial(ConfOf(r), E)
  /\ p \in net.cont[t] => IsGen(r)
  /\ p \in net.pre[t] => Readers(ecs[r].c) \cap E \subseteq ConfOf(r)

PicksAll(E, t, f) == f \in [Arcs(t) -> DOMAIN ecs] /\ \A p \in Arcs(t) : Picks(E, t, p, f[p])

LEMMA PicksFound ==
  ASSUME Quiet, NEW E, Built(E), NEW t \in net.trans, Enabled(net, MarkingOf(E), t)
  PROVE  \E f : PicksAll(E, t, f)
<1>1. Consuming(net)
  BY QuietFacts, NetsAssumption DEF TypeOK
<1>2. ASSUME NEW p \in Arcs(t) PROVE \E r \in DOMAIN ecs : Picks(E, t, p, r)
  <2>1. PICK c \in CutOf(E) : conds[c].fp = p
    BY DEF Enabled, MarkingOf, Arcs
  <2>2. CASE p \in net.pre[t]
    <3>1. p \notin net.cont[t]
      BY <1>1, <2>2 DEF Consuming
    <3>2. Consumable(conds[c].fp)
      BY <2>1, <2>2 DEF Consumable
    <3>3. PICK r : Represents(r, E, c) /\ Readers(c) \cap E \subseteq ConfOf(r)
      BY <3>2, ReadingFound
    <3> QED
      BY <2>1, <3>1, <3>3 DEF Picks, Represents, Place
  <2>3. CASE p \notin net.pre[t]
    <3>1. Usable(conds[c].fp)
      BY <2>1 DEF Usable
    <3>2. PICK r : Represents(r, E, c) /\ IsGen(r)
      BY <3>1, GeneratingFound
    <3> QED
      BY <2>1, <2>3, <3>2 DEF Picks, Represents, Place
  <2> QED
    BY <2>2, <2>3
<1>3. PICK f : f = [p \in Arcs(t) |-> CHOOSE r \in DOMAIN ecs : Picks(E, t, p, r)]
  OBVIOUS
<1>4. \A p \in Arcs(t) : f[p] \in DOMAIN ecs /\ Picks(E, t, p, f[p])
  BY <1>2, <1>3
<1>5. f \in [Arcs(t) -> DOMAIN ecs]
  BY <1>3, <1>4
<1> QED
  BY <1>4, <1>5 DEF PicksAll

LEMMA PicksConcurrent ==
  ASSUME Quiet, NEW E, Built(E), NEW t \in net.trans,
         NEW p, NEW q, p # q, NEW r, NEW x, Picks(E, t, p, r), Picks(E, t, q, x)
  PROVE  /\ <<r, x>> \in co
         /\ p \in net.pre[t] => <<r, x>> \in dir
<1>1. Coherent /\ Found
  BY QuietFacts DEF Quiet
<1>2. r \in DOMAIN ecs /\ x \in DOMAIN ecs /\ ecs[r].c # ecs[x].c
  BY DEF Picks, Place
<1>3. PICK A, B, c, d : A = ConfOf(r) /\ B = ConfOf(x) /\ c = ecs[r].c /\ d = ecs[x].c
  OBVIOUS
<1>4. Initial(A, E) /\ Initial(B, E) /\ c \in CutOf(E) /\ d \in CutOf(E)
  BY <1>3 DEF Picks
<1>5. Compose(A, B)
  BY <1>4, PartsCompose DEF Built, Runs
<1>6. c \in CutOf(A) /\ d \in CutOf(B)
  BY <1>1, <1>2, <1>3 DEF Coherent, EcSound
<1>7. c \in CutOf(A \cup B) /\ d \in CutOf(A \cup B)
  BY <1>4, <1>6 DEF CutOf, Initial
<1>8. Concurrent(r, x)
  BY <1>2, <1>3, <1>5, <1>7 DEF Concurrent
<1>9. <<r, x>> \in co
  BY <1>1, <1>2, <1>8 DEF Found
<1>10. ASSUME p \in net.pre[t] PROVE <<r, x>> \in dir
  <2>1. Readers(c) \cap E \subseteq A
    BY <1>3, <1>10 DEF Picks
  <2>2. KeepsReaders(r, x)
    BY <1>3, <1>4, <2>1 DEF KeepsReaders, Initial
  <2>3. <<r, x>> \in dir <=> KeepsReaders(r, x)
    BY <1>1, <1>9 DEF Coherent, Related
  <2> QED
    BY <2>2, <2>3
<1> QED
  BY <1>9, <1>10

LEMMA PicksPass ==
  ASSUME Quiet, NEW E, Built(E), NEW t \in net.trans, NEW f, PicksAll(E, t, f)
  PROVE  Passes(t, f)
<1>1. ASSUME NEW p \in Arcs(t), NEW q \in Arcs(t), p # q PROVE Joint(t, f[p], f[q])
  <2>1. PICK r, x : r = f[p] /\ x = f[q]
    OBVIOUS
  <2>2. Picks(E, t, p, r) /\ Picks(E, t, q, x)
    BY <2>1 DEF PicksAll
  <2>3. <<r, x>> \in co /\ (p \in net.pre[t] => <<r, x>> \in dir)
    BY <1>1, <2>2, PicksConcurrent
  <2>4. q \in net.pre[t] => <<x, r>> \in dir
    BY <1>1, <2>2, PicksConcurrent
  <2>5. Place(r) = p /\ Place(x) = q
    BY <2>2 DEF Picks
  <2>6. Joint(t, r, x)
    BY <2>3, <2>4, <2>5 DEF Joint
  <2> QED
    BY <2>1, <2>6
<1>2. \A p \in Arcs(t) : Place(f[p]) = p /\ (p \in net.cont[t] => IsGen(f[p]))
  BY DEF PicksAll, Picks
<1> QED
  BY <1>1, <1>2 DEF Passes

(* The history h adds its event to E.                                      *)
Continues(E, t, h) ==
  /\ h \in DOMAIN hists /\ events[hists[h].e].ft = t
  /\ \E f : PicksAll(E, t, f) /\ hists[h].ecl = {f[p] : p \in Arcs(t)}

LEMMA ContinuationFound ==
  ASSUME Quiet, NEW E, Built(E), NEW t \in net.trans, Enabled(net, MarkingOf(E), t)
  PROVE  \E h : Continues(E, t, h)
<1>1. PICK f : PicksAll(E, t, f)
  BY PicksFound
<1>2. Passes(t, f)
  BY <1>1, PicksPass
<1>3. Explored /\ sols = {}
  BY QuietFacts DEF Quiet
<1>4. f \in [Arcs(t) -> DOMAIN ecs]
  BY <1>1 DEF PicksAll
<1>5. OccursOn(t, f)
  BY <1>2, <1>3, <1>4 DEF Explored
<1> QED
  BY <1>1, <1>5 DEF OccursOn, Continues

LEMMA ContinuationArcs ==
  ASSUME Quiet, NEW E, Built(E), NEW t \in net.trans, NEW h, Continues(E, t, h),
         NEW e, e = hists[h].e, NEW A, A = All(hists[h].ecl)
  PROVE  /\ h \in DOMAIN hists /\ e \in DOMAIN events /\ events[e].ft = t
         /\ events[e].pre \cup events[e].cont \subseteq CutOf(E) /\ e \notin E
         /\ Initial(A, E) /\ Evs(h) = {e} \cup A
         /\ \A c \in events[e].pre \cup events[e].cont : conds[c].pre \in A
         /\ \A c \in events[e].pre : Readers(c) \cap E \subseteq A
<1>1. /\ IInv /\ Labelled /\ Grounded /\ Marked /\ Coherent
  BY QuietFacts
<1>2. h \in DOMAIN hists /\ events[e].ft = t
  BY DEF Continues
<1>3. e \in DOMAIN events
  BY <1>1, <1>2, Elements DEF IInv, HistType
<1>5. PICK G : G = hists[h].ecl
  OBVIOUS
<1>6. {ecs[r].c : r \in G} = events[e].pre \cup events[e].cont
  BY <1>1, <1>2, <1>5 DEF Grounded, Footing
<1>7. PICK f : PicksAll(E, t, f) /\ G = {f[p] : p \in Arcs(t)}
  BY <1>5 DEF Continues
<1>8. \A r \in G : \E p \in Arcs(t) : Picks(E, t, p, r)
  BY <1>7 DEF PicksAll
<1>9. events[e].pre \cup events[e].cont \subseteq CutOf(E)
  BY <1>6, <1>8 DEF Picks
<1>10. events[e].pre # {}
  BY <1>1, <1>2, <1>3, Consumes, LabelFacts
<1>11. e \notin E
  BY <1>9, <1>10 DEF CutOf
<1>12. A = UNION {ConfOf(r) : r \in G}
  BY <1>5 DEF All
<1>13. Initial(A, E)
  BY <1>8, <1>12 DEF Initial, Picks
<1>14. Evs(h) = {e} \cup A
  BY <1>1, <1>2, HistoryEvents DEF Evs
<1>15. ASSUME NEW c \in events[e].pre \cup events[e].cont PROVE conds[c].pre \in A
  <2>1. PICK r \in G : ecs[r].c = c
    BY <1>6
  <2>2. c \in CutOf(ConfOf(r))
    BY <1>1, <1>8, <2>1 DEF Coherent, EcSound, Picks
  <2> QED
    BY <1>12, <2>1, <2>2 DEF CutOf
<1>16. ASSUME NEW c \in events[e].pre PROVE Readers(c) \cap E \subseteq A
  <2>1. PICK r \in G : ecs[r].c = c
    BY <1>6
  <2>2. PICK p \in Arcs(t) : Picks(E, t, p, r)
    BY <1>8, <2>1
  <2>3. p = conds[c].fp
    BY <2>1, <2>2 DEF Picks, Place
  <2>4. p \in net.pre[t]
    BY <1>1, <1>2, <1>3, <2>3, LabelFacts
  <2>5. Readers(c) \cap E \subseteq ConfOf(r)
    BY <2>1, <2>2, <2>4 DEF Picks
  <2> QED
    BY <1>12, <2>1, <2>5
<1> QED
  BY <1>2, <1>3, <1>9, <1>11, <1>13, <1>14, <1>15, <1>16

LEMMA OneMoreMarking ==
  ASSUME IInv, Labelled, NEW E, NEW R, NEW m, OneMore(E, R, m), Distinct(R)
  PROVE  /\ events[m].ft \in net.trans
         /\ Enabled(net, MarkingOf(R), events[m].ft)
         /\ MarkingOf(R \cup {m}) = Fire(net, MarkingOf(R), events[m].ft)
<1>1. PICK t, M, C, P, Q : /\ t = events[m].ft /\ M = MarkingOf(R) /\ C = CutOf(R)
                           /\ P = events[m].pre /\ Q = EventPost(m)
  OBVIOUS
<1>2. m \in DOMAIN events /\ m # 1
  BY DEF OneMore, Runs
<1>3. t \in net.trans
  BY <1>1, <1>2, LabelFacts
<1>4. /\ {conds[c].fp : c \in P} = net.pre[t]
      /\ {conds[c].fp : c \in events[m].cont} = net.cont[t]
  BY <1>1, <1>2 DEF Labelled, Label, OnePerPlace
<1>5. {conds[c].fp : c \in Q} = net.post[t]
  BY <1>1 DEF OneMore, Runs, Filled, OnePerPlace
<1>6. P \subseteq C /\ events[m].cont \subseteq C
  BY <1>1, OneMoreArcs
<1>7. CutOf(R \cup {m}) = (C \ P) \cup Q
  BY <1>1, OneMoreCut
<1>8. /\ \A c, d \in C : conds[c].fp = conds[d].fp => c = d
      /\ M = {conds[c].fp : c \in C}
  BY <1>1 DEF Distinct, MarkingOf
<1>9. Enabled(net, M, t)
  BY <1>4, <1>6, <1>8 DEF Enabled
<1>10. {conds[c].fp : c \in C \ P} = M \ net.pre[t]
  <2>1. ASSUME NEW c \in C \ P PROVE conds[c].fp \in M \ net.pre[t]
    BY <1>4, <1>6, <1>8
  <2>2. ASSUME NEW p \in M \ net.pre[t] PROVE \E c \in C \ P : conds[c].fp = p
    BY <1>4, <1>8
  <2> QED
    BY <2>1, <2>2
<1>11. MarkingOf(R \cup {m}) = Fire(net, M, t)
  BY <1>5, <1>7, <1>10 DEF MarkingOf, Fire
<1> QED
  BY <1>1, <1>3, <1>9, <1>11

LEMMA ContinuationRuns ==
  ASSUME EndOfRun, NEW E, Built(E), NEW t \in net.trans, NEW h, Continues(E, t, h),
         NEW e, e = hists[h].e, NEW D, D = E \cup {e}
  PROVE  /\ OneMore(D, E, e) /\ Initial(Evs(h), D)
         /\ MarkingOf(D) = Fire(net, MarkingOf(E), t)
<1>1. IInv /\ Labelled /\ Marked /\ IsSafe(net) /\ Quiet /\ Popped = DOMAIN hists
  BY EndFacts
<1>2. PICK A : A = All(hists[h].ecl)
  OBVIOUS
<1>3. /\ h \in DOMAIN hists /\ e \in DOMAIN events /\ events[e].ft = t
      /\ events[e].pre \cup events[e].cont \subseteq CutOf(E) /\ e \notin E
      /\ Initial(A, E) /\ Evs(h) = {e} \cup A
      /\ \A c \in events[e].pre \cup events[e].cont : conds[c].pre \in A
      /\ \A c \in events[e].pre : Readers(c) \cap E \subseteq A
  BY <1>1, <1>2, ContinuationArcs
<1>15. Filled(e)
  BY <1>1, <1>3, FilledPopped
<1>4. Runs(E) /\ E \subseteq DOMAIN events /\ Closed(E) /\ A \subseteq E
  BY <1>3 DEF Built, Runs, Initial
<1>5. Runs({e} \cup E)
  <2>1. \A c \in events[e].pre : conds[c].pre # e
    BY <1>3 DEF CutOf
  <2> QED
    BY <1>1, <1>3, <1>4, <1>15, <2>1, RunsTop
<1>6. Runs(D) /\ 1 \in E
  <2>1. D = {e} \cup E
    OBVIOUS
  <2> QED
    BY <1>1, <1>4, <1>5, <2>1, RootIn
<1>7. ASSUME NEW f \in E PROVE ~ Before(e, f)
  <2>1. EventPost(e) \cap (events[f].pre \cup events[f].cont) = {}
    BY <1>3, <1>4 DEF Closed, EventPost
  <2>2. events[e].cont \cap events[f].pre = {}
    BY <1>3 DEF CutOf
  <2> QED
    BY <2>1, <2>2 DEF Before
<1>8. Initial(E, D)
  BY <1>7 DEF Initial
<1>9. ASSUME NEW g \in D, Before(g, e) PROVE g \in A
  <2>1. g \in E /\ g \in DOMAIN events
    BY <1>4, <1>9 DEF Before
  <2>2. CASE EventPost(g) \cap (events[e].pre \cup events[e].cont) # {}
    BY <1>3, <2>2 DEF EventPost
  <2>3. CASE events[g].cont \cap events[e].pre # {}
    <3>1. PICK c \in events[e].pre : c \in events[g].cont
      BY <2>3
    <3>2. g \in Readers(c)
      BY <2>1, <3>1 DEF Readers
    <3> QED
      BY <1>3, <2>1, <3>2
  <2> QED
    BY <1>9, <2>2, <2>3 DEF Before
<1>10. Initial(Evs(h), D)
  BY <1>3, <1>4, <1>7, <1>9 DEF Initial
<1>11. Initial(D, D)
  BY DEF Initial
<1>12. OneMore(D, E, e)
  BY <1>3, <1>6, <1>8, <1>11 DEF OneMore
<1>13. Distinct(E)
  BY <1>1, <1>4, RunMarks DEF Marks
<1>14. MarkingOf(E \cup {e}) = Fire(net, MarkingOf(E), events[e].ft)
  BY <1>1, <1>12, <1>13, OneMoreMarking
<1> QED
  BY <1>3, <1>10, <1>12, <1>14

(* A history that is kept keeps the run in the prefix.                     *)
LEMMA ContinuationBuilt ==
  ASSUME EndOfRun, NEW E, Built(E), NEW t \in net.trans, NEW h, Continues(E, t, h),
         hists[h].corr = 0
  PROVE  Built(E \cup {hists[h].e})
<1>1. PICK e, D : e = hists[h].e /\ D = E \cup {e}
  OBVIOUS
<1>2. OneMore(D, E, e) /\ Initial(Evs(h), D)
  BY <1>1, ContinuationRuns
<1>3. Runs(D) /\ Initial(E, D)
  BY <1>2 DEF OneMore
<1>4. ASSUME NEW f \in D PROVE \E x \in DOMAIN hists : hists[x].e = f /\ KeptIn(D, x)
  <2>1. CASE f \in E
    <3>1. PICK x \in DOMAIN hists : hists[x].e = f /\ KeptIn(E, x)
      BY <2>1 DEF Built
    <3>2. Initial(Evs(x), D)
      BY <1>3, <3>1, InitialWithin DEF KeptIn
    <3> QED
      BY <1>4, <3>1, <3>2 DEF KeptIn
  <2>2. CASE f = e
    BY <1>1, <1>2, <1>4, <2>2 DEF KeptIn, Continues
  <2> QED
    BY <1>1, <2>1, <2>2
<1> QED
  BY <1>1, <1>3, <1>4 DEF Built

(* The corresponding history of a cutoff, smaller with the same marking.   *)
LEMMA HistoryBuilt ==
  ASSUME Quiet, NEW g \in DOMAIN hists, hists[g].corr = 0
  PROVE  Built(Evs(g))
<1>1. IInv /\ Labelled /\ Marked /\ Coherent /\ Shapely /\ KeptPopped
  BY QuietFacts
<1>2. Runs(Evs(g))
  BY <1>1, HistoryRuns DEF KeptPopped
<1>3. ASSUME NEW f \in Evs(g) PROVE \E x \in DOMAIN hists : hists[x].e = f /\ KeptIn(Evs(g), x)
  <2>1. PICK x \in hists[g].past : hists[x].e = f
    BY DEF Evs, EventsOf
  <2>2. x \in DOMAIN hists
    BY <1>1, Elements DEF IInv, HistType
  <2>3. hists[x].corr = 0
    BY <1>1 DEF IInv, BuiltOnNonCutoffs
  <2>4. Initial(Evs(x), Evs(g))
    BY <1>1, <2>1 DEF Shapely, Shaped
  <2> QED
    BY <2>1, <2>2, <2>3, <2>4 DEF KeptIn
<1> QED
  BY <1>2, <1>3 DEF Built

LEMMA CutoffReplaced ==
  ASSUME EndOfRun, NEW h \in DOMAIN hists, hists[h].corr # 0
  PROVE  \E g \in DOMAIN hists :
           /\ Built(Evs(g)) /\ MarkingOf(Evs(g)) = MarkingOf(Evs(h))
           /\ Cardinality(Evs(g)) \in Nat /\ Cardinality(Evs(h)) \in Nat
           /\ Cardinality(Evs(g)) < Cardinality(Evs(h))
<1>1. /\ IInv /\ Labelled /\ Grounded /\ UniqueEcls /\ Marked /\ Coherent /\ Arranged /\ Shapely
      /\ Popped = DOMAIN hists /\ Quiet /\ CutoffsGreater /\ CutoffsJustified /\ BySizeAlone
  BY EndFacts DEF EndOfRun
<1>2. PICK g : g = hists[h].corr
  OBVIOUS
<1>3. g \notin {0, h}
  BY <1>1, <1>2 DEF Marked
<1>4. g \in DOMAIN hists /\ Cardinality(hists[g].past) < Cardinality(hists[h].past)
  BY <1>1, <1>2, <1>3, CutoffLarger
<1>5. hists[g].corr = 0 /\ MarkingOf(Evs(g)) = MarkingOf(Evs(h))
  BY <1>1, <1>2, <1>3 DEF CutoffsJustified, Evs
<1>6. Cardinality(Evs(g)) = Cardinality(hists[g].past)
  BY <1>1, <1>4, HistoryOnce
<1>7. Cardinality(Evs(h)) = Cardinality(hists[h].past)
  BY <1>1, HistoryOnce
<1>8. Cardinality(hists[g].past) \in Nat
  BY <1>1, <1>4, PastCardinality
<1>9. Cardinality(hists[h].past) \in Nat
  BY <1>1, PastCardinality
<1>10. Built(Evs(g))
  BY <1>1, <1>4, <1>5, HistoryBuilt
<1> QED
  BY <1>4, <1>5, <1>6, <1>7, <1>8, <1>9, <1>10

LEMMA BuiltFeasible ==
  ASSUME Quiet, NEW E, Built(E)
  PROVE  E \in Feasible
<1>1. IInv /\ Labelled /\ Coherent /\ Shapely
  BY QuietFacts
<1>2. Runs(E) /\ 1 \in E /\ IsFiniteSet(E)
  <2>1. Runs(E)
    BY DEF Built
  <2>2. 1 \in E
    BY <1>1, <2>1, RootIn
  <2>3. IsFiniteSet(E)
    BY <1>1, <2>1, FiniteEvents DEF Runs
  <2> QED
    BY <2>1, <2>2, <2>3
<1>3. Acyclic(E)
  <2> SUFFICES ASSUME NEW x \in E, NEW y \in E, x # y,
                      x \in Below(E, y), y \in Below(E, x)
               PROVE  FALSE
    BY DEF Acyclic
  <2>1. PICK S \in SUBSET E : Initial(S, E) /\ ~ (x \in S <=> y \in S)
    BY <1>2 DEF Runs, Separated
  <2>2. CASE x \in S
    <3>1. Below(E, x) \subseteq S
      BY <1>2, <2>1, <2>2, BelowFacts
    <3> QED
      BY <2>1, <2>2, <3>1
  <2>3. CASE y \in S
    <3>1. Below(E, y) \subseteq S
      BY <1>2, <2>1, <2>3, BelowFacts
    <3> QED
      BY <2>1, <2>3, <3>1
  <2> QED
    BY <2>1, <2>2, <2>3
<1>4. IsConfiguration(E)
  BY <1>2, <1>3 DEF IsConfiguration, Runs, ConflictFree
<1>5. ASSUME NEW e \in E
      PROVE  \E h \in DOMAIN hists : /\ hists[h].e = e /\ hists[h].corr = 0
                                     /\ EventsOf(hists[h].past) = Below(E, e)
  <2>1. PICK h \in DOMAIN hists : hists[h].e = e /\ KeptIn(E, h)
    BY DEF Built
  <2>2. PICK B, D : B = Below(E, e) /\ D = Evs(h)
    OBVIOUS
  <2>3. Initial(D, E) /\ Rooted(D, e)
    BY <1>1, <2>1, <2>2 DEF KeptIn, Shapely, Shaped
  <2>4. /\ B \in SUBSET E /\ e \in B /\ Initial(B, E)
        /\ \A S \in SUBSET E : e \in S /\ Initial(S, E) => B \subseteq S
    BY <1>2, <2>2, BelowFacts
  <2>5. B \subseteq D
    BY <2>3, <2>4 DEF Rooted, Initial
  <2>6. D \subseteq B
    BY <2>3, <2>4, TopWithin DEF Initial
  <2>7. EventsOf(hists[h].past) = B
    BY <2>2, <2>5, <2>6 DEF Evs
  <2> QED
    BY <2>1, <2>2, <2>7 DEF KeptIn
<1>6. E \in SUBSET {hists[h].e : h \in {x \in DOMAIN hists : hists[x].corr = 0}}
  <2>1. \A e \in E : \E h \in DOMAIN hists : hists[h].e = e /\ hists[h].corr = 0
    BY <1>5
  <2> QED
    BY <2>1
<1> QED
  BY <1>2, <1>4, <1>5, <1>6 DEF Feasible

-----------------------------------------------------------------------------
(* Firing sequences.                                                       *)

Fires(s, n) == \A i \in 0..n - 1 : s[i + 1] \in Successors(net, s[i])

Path(a, b, n) ==
  \E s \in [0..n -> SUBSET net.places] : s[0] = a /\ s[n] = b /\ Fires(s, n)

LEMMA PathNone ==
  ASSUME NEW a \in SUBSET net.places
  PROVE  Path(a, a, 0)
<1>1. PICK s : s = [i \in 0..0 |-> a]
  OBVIOUS
<1>2. s \in [0..0 -> SUBSET net.places] /\ s[0] = a
  BY <1>1
<1>3. Fires(s, 0)
  BY DEF Fires
<1> QED
  BY <1>2, <1>3 DEF Path

LEMMA PathJoin ==
  ASSUME NEW m \in Nat, NEW n \in Nat, NEW a, NEW b, NEW c, Path(a, b, m), Path(b, c, n)
  PROVE  Path(a, c, m + n)
<1>1. PICK s \in [0..m -> SUBSET net.places] : s[0] = a /\ s[m] = b /\ Fires(s, m)
  BY DEF Path
<1>2. PICK u \in [0..n -> SUBSET net.places] : u[0] = b /\ u[n] = c /\ Fires(u, n)
  BY DEF Path
<1>3. PICK w : w = [i \in 0..m + n |-> IF i <= m THEN s[i] ELSE u[i - m]]
  OBVIOUS
<1>4. w \in [0..m + n -> SUBSET net.places]
  <2>1. \A i \in 0..m + n : (IF i <= m THEN s[i] ELSE u[i - m]) \in SUBSET net.places
    OBVIOUS
  <2> QED
    BY <1>3, <2>1
<1>5. /\ \A i \in 0..m : w[i] = s[i]
      /\ \A i \in 0..n : w[m + i] = u[i]
  BY <1>1, <1>2, <1>3
<1>6. ASSUME NEW i \in 0..m + n - 1 PROVE w[i + 1] \in Successors(net, w[i])
  <2>1. CASE i < m
    <3>1. i \in 0..m - 1 /\ i \in 0..m /\ i + 1 \in 0..m
      BY <2>1
    <3> QED
      BY <1>1, <1>5, <3>1 DEF Fires
  <2>2. CASE ~ (i < m)
    <3>1. PICK k : k = i - m
      OBVIOUS
    <3>2. k \in 0..n - 1 /\ k \in 0..n /\ k + 1 \in 0..n /\ i = m + k /\ i + 1 = m + (k + 1)
      BY <2>2, <3>1
    <3>3. u[k + 1] \in Successors(net, u[k])
      BY <1>2, <3>2 DEF Fires
    <3> QED
      BY <1>5, <3>2, <3>3
  <2> QED
    BY <2>1, <2>2
<1>7. w[0] = a /\ w[m + n] = c
  BY <1>1, <1>2, <1>5
<1>8. Fires(w, m + n)
  BY <1>6 DEF Fires
<1> QED
  BY <1>4, <1>7, <1>8 DEF Path

LEMMA PathStep ==
  ASSUME NEW a \in SUBSET net.places, NEW b \in SUBSET net.places, b \in Successors(net, a)
  PROVE  Path(a, b, 1)
<1>1. PICK s : s = [i \in 0..1 |-> IF i = 0 THEN a ELSE b]
  OBVIOUS
<1>2. s \in [0..1 -> SUBSET net.places] /\ s[0] = a /\ s[1] = b
  BY <1>1
<1>3. Fires(s, 1)
  BY <1>2 DEF Fires
<1> QED
  BY <1>2, <1>3 DEF Path

LEMMA PathFirst ==
  ASSUME NEW n \in Nat, NEW a, NEW b, Path(a, b, n + 1)
  PROVE  \E c \in Successors(net, a) : Path(c, b, n)
<1>1. PICK s \in [0..n + 1 -> SUBSET net.places] : s[0] = a /\ s[n + 1] = b /\ Fires(s, n + 1)
  BY DEF Path
<1>2. PICK u : u = [i \in 0..n |-> s[i + 1]]
  OBVIOUS
<1>3. u \in [0..n -> SUBSET net.places] /\ \A i \in 0..n : u[i] = s[i + 1]
  BY <1>2
<1>4. \A i \in 0..n : s[i + 1] \in Successors(net, s[i])
  BY <1>1 DEF Fires
<1>5. ASSUME NEW i \in 0..n - 1 PROVE u[i + 1] \in Successors(net, u[i])
  <2>1. i + 1 \in 0..n /\ i \in 0..n
    OBVIOUS
  <2>2. s[i + 1 + 1] \in Successors(net, s[i + 1])
    BY <1>4, <2>1
  <2> QED
    BY <1>3, <2>1, <2>2
<1>6. u[0] = s[1] /\ u[n] = b
  BY <1>1, <1>3
<1>7. s[1] \in Successors(net, a)
  <2>1. 0 \in 0..n
    OBVIOUS
  <2>2. s[0 + 1] \in Successors(net, s[0])
    BY <1>4, <2>1
  <2> QED
    BY <1>1, <2>2
<1>8. Path(s[1], b, n)
  BY <1>3, <1>5, <1>6 DEF Path, Fires
<1> QED
  BY <1>7, <1>8

LEMMA SuccessorType ==
  ASSUME IsNet(net), NEW a \in SUBSET net.places
  PROVE  Successors(net, a) \subseteq SUBSET net.places
BY DEF Successors, Fire, IsNet

(* Every reachable marking ends one.                                       *)
LEMMA ReachablePath ==
  ASSUME IsNet(net), IsFiniteSet(net.places)
  PROVE  \A m \in Reachable(net) :
           m \in SUBSET net.places /\ \E n \in Nat : Path(net.post[T0], m, n)
<1>1. PICK i : i = net.post[T0]
  OBVIOUS
<1>2. PICK T : T = {m \in SUBSET net.places : \E n \in Nat : Path(i, m, n)}
  OBVIOUS
<1>3. i \in T
  <2>1. i \in SUBSET net.places
    BY <1>1 DEF IsNet
  <2>2. Path(i, i, 0)
    BY <2>1, PathNone
  <2> QED
    BY <1>2, <2>1, <2>2
<1>4. ASSUME NEW m \in T, NEW k \in Successors(net, m) PROVE k \in T
  <2>1. m \in SUBSET net.places /\ k \in SUBSET net.places
    BY <1>2, SuccessorType
  <2>2. PICK n \in Nat : Path(i, m, n)
    BY <1>2
  <2>3. Path(m, k, 1)
    BY <2>1, PathStep
  <2>4. Path(i, k, n + 1)
    BY <2>2, <2>3, PathJoin
  <2> QED
    BY <1>2, <2>1, <2>4
<1>5. Reachable(net) \subseteq T
  <2>1. T \in SUBSET SUBSET net.places /\ net.post[T0] \in T
    BY <1>1, <1>2, <1>3
  <2>2. \A m \in T : Successors(net, m) \subseteq T
    BY <1>4
  <2> QED
    BY <2>1, <2>2, ReachableFacts
<1> QED
  BY <1>1, <1>2, <1>5

-----------------------------------------------------------------------------
(* A run fires what it adds to its parts.                                  *)
LEMMA MarkingType ==
  ASSUME IInv, NEW E
  PROVE  MarkingOf(E) \in SUBSET net.places
<1>1. \A c \in DOMAIN conds : conds[c].fp \in net.places
  BY Elements DEF IInv, CondType
<1> QED
  BY <1>1 DEF MarkingOf, CutOf

PathTo(D, S) ==
  /\ IsFiniteSet(S)
  /\ \E n \in Nat : /\ Cardinality(S) = Cardinality(D) + n
                    /\ Path(MarkingOf(D), MarkingOf(S), n)

LEMMA RunPath ==
  ASSUME IInv, Labelled, IsSafe(net), NEW E, Runs(E), NEW D, Runs(D), Initial(D, E)
  PROVE  PathTo(D, E)
<1> DEFINE Wrong == {S \in SUBSET E : Initial(S, E) /\ D \subseteq S /\ ~ PathTo(D, S)}
<1> SUFFICES ASSUME ~ PathTo(D, E) PROVE FALSE
  OBVIOUS
<1>1. E \in Wrong
  BY DEF Initial
<1>2. PICK S \in Wrong : \A T \in Wrong : T \subseteq S => T = S
  <2>1. IsFiniteSet(E)
    BY FiniteEvents DEF Runs
  <2>2. Wrong \in SUBSET SUBSET E /\ Wrong # {}
    BY <1>1
  <2> HIDE DEF Wrong
  <2> QED
    BY <2>1, <2>2, LeastSet
<1>3. Initial(S, E) /\ D \subseteq S /\ ~ PathTo(D, S)
  OBVIOUS
<1>4. IsFiniteSet(D) /\ Cardinality(D) \in Nat /\ 1 \in D
  <2>1. IsFiniteSet(D)
    BY FiniteEvents DEF Runs
  <2>2. Cardinality(D) \in Nat
    BY <2>1, FS_CardinalityType
  <2> QED
    BY <2>1, <2>2, RootIn
<1>5. S # D
  <2>1. Cardinality(D) = Cardinality(D) + 0 /\ 0 \in Nat
    BY <1>4
  <2>2. MarkingOf(D) \in SUBSET net.places
    BY MarkingType
  <2>3. Path(MarkingOf(D), MarkingOf(D), 0)
    BY <2>2, PathNone
  <2> QED
    BY <1>3, <1>4, <2>1, <2>3 DEF PathTo
<1>6. PICK R \in SUBSET S, m \in S : /\ Initial(R, E) /\ D \subseteq R
                                     /\ m \notin R /\ S = R \cup {m}
  BY <1>3, <1>5, LastEventOver
<1>7. PathTo(D, R)
  <2>1. R \in SUBSET E /\ R # S
    BY <1>3, <1>6 DEF Initial
  <2>2. R \notin Wrong
    BY <1>2, <1>6, <2>1
  <2> QED
    BY <1>6, <2>1, <2>2
<1>8. OneMore(E, R, m)
  BY <1>3, <1>4, <1>6 DEF OneMore, Initial
<1>9. Distinct(R)
  <2>1. Runs(R)
    BY <1>4, <1>6, PartRuns
  <2> QED
    BY <2>1, RunMarks DEF Marks
<1>10. PICK a, b, c : a = MarkingOf(D) /\ b = MarkingOf(R) /\ c = MarkingOf(S)
  OBVIOUS
<1>11. c \in Successors(net, b)
  <2>1. /\ events[m].ft \in net.trans
        /\ Enabled(net, MarkingOf(R), events[m].ft)
        /\ MarkingOf(R \cup {m}) = Fire(net, MarkingOf(R), events[m].ft)
    BY <1>8, <1>9, OneMoreMarking
  <2> QED
    BY <1>6, <1>10, <2>1 DEF Successors
<1>12. PICK k \in Nat : Cardinality(R) = Cardinality(D) + k /\ Path(a, b, k)
  BY <1>7, <1>10 DEF PathTo
<1>13. IsFiniteSet(S) /\ Cardinality(S) = Cardinality(D) + (k + 1)
  <2>1. IsFiniteSet(R)
    BY <1>7 DEF PathTo
  <2>2. IsFiniteSet(R \cup {m}) /\ Cardinality(R \cup {m}) = Cardinality(R) + 1
    BY <1>6, <2>1, FS_AddElement
  <2> QED
    BY <1>4, <1>6, <1>12, <2>2
<1>14. Path(b, c, 1)
  <2>1. b \in SUBSET net.places /\ c \in SUBSET net.places
    BY <1>10, MarkingType
  <2> QED
    BY <1>11, <2>1, PathStep
<1>15. Path(a, c, k + 1)
  BY <1>12, <1>14, PathJoin
<1>16. Path(MarkingOf(D), MarkingOf(S), k + 1)
  BY <1>10, <1>15
<1>17. k + 1 \in Nat
  OBVIOUS
<1> QED
  BY <1>3, <1>13, <1>16, <1>17 DEF PathTo

-----------------------------------------------------------------------------
(* Every reachable marking is that of a run of kept histories: among the    *)
(* runs from which a firing sequence leads to it take those whose events    *)
(* and remaining steps are the fewest together, and of them one with the    *)
(* fewest steps. A step that remains either extends the run or ends in a    *)
(* cutoff, whose corresponding history is smaller.                         *)
Reaches(m, F, j) == Built(F) /\ j \in Nat /\ Path(MarkingOf(F), m, j)

Costs(m, k) ==
  \E F, j : Reaches(m, F, j) /\ Cardinality(F) \in Nat /\ k = Cardinality(F) + j

LEMMA BuiltFinite ==
  ASSUME EndOfRun, NEW F, Built(F)
  PROVE  IsFiniteSet(F) /\ Cardinality(F) \in Nat
<1>1. IsFiniteSet(F)
  BY EndFacts, FiniteEvents DEF Built, Runs
<1> QED
  BY <1>1, FS_CardinalityType

LEMMA StepTaken ==
  ASSUME EndOfRun, NEW m, NEW F, NEW i \in Nat, Reaches(m, F, i + 1),
         NEW n \in Nat, n = Cardinality(F)
  PROVE  \/ \E D : Reaches(m, D, i) /\ Cardinality(D) = n + 1
         \/ \E k \in Nat : Costs(m, k) /\ k < n + i + 1
<1>1. Built(F) /\ Path(MarkingOf(F), m, i + 1) /\ Quiet
  BY EndFacts DEF Reaches
<1>2. PICK c \in Successors(net, MarkingOf(F)) : Path(c, m, i)
  BY <1>1, PathFirst
<1>3. PICK t \in net.trans : Enabled(net, MarkingOf(F), t) /\ c = Fire(net, MarkingOf(F), t)
  BY <1>2 DEF Successors
<1>4. PICK h : Continues(F, t, h)
  BY <1>1, <1>3, ContinuationFound
<1>5. PICK e, A, D : e = hists[h].e /\ A = All(hists[h].ecl) /\ D = F \cup {e}
  OBVIOUS
<1>6. h \in DOMAIN hists /\ e \notin F
  BY <1>1, <1>4, <1>5, ContinuationArcs
<1>7. OneMore(D, F, e) /\ Initial(Evs(h), D) /\ MarkingOf(D) = c
  BY <1>1, <1>3, <1>4, <1>5, ContinuationRuns
<1>8. Cardinality(D) = n + 1
  <2>1. IsFiniteSet(F)
    BY <1>1, BuiltFinite
  <2>2. Cardinality(F \cup {e}) = Cardinality(F) + 1
    BY <1>6, <2>1, FS_AddElement
  <2> QED
    BY <1>5, <2>2
<1>9. CASE hists[h].corr = 0
  <2>1. Built(D)
    BY <1>1, <1>4, <1>5, <1>9, ContinuationBuilt
  <2>2. Reaches(m, D, i)
    BY <1>2, <1>7, <2>1 DEF Reaches
  <2> QED
    BY <1>8, <2>2
<1>10. CASE hists[h].corr # 0
  <2>1. PICK g \in DOMAIN hists :
          /\ Built(Evs(g)) /\ MarkingOf(Evs(g)) = MarkingOf(Evs(h))
          /\ Cardinality(Evs(g)) \in Nat /\ Cardinality(Evs(h)) \in Nat
          /\ Cardinality(Evs(g)) < Cardinality(Evs(h))
    BY <1>6, <1>10, CutoffReplaced
  <2>2. PathTo(Evs(h), D)
    <3>1. Runs(D)
      BY <1>7 DEF OneMore
    <3>2. Runs(Evs(h))
      BY <1>6, EndFacts, HistoryRuns
    <3>3. IInv /\ Labelled /\ IsSafe(net)
      BY EndFacts
    <3> QED
      BY <1>7, <3>1, <3>2, <3>3, RunPath
  <2>3. PICK x, y : x = Cardinality(Evs(g)) /\ y = Cardinality(Evs(h))
    OBVIOUS
  <2>4. PICK a : a = MarkingOf(Evs(g))
    OBVIOUS
  <2>5. PICK p \in Nat : Cardinality(D) = y + p /\ Path(a, c, p)
    BY <1>7, <2>1, <2>2, <2>3, <2>4 DEF PathTo
  <2>6. Path(a, m, p + i)
    BY <1>2, <2>5, PathJoin
  <2>7. Reaches(m, Evs(g), p + i)
    <3>1. p + i \in Nat
      OBVIOUS
    <3> QED
      BY <2>1, <2>4, <2>6, <3>1 DEF Reaches
  <2>8. PICK k : k = x + (p + i)
    OBVIOUS
  <2>9. Costs(m, k)
    BY <2>1, <2>3, <2>7, <2>8 DEF Costs
  <2>10. k \in Nat /\ k < n + i + 1
    <3>1. x \in Nat /\ y \in Nat /\ x < y /\ y + p = n + 1
      BY <1>8, <2>1, <2>3, <2>5
    <3> QED
      BY <2>8, <3>1
  <2> QED
    BY <2>9, <2>10
<1> QED
  BY <1>9, <1>10

LEMMA CompletedFrom ==
  ASSUME EndOfRun, NEW m, NEW E, NEW n, Reaches(m, E, n)
  PROVE  \E D : Built(D) /\ MarkingOf(D) = m
<1>1. PICK S : S = {k \in Nat : Costs(m, k)}
  OBVIOUS
<1>2. S \in SUBSET Nat /\ S # {}
  <2>1. PICK x : x = Cardinality(E)
    OBVIOUS
  <2>2. x \in Nat /\ n \in Nat
    BY <2>1, BuiltFinite DEF Reaches
  <2>3. Costs(m, x + n)
    BY <2>1, <2>2 DEF Costs
  <2>4. x + n \in Nat
    BY <2>2
  <2> QED
    BY <1>1, <2>3, <2>4
<1>3. PICK k \in S : \A l \in S : k <= l
  BY <1>2, NatMin
<1>4. PICK T : T = {j \in Nat : \E F : /\ Reaches(m, F, j) /\ Cardinality(F) \in Nat
                                      /\ k = Cardinality(F) + j}
  OBVIOUS
<1>5. T \in SUBSET Nat /\ T # {}
  BY <1>1, <1>3, <1>4 DEF Costs, Reaches
<1>6. PICK j \in T : \A l \in T : j <= l
  BY <1>5, NatMin
<1>7. PICK F : Reaches(m, F, j) /\ Cardinality(F) \in Nat /\ k = Cardinality(F) + j
  BY <1>4, <1>6
<1>8. CASE j = 0
  <2>1. Path(MarkingOf(F), m, 0) /\ Built(F)
    BY <1>7, <1>8 DEF Reaches
  <2>2. MarkingOf(F) = m
    BY <2>1 DEF Path
  <2> QED
    BY <2>1, <2>2
<1>9. CASE j # 0
  <2>1. PICK i, x : i = j - 1 /\ x = Cardinality(F)
    OBVIOUS
  <2>2. i \in Nat /\ j = i + 1 /\ x \in Nat /\ k = x + i + 1 /\ i < j
    BY <1>4, <1>6, <1>7, <1>9, <2>1
  <2>3. Reaches(m, F, i + 1)
    BY <1>7, <2>2
  <2>4. \/ \E D : Reaches(m, D, i) /\ Cardinality(D) = x + 1
        \/ \E l \in Nat : Costs(m, l) /\ l < x + i + 1
    BY <2>1, <2>2, <2>3, StepTaken
  <2>5. ASSUME NEW D, Reaches(m, D, i), Cardinality(D) = x + 1 PROVE FALSE
    <3>1. Cardinality(D) \in Nat /\ k = Cardinality(D) + i
      BY <2>2, <2>5
    <3>2. i \in T
      BY <1>4, <2>2, <2>5, <3>1
    <3> QED
      BY <1>5, <1>6, <2>2, <3>2
  <2>6. ASSUME NEW l \in Nat, Costs(m, l), l < x + i + 1 PROVE FALSE
    <3>1. l \in S
      BY <1>1, <2>6
    <3> QED
      BY <1>2, <1>3, <2>2, <2>6, <3>1
  <2> QED
    BY <2>4, <2>5, <2>6
<1> QED
  BY <1>8, <1>9

LEMMA RootBuilt ==
  ASSUME Quiet
  PROVE  Built({1}) /\ MarkingOf({1}) = net.post[T0]
<1>1. /\ IInv /\ Labelled /\ Shapely /\ Coherent /\ Marked /\ Recorded
  BY QuietFacts DEF Quiet
<1>2. 1 \in DOMAIN hists /\ 1 \in Popped /\ hists[1].corr = 0 /\ hists[1].e = 1
  BY <1>1, FirstKept DEF Popped
<1>3. Runs(Evs(1)) /\ Built(Evs(1))
  BY <1>1, <1>2, HistoryRuns, HistoryBuilt
<1>4. Initial({1}, Evs(1))
  BY <1>1, <1>3, RootFirst
<1>5. Evs(1) = {1}
  <2>1. Rooted(Evs(1), 1)
    BY <1>1, <1>2 DEF Shapely, Shaped
  <2> QED
    BY <1>4, <2>1 DEF Rooted, Initial
<1>6. 1 \in DOMAIN events /\ Filled(1)
  BY <1>3, <1>5 DEF Runs
<1>7. events[1].pre = {} /\ events[1].cont = {} /\ events[1].ft = T0
  BY <1>1, <1>6, LabelFacts DEF Labelled, Label
<1>8. CutOf({1}) = EventPost(1)
  BY <1>7 DEF CutOf, EventPost
<1>9. OnePerPlace(EventPost(1), net.post[T0])
  BY <1>6, <1>7 DEF Filled
<1>10. MarkingOf({1}) = net.post[T0]
  BY <1>8, <1>9 DEF MarkingOf, OnePerPlace
<1> QED
  BY <1>3, <1>5, <1>10

Represented(m) ==
  \E E \in Feasible :
    /\ MarkingOf(E) = m
    /\ \A t \in net.trans : Enabled(net, m, t) =>
         \E e \in DOMAIN events :
           /\ events[e].ft = t
           /\ events[e].pre \cup events[e].cont \subseteq CutOf(E)

LEMMA EndComplete ==
  ASSUME EndOfRun, NEW m \in Reachable(net)
  PROVE  Represented(m)
<1>1. Quiet /\ Built({1}) /\ MarkingOf({1}) = net.post[T0]
  BY EndFacts, RootBuilt
<1>2. IsNet(net) /\ IsFiniteSet(net.places)
  BY EndFacts
<1>3. PICK n \in Nat : Path(net.post[T0], m, n)
  BY <1>2, ReachablePath
<1>4. Reaches(m, {1}, n)
  BY <1>1, <1>3 DEF Reaches
<1>5. PICK D : Built(D) /\ MarkingOf(D) = m
  BY <1>4, CompletedFrom
<1>6. D \in Feasible
  BY <1>1, <1>5, BuiltFeasible
<1>7. ASSUME NEW t \in net.trans, Enabled(net, m, t)
      PROVE  \E e \in DOMAIN events :
               /\ events[e].ft = t
               /\ events[e].pre \cup events[e].cont \subseteq CutOf(D)
  <2>1. PICK h : Continues(D, t, h)
    BY <1>1, <1>5, <1>7, ContinuationFound
  <2>2. PICK e, A : e = hists[h].e /\ A = All(hists[h].ecl)
    OBVIOUS
  <2>3. /\ e \in DOMAIN events /\ events[e].ft = t
        /\ events[e].pre \cup events[e].cont \subseteq CutOf(D)
    BY <1>1, <1>5, <2>1, <2>2, ContinuationArcs
  <2> QED
    BY <2>3
<1> QED
  BY <1>5, <1>6, <1>7 DEF Represented

(* The prefix the program ends with represents every reachable marking of  *)
(* the net, with an event for every transition it enables: for 1-safe nets *)
(* whose transitions take at most one token that another one reads, when    *)
(* histories are compared by their size alone or not at all and no quota   *)
(* stopped the unfolder.                                                   *)
THEOREM PrefixIsComplete == Spec => [](SingleReads(net) /\ BySizeAlone /\ WithinQuotas => Complete)
<1>1. /\ Recorded /\ AtWork /\ FoundInv /\ Explored /\ AllExpanded /\ AllCombined
      /\ CutoffsGreater /\ CutoffsJustified
      => (SingleReads(net) /\ BySizeAlone /\ WithinQuotas => Complete)
  <2> SUFFICES ASSUME Recorded, AtWork, FoundInv, Explored, AllExpanded, AllCombined,
                      CutoffsGreater, CutoffsJustified,
                      SingleReads(net), BySizeAlone, WithinQuotas,
                      Done, SafeNet[net]
               PROVE  \A m \in ReachableOf[net] : Represented(m)
    BY DEF Complete, Represented
  <2>1. IInv /\ TypeOK
    BY DEF Recorded, Foundation, IInv
  <2>2. net \in Nets
    BY <2>1 DEF TypeOK
  <2>3. IsSafe(net) /\ ReachableOf[net] = Reachable(net)
    BY <2>2 DEF SafeNet, ReachableOf
  <2>4. EndOfRun
    BY <2>3 DEF EndOfRun, Quiet, FoundInv, Done
  <2> QED
    BY <2>3, <2>4, EndComplete
<1> QED
  BY <1>1, RecordedAlways, AtWorkAlways, FoundAlways, ExploredAlways, AllExpandedAlways,
     AllCombinedAlways, CutoffsGreaterAlways, CutoffsSound, PTL
=============================================================================
