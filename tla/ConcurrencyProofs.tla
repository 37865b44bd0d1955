------------------------- MODULE ConcurrencyProofs -------------------------
(***************************************************************************)
(* The concurrency relation of the enriched conditions and the histories   *)
(* that are built from it, for every net of NetsAssumption and every       *)
(* command line: entries of the lists co and their bits mean what ec.c     *)
(* takes them to mean, and where transitions read one place at most none   *)
(* is missing.  On top of the inductive invariant of UnfolderProofs.       *)
(***************************************************************************)
EXTENDS UnfolderProofs

(* Two sets of events that can both be extended to their union, which      *)
(* leaves the conditions c and d in its cut.                               *)
GoTogether(E, F, c, d) == Compose(E, F) /\ c \in CutOf(E \cup F) /\ d \in CutOf(E \cup F)

(* R are the events of E that read from its cut, and perhaps others of E.  *)
ReadersIn(E, R) ==
  /\ R \subseteq E
  /\ \A c \in CutOf(E) : Readers(c) \cap E \subseteq R

LEMMA FitsSymmetric ==
  ASSUME NEW E, NEW F, NEW c, NEW d, GoTogether(E, F, c, d)
  PROVE  GoTogether(F, E, d, c)
<1>1. E \cup F = F \cup E
  OBVIOUS
<1>2. Compose(F, E)
  BY DEF GoTogether, Compose, Conflict
<1> QED
  BY <1>1, <1>2 DEF GoTogether

LEMMA CutUnion ==
  ASSUME NEW D, NEW E, NEW c, c \in CutOf(D), c \in CutOf(E)
  PROVE  c \in CutOf(D \cup E)
BY DEF CutOf

LEMMA FitsUnion ==
  ASSUME NEW D, NEW E, NEW F, NEW c, NEW d, GoTogether(D, F, c, d), GoTogether(E, F, c, d)
  PROVE  GoTogether(D \cup E, F, c, d)
<1>1. Compose(D \cup E, F)
  BY DEF GoTogether, Compose
<1>2. (D \cup F) \cup (E \cup F) = (D \cup E) \cup F
  OBVIOUS
<1>3. c \in CutOf((D \cup E) \cup F) /\ d \in CutOf((D \cup E) \cup F)
  BY <1>2, CutUnion DEF GoTogether
<1> QED
  BY <1>1, <1>3 DEF GoTogether

LEMMA FitsItself ==
  ASSUME NEW E, NEW c, NEW d, ConflictFree(E), c \in CutOf(E), d \in CutOf(E)
  PROVE  GoTogether(E, E, c, d)
<1>1. E \cup E = E /\ E \ E = {}
  OBVIOUS
<1>2. Compose(E, E)
  BY <1>1 DEF Compose, ConflictFree
<1> QED
  BY <1>1, <1>2 DEF GoTogether

(* A condition that an event of E uses or produced is in the cut of E if   *)
(* it is in the one of more events.                                        *)
LEMMA CutOfPart ==
  ASSUME NEW E, NEW D, Closed(E), E \subseteq D, NEW c \in CutOf(D), NEW x \in E,
         c \in events[x].pre \cup events[x].cont \/ conds[c].pre = x
  PROVE  c \in CutOf(E)
<1>1. conds[c].pre \in E
  BY DEF Closed
<1> QED
  BY <1>1 DEF CutOf

LEMMA ReadersUnion ==
  ASSUME NEW D, NEW E, NEW R, NEW S, Closed(D), Closed(E), ReadersIn(D, R), ReadersIn(E, S)
  PROVE  ReadersIn(D \cup E, R \cup S)
<1> SUFFICES ASSUME NEW c \in CutOf(D \cup E), NEW x \in Readers(c), x \in D \cup E
             PROVE  x \in R \cup S
  BY DEF ReadersIn
<1>1. c \in events[x].cont
  BY DEF Readers
<1>2. CASE x \in D
  <2>1. c \in CutOf(D)
    BY <1>1, <1>2, CutOfPart
  <2> QED
    BY <1>2, <2>1 DEF ReadersIn
<1>3. CASE x \in E
  <2>1. c \in CutOf(E)
    BY <1>1, <1>3, CutOfPart
  <2> QED
    BY <1>3, <2>1 DEF ReadersIn
<1> QED
  BY <1>2, <1>3

(* The readers of c in F, where c is in the cut of E and F, are those of S. *)
LEMMA ReadersFound ==
  ASSUME NEW E, NEW F, NEW S, NEW c, Closed(F), ReadersIn(F, S), c \in CutOf(E \cup F)
  PROVE  \A x \in Readers(c) : x \in F <=> x \in S
<1> SUFFICES ASSUME NEW x \in Readers(c), x \in F PROVE x \in S
  BY DEF ReadersIn
<1>1. c \in events[x].cont
  BY DEF Readers
<1>2. c \in CutOf(F)
  BY <1>1, CutOfPart
<1> QED
  BY <1>2 DEF ReadersIn

(* What a set of conditions needs to be the preset and context of the      *)
(* event e: enriched conditions that are pairwise concurrent.              *)
All(G) == UNION {ConfOf(g) : g \in G}

Sound(g) ==
  /\ Closed(ConfOf(g)) /\ ConflictFree(ConfOf(g)) /\ ecs[g].c \in CutOf(ConfOf(g))

Extends(e, G) ==
  /\ events[e].pre \cup events[e].cont = {ecs[g].c : g \in G}
  /\ events[e].pre \cap events[e].cont = {}
  /\ G # {} => events[e].pre # {}
  /\ \A c \in events[e].pre : conds[c].pre # e
  /\ \A g \in G : Sound(g)
  /\ \A g, q \in G : /\ ecs[g].c = ecs[q].c => g = q
                     /\ g # q => Concurrent(g, q)

LEMMA ExtendsCut ==
  ASSUME NEW e, NEW G, Extends(e, G), NEW g \in G, NEW q \in G
  PROVE  ecs[g].c \in CutOf(ConfOf(q) \cup ConfOf(g))
<1>1. CASE g = q
  <2>1. ConfOf(g) \cup ConfOf(g) = ConfOf(g)
    OBVIOUS
  <2> QED
    BY <1>1, <2>1 DEF Extends, Sound
<1>2. CASE g # q
  <2>1. Concurrent(q, g)
    BY <1>2 DEF Extends
  <2> QED
    BY <2>1 DEF Concurrent
<1> QED
  BY <1>1, <1>2

(* No event of them uses e: it would follow one that consumes a condition  *)
(* of their cuts.                                                          *)
LEMMA ExtendsNew ==
  ASSUME NEW e, NEW G, Extends(e, G)
  PROVE  e \notin All(G)
<1> SUFFICES ASSUME NEW q \in G, e \in ConfOf(q) PROVE FALSE
  BY DEF All
<1>1. PICK c \in events[e].pre : TRUE
  BY DEF Extends
<1>2. PICK g \in G : ecs[g].c = c
  BY <1>1 DEF Extends
<1>3. c \in CutOf(ConfOf(q) \cup ConfOf(g))
  BY <1>2, ExtendsCut
<1> QED
  BY <1>1, <1>3 DEF CutOf

LEMMA ExtendsClosed ==
  ASSUME NEW e, NEW G, Extends(e, G)
  PROVE  Closed({e} \cup All(G))
<1> SUFFICES ASSUME NEW x \in {e} \cup All(G), NEW c \in events[x].pre \cup events[x].cont
             PROVE  conds[c].pre \in {e} \cup All(G)
  BY DEF Closed
<1>1. CASE x \in All(G)
  <2>1. PICK g \in G : x \in ConfOf(g)
    BY <1>1 DEF All
  <2>2. conds[c].pre \in ConfOf(g)
    BY <2>1 DEF Extends, Sound, Closed
  <2> QED
    BY <2>2 DEF All
<1>2. CASE x = e
  <2>1. PICK g \in G : ecs[g].c = c
    BY <1>2 DEF Extends
  <2>2. conds[c].pre \in ConfOf(g)
    BY <2>1 DEF Extends, Sound, CutOf
  <2> QED
    BY <2>2 DEF All
<1> QED
  BY <1>1, <1>2

LEMMA ExtendsConflictFree ==
  ASSUME NEW e, NEW G, Extends(e, G)
  PROVE  ConflictFree({e} \cup All(G))
<1>1. ASSUME NEW q \in G, NEW x \in ConfOf(q) PROVE events[e].pre \cap events[x].pre = {}
  <2> SUFFICES ASSUME NEW c \in events[e].pre, c \in events[x].pre PROVE FALSE
    OBVIOUS
  <2>1. PICK g \in G : ecs[g].c = c
    BY DEF Extends
  <2>2. c \in CutOf(ConfOf(q) \cup ConfOf(g))
    BY <2>1, ExtendsCut
  <2> QED
    BY <1>1, <2>2 DEF CutOf
<1>2. ASSUME NEW q \in G, NEW x \in ConfOf(q), NEW g \in G, NEW y \in ConfOf(g)
      PROVE  ~ Conflict(x, y)
  <2>1. CASE g = q
    BY <1>2, <2>1 DEF Extends, Sound, ConflictFree
  <2>2. CASE g # q
    <3>1. Concurrent(q, g)
      BY <2>2 DEF Extends
    <3> QED
      BY <1>2, <3>1 DEF Concurrent, Compose
  <2> QED
    BY <2>1, <2>2
<1>3. ASSUME NEW x \in All(G) PROVE ~ Conflict(e, x) /\ ~ Conflict(x, e)
  BY <1>1, <1>3 DEF All, Conflict
<1>4. ASSUME NEW x \in All(G), NEW y \in All(G) PROVE ~ Conflict(x, y)
  BY <1>2, <1>4 DEF All
<1>5. ~ Conflict(e, e)
  BY DEF Conflict
<1> QED
  BY <1>3, <1>4, <1>5 DEF ConflictFree

(* What e only reads stays in the cut.                                     *)
LEMMA ExtendsReads ==
  ASSUME NEW e, NEW G, Extends(e, G), NEW g \in G, ecs[g].c \notin events[e].pre
  PROVE  ecs[g].c \in CutOf({e} \cup All(G))
<1>1. /\ ecs[g].c \in DOMAIN conds /\ conds[ecs[g].c].pre \in ConfOf(g)
  BY DEF Extends, Sound, CutOf
<1>2. ASSUME NEW x \in All(G) PROVE ecs[g].c \notin events[x].pre
  <2>1. PICK q \in G : x \in ConfOf(q)
    BY <1>2 DEF All
  <2>2. ecs[g].c \in CutOf(ConfOf(q) \cup ConfOf(g))
    BY ExtendsCut
  <2> QED
    BY <2>1, <2>2 DEF CutOf
<1> QED
  BY <1>1, <1>2 DEF CutOf, All

(* What e produces is in the cut.                                          *)
LEMMA ExtendsProduces ==
  ASSUME NEW e, NEW G, Extends(e, G), NEW c \in EventPost(e)
  PROVE  c \in CutOf({e} \cup All(G))
<1>1. c \in DOMAIN conds /\ conds[c].pre = e
  BY DEF EventPost
<1>2. c \notin events[e].pre
  BY <1>1 DEF Extends
<1>3. ASSUME NEW x \in All(G) PROVE c \notin events[x].pre
  <2>1. PICK q \in G : x \in ConfOf(q)
    BY <1>3 DEF All
  <2>2. e \notin ConfOf(q)
    BY ExtendsNew DEF All
  <2> QED
    BY <1>1, <2>1, <2>2 DEF Extends, Sound, Closed
<1> QED
  BY <1>1, <1>2, <1>3 DEF CutOf

(* The events F go together with each of G, and none of them reads what e  *)
(* consumes without being in the history of e.                             *)
Fitting(G, F, d) == \A g \in G : GoTogether(ConfOf(g), F, ecs[g].c, d)

NoReaderLost(e, G, F) == \A c \in events[e].pre : Readers(c) \cap F \subseteq {e} \cup All(G)

LEMMA FittingApart ==
  ASSUME NEW e, NEW G, Extends(e, G), G # {}, NEW F, NEW d, Fitting(G, F, d), NEW x \in F
  PROVE  /\ (events[e].pre \cup events[e].cont) \cap events[x].pre = {}
         /\ x # e
<1>1. ASSUME NEW c \in events[e].pre \cup events[e].cont, c \in events[x].pre
      PROVE  FALSE
  <2>1. PICK g \in G : ecs[g].c = c
    BY DEF Extends
  <2>2. c \in CutOf(ConfOf(g) \cup F)
    BY <2>1 DEF Fitting, GoTogether
  <2> QED
    BY <1>1, <2>2 DEF CutOf
<1>2. \E c \in events[e].pre : TRUE
  BY DEF Extends
<1> QED
  BY <1>1, <1>2

LEMMA FittingBefore ==
  ASSUME NEW e, NEW G, Extends(e, G), G # {}, NEW F \in SUBSET DOMAIN events, Closed(F),
         NEW d, Fitting(G, F, d), NoReaderLost(e, G, F)
  PROVE  /\ \A x \in F \ ({e} \cup All(G)) : ~ Before(x, e)
         /\ \A x \in F : ~ Before(e, x)
<1>1. ASSUME NEW x \in F \ ({e} \cup All(G)), Before(x, e) PROVE FALSE
  <2>1. CASE EventPost(x) \cap (events[e].pre \cup events[e].cont) # {}
    <3>1. PICK c \in events[e].pre \cup events[e].cont : conds[c].pre = x
      BY <2>1 DEF EventPost
    <3>2. PICK g \in G : ecs[g].c = c
      BY DEF Extends
    <3>3. x \in ConfOf(g)
      BY <3>1, <3>2 DEF Extends, Sound, CutOf
    <3> QED
      BY <3>3 DEF All
  <2>2. CASE events[x].cont \cap events[e].pre # {}
    <3>1. PICK c \in events[e].pre : c \in events[x].cont
      BY <2>2
    <3>2. x \in Readers(c) \cap F
      BY <3>1 DEF Readers
    <3> QED
      BY <3>2 DEF NoReaderLost
  <2> QED
    BY <1>1, <2>1, <2>2 DEF Before
<1>2. ASSUME NEW x \in F, Before(e, x) PROVE FALSE
  <2>1. CASE EventPost(e) \cap (events[x].pre \cup events[x].cont) # {}
    <3>1. e \in F
      BY <2>1 DEF EventPost, Closed
    <3> QED
      BY <3>1, FittingApart
  <2>2. CASE events[e].cont \cap events[x].pre # {}
    BY <2>2, FittingApart
  <2> QED
    BY <1>2, <2>1, <2>2 DEF Before
<1> QED
  BY <1>1, <1>2

LEMMA FittingCompose ==
  ASSUME NEW e, NEW G, Extends(e, G), G # {}, NEW F \in SUBSET DOMAIN events, Closed(F),
         NEW d, Fitting(G, F, d), NoReaderLost(e, G, F)
  PROVE  Compose({e} \cup All(G), F)
<1>1. ASSUME NEW x \in {e} \cup All(G), NEW f \in F PROVE ~ Conflict(x, f)
  <2>1. CASE x = e
    BY <2>1, FittingApart DEF Conflict
  <2>2. CASE x \in All(G)
    <3>1. PICK g \in G : x \in ConfOf(g)
      BY <2>2 DEF All
    <3> QED
      BY <3>1 DEF Fitting, GoTogether, Compose
  <2> QED
    BY <2>1, <2>2
<1>2. ASSUME NEW x \in {e} \cup All(G), NEW f \in F \ ({e} \cup All(G)) PROVE ~ Before(f, x)
  <2>1. CASE x = e
    BY <2>1, FittingBefore
  <2>2. CASE x \in All(G)
    <3>1. PICK g \in G : x \in ConfOf(g)
      BY <2>2 DEF All
    <3>2. f \in F \ ConfOf(g)
      BY DEF All
    <3> QED
      BY <3>1, <3>2 DEF Fitting, GoTogether, Compose
  <2> QED
    BY <2>1, <2>2
<1>3. ASSUME NEW x \in ({e} \cup All(G)) \ F, NEW f \in F PROVE ~ Before(x, f)
  <2>1. CASE x = e
    BY <2>1, FittingBefore
  <2>2. CASE x \in All(G)
    <3>1. PICK g \in G : x \in ConfOf(g)
      BY <2>2 DEF All
    <3> QED
      BY <3>1 DEF Fitting, GoTogether, Compose
  <2> QED
    BY <2>1, <2>2
<1> QED
  BY <1>1, <1>2, <1>3 DEF Compose

(* A condition c that e produces or only reads, and d with the history of  *)
(* e: they fit, as _ec_conc_add concludes from the lists of G.             *)
LEMMA ExtendsFits ==
  ASSUME NEW e, NEW G, Extends(e, G), G # {}, NEW F \in SUBSET DOMAIN events, Closed(F),
         NEW d, d \in CutOf(F), d \notin events[e].pre, Fitting(G, F, d), NoReaderLost(e, G, F),
         NEW c, c \in EventPost(e) \cup events[e].cont
  PROVE  GoTogether({e} \cup All(G), F, c, d)
<1>1. Compose({e} \cup All(G), F)
  BY FittingCompose
<1>2. d \in CutOf(({e} \cup All(G)) \cup F)
  <2>1. ASSUME NEW x \in All(G) PROVE d \notin events[x].pre
    <3>1. PICK g \in G : x \in ConfOf(g)
      BY <2>1 DEF All
    <3> QED
      BY <3>1 DEF Fitting, GoTogether, CutOf
  <2> QED
    BY <2>1 DEF CutOf
<1>3. c \in CutOf({e} \cup All(G))
  <2>1. CASE c \in events[e].cont
    <3>1. PICK g \in G : ecs[g].c = c
      BY <2>1 DEF Extends
    <3> QED
      BY <2>1, <3>1, ExtendsReads DEF Extends
  <2> QED
    BY <2>1, ExtendsProduces
<1>4. ASSUME NEW x \in F PROVE c \notin events[x].pre
  <2>1. CASE c \in events[e].cont
    BY <2>1, FittingApart
  <2>2. CASE c \in EventPost(e)
    <3>1. c \in events[x].pre => e \in F
      BY <2>2 DEF EventPost, Closed
    <3> QED
      BY <3>1, FittingApart
  <2> QED
    BY <2>1, <2>2
<1>5. c \in CutOf(({e} \cup All(G)) \cup F)
  BY <1>3, <1>4 DEF CutOf
<1> QED
  BY <1>1, <1>2, <1>5 DEF GoTogether

(* The histories of what e consumes and reads are part of the one of e.    *)
LEMMA ExtendsPart ==
  ASSUME NEW e, NEW G, Extends(e, G), NEW g \in G
  PROVE  \A x \in ConfOf(g), f \in ({e} \cup All(G)) \ ConfOf(g) : ~ Before(f, x)
<1> SUFFICES ASSUME NEW x \in ConfOf(g), NEW f \in ({e} \cup All(G)) \ ConfOf(g), Before(f, x)
             PROVE  FALSE
  OBVIOUS
<1>1. CASE f = e
  <2>1. e \notin ConfOf(g)
    BY ExtendsNew DEF All
  <2>2. CASE EventPost(e) \cap (events[x].pre \cup events[x].cont) # {}
    BY <2>1, <2>2 DEF EventPost, Extends, Sound, Closed
  <2>3. CASE events[e].cont \cap events[x].pre # {}
    <3>1. PICK c \in events[e].cont : c \in events[x].pre
      BY <2>3
    <3>2. PICK q \in G : ecs[q].c = c
      BY DEF Extends
    <3>3. c \in CutOf(ConfOf(g) \cup ConfOf(q))
      BY <3>2, ExtendsCut
    <3> QED
      BY <3>1, <3>3 DEF CutOf
  <2> QED
    BY <1>1, <2>2, <2>3 DEF Before
<1>2. CASE f \in All(G)
  <2>1. PICK q \in G : f \in ConfOf(q)
    BY <1>2 DEF All
  <2>2. q # g
    BY <2>1
  <2>3. Concurrent(g, q)
    BY <2>2 DEF Extends
  <2>4. f \in ConfOf(q) \ ConfOf(g)
    BY <2>1
  <2> QED
    BY <2>3, <2>4 DEF Concurrent, Compose
<1> QED
  BY <1>1, <1>2

-----------------------------------------------------------------------------
(* No step takes anything back: what is there keeps its links.             *)
Grows ==
  /\ DOMAIN events \subseteq DOMAIN events'
  /\ \A e \in DOMAIN events : /\ events'[e].pre = events[e].pre
                              /\ events'[e].cont = events[e].cont
  /\ DOMAIN conds \subseteq DOMAIN conds'
  /\ \A c \in DOMAIN conds : conds'[c] = conds[c]
  /\ DOMAIN hists \subseteq DOMAIN hists'
  /\ \A h \in DOMAIN hists : /\ hists'[h].e = hists[h].e /\ hists'[h].past = hists[h].past
                             /\ hists'[h].ecl = hists[h].ecl
                             /\ hists'[h].rd = hists[h].rd /\ hists'[h].sd = hists[h].sd
  /\ DOMAIN ecs \subseteq DOMAIN ecs'
  /\ \A r \in DOMAIN ecs : ecs'[r] = ecs[r]

LEMMA AddKeepsReaders ==
  ASSUME IInv, NEW h \in queue, Add(h)
  PROVE  \A x \in DOMAIN hists : hists'[x].rd = hists[x].rd /\ hists'[x].sd = hists[x].sd
<1>1. h \in DOMAIN hists /\ \A x \in DOMAIN hists : hists[x] \in HistType
  BY Elements DEF IInv, TypeOK
<1>2. CASE IsCutoff(h)
  <2>1. hists' = [hists EXCEPT ![h].corr = Corresponding(h), ![h].marking = {}]
    BY <1>2 DEF Add
  <2>2. \A x \in DOMAIN hists \ {h} : hists'[x] = hists[x]
    BY <1>1, <2>1
  <2>3. hists'[h].rd = hists[h].rd /\ hists'[h].sd = hists[h].sd
    BY <1>1, <2>1 DEF HistType
  <2> QED
    BY <2>2, <2>3
<1>3. CASE ~ IsCutoff(h)
  <2>1. hists' = [hists EXCEPT ![h].corr = 0]
    BY <1>3 DEF Add
  <2>2. \A x \in DOMAIN hists \ {h} : hists'[x] = hists[x]
    BY <1>1, <2>1
  <2>3. hists'[h].rd = hists[h].rd /\ hists'[h].sd = hists[h].sd
    BY <1>1, <2>1 DEF HistType
  <2> QED
    BY <2>2, <2>3
<1> QED
  BY <1>2, <1>3

LEMMA StepGrows ==
  ASSUME IInv, [Next]_vars
  PROVE  Grows
<1>1. CASE Still
  BY <1>1, StillFrame DEF Grows
<1>2. ASSUME NEW ec, Enriches(ec) PROVE Grows
  BY <1>2, EnrichesFrame DEF Grows
<1>3. ASSUME NEW s \in sols, Solve(s) PROVE Grows
  BY <1>3, SolveFrame, SolveEvent DEF Grows
<1>4. ASSUME NEW h \in queue, Pops(h) PROVE Grows
  <2>1. Add(h)
    BY <1>4 DEF Pops
  <2> QED
    BY <1>4, <2>1, AddFrame, AddHists, AddEvents, AddKeepsReaders DEF Grows
<1> QED
  BY <1>1, <1>2, <1>3, <1>4, StepCases

(* The definitions of the sets of events that are there do not change.     *)
LEMMA ArcsType ==
  ASSUME IInv
  PROVE  \A e \in DOMAIN events : events[e].pre \cup events[e].cont \subseteq DOMAIN conds
BY Elements DEF IInv, EventType

LEMMA CutStable ==
  ASSUME IInv, Grows, NEW E \in SUBSET DOMAIN events
  PROVE  CutOf(E)' \cap DOMAIN conds = CutOf(E)
BY DEF Grows, CutOf

LEMMA BeforeStable ==
  ASSUME IInv, Grows, NEW e \in DOMAIN events, NEW f \in DOMAIN events
  PROVE  (Before(e, f))' <=> Before(e, f)
<1>1. EventPost(e)' \cap DOMAIN conds = EventPost(e)
  BY DEF Grows, EventPost
<1>2. events[f].pre \cup events[f].cont \subseteq DOMAIN conds
  BY ArcsType
<1>3. /\ events'[f].pre = events[f].pre /\ events'[f].cont = events[f].cont
      /\ events'[e].cont = events[e].cont
  BY DEF Grows
<1> QED
  BY <1>1, <1>2, <1>3 DEF Before

LEMMA ComposeStable ==
  ASSUME IInv, Grows, NEW E \in SUBSET DOMAIN events, NEW F \in SUBSET DOMAIN events
  PROVE  Compose(E, F)' <=> Compose(E, F)
<1>1. \A e \in E, f \in F : /\ Before(e, f)' <=> Before(e, f)
                            /\ Before(f, e)' <=> Before(f, e)
  BY BeforeStable
<1>2. \A e \in E, f \in F : Conflict(e, f)' <=> Conflict(e, f)
  BY DEF Grows, Conflict
<1> QED
  BY <1>1, <1>2 DEF Compose

LEMMA ClosedStable ==
  ASSUME IInv, Grows, NEW E \in SUBSET DOMAIN events
  PROVE  /\ Closed(E)' <=> Closed(E)
         /\ ConflictFree(E)' <=> ConflictFree(E)
<1>1. \A e \in E : \A c \in events[e].pre \cup events[e].cont : conds'[c] = conds[c]
  BY ArcsType DEF Grows
<1>2. Closed(E)' <=> Closed(E)
  BY <1>1 DEF Closed, Grows
<1>3. ConflictFree(E)' <=> ConflictFree(E)
  BY DEF Grows, ConflictFree, Conflict
<1> QED
  BY <1>2, <1>3

LEMMA ReadersStable ==
  ASSUME Grows, NEW E \in SUBSET DOMAIN events, NEW c
  PROVE  Readers(c)' \cap E = Readers(c) \cap E
BY DEF Grows, Readers

LEMMA ConfStable ==
  ASSUME IInv, Grows, NEW r \in DOMAIN ecs
  PROVE  /\ ConfOf(r)' = ConfOf(r) /\ ConfOf(r) \subseteq DOMAIN events
         /\ ecs'[r] = ecs[r] /\ ecs[r].c \in DOMAIN conds
         /\ Rd(r)' = Rd(r)
         /\ IsComp(r)' <=> IsComp(r)
<1>1. ecs[r] \in EcType /\ \A h \in DOMAIN hists : hists[h] \in HistType
  BY Elements DEF IInv
<1>2. ecs[r].hs \subseteq DOMAIN hists /\ ecs'[r] = ecs[r]
  BY <1>1 DEF EcType, Grows
<1>3. PICK H : H = UNION {hists[h].past : h \in ecs[r].hs}
  OBVIOUS
<1>4. H \subseteq DOMAIN hists
  BY <1>1, <1>2, <1>3 DEF HistType
<1>5. UNION {hists'[h].past : h \in ecs'[r].hs} = H
  BY <1>2, <1>3 DEF Grows
<1>6. EventsOf(H) \subseteq DOMAIN events
  BY <1>1, <1>4 DEF EventsOf, HistType
<1>7. {hists'[x].e : x \in H} = {hists[x].e : x \in H}
  BY <1>4 DEF Grows
<1>8. Rd(r)' = Rd(r)
  BY <1>1, <1>2 DEF Rd, IsComp, Grows, EcType
<1> QED
  BY <1>1, <1>2, <1>3, <1>5, <1>6, <1>7, <1>8 DEF ConfOf, EventsOf, EcType, IsComp

LEMMA FitsStable ==
  ASSUME IInv, Grows, NEW E \in SUBSET DOMAIN events, NEW F \in SUBSET DOMAIN events,
         NEW c \in DOMAIN conds, NEW d \in DOMAIN conds
  PROVE  GoTogether(E, F, c, d)' <=> GoTogether(E, F, c, d)
<1>1. E \cup F \in SUBSET DOMAIN events
  OBVIOUS
<1>2. PICK D : D = E \cup F
  OBVIOUS
<1>3. CutOf(D)' \cap DOMAIN conds = CutOf(D)
  BY <1>1, <1>2, CutStable
<1> QED
  BY <1>2, <1>3, ComposeStable DEF GoTogether

-----------------------------------------------------------------------------
(* What was true of the enriched conditions and histories stays true.      *)
LEMMA ConcurrentStable ==
  ASSUME IInv, Grows, NEW r \in DOMAIN ecs, NEW q \in DOMAIN ecs
  PROVE  /\ Concurrent(r, q)' <=> Concurrent(r, q)
         /\ KeepsReaders(r, q)' <=> KeepsReaders(r, q)
         /\ Joined(r, q)' <=> Joined(r, q)
<1>1. PICK E \in SUBSET DOMAIN events : ConfOf(r) = E /\ ConfOf(r)' = E
  BY ConfStable
<1>2. PICK F \in SUBSET DOMAIN events : ConfOf(q) = F /\ ConfOf(q)' = F
  BY ConfStable
<1>3. /\ ecs'[r] = ecs[r] /\ ecs[r].c \in DOMAIN conds
      /\ ecs'[q] = ecs[q] /\ ecs[q].c \in DOMAIN conds
  BY ConfStable
<1>4. PICK D : D = E \cup F
  OBVIOUS
<1>5. D \in SUBSET DOMAIN events /\ CutOf(D)' \cap DOMAIN conds = CutOf(D)
  BY <1>4, CutStable
<1>6. Compose(E, F)' <=> Compose(E, F)
  BY ComposeStable
<1>7. Concurrent(r, q)' <=> Concurrent(r, q)
  BY <1>1, <1>2, <1>3, <1>4, <1>5, <1>6 DEF Concurrent
<1>8. Joined(r, q)' <=> Joined(r, q)
  BY <1>1, <1>2, <1>3, <1>4, <1>5, <1>6 DEF Joined
<1>9. PICK c : c = ecs[r].c
  OBVIOUS
<1>10. Readers(c)' \cap F = Readers(c) \cap F
  BY ReadersStable
<1>11. KeepsReaders(r, q)' <=> KeepsReaders(r, q)
  BY <1>1, <1>2, <1>3, <1>9, <1>10 DEF KeepsReaders
<1> QED
  BY <1>7, <1>8, <1>11

LEMMA EcSoundStable ==
  ASSUME IInv, Grows, NEW r \in DOMAIN ecs, EcSound(r)
  PROVE  EcSound(r)'
<1>1. PICK E \in SUBSET DOMAIN events : ConfOf(r) = E /\ ConfOf(r)' = E
  BY ConfStable
<1>2. /\ ecs'[r] = ecs[r] /\ ecs[r].c \in DOMAIN conds
      /\ Rd(r)' = Rd(r) /\ (IsComp(r)' <=> IsComp(r))
  BY ConfStable
<1>3. /\ Closed(E)' /\ ConflictFree(E)'
      /\ CutOf(E)' \cap DOMAIN conds = CutOf(E)
  BY <1>1, ClosedStable, CutStable DEF EcSound
<1>4. ecs[r].c \in CutOf(E)'
  BY <1>1, <1>3 DEF EcSound
<1>5. Rd(r) \subseteq E
  BY <1>1 DEF EcSound
<1>6. ASSUME NEW c \in CutOf(E)' PROVE Readers(c)' \cap E \subseteq Rd(r)
  <2>1. Readers(c)' \cap E = Readers(c) \cap E
    BY ReadersStable
  <2>2. CASE c \in DOMAIN conds
    BY <1>1, <1>3, <2>1, <2>2 DEF EcSound
  <2>3. CASE c \notin DOMAIN conds
    <3>1. Readers(c) = {}
      BY <2>3, ArcsType DEF Readers
    <3> QED
      BY <2>1, <3>1
  <2> QED
    BY <2>2, <2>3
<1>7. ~ IsComp(r) => /\ ecs[r].hs = {ecs[r].h}
                     /\ ecs[r].r1 # 0 => /\ ecs[r].r1 \in hists'[ecs[r].h].ecl
                                         /\ ecs'[ecs[r].r1].c = ecs[r].c
  <2>1. ecs[r] \in EcType
    BY Elements DEF IInv
  <2>2. ~ IsComp(r) => ecs[r].h \in DOMAIN hists
    BY <2>1 DEF IsComp, EcType
  <2>3. ecs[r].r1 # 0 => ecs[r].r1 \in DOMAIN ecs
    BY <2>1 DEF EcType
  <2> QED
    BY <2>2, <2>3 DEF EcSound, Grows
<1> QED
  BY <1>1, <1>2, <1>3, <1>4, <1>5, <1>6, <1>7 DEF EcSound

LEMMA AssembledStable ==
  ASSUME IInv, Grows, NEW h \in DOMAIN hists, Assembled(h),
         co \subseteq co', dir \subseteq dir'
  PROVE  Assembled(h)'
<1>1. /\ hists'[h].e = hists[h].e /\ hists'[h].past = hists[h].past
      /\ hists'[h].ecl = hists[h].ecl
      /\ hists'[h].rd = hists[h].rd /\ hists'[h].sd = hists[h].sd
  BY DEF Grows
<1>2. hists[h] \in HistType
  BY Elements DEF IInv
<1>3. PICK e : e = hists[h].e
  OBVIOUS
<1>4. PICK E : E = EventsOf(hists[h].past)
  OBVIOUS
<1>5. /\ E \in SUBSET DOMAIN events /\ e \in DOMAIN events
      /\ EventsOf(hists[h].past)' = E
  <2>1. \A x \in DOMAIN hists : hists[x].e \in DOMAIN events /\ hists'[x].e = hists[x].e
    BY Elements DEF IInv, HistType, Grows
  <2>2. PICK P \in SUBSET DOMAIN hists : P = hists[h].past /\ P = hists'[h].past
    BY <1>1, <1>2 DEF HistType
  <2>3. E = {hists[x].e : x \in P} /\ EventsOf(hists[h].past)' = {hists'[x].e : x \in P}
    BY <1>4, <2>2 DEF EventsOf
  <2> QED
    BY <1>3, <2>1, <2>2, <2>3
<1>6. \A r \in hists[h].ecl : /\ r \in DOMAIN ecs /\ ecs'[r] = ecs[r]
                              /\ ConfOf(r)' = ConfOf(r)
                              /\ ecs[r].hs \subseteq DOMAIN hists
  BY <1>2, ConfStable, Elements DEF IInv, HistType, EcType
<1>7. /\ Closed(E)' /\ ConflictFree(E)'
      /\ CutOf(E)' \cap DOMAIN conds = CutOf(E)
  BY <1>4, <1>5, ClosedStable, CutStable DEF Assembled
<1>8. \A x \in E : events'[x].cont = events[x].cont /\ events[x].cont \subseteq DOMAIN conds
  BY <1>5, ArcsType DEF Grows
<1>9. hists[h].rd = {x \in E : events'[x].cont \cap CutOf(E)' # {}}
  <2>1. hists[h].rd = {x \in E : events[x].cont \cap CutOf(E) # {}}
    BY <1>4 DEF Assembled
  <2> QED
    BY <1>7, <1>8, <2>1
<1>10. hists[h].sd = {x \in E : events'[x].cont \cap events'[e].pre # {}}
  <2>1. hists[h].sd = {x \in E : events[x].cont \cap events[e].pre # {}}
    BY <1>3, <1>4 DEF Assembled
  <2>2. events'[e].pre = events[e].pre
    BY <1>5 DEF Grows
  <2> QED
    BY <1>8, <2>1, <2>2
<1>11. UNION {hists'[x].past : x \in UNION {ecs'[g].hs : g \in hists'[h].ecl}}
         = UNION {hists[x].past : x \in UNION {ecs[g].hs : g \in hists[h].ecl}}
  <2>1. UNION {ecs'[g].hs : g \in hists'[h].ecl} = UNION {ecs[g].hs : g \in hists[h].ecl}
    BY <1>1, <1>6
  <2>2. PICK N : N = UNION {ecs[g].hs : g \in hists[h].ecl}
    OBVIOUS
  <2>3. N \subseteq DOMAIN hists
    BY <1>6, <2>2
  <2>4. UNION {hists'[x].past : x \in N} = UNION {hists[x].past : x \in N}
    BY <2>3 DEF Grows
  <2> QED
    BY <2>1, <2>2, <2>4
<1>12. hists'[h].past =
          {h} \cup UNION {hists'[x].past : x \in UNION {ecs'[g].hs : g \in hists'[h].ecl}}
  <2>1. hists[h].past =
          {h} \cup UNION {hists[x].past : x \in UNION {ecs[g].hs : g \in hists[h].ecl}}
    BY DEF Assembled
  <2> QED
    BY <1>1, <1>11, <2>1
<1>13. (\A g, q \in hists[h].ecl :
          /\ hists[h].e \notin ConfOf(g)
          /\ g # q => /\ <<g, q>> \in co
                      /\ ecs[g].c \in Black(h) => <<g, q>> \in dir)'
  <2>1. \A g, q \in hists[h].ecl :
          /\ e \notin ConfOf(g)
          /\ g # q => /\ <<g, q>> \in co
                      /\ ecs[g].c \in Black(h) => <<g, q>> \in dir
    BY <1>3 DEF Assembled
  <2>2. Black(h)' = Black(h)
    BY <1>1, <1>3, <1>5 DEF Black, Grows
  <2> QED
    BY <1>1, <1>3, <1>6, <2>1, <2>2
<1> QED
  BY <1>1, <1>3, <1>5, <1>7, <1>9, <1>10, <1>12, <1>13 DEF Assembled

-----------------------------------------------------------------------------
(* The enriched conditions below a history are what its event extends.     *)
LEMMA HistoryExtends ==
  ASSUME IInv, Labelled, Grounded, Coherent, NEW h \in DOMAIN hists
  PROVE  Extends(hists[h].e, hists[h].ecl)
<1>1. PICK e : e = hists[h].e
  OBVIOUS
<1>2. PICK G : G = hists[h].ecl
  OBVIOUS
<1>3. e \in DOMAIN events /\ G \subseteq DOMAIN ecs
  BY <1>1, <1>2, Elements DEF IInv, HistType
<1>4. /\ events[e].pre \cup events[e].cont = {ecs[g].c : g \in G}
      /\ \A g, q \in G : ecs[g].c = ecs[q].c => g = q
  BY <1>1, <1>2 DEF Grounded, Footing
<1>5. events[e].pre \cap events[e].cont = {}
  BY <1>3, LabelFacts
<1>6. G # {} => events[e].pre # {}
  <2>1. SUFFICES ASSUME G # {} PROVE events[e].pre # {}
    OBVIOUS
  <2>2. events[e].pre # {} \/ events[e].cont # {}
    BY <1>4, <2>1
  <2>3. events[e].ft \in net.trans
    BY <1>3, <2>2, LabelFacts
  <2> QED
    BY <1>3, <2>3, Consumes, LabelFacts
<1>7. \A c \in events[e].pre : conds[c].pre # e
  <2> SUFFICES ASSUME NEW c \in events[e].pre, conds[c].pre = e PROVE FALSE
    OBVIOUS
  <2>1. conds[c].pre < e
    BY <1>3 DEF IInv, Causal
  <2>2. e \in Nat
    BY <1>3, Elements DEF IInv
  <2> QED
    BY <2>1, <2>2
<1>8. \A g \in G : Sound(g)
  BY <1>3 DEF Coherent, EcSound, Sound
<1>9. \A g, q \in G : g # q => Concurrent(g, q)
  <2>1. \A g, q \in G : g # q => <<g, q>> \in co
    BY <1>2 DEF Coherent, Assembled
  <2>2. \A p \in co : Concurrent(p[1], p[2])
    BY DEF Coherent, Related
  <2> QED
    BY <2>1, <2>2
<1> QED
  BY <1>1, <1>2, <1>4, <1>5, <1>6, <1>7, <1>8, <1>9 DEF Extends

LEMMA HistoryEvents ==
  ASSUME IInv, Coherent, NEW h \in DOMAIN hists
  PROVE  EventsOf(hists[h].past) = {hists[h].e} \cup All(hists[h].ecl)
<1>1. PICK G : G = hists[h].ecl
  OBVIOUS
<1>2. hists[h].past = {h} \cup UNION {hists[x].past : x \in UNION {ecs[g].hs : g \in G}}
  BY <1>1 DEF Coherent, Assembled
<1>3. \A g \in G : ConfOf(g) = {hists[y].e : y \in UNION {hists[x].past : x \in ecs[g].hs}}
  BY DEF ConfOf, EventsOf
<1>4. EventsOf(hists[h].past) \subseteq {hists[h].e} \cup All(G)
  <2> SUFFICES ASSUME NEW y \in hists[h].past
               PROVE  hists[y].e \in {hists[h].e} \cup All(G)
    BY DEF EventsOf
  <2>1. CASE y = h
    BY <2>1
  <2>2. CASE y # h
    <3>1. PICK g \in G : \E x \in ecs[g].hs : y \in hists[x].past
      BY <1>2, <2>2
    <3>2. hists[y].e \in ConfOf(g)
      BY <1>3, <3>1
    <3> QED
      BY <3>2 DEF All
  <2> QED
    BY <2>1, <2>2
<1>5. {hists[h].e} \cup All(G) \subseteq EventsOf(hists[h].past)
  <2>1. hists[h].e \in EventsOf(hists[h].past)
    BY <1>2 DEF EventsOf
  <2>2. ASSUME NEW x \in All(G) PROVE x \in EventsOf(hists[h].past)
    <3>1. PICK g \in G : x \in ConfOf(g)
      BY <2>2 DEF All
    <3>2. PICK y \in UNION {hists[z].past : z \in ecs[g].hs} : x = hists[y].e
      BY <1>3, <3>1
    <3>3. y \in hists[h].past
      BY <1>2, <3>2
    <3> QED
      BY <3>2, <3>3 DEF EventsOf
  <2> QED
    BY <2>1, <2>2
<1> QED
  BY <1>1, <1>4, <1>5

LEMMA HistorySound ==
  ASSUME IInv, Labelled, Grounded, Coherent, NEW h \in DOMAIN hists,
         NEW E, E = EventsOf(hists[h].past)
  PROVE  /\ E \in SUBSET DOMAIN events
         /\ Closed(E) /\ ConflictFree(E)
         /\ ReadersIn(E, hists[h].rd) /\ hists[h].sd \subseteq E
         /\ \A x \in E : events[x].cont \cap CutOf(E) # {} => x \in hists[h].rd
         /\ \A c \in EventPost(hists[h].e) \cup events[hists[h].e].cont : c \in CutOf(E)
<1>1. E \in SUBSET DOMAIN events
  BY Elements DEF IInv, HistType, EventsOf
<1>2. /\ Closed(E) /\ ConflictFree(E)
      /\ hists[h].rd = {x \in E : events[x].cont \cap CutOf(E) # {}}
      /\ hists[h].sd \subseteq E
  BY DEF Coherent, Assembled
<1>3. ReadersIn(E, hists[h].rd)
  BY <1>2 DEF ReadersIn, Readers
<1>4. PICK e, G : e = hists[h].e /\ G = hists[h].ecl
  OBVIOUS
<1>5. Extends(e, G) /\ E = {e} \cup All(G)
  BY <1>4, HistoryExtends, HistoryEvents
<1>6. ASSUME NEW c \in events[e].cont PROVE c \in CutOf(E)
  <2>1. PICK g \in G : ecs[g].c = c
    BY <1>5 DEF Extends
  <2> QED
    BY <1>5, <2>1, ExtendsReads DEF Extends
<1> QED
  BY <1>1, <1>2, <1>3, <1>4, <1>5, <1>6, ExtendsProduces

(* What _ec_conc_add relates to a new enriched condition <c, h> fits.      *)
LEMMA CandidateFits ==
  ASSUME IInv, Labelled, Grounded, Coherent, NEW h \in DOMAIN hists,
         NEW c \in EventPost(hists[h].e) \cup events[hists[h].e].cont,
         NEW rp \in Compatible(h)
  PROVE  GoTogether(EventsOf(hists[h].past), ConfOf(rp), c, ecs[rp].c)
<1>1. PICK e, G : e = hists[h].e /\ G = hists[h].ecl
  OBVIOUS
<1>2. Extends(e, G) /\ EventsOf(hists[h].past) = {e} \cup All(G)
  BY <1>1, HistoryExtends, HistoryEvents
<1>3. /\ rp \in DOMAIN ecs /\ G # {} /\ ecs[rp].c \notin Black(h)
      /\ \A g \in G : \/ <<g, rp>> \in co
                      \/ ecs[g].c \notin Black(h) /\ <<g, rp>> \in rco
      /\ Rd(rp) \cap Green(h) = {}
  BY <1>1 DEF Compatible, Candidates
<1>4. PICK F \in SUBSET DOMAIN events : F = ConfOf(rp)
  <2>1. ConfOf(rp) \in SUBSET DOMAIN events
    <3>1. ecs[rp].hs \subseteq DOMAIN hists /\ \A x \in DOMAIN hists : hists[x] \in HistType
      BY <1>3, Elements DEF IInv, EcType
    <3> QED
      BY <3>1 DEF ConfOf, EventsOf, HistType
  <2> QED
    BY <2>1
<1>5. PICK d : d = ecs[rp].c
  OBVIOUS
<1>6. EcSound(rp) /\ Related
  BY <1>3 DEF Coherent
<1>7. Closed(F) /\ d \in CutOf(F)
  BY <1>4, <1>5, <1>6 DEF EcSound
<1>8. \A g \in G : <<g, rp>> \in co => Concurrent(g, rp)
  BY <1>6 DEF Related
<1>9. \A g \in G : <<g, rp>> \in rco => Joined(g, rp)
  BY <1>6 DEF Related
<1>10. Fitting(G, F, d)
  <2> SUFFICES ASSUME NEW g \in G PROVE GoTogether(ConfOf(g), F, ecs[g].c, d)
    BY DEF Fitting
  <2>1. CASE <<g, rp>> \in co
    BY <1>4, <1>5, <1>8, <2>1 DEF Concurrent, GoTogether
  <2>2. CASE <<g, rp>> \in rco
    BY <1>4, <1>5, <1>9, <2>2 DEF Joined, GoTogether
  <2> QED
    BY <1>3, <2>1, <2>2
<1>11. NoReaderLost(e, G, F)
  <2> SUFFICES ASSUME NEW b \in events[e].pre, NEW f \in Readers(b), f \in F,
                      f \notin {e} \cup All(G)
               PROVE  FALSE
    BY DEF NoReaderLost
  <2>1. PICK g \in G : ecs[g].c = b
    BY <1>2 DEF Extends
  <2>2. b \in Black(h)
    BY <1>1 DEF Black
  <2>3. <<g, rp>> \in co
    BY <1>3, <2>1, <2>2
  <2>4. b \in CutOf(ConfOf(g) \cup F)
    BY <1>4, <1>8, <2>1, <2>3 DEF Concurrent
  <2>5. b \in events[f].cont
    BY DEF Readers
  <2>6. b \in CutOf(F)
    BY <1>7, <2>4, <2>5, CutOfPart
  <2>7. f \in Rd(rp)
    BY <1>4, <1>6, <2>6 DEF EcSound
  <2>8. f \notin hists[h].sd \cup hists[h].rd
    BY <1>2, HistorySound DEF ReadersIn
  <2>9. f \in Green(h)
    <3>1. f \in UNION {Readers(x) : x \in Black(h)}
      BY <2>2
    <3> QED
      BY <2>8, <3>1 DEF Green
  <2> QED
    BY <1>3, <2>7, <2>9
<1>12. d \notin events[e].pre
  BY <1>1, <1>3, <1>5 DEF Black
<1>13. c \in EventPost(e) \cup events[e].cont
  BY <1>1
<1>14. GoTogether({e} \cup All(G), F, c, d)
  BY <1>2, <1>3, <1>7, <1>10, <1>11, <1>12, <1>13, ExtendsFits
<1> QED
  BY <1>2, <1>4, <1>5, <1>14

(* ... and its two bits say whose readers are in which history.            *)
LEMMA CandidateBits ==
  ASSUME IInv, Labelled, Grounded, Coherent, NEW h \in DOMAIN hists,
         NEW c \in EventPost(hists[h].e) \cup events[hists[h].e].cont,
         NEW rp \in Compatible(h)
  PROVE  /\ Bit0(c, h, rp) <=> Readers(c) \cap ConfOf(rp) \subseteq EventsOf(hists[h].past)
         /\ Bit1(h, rp) <=> Readers(ecs[rp].c) \cap EventsOf(hists[h].past) \subseteq ConfOf(rp)
<1>1. PICK E : E = EventsOf(hists[h].past)
  OBVIOUS
<1>2. PICK F : F = ConfOf(rp)
  OBVIOUS
<1>3. PICK d : d = ecs[rp].c
  OBVIOUS
<1>4. PICK R : R = hists[h].rd
  OBVIOUS
<1>5. PICK S : S = Rd(rp)
  OBVIOUS
<1>6. rp \in DOMAIN ecs
  BY DEF Compatible, Candidates
<1>7. /\ E \in SUBSET DOMAIN events /\ Closed(E) /\ ReadersIn(E, R)
      /\ \A x \in E : events[x].cont \cap CutOf(E) # {} => x \in R
      /\ c \in CutOf(E)
  BY <1>1, <1>4, HistorySound
<1>8. Closed(F) /\ ReadersIn(F, S) /\ F \in SUBSET DOMAIN events /\ d \in CutOf(F)
  <2>1. EcSound(rp)
    BY <1>6 DEF Coherent
  <2>2. Closed(F) /\ ReadersIn(F, S) /\ d \in CutOf(F)
    BY <1>2, <1>3, <1>5, <2>1 DEF EcSound, ReadersIn
  <2>3. F \in SUBSET DOMAIN events
    <3>1. ecs[rp].hs \subseteq DOMAIN hists /\ \A x \in DOMAIN hists : hists[x] \in HistType
      BY <1>6, Elements DEF IInv, EcType
    <3> QED
      BY <1>2, <3>1 DEF ConfOf, EventsOf, HistType
  <2> QED
    BY <2>2, <2>3
<1>9. GoTogether(E, F, c, d)
  BY <1>1, <1>2, <1>3, CandidateFits
<1>10. c \in CutOf(E \cup F) /\ d \in CutOf(F \cup E)
  <2>1. F \cup E = E \cup F
    OBVIOUS
  <2> QED
    BY <1>9, <2>1 DEF GoTogether
<1>11. \A x \in Readers(c) : x \in F <=> x \in S
  BY <1>8, <1>10, ReadersFound
<1>12. \A x \in Readers(d) : x \in E <=> x \in R
  BY <1>7, <1>10, ReadersFound
<1>13. \A x \in Readers(c) : c \in events[x].cont
  BY DEF Readers
<1>14. Bit0(c, h, rp) <=> \A x \in S \ R : c \notin events[x].cont
  BY <1>4, <1>5 DEF Bit0
<1>15. ASSUME \A x \in S \ R : c \notin events[x].cont
       PROVE  Readers(c) \cap F \subseteq E
  <2> SUFFICES ASSUME NEW x \in Readers(c), x \in F PROVE x \in E
    OBVIOUS
  <2>1. x \in S /\ c \in events[x].cont
    BY <1>11, <1>13
  <2>2. x \in R
    BY <1>15, <2>1
  <2> QED
    BY <1>7, <2>2 DEF ReadersIn
<1>16. ASSUME Readers(c) \cap F \subseteq E
       PROVE  \A x \in S \ R : c \notin events[x].cont
  <2> SUFFICES ASSUME NEW x \in S \ R, c \in events[x].cont PROVE FALSE
    OBVIOUS
  <2>1. x \in F /\ x \in DOMAIN events
    BY <1>8 DEF ReadersIn
  <2>2. x \in Readers(c)
    BY <2>1 DEF Readers
  <2>3. x \in E
    BY <1>16, <2>1, <2>2
  <2> QED
    BY <1>7, <2>3
<1>17. Bit1(h, rp) <=> R \cap Readers(d) \subseteq S
  BY <1>3, <1>4, <1>5 DEF Bit1
<1>18. ASSUME R \cap Readers(d) \subseteq S
       PROVE  Readers(d) \cap E \subseteq F
  BY <1>8, <1>12, <1>18 DEF ReadersIn
<1>19. ASSUME Readers(d) \cap E \subseteq F
       PROVE  R \cap Readers(d) \subseteq S
  <2> SUFFICES ASSUME NEW x \in R, x \in Readers(d) PROVE x \in S
    OBVIOUS
  <2>1. x \in F
    BY <1>12, <1>19
  <2> QED
    BY <1>8, <2>1 DEF ReadersIn
<1> QED
  BY <1>1, <1>2, <1>3, <1>14, <1>15, <1>16, <1>17, <1>18, <1>19

LEMMA SiblingFits ==
  ASSUME IInv, Labelled, Grounded, Coherent, NEW h \in DOMAIN hists,
         NEW c \in EventPost(hists[h].e) \cup events[hists[h].e].cont,
         NEW rp \in Siblings(c, h)
  PROVE  /\ ConfOf(rp) = EventsOf(hists[h].past)
         /\ GoTogether(EventsOf(hists[h].past), ConfOf(rp), c, ecs[rp].c)
         /\ ecs[rp].c # c
<1>1. /\ rp \in DOMAIN ecs /\ ecs[rp].h = h /\ ecs[rp].c # c
      /\ ecs[rp].c \in EventPost(hists[h].e) \cup events[hists[h].e].cont
  BY DEF Siblings
<1>2. ~ IsComp(rp)
  BY <1>1, Elements DEF IsComp, IInv
<1>3. ecs[rp].hs = {h}
  BY <1>1, <1>2 DEF Coherent, EcSound
<1>4. ConfOf(rp) = EventsOf(hists[h].past)
  BY <1>3 DEF ConfOf
<1>5. PICK E : E = EventsOf(hists[h].past)
  OBVIOUS
<1>6. ConflictFree(E) /\ c \in CutOf(E) /\ ecs[rp].c \in CutOf(E)
  BY <1>1, <1>5, HistorySound
<1> QED
  BY <1>1, <1>4, <1>5, <1>6, FitsItself

-----------------------------------------------------------------------------
(* An appended enriched condition, before it is in the prefix.             *)
EcConf(ec) == EventsOf(UNION {hists[x].past : x \in ec.hs})

NewRelated(ec, q, B0, B1) ==
  /\ ec.c # ecs[q].c
  /\ GoTogether(EcConf(ec), ConfOf(q), ec.c, ecs[q].c)
  /\ q \in B0 <=> Readers(ec.c) \cap ConfOf(q) \subseteq EcConf(ec)
  /\ q \in B1 <=> Readers(ecs[q].c) \cap EcConf(ec) \subseteq ConfOf(q)

LEMMA EnrichesGrows ==
  ASSUME IInv, NEW ec, Enriches(ec)
  PROVE  Grows
BY EnrichesFrame DEF Grows

LEMMA NewConf ==
  ASSUME IInv, NEW ec, Enriches(ec), NEW n, n = Newest + 1
  PROVE  /\ ecs'[n] = ec /\ n \notin DOMAIN ecs /\ n \in DOMAIN ecs'
         /\ ConfOf(n)' = EcConf(ec) /\ EcConf(ec) \in SUBSET DOMAIN events
         /\ ec.c \in DOMAIN conds
<1>1. ecs'[n] = ec /\ n \notin DOMAIN ecs /\ n \in DOMAIN ecs' /\ UNCHANGED hists /\ ec \in EcType
  BY EnrichesFrame
<1>2. PICK H : H = UNION {hists[x].past : x \in ec.hs}
  OBVIOUS
<1>3. UNION {hists'[x].past : x \in ecs'[n].hs} = H
  BY <1>1, <1>2
<1>4. H \subseteq DOMAIN hists
  BY <1>1, <1>2, Elements DEF IInv, EcType, HistType
<1>5. EventsOf(H)' = EventsOf(H) /\ EventsOf(H) \in SUBSET DOMAIN events
  BY <1>1, <1>4, Elements DEF EventsOf, IInv, HistType
<1>6. EcConf(ec) = EventsOf(H)
  BY <1>2 DEF EcConf
<1>7. ConfOf(n)' = {hists'[x].e : x \in H}
  BY <1>3 DEF ConfOf, EventsOf
<1>8. EventsOf(H)' = {hists'[x].e : x \in H}
  BY DEF EventsOf
<1> QED
  BY <1>1, <1>5, <1>6, <1>7, <1>8 DEF EcType

LEMMA NewPair ==
  ASSUME IInv, NEW ec, Enriches(ec), NEW n, n = Newest + 1, NEW q \in DOMAIN ecs,
         GoTogether(EcConf(ec), ConfOf(q), ec.c, ecs[q].c)
  PROVE  /\ ec.c # ecs[q].c => Concurrent(n, q)' /\ Concurrent(q, n)'
         /\ ec.c = ecs[q].c => Joined(n, q)' /\ Joined(q, n)'
         /\ KeepsReaders(n, q)' <=> Readers(ec.c) \cap ConfOf(q) \subseteq EcConf(ec)
         /\ KeepsReaders(q, n)' <=> Readers(ecs[q].c) \cap EcConf(ec) \subseteq ConfOf(q)
<1>1. Grows
  BY EnrichesGrows
<1>2. PICK E \in SUBSET DOMAIN events : E = EcConf(ec) /\ ConfOf(n)' = E
  BY NewConf
<1>3. PICK F \in SUBSET DOMAIN events : F = ConfOf(q) /\ ConfOf(q)' = F
  BY <1>1, ConfStable
<1>4. PICK c \in DOMAIN conds : c = ec.c /\ ecs'[n].c = c
  BY NewConf
<1>5. PICK d \in DOMAIN conds : d = ecs[q].c /\ ecs'[q].c = d
  BY <1>1, ConfStable
<1>6. GoTogether(E, F, c, d)'
  BY <1>1, <1>2, <1>3, <1>4, <1>5, FitsStable
<1>7. GoTogether(F, E, d, c)'
  <2>1. GoTogether(F, E, d, c)
    BY <1>2, <1>3, <1>4, <1>5, FitsSymmetric
  <2> QED
    BY <1>1, <2>1, FitsStable
<1>8. ec.c # ecs[q].c => Concurrent(n, q)' /\ Concurrent(q, n)'
  BY <1>2, <1>3, <1>4, <1>5, <1>6, <1>7 DEF Concurrent, GoTogether
<1>9. ec.c = ecs[q].c => Joined(n, q)' /\ Joined(q, n)'
  BY <1>2, <1>3, <1>4, <1>5, <1>6, <1>7 DEF Joined, GoTogether
<1>10. Readers(c)' \cap F = Readers(c) \cap F /\ Readers(d)' \cap E = Readers(d) \cap E
  BY <1>1, ReadersStable
<1>11. KeepsReaders(n, q)' <=> Readers(c) \cap F \subseteq E
  BY <1>2, <1>3, <1>4, <1>10 DEF KeepsReaders
<1>12. KeepsReaders(q, n)' <=> Readers(d) \cap E \subseteq F
  BY <1>2, <1>3, <1>5, <1>10 DEF KeepsReaders
<1> QED
  BY <1>2, <1>3, <1>4, <1>5, <1>8, <1>9, <1>11, <1>12

(* The list co with the new one.                                           *)
Entered ==
  /\ \A p \in co : /\ Concurrent(p[1], p[2])
                   /\ p \in dir <=> KeepsReaders(p[1], p[2])
                   /\ <<p[2], p[1]>> \in co
  /\ dir \subseteq co

LEMMA EnteredNew ==
  ASSUME IInv, Entered, NEW ec, Enriches(ec), NEW n, n = Newest + 1,
         NEW N \in SUBSET DOMAIN ecs, NEW B0 \in SUBSET N, NEW B1 \in SUBSET N,
         co' = co \cup Both(n, N),
         dir' = dir \cup {<<n, x>> : x \in B0} \cup {<<x, n>> : x \in B1},
         \A q \in N : NewRelated(ec, q, B0, B1)
  PROVE  Entered'
<1>1. Grows
  BY EnrichesGrows
<1>2. n \notin DOMAIN ecs
  BY NewConf
<1>3. co \in SUBSET ((DOMAIN ecs) \X (DOMAIN ecs)) /\ dir \subseteq co
  BY DEF IInv, TypeOK, Entered
<1>4. dir' \subseteq co'
  BY <1>3 DEF Both
<1>5. ASSUME NEW p \in co
      PROVE  Concurrent(p[1], p[2])' /\ (p \in dir' <=> KeepsReaders(p[1], p[2])')
  <2>1. PICK x \in DOMAIN ecs, y \in DOMAIN ecs : p = <<x, y>> /\ p[1] = x /\ p[2] = y
    BY <1>3, <1>5
  <2>2. Concurrent(x, y) /\ (p \in dir <=> KeepsReaders(x, y))
    BY <1>5, <2>1 DEF Entered
  <2>3. p \in dir' <=> p \in dir
    BY <1>2, <2>1
  <2> QED
    BY <1>1, <2>1, <2>2, <2>3, ConcurrentStable
<1>6. ASSUME NEW q \in N
      PROVE  /\ Concurrent(n, q)' /\ Concurrent(q, n)'
             /\ <<n, q>> \in dir' <=> KeepsReaders(n, q)'
             /\ <<q, n>> \in dir' <=> KeepsReaders(q, n)'
  <2>1. NewRelated(ec, q, B0, B1)
    BY <1>6
  <2>2. <<n, q>> \in dir' <=> q \in B0
    BY <1>2, <1>3
  <2>3. <<q, n>> \in dir' <=> q \in B1
    BY <1>2, <1>3
  <2>4. /\ Concurrent(n, q)' /\ Concurrent(q, n)'
        /\ KeepsReaders(n, q)' <=> Readers(ec.c) \cap ConfOf(q) \subseteq EcConf(ec)
        /\ KeepsReaders(q, n)' <=> Readers(ecs[q].c) \cap EcConf(ec) \subseteq ConfOf(q)
    <3>1. /\ ec.c # ecs[q].c /\ q \in DOMAIN ecs
          /\ GoTogether(EcConf(ec), ConfOf(q), ec.c, ecs[q].c)
      BY <2>1 DEF NewRelated
    <3> QED
      BY <3>1, NewPair
  <2> QED
    BY <2>1, <2>2, <2>3, <2>4 DEF NewRelated
<1>7. ASSUME NEW p \in co'
      PROVE  Concurrent(p[1], p[2])' /\ (p \in dir' <=> KeepsReaders(p[1], p[2])')
  <2>1. CASE p \in co
    BY <1>5, <2>1
  <2>2. ASSUME NEW q \in N, p = <<n, q>>
        PROVE  Concurrent(p[1], p[2])' /\ (p \in dir' <=> KeepsReaders(p[1], p[2])')
    <3>1. p[1] = n /\ p[2] = q
      BY <2>2
    <3> QED
      BY <1>6, <2>2, <3>1
  <2>3. ASSUME NEW q \in N, p = <<q, n>>
        PROVE  Concurrent(p[1], p[2])' /\ (p \in dir' <=> KeepsReaders(p[1], p[2])')
    <3>1. p[1] = q /\ p[2] = n
      BY <2>3
    <3> QED
      BY <1>6, <2>3, <3>1
  <2> QED
    BY <1>7, <2>1, <2>2, <2>3 DEF Both
<1>8. ASSUME NEW p \in co' PROVE <<p[2], p[1]>> \in co'
  <2>1. CASE p \in co
    BY <2>1 DEF Entered
  <2>2. ASSUME NEW q \in N, p = <<n, q>> \/ p = <<q, n>> PROVE <<p[2], p[1]>> \in co'
    <3>1. <<n, q>> \in co' /\ <<q, n>> \in co'
      BY DEF Both
    <3> QED
      BY <2>2, <3>1
  <2> QED
    BY <1>8, <2>1, <2>2 DEF Both
<1> QED
  BY <1>4, <1>7, <1>8 DEF Entered

-----------------------------------------------------------------------------
(* A generating or reading condition of the current history.               *)
NewOf(c) == c \in EventPost(hists[cur].e) \cup events[hists[cur].e].cont

EnrichNew(c, ec) ==
  /\ NewOf(c) /\ Enrich(c, cur)
  /\ Enriches(ec) /\ ec = EcOf(c, cur) /\ ec.hs = {cur}

LEMMA EcOfFields ==
  ASSUME IInv, NEW c, NEW ec, EnrichNew(c, ec)
  PROVE  /\ ec.c = c /\ ec.h = cur /\ ec.hs = {cur} /\ cur \in DOMAIN hists
         /\ EcConf(ec) = EventsOf(hists[cur].past)
<1>1. ec.c = c /\ ec.h = cur /\ ec.hs = {cur}
  BY DEF EnrichNew, EcOf
<1>2. EcConf(ec) = EventsOf(hists[cur].past)
  BY <1>1 DEF EcConf
<1> QED
  BY <1>1, <1>2 DEF IInv, TypeOK

LEMMA EnrichEntered ==
  ASSUME IInv, Labelled, Grounded, Coherent, NEW c, NEW ec, EnrichNew(c, ec)
  PROVE  Entered'
<1> DEFINE sib  == Siblings(c, cur)
           conc == {rp \in Compatible(cur) : ecs[rp].c # c}
           b0   == {x \in conc : Bit0(c, cur, x)}
           b1   == {x \in conc : Bit1(cur, x)}
<1>1. PICK n : n = Newest + 1
  OBVIOUS
<1>2. /\ co' = co \cup Both(n, sib \cup conc)
      /\ dir' = dir \cup Both(n, sib) \cup {<<n, x>> : x \in b0} \cup {<<x, n>> : x \in b1}
  BY <1>1 DEF EnrichNew, Enrich
<1>3. dir' = dir \cup {<<n, x>> : x \in sib \cup b0} \cup {<<x, n>> : x \in sib \cup b1}
  <2> HIDE DEF sib, b0, b1
  <2> QED
    BY <1>2 DEF Both
<1>4. sib \subseteq DOMAIN ecs /\ conc \subseteq DOMAIN ecs /\ b0 \subseteq conc /\ b1 \subseteq conc
  BY DEF Siblings, Compatible, Candidates
<1>5. /\ ec.c = c /\ cur \in DOMAIN hists /\ Enriches(ec) /\ NewOf(c)
      /\ EcConf(ec) = EventsOf(hists[cur].past)
  BY EcOfFields DEF EnrichNew
<1>6. ASSUME NEW q \in sib PROVE NewRelated(ec, q, sib \cup b0, sib \cup b1)
  <2>1. /\ ConfOf(q) = EventsOf(hists[cur].past)
        /\ GoTogether(EventsOf(hists[cur].past), ConfOf(q), c, ecs[q].c)
        /\ ecs[q].c # c
    BY <1>5, SiblingFits DEF NewOf
  <2> HIDE DEF sib, b0, b1
  <2>2. q \in sib
    BY <1>6
  <2> QED
    BY <1>5, <2>1, <2>2 DEF NewRelated
<1>7. ASSUME NEW q \in conc, q \notin sib PROVE NewRelated(ec, q, sib \cup b0, sib \cup b1)
  <2>1. q \in Compatible(cur) /\ ecs[q].c # c
    BY <1>7
  <2>2. /\ GoTogether(EventsOf(hists[cur].past), ConfOf(q), c, ecs[q].c)
        /\ Bit0(c, cur, q) <=> Readers(c) \cap ConfOf(q) \subseteq EventsOf(hists[cur].past)
        /\ Bit1(cur, q) <=> Readers(ecs[q].c) \cap EventsOf(hists[cur].past) \subseteq ConfOf(q)
    BY <1>5, <2>1, CandidateFits, CandidateBits DEF NewOf
  <2>3. (q \in b0 <=> Bit0(c, cur, q)) /\ (q \in b1 <=> Bit1(cur, q))
    BY <1>7
  <2> HIDE DEF sib, b0, b1, conc
  <2> QED
    BY <1>5, <1>7, <2>1, <2>2, <2>3 DEF NewRelated
<1>8. Entered
  BY DEF Coherent, Related, Entered
<1> DEFINE N == sib \cup conc
           C0 == sib \cup b0
           C1 == sib \cup b1
<1>9. /\ N \in SUBSET DOMAIN ecs /\ C0 \in SUBSET N /\ C1 \in SUBSET N
      /\ \A q \in N : NewRelated(ec, q, C0, C1)
      /\ co' = co \cup Both(n, N)
      /\ dir' = dir \cup {<<n, x>> : x \in C0} \cup {<<x, n>> : x \in C1}
  BY <1>2, <1>3, <1>4, <1>6, <1>7
<1> HIDE DEF N, C0, C1, sib, conc, b0, b1
<1> QED
  BY <1>1, <1>5, <1>8, <1>9, EnteredNew

(* The list rco with it, and what is left to combine it with.              *)
LEMMA EnrichJoined ==
  ASSUME IInv, Labelled, Grounded, Coherent, NEW c, NEW ec, EnrichNew(c, ec),
         NEW n, n = Newest + 1
  PROVE  /\ \A p \in rco' : Joined(p[1], p[2])'
         /\ \A rp \in Compatible(cur) : ecs[rp].c = c => Joined(n, rp)'
<1> DEFINE same == {rp \in Compatible(cur) : ecs[rp].c = c}
<1>1. /\ ec.c = c /\ cur \in DOMAIN hists /\ Enriches(ec) /\ NewOf(c)
      /\ EcConf(ec) = EventsOf(hists[cur].past)
  BY EcOfFields DEF EnrichNew
<1>2. Grows
  BY <1>1, EnrichesGrows
<1>3. ASSUME NEW q \in same PROVE Joined(n, q)' /\ Joined(q, n)'
  <2>1. q \in Compatible(cur) /\ ecs[q].c = c /\ q \in DOMAIN ecs
    BY <1>3 DEF Compatible, Candidates
  <2>2. GoTogether(EventsOf(hists[cur].past), ConfOf(q), c, ecs[q].c)
    BY <1>1, <2>1, CandidateFits DEF NewOf
  <2>3. GoTogether(EcConf(ec), ConfOf(q), ec.c, ecs[q].c) /\ ec.c = ecs[q].c
    BY <1>1, <2>1, <2>2
  <2> QED
    BY <1>1, <2>1, <2>3, NewPair
<1>4. Joined(n, n)'
  <2>1. PICK E \in SUBSET DOMAIN events : E = EcConf(ec) /\ ConfOf(n)' = E
    BY <1>1, NewConf
  <2>2. ConflictFree(E) /\ c \in CutOf(E)
    BY <1>1, <2>1, HistorySound DEF NewOf
  <2>3. GoTogether(E, E, c, c)
    BY <2>2, FitsItself
  <2>4. c \in DOMAIN conds /\ ecs'[n].c = c
    BY <1>1, NewConf
  <2>5. GoTogether(E, E, c, c)'
    BY <1>2, <2>3, <2>4, FitsStable
  <2> QED
    BY <2>1, <2>4, <2>5 DEF Joined, GoTogether
<1>5. ASSUME NEW p \in rco PROVE Joined(p[1], p[2])'
  <2>1. PICK x \in DOMAIN ecs, y \in DOMAIN ecs : p[1] = x /\ p[2] = y
    BY <1>5 DEF IInv, TypeOK
  <2>2. Joined(x, y)
    BY <1>5, <2>1 DEF Coherent, Related
  <2> QED
    BY <1>2, <2>1, <2>2, ConcurrentStable
<1>6. \A p \in rco' : \/ p \in rco \/ p = <<n, n>>
                      \/ \E q \in same : p = <<n, q>> \/ p = <<q, n>>
  <2>1. rco' \subseteq rco \cup {<<n, rp>> : rp \in same} \cup {<<rp, n>> : rp \in same} \cup {<<n, n>>}
    BY DEF EnrichNew, Enrich
  <2> HIDE DEF same
  <2> QED
    BY <2>1
<1> HIDE DEF same
<1>7. ASSUME NEW p \in rco' PROVE Joined(p[1], p[2])'
  <2>1. CASE p \in rco
    BY <1>5, <2>1
  <2>2. CASE p = <<n, n>>
    BY <1>4, <2>2
  <2>3. ASSUME NEW q \in same, p = <<n, q>> PROVE Joined(p[1], p[2])'
    <3>1. p[1] = n /\ p[2] = q
      BY <2>3
    <3> QED
      BY <1>3, <3>1
  <2>4. ASSUME NEW q \in same, p = <<q, n>> PROVE Joined(p[1], p[2])'
    <3>1. p[1] = q /\ p[2] = n
      BY <2>4
    <3> QED
      BY <1>3, <3>1
  <2> QED
    BY <1>6, <1>7, <2>1, <2>2, <2>3, <2>4
<1> QED
  BY <1>3, <1>7 DEF same

LEMMA EnrichSound ==
  ASSUME IInv, Labelled, Grounded, Coherent, NEW c, NEW ec, EnrichNew(c, ec),
         NEW n, n = Newest + 1
  PROVE  EcSound(n)'
<1>1. /\ ec.c = c /\ ec.h = cur /\ ec.hs = {cur} /\ cur \in DOMAIN hists /\ cur # 0
      /\ Enriches(ec) /\ NewOf(c)
      /\ EcConf(ec) = EventsOf(hists[cur].past)
  <2>1. cur # 0
    BY Elements DEF IInv, TypeOK
  <2> QED
    BY <2>1, EcOfFields DEF EnrichNew
<1>2. Grows
  BY <1>1, EnrichesGrows
<1>3. PICK E \in SUBSET DOMAIN events : E = EcConf(ec) /\ ConfOf(n)' = E
  BY <1>1, NewConf
<1>4. ecs'[n] = ec /\ UNCHANGED <<events, conds, hists>>
  BY <1>1, NewConf, EnrichesFrame
<1>5. /\ Closed(E) /\ ConflictFree(E) /\ ReadersIn(E, hists[cur].rd) /\ c \in CutOf(E)
  BY <1>1, <1>3, HistorySound DEF NewOf
<1>6. /\ Closed(E)' /\ ConflictFree(E)'
  BY <1>2, <1>5, ClosedStable
<1>7. CutOf(E)' = CutOf(E)
  BY <1>4 DEF CutOf
<1>8. Rd(n)' = hists[cur].rd /\ ~ IsComp(n)'
  BY <1>1, <1>4 DEF Rd, IsComp
<1>9. \A x \in CutOf(E)' : Readers(x)' \cap E \subseteq hists[cur].rd
  <2> SUFFICES ASSUME NEW x \in CutOf(E) PROVE Readers(x)' \cap E \subseteq hists[cur].rd
    BY <1>7
  <2>1. Readers(x)' = Readers(x)
    BY <1>4 DEF Readers
  <2> QED
    BY <1>5, <2>1 DEF ReadersIn
<1>10. ec.r1 # 0 => ec.r1 \in hists[cur].ecl /\ ecs[ec.r1].c = c
  <2> SUFFICES ASSUME ec.r1 # 0 PROVE ec.r1 \in hists[cur].ecl /\ ecs[ec.r1].c = c
    OBVIOUS
  <2>1. ec = EcOf(c, cur)
    BY DEF EnrichNew
  <2>2. conds[c].pre # hists[cur].e
        /\ ec.r1 = CHOOSE g \in hists[cur].ecl : ecs[g].c = c
    BY <2>1 DEF EcOf
  <2>3. c \in events[hists[cur].e].cont
    BY <1>1, <2>2 DEF NewOf, EventPost
  <2>4. \E g \in hists[cur].ecl : ecs[g].c = c
    BY <1>1, <2>3 DEF IInv, Linked
  <2> QED
    BY <2>2, <2>4
<1>11. ec.r1 # 0 => ecs'[ec.r1].c = c
  <2>1. hists[cur].ecl \subseteq DOMAIN ecs
    BY <1>1, Elements DEF IInv, HistType
  <2> QED
    BY <1>2, <1>10, <2>1 DEF Grows
<1>12. ecs'[n].c \in CutOf(E)' /\ hists[cur].rd \subseteq E
  BY <1>1, <1>4, <1>5, <1>7 DEF ReadersIn
<1> QED
  BY <1>1, <1>3, <1>4, <1>6, <1>8, <1>9, <1>10, <1>11, <1>12 DEF EcSound

(* A search yields joint enriched conditions.                              *)
LEMMA ExtensionsJoint ==
  \A s \in Extensions' : \A p, q \in DOMAIN s.at : p # q => Joint(s.t, s.at[p], s.at[q])'
<1> SUFFICES ASSUME NEW s \in Extensions', NEW p \in DOMAIN s.at, NEW q \in DOMAIN s.at, p # q
             PROVE  Joint(s.t, s.at[p], s.at[q])'
  OBVIOUS
<1>1. PICK t \in net'.trans : \E f \in Combs(t, Newest)' : s = [t |-> t, at |-> f]
  BY DEF Extensions
<1>2. PICK f \in Combs(t, Newest)' : s = [t |-> t, at |-> f]
  BY <1>1
<1>3. s.t = t /\ s.at = f
  BY <1>2
<1>4. /\ DOMAIN f = net'.pre[t] \cup net'.cont[t]
      /\ \A x, y \in net'.pre[t] \cup net'.cont[t] : x # y => Joint(t, f[x], f[y])'
  BY <1>2 DEF Combs
<1> QED
  BY <1>3, <1>4

(* What an enriched condition leaves sound.                                *)
LEMMA CoherentNew ==
  ASSUME IInv, Coherent, NEW ec, Enriches(ec), NEW n, n = Newest + 1,
         co \subseteq co', dir \subseteq dir',
         Entered', EcSound(n)',
         \A p \in rco' : Joined(p[1], p[2])',
         \A rp \in combine' : Joined(reader, rp)',
         (reader # 0 => ~ IsComp(reader))'
  PROVE  Coherent'
<1>1. Grows
  BY EnrichesGrows
<1>2. /\ DOMAIN ecs' = DOMAIN ecs \cup {n} /\ UNCHANGED hists /\ sols' = Extensions'
  BY EnrichesFrame
<1>3. (\A h \in DOMAIN hists : Assembled(h))'
  BY <1>1, <1>2, AssembledStable DEF Coherent
<1>4. (\A r \in DOMAIN ecs : EcSound(r))'
  BY <1>1, <1>2, EcSoundStable DEF Coherent
<1>5. (\A s \in sols : \A p, q \in DOMAIN s.at : p # q => Joint(s.t, s.at[p], s.at[q]))'
  BY <1>2, ExtensionsJoint
<1>6. Related'
  BY <1>5 DEF Related, Entered
<1> QED
  BY <1>3, <1>4, <1>6 DEF Coherent

LEMMA GenerateCoherent ==
  ASSUME IInv, Labelled, Grounded, Coherent, NEW c \in gens, Generate(c), ~ Still
  PROVE  Coherent'
<1>1. PICK ec : ec = EcOf(c, cur)
  OBVIOUS
<1>2. PICK n : n = Newest + 1
  OBVIOUS
<1>3. /\ Enriches(ec) /\ Enrich(c, cur) /\ ec.hs = {cur}
      /\ reader' = reader /\ combine' = combine
  BY <1>1, GenerateCases
<1>4. NewOf(c)
  BY DEF NewOf, IInv, Linked
<1>5. EnrichNew(c, ec)
  BY <1>1, <1>3, <1>4 DEF EnrichNew
<1>6. co \subseteq co' /\ dir \subseteq dir'
  BY <1>3 DEF Enrich
<1>7. \A rp \in combine' : Joined(reader, rp)'
  <2>1. Grows
    BY <1>3, EnrichesGrows
  <2>2. \A rp \in combine : rp \in DOMAIN ecs /\ reader \in DOMAIN ecs /\ Joined(reader, rp)
    BY DEF IInv, TypeOK, Linked, Coherent, Related
  <2>3. PICK r : r = reader /\ r = reader'
    BY <1>3
  <2>4. \A rp \in combine : Joined(r, rp)'
    BY <2>1, <2>2, <2>3, ConcurrentStable
  <2> QED
    BY <1>3, <2>3, <2>4 DEF Joined
<1>8. Entered' /\ EcSound(n)' /\ \A p \in rco' : Joined(p[1], p[2])'
  BY <1>2, <1>5, EnrichEntered, EnrichSound, EnrichJoined
<1>9. (reader # 0 => ~ IsComp(reader))'
  <2>1. reader # 0 => reader \in DOMAIN ecs /\ ~ IsComp(reader)
    BY DEF IInv, TypeOK, Coherent, Related
  <2> QED
    BY <1>3, <2>1, EnrichesFrame DEF IsComp
<1> QED
  BY <1>2, <1>3, <1>6, <1>7, <1>8, <1>9, CoherentNew

LEMMA ReadCoherent ==
  ASSUME IInv, Labelled, Grounded, Coherent, NEW c \in reads, Read(c), ~ Still
  PROVE  Coherent'
<1>1. PICK ec : ec = EcOf(c, cur)
  OBVIOUS
<1>2. PICK n : n = Newest + 1
  OBVIOUS
<1>3. /\ Enriches(ec) /\ Enrich(c, cur) /\ ec.hs = {cur}
      /\ reader' = n /\ combine' = ToCombine(c, cur)
  BY <1>1, <1>2, ReadCases
<1>4. NewOf(c)
  BY DEF NewOf, IInv, Linked
<1>5. EnrichNew(c, ec)
  BY <1>1, <1>3, <1>4 DEF EnrichNew
<1>6. co \subseteq co' /\ dir \subseteq dir'
  BY <1>3 DEF Enrich
<1>7. \A rp \in combine' : Joined(reader, rp)'
  <2>1. \A rp \in combine' : rp \in Compatible(cur) /\ ecs[rp].c = c
    BY <1>3 DEF ToCombine
  <2>2. \A rp \in combine' : Joined(n, rp)'
    BY <1>2, <1>5, <2>1, EnrichJoined
  <2> QED
    BY <1>3, <2>2 DEF Joined
<1>8. Entered' /\ EcSound(n)' /\ \A p \in rco' : Joined(p[1], p[2])'
  BY <1>2, <1>5, EnrichEntered, EnrichSound, EnrichJoined
<1>9. (reader # 0 => ~ IsComp(reader))'
  <2>1. ecs'[n].h = cur /\ cur # 0
    BY <1>2, <1>3, <1>5, EcOfFields, NewConf, Elements DEF IInv
  <2> QED
    BY <1>3, <2>1 DEF IsComp
<1> QED
  BY <1>2, <1>3, <1>6, <1>7, <1>8, <1>9, CoherentNew

-----------------------------------------------------------------------------
(* A compound.                                                             *)
CombineNew(rp, ec) ==
  /\ rp \in combine /\ EnrichCompound(reader, rp)
  /\ Enriches(ec) /\ ec = EcCompound(reader, rp)

LEMMA CombineFields ==
  ASSUME IInv, Coherent, NEW rp, NEW ec, CombineNew(rp, ec),
         NEW D, NEW E, D = ConfOf(reader), E = ConfOf(rp), NEW c, c = ecs[reader].c
  PROVE  /\ reader \in DOMAIN ecs /\ rp \in DOMAIN ecs /\ ecs[reader].r1 # 0
         /\ ec.c = c /\ ec.h = 0 /\ ec.rd = Rd(reader) \cup Rd(rp)
         /\ EcConf(ec) = D \cup E
         /\ D \in SUBSET DOMAIN events /\ E \in SUBSET DOMAIN events
         /\ Closed(D \cup E) /\ ConflictFree(D \cup E)
         /\ c \in CutOf(D \cup E) /\ ecs[rp].c = c /\ Compose(D, E)
         /\ ReadersIn(D \cup E, ec.rd)
<1>1. reader \in DOMAIN ecs /\ rp \in DOMAIN ecs /\ ecs[reader].r1 # 0
  BY DEF IInv, TypeOK, Linked, CombineNew
<1>2. /\ ec.c = c /\ ec.h = 0 /\ ec.rd = Rd(reader) \cup Rd(rp)
      /\ ec.hs = ecs[reader].hs \cup ecs[rp].hs
  BY DEF CombineNew, EcCompound
<1>3. EcConf(ec) = D \cup E
  <2>1. PICK A, B : A = ecs[reader].hs /\ B = ecs[rp].hs
    OBVIOUS
  <2>2. ec.hs = A \cup B
    BY <1>2, <2>1
  <2>3. EcConf(ec) = {hists[y].e : y \in UNION {hists[x].past : x \in A \cup B}}
    BY <2>2 DEF EcConf, EventsOf
  <2>4. /\ D = {hists[y].e : y \in UNION {hists[x].past : x \in A}}
        /\ E = {hists[y].e : y \in UNION {hists[x].past : x \in B}}
    BY <2>1 DEF ConfOf, EventsOf
  <2>5. UNION {hists[x].past : x \in A \cup B}
          = (UNION {hists[x].past : x \in A}) \cup (UNION {hists[x].past : x \in B})
    OBVIOUS
  <2> QED
    BY <2>3, <2>4, <2>5
<1>4. D \in SUBSET DOMAIN events /\ E \in SUBSET DOMAIN events
  <2>1. /\ ecs[reader].hs \subseteq DOMAIN hists /\ ecs[rp].hs \subseteq DOMAIN hists
        /\ \A x \in DOMAIN hists : hists[x] \in HistType
    BY <1>1, Elements DEF IInv, EcType
  <2> QED
    BY <2>1 DEF ConfOf, EventsOf, HistType
<1>5. EcSound(reader) /\ EcSound(rp) /\ Joined(reader, rp)
  BY <1>1 DEF Coherent, Related, CombineNew
<1>6. Compose(D, E) /\ c \in CutOf(D \cup E) /\ ecs[rp].c = c
  BY <1>5 DEF Joined
<1>7. /\ Closed(D) /\ Closed(E) /\ ConflictFree(D) /\ ConflictFree(E)
      /\ ReadersIn(D, Rd(reader)) /\ ReadersIn(E, Rd(rp))
  BY <1>5 DEF EcSound, ReadersIn
<1>8. Closed(D \cup E)
  BY <1>7 DEF Closed
<1>9. ConflictFree(D \cup E)
  <2>1. \A x \in D, y \in E : ~ Conflict(x, y) /\ ~ Conflict(y, x)
    BY <1>6 DEF Compose, Conflict
  <2> QED
    BY <1>7, <2>1 DEF ConflictFree
<1>10. ReadersIn(D \cup E, ec.rd)
  BY <1>2, <1>7, ReadersUnion
<1> QED
  BY <1>1, <1>2, <1>3, <1>4, <1>6, <1>8, <1>9, <1>10

LEMMA CombineEntered ==
  ASSUME IInv, Coherent, NEW rp, NEW ec, CombineNew(rp, ec)
  PROVE  Entered'
<1> DEFINE conc == {x \in DOMAIN ecs : <<reader, x>> \in co /\ <<rp, x>> \in co}
           readersOf(S) == {e \in S : ec.c \in events[e].cont}
           b0 == {x \in conc : \/ <<reader, x>> \in dir
                               \/ <<rp, x>> \in dir
                               \/ readersOf(Rd(x)) \subseteq ec.rd}
           b1 == {x \in conc : <<x, reader>> \in dir /\ <<x, rp>> \in dir}
<1>1. PICK n : n = Newest + 1
  OBVIOUS
<1>2. /\ co' = co \cup Both(n, conc)
      /\ dir' = dir \cup {<<n, x>> : x \in b0} \cup {<<x, n>> : x \in b1}
  BY <1>1 DEF CombineNew, EnrichCompound
<1>3. PICK D, E, c : D = ConfOf(reader) /\ E = ConfOf(rp) /\ c = ecs[reader].c
  OBVIOUS
<1>4. /\ reader \in DOMAIN ecs /\ rp \in DOMAIN ecs
      /\ ec.c = c /\ EcConf(ec) = D \cup E
      /\ D \in SUBSET DOMAIN events /\ E \in SUBSET DOMAIN events
      /\ c \in CutOf(D \cup E) /\ ecs[rp].c = c
      /\ ReadersIn(D \cup E, ec.rd) /\ Enriches(ec)
  BY <1>3, CombineFields DEF CombineNew
<1>5. Related
  BY DEF Coherent
<1>6. ASSUME NEW q \in conc PROVE NewRelated(ec, q, b0, b1)
  <2>1. PICK F, S, d : F = ConfOf(q) /\ S = Rd(q) /\ d = ecs[q].c
    OBVIOUS
  <2>2. q \in DOMAIN ecs /\ <<reader, q>> \in co /\ <<rp, q>> \in co
    BY <1>6
  <2>3. /\ <<q, reader>> \in co /\ <<q, rp>> \in co
        /\ Concurrent(reader, q) /\ Concurrent(rp, q)
        /\ <<reader, q>> \in dir <=> Readers(c) \cap F \subseteq D
        /\ <<rp, q>> \in dir <=> Readers(c) \cap F \subseteq E
    BY <1>3, <1>4, <1>5, <2>1, <2>2 DEF Related, KeepsReaders
  <2>4. /\ <<q, reader>> \in dir <=> Readers(d) \cap D \subseteq F
        /\ <<q, rp>> \in dir <=> Readers(d) \cap E \subseteq F
    BY <1>3, <1>5, <2>1, <2>3 DEF Related, KeepsReaders
  <2>5. GoTogether(D, F, c, d) /\ GoTogether(E, F, c, d) /\ c # d
    BY <1>3, <1>4, <2>1, <2>3 DEF Concurrent, GoTogether
  <2>6. GoTogether(D \cup E, F, c, d)
    BY <2>5, FitsUnion
  <2>7. ReadersIn(F, S) /\ Closed(F) /\ F \in SUBSET DOMAIN events
    <3>1. EcSound(q)
      BY <2>2 DEF Coherent
    <3>2. ecs[q].hs \subseteq DOMAIN hists /\ \A x \in DOMAIN hists : hists[x] \in HistType
      BY <2>2, Elements DEF IInv, EcType
    <3>3. F \in SUBSET DOMAIN events
      BY <2>1, <3>2 DEF ConfOf, EventsOf, HistType
    <3> QED
      BY <2>1, <3>1, <3>3 DEF EcSound, ReadersIn
  <2>8. \A x \in Readers(c) : x \in F <=> x \in S
    <3>1. c \in CutOf((D \cup E) \cup F)
      BY <2>6 DEF GoTogether
    <3> QED
      BY <2>7, <3>1, ReadersFound
  <2>9. q \in b0 <=> \/ Readers(c) \cap F \subseteq D
                     \/ Readers(c) \cap F \subseteq E
                     \/ \A y \in S : c \in events[y].cont => y \in ec.rd
    BY <1>4, <1>6, <2>1, <2>3
  <2>10. q \in b1 <=> Readers(d) \cap D \subseteq F /\ Readers(d) \cap E \subseteq F
    BY <1>6, <2>4
  <2>11. (\A y \in S : c \in events[y].cont => y \in ec.rd)
           => Readers(c) \cap F \subseteq D \cup E
    <3> SUFFICES ASSUME \A y \in S : c \in events[y].cont => y \in ec.rd,
                        NEW y \in Readers(c), y \in F
                 PROVE  y \in D \cup E
      OBVIOUS
    <3>1. y \in S /\ c \in events[y].cont
      BY <2>8 DEF Readers
    <3> QED
      BY <1>4, <3>1 DEF ReadersIn
  <2>12. Readers(c) \cap F \subseteq D \cup E
           => \A y \in S : c \in events[y].cont => y \in ec.rd
    <3> SUFFICES ASSUME Readers(c) \cap F \subseteq D \cup E,
                        NEW y \in S, c \in events[y].cont
                 PROVE  y \in ec.rd
      OBVIOUS
    <3>1. y \in F /\ y \in DOMAIN events
      BY <2>7 DEF ReadersIn
    <3>2. y \in Readers(c)
      BY <3>1 DEF Readers
    <3>3. y \in D \cup E
      BY <3>1, <3>2
    <3> QED
      BY <1>4, <3>2, <3>3 DEF ReadersIn
  <2> HIDE DEF b0, b1, conc
  <2>13. q \in b0 <=> Readers(c) \cap F \subseteq D \cup E
    BY <2>9, <2>11, <2>12
  <2>14. q \in b1 <=> Readers(d) \cap (D \cup E) \subseteq F
    BY <2>10
  <2> QED
    BY <1>4, <2>1, <2>5, <2>6, <2>13, <2>14 DEF NewRelated
<1>7. Entered
  BY <1>5 DEF Related, Entered
<1>8. conc \in SUBSET DOMAIN ecs /\ b0 \in SUBSET conc /\ b1 \in SUBSET conc
  OBVIOUS
<1> HIDE DEF conc, b0, b1
<1> QED
  BY <1>1, <1>2, <1>4, <1>6, <1>7, <1>8, EnteredNew

(* What the compound can be combined with later: it has the histories of   *)
(* the condition its reader was found on, and more.                        *)
LEMMA CombineAncestor ==
  ASSUME IInv, Labelled, Grounded, Coherent, NEW rp, NEW ec, CombineNew(rp, ec),
         NEW D, NEW E, D = ConfOf(reader), E = ConfOf(rp), NEW c, c = ecs[reader].c,
         NEW g, g = ecs[reader].r1
  PROVE  g \in DOMAIN ecs /\ ecs[g].c = c /\ GoTogether(D \cup E, ConfOf(g), c, c)
<1>1. PICK h : h = ecs[reader].h
  OBVIOUS
<1>2. /\ reader \in DOMAIN ecs /\ g # 0 /\ ConflictFree(D \cup E)
      /\ c \in CutOf(D \cup E) /\ Compose(D, E)
  BY CombineFields
<1>3. ~ IsComp(reader)
  <2>1. reader # 0
    BY <1>2, Elements DEF IInv
  <2> QED
    BY <2>1 DEF Coherent, Related
<1>4. ecs[reader].hs = {h} /\ g \in hists[h].ecl /\ ecs[g].c = c
  BY <1>1, <1>2, <1>3 DEF Coherent, EcSound
<1>5. h \in DOMAIN hists
  BY <1>1, <1>2, <1>3, Elements DEF IInv, EcType, IsComp
<1>6. g \in DOMAIN ecs
  BY <1>4, <1>5, Elements DEF IInv, HistType
<1>7. PICK e, G : e = hists[h].e /\ G = hists[h].ecl
  OBVIOUS
<1>8. Extends(e, G) /\ D = {e} \cup All(G)
  <2>1. D = EventsOf(hists[h].past)
    BY <1>4 DEF ConfOf
  <2> QED
    BY <1>5, <1>7, <2>1, HistoryExtends, HistoryEvents
<1>9. PICK C : C = ConfOf(g)
  OBVIOUS
<1>10. C \subseteq D
  BY <1>4, <1>7, <1>8, <1>9 DEF All
<1>11. \A x \in C, f \in D \ C : ~ Before(f, x)
  BY <1>4, <1>7, <1>8, <1>9, ExtendsPart
<1>12. Compose(D \cup E, C)
  <2>1. \A x \in D \cup E, f \in C : ~ Conflict(x, f)
    BY <1>2, <1>10 DEF ConflictFree
  <2>2. ASSUME NEW x \in (D \cup E) \ C, NEW f \in C PROVE ~ Before(x, f)
    <3>1. CASE x \in D
      BY <1>11, <3>1
    <3>2. CASE x \in E \ D
      BY <1>2, <1>10, <3>2 DEF Compose
    <3> QED
      BY <3>1, <3>2
  <2> QED
    BY <1>10, <2>1, <2>2 DEF Compose
<1>13. (D \cup E) \cup C = D \cup E
  BY <1>10
<1> QED
  BY <1>2, <1>4, <1>6, <1>9, <1>12, <1>13 DEF GoTogether

LEMMA CombineCoherent ==
  ASSUME IInv, Labelled, Grounded, Coherent, NEW rp \in combine, Combine(rp)
  PROVE  Coherent'
<1>1. PICK ec : ec = EcCompound(reader, rp)
  OBVIOUS
<1>2. PICK n : n = Newest + 1
  OBVIOUS
<1>3. /\ Enriches(ec) /\ EnrichCompound(reader, rp)
      /\ combine' = combine \ {rp} /\ reader' = reader
  BY <1>1, CombineCases
<1>4. CombineNew(rp, ec)
  BY <1>1, <1>3 DEF CombineNew
<1>5. PICK D, E, c : D = ConfOf(reader) /\ E = ConfOf(rp) /\ c = ecs[reader].c
  OBVIOUS
<1>6. /\ reader \in DOMAIN ecs /\ rp \in DOMAIN ecs /\ ecs[reader].r1 # 0
      /\ ec.c = c /\ ec.h = 0
      /\ EcConf(ec) = D \cup E
      /\ D \in SUBSET DOMAIN events /\ E \in SUBSET DOMAIN events
      /\ Closed(D \cup E) /\ ConflictFree(D \cup E)
      /\ c \in CutOf(D \cup E)
      /\ ReadersIn(D \cup E, ec.rd)
  BY <1>4, <1>5, CombineFields
<1>7. Grows
  BY <1>3, EnrichesGrows
<1>8. co \subseteq co' /\ dir \subseteq dir'
  BY <1>3 DEF EnrichCompound
<1>9. EcSound(n)'
  <2>1. PICK F \in SUBSET DOMAIN events : F = D \cup E
    BY <1>6
  <2>2. ConfOf(n)' = F /\ ecs'[n] = ec /\ UNCHANGED <<events, conds, hists>>
    BY <1>2, <1>3, <1>6, <2>1, NewConf, EnrichesFrame
  <2>3. Closed(F)' /\ ConflictFree(F)'
    BY <1>6, <1>7, <2>1, ClosedStable
  <2>4. CutOf(F)' = CutOf(F) /\ \A x : Readers(x)' = Readers(x)
    BY <2>2 DEF CutOf, Readers
  <2>5. Rd(n)' = ec.rd /\ IsComp(n)'
    BY <1>6, <2>2 DEF Rd, IsComp
  <2>6. \A x \in CutOf(F)' : Readers(x)' \cap F \subseteq ec.rd
    BY <1>6, <2>1, <2>4 DEF ReadersIn
  <2>7. ecs'[n].c \in CutOf(F)' /\ ec.rd \subseteq F
    BY <1>6, <2>1, <2>2, <2>4 DEF ReadersIn
  <2> QED
    BY <2>2, <2>3, <2>5, <2>6, <2>7 DEF EcSound
<1>10. \A p \in rco' : Joined(p[1], p[2])'
  <2>1. PICK g : g = ecs[reader].r1
    OBVIOUS
  <2>2. rco' = rco \cup {<<g, n>>}
    BY <1>2, <1>3, <2>1 DEF EnrichCompound
  <2>3. g \in DOMAIN ecs /\ ecs[g].c = c /\ GoTogether(D \cup E, ConfOf(g), c, c)
    BY <1>4, <1>5, <2>1, CombineAncestor
  <2>4. GoTogether(EcConf(ec), ConfOf(g), ec.c, ecs[g].c) /\ ec.c = ecs[g].c
    BY <1>6, <2>3
  <2>5. Joined(g, n)'
    BY <1>2, <1>3, <2>3, <2>4, NewPair
  <2>6. ASSUME NEW p \in rco PROVE Joined(p[1], p[2])'
    <3>1. PICK x \in DOMAIN ecs, y \in DOMAIN ecs : p[1] = x /\ p[2] = y
      BY <2>6 DEF IInv, TypeOK
    <3>2. Joined(x, y)
      BY <2>6, <3>1 DEF Coherent, Related
    <3> QED
      BY <1>7, <3>1, <3>2, ConcurrentStable
  <2>7. ASSUME NEW p, p = <<g, n>> PROVE Joined(p[1], p[2])'
    <3>1. p[1] = g /\ p[2] = n
      BY <2>7
    <3> QED
      BY <2>5, <3>1
  <2> QED
    BY <2>2, <2>6, <2>7
<1>11. \A q \in combine' : Joined(reader, q)'
  <2>1. \A q \in combine : q \in DOMAIN ecs /\ Joined(reader, q)
    BY DEF IInv, TypeOK, Coherent, Related
  <2>2. PICK r : r = reader /\ r = reader'
    BY <1>3
  <2>3. \A q \in combine : Joined(r, q)'
    BY <1>6, <1>7, <2>1, <2>2, ConcurrentStable
  <2> QED
    BY <1>3, <2>2, <2>3 DEF Joined
<1>12. (reader # 0 => ~ IsComp(reader))'
  <2>1. reader # 0 => ~ IsComp(reader)
    BY DEF Coherent, Related
  <2> QED
    BY <1>3, <1>6, <1>7, <2>1 DEF IsComp, Grows
<1>13. Entered'
  BY <1>4, CombineEntered
<1> QED
  BY <1>2, <1>3, <1>8, <1>9, <1>10, <1>11, <1>12, <1>13, CoherentNew

-----------------------------------------------------------------------------
(* A solution: the arcs of its event, old or new, are the enriched         *)
(* conditions that were found joint.                                       *)
ArcsApart ==
  IInv /\ Labelled =>
    \A e \in DOMAIN events :
      /\ events[e].pre \cap events[e].cont = {}
      /\ events[e].pre \cup events[e].cont # {} => events[e].pre # {}
      /\ \A c \in events[e].pre : conds[c].pre # e
      /\ \A c \in events[e].pre : conds[c].fp \in net.pre[events[e].ft]

LEMMA ArcsAreApart == ArcsApart
<1> SUFFICES ASSUME IInv, Labelled, NEW e \in DOMAIN events
             PROVE  /\ events[e].pre \cap events[e].cont = {}
                    /\ events[e].pre \cup events[e].cont # {} => events[e].pre # {}
                    /\ \A c \in events[e].pre : conds[c].pre # e
                    /\ \A c \in events[e].pre : conds[c].fp \in net.pre[events[e].ft]
  BY DEF ArcsApart
<1>1. events[e].pre \cap events[e].cont = {}
      /\ \A c \in events[e].pre : conds[c].fp \in net.pre[events[e].ft]
  BY LabelFacts
<1>2. events[e].pre \cup events[e].cont # {} => events[e].pre # {}
  <2> SUFFICES ASSUME events[e].pre \cup events[e].cont # {} PROVE events[e].pre # {}
    OBVIOUS
  <2>1. events[e].ft \in net.trans
    BY LabelFacts
  <2> QED
    BY <2>1, Consumes, LabelFacts
<1>3. \A c \in events[e].pre : conds[c].pre # e
  <2> SUFFICES ASSUME NEW c \in events[e].pre, conds[c].pre = e PROVE FALSE
    OBVIOUS
  <2>1. conds[c].pre < e
    BY DEF IInv, Causal
  <2>2. e \in Nat
    BY Elements DEF IInv
  <2> QED
    BY <2>1, <2>2
<1> QED
  BY <1>1, <1>2, <1>3

LEMMA ArcsApartNext == ArcsApart'
BY ArcsAreApart, PTL

ExtendsRight ==
  \A e, G : Extends(e, G) =>
    Closed({e} \cup All(G)) /\ ConflictFree({e} \cup All(G)) /\ e \notin All(G)

LEMMA ExtendsIsRight == ExtendsRight
BY ExtendsClosed, ExtendsConflictFree, ExtendsNew DEF ExtendsRight

LEMMA ExtendsRightNext == ExtendsRight'
BY ExtendsIsRight, PTL

(* Any two enriched conditions of a solution.                              *)
LEMMA SolutionJoint ==
  ASSUME IInv, Searching, Coherent, NEW s \in sols, NEW g \in Ecl(s), NEW q \in Ecl(s)
  PROVE  /\ ecs[g].c = ecs[q].c => g = q
         /\ g # q => Joint(s.t, g, q)
<1>1. PICK x \in DOMAIN s.at, y \in DOMAIN s.at : g = s.at[x] /\ q = s.at[y]
  BY DEF Ecl
<1>2. Place(g) = x /\ Place(q) = y
  BY <1>1 DEF Searching
<1>3. ecs[g].c = ecs[q].c => x = y
  BY <1>2 DEF Place
<1>4. x # y => Joint(s.t, g, q)
  BY <1>1 DEF Coherent, Related
<1> QED
  BY <1>1, <1>3, <1>4

LEMMA SolveExtends ==
  ASSUME IInv, IInv', Labelled', Searching, Labelled, Coherent, Grows,
         NEW s \in sols, Solve(s),
         NEW e, e = EventOf(s), NEW G, G = Ecl(s)
  PROVE  Extends(e, G)' /\ G # {}
<1>1. /\ UNCHANGED <<net, conds, ecs>>
      /\ e \in DOMAIN events'
      /\ events'[e].pre \cup events'[e].cont = Chosen(s, DOMAIN s.at)
  BY SolveFrame, SolveEvent, EventChosen
<1>2. G = {s.at[p] : p \in DOMAIN s.at} /\ G \subseteq DOMAIN ecs
  BY SolutionFacts DEF Ecl
<1>3. events'[e].pre \cup events'[e].cont = {ecs'[g].c : g \in G}
  BY <1>1, <1>2 DEF Chosen
<1>4. /\ events'[e].pre \cap events'[e].cont = {}
      /\ events'[e].pre \cup events'[e].cont # {} => events'[e].pre # {}
      /\ \A c \in events'[e].pre : conds'[c].pre # e
  BY <1>1, ArcsApartNext DEF ArcsApart
<1>5. G # {} => events'[e].pre # {}
  BY <1>3, <1>4
<1>6. \A g \in G : Sound(g)'
  <2>1. \A g \in G : EcSound(g)'
    BY <1>2, EcSoundStable DEF Coherent
  <2> QED
    BY <2>1 DEF EcSound, Sound
<1>7. \A g, q \in G : /\ ecs'[g].c = ecs'[q].c => g = q
                      /\ g # q => Concurrent(g, q)'
  <2> SUFFICES ASSUME NEW g \in G, NEW q \in G
               PROVE  /\ ecs[g].c = ecs[q].c => g = q
                      /\ g # q => Concurrent(g, q)'
    BY <1>1
  <2>1. /\ ecs[g].c = ecs[q].c => g = q
        /\ g # q => <<g, q>> \in co
    BY SolutionJoint DEF Joint
  <2>2. g # q => Concurrent(g, q)
    BY <2>1 DEF Coherent, Related
  <2> QED
    BY <1>2, <2>1, <2>2, ConcurrentStable
<1>8. G # {}
  <2>1. Nod(s) # {}
    BY SolutionFacts
  <2> QED
    BY <2>1 DEF Nod
<1> QED
  BY <1>3, <1>4, <1>5, <1>6, <1>7, <1>8 DEF Extends

(* The sets rd and sd that the new history is given.                       *)
NewEvents(e, nod, evs) ==
  LET P == UNION {hists[x].past : x \in nod}
  IN  Len(hists) + 1 \notin P /\ evs = {e} \cup EventsOf(P)

NewCut(E, evs, cut) ==
  cut = {c \in DOMAIN conds : conds[c].pre \in evs /\ c \notin UNION {E[x].pre : x \in evs}}

NewReaders(E, e, evs, cut, H) ==
  /\ H.rd = {x \in evs : E[x].cont \cap cut # {}}
  /\ H.sd = {x \in evs : E[x].cont \cap E[e].pre # {}}

LEMMA NewHistoryReaders ==
  ASSUME NEW E, NEW e, NEW nod, NEW ecl, NEW evs, NEW cut,
         NewEvents(e, nod, evs), NewCut(E, evs, cut)
  PROVE  NewReaders(E, e, evs, cut, NewHistory(E, e, nod, ecl))
<1> DEFINE id   == Len(hists) + 1
           past == {id} \cup UNION {hists[x].past : x \in nod}
<1>1. past \ {id} = UNION {hists[x].past : x \in nod}
  BY DEF NewEvents
<1>2. {e} \cup EventsOf(past \ {id}) = evs
  BY <1>1 DEF NewEvents
<1>3. /\ NewHistory(E, e, nod, ecl).rd =
           {x \in {e} \cup EventsOf(past \ {id}) :
              E[x].cont \cap {c \in DOMAIN conds :
                 /\ conds[c].pre \in {e} \cup EventsOf(past \ {id})
                 /\ c \notin UNION {E[y].pre : y \in {e} \cup EventsOf(past \ {id})}} # {}}
      /\ NewHistory(E, e, nod, ecl).sd =
           {x \in {e} \cup EventsOf(past \ {id}) : E[x].cont \cap E[e].pre # {}}
  BY DEF NewHistory
<1> QED
  BY <1>2, <1>3 DEF NewReaders, NewCut

LEMMA SolveAssembled ==
  ASSUME IInv, IInv', Labelled', Searching, Labelled, Coherent, Grows,
         NEW s \in sols, Solve(s), NEW id, id = Len(hists) + 1
  PROVE  Assembled(id)'
<1>1. PICK e, G, N : e = EventOf(s) /\ G = Ecl(s) /\ N = Nod(s)
  OBVIOUS
<1>2. /\ UNCHANGED <<net, conds, ecs, co>> /\ dir' = dir
      /\ id \notin DOMAIN hists /\ id \in DOMAIN hists'
      /\ \A x \in DOMAIN hists : hists'[x] = hists[x]
      /\ hists'[id] = NewHistory(events', e, N, G)
      /\ e \in DOMAIN events' /\ events'[e].ft = s.t
  BY <1>1, SolveFrame, SolveEvent, EventChosen DEF Solve, enrich
<1>3. /\ N \subseteq DOMAIN hists /\ N = UNION {ecs[r].hs : r \in G}
      /\ G \subseteq DOMAIN ecs
  BY <1>1, SolutionFacts DEF Nod
<1>4. \A x \in DOMAIN hists : hists[x] \in HistType
  BY Elements DEF IInv
<1>5. PICK P : P = UNION {hists[x].past : x \in N}
  OBVIOUS
<1>6. P \subseteq DOMAIN hists
  BY <1>3, <1>4, <1>5 DEF HistType
<1>7. /\ hists'[id].e = e /\ hists'[id].ecl = G
      /\ hists'[id].past = {id} \cup P
  <2>1. events' = IF InstancesOf(s) = {} THEN Append(events, NewEvent(s)) ELSE events
    BY SolveFrame
  <2> QED
    BY <1>1, <1>2, <1>5, <2>1, NewHistoryType
<1>8. PICK E : E = {e} \cup EventsOf(P)
  OBVIOUS
<1>9. EventsOf(hists[id].past)' = E
  <2>1. EventsOf(hists[id].past)' = {hists'[x].e : x \in {id} \cup P}
    BY <1>7 DEF EventsOf
  <2>2. \A x \in P : hists'[x].e = hists[x].e
    BY <1>2, <1>6
  <2>3. {hists'[x].e : x \in {id} \cup P} = {e} \cup {hists[x].e : x \in P}
    BY <1>7, <2>2
  <2> QED
    BY <1>8, <2>1, <2>3 DEF EventsOf
<1>10. Extends(e, G)'
  BY <1>1, SolveExtends
<1>11. E = {e} \cup All(G)'
  <2>1. All(G)' = UNION {ConfOf(g)' : g \in G}
    BY DEF All
  <2>2. \A g \in G : ConfOf(g)' = ConfOf(g)
    BY <1>3, ConfStable
  <2>3. \A g \in G : ConfOf(g) = {hists[y].e : y \in UNION {hists[x].past : x \in ecs[g].hs}}
    BY DEF ConfOf, EventsOf
  <2>4. ASSUME NEW x PROVE x \in EventsOf(P) <=> \E g \in G : x \in ConfOf(g)
    <3>1. x \in EventsOf(P) => \E g \in G : x \in ConfOf(g)
      <4> SUFFICES ASSUME x \in EventsOf(P) PROVE \E g \in G : x \in ConfOf(g)
        OBVIOUS
      <4>1. PICK y \in P : x = hists[y].e
        BY DEF EventsOf
      <4>2. PICK g \in G : \E z \in ecs[g].hs : y \in hists[z].past
        BY <1>3, <1>5, <4>1
      <4> QED
        BY <2>3, <4>1, <4>2
    <3>2. ASSUME NEW g \in G, x \in ConfOf(g) PROVE x \in EventsOf(P)
      <4>1. PICK y \in UNION {hists[z].past : z \in ecs[g].hs} : x = hists[y].e
        BY <2>3, <3>2
      <4>2. y \in P
        BY <1>3, <1>5, <4>1
      <4> QED
        BY <4>1, <4>2 DEF EventsOf
    <3> QED
      BY <3>1, <3>2
  <2>5. EventsOf(P) = UNION {ConfOf(g) : g \in G}
    BY <2>4
  <2> QED
    BY <1>8, <2>1, <2>2, <2>5
<1>12. Closed(E)' /\ ConflictFree(E)' /\ e \notin All(G)'
  <2>1. PICK A : A = All(G)'
    OBVIOUS
  <2>2. Closed({e} \cup A)' /\ ConflictFree({e} \cup A)' /\ e \notin A
    BY <1>10, <2>1, ExtendsRightNext DEF ExtendsRight
  <2> QED
    BY <1>11, <2>1, <2>2
<1>13. PICK ev, cut : /\ ev = events'
                     /\ cut = {c \in DOMAIN conds :
                                 conds[c].pre \in E /\ c \notin UNION {ev[x].pre : x \in E}}
  OBVIOUS
<1>14. CutOf(E)' = cut
  BY <1>2, <1>13 DEF CutOf
<1>15. NewEvents(e, N, E)
  <2>1. Len(hists) + 1 \notin P
    BY <1>2, <1>6
  <2> QED
    BY <1>5, <1>8, <2>1 DEF NewEvents
<1>16. /\ hists'[id].rd = {x \in E : ev[x].cont \cap cut # {}}
       /\ hists'[id].sd = {x \in E : ev[x].cont \cap ev[e].pre # {}}
  <2>1. NewCut(ev, E, cut)
    BY <1>13 DEF NewCut
  <2>2. NewReaders(ev, e, E, cut, NewHistory(ev, e, N, G))
    BY <1>15, <2>1, NewHistoryReaders
  <2>3. PICK H : H = hists'[id] /\ H = NewHistory(ev, e, N, G)
    BY <1>2, <1>13
  <2>4. NewReaders(ev, e, E, cut, H)
    BY <2>2, <2>3
  <2> QED
    BY <2>3, <2>4 DEF NewReaders
<1>17. /\ hists'[id].rd = {x \in E : events'[x].cont \cap CutOf(E)' # {}}
       /\ hists'[id].sd = {x \in E : events'[x].cont \cap events'[e].pre # {}}
  BY <1>13, <1>14, <1>16
<1>18. hists'[id].past =
         {id} \cup UNION {hists'[x].past : x \in UNION {ecs'[g].hs : g \in hists'[id].ecl}}
  <2>1. UNION {ecs'[g].hs : g \in hists'[id].ecl} = N
    BY <1>2, <1>3, <1>7
  <2>2. UNION {hists'[x].past : x \in N} = P
    BY <1>2, <1>3, <1>5
  <2> QED
    BY <1>7, <2>1, <2>2
<1>19. \A g, q \in G :
         /\ e \notin ConfOf(g)'
         /\ g # q => /\ <<g, q>> \in co'
                     /\ ecs'[g].c \in events'[e].pre => <<g, q>> \in dir'
  <2> SUFFICES ASSUME NEW g \in G, NEW q \in G
               PROVE  /\ e \notin ConfOf(g)'
                      /\ g # q => /\ <<g, q>> \in co'
                                  /\ ecs'[g].c \in events'[e].pre => <<g, q>> \in dir'
    OBVIOUS
  <2>1. e \notin ConfOf(g)'
    BY <1>12 DEF All
  <2>2. g # q => Joint(s.t, g, q)
    BY <1>1, SolutionJoint
  <2>3. ecs'[g].c \in events'[e].pre => Place(g) \in net.pre[s.t]
    <3>1. \A c \in events'[e].pre : conds'[c].fp \in net'.pre[events'[e].ft]
      BY <1>2, ArcsApartNext DEF ArcsApart
    <3> QED
      BY <1>2, <3>1 DEF Place
  <2> QED
    BY <1>2, <2>1, <2>2, <2>3 DEF Joint
<1>20. Black(id)' = events'[e].pre
  BY <1>7 DEF Black
<1> QED
  BY <1>7, <1>9, <1>12, <1>17, <1>18, <1>19, <1>20 DEF Assembled

(* Steps that leave the enriched conditions alone.                         *)
LEMMA RelatedStable ==
  ASSUME IInv, Related, Grows, UNCHANGED <<net, ecs, co, dir, rco>>,
         reader' = reader \/ reader' = 0, combine' \subseteq combine,
         combine' # {} => reader' = reader,
         sols' \subseteq sols
  PROVE  Related'
<1>1. ASSUME NEW p \in co
      PROVE  /\ Concurrent(p[1], p[2])'
             /\ (p \in dir <=> KeepsReaders(p[1], p[2])')
             /\ <<p[2], p[1]>> \in co
  <2>1. PICK x \in DOMAIN ecs, y \in DOMAIN ecs : p[1] = x /\ p[2] = y
    BY <1>1 DEF IInv, TypeOK
  <2>2. Concurrent(x, y) /\ (p \in dir <=> KeepsReaders(x, y)) /\ <<y, x>> \in co
    BY <1>1, <2>1 DEF Related
  <2> QED
    BY <2>1, <2>2, ConcurrentStable
<1>2. ASSUME NEW p \in rco PROVE Joined(p[1], p[2])'
  <2>1. PICK x \in DOMAIN ecs, y \in DOMAIN ecs : p[1] = x /\ p[2] = y
    BY <1>2 DEF IInv, TypeOK
  <2>2. Joined(x, y)
    BY <1>2, <2>1 DEF Related
  <2> QED
    BY <2>1, <2>2, ConcurrentStable
<1>3. (reader # 0 => ~ IsComp(reader))'
  BY DEF Related, IsComp
<1>4. \A rp \in combine' : Joined(reader, rp)'
  <2> SUFFICES ASSUME NEW rp \in combine' PROVE Joined(reader, rp)'
    OBVIOUS
  <2>1. /\ reader' = reader /\ rp \in DOMAIN ecs /\ reader \in DOMAIN ecs
        /\ Joined(reader, rp)
    BY DEF IInv, TypeOK, Linked, Related
  <2>2. PICK r : r = reader
    OBVIOUS
  <2>3. Joined(r, rp)'
    BY <2>1, <2>2, ConcurrentStable
  <2> QED
    BY <2>1, <2>2, <2>3 DEF Joined
<1>5. \A s \in sols' : \A p, q \in DOMAIN s.at : p # q => Joint(s.t, s.at[p], s.at[q])'
  <2> SUFFICES ASSUME NEW s \in sols', NEW p \in DOMAIN s.at, NEW q \in DOMAIN s.at, p # q
               PROVE  Joint(s.t, s.at[p], s.at[q])'
    OBVIOUS
  <2>1. PICK x, y : x = s.at[p] /\ y = s.at[q]
    OBVIOUS
  <2>2. Joint(s.t, x, y)
    BY <2>1 DEF Related
  <2>3. x \in DOMAIN ecs /\ y \in DOMAIN ecs
    BY <2>1 DEF IInv, TypeOK
  <2>4. Place(x)' = Place(x) /\ Place(y)' = Place(y)
    BY <2>3, ConfStable DEF Place, Grows
  <2> QED
    BY <2>1, <2>2, <2>4 DEF Joint
<1> QED
  BY <1>1, <1>2, <1>3, <1>4, <1>5 DEF Related

LEMMA StillCoherent ==
  ASSUME IInv, Coherent, Still
  PROVE  Coherent'
<1>1. UNCHANGED <<net, opt, events, conds, hists, ecs, co, dir, rco, numco, queue, table,
                  cur, gens, reads, reader, combine, sols>>
  BY StillFrame
<1>2. Grows
  BY <1>1 DEF Grows
<1>3. Related'
  BY <1>1, <1>2, RelatedStable DEF Coherent
<1>4. (\A h \in DOMAIN hists : Assembled(h))'
  BY <1>1, <1>2, AssembledStable DEF Coherent
<1>5. (\A r \in DOMAIN ecs : EcSound(r))'
  BY <1>1, <1>2, EcSoundStable DEF Coherent
<1> QED
  BY <1>3, <1>4, <1>5 DEF Coherent

LEMMA SolveCoherent ==
  ASSUME IInv, IInv', Labelled', Searching, Labelled, Coherent, Grows,
         NEW s \in sols, Solve(s)
  PROVE  Coherent'
<1>1. /\ UNCHANGED <<net, ecs, co, dir, rco, reader, combine>> /\ sols' = sols \ {s}
      /\ DOMAIN hists' = DOMAIN hists \cup {Len(hists) + 1}
  BY SolveFrame DEF Solve, enrich
<1>2. Related'
  BY <1>1, RelatedStable DEF Coherent
<1>3. (\A r \in DOMAIN ecs : EcSound(r))'
  BY <1>1, EcSoundStable DEF Coherent
<1>4. \A h \in DOMAIN hists : Assembled(h)'
  BY <1>1, AssembledStable DEF Coherent
<1>5. PICK id : id = Len(hists) + 1
  OBVIOUS
<1>6. Assembled(id)'
  BY <1>5, SolveAssembled
<1>7. (\A h \in DOMAIN hists : Assembled(h))'
  BY <1>1, <1>4, <1>5, <1>6
<1> QED
  BY <1>2, <1>3, <1>7 DEF Coherent

LEMMA PopsCoherent ==
  ASSUME IInv, Coherent, Grows, NEW h \in queue, Pops(h)
  PROVE  Coherent'
<1>1. /\ UNCHANGED <<net, ecs, co, sols, combine>> /\ combine = {} /\ reader' = 0
  BY AddFrame
<1>2. UNCHANGED <<dir, rco>> /\ DOMAIN hists' = DOMAIN hists
  <2>1. Add(h)
    BY DEF Pops
  <2> QED
    BY <2>1, AddHists DEF Add, enrich
<1>3. Related'
  BY <1>1, <1>2, RelatedStable DEF Coherent
<1>4. (\A x \in DOMAIN hists : Assembled(x))'
  BY <1>1, <1>2, AssembledStable DEF Coherent
<1>5. (\A r \in DOMAIN ecs : EcSound(r))'
  BY <1>1, EcSoundStable DEF Coherent
<1> QED
  BY <1>3, <1>4, <1>5 DEF Coherent

LEMMA CoherentNext ==
  ASSUME IInv, IInv', Labelled, Labelled', Searching, Grounded, Coherent, [Next]_vars
  PROVE  Coherent'
<1>1. Grows
  BY StepGrows
<1>2. CASE Still
  BY <1>2, StillCoherent
<1>3. ASSUME NEW c \in gens, Generate(c), ~ Still PROVE Coherent'
  BY <1>3, GenerateCoherent
<1>4. ASSUME NEW c \in reads, Read(c), ~ Still PROVE Coherent'
  BY <1>4, ReadCoherent
<1>5. ASSUME NEW rp \in combine, Combine(rp) PROVE Coherent'
  BY <1>5, CombineCoherent
<1>6. ASSUME NEW s \in sols, Solve(s) PROVE Coherent'
  BY <1>1, <1>6, SolveCoherent
<1>7. ASSUME NEW h \in queue, Pop(h) \/ Pick(h) PROVE Coherent'
  <2>1. Pops(h)
    BY <1>7 DEF Pop, Pick, Pops
  <2> QED
    BY <1>1, <2>1, PopsCoherent
<1>8. CASE Quit \/ UNCHANGED vars
  BY <1>2, <1>8 DEF Quit, vars, Still
<1> QED
  BY <1>2, <1>3, <1>4, <1>5, <1>6, <1>7, <1>8 DEF Next

LEMMA CoherentInit == Init => Coherent
<1> SUFFICES ASSUME Init PROVE Coherent
  OBVIOUS
<1>1. /\ events = <<[ft |-> T0, pre |-> {}, cont |-> {}, iscutoff |-> FALSE]>>
      /\ hists = <<[e |-> 1, nod |-> {}, past |-> {1}, ecl |-> {}, depth |-> 0,
                    corr |-> 0, rd |-> {}, sd |-> {}, marking |-> net.post[T0]]>>
      /\ ecs = <<>> /\ co = {} /\ dir = {} /\ rco = {}
      /\ reader = 0 /\ combine = {} /\ sols = {}
  BY DEF Init
<1>2. /\ DOMAIN hists = {1} /\ hists[1].e = 1 /\ hists[1].past = {1} /\ hists[1].ecl = {}
      /\ hists[1].rd = {} /\ hists[1].sd = {}
      /\ events[1].pre = {} /\ events[1].cont = {}
  BY <1>1
<1>3. EventsOf(hists[1].past) = {1}
  BY <1>2 DEF EventsOf
<1>4. Closed({1}) /\ ConflictFree({1})
  BY <1>2 DEF Closed, ConflictFree, Conflict
<1>5. Assembled(1)
  BY <1>2, <1>3, <1>4 DEF Assembled
<1>6. DOMAIN ecs = {}
  BY <1>1
<1>7. Related
  BY <1>1 DEF Related
<1> QED
  BY <1>2, <1>5, <1>6, <1>7 DEF Coherent

LEMMA CoherentAlways == Spec => []Coherent
<1>1. IInv /\ IInv' /\ Labelled /\ Labelled' /\ Searching /\ Grounded /\ Coherent /\ [Next]_vars
        => Coherent'
  BY CoherentNext
<1> QED
  BY <1>1, CoherentInit, Invariant, LabelledAlways, SearchingAlways, GroundedAlways, PTL DEF Spec

(* Two enriched conditions are in the list co only if their histories can  *)
(* both be extended to a common one that leaves both conditions in its cut, *)
(* and the two low bits of an entry say whose readers are missing in the   *)
(* other's histories: no event and no history comes from an unsound entry, *)
(* at any time and not only between two rounds of the main loop.           *)
THEOREM ConcurrencyIsSound == Spec => []ConcurrencySound
<1>1. Coherent => ConcurrencySound
  BY DEF Coherent, Related, ConcurrencySound
<1> QED
  BY <1>1, CoherentAlways, PTL

-----------------------------------------------------------------------------
(* Which histories an enriched condition stands for.                       *)

(* The event of x produces or reads c.                                     *)
Touches(c, x) == c \in EventPost(hists[x].e) \cup events[hists[x].e].cont

Evs(h) == EventsOf(hists[h].past)

(* What the current history is going to produce or read has no enriched    *)
(* condition with it yet, and the reading condition of it that is being    *)
(* combined has one for each of those that it was combined with.           *)
Enriched(r) == ecs[r].c \notin gens \cup reads

Compounded(r) ==
  \/ r = reader
  \/ \E q \in DOMAIN ecs \ combine : /\ ecs[q].c = ecs[r].c
                                     /\ cur \notin ecs[q].hs
                                     /\ ecs[r].hs = {cur} \cup ecs[q].hs

(* A history is not the one of an event in the other's past.               *)
Unordered(x, y) == hists[x].e \notin Evs(y) /\ hists[y].e \notin Evs(x)

Combinable(rp) ==
  \A y \in ecs[rp].hs : /\ ecs[reader].c \in events[hists[y].e].cont
                        /\ Unordered(cur, y)

Arranged ==
  /\ \A r \in DOMAIN ecs : \A x \in ecs[r].hs : Touches(ecs[r].c, x)
  /\ \A h \in DOMAIN hists : \A g \in hists[h].ecl :
       ecs[g].c \in events[hists[h].e].cont => IsGen(g)
  /\ \A s \in sols : \A p \in DOMAIN s.at : p \in net.cont[s.t] => IsGen(s.at[p])
  /\ \A p \in rco : p[1] # p[2] =>
       \A x \in ecs[p[2]].hs : ecs[p[2]].c \in events[hists[x].e].cont
  /\ reader # 0 => /\ ecs[reader].hs = {cur} /\ Enriched(reader)
                   /\ ecs[reader].c \in events[hists[cur].e].cont
  /\ \A rp \in combine : Combinable(rp)
  /\ \A r \in DOMAIN ecs : cur \in ecs[r].hs =>
       /\ Enriched(r)
       /\ reader # 0 /\ ecs[r].c = ecs[reader].c => Compounded(r)
  /\ \A r, q \in DOMAIN ecs : ecs[r].c = ecs[q].c /\ ecs[r].hs = ecs[q].hs => r = q

(* What is found to be compatible with c although it is one for c: c is not *)
(* produced by the event of h, which is not in its history.                *)
LEMMA SameCondition ==
  ASSUME IInv, Labelled, Grounded, Coherent, NEW h \in DOMAIN hists,
         NEW rp \in Compatible(h), NEW c, c = ecs[rp].c
  PROVE  /\ rp \in DOMAIN ecs /\ hists[h].e \notin ConfOf(rp)
         /\ c \notin EventPost(hists[h].e)
         /\ \A g \in hists[h].ecl : ecs[g].c = c => <<g, rp>> \in rco
<1>1. PICK e, G : e = hists[h].e /\ G = hists[h].ecl
  OBVIOUS
<1>2. Extends(e, G)
  BY <1>1, HistoryExtends
<1>3. /\ rp \in DOMAIN ecs /\ G # {}
      /\ \A g \in G : \/ <<g, rp>> \in co
                      \/ ecs[g].c \notin events[e].pre /\ <<g, rp>> \in rco
  BY <1>1 DEF Compatible, Candidates, Black
<1>4. PICK F : F = ConfOf(rp)
  OBVIOUS
<1>5. EcSound(rp) /\ \A g \in G : <<g, rp>> \in co => Concurrent(g, rp)
  BY <1>3 DEF Coherent, Related
<1>6. e \notin F
  <2>1. PICK b \in events[e].pre : TRUE
    BY <1>2, <1>3 DEF Extends
  <2>2. PICK g \in G : ecs[g].c = b
    BY <1>2 DEF Extends
  <2>3. Concurrent(g, rp)
    BY <1>3, <1>5, <2>1, <2>2
  <2>4. b \in CutOf(ConfOf(g) \cup F)
    BY <1>4, <2>2, <2>3 DEF Concurrent
  <2> QED
    BY <2>1, <2>4 DEF CutOf
<1>7. c \notin EventPost(e)
  <2>1. conds[c].pre \in F
    BY <1>4, <1>5 DEF EcSound, CutOf
  <2> QED
    BY <1>6, <2>1 DEF EventPost
<1>8. ASSUME NEW g \in G, ecs[g].c = c PROVE <<g, rp>> \in rco
  <2>1. <<g, rp>> \notin co
    BY <1>5, <1>8 DEF Concurrent
  <2> QED
    BY <1>3, <2>1
<1> QED
  BY <1>1, <1>3, <1>4, <1>6, <1>7, <1>8

LEMMA TouchesStable ==
  ASSUME IInv, Grows, NEW c \in DOMAIN conds, NEW x \in DOMAIN hists
  PROVE  /\ Touches(c, x)' <=> Touches(c, x)
         /\ c \in events[hists[x].e].cont <=> c \in events'[hists'[x].e].cont
<1>1. PICK e : e = hists[x].e
  OBVIOUS
<1>2. e \in DOMAIN events /\ hists'[x].e = e
  BY <1>1, Elements DEF IInv, HistType, Grows
<1>3. events'[e].cont = events[e].cont
  BY <1>2 DEF Grows
<1>4. c \in EventPost(e)' <=> c \in EventPost(e)
  BY DEF EventPost, Grows
<1> QED
  BY <1>1, <1>2, <1>3, <1>4 DEF Touches

LEMMA EvsStable ==
  ASSUME IInv, Grows, NEW h \in DOMAIN hists
  PROVE  /\ Evs(h)' = Evs(h) /\ Evs(h) \in SUBSET DOMAIN events
         /\ hists'[h].e = hists[h].e /\ hists[h].e \in DOMAIN events
<1>1. hists[h].past \subseteq DOMAIN hists /\ \A x \in DOMAIN hists : hists[x].e \in DOMAIN events
  BY Elements DEF IInv, HistType
<1>2. hists'[h].past = hists[h].past /\ \A x \in DOMAIN hists : hists'[x].e = hists[x].e
  BY DEF Grows
<1> QED
  BY <1>1, <1>2 DEF Evs, EventsOf

LEMMA IsGenStable ==
  ASSUME IInv, Grows, NEW r \in DOMAIN ecs
  PROVE  IsGen(r)' <=> IsGen(r)
<1>1. ecs'[r] = ecs[r] /\ ecs[r].h \in DOMAIN hists \cup {0} /\ ecs[r].c \in DOMAIN conds
  BY Elements DEF IInv, EcType, Grows
<1>2. conds'[ecs[r].c] = conds[ecs[r].c]
  BY <1>1 DEF Grows
<1>3. ecs[r].h # 0 => hists'[ecs[r].h].e = hists[ecs[r].h].e
  BY <1>1 DEF Grows
<1> QED
  BY <1>1, <1>2, <1>3 DEF IsGen, IsComp

LEMMA CombinableStable ==
  ASSUME IInv, Grows, UNCHANGED <<cur, reader>>, NEW rp \in combine, Combinable(rp)
  PROVE  Combinable(rp)'
<1>1. PICK r, h : r = reader /\ h = cur
  OBVIOUS
<1>2. r \in DOMAIN ecs /\ rp \in DOMAIN ecs /\ h \in DOMAIN hists
  BY <1>1 DEF IInv, TypeOK, Linked
<1>3. ecs'[rp] = ecs[rp] /\ ecs'[r] = ecs[r] /\ ecs[rp].hs \subseteq DOMAIN hists
      /\ ecs[r].c \in DOMAIN conds
  BY <1>2, Elements DEF IInv, EcType, Grows
<1>4. ASSUME NEW y \in ecs[rp].hs
      PROVE  /\ (ecs[r].c \in events[hists[y].e].cont)'
             /\ Unordered(h, y)'
  <2>1. ecs[r].c \in events[hists[y].e].cont /\ Unordered(h, y)
    BY <1>1 DEF Combinable
  <2>2. y \in DOMAIN hists
    BY <1>3
  <2>3. ecs[r].c \in events'[hists'[y].e].cont
    BY <1>3, <2>1, <2>2, TouchesStable
  <2>4. Evs(y)' = Evs(y) /\ Evs(h)' = Evs(h) /\ hists'[y].e = hists[y].e /\ hists'[h].e = hists[h].e
    BY <1>2, <2>2, EvsStable
  <2> QED
    BY <1>3, <2>1, <2>3, <2>4 DEF Unordered
<1>5. r = reader' /\ h = cur'
  BY <1>1
<1> QED
  BY <1>3, <1>4, <1>5 DEF Combinable, Unordered

LEMMA CompoundedStable ==
  ASSUME IInv, Grows, UNCHANGED <<cur, reader>>, combine' \subseteq combine,
         NEW r \in DOMAIN ecs, Compounded(r)
  PROVE  Compounded(r)'
<1>1. \A q \in DOMAIN ecs : q \in DOMAIN ecs' /\ ecs'[q] = ecs[q]
  BY DEF Grows
<1>2. CASE r = reader
  BY <1>2 DEF Compounded
<1>3. ASSUME NEW q \in DOMAIN ecs \ combine, ecs[q].c = ecs[r].c, cur \notin ecs[q].hs,
             ecs[r].hs = {cur} \cup ecs[q].hs
      PROVE  Compounded(r)'
  <2>1. q \in DOMAIN ecs' \ combine' /\ ecs'[q] = ecs[q] /\ ecs'[r] = ecs[r]
    BY <1>1
  <2> QED
    BY <1>3, <2>1 DEF Compounded
<1> QED
  BY <1>2, <1>3 DEF Compounded

(* The parts of Arranged that do not speak of the history at work.         *)
Placed ==
  /\ \A r \in DOMAIN ecs : \A x \in ecs[r].hs : Touches(ecs[r].c, x)
  /\ \A h \in DOMAIN hists : \A g \in hists[h].ecl :
       ecs[g].c \in events[hists[h].e].cont => IsGen(g)
  /\ \A p \in rco : p[1] # p[2] =>
       \A x \in ecs[p[2]].hs : ecs[p[2]].c \in events[hists[x].e].cont

LEMMA EcTouchesStable ==
  ASSUME IInv, Grows, NEW r \in DOMAIN ecs, \A x \in ecs[r].hs : Touches(ecs[r].c, x)
  PROVE  (\A x \in ecs[r].hs : Touches(ecs[r].c, x))'
<1>1. ecs'[r] = ecs[r] /\ ecs[r].hs \subseteq DOMAIN hists /\ ecs[r].c \in DOMAIN conds
  BY Elements DEF IInv, EcType, Grows
<1>2. ASSUME NEW x \in ecs[r].hs PROVE Touches(ecs[r].c, x)'
  <2>1. PICK c \in DOMAIN conds : c = ecs[r].c /\ c = ecs'[r].c
    BY <1>1
  <2>2. Touches(c, x)'
    BY <1>1, <2>1, TouchesStable
  <2> QED
    BY <2>1, <2>2 DEF Touches
<1> QED
  BY <1>1, <1>2

LEMMA EcReadStable ==
  ASSUME IInv, Grows, NEW r \in DOMAIN ecs, \A x \in ecs[r].hs : ecs[r].c \in events[hists[x].e].cont
  PROVE  (\A x \in ecs[r].hs : ecs[r].c \in events[hists[x].e].cont)'
<1>1. ecs'[r] = ecs[r] /\ ecs[r].hs \subseteq DOMAIN hists /\ ecs[r].c \in DOMAIN conds
  BY Elements DEF IInv, EcType, Grows
<1> QED
  BY <1>1, TouchesStable

LEMMA HistGenStable ==
  ASSUME IInv, Grows, NEW h \in DOMAIN hists,
         \A g \in hists[h].ecl : ecs[g].c \in events[hists[h].e].cont => IsGen(g)
  PROVE  (\A g \in hists[h].ecl : ecs[g].c \in events[hists[h].e].cont => IsGen(g))'
<1>1. hists'[h].ecl = hists[h].ecl /\ hists[h].ecl \subseteq DOMAIN ecs
  BY Elements DEF IInv, HistType, Grows
<1> SUFFICES ASSUME NEW g \in hists[h].ecl, (ecs[g].c \in events[hists[h].e].cont)'
             PROVE  IsGen(g)'
  BY <1>1
<1>2. g \in DOMAIN ecs /\ ecs'[g] = ecs[g] /\ ecs[g].c \in DOMAIN conds
  BY <1>1, Elements DEF IInv, EcType, Grows
<1>3. ecs[g].c \in events[hists[h].e].cont
  BY <1>2, TouchesStable
<1> QED
  BY <1>2, <1>3, IsGenStable

LEMMA PlacedStable ==
  ASSUME IInv, Grows, Placed, UNCHANGED <<ecs, rco>>, DOMAIN hists' = DOMAIN hists
  PROVE  Placed'
<1>1. (\A r \in DOMAIN ecs : \A x \in ecs[r].hs : Touches(ecs[r].c, x))'
  BY EcTouchesStable DEF Placed
<1>2. (\A h \in DOMAIN hists : \A g \in hists[h].ecl :
         ecs[g].c \in events[hists[h].e].cont => IsGen(g))'
  BY HistGenStable DEF Placed
<1>3. ASSUME NEW p \in rco, p[1] # p[2]
      PROVE  (\A x \in ecs[p[2]].hs : ecs[p[2]].c \in events[hists[x].e].cont)'
  <2>1. PICK q \in DOMAIN ecs : p[2] = q
    BY <1>3 DEF IInv, TypeOK
  <2>2. \A x \in ecs[q].hs : ecs[q].c \in events[hists[x].e].cont
    BY <1>3, <2>1 DEF Placed
  <2> QED
    BY <2>1, <2>2, EcReadStable
<1> QED
  BY <1>1, <1>2, <1>3 DEF Placed

LEMMA ExtensionsGenerated ==
  ASSUME (Newest \in DOMAIN ecs)', Consuming(net')
  PROVE  (\A s \in Extensions : \A p \in DOMAIN s.at : p \in net.cont[s.t] => IsGen(s.at[p]))'
<1> SUFFICES ASSUME NEW s \in Extensions', NEW p \in DOMAIN s.at, p \in net'.cont[s.t]
             PROVE  IsGen(s.at[p])'
  OBVIOUS
<1>1. PICK n : n = Newest'
  OBVIOUS
<1>2. PICK t \in net'.trans : /\ Place(n)' \in net'.pre[t] \cup
                                   (IF IsGen(n)' THEN net'.cont[t] ELSE {})
                              /\ \E f \in Combs(t, n)' : s = [t |-> t, at |-> f]
  BY <1>1 DEF Extensions, IsGen, Place, IsComp
<1>3. PICK f \in Combs(t, n)' : s = [t |-> t, at |-> f]
  BY <1>2
<1>4. s.t = t /\ s.at = f
  BY <1>3
<1>5. /\ DOMAIN f = net'.pre[t] \cup net'.cont[t]
      /\ \A q \in DOMAIN f : Place(f[q])' = q
      /\ \A q \in DOMAIN f : f[q] = n \/ (Place(f[q])' \in net'.cont[t] => IsGen(f[q])')
  BY <1>3 DEF Combs
<1>6. PICK r : r = f[p]
  OBVIOUS
<1>7. p \in DOMAIN f /\ Place(r)' = p /\ p \in net'.cont[t]
  BY <1>4, <1>5, <1>6
<1>8. CASE r = n
  <2>1. Place(n)' \notin net'.pre[t]
    BY <1>7, <1>8 DEF Consuming
  <2>2. IsGen(n)'
    BY <1>2, <2>1
  <2> QED
    BY <1>4, <1>6, <1>8, <2>2
<1>9. CASE r # n
  BY <1>4, <1>5, <1>6, <1>7, <1>9
<1> QED
  BY <1>8, <1>9

(* What the enriched condition ec adds to Arranged.                        *)
ReadByAll(ec) == \A x \in ec.hs : ec.c \in events[hists[x].e].cont

LEMMA PlacedNew ==
  ASSUME IInv, Placed, NEW ec, Enriches(ec), NEW n, n = Newest + 1,
         \A x \in ec.hs : Touches(ec.c, x),
         \A p \in rco' : p \in rco \/ p[1] = p[2] \/ (p[2] = n /\ ReadByAll(ec))
  PROVE  Placed'
<1>1. Grows
  BY EnrichesGrows
<1>2. /\ DOMAIN ecs' = DOMAIN ecs \cup {n} /\ ecs'[n] = ec
      /\ UNCHANGED <<hists, events, conds>>
  BY EnrichesFrame
<1>3. (\A r \in DOMAIN ecs : \A x \in ecs[r].hs : Touches(ecs[r].c, x))'
  <2>1. ASSUME NEW r \in DOMAIN ecs
        PROVE  (\A x \in ecs[r].hs : Touches(ecs[r].c, x))'
    BY <1>1, EcTouchesStable DEF Placed
  <2>2. (\A x \in ecs[n].hs : Touches(ecs[n].c, x))'
    BY <1>2 DEF Touches, EventPost
  <2> QED
    BY <1>2, <2>1, <2>2
<1>4. (\A h \in DOMAIN hists : \A g \in hists[h].ecl :
         ecs[g].c \in events[hists[h].e].cont => IsGen(g))'
  BY <1>1, <1>2, HistGenStable DEF Placed
<1>5. ASSUME NEW p \in rco', p[1] # p[2]
      PROVE  (\A x \in ecs[p[2]].hs : ecs[p[2]].c \in events[hists[x].e].cont)'
  <2>1. CASE p \in rco
    <3>1. PICK q \in DOMAIN ecs : p[2] = q
      BY <2>1 DEF IInv, TypeOK
    <3>2. \A x \in ecs[q].hs : ecs[q].c \in events[hists[x].e].cont
      BY <1>5, <2>1, <3>1 DEF Placed
    <3> QED
      BY <1>1, <3>1, <3>2, EcReadStable
  <2>2. CASE p[2] = n /\ ReadByAll(ec)
    BY <1>2, <2>2 DEF ReadByAll
  <2> QED
    BY <1>5, <2>1, <2>2
<1> QED
  BY <1>3, <1>4, <1>5 DEF Placed

(* The list rco with a generating or reading condition.                    *)
LEMMA EnrichReads ==
  ASSUME IInv, Labelled, Grounded, Coherent, NEW c, NEW ec, EnrichNew(c, ec),
         NEW n, n = Newest + 1
  PROVE  /\ \A x \in ec.hs : Touches(ec.c, x)
         /\ \A p \in rco' : p \in rco \/ p[1] = p[2] \/ (p[2] = n /\ ReadByAll(ec))
<1> DEFINE same == {rp \in Compatible(cur) : ecs[rp].c = c}
<1>1. /\ ec.c = c /\ cur \in DOMAIN hists /\ Enriches(ec) /\ NewOf(c) /\ ec.hs = {cur}
      /\ ec = EcOf(c, cur)
  BY EcOfFields DEF EnrichNew
<1>2. same # {} => c \notin EventPost(hists[cur].e)
  BY <1>1, SameCondition
<1>3. c \notin EventPost(hists[cur].e) => c \in events[hists[cur].e].cont /\ ReadByAll(ec)
  BY <1>1 DEF NewOf, ReadByAll
<1>4. c \in events[hists[cur].e].cont => ec.r1 # 0
  BY <1>1, EcOfType
<1>5. rco' \subseteq rco \cup (IF ec.r1 = 0 THEN {<<n, rp>> : rp \in same} ELSE {})
                    \cup {<<rp, n>> : rp \in same} \cup {<<n, n>>}
  BY <1>1 DEF EnrichNew, Enrich
<1> HIDE DEF same
<1>6. ASSUME NEW p \in rco' PROVE p \in rco \/ p[1] = p[2] \/ (p[2] = n /\ ReadByAll(ec))
  <2>1. CASE p \in rco \/ p = <<n, n>>
    BY <2>1
  <2>2. ASSUME NEW q \in same, p = <<n, q>>, ec.r1 = 0 PROVE FALSE
    BY <1>2, <1>3, <1>4, <2>2
  <2>3. ASSUME NEW q \in same, p = <<q, n>> PROVE p[2] = n /\ ReadByAll(ec)
    BY <1>2, <1>3, <2>3
  <2>4. \/ p \in rco \/ p = <<n, n>>
        \/ \E q \in same : p = <<n, q>> /\ ec.r1 = 0
        \/ \E q \in same : p = <<q, n>>
    BY <1>5
  <2> QED
    BY <2>1, <2>2, <2>3, <2>4
<1>7. \A x \in ec.hs : Touches(ec.c, x)
  BY <1>1 DEF Touches, NewOf
<1> QED
  BY <1>6, <1>7

(* The rest of it.                                                         *)
Working ==
  /\ reader # 0 => /\ ecs[reader].hs = {cur} /\ Enriched(reader)
                   /\ ecs[reader].c \in events[hists[cur].e].cont
  /\ \A rp \in combine : Combinable(rp)
  /\ \A r \in DOMAIN ecs : cur \in ecs[r].hs =>
       /\ Enriched(r)
       /\ reader # 0 /\ ecs[r].c = ecs[reader].c => Compounded(r)
  /\ \A r, q \in DOMAIN ecs : ecs[r].c = ecs[q].c /\ ecs[r].hs = ecs[q].hs => r = q

LEMMA ArrangedNew ==
  ASSUME IInv, IInv', NEW ec, Enriches(ec), Placed', Working'
  PROVE  Arranged'
<1>1. (Newest \in DOMAIN ecs)'
  BY EnrichesFrame
<1>2. Consuming(net') /\ sols' = Extensions'
  BY EnrichesFrame, NetsAssumption DEF IInv, TypeOK
<1>3. (\A s \in sols : \A p \in DOMAIN s.at : p \in net.cont[s.t] => IsGen(s.at[p]))'
  BY <1>1, <1>2, ExtensionsGenerated
<1> QED
  BY <1>3 DEF Arranged, Placed, Working

LEMMA UniqueNew ==
  ASSUME IInv, Arranged, NEW ec, Enriches(ec),
         \A r \in DOMAIN ecs : ~ (ecs[r].c = ec.c /\ ecs[r].hs = ec.hs)
  PROVE  (\A r, q \in DOMAIN ecs : ecs[r].c = ecs[q].c /\ ecs[r].hs = ecs[q].hs => r = q)'
<1>1. /\ DOMAIN ecs' = DOMAIN ecs \cup {Newest + 1} /\ ecs'[Newest + 1] = ec
      /\ \A r \in DOMAIN ecs : ecs'[r] = ecs[r]
  BY EnrichesFrame
<1> QED
  BY <1>1 DEF Arranged

LEMMA GenerateArranged ==
  ASSUME IInv, IInv', Labelled, Grounded, Coherent, Arranged,
         NEW c \in gens, Generate(c), ~ Still
  PROVE  Arranged'
<1>1. PICK ec, n : ec = EcOf(c, cur) /\ n = Newest + 1
  OBVIOUS
<1>2. /\ Enriches(ec) /\ Enrich(c, cur) /\ ec.hs = {cur}
      /\ reader' = reader /\ combine' = combine /\ reads' = reads /\ gens' = gens \ {c}
  BY <1>1, GenerateCases
<1>3. c \in EventPost(hists[cur].e) /\ reads \subseteq events[hists[cur].e].cont
  BY DEF IInv, Linked
<1>4. EnrichNew(c, ec)
  BY <1>1, <1>2, <1>3 DEF EnrichNew, NewOf
<1>5. Grows
  BY <1>2, EnrichesGrows
<1>6. /\ DOMAIN ecs' = DOMAIN ecs \cup {n} /\ ecs'[n] = ec /\ n \notin DOMAIN ecs
      /\ \A r \in DOMAIN ecs : ecs'[r] = ecs[r]
      /\ UNCHANGED <<hists, events, conds, cur>> /\ ec.c = c
  BY <1>1, <1>2, <1>4, EnrichesFrame, EcOfFields
<1>7. Placed'
  <2>1. Placed
    BY DEF Arranged, Placed
  <2> QED
    BY <1>1, <1>2, <1>4, <2>1, EnrichReads, PlacedNew
<1>8. c \notin reads
  <2> SUFFICES ASSUME c \in reads PROVE FALSE
    OBVIOUS
  <2>1. hists[cur].e \in DOMAIN events /\ conds[c].pre = hists[cur].e
    BY <1>3, Elements DEF IInv, TypeOK, HistType, EventPost
  <2>2. hists[cur].e < hists[cur].e
    BY <1>3, <2>1 DEF IInv, Causal
  <2>3. hists[cur].e \in Nat
    BY <2>1, Elements DEF IInv
  <2> QED
    BY <2>2, <2>3
<1>9. \A r \in DOMAIN ecs : cur \in ecs[r].hs => ecs[r].c # c
  BY DEF Arranged, Enriched
<1>10. reader # 0 => reader \in DOMAIN ecs /\ ecs[reader].c # c
  BY DEF Arranged, Enriched, IInv, TypeOK
<1>11. (\A r, q \in DOMAIN ecs : ecs[r].c = ecs[q].c /\ ecs[r].hs = ecs[q].hs => r = q)'
  BY <1>2, <1>6, <1>9, UniqueNew
<1>12. (reader # 0 => /\ ecs[reader].hs = {cur} /\ Enriched(reader)
                      /\ ecs[reader].c \in events[hists[cur].e].cont)'
  BY <1>2, <1>6, <1>10 DEF Arranged, Enriched
<1>13. (\A rp \in combine : Combinable(rp))'
  BY <1>2, <1>5, <1>6, CombinableStable DEF Arranged
<1>14. ASSUME NEW r \in DOMAIN ecs', cur' \in ecs'[r].hs
       PROVE  /\ Enriched(r)'
              /\ reader' # 0 /\ ecs'[r].c = ecs'[reader'].c => Compounded(r)'
  <2>1. CASE r = n
    <3>1. Enriched(r)'
      BY <1>2, <1>6, <1>8, <2>1 DEF Enriched
    <3> QED
      BY <1>2, <1>6, <1>10, <2>1, <3>1
  <2>2. CASE r \in DOMAIN ecs
    <3>1. Enriched(r) /\ (reader # 0 /\ ecs[r].c = ecs[reader].c => Compounded(r))
      BY <1>6, <1>14, <2>2 DEF Arranged
    <3>2. Enriched(r)'
      BY <1>2, <1>6, <2>2, <3>1 DEF Enriched
    <3>3. Compounded(r) => Compounded(r)'
      BY <1>2, <1>5, <1>6, <2>2, CompoundedStable
    <3> QED
      BY <1>2, <1>6, <1>10, <2>2, <3>1, <3>2, <3>3
  <2> QED
    BY <1>6, <2>1, <2>2
<1>15. Working'
  BY <1>11, <1>12, <1>13, <1>14 DEF Working
<1> QED
  BY <1>2, <1>7, <1>15, ArrangedNew

LEMMA ReadArranged ==
  ASSUME IInv, IInv', Labelled, Grounded, Coherent, Arranged,
         NEW c \in reads, Read(c), ~ Still
  PROVE  Arranged'
<1>1. PICK ec, n : ec = EcOf(c, cur) /\ n = Newest + 1
  OBVIOUS
<1>2. /\ Enriches(ec) /\ Enrich(c, cur) /\ ec.hs = {cur}
      /\ gens' = {} /\ reads' = reads \ {c} /\ reader' = n /\ combine' = ToCombine(c, cur)
  BY <1>1, ReadCases
<1>3. c \in events[hists[cur].e].cont
  BY DEF IInv, Linked
<1>4. EnrichNew(c, ec)
  BY <1>1, <1>2, <1>3 DEF EnrichNew, NewOf
<1>5. Grows
  BY <1>2, EnrichesGrows
<1>6. /\ DOMAIN ecs' = DOMAIN ecs \cup {n} /\ ecs'[n] = ec /\ n \notin DOMAIN ecs
      /\ \A r \in DOMAIN ecs : ecs'[r] = ecs[r]
      /\ UNCHANGED <<hists, events, conds, cur>> /\ ec.c = c /\ cur \in DOMAIN hists
  BY <1>1, <1>2, <1>4, EnrichesFrame, EcOfFields
<1>7. Placed'
  <2>1. Placed
    BY DEF Arranged, Placed
  <2> QED
    BY <1>1, <1>2, <1>4, <2>1, EnrichReads, PlacedNew
<1>8. \A r \in DOMAIN ecs : cur \in ecs[r].hs => Enriched(r) /\ ecs[r].c # c
  BY DEF Arranged, Enriched
<1>9. (\A r, q \in DOMAIN ecs : ecs[r].c = ecs[q].c /\ ecs[r].hs = ecs[q].hs => r = q)'
  BY <1>2, <1>6, <1>8, UniqueNew
<1>10. (reader # 0 => /\ ecs[reader].hs = {cur} /\ Enriched(reader)
                      /\ ecs[reader].c \in events[hists[cur].e].cont)'
  BY <1>2, <1>3, <1>6 DEF Enriched
<1>11. ASSUME NEW rp \in combine' PROVE Combinable(rp)'
  <2>1. /\ rp \in Compatible(cur) /\ ecs[rp].c = c /\ rp # ec.r1
        /\ EventsOf(ecs[rp].hs) \cap hists[cur].rd = {}
    BY <1>1, <1>2, <1>11 DEF ToCombine
  <2>2. /\ rp \in DOMAIN ecs /\ hists[cur].e \notin ConfOf(rp)
        /\ \A g \in hists[cur].ecl : ecs[g].c = c => <<g, rp>> \in rco
    BY <1>6, <2>1, SameCondition
  <2>3. ec.r1 # 0
    BY <1>1, <1>3, <1>6, EcOfType
  <2>4. ec.r1 \in hists[cur].ecl /\ ecs[ec.r1].c = c
    <3>1. EcSound(n)'
      BY <1>1, <1>4, EnrichSound
    <3>2. ecs'[n].h = cur /\ cur # 0
      BY <1>4, <1>6, EcOfFields, Elements DEF IInv
    <3>3. ec.r1 \in hists[cur].ecl /\ ecs'[ec.r1].c = c
      BY <1>6, <2>3, <3>1, <3>2 DEF EcSound, IsComp
    <3>4. hists[cur].ecl \subseteq DOMAIN ecs
      BY <1>6, Elements DEF IInv, HistType
    <3> QED
      BY <1>6, <3>3, <3>4
  <2>5. \A y \in ecs[rp].hs : c \in events[hists[y].e].cont
    <3>1. <<ec.r1, rp>> \in rco
      BY <2>2, <2>4
    <3>2. \A p \in rco : p[1] # p[2] =>
             \A y \in ecs[p[2]].hs : ecs[p[2]].c \in events[hists[y].e].cont
      BY DEF Arranged
    <3>3. \A y \in ecs[rp].hs : ecs[rp].c \in events[hists[y].e].cont
      BY <2>1, <3>1, <3>2
    <3> QED
      BY <2>1, <3>3
  <2>6. ASSUME NEW y \in ecs[rp].hs PROVE Unordered(cur, y)
    <3>1. PICK E : E = EventsOf(hists[cur].past)
      OBVIOUS
    <3>2. /\ c \in CutOf(E)
          /\ \A x \in E : events[x].cont \cap CutOf(E) # {} => x \in hists[cur].rd
      BY <1>3, <1>6, <3>1, HistorySound
    <3>3. hists[y].e \in EventsOf(ecs[rp].hs)
      BY DEF EventsOf
    <3>4. hists[y].e \notin Evs(cur)
      BY <2>1, <2>5, <3>1, <3>2, <3>3 DEF Evs
    <3>5. Evs(y) \subseteq ConfOf(rp)
      BY DEF Evs, ConfOf, EventsOf
    <3> QED
      BY <2>2, <3>4, <3>5 DEF Unordered
  <2>7. ecs[rp].hs \subseteq DOMAIN hists
    BY <2>2, Elements DEF IInv, EcType
  <2> QED
    BY <1>2, <1>6, <2>2, <2>5, <2>6 DEF Combinable, Unordered, Evs, EventsOf
<1>12. ASSUME NEW r \in DOMAIN ecs', cur' \in ecs'[r].hs
       PROVE  /\ Enriched(r)'
              /\ reader' # 0 /\ ecs'[r].c = ecs'[reader'].c => Compounded(r)'
  <2>1. CASE r = n
    BY <1>2, <1>6, <2>1 DEF Enriched, Compounded
  <2>2. CASE r \in DOMAIN ecs
    <3>1. Enriched(r)'
      BY <1>2, <1>6, <1>8, <1>12, <2>2 DEF Enriched
    <3> QED
      BY <1>2, <1>6, <1>8, <1>12, <2>2, <3>1
  <2> QED
    BY <1>6, <2>1, <2>2
<1>13. Working'
  BY <1>9, <1>10, <1>11, <1>12 DEF Working
<1> QED
  BY <1>2, <1>7, <1>13, ArrangedNew

LEMMA CombineArranged ==
  ASSUME IInv, IInv', Labelled, Grounded, Coherent, Arranged, NEW rp \in combine, Combine(rp)
  PROVE  Arranged'
<1>1. PICK ec, n : ec = EcCompound(reader, rp) /\ n = Newest + 1
  OBVIOUS
<1>2. /\ Enriches(ec) /\ EnrichCompound(reader, rp)
      /\ reader \in DOMAIN ecs /\ rp \in DOMAIN ecs /\ reader # 0
      /\ gens' = {} /\ combine' = combine \ {rp} /\ UNCHANGED <<reads, reader>>
  BY <1>1, CombineCases DEF IInv, Linked
<1>3. CombineNew(rp, ec)
  BY <1>1, <1>2 DEF CombineNew
<1>4. PICK c, D, E : c = ecs[reader].c /\ D = ConfOf(reader) /\ E = ConfOf(rp)
  OBVIOUS
<1>5. ec.c = c /\ ecs[rp].c = c /\ ec.hs = ecs[reader].hs \cup ecs[rp].hs
  <2>1. ec.c = c /\ ecs[rp].c = c
    BY <1>3, <1>4, CombineFields
  <2> QED
    BY <1>1, <2>1 DEF EcCompound
<1>6. /\ ecs[reader].hs = {cur} /\ Enriched(reader) /\ c \in events[hists[cur].e].cont
      /\ Combinable(rp)
  BY <1>2, <1>4 DEF Arranged
<1>7. Grows
  BY <1>2, EnrichesGrows
<1>8. /\ DOMAIN ecs' = DOMAIN ecs \cup {n} /\ ecs'[n] = ec /\ n \notin DOMAIN ecs
      /\ \A r \in DOMAIN ecs : ecs'[r] = ecs[r]
      /\ UNCHANGED <<hists, events, conds, cur>> /\ cur \in DOMAIN hists
  BY <1>1, <1>2, EnrichesFrame DEF IInv, TypeOK
<1>9. ReadByAll(ec)
  BY <1>4, <1>5, <1>6 DEF ReadByAll, Combinable
<1>10. Placed'
  <2>1. Placed
    BY DEF Arranged, Placed
  <2>2. \A x \in ec.hs : Touches(ec.c, x)
    BY <1>9 DEF ReadByAll, Touches
  <2>3. rco' = rco \cup {<<ecs[reader].r1, n>>}
    BY <1>1, <1>2 DEF EnrichCompound
  <2>4. \A p \in rco' : p \in rco \/ p[1] = p[2] \/ (p[2] = n /\ ReadByAll(ec))
    BY <1>9, <2>3
  <2> QED
    BY <1>1, <1>2, <2>1, <2>2, <2>4, PlacedNew
<1>11. cur \notin ecs[rp].hs /\ ecs[rp].hs # {}
  <2>1. ecs[rp].hs # {}
    BY <1>2, Elements DEF IInv, EcType
  <2>2. hists[cur].e \in Evs(cur)
    BY <1>8 DEF Coherent, Assembled, Evs, EventsOf
  <2> QED
    BY <1>6, <2>1, <2>2 DEF Combinable, Unordered
<1>12. ASSUME NEW r \in DOMAIN ecs, ecs[r].c = ec.c, ecs[r].hs = ec.hs PROVE FALSE
  <2>1. cur \in ecs[r].hs /\ ecs[r].hs = {cur} \cup ecs[rp].hs
    BY <1>5, <1>6, <1>12
  <2>2. Compounded(r)
    BY <1>2, <1>4, <1>5, <1>12, <2>1 DEF Arranged
  <2>3. r # reader
    BY <1>6, <1>11, <2>1
  <2>4. PICK q \in DOMAIN ecs \ combine : /\ ecs[q].c = ecs[r].c /\ cur \notin ecs[q].hs
                                          /\ ecs[r].hs = {cur} \cup ecs[q].hs
    BY <2>2, <2>3 DEF Compounded
  <2>5. ecs[q].hs = ecs[rp].hs
    BY <1>11, <2>1, <2>4
  <2>6. q = rp
    BY <1>2, <1>5, <1>12, <2>4, <2>5 DEF Arranged
  <2> QED
    BY <2>4, <2>6
<1>13. (\A r, q \in DOMAIN ecs : ecs[r].c = ecs[q].c /\ ecs[r].hs = ecs[q].hs => r = q)'
  BY <1>2, <1>12, UniqueNew
<1>14. (reader # 0 => /\ ecs[reader].hs = {cur} /\ Enriched(reader)
                      /\ ecs[reader].c \in events[hists[cur].e].cont)'
  BY <1>2, <1>4, <1>6, <1>8 DEF Enriched
<1>15. (\A x \in combine : Combinable(x))'
  BY <1>2, <1>7, <1>8, CombinableStable DEF Arranged
<1>16. ASSUME NEW r \in DOMAIN ecs', cur' \in ecs'[r].hs
       PROVE  /\ Enriched(r)'
              /\ reader' # 0 /\ ecs'[r].c = ecs'[reader'].c => Compounded(r)'
  <2>1. CASE r = n
    <3>1. Enriched(r)'
      BY <1>2, <1>4, <1>5, <1>6, <1>8, <2>1 DEF Enriched
    <3>2. ecs'[rp] = ecs[rp] /\ rp \in DOMAIN ecs' \ combine'
      BY <1>2, <1>8
    <3>3. /\ ecs'[rp].c = ecs'[r].c /\ cur' \notin ecs'[rp].hs
          /\ ecs'[r].hs = {cur'} \cup ecs'[rp].hs
      BY <1>5, <1>6, <1>8, <1>11, <2>1, <3>2
    <3>4. Compounded(r)'
      BY <3>2, <3>3 DEF Compounded
    <3> QED
      BY <3>1, <3>4
  <2>2. CASE r \in DOMAIN ecs
    <3>1. Enriched(r) /\ (reader # 0 /\ ecs[r].c = ecs[reader].c => Compounded(r))
      BY <1>8, <1>16, <2>2 DEF Arranged
    <3>2. Enriched(r)'
      BY <1>2, <1>8, <2>2, <3>1 DEF Enriched
    <3>3. Compounded(r) => Compounded(r)'
      BY <1>2, <1>7, <1>8, <2>2, CompoundedStable
    <3> QED
      BY <1>2, <1>8, <2>2, <3>1, <3>2, <3>3
  <2> QED
    BY <1>8, <2>1, <2>2
<1>17. Working'
  BY <1>13, <1>14, <1>15, <1>16 DEF Working
<1> QED
  BY <1>2, <1>10, <1>17, ArrangedNew

LEMMA GenSolsStable ==
  ASSUME IInv, Grows, UNCHANGED net, sols' \subseteq sols,
         \A s \in sols : \A p \in DOMAIN s.at : p \in net.cont[s.t] => IsGen(s.at[p])
  PROVE  (\A s \in sols : \A p \in DOMAIN s.at : p \in net.cont[s.t] => IsGen(s.at[p]))'
<1> SUFFICES ASSUME NEW s \in sols, NEW p \in DOMAIN s.at, p \in net.cont[s.t]
             PROVE  IsGen(s.at[p])'
  OBVIOUS
<1>1. PICK r \in DOMAIN ecs : r = s.at[p]
  BY DEF IInv, TypeOK
<1>2. IsGen(r)'
  BY <1>1, IsGenStable
<1> QED
  BY <1>1, <1>2 DEF IsGen, IsComp

LEMMA StillArranged ==
  ASSUME IInv, Arranged, Still
  PROVE  Arranged'
<1>1. UNCHANGED <<net, opt, events, conds, hists, ecs, co, dir, rco, numco, queue, table,
                  cur, gens, reads, reader, combine, sols>>
  BY StillFrame
<1>2. Grows
  BY <1>1 DEF Grows
<1>3. Placed'
  BY <1>1, <1>2, PlacedStable DEF Placed, Arranged
<1>4. (\A s \in sols : \A p \in DOMAIN s.at : p \in net.cont[s.t] => IsGen(s.at[p]))'
  BY <1>1, <1>2, GenSolsStable DEF Arranged
<1>5. Working'
  BY <1>1 DEF Working, Arranged, Enriched, Combinable, Unordered, Compounded, Evs, EventsOf
<1> QED
  BY <1>3, <1>4, <1>5 DEF Arranged, Placed, Working

LEMMA PopsArranged ==
  ASSUME IInv, Arranged, Grows, NEW h \in queue, Pops(h)
  PROVE  Arranged'
<1>1. /\ UNCHANGED <<net, ecs, co, sols, combine>> /\ combine = {} /\ reader' = 0 /\ cur' = h
  BY AddFrame
<1>2. UNCHANGED rco /\ DOMAIN hists' = DOMAIN hists
  <2>1. Add(h)
    BY DEF Pops
  <2> QED
    BY <2>1, AddHists DEF Add, enrich
<1>3. Placed'
  BY <1>1, <1>2, PlacedStable DEF Placed, Arranged
<1>4. (\A s \in sols : \A p \in DOMAIN s.at : p \in net.cont[s.t] => IsGen(s.at[p]))'
  BY <1>1, GenSolsStable DEF Arranged
<1>5. \A r \in DOMAIN ecs : h \notin ecs[r].hs
  <2>1. hists[h].corr = h /\ h # 0
    BY Elements DEF IInv, TypeOK, Discipline
  <2> QED
    BY <2>1 DEF IInv, EcsOfNonCutoffs
<1>6. Working'
  BY <1>1, <1>5 DEF Working, Arranged
<1> QED
  BY <1>3, <1>4, <1>6 DEF Arranged, Placed, Working

LEMMA SolveGenerated ==
  ASSUME IInv, Labelled, Searching, Arranged, NEW s \in sols, Solve(s),
         NEW g \in Ecl(s), ecs[g].c \in events'[EventOf(s)].cont
  PROVE  IsGen(g)
<1>1. PICK e, c : e = EventOf(s) /\ c = ecs[g].c
  OBVIOUS
<1>2. PICK p \in DOMAIN s.at : g = s.at[p]
  BY DEF Ecl
<1>3. conds[c].fp = p /\ \A q \in DOMAIN s.at : conds[ecs[s.at[q]].c].fp = q
  BY <1>1, <1>2 DEF Searching, Place
<1>4. p \in net.cont[s.t]
  <2>1. CASE InstancesOf(s) = {}
    <3>1. events'[e] = NewEvent(s)
      BY <1>1, <2>1, SolveEvent
    <3>2. c \in Chosen(s, net.cont[s.t])
      BY <1>1, <3>1 DEF NewEvent
    <3>3. PICK q \in net.cont[s.t] : c = ecs[s.at[q]].c
      BY <3>2 DEF Chosen
    <3>4. q \in DOMAIN s.at
      BY SolutionFacts
    <3> QED
      BY <1>3, <3>3, <3>4
  <2>2. CASE InstancesOf(s) # {}
    <3>1. events' = events /\ e \in DOMAIN events /\ events[e].ft = s.t
      BY <1>1, <2>2, SolveEvent
    <3>2. \A x \in events[e].cont : conds[x].fp \in net.cont[events[e].ft]
      BY <3>1, LabelFacts
    <3> QED
      BY <1>1, <1>3, <3>1, <3>2
  <2> QED
    BY <2>1, <2>2
<1> QED
  BY <1>2, <1>4 DEF Arranged

LEMMA SolveArranged ==
  ASSUME IInv, Labelled, Searching, Arranged, Grows, NEW s \in sols, Solve(s)
  PROVE  Arranged'
<1>1. PICK id, e : id = Len(hists) + 1 /\ e = EventOf(s)
  OBVIOUS
<1>2. /\ UNCHANGED <<net, ecs, co, rco, cur, gens, reads, reader, combine>> /\ sols' = sols \ {s}
      /\ DOMAIN hists' = DOMAIN hists \cup {id}
      /\ hists'[id] = NewHistory(events', e, Nod(s), Ecl(s))
  BY <1>1, SolveFrame DEF Solve, enrich
<1>3. hists'[id].e = e /\ hists'[id].ecl = Ecl(s)
  BY <1>2 DEF NewHistory
<1>4. (\A r \in DOMAIN ecs : \A x \in ecs[r].hs : Touches(ecs[r].c, x))'
  BY <1>2, EcTouchesStable DEF Arranged
<1>5. (\A h \in DOMAIN hists : \A g \in hists[h].ecl :
         ecs[g].c \in events[hists[h].e].cont => IsGen(g))'
  <2>1. ASSUME NEW h \in DOMAIN hists
        PROVE  (\A g \in hists[h].ecl : ecs[g].c \in events[hists[h].e].cont => IsGen(g))'
    BY HistGenStable DEF Arranged
  <2>2. (\A g \in hists[id].ecl : ecs[g].c \in events[hists[id].e].cont => IsGen(g))'
    <3> SUFFICES ASSUME NEW g \in Ecl(s), ecs[g].c \in events'[e].cont
                 PROVE  IsGen(g)'
      BY <1>2, <1>3
    <3>1. g \in DOMAIN ecs
      BY SolutionFacts
    <3>2. IsGen(g)
      BY <1>1, SolveGenerated
    <3> QED
      BY <3>1, <3>2, IsGenStable
  <2> QED
    BY <1>2, <2>1, <2>2
<1>6. ASSUME NEW p \in rco, p[1] # p[2]
      PROVE  (\A x \in ecs[p[2]].hs : ecs[p[2]].c \in events[hists[x].e].cont)'
  <2>1. PICK q \in DOMAIN ecs : p[2] = q
    BY <1>6 DEF IInv, TypeOK
  <2>2. \A x \in ecs[q].hs : ecs[q].c \in events[hists[x].e].cont
    BY <1>6, <2>1 DEF Arranged
  <2> QED
    BY <2>1, <2>2, EcReadStable
<1>7. (\A t \in sols : \A p \in DOMAIN t.at : p \in net.cont[t.t] => IsGen(t.at[p]))'
  BY <1>2, GenSolsStable DEF Arranged
<1>8. (reader # 0 => /\ ecs[reader].hs = {cur} /\ Enriched(reader)
                     /\ ecs[reader].c \in events[hists[cur].e].cont)'
  <2> SUFFICES ASSUME reader # 0
               PROVE  /\ ecs[reader].hs = {cur} /\ Enriched(reader)'
                      /\ ecs[reader].c \in events'[hists'[cur].e].cont
    BY <1>2
  <2>1. /\ ecs[reader].hs = {cur} /\ Enriched(reader)
        /\ ecs[reader].c \in events[hists[cur].e].cont
    BY DEF Arranged
  <2>2. reader \in DOMAIN ecs /\ cur \in DOMAIN hists
    BY DEF IInv, TypeOK
  <2>3. ecs[reader].c \in DOMAIN conds
    BY <2>2, Elements DEF IInv, EcType
  <2> QED
    BY <1>2, <2>1, <2>2, <2>3, TouchesStable DEF Enriched
<1>9. (\A rp \in combine : Combinable(rp))'
  BY <1>2, CombinableStable DEF Arranged
<1>10. Working'
  BY <1>2, <1>8, <1>9 DEF Working, Arranged, Enriched, Compounded
<1>11. Placed'
  BY <1>2, <1>4, <1>5, <1>6 DEF Placed
<1> QED
  BY <1>7, <1>10, <1>11 DEF Arranged, Placed, Working

LEMMA ArrangedNext ==
  ASSUME IInv, IInv', Labelled, Searching, Grounded, Coherent, Arranged, [Next]_vars
  PROVE  Arranged'
<1>1. Grows
  BY StepGrows
<1>2. CASE Still
  BY <1>2, StillArranged
<1>3. ASSUME NEW c \in gens, Generate(c), ~ Still PROVE Arranged'
  BY <1>3, GenerateArranged
<1>4. ASSUME NEW c \in reads, Read(c), ~ Still PROVE Arranged'
  BY <1>4, ReadArranged
<1>5. ASSUME NEW rp \in combine, Combine(rp) PROVE Arranged'
  BY <1>5, CombineArranged
<1>6. ASSUME NEW s \in sols, Solve(s) PROVE Arranged'
  BY <1>1, <1>6, SolveArranged
<1>7. ASSUME NEW h \in queue, Pop(h) \/ Pick(h) PROVE Arranged'
  <2>1. Pops(h)
    BY <1>7 DEF Pop, Pick, Pops
  <2> QED
    BY <1>1, <2>1, PopsArranged
<1>8. CASE Quit \/ UNCHANGED vars
  BY <1>2, <1>8 DEF Quit, vars, Still
<1> QED
  BY <1>2, <1>3, <1>4, <1>5, <1>6, <1>7, <1>8 DEF Next

LEMMA ArrangedInit == Init => Arranged
<1> SUFFICES ASSUME Init PROVE Arranged
  OBVIOUS
<1>1. /\ hists = <<[e |-> 1, nod |-> {}, past |-> {1}, ecl |-> {}, depth |-> 0,
                    corr |-> 0, rd |-> {}, sd |-> {}, marking |-> net.post[T0]]>>
      /\ ecs = <<>> /\ rco = {} /\ reader = 0 /\ combine = {} /\ sols = {}
  BY DEF Init
<1>2. DOMAIN hists = {1} /\ hists[1].ecl = {} /\ DOMAIN ecs = {}
  BY <1>1
<1> QED
  BY <1>1, <1>2 DEF Arranged

LEMMA ArrangedAlways == Spec => []Arranged
<1>1. IInv /\ IInv' /\ Labelled /\ Searching /\ Grounded /\ Coherent /\ Arranged /\ [Next]_vars
        => Arranged'
  BY ArrangedNext
<1> QED
  BY <1>1, ArrangedInit, Invariant, LabelledAlways, SearchingAlways, GroundedAlways,
     CoherentAlways, PTL DEF Spec

-----------------------------------------------------------------------------
(* Parts of sets of events.                                                *)

(* With each event S has all those of E that must come before it.          *)
Initial(S, E) == S \subseteq E /\ \A f \in S, g \in E : Before(g, f) => g \in S

(* All of E must come before e.                                            *)
Rooted(E, e) == e \in E /\ \A S \in SUBSET E : e \in S /\ Initial(S, E) => S = E

(* Of two events one can come without the other: E has no cycle.           *)
Separated(E) ==
  \A e, f \in E : e # f => \E S \in SUBSET E : Initial(S, E) /\ ~ (e \in S <=> f \in S)

LEMMA InitialWithin ==
  ASSUME NEW S, NEW D, NEW E, Initial(S, D), Initial(D, E)
  PROVE  Initial(S, E)
BY DEF Initial

LEMMA InitialPart ==
  ASSUME NEW S, NEW D, NEW E, Initial(S, E), D \subseteq E
  PROVE  Initial(S \cap D, D)
BY DEF Initial

LEMMA ComposeInitial ==
  ASSUME NEW E, NEW F, Compose(E, F)
  PROVE  Initial(E, E \cup F) /\ Initial(F, E \cup F)
BY DEF Compose, Initial

(* Sets that are together E and can each come first.                       *)
CoversOf(C, E) ==
  /\ \A D \in C : Initial(D, E) /\ Separated(D)
  /\ \A x \in E : \E D \in C : x \in D

LEMMA SeparatedCover ==
  ASSUME NEW C, NEW E, CoversOf(C, E)
  PROVE  Separated(E)
<1> SUFFICES ASSUME NEW e \in E, NEW f \in E, e # f
             PROVE  \E S \in SUBSET E : Initial(S, E) /\ ~ (e \in S <=> f \in S)
  BY DEF Separated
<1>1. PICK D \in C : e \in D
  BY DEF CoversOf
<1>2. Initial(D, E) /\ Separated(D) /\ D \subseteq E
  BY DEF CoversOf, Initial
<1>3. CASE f \notin D
  BY <1>1, <1>2, <1>3
<1>4. CASE f \in D
  <2>1. PICK S \in SUBSET D : Initial(S, D) /\ ~ (e \in S <=> f \in S)
    BY <1>1, <1>2, <1>4 DEF Separated
  <2> QED
    BY <1>2, <2>1, InitialWithin
<1> QED
  BY <1>3, <1>4

LEMMA SeparatedTop ==
  ASSUME NEW D, NEW e, e \notin D, Separated(D), Initial(D, {e} \cup D)
  PROVE  Separated({e} \cup D)
<1> DEFINE E == {e} \cup D
<1> SUFFICES ASSUME NEW x \in E, NEW y \in E, x # y
             PROVE  \E S \in SUBSET E : Initial(S, E) /\ ~ (x \in S <=> y \in S)
  BY DEF Separated
<1>1. CASE x \in D /\ y \in D
  <2>1. PICK S \in SUBSET D : Initial(S, D) /\ ~ (x \in S <=> y \in S)
    BY <1>1 DEF Separated
  <2> QED
    BY <2>1, InitialWithin
<1>2. CASE x \notin D \/ y \notin D
  BY <1>2
<1> QED
  BY <1>1, <1>2

(* The events of the histories in X, which e needs, and e.                 *)
Tops(X, E, e) ==
  /\ E = {e} \cup UNION {Evs(x) : x \in X}
  /\ \A x \in X : Rooted(Evs(x), hists[x].e) /\ Before(hists[x].e, e)

LEMMA RootedTop ==
  ASSUME NEW X, NEW E, NEW e, Tops(X, E, e)
  PROVE  Rooted(E, e)
<1>1. e \in E
  BY DEF Tops
<1> SUFFICES ASSUME NEW S \in SUBSET E, e \in S, Initial(S, E)
             PROVE  E \subseteq S
  BY <1>1 DEF Rooted
<1>2. ASSUME NEW x \in X PROVE Evs(x) \subseteq S
  <2>1. PICK D, d : D = Evs(x) /\ d = hists[x].e
    OBVIOUS
  <2>2. Rooted(D, d) /\ Before(d, e) /\ D \subseteq E
    BY <2>1 DEF Tops
  <2>3. d \in D /\ d \in S
    BY <2>2 DEF Rooted, Initial
  <2>4. Initial(S \cap D, D)
    BY <2>2, InitialPart
  <2>5. S \cap D = D
    BY <2>2, <2>3, <2>4 DEF Rooted
  <2> QED
    BY <2>1, <2>5
<1> QED
  BY <1>2 DEF Tops

(* The shape of the histories of an enriched condition, and of a history.  *)
Anchored(r) ==
  /\ \A x \in ecs[r].hs : Initial(Evs(x), ConfOf(r))
  /\ \A x, y \in ecs[r].hs : x # y => hists[x].e \notin Evs(y)
  /\ Separated(ConfOf(r))

Shaped(h) ==
  /\ \A x \in hists[h].past : Initial(Evs(x), Evs(h))
  /\ Rooted(Evs(h), hists[h].e)
  /\ Separated(Evs(h))

LEMMA InitialStable ==
  ASSUME IInv, Grows, NEW E \in SUBSET DOMAIN events, NEW S \in SUBSET E
  PROVE  Initial(S, E)' <=> Initial(S, E)
<1>1. \A e, f \in E : Before(e, f)' <=> Before(e, f)
  BY BeforeStable
<1> QED
  BY <1>1 DEF Initial

LEMMA RootedStable ==
  ASSUME IInv, Grows, NEW E \in SUBSET DOMAIN events, NEW e
  PROVE  Rooted(E, e)' <=> Rooted(E, e)
<1>1. \A S \in SUBSET E : Initial(S, E)' <=> Initial(S, E)
  BY InitialStable
<1> QED
  BY <1>1 DEF Rooted

LEMMA SeparatedStable ==
  ASSUME IInv, Grows, NEW E \in SUBSET DOMAIN events
  PROVE  Separated(E)' <=> Separated(E)
<1>1. \A S \in SUBSET E : Initial(S, E)' <=> Initial(S, E)
  BY InitialStable
<1> QED
  BY <1>1 DEF Separated

LEMMA AnchoredStable ==
  ASSUME IInv, Grows, NEW r \in DOMAIN ecs, Anchored(r)
  PROVE  Anchored(r)'
<1>1. PICK D : D = ConfOf(r)
  OBVIOUS
<1>2. /\ ConfOf(r)' = D /\ D \in SUBSET DOMAIN events
      /\ ecs'[r].hs = ecs[r].hs /\ ecs[r].hs \subseteq DOMAIN hists
  BY <1>1, ConfStable, Elements DEF IInv, EcType
<1>3. Separated(D)'
  BY <1>1, <1>2, SeparatedStable DEF Anchored
<1>4. ASSUME NEW x \in ecs[r].hs
      PROVE  /\ Evs(x)' = Evs(x) /\ hists'[x].e = hists[x].e /\ Initial(Evs(x), D)'
  <2>1. PICK E : E = Evs(x)
    OBVIOUS
  <2>2. Evs(x)' = E /\ hists'[x].e = hists[x].e
    BY <1>2, <2>1, EvsStable
  <2>3. Initial(E, D) /\ E \in SUBSET D
    BY <1>1, <2>1 DEF Anchored, Initial
  <2>4. Initial(E, D)'
    BY <1>2, <2>3, InitialStable
  <2> QED
    BY <2>1, <2>2, <2>4
<1> QED
  BY <1>2, <1>3, <1>4 DEF Anchored

LEMMA ShapedStable ==
  ASSUME IInv, Grows, NEW h \in DOMAIN hists, Shaped(h)
  PROVE  Shaped(h)'
<1>1. PICK D : D = Evs(h)
  OBVIOUS
<1>2. /\ Evs(h)' = D /\ D \in SUBSET DOMAIN events
      /\ hists'[h].past = hists[h].past /\ hists[h].past \subseteq DOMAIN hists
      /\ hists'[h].e = hists[h].e
  BY <1>1, EvsStable, Elements DEF IInv, HistType, Grows
<1>3. Separated(D)' /\ Rooted(D, hists[h].e)'
  <2>1. PICK e : e = hists[h].e
    OBVIOUS
  <2>2. Separated(D) /\ Rooted(D, e)
    BY <1>1, <2>1 DEF Shaped
  <2>3. Separated(D)' /\ Rooted(D, e)'
    BY <1>2, <2>2, SeparatedStable, RootedStable
  <2> QED
    BY <1>2, <2>1, <2>3
<1>4. ASSUME NEW x \in hists[h].past
      PROVE  Evs(x)' = Evs(x) /\ Initial(Evs(x), D)'
  <2>1. PICK E : E = Evs(x)
    OBVIOUS
  <2>2. Evs(x)' = E
    BY <1>2, <2>1, EvsStable
  <2>3. Initial(E, D) /\ E \in SUBSET D
    BY <1>1, <2>1 DEF Shaped, Initial
  <2>4. Initial(E, D)'
    BY <1>2, <2>3, InitialStable
  <2> QED
    BY <2>1, <2>2, <2>4
<1> QED
  BY <1>2, <1>3, <1>4 DEF Shaped

(* The enriched conditions of h and their histories have their shape.      *)
Parted(h) ==
  \A g \in hists[h].ecl : Anchored(g) /\ \A x \in ecs[g].hs : Shaped(x)

(* The event of each history of what h reads and consumes comes before e.  *)
LEMMA EclBefore ==
  ASSUME IInv, Labelled, Grounded, Coherent, Arranged, NEW h \in DOMAIN hists,
         NEW g \in hists[h].ecl, NEW x \in ecs[g].hs
  PROVE  Before(hists[x].e, hists[h].e)
<1>1. PICK e, G, c, d : e = hists[h].e /\ G = hists[h].ecl /\ c = ecs[g].c /\ d = hists[x].e
  OBVIOUS
<1>2. Extends(e, G)
  BY <1>1, HistoryExtends
<1>3. g \in DOMAIN ecs /\ x \in DOMAIN hists /\ d \in ConfOf(g)
  <2>1. g \in DOMAIN ecs
    BY Elements DEF IInv, HistType
  <2>2. x \in DOMAIN hists
    BY <2>1, Elements DEF IInv, EcType
  <2>3. x \in hists[x].past
    BY <2>2 DEF Coherent, Assembled
  <2> QED
    BY <1>1, <2>1, <2>2, <2>3 DEF ConfOf, EventsOf
<1>4. d # e
  BY <1>1, <1>2, <1>3, ExtendsNew DEF All
<1>5. c \in events[e].pre \cup events[e].cont
  BY <1>1, <1>2 DEF Extends
<1>6. Touches(c, x)
  BY <1>1, <1>3 DEF Arranged
<1>7. CASE c \in EventPost(d)
  BY <1>1, <1>4, <1>5, <1>7 DEF Before
<1>8. CASE c \in events[d].cont /\ c \in events[e].pre
  BY <1>1, <1>4, <1>8 DEF Before
<1>9. CASE c \in events[e].cont
  <2>1. IsGen(g)
    BY <1>1, <1>9 DEF Arranged
  <2>2. EcSound(g)
    BY <1>3 DEF Coherent
  <2>3. ecs[g].hs = {ecs[g].h} /\ conds[c].pre = d
    BY <1>1, <2>1, <2>2 DEF IsGen, EcSound
  <2>4. c \in DOMAIN conds
    BY <1>1, <1>3, Elements DEF IInv, EcType
  <2>5. c \in EventPost(d)
    BY <2>3, <2>4 DEF EventPost
  <2> QED
    BY <1>7, <2>5
<1> QED
  BY <1>1, <1>5, <1>6, <1>7, <1>8, <1>9 DEF Touches

LEMMA HistoryRooted ==
  ASSUME IInv, Labelled, Grounded, Coherent, Arranged, NEW h \in DOMAIN hists, Parted(h)
  PROVE  Rooted(Evs(h), hists[h].e)
<1>1. PICK e, G, E : e = hists[h].e /\ G = hists[h].ecl /\ E = Evs(h)
  OBVIOUS
<1>2. E = {e} \cup All(G)
  BY <1>1, HistoryEvents DEF Evs
<1>3. PICK X : X = UNION {ecs[g].hs : g \in G}
  OBVIOUS
<1>4. All(G) = UNION {Evs(x) : x \in X}
  BY <1>3 DEF All, ConfOf, Evs, EventsOf
<1>5. ASSUME NEW x \in X PROVE Rooted(Evs(x), hists[x].e) /\ Before(hists[x].e, e)
  <2>1. PICK g \in G : x \in ecs[g].hs
    BY <1>3
  <2>2. Shaped(x)
    BY <1>1, <2>1 DEF Parted
  <2>3. Before(hists[x].e, e)
    BY <1>1, <2>1, EclBefore
  <2> QED
    BY <2>2, <2>3 DEF Shaped
<1>6. Tops(X, E, e)
  BY <1>2, <1>4, <1>5 DEF Tops
<1> QED
  BY <1>1, <1>6, RootedTop

LEMMA HistoryParts ==
  ASSUME IInv, Labelled, Grounded, Coherent, Arranged, NEW h \in DOMAIN hists, Parted(h)
  PROVE  /\ Separated(Evs(h))
         /\ \A g \in hists[h].ecl : Initial(ConfOf(g), Evs(h))
<1>1. PICK e, G, E, A : e = hists[h].e /\ G = hists[h].ecl /\ E = Evs(h) /\ A = All(G)
  OBVIOUS
<1>2. E = {e} \cup A
  BY <1>1, HistoryEvents DEF Evs
<1>3. Extends(e, G) /\ e \notin A
  BY <1>1, HistoryExtends, ExtendsNew
<1>4. ASSUME NEW g \in G PROVE Initial(ConfOf(g), E)
  <2>1. \A x \in ConfOf(g), f \in E \ ConfOf(g) : ~ Before(f, x)
    BY <1>1, <1>2, <1>3, ExtendsPart
  <2>2. ConfOf(g) \subseteq E
    BY <1>1, <1>2 DEF All
  <2> QED
    BY <2>1, <2>2 DEF Initial
<1>5. Initial(A, E)
  <2> SUFFICES ASSUME NEW f \in A, Before(e, f) PROVE FALSE
    BY <1>2 DEF Initial
  <2>1. PICK g \in G : f \in ConfOf(g)
    BY <1>1 DEF All
  <2>2. e \in ConfOf(g)
    BY <1>2, <1>4, <2>1 DEF Initial
  <2> QED
    BY <1>1, <1>3, <2>2 DEF All
<1>6. Separated(A)
  <2>1. PICK C : C = {ConfOf(g) : g \in G}
    OBVIOUS
  <2>2. ASSUME NEW D \in C PROVE Initial(D, A) /\ Separated(D)
    <3>1. PICK g \in G : D = ConfOf(g)
      BY <2>1
    <3>2. Initial(D, E) /\ A \subseteq E /\ D \cap A = D
      BY <1>1, <1>2, <1>4, <3>1 DEF All
    <3>3. Initial(D, A)
      BY <3>2, InitialPart
    <3> QED
      BY <1>1, <3>1, <3>3 DEF Parted, Anchored
  <2>3. CoversOf(C, A)
    BY <1>1, <2>1, <2>2 DEF CoversOf, All
  <2> QED
    BY <2>3, SeparatedCover
<1>7. Separated(E)
  BY <1>2, <1>3, <1>5, <1>6, SeparatedTop
<1> QED
  BY <1>1, <1>4, <1>7

HistoryShaped ==
  IInv /\ Labelled /\ Grounded /\ Coherent /\ Arranged =>
    \A h \in DOMAIN hists : Parted(h) => Shaped(h)

LEMMA HistoryIsShaped == HistoryShaped
<1> SUFFICES ASSUME IInv, Labelled, Grounded, Coherent, Arranged,
                    NEW h \in DOMAIN hists, Parted(h)
             PROVE  Shaped(h)
  BY DEF HistoryShaped
<1>1. Rooted(Evs(h), hists[h].e)
  BY HistoryRooted
<1>2. Separated(Evs(h)) /\ \A g \in hists[h].ecl : Initial(ConfOf(g), Evs(h))
  BY HistoryParts
<1>3. ASSUME NEW x \in hists[h].past PROVE Initial(Evs(x), Evs(h))
  <2>1. CASE x = h
    BY <2>1 DEF Initial
  <2>2. CASE x # h
    <3>1. PICK g, y : g \in hists[h].ecl /\ y \in ecs[g].hs /\ x \in hists[y].past
      BY <2>2 DEF Coherent, Assembled
    <3>2. PICK B, C, D, E : B = Evs(x) /\ C = Evs(y) /\ D = ConfOf(g) /\ E = Evs(h)
      OBVIOUS
    <3>3. Initial(B, C) /\ Initial(C, D) /\ Initial(D, E)
      BY <1>2, <3>1, <3>2 DEF Parted, Shaped, Anchored
    <3>4. Initial(B, D)
      BY <3>3, InitialWithin
    <3>5. Initial(B, E)
      BY <3>3, <3>4, InitialWithin
    <3> QED
      BY <3>2, <3>5
  <2> QED
    BY <2>1, <2>2
<1> QED
  BY <1>1, <1>2, <1>3 DEF Shaped

LEMMA HistoryShapedNext == HistoryShaped'
BY HistoryIsShaped, PTL

Shapely ==
  /\ \A r \in DOMAIN ecs : Anchored(r)
  /\ \A h \in DOMAIN hists : Shaped(h)

(* The histories of ec fit together.                                       *)
Fitted(ec) ==
  /\ \A x \in ec.hs : Initial(Evs(x), EcConf(ec))
  /\ \A x, y \in ec.hs : x # y => hists[x].e \notin Evs(y)
  /\ Separated(EcConf(ec))

LEMMA NewAnchored ==
  ASSUME IInv, NEW ec, Enriches(ec), NEW n, n = Newest + 1, Fitted(ec)
  PROVE  Anchored(n)'
<1>1. PICK D : D = EcConf(ec)
  OBVIOUS
<1>2. /\ ecs'[n] = ec /\ ConfOf(n)' = D /\ UNCHANGED <<events, conds, hists>>
  BY <1>1, NewConf, EnrichesFrame
<1>3. Separated(D)' /\ \A x \in ec.hs : Evs(x)' = Evs(x) /\ Initial(Evs(x), D)'
  <2>1. Separated(D)' <=> Separated(D)
    BY <1>2 DEF Separated, Initial, Before, EventPost
  <2>2. ASSUME NEW x \in ec.hs PROVE Evs(x)' = Evs(x) /\ Initial(Evs(x), D)'
    <3>1. Evs(x)' = Evs(x)
      BY <1>2 DEF Evs, EventsOf
    <3>2. PICK E : E = Evs(x)
      OBVIOUS
    <3>3. Initial(E, D)' <=> Initial(E, D)
      BY <1>2 DEF Initial, Before, EventPost
    <3> QED
      BY <1>1, <3>1, <3>2, <3>3 DEF Fitted
  <2> QED
    BY <1>1, <2>1, <2>2 DEF Fitted
<1> QED
  BY <1>2, <1>3 DEF Anchored, Fitted

LEMMA ShapelyNew ==
  ASSUME IInv, Shapely, NEW ec, Enriches(ec), Fitted(ec)
  PROVE  Shapely'
<1>1. PICK n : n = Newest + 1
  OBVIOUS
<1>2. /\ DOMAIN ecs' = DOMAIN ecs \cup {n} /\ UNCHANGED hists /\ Grows
  BY <1>1, EnrichesFrame, EnrichesGrows
<1>3. Anchored(n)'
  BY <1>1, NewAnchored
<1>4. ASSUME NEW r \in DOMAIN ecs PROVE Anchored(r)'
  BY <1>2, AnchoredStable DEF Shapely
<1>5. ASSUME NEW h \in DOMAIN hists PROVE Shaped(h)'
  BY <1>2, ShapedStable DEF Shapely
<1> QED
  BY <1>2, <1>3, <1>4, <1>5 DEF Shapely

LEMMA EnrichShapely ==
  ASSUME IInv, Shapely, NEW ec, Enriches(ec), ec.hs = {cur}
  PROVE  Shapely'
<1>1. EcConf(ec) = Evs(cur) /\ cur \in DOMAIN hists
  BY DEF EcConf, Evs, IInv, TypeOK
<1>2. Separated(Evs(cur)) /\ Initial(Evs(cur), Evs(cur))
  BY <1>1 DEF Shapely, Shaped, Initial
<1>3. Fitted(ec)
  BY <1>1, <1>2 DEF Fitted
<1> QED
  BY <1>3, ShapelyNew

LEMMA CombineShapely ==
  ASSUME IInv, Coherent, Arranged, Shapely, NEW rp \in combine, Combine(rp)
  PROVE  Shapely'
<1>1. PICK ec : ec = EcCompound(reader, rp)
  OBVIOUS
<1>2. /\ Enriches(ec) /\ EnrichCompound(reader, rp)
      /\ reader \in DOMAIN ecs /\ rp \in DOMAIN ecs /\ reader # 0
  BY <1>1, CombineCases DEF IInv, Linked
<1>3. CombineNew(rp, ec)
  BY <1>1, <1>2 DEF CombineNew
<1>4. PICK D, E, c : D = ConfOf(reader) /\ E = ConfOf(rp) /\ c = ecs[reader].c
  OBVIOUS
<1>5. EcConf(ec) = D \cup E /\ Compose(D, E)
  <2>1. /\ reader \in DOMAIN ecs /\ rp \in DOMAIN ecs /\ ecs[reader].r1 # 0
        /\ ec.c = c /\ ec.h = 0
        /\ EcConf(ec) = D \cup E
        /\ D \in SUBSET DOMAIN events /\ E \in SUBSET DOMAIN events
        /\ Closed(D \cup E) /\ ConflictFree(D \cup E)
        /\ c \in CutOf(D \cup E)
        /\ ReadersIn(D \cup E, ec.rd)
    BY <1>3, <1>4, CombineFields
  <2>2. Compose(D, E)
    BY <1>3, <1>4, CombineFields
  <2> QED
    BY <2>1, <2>2
<1> DEFINE F == D \cup E
<1>6. ec.hs = ecs[reader].hs \cup ecs[rp].hs
  BY <1>1 DEF EcCompound
<1>7. ecs[reader].hs = {cur} /\ Combinable(rp)
  BY <1>2 DEF Arranged
<1>8. Initial(D, F) /\ Initial(E, F)
  BY <1>5, ComposeInitial
<1>9. Separated(D) /\ Separated(E)
  BY <1>2, <1>4 DEF Shapely, Anchored
<1>10. Separated(F)
  <2>1. CoversOf({D, E}, F)
    BY <1>5, <1>8, <1>9 DEF CoversOf
  <2> QED
    BY <2>1, SeparatedCover
<1>11. ASSUME NEW x \in ec.hs PROVE Initial(Evs(x), F)
  <2>1. PICK B : B = Evs(x)
    OBVIOUS
  <2>2. CASE x \in ecs[reader].hs
    <3>1. Initial(B, D)
      BY <1>2, <1>4, <2>1, <2>2 DEF Shapely, Anchored
    <3>2. Initial(B, F)
      BY <1>8, <3>1, InitialWithin
    <3> QED
      BY <2>1, <3>2
  <2>3. CASE x \in ecs[rp].hs
    <3>1. Initial(B, E)
      BY <1>2, <1>4, <2>1, <2>3 DEF Shapely, Anchored
    <3>2. Initial(B, F)
      BY <1>8, <3>1, InitialWithin
    <3> QED
      BY <2>1, <3>2
  <2> QED
    BY <1>6, <2>2, <2>3
<1>12. ASSUME NEW x \in ec.hs, NEW y \in ec.hs, x # y PROVE hists[x].e \notin Evs(y)
  <2>1. CASE x \in ecs[rp].hs /\ y \in ecs[rp].hs
    BY <1>2, <1>12, <2>1 DEF Shapely, Anchored
  <2>2. CASE x = cur /\ y \in ecs[rp].hs
    BY <1>7, <2>2 DEF Combinable, Unordered
  <2>3. CASE y = cur /\ x \in ecs[rp].hs
    BY <1>7, <2>3 DEF Combinable, Unordered
  <2> QED
    BY <1>6, <1>7, <1>12, <2>1, <2>2, <2>3
<1>13. Fitted(ec)
  BY <1>5, <1>10, <1>11, <1>12 DEF Fitted
<1> QED
  BY <1>2, <1>13, ShapelyNew

LEMMA SolveShapely ==
  ASSUME IInv, IInv', Labelled', Grounded', Coherent', Arranged', Shapely, Grows,
         NEW s \in sols, Solve(s)
  PROVE  Shapely'
<1>1. PICK id : id = Len(hists) + 1
  OBVIOUS
<1>2. /\ UNCHANGED ecs /\ DOMAIN hists' = DOMAIN hists \cup {id}
      /\ hists'[id] = NewHistory(events', EventOf(s), Nod(s), Ecl(s))
  BY <1>1, SolveFrame
<1>3. hists'[id].ecl = Ecl(s) /\ Ecl(s) \subseteq DOMAIN ecs
  BY <1>2, SolutionFacts DEF NewHistory
<1>4. ASSUME NEW r \in DOMAIN ecs PROVE Anchored(r)'
  BY AnchoredStable DEF Shapely
<1>5. ASSUME NEW h \in DOMAIN hists PROVE Shaped(h)'
  BY ShapedStable DEF Shapely
<1>6. Parted(id)'
  <2>1. ASSUME NEW g \in Ecl(s) PROVE ecs[g].hs \subseteq DOMAIN hists
    BY <1>3, Elements DEF IInv, EcType
  <2> QED
    BY <1>2, <1>3, <1>4, <1>5, <2>1 DEF Parted
<1>7. Shaped(id)'
  BY <1>2, <1>6, HistoryShapedNext DEF HistoryShaped
<1> QED
  BY <1>2, <1>4, <1>5, <1>7 DEF Shapely

LEMMA PopsShapely ==
  ASSUME IInv, Shapely, Grows, NEW h \in queue, Pops(h)
  PROVE  Shapely'
<1>1. UNCHANGED ecs /\ DOMAIN hists' = DOMAIN hists
  <2>1. Add(h)
    BY DEF Pops
  <2> QED
    BY <2>1, AddHists, AddFrame
<1> QED
  BY <1>1, AnchoredStable, ShapedStable DEF Shapely

LEMMA ShapelyNext ==
  ASSUME IInv, IInv', Labelled', Grounded', Coherent, Coherent', Arranged, Arranged',
         Shapely, [Next]_vars
  PROVE  Shapely'
<1>1. Grows
  BY StepGrows
<1>2. CASE Still
  <2>1. UNCHANGED <<hists, ecs>>
    BY <1>2, StillFrame
  <2> QED
    BY <1>1, <2>1, AnchoredStable, ShapedStable DEF Shapely
<1>3. ASSUME NEW c \in gens, Generate(c), ~ Still PROVE Shapely'
  BY <1>3, GenerateCases, EnrichShapely
<1>4. ASSUME NEW c \in reads, Read(c), ~ Still PROVE Shapely'
  BY <1>4, ReadCases, EnrichShapely
<1>5. ASSUME NEW rp \in combine, Combine(rp) PROVE Shapely'
  BY <1>5, CombineShapely
<1>6. ASSUME NEW s \in sols, Solve(s) PROVE Shapely'
  BY <1>1, <1>6, SolveShapely
<1>7. ASSUME NEW h \in queue, Pop(h) \/ Pick(h) PROVE Shapely'
  <2>1. Pops(h)
    BY <1>7 DEF Pop, Pick, Pops
  <2> QED
    BY <1>1, <2>1, PopsShapely
<1>8. CASE Quit \/ UNCHANGED vars
  BY <1>2, <1>8 DEF Quit, vars, Still
<1> QED
  BY <1>2, <1>3, <1>4, <1>5, <1>6, <1>7, <1>8 DEF Next

LEMMA ShapelyInit == Init => Shapely
<1> SUFFICES ASSUME Init PROVE Shapely
  OBVIOUS
<1>1. /\ hists = <<[e |-> 1, nod |-> {}, past |-> {1}, ecl |-> {}, depth |-> 0,
                    corr |-> 0, rd |-> {}, sd |-> {}, marking |-> net.post[T0]]>>
      /\ ecs = <<>>
  BY DEF Init
<1>2. DOMAIN hists = {1} /\ hists[1].past = {1} /\ hists[1].e = 1 /\ DOMAIN ecs = {}
  BY <1>1
<1>3. Evs(1) = {1}
  BY <1>2 DEF Evs, EventsOf
<1>4. Shaped(1)
  BY <1>2, <1>3 DEF Shaped, Initial, Rooted, Separated
<1> QED
  BY <1>2, <1>4 DEF Shapely

LEMMA ShapelyAlways == Spec => []Shapely
<1>1. IInv /\ IInv' /\ Labelled' /\ Grounded' /\ Coherent /\ Coherent' /\ Arranged /\ Arranged'
        /\ Shapely /\ [Next]_vars => Shapely'
  BY ShapelyNext
<1> QED
  BY <1>1, ShapelyInit, Invariant, LabelledAlways, GroundedAlways, CoherentAlways,
     ArrangedAlways, PTL DEF Spec

LEMMA TopWithin ==
  ASSUME NEW E, NEW A, NEW B, NEW b, Initial(A, E), B \subseteq E, Rooted(B, b), b \in A
  PROVE  B \subseteq A
<1>1. Initial(A \cap B, B)
  BY InitialPart
<1>2. b \in A \cap B
  BY DEF Rooted
<1>3. A \cap B = B
  BY <1>1, <1>2 DEF Rooted
<1> QED
  BY <1>3

LEMMA SameTop ==
  ASSUME NEW E, NEW A, NEW B, NEW a, NEW b, Initial(A, E), Initial(B, E),
         Rooted(A, a), Rooted(B, b), Separated(A), a \in B, b \in A
  PROVE  A = B /\ a = b
<1>1. A \subseteq B
  BY TopWithin DEF Initial
<1>2. B \subseteq A
  BY TopWithin DEF Initial
<1>3. A = B
  BY <1>1, <1>2
<1>4. a = b
  <2> SUFFICES ASSUME a # b PROVE FALSE
    OBVIOUS
  <2>1. PICK S \in SUBSET A : Initial(S, A) /\ ~ (a \in S <=> b \in S)
    BY <1>3 DEF Separated
  <2> QED
    BY <1>3, <2>1 DEF Rooted
<1> QED
  BY <1>3, <1>4

LEMMA EvsType ==
  ASSUME IInv, NEW h \in DOMAIN hists
  PROVE  Evs(h) \in SUBSET DOMAIN events
<1>1. hists[h].past \subseteq DOMAIN hists /\ \A x \in DOMAIN hists : hists[x].e \in DOMAIN events
  BY Elements DEF IInv, HistType
<1> QED
  BY <1>1 DEF Evs, EventsOf

LEMMA PastCardinality ==
  ASSUME IInv, NEW x \in DOMAIN hists
  PROVE  IsFiniteSet(hists[x].past) /\ Cardinality(hists[x].past) \in Nat
<1>1. Len(hists) \in Nat /\ DOMAIN hists = 1..Len(hists) /\ hists[x].past \subseteq DOMAIN hists
  BY Elements DEF IInv, HistType
<1>2. IsFiniteSet(1..Len(hists))
  BY <1>1, FS_Interval
<1>3. IsFiniteSet(hists[x].past)
  BY <1>1, <1>2, FS_Subset
<1> QED
  BY <1>3, FS_CardinalityType

LEMMA SmallerPast ==
  ASSUME IInv, Labelled, Grounded, Coherent, NEW x \in DOMAIN hists,
         NEW g \in hists[x].ecl, NEW u \in ecs[g].hs
  PROVE  /\ g \in DOMAIN ecs /\ u \in DOMAIN hists
         /\ Evs(u) \subseteq ConfOf(g) /\ hists[u].e \in Evs(u)
         /\ hists[u].past \subseteq hists[x].past /\ x \notin hists[u].past
         /\ Cardinality(hists[u].past) < Cardinality(hists[x].past)
<1>1. g \in DOMAIN ecs
  BY Elements DEF IInv, HistType
<1>2. u \in DOMAIN hists
  BY <1>1, Elements DEF IInv, EcType
<1>3. Evs(u) \subseteq ConfOf(g)
  BY DEF Evs, ConfOf, EventsOf
<1>4. hists[u].e \in Evs(u)
  BY <1>2 DEF Coherent, Assembled, Evs, EventsOf
<1>5. hists[u].past \subseteq hists[x].past /\ x \in hists[x].past
  BY DEF Coherent, Assembled
<1>6. x \notin hists[u].past
  <2> SUFFICES ASSUME x \in hists[u].past PROVE FALSE
    OBVIOUS
  <2>1. hists[x].e \in ConfOf(g)
    BY <1>3 DEF Evs, EventsOf
  <2>2. PICK e, G : e = hists[x].e /\ G = hists[x].ecl
    OBVIOUS
  <2>3. Extends(e, G)
    BY <2>2, HistoryExtends
  <2> QED
    BY <2>1, <2>2, <2>3, ExtendsNew DEF All
<1>7. Cardinality(hists[u].past) < Cardinality(hists[x].past)
  <2>1. IsFiniteSet(hists[x].past) /\ Cardinality(hists[x].past) \in Nat
    BY PastCardinality
  <2>2. Cardinality(hists[u].past) \in Nat
    BY <1>2, PastCardinality
  <2>3. Cardinality(hists[u].past) <= Cardinality(hists[x].past)
    BY <1>5, <2>1, FS_Subset
  <2>4. Cardinality(hists[u].past) # Cardinality(hists[x].past)
    BY <1>5, <1>6, <2>1, FS_Subset
  <2> QED
    BY <2>1, <2>2, <2>3, <2>4
<1> QED
  BY <1>1, <1>2, <1>3, <1>4, <1>5, <1>6, <1>7

(* What of E produced or read c, which e consumes, is in the history of the *)
(* enriched condition of c that e is built on.                             *)
LEMMA TouchersWithin ==
  ASSUME IInv, Labelled, Grounded, Coherent, NEW x \in DOMAIN hists,
         NEW g \in hists[x].ecl, NEW c, c = ecs[g].c, c \in events[hists[x].e].pre,
         NEW f \in Evs(x), f # hists[x].e, c \in EventPost(f) \cup events[f].cont
  PROVE  f \in ConfOf(g)
<1>1. g \in DOMAIN ecs
  BY Elements DEF IInv, HistType
<1>2. CASE c \in EventPost(f)
  <2>1. c \in CutOf(ConfOf(g))
    BY <1>1 DEF Coherent, EcSound
  <2> QED
    BY <1>2, <2>1 DEF CutOf, EventPost
<1>3. CASE c \in events[f].cont
  <2>1. PICK q \in hists[x].ecl : f \in ConfOf(q)
    <3>1. Evs(x) = {hists[x].e} \cup All(hists[x].ecl)
      BY HistoryEvents DEF Evs
    <3> QED
      BY <3>1 DEF All
  <2>2. f \in DOMAIN events
    BY EvsType
  <2>3. f \in Readers(c)
    BY <1>3, <2>2 DEF Readers
  <2>4. CASE q # g
    <3>1. <<g, q>> \in dir
      BY <2>4 DEF Coherent, Assembled, Black
    <3>2. KeepsReaders(g, q)
      BY <3>1 DEF Coherent, Related
    <3> QED
      BY <2>1, <2>3, <3>2 DEF KeepsReaders
  <2> QED
    BY <2>1, <2>4
<1> QED
  BY <1>2, <1>3

(* Two histories of one event with the same events.                        *)
Twins(x, y) == Evs(x) = Evs(y) /\ hists[x].e = hists[y].e

Sameness(g, q) == \A u \in ecs[g].hs : \E v \in ecs[q].hs : Twins(u, v)

(* The histories of g and of q start E.                                    *)
LEMMA HistoriesStart ==
  ASSUME IInv, Labelled, Grounded, Coherent, Arranged, Shapely, NEW x \in DOMAIN hists,
         NEW g \in hists[x].ecl, NEW u \in ecs[g].hs
  PROVE  /\ Initial(Evs(u), Evs(x))
         /\ Rooted(Evs(u), hists[u].e) /\ Separated(Evs(u))
         /\ hists[u].e # hists[x].e /\ hists[u].e \in Evs(x)
<1>1. g \in DOMAIN ecs /\ u \in DOMAIN hists
  BY SmallerPast
<1>2. Parted(x)
  <2>1. hists[x].ecl \subseteq DOMAIN ecs
    BY Elements DEF IInv, HistType
  <2>2. \A r \in DOMAIN ecs : ecs[r].hs \subseteq DOMAIN hists
    BY Elements DEF IInv, EcType
  <2> QED
    BY <2>1, <2>2 DEF Parted, Shapely
<1>3. Initial(ConfOf(g), Evs(x)) /\ Initial(Evs(u), ConfOf(g))
  BY <1>1, <1>2, HistoryParts DEF Shapely, Anchored
<1>4. Initial(Evs(u), Evs(x))
  <2>1. PICK B, C, D : B = Evs(u) /\ C = ConfOf(g) /\ D = Evs(x)
    OBVIOUS
  <2>2. Initial(B, C) /\ Initial(C, D)
    BY <1>3, <2>1
  <2>3. Initial(B, D)
    BY <2>2, InitialWithin
  <2> QED
    BY <2>1, <2>3
<1>5. Rooted(Evs(u), hists[u].e) /\ Separated(Evs(u))
  BY <1>1 DEF Shapely, Shaped
<1>6. hists[u].e # hists[x].e
  BY EclBefore DEF Before
<1>7. hists[u].e \in Evs(x)
  BY <1>4, <1>5 DEF Initial, Rooted
<1> QED
  BY <1>4, <1>5, <1>6, <1>7

LEMMA GeneratingSame ==
  ASSUME IInv, Labelled, Grounded, Coherent, Arranged, Shapely,
         NEW x \in DOMAIN hists, NEW y \in DOMAIN hists, Twins(x, y),
         NEW g \in hists[x].ecl, NEW q \in hists[y].ecl, NEW c, c = ecs[g].c, c = ecs[q].c,
         c \in events[hists[x].e].cont
  PROVE  Sameness(g, q)
<1>1. c \in events[hists[y].e].cont
  BY DEF Twins
<1>2. IsGen(g) /\ IsGen(q)
  BY <1>1 DEF Arranged
<1>3. g \in DOMAIN ecs /\ q \in DOMAIN ecs
  BY Elements DEF IInv, HistType
<1>4. ecs[g].hs = {ecs[g].h} /\ ecs[q].hs = {ecs[q].h}
  BY <1>2, <1>3 DEF Coherent, EcSound, IsGen
<1>5. PICK u, v, E : u = ecs[g].h /\ v = ecs[q].h /\ E = Evs(x)
  OBVIOUS
<1>6. hists[u].e = hists[v].e
  BY <1>2, <1>5 DEF IsGen
<1>7. Initial(Evs(u), E) /\ Rooted(Evs(u), hists[u].e) /\ Separated(Evs(u))
  BY <1>4, <1>5, HistoriesStart
<1>8. Initial(Evs(v), Evs(y)) /\ Rooted(Evs(v), hists[v].e)
  BY <1>4, <1>5, HistoriesStart
<1>9. PICK A, B, a : A = Evs(u) /\ B = Evs(v) /\ a = hists[u].e
  OBVIOUS
<1>10. A = B
  <2>1. Initial(A, E) /\ Rooted(A, a) /\ Separated(A) /\ Initial(B, E) /\ Rooted(B, a)
    BY <1>5, <1>6, <1>7, <1>8, <1>9 DEF Twins
  <2>2. a \in A /\ a \in B
    BY <2>1 DEF Rooted
  <2> QED
    BY <2>1, <2>2, SameTop
<1> QED
  BY <1>4, <1>5, <1>6, <1>9, <1>10 DEF Sameness, Twins

LEMMA ConsumedSame ==
  ASSUME IInv, Labelled, Grounded, Coherent, Arranged, Shapely,
         NEW x \in DOMAIN hists, NEW y \in DOMAIN hists, Twins(x, y),
         NEW g \in hists[x].ecl, NEW q \in hists[y].ecl, NEW c, c = ecs[g].c, c = ecs[q].c,
         c \in events[hists[x].e].pre
  PROVE  Sameness(g, q)
<1> SUFFICES ASSUME NEW u \in ecs[g].hs
             PROVE  \E v \in ecs[q].hs : Twins(u, v)
  BY DEF Sameness
<1>1. g \in DOMAIN ecs /\ q \in DOMAIN ecs /\ c \in events[hists[y].e].pre
  BY Elements DEF IInv, HistType, Twins
<1>2. PICK E, A, a : E = Evs(x) /\ A = Evs(u) /\ a = hists[u].e
  OBVIOUS
<1>3. /\ Initial(A, E) /\ Rooted(A, a) /\ Separated(A) /\ a \in E /\ a # hists[x].e
      /\ c \in EventPost(a) \cup events[a].cont
  <2>1. Touches(c, u)
    BY <1>1 DEF Arranged
  <2>2. c \in EventPost(a) \cup events[a].cont
    BY <1>2, <2>1 DEF Touches
  <2> QED
    BY <1>1, <1>2, <2>2, HistoriesStart
<1>4. a \in ConfOf(q)
  BY <1>1, <1>2, <1>3, TouchersWithin DEF Twins
<1>5. PICK v \in ecs[q].hs : a \in Evs(v)
  BY <1>4 DEF ConfOf, Evs, EventsOf
<1>6. PICK B, b : B = Evs(v) /\ b = hists[v].e
  OBVIOUS
<1>7. /\ Initial(B, E) /\ Rooted(B, b) /\ b \in E /\ b # hists[x].e
      /\ c \in EventPost(b) \cup events[b].cont
  <2>1. Touches(c, v)
    BY <1>1 DEF Arranged
  <2>2. c \in EventPost(b) \cup events[b].cont
    BY <1>6, <2>1 DEF Touches
  <2> QED
    BY <1>1, <1>2, <1>6, <2>2, HistoriesStart DEF Twins
<1>8. b \in ConfOf(g)
  BY <1>2, <1>7, TouchersWithin
<1>9. PICK w \in ecs[g].hs : b \in Evs(w)
  BY <1>8 DEF ConfOf, Evs, EventsOf
<1>10. PICK C : C = Evs(w)
  OBVIOUS
<1>11. Initial(C, E) /\ b \in C /\ B \subseteq E
  BY <1>2, <1>7, <1>9, <1>10, HistoriesStart DEF Initial
<1>12. B \subseteq C
  BY <1>7, <1>11, TopWithin
<1>13. w = u
  <2> SUFFICES ASSUME w # u PROVE FALSE
    OBVIOUS
  <2>1. a \notin C
    BY <1>1, <1>2, <1>10 DEF Shapely, Anchored
  <2> QED
    BY <1>5, <1>6, <1>12, <2>1
<1>14. A = B /\ a = b
  BY <1>2, <1>3, <1>5, <1>6, <1>7, <1>10, <1>11, <1>13, SameTop
<1> QED
  BY <1>2, <1>6, <1>14 DEF Twins

(* No history with fewer nodes than x has a twin.                          *)
NoSmallerTwins(x) ==
  \A u, v \in DOMAIN hists :
    Cardinality(hists[u].past) < Cardinality(hists[x].past) /\ Twins(u, v) => u = v

LEMMA EclsWithin ==
  ASSUME IInv, Labelled, Grounded, Coherent, Arranged, Shapely,
         NEW x \in DOMAIN hists, NEW y \in DOMAIN hists, Twins(x, y),
         NoSmallerTwins(x)
  PROVE  hists[x].ecl \subseteq hists[y].ecl
<1> SUFFICES ASSUME NEW g \in hists[x].ecl PROVE g \in hists[y].ecl
  OBVIOUS
<1>1. PICK c : c = ecs[g].c
  OBVIOUS
<1>2. c \in events[hists[x].e].pre \cup events[hists[x].e].cont
  BY <1>1 DEF Grounded, Footing
<1>3. PICK q \in hists[y].ecl : c = ecs[q].c
  BY <1>2 DEF Grounded, Footing, Twins
<1>4. Twins(y, x) /\ c \in events[hists[y].e].pre \cup events[hists[y].e].cont
  BY <1>2 DEF Twins
<1>5. Sameness(g, q) /\ Sameness(q, g)
  <2>1. CASE c \in events[hists[x].e].cont
    <3>1. c \in events[hists[y].e].cont
      BY <2>1 DEF Twins
    <3> QED
      BY <1>1, <1>3, <1>4, <2>1, <3>1, GeneratingSame
  <2>2. CASE c \in events[hists[x].e].pre
    <3>1. c \in events[hists[y].e].pre
      BY <2>2 DEF Twins
    <3> QED
      BY <1>1, <1>3, <1>4, <2>2, <3>1, ConsumedSame
  <2> QED
    BY <1>2, <2>1, <2>2
<1>6. g \in DOMAIN ecs /\ q \in DOMAIN ecs
  BY Elements DEF IInv, HistType
<1>7. ecs[q].hs \subseteq DOMAIN hists
  BY <1>6, Elements DEF IInv, EcType
<1>8. ecs[g].hs \subseteq ecs[q].hs
  <2> SUFFICES ASSUME NEW u \in ecs[g].hs PROVE u \in ecs[q].hs
    OBVIOUS
  <2>1. PICK v \in ecs[q].hs : Twins(u, v)
    BY <1>5 DEF Sameness
  <2>2. u \in DOMAIN hists /\ Cardinality(hists[u].past) < Cardinality(hists[x].past)
    BY SmallerPast
  <2>3. u = v
    BY <1>7, <2>1, <2>2 DEF NoSmallerTwins
  <2> QED
    BY <2>3
<1>9. ecs[q].hs \subseteq ecs[g].hs
  <2> SUFFICES ASSUME NEW v \in ecs[q].hs PROVE v \in ecs[g].hs
    OBVIOUS
  <2>1. PICK u \in ecs[g].hs : Twins(v, u)
    BY <1>5 DEF Sameness
  <2>2. u \in DOMAIN hists /\ Cardinality(hists[u].past) < Cardinality(hists[x].past)
    BY SmallerPast
  <2>3. Twins(u, v)
    BY <2>1 DEF Twins
  <2>4. u = v
    BY <1>7, <2>2, <2>3 DEF NoSmallerTwins
  <2> QED
    BY <2>4
<1>10. g = q
  <2>1. ecs[g].c = ecs[q].c /\ ecs[g].hs = ecs[q].hs
    BY <1>1, <1>3, <1>8, <1>9
  <2> QED
    BY <1>6, <2>1 DEF Arranged
<1> QED
  BY <1>10

LEMMA TwinsEqual ==
  ASSUME IInv, Labelled, Grounded, UniqueEcls, Coherent, Arranged, Shapely
  PROVE  \A x, y \in DOMAIN hists : Twins(x, y) => x = y
<1> DEFINE size(x) == Cardinality(hists[x].past)
           N == {size(x) : x \in {z \in DOMAIN hists : \E y \in DOMAIN hists : Twins(z, y) /\ z # y}}
<1> SUFFICES ASSUME N # {} PROVE FALSE
  OBVIOUS
<1>1. \A z \in DOMAIN hists : size(z) \in Nat
  BY PastCardinality
<1>2. PICK m \in N : \A k \in N : m <= k
  BY <1>1, NatMin
<1>3. PICK x, y : /\ x \in DOMAIN hists /\ y \in DOMAIN hists /\ Twins(x, y) /\ x # y
                  /\ m = size(x)
  BY <1>2
<1>4. ASSUME NEW u \in DOMAIN hists, NEW v \in DOMAIN hists, Twins(u, v), u # v
      PROVE  size(x) <= size(u)
  BY <1>2, <1>3, <1>4
<1>5. NoSmallerTwins(x)
  BY <1>1, <1>3, <1>4 DEF NoSmallerTwins
<1>6. hists[x].ecl \subseteq hists[y].ecl
  BY <1>3, <1>5, EclsWithin
<1>7. hists[x].ecl = hists[y].ecl
  <2> SUFFICES ASSUME NEW q \in hists[y].ecl PROVE q \in hists[x].ecl
    BY <1>6
  <2>1. PICK c : c = ecs[q].c
    OBVIOUS
  <2>2. c \in events[hists[x].e].pre \cup events[hists[x].e].cont
    <3>1. c \in events[hists[y].e].pre \cup events[hists[y].e].cont
      BY <1>3, <2>1 DEF Grounded, Footing
    <3> QED
      BY <1>3, <3>1 DEF Twins
  <2>3. PICK g \in hists[x].ecl : ecs[g].c = c
    BY <1>3, <2>2 DEF Grounded, Footing
  <2>4. g = q
    BY <1>3, <1>6, <2>1, <2>3 DEF Grounded, Footing
  <2> QED
    BY <2>4
<1>8. events[hists[x].e].ft = events[hists[y].e].ft
  BY <1>3 DEF Twins
<1> QED
  BY <1>3, <1>7, <1>8 DEF UniqueEcls

(* Each history is found once: _pe_comb_instance_of finds the event, and   *)
(* what the enriched conditions of a history are is fixed by its events.   *)
(* Two histories of one event with the same events have enriched conditions *)
(* with the same histories, by induction on their size.                    *)
THEOREM HistoriesUnique == Spec => []NoDuplicateHistories
<1>1. IInv /\ Labelled /\ Grounded /\ UniqueEcls /\ Coherent /\ Arranged /\ Shapely
        => NoDuplicateHistories
  BY TwinsEqual DEF NoDuplicateHistories, Twins, Evs
<1> QED
  BY <1>1, Invariant, LabelledAlways, GroundedAlways, UniqueEclsAlways, CoherentAlways,
     ArrangedAlways, ShapelyAlways, PTL

-----------------------------------------------------------------------------
(* Where the lists co are complete: in nets whose transitions read at most *)
(* one place that another transition consumes. Of each condition           *)
(* _ec_conc_siblings looks at the newest enriched condition only, and that *)
(* is not the one of the current history when the history reads two        *)
(* places.                                                                 *)
SingleReads(n) ==
  \A t \in n.trans : \A p, q \in n.cont[t] :
    (\E u \in n.trans : p \in n.pre[u]) /\ (\E u \in n.trans : q \in n.pre[u]) => p = q

(* The conditions that are read come after those that are produced, and    *)
(* where there is one at most nothing is left once it has been read.       *)
OneRead ==
  /\ gens # {} => reader = 0
  /\ SingleReads(net) => /\ \A c, d \in reads : c = d
                         /\ reader # 0 => reads = {}

(* Nothing that stands for a history above the current one is there yet,   *)
(* and of what the current one produces the newest enriched condition is   *)
(* its own.                                                                *)
AtWork ==
  /\ OneRead
  /\ \A r \in DOMAIN ecs : \A x \in ecs[r].hs : x # cur => cur \notin hists[x].past
  /\ \A r \in DOMAIN ecs : cur \in ecs[r].hs =>
       IF ecs[r].c \in EventPost(hists[cur].e)
       THEN ecs[r].h = cur /\ \A x \in DOMAIN ecs : ecs[x].c = ecs[r].c => x <= r
       ELSE reader # 0

(* The lists hold every two enriched conditions that are concurrent, which *)
(* are of two places, and what extends a generating one that can be read.  *)
Found ==
  /\ \A r, q \in DOMAIN ecs : Concurrent(r, q) => <<r, q>> \in co /\ Place(r) # Place(q)
  /\ \A r, q \in DOMAIN ecs :
       /\ IsGen(r) /\ Joined(r, q)
       /\ \E t \in net.trans : Place(r) \in net.cont[t]
       => <<r, q>> \in rco

LEMMA ComposePart ==
  ASSUME NEW D, NEW E, NEW F, Initial(D, E), Compose(E, F)
  PROVE  Compose(D, F)
<1>1. D \subseteq E
  BY DEF Initial
<1>2. ASSUME NEW x \in D, NEW f \in F \ D PROVE ~ Before(f, x)
  <2>1. CASE f \in E
    BY <1>2, <2>1 DEF Initial
  <2>2. CASE f \notin E
    BY <1>1, <1>2, <2>2 DEF Compose
  <2> QED
    BY <2>1, <2>2
<1>3. \A x \in D \ F, f \in F : ~ Before(x, f)
  BY <1>1 DEF Compose
<1>4. \A x \in D, f \in F : ~ Conflict(x, f)
  BY <1>1 DEF Compose
<1> QED
  BY <1>2, <1>3, <1>4 DEF Compose

LEMMA TogetherPart ==
  ASSUME NEW D, NEW E, NEW F, NEW c, NEW d, Initial(D, E), GoTogether(E, F, c, d),
         conds[c].pre \in D, d \in CutOf(F)
  PROVE  GoTogether(D, F, c, d)
<1>1. D \subseteq E /\ Compose(D, F)
  BY ComposePart DEF Initial, GoTogether
<1>2. c \in CutOf(D \cup F)
  BY <1>1 DEF GoTogether, CutOf
<1>3. d \in CutOf(D \cup F)
  BY <1>1 DEF GoTogether, CutOf
<1> QED
  BY <1>1, <1>2, <1>3 DEF GoTogether

(* The event of a history is not in a set that fits the history, unless    *)
(* the history is one of those of the set.                                 *)
LEMMA SameHistory ==
  ASSUME IInv, Labelled, Grounded, UniqueEcls, Coherent, Arranged, Shapely,
         NEW h \in DOMAIN hists, NEW y \in DOMAIN hists, NEW F,
         Compose(Evs(h), F), Initial(Evs(y), F), hists[y].e = hists[h].e
  PROVE  y = h
<1>1. PICK E, B, e : E = Evs(h) /\ B = Evs(y) /\ e = hists[h].e
  OBVIOUS
<1>2. /\ Rooted(E, e) /\ Separated(E) /\ Rooted(B, e)
  BY <1>1 DEF Shapely, Shaped
<1>3. Initial(E, E \cup F) /\ Initial(F, E \cup F)
  BY <1>1, ComposeInitial
<1>4. Initial(B, E \cup F)
  BY <1>1, <1>3, InitialWithin
<1>5. e \in E /\ e \in B
  BY <1>2 DEF Rooted
<1>6. E = B
  BY <1>2, <1>3, <1>4, <1>5, SameTop
<1>7. Twins(y, h)
  BY <1>1, <1>6 DEF Twins
<1> QED
  BY <1>7, TwinsEqual

LEMMA EcInitial ==
  ASSUME IInv, Shapely, NEW r \in DOMAIN ecs, NEW x \in ecs[r].hs, NEW y \in hists[x].past
  PROVE  y \in DOMAIN hists /\ Initial(Evs(y), ConfOf(r))
<1>1. x \in DOMAIN hists /\ y \in DOMAIN hists
  <2>1. x \in DOMAIN hists
    BY Elements DEF IInv, EcType
  <2> QED
    BY <2>1, Elements DEF IInv, HistType
<1>2. PICK A, B, C : A = Evs(y) /\ B = Evs(x) /\ C = ConfOf(r)
  OBVIOUS
<1>3. Initial(A, B) /\ Initial(B, C)
  BY <1>1, <1>2 DEF Shapely, Shaped, Anchored
<1>4. Initial(A, C)
  BY <1>3, InitialWithin
<1> QED
  BY <1>1, <1>2, <1>4

LEMMA OtherHistory ==
  ASSUME IInv, Labelled, Grounded, UniqueEcls, Coherent, Arranged, Shapely, AtWork,
         NEW rp \in DOMAIN ecs, cur \notin ecs[rp].hs, Compose(Evs(cur), ConfOf(rp))
  PROVE  hists[cur].e \notin ConfOf(rp)
<1> SUFFICES ASSUME hists[cur].e \in ConfOf(rp) PROVE FALSE
  OBVIOUS
<1>1. PICK x \in ecs[rp].hs : \E y \in hists[x].past : hists[y].e = hists[cur].e
  BY DEF ConfOf, EventsOf
<1>2. PICK y \in hists[x].past : hists[y].e = hists[cur].e
  BY <1>1
<1>3. cur \in DOMAIN hists
  BY DEF IInv, TypeOK
<1>4. PICK F : F = ConfOf(rp)
  OBVIOUS
<1>5. y \in DOMAIN hists /\ Initial(Evs(y), F)
  BY <1>1, <1>2, <1>4, EcInitial
<1>6. y = cur
  BY <1>2, <1>3, <1>4, <1>5, SameHistory
<1> QED
  BY <1>1, <1>2, <1>6 DEF AtWork

LEMMA RootWithin ==
  ASSUME IInv, Labelled, NEW E \in SUBSET DOMAIN events, E # {}, Closed(E)
  PROVE  1 \in E
<1>1. E \in SUBSET Nat /\ E # {}
  BY Elements DEF IInv
<1>2. PICK e \in E : \A f \in E : e <= f
  BY <1>1, NatMin
<1>3. CASE events[e].pre # {}
  <2>1. PICK c \in events[e].pre : TRUE
    BY <1>3
  <2>2. conds[c].pre \in E /\ conds[c].pre < e
    BY DEF Closed, IInv, Causal
  <2> QED
    BY <1>1, <1>2, <2>2
<1>4. CASE events[e].pre = {}
  <2>1. net.pre[events[e].ft] = {}
    BY <1>4, LabelFacts
  <2>2. e # 1 => events[e].ft \in net.trans
    BY LabelFacts
  <2> QED
    BY <2>1, <2>2, Consumes
<1> QED
  BY <1>3, <1>4

(* What fits the history at work fits each of the enriched conditions that *)
(* it stands on.                                                           *)
LEMMA HistoryPart ==
  ASSUME IInv, Labelled, Grounded, Coherent, Arranged, Shapely, NEW h \in DOMAIN hists,
         NEW g \in hists[h].ecl
  PROVE  /\ g \in DOMAIN ecs /\ Initial(ConfOf(g), Evs(h))
         /\ ecs[g].c \in CutOf(ConfOf(g)) /\ conds[ecs[g].c].pre \in ConfOf(g)
         /\ ecs[g].c \in events[hists[h].e].pre \cup events[hists[h].e].cont
<1>1. hists[h].ecl \subseteq DOMAIN ecs
  BY Elements DEF IInv, HistType
<1>2. \A r \in DOMAIN ecs : ecs[r].hs \subseteq DOMAIN hists
  BY Elements DEF IInv, EcType
<1>3. Parted(h)
  BY <1>1, <1>2 DEF Parted, Shapely
<1>4. Initial(ConfOf(g), Evs(h))
  BY <1>3, HistoryParts
<1>5. ecs[g].c \in CutOf(ConfOf(g))
  BY <1>1 DEF Coherent, EcSound
<1>6. conds[ecs[g].c].pre \in ConfOf(g)
  BY <1>5 DEF CutOf
<1>7. ecs[g].c \in events[hists[h].e].pre \cup events[hists[h].e].cont
  BY DEF Grounded, Footing
<1> QED
  BY <1>1, <1>4, <1>5, <1>6, <1>7

LEMMA FitPart ==
  ASSUME IInv, Labelled, Grounded, Coherent, Arranged, Shapely, NEW h \in DOMAIN hists,
         NEW g \in hists[h].ecl, NEW F, Compose(Evs(h), F), hists[h].e \notin F,
         NEW d, d \in CutOf(F), d \in CutOf(Evs(h) \cup F)
  PROVE  GoTogether(ConfOf(g), F, ecs[g].c, d)
<1>1. PICK D, E, e, a : D = ConfOf(g) /\ E = Evs(h) /\ e = hists[h].e /\ a = ecs[g].c
  OBVIOUS
<1>2. /\ Initial(D, E) /\ a \in CutOf(D) /\ conds[a].pre \in D
      /\ a \in events[e].pre \cup events[e].cont
  BY <1>1, HistoryPart
<1>3. Compose(D, F) /\ Compose(E, F)
  BY <1>1, <1>2, ComposePart
<1>4. e \in E /\ e \notin F
  BY <1>1 DEF Shapely, Shaped, Rooted
<1>5. \A f \in F : a \notin events[f].pre
  <2> SUFFICES ASSUME NEW f \in F, a \in events[f].pre PROVE FALSE
    OBVIOUS
  <2>1. f # e
    BY <1>4
  <2>2. CASE a \in events[e].pre
    BY <1>3, <1>4, <2>1, <2>2 DEF Compose, Conflict
  <2>3. CASE a \in events[e].cont
    <3>1. Before(e, f)
      BY <2>1, <2>3 DEF Before
    <3> QED
      BY <1>3, <1>4, <3>1 DEF Compose
  <2> QED
    BY <1>2, <2>2, <2>3
<1>6. a \in CutOf(D \cup F)
  BY <1>2, <1>5 DEF CutOf
<1>7. D \subseteq E
  BY <1>2 DEF Initial
<1>8. d \in CutOf(D \cup F)
  BY <1>1, <1>7 DEF CutOf
<1> QED
  BY <1>1, <1>3, <1>6, <1>8 DEF GoTogether

LEMMA FitCandidate ==
  ASSUME IInv, Labelled, Grounded, UniqueEcls, Coherent, Arranged, Shapely, AtWork, Found,
         NEW rp \in DOMAIN ecs, cur \notin ecs[rp].hs,
         NEW c, GoTogether(Evs(cur), ConfOf(rp), c, ecs[rp].c)
  PROVE  rp \in Candidates(cur)
<1>1. PICK E, F, e, d : E = Evs(cur) /\ F = ConfOf(rp) /\ e = hists[cur].e /\ d = ecs[rp].c
  OBVIOUS
<1>2. /\ cur \in DOMAIN hists /\ e \in DOMAIN events
      /\ F \in SUBSET DOMAIN events /\ Closed(F) /\ d \in CutOf(F)
  <2>1. cur \in DOMAIN hists
    BY DEF IInv, TypeOK
  <2>2. e \in DOMAIN events
    BY <1>1, <2>1, Elements DEF IInv, HistType
  <2>3. F \in SUBSET DOMAIN events
    BY <1>1, Elements DEF IInv, EcType, HistType, ConfOf, EventsOf
  <2>4. Closed(F) /\ d \in CutOf(F)
    BY <1>1 DEF Coherent, EcSound
  <2> QED
    BY <2>1, <2>2, <2>3, <2>4
<1>3. /\ Compose(E, F) /\ d \in CutOf(E \cup F) /\ e \notin F /\ e \in E
  <2>1. Compose(E, F) /\ d \in CutOf(E \cup F)
    BY <1>1 DEF GoTogether
  <2>2. e \notin F
    BY <1>1, <2>1, OtherHistory
  <2>3. e \in E
    BY <1>1, <1>2 DEF Shapely, Shaped, Rooted
  <2> QED
    BY <2>1, <2>2, <2>3
<1>4. hists[cur].ecl # {}
  <2> SUFFICES ASSUME hists[cur].ecl = {} PROVE FALSE
    OBVIOUS
  <2>1. events[e].pre = {}
    BY <1>1, <1>2 DEF Grounded, Footing
  <2>2. net.pre[events[e].ft] = {}
    BY <1>2, <2>1, LabelFacts
  <2>3. e = 1
    <3>1. e # 1 => events[e].ft \in net.trans
      BY <1>2, LabelFacts
    <3> QED
      BY <2>2, <3>1, Consumes
  <2>4. F # {}
    BY <1>2 DEF CutOf
  <2>5. 1 \in F
    BY <1>2, <2>4, RootWithin
  <2> QED
    BY <1>3, <2>3, <2>5
<1>5. d \notin Black(cur)
  BY <1>1, <1>3 DEF Black, CutOf
<1>6. ASSUME NEW g \in hists[cur].ecl
      PROVE  \/ <<g, rp>> \in co
             \/ ecs[g].c \notin Black(cur) /\ <<g, rp>> \in rco
  <2>1. g \in DOMAIN ecs /\ ecs[g].c \in events[e].pre \cup events[e].cont
    BY <1>1, <1>2, HistoryPart
  <2>2. GoTogether(ConfOf(g), F, ecs[g].c, d)
    BY <1>1, <1>2, <1>3, FitPart
  <2>3. CASE ecs[g].c # d
    <3>1. Concurrent(g, rp)
      BY <1>1, <2>2, <2>3 DEF Concurrent, GoTogether
    <3> QED
      BY <2>1, <3>1 DEF Found
  <2>4. CASE ecs[g].c = d
    <3>1. Joined(g, rp)
      BY <1>1, <2>2, <2>4 DEF Joined, GoTogether
    <3>2. d \in events[e].cont
      BY <1>1, <1>5, <2>1, <2>4 DEF Black
    <3>3. IsGen(g)
      BY <1>1, <1>2, <2>4, <3>2 DEF Arranged
    <3>4. Place(g) \in net.cont[events[e].ft]
      BY <1>2, <2>4, <3>2, LabelFacts DEF Place
    <3>5. events[e].ft \in net.trans
      <4>1. e # 1
        BY <1>2, <3>2, LabelFacts
      <4> QED
        BY <1>2, <4>1, LabelFacts
    <3>6. <<g, rp>> \in rco
      BY <2>1, <3>1, <3>3, <3>4, <3>5 DEF Found
    <3> QED
      BY <1>5, <2>4, <3>6
  <2> QED
    BY <2>3, <2>4
<1> QED
  BY <1>1, <1>4, <1>5, <1>6 DEF Candidates

LEMMA FitCompatible ==
  ASSUME IInv, Labelled, Grounded, UniqueEcls, Coherent, Arranged, Shapely, AtWork, Found,
         NEW rp \in DOMAIN ecs, cur \notin ecs[rp].hs,
         NEW c, GoTogether(Evs(cur), ConfOf(rp), c, ecs[rp].c)
  PROVE  rp \in Compatible(cur)
<1>1. PICK E, F, e : E = Evs(cur) /\ F = ConfOf(rp) /\ e = hists[cur].e
  OBVIOUS
<1>2. cur \in DOMAIN hists
  BY DEF IInv, TypeOK
<1>3. Compose(E, F) /\ e \in E
  BY <1>1, <1>2 DEF GoTogether, Shapely, Shaped, Rooted
<1>4. Rd(rp) \subseteq F
  BY <1>1 DEF Coherent, EcSound
<1>5. hists[cur].sd = {x \in E : events[x].cont \cap events[e].pre # {}}
  BY <1>1, <1>2 DEF Coherent, Assembled, Evs
<1>6. ASSUME NEW x \in Rd(rp), x \in Green(cur) PROVE FALSE
  <2>1. /\ x \in F /\ x \notin hists[cur].sd
        /\ events[x].cont \cap events[e].pre # {}
    BY <1>1, <1>4, <1>6 DEF Green, Black, Readers
  <2>2. x \in F \ E
    BY <1>5, <2>1
  <2>3. Before(x, e)
    BY <1>3, <2>1, <2>2 DEF Before
  <2> QED
    BY <1>3, <2>2, <2>3 DEF Compose
<1>7. rp \in Candidates(cur)
  BY FitCandidate
<1> QED
  BY <1>6, <1>7 DEF Compatible

Readable(p) == \E t \in net.trans : p \in net.cont[t]

(* What the lists say of the new enriched condition ec with number n and   *)
(* of q.                                                                   *)
Catches(ec, n, q) ==
  GoTogether(EcConf(ec), ConfOf(q), ec.c, ecs[q].c) =>
    IF ec.c = ecs[q].c
    THEN Readable(Place(q)) => /\ IsGen(q) => <<q, n>> \in rco'
                               /\ IsGen(n)' => <<n, q>> \in rco'
    ELSE {<<n, q>>, <<q, n>>} \subseteq co' /\ conds[ec.c].fp # Place(q)

LEMMA FoundNew ==
  ASSUME IInv, Found, NEW ec, Enriches(ec), NEW n, n = Newest + 1,
         co \subseteq co', rco \subseteq rco',
         \A q \in DOMAIN ecs : Catches(ec, n, q),
         IsGen(n)' /\ Readable(conds[ec.c].fp) => <<n, n>> \in rco'
  PROVE  Found'
<1>1. Grows
  BY EnrichesGrows
<1>2. /\ DOMAIN ecs' = DOMAIN ecs \cup {n} /\ ecs'[n] = ec /\ n \notin DOMAIN ecs
      /\ \A r \in DOMAIN ecs : ecs'[r] = ecs[r]
      /\ UNCHANGED <<net, events, conds, hists>>
  BY EnrichesFrame
<1>3. /\ ConfOf(n)' = EcConf(ec) /\ EcConf(ec) \in SUBSET DOMAIN events
      /\ ec.c \in DOMAIN conds
  BY NewConf
<1>4. \A r \in DOMAIN ecs : /\ ConfOf(r)' = ConfOf(r) /\ ConfOf(r) \in SUBSET DOMAIN events
                            /\ ecs[r].c \in DOMAIN conds /\ Place(r)' = Place(r)
                            /\ IsGen(r)' <=> IsGen(r)
  <2> SUFFICES ASSUME NEW r \in DOMAIN ecs
               PROVE  /\ ConfOf(r)' = ConfOf(r) /\ ConfOf(r) \in SUBSET DOMAIN events
                      /\ ecs[r].c \in DOMAIN conds /\ Place(r)' = Place(r)
                      /\ IsGen(r)' <=> IsGen(r)
    OBVIOUS
  <2>1. ConfOf(r)' = ConfOf(r) /\ ConfOf(r) \in SUBSET DOMAIN events /\ ecs[r].c \in DOMAIN conds
    BY <1>1, ConfStable
  <2>2. Place(r)' = Place(r)
    BY <1>2 DEF Place
  <2>3. IsGen(r)' <=> IsGen(r)
    BY <1>1, IsGenStable
  <2> QED
    BY <2>1, <2>2, <2>3
<1>5. Place(n)' = conds[ec.c].fp
  BY <1>2 DEF Place
<1>6. \A p : Readable(p)' <=> Readable(p)
  BY <1>2 DEF Readable
<1>7. ASSUME NEW q \in DOMAIN ecs
      PROVE  /\ Concurrent(n, q)' \/ Concurrent(q, n)' =>
                  /\ ec.c # ecs[q].c
                  /\ GoTogether(EcConf(ec), ConfOf(q), ec.c, ecs[q].c)
             /\ Joined(n, q)' \/ Joined(q, n)' =>
                  /\ ec.c = ecs[q].c
                  /\ GoTogether(EcConf(ec), ConfOf(q), ec.c, ecs[q].c)
  <2>1. PICK C, F, c, d : C = EcConf(ec) /\ F = ConfOf(q) /\ c = ec.c /\ d = ecs[q].c
    OBVIOUS
  <2>2. GoTogether(C, F, c, d)' <=> GoTogether(C, F, c, d)
    BY <1>1, <1>3, <1>4, <2>1, FitsStable
  <2>3. /\ ConfOf(n)' = C /\ ConfOf(q)' = F /\ ecs'[n].c = c /\ ecs'[q].c = d
    BY <1>2, <1>3, <1>4, <2>1
  <2>4. GoTogether(C, F, c, d)' <=> GoTogether(F, C, d, c)'
    <3>1. C \cup F = F \cup C
      OBVIOUS
    <3> QED
      BY <3>1 DEF GoTogether, Compose, Conflict
  <2>5. Concurrent(n, q)' => c # d /\ GoTogether(C, F, c, d)'
    BY <2>3 DEF Concurrent, GoTogether
  <2>6. Concurrent(q, n)' => c # d /\ GoTogether(F, C, d, c)'
    BY <2>3 DEF Concurrent, GoTogether
  <2>7. Joined(n, q)' => c = d /\ GoTogether(C, F, c, d)'
    BY <2>3 DEF Joined, GoTogether
  <2>8. Joined(q, n)' => c = d /\ GoTogether(F, C, d, c)'
    BY <2>3 DEF Joined, GoTogether
  <2> QED
    BY <2>1, <2>2, <2>4, <2>5, <2>6, <2>7, <2>8
<1>8. ~ Concurrent(n, n)'
  BY DEF Concurrent
<1>9. ASSUME NEW r \in DOMAIN ecs', NEW q \in DOMAIN ecs', Concurrent(r, q)'
      PROVE  <<r, q>> \in co' /\ Place(r)' # Place(q)'
  <2>1. CASE r \in DOMAIN ecs /\ q \in DOMAIN ecs
    <3>1. Concurrent(r, q)
      BY <1>1, <1>9, <2>1, ConcurrentStable
    <3>2. <<r, q>> \in co /\ Place(r) # Place(q)
      BY <2>1, <3>1 DEF Found
    <3> QED
      BY <1>4, <2>1, <3>2
  <2>2. CASE r = n /\ q \in DOMAIN ecs
    <3>1. ec.c # ecs[q].c /\ GoTogether(EcConf(ec), ConfOf(q), ec.c, ecs[q].c)
      BY <1>7, <1>9, <2>2
    <3>2. {<<n, q>>, <<q, n>>} \subseteq co' /\ conds[ec.c].fp # Place(q)
      BY <2>2, <3>1 DEF Catches
    <3> QED
      BY <1>4, <1>5, <2>2, <3>2
  <2>3. CASE r \in DOMAIN ecs /\ q = n
    <3>1. ec.c # ecs[r].c /\ GoTogether(EcConf(ec), ConfOf(r), ec.c, ecs[r].c)
      BY <1>7, <1>9, <2>3
    <3>2. {<<n, r>>, <<r, n>>} \subseteq co' /\ conds[ec.c].fp # Place(r)
      BY <2>3, <3>1 DEF Catches
    <3> QED
      BY <1>4, <1>5, <2>3, <3>2
  <2> QED
    BY <1>2, <1>8, <1>9, <2>1, <2>2, <2>3
<1>10. ASSUME NEW r \in DOMAIN ecs', NEW q \in DOMAIN ecs', IsGen(r)', Joined(r, q)',
              Readable(Place(r)')
       PROVE  <<r, q>> \in rco'
  <2>1. CASE r \in DOMAIN ecs /\ q \in DOMAIN ecs
    <3>1. Joined(r, q) /\ IsGen(r) /\ Readable(Place(r))
      BY <1>1, <1>4, <1>10, <2>1, ConcurrentStable
    <3> QED
      BY <2>1, <3>1 DEF Found, Readable
  <2>2. CASE r = n /\ q \in DOMAIN ecs
    <3>1. ec.c = ecs[q].c /\ GoTogether(EcConf(ec), ConfOf(q), ec.c, ecs[q].c)
      BY <1>7, <1>10, <2>2
    <3>2. Place(q) = conds[ec.c].fp
      BY <3>1 DEF Place
    <3>3. Readable(Place(q))
      BY <1>5, <1>10, <2>2, <3>2
    <3> QED
      BY <1>10, <2>2, <3>1, <3>3 DEF Catches
  <2>3. CASE r \in DOMAIN ecs /\ q = n
    <3>1. ec.c = ecs[r].c /\ GoTogether(EcConf(ec), ConfOf(r), ec.c, ecs[r].c)
      BY <1>7, <1>10, <2>3
    <3>2. Readable(Place(r)) /\ IsGen(r)
      BY <1>4, <1>10, <2>3
    <3> QED
      BY <2>3, <3>1, <3>2 DEF Catches
  <2>4. CASE r = n /\ q = n
    BY <1>5, <1>10, <2>4
  <2> QED
    BY <1>2, <2>1, <2>2, <2>3, <2>4
<1>11. \A r \in DOMAIN ecs' : Readable(Place(r)') <=> (\E t \in net.trans : Place(r) \in net.cont[t])'
  BY <1>2 DEF Readable
<1> QED
  BY <1>9, <1>10, <1>11 DEF Found

(* Two generating enriched conditions of one condition do not fit together. *)
LEMMA SameGenerating ==
  ASSUME IInv, Labelled, Grounded, UniqueEcls, Coherent, Arranged, Shapely,
         NEW q \in DOMAIN ecs, NEW g \in DOMAIN ecs, IsGen(q), IsGen(g), ecs[q].c = ecs[g].c,
         NEW F, Compose(F, ConfOf(q)), Initial(ConfOf(g), F)
  PROVE  q = g
<1>1. PICK x, y : x = ecs[q].h /\ y = ecs[g].h
  OBVIOUS
<1>2. /\ ecs[q].hs = {x} /\ ecs[g].hs = {y}
      /\ hists[x].e = hists[y].e
  BY <1>1 DEF IsGen, Coherent, EcSound
<1>3. x \in DOMAIN hists /\ y \in DOMAIN hists
  <2>1. ecs[q].hs \subseteq DOMAIN hists /\ ecs[g].hs \subseteq DOMAIN hists
    BY Elements DEF IInv, EcType
  <2> QED
    BY <1>2, <2>1
<1>4. ConfOf(q) = Evs(x) /\ ConfOf(g) = Evs(y)
  BY <1>2 DEF ConfOf, Evs
<1>5. Compose(Evs(x), F)
  BY <1>4 DEF Compose, Conflict
<1>6. y = x
  BY <1>2, <1>3, <1>4, <1>5, SameHistory
<1> QED
  BY <1>2, <1>6 DEF Arranged

(* What belongs to the history at work already is found among the siblings. *)
LEMMA OwnSibling ==
  ASSUME IInv, Labelled, Grounded, Coherent, Arranged, Shapely, AtWork, Found, reader = 0,
         NEW c \in gens \cup reads, NEW q \in DOMAIN ecs, cur \in ecs[q].hs
  PROVE  /\ ecs[q].c # c /\ q \in Siblings(c, cur)
         /\ conds[c].fp # Place(q)
<1>1. PICK d, e : d = ecs[q].c /\ e = hists[cur].e
  OBVIOUS
<1>2. /\ d # c /\ d \in EventPost(e) /\ ecs[q].h = cur
      /\ \A x \in DOMAIN ecs : ecs[x].c = d => x <= q
  BY <1>1 DEF AtWork, Arranged, Enriched
<1>3. q \in Siblings(c, cur)
  BY <1>1, <1>2 DEF Siblings
<1>4. cur \in DOMAIN hists /\ e \in DOMAIN events
  <2>1. cur \in DOMAIN hists
    BY DEF IInv, TypeOK
  <2> QED
    BY <1>1, <2>1, Elements DEF IInv, HistType
<1>5. c \in EventPost(e) \cup events[e].cont
  BY <1>1 DEF IInv, Linked
<1>6. CASE c \in EventPost(e)
  <2>1. \A a, b \in EventPost(e) : conds[a].fp = conds[b].fp => a = b
    BY <1>2, <1>4 DEF Labelled, Label, OnePerPlace
  <2>2. conds[c].fp # conds[d].fp
    BY <1>2, <1>6, <2>1
  <2> QED
    BY <1>1, <1>2, <1>3, <2>2 DEF Place
<1>7. CASE c \in events[e].cont
  <2>1. PICK E : E = Evs(cur)
    OBVIOUS
  <2>2. PICK g \in hists[cur].ecl : ecs[g].c = c
    BY <1>1, <1>4, <1>7 DEF Grounded, Footing
  <2>3. /\ g \in DOMAIN ecs /\ Initial(ConfOf(g), E) /\ conds[c].pre \in ConfOf(g)
    BY <1>4, <2>1, <2>2, HistoryPart
  <2>4. ConflictFree(E) /\ c \in CutOf(E) /\ d \in CutOf(E)
    BY <1>1, <1>2, <1>4, <1>7, <2>1, HistorySound DEF Evs
  <2>5. GoTogether(E, E, c, d)
    BY <2>4, FitsItself
  <2>6. GoTogether(ConfOf(g), E, c, d)
    BY <2>3, <2>4, <2>5, TogetherPart
  <2>7. ConfOf(q) = E
    BY <1>4, <1>5, <1>1, <1>3, <2>1, SiblingFits DEF Evs
  <2>8. Concurrent(g, q)
    BY <1>1, <1>2, <2>2, <2>6, <2>7 DEF Concurrent, GoTogether
  <2>9. Place(g) # Place(q)
    BY <2>3, <2>8 DEF Found
  <2> QED
    BY <1>1, <1>2, <1>3, <2>2, <2>9 DEF Place
<1> QED
  BY <1>5, <1>6, <1>7

LEMMA EnrichCatches ==
  ASSUME IInv, Labelled, Grounded, UniqueEcls, Coherent, Arranged, Shapely, AtWork, Found,
         reader = 0, NEW c \in gens \cup reads, ~ Unsafe(c, cur),
         NEW ec, EnrichNew(c, ec), NEW n, n = Newest + 1, NEW q \in DOMAIN ecs
  PROVE  Catches(ec, n, q)
<1>1. PICK E, F, e, d : E = Evs(cur) /\ F = ConfOf(q) /\ e = hists[cur].e /\ d = ecs[q].c
  OBVIOUS
<1>2. /\ ec.c = c /\ ec.h = cur /\ ec.hs = {cur} /\ EcConf(ec) = E /\ cur \in DOMAIN hists
  BY <1>1, EcOfFields DEF Evs
<1>3. /\ Enrich(c, cur) /\ Enriches(ec) /\ ec = EcOf(c, cur)
      /\ c \in EventPost(e) \cup events[e].cont
  BY <1>1 DEF EnrichNew, NewOf
<1> SUFFICES ASSUME GoTogether(E, F, c, d)
             PROVE  IF c = d
                    THEN Readable(Place(q)) => /\ IsGen(q) => <<q, n>> \in rco'
                                               /\ IsGen(n)' => <<n, q>> \in rco'
                    ELSE {<<n, q>>, <<q, n>>} \subseteq co' /\ conds[c].fp # Place(q)
  BY <1>1, <1>2 DEF Catches
<1>4. CASE cur \in ecs[q].hs
  <2>1. d # c /\ q \in Siblings(c, cur) /\ conds[c].fp # Place(q)
    BY <1>1, <1>4, OwnSibling
  <2>2. {<<n, q>>, <<q, n>>} \subseteq co'
    BY <1>3, <2>1 DEF Enrich, Both
  <2> QED
    BY <2>1, <2>2
<1>5. CASE cur \notin ecs[q].hs
  <2>1. q \in Candidates(cur) /\ q \in Compatible(cur)
    BY <1>1, <1>5, FitCandidate, FitCompatible
  <2>2. CASE c # d
    <3>1. {<<n, q>>, <<q, n>>} \subseteq co'
      BY <1>1, <1>3, <2>1, <2>2 DEF Enrich, Both
    <3>2. conds[c].fp # Place(q)
      BY <1>1, <2>1, <2>2 DEF Unsafe
    <3> QED
      BY <2>2, <3>1, <3>2
  <2>3. CASE c = d
    <3>1. d \in CutOf(F) /\ Compose(E, F)
      BY <1>1 DEF Coherent, EcSound, GoTogether
    <3>2. e \notin F
      BY <1>1, <1>5, <3>1, OtherHistory
    <3>3. c \notin EventPost(e)
      BY <2>3, <3>1, <3>2 DEF CutOf, EventPost
    <3>4. c \in events[e].cont
      BY <1>3, <3>3
    <3>5. EcOf(c, cur).r1 # 0
      BY <1>1, <1>2, <3>4, EcOfType
    <3>6. ~ IsGen(n)'
      <4>1. ecs'[n] = ec /\ UNCHANGED <<conds, hists>>
        BY <1>3, EnrichesFrame
      <4>2. conds[c].pre # e
        <5>1. c \in DOMAIN conds
          BY <3>1, <2>3 DEF CutOf
        <5> QED
          BY <3>3, <5>1 DEF EventPost
      <4> QED
        BY <1>1, <1>2, <4>1, <4>2 DEF IsGen
    <3>7. ASSUME IsGen(q) PROVE <<q, n>> \in rco'
      <4>1. PICK g \in hists[cur].ecl : ecs[g].c = c
        BY <1>1, <1>2, <3>4 DEF Grounded, Footing
      <4>2. IsGen(g) /\ g \in DOMAIN ecs /\ Initial(ConfOf(g), E)
        <5>1. IsGen(g)
          BY <1>1, <1>2, <3>4, <4>1 DEF Arranged
        <5>2. g \in DOMAIN ecs /\ Initial(ConfOf(g), E)
          BY <1>1, <1>2, <4>1, HistoryPart
        <5> QED
          BY <5>1, <5>2
      <4>3. q = g
        BY <1>1, <2>3, <3>1, <3>7, <4>1, <4>2, SameGenerating
      <4>4. \A x \in hists[cur].ecl : ecs[x].c = c => x = g
        BY <1>2, <4>1 DEF Grounded, Footing
      <4>5. EcOf(c, cur).r1 = g
        <5>1. EcOf(c, cur).r1 = CHOOSE x \in hists[cur].ecl : ecs[x].c = c
          BY <3>5 DEF EcOf
        <5> QED
          BY <4>1, <4>4, <5>1
      <4>6. q \in {x \in Compatible(cur) : ecs[x].c = c} \cap {EcOf(c, cur).r1}
        BY <1>1, <2>1, <2>3, <4>3, <4>5
      <4> QED
        BY <1>3, <4>6 DEF Enrich
    <3> QED
      BY <2>3, <3>6, <3>7
  <2> QED
    BY <2>2, <2>3
<1> QED
  BY <1>4, <1>5

LEMMA EnrichFound ==
  ASSUME IInv, Labelled, Grounded, UniqueEcls, Coherent, Arranged, Shapely, AtWork, Found,
         reader = 0, NEW c \in gens \cup reads, ~ Unsafe(c, cur), NEW ec, EnrichNew(c, ec)
  PROVE  Found'
<1>1. PICK n : n = Newest + 1
  OBVIOUS
<1>2. \A q \in DOMAIN ecs : Catches(ec, n, q)
  BY <1>1, EnrichCatches
<1>3. Enrich(c, cur) /\ Enriches(ec) /\ ec = EcOf(c, cur)
  BY DEF EnrichNew
<1>4. co \subseteq co' /\ rco \subseteq rco'
  BY <1>3 DEF Enrich
<1>5. ec.c = c /\ ec.h = cur
  BY EcOfFields
<1>6. ASSUME IsGen(n)', Readable(conds[ec.c].fp) PROVE <<n, n>> \in rco'
  <2>1. ecs'[n] = ec /\ UNCHANGED <<conds, hists>>
    BY <1>1, <1>3, EnrichesFrame
  <2>2. conds[c].pre = hists[cur].e
    BY <1>5, <1>6, <2>1 DEF IsGen
  <2>3. EcOf(c, cur).r1 = 0
    BY <2>2 DEF EcOf
  <2> QED
    BY <1>1, <1>3, <1>5, <1>6, <2>3 DEF Enrich, Readable
<1> QED
  BY <1>1, <1>2, <1>3, <1>4, <1>6, FoundNew

LEMMA CombineCatches ==
  ASSUME IInv, Labelled, Grounded, UniqueEcls, Coherent, Arranged, Shapely, Found,
         NEW rp, NEW ec, CombineNew(rp, ec), NEW n, n = Newest + 1, NEW q \in DOMAIN ecs
  PROVE  Catches(ec, n, q)
<1>1. PICK F, d : F = ConfOf(q) /\ d = ecs[q].c
  OBVIOUS
<1>2. PICK D, E, c : /\ D = ConfOf(reader) /\ E = ConfOf(rp) /\ c = ecs[reader].c
                     /\ reader \in DOMAIN ecs /\ rp \in DOMAIN ecs /\ ecs[reader].r1 # 0
                     /\ ec.c = c /\ ec.h = 0 /\ EcConf(ec) = D \cup E
                     /\ ecs[rp].c = c /\ Compose(D, E)
  <2>1. PICK D, E, c : D = ConfOf(reader) /\ E = ConfOf(rp) /\ c = ecs[reader].c
    OBVIOUS
  <2>2. /\ reader \in DOMAIN ecs /\ rp \in DOMAIN ecs /\ ecs[reader].r1 # 0
        /\ ec.c = c /\ ec.h = 0 /\ ec.rd = Rd(reader) \cup Rd(rp)
        /\ EcConf(ec) = D \cup E
        /\ D \in SUBSET DOMAIN events /\ E \in SUBSET DOMAIN events
        /\ Closed(D \cup E) /\ ConflictFree(D \cup E)
        /\ c \in CutOf(D \cup E) /\ ecs[rp].c = c /\ Compose(D, E)
        /\ ReadersIn(D \cup E, ec.rd)
    BY <2>1, CombineFields
  <2> QED
    BY <2>1, <2>2
<1>3. EnrichCompound(reader, rp) /\ Enriches(ec)
  BY DEF CombineNew
<1> SUFFICES ASSUME GoTogether(D \cup E, F, c, d)
             PROVE  IF c = d
                    THEN Readable(Place(q)) => /\ IsGen(q) => <<q, n>> \in rco'
                                               /\ IsGen(n)' => <<n, q>> \in rco'
                    ELSE {<<n, q>>, <<q, n>>} \subseteq co' /\ conds[c].fp # Place(q)
  BY <1>1, <1>2 DEF Catches
<1>4. Initial(D, D \cup E) /\ Initial(E, D \cup E)
  BY <1>2, ComposeInitial
<1>5. c \in CutOf(D) /\ c \in CutOf(E) /\ d \in CutOf(F)
  BY <1>1, <1>2 DEF Coherent, EcSound
<1>6. CASE c # d
  <2>1. GoTogether(D, F, c, d) /\ GoTogether(E, F, c, d)
    BY <1>4, <1>5, TogetherPart DEF CutOf
  <2>2. Concurrent(reader, q) /\ Concurrent(rp, q)
    BY <1>1, <1>2, <1>6, <2>1 DEF Concurrent, GoTogether
  <2>3. <<reader, q>> \in co /\ <<rp, q>> \in co /\ Place(reader) # Place(q)
    BY <1>2, <2>2 DEF Found
  <2>4. {<<n, q>>, <<q, n>>} \subseteq co'
    BY <1>3, <2>3 DEF EnrichCompound, Both
  <2> QED
    BY <1>1, <1>2, <1>6, <2>3, <2>4 DEF Place
<1>7. CASE c = d
  <2>1. ~ IsGen(n)'
    <3>1. ecs'[n] = ec
      BY <1>3, EnrichesFrame
    <3> QED
      BY <1>2, <3>1 DEF IsGen, IsComp
  <2>2. ASSUME IsGen(q) PROVE <<q, n>> \in rco'
    <3>1. PICK g : g = ecs[reader].r1
      OBVIOUS
    <3>2. reader # 0 /\ cur \in DOMAIN hists
      BY <1>2, Elements DEF IInv, TypeOK
    <3>3. ecs[reader].hs = {cur} /\ c \in events[hists[cur].e].cont
      BY <1>1, <1>2, <3>2 DEF Arranged
    <3>4. ~ IsComp(reader)
      BY <3>2 DEF Coherent, Related
    <3>5. ecs[reader].h = cur /\ g \in hists[cur].ecl /\ ecs[g].c = c
      BY <1>1, <1>2, <3>1, <3>3, <3>4 DEF Coherent, EcSound
    <3>6. D = Evs(cur)
      BY <1>1, <1>2, <3>3 DEF ConfOf, Evs
    <3>7. IsGen(g) /\ g \in DOMAIN ecs
      <4>1. IsGen(g)
        BY <3>2, <3>3, <3>5 DEF Arranged
      <4>2. g \in DOMAIN ecs
        BY <3>2, <3>5, HistoryPart
      <4> QED
        BY <4>1, <4>2
    <3>8. Initial(ConfOf(g), D \cup E)
      <4>1. PICK G : G = ConfOf(g)
        OBVIOUS
      <4>2. Initial(G, D)
        BY <3>2, <3>5, <3>6, <4>1, HistoryPart
      <4>3. Initial(G, D \cup E)
        BY <1>4, <4>2, InitialWithin
      <4> QED
        BY <4>1, <4>3
    <3>9. Compose(D \cup E, ConfOf(q))
      BY <1>1, <1>2 DEF GoTogether
    <3>10. q = g
      BY <1>1, <1>2, <1>7, <2>2, <3>5, <3>7, <3>8, <3>9, SameGenerating
    <3> QED
      BY <1>3, <3>1, <3>10 DEF EnrichCompound
  <2> QED
    BY <1>7, <2>1, <2>2
<1> QED
  BY <1>6, <1>7

LEMMA CombineFound ==
  ASSUME IInv, Labelled, Grounded, UniqueEcls, Coherent, Arranged, Shapely, Found,
         NEW rp \in combine, Combine(rp)
  PROVE  Found'
<1>1. PICK ec, n : ec = EcCompound(reader, rp) /\ n = Newest + 1
  OBVIOUS
<1>2. CombineNew(rp, ec)
  BY <1>1, CombineCases DEF CombineNew
<1>3. \A q \in DOMAIN ecs : Catches(ec, n, q)
  BY <1>1, <1>2, CombineCatches
<1>4. EnrichCompound(reader, rp) /\ Enriches(ec)
  BY <1>2 DEF CombineNew
<1>5. co \subseteq co' /\ rco \subseteq rco'
  BY <1>4 DEF EnrichCompound
<1>6. ~ IsGen(n)'
  <2>1. ecs'[n] = ec
    BY <1>1, <1>4, EnrichesFrame
  <2>2. ec.h = 0
    BY <1>1 DEF EcCompound
  <2> QED
    BY <2>1, <2>2 DEF IsGen, IsComp
<1> QED
  BY <1>1, <1>3, <1>4, <1>5, <1>6, FoundNew

(* An appended enriched condition of the history at work.                  *)
LEMMA AtWorkNew ==
  ASSUME IInv, AtWork, OneRead', NEW ec, Enriches(ec),
         \A x \in ec.hs : x # cur => cur \notin hists[x].past,
         IF ec.c \in EventPost(hists[cur].e)
         THEN ec.h = cur
         ELSE reader' # 0,
         \A r \in DOMAIN ecs : cur \in ecs[r].hs /\ ecs[r].c \in EventPost(hists[cur].e)
                                 => ecs[r].c # ec.c,
         reader # 0 => reader' # 0
  PROVE  AtWork'
<1>1. /\ DOMAIN ecs' = DOMAIN ecs \cup {Newest + 1} /\ ecs'[Newest + 1] = ec
      /\ \A r \in DOMAIN ecs : ecs'[r] = ecs[r]
      /\ UNCHANGED <<conds, hists, cur>>
  BY EnrichesFrame
<1>2. DOMAIN ecs = 1..Newest /\ Newest \in Nat
  BY Elements, LenProperties DEF IInv, TypeOK, Newest
<1>3. PICK n, P : n = Newest + 1 /\ P = EventPost(hists[cur].e)
  OBVIOUS
<1>4. (EventPost(hists[cur].e))' = P
  BY <1>1, <1>3 DEF EventPost
<1>5. \A r \in DOMAIN ecs : r <= n /\ r # n
  BY <1>2, <1>3
<1>6. \A r \in DOMAIN ecs' : \A x \in ecs'[r].hs : x # cur => cur \notin hists[x].past
  BY <1>1 DEF AtWork
<1>7. ASSUME NEW r \in DOMAIN ecs, cur \in ecs[r].hs
      PROVE  IF ecs[r].c \in P
             THEN ecs[r].h = cur /\ \A x \in DOMAIN ecs' : ecs'[x].c = ecs[r].c => x <= r
             ELSE reader' # 0
  <2>1. CASE ecs[r].c \in P
    <3>1. ecs[r].h = cur /\ \A x \in DOMAIN ecs : ecs[x].c = ecs[r].c => x <= r
      BY <1>3, <1>7, <2>1 DEF AtWork
    <3>2. ecs[r].c # ec.c
      BY <1>3, <1>7, <2>1
    <3> QED
      BY <1>1, <2>1, <3>1, <3>2
  <2>2. CASE ecs[r].c \notin P
    BY <1>3, <1>7, <2>2 DEF AtWork
  <2> QED
    BY <2>1, <2>2
<1>8. IF ec.c \in P
      THEN ec.h = cur /\ \A x \in DOMAIN ecs' : ecs'[x].c = ec.c => x <= n
      ELSE reader' # 0
  <2>1. n <= n
    BY <1>2, <1>3
  <2> QED
    BY <1>1, <1>3, <1>5, <2>1
<1> QED
  BY <1>1, <1>3, <1>4, <1>6, <1>7, <1>8 DEF AtWork

LEMMA GenerateAtWork ==
  ASSUME IInv, Arranged, AtWork, NEW c \in gens, Generate(c), ~ Still
  PROVE  AtWork'
<1>1. PICK ec : ec = EcOf(c, cur)
  OBVIOUS
<1>2. /\ Enriches(ec) /\ ec.hs = {cur} /\ ec.c = c /\ ec.h = cur
      /\ gens' \subseteq gens /\ reads' = reads /\ reader' = reader /\ net' = net
  BY <1>1, GenerateCases, EnrichesFrame DEF EcOf
<1>3. c \in EventPost(hists[cur].e)
  BY DEF IInv, Linked
<1>4. \A r \in DOMAIN ecs : cur \in ecs[r].hs => ecs[r].c # c
  BY DEF Arranged, Enriched
<1>5. OneRead'
  BY <1>2 DEF AtWork, OneRead
<1> QED
  BY <1>2, <1>3, <1>4, <1>5, AtWorkNew

(* What the event of a history reads it does not produce.                  *)
LEMMA ReadNotProduced ==
  ASSUME IInv, NEW h \in DOMAIN hists
  PROVE  \A c \in events[hists[h].e].cont : c \notin EventPost(hists[h].e)
<1>1. PICK e : e = hists[h].e
  OBVIOUS
<1>2. e \in DOMAIN events /\ e \in Nat
  BY <1>1, Elements DEF IInv, HistType
<1>3. \A c \in events[e].cont : conds[c].pre < e
  BY <1>2 DEF IInv, Causal
<1> QED
  BY <1>1, <1>2, <1>3 DEF EventPost

LEMMA ReadAtWork ==
  ASSUME IInv, Arranged, AtWork, NEW c \in reads, Read(c), ~ Still
  PROVE  AtWork'
<1>1. PICK ec : ec = EcOf(c, cur)
  OBVIOUS
<1>2. /\ Enriches(ec) /\ ec.hs = {cur} /\ ec.c = c
      /\ gens' = {} /\ reads' = reads \ {c} /\ reader' = Newest + 1 /\ net' = net
  BY <1>1, ReadCases, EnrichesFrame DEF EcOf
<1>3. cur \in DOMAIN hists /\ c \in events[hists[cur].e].cont
  BY DEF IInv, TypeOK, Linked
<1>4. c \notin EventPost(hists[cur].e)
  BY <1>3, ReadNotProduced
<1>5. reader' # 0
  <2>1. Newest \in Nat
    BY LenProperties DEF IInv, TypeOK, Newest
  <2> QED
    BY <1>2, <2>1
<1>6. OneRead'
  BY <1>2 DEF AtWork, OneRead
<1> QED
  BY <1>2, <1>4, <1>5, <1>6, AtWorkNew

LEMMA CombineAtWork ==
  ASSUME IInv, Arranged, AtWork, NEW rp \in combine, Combine(rp)
  PROVE  AtWork'
<1>1. PICK ec : ec = EcCompound(reader, rp)
  OBVIOUS
<1>2. /\ Enriches(ec) /\ ec.hs = ecs[reader].hs \cup ecs[rp].hs /\ ec.c = ecs[reader].c
      /\ gens' = {} /\ reads' = reads /\ reader' = reader /\ net' = net
      /\ rp \in DOMAIN ecs
  BY <1>1, CombineCases, EnrichesFrame DEF EcCompound
<1>3. reader # 0
  BY DEF IInv, Linked
<1>4. ecs[reader].hs = {cur} /\ ecs[reader].c \in events[hists[cur].e].cont
  BY <1>3 DEF Arranged
<1>5. cur \in DOMAIN hists
  BY DEF IInv, TypeOK
<1>6. ec.c \notin EventPost(hists[cur].e)
  BY <1>2, <1>4, <1>5, ReadNotProduced
<1>7. \A x \in ec.hs : x # cur => cur \notin hists[x].past
  BY <1>2, <1>4 DEF AtWork
<1>8. OneRead'
  BY <1>2 DEF AtWork, OneRead
<1> QED
  BY <1>2, <1>3, <1>6, <1>7, <1>8, AtWorkNew

LEMMA SolveAtWork ==
  ASSUME IInv, AtWork, NEW s \in sols, Solve(s)
  PROVE  AtWork'
<1>1. /\ UNCHANGED <<net, conds, ecs, cur, gens, reads, reader>>
      /\ \A x \in DOMAIN hists : hists'[x] = hists[x]
  BY SolveFrame
<1>2. cur \in DOMAIN hists /\ \A r \in DOMAIN ecs : ecs[r].hs \subseteq DOMAIN hists
  BY Elements DEF IInv, TypeOK, EcType
<1>3. OneRead'
  BY <1>1 DEF AtWork, OneRead
<1>4. (EventPost(hists[cur].e))' = EventPost(hists[cur].e)
  BY <1>1, <1>2 DEF EventPost
<1>5. \A r \in DOMAIN ecs : \A x \in ecs[r].hs : x # cur => cur \notin hists'[x].past
  BY <1>1, <1>2 DEF AtWork
<1> QED
  BY <1>1, <1>3, <1>4, <1>5 DEF AtWork

LEMMA PopsAtWork ==
  ASSUME IInv, Labelled, AtWork, Grows, NEW h \in queue, Pops(h)
  PROVE  AtWork'
<1>1. /\ UNCHANGED <<net, ecs>> /\ cur' = h /\ reader' = 0
      /\ h \in DOMAIN hists /\ hists[h].corr = h /\ h # 0
  <2>1. UNCHANGED <<net, ecs>> /\ cur' = h /\ reader' = 0
    BY AddFrame
  <2>2. h \in DOMAIN hists /\ hists[h].corr = h
    BY DEF IInv, TypeOK, Discipline
  <2>3. h # 0
    BY <2>2, Elements DEF IInv
  <2> QED
    BY <2>1, <2>2, <2>3
<1>2. PICK e : e = hists[h].e
  OBVIOUS
<1>3. e \in DOMAIN events
  BY <1>1, <1>2, Elements DEF IInv, HistType
<1>4. ASSUME NEW r \in DOMAIN ecs, NEW x \in ecs[r].hs
      PROVE  x # h /\ h \notin hists'[x].past
  <2>1. x \in DOMAIN hists /\ hists[x].corr = 0
    BY Elements DEF IInv, EcType, EcsOfNonCutoffs
  <2>2. x # h
    BY <1>1, <2>1
  <2>3. h \notin hists[x].past
    BY <1>1, <2>1, <2>2 DEF IInv, BuiltOnNonCutoffs
  <2> QED
    BY <2>1, <2>2, <2>3 DEF Grows
<1>5. reads' \subseteq ReadsOf(e, conds')
  BY <1>2 DEF Pops, Add
<1>6. ASSUME SingleReads(net), NEW c \in reads', NEW d \in reads' PROVE c = d
  <2>1. /\ c \in events[e].cont /\ d \in events[e].cont
        /\ \E t \in net.trans : conds'[c].fp \in net.pre[t]
        /\ \E t \in net.trans : conds'[d].fp \in net.pre[t]
    BY <1>5 DEF ReadsOf
  <2>2. conds'[c] = conds[c] /\ conds'[d] = conds[d]
    BY <1>3, <2>1, ArcsType DEF Grows
  <2>3. e # 1
    BY <1>3, <2>1, LabelFacts
  <2>4. /\ events[e].ft \in net.trans
        /\ conds[c].fp \in net.cont[events[e].ft] /\ conds[d].fp \in net.cont[events[e].ft]
    BY <1>3, <2>1, <2>3, LabelFacts
  <2>5. conds[c].fp = conds[d].fp
    BY <1>6, <2>1, <2>2, <2>4 DEF SingleReads
  <2> QED
    BY <1>3, <2>1, <2>5 DEF Labelled, Label, OnePerPlace
<1>7. OneRead'
  BY <1>1, <1>6 DEF OneRead
<1> QED
  BY <1>1, <1>4, <1>7 DEF AtWork

LEMMA AtWorkNext ==
  ASSUME IInv, Labelled, Arranged, AtWork, [Next]_vars
  PROVE  AtWork'
<1>1. Grows
  BY StepGrows
<1>2. CASE Still
  <2>1. UNCHANGED <<net, events, conds, hists, ecs, cur, gens, reads, reader>>
    BY <1>2, StillFrame
  <2> QED
    BY <2>1 DEF AtWork, OneRead, EventPost
<1>3. ASSUME NEW c \in gens, Generate(c), ~ Still PROVE AtWork'
  BY <1>3, GenerateAtWork
<1>4. ASSUME NEW c \in reads, Read(c), ~ Still PROVE AtWork'
  BY <1>4, ReadAtWork
<1>5. ASSUME NEW rp \in combine, Combine(rp) PROVE AtWork'
  BY <1>5, CombineAtWork
<1>6. ASSUME NEW s \in sols, Solve(s) PROVE AtWork'
  BY <1>6, SolveAtWork
<1>7. ASSUME NEW h \in queue, Pop(h) \/ Pick(h) PROVE AtWork'
  <2>1. Pops(h)
    BY <1>7 DEF Pop, Pick, Pops
  <2> QED
    BY <1>1, <2>1, PopsAtWork
<1>8. CASE Quit \/ UNCHANGED vars
  BY <1>2, <1>8 DEF Quit, vars, Still
<1> QED
  BY <1>2, <1>3, <1>4, <1>5, <1>6, <1>7, <1>8 DEF Next

LEMMA AtWorkInit == Init => AtWork
BY DEF Init, AtWork, OneRead

LEMMA AtWorkAlways == Spec => []AtWork
<1>1. IInv /\ Labelled /\ Arranged /\ AtWork /\ [Next]_vars => AtWork'
  BY AtWorkNext
<1> QED
  BY <1>1, AtWorkInit, Invariant, LabelledAlways, ArrangedAlways, PTL DEF Spec

-----------------------------------------------------------------------------
(* The lists stay complete.                                                *)
FoundInv == SingleReads(net) => Found

LEMMA FoundStable ==
  ASSUME IInv, Grows, Found, UNCHANGED <<net, ecs, co, rco>>
  PROVE  Found'
<1>1. \A r \in DOMAIN ecs : Place(r)' = Place(r)
  BY Elements DEF IInv, EcType, Grows, Place
<1>2. \A r, q \in DOMAIN ecs : /\ Concurrent(r, q)' <=> Concurrent(r, q)
                               /\ Joined(r, q)' <=> Joined(r, q)
  BY ConcurrentStable
<1>3. \A r \in DOMAIN ecs : IsGen(r)' <=> IsGen(r)
  BY IsGenStable
<1>4. \A r, q \in DOMAIN ecs : Concurrent(r, q)' => <<r, q>> \in co' /\ Place(r)' # Place(q)'
  BY <1>1, <1>2 DEF Found
<1>5. \A r, q \in DOMAIN ecs : /\ IsGen(r)' /\ Joined(r, q)'
                               /\ \E t \in net.trans : Place(r)' \in net.cont[t]
                               => <<r, q>> \in rco'
  BY <1>1, <1>2, <1>3 DEF Found
<1> QED
  BY <1>4, <1>5 DEF Found

LEMMA GenerateFound ==
  ASSUME IInv, Labelled, Grounded, UniqueEcls, Coherent, Arranged, Shapely, AtWork, Found,
         NEW c \in gens, Generate(c), ~ Still
  PROVE  Found'
<1>1. PICK ec : ec = EcOf(c, cur)
  OBVIOUS
<1>2. Enriches(ec) /\ Enrich(c, cur) /\ ec.hs = {cur}
  BY <1>1, GenerateCases
<1>3. EnrichNew(c, ec)
  BY <1>1, <1>2 DEF EnrichNew, NewOf, IInv, Linked
<1>4. ~ Unsafe(c, cur)
  BY DEF Generate, UnsafeStop, Still
<1>5. reader = 0
  BY DEF AtWork, OneRead
<1> QED
  BY <1>3, <1>4, <1>5, EnrichFound

LEMMA ReadFound ==
  ASSUME IInv, Labelled, Grounded, UniqueEcls, Coherent, Arranged, Shapely, AtWork, Found,
         SingleReads(net), NEW c \in reads, Read(c), ~ Still
  PROVE  Found'
<1>1. PICK ec : ec = EcOf(c, cur)
  OBVIOUS
<1>2. Enriches(ec) /\ Enrich(c, cur) /\ ec.hs = {cur}
  BY <1>1, ReadCases
<1>3. EnrichNew(c, ec)
  BY <1>1, <1>2 DEF EnrichNew, NewOf, IInv, Linked
<1>4. ~ Unsafe(c, cur)
  BY DEF Read, UnsafeStop, Still
<1>5. reader = 0
  BY DEF AtWork, OneRead
<1> QED
  BY <1>3, <1>4, <1>5, EnrichFound

LEMMA FoundNext ==
  ASSUME IInv, Labelled, Grounded, UniqueEcls, Coherent, Arranged, Shapely, AtWork, FoundInv,
         [Next]_vars
  PROVE  FoundInv'
<1>1. Grows
  BY StepGrows
<1>2. net' = net
  BY StepCases, StillFrame, EnrichesFrame, SolveFrame, AddFrame
<1> SUFFICES ASSUME SingleReads(net) PROVE Found'
  BY <1>2 DEF FoundInv
<1>3. Found
  BY DEF FoundInv
<1>4. CASE Still
  BY <1>1, <1>3, <1>4, StillFrame, FoundStable
<1>5. ASSUME NEW c \in gens, Generate(c), ~ Still PROVE Found'
  BY <1>3, <1>5, GenerateFound
<1>6. ASSUME NEW c \in reads, Read(c), ~ Still PROVE Found'
  BY <1>3, <1>6, ReadFound
<1>7. ASSUME NEW rp \in combine, Combine(rp) PROVE Found'
  BY <1>3, <1>7, CombineFound
<1>8. ASSUME NEW s \in sols, Solve(s) PROVE Found'
  <2>1. UNCHANGED <<net, ecs, co, rco>>
    BY <1>8 DEF Solve, enrich, input
  <2> QED
    BY <1>1, <1>3, <2>1, FoundStable
<1>9. ASSUME NEW h \in queue, Pop(h) \/ Pick(h) PROVE Found'
  <2>1. UNCHANGED <<net, ecs, co, rco>>
    BY <1>9 DEF Pop, Pick, Add, enrich, input
  <2> QED
    BY <1>1, <1>3, <2>1, FoundStable
<1>10. CASE Quit \/ UNCHANGED vars
  BY <1>4, <1>10 DEF Quit, vars, Still
<1> QED
  BY <1>4, <1>5, <1>6, <1>7, <1>8, <1>9, <1>10 DEF Next

LEMMA FoundInit == Init => FoundInv
<1>1. Init => DOMAIN ecs = {}
  BY DEF Init
<1> QED
  BY <1>1 DEF FoundInv, Found

LEMMA FoundAlways == Spec => []FoundInv
<1>1. IInv /\ Labelled /\ Grounded /\ UniqueEcls /\ Coherent /\ Arranged /\ Shapely /\ AtWork
        /\ FoundInv /\ [Next]_vars => FoundInv'
  BY FoundNext
<1> QED
  BY <1>1, FoundInit, Invariant, LabelledAlways, GroundedAlways, UniqueEclsAlways,
     CoherentAlways, ArrangedAlways, ShapelyAlways, AtWorkAlways, PTL DEF Spec

(* No concurrent pair is missing in the lists co, hence no possible        *)
(* extension is lost, if each transition reads at most one place that some *)
(* transition consumes.  Beyond that it is false: _ec_conc_siblings misses *)
(* pairs of a history that reads two conditions.                           *)
THEOREM ConcurrencyIsComplete == Spec => [](SingleReads(net) => ConcurrencyComplete)
<1>1. FoundInv => (SingleReads(net) => ConcurrencyComplete)
  BY DEF FoundInv, Found, ConcurrencyComplete
<1> QED
  BY <1>1, FoundAlways, PTL

(* In such nets the program never goes on with two concurrent enriched     *)
(* conditions of one place: what _ec_conc_add looks at before it relates a *)
(* pair are all the pairs there are.                                       *)
THEOREM CutsAreSafe == Spec => [](SingleReads(net) => SafeCuts)
<1>1. FoundInv => (SingleReads(net) => SafeCuts)
  BY DEF FoundInv, Found, SafeCuts
<1> QED
  BY <1>1, FoundAlways, PTL
=============================================================================
