------------------------------ MODULE Unfolder ------------------------------
(***************************************************************************)
(* The unfolding algorithm: the loop of unfold() in src/cunf/unfold.cc with *)
(* the search for possible extensions (pe.c), the enriched conditions and  *)
(* their concurrency relation (ec.c), the history graph (h.c) and the      *)
(* table of markings that decides the cutoffs (marking.c).                 *)
(*                                                                         *)
(* Events, conditions, histories and enriched conditions are numbered in   *)
(* the order they are allocated, from 1; 0 is the null pointer.  The       *)
(* program is sequential; the model is not more deterministic than what    *)
(* fixes its order: the adjacency lists are sets, walked in any order (it  *)
(* is the order of the arcs in the input file), and of several minimal     *)
(* histories the queue may yield any (module PEQueue has the heap).        *)
(***************************************************************************)
EXTENDS CNet, HOrder

CONSTANTS
  Nets,      \* the input nets
  Options    \* the command lines: cutoff order, quotas, interactive mode

ASSUME NetsAssumption ==
  \A n \in Nets : IsNet(n) /\ Consuming(n) /\ IsFiniteSet(n.places)

ASSUME OptionsAssumption ==
  \A o \in Options : /\ o.order \in Orders
                     /\ {o.maxdepth, o.maxev, o.maxcond, o.maxh} \subseteq Nat
                     /\ o.interactive \in BOOLEAN

VARIABLES
  net, opt,   \* the input and the command line
  status,     \* "run", "unsafe" (ut_err in _ec_conc_add) or "quit" (by the user)
  events,     \* [ft, pre, cont, iscutoff], the first one is e0
  conds,      \* [pre, fp]
  hists,      \* [e, nod, past, ecl, depth, corr, rd, sd, marking]
  ecs,        \* [c, h, hs, r1, r2, rd]
  co,         \* <<r, rp>> : rp is in the list co of r
  dir,        \* <<r, rp>> : r // rp, the two low bits of the entries of co
  rco,        \* <<r, rp>> : rp is in the list rco of r
  queue,      \* the histories in the queue of possible extensions
  table,      \* the histories of the hash table of markings, newest first
  cur,        \* the history that _unfold_enriched works on ...
  gens,       \*    conditions of post(e) left to its first loop
  reads,      \*    conditions of cont(e) left to its second loop
  reader,     \*    the reading condition in _unfold_combine, or 0
  combine,    \*    the ecs of rco(reader) left to its loop
  sols,       \* solutions of pe_update_{gen,read} left to _pe_comb_solution
  numco       \* u.unf.numco

input  == <<net, opt>>
prefix == <<events, conds, hists>>
enrich == <<ecs, co, dir, rco, numco>>
work   == <<cur, gens, reads, reader, combine, sols>>
vars   == <<input, status, prefix, enrich, queue, table, work>>

-----------------------------------------------------------------------------
(* The prefix and its history graph.                                       *)

EventPost(e) == {c \in DOMAIN conds : conds[c].pre = e}
Readers(c)   == {e \in DOMAIN events : c \in events[e].cont}
Consumers(c) == {e \in DOMAIN events : c \in events[e].pre}

EventsOf(P)  == {hists[x].e : x \in P}

(* The order of the queue and of the cutoffs on the histories H.            *)
Cmp(H, x, y) ==
  LET nodes == H[x].past \cup H[y].past
  IN  HCmp(H[x].past, H[y].past,
           [z \in nodes |-> events[H[z].e].ft], [z \in nodes |-> H[z].depth], opt.order)

(* Mutant: the conditions the event is going to produce are forgotten.     *)
FreshNever(E, e) == {}

(* What the event e produces, unless its conditions are there already.     *)
Fresh(E, e) == IF EventPost(e) = {} THEN net.post[E[e].ft] ELSE {}

(* h_alloc, the calls of h_add for the histories nod, and h_marking.  E is  *)
(* the sequence of events with the event e of the new history; past is the *)
(* array hda of h_marking, all the histories below the new one.            *)
NewHistory(E, e, nod, ecl) ==
  LET id    == Len(hists) + 1
      past  == {id} \cup UNION {hists[x].past : x \in nod}
      evs   == {e} \cup EventsOf(past \ {id})
      used  == UNION {E[x].pre : x \in evs}
      cut   == {c \in DOMAIN conds : conds[c].pre \in evs /\ c \notin used}
      deep  == {hists[x].depth + 1 : x \in nod}
  IN [e       |-> e,
      nod     |-> nod,
      past    |-> past,
      ecl     |-> ecl,
      depth   |-> CHOOSE d \in deep : \A k \in deep : k <= d,
      corr    |-> id,
      rd      |-> {x \in evs : E[x].cont \cap cut # {}},
      sd      |-> {x \in evs : E[x].cont \cap E[e].pre # {}},
      marking |-> {conds[c].fp : c \in cut} \cup Fresh(E, e)]

-----------------------------------------------------------------------------
(* Enriched conditions.  hs is the set of histories a reader of r finds by *)
(* following r2 (those of the r1 on the way and the last one).             *)

Place(r)  == conds[ecs[r].c].fp
IsComp(r) == ecs[r].h = 0
IsGen(r)  == ~ IsComp(r) /\ conds[ecs[r].c].pre = hists[ecs[r].h].e
Rd(r)     == IF IsComp(r) THEN ecs[r].rd ELSE hists[ecs[r].h].rd
Newest    == Len(ecs)

(* ec_alloc: a reading condition looks its ancestor up in the history.     *)
EcOf(c, h) ==
  [c |-> c, h |-> h, hs |-> {h}, r2 |-> 0, rd |-> {},
   r1 |-> IF conds[c].pre = hists[h].e THEN 0
          ELSE CHOOSE g \in hists[h].ecl : ecs[g].c = c]

(* ec_alloc2 *)
EcCompound(r1, r2) ==
  [c |-> ecs[r1].c, h |-> 0, hs |-> ecs[r1].hs \cup ecs[r2].hs,
   r1 |-> r1, r2 |-> r2, rd |-> Rd(r1) \cup Rd(r2)]

(* Mutant: siblings of any history.                                        *)
SiblingsAnyHistory(c, h) ==
  {r \in DOMAIN ecs :
     ecs[r].c \in (EventPost(hists[h].e) \cup events[hists[h].e].cont) \ {c}}

(* _ec_conc_siblings: of each other condition that the event of h produces *)
(* or reads, only the enriched condition at the head of its list is looked *)
(* at, the one allocated last.                                             *)
Siblings(c, h) ==
  LET e    == hists[h].e
      Of(d) == {r \in DOMAIN ecs : ecs[r].c = d}
      head == {r \in DOMAIN ecs : \A x \in Of(ecs[r].c) : x <= r}
  IN  {r \in head : /\ ecs[r].c \in (EventPost(e) \cup events[e].cont) \ {c}
                    /\ ecs[r].h = h}

(* _ec_conc_bgr: black are the conditions consumed by the event of h, green *)
(* the events that read one of them outside h, red the readers of h.       *)
Black(h) == events[hists[h].e].pre

Green(h) == (UNION {Readers(c) : c \in Black(h)}) \ (hists[h].sd \cup hists[h].rd)

(* Mutant: what a reading condition has in rco is not looked at.           *)
CandidatesNoRco(h) ==
  {rp \in DOMAIN ecs :
     /\ hists[h].ecl # {}
     /\ ecs[rp].c \notin Black(h)
     /\ \A ri \in hists[h].ecl : <<ri, rp>> \in co}

(* _ec_conc_intersec and _ec_conc_last: what _ec_conc_add is called with,  *)
(* less the black ones it drops at once.                                   *)
Candidates(h) ==
  {rp \in DOMAIN ecs :
     /\ hists[h].ecl # {}
     /\ ecs[rp].c \notin Black(h)
     /\ \A ri \in hists[h].ecl :
          \/ <<ri, rp>> \in co
          \/ ecs[ri].c \notin Black(h) /\ <<ri, rp>> \in rco}

(* Mutants: other enriched conditions of c count as well; only what the    *)
(* event of h reads is looked at.                                          *)
UnsafeSameCondition(c, h) == \E rp \in Candidates(h) : Place(rp) = conds[c].fp

UnsafeReadOnly(c, h) ==
  \E rp \in Candidates(h) : c \in events[hists[h].e].cont /\ ecs[rp].c # c
                             /\ Place(rp) = conds[c].fp

(* _ec_conc_add ends the program on two concurrent conditions of one place. *)
Unsafe(c, h) ==
  \E rp \in Candidates(h) : ecs[rp].c # c /\ Place(rp) = conds[c].fp

Compatible(h) == {rp \in Candidates(h) : Rd(rp) \cap Green(h) = {}}

(* Mutant: red readers are not excepted.                                   *)
Bit0AllReaders(c, h, rp) == \A e \in Rd(rp) : c \notin events[e].cont

(* The bits of _ec_conc_add for the new r = <c, h>: r // rp unless rp's     *)
(* history has a reader of c that is not red; rp // r if it has every red   *)
(* reader of rp's condition.                                               *)
Bit0(c, h, rp) == \A e \in Rd(rp) \ hists[h].rd : c \notin events[e].cont

(* Mutant: rp // r although a red reader is not in the history of rp.      *)
Bit1Always(h, rp) == TRUE

Bit1(h, rp) == hists[h].rd \cap Readers(ecs[rp].c) \subseteq Rd(rp)

Both(r, S) == {<<r, x>> : x \in S} \cup {<<x, r>> : x \in S}

(* ec_alloc and ec_conc for a generating or reading condition; the pairs of *)
(* rco(r) of a reading one only live until the end of _unfold_combine, and *)
(* are kept in combine.                                                    *)
Enrich(c, h) ==
  LET r    == Newest + 1
      ec   == EcOf(c, h)
      sib  == Siblings(c, h)
      conc == {rp \in Compatible(h) : ecs[rp].c # c}
      same == {rp \in Compatible(h) : ecs[rp].c = c}
      gen  == ec.r1 = 0
  IN  /\ ecs' = Append(ecs, ec)
      /\ co'  = co \cup Both(r, sib \cup conc)
      /\ dir' = dir \cup Both(r, sib)
                    \cup {<<r, rp>> : rp \in {x \in conc : Bit0(c, h, x)}}
                    \cup {<<rp, r>> : rp \in {x \in conc : Bit1(h, x)}}
      /\ rco' = rco \cup (IF gen THEN {<<r, rp>> : rp \in same} ELSE {})
                    \cup {<<rp, r>> : rp \in same \cap {ec.r1}}
                    \cup (IF gen /\ \E t \in net.trans : conds[c].fp \in net.cont[t]
                          THEN {<<r, r>>} ELSE {})
      /\ numco' = numco + 2 * (Cardinality(sib) + Cardinality(conc))

(* ec_alloc2 and _ec_conc_compound.                                        *)
EnrichCompound(r1, r2) ==
  LET r    == Newest + 1
      ec   == EcCompound(r1, r2)
      conc == {rp \in DOMAIN ecs : <<r1, rp>> \in co /\ <<r2, rp>> \in co}
      readersOf(S) == {e \in S : ec.c \in events[e].cont}
      bit0 == {rp \in conc : \/ <<r1, rp>> \in dir
                             \/ <<r2, rp>> \in dir
                             \/ readersOf(Rd(rp)) \subseteq ec.rd}
      bit1 == {rp \in conc : <<rp, r1>> \in dir /\ <<rp, r2>> \in dir}
  IN  /\ ecs' = Append(ecs, ec)
      /\ co'  = co \cup Both(r, conc)
      /\ dir' = dir \cup {<<r, rp>> : rp \in bit0} \cup {<<rp, r>> : rp \in bit1}
      /\ rco' = rco \cup {<<ecs[r1].r1, r>>}
      /\ numco' = numco + 2 * Cardinality(conc)

-----------------------------------------------------------------------------
(* The search for possible extensions with the newest enriched condition.  *)

(* ec_conc_tst with the bits _pe_comb_test and _pe_comb_init ask for: who   *)
(* is consumed by t must not lose a reader of the other's history.         *)
Joint(t, x, y) ==
  /\ <<x, y>> \in co
  /\ Place(x) \in net.pre[t] => <<x, y>> \in dir
  /\ Place(y) \in net.pre[t] => <<y, x>> \in dir

(* _pe_comb_init and _pe_comb_explore for transition t: one enriched       *)
(* condition per place of its preset and context, pairwise joint; what t   *)
(* reads must be a generating condition.                                   *)
Combs(t, r) ==
  LET ps   == net.pre[t] \cup net.cont[t]
      near == {x \in DOMAIN ecs : Place(x) \in ps \ {Place(r)} /\ Joint(t, r, x)
                                  /\ (Place(x) \in net.cont[t] => IsGen(x))}
  IN  {f \in [ps -> near \cup {r}] :
         /\ \A p \in ps : Place(f[p]) = p
         /\ \A p, q \in ps : p # q => Joint(t, f[p], f[q])}

(* pe_update_gen or pe_update_read.                                        *)
Extensions ==
  LET p  == Place(Newest)
      ts == {t \in net.trans : p \in net.pre[t] \cup
                                 (IF IsGen(Newest) THEN net.cont[t] ELSE {})}
  IN  UNION {{[t |-> t, at |-> f] : f \in Combs(t, Newest)} : t \in ts}

Chosen(s, ps) == {ecs[s.at[p]].c : p \in ps}

(* Mutant: one place with one enriched condition is enough to give up.     *)
InstancesOfShortcut(s) ==
  IF \E p \in DOMAIN s.at : \A x \in DOMAIN ecs : ecs[x].c = ecs[s.at[p]].c => x = s.at[p]
  THEN {}
  ELSE {e \in DOMAIN events :
          /\ events[e].ft = s.t
          /\ events[e].pre \cup events[e].cont \subseteq Chosen(s, DOMAIN s.at)}

(* _pe_comb_instance_of: the occurrences of the transition on the chosen   *)
(* conditions, with the shortcuts the code takes.                          *)
InstancesOf(s) ==
  LET c == ecs[Newest].c
      alone(r) == \A x \in DOMAIN ecs : ecs[x].c = ecs[r].c => x = r
      all == Chosen(s, DOMAIN s.at)
      none == \/ IsPlain(net)
              \/ conds[c].fp \in net.pre[s.t]  /\ Consumers(c) = {}
              \/ conds[c].fp \in net.cont[s.t] /\ Readers(c) = {}
              \/ \A p \in DOMAIN s.at : alone(s.at[p])
  IN  IF none THEN {}
      ELSE {e \in DOMAIN events :
              events[e].ft = s.t /\ events[e].pre \cup events[e].cont \subseteq all}

(* Mutant: a new event is no cutoff until a cutoff is found.               *)
NewEventNotCutoff(s) ==
  [ft |-> s.t, pre |-> Chosen(s, net.pre[s.t]), cont |-> Chosen(s, net.cont[s.t]),
   iscutoff |-> FALSE]

(* _pe_comb_new_event *)
NewEvent(s) ==
  [ft |-> s.t, pre |-> Chosen(s, net.pre[s.t]), cont |-> Chosen(s, net.cont[s.t]),
   iscutoff |-> TRUE]

(* The enriched conditions of a solution and their histories, and its      *)
(* event, which is an old one or the next to be allocated.                 *)
Ecl(s) == {s.at[p] : p \in DOMAIN s.at}
Nod(s) == UNION {ecs[r].hs : r \in Ecl(s)}

EventOf(s) ==
  LET old == InstancesOf(s)
  IN  IF old = {} THEN Len(events) + 1
      ELSE CHOOSE e \in old : \A x \in old : x <= e

(* _pe_comb_solution, with _pe_comb_new_hist and _pe_q_insert.             *)
Solve(s) ==
  /\ status = "run"
  /\ s \in sols
  /\ sols'   = sols \ {s}
  /\ events' = IF InstancesOf(s) = {} THEN Append(events, NewEvent(s)) ELSE events
  /\ hists'  = Append(hists, NewHistory(events', EventOf(s), Nod(s), Ecl(s)))
  /\ queue'  = queue \cup {Len(hists) + 1}
  /\ UNCHANGED <<input, status, conds, enrich, table, cur, gens, reads, reader,
                 combine>>

-----------------------------------------------------------------------------
(* _unfold_enriched and _unfold_combine.                                   *)

(* Mutants: the histories are not counted; places that are only read get   *)
(* no enriched condition.                                                  *)
OverQuotaNoHistories(h, E, C) ==
  \/ hists[h].depth > opt.maxdepth
  \/ Len(E) > opt.maxev
  \/ Len(C) > opt.maxcond

GensOfConsumed(e, C) ==
  {c \in DOMAIN C : C[c].pre = e /\ \E t \in net.trans : C[c].fp \in net.pre[t]}

(* The quotas, and the conditions its two loops do not skip; E and C are   *)
(* the events and the conditions of the prefix at the call.                *)
OverQuota(h, E, C) ==
  \/ hists[h].depth > opt.maxdepth
  \/ Len(E) > opt.maxev
  \/ Len(C) > opt.maxcond
  \/ Len(hists) > opt.maxh

GensOf(e, C) ==
  {c \in DOMAIN C : C[c].pre = e
     /\ \E t \in net.trans : C[c].fp \in net.pre[t] \cup net.cont[t]}

ReadsOf(e, C) ==
  {c \in events[e].cont : \E t \in net.trans : C[c].fp \in net.pre[t]}

(* Mutant: histories that hold a reader of h are combined again.           *)
ToCombineAll(c, h) == {rp \in Compatible(h) : ecs[rp].c = c /\ rp # EcOf(c, h).r1}

(* What _unfold_combine combines the reading condition <c, h> with: the     *)
(* pairs of its rco whose histories have no reader of h (ec_included).     *)
ToCombine(c, h) ==
  {rp \in Compatible(h) :
     /\ ecs[rp].c = c /\ rp # EcOf(c, h).r1
     /\ EventsOf(ecs[rp].hs) \cap hists[h].rd = {}}

UnsafeStop ==
  /\ status' = "unsafe"
  /\ UNCHANGED <<input, prefix, enrich, queue, table, work>>

(* One round of the first loop, over post(e).                              *)
Generate(c) ==
  /\ status = "run" /\ sols = {}
  /\ c \in gens
  /\ IF Unsafe(c, cur) THEN UnsafeStop
     ELSE /\ Enrich(c, cur)
          /\ gens' = gens \ {c}
          /\ UNCHANGED <<input, status, prefix, queue, table, cur, reads, reader,
                         combine>>
          /\ sols' = Extensions'

(* One round of the second loop, over cont(e), up to the point where       *)
(* _unfold_combine has its list of ecs to combine with.                    *)
Read(c) ==
  /\ status = "run" /\ sols = {} /\ gens = {} /\ combine = {}
  /\ c \in reads
  /\ IF Unsafe(c, cur) THEN UnsafeStop
     ELSE /\ Enrich(c, cur)
          /\ reads' = reads \ {c}
          /\ reader' = Newest + 1
          /\ combine' = ToCombine(c, cur)
          /\ UNCHANGED <<input, status, prefix, queue, table, cur, gens>>
          /\ sols' = Extensions'

(* One round of the loop of _unfold_combine.                               *)
Combine(rp) ==
  /\ status = "run" /\ sols = {} /\ gens = {}
  /\ rp \in combine
  /\ EnrichCompound(reader, rp)
  /\ combine' = combine \ {rp}
  /\ UNCHANGED <<input, status, prefix, queue, table, cur, gens, reads, reader>>
  /\ sols' = Extensions'

-----------------------------------------------------------------------------
(* The main loop.                                                          *)

Idle == sols = {} /\ gens = {} /\ reads = {} /\ combine = {}

(* Mutant: the order of the two histories is not looked at.                *)
IsCutoffAnyOrder(h) ==
  opt.order # "none"
  /\ \E i \in DOMAIN table : hists[table[i]].marking = hists[h].marking

(* marking_add: the first entry of the table with the marking of h, and    *)
(* whether h is a cutoff because of it.                                    *)
SameMarking(h) ==
  {i \in DOMAIN table : hists[table[i]].marking = hists[h].marking}

Corresponding(h) ==
  table[CHOOSE i \in SameMarking(h) : \A j \in SameMarking(h) : i <= j]

IsCutoff(h) ==
  /\ opt.order # "none"
  /\ SameMarking(h) # {}
  /\ HasTotalOrder(opt.order) \/ Cmp(hists, Corresponding(h), h) < 0

(* _unfold_postset: the conditions of the event, unless they are there.    *)
Postset(e) ==
  LET ps == net.post[events[e].ft]
      new == SetToSeq(ps)
  IN  IF Cardinality(EventPost(e)) = Cardinality(ps) THEN conds
      ELSE conds \o [i \in DOMAIN new |-> [pre |-> e, fp |-> new[i]]]

(* Mutant: cutoffs are extended, too.                                      *)
SkipOver(h, E, C) == OverQuota(h, E, C)

TableAfter(h) ==
  IF IsCutoff(h) \/ opt.order = "none" THEN table ELSE <<h>> \o table

EventsAfter(h) ==
  IF IsCutoff(h) THEN events ELSE [events EXCEPT ![hists[h].e].iscutoff = FALSE]

Skip(h, E, C) == IsCutoff(h) \/ OverQuota(h, E, C)

(* The body of the loop of unfold for the history h that leaves the queue,  *)
(* up to the loops of _unfold_enriched.                                    *)
Add(h) ==
  LET e == hists[h].e IN
  /\ queue'  = queue \ {h}
  /\ cur'    = h
  /\ conds'  = Postset(e)
  /\ hists'  = IF IsCutoff(h)
               THEN [hists EXCEPT ![h].corr = Corresponding(h), ![h].marking = {}]
               ELSE [hists EXCEPT ![h].corr = 0]
  /\ table'  = TableAfter(h)
  /\ events' = EventsAfter(h)
  /\ gens'   = IF Skip(h, events, conds') THEN {} ELSE GensOf(e, conds')
  /\ reads'  = IF Skip(h, events, conds') THEN {} ELSE ReadsOf(e, conds')
  /\ reader' = 0
  /\ UNCHANGED <<input, status, enrich, combine, sols>>

(* Mutants: any history leaves the queue; the quotas are tested before the *)
(* history at the root leaves it, and the loop goes round with it there.   *)
MinimalAny(h)         == TRUE
MinimalWithinQuota(h) ==
  ~ OverQuota(h, events, conds) /\ \A x \in queue : Cmp(hists, h, x) <= 0

Minimal(h) == \A x \in queue : Cmp(hists, h, x) <= 0

(* pe_pop yields a minimal history, or in interactive mode the one the     *)
(* user names.                                                             *)
Pop(h) ==
  /\ status = "run" /\ Idle
  /\ h \in queue
  /\ ~ opt.interactive
  /\ Minimal(h)
  /\ Add(h)

Pick(h) ==
  /\ status = "run" /\ Idle
  /\ h \in queue
  /\ opt.interactive
  /\ Add(h)

(* 'q' in the interactive shell.                                           *)
Quit ==
  /\ status = "run" /\ Idle
  /\ queue # {}
  /\ opt.interactive
  /\ status' = "quit"
  /\ UNCHANGED <<input, prefix, enrich, queue, table, work>>

-----------------------------------------------------------------------------
(* unfold up to the loop: marking_init, pe_init, _unfold_init.             *)
Init ==
  /\ net \in Nets
  /\ opt \in Options
  /\ status = "run"
  /\ events = <<[ft |-> T0, pre |-> {}, cont |-> {}, iscutoff |-> FALSE]>>
  /\ LET m0 == SetToSeq(net.post[T0])
     IN  conds = [i \in DOMAIN m0 |-> [pre |-> 1, fp |-> m0[i]]]
  /\ hists = <<[e |-> 1, nod |-> {}, past |-> {1}, ecl |-> {}, depth |-> 0,
                corr |-> 0, rd |-> {}, sd |-> {}, marking |-> net.post[T0]]>>
  /\ table = IF opt.order = "none" THEN <<>> ELSE <<1>>
  /\ ecs = <<>> /\ co = {} /\ dir = {} /\ rco = {} /\ numco = 0
  /\ queue = {} /\ cur = 1 /\ reads = {} /\ reader = 0 /\ combine = {} /\ sols = {}
  /\ gens = IF OverQuota(1, events, conds) THEN {} ELSE GensOf(1, conds)

Next ==
  \/ \E s \in sols : Solve(s)
  \/ \E c \in gens : Generate(c)
  \/ \E c \in reads : Read(c)
  \/ \E rp \in combine : Combine(rp)
  \/ \E h \in queue : Pop(h) \/ Pick(h)
  \/ Quit

Spec == Init /\ [][Next]_vars

(* In interactive mode the program reads a command when it is idle.  It is *)
(* one thread that does not stop before its loop ends, but for that: no    *)
(* user has to answer.                                                     *)
Waits == opt.interactive /\ Idle

Fairness == WF_vars(~ Waits /\ Next)

FairSpec == Spec /\ Fairness
=============================================================================
