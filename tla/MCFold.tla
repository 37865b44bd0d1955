------------------------------- MODULE MCFold -------------------------------
(***************************************************************************)
(* Unfoldings of encoded nets for Fold.  An event of a prefix is the record  *)
(* of its transition and the set of the conditions it needs, a condition   *)
(* the record of its producer and its place: the prefix of the contextual  *)
(* net and the one of its encoding are sets of such records, independent   *)
(* of the numbers the program deals in.                                    *)
(***************************************************************************)
EXTENDS Fold, Nets

Source == [t |-> T0, pre |-> {}]

InitialConds(n) == {[by |-> Source, p |-> p] : p \in n.post[T0]}

(* One more event, for a transition that the marking of a run enables.     *)
Occurrences(n, r) ==
  {[t |-> t, pre |-> {c \in r.cut : c.p \in n.pre[t] \cup n.cont[t]}] :
     t \in {u \in n.trans : n.pre[u] \cup n.cont[u] \subseteq {c.p : c \in r.cut}}}

After(n, r, e) ==
  [events |-> r.events \cup {e},
   cut    |-> {c \in r.cut : ~ (c \in e.pre /\ c.p \in n.pre[e.t])}
              \cup {[by |-> e, p |-> p] : p \in n.post[e.t]}]

(* The configurations with at most k events.                               *)
Runs(n, k) ==
  LET upTo[i \in 0..k] ==
        IF i = 0 THEN {[events |-> {}, cut |-> InitialConds(n)]}
        ELSE upTo[i - 1] \cup
             UNION {{After(n, r, e) : e \in Occurrences(n, r)} : r \in upTo[i - 1]}
  IN  upTo[k]

EventsOf(R) == UNION {r.events : r \in R}
CondsOf(n, E) == InitialConds(n) \cup {[by |-> e, p |-> p] : e \in E, p \in UNION {n.post[u] : u \in n.trans}}

CondsIn(n, R) == {c \in CondsOf(n, EventsOf(R)) : c.p \in n.post[c.by.t]}

-----------------------------------------------------------------------------
(* The encoding of scripts/cont2pr.pl: a copy of a place for each of its   *)
(* readers, which consumes and produces it; who else consumes or produces  *)
(* the place does so with all the copies.                                  *)

Readers(n, p) == {t \in n.trans : p \in n.cont[t]}

Copies(n, p) ==
  IF Readers(n, p) = {} THEN {[stem |-> p, copy |-> 0]}
  ELSE {[stem |-> p, copy |-> t] : t \in Readers(n, p)}

AllCopies(n, P) == UNION {Copies(n, p) : p \in P}

OwnCopies(n, t) == {[stem |-> p, copy |-> t] : p \in n.cont[t]}

Encoding(n) ==
  [places |-> AllCopies(n, n.places),
   trans  |-> n.trans,
   pre    |-> [t \in n.trans \cup {T0} |-> AllCopies(n, n.pre[t]) \cup OwnCopies(n, t)],
   cont   |-> [t \in n.trans \cup {T0} |-> {}],
   post   |-> [t \in n.trans \cup {T0} |-> AllCopies(n, n.post[t]) \cup OwnCopies(n, t)]]

(* What an event and a condition of the prefix of the encoding stand for   *)
(* in the contextual net.                                                  *)
Decode(n, C) ==
  LET cond[c \in C] ==
        IF c.by = Source THEN [by |-> Source, p |-> c.p.stem]
        ELSE IF c.p.stem \in n.cont[c.by.t]
             THEN cond[CHOOSE d \in c.by.pre : d.p = c.p]
             ELSE [by |-> [t |-> c.by.t, pre |-> {cond[d] : d \in c.by.pre}],
                   p |-> c.p.stem]
  IN  cond

-----------------------------------------------------------------------------
(* The contextual prefixes, with numbers for the terms, and the number of  *)
(* the histories of every event: the configurations in which it must come  *)
(* last, where f comes before g if g needs what f produces or takes what f *)
(* reads.                                                                  *)

(* Nets and sizes of configurations.  No transition of these nets consumes *)
(* what it also produces, which would be taken for a read arc.             *)
Bounded ==
  << <<Sem, 6>>, <<TwoReaders, 6>>, <<ChainedReaders, 5>>, <<TwoContexts, 5>>,
     <<Cycle, 7>>, <<ForkedReader, 5>>, <<Circle, 5>>, <<Shortcut, 4>>, <<Detour, 4>> >>

Listed(S) == FoldSet(LAMBDA x, l : Append(l, x), <<>>, S)
Index(s, x) == CHOOSE i \in DOMAIN s : s[i] = x

Precedes(n, f, g) ==
  \E c \in g.pre : c.by = f \/ (c \in f.pre /\ c.p \in n.pre[g.t])

Histories(n, R, e) ==
  {E \in {r.events : r \in R} :
     e \in E /\ \A f \in E \ {e} : \E g \in E \ {f} : Precedes(n, f, g)}

Unfolding(n, k) ==
  LET R  == Runs(n, k)
      es == Listed(EventsOf(R))
      cs == Listed(CondsIn(n, R))
  IN
  [es |-> es, cs |-> cs,
   events |-> [i \in DOMAIN es |->
                 [t |-> es[i].t, histories |-> Cardinality(Histories(n, R, es[i]))]],
   conds  |-> [j \in DOMAIN cs |->
                 [p    |-> cs[j].p,
                  by   |-> {i \in DOMAIN es : cs[j].by = es[i]},
                  post |-> {i \in DOMAIN es : cs[j] \in es[i].pre /\ cs[j].p \in n.pre[es[i].t]},
                  cont |-> {i \in DOMAIN es : cs[j] \in es[i].pre /\ cs[j].p \in n.cont[es[i].t]}]]]

Unfoldings == [b \in DOMAIN Bounded |-> Unfolding(Bounded[b][1], Bounded[b][2])]

-----------------------------------------------------------------------------
(* The files of their encodings.  The external unfolder is free in the     *)
(* order of the conditions and in what it cuts off, as long as nothing is  *)
(* built on it.  The last three fields are for the properties only.        *)

File(b, backwards) ==
  LET n      == Bounded[b][1]
      enc    == Encoding(n)
      R      == Runs(enc, Bounded[b][2])
      es     == Listed(EventsOf(R))
      cs     == LET l == Listed(CondsIn(enc, R)) IN IF backwards THEN Reverse(l) ELSE l
      places == Listed(enc.places)
      term   == Decode(n, Range(cs))
  IN
  [tr     |-> [i \in DOMAIN es |-> es[i].t],
   cutoff |-> {},
   pl     |-> [i \in DOMAIN cs |-> Index(places, cs[i].p)],
   parent |-> [i \in DOMAIN cs |-> IF cs[i].by = Source THEN 0 ELSE Index(es, cs[i].by)],
   post   |-> [i \in DOMAIN cs |-> SelectSeq([j \in DOMAIN es |-> j],
                                             LAMBDA j : cs[i] \in es[j].pre)],
   names  |-> places,
   numtr  |-> Cardinality(n.trans),
   prefix |-> b,
   events |-> [i \in DOMAIN es |->
                 Index(Unfoldings[b].es, [t |-> es[i].t, pre |-> {term[c] : c \in es[i].pre}])],
   conds  |-> [i \in DOMAIN cs |-> Index(Unfoldings[b].cs, term[cs[i]])]]

WithCutoffs(f) ==
  LET leaves == {e \in DOMAIN f.tr : \A c \in DOMAIN f.pl : f.parent[c] = e => f.post[c] = <<>>}
  IN  {[f EXCEPT !.cutoff = K] :
         K \in {L \in SUBSET leaves : Cardinality(L) <= 2 \/ L = leaves}}

(* The loop for the initial conditions leaves out the last condition of a  *)
(* file: in these files it is not an initial one.                          *)
Files ==
  UNION {WithCutoffs(f) :
    f \in {g \in {File(b, d) : b \in DOMAIN Bounded, d \in BOOLEAN} :
           g.parent[Len(g.parent)] # 0}}

-----------------------------------------------------------------------------
Folded == {evqueue[i] : i \in 1..evbot}
Made   == {c \in Conds : phase # "read" /\ mci.parent[c] \in Folded \cup {0}}

(* Events and conditions are put together exactly if they stand for the    *)
(* same one of the contextual net, in whatever order the queue has them;   *)
(* an event is queued once, after the conditions of its preset have their  *)
(* numbers, and in the array of as many entries as there are events; and   *)
(* the counters of a folded event have what was folded to it.              *)
FoldsHistories ==
  /\ Len(evqueue) <= Len(mci.tr) /\ IsInjective(evqueue)
  /\ \A i \in evbot + 1..Len(evqueue) : Range(Preset(evqueue[i])) \subseteq Made
  /\ \A c \in Conds : ncond[c] # 0 <=> c \in Made
  /\ \A c, d \in Made : ncond[c] = ncond[d] <=> mci.conds[c] = mci.conds[d]
  /\ \A e, f \in Folded : nev[e] = nev[f] <=> mci.events[e] = mci.events[f]
  /\ \A e \in Folded :
       LET same == {f \in Folded : nev[f] = nev[e]} IN
       /\ nevs[nev[e]].cohist = Cardinality(same \cap mci.cutoff)
       /\ nevs[nev[e]].nchist = Cardinality(same \ mci.cutoff)

(* Read back, the file that is written in the end is the prefix of the     *)
(* contextual net: its events and conditions, what they consume, read and  *)
(* produce, the events white that have no cutoff among their histories and *)
(* black that have nothing else; and no event of the input was left over,  *)
(* there is one for every history of the contextual net.                   *)
FoldIsUnfolding ==
  phase = "done" =>
    \E f \in {writecuf} : \E r \in {ReadCuf(f)} : \E u \in {Unfoldings[mci.prefix]} :
    LET of(i) == {e \in Events : mci.events[e] = i}
        event == [i \in DOMAIN u.events |-> FileNumber(nev[CHOOSE e \in of(i) : TRUE])]
        cond  == [j \in DOMAIN u.conds |->
                    ncond[CHOOSE c \in Conds : mci.conds[c] = j] - 1]
        numbers(S) == {event[i] : i \in S}
    IN
    /\ InRange(f)
    /\ Range(event) = DOMAIN r.events /\ Range(cond) = DOMAIN r.conds
    /\ \A i \in DOMAIN u.events :
         /\ r.events[event[i]] =
              [label  |-> u.events[i].t,
               colour |-> IF of(i) \cap mci.cutoff = {} THEN "white"
                          ELSE IF of(i) \subseteq mci.cutoff THEN "black" ELSE "gray"]
         /\ Cardinality(of(i)) = u.events[i].histories
    /\ \A j \in DOMAIN u.conds :
         r.conds[cond[j]] =
           [label |-> u.conds[j].p,            pre  |-> numbers(u.conds[j].by),
            post  |-> numbers(u.conds[j].post), cont |-> numbers(u.conds[j].cont)]
=============================================================================
