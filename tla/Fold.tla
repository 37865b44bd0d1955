-------------------------------- MODULE Fold --------------------------------
(***************************************************************************)
(* scripts/prcompress.c: a prefix of the place-replication encoding of a   *)
(* contextual net, where every reader of a place has a copy of the place   *)
(* to itself, is folded to a prefix of the contextual net.  The events are *)
(* taken in a causal order; events that are histories of one contextual    *)
(* event have the same transition and the same folded preset, which a hash *)
(* table tells.                                                            *)
(*                                                                         *)
(* The input, mci, is the file the external unfolder wrote: transitions    *)
(* and cutoffs by event; place, producer (0: none) and consumers by        *)
(* condition; the names of the places.  A name of the form p__i is the     *)
(* stem p and the copy i, any other one has the copy 0.  Lists grow as     *)
(* needed and their cells come from a pool: both are left out.             *)
(***************************************************************************)
EXTENDS CufFormat

CONSTANT Inputs

VARIABLES mci,
          phase,        \* "read", "fold" and "done"
          precounter,   \* preconditions of an event that have no event yet
          evqueue, evbot,
          ncond, nev,   \* what conditions and events are folded to; 0: not set
          hash,         \* presets and the events they were first seen with
          newcond, oldcond,
          nconds, nevs  \* the folded prefix

vars == <<mci, phase, precounter, evqueue, evbot, ncond, nev, hash, newcond,
          oldcond, nconds, nevs>>

Events  == DOMAIN mci.tr
Conds   == DOMAIN mci.pl
Preset(e)  == SelectSeq([c \in Conds |-> c], LAMBDA c : e \in Range(mci.post[c]))
Postset(e) == SelectSeq([c \in Conds |-> c], LAMBDA c : mci.parent[c] = e)

(* translate_places: a place has an entry of its own in the folded net     *)
(* unless it is a copy and its stem was seen; then the latest with the stem. *)
HasEntry(p) ==
  \/ mci.names[p].copy = 0
  \/ \A q \in 1..p - 1 : mci.names[q].stem # mci.names[p].stem

Entry(p) == Cardinality({q \in 1..p : HasEntry(q)})

pltranslate(p) ==
  Entry(Max({q \in 1..p : HasEntry(q) /\ mci.names[q].stem = mci.names[p].stem}))

newplname ==
  LET entries == SelectSeq([p \in DOMAIN mci.names |-> p], HasEntry)
  IN  [i \in DOMAIN entries |-> mci.names[entries[i]].stem]

NewPlace(c) == pltranslate(mci.pl[c])

-----------------------------------------------------------------------------
(* The loops over conditions work on what they change of the state.        *)

Work == [precounter |-> precounter, evqueue |-> evqueue, ncond |-> ncond,
         newcond |-> newcond, nconds |-> nconds]

SetWork(w) ==
  /\ precounter' = w.precounter /\ evqueue' = w.evqueue
  /\ ncond' = w.ncond /\ newcond' = w.newcond /\ nconds' = w.nconds

(* Condition c is produced by e, the latest folded event.                  *)
insert_condition(w, c, e) ==
  LET np == NewPlace(c)
      n  == Len(w.nconds) + 1
  IN
  IF w.newcond[np].event = e THEN [w EXCEPT !.ncond[c] = w.newcond[np].cond]
  ELSE [w EXCEPT
          !.ncond[c]    = n,
          !.nconds      = Append(@, [place |-> np, post |-> <<>>, cont |-> <<>>,
                                     parent |-> IF e = 0 THEN 0 ELSE Len(nevs) + 1]),
          !.newcond[np] = [event |-> e, cond |-> n]]

(* Mutant: the events are queued when their first condition is there.      *)
add_cond_postset_first(w, c) ==
  LET visit(v, e) ==
        LET v1 == [v EXCEPT !.precounter[e] = @ - 1]
        IN  IF e \in Range(v.evqueue) THEN v1 ELSE [v1 EXCEPT !.evqueue = Append(@, e)]
  IN  FoldLeft(visit, w, mci.post[c])

(* An event is queued when the last condition of its preset is there.      *)
add_cond_postset(w, c) ==
  LET visit(v, e) ==
        LET v1 == [v EXCEPT !.precounter[e] = @ - 1]
        IN  IF v1.precounter[e] # 0 THEN v1 ELSE [v1 EXCEPT !.evqueue = Append(@, e)]
  IN  FoldLeft(visit, w, mci.post[c])

(* The loop over the conditions without a producer stops short of the last *)
(* condition of the file.                                                  *)
Initials ==
  SelectSeq([c \in 1..Len(mci.pl) - 1 |-> c], LAMBDA c : mci.parent[c] = 0)

Read ==
  /\ phase = "read"
  /\ phase' = "fold"
  /\ LET insert(w, c) == add_cond_postset(insert_condition(w, c, 0), c)
     IN  \E w \in {FoldLeft(insert, Work, Initials)} : SetWork(w)
  /\ UNCHANGED <<mci, evbot, nev, hash, oldcond, nevs>>

-----------------------------------------------------------------------------
Pending == phase = "fold" /\ evbot < Len(evqueue)
Current == evqueue[evbot + 1]

(* The key of an event, and oldcond when its preset has been visited.      *)
marking(e) == [tr |-> mci.tr[e], pre |-> {ncond[c] : c \in Range(Preset(e))}]

Marked(e) ==
  LET visit(o, c) == [o EXCEPT ![NewPlace(c)] = [event |-> e, cond |-> ncond[c]]]
  IN  FoldLeft(visit, oldcond, Preset(e))

(* Another history of an event that is there: its postset is matched by    *)
(* place to the one of the event the key was entered with.                 *)
FoldKnown ==
  /\ Pending
  /\ \E e \in {Current}, h \in hash :
       /\ h.key = marking(e)
       /\ LET e2 == h.event
              mark(o, c)  == [o EXCEPT ![mci.pl[c]] = [event |-> e, cond |-> ncond[c]]]
              match(w, c) ==
                add_cond_postset([w EXCEPT !.ncond[c] = oldcond'[mci.pl[c]].cond], c)
              cut == IF e \in mci.cutoff THEN 1 ELSE 0
          IN
          /\ oldcond' = FoldLeft(mark, Marked(e), Postset(e2))
          /\ \E w \in {FoldLeft(match, Work, Postset(e))} : SetWork(w)
          /\ nev' = [nev EXCEPT ![e] = nev[e2]]
          /\ nevs' = [nevs EXCEPT ![nev[e2]].cohist = @ + cut,
                                  ![nev[e2]].nchist = @ + 1 - cut]
  /\ evbot' = evbot + 1
  /\ UNCHANGED <<mci, phase, hash>>

(* A condition e produces is a read arc if its place is also in the preset. *)
Produce(old, e) ==
  LET visit(w, c) ==
        LET np == NewPlace(c) IN
        add_cond_postset(
          IF old[np].event = e
          THEN [w EXCEPT !.newcond[np].event = e,
                         !.ncond[c] = old[np].cond,
                         !.nconds[old[np].cond].cont = Append(@, Len(nevs) + 1)]
          ELSE insert_condition(w, c, e), c)
  IN  FoldLeft(visit, Work, Postset(e))

(* Mutant: a place that e also reads is consumed as well.                  *)
ConsumeAll(w, old, e) ==
  LET visit(s, c) ==
        LET np == NewPlace(c) IN
        IF s.old[np].event = -1 THEN s
        ELSE [w   |-> [s.w EXCEPT !.nconds[ncond[c]].post = Append(@, Len(nevs) + 1)],
              old |-> [s.old EXCEPT ![np].event = -1]]
  IN  FoldLeft(visit, [w |-> w, old |-> old], Preset(e))

(* Arcs from the preconditions that are not produced again, one for all    *)
(* the copies of a place.                                                  *)
Consume(w, old, e) ==
  LET visit(s, c) ==
        LET np == NewPlace(c) IN
        IF s.w.newcond[np].event = e \/ s.old[np].event = -1 THEN s
        ELSE [w   |-> [s.w EXCEPT !.nconds[ncond[c]].post = Append(@, Len(nevs) + 1)],
              old |-> [s.old EXCEPT ![np].event = -1]]
  IN  FoldLeft(visit, [w |-> w, old |-> old], Preset(e))

FoldNew ==
  /\ Pending
  /\ \E e \in {Current} :
       LET cut == IF e \in mci.cutoff THEN 1 ELSE 0 IN
       /\ \A h \in hash : h.key # marking(e)
       /\ hash' = hash \cup {[key |-> marking(e), event |-> e]}
       /\ nev' = [nev EXCEPT ![e] = Len(nevs) + 1]
       /\ nevs' = Append(nevs, [tr |-> mci.tr[e], cohist |-> cut, nchist |-> 1 - cut])
       /\ \E old \in {Marked(e)} : \E w \in {Produce(old, e)} :
          \E s \in {Consume(w, old, e)} : SetWork(s.w) /\ oldcond' = s.old
  /\ evbot' = evbot + 1
  /\ UNCHANGED <<mci, phase>>

Finish ==
  /\ phase = "fold" /\ ~ Pending
  /\ phase' = "done"
  /\ UNCHANGED <<mci, precounter, evqueue, evbot, ncond, nev, hash, newcond, oldcond,
                 nconds, nevs>>

-----------------------------------------------------------------------------
(* The colours at the end of convert, and writecuf.                        *)

Chosen(Test(_)) == SelectSeq([e \in DOMAIN nevs |-> e], LAMBDA e : Test(nevs[e]))

Whites == Chosen(LAMBDA e : e.cohist = 0)
Grays  == Chosen(LAMBDA e : e.nchist # 0 /\ e.cohist # 0)
Blacks == Chosen(LAMBDA e : e.nchist = 0)

ne_invmap == Whites \o Grays \o Blacks

(* Numbers in the file count from 0.                                       *)
FileNumber(e) == (CHOOSE i \in DOMAIN ne_invmap : ne_invmap[i] = e) - 1

writecuf ==
  LET ids(l) == [i \in DOMAIN l |-> FileNumber(l[i])] IN
  [numpl  |-> Len(newplname),
   numtr  |-> mci.numtr,
   nwhite |-> Len(Whites),
   ngray  |-> Len(Grays),
   events |-> [i \in DOMAIN nevs |-> nevs[ne_invmap[i]].tr - 1],
   conds  |-> [n \in DOMAIN nconds |->
                 [place |-> nconds[n].place - 1,
                  pre   |-> IF nconds[n].parent = 0 THEN NoEvent
                            ELSE FileNumber(nconds[n].parent),
                  post  |-> ids(nconds[n].post),
                  cont  |-> ids(nconds[n].cont)]],
   names  |-> [t \in 1..mci.numtr |-> t] \o newplname]

-----------------------------------------------------------------------------
(* readmci: the counters are the sizes of the presets.                     *)
Init ==
  /\ mci \in Inputs
  /\ phase = "read"
  /\ precounter = [e \in Events |-> Len(Preset(e))]
  /\ evqueue = <<>> /\ evbot = 0
  /\ ncond = [c \in Conds |-> 0] /\ nev = [e \in Events |-> 0]
  /\ hash = {}
  /\ newcond = [p \in DOMAIN mci.names |-> [event |-> -1, cond |-> 0]]
  /\ oldcond = newcond
  /\ nconds = <<>> /\ nevs = <<>>

Next == Read \/ FoldKnown \/ FoldNew \/ Finish

Spec == Init /\ [][Next]_vars
=============================================================================
