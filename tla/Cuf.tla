-------------------------------- MODULE Cuf --------------------------------
(***************************************************************************)
(* The file the finished prefix is written to: write_cuf of                *)
(* src/cunf/output.c.  Events and conditions are prepended to their lists  *)
(* and write_cuf reverses the lists, so it walks them in the order of      *)
(* allocation.                                                             *)
(***************************************************************************)
EXTENDS UnfolderProps, CufFormat

(* The reader of nets numbers the transitions from 1 on.                   *)
ASSUME NumberedAssumption ==
  \A n \in Nets : IsFiniteSet(n.trans) /\ n.trans = 1..Cardinality(n.trans)

(* The colours of the first loop: a white event has no history that is a   *)
(* cutoff, or still in the queue; a black one is a cutoff; e0 has none.    *)
White(e) ==
  /\ e # 1 /\ ~ events[e].iscutoff
  /\ \A h \in DOMAIN hists : hists[h].e = e => hists[h].corr = 0

(* The members of a set of numbers, in increasing order.                   *)
InOrder(S) ==
  [i \in 1..Cardinality(S) |-> CHOOSE e \in S : Cardinality({f \in S : f <= e}) = i]

Whites == InOrder({e \in DOMAIN events : White(e)})
Grays  == InOrder({e \in DOMAIN events \ {1} : ~ White(e) /\ ~ events[e].iscutoff})
Blacks == InOrder({e \in DOMAIN events : events[e].iscutoff})

(* The order of the three loops that write the events and renumber them    *)
(* from 0; e0 keeps its number, 0.                                         *)
FileOrder == Whites \o Grays \o Blacks

EventIds ==
  LET order == FileOrder
      number(e) == CHOOSE i \in DOMAIN order : order[i] = e
  IN  [e \in DOMAIN events |-> IF e = 1 THEN 0 ELSE number(e) - 1]

(* The members of a set in some order, as the lists of the program have it. *)
Listed(S) == FoldSet(LAMBDA x, l : Append(l, x), <<>>, S)

(* Names are written from the newest to the oldest, t0 is left out.        *)
PlaceTable == Listed(net.places)
TransTable == [i \in 1..Cardinality(net.trans) |-> Cardinality(net.trans) + 1 - i]
PlaceIdx(p) == (CHOOSE i \in DOMAIN PlaceTable : PlaceTable[i] = p) - 1
TransIdx(t) == Cardinality(net.trans) - t

(* Mutant: the number 0 is taken for e0.                                   *)
PreFieldNumberOnly(id, c) ==
  IF id[conds[c].pre] = 0 THEN NoEvent ELSE id[conds[c].pre]

(* The second field of a condition.                                        *)
PreField(id, c) ==
  LET e == conds[c].pre IN IF id[e] = 0 /\ ~ White(e) THEN NoEvent ELSE id[e]

Write ==
  LET id     == EventIds
      ids(E) == Listed({id[e] : e \in E})
  IN
  [numpl  |-> Cardinality(net.places),
   numtr  |-> Cardinality(net.trans),
   nwhite |-> Len(Whites),
   ngray  |-> Len(events) - 1 - Len(Whites) - Len(Blacks),
   events |-> [i \in DOMAIN FileOrder |-> TransIdx(events[FileOrder[i]].ft)],
   conds  |-> [c \in DOMAIN conds |->
                 [place |-> PlaceIdx(conds[c].fp),
                  pre   |-> PreField(id, c),
                  post  |-> ids(Consumers(c)),
                  cont  |-> ids(Readers(c))]],
   names  |-> TransTable \o PlaceTable]

-----------------------------------------------------------------------------
(* main writes the file after unfold has returned.                         *)
Written == Done \/ status = "quit"

(* The histories of e that were kept.                                      *)
Kept(e) == {h \in Popped : hists[h].e = e /\ hists[h].corr = 0}

(* What is read as r from the file f is the prefix, id numbers its events.  *)
Held(f, r, id) ==
  /\ InRange(f)
  /\ {id[e] : e \in 2..Len(events)} = DOMAIN r.events
  /\ Cardinality(2..Len(events)) = Len(f.events)
  /\ \A e \in 2..Len(events) :
       /\ r.events[id[e]].label = events[e].ft
       /\ r.events[id[e]].colour =
            IF Kept(e) = {} THEN "black"
            ELSE IF Kept(e) = {h \in DOMAIN hists : hists[h].e = e} THEN "white"
            ELSE "gray"
  /\ DOMAIN r.conds = {c - 1 : c \in DOMAIN conds}
  /\ \A c \in DOMAIN conds :
       r.conds[c - 1] = [label |-> conds[c].fp,
                         pre   |-> {id[e] : e \in {conds[c].pre} \ {1}},
                         post  |-> {id[e] : e \in Consumers(c)},
                         cont  |-> {id[e] : e \in Readers(c)}]

(* The file holds the prefix: there is one numbering of the events, onto   *)
(* the file's, under which what is read back has the conditions, flow and  *)
(* context of the prefix, and an event is white if no history of it was cut *)
(* off or left over, black if none was kept, gray otherwise.  The prefix   *)
(* must have a white event (see WrittenInitial).                           *)
RoundTrip ==
  Written /\ Whites # <<>> =>
    \E f \in {Write} : \E r \in {ReadCuf(f)} : \E ids \in {EventIds} :
      Held(f, r, [e \in 2..Len(events) |-> ids[e]])

(* The comment on the format: "0xffffffff if initial condition; index of   *)
(* generating event otherwise".                                            *)
WrittenInitial ==
  Written => \A c \in DOMAIN conds :
    Write.conds[c].pre = IF conds[c].pre = 1 THEN NoEvent ELSE EventIds[conds[c].pre]
=============================================================================
