--------------------------- MODULE UnfolderProofs ---------------------------
(***************************************************************************)
(* Proofs about the unfolder for every command line and every finite net   *)
(* whose transitions consume something (NetsAssumption).                   *)
(***************************************************************************)
EXTENDS UnfolderProps, WellFoundedInduction, FiniteSetTheorems, SequenceTheorems, TLAPS

(* A set of naturals that is not empty has a least member.                 *)
LEMMA NatMin ==
  ASSUME NEW S \in SUBSET Nat, S # {}
  PROVE  \E m \in S : \A k \in S : m <= k
<1> DEFINE R == OpToRel(<, Nat)
<1>1. PICK m \in S : \A k \in S : <<k, m>> \notin R
  BY WFMin, NatLessThanWellFounded
<1>2. \A k \in S : ~ (k < m)
  BY <1>1 DEF OpToRel
<1> QED
  BY <1>2

(* One that is bounded has a greatest one.                                 *)
LEMMA NatMax ==
  ASSUME NEW S \in SUBSET Nat, S # {}, NEW n \in Nat, \A k \in S : k <= n
  PROVE  \E m \in S : \A k \in S : k <= m
<1> DEFINE T == {b \in Nat : \A k \in S : k <= b}
<1>1. PICK b \in T : \A k \in T : b <= k
  BY NatMin
<1>2. b \in S
  <2>1. SUFFICES ASSUME b \notin S PROVE FALSE
    OBVIOUS
  <2>2. \A k \in S : k <= b - 1
    BY <1>1, <2>1
  <2>3. b - 1 \in Nat
    <3>1. PICK k \in S : TRUE
      OBVIOUS
    <3>2. k \in Nat /\ b \in Nat /\ k <= b - 1
      BY <2>2, <3>1, <1>1
    <3> QED
      BY <3>2
  <2>4. b - 1 \in T
    BY <2>3, <2>2
  <2> QED
    BY <1>1, <2>4
<1> QED
  BY <1>1, <1>2

(* Appending to a sequence, with elements of a set that may have grown.    *)
LEMMA AppendFacts ==
  ASSUME NEW S, NEW T, S \subseteq T, NEW s \in Seq(S), NEW x \in T
  PROVE  /\ Append(s, x) \in Seq(T)
         /\ Len(s) \in Nat /\ DOMAIN s = 1..Len(s)
         /\ Len(Append(s, x)) = Len(s) + 1
         /\ DOMAIN Append(s, x) = DOMAIN s \cup {Len(s) + 1}
         /\ \A i \in DOMAIN s : Append(s, x)[i] = s[i]
         /\ Append(s, x)[Len(s) + 1] = x
<1>1. s \in Seq(T)
  BY SeqMonotonic
<1> QED
  BY <1>1, AppendProperties, LenProperties

-----------------------------------------------------------------------------
(* What TypeOK says of the elements of the four sequences.                 *)
LEMMA Elements ==
  ASSUME TypeOK
  PROVE  /\ Len(events) \in Nat /\ DOMAIN events = 1..Len(events)
         /\ Len(conds) \in Nat /\ DOMAIN conds = 1..Len(conds)
         /\ Len(hists) \in Nat /\ DOMAIN hists = 1..Len(hists)
         /\ Len(ecs) \in Nat /\ DOMAIN ecs = 1..Len(ecs)
         /\ Len(table) \in Nat /\ DOMAIN table = 1..Len(table)
         /\ \A e \in DOMAIN events : events[e] \in EventType
         /\ \A c \in DOMAIN conds : conds[c] \in CondType
         /\ \A h \in DOMAIN hists : hists[h] \in HistType
         /\ \A r \in DOMAIN ecs : ecs[r] \in EcType
         /\ \A i \in DOMAIN table : table[i] \in DOMAIN hists
BY LenProperties, ElementOfSeq DEF TypeOK

(* A solution of pe_update_gen or pe_update_read consists of enriched      *)
(* conditions there are.                                                   *)
LEMMA ExtensionsType ==
  ASSUME (Newest \in DOMAIN ecs)'
  PROVE  (\A s \in Extensions :
            /\ s.t \in net.trans
            /\ s.at \in [net.pre[s.t] \cup net.cont[s.t] -> DOMAIN ecs])'
<1> SUFFICES ASSUME NEW s \in Extensions'
             PROVE  /\ s.t \in net'.trans
                    /\ s.at \in [net'.pre[s.t] \cup net'.cont[s.t] -> DOMAIN ecs']
  OBVIOUS
<1>1. PICK t \in net'.trans : \E f \in Combs(t, Newest)' : s = [t |-> t, at |-> f]
  BY DEF Extensions
<1>2. PICK f \in Combs(t, Newest)' : s = [t |-> t, at |-> f]
  BY <1>1
<1>3. f \in [net'.pre[t] \cup net'.cont[t] -> DOMAIN ecs']
  BY <1>2 DEF Combs
<1> QED
  BY <1>1, <1>2, <1>3

-----------------------------------------------------------------------------
(* A step that enriches one condition: a new ec whose histories are not    *)
(* cutoffs.                                                                *)
LEMMA EnrichStep ==
  ASSUME IInv,
         UNCHANGED <<input, status, prefix, queue, table, cur>>,
         NEW ec \in EcType,
         ecs' = Append(ecs, ec),
         \A h \in ec.hs : hists[h].corr = 0,
         {co', dir', rco'} \subseteq SUBSET ((DOMAIN ecs') \X (DOMAIN ecs')),
         numco' \in Nat,
         gens' \subseteq gens, reads' \subseteq reads,
         reader' \in DOMAIN ecs' \cup {0},
         reader' # 0 => ecs'[reader'].r1 # 0,
         combine' \subseteq DOMAIN ecs,
         combine' # {} => reader' # 0,
         sols' = Extensions'
  PROVE  IInv'
<1> USE DEF input, prefix
<1>1. /\ ecs' \in Seq(EcType')
      /\ Len(ecs) \in Nat /\ DOMAIN ecs = 1..Len(ecs)
      /\ Len(ecs') = Len(ecs) + 1
      /\ DOMAIN ecs' = DOMAIN ecs \cup {Len(ecs) + 1}
      /\ \A r \in DOMAIN ecs : ecs'[r] = ecs[r]
      /\ ecs'[Len(ecs) + 1] = ec
  <2>2. ecs \in Seq(EcType)
    BY DEF IInv, TypeOK
  <2>3. DOMAIN ecs \subseteq DOMAIN ecs'
    BY <2>2, AppendFacts
  <2>4. EcType \subseteq EcType'
    BY <2>3 DEF EcType
  <2> QED
    BY <2>2, <2>4, AppendFacts
<1>2. TypeOK'
  <2>1. hists' \in Seq(HistType')
    <3>1. HistType \subseteq HistType'
      BY <1>1 DEF HistType
    <3>2. hists \in Seq(HistType)
      BY DEF IInv, TypeOK
    <3> QED
      BY <3>1, <3>2, SeqMonotonic
  <2>2. \A s \in sols' :
          /\ s.t \in net'.trans
          /\ s.at \in [net'.pre[s.t] \cup net'.cont[s.t] -> DOMAIN ecs']
    BY <1>1, ExtensionsType DEF Newest
  <2>3. /\ net' \in Nets /\ opt' \in Options
        /\ status' \in {"run", "unsafe", "quit"}
        /\ events' \in Seq(EventType')
        /\ conds' \in Seq(CondType')
        /\ queue' \subseteq DOMAIN hists'
        /\ table' \in Seq(DOMAIN hists')
        /\ cur' \in DOMAIN hists'
        /\ gens' \cup reads' \subseteq DOMAIN conds'
    BY DEF IInv, TypeOK, EventType, CondType
  <2>4. combine' \subseteq DOMAIN ecs'
    BY <1>1
  <2> QED
    BY <1>1, <2>1, <2>2, <2>3, <2>4 DEF TypeOK
<1>3. Causal'
  BY DEF IInv, Causal
<1>4. Linked'
  <2>1. \A h \in DOMAIN hists' :
          \A c \in events'[hists'[h].e].pre \cup events'[hists'[h].e].cont :
            \E g \in hists'[h].ecl : ecs'[g].c = c
    <3>1. \A h \in DOMAIN hists : hists[h].ecl \subseteq DOMAIN ecs
      BY Elements DEF IInv, HistType
    <3> QED
      BY <1>1, <3>1 DEF IInv, Linked
  <2> QED
    BY <2>1 DEF IInv, Linked, EventPost
<1>5. Discipline'
  BY DEF IInv, Discipline
<1>6. BuiltOnNonCutoffs'
  BY DEF IInv, BuiltOnNonCutoffs
<1>7. EcsOfNonCutoffs'
  BY <1>1 DEF IInv, EcsOfNonCutoffs
<1>8. CutoffsOfNonCutoffs'
  BY DEF IInv, CutoffsOfNonCutoffs
<1> QED
  BY <1>2, <1>3, <1>4, <1>5, <1>6, <1>7, <1>8 DEF IInv

(* The enriched condition of a generating or reading condition is well     *)
(* formed; a reading one has an ancestor in the history.                   *)
LEMMA EcOfType ==
  ASSUME IInv, NEW h \in DOMAIN hists,
         NEW c \in EventPost(hists[h].e) \cup events[hists[h].e].cont
  PROVE  /\ EcOf(c, h) \in EcType
         /\ EcOf(c, h).hs = {h}
         /\ c \in events[hists[h].e].cont => EcOf(c, h).r1 # 0
<1>1. hists[h] \in HistType /\ events[hists[h].e] \in EventType
  BY Elements DEF IInv, HistType
<1>2. c \in DOMAIN conds
  BY <1>1 DEF EventPost, EventType
<1>3. CASE conds[c].pre = hists[h].e
  <2>1. c \notin events[hists[h].e].cont
    <3>1. hists[h].e \in DOMAIN events /\ hists[h].e \in Nat
      BY <1>1, Elements DEF IInv, HistType
    <3>2. ~ (conds[c].pre < hists[h].e)
      BY <1>3, <3>1
    <3> QED
      BY <3>1, <3>2 DEF IInv, Causal
  <2> QED
    BY <1>2, <1>3, <2>1 DEF EcOf, EcType
<1>4. CASE conds[c].pre # hists[h].e
  <2> DEFINE g == CHOOSE g \in hists[h].ecl : ecs[g].c = c
  <2>1. c \in events[hists[h].e].cont
    BY <1>4 DEF EventPost
  <2>2. \E x \in hists[h].ecl : ecs[x].c = c
    BY <2>1 DEF IInv, Linked
  <2>3. g \in hists[h].ecl
    BY <2>2
  <2>4. g \in DOMAIN ecs /\ g # 0
    <3> HIDE DEF g
    <3>1. hists[h].ecl \subseteq DOMAIN ecs
      BY <1>1 DEF HistType
    <3>2. DOMAIN ecs = 1..Len(ecs) /\ Len(ecs) \in Nat
      BY Elements DEF IInv
    <3> QED
      BY <2>3, <3>1, <3>2
  <2>5. EcOf(c, h).r1 = g
    BY <1>4 DEF EcOf
  <2> HIDE DEF g
  <2> QED
    BY <1>2, <2>4, <2>5 DEF EcOf, EcType
<1> QED
  BY <1>3, <1>4

LEMMA FiniteEcs ==
  ASSUME TypeOK, NEW S \in SUBSET DOMAIN ecs
  PROVE  Cardinality(S) \in Nat
<1>1. IsFiniteSet(1..Len(ecs)) /\ DOMAIN ecs = 1..Len(ecs)
  BY Elements, FS_Interval
<1> QED
  BY <1>1, FS_Subset, FS_CardinalityType

(* ec_conc relates the new enriched condition to older ones.               *)
LEMMA EnrichType ==
  ASSUME TypeOK, NEW c, NEW h, Enrich(c, h), EcOf(c, h) \in EcType
  PROVE  /\ ecs' = Append(ecs, EcOf(c, h))
         /\ DOMAIN ecs' = DOMAIN ecs \cup {Newest + 1}
         /\ ecs'[Newest + 1] = EcOf(c, h)
         /\ {co', dir', rco'} \subseteq SUBSET ((DOMAIN ecs') \X (DOMAIN ecs'))
         /\ numco' \in Nat
<1> DEFINE r    == Newest + 1
           sib  == Siblings(c, h)
           conc == {rp \in Compatible(h) : ecs[rp].c # c}
           same == {rp \in Compatible(h) : ecs[rp].c = c}
<1>1. ecs' = Append(ecs, EcOf(c, h))
  BY DEF Enrich
<1>2. DOMAIN ecs' = DOMAIN ecs \cup {r} /\ ecs'[r] = EcOf(c, h)
  BY <1>1, AppendFacts DEF TypeOK, Newest
<1>3. sib \subseteq DOMAIN ecs /\ conc \subseteq DOMAIN ecs /\ same \subseteq DOMAIN ecs
  BY DEF Siblings, Compatible, Candidates
<1>4. co' = co \cup Both(r, sib \cup conc)
  BY DEF Enrich
<1>5. dir' = dir \cup Both(r, sib)
                 \cup {<<r, rp>> : rp \in {x \in conc : Bit0(c, h, x)}}
                 \cup {<<rp, r>> : rp \in {x \in conc : Bit1(h, x)}}
  BY DEF Enrich
<1>6. rco' \subseteq rco \cup {<<r, rp>> : rp \in same} \cup {<<rp, r>> : rp \in same}
                     \cup {<<r, r>>}
  BY DEF Enrich
<1>7. numco' = numco + 2 * (Cardinality(sib) + Cardinality(conc))
  BY DEF Enrich
<1>8. numco' \in Nat
  <2>1. Cardinality(sib) \in Nat /\ Cardinality(conc) \in Nat
    BY <1>3, FiniteEcs
  <2>2. numco \in Nat
    BY DEF TypeOK
  <2> HIDE DEF sib, conc
  <2> QED
    BY <1>7, <2>1, <2>2
<1>9. co' \subseteq (DOMAIN ecs') \X (DOMAIN ecs')
  BY <1>2, <1>3, <1>4 DEF TypeOK, Both
<1>10. dir' \subseteq (DOMAIN ecs') \X (DOMAIN ecs')
  BY <1>2, <1>3, <1>5 DEF TypeOK, Both
<1>11. rco' \subseteq (DOMAIN ecs') \X (DOMAIN ecs')
  BY <1>2, <1>3, <1>6 DEF TypeOK
<1> QED
  BY <1>1, <1>2, <1>8, <1>9, <1>10, <1>11

LEMMA UnsafeStopInv ==
  ASSUME IInv, UnsafeStop
  PROVE  IInv'
<1> USE DEF input, prefix, enrich, work
<1>1. UNCHANGED <<input, prefix, enrich, queue, table, work>> /\ status' = "unsafe"
  BY DEF UnsafeStop
<1>2. TypeOK'
  BY <1>1 DEF IInv, TypeOK, EventType, CondType, HistType, EcType
<1>3. Causal' /\ BuiltOnNonCutoffs' /\ EcsOfNonCutoffs' /\ CutoffsOfNonCutoffs'
  BY <1>1 DEF IInv, Causal, BuiltOnNonCutoffs, EcsOfNonCutoffs, CutoffsOfNonCutoffs
<1>4. Linked' /\ Discipline'
  BY <1>1 DEF IInv, Linked, EventPost, Discipline
<1> QED
  BY <1>2, <1>3, <1>4 DEF IInv

LEMMA GenerateInv ==
  ASSUME IInv, NEW c \in gens, Generate(c)
  PROVE  IInv'
<1>1. CASE Unsafe(c, cur)
  BY <1>1, UnsafeStopInv DEF Generate
<1>2. CASE ~ Unsafe(c, cur)
  <2>1. /\ Enrich(c, cur)
        /\ gens' = gens \ {c}
        /\ UNCHANGED <<input, status, prefix, queue, table, cur, reads, reader, combine>>
        /\ sols' = Extensions'
    BY <1>2 DEF Generate
  <2>2. /\ EcOf(c, cur) \in EcType
        /\ EcOf(c, cur).hs = {cur}
    BY EcOfType DEF IInv, TypeOK, Linked
  <2>3. hists[cur].corr = 0
    BY DEF IInv, Discipline
  <2>4. /\ ecs' = Append(ecs, EcOf(c, cur))
        /\ DOMAIN ecs' = DOMAIN ecs \cup {Newest + 1}
        /\ {co', dir', rco'} \subseteq SUBSET ((DOMAIN ecs') \X (DOMAIN ecs'))
        /\ numco' \in Nat
    BY <2>1, <2>2, EnrichType DEF IInv
  <2>5. /\ reader' \in DOMAIN ecs' \cup {0}
        /\ reader' # 0 => ecs'[reader'].r1 # 0
        /\ combine' \subseteq DOMAIN ecs
        /\ combine' # {} => reader' # 0
    <3>1. \A r \in DOMAIN ecs : ecs'[r] = ecs[r]
      BY <2>2, <2>4, AppendFacts DEF IInv, TypeOK
    <3> QED
      BY <2>1, <2>4, <3>1 DEF IInv, TypeOK, Linked
  <2> QED
    BY <2>1, <2>2, <2>3, <2>4, <2>5, EnrichStep
<1> QED
  BY <1>1, <1>2

LEMMA ReadInv ==
  ASSUME IInv, NEW c \in reads, Read(c)
  PROVE  IInv'
<1>1. CASE Unsafe(c, cur)
  BY <1>1, UnsafeStopInv DEF Read
<1>2. CASE ~ Unsafe(c, cur)
  <2>1. /\ Enrich(c, cur)
        /\ reads' = reads \ {c}
        /\ reader' = Newest + 1
        /\ combine' \subseteq Compatible(cur)
        /\ UNCHANGED <<input, status, prefix, queue, table, cur, gens>>
        /\ sols' = Extensions'
    BY <1>2 DEF Read, ToCombine
  <2>2. /\ EcOf(c, cur) \in EcType
        /\ EcOf(c, cur).hs = {cur}
        /\ EcOf(c, cur).r1 # 0
    BY EcOfType DEF IInv, TypeOK, Linked
  <2>3. hists[cur].corr = 0
    BY DEF IInv, Discipline
  <2>4. /\ ecs' = Append(ecs, EcOf(c, cur))
        /\ DOMAIN ecs' = DOMAIN ecs \cup {Newest + 1}
        /\ ecs'[Newest + 1] = EcOf(c, cur)
        /\ {co', dir', rco'} \subseteq SUBSET ((DOMAIN ecs') \X (DOMAIN ecs'))
        /\ numco' \in Nat
    BY <2>1, <2>2, EnrichType DEF IInv
  <2>5. /\ reader' \in DOMAIN ecs' /\ reader' # 0
        /\ ecs'[reader'].r1 # 0
        /\ combine' \subseteq DOMAIN ecs
    BY <2>1, <2>2, <2>4, Elements DEF IInv, Compatible, Candidates, Newest
  <2> QED
    BY <2>1, <2>2, <2>3, <2>4, <2>5, EnrichStep
<1> QED
  BY <1>1, <1>2

LEMMA CombineInv ==
  ASSUME IInv, NEW rp \in combine, Combine(rp)
  PROVE  IInv'
<1> DEFINE r    == Newest + 1
           ec   == EcCompound(reader, rp)
           conc == {x \in DOMAIN ecs : <<reader, x>> \in co /\ <<rp, x>> \in co}
<1>1. /\ EnrichCompound(reader, rp)
      /\ combine' = combine \ {rp}
      /\ UNCHANGED <<input, status, prefix, queue, table, cur, gens, reads, reader>>
      /\ sols' = Extensions'
  BY DEF Combine
<1>2. reader \in DOMAIN ecs /\ reader # 0 /\ rp \in DOMAIN ecs /\ ecs[reader].r1 # 0
  BY DEF IInv, TypeOK, Linked
<1>3. ecs[reader] \in EcType /\ ecs[rp] \in EcType
  BY <1>2, Elements DEF IInv
<1>4. ec \in EcType
  <2>1. \A x \in DOMAIN ecs : Rd(x) \subseteq DOMAIN events
    BY Elements DEF IInv, Rd, IsComp, EcType, HistType
  <2> QED
    BY <1>2, <1>3, <2>1 DEF EcCompound, EcType
<1>5. \A h \in ec.hs : hists[h].corr = 0
  BY <1>2 DEF EcCompound, IInv, EcsOfNonCutoffs
<1>6. ecs' = Append(ecs, ec)
  BY <1>1 DEF EnrichCompound
<1>7. DOMAIN ecs' = DOMAIN ecs \cup {r} /\ \A x \in DOMAIN ecs : ecs'[x] = ecs[x]
  BY <1>4, <1>6, AppendFacts DEF IInv, TypeOK, Newest
<1>8. conc \subseteq DOMAIN ecs
  OBVIOUS
<1>9. co' \subseteq (DOMAIN ecs') \X (DOMAIN ecs')
  <2>1. co' = co \cup Both(r, conc)
    BY <1>1 DEF EnrichCompound
  <2> HIDE DEF conc, r
  <2> QED
    BY <1>7, <1>8, <2>1 DEF IInv, TypeOK, Both
<1>10. dir' \subseteq (DOMAIN ecs') \X (DOMAIN ecs')
  <2>1. dir' \subseteq dir \cup {<<r, x>> : x \in conc} \cup {<<x, r>> : x \in conc}
    BY <1>1 DEF EnrichCompound
  <2> HIDE DEF conc, r
  <2> QED
    BY <1>7, <1>8, <2>1 DEF IInv, TypeOK
<1>11. rco' \subseteq (DOMAIN ecs') \X (DOMAIN ecs')
  <2>1. rco' = rco \cup {<<ecs[reader].r1, r>>}
    BY <1>1 DEF EnrichCompound
  <2>2. ecs[reader].r1 \in DOMAIN ecs
    BY <1>2, <1>3 DEF EcType
  <2> QED
    BY <1>7, <2>1, <2>2 DEF IInv, TypeOK
<1>12. numco' \in Nat
  <2>1. numco' = numco + 2 * Cardinality(conc)
    BY <1>1 DEF EnrichCompound
  <2>2. Cardinality(conc) \in Nat
    BY FiniteEcs DEF IInv
  <2> QED
    BY <2>1, <2>2 DEF IInv, TypeOK
<1>13. /\ combine' \subseteq DOMAIN ecs
       /\ reader' \in DOMAIN ecs' \cup {0}
       /\ ecs'[reader'].r1 # 0
       /\ reader' # 0
  BY <1>1, <1>2, <1>7 DEF IInv, TypeOK
<1> HIDE DEF ec, conc, r
<1> QED
  BY <1>1, <1>4, <1>5, <1>6, <1>9, <1>10, <1>11, <1>12, <1>13, EnrichStep

-----------------------------------------------------------------------------
(* A solution: the enriched conditions it chooses, their conditions and     *)
(* their histories.                                                        *)
LEMMA SolutionFacts ==
  ASSUME IInv, NEW s \in sols
  PROVE  /\ s.t \in net.trans
         /\ net.pre[s.t] \cup net.cont[s.t] = DOMAIN s.at
         /\ Ecl(s) \subseteq DOMAIN ecs
         /\ \A ps \in SUBSET DOMAIN s.at : Chosen(s, ps) \subseteq DOMAIN conds
         /\ \A c \in Chosen(s, DOMAIN s.at) : \E g \in Ecl(s) : ecs[g].c = c
         /\ Nod(s) \subseteq DOMAIN hists /\ Nod(s) # {}
         /\ \A h \in Nod(s) : hists[h].corr = 0
<1>1. s.t \in net.trans /\ s.at \in [net.pre[s.t] \cup net.cont[s.t] -> DOMAIN ecs]
  BY DEF IInv, TypeOK
<1>2. DOMAIN s.at = net.pre[s.t] \cup net.cont[s.t] /\ Ecl(s) \subseteq DOMAIN ecs
  BY <1>1 DEF Ecl
<1>3. Ecl(s) # {}
  <2>1. net.pre[s.t] \cup net.cont[s.t] # {}
    <3>1. Consuming(net)
      BY NetsAssumption DEF IInv, TypeOK
    <3>2. net.pre[s.t] # {}
      BY <1>1, <3>1 DEF Consuming
    <3> QED
      BY <3>2
  <2> QED
    BY <1>2, <2>1 DEF Ecl
<1>4. \A r \in Ecl(s) : /\ ecs[r].c \in DOMAIN conds
                     /\ ecs[r].hs \subseteq DOMAIN hists /\ ecs[r].hs # {}
                     /\ \A h \in ecs[r].hs : hists[h].corr = 0
  BY <1>2, Elements DEF IInv, EcType, EcsOfNonCutoffs
<1>5. \A ps \in SUBSET DOMAIN s.at : Chosen(s, ps) \subseteq DOMAIN conds
  BY <1>4 DEF Chosen, Ecl
<1>6. \A c \in Chosen(s, DOMAIN s.at) : \E g \in Ecl(s) : ecs[g].c = c
  BY DEF Chosen, Ecl
<1>7. Nod(s) \subseteq DOMAIN hists /\ Nod(s) # {} /\ \A h \in Nod(s) : hists[h].corr = 0
  BY <1>3, <1>4 DEF Nod
<1> QED
  BY <1>1, <1>2, <1>5, <1>6, <1>7

(* The event of a solution: an old one or a new one, on conditions that    *)
(* the solution chooses.                                                   *)
LEMMA EventFacts ==
  ASSUME IInv, NEW s \in sols,
         events' = IF InstancesOf(s) = {} THEN Append(events, NewEvent(s)) ELSE events
  PROVE  /\ events' \in Seq(EventType)
         /\ DOMAIN events \subseteq DOMAIN events' /\ EventOf(s) \in DOMAIN events'
         /\ \A x \in DOMAIN events : events'[x] = events[x]
         /\ DOMAIN events' \subseteq DOMAIN events \cup {EventOf(s)}
         /\ events'[EventOf(s)].pre \cup events'[EventOf(s)].cont \subseteq Chosen(s, DOMAIN s.at)
         /\ \A c \in events'[EventOf(s)].pre \cup events'[EventOf(s)].cont : conds[c].pre < EventOf(s)
<1> DEFINE old == InstancesOf(s)
           e   == EventOf(s)
<1>1. /\ s.t \in net.trans
      /\ net.pre[s.t] \cup net.cont[s.t] = DOMAIN s.at
      /\ \A ps \in SUBSET DOMAIN s.at : Chosen(s, ps) \subseteq DOMAIN conds
  BY SolutionFacts
<1>2. /\ events \in Seq(EventType)
      /\ Len(events) \in Nat /\ DOMAIN events = 1..Len(events)
  BY Elements DEF IInv, TypeOK
<1>3. CASE old = {}
  <2>1. NewEvent(s) \in EventType
    BY <1>1 DEF NewEvent, EventType
  <2>2. events' = Append(events, NewEvent(s)) /\ e = Len(events) + 1
    BY <1>3 DEF EventOf
  <2>3. /\ events' \in Seq(EventType)
        /\ DOMAIN events' = DOMAIN events \cup {e}
        /\ \A x \in DOMAIN events : events'[x] = events[x]
        /\ events'[e] = NewEvent(s)
    BY <1>2, <2>1, <2>2, AppendFacts
  <2>4. /\ NewEvent(s).pre \cup NewEvent(s).cont \subseteq Chosen(s, DOMAIN s.at)
        /\ NewEvent(s).pre \cup NewEvent(s).cont \subseteq DOMAIN conds
    BY <1>1 DEF NewEvent, Chosen
  <2>5. \A c \in DOMAIN conds : conds[c].pre < e
    BY <1>2, <2>2, Elements DEF IInv, CondType
  <2> QED
    BY <2>3, <2>4, <2>5
<1>4. CASE old # {}
  <2>1. old \subseteq DOMAIN events
    BY DEF InstancesOf
  <2>2. \E x \in old : \A y \in old : y <= x
    <3>1. old \in SUBSET Nat /\ \A y \in old : y <= Len(events)
      BY <1>2, <2>1
    <3> QED
      BY <1>2, <1>4, <3>1, NatMax
  <2>3. e \in old
    BY <1>4, <2>2 DEF EventOf
  <2>4. events[e].pre \cup events[e].cont \subseteq Chosen(s, DOMAIN s.at)
    <3>1. InstancesOf(s) \subseteq
            {x \in DOMAIN events :
               events[x].pre \cup events[x].cont \subseteq Chosen(s, DOMAIN s.at)}
      BY DEF InstancesOf
    <3> QED
      BY <2>3, <3>1
  <2>5. events' = events /\ e \in DOMAIN events
    BY <1>4, <2>1, <2>3
  <2> QED
    BY <1>2, <2>4, <2>5 DEF IInv, Causal
<1> QED
  BY <1>3, <1>4

(* A new history on non-cutoffs is well formed.                            *)
LEMMA NewHistoryType ==
  ASSUME IInv, NEW s \in sols,
         events' = IF InstancesOf(s) = {} THEN Append(events, NewEvent(s)) ELSE events
  PROVE  /\ NewHistory(events', EventOf(s), Nod(s), Ecl(s)) \in
              [e : DOMAIN events',
               nod : SUBSET (DOMAIN hists \cup {Len(hists) + 1}),
               past : SUBSET (DOMAIN hists \cup {Len(hists) + 1}),
               ecl : SUBSET DOMAIN ecs, depth : 0..(Len(hists) + 1),
               corr : DOMAIN hists \cup {Len(hists) + 1},
               rd : SUBSET DOMAIN events', sd : SUBSET DOMAIN events',
               marking : SUBSET net.places]
         /\ NewHistory(events', EventOf(s), Nod(s), Ecl(s)).e = EventOf(s)
         /\ NewHistory(events', EventOf(s), Nod(s), Ecl(s)).ecl = Ecl(s)
         /\ NewHistory(events', EventOf(s), Nod(s), Ecl(s)).corr = Len(hists) + 1
         /\ NewHistory(events', EventOf(s), Nod(s), Ecl(s)).past =
              {Len(hists) + 1} \cup UNION {hists[x].past : x \in Nod(s)}
<1> DEFINE E   == events'
           e   == EventOf(s)
           nod == Nod(s)
           ecl == Ecl(s)
<1>0. /\ E \in Seq(EventType) /\ e \in DOMAIN E /\ DOMAIN events \subseteq DOMAIN E
      /\ nod \subseteq DOMAIN hists /\ nod # {} /\ ecl \subseteq DOMAIN ecs
  BY EventFacts, SolutionFacts
<1> HIDE DEF E, e, nod, ecl
<1> DEFINE id    == Len(hists) + 1
           past  == {id} \cup UNION {hists[x].past : x \in nod}
           evs   == {e} \cup EventsOf(past \ {id})
           used  == UNION {E[x].pre : x \in evs}
           cut   == {c \in DOMAIN conds : conds[c].pre \in evs /\ c \notin used}
           fresh == IF EventPost(e) = {} THEN net.post[E[e].ft] ELSE {}
           deep  == {hists[x].depth + 1 : x \in nod}
           depth == CHOOSE d \in deep : \A k \in deep : k <= d
           rd    == {x \in evs : E[x].cont \cap cut # {}}
           sd    == {x \in evs : E[x].cont \cap E[e].pre # {}}
           marking == {conds[c].fp : c \in cut} \cup fresh
<1>1. Len(hists) \in Nat /\ DOMAIN hists = 1..Len(hists)
      /\ \A h \in DOMAIN hists : hists[h] \in HistType
  BY Elements DEF IInv
<1>2. past \subseteq DOMAIN hists \cup {id}
  BY <1>0, <1>1 DEF HistType
<1>3. evs \subseteq DOMAIN E
  <2>1. \A h \in DOMAIN hists : hists[h].e \in DOMAIN events
    BY <1>1 DEF HistType
  <2> QED
    BY <1>0, <1>2, <2>1 DEF EventsOf
<1>4. depth \in 0..id
  <2>1. \A x \in nod : hists[x].depth \in 0..Len(hists)
    BY <1>0, <1>1 DEF HistType
  <2>2. deep \in SUBSET Nat /\ deep # {} /\ \A k \in deep : k <= id
    BY <1>0, <1>1, <2>1
  <2>3. \E d \in deep : \A k \in deep : k <= d
    <3>1. id \in Nat
      BY <1>1
    <3> HIDE DEF deep, id
    <3> QED
      BY <2>2, <3>1, NatMax
  <2>4. depth \in deep
    BY <2>3
  <2> HIDE DEF deep, depth
  <2> QED
    BY <1>1, <2>2, <2>4
<1>5. marking \subseteq net.places
  <2>1. \A c \in DOMAIN conds : conds[c].fp \in net.places
    BY Elements DEF IInv, CondType
  <2>2. E[e] \in EventType
    BY <1>0, ElementOfSeq, LenProperties
  <2>3. net.post[E[e].ft] \subseteq net.places
    <3>1. IsNet(net)
      BY NetsAssumption DEF IInv, TypeOK
    <3>2. E[e].ft \in net.trans \cup {T0}
      BY <2>2 DEF EventType
    <3> QED
      BY <3>1, <3>2 DEF IsNet
  <2> QED
    BY <2>1, <2>3
<1>6. NewHistory(E, e, nod, ecl) =
        [e |-> e, nod |-> nod, past |-> past, ecl |-> ecl, depth |-> depth,
         corr |-> id, rd |-> rd, sd |-> sd, marking |-> marking]
  BY DEF NewHistory, Fresh
<1>7. rd \subseteq DOMAIN E /\ sd \subseteq DOMAIN E
  BY <1>3
<1>8. past = {id} \cup UNION {hists[x].past : x \in nod}
  OBVIOUS
<1> HIDE DEF past, evs, used, cut, fresh, deep, depth, rd, sd, marking
<1> QED
  BY <1>0, <1>2, <1>4, <1>5, <1>6, <1>7, <1>8 DEF E, e, nod, ecl

LEMMA SolveInv ==
  ASSUME IInv, NEW s \in sols, Solve(s)
  PROVE  IInv'
<1> DEFINE e   == EventOf(s)
           id  == Len(hists) + 1
           D   == DOMAIN hists \cup {id}
           H   == NewHistory(events', e, Nod(s), Ecl(s))
<1> USE DEF input
<1>1. /\ UNCHANGED <<input, status, conds, enrich, table, cur, gens, reads, reader, combine>>
      /\ sols' = sols \ {s}
      /\ events' = IF InstancesOf(s) = {} THEN Append(events, NewEvent(s)) ELSE events
      /\ hists' = Append(hists, H)
      /\ queue' = queue \cup {id}
  BY DEF Solve
<1>2. /\ Ecl(s) \subseteq DOMAIN ecs
      /\ \A c \in Chosen(s, DOMAIN s.at) : \E g \in Ecl(s) : ecs[g].c = c
      /\ Nod(s) \subseteq DOMAIN hists /\ Nod(s) # {}
      /\ \A h \in Nod(s) : hists[h].corr = 0
  BY SolutionFacts
<1>3. /\ events' \in Seq(EventType)
      /\ DOMAIN events \subseteq DOMAIN events' /\ e \in DOMAIN events'
      /\ \A x \in DOMAIN events : events'[x] = events[x]
      /\ DOMAIN events' \subseteq DOMAIN events \cup {e}
      /\ events'[e].pre \cup events'[e].cont \subseteq Chosen(s, DOMAIN s.at)
      /\ \A c \in events'[e].pre \cup events'[e].cont : conds[c].pre < e
  BY <1>1, EventFacts
<1>4. /\ H \in [e : DOMAIN events', nod : SUBSET D, past : SUBSET D,
                ecl : SUBSET DOMAIN ecs, depth : 0..(Len(hists) + 1),
                corr : D, rd : SUBSET DOMAIN events', sd : SUBSET DOMAIN events',
                marking : SUBSET net.places]
      /\ H.e = e /\ H.ecl = Ecl(s) /\ H.corr = Len(hists) + 1
      /\ H.past = {Len(hists) + 1} \cup UNION {hists[x].past : x \in Nod(s)}
  BY <1>1, NewHistoryType
<1> HIDE DEF e, H
<1>5. /\ Len(hists) \in Nat /\ DOMAIN hists = 1..Len(hists) /\ id \in Nat
      /\ \A h \in DOMAIN hists : hists[h] \in HistType
      /\ hists \in Seq(HistType)
  BY Elements DEF IInv, TypeOK
<1>6. /\ hists' \in Seq(HistType \cup {H})
      /\ Len(hists') = id
      /\ DOMAIN hists' = D
      /\ \A h \in DOMAIN hists : hists'[h] = hists[h]
      /\ hists'[id] = H
  BY <1>1, <1>5, AppendFacts
<1>7. TypeOK'
  <2>1. events' \in Seq(EventType')
    BY <1>1, <1>3 DEF EventType
  <2>2. conds' \in Seq(CondType')
    <3>1. CondType \subseteq CondType'
      BY <1>1, <1>3 DEF CondType
    <3>2. conds \in Seq(CondType)
      BY DEF IInv, TypeOK
    <3> QED
      BY <1>1, <3>1, <3>2, SeqMonotonic
  <2>3. hists' \in Seq(HistType')
    <3>1. HistType \subseteq HistType'
      <4>1. 0..Len(hists) \subseteq 0..Len(hists') /\ DOMAIN hists \subseteq DOMAIN hists'
        BY <1>5, <1>6
      <4>2. ecs' = ecs /\ net' = net
        BY <1>1 DEF enrich
      <4> QED
        BY <1>3, <4>1, <4>2 DEF HistType
    <3>2. H \in HistType'
      <4>1. ecs' = ecs /\ net' = net
        BY <1>1 DEF enrich
      <4> QED
        BY <1>4, <1>6, <4>1 DEF HistType
    <3> QED
      BY <1>6, <3>1, <3>2, SeqMonotonic
  <2>4. ecs' \in Seq(EcType')
    <3>1. EcType \subseteq EcType'
      BY <1>1, <1>3, <1>6 DEF EcType, enrich
    <3>2. ecs \in Seq(EcType)
      BY DEF IInv, TypeOK
    <3> QED
      BY <1>1, <3>1, <3>2, SeqMonotonic DEF enrich
  <2>5. table' \in Seq(DOMAIN hists')
    <3>1. table \in Seq(DOMAIN hists) /\ DOMAIN hists \subseteq DOMAIN hists'
      BY <1>6 DEF IInv, TypeOK
    <3> QED
      BY <1>1, <3>1, SeqMonotonic
  <2>6. queue' \subseteq DOMAIN hists' /\ cur' \in DOMAIN hists'
    BY <1>1, <1>6 DEF IInv, TypeOK
  <2>7. \A x \in sols' :
          /\ x.t \in net'.trans
          /\ x.at \in [net'.pre[x.t] \cup net'.cont[x.t] -> DOMAIN ecs']
    BY <1>1 DEF IInv, TypeOK, enrich
  <2>8. /\ net' \in Nets /\ opt' \in Options
        /\ status' \in {"run", "unsafe", "quit"}
        /\ {co', dir', rco'} \subseteq SUBSET ((DOMAIN ecs') \X (DOMAIN ecs'))
        /\ gens' \cup reads' \subseteq DOMAIN conds'
        /\ reader' \in DOMAIN ecs' \cup {0}
        /\ combine' \subseteq DOMAIN ecs'
        /\ numco' \in Nat
    BY <1>1 DEF IInv, TypeOK, enrich
  <2> QED
    BY <2>1, <2>2, <2>3, <2>4, <2>5, <2>6, <2>7, <2>8 DEF TypeOK
<1>8. Causal'
  BY <1>1, <1>3 DEF IInv, Causal
<1>9. Linked'
  <2>1. \A h \in DOMAIN hists' :
          \A c \in events'[hists'[h].e].pre \cup events'[hists'[h].e].cont :
            \E g \in hists'[h].ecl : ecs'[g].c = c
    <3> SUFFICES ASSUME NEW h \in DOMAIN hists',
                        NEW c \in events'[hists'[h].e].pre \cup events'[hists'[h].e].cont
                 PROVE  \E g \in hists'[h].ecl : ecs'[g].c = c
      OBVIOUS
    <3>1. CASE h = id
      BY <1>1, <1>2, <1>3, <1>4, <1>6, <3>1 DEF enrich
    <3>2. CASE h \in DOMAIN hists
      <4>1. hists'[h] = hists[h] /\ hists[h].e \in DOMAIN events
        BY <1>5, <1>6, <3>2 DEF HistType
      <4>2. events'[hists'[h].e] = events[hists[h].e]
        BY <1>3, <4>1
      <4> QED
        BY <1>1, <3>2, <4>1, <4>2 DEF IInv, Linked, enrich
    <3> QED
      BY <1>6, <3>1, <3>2
  <2>2. hists'[cur'] = hists[cur] /\ hists[cur].e \in DOMAIN events
    BY <1>1, <1>5, <1>6 DEF IInv, TypeOK, HistType
  <2>3. events'[hists'[cur'].e] = events[hists[cur].e]
    BY <1>3, <2>2
  <2> QED
    BY <1>1, <2>1, <2>2, <2>3 DEF IInv, Linked, EventPost, enrich
<1>10. Discipline'
  <2>1. \A h \in queue' : hists'[h].corr = h
    BY <1>1, <1>4, <1>6 DEF IInv, TypeOK, Discipline
  <2>2. \A i \in DOMAIN table' : hists'[table'[i]].corr = 0
    BY <1>1, <1>6, Elements DEF IInv, Discipline
  <2>3. gens' \cup reads' # {} => hists'[cur'].corr = 0
    BY <1>1, <1>6 DEF IInv, TypeOK, Discipline
  <2> QED
    BY <2>1, <2>2, <2>3 DEF Discipline
<1>11. BuiltOnNonCutoffs'
  <2> SUFFICES ASSUME NEW h \in DOMAIN hists', NEW x \in hists'[h].past \ {h}
               PROVE  hists'[x].corr = 0
    BY DEF BuiltOnNonCutoffs
  <2>1. \A y \in DOMAIN hists : hists[y].past \subseteq DOMAIN hists
    BY <1>5 DEF HistType
  <2>2. CASE h = id
    <3>1. PICK y \in Nod(s) : x \in hists[y].past
      BY <1>4, <1>6, <2>2
    <3>2. y \in DOMAIN hists /\ x \in DOMAIN hists
      BY <1>2, <2>1, <3>1
    <3> QED
      BY <1>2, <1>6, <3>1, <3>2 DEF IInv, BuiltOnNonCutoffs
  <2>3. CASE h \in DOMAIN hists
    BY <1>6, <2>1, <2>3 DEF IInv, BuiltOnNonCutoffs
  <2> QED
    BY <1>6, <2>2, <2>3
<1>12. EcsOfNonCutoffs'
  <2>1. \A r \in DOMAIN ecs : ecs[r].hs \subseteq DOMAIN hists
    BY Elements DEF IInv, EcType
  <2> QED
    BY <1>1, <1>6, <2>1 DEF IInv, EcsOfNonCutoffs, enrich
<1>13. CutoffsOfNonCutoffs'
  <2>1. \A h \in DOMAIN hists : hists[h].corr \in DOMAIN hists \cup {0}
    BY <1>5 DEF HistType
  <2> QED
    BY <1>4, <1>6, <2>1 DEF IInv, CutoffsOfNonCutoffs
<1> QED
  BY <1>7, <1>8, <1>9, <1>10, <1>11, <1>12, <1>13 DEF IInv

-----------------------------------------------------------------------------
(* SetToSeq enumerates a finite set.                                       *)
LEMMA SetToSeqType ==
  ASSUME NEW S, IsFiniteSet(S)
  PROVE  SetToSeq(S) \in [1..Cardinality(S) -> S] /\ Cardinality(S) \in Nat
<1>1. ExistsBijection(1..Cardinality(S), S) /\ Cardinality(S) \in Nat
  BY FS_CardinalityType
<1>2. \E f \in [1..Cardinality(S) -> S] : IsInjective(f)
  BY <1>1 DEF ExistsBijection, Bijection, Injection, IsInjective
<1> QED
  BY <1>1, <1>2 DEF SetToSeq

(* The net of a state and the places a transition fills.                   *)
LEMMA NetFacts ==
  ASSUME net \in Nets
  PROVE  /\ IsNet(net)
         /\ \A t \in net.trans \cup {T0} : /\ net.post[t] \subseteq net.places
                                         /\ IsFiniteSet(net.post[t])
<1>1. IsNet(net) /\ IsFiniteSet(net.places)
  BY NetsAssumption
<1>2. \A t \in net.trans \cup {T0} : net.post[t] \subseteq net.places
  BY <1>1 DEF IsNet
<1> QED
  BY <1>1, <1>2, FS_Subset

LEMMA PostsetType ==
  ASSUME TypeOK, NEW e \in DOMAIN events
  PROVE  /\ Postset(e) \in Seq(CondType)
         /\ DOMAIN conds \subseteq DOMAIN Postset(e)
         /\ \A c \in DOMAIN conds : Postset(e)[c] = conds[c]
<1> DEFINE ps  == net.post[events[e].ft]
           new == SetToSeq(ps)
           add == [i \in DOMAIN new |-> [pre |-> e, fp |-> new[i]]]
<1>1. events[e].ft \in net.trans \cup {T0}
  BY Elements DEF EventType
<1>2. ps \subseteq net.places /\ IsFiniteSet(ps)
  BY <1>1, NetFacts DEF TypeOK
<1>3. new \in [1..Cardinality(ps) -> ps] /\ Cardinality(ps) \in Nat
  BY <1>2, SetToSeqType
<1>4. conds \in Seq(CondType)
  BY DEF TypeOK
<1>5. Postset(e) = conds \/ Postset(e) = conds \o add
  BY DEF Postset
<1> HIDE DEF ps, new
<1>6. add \in [1..Cardinality(ps) -> CondType]
  BY <1>2, <1>3 DEF CondType
<1>7. add \in Seq(CondType)
  BY <1>3, <1>6, SeqDef
<1> HIDE DEF add
<1>8. /\ conds \o add \in Seq(CondType)
      /\ Len(conds \o add) = Len(conds) + Len(add)
      /\ \A i \in 1..(Len(conds) + Len(add)) :
           (conds \o add)[i] = IF i <= Len(conds) THEN conds[i] ELSE add[i - Len(conds)]
  BY <1>4, <1>7, ConcatProperties
<1>9. Len(conds) \in Nat /\ Len(add) \in Nat /\ DOMAIN conds = 1..Len(conds)
      /\ DOMAIN (conds \o add) = 1..(Len(conds) + Len(add))
  BY <1>4, <1>7, <1>8, LenProperties
<1>10. DOMAIN conds \subseteq DOMAIN (conds \o add)
  BY <1>9
<1>11. \A c \in DOMAIN conds : (conds \o add)[c] = conds[c]
  BY <1>8, <1>9
<1> QED
  BY <1>4, <1>5, <1>8, <1>10, <1>11

(* marking_add compares with a history of the table.                       *)
LEMMA CorrespondingFacts ==
  ASSUME IInv, NEW h \in DOMAIN hists, IsCutoff(h)
  PROVE  Corresponding(h) \in DOMAIN hists /\ hists[Corresponding(h)].corr = 0
<1> DEFINE S == SameMarking(h)
           i == CHOOSE i \in S : \A j \in S : i <= j
<1>1. S # {} /\ S \subseteq DOMAIN table /\ S \in SUBSET Nat
  BY Elements DEF IsCutoff, SameMarking, IInv
<1>2. \E k \in S : \A j \in S : k <= j
  BY <1>1, NatMin
<1>3. i \in S
  BY <1>2
<1>4. Corresponding(h) = table[i]
  BY DEF Corresponding
<1> HIDE DEF S, i
<1> QED
  BY <1>1, <1>3, <1>4, Elements DEF IInv, Discipline

LEMMA AddInv ==
  ASSUME IInv, Idle, NEW h \in queue, Add(h)
  PROVE  IInv'
<1> DEFINE e == hists[h].e
<1> USE DEF input, enrich
<1>1. /\ queue' = queue \ {h}
      /\ cur' = h
      /\ conds' = Postset(e)
      /\ reader' = 0
      /\ UNCHANGED <<input, status, enrich, combine, sols>>
  BY DEF Add
<1>2. /\ Len(hists) \in Nat /\ DOMAIN hists = 1..Len(hists)
      /\ \A x \in DOMAIN hists : hists[x] \in HistType
      /\ hists \in Seq(HistType)
      /\ h \in DOMAIN hists
  BY Elements DEF IInv, TypeOK
<1>3. hists[h] \in HistType /\ e \in DOMAIN events
  BY <1>2 DEF HistType
<1>4. hists[h].corr # 0
  BY <1>2 DEF IInv, Discipline
<1>5. /\ conds' \in Seq(CondType)
      /\ DOMAIN conds \subseteq DOMAIN conds'
      /\ \A c \in DOMAIN conds : conds'[c] = conds[c]
  BY <1>1, <1>3, PostsetType DEF IInv
(* What happens to the history, and to the rest when it is no cutoff.      *)
<1>6. /\ DOMAIN hists' = DOMAIN hists
      /\ \A x \in DOMAIN hists \ {h} : hists'[x] = hists[x]
      /\ hists'[h] \in HistType
      /\ hists'[h].e = e /\ hists'[h].past = hists[h].past /\ hists'[h].ecl = hists[h].ecl
  <2>1. CASE IsCutoff(h)
    <3>1. hists' = [hists EXCEPT ![h].corr = Corresponding(h), ![h].marking = {}]
      BY <2>1 DEF Add
    <3>2. Corresponding(h) \in DOMAIN hists
      BY <1>2, <2>1, CorrespondingFacts
    <3> QED
      BY <1>2, <1>3, <3>1, <3>2 DEF HistType
  <2>2. CASE ~ IsCutoff(h)
    <3>1. hists' = [hists EXCEPT ![h].corr = 0]
      BY <2>2 DEF Add
    <3> QED
      BY <1>2, <1>3, <3>1 DEF HistType
  <2> QED
    BY <2>1, <2>2
<1>7. \/ hists'[h].corr = 0
      \/ /\ hists'[h].corr \in DOMAIN hists \ {h}
         /\ hists[hists'[h].corr].corr = 0
  <2>1. CASE IsCutoff(h)
    <3>1. hists' = [hists EXCEPT ![h].corr = Corresponding(h), ![h].marking = {}]
      BY <2>1 DEF Add
    <3>2. hists'[h].corr = Corresponding(h)
      BY <1>2, <1>3, <3>1 DEF HistType
    <3> QED
      BY <1>2, <1>4, <2>1, <3>2, CorrespondingFacts
  <2>2. CASE ~ IsCutoff(h)
    BY <1>2, <1>3, <2>2 DEF Add, HistType
  <2> QED
    BY <2>1, <2>2
<1>8. /\ events' \in Seq(EventType)
      /\ DOMAIN events' = DOMAIN events
      /\ \A x \in DOMAIN events : /\ events'[x].pre = events[x].pre
                                 /\ events'[x].cont = events[x].cont
  <2>1. events' = events \/ events' = [events EXCEPT ![e].iscutoff = FALSE]
    BY DEF Add, EventsAfter, e
  <2>2. events \in Seq(EventType) /\ \A x \in DOMAIN events : events[x] \in EventType
    BY Elements DEF IInv, TypeOK
  <2>3. [events[e] EXCEPT !.iscutoff = FALSE] \in EventType
    BY <1>3, <2>2 DEF EventType
  <2>4. [events EXCEPT ![e].iscutoff = FALSE] = [events EXCEPT ![e] = [events[e] EXCEPT !.iscutoff = FALSE]]
    OBVIOUS
  <2>5. [events EXCEPT ![e].iscutoff = FALSE] \in Seq(EventType)
    BY <1>3, <2>2, <2>3, <2>4, LenProperties, ExceptSeq
  <2>6. \A x \in DOMAIN events :
          LET y == [events EXCEPT ![e].iscutoff = FALSE][x]
          IN  y.pre = events[x].pre /\ y.cont = events[x].cont
    BY <2>2 DEF EventType
  <2>7. CASE events' = events
    BY <2>2, <2>7
  <2>8. CASE events' = [events EXCEPT ![e].iscutoff = FALSE]
    BY <2>5, <2>6, <2>8
  <2> QED
    BY <2>1, <2>7, <2>8
<1>9. /\ table' \in Seq(DOMAIN hists)
      /\ \A i \in DOMAIN table' : hists'[table'[i]].corr = 0
  <2>1. table \in Seq(DOMAIN hists) /\ \A i \in DOMAIN table : hists[table[i]].corr = 0
                                                     /\ table[i] \in DOMAIN hists
    BY Elements DEF IInv, TypeOK, Discipline
  <2>2. \A i \in DOMAIN table : hists'[table[i]].corr = 0
    BY <1>4, <1>6, <2>1
  <2>3. CASE table' = table
    BY <2>1, <2>2, <2>3
  <2>4. CASE table' = <<h>> \o table /\ hists'[h].corr = 0
    <3>1. <<h>> \in Seq(DOMAIN hists) /\ Len(<<h>>) = 1 /\ <<h>>[1] = h
      BY <1>2
    <3>2. /\ table' \in Seq(DOMAIN hists)
          /\ Len(table') = 1 + Len(table)
          /\ \A i \in 1..(1 + Len(table)) :
               table'[i] = IF i <= 1 THEN <<h>>[i] ELSE table[i - 1]
      BY <2>1, <2>4, <3>1, ConcatProperties
    <3>3. DOMAIN table' = 1..(1 + Len(table)) /\ DOMAIN table = 1..Len(table)
          /\ Len(table) \in Nat
      BY <2>1, <3>2, LenProperties
    <3> SUFFICES ASSUME NEW i \in DOMAIN table'
                 PROVE  hists'[table'[i]].corr = 0
      BY <3>2
    <3>4. CASE i = 1
      BY <2>4, <3>1, <3>2, <3>3, <3>4
    <3>5. CASE i # 1
      <4>1. i - 1 \in DOMAIN table /\ table'[i] = table[i - 1]
        BY <3>2, <3>3, <3>5
      <4> QED
        BY <2>2, <4>1
    <3> QED
      BY <3>4, <3>5
  <2>5. table' = table \/ (table' = <<h>> \o table /\ hists'[h].corr = 0)
    <3>1. CASE IsCutoff(h)
      BY <3>1 DEF Add, TableAfter
    <3>2. CASE ~ IsCutoff(h)
      <4>1. hists'[h].corr = 0
        BY <1>2, <1>3, <3>2 DEF Add, HistType
      <4> QED
        BY <3>2, <4>1 DEF Add, TableAfter
    <3> QED
      BY <3>1, <3>2
  <2> QED
    BY <2>3, <2>4, <2>5
<1>10. /\ gens' \subseteq {c \in DOMAIN conds' : conds'[c].pre = e}
       /\ reads' \subseteq events[e].cont
       /\ gens' \cup reads' # {} => hists'[h].corr = 0
  <2>1. gens = {} /\ reads = {}
    BY DEF Idle
  <2>2. CASE IsCutoff(h)
    BY <2>1, <2>2 DEF Add, Skip
  <2>3. CASE ~ IsCutoff(h)
    <3>1. hists'[h].corr = 0
      BY <1>2, <1>3, <2>3 DEF Add, HistType
    <3> QED
      BY <2>3, <3>1 DEF Add, GensOf, ReadsOf, e
  <2> QED
    BY <2>2, <2>3
<1> HIDE DEF e
<1>11. TypeOK'
  <2>1. events' \in Seq(EventType')
    <3>1. EventType \subseteq EventType'
      BY <1>1, <1>5 DEF EventType
    <3> QED
      BY <1>8, <3>1, SeqMonotonic
  <2>2. conds' \in Seq(CondType')
    BY <1>1, <1>5, <1>8 DEF CondType
  <2>3. hists' \in Seq(HistType')
    <3>1. hists' \in [1..Len(hists) -> HistType]
      <4>1. \A x \in 1..Len(hists) : hists'[x] \in HistType
        BY <1>2, <1>6
      <4>2. hists' = [x \in 1..Len(hists) |-> hists'[x]]
        <5>1. CASE IsCutoff(h)
          BY <1>2, <5>1 DEF Add
        <5>2. CASE ~ IsCutoff(h)
          BY <1>2, <5>2 DEF Add
        <5> QED
          BY <5>1, <5>2
      <4> QED
        BY <4>1, <4>2
    <3>2. hists' \in Seq(HistType) /\ Len(hists') = Len(hists)
      BY <1>2, <3>1, SeqDef, LenProperties
    <3>3. HistType = HistType'
      BY <1>1, <1>6, <1>8, <3>2 DEF HistType
    <3> QED
      BY <3>2, <3>3
  <2>4. ecs' \in Seq(EcType')
    <3>1. EcType \subseteq EcType'
      BY <1>1, <1>5, <1>6, <1>8 DEF EcType
    <3>2. ecs \in Seq(EcType)
      BY DEF IInv, TypeOK
    <3> QED
      BY <1>1, <3>1, <3>2, SeqMonotonic
  <2>5. table' \in Seq(DOMAIN hists')
    BY <1>6, <1>9
  <2>6. queue' \subseteq DOMAIN hists' /\ cur' \in DOMAIN hists'
    BY <1>1, <1>2, <1>6 DEF IInv, TypeOK
  <2>7. gens' \cup reads' \subseteq DOMAIN conds'
    <3>1. events[e].cont \subseteq DOMAIN conds
      BY <1>3, Elements DEF IInv, EventType, e
    <3> QED
      BY <1>5, <1>10, <3>1
  <2>8. /\ net' \in Nets /\ opt' \in Options
        /\ status' \in {"run", "unsafe", "quit"}
        /\ {co', dir', rco'} \subseteq SUBSET ((DOMAIN ecs') \X (DOMAIN ecs'))
        /\ reader' \in DOMAIN ecs' \cup {0}
        /\ combine' \subseteq DOMAIN ecs'
        /\ numco' \in Nat
    BY <1>1 DEF IInv, TypeOK
  <2>9. \A s \in sols' :
          /\ s.t \in net'.trans
          /\ s.at \in [net'.pre[s.t] \cup net'.cont[s.t] -> DOMAIN ecs']
    BY <1>1 DEF IInv, TypeOK
  <2> QED
    BY <2>1, <2>2, <2>3, <2>4, <2>5, <2>6, <2>7, <2>8, <2>9 DEF TypeOK
<1>12. Causal'
  <2>1. \A x \in DOMAIN events : events[x].pre \cup events[x].cont \subseteq DOMAIN conds
    BY Elements DEF IInv, EventType
  <2> QED
    BY <1>5, <1>8, <2>1 DEF IInv, Causal
<1>13. Linked'
  <2>1. \A x \in DOMAIN hists : /\ hists'[x].e = hists[x].e /\ hists'[x].ecl = hists[x].ecl
                               /\ hists[x].e \in DOMAIN events
    BY <1>2, <1>6 DEF HistType, e
  <2>2. \A x \in DOMAIN hists' :
          \A c \in events'[hists'[x].e].pre \cup events'[hists'[x].e].cont :
            \E g \in hists'[x].ecl : ecs'[g].c = c
    BY <1>1, <1>6, <1>8, <2>1 DEF IInv, Linked
  <2>3. combine' = {}
    BY <1>1 DEF Idle
  <2> QED
    BY <1>1, <1>3, <1>6, <1>8, <1>10, <2>2, <2>3 DEF Linked, EventPost
<1>14. Discipline'
  BY <1>1, <1>2, <1>6, <1>9, <1>10 DEF IInv, TypeOK, Discipline
<1>15. BuiltOnNonCutoffs'
  <2>1. \A y \in DOMAIN hists : hists'[y].past = hists[y].past /\ hists[y].past \subseteq DOMAIN hists
    BY <1>2, <1>6 DEF HistType
  <2> QED
    BY <1>4, <1>6, <2>1 DEF IInv, BuiltOnNonCutoffs
<1>16. EcsOfNonCutoffs'
  <2>1. \A r \in DOMAIN ecs : ecs[r].hs \subseteq DOMAIN hists
    BY Elements DEF IInv, EcType
  <2> QED
    BY <1>1, <1>4, <1>6, <2>1 DEF IInv, EcsOfNonCutoffs
<1>17. CutoffsOfNonCutoffs'
  <2> SUFFICES ASSUME NEW x \in DOMAIN hists', hists'[x].corr \notin {0, x}
               PROVE  hists'[hists'[x].corr].corr = 0
    BY DEF CutoffsOfNonCutoffs
  <2>1. CASE x = h
    BY <1>6, <1>7, <2>1
  <2>2. CASE x # h
    <3>1. hists'[x] = hists[x] /\ hists[x].corr \in DOMAIN hists
      BY <1>2, <1>6, <2>2 DEF HistType
    <3>2. hists[hists[x].corr].corr = 0
      BY <1>6, <2>2, <3>1 DEF IInv, CutoffsOfNonCutoffs
    <3> QED
      BY <1>4, <1>6, <3>1, <3>2
  <2> QED
    BY <2>1, <2>2
<1> QED
  BY <1>11, <1>12, <1>13, <1>14, <1>15, <1>16, <1>17 DEF IInv

-----------------------------------------------------------------------------
LEMMA InitInv == Init => IInv
<1> SUFFICES ASSUME Init PROVE IInv
  OBVIOUS
<1> DEFINE m0 == SetToSeq(net.post[T0])
<1>1. net \in Nets /\ opt \in Options
  BY DEF Init
<1>2. /\ net.pre[T0] = {} /\ T0 \in net.trans \cup {T0}
      /\ net.post[T0] \subseteq net.places /\ IsFiniteSet(net.post[T0])
  BY <1>1, NetFacts DEF IsNet
<1>3. m0 \in [1..Cardinality(net.post[T0]) -> net.post[T0]]
      /\ Cardinality(net.post[T0]) \in Nat
  BY <1>2, SetToSeqType
<1>4. conds = [i \in DOMAIN m0 |-> [pre |-> 1, fp |-> m0[i]]]
  BY DEF Init
<1> HIDE DEF m0
<1>5. events = <<[ft |-> T0, pre |-> {}, cont |-> {}, iscutoff |-> FALSE]>>
  BY DEF Init
<1>6. DOMAIN events = {1} /\ events[1].pre = {} /\ events[1].cont = {}
  BY <1>5
<1>7. conds \in Seq(CondType)
  <2>1. conds \in [1..Cardinality(net.post[T0]) -> CondType]
    BY <1>2, <1>3, <1>4, <1>6 DEF CondType
  <2> QED
    BY <1>3, <2>1, SeqDef
<1>8. events \in Seq(EventType)
  BY <1>5 DEF EventType
<1>9. /\ Len(hists) = 1 /\ DOMAIN hists = {1}
      /\ hists[1] = [e |-> 1, nod |-> {}, past |-> {1}, ecl |-> {}, depth |-> 0,
                     corr |-> 0, rd |-> {}, sd |-> {}, marking |-> net.post[T0]]
      /\ hists = <<hists[1]>>
  BY DEF Init
<1>10. hists \in Seq(HistType)
  <2>1. hists[1] \in HistType
    BY <1>2, <1>6, <1>9 DEF HistType
  <2>2. <<hists[1]>> \in Seq(HistType)
    BY <2>1
  <2> QED
    BY <1>9, <2>2
<1>11. /\ ecs = <<>> /\ co = {} /\ dir = {} /\ rco = {} /\ numco = 0
       /\ queue = {} /\ cur = 1 /\ reads = {} /\ reader = 0 /\ combine = {} /\ sols = {}
       /\ status = "run"
  BY DEF Init
<1>12. ecs \in Seq(EcType) /\ DOMAIN ecs = {}
  BY <1>11, EmptySeq
<1>13. table \in Seq(DOMAIN hists) /\ \A i \in DOMAIN table : table[i] = 1
  <2>1. table = <<>> \/ table = <<1>>
    BY DEF Init
  <2>2. CASE table = <<>>
    BY <2>2
  <2>3. CASE table = <<1>>
    <3>1. table \in Seq({1}) /\ \A i \in DOMAIN table : table[i] = 1
      BY <2>3
    <3> QED
      BY <1>9, <3>1
  <2> QED
    BY <2>1, <2>2, <2>3
<1>14. gens \subseteq EventPost(1)
  BY DEF Init, GensOf, EventPost
<1>15. TypeOK
  BY <1>1, <1>7, <1>8, <1>9, <1>10, <1>11, <1>12, <1>13, <1>14 DEF TypeOK, EventPost
<1>16. Causal
  BY <1>6 DEF Causal
<1>17. Linked
  BY <1>6, <1>9, <1>11, <1>14 DEF Linked
<1>18. Discipline /\ BuiltOnNonCutoffs /\ EcsOfNonCutoffs /\ CutoffsOfNonCutoffs
  BY <1>9, <1>11, <1>12, <1>13
     DEF Discipline, BuiltOnNonCutoffs, EcsOfNonCutoffs, CutoffsOfNonCutoffs
<1> QED
  BY <1>15, <1>16, <1>17, <1>18 DEF IInv

LEMMA NextInv == IInv /\ [Next]_vars => IInv'
<1> SUFFICES ASSUME IInv, [Next]_vars PROVE IInv'
  OBVIOUS
<1>1. ASSUME NEW s \in sols, Solve(s) PROVE IInv'
  BY <1>1, SolveInv
<1>2. ASSUME NEW c \in gens, Generate(c) PROVE IInv'
  BY <1>2, GenerateInv
<1>3. ASSUME NEW c \in reads, Read(c) PROVE IInv'
  BY <1>3, ReadInv
<1>4. ASSUME NEW rp \in combine, Combine(rp) PROVE IInv'
  BY <1>4, CombineInv
<1>5. ASSUME NEW h \in queue, Pop(h) \/ Pick(h) PROVE IInv'
  BY <1>5, AddInv DEF Pop, Pick
<1>6. CASE Quit \/ UNCHANGED vars
  <2>1. UNCHANGED <<input, prefix, enrich, queue, table, work>>
        /\ status' \in {status, "quit"}
    BY <1>6 DEF Quit, vars
  <2> USE DEF input, prefix, enrich, work
  <2>2. TypeOK'
    BY <2>1 DEF IInv, TypeOK, EventType, CondType, HistType, EcType
  <2>3. Causal' /\ BuiltOnNonCutoffs' /\ EcsOfNonCutoffs' /\ CutoffsOfNonCutoffs'
    BY <2>1 DEF IInv, Causal, BuiltOnNonCutoffs, EcsOfNonCutoffs, CutoffsOfNonCutoffs
  <2>4. Linked' /\ Discipline'
    BY <2>1 DEF IInv, Linked, EventPost, Discipline
  <2> QED
    BY <2>2, <2>3, <2>4 DEF IInv
<1> QED
  BY <1>1, <1>2, <1>3, <1>4, <1>5, <1>6 DEF Next

(* The inductive invariant of the unfolder.                                *)
THEOREM Invariant == Spec => []IInv
BY InitInv, NextInv, PTL DEF Spec

(* Every variable keeps its type: links only ever lead to events,          *)
(* conditions, histories and enriched conditions that were allocated.      *)
THEOREM TypeCorrect == Spec => []TypeOK
BY Invariant, PTL DEF IInv

(* The assertion of h_add, transitively: no history stands on a cutoff or  *)
(* on one still in the queue, ...                                          *)
THEOREM HistoriesBuiltOnNonCutoffs == Spec => []BuiltOnNonCutoffs
BY Invariant, PTL DEF IInv

(* ... nor does an enriched condition, ...                                 *)
THEOREM EcsBuiltOnNonCutoffs == Spec => []EcsOfNonCutoffs
BY Invariant, PTL DEF IInv

(* ... and the corresponding history of a cutoff is not a cutoff.          *)
THEOREM CorrespondingNonCutoffs == Spec => []CutoffsOfNonCutoffs
BY Invariant, PTL DEF IInv
-----------------------------------------------------------------------------
(* What the prefix of the unfolder is made of: its labels, histories, the  *)
(* mark of a cutoff, quotas and the size of the concurrency relation.      *)

(* The three kinds of steps: the ones that leave all but status alone, the *)
(* ones that append an enriched condition of the current history, and those *)
(* of Solve and Add.                                                       *)
Still == UNCHANGED <<input, prefix, enrich, queue, table, work>>

Enriches(ec) ==
  /\ UNCHANGED <<input, prefix, queue, table, cur>>
  /\ ec \in EcType
  /\ ecs' = Append(ecs, ec)
  /\ gens' \subseteq gens /\ reads' \subseteq reads
  /\ sols' = Extensions'

Pops(h) ==
  /\ Idle
  /\ Add(h)
  /\ ~ opt.interactive => Minimal(h)

LEMMA GenerateCases ==
  ASSUME IInv, NEW c \in gens, Generate(c), ~ Still
  PROVE  /\ Enriches(EcOf(c, cur)) /\ Enrich(c, cur)
         /\ EcOf(c, cur).hs = {cur}
         /\ gens' = gens \ {c} /\ UNCHANGED <<reads, reader, combine>>
<1>1. CASE Unsafe(c, cur)
  BY <1>1 DEF Generate, UnsafeStop, Still
<1>2. CASE ~ Unsafe(c, cur)
  <2>1. /\ Enrich(c, cur)
        /\ gens' = gens \ {c}
        /\ UNCHANGED <<input, status, prefix, queue, table, cur, reads, reader, combine>>
        /\ sols' = Extensions'
    BY <1>2 DEF Generate
  <2>2. EcOf(c, cur) \in EcType /\ EcOf(c, cur).hs = {cur}
    BY EcOfType DEF IInv, TypeOK, Linked
  <2>3. ecs' = Append(ecs, EcOf(c, cur))
    BY <2>1, <2>2, EnrichType DEF IInv
  <2> QED
    BY <2>1, <2>2, <2>3 DEF Enriches
<1> QED
  BY <1>1, <1>2

LEMMA ReadCases ==
  ASSUME IInv, NEW c \in reads, Read(c), ~ Still
  PROVE  /\ Enriches(EcOf(c, cur)) /\ Enrich(c, cur)
         /\ EcOf(c, cur).hs = {cur}
         /\ gens = {} /\ gens' = {} /\ reads' = reads \ {c} /\ reader' = Newest + 1
         /\ combine' = ToCombine(c, cur)
<1>1. CASE Unsafe(c, cur)
  BY <1>1 DEF Read, UnsafeStop, Still
<1>2. CASE ~ Unsafe(c, cur)
  <2>1. /\ Enrich(c, cur)
        /\ gens = {}
        /\ reads' = reads \ {c}
        /\ reader' = Newest + 1
        /\ combine' = ToCombine(c, cur)
        /\ UNCHANGED <<input, status, prefix, queue, table, cur, gens>>
        /\ sols' = Extensions'
    BY <1>2 DEF Read
  <2>2. EcOf(c, cur) \in EcType /\ EcOf(c, cur).hs = {cur}
    BY EcOfType DEF IInv, TypeOK, Linked
  <2>3. ecs' = Append(ecs, EcOf(c, cur))
    BY <2>1, <2>2, EnrichType DEF IInv
  <2> QED
    BY <2>1, <2>2, <2>3 DEF Enriches
<1> QED
  BY <1>1, <1>2

LEMMA CombineCases ==
  ASSUME IInv, NEW rp \in combine, Combine(rp)
  PROVE  /\ Enriches(EcCompound(reader, rp)) /\ EnrichCompound(reader, rp)
         /\ reader \in DOMAIN ecs /\ rp \in DOMAIN ecs
         /\ gens = {} /\ gens' = {} /\ combine' = combine \ {rp}
         /\ UNCHANGED <<reads, reader>>
<1>1. /\ EnrichCompound(reader, rp)
      /\ gens = {} /\ combine' = combine \ {rp}
      /\ UNCHANGED <<input, status, prefix, queue, table, cur, gens, reads, reader>>
      /\ sols' = Extensions'
  BY DEF Combine
<1>2. reader \in DOMAIN ecs /\ reader # 0 /\ rp \in DOMAIN ecs
  BY DEF IInv, TypeOK, Linked
<1>3. ecs[reader] \in EcType /\ ecs[rp] \in EcType
  BY <1>2, Elements DEF IInv
<1>4. \A x \in DOMAIN ecs : Rd(x) \subseteq DOMAIN events
  BY Elements DEF IInv, Rd, IsComp, EcType, HistType
<1>5. EcCompound(reader, rp) \in EcType
  BY <1>2, <1>3, <1>4 DEF EcCompound, EcType
<1>6. ecs' = Append(ecs, EcCompound(reader, rp))
  BY <1>1 DEF EnrichCompound
<1> QED
  BY <1>1, <1>2, <1>5, <1>6 DEF Enriches

(* Every step is of one of these kinds.                                    *)
LEMMA StepCases ==
  ASSUME IInv, [Next]_vars
  PROVE  \/ Still
         \/ \E ec : Enriches(ec)
         \/ \E s \in sols : Solve(s)
         \/ \E h \in queue : Pops(h)
<1>1. ASSUME NEW c \in gens, Generate(c) PROVE Still \/ \E ec : Enriches(ec)
  BY <1>1, GenerateCases
<1>2. ASSUME NEW c \in reads, Read(c) PROVE Still \/ \E ec : Enriches(ec)
  BY <1>2, ReadCases
<1>3. ASSUME NEW rp \in combine, Combine(rp) PROVE \E ec : Enriches(ec)
  BY <1>3, CombineCases
<1>4. ASSUME NEW h \in queue, Pop(h) \/ Pick(h) PROVE Pops(h)
  BY <1>4 DEF Pop, Pick, Pops
<1>5. CASE Quit \/ UNCHANGED vars
  BY <1>5 DEF Quit, vars, Still
<1> QED
  BY <1>1, <1>2, <1>3, <1>4, <1>5 DEF Next

-----------------------------------------------------------------------------
(* What an appended enriched condition leaves alone.                       *)
LEMMA EnrichesFrame ==
  ASSUME IInv, NEW ec, Enriches(ec)
  PROVE  /\ ec \in EcType
         /\ DOMAIN ecs' = DOMAIN ecs \cup {Newest + 1}
         /\ Newest + 1 \notin DOMAIN ecs /\ Newest' = Newest + 1
         /\ \A r \in DOMAIN ecs : ecs'[r] = ecs[r]
         /\ ecs'[Newest + 1] = ec
         /\ UNCHANGED <<net, opt, events, conds, hists, queue, table, cur>>
         /\ sols' = Extensions'
<1>1. ecs \in Seq(EcType) /\ ec \in EcType /\ ecs' = Append(ecs, ec)
  BY DEF IInv, TypeOK, Enriches
<1>2. /\ DOMAIN ecs' = DOMAIN ecs \cup {Len(ecs) + 1}
      /\ \A r \in DOMAIN ecs : ecs'[r] = ecs[r]
      /\ ecs'[Len(ecs) + 1] = ec
      /\ Len(ecs') = Len(ecs) + 1 /\ Len(ecs) \in Nat /\ DOMAIN ecs = 1..Len(ecs)
  BY <1>1, AppendFacts
<1>3. Len(ecs) + 1 \notin DOMAIN ecs
  BY <1>2
<1> QED
  BY <1>1, <1>2, <1>3 DEF Enriches, Newest, input, prefix

(* What a solution leaves alone, and the history it appends.               *)
LEMMA SolveFrame ==
  ASSUME IInv, NEW s \in sols, Solve(s)
  PROVE  /\ UNCHANGED <<net, opt, conds, ecs, co, numco, table, cur, gens, reads, reader, combine>>
         /\ sols' = sols \ {s}
         /\ queue' = queue \cup {Len(hists) + 1}
         /\ events' = IF InstancesOf(s) = {} THEN Append(events, NewEvent(s)) ELSE events
         /\ DOMAIN hists' = DOMAIN hists \cup {Len(hists) + 1}
         /\ Len(hists) + 1 \notin DOMAIN hists
         /\ \A x \in DOMAIN hists : hists'[x] = hists[x]
         /\ hists'[Len(hists) + 1] = NewHistory(events', EventOf(s), Nod(s), Ecl(s))
<1>1. /\ UNCHANGED <<input, status, conds, enrich, table, cur, gens, reads, reader, combine>>
      /\ sols' = sols \ {s}
      /\ events' = IF InstancesOf(s) = {} THEN Append(events, NewEvent(s)) ELSE events
      /\ hists' = Append(hists, NewHistory(events', EventOf(s), Nod(s), Ecl(s)))
      /\ queue' = queue \cup {Len(hists) + 1}
  BY DEF Solve
<1>2. hists \in Seq(HistType)
  BY DEF IInv, TypeOK
<1> DEFINE H == NewHistory(events', EventOf(s), Nod(s), Ecl(s))
<1> HIDE DEF H
<1>3. /\ DOMAIN hists' = DOMAIN hists \cup {Len(hists) + 1}
      /\ \A x \in DOMAIN hists : hists'[x] = hists[x]
      /\ hists'[Len(hists) + 1] = H
      /\ Len(hists) \in Nat /\ DOMAIN hists = 1..Len(hists)
  <2>1. hists \in Seq(HistType \cup {H}) /\ H \in HistType \cup {H}
    BY <1>2, SeqMonotonic
  <2> QED
    BY <1>1, <2>1, AppendFacts DEF H
<1>4. Len(hists) + 1 \notin DOMAIN hists
  BY <1>3
<1> QED
  BY <1>1, <1>3, <1>4 DEF input, enrich, H

(* The event of the new history: an old occurrence of the transition, or   *)
(* the next one.                                                           *)
LEMMA SolveEvent ==
  ASSUME IInv, NEW s \in sols, Solve(s)
  PROVE  /\ EventOf(s) \in DOMAIN events'
         /\ DOMAIN events \subseteq DOMAIN events'
         /\ \A x \in DOMAIN events : events'[x] = events[x]
         /\ IF InstancesOf(s) = {}
            THEN /\ EventOf(s) = Len(events) + 1
                 /\ EventOf(s) \notin DOMAIN events
                 /\ DOMAIN events' = DOMAIN events \cup {EventOf(s)}
                 /\ events'[EventOf(s)] = NewEvent(s)
            ELSE /\ events' = events
                 /\ EventOf(s) \in DOMAIN events
                 /\ events[EventOf(s)].ft = s.t
                 /\ events[EventOf(s)].pre \cup events[EventOf(s)].cont
                      \subseteq Chosen(s, DOMAIN s.at)
<1>1. events' = IF InstancesOf(s) = {} THEN Append(events, NewEvent(s)) ELSE events
  BY SolveFrame
<1>2. /\ events \in Seq(EventType)
      /\ Len(events) \in Nat /\ DOMAIN events = 1..Len(events)
  BY Elements DEF IInv, TypeOK
<1>3. /\ EventOf(s) \in DOMAIN events'
      /\ DOMAIN events \subseteq DOMAIN events'
      /\ \A x \in DOMAIN events : events'[x] = events[x]
  BY <1>1, EventFacts
<1>4. CASE InstancesOf(s) = {}
  <2>1. EventOf(s) = Len(events) + 1 /\ events' = Append(events, NewEvent(s))
    BY <1>1, <1>4 DEF EventOf
  <2> DEFINE E == NewEvent(s)
  <2> HIDE DEF E
  <2>2. events \in Seq(EventType \cup {E}) /\ E \in EventType \cup {E}
    BY <1>2, SeqMonotonic
  <2>3. DOMAIN events' = DOMAIN events \cup {Len(events) + 1} /\ events'[Len(events) + 1] = E
    BY <2>1, <2>2, AppendFacts DEF E
  <2>4. Len(events) + 1 \notin DOMAIN events
    BY <1>2
  <2> QED
    BY <1>3, <1>4, <2>1, <2>3, <2>4 DEF E
<1>5. CASE InstancesOf(s) # {}
  <2> DEFINE old == InstancesOf(s)
  <2>1. old \subseteq {x \in DOMAIN events :
                       /\ events[x].ft = s.t
                       /\ events[x].pre \cup events[x].cont \subseteq Chosen(s, DOMAIN s.at)}
    BY DEF InstancesOf
  <2>2. \E x \in old : \A y \in old : y <= x
    <3>1. old \in SUBSET Nat /\ \A y \in old : y <= Len(events)
      BY <1>2, <2>1
    <3> QED
      BY <1>2, <1>5, <3>1, NatMax
  <2>3. EventOf(s) \in old
    BY <1>5, <2>2 DEF EventOf
  <2> HIDE DEF old
  <2> QED
    BY <1>1, <1>3, <1>5, <2>1, <2>3
<1> QED
  BY <1>4, <1>5

(* What leaving the queue does to the history h ...                        *)
LEMMA AddHists ==
  ASSUME IInv, NEW h \in queue, Add(h)
  PROVE  /\ h \in DOMAIN hists
         /\ DOMAIN hists' = DOMAIN hists /\ Len(hists') = Len(hists)
         /\ \A x \in DOMAIN hists \ {h} : hists'[x] = hists[x]
         /\ \A x \in DOMAIN hists :
              /\ hists'[x].e = hists[x].e /\ hists'[x].past = hists[x].past
              /\ hists'[x].ecl = hists[x].ecl /\ hists'[x].depth = hists[x].depth
         /\ IF IsCutoff(h) THEN hists'[h].corr = Corresponding(h) /\ hists'[h].marking = {}
            ELSE hists'[h].corr = 0 /\ hists'[h].marking = hists[h].marking
<1>1. h \in DOMAIN hists /\ hists[h] \in HistType /\ DOMAIN hists = 1..Len(hists)
      /\ hists \in Seq(HistType)
  BY Elements DEF IInv, TypeOK
<1>2. CASE IsCutoff(h)
  <2>1. hists' = [hists EXCEPT ![h].corr = Corresponding(h), ![h].marking = {}]
    BY <1>2 DEF Add
  <2>2. hists' \in [1..Len(hists) -> HistType \cup {hists'[h]}]
    BY <1>1, <2>1, Elements DEF IInv
  <2>3. Len(hists') = Len(hists)
    BY <1>1, <2>2, LenProperties, Elements DEF IInv
  <2> QED
    BY <1>1, <1>2, <2>1, <2>3 DEF HistType
<1>3. CASE ~ IsCutoff(h)
  <2>1. hists' = [hists EXCEPT ![h].corr = 0]
    BY <1>3 DEF Add
  <2>2. hists' \in [1..Len(hists) -> HistType \cup {hists'[h]}]
    BY <1>1, <2>1, Elements DEF IInv
  <2>3. Len(hists') = Len(hists)
    BY <1>1, <2>2, LenProperties, Elements DEF IInv
  <2> QED
    BY <1>1, <1>3, <2>1, <2>3 DEF HistType
<1> QED
  BY <1>2, <1>3

(* ... and to its event.                                                   *)
LEMMA AddEvents ==
  ASSUME IInv, NEW h \in queue, Add(h)
  PROVE  /\ hists[h].e \in DOMAIN events
         /\ DOMAIN events' = DOMAIN events
         /\ \A x \in DOMAIN events :
              /\ events'[x].ft = events[x].ft
              /\ events'[x].pre = events[x].pre /\ events'[x].cont = events[x].cont
              /\ events'[x].iscutoff <=> events[x].iscutoff /\ (IsCutoff(h) \/ x # hists[h].e)
<1>1. h \in DOMAIN hists /\ hists[h] \in HistType
  BY Elements DEF IInv, TypeOK
<1>2. hists[h].e \in DOMAIN events /\ \A x \in DOMAIN events : events[x] \in EventType
  BY <1>1, Elements DEF IInv, HistType
<1>3. CASE IsCutoff(h)
  BY <1>2, <1>3 DEF Add, EventsAfter
<1>4. CASE ~ IsCutoff(h)
  <2>1. events' = [events EXCEPT ![hists[h].e].iscutoff = FALSE]
    BY <1>4 DEF Add, EventsAfter
  <2> DEFINE e == hists[h].e
  <2>2. events' = [events EXCEPT ![e] = [events[e] EXCEPT !.iscutoff = FALSE]]
    BY <2>1
  <2>3. events'[e] = [events[e] EXCEPT !.iscutoff = FALSE]
    BY <1>2, <2>2
  <2>4. events'[e].ft = events[e].ft /\ events'[e].pre = events[e].pre
        /\ events'[e].cont = events[e].cont /\ ~ events'[e].iscutoff
    BY <1>2, <2>3 DEF EventType
  <2>5. \A x \in DOMAIN events \ {e} : events'[x] = events[x]
    BY <2>2
  <2>6. DOMAIN events' = DOMAIN events
    BY <2>2
  <2> QED
    BY <1>2, <1>4, <2>4, <2>5, <2>6
<1> QED
  BY <1>3, <1>4

LEMMA AddFrame ==
  ASSUME IInv, NEW h \in queue, Pops(h)
  PROVE  /\ UNCHANGED <<net, opt, ecs, co, numco, sols, combine>>
         /\ sols = {} /\ gens = {} /\ reads = {} /\ combine = {}
         /\ queue' = queue \ {h} /\ cur' = h /\ reader' = 0
         /\ DOMAIN conds \subseteq DOMAIN conds'
         /\ \A c \in DOMAIN conds : conds'[c] = conds[c]
<1>1. /\ queue' = queue \ {h} /\ cur' = h /\ reader' = 0
      /\ conds' = Postset(hists[h].e)
      /\ UNCHANGED <<input, enrich, combine, sols>>
  BY DEF Pops, Add
<1>2. h \in DOMAIN hists /\ hists[h].e \in DOMAIN events
  BY Elements DEF IInv, TypeOK, HistType
<1> QED
  BY <1>1, <1>2, PostsetType DEF IInv, Pops, Idle, input, enrich

LEMMA StillFrame ==
  ASSUME Still
  PROVE  UNCHANGED <<net, opt, events, conds, hists, ecs, co, dir, rco, numco, queue, table,
                     cur, gens, reads, reader, combine, sols>>
BY DEF Still, input, prefix, enrich, work

-----------------------------------------------------------------------------
(* The quotas.                                                             *)
LEMMA QuotaStep ==
  ASSUME IInv, IInv', [Next]_vars, Idle, OverAnyQuota
  PROVE  Idle' /\ Len(hists') = Len(hists)
<1>1. CASE Still
  BY <1>1, StillFrame DEF Idle
<1>2. ASSUME NEW h \in queue, Pops(h) PROVE Idle' /\ Len(hists') = Len(hists)
  <2>1. Add(h)
    BY <1>2 DEF Pops
  <2>2. Len(conds) <= Len(conds')
    <3>1. DOMAIN conds \subseteq DOMAIN conds'
      BY <1>2, AddFrame
    <3>2. DOMAIN conds = 1..Len(conds) /\ Len(conds) \in Nat
      BY Elements DEF IInv
    <3>3. DOMAIN conds' = 1..Len(conds') /\ Len(conds') \in Nat
      BY LenProperties DEF IInv, TypeOK
    <3> QED
      BY <3>1, <3>2, <3>3
  <2>3. OverQuota(h, events, conds')
    <3>1. opt.maxcond \in Nat
      BY OptionsAssumption DEF IInv, TypeOK
    <3>2. Len(conds) \in Nat /\ Len(conds') \in Nat
      BY LenProperties DEF IInv, TypeOK
    <3> QED
      BY <2>2, <3>1, <3>2 DEF OverAnyQuota, OverQuota
  <2>4. gens' = {} /\ reads' = {}
    BY <2>1, <2>3 DEF Add, Skip
  <2>5. sols' = {} /\ combine' = {}
    BY <1>2, AddFrame
  <2>6. Len(hists') = Len(hists)
    BY <2>1, AddHists
  <2> QED
    BY <2>4, <2>5, <2>6 DEF Idle
<1>3. ASSUME NEW c \in gens, Generate(c) PROVE FALSE
  BY DEF Idle
<1>4. ASSUME NEW c \in reads, Read(c) PROVE FALSE
  BY DEF Idle
<1>5. ASSUME NEW rp \in combine, Combine(rp) PROVE FALSE
  BY DEF Idle
<1>6. ASSUME NEW s \in sols, Solve(s) PROVE FALSE
  BY DEF Idle
<1>7. ASSUME NEW h \in queue, Pop(h) \/ Pick(h) PROVE Pops(h)
  BY <1>7 DEF Pop, Pick, Pops
<1>8. CASE Quit \/ UNCHANGED vars
  BY <1>1, <1>8 DEF Quit, vars, Still
<1> QED
  BY <1>2, <1>3, <1>4, <1>5, <1>6, <1>7, <1>8 DEF Next

(* Once a quota for events, conditions or histories is exceeded between two *)
(* rounds of the main loop, the loop only empties the queue.               *)
THEOREM QuotaObeyed == Spec => QuotaStops
<1>1. IInv /\ IInv' /\ [Next]_vars
        => [Idle /\ OverAnyQuota => Idle' /\ Len(hists') = Len(hists)]_vars
  BY QuotaStep
<1> QED
  BY <1>1, Invariant, PTL DEF Spec, QuotaStops

-----------------------------------------------------------------------------
(* The bit iscutoff.                                                       *)
LEMMA CutoffEventsInit == Init => CutoffEvents
<1> SUFFICES ASSUME Init PROVE CutoffEvents
  OBVIOUS
<1>1. events = <<[ft |-> T0, pre |-> {}, cont |-> {}, iscutoff |-> FALSE]>> /\ queue = {}
  BY DEF Init
<1>2. DOMAIN events = {1} /\ ~ events[1].iscutoff
  BY <1>1
<1>3. 1 \in DOMAIN hists /\ hists[1].e = 1 /\ hists[1].corr = 0
  BY DEF Init
<1> QED
  BY <1>1, <1>2, <1>3 DEF CutoffEvents, Popped

LEMMA CutoffEventsNext ==
  ASSUME IInv, CutoffEvents, [Next]_vars
  PROVE  CutoffEvents'
<1>1. CASE Still
  BY <1>1, StillFrame DEF CutoffEvents, Popped
<1>2. ASSUME NEW ec, Enriches(ec) PROVE CutoffEvents'
  BY <1>2, EnrichesFrame DEF CutoffEvents, Popped
<1>3. ASSUME NEW s \in sols, Solve(s) PROVE CutoffEvents'
  <2>1. /\ Popped' = Popped
        /\ \A x \in Popped : hists'[x] = hists[x]
        /\ Popped \subseteq DOMAIN hists
    BY <1>3, SolveFrame DEF Popped
  <2> SUFFICES ASSUME NEW e \in DOMAIN events'
               PROVE  events'[e].iscutoff <=>
                        \A h \in Popped : hists[h].e = e => hists[h].corr # 0
    BY <2>1 DEF CutoffEvents
  <2>2. CASE e \in DOMAIN events
    BY <1>3, <2>2, SolveEvent DEF CutoffEvents
  <2>3. CASE e \notin DOMAIN events
    <3>1. events'[e] = NewEvent(s)
      BY <1>3, <2>3, SolveEvent
    <3>2. events'[e].iscutoff
      BY <3>1 DEF NewEvent
    <3>3. \A h \in Popped : hists[h].e # e
      BY <2>1, <2>3, Elements DEF IInv, HistType
    <3> QED
      BY <3>2, <3>3
  <2> QED
    BY <2>2, <2>3
<1>4. ASSUME NEW h \in queue, Pops(h) PROVE CutoffEvents'
  <2>1. Add(h)
    BY <1>4 DEF Pops
  <2>2. Popped' = Popped \cup {h} /\ h \notin Popped
    BY <1>4, <2>1, AddFrame, AddHists DEF Popped
  <2>3. \A x \in Popped : hists'[x] = hists[x]
    BY <2>1, <2>2, AddHists DEF Popped
  <2> SUFFICES ASSUME NEW e \in DOMAIN events'
               PROVE  events'[e].iscutoff <=>
                        \A x \in Popped' : hists'[x].e = e => hists'[x].corr # 0
    BY DEF CutoffEvents
  <2>4. e \in DOMAIN events /\ hists'[h].e = hists[h].e
        /\ (events'[e].iscutoff <=> events[e].iscutoff /\ (IsCutoff(h) \/ e # hists[h].e))
    BY <2>1, AddEvents, AddHists
  <2>5. events[e].iscutoff <=> \A x \in Popped : hists[x].e = e => hists[x].corr # 0
    BY <2>4 DEF CutoffEvents
  <2>6. hists'[h].corr # 0 <=> IsCutoff(h)
    <3>1. CASE IsCutoff(h)
      <4>1. hists'[h].corr = Corresponding(h) /\ Corresponding(h) \in DOMAIN hists
        BY <2>1, <3>1, AddHists, CorrespondingFacts
      <4>2. 0 \notin DOMAIN hists
        BY Elements DEF IInv
      <4> QED
        BY <3>1, <4>1, <4>2
    <3>2. CASE ~ IsCutoff(h)
      BY <2>1, <3>2, AddHists
    <3> QED
      BY <3>1, <3>2
  <2> QED
    BY <2>2, <2>3, <2>4, <2>5, <2>6
<1> QED
  BY <1>1, <1>2, <1>3, <1>4, StepCases

(* An event is a cutoff iff all its histories that left the queue are, at  *)
(* any time and not only when the program has finished.                    *)
THEOREM CutoffBits == Spec => []CutoffEvents
<1>1. IInv /\ CutoffEvents /\ [Next]_vars => CutoffEvents'
  BY CutoffEventsNext
<1> QED
  BY <1>1, CutoffEventsInit, Invariant, PTL DEF Spec

-----------------------------------------------------------------------------
(* The search.                                                             *)
LEMMA ExtensionsShape ==
  ASSUME (Newest \in DOMAIN ecs)'
  PROVE  (\A s \in Extensions :
            /\ s = [t |-> s.t, at |-> s.at]
            /\ \A p \in DOMAIN s.at : Place(s.at[p]) = p
            /\ Newest \in Ecl(s))'
<1> SUFFICES ASSUME NEW s \in Extensions'
             PROVE  /\ s = [t |-> s.t, at |-> s.at]
                    /\ \A p \in DOMAIN s.at : Place(s.at[p])' = p
                    /\ \E p \in DOMAIN s.at : s.at[p] = Newest'
  BY DEF Ecl
<1>1. PICK t \in net'.trans :
        /\ Place(Newest)' \in net'.pre[t] \cup net'.cont[t]
        /\ \E f \in Combs(t, Newest)' : s = [t |-> t, at |-> f]
  BY DEF Extensions
<1>2. PICK f \in Combs(t, Newest)' : s = [t |-> t, at |-> f]
  BY <1>1
<1> DEFINE ps == net'.pre[t] \cup net'.cont[t]
           near == {x \in DOMAIN ecs' : Place(x)' \in ps \ {Place(Newest)'}}
<1>3. f \in [ps -> near \cup {Newest'}] /\ \A p \in ps : Place(f[p])' = p
  BY <1>2 DEF Combs
<1>4. f[Place(Newest)'] = Newest'
  <2>1. Place(Newest)' \in ps
    BY <1>1
  <2>2. f[Place(Newest)'] \in near \cup {Newest'}
    BY <1>3, <2>1
  <2>3. f[Place(Newest)'] \notin near
    BY <1>3, <2>1
  <2> QED
    BY <2>2, <2>3
<1> QED
  BY <1>1, <1>2, <1>3, <1>4

LEMMA SearchingEnriches ==
  ASSUME IInv, NEW ec, Enriches(ec), cur \in ec.hs,
         reader' # 0 => cur \in ecs'[reader'].hs
  PROVE  Searching'
<1>1. Newest' \in DOMAIN ecs' /\ ecs'[Newest'] = ec /\ cur' = cur /\ sols' = Extensions'
  BY EnrichesFrame
<1>3. reader' # 0 => cur' \in ecs'[reader'].hs
  BY <1>1
<1>4. \A s \in sols' : cur' \in ecs'[Newest'].hs
  BY <1>1
<1> SUFFICES ASSUME NEW s \in sols'
             PROVE  /\ s = [t |-> s.t, at |-> s.at]
                    /\ \A p \in DOMAIN s.at : Place(s.at[p])' = p
                    /\ Newest' \in Ecl(s)'
                    /\ cur' \in ecs'[Newest'].hs
  BY <1>3 DEF Searching
<1>5. s = [t |-> s.t, at |-> s.at]
  BY <1>1, ExtensionsShape
<1>6. \A p \in DOMAIN s.at : Place(s.at[p])' = p
  BY <1>1, ExtensionsShape
<1>7. Newest' \in Ecl(s)'
  BY <1>1, ExtensionsShape
<1> QED
  BY <1>4, <1>5, <1>6, <1>7

LEMMA SearchingNext ==
  ASSUME IInv, Searching, [Next]_vars
  PROVE  Searching'
<1>1. CASE Still
  BY <1>1, StillFrame DEF Searching, Place, Newest, Ecl
<1>2. ASSUME NEW c \in gens, Generate(c), ~ Still PROVE Searching'
  <2>1. Enriches(EcOf(c, cur)) /\ EcOf(c, cur).hs = {cur} /\ reader' = reader
    BY <1>2, GenerateCases
  <2>2. reader' # 0 => cur \in ecs'[reader'].hs
    BY <2>1, EnrichesFrame DEF Searching, IInv, TypeOK
  <2> QED
    BY <2>1, <2>2, SearchingEnriches
<1>3. ASSUME NEW c \in reads, Read(c), ~ Still PROVE Searching'
  <2>1. Enriches(EcOf(c, cur)) /\ EcOf(c, cur).hs = {cur} /\ reader' = Newest + 1
    BY <1>3, ReadCases
  <2>2. ecs'[Newest + 1] = EcOf(c, cur)
    BY <2>1, EnrichesFrame
  <2> QED
    BY <2>1, <2>2, SearchingEnriches
<1>4. ASSUME NEW rp \in combine, Combine(rp) PROVE Searching'
  <2>1. Enriches(EcCompound(reader, rp)) /\ reader' = reader
    BY <1>4, CombineCases
  <2>2. reader \in DOMAIN ecs /\ reader # 0 /\ cur \in ecs[reader].hs
    BY <1>4, CombineCases DEF IInv, Linked, Searching
  <2>3. cur \in EcCompound(reader, rp).hs /\ ecs'[reader] = ecs[reader]
    BY <2>1, <2>2, EnrichesFrame DEF EcCompound
  <2> QED
    BY <2>1, <2>2, <2>3, SearchingEnriches
<1>5. ASSUME NEW s \in sols, Solve(s) PROVE Searching'
  BY <1>5, SolveFrame DEF Searching, Place, Newest, Ecl
<1>6. ASSUME NEW h \in queue, Pop(h) \/ Pick(h) PROVE Searching'
  <2>1. Pops(h)
    BY <1>6 DEF Pop, Pick, Pops
  <2>2. reader' = 0 /\ sols' = {}
    BY <2>1, AddFrame
  <2> QED
    BY <2>2 DEF Searching
<1>7. CASE Quit \/ UNCHANGED vars
  BY <1>1, <1>7 DEF Quit, vars, Still
<1> QED
  BY <1>1, <1>2, <1>3, <1>4, <1>5, <1>6, <1>7 DEF Next

LEMMA SearchingAlways == Spec => []Searching
<1>1. Init => Searching
  BY DEF Init, Searching
<1>2. IInv /\ Searching /\ [Next]_vars => Searching'
  BY SearchingNext
<1> QED
  BY <1>1, <1>2, Invariant, PTL DEF Spec

-----------------------------------------------------------------------------
(* The labels.                                                             *)

(* SetToSeq enumerates a finite set without repetitions.                   *)
LEMMA SetToSeqBijection ==
  ASSUME NEW S, IsFiniteSet(S)
  PROVE  /\ Cardinality(S) \in Nat
         /\ SetToSeq(S) \in [1..Cardinality(S) -> S]
         /\ \A x \in S : \E i \in 1..Cardinality(S) : SetToSeq(S)[i] = x
         /\ \A i, j \in 1..Cardinality(S) : SetToSeq(S)[i] = SetToSeq(S)[j] => i = j
<1> DEFINE n == Cardinality(S)
<1>1. ExistsBijection(1..n, S) /\ n \in Nat
  BY FS_CardinalityType
<1>2. \E f \in [1..n -> S] : IsInjective(f)
  BY <1>1 DEF ExistsBijection, Bijection, Injection, IsInjective
<1> DEFINE f == SetToSeq(S)
<1>3. f \in [1..n -> S] /\ IsInjective(f)
  BY <1>2 DEF SetToSeq
<1> HIDE DEF f, n
<1>4. f \in Injection(1..n, S)
  BY <1>3 DEF Injection, IsInjective
<1>5. Cardinality(1..n) = Cardinality(S)
  BY <1>1, FS_Interval DEF n
<1>6. f \in Surjection(1..n, S)
  BY <1>4, <1>5, FS_Injection
<1>7. \A x \in S : \E i \in 1..n : f[i] = x
  BY <1>6 DEF Surjection
<1>8. \A i, j \in 1..n : f[i] = f[j] => i = j
  BY <1>3 DEF IsInjective
<1> QED
  BY <1>1, <1>3, <1>7, <1>8 DEF f, n

(* Conditions that are one for each place of a set are as many.            *)
LEMMA OnePerPlaceCount ==
  ASSUME NEW S, NEW ps, OnePerPlace(S, ps), IsFiniteSet(ps)
  PROVE  IsFiniteSet(S) /\ Cardinality(S) = Cardinality(ps)
<1> DEFINE f == [c \in S |-> conds[c].fp]
<1>1. f \in Injection(S, ps)
  BY DEF OnePerPlace, Injection, IsInjective
<1>2. f \in Surjection(S, ps)
  BY DEF OnePerPlace, Surjection
<1> HIDE DEF f
<1> QED
  BY <1>1, <1>2, FS_Injection

(* _unfold_postset leaves the event with one condition for each place that *)
(* its transition fills, and adds nothing else.                            *)
LEMMA AddConds ==
  ASSUME IInv, Labelled, NEW h \in queue, Pops(h)
  PROVE  LET e == hists[h].e
             P == {c \in DOMAIN conds' : conds'[c].pre = e}
         IN  /\ \A c \in DOMAIN conds' \ DOMAIN conds : conds'[c].pre = e
             /\ conds' = conds \/ EventPost(e) = {}
             /\ {conds'[c].fp : c \in P} = net.post[events[e].ft]
             /\ \A c, d \in P : conds'[c].fp = conds'[d].fp => c = d
<1> DEFINE e   == hists[h].e
           ps  == net.post[events[e].ft]
           new == SetToSeq(ps)
           add == [i \in DOMAIN new |-> [pre |-> e, fp |-> new[i]]]
           P   == {c \in DOMAIN conds' : conds'[c].pre = e}
<1>1. e \in DOMAIN events /\ events[e].ft \in net.trans \cup {T0}
  BY Elements DEF IInv, TypeOK, HistType, EventType
<1>2. ps \subseteq net.places /\ IsFiniteSet(ps)
  BY <1>1, NetFacts DEF IInv, TypeOK
<1>3. conds' = IF Cardinality(EventPost(e)) = Cardinality(ps) THEN conds ELSE conds \o add
  BY DEF Pops, Add, Postset
<1>4. EventPost(e) # {} => OnePerPlace(EventPost(e), ps)
  BY <1>1 DEF Labelled, Label
<1>5. EventPost(e) = {c \in DOMAIN conds : conds[c].pre = e}
  BY DEF EventPost
<1>6. CASE EventPost(e) # {}
  <2>1. conds' = conds
    BY <1>2, <1>3, <1>4, <1>6, OnePerPlaceCount
  <2> HIDE DEF e, ps
  <2>2. {conds[c].fp : c \in EventPost(e)} = ps
        /\ \A c, d \in EventPost(e) : conds[c].fp = conds[d].fp => c = d
    BY <1>4, <1>6 DEF OnePerPlace
  <2>3. P = EventPost(e)
    BY <1>5, <2>1
  <2> QED
    BY <2>1, <2>2, <2>3 DEF e, ps
<1>7. CASE EventPost(e) = {} /\ ps = {}
  <2>1. conds' = conds
    BY <1>3, <1>7
  <2>2. P = {}
    BY <1>5, <1>7, <2>1
  <2> QED
    BY <1>7, <2>1, <2>2
<1>8. CASE EventPost(e) = {} /\ ps # {}
  <2>1. Cardinality(EventPost(e)) # Cardinality(ps)
    BY <1>2, <1>8, FS_EmptySet
  <2> DEFINE n == Cardinality(ps)
  <2>2. conds' = conds \o add
    BY <1>3, <2>1
  <2>3. /\ n \in Nat /\ new \in [1..n -> ps]
        /\ \A x \in ps : \E i \in 1..n : new[i] = x
        /\ \A i, j \in 1..n : new[i] = new[j] => i = j
    BY <1>2, SetToSeqBijection
  <2> HIDE DEF ps, new, n, e
  <2>4. add \in [1..n -> CondType] /\ \A i \in 1..n : add[i].pre = e /\ add[i].fp = new[i]
    BY <1>1, <1>2, <2>3 DEF CondType
  <2>5. add \in Seq(CondType) /\ Len(add) = n
    BY <2>3, <2>4, SeqDef, LenProperties
  <2>6. conds \in Seq(CondType)
    BY DEF IInv, TypeOK
  <2> DEFINE m == Len(conds)
  <2>7. m \in Nat /\ DOMAIN conds = 1..m
    BY <2>6, LenProperties
  <2> HIDE DEF add
  <2>8. /\ conds' \in Seq(CondType)
        /\ Len(conds') = m + n
        /\ \A i \in 1..(m + n) : conds'[i] = IF i <= m THEN conds[i] ELSE add[i - m]
    BY <2>2, <2>5, <2>6, ConcatProperties
  <2>9. DOMAIN conds' = 1..(m + n)
    BY <2>8, LenProperties
  <2> HIDE DEF m
  <2>10. \A i \in 1..n : /\ m + i \in DOMAIN conds' /\ m + i \notin DOMAIN conds
                         /\ conds'[m + i] = add[i]
    BY <2>3, <2>7, <2>8, <2>9
  <2>11. \A c \in DOMAIN conds' \ DOMAIN conds : c - m \in 1..n /\ c = m + (c - m)
    BY <2>3, <2>7, <2>9
  <2>12. P = DOMAIN conds' \ DOMAIN conds
    <3>1. \A c \in DOMAIN conds : conds'[c].pre # e
      <4>1. \A c \in DOMAIN conds : conds'[c] = conds[c] /\ conds[c].pre # e
        BY <1>5, <1>8, <2>3, <2>7, <2>8
      <4> QED
        BY <4>1
    <3>2. \A c \in DOMAIN conds' \ DOMAIN conds : conds'[c].pre = e
      BY <2>4, <2>10, <2>11
    <3> QED
      BY <3>1, <3>2
  <2>13. \A c \in P : conds'[c].fp = new[c - m] /\ c - m \in 1..n /\ c = m + (c - m)
    BY <2>4, <2>10, <2>11, <2>12
  <2>14. {conds'[c].fp : c \in P} = ps
    <3>1. \A c \in P : conds'[c].fp \in ps
      BY <2>3, <2>13
    <3>2. \A x \in ps : \E c \in P : conds'[c].fp = x
      <4> TAKE x \in ps
      <4>1. PICK i \in 1..n : new[i] = x
        BY <2>3
      <4>2. m + i \in P /\ conds'[m + i].fp = x
        BY <2>4, <2>10, <2>12, <4>1
      <4> QED
        BY <4>2
    <3> QED
      BY <3>1, <3>2
  <2>15. \A c, d \in P : conds'[c].fp = conds'[d].fp => c = d
    <3> TAKE c, d \in P
    <3> HAVE conds'[c].fp = conds'[d].fp
    <3>1. c - m = d - m
      BY <2>3, <2>13
    <3> QED
      BY <2>13, <3>1
  <2> QED
    BY <1>8, <2>12, <2>14, <2>15 DEF e, ps
<1> QED
  BY <1>6, <1>7, <1>8

(* The conditions a solution chooses for some of its places.               *)
LEMMA ChosenPerPlace ==
  ASSUME Searching, NEW s \in sols, NEW ps \in SUBSET DOMAIN s.at
  PROVE  OnePerPlace(Chosen(s, ps), ps)
<1>1. \A p \in ps : conds[ecs[s.at[p]].c].fp = p
  BY DEF Searching, Place
<1>2. \A c \in Chosen(s, ps) : \E p \in ps : c = ecs[s.at[p]].c
  BY DEF Chosen
<1>3. \A p \in ps : ecs[s.at[p]].c \in Chosen(s, ps)
  BY DEF Chosen
<1>4. {conds[c].fp : c \in Chosen(s, ps)} = ps
  <2>1. \A c \in Chosen(s, ps) : conds[c].fp \in ps
    BY <1>1, <1>2
  <2>2. \A p \in ps : \E c \in Chosen(s, ps) : conds[c].fp = p
    BY <1>1, <1>3
  <2> QED
    BY <2>1, <2>2
<1>5. \A c, d \in Chosen(s, ps) : conds[c].fp = conds[d].fp => c = d
  <2> TAKE c, d \in Chosen(s, ps)
  <2>1. PICK p \in ps : c = ecs[s.at[p]].c
    BY <1>2
  <2>2. PICK q \in ps : d = ecs[s.at[q]].c
    BY <1>2
  <2> QED
    BY <1>1, <2>1, <2>2
<1> QED
  BY <1>4, <1>5 DEF OnePerPlace

LEMMA LabelledInit == Init => Labelled
<1> SUFFICES ASSUME Init PROVE Labelled
  OBVIOUS
<1> DEFINE m0 == SetToSeq(net.post[T0])
           n  == Cardinality(net.post[T0])
<1>1. IInv /\ net \in Nets
  BY InitInv DEF IInv, TypeOK
<1>2. events = <<[ft |-> T0, pre |-> {}, cont |-> {}, iscutoff |-> FALSE]>>
  BY DEF Init
<1>3. DOMAIN events = {1} /\ events[1].ft = T0 /\ events[1].pre = {} /\ events[1].cont = {}
  BY <1>2
<1>4. net.pre[T0] = {} /\ net.cont[T0] = {} /\ IsFiniteSet(net.post[T0])
  BY <1>1, NetFacts DEF IsNet
<1>5. conds = [i \in DOMAIN m0 |-> [pre |-> 1, fp |-> m0[i]]]
  BY DEF Init
<1>6. /\ m0 \in [1..n -> net.post[T0]]
      /\ \A x \in net.post[T0] : \E i \in 1..n : m0[i] = x
      /\ \A i, j \in 1..n : m0[i] = m0[j] => i = j
  BY <1>4, SetToSeqBijection
<1> HIDE DEF m0, n
<1>7. DOMAIN conds = 1..n /\ \A c \in 1..n : conds[c].pre = 1 /\ conds[c].fp = m0[c]
  BY <1>5, <1>6
<1>8. EventPost(1) = 1..n
  BY <1>7 DEF EventPost
<1>9. {conds[c].fp : c \in 1..n} = net.post[T0]
  BY <1>6, <1>7
<1>10. \A c, d \in 1..n : conds[c].fp = conds[d].fp => c = d
  BY <1>6, <1>7
<1>11. OnePerPlace(EventPost(1), net.post[T0])
  BY <1>8, <1>9, <1>10 DEF OnePerPlace
<1>12. OnePerPlace({}, {})
  BY DEF OnePerPlace
<1> QED
  BY <1>3, <1>4, <1>11, <1>12 DEF Labelled, Label

LEMMA LabelledNext ==
  ASSUME IInv, Searching, Labelled, [Next]_vars
  PROVE  Labelled'
<1>1. CASE UNCHANGED <<net, events, conds>>
  <2> SUFFICES ASSUME NEW e \in DOMAIN events PROVE Label(e)'
    BY <1>1 DEF Labelled
  <2>1. Label(e)
    BY DEF Labelled
  <2> QED
    BY <1>1, <2>1 DEF Label, OnePerPlace, EventPost
<1>2. ASSUME NEW s \in sols, Solve(s) PROVE Labelled'
  <2>1. conds' = conds /\ net' = net
    BY <1>2, SolveFrame
  <2> SUFFICES ASSUME NEW e \in DOMAIN events' PROVE Label(e)'
    BY DEF Labelled
  <2>4. CASE e \in DOMAIN events
    <3>1. Label(e) /\ events'[e] = events[e]
      BY <1>2, <2>4, SolveEvent DEF Labelled
    <3> QED
      BY <2>1, <3>1 DEF Label, OnePerPlace, EventPost
  <2>5. CASE e \notin DOMAIN events
    <3>1. e = Len(events) + 1 /\ events'[e] = NewEvent(s)
      <4>1. CASE InstancesOf(s) = {}
        <5>1. /\ EventOf(s) = Len(events) + 1
              /\ DOMAIN events' = DOMAIN events \cup {EventOf(s)}
              /\ events'[EventOf(s)] = NewEvent(s)
          BY <1>2, <4>1, SolveEvent
        <5>2. e = EventOf(s)
          BY <2>5, <5>1
        <5> QED
          BY <5>1, <5>2
      <4>2. CASE InstancesOf(s) # {}
        <5>1. events' = events
          BY <1>2, <4>2, SolveEvent
        <5> QED
          BY <2>5, <5>1
      <4> QED
        BY <4>1, <4>2
    <3>2. /\ events'[e].ft = s.t
          /\ events'[e].pre = Chosen(s, net.pre[s.t])
          /\ events'[e].cont = Chosen(s, net.cont[s.t])
      BY <3>1 DEF NewEvent
    <3>3. s.t \in net.trans /\ net.pre[s.t] \cup net.cont[s.t] = DOMAIN s.at
      BY SolutionFacts
    <3>4. s.t # T0
      BY <3>3, NetsAssumption DEF IInv, TypeOK, IsNet
    <3>5. e # 1
      <4>1. cur \in DOMAIN hists /\ hists[cur].e \in DOMAIN events
        BY Elements DEF IInv, TypeOK, HistType
      <4>2. DOMAIN events = 1..Len(events) /\ Len(events) \in Nat
        BY Elements DEF IInv
      <4> QED
        BY <3>1, <4>1, <4>2
    <3>6. EventPost(e) = {}
      BY <2>5, Elements DEF IInv, CondType, EventPost
    <3>7. /\ OnePerPlace(Chosen(s, net.pre[s.t]), net.pre[s.t])
          /\ OnePerPlace(Chosen(s, net.cont[s.t]), net.cont[s.t])
      BY <3>3, ChosenPerPlace
    <3> QED
      BY <2>1, <3>2, <3>4, <3>5, <3>6, <3>7 DEF Label, OnePerPlace, EventPost
  <2> QED
    BY <2>4, <2>5
<1>3. ASSUME NEW h \in queue, Pops(h) PROVE Labelled'
  <2>1. /\ net' = net
        /\ \A c \in DOMAIN conds : conds'[c] = conds[c]
        /\ DOMAIN conds \subseteq DOMAIN conds'
    BY <1>3, AddFrame
  <2>2. /\ DOMAIN events' = DOMAIN events
        /\ \A x \in DOMAIN events :
             /\ events'[x].ft = events[x].ft
             /\ events'[x].pre = events[x].pre /\ events'[x].cont = events[x].cont
    BY <1>3, AddEvents DEF Pops
  <2> SUFFICES ASSUME NEW e \in DOMAIN events PROVE Label(e)'
    BY <2>2 DEF Labelled
  <2>3. Label(e)
    BY DEF Labelled
  <2>4. events[e].pre \subseteq DOMAIN conds /\ events[e].cont \subseteq DOMAIN conds
    BY Elements DEF IInv, EventType
  <2>5. events[e].ft = T0 <=> e = 1
    BY <2>3 DEF Label
  <2>6. /\ {conds'[c].fp : c \in events[e].pre} = net.pre[events[e].ft]
        /\ \A c, d \in events[e].pre : conds'[c].fp = conds'[d].fp => c = d
    BY <2>1, <2>3, <2>4 DEF Label, OnePerPlace
  <2>7. /\ {conds'[c].fp : c \in events[e].cont} = net.cont[events[e].ft]
        /\ \A c, d \in events[e].cont : conds'[c].fp = conds'[d].fp => c = d
    BY <2>1, <2>3, <2>4 DEF Label, OnePerPlace
  <2> DEFINE P == {c \in DOMAIN conds' : conds'[c].pre = e}
  <2>8. P # {} => /\ {conds'[c].fp : c \in P} = net.post[events[e].ft]
                  /\ \A c, d \in P : conds'[c].fp = conds'[d].fp => c = d
    <3>1. CASE e = hists[h].e
      BY <1>3, <3>1, AddConds
    <3>2. CASE e # hists[h].e
      <4>1. \A c \in DOMAIN conds' \ DOMAIN conds : conds'[c].pre # e
        BY <1>3, <3>2, AddConds
      <4>2. P = EventPost(e)
        BY <2>1, <4>1 DEF EventPost
      <4>3. EventPost(e) \subseteq DOMAIN conds
        BY DEF EventPost
      <4> QED
        BY <2>1, <2>3, <4>2, <4>3 DEF Label, OnePerPlace
    <3> QED
      BY <3>1, <3>2
  <2>9. events'[e].ft = events[e].ft /\ events'[e].pre = events[e].pre
        /\ events'[e].cont = events[e].cont
    BY <2>2
  <2> QED
    BY <2>1, <2>5, <2>6, <2>7, <2>8, <2>9 DEF Label, OnePerPlace, EventPost
<1> QED
  BY <1>1, <1>2, <1>3, StepCases, StillFrame, EnrichesFrame

LEMMA LabelledAlways == Spec => []Labelled
<1>1. IInv /\ Searching /\ Labelled /\ [Next]_vars => Labelled'
  BY LabelledNext
<1> QED
  BY <1>1, LabelledInit, Invariant, SearchingAlways, PTL DEF Spec

-----------------------------------------------------------------------------
(* Histories and the enriched conditions they stand on.                    *)
LEMMA LabelFacts ==
  ASSUME IInv, Labelled, NEW e \in DOMAIN events
  PROVE  /\ events[e].ft \in net.trans \cup {T0}
         /\ e # 1 => events[e].ft \in net.trans
         /\ e = 1 => events[e].pre = {} /\ events[e].cont = {}
         /\ events[e].pre \cap events[e].cont = {}
         /\ \A c \in events[e].pre : conds[c].fp \in net.pre[events[e].ft]
         /\ \A c \in events[e].cont : conds[c].fp \in net.cont[events[e].ft]
         /\ net.pre[events[e].ft] # {} => events[e].pre # {}
         /\ net.cont[events[e].ft] = {} => events[e].cont = {}
<1>1. Label(e) /\ events[e] \in EventType
  BY Elements DEF IInv, Labelled
<1>2. IsNet(net) /\ Consuming(net)
  BY NetsAssumption DEF IInv, TypeOK
<1>3. /\ {conds[c].fp : c \in events[e].pre} = net.pre[events[e].ft]
      /\ {conds[c].fp : c \in events[e].cont} = net.cont[events[e].ft]
      /\ events[e].ft = T0 <=> e = 1
  BY <1>1 DEF Label, OnePerPlace
<1>4. /\ \A c \in events[e].pre : conds[c].fp \in net.pre[events[e].ft]
      /\ \A c \in events[e].cont : conds[c].fp \in net.cont[events[e].ft]
      /\ net.pre[events[e].ft] # {} => events[e].pre # {}
      /\ net.cont[events[e].ft] = {} => events[e].cont = {}
  BY <1>3
<1>5. /\ events[e].ft \in net.trans \cup {T0}
      /\ e # 1 => events[e].ft \in net.trans
  BY <1>1, <1>3 DEF EventType
<1>6. e = 1 => events[e].pre = {} /\ events[e].cont = {}
  <2>1. net.pre[T0] = {} /\ net.cont[T0] = {}
    BY <1>2 DEF IsNet
  <2>2. e = 1 => /\ \A c \in events[e].pre : conds[c].fp \in {}
                 /\ \A c \in events[e].cont : conds[c].fp \in {}
    BY <1>3, <1>4, <2>1
  <2> QED
    BY <2>2
<1>7. net.pre[events[e].ft] \cap net.cont[events[e].ft] = {}
  <2>1. CASE e = 1
    BY <1>2, <1>3, <2>1 DEF IsNet
  <2>2. CASE e # 1
    BY <1>2, <1>5, <2>2 DEF Consuming
  <2> QED
    BY <2>1, <2>2
<1>8. events[e].pre \cap events[e].cont = {}
  BY <1>4, <1>7
<1> QED
  BY <1>4, <1>5, <1>6, <1>8

(* The event of a solution stands on what the solution chooses.            *)
LEMMA EventChosen ==
  ASSUME IInv, Searching, Labelled, NEW s \in sols, Solve(s)
  PROVE  /\ events'[EventOf(s)].ft = s.t
         /\ events'[EventOf(s)].pre \cup events'[EventOf(s)].cont = Chosen(s, DOMAIN s.at)
<1> DEFINE e == EventOf(s)
           all == Chosen(s, DOMAIN s.at)
<1>1. s.t \in net.trans /\ net.pre[s.t] \cup net.cont[s.t] = DOMAIN s.at
  BY SolutionFacts
<1>2. CASE InstancesOf(s) = {}
  <2>1. events'[e] = NewEvent(s)
    BY <1>2, SolveEvent
  <2>2. /\ events'[e].ft = s.t
        /\ events'[e].pre = Chosen(s, net.pre[s.t])
        /\ events'[e].cont = Chosen(s, net.cont[s.t])
    BY <2>1 DEF NewEvent
  <2> QED
    BY <1>1, <2>2 DEF Chosen
<1>3. CASE InstancesOf(s) # {}
  <2>1. /\ events' = events /\ e \in DOMAIN events
        /\ events[e].ft = s.t
        /\ events[e].pre \cup events[e].cont \subseteq all
    BY <1>3, SolveEvent
  <2>2. OnePerPlace(all, DOMAIN s.at)
    BY ChosenPerPlace
  <2>3. Label(e)
    BY <2>1 DEF Labelled
  <2> HIDE DEF e, all
  <2>4. \A d \in all : \E c \in events[e].pre \cup events[e].cont : conds[c].fp = conds[d].fp
    <3> TAKE d \in all
    <3>1. conds[d].fp \in net.pre[s.t] \cup net.cont[s.t]
      BY <1>1, <2>2 DEF OnePerPlace
    <3>2. /\ {conds[c].fp : c \in events[e].pre} = net.pre[s.t]
          /\ {conds[c].fp : c \in events[e].cont} = net.cont[s.t]
      BY <2>1, <2>3 DEF Label, OnePerPlace
    <3> QED
      BY <3>1, <3>2
  <2>5. all \subseteq events[e].pre \cup events[e].cont
    BY <2>1, <2>2, <2>4 DEF OnePerPlace
  <2> QED
    BY <2>1, <2>5 DEF e, all
<1> QED
  BY <1>2, <1>3

LEMMA GroundedNext ==
  ASSUME IInv, Searching, Labelled, Grounded, [Next]_vars
  PROVE  Grounded'
<1>1. CASE UNCHANGED <<events, hists, ecs>>
  <2>1. \A h \in DOMAIN hists : Footing(h)'
    <3> SUFFICES ASSUME NEW h \in DOMAIN hists PROVE Footing(h)'
      OBVIOUS
    <3>1. Footing(h)
      BY DEF Grounded
    <3> QED
      BY <1>1, <3>1 DEF Footing
  <2>2. \A e \in DOMAIN events' : \E h \in DOMAIN hists' : hists'[h].e = e
    BY <1>1 DEF Grounded
  <2> QED
    BY <1>1, <2>1, <2>2 DEF Grounded
<1>2. ASSUME NEW ec, Enriches(ec) PROVE Grounded'
  <2>1. /\ UNCHANGED <<events, hists>>
        /\ \A r \in DOMAIN ecs : ecs'[r] = ecs[r]
    BY <1>2, EnrichesFrame
  <2>2. ASSUME NEW h \in DOMAIN hists PROVE Footing(h)'
    <3>1. Footing(h) /\ hists[h].ecl \subseteq DOMAIN ecs
      BY Elements DEF Grounded, IInv, HistType
    <3>2. /\ {ecs'[r].c : r \in hists[h].ecl} = events[hists[h].e].pre \cup events[hists[h].e].cont
          /\ \A r, q \in hists[h].ecl : ecs'[r].c = ecs'[q].c => r = q
      BY <2>1, <3>1 DEF Footing
    <3> QED
      BY <2>1, <3>2 DEF Footing
  <2> QED
    BY <2>1, <2>2 DEF Grounded
<1>3. ASSUME NEW s \in sols, Solve(s) PROVE Grounded'
  <2>0. PICK id : id = Len(hists) + 1
    OBVIOUS
  <2> DEFINE e  == EventOf(s)
             H  == NewHistory(events', e, Nod(s), Ecl(s))
  <2>1. /\ ecs' = ecs
        /\ DOMAIN hists' = DOMAIN hists \cup {id}
        /\ \A x \in DOMAIN hists : hists'[x] = hists[x]
        /\ hists'[id] = H
    BY <1>3, <2>0, SolveFrame
  <2>2. H.e = e /\ H.ecl = Ecl(s)
    BY DEF NewHistory
  <2> HIDE DEF H, e
  <2>3. \A x \in DOMAIN events : events'[x] = events[x]
    BY <1>3, SolveEvent
  <2>4. DOMAIN events' \subseteq DOMAIN events \cup {e}
    <3>1. CASE InstancesOf(s) = {}
      BY <1>3, <3>1, SolveEvent DEF e
    <3>2. CASE InstancesOf(s) # {}
      <4>1. events' = events
        BY <1>3, <3>2, SolveEvent
      <4> QED
        BY <4>1
    <3> QED
      BY <3>1, <3>2
  <2>5. Footing(id)'
    <3>1. events'[e].pre \cup events'[e].cont = Chosen(s, DOMAIN s.at)
      BY <1>3, EventChosen DEF e
    <3>2. {ecs[r].c : r \in Ecl(s)} = Chosen(s, DOMAIN s.at)
      BY DEF Chosen, Ecl
    <3>3. ASSUME NEW r \in Ecl(s), NEW q \in Ecl(s), ecs[r].c = ecs[q].c PROVE r = q
      <4>1. PICK p1 \in DOMAIN s.at : r = s.at[p1]
        BY DEF Ecl
      <4>2. PICK p2 \in DOMAIN s.at : q = s.at[p2]
        BY DEF Ecl
      <4>3. Place(s.at[p1]) = p1 /\ Place(s.at[p2]) = p2
        BY DEF Searching
      <4> QED
        BY <3>3, <4>1, <4>2, <4>3 DEF Place
    <3>4. hists'[id].e = e /\ hists'[id].ecl = Ecl(s)
      BY <2>1, <2>2
    <3>5. {ecs'[r].c : r \in hists'[id].ecl}
             = events'[hists'[id].e].pre \cup events'[hists'[id].e].cont
      BY <2>1, <3>1, <3>2, <3>4
    <3>6. \A r, q \in hists'[id].ecl : ecs'[r].c = ecs'[q].c => r = q
      BY <2>1, <3>3, <3>4
    <3> QED
      BY <3>5, <3>6 DEF Footing
  <2>6. ASSUME NEW h \in DOMAIN hists PROVE Footing(h)'
    <3>1. Footing(h) /\ hists[h].e \in DOMAIN events
      BY Elements DEF Grounded, IInv, HistType
    <3>2. hists'[h] = hists[h] /\ events'[hists[h].e] = events[hists[h].e]
      BY <2>1, <2>3, <3>1
    <3> QED
      BY <2>1, <3>1, <3>2 DEF Footing
  <2>7. \A x \in DOMAIN events' : \E h \in DOMAIN hists' : hists'[h].e = x
    <3> TAKE x \in DOMAIN events'
    <3>1. CASE x = e
      BY <2>1, <2>2, <3>1
    <3>2. CASE x \in DOMAIN events
      <4>1. PICK h \in DOMAIN hists : hists[h].e = x
        BY <3>2 DEF Grounded
      <4> QED
        BY <2>1, <4>1
    <3> QED
      BY <2>4, <3>1, <3>2
  <2>8. \A h \in DOMAIN hists' : Footing(h)'
    BY <2>1, <2>5, <2>6
  <2> QED
    BY <2>7, <2>8 DEF Grounded
<1>4. ASSUME NEW h \in queue, Pops(h) PROVE Grounded'
  <2>1. /\ ecs' = ecs /\ DOMAIN hists' = DOMAIN hists
        /\ \A x \in DOMAIN hists : hists'[x].e = hists[x].e /\ hists'[x].ecl = hists[x].ecl
    BY <1>4, AddFrame, AddHists DEF Pops
  <2>2. /\ DOMAIN events' = DOMAIN events
        /\ \A x \in DOMAIN events : events'[x].pre = events[x].pre /\ events'[x].cont = events[x].cont
    BY <1>4, AddEvents DEF Pops
  <2>3. ASSUME NEW x \in DOMAIN hists PROVE Footing(x)'
    <3>1. Footing(x) /\ hists[x].e \in DOMAIN events
      BY Elements DEF Grounded, IInv, HistType
    <3> QED
      BY <2>1, <2>2, <3>1 DEF Footing
  <2>4. \A x \in DOMAIN events' : \E y \in DOMAIN hists' : hists'[y].e = x
    BY <2>1, <2>2 DEF Grounded
  <2> QED
    BY <2>1, <2>3, <2>4 DEF Grounded
<1> QED
  BY <1>1, <1>2, <1>3, <1>4, StepCases, StillFrame

LEMMA GroundedInit == Init => Grounded
<1> SUFFICES ASSUME Init PROVE Grounded
  OBVIOUS
<1>1. events = <<[ft |-> T0, pre |-> {}, cont |-> {}, iscutoff |-> FALSE]>>
  BY DEF Init
<1>2. DOMAIN events = {1} /\ events[1].pre = {} /\ events[1].cont = {}
  BY <1>1
<1>3. DOMAIN hists = {1} /\ hists[1].e = 1 /\ hists[1].ecl = {}
  BY DEF Init
<1>4. Footing(1)
  BY <1>2, <1>3 DEF Footing
<1> QED
  BY <1>2, <1>3, <1>4 DEF Grounded

LEMMA GroundedAlways == Spec => []Grounded
<1>1. IInv /\ Searching /\ Labelled /\ Grounded /\ [Next]_vars => Grounded'
  BY GroundedNext
<1> QED
  BY <1>1, GroundedInit, Invariant, SearchingAlways, LabelledAlways, PTL DEF Spec

-----------------------------------------------------------------------------
(* No event is allocated twice.                                            *)

(* A solution is determined by its transition and its enriched conditions. *)
LEMMA SolutionUnique ==
  ASSUME IInv, Searching, NEW s \in sols, NEW u \in sols, s.t = u.t, Ecl(s) = Ecl(u)
  PROVE  s = u
<1>1. /\ s.at \in [net.pre[s.t] \cup net.cont[s.t] -> DOMAIN ecs]
      /\ u.at \in [net.pre[s.t] \cup net.cont[s.t] -> DOMAIN ecs]
  BY DEF IInv, TypeOK
<1> DEFINE D == net.pre[s.t] \cup net.cont[s.t]
<1>2. DOMAIN s.at = D /\ DOMAIN u.at = D
  BY <1>1
<1>3. \A p \in D : Place(s.at[p]) = p /\ Place(u.at[p]) = p
  BY <1>2 DEF Searching
<1>4. \A p \in D : \E q \in D : s.at[p] = u.at[q]
  BY <1>2 DEF Ecl
<1>5. \A p \in D : s.at[p] = u.at[p]
  BY <1>3, <1>4
<1>6. s.at = u.at
  BY <1>1, <1>5
<1>7. s = [t |-> s.t, at |-> s.at] /\ u = [t |-> u.t, at |-> u.at]
  BY DEF Searching
<1> QED
  BY <1>6, <1>7

LEMMA UniqueEclsNext ==
  ASSUME IInv, Searching, Searching', Labelled, UniqueEcls, [Next]_vars
  PROVE  UniqueEcls'
<1>1. CASE UNCHANGED <<events, hists, sols>>
  BY <1>1 DEF UniqueEcls, Ecl
<1>2. ASSUME NEW ec, Enriches(ec) PROVE UniqueEcls'
  <2>1. /\ UNCHANGED <<events, hists>>
        /\ Newest' = Newest + 1 /\ Newest + 1 \notin DOMAIN ecs
    BY <1>2, EnrichesFrame
  <2>2. ASSUME NEW s \in sols', NEW x \in DOMAIN hists PROVE hists[x].ecl # Ecl(s)
    <3>1. Newest + 1 \in Ecl(s)'
      BY <2>1 DEF Searching
    <3>2. Newest + 1 \in Ecl(s)
      BY <3>1 DEF Ecl
    <3>3. hists[x].ecl \subseteq DOMAIN ecs
      BY Elements DEF IInv, HistType
    <3> QED
      BY <2>1, <3>2, <3>3
  <2>3. \A s \in sols', x \in DOMAIN hists' :
          hists'[x].ecl = Ecl(s) => events'[hists'[x].e].ft # s.t
    BY <2>1, <2>2
  <2>4. \A x, y \in DOMAIN hists' :
          /\ hists'[x].ecl = hists'[y].ecl
          /\ events'[hists'[x].e].ft = events'[hists'[y].e].ft
          => x = y
    BY <2>1 DEF UniqueEcls
  <2> QED
    BY <2>3, <2>4 DEF UniqueEcls, Ecl
<1>3. ASSUME NEW s \in sols, Solve(s) PROVE UniqueEcls'
  <2>0. PICK id : id = Len(hists) + 1
    OBVIOUS
  <2> DEFINE e == EventOf(s)
  <2>1. /\ sols' = sols \ {s}
        /\ DOMAIN hists' = DOMAIN hists \cup {id}
        /\ \A x \in DOMAIN hists : hists'[x] = hists[x]
        /\ hists'[id] = NewHistory(events', e, Nod(s), Ecl(s))
    BY <1>3, <2>0, SolveFrame
  <2>2. hists'[id].e = e /\ hists'[id].ecl = Ecl(s)
    BY <2>1 DEF NewHistory
  <2>3. events'[e].ft = s.t
    BY <1>3, EventChosen
  <2> HIDE DEF e
  <2>4. \A x \in DOMAIN hists : events'[hists[x].e] = events[hists[x].e]
    BY <1>3, SolveEvent, Elements DEF IInv, HistType
  <2>5. \A x \in DOMAIN hists : hists[x].ecl = Ecl(s) => events[hists[x].e].ft # s.t
    BY DEF UniqueEcls
  <2>6. \A x, y \in DOMAIN hists' :
          /\ hists'[x].ecl = hists'[y].ecl
          /\ events'[hists'[x].e].ft = events'[hists'[y].e].ft
          => x = y
    <3> TAKE x, y \in DOMAIN hists'
    <3>1. CASE x \in DOMAIN hists /\ y \in DOMAIN hists
      BY <2>1, <2>4, <3>1 DEF UniqueEcls
    <3>2. CASE x \in DOMAIN hists /\ y = id
      BY <2>1, <2>2, <2>3, <2>4, <2>5, <3>2
    <3>3. CASE x = id /\ y \in DOMAIN hists
      BY <2>1, <2>2, <2>3, <2>4, <2>5, <3>3
    <3> QED
      BY <2>1, <3>1, <3>2, <3>3
  <2>7. \A u \in sols', x \in DOMAIN hists' :
          hists'[x].ecl = Ecl(u) => events'[hists'[x].e].ft # u.t
    <3> TAKE u \in sols', x \in DOMAIN hists'
    <3>1. u \in sols /\ u # s
      BY <2>1
    <3>2. CASE x = id
      <4>1. ~ (Ecl(u) = Ecl(s) /\ u.t = s.t)
        BY <3>1, SolutionUnique
      <4> QED
        BY <2>2, <2>3, <3>2, <4>1
    <3>3. CASE x \in DOMAIN hists
      BY <2>1, <2>4, <3>1, <3>3 DEF UniqueEcls
    <3> QED
      BY <2>1, <3>2, <3>3
  <2> QED
    BY <2>6, <2>7 DEF UniqueEcls, Ecl
<1>4. ASSUME NEW h \in queue, Pops(h) PROVE UniqueEcls'
  <2>1. /\ sols' = {} /\ DOMAIN hists' = DOMAIN hists
        /\ \A x \in DOMAIN hists : hists'[x].e = hists[x].e /\ hists'[x].ecl = hists[x].ecl
    BY <1>4, AddFrame, AddHists DEF Pops
  <2>2. \A x \in DOMAIN events : events'[x].ft = events[x].ft
    BY <1>4, AddEvents DEF Pops
  <2>3. \A x \in DOMAIN hists : events'[hists'[x].e].ft = events[hists[x].e].ft
    BY <2>1, <2>2, Elements DEF IInv, HistType
  <2> QED
    BY <2>1, <2>3 DEF UniqueEcls
<1> QED
  BY <1>1, <1>2, <1>3, <1>4, StepCases, StillFrame

LEMMA UniqueEclsAlways == Spec => []UniqueEcls
<1>1. Init => UniqueEcls
  <2> SUFFICES ASSUME Init PROVE UniqueEcls
    OBVIOUS
  <2>1. DOMAIN hists = {1} /\ sols = {}
    BY DEF Init
  <2> QED
    BY <2>1 DEF UniqueEcls
<1>2. IInv /\ Searching /\ Searching' /\ Labelled /\ UniqueEcls /\ [Next]_vars => UniqueEcls'
  BY UniqueEclsNext
<1> QED
  BY <1>1, <1>2, Invariant, SearchingAlways, LabelledAlways, PTL DEF Spec

LEMMA PlainNoContext ==
  ASSUME IInv, Labelled, IsPlain(net), NEW e \in DOMAIN events
  PROVE  events[e].cont = {}
<1>1. events[e].ft \in net.trans \cup {T0}
  BY LabelFacts
<1>2. net.cont[T0] = {} /\ \A t \in net.trans : net.cont[t] = {}
  BY NetsAssumption DEF IInv, TypeOK, IsNet, IsPlain
<1>3. net.cont[events[e].ft] = {}
  BY <1>1, <1>2
<1> QED
  BY <1>3, LabelFacts

LEMMA OfPlainNetsNext ==
  ASSUME IInv, Labelled, OfPlainNets, [Next]_vars
  PROVE  OfPlainNets'
<1> SUFFICES ASSUME IsPlain(net)'
             PROVE  OfPlainNets'
  BY DEF OfPlainNets
<1>0. net' = net
  BY StepCases, StillFrame, EnrichesFrame, SolveFrame, AddFrame
<1>p. IsPlain(net)
  BY <1>0 DEF IsPlain
<1>h. /\ \A x, y \in DOMAIN hists : hists[x].e = hists[y].e => x = y
      /\ \A r, q \in DOMAIN ecs : ecs[r].c = ecs[q].c => r = q
      /\ \A r \in DOMAIN ecs : /\ conds[ecs[r].c].pre = hists[ecs[r].h].e
                               /\ ecs[r].hs = {ecs[r].h}
                               /\ ecs[r].c \notin gens
      /\ reads = {} /\ combine = {}
  BY <1>p DEF OfPlainNets
<1>1. CASE Still
  BY <1>1, <1>h, StillFrame DEF OfPlainNets
<1>2. ASSUME NEW c \in gens, Generate(c), ~ Still PROVE OfPlainNets'
  <2> DEFINE ec == EcOf(c, cur)
  <2>1. Enriches(ec) /\ gens' = gens \ {c} /\ UNCHANGED <<reads, reader, combine>>
        /\ ec.hs = {cur}
    BY <1>2, GenerateCases
  <2>2. /\ DOMAIN ecs' = DOMAIN ecs \cup {Newest + 1} /\ Newest + 1 \notin DOMAIN ecs
        /\ \A r \in DOMAIN ecs : ecs'[r] = ecs[r]
        /\ ecs'[Newest + 1] = ec
        /\ UNCHANGED <<conds, hists>>
    BY <2>1, EnrichesFrame
  <2>3. ec.c = c /\ ec.h = cur
    BY DEF EcOf
  <2>4. conds[c].pre = hists[cur].e
    BY DEF IInv, Linked, EventPost
  <2> HIDE DEF ec
  <2>5. \A r, q \in DOMAIN ecs' : ecs'[r].c = ecs'[q].c => r = q
    <3>1. \A r \in DOMAIN ecs : ecs[r].c # c
      BY <1>h
    <3> QED
      BY <1>h, <2>2, <2>3, <3>1
  <2>6. \A r \in DOMAIN ecs' : /\ conds'[ecs'[r].c].pre = hists'[ecs'[r].h].e
                              /\ ecs'[r].hs = {ecs'[r].h}
                              /\ ecs'[r].c \notin gens'
    BY <1>h, <2>1, <2>2, <2>3, <2>4
  <2> QED
    BY <1>h, <2>1, <2>2, <2>5, <2>6 DEF OfPlainNets
<1>3. ASSUME NEW c \in reads, Read(c) PROVE FALSE
  BY <1>h
<1>4. ASSUME NEW rp \in combine, Combine(rp) PROVE FALSE
  BY <1>h
<1>5. ASSUME NEW s \in sols, Solve(s) PROVE OfPlainNets'
  <2>0. PICK id : id = Len(hists) + 1
    OBVIOUS
  <2> DEFINE e == EventOf(s)
  <2>1. /\ UNCHANGED <<conds, ecs, gens, reads, combine>>
        /\ DOMAIN hists' = DOMAIN hists \cup {id} /\ id \notin DOMAIN hists
        /\ \A x \in DOMAIN hists : hists'[x] = hists[x]
        /\ hists'[id] = NewHistory(events', e, Nod(s), Ecl(s))
    BY <1>5, <2>0, SolveFrame
  <2>2. hists'[id].e = e
    BY <2>1 DEF NewHistory
  <2>3. e \notin DOMAIN events
    <3>1. InstancesOf(s) = {}
      BY <1>p DEF InstancesOf
    <3> QED
      BY <1>5, <3>1, SolveEvent
  <2> HIDE DEF e
  <2>4. \A x \in DOMAIN hists : hists[x].e # e
    BY <2>3, Elements DEF IInv, HistType
  <2>5. \A x, y \in DOMAIN hists' : hists'[x].e = hists'[y].e => x = y
    BY <1>h, <2>1, <2>2, <2>4
  <2>6. \A r \in DOMAIN ecs : ecs[r].h \in DOMAIN hists
    <3>1. \A r \in DOMAIN ecs : ecs[r].hs = {ecs[r].h} /\ ecs[r].hs \subseteq DOMAIN hists
      BY <1>h, Elements DEF IInv, EcType
    <3> QED
      BY <3>1
  <2> QED
    BY <1>h, <2>1, <2>5, <2>6 DEF OfPlainNets
<1>6. ASSUME NEW h \in queue, Pops(h) PROVE OfPlainNets'
  <2> DEFINE e == hists[h].e
  <2>1. /\ UNCHANGED <<ecs, combine>> /\ combine = {}
        /\ DOMAIN conds \subseteq DOMAIN conds'
        /\ \A c \in DOMAIN conds : conds'[c] = conds[c]
    BY <1>6, AddFrame
  <2>2. /\ h \in DOMAIN hists /\ DOMAIN hists' = DOMAIN hists
        /\ \A x \in DOMAIN hists : hists'[x].e = hists[x].e
    BY <1>6, AddHists DEF Pops
  <2>3. gens' \subseteq {c \in DOMAIN conds' : conds'[c].pre = e}
    BY <1>6 DEF Pops, Add, GensOf
  <2>4. reads' = {}
    <3>1. e \in DOMAIN events
      BY <2>2, Elements DEF IInv, HistType
    <3>2. events[e].cont = {}
      BY <1>p, <3>1, PlainNoContext
    <3> QED
      BY <1>6, <3>2 DEF Pops, Add, ReadsOf
  <2> HIDE DEF e
  <2>5. ASSUME NEW r \in DOMAIN ecs
        PROVE  /\ conds'[ecs[r].c].pre = hists'[ecs[r].h].e
               /\ ecs[r].c \notin gens'
    <3>1. ecs[r].c \in DOMAIN conds /\ ecs[r].hs \subseteq DOMAIN hists /\ ecs[r].hs = {ecs[r].h}
      BY <1>h, Elements DEF IInv, EcType
    <3>2. ecs[r].h \in DOMAIN hists /\ hists[ecs[r].h].corr = 0
      BY <3>1 DEF IInv, EcsOfNonCutoffs
    <3>3. conds'[ecs[r].c].pre = hists[ecs[r].h].e
      BY <1>h, <2>1, <3>1
    <3>4. hists[h].corr # 0
      BY <2>2, Elements DEF IInv, Discipline
    <3>5. ecs[r].h # h
      BY <3>2, <3>4
    <3>6. hists[ecs[r].h].e # e
      BY <1>h, <2>2, <3>2, <3>5 DEF e
    <3> QED
      BY <2>2, <2>3, <3>2, <3>3, <3>6
  <2> QED
    BY <1>h, <2>1, <2>2, <2>4, <2>5 DEF OfPlainNets
<1>7. ASSUME NEW h \in queue, Pop(h) \/ Pick(h) PROVE Pops(h)
  BY <1>7 DEF Pop, Pick, Pops
<1>8. CASE Quit \/ UNCHANGED vars
  BY <1>1, <1>8 DEF Quit, vars, Still
<1> QED
  BY <1>1, <1>2, <1>3, <1>4, <1>5, <1>6, <1>7, <1>8 DEF Next

LEMMA OfPlainNetsAlways == Spec => []OfPlainNets
<1>1. Init => OfPlainNets
  <2> SUFFICES ASSUME Init PROVE OfPlainNets
    OBVIOUS
  <2>1. DOMAIN hists = {1} /\ ecs = <<>> /\ reads = {} /\ combine = {}
    BY DEF Init
  <2> QED
    BY <2>1 DEF OfPlainNets
<1>2. IInv /\ Labelled /\ OfPlainNets /\ [Next]_vars => OfPlainNets'
  BY OfPlainNetsNext
<1> QED
  BY <1>1, <1>2, Invariant, LabelledAlways, PTL DEF Spec

-----------------------------------------------------------------------------
(* The shortcuts of _pe_comb_instance_of lose no occurrence: an event that *)
(* a solution is about to allocate is not there.                           *)
LEMMA NewEventIsNew ==
  ASSUME IInv, Searching, Labelled, Grounded, UniqueEcls, OfPlainNets,
         NEW s \in sols, InstancesOf(s) = {},
         NEW f \in DOMAIN events,
         events[f].ft = s.t,
         events[f].pre = Chosen(s, net.pre[s.t]),
         events[f].cont = Chosen(s, net.cont[s.t])
  PROVE  FALSE
<1> DEFINE c == ecs[Newest].c
           all == Chosen(s, DOMAIN s.at)
           alone(r) == \A y \in DOMAIN ecs : ecs[y].c = ecs[r].c => y = r
<1>1. /\ net.pre[s.t] \cup net.cont[s.t] = DOMAIN s.at
      /\ Ecl(s) \subseteq DOMAIN ecs
  BY SolutionFacts
<1>2. events[f].pre \cup events[f].cont = all
  BY <1>1 DEF Chosen
<1>3. \/ IsPlain(net)
      \/ conds[c].fp \in net.pre[s.t]  /\ Consumers(c) = {}
      \/ conds[c].fp \in net.cont[s.t] /\ Readers(c) = {}
      \/ \A p \in DOMAIN s.at : alone(s.at[p])
  BY <1>2 DEF InstancesOf
<1>4. PICK x \in DOMAIN hists : hists[x].e = f
  BY DEF Grounded
<1>5. /\ Footing(x) /\ hists[x].ecl # Ecl(s)
      /\ hists[x].ecl \subseteq DOMAIN ecs
  BY <1>4, Elements DEF Grounded, UniqueEcls, IInv, HistType
<1>6. {ecs[r].c : r \in hists[x].ecl} = {ecs[r].c : r \in Ecl(s)}
  <2>1. {ecs[r].c : r \in Ecl(s)} = all
    BY DEF Chosen, Ecl
  <2>2. {ecs[r].c : r \in hists[x].ecl} = events[f].pre \cup events[f].cont
    BY <1>4, <1>5 DEF Footing
  <2> QED
    BY <1>2, <2>1, <2>2
<1>7. PICK p \in DOMAIN s.at : s.at[p] = Newest /\ conds[c].fp = p
  BY DEF Searching, Ecl, Place
<1>8. /\ conds[c].fp \in net.pre[s.t] => c \in events[f].pre
      /\ conds[c].fp \in net.cont[s.t] => c \in events[f].cont
  BY <1>7 DEF Chosen
<1>9. \A r \in Ecl(s) : alone(r)
  <2>1. CASE IsPlain(net)
    BY <1>1, <2>1 DEF OfPlainNets
  <2>2. CASE \A q \in DOMAIN s.at : alone(s.at[q])
    BY <2>2 DEF Ecl
  <2> QED
    BY <1>3, <1>8, <2>1, <2>2 DEF Consumers, Readers
<1> HIDE DEF c, all
<1>10. \A r \in hists[x].ecl : r \in Ecl(s)
  <2> TAKE r \in hists[x].ecl
  <2>1. PICK q \in Ecl(s) : ecs[r].c = ecs[q].c
    BY <1>6
  <2> QED
    BY <1>5, <1>9, <2>1
<1>11. \A q \in Ecl(s) : q \in hists[x].ecl
  <2> TAKE q \in Ecl(s)
  <2>1. PICK r \in hists[x].ecl : ecs[r].c = ecs[q].c
    BY <1>6
  <2> QED
    BY <1>5, <1>9, <2>1
<1> QED
  BY <1>5, <1>10, <1>11

LEMMA NoDuplicateEventsNext ==
  ASSUME IInv, Searching, Labelled, Grounded, UniqueEcls, OfPlainNets,
         NoDuplicateEvents, [Next]_vars
  PROVE  NoDuplicateEvents'
<1>1. CASE UNCHANGED events
  BY <1>1 DEF NoDuplicateEvents
<1>2. ASSUME NEW s \in sols, Solve(s) PROVE NoDuplicateEvents'
  <2>1. CASE InstancesOf(s) # {}
    <3>1. events' = events
      BY <1>2, <2>1, SolveEvent
    <3> QED
      BY <1>1, <3>1
  <2>2. CASE InstancesOf(s) = {}
    <3> DEFINE e == EventOf(s)
    <3>1. /\ DOMAIN events' = DOMAIN events \cup {e}
          /\ events'[e] = NewEvent(s)
      BY <1>2, <2>2, SolveEvent
    <3>2. \A x \in DOMAIN events : events'[x] = events[x]
      BY <1>2, SolveEvent
    <3>3. /\ events'[e].ft = s.t
          /\ events'[e].pre = Chosen(s, net.pre[s.t])
          /\ events'[e].cont = Chosen(s, net.cont[s.t])
      BY <3>1 DEF NewEvent
    <3> HIDE DEF e
    <3>4. \A f \in DOMAIN events :
            ~ /\ events[f].ft = events'[e].ft
              /\ events[f].pre = events'[e].pre
              /\ events[f].cont = events'[e].cont
      BY <2>2, <3>3, NewEventIsNew
    <3> SUFFICES ASSUME NEW x \in DOMAIN events', NEW y \in DOMAIN events',
                        events'[x].ft = events'[y].ft,
                        events'[x].pre = events'[y].pre,
                        events'[x].cont = events'[y].cont
                 PROVE  x = y
      BY DEF NoDuplicateEvents
    <3>5. CASE x \in DOMAIN events /\ y \in DOMAIN events
      BY <3>2, <3>5 DEF NoDuplicateEvents
    <3>6. CASE x = e \/ y = e
      BY <3>1, <3>2, <3>4, <3>6
    <3> QED
      BY <3>1, <3>5, <3>6
  <2> QED
    BY <2>1, <2>2
<1>3. ASSUME NEW h \in queue, Pops(h) PROVE NoDuplicateEvents'
  BY <1>3, AddEvents DEF Pops, NoDuplicateEvents
<1> QED
  BY <1>1, <1>2, <1>3, StepCases, StillFrame, EnrichesFrame

(* An event is allocated once, whatever enriched conditions of the same    *)
(* conditions the later histories of it are found on.                      *)
THEOREM EventsUnique == Spec => []NoDuplicateEvents
<1>1. Init => NoDuplicateEvents
  <2> SUFFICES ASSUME Init PROVE NoDuplicateEvents
    OBVIOUS
  <2>1. events = <<[ft |-> T0, pre |-> {}, cont |-> {}, iscutoff |-> FALSE]>>
    BY DEF Init
  <2>2. DOMAIN events = {1}
    BY <2>1
  <2> QED
    BY <2>2 DEF NoDuplicateEvents
<1>2. IInv /\ Searching /\ Labelled /\ Grounded /\ UniqueEcls /\ OfPlainNets
        /\ NoDuplicateEvents /\ [Next]_vars => NoDuplicateEvents'
  BY NoDuplicateEventsNext
<1> QED
  BY <1>1, <1>2, Invariant, SearchingAlways, LabelledAlways, GroundedAlways,
     UniqueEclsAlways, OfPlainNetsAlways, PTL DEF Spec

-----------------------------------------------------------------------------
(* The size of the concurrency relation.                                   *)

LEMMA DisjointUnion ==
  ASSUME NEW S, NEW T, IsFiniteSet(S), IsFiniteSet(T), S \cap T = {}
  PROVE  /\ IsFiniteSet(S \cup T)
         /\ Cardinality(S) \in Nat /\ Cardinality(T) \in Nat
         /\ Cardinality(S \cup T) = Cardinality(S) + Cardinality(T)
<1>1. /\ IsFiniteSet(S \cup T)
      /\ Cardinality(S \cup T) = Cardinality(S) + Cardinality(T) - Cardinality(S \cap T)
  BY FS_Union
<1>2. Cardinality(S \cap T) = 0
  BY FS_EmptySet
<1>3. Cardinality(S) \in Nat /\ Cardinality(T) \in Nat
  BY FS_CardinalityType
<1> QED
  BY <1>1, <1>2, <1>3

(* The pairs of a new enriched condition with a set of old ones are fresh, *)
(* and two for each of these.                                              *)
LEMMA BothCount ==
  ASSUME NEW D, IsFiniteSet(D), NEW C \in SUBSET (D \X D), IsFiniteSet(C),
         NEW X \in SUBSET D, NEW r, r \notin D
  PROVE  /\ IsFiniteSet(C \cup Both(r, X))
         /\ Cardinality(X) \in Nat /\ Cardinality(C) \in Nat
         /\ Cardinality(C \cup Both(r, X)) = Cardinality(C) + 2 * Cardinality(X)
<1> DEFINE A == {<<r, x>> : x \in X}
           B == {<<x, r>> : x \in X}
           f == [x \in X |-> <<r, x>>]
           g == [x \in X |-> <<x, r>>]
<1>1. IsFiniteSet(X) /\ Cardinality(X) \in Nat /\ Cardinality(C) \in Nat
  BY FS_Subset, FS_CardinalityType
<1>2. f \in Surjection(X, A) /\ f \in Injection(X, A)
  BY DEF Surjection, Injection, IsInjective
<1>3. g \in Surjection(X, B) /\ g \in Injection(X, B)
  BY DEF Surjection, Injection, IsInjective
<1>4. A \cap B = {} /\ C \cap (A \cup B) = {}
  OBVIOUS
<1>5. Both(r, X) = A \cup B
  BY DEF Both
<1> HIDE DEF A, B, f, g
<1>6. /\ IsFiniteSet(A) /\ Cardinality(A) = Cardinality(X)
      /\ IsFiniteSet(B) /\ Cardinality(B) = Cardinality(X)
  BY <1>1, <1>2, <1>3, FS_Surjection
<1>7. IsFiniteSet(A \cup B) /\ Cardinality(A \cup B) = 2 * Cardinality(X)
  <2>1. /\ IsFiniteSet(A \cup B)
        /\ Cardinality(A \cup B) = Cardinality(A) + Cardinality(B)
    BY <1>4, <1>6, DisjointUnion
  <2> QED
    BY <1>1, <1>6, <2>1
<1>8. /\ IsFiniteSet(C \cup (A \cup B))
      /\ Cardinality(C \cup (A \cup B)) = Cardinality(C) + 2 * Cardinality(X)
  BY <1>1, <1>4, <1>7, DisjointUnion
<1> QED
  BY <1>1, <1>5, <1>8

(* The relation is finite, and no pair mentions what is not there yet.     *)
LEMMA CoFinite ==
  ASSUME TypeOK
  PROVE  /\ IsFiniteSet(DOMAIN ecs) /\ IsFiniteSet(co)
         /\ co \in SUBSET ((DOMAIN ecs) \X (DOMAIN ecs))
         /\ Newest + 1 \notin DOMAIN ecs
<1>1. DOMAIN ecs = 1..Len(ecs) /\ Len(ecs) \in Nat
  BY Elements
<1>2. IsFiniteSet(DOMAIN ecs)
  BY <1>1, FS_Interval
<1>3. co \in SUBSET ((DOMAIN ecs) \X (DOMAIN ecs))
  BY DEF TypeOK
<1>4. IsFiniteSet((DOMAIN ecs) \X (DOMAIN ecs))
  BY <1>2, FS_Product
<1>5. IsFiniteSet(co)
  BY <1>3, <1>4, FS_Subset
<1>6. Newest + 1 \notin DOMAIN ecs
  BY <1>1 DEF Newest
<1> QED
  BY <1>2, <1>3, <1>5, <1>6

(* What the event of a history consumes is neither among the siblings nor  *)
(* among the compatible conditions of a new enriched condition.            *)
LEMMA BlackApart ==
  ASSUME IInv, Labelled, NEW c, NEW g \in DOMAIN ecs, ecs[g].c \in Black(cur)
  PROVE  g \notin Siblings(c, cur) /\ g \notin Compatible(cur)
<1> DEFINE e == hists[cur].e
<1>1. e \in DOMAIN events
  BY Elements DEF IInv, TypeOK, HistType
<1>2. ecs[g].c \in events[e].pre
  BY DEF Black
<1>3. ecs[g].c \notin events[e].cont
  BY <1>1, <1>2, LabelFacts
<1>4. ecs[g].c \notin EventPost(e)
  <2>1. ecs[g].c \in DOMAIN conds
    BY Elements DEF IInv, EcType
  <2>2. conds[ecs[g].c].pre < e /\ conds[ecs[g].c].pre \in Nat /\ e \in Nat
    BY <1>1, <1>2, <2>1, Elements DEF IInv, Causal, CondType
  <2> QED
    BY <2>2 DEF EventPost
<1> QED
  BY <1>3, <1>4 DEF Siblings, Compatible, Candidates

LEMMA NotBlackEnrich ==
  ASSUME IInv, Labelled, NotBlack, NEW c, Enrich(c, cur), Enriches(EcOf(c, cur))
  PROVE  NotBlack'
<1>1. /\ DOMAIN ecs' = DOMAIN ecs \cup {Newest + 1}
      /\ \A r \in DOMAIN ecs : ecs'[r] = ecs[r]
      /\ ecs'[Newest + 1] = EcOf(c, cur)
      /\ UNCHANGED <<events, hists, cur>>
  BY EnrichesFrame
<1>2. /\ co \in SUBSET ((DOMAIN ecs) \X (DOMAIN ecs))
      /\ Newest + 1 \notin DOMAIN ecs
  BY CoFinite DEF IInv
<1> DEFINE X == Siblings(c, cur) \cup {rp \in Compatible(cur) : ecs[rp].c # c}
<1>3. co' = co \cup Both(Newest + 1, X)
  BY DEF Enrich
<1>4. \A g \in DOMAIN ecs : ecs[g].c \in Black(cur) => g \notin X
  BY BlackApart
<1>5. \A h \in DOMAIN hists : hists[h].ecl \subseteq DOMAIN ecs
  BY Elements DEF IInv, HistType
<1> HIDE DEF X
<1> SUFFICES ASSUME NEW r \in DOMAIN ecs', ~ IsComp(r)',
                    NEW g \in hists[ecs'[r].h].ecl, ecs'[g].c \in Black(ecs'[r].h)
             PROVE  <<g, r>> \notin co'
  BY <1>1 DEF NotBlack, Black
<1>6. CASE r \in DOMAIN ecs
  <2>1. ecs'[r] = ecs[r] /\ ~ IsComp(r) /\ ecs[r].h \in DOMAIN hists
    BY <1>1, <1>6, Elements DEF IsComp, IInv, EcType
  <2>2. g \in DOMAIN ecs /\ ecs'[g] = ecs[g]
    BY <1>1, <1>5, <2>1
  <2>3. <<g, r>> \notin co
    BY <1>6, <2>1, <2>2 DEF NotBlack
  <2>4. <<g, r>> \notin Both(Newest + 1, X)
    BY <1>2, <1>6, <2>2 DEF Both
  <2> QED
    BY <1>3, <2>3, <2>4
<1>7. CASE r = Newest + 1
  <2>1. ecs'[r].h = cur /\ cur \in DOMAIN hists
    BY <1>1, <1>7 DEF EcOf, IInv, TypeOK
  <2>2. g \in DOMAIN ecs /\ ecs'[g] = ecs[g]
    BY <1>1, <1>5, <2>1
  <2>3. g \notin X
    BY <1>4, <2>1, <2>2
  <2>4. <<g, r>> \notin Both(Newest + 1, X)
    BY <1>2, <1>7, <2>2, <2>3 DEF Both
  <2> QED
    BY <1>2, <1>3, <1>7, <2>4
<1> QED
  BY <1>1, <1>6, <1>7

LEMMA NotBlackNext ==
  ASSUME IInv, Labelled, NotBlack, [Next]_vars
  PROVE  NotBlack'
<1>0. \A h \in DOMAIN hists : /\ hists[h].ecl \subseteq DOMAIN ecs
                              /\ hists[h].e \in DOMAIN events
  BY Elements DEF IInv, HistType
<1>00. \A r \in DOMAIN ecs : ~ IsComp(r) => ecs[r].h \in DOMAIN hists
  BY Elements DEF IInv, EcType, IsComp
<1>1. CASE Still
  BY <1>1, StillFrame DEF NotBlack, Black, IsComp
<1>2. ASSUME NEW c \in gens, Generate(c), ~ Still PROVE NotBlack'
  BY <1>2, GenerateCases, NotBlackEnrich
<1>3. ASSUME NEW c \in reads, Read(c), ~ Still PROVE NotBlack'
  BY <1>3, ReadCases, NotBlackEnrich
<1>4. ASSUME NEW rp \in combine, Combine(rp) PROVE NotBlack'
  <2> DEFINE ec == EcCompound(reader, rp)
             X  == {x \in DOMAIN ecs : <<reader, x>> \in co /\ <<rp, x>> \in co}
  <2>1. Enriches(ec) /\ EnrichCompound(reader, rp)
    BY <1>4, CombineCases
  <2>2. /\ DOMAIN ecs' = DOMAIN ecs \cup {Newest + 1} /\ Newest + 1 \notin DOMAIN ecs
        /\ \A r \in DOMAIN ecs : ecs'[r] = ecs[r]
        /\ ecs'[Newest + 1] = ec
        /\ UNCHANGED <<events, hists, cur>>
    BY <2>1, EnrichesFrame
  <2>3. ec.h = 0
    BY DEF EcCompound
  <2>4. co' = co \cup Both(Newest + 1, X)
    BY <2>1 DEF EnrichCompound
  <2> HIDE DEF ec, X
  <2> SUFFICES ASSUME NEW r \in DOMAIN ecs', ~ IsComp(r)',
                      NEW g \in hists[ecs'[r].h].ecl, ecs'[g].c \in Black(ecs'[r].h)
               PROVE  <<g, r>> \notin co'
    BY <2>2 DEF NotBlack, Black
  <2>5. r \in DOMAIN ecs /\ ecs'[r] = ecs[r] /\ ~ IsComp(r)
    BY <2>2, <2>3 DEF IsComp
  <2>6. g \in DOMAIN ecs /\ ecs'[g] = ecs[g] /\ g \in hists[ecs[r].h].ecl
    BY <1>0, <1>00, <2>2, <2>5
  <2>7. <<g, r>> \notin co
    BY <2>5, <2>6 DEF NotBlack
  <2>8. <<g, r>> \notin Both(Newest + 1, X)
    BY <2>2, <2>5, <2>6 DEF Both
  <2> QED
    BY <2>4, <2>7, <2>8
<1>5. ASSUME NEW s \in sols, Solve(s) PROVE NotBlack'
  <2>1. UNCHANGED <<ecs, co>> /\ \A x \in DOMAIN hists : hists'[x] = hists[x]
    BY <1>5, SolveFrame
  <2>2. \A x \in DOMAIN events : events'[x] = events[x]
    BY <1>5, SolveEvent
  <2>3. \A r \in DOMAIN ecs : ~ IsComp(r) =>
          /\ hists'[ecs[r].h].ecl = hists[ecs[r].h].ecl
          /\ events'[hists'[ecs[r].h].e].pre = Black(ecs[r].h)
    BY <1>0, <1>00, <2>1, <2>2 DEF Black
  <2> QED
    BY <2>1, <2>3 DEF NotBlack, Black, IsComp
<1>6. ASSUME NEW h \in queue, Pop(h) \/ Pick(h) PROVE NotBlack'
  <2>0. Pops(h)
    BY <1>6 DEF Pop, Pick, Pops
  <2>1. /\ UNCHANGED <<ecs, co>>
        /\ \A x \in DOMAIN hists : hists'[x].e = hists[x].e /\ hists'[x].ecl = hists[x].ecl
    BY <2>0, AddFrame, AddHists DEF Pops
  <2>2. \A x \in DOMAIN events : events'[x].pre = events[x].pre
    BY <2>0, AddEvents DEF Pops
  <2>3. \A r \in DOMAIN ecs : ~ IsComp(r) =>
          /\ hists'[ecs[r].h].ecl = hists[ecs[r].h].ecl
          /\ events'[hists'[ecs[r].h].e].pre = Black(ecs[r].h)
    BY <1>0, <1>00, <2>1, <2>2 DEF Black
  <2> QED
    BY <2>1, <2>3 DEF NotBlack, Black, IsComp
<1>7. CASE Quit \/ UNCHANGED vars
  BY <1>1, <1>7 DEF Quit, vars, Still
<1> QED
  BY <1>1, <1>2, <1>3, <1>4, <1>5, <1>6, <1>7 DEF Next

LEMMA NotBlackAlways == Spec => []NotBlack
<1>1. Init => NotBlack
  <2> SUFFICES ASSUME Init PROVE NotBlack
    OBVIOUS
  <2>1. ecs = <<>>
    BY DEF Init
  <2> QED
    BY <2>1 DEF NotBlack
<1>2. IInv /\ Labelled /\ NotBlack /\ [Next]_vars => NotBlack'
  BY NotBlackNext
<1> QED
  BY <1>1, <1>2, Invariant, LabelledAlways, PTL DEF Spec

LEMMA Consumes ==
  ASSUME IInv
  PROVE  \A t \in net.trans : net.pre[t] # {}
BY NetsAssumption DEF IInv, TypeOK, Consuming

(* The sibling pairs and those of the intersection are disjoint: what is   *)
(* concurrent with everything the event of cur stands on does not have the *)
(* history cur, because of what that event consumes.                       *)
LEMMA SiblingsApart ==
  ASSUME IInv, Labelled, Grounded, NotBlack, NEW c
  PROVE  Siblings(c, cur) \cap Compatible(cur) = {}
<1> SUFFICES ASSUME NEW x \in Siblings(c, cur), x \in Compatible(cur)
             PROVE  FALSE
  OBVIOUS
<1> DEFINE e == hists[cur].e
<1>1. cur \in DOMAIN hists /\ e \in DOMAIN events /\ cur # 0
  <2>1. TypeOK /\ cur \in DOMAIN hists
    BY DEF IInv, TypeOK
  <2>2. hists[cur] \in HistType /\ DOMAIN hists = 1..Len(hists) /\ Len(hists) \in Nat
    BY <2>1, Elements
  <2> QED
    BY <2>1, <2>2 DEF HistType
<1>2. x \in DOMAIN ecs /\ ecs[x].h = cur /\ ~ IsComp(x)
  BY <1>1 DEF Siblings, IsComp
<1>3. /\ hists[cur].ecl # {}
      /\ \A ri \in hists[cur].ecl : ecs[ri].c \in Black(cur) => <<ri, x>> \in co
  BY DEF Compatible, Candidates
<1>4. \A ri \in hists[cur].ecl : ecs[ri].c \in events[e].pre \cup events[e].cont
  BY <1>1 DEF Grounded, Footing
<1>5. e # 1
  BY <1>1, <1>3, <1>4, LabelFacts
<1>6. events[e].pre # {}
  BY <1>1, <1>5, Consumes, LabelFacts
<1>7. PICK d \in events[e].pre : TRUE
  BY <1>6
<1>8. PICK g \in hists[cur].ecl : ecs[g].c = d
  BY <1>1, <1>7 DEF IInv, Linked
<1>9. <<g, x>> \in co
  BY <1>3, <1>7, <1>8 DEF Black
<1>10. ecs[g].c \in Black(cur)
  BY <1>7, <1>8 DEF Black
<1> QED
  BY <1>2, <1>8, <1>9, <1>10 DEF NotBlack

LEMMA CountEnrich ==
  ASSUME IInv, Labelled, Grounded, NotBlack, ConcurrencyCount, NEW c, Enrich(c, cur)
  PROVE  ConcurrencyCount'
<1> DEFINE sib  == Siblings(c, cur)
           conc == {rp \in Compatible(cur) : ecs[rp].c # c}
<1>1. /\ co' = co \cup Both(Newest + 1, sib \cup conc)
      /\ numco' = numco + 2 * (Cardinality(sib) + Cardinality(conc))
  BY DEF Enrich
<1>2. sib \subseteq DOMAIN ecs /\ conc \subseteq DOMAIN ecs
  BY DEF Siblings, Compatible, Candidates
<1>3. sib \cap conc = {}
  BY SiblingsApart
<1> HIDE DEF sib, conc
<1>4. /\ IsFiniteSet(DOMAIN ecs) /\ IsFiniteSet(co)
      /\ co \in SUBSET ((DOMAIN ecs) \X (DOMAIN ecs))
      /\ Newest + 1 \notin DOMAIN ecs
  BY CoFinite DEF IInv
<1>5. IsFiniteSet(sib) /\ IsFiniteSet(conc)
  BY <1>2, <1>4, FS_Subset
<1>6. Cardinality(sib \cup conc) = Cardinality(sib) + Cardinality(conc)
  BY <1>3, <1>5, DisjointUnion
<1> DEFINE X == sib \cup conc
<1>7. X \in SUBSET DOMAIN ecs
  BY <1>2
<1> HIDE DEF X
<1>8. Cardinality(co \cup Both(Newest + 1, X)) = Cardinality(co) + 2 * Cardinality(X)
  BY <1>4, <1>7, BothCount
<1> QED
  BY <1>1, <1>6, <1>8 DEF ConcurrencyCount, X

LEMMA ConcurrencyCountNext ==
  ASSUME IInv, Labelled, Grounded, NotBlack, ConcurrencyCount, [Next]_vars
  PROVE  ConcurrencyCount'
<1>1. CASE UNCHANGED <<co, numco>>
  BY <1>1 DEF ConcurrencyCount
<1>2. ASSUME NEW c \in gens, Generate(c), ~ Still PROVE ConcurrencyCount'
  BY <1>2, GenerateCases, CountEnrich
<1>3. ASSUME NEW c \in reads, Read(c), ~ Still PROVE ConcurrencyCount'
  BY <1>3, ReadCases, CountEnrich
<1>4. ASSUME NEW rp \in combine, Combine(rp) PROVE ConcurrencyCount'
  <2> DEFINE X == {x \in DOMAIN ecs : <<reader, x>> \in co /\ <<rp, x>> \in co}
  <2>1. EnrichCompound(reader, rp)
    BY <1>4, CombineCases
  <2>2. co' = co \cup Both(Newest + 1, X) /\ numco' = numco + 2 * Cardinality(X)
    BY <2>1 DEF EnrichCompound
  <2>3. X \in SUBSET DOMAIN ecs
    OBVIOUS
  <2> HIDE DEF X
  <2>4. Cardinality(co \cup Both(Newest + 1, X)) = Cardinality(co) + 2 * Cardinality(X)
    BY <2>3, CoFinite, BothCount DEF IInv
  <2> QED
    BY <2>2, <2>4 DEF ConcurrencyCount
<1>5. ASSUME NEW s \in sols, Solve(s) PROVE ConcurrencyCount'
  BY <1>1, <1>5, SolveFrame
<1>6. ASSUME NEW h \in queue, Pop(h) \/ Pick(h) PROVE ConcurrencyCount'
  BY <1>1, <1>6, AddFrame DEF Pop, Pick, Pops
<1>7. CASE Still \/ Quit \/ UNCHANGED vars
  BY <1>1, <1>7, StillFrame DEF Quit, vars, Still
<1> QED
  BY <1>2, <1>3, <1>4, <1>5, <1>6, <1>7 DEF Next

(* The counter of the concurrency relation is its size, on the nets of     *)
(* NetsAssumption, where no list co holds a pair twice.                    *)
LEMMA ConcurrencyCounted == Spec => []ConcurrencyCount
<1>1. Init => ConcurrencyCount
  BY FS_EmptySet DEF Init, ConcurrencyCount
<1>2. IInv /\ Labelled /\ Grounded /\ NotBlack /\ ConcurrencyCount /\ [Next]_vars
        => ConcurrencyCount'
  BY ConcurrencyCountNext
<1> QED
  BY <1>1, <1>2, Invariant, LabelledAlways, GroundedAlways, NotBlackAlways, PTL DEF Spec
=============================================================================
