---------------------------- MODULE ReadpepProofs ----------------------------
(***************************************************************************)
(* The tables of the reader of PEP files, the net it makes and its verdict,*)
(* for files of any length with any ints for numbers, negative ones too,   *)
(* and tables of any first size and growth.                                *)
(***************************************************************************)
EXTENDS Readpep, TLAPS

PlaceLine == [ident : Int, marked : Int]
TransLine == [ident : Int]
ArcLine   == (Int \X Int) \cup {<<>>}

(* Sequences of lines, and counters of nodes.                              *)
Files ==
  [blocks : Seq(Keywords), PL : Seq(PlaceLine), TR : Seq(TransLine),
   TP : Seq(ArcLine), PT : Seq(ArcLine), RA : Seq(ArcLine)]

Shapes ==
  /\ file \in Files
  /\ {"numpl", "numtr"} \subseteq DOMAIN net
  /\ net.numpl \in Nat /\ net.numtr \in Nat

(* Transitions have been read only if the block of places is over.         *)
Later ==
  /\ blocks \in 0..Len(netblocks)
  /\ file.TR # <<>> => blocks > 6

Inv == Shapes /\ Later /\ IInv

-----------------------------------------------------------------------------
(* The names of the blocks.                                                *)
LEMMA BlockNames ==
  /\ Len(netblocks) = 14
  /\ \A i \in 0..14 : blocks = i /\ Block = "PL" => i = 6
  /\ \A i \in 0..14 : blocks = i /\ Block = "TR" => i = 7
BY SMT DEF netblocks, Block

LEMMA LongerNotEmpty ==
  ASSUME NEW S, NEW lines \in Seq(S), NEW line \in S
  PROVE  Append(lines, line) # <<>>
<1>1. Len(Append(lines, line)) = Len(lines) + 1 /\ Len(lines) \in Nat
  OBVIOUS
<1>2. Len(<<>>) = 0
  OBVIOUS
<1> QED
  BY <1>1, <1>2

(* A line more does not change the identifiers of the others.              *)
LEMMA IdentsAppend ==
  ASSUME NEW S, NEW lines \in Seq(S), NEW line \in S
  PROVE  /\ DOMAIN Append(lines, line) = DOMAIN lines \cup {Len(lines) + 1}
         /\ \A i \in DOMAIN lines : IdentOf(Append(lines, line), i) = IdentOf(lines, i)
         /\ IdentOf(Append(lines, line), Len(lines) + 1) =
              IF line.ident = 0 THEN Len(lines) + 1 ELSE line.ident
         /\ Len(lines) \in Nat /\ DOMAIN lines = 1..Len(lines)
BY SMT DEF IdentOf

(* What Entered makes of a table.                                          *)
LEMMA EnteredTable ==
  ASSUME NEW t, NEW id \in Nat \ {0}, NEW node \in Int, NEW u,
         InBounds(t), Entered(t, id, node, u)
  PROVE  /\ InBounds(u)
         /\ t.anz <= u.anz /\ id <= u.anz /\ u.anz < u.max
         /\ u.arr[id] = node
         /\ \A j \in 1..u.anz : j # id => u.arr[j] = IF j <= t.anz THEN t.arr[j] ELSE NoNode
<1> DEFINE anz == IF id > t.anz THEN id ELSE t.anz
<1> PICK max \in Sizes :
      /\ max > anz
      /\ max >= t.max
      /\ u = [anz |-> anz,
              max |-> max,
              arr |-> [i \in 1..max - 1 |-> IF i = id THEN node
                                            ELSE IF i < t.max THEN t.arr[i] ELSE NoNode]]
  BY DEF Entered
<1>1. /\ t.anz \in Nat /\ t.max \in Nat /\ t.anz < t.max /\ DOMAIN t.arr = 1..t.max - 1
      /\ \A j \in 1..t.max - 1 : j > t.anz => t.arr[j] = NoNode
  BY DEF InBounds
<1>2. max \in Nat /\ max <= MAXINT
  BY SizesAssumption DEF Sizes
<1>3. /\ u.anz = anz /\ u.max = max /\ max \in Nat /\ anz \in Nat
      /\ u.arr = [i \in 1..max - 1 |-> IF i = id THEN node
                                       ELSE IF i < t.max THEN t.arr[i] ELSE NoNode]
  BY <1>1, <1>2
<1> HIDE DEF anz
<1>4. t.anz <= anz /\ id <= anz /\ anz < max
  BY <1>1 DEF anz
<1>5. \A j \in 1..max - 1 : u.arr[j] = IF j = id THEN node
                                     ELSE IF j < t.max THEN t.arr[j] ELSE NoNode
  BY <1>3
<1>6. \A j \in 1..max - 1 : j > anz => u.arr[j] = NoNode
  <2> TAKE j \in 1..max - 1
  <2> HAVE j > anz
  <2>1. j # id /\ j > t.anz
    BY <1>1, <1>3, <1>4
  <2>2. j < t.max => t.arr[j] = NoNode
    BY <1>1, <2>1
  <2> QED
    BY <1>5, <2>1, <2>2
<1>7. DOMAIN u.arr = 1..u.max - 1
  BY <1>3
<1>8. InBounds(u)
  BY <1>2, <1>3, <1>4, <1>6, <1>7 DEF InBounds
<1>9. \A j \in 1..anz : j \in 1..max - 1 /\ (j < t.max <=> j <= t.anz \/ j \in t.anz + 1..t.max - 1)
  BY <1>1, <1>3, <1>4
<1>10. \A j \in 1..anz : j # id => u.arr[j] = IF j <= t.anz THEN t.arr[j] ELSE NoNode
  <2> TAKE j \in 1..anz
  <2> HAVE j # id
  <2>1. CASE j <= t.anz
    BY <2>1, <1>1, <1>5, <1>9
  <2>2. CASE ~ j <= t.anz
    <3>1. j < t.max => t.arr[j] = NoNode
      BY <2>2, <1>1
    <3> QED
      BY <2>2, <3>1, <1>5, <1>9
  <2> QED
    BY <2>1, <2>2
<1>11. id \in 1..max - 1
  BY <1>3, <1>4
<1>12. u.arr[id] = node
  BY <1>5, <1>11
<1> QED
  BY <1>3, <1>4, <1>8, <1>10, <1>12

(* A table follows a line more.                                            *)
LEMMA EnteredTranslates ==
  ASSUME NEW S, NEW lines \in Seq(S), NEW line \in S, NEW t, NEW base \in {-1, 0},
         NEW u, NEW id \in Nat \ {0},
         InBounds(t), Translates(t, lines, base),
         id = IdentOf(Append(lines, line), Len(lines) + 1),
         ~ UsedTwice(t, id),
         Entered(t, id, base + Len(lines) + 1, u)
  PROVE  InBounds(u) /\ Translates(u, Append(lines, line), base)
<1> DEFINE n == Len(lines) + 1
           more == Append(lines, line)
<1>1. /\ DOMAIN more = DOMAIN lines \cup {n} /\ n \in Nat /\ DOMAIN lines = 1..n - 1
      /\ \A i \in DOMAIN lines : IdentOf(more, i) = IdentOf(lines, i)
  BY IdentsAppend
<1>2. id = IdentOf(more, n)
  OBVIOUS
<1> HIDE DEF more, n
<1>3. base + n \in Int /\ base + n = base + Len(lines) + 1 /\ t.anz \in Nat
  BY <1>1 DEF n, InBounds
<1>4. /\ InBounds(u)
      /\ t.anz <= u.anz /\ id <= u.anz /\ u.anz < u.max
      /\ u.arr[id] = base + n
      /\ \A j \in 1..u.anz : j # id => u.arr[j] = IF j <= t.anz THEN t.arr[j] ELSE NoNode
  BY EnteredTable, <1>3
<1>5. \A i \in DOMAIN lines : IdentOf(lines, i) \in 1..t.anz /\ t.arr[IdentOf(lines, i)] = base + i
  BY DEF Translates
<1>6. \A i \in DOMAIN lines : IdentOf(lines, i) # id
  BY <1>1, <1>5, SMT DEF UsedTwice, NoNode
<1>7. u.anz \in Nat /\ u.max \in Nat /\ DOMAIN u.arr = 1..u.max - 1
      /\ \A j \in DOMAIN u.arr : j > u.anz => u.arr[j] = NoNode
  BY <1>4 DEF InBounds
<1>8. ASSUME NEW i \in DOMAIN more
      PROVE  IdentOf(more, i) \in 1..u.anz /\ u.arr[IdentOf(more, i)] = base + i
  <2>1. CASE i = n
    BY <2>1, <1>2, <1>4, <1>7
  <2>2. CASE i \in DOMAIN lines
    <3>1. IdentOf(more, i) = IdentOf(lines, i)
      BY <2>2, <1>1
    <3>2. IdentOf(lines, i) \in 1..u.anz /\ IdentOf(lines, i) <= t.anz
      BY <2>2, <1>5, <1>4, <1>7, <1>3
    <3> QED
      BY <3>1, <3>2, <2>2, <1>4, <1>5, <1>6
  <2> QED
    BY <1>1, <2>1, <2>2
<1>9. ASSUME NEW j \in DOMAIN u.arr, u.arr[j] # NoNode
      PROVE  Names(more, j)
  <2>1. CASE j = id
    BY <2>1, <1>1, <1>2 DEF Names
  <2>2. CASE j # id
    <3>1. j \in 1..u.anz
      BY <1>7, <1>9
    <3>2. j <= t.anz /\ t.arr[j] # NoNode
      BY <3>1, <2>2, <1>4, <1>9
    <3>3. j \in DOMAIN t.arr
      BY <3>1, <3>2, <1>3 DEF InBounds
    <3>4. PICK i \in DOMAIN lines : IdentOf(lines, i) = j
      BY <3>2, <3>3 DEF Translates, Names
    <3> QED
      BY <3>4, <1>1 DEF Names
  <2> QED
    BY <2>1, <2>2
<1>10. Translates(u, more, base)
  BY <1>8, <1>9 DEF Translates
<1> QED
  BY <1>4, <1>10 DEF more

-----------------------------------------------------------------------------
(* The invariant Inv holds at first, and each action preserves it.         *)
LEMMA InitInv == Init => Inv
<1> SUFFICES ASSUME Init PROVE Inv
  OBVIOUS
<1>1. NAMES_START \in Nat \ {0} /\ NAMES_START <= MAXINT
  BY SizesAssumption
<1>2. /\ file = [blocks |-> <<>>, PL |-> <<>>, TR |-> <<>>, TP |-> <<>>, PT |-> <<>>,
                RA |-> <<>>]
      /\ blocks = 0
      /\ net = [numpl |-> 0, numtr |-> 0, marked |-> {}, pre |-> {}, post |-> {},
                cont |-> {}, isplain |-> TRUE]
  BY DEF Init
<1>3. file \in Files /\ file.TR = <<>>
  BY <1>2 DEF Files
<1>7. net.numpl = 0 /\ net.numtr = 0 /\ {"numpl", "numtr"} \subseteq DOMAIN net
  BY <1>2
<1>8. Shapes
  BY <1>3, <1>7 DEF Shapes
<1>9. Later
  BY <1>2, <1>3, BlockNames DEF Later
<1>4. InBounds(Table)
  BY <1>1 DEF Table, InBounds
<1>5. Translates(Table, <<>>, -1) /\ Translates(Table, <<>>, 0)
  BY <1>1 DEF Table, Translates
<1>6. Positional(<<>>)
  BY DEF Positional
<1> QED
  BY <1>3, <1>4, <1>5, <1>6, <1>7, <1>8, <1>9 DEF Init, Inv, IInv

(* What is left when the reader gives up, or is beyond its tables.         *)
Stops == Error \/ Undefined

LEMMA Stopped ==
  ASSUME Stops
  PROVE  /\ UNCHANGED <<blocks, blocktype, tp, auto, pl, tr, net>>
         /\ status' \in {"error", "undefined"}
         /\ Going' = FALSE
BY DEF Stops, Error, Undefined, Going

LEMMA StopsInv ==
  ASSUME Inv, Stops, Shapes', Later'
  PROVE  Inv'
<1>1. UNCHANGED <<pl, tr>> /\ Going' = FALSE
  BY Stopped
<1>2. InBounds(pl) /\ InBounds(tr)
  BY DEF Inv, IInv
<1>3. IInv'
  BY <1>1, <1>2 DEF IInv, InBounds
<1> QED
  BY <1>3 DEF Inv

(* A number that is not outside is positive, unless it is 0.               *)
LEMMA InsideIsNat == ASSUME NEW id \in Int, ~ Outside(id) PROVE id \in Nat
BY DEF Outside

LEMMA NumberIsInt ==
  ASSUME NEW ident \in Int, NEW count \in Int, NEW on
  PROVE  Number(ident, count, on) \in Int
BY DEF Number

(* Files with one line more, or one block.                                 *)
LEMMA FieldsOfFile ==
  ASSUME NEW f \in Files
  PROVE  f.blocks \in Seq(Keywords) /\ f.PL \in Seq(PlaceLine) /\ f.TR \in Seq(TransLine)
BY DEF Files

LEMMA OneBlock ==
  ASSUME NEW f \in Files, NEW x \in Keywords, NEW g, g = [f EXCEPT !.blocks = Append(@, x)]
  PROVE  /\ g \in Files /\ g.PL = f.PL /\ g.TR = f.TR
         /\ g.TP = f.TP /\ g.PT = f.PT /\ g.RA = f.RA
<1>1. Append(f.blocks, x) \in Seq(Keywords)
  BY FieldsOfFile
<1> QED
  BY <1>1 DEF Files

LEMMA OnePlace ==
  ASSUME NEW f \in Files, NEW x \in PlaceLine, NEW g, g = [f EXCEPT !.PL = Append(@, x)]
  PROVE  /\ g \in Files /\ g.PL = Append(f.PL, x) /\ g.TR = f.TR
         /\ g.TP = f.TP /\ g.PT = f.PT /\ g.RA = f.RA
<1>1. Append(f.PL, x) \in Seq(PlaceLine)
  BY FieldsOfFile
<1> QED
  BY <1>1 DEF Files

LEMMA OneTrans ==
  ASSUME NEW f \in Files, NEW x \in TransLine, NEW g, g = [f EXCEPT !.TR = Append(@, x)]
  PROVE  /\ g \in Files /\ g.PL = f.PL /\ g.TR = Append(f.TR, x)
         /\ g.TP = f.TP /\ g.PT = f.PT /\ g.RA = f.RA
<1>1. Append(f.TR, x) \in Seq(TransLine)
  BY FieldsOfFile
<1> QED
  BY <1>1 DEF Files

ArcBlocks == {"TP", "PT", "RA"}

Longer(f, g, b, x) == g = [f EXCEPT ![b] = Append(@, x)]

LEMMA OneArc ==
  ASSUME NEW f \in Files, NEW x \in ArcLine, NEW b \in ArcBlocks, NEW g, Longer(f, g, b, x)
  PROVE  /\ g \in Files /\ g.PL = f.PL /\ g.TR = f.TR
         /\ g[b] = Append(f[b], x) /\ f[b] \in Seq(ArcLine)
         /\ \A c \in ArcBlocks \ {b} : g[c] = f[c]
<1>1. f[b] \in Seq(ArcLine)
  BY DEF Files, ArcBlocks
<1>2. Append(f[b], x) \in Seq(ArcLine)
  BY <1>1
<1> QED
  BY <1>1, <1>2 DEF Files, ArcBlocks, Longer

LEMMA BeginBlockInv ==
  ASSUME Inv, NEW name \in Keywords, BeginBlock(name)
  PROVE  Inv'
<1>1. file \in Files /\ file' = [file EXCEPT !.blocks = Append(@, name)]
  BY DEF Inv, Shapes, BeginBlock
<1>3. file' \in Files /\ file'.PL = file.PL /\ file'.TR = file.TR
  BY <1>1, OneBlock
<1>4. UNCHANGED <<auto, pl, tr, net>> /\ status = "read"
  BY DEF BeginBlock
<1>5. Shapes'
  BY <1>3, <1>4 DEF Inv, Shapes
<1>6. blocks' = blocks \/ blocks' \in blocks + 1..Len(netblocks)
  BY DEF BeginBlock
<1>7. Later'
  BY <1>3, <1>6, BlockNames DEF Inv, Later
<1>8. IInv'
  BY <1>3, <1>4 DEF Inv, IInv, Going, InBounds, Translates, Positional, Names
<1> QED
  BY <1>5, <1>7, <1>8 DEF Inv

LEMMA InsertPlaceInv ==
  ASSUME Inv, NEW ident \in Int, NEW marked \in Int, InsertPlace(ident, marked)
  PROVE  Inv'
<1> DEFINE line  == [ident |-> ident, marked |-> marked]
           count == net.numpl + 1
           id    == Number(ident, count, auto)
<1>1. /\ file \in Files /\ file' = [file EXCEPT !.PL = Append(@, line)]
      /\ line \in PlaceLine /\ status = "read" /\ Block = "PL"
  BY DEF Inv, Shapes, InsertPlace, PlaceLine
<1> HIDE DEF line
<1>2. file.PL \in Seq(PlaceLine)
  BY <1>1, FieldsOfFile
<1>3. file' \in Files /\ file'.PL = Append(file.PL, line) /\ file'.TR = file.TR
  BY <1>1, OnePlace
<1>4. file.TR = <<>>
  BY <1>1, BlockNames DEF Inv, Later
<1>5. blocks' = blocks
  BY DEF InsertPlace, Error, Undefined
<1>6. Later'
  BY <1>3, <1>5 DEF Inv, Later
<1>7. CASE Stops
  <2>1. Shapes'
    BY <1>3, <1>7, Stopped DEF Inv, Shapes
  <2> QED
    BY <2>1, <1>6, <1>7, StopsInv
<1>8. CASE ~ Stops
  <2>1. /\ ~ Outside(id) /\ id # 0 /\ ~ UsedTwice(pl, id)
        /\ auto' = StaysAuto(ident, count, auto)
        /\ Entered(pl, id, net.numpl, pl')
        /\ net' = CreatePlace(marked)
        /\ tr' = tr
    BY <1>8 DEF InsertPlace, Stops
  <2>2. /\ Translates(pl, file.PL, -1) /\ Translates(tr, file.TR, 0)
        /\ net.numpl = Len(file.PL) /\ net.numtr = Len(file.TR)
        /\ auto => Positional(file.PL)
        /\ InBounds(pl) /\ InBounds(tr)
    BY <1>1, <1>4 DEF Inv, IInv, Going
  <2>3. id = IdentOf(Append(file.PL, line), Len(file.PL) + 1) /\ id \in Nat
    <3>1. id = IdentOf(Append(file.PL, line), Len(file.PL) + 1)
      BY <1>1, <1>2, <2>1, <2>2, IdentsAppend DEF line, Number, StaysAuto
    <3>2. id \in Int
      BY NumberIsInt DEF Inv, Shapes
    <3> QED
      BY <2>1, <3>1, <3>2, InsideIsNat
  <2>4. net.numpl = -1 + Len(file.PL) + 1
    BY <2>2, <1>2
  <2>5. PICK t : t = pl'
    OBVIOUS
  <2>6. InBounds(t) /\ Translates(t, Append(file.PL, line), -1)
    BY <1>1, <1>2, <2>1, <2>2, <2>3, <2>4, <2>5, EnteredTranslates
  <2>7. InBounds(pl') /\ Translates(pl', Append(file.PL, line), -1)
    BY <2>5, <2>6
  <2>8. auto' => Positional(Append(file.PL, line))
    <3>1. auto' => auto /\ ident \in {0, count}
      BY <2>1, Zenon DEF StaysAuto
    <3>2. ASSUME auto, ident \in {0, count} PROVE Positional(Append(file.PL, line))
      <4>1. Positional(file.PL)
        BY <3>2, <2>2
      <4>2. IdentOf(Append(file.PL, line), Len(file.PL) + 1) = Len(file.PL) + 1
        BY <3>2, <1>1, <1>2, <2>2, IdentsAppend DEF line
      <4> QED
        BY <4>1, <4>2, <1>1, <1>2, IdentsAppend DEF Positional
    <3> QED
      BY <3>1, <3>2
  <2>9. /\ net'.numpl = Len(Append(file.PL, line)) /\ net'.numtr = net.numtr
        /\ net'.numpl \in Nat /\ {"numpl", "numtr"} \subseteq DOMAIN net'
    BY <2>1, <2>2, <1>2 DEF CreatePlace, Inv, Shapes
  <2>10. Shapes'
    BY <1>3, <2>9 DEF Inv, Shapes
  <2>11. IInv'
    BY <1>3, <1>4, <2>1, <2>2, <2>7, <2>8, <2>9 DEF IInv, InBounds, Translates
  <2> QED
    BY <1>6, <2>10, <2>11 DEF Inv
<1> QED
  BY <1>7, <1>8

LEMMA InsertTransInv ==
  ASSUME Inv, NEW ident \in Int, InsertTrans(ident)
  PROVE  Inv'
<1> DEFINE line  == [ident |-> ident]
           count == net.numtr + 1
           id    == Number(ident, count, AutoOfTrans)
<1>1. /\ file \in Files /\ file' = [file EXCEPT !.TR = Append(@, line)]
      /\ line \in TransLine /\ status = "read" /\ Block = "TR"
  BY DEF Inv, Shapes, InsertTrans, TransLine
<1> HIDE DEF line
<1>2. file.TR \in Seq(TransLine)
  BY <1>1, FieldsOfFile
<1>3. file' \in Files /\ file'.PL = file.PL /\ file'.TR = Append(file.TR, line)
  BY <1>1, OneTrans
<1>4. file'.TR # <<>>
  BY <1>1, <1>2, <1>3, LongerNotEmpty
<1>5. blocks' = blocks /\ blocks = 7
  BY <1>1, BlockNames DEF InsertTrans, Error, Undefined, Inv, Later
<1>6. Later'
  BY <1>5, BlockNames DEF Later
<1>7. CASE Stops
  <2>1. Shapes'
    BY <1>3, <1>7, Stopped DEF Inv, Shapes
  <2> QED
    BY <2>1, <1>6, <1>7, StopsInv
<1>8. CASE ~ Stops
  <2>1. /\ ~ Outside(id) /\ id # 0 /\ ~ UsedTwice(tr, id)
        /\ auto' = StaysAuto(ident, count, AutoOfTrans)
        /\ Entered(tr, id, count, tr')
        /\ net' = CreateTrans
        /\ pl' = pl
    BY <1>8 DEF InsertTrans, Stops
  <2>2. /\ Translates(pl, file.PL, -1) /\ Translates(tr, file.TR, 0)
        /\ net.numpl = Len(file.PL) /\ net.numtr = Len(file.TR)
        /\ auto => Positional(IF file.TR = <<>> THEN file.PL ELSE file.TR)
        /\ InBounds(pl) /\ InBounds(tr)
    BY <1>1 DEF Inv, IInv, Going
  <2>3. id = IdentOf(Append(file.TR, line), Len(file.TR) + 1) /\ id \in Nat
    <3>1. id = IdentOf(Append(file.TR, line), Len(file.TR) + 1)
      BY <1>1, <1>2, <2>1, <2>2, IdentsAppend DEF line, Number, StaysAuto
    <3>2. id \in Int
      BY NumberIsInt DEF Inv, Shapes
    <3> QED
      BY <2>1, <3>1, <3>2, InsideIsNat
  <2>4. count = 0 + Len(file.TR) + 1
    BY <2>2, <1>2
  <2>5. PICK t : t = tr'
    OBVIOUS
  <2>6. InBounds(t) /\ Translates(t, Append(file.TR, line), 0)
    BY <1>1, <1>2, <2>1, <2>2, <2>3, <2>4, <2>5, EnteredTranslates
  <2>7. InBounds(tr') /\ Translates(tr', Append(file.TR, line), 0)
    BY <2>5, <2>6
  <2>8. auto' => Positional(Append(file.TR, line))
    <3>1. auto' => AutoOfTrans /\ ident \in {0, count}
      BY <2>1, Zenon DEF StaysAuto
    <3>2. ASSUME AutoOfTrans, ident \in {0, count} PROVE Positional(Append(file.TR, line))
      <4>1. AutoOfTrans => file.TR = <<>> \/ auto
        <5>1. net.numtr = 0 => file.TR = <<>>
          <6>1. net.numtr = Len(file.TR)
            BY <2>2
          <6>2. Len(file.TR) = 0 => file.TR = <<>>
            BY <1>2
          <6> QED
            BY <6>1, <6>2
        <5> QED
          BY <5>1, Zenon DEF AutoOfTrans
      <4>2. Positional(file.TR)
        BY <3>2, <4>1, <2>2 DEF Positional
      <4>3. IdentOf(Append(file.TR, line), Len(file.TR) + 1) = Len(file.TR) + 1
        BY <3>2, <1>1, <1>2, <2>2, IdentsAppend DEF line
      <4> QED
        BY <4>2, <4>3, <1>1, <1>2, IdentsAppend DEF Positional
    <3> QED
      BY <3>1, <3>2
  <2>9. /\ net'.numtr = Len(Append(file.TR, line)) /\ net'.numpl = net.numpl
        /\ net'.numtr \in Nat /\ {"numpl", "numtr"} \subseteq DOMAIN net'
    BY <2>1, <2>2, <1>2 DEF CreateTrans, Inv, Shapes
  <2>10. Shapes'
    BY <1>3, <2>9 DEF Inv, Shapes
  <2>11. IInv'
    BY <1>3, <1>4, <2>1, <2>2, <2>7, <2>8, <2>9 DEF IInv, InBounds, Translates
  <2> QED
    BY <1>6, <2>10, <2>11 DEF Inv
<1> QED
  BY <1>7, <1>8

(* Arcs change neither tables nor counters.                                *)
OnlyArcs ==
  /\ status = "read"
  /\ UNCHANGED <<blocks, auto, pl, tr>>
  /\ net'.numpl = net.numpl /\ net'.numtr = net.numtr
  /\ {"numpl", "numtr"} \subseteq DOMAIN net'

AnArc(co) == \E b \in ArcBlocks : Longer(file, file', b, co)

LEMMA ArcInv ==
  ASSUME Inv, NEW co \in ArcLine, AnArc(co), OnlyArcs
  PROVE  Inv'
<1>1. file' \in Files /\ file'.PL = file.PL /\ file'.TR = file.TR
  <2>1. file \in Files
    BY DEF Inv, Shapes
  <2>2. PICK b \in ArcBlocks : Longer(file, file', b, co)
    BY DEF AnArc
  <2> QED
    BY <2>1, <2>2, OneArc
<1>2. Shapes'
  BY <1>1 DEF Inv, Shapes, OnlyArcs
<1>3. Later'
  BY <1>1 DEF Inv, Later, OnlyArcs
<1>4. /\ pl' = pl /\ tr' = tr /\ auto' = auto /\ status = "read"
      /\ net'.numpl = net.numpl /\ net'.numtr = net.numtr
  BY DEF OnlyArcs
<1>5. IInv'
  BY <1>1, <1>4 DEF Inv, IInv, Going, InBounds, Translates, Positional, Names
<1> QED
  BY <1>2, <1>3, <1>5 DEF Inv

LEMMA InsertArcInv ==
  ASSUME Inv, NEW co \in ArcLine, InsertArc(co)
  PROVE  Inv'
<1>1. AnArc(co)
  BY DEF InsertArc, AnArc, Longer, ArcBlocks
<1>2. status = "read" /\ UNCHANGED <<blocks, auto, pl, tr>>
  BY DEF InsertArc, Error, Undefined
<1>3. {"numpl", "numtr"} \subseteq DOMAIN net
  BY DEF Inv, Shapes
<1>4. \/ net' = net
      \/ \E A : net' = [net EXCEPT !.post = A]
      \/ \E A : net' = [net EXCEPT !.pre = A]
  BY DEF InsertArc, Error, Undefined
<1>5. OnlyArcs
  BY <1>2, <1>3, <1>4 DEF OnlyArcs
<1> QED
  BY <1>1, <1>5, ArcInv

LEMMA InsertRaInv ==
  ASSUME Inv, NEW co \in ArcLine, InsertRa(co)
  PROVE  Inv'
<1>1. AnArc(co)
  BY DEF InsertRa, AnArc, Longer, ArcBlocks
<1>2. status = "read" /\ UNCHANGED <<blocks, auto, pl, tr>>
  BY DEF InsertRa, Error, Undefined
<1>3. {"numpl", "numtr"} \subseteq DOMAIN net
  BY DEF Inv, Shapes
<1>4. \/ net' = net
      \/ \E A : net' = [net EXCEPT !.cont = A, !.isplain = FALSE]
  BY DEF InsertRa, Error, Undefined
<1>5. OnlyArcs
  BY <1>2, <1>3, <1>4 DEF OnlyArcs
<1> QED
  BY <1>1, <1>5, ArcInv

LEMMA EndOfFileInv == ASSUME Inv, EndOfFile PROVE Inv'
BY DEF EndOfFile, Inv, Shapes, Later, IInv, Going, InBounds, Translates, Positional, Names

LEMMA StutterInv == ASSUME Inv, UNCHANGED vars PROVE Inv'
BY DEF vars, Inv, Shapes, Later, IInv, Going, InBounds, Translates, Positional, Names

(* The numbers of the files are ints, and so are the fields of their lines. *)
Fields == Idents \X Idents \cup {<<>>}

LEMMA FieldsFit == Idents \subseteq Int /\ Fields \subseteq ArcLine
<1>1. Idents \subseteq Int
  BY IdentsAssumption, SizesAssumption
<1> QED
  BY <1>1 DEF Fields, ArcLine

LEMMA InvNext == ASSUME Inv, [Next]_vars PROVE Inv'
<1>1. ASSUME NEW n \in Keywords, BeginBlock(n) PROVE Inv'
  BY <1>1, BeginBlockInv
<1>2. ASSUME NEW i \in Idents, NEW m \in -1..2, InsertPlace(i, m) PROVE Inv'
  <2>1. i \in Int /\ m \in Int
    BY FieldsFit
  <2> QED
    BY <1>2, <2>1, InsertPlaceInv
<1>3. ASSUME NEW i \in Idents, InsertTrans(i) PROVE Inv'
  <2>1. i \in Int
    BY FieldsFit
  <2> QED
    BY <1>3, <2>1, InsertTransInv
<1>4. ASSUME NEW co \in Fields, InsertArc(co) PROVE Inv'
  <2>1. co \in ArcLine
    BY FieldsFit
  <2> QED
    BY <1>4, <2>1, InsertArcInv
<1>5. ASSUME NEW co \in Fields, InsertRa(co) PROVE Inv'
  <2>1. co \in ArcLine
    BY FieldsFit
  <2> QED
    BY <1>5, <2>1, InsertRaInv
<1>6. CASE EndOfFile
  BY <1>6, EndOfFileInv
<1>7. CASE UNCHANGED vars
  BY <1>7, StutterInv
<1> QED
  BY <1>1, <1>2, <1>3, <1>4, <1>5, <1>6, <1>7 DEF Next, Fields

(* The tables of the reader have room for every identifier entered in      *)
(* them, and as long as the program goes on lead from the identifiers of   *)
(* the lines read so far to the nodes made for them, for files of any      *)
(* length: _insert_place and _insert_trans.  (That tables are read outside *)
(* is the status "undefined", see VerdictRight.)                           *)
THEOREM Invariant == Spec => []IInv
<1>1. Inv /\ [Next]_vars => Inv'
  BY InvNext
<1>2. Inv => IInv
  BY DEF Inv
<1> QED
  BY InitInv, <1>1, <1>2, PTL DEF Spec

-----------------------------------------------------------------------------
(* The net a file describes, part by part.                                 *)
Arc(TR, PL, x, y) == <<NodeOf(TR, x), NodeOf(PL, y) - 1>>

ArcsIn(TR, PL, arcs) ==
  {Arc(TR, PL, arcs[i][1], arcs[i][2]) : i \in DOMAIN arcs}

MarkedIn(PL) == {i - 1 : i \in {k \in DOMAIN PL : PL[k].marked # 0}}

Plain(RA) == RA = <<>>

Parts(places, trans, marked, pre, post, cont, plain) ==
  [numpl |-> places, numtr |-> trans, marked |-> marked, pre |-> pre, post |-> post,
   cont |-> cont, isplain |-> plain]

NetOf(f) ==
  Parts(Len(f.PL), Len(f.TR), MarkedIn(f.PL),
        ArcsIn(f.TR, f.PL, Turned(f.PT)), ArcsIn(f.TR, f.PL, f.TP),
        ArcsIn(f.TR, f.PL, f.RA), Plain(f.RA))

(* Whichever the block of arcs at work, the direction is the right one.    *)
Wiring ==
  /\ blocktype = "" \/ blocktype = Block
  /\ Block = "TP" /\ blocktype = "" => tp = TRUE
  /\ Block = "PT" /\ blocktype = "" => tp = FALSE

(* Arcs have been read only if the blocks of nodes are over.               *)
ArcsLater == blocks <= 7 => file.TP = <<>> /\ file.PT = <<>> /\ file.RA = <<>>

DInv == Inv /\ Wiring /\ ArcsLater /\ Denotes

LEMMA DenotesNet == Denotes => ~ Going \/ net = NetOf(file)
BY DEF Denotes, NetOf, Parts, Plain, ArcsIn, Arc, MarkedIn, ArcsOf, Marked

LEMMA NetDenotes == (Going' => net' = NetOf(file')) => Denotes'
BY DEF Denotes, NetOf, Parts, Plain, ArcsIn, Arc, MarkedIn, ArcsOf, Marked

(* An identifier the table knows leads to the node of its line.            *)
LEMMA NodeOfKnown ==
  ASSUME NEW S, NEW lines \in Seq(S), NEW t, NEW base \in {-1, 0}, NEW id \in Int,
         InBounds(t), Translates(t, lines, base), Known(t, id)
  PROVE  NodeOf(lines, id) = t.arr[id] - base
<1>1. id \in DOMAIN t.arr
  BY DEF InBounds, Known
<1>2. Names(lines, id)
  BY <1>1 DEF Translates, Known
<1>3. NodeOf(lines, id) \in DOMAIN lines /\ IdentOf(lines, NodeOf(lines, id)) = id
  BY <1>2 DEF Names, NodeOf
<1>4. NodeOf(lines, id) \in Nat
  BY <1>3
<1>5. t.arr[id] = base + NodeOf(lines, id)
  BY <1>3 DEF Translates
<1> QED
  BY <1>4, <1>5

(* An arc more, and no arc.                                                *)
LEMMA ArcsAppend ==
  ASSUME NEW TR, NEW PL, NEW arcs \in Seq(ArcLine), NEW x \in Int, NEW y \in Int
  PROVE  ArcsIn(TR, PL, Append(arcs, <<x, y>>)) =
           ArcsIn(TR, PL, arcs) \cup {Arc(TR, PL, x, y)}
<1> DEFINE more == Append(arcs, <<x, y>>)
           n    == Len(arcs) + 1
<1>1. <<x, y>> \in ArcLine
  BY DEF ArcLine
<1>2. /\ DOMAIN more = DOMAIN arcs \cup {n}
      /\ \A i \in DOMAIN arcs : more[i] = arcs[i]
      /\ more[n] = <<x, y>>
  BY <1>1
<1> HIDE DEF more, n
<1>3. more[n][1] = x /\ more[n][2] = y
  BY <1>2
<1>4. ArcsIn(TR, PL, more) = ArcsIn(TR, PL, arcs) \cup {Arc(TR, PL, x, y)}
  BY <1>2, <1>3 DEF ArcsIn
<1> QED
  BY <1>4 DEF more

(* A line of an arc turned: it stays without numbers if it has none.       *)
TurnedArc(co) == IF co = <<>> THEN <<>> ELSE <<co[2], co[1]>>

LEMMA PairTurned == ASSUME NEW x, NEW y PROVE <<x, y>> # <<>> /\ TurnedArc(<<x, y>>) = <<y, x>>
<1>1. <<x, y>> # <<>>
  OBVIOUS
<1> QED
  BY <1>1 DEF TurnedArc

LEMMA LineTurned == ASSUME NEW co \in ArcLine PROVE TurnedArc(co) \in ArcLine
<1>1. CASE co = <<>>
  BY <1>1 DEF TurnedArc, ArcLine
<1>2. CASE co \in Int \X Int
  <2>1. PICK x \in Int, y \in Int : co = <<x, y>>
    BY <1>2
  <2> QED
    BY <2>1, PairTurned DEF ArcLine
<1> QED
  BY <1>1, <1>2 DEF ArcLine

LEMMA TurnedIs ==
  ASSUME NEW arcs
  PROVE  Turned(arcs) = [i \in DOMAIN arcs |-> TurnedArc(arcs[i])]
BY DEF Turned, TurnedArc

LEMMA TurnedAppend ==
  ASSUME NEW arcs \in Seq(ArcLine), NEW co \in ArcLine
  PROVE  /\ Turned(Append(arcs, co)) = Append(Turned(arcs), TurnedArc(co))
         /\ Turned(arcs) \in Seq(ArcLine)
<1>1. PICK d : d = TurnedArc(co)
  OBVIOUS
<1>2. d \in ArcLine
  BY <1>1, LineTurned
<1>3. Turned(arcs) \in Seq(ArcLine) /\ Len(Turned(arcs)) = Len(arcs)
  <2>1. DOMAIN arcs = 1..Len(arcs) /\ Len(arcs) \in Nat
    OBVIOUS
  <2>2. \A i \in DOMAIN arcs : TurnedArc(arcs[i]) \in ArcLine
    BY LineTurned
  <2>3. Turned(arcs) \in [1..Len(arcs) -> ArcLine]
    BY <2>1, <2>2, TurnedIs
  <2> QED
    BY <2>1, <2>3
<1> DEFINE more == Append(arcs, co)
           n    == Len(arcs) + 1
<1>4. /\ more \in Seq(ArcLine) /\ DOMAIN more = 1..n
      /\ \A i \in 1..n : i # n => more[i] = arcs[i]
      /\ more[n] = co
  OBVIOUS
<1>5. /\ Append(Turned(arcs), d) \in Seq(ArcLine)
      /\ DOMAIN Append(Turned(arcs), d) = 1..n
      /\ \A i \in 1..n : i # n => Append(Turned(arcs), d)[i] = Turned(arcs)[i]
      /\ Append(Turned(arcs), d)[n] = d
  BY <1>2, <1>3
<1>6. \A i \in 1..n : i # n => Turned(arcs)[i] = TurnedArc(arcs[i])
  BY TurnedIs
<1> HIDE DEF more
<1>7. Turned(more) = [i \in 1..n |-> TurnedArc(more[i])]
  BY <1>4, TurnedIs
<1>8. \A i \in 1..n : Turned(more)[i] = Append(Turned(arcs), d)[i]
  BY <1>1, <1>4, <1>5, <1>6, <1>7
<1>9. Append(Turned(arcs), d) = [i \in 1..n |-> Append(Turned(arcs), d)[i]]
  <2>1. PICK s : s = Append(Turned(arcs), d)
    OBVIOUS
  <2>2. s \in Seq(ArcLine) /\ DOMAIN s = 1..n
    BY <1>5, <2>1
  <2>3. s = [i \in 1..n |-> s[i]]
    BY <2>2
  <2> QED
    BY <2>1, <2>3
<1>10. Turned(more) = Append(Turned(arcs), d)
  BY <1>7, <1>8, <1>9
<1> QED
  BY <1>1, <1>3, <1>10 DEF more

LEMMA NoArcs ==
  ASSUME NEW TR, NEW PL
  PROVE  ArcsIn(TR, PL, <<>>) = {} /\ ArcsIn(TR, PL, Turned(<<>>)) = {}
<1>1. DOMAIN Turned(<<>>) = {}
  BY DEF Turned
<1> QED
  BY <1>1 DEF ArcsIn

LEMMA MarkedAppend ==
  ASSUME NEW PL \in Seq(PlaceLine), NEW line \in PlaceLine
  PROVE  MarkedIn(Append(PL, line)) =
           IF line.marked # 0 THEN MarkedIn(PL) \cup {Len(PL)} ELSE MarkedIn(PL)
<1> DEFINE more == Append(PL, line)
           n    == Len(PL) + 1
<1>1. /\ DOMAIN more = DOMAIN PL \cup {n}
      /\ \A i \in DOMAIN PL : more[i] = PL[i]
      /\ more[n] = line
  OBVIOUS
<1>2. n - 1 = Len(PL)
  OBVIOUS
<1> HIDE DEF more, n
<1>3. \A i \in DOMAIN more : more[i].marked # 0 <=>
        (i \in DOMAIN PL /\ PL[i].marked # 0) \/ (i = n /\ line.marked # 0)
  BY <1>1
<1>4. {k \in DOMAIN more : more[k].marked # 0} =
        {k \in DOMAIN PL : PL[k].marked # 0} \cup (IF line.marked # 0 THEN {n} ELSE {})
  BY <1>1, <1>3
<1> QED
  BY <1>2, <1>4 DEF MarkedIn, more

(* Parts replaced.                                                         *)
LEMMA PartsTrans ==
  ASSUME NEW a, NEW b, NEW m, NEW p, NEW q, NEW c, NEW i, NEW x
  PROVE  [Parts(a, b, m, p, q, c, i) EXCEPT !.numtr = x] = Parts(a, x, m, p, q, c, i)
BY DEF Parts

LEMMA PartsPre ==
  ASSUME NEW a, NEW b, NEW m, NEW p, NEW q, NEW c, NEW i, NEW x
  PROVE  [Parts(a, b, m, p, q, c, i) EXCEPT !.pre = x] = Parts(a, b, m, x, q, c, i)
BY DEF Parts

LEMMA PartsPost ==
  ASSUME NEW a, NEW b, NEW m, NEW p, NEW q, NEW c, NEW i, NEW x
  PROVE  [Parts(a, b, m, p, q, c, i) EXCEPT !.post = x] = Parts(a, b, m, p, x, c, i)
BY DEF Parts

LEMMA PartsOf ==
  ASSUME NEW f
  PROVE  /\ NetOf(f).numpl = Len(f.PL) /\ NetOf(f).numtr = Len(f.TR)
         /\ NetOf(f).marked = MarkedIn(f.PL)
         /\ NetOf(f).pre = ArcsIn(f.TR, f.PL, Turned(f.PT))
         /\ NetOf(f).post = ArcsIn(f.TR, f.PL, f.TP)
         /\ NetOf(f).cont = ArcsIn(f.TR, f.PL, f.RA)
BY DEF NetOf, Parts

(* What a line of a node makes of the net, and a block.                    *)
LEMMA NetOfPlace ==
  ASSUME NEW f \in Files, f.TP = <<>>, f.PT = <<>>, f.RA = <<>>, NEW line \in PlaceLine,
         NEW g, g = [f EXCEPT !.PL = Append(@, line)]
  PROVE  NetOf(g) = [NetOf(f) EXCEPT !.numpl = @ + 1,
                                     !.marked = IF line.marked # 0 THEN @ \cup {Len(f.PL)} ELSE @]
<1>1. /\ g.PL = Append(f.PL, line) /\ g.TR = f.TR
      /\ g.TP = f.TP /\ g.PT = f.PT /\ g.RA = f.RA /\ f.PL \in Seq(PlaceLine)
  BY OnePlace, FieldsOfFile
<1>2. Len(g.PL) = Len(f.PL) + 1
  BY <1>1
<1>3. MarkedIn(g.PL) = IF line.marked # 0 THEN MarkedIn(f.PL) \cup {Len(f.PL)} ELSE MarkedIn(f.PL)
  BY <1>1, MarkedAppend
<1>4. /\ ArcsIn(g.TR, g.PL, Turned(g.PT)) = ArcsIn(f.TR, f.PL, Turned(f.PT))
      /\ ArcsIn(g.TR, g.PL, g.TP) = ArcsIn(f.TR, f.PL, f.TP)
      /\ ArcsIn(g.TR, g.PL, g.RA) = ArcsIn(f.TR, f.PL, f.RA)
  BY <1>1, NoArcs
<1>5. NetOf(f).numpl = Len(f.PL) /\ NetOf(f).marked = MarkedIn(f.PL)
  BY PartsOf
<1>6. PICK r : r = NetOf(f)
  OBVIOUS
<1>7. PICK s : s = [r EXCEPT !.numpl = Len(g.PL), !.marked = MarkedIn(g.PL)]
  OBVIOUS
<1>8. s = Parts(Len(g.PL), Len(f.TR), MarkedIn(g.PL), ArcsIn(f.TR, f.PL, Turned(f.PT)),
                ArcsIn(f.TR, f.PL, f.TP), ArcsIn(f.TR, f.PL, f.RA), Plain(f.RA))
  BY <1>6, <1>7 DEF NetOf, Parts
<1>9. s = NetOf(g)
  BY <1>1, <1>4, <1>8 DEF NetOf
<1> QED
  BY <1>2, <1>3, <1>5, <1>6, <1>7, <1>9

LEMMA NetOfTrans ==
  ASSUME NEW f \in Files, f.TP = <<>>, f.PT = <<>>, f.RA = <<>>, NEW line \in TransLine,
         NEW g, g = [f EXCEPT !.TR = Append(@, line)]
  PROVE  NetOf(g) = [NetOf(f) EXCEPT !.numtr = @ + 1]
<1>1. /\ g.TR = Append(f.TR, line) /\ g.PL = f.PL
      /\ g.TP = f.TP /\ g.PT = f.PT /\ g.RA = f.RA /\ f.TR \in Seq(TransLine)
  BY OneTrans, FieldsOfFile
<1>2. Len(g.TR) = Len(f.TR) + 1
  BY <1>1
<1>4. /\ ArcsIn(g.TR, g.PL, Turned(g.PT)) = ArcsIn(f.TR, f.PL, Turned(f.PT))
      /\ ArcsIn(g.TR, g.PL, g.TP) = ArcsIn(f.TR, f.PL, f.TP)
      /\ ArcsIn(g.TR, g.PL, g.RA) = ArcsIn(f.TR, f.PL, f.RA)
  BY <1>1, NoArcs
<1>5. NetOf(g) = [NetOf(f) EXCEPT !.numtr = Len(g.TR)]
  BY <1>1, <1>4, PartsTrans DEF NetOf
<1> QED
  BY <1>2, <1>5, PartsOf

LEMMA NetOfBlock ==
  ASSUME NEW f \in Files, NEW x \in Keywords, NEW g, g = [f EXCEPT !.blocks = Append(@, x)]
  PROVE  NetOf(g) = NetOf(f)
BY OneBlock DEF NetOf

(* What an arc makes of it.                                                *)
LEMMA NetOfPost ==
  ASSUME NEW f \in Files, NEW x \in Int, NEW y \in Int, NEW g, Longer(f, g, "TP", <<x, y>>)
  PROVE  NetOf(g) = [NetOf(f) EXCEPT !.post = @ \cup {Arc(f.TR, f.PL, x, y)}]
<1>1. "TP" \in ArcBlocks /\ <<x, y>> \in ArcLine
  BY DEF ArcBlocks, ArcLine
<1>2. /\ g.PL = f.PL /\ g.TR = f.TR
      /\ g["TP"] = Append(f["TP"], <<x, y>>) /\ f["TP"] \in Seq(ArcLine)
      /\ \A c \in ArcBlocks \ {"TP"} : g[c] = f[c]
  BY <1>1, OneArc
<1>3. /\ g.PL = f.PL /\ g.TR = f.TR /\ g.PT = f.PT /\ g.RA = f.RA
      /\ g.TP = Append(f.TP, <<x, y>>) /\ f.TP \in Seq(ArcLine)
  BY <1>2 DEF ArcBlocks
<1>4. NetOf(f).post = ArcsIn(f.TR, f.PL, f.TP)
  BY PartsOf
<1>5. ArcsIn(f.TR, f.PL, Append(f.TP, <<x, y>>)) =
        ArcsIn(f.TR, f.PL, f.TP) \cup {Arc(f.TR, f.PL, x, y)}
  BY <1>3, ArcsAppend
<1>6. ArcsIn(g.TR, g.PL, g.TP) =
        NetOf(f).post \cup {Arc(f.TR, f.PL, x, y)}
  BY <1>3, <1>4, <1>5
<1>7. NetOf(g) = [NetOf(f) EXCEPT !.post = ArcsIn(g.TR, g.PL, g.TP)]
  BY <1>3, PartsPost DEF NetOf
<1> QED
  BY <1>6, <1>7

LEMMA NetOfPre ==
  ASSUME NEW f \in Files, NEW x \in Int, NEW y \in Int, NEW g, Longer(f, g, "PT", <<x, y>>)
  PROVE  NetOf(g) = [NetOf(f) EXCEPT !.pre = @ \cup {Arc(f.TR, f.PL, y, x)}]
<1>1. "PT" \in ArcBlocks /\ <<x, y>> \in ArcLine
  BY DEF ArcBlocks, ArcLine
<1>2. /\ g.PL = f.PL /\ g.TR = f.TR
      /\ g["PT"] = Append(f["PT"], <<x, y>>) /\ f["PT"] \in Seq(ArcLine)
      /\ \A c \in ArcBlocks \ {"PT"} : g[c] = f[c]
  BY <1>1, OneArc
<1>3. /\ g.PL = f.PL /\ g.TR = f.TR /\ g.TP = f.TP /\ g.RA = f.RA
      /\ g.PT = Append(f.PT, <<x, y>>) /\ f.PT \in Seq(ArcLine)
  BY <1>2 DEF ArcBlocks
<1>4. NetOf(f).pre = ArcsIn(f.TR, f.PL, Turned(f.PT))
  BY PartsOf
<1>5. /\ Turned(g.PT) = Append(Turned(f.PT), <<y, x>>)
      /\ Turned(f.PT) \in Seq(ArcLine)
  BY <1>1, <1>3, TurnedAppend, PairTurned
<1>6. ArcsIn(f.TR, f.PL, Append(Turned(f.PT), <<y, x>>)) =
        ArcsIn(f.TR, f.PL, Turned(f.PT)) \cup {Arc(f.TR, f.PL, y, x)}
  BY <1>5, ArcsAppend
<1>7. ArcsIn(g.TR, g.PL, Turned(g.PT)) =
        NetOf(f).pre \cup {Arc(f.TR, f.PL, y, x)}
  BY <1>3, <1>4, <1>5, <1>6
<1>8. NetOf(g) = [NetOf(f) EXCEPT !.pre = ArcsIn(g.TR, g.PL, Turned(g.PT))]
  BY <1>3, PartsPre DEF NetOf
<1> QED
  BY <1>7, <1>8

MoreCont(n, arc) == [n EXCEPT !.cont = @ \cup {arc}, !.isplain = FALSE]

LEMMA NetOfCont ==
  ASSUME NEW f \in Files, NEW x \in Int, NEW y \in Int, NEW g, NEW n,
         Longer(f, g, "RA", <<x, y>>), n = MoreCont(NetOf(f), Arc(f.TR, f.PL, x, y))
  PROVE  NetOf(g) = n
<1>1. "RA" \in ArcBlocks /\ <<x, y>> \in ArcLine
  BY DEF ArcBlocks, ArcLine
<1>2. /\ g.PL = f.PL /\ g.TR = f.TR
      /\ g["RA"] = Append(f["RA"], <<x, y>>) /\ f["RA"] \in Seq(ArcLine)
      /\ \A c \in ArcBlocks \ {"RA"} : g[c] = f[c]
  BY <1>1, OneArc
<1>3. /\ g.PL = f.PL /\ g.TR = f.TR /\ g.TP = f.TP /\ g.PT = f.PT
      /\ g.RA = Append(f.RA, <<x, y>>) /\ f.RA \in Seq(ArcLine)
  BY <1>2 DEF ArcBlocks
<1>4. NetOf(f).cont = ArcsIn(f.TR, f.PL, f.RA)
  BY PartsOf
<1>5. ArcsIn(f.TR, f.PL, Append(f.RA, <<x, y>>)) =
        ArcsIn(f.TR, f.PL, f.RA) \cup {Arc(f.TR, f.PL, x, y)}
  BY <1>3, ArcsAppend
<1>6. ArcsIn(g.TR, g.PL, g.RA) =
        NetOf(f).cont \cup {Arc(f.TR, f.PL, x, y)}
  BY <1>3, <1>4, <1>5
<1>7. Plain(g.RA) = FALSE
  <2>2. g.RA # <<>>
    BY <1>1, <1>3, LongerNotEmpty
  <2> QED
    BY <2>2 DEF Plain
<1>8. PICK r : r = NetOf(f)
  OBVIOUS
<1>9. PICK s : s = [r EXCEPT !.cont = ArcsIn(g.TR, g.PL, g.RA), !.isplain = Plain(g.RA)]
  OBVIOUS
<1>10. s = Parts(Len(f.PL), Len(f.TR), MarkedIn(f.PL), ArcsIn(f.TR, f.PL, Turned(f.PT)),
                ArcsIn(f.TR, f.PL, f.TP), ArcsIn(g.TR, g.PL, g.RA), Plain(g.RA))
  BY <1>8, <1>9 DEF NetOf, Parts
<1>11. s = NetOf(g)
  BY <1>3, <1>10 DEF NetOf
<1> QED
  BY <1>6, <1>7, <1>8, <1>9, <1>11 DEF MoreCont

-----------------------------------------------------------------------------
(* The invariant DInv holds at first, and each action preserves it.        *)
LEMMA ArcBlockNames ==
  /\ \A i \in 0..14 : blocks = i /\ Block = "TP" => i > 7
  /\ \A i \in 0..14 : blocks = i /\ Block = "PT" => i > 7
  /\ \A i \in 0..14 : blocks = i /\ Block = "RA" => i > 7
  /\ \A i \in 1..14 : netblocks[i] # ""
BY SMT DEF netblocks, Block

LEMMA InitDInv == Init => DInv
<1> SUFFICES ASSUME Init PROVE DInv
  OBVIOUS
<1>1. /\ file = [blocks |-> <<>>, PL |-> <<>>, TR |-> <<>>, TP |-> <<>>, PT |-> <<>>,
                RA |-> <<>>]
      /\ blocks = 0 /\ blocktype = "" /\ tp = FALSE
      /\ net = [numpl |-> 0, numtr |-> 0, marked |-> {}, pre |-> {}, post |-> {},
                cont |-> {}, isplain |-> TRUE]
  BY DEF Init
<1>2. Wiring
  BY <1>1 DEF Wiring, Block
<1>3. ArcsLater
  BY <1>1 DEF ArcsLater
<1>4. Denotes
  <2>1. file.PL = <<>> /\ file.TR = <<>> /\ file.TP = <<>> /\ file.PT = <<>> /\ file.RA = <<>>
    BY <1>1
  <2>2. MarkedIn(<<>>) = {}
    BY DEF MarkedIn
  <2>3. Len(<<>>) = 0
    OBVIOUS
  <2>4. Plain(<<>>) = TRUE
    BY DEF Plain
  <2>5. NetOf(file) = Parts(0, 0, {}, {}, {}, {}, TRUE)
    BY <2>1, <2>2, <2>3, <2>4, NoArcs, Zenon DEF NetOf
  <2>6. net = NetOf(file)
    BY <1>1, <2>5 DEF Parts
  <2> QED
    BY <2>6 DEF Denotes, NetOf, Parts, Plain, ArcsIn, Arc, MarkedIn, ArcsOf, Marked
<1> QED
  BY InitInv, <1>2, <1>3, <1>4 DEF DInv

LEMMA BeginBlockDenotes ==
  ASSUME DInv, NEW name \in Keywords, BeginBlock(name)
  PROVE  Wiring' /\ ArcsLater' /\ Denotes'
<1>1. /\ file \in Files /\ file' = [file EXCEPT !.blocks = Append(@, name)]
      /\ net' = net /\ tp' = tp /\ status = "read" /\ Going
  BY DEF DInv, Inv, Shapes, BeginBlock, Going
<1>2. NetOf(file') = NetOf(file) /\ file'.TP = file.TP /\ file'.PT = file.PT /\ file'.RA = file.RA
  BY <1>1, NetOfBlock, OneBlock
<1>3. Denotes'
  BY <1>1, <1>2, DenotesNet, NetDenotes DEF DInv
<1>4. blocks \in 0..Len(netblocks)
  BY DEF DInv, Inv, Later
<1>5. CASE UNCHANGED <<blocks, blocktype>>
  BY <1>1, <1>2, <1>3, <1>5 DEF DInv, Wiring, ArcsLater, Block
<1>6. CASE ~ UNCHANGED <<blocks, blocktype>>
  <2>1. PICK i \in blocks + 1..Len(netblocks) : netblocks[i] = name /\ blocks' = i
    BY <1>6 DEF BeginBlock
  <2>2. blocktype' = name
    BY <1>6 DEF BeginBlock
  <2>3. blocks' # 0 /\ blocks' > blocks
    BY <2>1, <1>4, BlockNames
  <2>4. Block' = name
    BY <2>1, <2>3 DEF Block
  <2>5. name # ""
    <3>1. i \in 1..14
      BY <1>4, BlockNames
    <3> QED
      BY <2>1, <3>1, ArcBlockNames
  <2>6. Wiring'
    BY <2>2, <2>4, <2>5 DEF Wiring
  <2>7. ArcsLater'
    BY <1>2, <1>4, <2>1, <2>3, BlockNames DEF ArcsLater, DInv
  <2> QED
    BY <1>3, <2>6, <2>7
<1> QED
  BY <1>5, <1>6

LEMMA InsertPlaceDenotes ==
  ASSUME DInv, NEW ident \in Int, NEW marked \in Int, InsertPlace(ident, marked)
  PROVE  Wiring' /\ ArcsLater' /\ Denotes'
<1> DEFINE line == [ident |-> ident, marked |-> marked]
<1>1. /\ file \in Files /\ file' = [file EXCEPT !.PL = Append(@, line)]
      /\ line \in PlaceLine /\ status = "read" /\ Block = "PL" /\ Going
      /\ UNCHANGED <<blocks, blocktype, tp>>
  BY DEF DInv, Inv, Shapes, InsertPlace, Error, Undefined, Going, PlaceLine
<1> HIDE DEF line
<1>2. blocks = 6
  BY <1>1, BlockNames DEF DInv, Inv, Later
<1>3. file.TP = <<>> /\ file.PT = <<>> /\ file.RA = <<>>
  BY <1>2 DEF DInv, ArcsLater
<1>4. Wiring'
  BY <1>1 DEF DInv, Wiring, Block
<1>5. ArcsLater'
  BY <1>1, <1>3, OnePlace DEF ArcsLater
<1>6. CASE Stops
  BY <1>4, <1>5, <1>6, Stopped, NetDenotes
<1>7. CASE ~ Stops
  <2>1. net' = CreatePlace(marked)
    BY <1>7 DEF InsertPlace, Stops
  <2>2. net = NetOf(file)
    BY <1>1, DenotesNet DEF DInv
  <2>3. net.numpl = Len(file.PL)
    BY <2>2, PartsOf
  <2>4. line.marked = marked
    BY DEF line
  <2>5. net' = [net EXCEPT !.numpl = @ + 1,
                           !.marked = IF line.marked # 0 THEN @ \cup {Len(file.PL)} ELSE @]
    BY <2>1, <2>3, <2>4 DEF CreatePlace
  <2>6. NetOf(file') = [NetOf(file) EXCEPT
          !.numpl = @ + 1, !.marked = IF line.marked # 0 THEN @ \cup {Len(file.PL)} ELSE @]
    BY <1>1, <1>3, NetOfPlace
  <2>7. net' = NetOf(file')
    BY <2>2, <2>5, <2>6
  <2> QED
    BY <1>4, <1>5, <2>7, NetDenotes
<1> QED
  BY <1>6, <1>7

LEMMA InsertTransDenotes ==
  ASSUME DInv, NEW ident \in Int, InsertTrans(ident)
  PROVE  Wiring' /\ ArcsLater' /\ Denotes'
<1> DEFINE line == [ident |-> ident]
<1>1. /\ file \in Files /\ file' = [file EXCEPT !.TR = Append(@, line)]
      /\ line \in TransLine /\ status = "read" /\ Block = "TR" /\ Going
      /\ UNCHANGED <<blocks, blocktype, tp>>
  BY DEF DInv, Inv, Shapes, InsertTrans, Error, Undefined, Going, TransLine
<1> HIDE DEF line
<1>2. blocks = 7
  BY <1>1, BlockNames DEF DInv, Inv, Later
<1>3. file.TP = <<>> /\ file.PT = <<>> /\ file.RA = <<>>
  BY <1>2 DEF DInv, ArcsLater
<1>4. Wiring'
  BY <1>1 DEF DInv, Wiring, Block
<1>5. ArcsLater'
  BY <1>1, <1>3, OneTrans DEF ArcsLater
<1>6. CASE Stops
  BY <1>4, <1>5, <1>6, Stopped, NetDenotes
<1>7. CASE ~ Stops
  <2>1. net' = [net EXCEPT !.numtr = @ + 1]
    BY <1>7 DEF InsertTrans, Stops, CreateTrans
  <2>2. net = NetOf(file)
    BY <1>1, DenotesNet DEF DInv
  <2>3. NetOf(file') = [NetOf(file) EXCEPT !.numtr = @ + 1]
    BY <1>1, <1>3, NetOfTrans
  <2> QED
    BY <1>4, <1>5, <2>1, <2>2, <2>3, NetDenotes
<1> QED
  BY <1>6, <1>7

(* Identifiers of an arc that are known lead to the nodes of their lines.  *)
LEMMA KnownNodes ==
  ASSUME DInv, Going, NEW t \in Int, NEW p \in Int, Known(tr, t), Known(pl, p)
  PROVE  tr.arr[t] = NodeOf(file.TR, t) /\ pl.arr[p] = NodeOf(file.PL, p) - 1
<1>1. /\ Translates(pl, file.PL, -1) /\ Translates(tr, file.TR, 0)
      /\ InBounds(pl) /\ InBounds(tr)
  BY DEF DInv, Inv, IInv
<1>2. file.PL \in Seq(PlaceLine) /\ file.TR \in Seq(TransLine)
  BY FieldsOfFile DEF DInv, Inv, Shapes
<1>3. NodeOf(file.TR, t) = tr.arr[t] - 0
  BY <1>1, <1>2, NodeOfKnown
<1>4. NodeOf(file.PL, p) = pl.arr[p] - (-1)
  BY <1>1, <1>2, NodeOfKnown
<1>5. tr.arr[t] \in Int /\ pl.arr[p] \in Int
  <2>1. t \in DOMAIN tr.arr /\ p \in DOMAIN pl.arr
    BY <1>1 DEF InBounds, Known
  <2>2. (\E i \in DOMAIN file.TR : IdentOf(file.TR, i) = t)
        /\ (\E i \in DOMAIN file.PL : IdentOf(file.PL, i) = p)
    BY <1>1, <2>1 DEF Translates, Names, Known
  <2>3. (\A i \in DOMAIN file.TR : i \in Int) /\ (\A i \in DOMAIN file.PL : i \in Int)
    BY <1>2
  <2> QED
    BY <1>1, <2>2, <2>3 DEF Translates
<1> QED
  BY <1>3, <1>4, <1>5

LEMMA InsertArcDenotes ==
  ASSUME DInv, NEW co \in ArcLine, InsertArc(co)
  PROVE  Wiring' /\ ArcsLater' /\ Denotes'
<1>1. /\ file \in Files /\ Longer(file, file', Block, co)
      /\ status = "read" /\ Block \in {"TP", "PT"} /\ Block \in ArcBlocks
      /\ blocks' = blocks /\ Going
  BY DEF DInv, Inv, Shapes, InsertArc, Error, Undefined, Going, Longer, ArcBlocks
<1>2. blocks > 7
  BY <1>1, ArcBlockNames, BlockNames DEF DInv, Inv, Later
<1>3. ArcsLater'
  BY <1>1, <1>2, BlockNames DEF ArcsLater, DInv, Inv, Later
<1>4. CASE Stops
  <2>1. Wiring'
    BY <1>1, <1>4, Stopped DEF DInv, Wiring, Block
  <2> QED
    BY <1>3, <1>4, <2>1, Stopped, NetDenotes
<1>5. CASE ~ Stops
  <2>1. co # <<>>
    BY <1>5 DEF InsertArc, Stops
  <2>2. PICK x \in Int, y \in Int : co = <<x, y>>
    BY <2>1 DEF ArcLine
  <2>3. co[1] = x /\ co[2] = y
    BY <2>2
  <2>4. /\ tp' = Direction /\ blocktype' = ""
        /\ \/ Direction /\ Known(tr, x) /\ Known(pl, y)
              /\ net' = [net EXCEPT !.post = CreateArc(@, tr.arr[x], pl.arr[y])]
           \/ ~ Direction /\ Known(tr, y) /\ Known(pl, x)
              /\ net' = [net EXCEPT !.pre = CreateArc(@, tr.arr[y], pl.arr[x])]
    BY <1>5, <2>1, <2>3 DEF InsertArc, Stops
  <2>5. Direction = (Block = "TP")
    BY <1>1 DEF DInv, Wiring, Direction
  <2>6. Wiring'
    BY <1>1, <2>4, <2>5 DEF Wiring, Block
  <2>7. net = NetOf(file)
    BY <1>1, DenotesNet DEF DInv
  <2>8. CASE Block = "TP"
    <3>1. Known(tr, x) /\ Known(pl, y)
          /\ net' = [net EXCEPT !.post = CreateArc(@, tr.arr[x], pl.arr[y])]
      BY <2>4, <2>5, <2>8
    <3>2. net' = [net EXCEPT !.post = @ \cup {Arc(file.TR, file.PL, x, y)}]
      BY <1>1, <3>1, KnownNodes DEF CreateArc, Arc
    <3>3. NetOf(file') =
            [NetOf(file) EXCEPT !.post = @ \cup {Arc(file.TR, file.PL, x, y)}]
      BY <1>1, <2>2, <2>8, NetOfPost
    <3> QED
      BY <1>3, <2>6, <2>7, <3>2, <3>3, NetDenotes
  <2>9. CASE Block = "PT"
    <3>1. Known(tr, y) /\ Known(pl, x)
          /\ net' = [net EXCEPT !.pre = CreateArc(@, tr.arr[y], pl.arr[x])]
      BY <2>4, <2>5, <2>9
    <3>2. net' = [net EXCEPT !.pre = @ \cup {Arc(file.TR, file.PL, y, x)}]
      BY <1>1, <3>1, KnownNodes DEF CreateArc, Arc
    <3>3. NetOf(file') =
            [NetOf(file) EXCEPT !.pre = @ \cup {Arc(file.TR, file.PL, y, x)}]
      BY <1>1, <2>2, <2>9, NetOfPre
    <3> QED
      BY <1>3, <2>6, <2>7, <3>2, <3>3, NetDenotes
  <2> QED
    BY <1>1, <2>8, <2>9
<1> QED
  BY <1>4, <1>5

LEMMA InsertRaDenotes ==
  ASSUME DInv, NEW co \in ArcLine, InsertRa(co)
  PROVE  Wiring' /\ ArcsLater' /\ Denotes'
<1>1. /\ file \in Files /\ Longer(file, file', "RA", co)
      /\ status = "read" /\ Block = "RA" /\ "RA" \in ArcBlocks /\ Going
      /\ UNCHANGED <<blocks, blocktype, tp>>
  BY DEF DInv, Inv, Shapes, InsertRa, Error, Undefined, Going, Longer, ArcBlocks
<1>2. blocks > 7
  BY <1>1, ArcBlockNames, BlockNames DEF DInv, Inv, Later
<1>3. ArcsLater'
  BY <1>1, <1>2, BlockNames DEF ArcsLater, DInv, Inv, Later
<1>4. Wiring'
  BY <1>1 DEF DInv, Wiring, Block
<1>5. CASE Stops
  BY <1>3, <1>4, <1>5, Stopped, NetDenotes
<1>6. CASE ~ Stops
  <2>1. co # <<>>
    BY <1>6 DEF InsertRa, Stops
  <2>2. PICK x \in Int, y \in Int : co = <<x, y>>
    BY <2>1 DEF ArcLine
  <2>3. co[1] = x /\ co[2] = y
    BY <2>2
  <2>4. /\ Known(tr, x) /\ Known(pl, y)
        /\ net' = [net EXCEPT !.cont = CreateArc(@, tr.arr[x], pl.arr[y]), !.isplain = FALSE]
    BY <1>6, <2>1, <2>3 DEF InsertRa, Stops
  <2>5. net = NetOf(file)
    BY <1>1, DenotesNet DEF DInv
  <2>6. net' = MoreCont(net, Arc(file.TR, file.PL, x, y))
    BY <1>1, <2>4, KnownNodes DEF CreateArc, Arc, MoreCont
  <2>7. Longer(file, file', "RA", <<x, y>>)
    BY <1>1, <2>2
  <2>8. NetOf(file') = net'
    BY <1>1, <2>5, <2>6, <2>7, NetOfCont, Zenon
  <2> QED
    BY <1>3, <1>4, <2>8, NetDenotes
<1> QED
  BY <1>5, <1>6

LEMMA EndOfFileDenotes == ASSUME DInv, EndOfFile PROVE Wiring' /\ ArcsLater' /\ Denotes'
<1>1. status = "read" /\ Going /\ UNCHANGED <<file, blocks, blocktype, tp, net>>
  BY DEF EndOfFile, Going
<1>2. Wiring' /\ ArcsLater'
  BY <1>1 DEF DInv, Wiring, ArcsLater, Block
<1>3. Denotes'
  BY <1>1, DenotesNet, NetDenotes DEF DInv
<1> QED
  BY <1>2, <1>3

LEMMA StutterDenotes == ASSUME DInv, UNCHANGED vars PROVE Wiring' /\ ArcsLater' /\ Denotes'
<1>1. UNCHANGED <<file, status, blocks, blocktype, tp, net>>
  BY DEF vars
<1>2. Wiring' /\ ArcsLater'
  BY <1>1 DEF DInv, Wiring, ArcsLater, Block
<1>3. Denotes'
  BY <1>1, DenotesNet, NetDenotes DEF DInv, Going
<1> QED
  BY <1>2, <1>3

LEMMA DescribedAlways == Spec => []DInv
<1>1. DInv /\ [Next]_vars => DInv'
  <2> SUFFICES ASSUME DInv, [Next]_vars PROVE DInv'
    OBVIOUS
  <2>1. Inv'
    BY InvNext DEF DInv
  <2>2. Wiring' /\ ArcsLater' /\ Denotes'
    <3>1. ASSUME NEW n \in Keywords, BeginBlock(n) PROVE Wiring' /\ ArcsLater' /\ Denotes'
      BY <3>1, BeginBlockDenotes
    <3>2. ASSUME NEW i \in Idents, NEW m \in -1..2, InsertPlace(i, m)
          PROVE  Wiring' /\ ArcsLater' /\ Denotes'
      <4>1. i \in Int /\ m \in Int
        BY FieldsFit
      <4> QED
        BY <3>2, <4>1, InsertPlaceDenotes
    <3>3. ASSUME NEW i \in Idents, InsertTrans(i) PROVE Wiring' /\ ArcsLater' /\ Denotes'
      <4>1. i \in Int
        BY FieldsFit
      <4> QED
        BY <3>3, <4>1, InsertTransDenotes
    <3>4. ASSUME NEW co \in Fields, InsertArc(co) PROVE Wiring' /\ ArcsLater' /\ Denotes'
      <4>1. co \in ArcLine
        BY FieldsFit
      <4> QED
        BY <3>4, <4>1, InsertArcDenotes
    <3>5. ASSUME NEW co \in Fields, InsertRa(co) PROVE Wiring' /\ ArcsLater' /\ Denotes'
      <4>1. co \in ArcLine
        BY FieldsFit
      <4> QED
        BY <3>5, <4>1, InsertRaDenotes
    <3>6. CASE EndOfFile
      BY <3>6, EndOfFileDenotes
    <3>7. CASE UNCHANGED vars
      BY <3>7, StutterDenotes
    <3> QED
      BY <3>1, <3>2, <3>3, <3>4, <3>5, <3>6, <3>7 DEF Next, Fields
  <2> QED
    BY <2>1, <2>2 DEF DInv
<1> QED
  BY InitDInv, <1>1, PTL DEF Spec

(* As long as the program goes on the net is the one that the lines read   *)
(* so far describe, read arcs being given with the transition first, for   *)
(* files of any length: the hooks of the reader.                           *)
THEOREM NetDescribed == Spec => []Denotes
<1>1. DInv => Denotes
  BY DEF DInv
<1> QED
  BY DescribedAlways, <1>1, PTL
-----------------------------------------------------------------------------
(* The verdict.  The parts of WellFormed, for any file.                    *)
Layout(b) ==
  /\ \A i \in DOMAIN b : \E k \in DOMAIN netblocks : b[i] = netblocks[k]
  /\ \A i, j \in DOMAIN b : i < j => Position(b[i]) < Position(b[j])
  /\ \A n \in Mandatory : (\E j \in DOMAIN b : Position(n) < Position(b[j]))
                            => \E i \in DOMAIN b : b[i] = n

Marking(PL) == \A i \in DOMAIN PL : PL[i].marked <= 1

Nodes(PL, TR) == NumberingOK(PL) /\ NumberingOK(TR) /\ Marking(PL)

ArcsNamed(TR, PL, arcs) ==
  \A i \in DOMAIN arcs : Names(TR, arcs[i][1]) /\ Names(PL, arcs[i][2])

Arcs(TR, PL, TP, PT, RA) ==
  ArcsNamed(TR, PL, TP) /\ ArcsNamed(TR, PL, Turned(PT)) /\ ArcsNamed(TR, PL, RA)

Good(f) == /\ Layout(f.blocks)
           /\ Nodes(f.PL, f.TR)
           /\ Arcs(f.TR, f.PL, f.TP, f.PT, f.RA)

(* The parts of Harmful, for any file.                                     *)
ArcBad(TR, co) == co = <<>> \/ co[1] < 0 \/ (Names(TR, co[1]) /\ co[2] < 0)

ArcsBad(TR, arcs) == \E i \in DOMAIN arcs : ArcBad(TR, arcs[i])

Bad(f) == \/ NodesHarm(f.PL) \/ NodesHarm(f.TR)
          \/ ArcsBad(f.TR, f.TP) \/ ArcsBad(f.TR, Turned(f.PT)) \/ ArcsBad(f.TR, f.RA)

LEMMA BadIs == Harmful <=> Bad(file)
BY DEF Harmful, Bad, ArcsHarm, ArcsBad, ArcBad

LEMMA LayoutIs == LayoutOK <=> Layout(file.blocks)
<1> DEFINE b     == file.blocks
           known == {netblocks[i] : i \in DOMAIN netblocks}
           has   == {b[i] : i \in DOMAIN b}
<1>1. has \subseteq known <=> \A i \in DOMAIN b : \E k \in DOMAIN netblocks : b[i] = netblocks[k]
  OBVIOUS
<1>2. \A n : n \in has <=> \E i \in DOMAIN b : b[i] = n
  OBVIOUS
<1>3. \A n : (\E m \in has : Position(n) < Position(m))
               <=> \E j \in DOMAIN b : Position(n) < Position(b[j])
  OBVIOUS
<1>4. LayoutOK <=> /\ has \subseteq known
                   /\ \A i, j \in DOMAIN b : i < j => Position(b[i]) < Position(b[j])
                   /\ \A n \in Mandatory : (\E m \in has : Position(n) < Position(m)) => n \in has
  BY DEF LayoutOK
<1> HIDE DEF has, known, b
<1>5. \A n \in Mandatory : ((\E m \in has : Position(n) < Position(m)) => n \in has) <=>
        ((\E j \in DOMAIN b : Position(n) < Position(b[j])) => \E i \in DOMAIN b : b[i] = n)
  BY <1>2, <1>3
<1> QED
  BY <1>1, <1>4, <1>5 DEF Layout, b

LEMMA GoodIs == WellFormed <=> Good(file)
BY LayoutIs DEF WellFormed, Good, Nodes, Marking, Arcs, ArcsNamed, ArcsOK

(* The format: the names of the blocks are different.                      *)
LEMMA Format ==
  /\ DOMAIN netblocks = 1..14
  /\ \A i, j \in 1..14 : netblocks[i] = netblocks[j] => i = j
  /\ \A n \in Mandatory : \E i \in 1..14 : netblocks[i] = n
BY SMT DEF netblocks, Mandatory

LEMMA Same ==
  ASSUME NEW i \in 1..14, NEW j \in 1..14, netblocks[i] = netblocks[j]
  PROVE  i = j
BY Format

LEMMA PositionIs ==
  /\ \A i \in 1..14 : Position(netblocks[i]) = i
  /\ \A n \in Mandatory : Position(n) \in 1..14 /\ netblocks[Position(n)] = n
<1>1. \A i \in 1..14 : Position(netblocks[i]) = i
  BY Format DEF Position
<1> QED
  BY <1>1, Format

(* The pointer k to the block at work stands at the last block of b, and   *)
(* the blocks that must be there have been read up to it.                  *)
Pointing(b, k) ==
  /\ \A i \in DOMAIN b : \E p \in 1..k : b[i] = netblocks[p]
  /\ \A i, j \in DOMAIN b : i < j => Position(b[i]) < Position(b[j])
  /\ \A p \in 1..k : netblocks[p] \in Mandatory => \E i \in DOMAIN b : b[i] = netblocks[p]
  /\ k # 0 => \E i \in DOMAIN b : b[i] = netblocks[k]

LEMMA PointingLayout ==
  ASSUME NEW b, NEW k \in 0..14, Pointing(b, k)
  PROVE  Layout(b)
<1>1. \A i \in DOMAIN b : \E p \in 1..14 : p <= k /\ b[i] = netblocks[p]
  BY DEF Pointing
<1>2. ASSUME NEW n \in Mandatory, NEW j \in DOMAIN b, Position(n) < Position(b[j])
      PROVE  \E i \in DOMAIN b : b[i] = n
  <2>1. PICK p \in 1..14 : p <= k /\ b[j] = netblocks[p]
    BY <1>1
  <2>2. Position(n) \in 1..14 /\ netblocks[Position(n)] = n /\ Position(b[j]) = p
    BY <2>1, PositionIs
  <2>3. Position(n) \in 1..k
    BY <1>2, <2>1, <2>2
  <2> QED
    BY <2>2, <2>3 DEF Pointing
<1>3. \A i \in DOMAIN b : \E p \in DOMAIN netblocks : b[i] = netblocks[p]
  BY <1>1, Format
<1> QED
  BY <1>2, <1>3 DEF Layout, Pointing

(* The block that is found.                                                *)
LEMMA Found ==
  ASSUME NEW S, NEW b \in Seq(S), NEW name \in S, NEW k \in 0..14, Pointing(b, k),
         NEW i \in k + 1..14, netblocks[i] = name,
         \A p \in k + 1..14 : netblocks[p] \in Mandatory => \E j \in k + 1..p : netblocks[j] = name
  PROVE  Pointing(Append(b, name), i)
<1> DEFINE c == Append(b, name)
           n == Len(b) + 1
<1>1. /\ DOMAIN c = DOMAIN b \cup {n} /\ DOMAIN b = 1..n - 1 /\ n \in Nat
      /\ \A j \in DOMAIN b : c[j] = b[j]
      /\ c[n] = name
  OBVIOUS
<1> HIDE DEF c, n
<1>2. ASSUME NEW j \in DOMAIN b PROVE \E p \in 1..14 : p <= k /\ b[j] = netblocks[p]
  <2>1. PICK p \in 1..k : b[j] = netblocks[p]
    BY DEF Pointing
  <2>2. p \in 1..14 /\ p <= k
    OBVIOUS
  <2> QED
    BY <2>1, <2>2
<1>3. i \in 1..14 /\ k < i /\ Position(name) = i
  BY PositionIs
<1>4. \A j \in DOMAIN b : Position(b[j]) \in 1..14 /\ Position(b[j]) < i
  <2> TAKE j \in DOMAIN b
  <2>1. PICK p \in 1..14 : p <= k /\ b[j] = netblocks[p]
    BY <1>2
  <2>2. Position(b[j]) = p
    BY <2>1, PositionIs
  <2> QED
    BY <2>1, <2>2, <1>3
<1>5. \A j \in DOMAIN c : \E p \in 1..i : c[j] = netblocks[p]
  <2> TAKE j \in DOMAIN c
  <2>1. CASE j = n
    <3>1. i \in 1..i
      BY <1>3
    <3> QED
      BY <3>1, <2>1, <1>1
  <2>2. CASE j \in DOMAIN b
    <3>1. PICK p \in 1..14 : p <= k /\ b[j] = netblocks[p]
      BY <2>2, <1>2
    <3>2. p \in 1..i
      BY <3>1, <1>3
    <3> QED
      BY <3>1, <3>2, <2>2, <1>1
  <2> QED
    BY <1>1, <2>1, <2>2
<1>6. ASSUME NEW x \in DOMAIN c, NEW y \in DOMAIN c, x < y
      PROVE  Position(c[x]) < Position(c[y])
  <2>1. x \in DOMAIN b
    BY <1>1, <1>6
  <2>2. CASE y = n
    BY <2>1, <2>2, <1>1, <1>3, <1>4
  <2>3. CASE y \in DOMAIN b
    BY <2>1, <2>3, <1>1, <1>6 DEF Pointing
  <2> QED
    BY <1>1, <2>2, <2>3
<1>7. ASSUME NEW p \in 1..i, netblocks[p] \in Mandatory
      PROVE  \E j \in DOMAIN c : c[j] = netblocks[p]
  <2>1. CASE p \in 1..k
    <3>1. PICK j \in DOMAIN b : b[j] = netblocks[p]
      BY <2>1, <1>7 DEF Pointing
    <3> QED
      BY <3>1, <1>1
  <2>2. CASE p \in k + 1..14
    <3>1. PICK j \in k + 1..p : netblocks[j] = name
      BY <2>2, <1>7
    <3>2. j = i
      <4>1. j \in 1..14
        BY <3>1, <2>2
      <4> QED
        BY <4>1, <3>1, <1>3, Same
    <3>3. p = i
      BY <3>1, <3>2, <1>7, <1>3
    <3> QED
      BY <3>3, <1>1
  <2> QED
    BY <1>3, <2>1, <2>2
<1>8. \E j \in DOMAIN c : c[j] = netblocks[i]
  BY <1>1
<1> QED
  BY <1>5, <1>6, <1>7, <1>8 DEF Pointing, c

(* The block that is not found, or only after one that must be there.      *)
LEMMA NotFound ==
  ASSUME NEW S, NEW b \in Seq(S), NEW name \in S, NEW k \in 0..14, Pointing(b, k),
         \/ \A i \in k + 1..14 : netblocks[i] # name
         \/ \E p \in k + 1..14 : /\ netblocks[p] \in Mandatory
                                 /\ \A j \in k + 1..p : netblocks[j] # name
  PROVE  ~ Layout(Append(b, name))
<1> DEFINE c == Append(b, name)
           n == Len(b) + 1
<1>1. /\ DOMAIN c = DOMAIN b \cup {n} /\ DOMAIN b = 1..n - 1 /\ n \in Nat
      /\ \A j \in DOMAIN b : c[j] = b[j]
      /\ c[n] = name
  OBVIOUS
<1> HIDE DEF c, n
<1>2. SUFFICES ASSUME Layout(c) PROVE FALSE
  BY DEF c
<1>3. PICK i \in 1..14 : netblocks[i] = name
  BY <1>1, <1>2, Format DEF Layout
<1>4. Position(name) = i
  BY <1>3, PositionIs
<1>5. CASE i <= k
  <2>1. k \in 1..14 /\ k # 0
    BY <1>5
  <2>2. PICK j \in DOMAIN b : b[j] = netblocks[k]
    BY <2>1 DEF Pointing
  <2>3. Position(c[j]) = k /\ j \in DOMAIN c /\ n \in DOMAIN c /\ j < n
    <3>1. c[j] = netblocks[k]
      BY <2>2, <1>1
    <3>2. Position(c[j]) = k
      BY <3>1, <2>1, PositionIs
    <3>3. j \in 1..n - 1
      BY <1>1, <2>2
    <3>4. j < n
      BY <3>3, <1>1
    <3> QED
      BY <3>2, <3>4, <1>1, <2>2
  <2>4. k < i
    BY <2>3, <1>1, <1>2, <1>4 DEF Layout
  <2> QED
    BY <2>4, <1>5
<1>6. CASE i > k
  <2>1. i \in k + 1..14
    BY <1>6
  <2>2. PICK p \in k + 1..14 : /\ netblocks[p] \in Mandatory
                               /\ \A j \in k + 1..p : netblocks[j] # name
    BY <2>1, <1>3
  <2>3. p < i /\ p \in 1..14
    BY <2>1, <2>2, <1>3
  <2>4. Position(netblocks[p]) = p /\ Position(c[n]) = i /\ n \in DOMAIN c
    BY <2>3, <1>1, <1>4, PositionIs
  <2>5. PICK j \in DOMAIN c : c[j] = netblocks[p]
    BY <2>2, <2>3, <2>4, <1>2 DEF Layout
  <2>6. j \in DOMAIN b
    <3>1. p \in 1..14 /\ p # i
      BY <2>3
    <3>2. netblocks[p] # netblocks[i]
      BY <3>1, Same
    <3> QED
      BY <3>2, <2>5, <1>1, <1>3
  <2>7. PICK q \in 1..k : b[j] = netblocks[q]
    BY <2>6 DEF Pointing
  <2>8. q \in 1..14 /\ p \in 1..14 /\ q <= k /\ k < p
    BY <2>2, <2>3, <2>7
  <2>9. netblocks[p] = netblocks[q]
    BY <2>5, <2>6, <2>7, <1>1
  <2>10. p = q
    BY <2>8, <2>9, Same
  <2> QED
    BY <2>8, <2>10
<1> QED
  BY <1>5, <1>6

(* A table knows exactly the identifiers of the lines.                     *)
LEMMA KnownNames ==
  ASSUME NEW S, NEW lines \in Seq(S), NEW t, NEW base \in {-1, 0}, NEW id \in Int,
         InBounds(t), Translates(t, lines, base)
  PROVE  Known(t, id) <=> Names(lines, id)
<1>1. /\ t.anz \in Nat /\ t.max \in Nat /\ t.anz < t.max
      /\ DOMAIN t.arr = 1..t.max - 1
  BY DEF InBounds
<1>2. ASSUME Known(t, id) PROVE Names(lines, id)
  <2>1. id \in DOMAIN t.arr /\ t.arr[id] # NoNode
    BY <1>1, <1>2 DEF Known
  <2> QED
    BY <2>1 DEF Translates
<1>3. ASSUME Names(lines, id) PROVE Known(t, id)
  <2>1. PICK i \in DOMAIN lines : IdentOf(lines, i) = id
    BY <1>3 DEF Names
  <2>2. id \in 1..t.anz /\ t.arr[id] = base + i
    BY <2>1 DEF Translates
  <2>3. i \in Nat \ {0}
    OBVIOUS
  <2>4. base + i # NoNode
    BY <2>3, SMT DEF NoNode
  <2> QED
    BY <1>1, <2>2, <2>4 DEF Known
<1> QED
  BY <1>2, <1>3

LEMMA UsedNames ==
  ASSUME NEW S, NEW lines \in Seq(S), NEW t, NEW base \in {-1, 0}, NEW id \in Nat \ {0},
         InBounds(t), Translates(t, lines, base)
  PROVE  UsedTwice(t, id) <=> \E i \in DOMAIN lines : IdentOf(lines, i) = id
<1>1. UsedTwice(t, id) <=> Known(t, id)
  BY DEF UsedTwice, Known
<1> QED
  BY <1>1, KnownNames DEF Names

(* The number of a line more is refused exactly if it spoils the numbering, *)
(* and autonumbering stays on exactly if it is the position of the line.    *)
LEMMA NumberVerdict ==
  ASSUME NEW S, NEW lines \in Seq(S), NEW line \in S, NEW t, NEW base \in {-1, 0},
         NEW on, NEW id, line.ident \in Nat,
         InBounds(t), Translates(t, lines, base), NumberingOK(lines),
         on <=> Positional(lines),
         id = Number(line.ident, Len(lines) + 1, on)
  PROVE  /\ NumberingOK(Append(lines, line)) <=> ~ (id = 0 \/ UsedTwice(t, id))
         /\ StaysAuto(line.ident, Len(lines) + 1, on) <=> Positional(Append(lines, line))
<1> DEFINE more == Append(lines, line)
           n    == Len(lines) + 1
<1>1. /\ DOMAIN more = DOMAIN lines \cup {n} /\ n \in Nat \ {0} /\ DOMAIN lines = 1..n - 1
      /\ \A i \in DOMAIN lines : IdentOf(more, i) = IdentOf(lines, i)
      /\ IdentOf(more, n) = IF line.ident = 0 THEN n ELSE line.ident
  BY IdentsAppend
<1>2. \A i \in DOMAIN lines : more[i] = lines[i]
  OBVIOUS
<1>3. more[n] = line
  OBVIOUS
<1>4. id = Number(line.ident, n, on)
  OBVIOUS
<1> HIDE DEF more, n
<1>5. Positional(more) <=> Positional(lines) /\ IdentOf(more, n) = n
  BY <1>1 DEF Positional
<1>6. IdentOf(more, n) = n <=> line.ident \in {0, n}
  BY <1>1
<1>7. StaysAuto(line.ident, n, on) <=> Positional(more)
  BY <1>5, <1>6, Zenon DEF StaysAuto
<1>8. NumberingOK(more) <=> ~ (id = 0 \/ UsedTwice(t, id))
  <2>1. CASE line.ident = 0 /\ ~ on
    <3>1. id = 0
      <4>1. ~ StaysAuto(line.ident, n, on)
        BY <2>1, Zenon DEF StaysAuto
      <4> QED
        BY <4>1, <2>1, <1>4 DEF Number
    <3>2. PICK j \in DOMAIN lines : IdentOf(lines, j) # j
      BY <2>1 DEF Positional
    <3>3. j \in DOMAIN more /\ n \in DOMAIN more /\ j < n /\ IdentOf(more, j) # j
      BY <3>2, <1>1
    <3>4. ~ NumberingOK(more)
      BY <3>3, <2>1, <1>3 DEF NumberingOK
    <3> QED
      BY <3>1, <3>4
  <2>2. CASE ~ (line.ident = 0 /\ ~ on)
    <3>1. id = IdentOf(more, n) /\ id \in Nat \ {0}
      <4>1. CASE line.ident # 0
        BY <4>1, <1>1, <1>4 DEF Number
      <4>2. CASE line.ident = 0 /\ on
        <5>1. StaysAuto(line.ident, n, on)
          BY <4>2, Zenon DEF StaysAuto
        <5> QED
          BY <5>1, <4>2, <1>1, <1>4 DEF Number
      <4> QED
        BY <2>2, <4>1, <4>2
    <3>2. UsedTwice(t, id) <=> \E i \in DOMAIN lines : IdentOf(lines, i) = id
      BY <3>1, UsedNames
    <3>3. ASSUME NEW i \in DOMAIN lines, IdentOf(lines, i) = id PROVE ~ NumberingOK(more)
      <4>1. i \in DOMAIN more /\ n \in DOMAIN more /\ i # n
        BY <1>1
      <4>2. IdentOf(more, i) = IdentOf(more, n)
        BY <3>1, <3>3, <1>1
      <4> QED
        BY <4>1, <4>2 DEF NumberingOK
    <3>4. ASSUME \A i \in DOMAIN lines : IdentOf(lines, i) # id PROVE NumberingOK(more)
      <4>1. \A i, j \in DOMAIN more : i # j => IdentOf(more, i) # IdentOf(more, j)
        BY <1>1, <3>1, <3>4 DEF NumberingOK
      <4>2. ASSUME NEW i \in DOMAIN more, NEW j \in DOMAIN more, j < i, more[i].ident = 0
            PROVE  IdentOf(more, j) = j
        <5>1. j \in DOMAIN lines
          BY <1>1, <4>2
        <5>2. CASE i = n
          <6>1. Positional(lines)
            BY <5>2, <4>2, <2>2, <1>3
          <6> QED
            BY <5>1, <6>1, <1>1 DEF Positional
        <5>3. CASE i \in DOMAIN lines
          <6>1. lines[i].ident = 0
            BY <5>3, <4>2, <1>2
          <6> QED
            BY <5>1, <5>3, <6>1, <4>2, <1>1 DEF NumberingOK
        <5> QED
          BY <5>2, <5>3, <1>1
      <4> QED
        BY <4>1, <4>2 DEF NumberingOK
    <3> QED
      BY <3>1, <3>2, <3>3, <3>4
  <2> QED
    BY <2>1, <2>2
<1> QED
  BY <1>7, <1>8 DEF more, n

(* One arc more.                                                           *)
LEMMA NamedAppend ==
  ASSUME NEW TR, NEW PL, NEW arcs \in Seq(ArcLine), NEW x \in Int, NEW y \in Int
  PROVE  ArcsNamed(TR, PL, Append(arcs, <<x, y>>)) <=>
           ArcsNamed(TR, PL, arcs) /\ Names(TR, x) /\ Names(PL, y)
<1> DEFINE more == Append(arcs, <<x, y>>)
           n    == Len(arcs) + 1
<1>1. <<x, y>> \in ArcLine
  BY DEF ArcLine
<1>2. /\ DOMAIN more = DOMAIN arcs \cup {n}
      /\ \A i \in DOMAIN arcs : more[i] = arcs[i]
      /\ more[n] = <<x, y>>
  BY <1>1
<1> HIDE DEF more, n
<1>3. more[n][1] = x /\ more[n][2] = y
  BY <1>2
<1>4. ArcsNamed(TR, PL, more) <=> ArcsNamed(TR, PL, arcs) /\ Names(TR, x) /\ Names(PL, y)
  BY <1>2, <1>3 DEF ArcsNamed
<1> QED
  BY <1>4 DEF more

LEMMA BadAppend ==
  ASSUME NEW TR, NEW arcs \in Seq(ArcLine), NEW co \in ArcLine
  PROVE  ArcsBad(TR, Append(arcs, co)) <=> ArcsBad(TR, arcs) \/ ArcBad(TR, co)
<1> DEFINE more == Append(arcs, co)
           n    == Len(arcs) + 1
<1>1. /\ DOMAIN more = DOMAIN arcs \cup {n}
      /\ \A i \in DOMAIN arcs : more[i] = arcs[i]
      /\ more[n] = co
  OBVIOUS
<1> HIDE DEF more, n
<1>2. ArcsBad(TR, more) <=> ArcsBad(TR, arcs) \/ ArcBad(TR, co)
  BY <1>1 DEF ArcsBad
<1> QED
  BY <1>2 DEF more

LEMMA NoArcsBad ==
  ASSUME NEW TR
  PROVE  ~ ArcsBad(TR, <<>>) /\ ~ ArcsBad(TR, Turned(<<>>))
BY DEF ArcsBad, Turned

(* One node more: its number is outside exactly if the one of the line is, *)
(* as the count always fits.                                               *)
LEMMA HarmAppend ==
  ASSUME NEW S, NEW lines \in Seq(S), NEW line \in S
  PROVE  NodesHarm(Append(lines, line)) <=> NodesHarm(lines) \/ Outside(line.ident)
<1> DEFINE more == Append(lines, line)
           n    == Len(lines) + 1
<1>1. /\ DOMAIN more = DOMAIN lines \cup {n}
      /\ \A i \in DOMAIN lines : more[i] = lines[i]
      /\ more[n] = line
  OBVIOUS
<1> HIDE DEF more, n
<1>2. NodesHarm(more) <=> NodesHarm(lines) \/ Outside(line.ident)
  BY <1>1 DEF NodesHarm
<1> QED
  BY <1>2 DEF more

LEMMA CountsFit ==
  ASSUME NEW k \in Nat, k <= MaxLines
  PROVE  ~ Outside(k)
<1>1. PICK size \in Sizes : MaxLines < size
  BY LinesAssumption DEF Fits
<1>2. size \in Nat
  BY SizesAssumption DEF Sizes
<1>3. k < size
  BY <1>1, <1>2, LinesAssumption
<1> QED
  BY <1>3 DEF Outside, Fits

LEMMA OutsideNumber ==
  ASSUME NEW ident \in Int, NEW count \in Nat, count <= MaxLines, NEW on
  PROVE  Outside(Number(ident, count, on)) <=> Outside(ident)
<1>1. CASE Number(ident, count, on) = ident
  BY <1>1
<1>2. CASE ident = 0 /\ Number(ident, count, on) = count
  <2>1. ~ Outside(count)
    BY CountsFit
  <2>2. 0 <= MaxLines
    BY LinesAssumption
  <2>3. ~ Outside(0)
    BY <2>2, CountsFit
  <2> QED
    BY <1>2, <2>1, <2>3
<1> QED
  BY <1>1, <1>2 DEF Number

LEMMA RoomLeft ==
  ASSUME file \in Files, Room
  PROVE  /\ Len(file.PL) + 1 \in Nat /\ Len(file.PL) + 1 <= MaxLines
         /\ Len(file.TR) + 1 \in Nat /\ Len(file.TR) + 1 <= MaxLines
<1>1. /\ Len(file.PL) \in Nat /\ Len(file.TR) \in Nat /\ Len(file.TP) \in Nat
      /\ Len(file.PT) \in Nat /\ Len(file.RA) \in Nat
  BY DEF Files
<1>2. PICK a, b, c, d, e : /\ a = Len(file.PL) /\ b = Len(file.TR) /\ c = Len(file.TP)
                           /\ d = Len(file.PT) /\ e = Len(file.RA)
  OBVIOUS
<1>3. a + b + c + d + e < MaxLines
  BY <1>2 DEF Room
<1>5. {a, b, c, d, e, MaxLines} \subseteq Nat
  BY <1>1, <1>2, LinesAssumption
<1>4. a + 1 <= MaxLines /\ b + 1 <= MaxLines
  BY <1>3, <1>5
<1> QED
  BY <1>1, <1>2, <1>4

LEMMA NoArcsNamed ==
  ASSUME NEW TR, NEW PL
  PROVE  Arcs(TR, PL, <<>>, <<>>, <<>>)
BY DEF Arcs, ArcsNamed, Turned

-----------------------------------------------------------------------------
(* The invariant of the verdict, and what each action does to it.          *)
Counting == auto <=> Positional(IF file.TR = <<>> THEN file.PL ELSE file.TR)

Reading ==
  status = "read" => Pointing(file.blocks, blocks) /\ Counting

VInv == DInv /\ Reading /\ Verdict

LEMMA ReadFacts ==
  ASSUME VInv, status = "read"
  PROVE  /\ Good(file) /\ ~ Bad(file) /\ Pointing(file.blocks, blocks) /\ Counting
         /\ blocks \in 0..14 /\ file \in Files
         /\ InBounds(pl) /\ InBounds(tr)
         /\ Translates(pl, file.PL, -1) /\ Translates(tr, file.TR, 0)
         /\ net.numpl = Len(file.PL) /\ net.numtr = Len(file.TR)
<1>1. Good(file) /\ ~ Bad(file)
  BY GoodIs, BadIs DEF VInv, Verdict
<1>2. Pointing(file.blocks, blocks) /\ Counting
  BY DEF VInv, Reading
<1>3. blocks \in 0..14 /\ file \in Files
  BY BlockNames DEF VInv, DInv, Inv, Later, Shapes
<1>4. /\ InBounds(pl) /\ InBounds(tr)
      /\ Translates(pl, file.PL, -1) /\ Translates(tr, file.TR, 0)
      /\ net.numpl = Len(file.PL) /\ net.numtr = Len(file.TR)
  BY DEF VInv, DInv, Inv, IInv, Going
<1> QED
  BY <1>1, <1>2, <1>3, <1>4

LEMMA VerdictNext ==
  /\ status' \in {"read", "error", "undefined"}
  /\ status' = "undefined" <=> Bad(file')
  /\ status' = "error" <=> ~ Bad(file') /\ ~ Good(file')
  => Verdict'
<1>1. WellFormed' <=> Good(file')
  <2>1. (WellFormed <=> Good(file))'
    BY GoodIs, PTL
  <2> QED
    BY <2>1 DEF Good
<1>2. Harmful' <=> Bad(file')
  <2>1. (Harmful <=> Bad(file))'
    BY BadIs, PTL
  <2> QED
    BY <2>1 DEF Bad
<1> QED
  BY <1>1, <1>2 DEF Verdict

LEMMA BeginBlockVerdict ==
  ASSUME VInv, NEW name \in Keywords, BeginBlock(name)
  PROVE  Reading' /\ Verdict'
<1>1. /\ file' = [file EXCEPT !.blocks = Append(@, name)]
      /\ status = "read" /\ UNCHANGED auto
  BY DEF BeginBlock
<1>2. /\ Good(file) /\ ~ Bad(file) /\ Pointing(file.blocks, blocks) /\ Counting
      /\ blocks \in 0..14 /\ file \in Files
  BY <1>1, ReadFacts
<1>3. /\ file' \in Files /\ file'.PL = file.PL /\ file'.TR = file.TR
      /\ file'.TP = file.TP /\ file'.PT = file.PT /\ file'.RA = file.RA
  BY <1>1, <1>2, OneBlock
<1>4. file'.blocks = Append(file.blocks, name) /\ file.blocks \in Seq(Keywords)
  BY <1>1, <1>2, FieldsOfFile DEF Files
<1>5. Good(file') <=> Layout(Append(file.blocks, name))
  BY <1>2, <1>3, <1>4 DEF Good
<1>9. ~ Bad(file')
  BY <1>2, <1>3 DEF Bad
<1>6. Len(netblocks) = 14
  BY BlockNames
<1>7. CASE Skipped(name) \/ \A i \in blocks + 1..Len(netblocks) : netblocks[i] # name
  <2>1. status' = "error"
    BY <1>7 DEF BeginBlock
  <2>2. \/ \A i \in blocks + 1..14 : netblocks[i] # name
        \/ \E p \in blocks + 1..14 : /\ netblocks[p] \in Mandatory
                                     /\ \A j \in blocks + 1..p : netblocks[j] # name
    BY <1>6, <1>7 DEF Skipped
  <2>3. ~ Layout(Append(file.blocks, name))
    BY <1>2, <1>4, <2>2, NotFound
  <2> QED
    BY <1>5, <1>9, <2>1, <2>3, VerdictNext DEF Reading
<1>8. CASE ~ (Skipped(name) \/ \A i \in blocks + 1..Len(netblocks) : netblocks[i] # name)
  <2>1. PICK i \in blocks + 1..Len(netblocks) : netblocks[i] = name /\ blocks' = i
    BY <1>8 DEF BeginBlock
  <2>2. status' = "read"
    BY <1>1, <1>8 DEF BeginBlock
  <2>3. \A p \in blocks + 1..14 :
          netblocks[p] \in Mandatory => \E j \in blocks + 1..p : netblocks[j] = name
    BY <1>6, <1>8 DEF Skipped
  <2>4. i \in 1..14 /\ i \in blocks + 1..14
    BY <1>2, <1>6, <2>1
  <2>5. Pointing(Append(file.blocks, name), i)
    BY <1>2, <1>4, <2>1, <2>3, <2>4, Found
  <2>6. Layout(Append(file.blocks, name))
    BY <2>4, <2>5, PointingLayout
  <2>7. Counting'
    BY <1>1, <1>2, <1>3 DEF Counting, Positional, IdentOf
  <2>8. Pointing(file'.blocks, blocks')
    BY <1>4, <2>1, <2>5
  <2>9. Reading'
    BY <2>7, <2>8 DEF Reading, Pointing
  <2> QED
    BY <1>5, <1>9, <2>2, <2>6, <2>9, VerdictNext
<1> QED
  BY <1>7, <1>8

LEMMA InsertPlaceVerdict ==
  ASSUME VInv, NEW ident \in Int, NEW marked \in Int, InsertPlace(ident, marked)
  PROVE  Reading' /\ Verdict'
<1> DEFINE line  == [ident |-> ident, marked |-> marked]
           count == net.numpl + 1
           id    == Number(ident, count, auto)
<1>1. /\ file' = [file EXCEPT !.PL = Append(@, line)]
      /\ line \in PlaceLine /\ status = "read" /\ Block = "PL"
      /\ blocks' = blocks /\ Room
  BY DEF InsertPlace, Error, Undefined, PlaceLine
<1>2. line.ident = ident /\ line.marked = marked
  OBVIOUS
<1> HIDE DEF line
<1>3. /\ Good(file) /\ ~ Bad(file) /\ Pointing(file.blocks, blocks) /\ Counting
      /\ blocks \in 0..14 /\ file \in Files
      /\ InBounds(pl) /\ Translates(pl, file.PL, -1)
      /\ net.numpl = Len(file.PL)
  BY <1>1, ReadFacts
<1>4. file.PL \in Seq(PlaceLine)
  BY <1>3, FieldsOfFile
<1>5. /\ file'.PL = Append(file.PL, line) /\ file'.TR = file.TR
      /\ file'.TP = file.TP /\ file'.PT = file.PT /\ file'.RA = file.RA
  BY <1>1, <1>3, OnePlace
<1>6. file'.blocks = file.blocks
  BY <1>1, <1>3 DEF Files
<1>7. blocks = 6
  BY <1>1, <1>3, BlockNames
<1>8. file.TR = <<>> /\ file.TP = <<>> /\ file.PT = <<>> /\ file.RA = <<>>
  BY <1>7 DEF VInv, DInv, Inv, Later, ArcsLater
<1>9. auto <=> Positional(file.PL)
  BY <1>3, <1>8 DEF Counting
<1>10. NumberingOK(file.PL) /\ NumberingOK(file.TR) /\ Marking(file.PL) /\ Layout(file.blocks)
  BY <1>3 DEF Good, Nodes
<1>16. Outside(id) <=> Outside(ident)
  BY <1>1, <1>3, RoomLeft, OutsideNumber
<1>17. Bad(file') <=> Outside(id)
  <2>1. NodesHarm(Append(file.PL, line)) <=> Outside(ident)
    BY <1>1, <1>2, <1>3, <1>4, HarmAppend DEF Bad
  <2> QED
    BY <2>1, <1>3, <1>5, <1>8, <1>16, NoArcsBad DEF Bad
<1>18. CASE Outside(id)
  <2>1. status' = "undefined"
    BY <1>18 DEF InsertPlace, Undefined
  <2> QED
    BY <1>17, <1>18, <2>1, VerdictNext DEF Reading
<1> SUFFICES ASSUME ~ Outside(id) PROVE Reading' /\ Verdict'
  BY <1>18
<1>19. line.ident \in Nat
  BY <1>2, <1>16, InsideIsNat
<1>11. /\ NumberingOK(Append(file.PL, line)) <=> ~ (id = 0 \/ UsedTwice(pl, id))
       /\ StaysAuto(ident, count, auto) <=> Positional(Append(file.PL, line))
  BY <1>1, <1>2, <1>3, <1>4, <1>9, <1>10, <1>19, NumberVerdict
<1>12. Marking(Append(file.PL, line)) <=> ~ marked > 1
  <2>1. /\ DOMAIN Append(file.PL, line) = DOMAIN file.PL \cup {Len(file.PL) + 1}
        /\ \A i \in DOMAIN file.PL : Append(file.PL, line)[i] = file.PL[i]
        /\ Append(file.PL, line)[Len(file.PL) + 1] = line
    BY <1>1, <1>4
  <2>2. Marking(Append(file.PL, line)) <=> Marking(file.PL) /\ line.marked <= 1
    BY <2>1 DEF Marking
  <2> QED
    BY <2>2, <1>2, <1>10
<1>13. Good(file') <=> NumberingOK(Append(file.PL, line)) /\ Marking(Append(file.PL, line))
  BY <1>5, <1>6, <1>8, <1>10, NoArcsNamed DEF Good, Nodes
<1>14. CASE id = 0 \/ UsedTwice(pl, id) \/ marked > 1
  <2>1. status' = "error"
    BY <1>14 DEF InsertPlace, Error
  <2> QED
    BY <1>11, <1>12, <1>13, <1>14, <1>17, <2>1, VerdictNext DEF Reading
<1>15. CASE ~ (id = 0 \/ UsedTwice(pl, id) \/ marked > 1)
  <2>1. status' = "read" /\ auto' = StaysAuto(ident, count, auto)
    BY <1>1, <1>15 DEF InsertPlace
  <2>2. auto' <=> Positional(file'.PL)
    BY <1>5, <1>11, <2>1, Zenon
  <2>3. file'.TR = <<>>
    BY <1>5, <1>8
  <2>4. Counting'
    BY <2>2, <2>3 DEF Counting, Positional
  <2>5. Reading'
    BY <1>1, <1>3, <1>6, <2>4 DEF Reading, Pointing
  <2> QED
    BY <1>11, <1>12, <1>13, <1>15, <1>17, <2>1, <2>5, VerdictNext
<1> QED
  BY <1>14, <1>15

LEMMA InsertTransVerdict ==
  ASSUME VInv, NEW ident \in Int, InsertTrans(ident)
  PROVE  Reading' /\ Verdict'
<1> DEFINE line  == [ident |-> ident]
           count == net.numtr + 1
           id    == Number(ident, count, AutoOfTrans)
<1>1. /\ file' = [file EXCEPT !.TR = Append(@, line)]
      /\ line \in TransLine /\ status = "read" /\ Block = "TR"
      /\ blocks' = blocks /\ Room
  BY DEF InsertTrans, Error, Undefined, TransLine
<1>2. line.ident = ident
  OBVIOUS
<1> HIDE DEF line
<1>3. /\ Good(file) /\ ~ Bad(file) /\ Pointing(file.blocks, blocks) /\ Counting
      /\ blocks \in 0..14 /\ file \in Files
      /\ InBounds(tr) /\ Translates(tr, file.TR, 0)
      /\ net.numtr = Len(file.TR)
  BY <1>1, ReadFacts
<1>4. file.TR \in Seq(TransLine)
  BY <1>3, FieldsOfFile
<1>5. /\ file'.TR = Append(file.TR, line) /\ file'.PL = file.PL
      /\ file'.TP = file.TP /\ file'.PT = file.PT /\ file'.RA = file.RA
  BY <1>1, <1>3, OneTrans
<1>6. file'.blocks = file.blocks
  BY <1>1, <1>3 DEF Files
<1>7. blocks = 7
  BY <1>1, <1>3, BlockNames
<1>8. file.TP = <<>> /\ file.PT = <<>> /\ file.RA = <<>>
  BY <1>7 DEF VInv, DInv, ArcsLater
<1>9. AutoOfTrans <=> Positional(file.TR)
  <2>1. net.numtr = 0 <=> file.TR = <<>>
    BY <1>3, <1>4
  <2>2. CASE file.TR = <<>>
    <3>1. AutoOfTrans
      BY <2>1, <2>2 DEF AutoOfTrans
    <3>2. Positional(file.TR)
      BY <2>2 DEF Positional
    <3> QED
      BY <3>1, <3>2
  <2>3. CASE file.TR # <<>>
    <3>1. auto <=> Positional(file.TR)
      BY <1>3, <2>3 DEF Counting
    <3>2. net.numtr # 0
      BY <2>1, <2>3
    <3> QED
      BY <3>1, <3>2, Zenon DEF AutoOfTrans
  <2> QED
    BY <2>2, <2>3
<1>10. NumberingOK(file.PL) /\ NumberingOK(file.TR) /\ Marking(file.PL) /\ Layout(file.blocks)
  BY <1>3 DEF Good, Nodes
<1>16. Outside(id) <=> Outside(ident)
  BY <1>1, <1>3, RoomLeft, OutsideNumber
<1>17. Bad(file') <=> Outside(id)
  <2>1. NodesHarm(Append(file.TR, line)) <=> Outside(ident)
    BY <1>1, <1>2, <1>3, <1>4, HarmAppend DEF Bad
  <2> QED
    BY <2>1, <1>3, <1>5, <1>8, <1>16, NoArcsBad DEF Bad
<1>18. CASE Outside(id)
  <2>1. status' = "undefined"
    BY <1>18 DEF InsertTrans, Undefined
  <2> QED
    BY <1>17, <1>18, <2>1, VerdictNext DEF Reading
<1> SUFFICES ASSUME ~ Outside(id) PROVE Reading' /\ Verdict'
  BY <1>18
<1>19. line.ident \in Nat
  BY <1>2, <1>16, InsideIsNat
<1>11. /\ NumberingOK(Append(file.TR, line)) <=> ~ (id = 0 \/ UsedTwice(tr, id))
       /\ StaysAuto(ident, count, AutoOfTrans) <=> Positional(Append(file.TR, line))
  BY <1>1, <1>2, <1>3, <1>4, <1>9, <1>10, <1>19, NumberVerdict
<1>13. Good(file') <=> NumberingOK(Append(file.TR, line))
  BY <1>5, <1>6, <1>8, <1>10, NoArcsNamed DEF Good, Nodes
<1>14. CASE id = 0 \/ UsedTwice(tr, id)
  <2>1. status' = "error"
    BY <1>14 DEF InsertTrans, Error
  <2> QED
    BY <1>11, <1>13, <1>14, <1>17, <2>1, VerdictNext DEF Reading
<1>15. CASE ~ (id = 0 \/ UsedTwice(tr, id))
  <2>1. status' = "read" /\ auto' = StaysAuto(ident, count, AutoOfTrans)
    BY <1>1, <1>15 DEF InsertTrans
  <2>2. auto' <=> Positional(file'.TR)
    BY <1>5, <1>11, <2>1, Zenon
  <2>3. file'.TR # <<>>
    BY <1>1, <1>4, <1>5, LongerNotEmpty
  <2>4. Counting'
    BY <2>2, <2>3 DEF Counting, Positional
  <2>5. Reading'
    BY <1>1, <1>3, <1>6, <2>4 DEF Reading, Pointing
  <2> QED
    BY <1>11, <1>13, <1>15, <1>17, <2>1, <2>5, VerdictNext
<1> QED
  BY <1>14, <1>15

(* The two look-ups of an arc.                                             *)
LEMMA LookUps ==
  ASSUME VInv, status = "read", NEW t \in Int, NEW p \in Int
  PROVE  /\ Known(tr, t) <=> Names(file.TR, t)
         /\ Known(pl, p) <=> Names(file.PL, p)
         /\ ArcBad(file.TR, <<t, p>>) <=> LooksOutside(t, p)
<1>1. /\ file \in Files /\ InBounds(pl) /\ InBounds(tr)
      /\ Translates(pl, file.PL, -1) /\ Translates(tr, file.TR, 0)
  BY ReadFacts
<1>2. file.PL \in Seq(PlaceLine) /\ file.TR \in Seq(TransLine)
  BY <1>1, FieldsOfFile
<1>3. Known(tr, t) <=> Names(file.TR, t)
  BY <1>1, <1>2, KnownNames
<1>4. Known(pl, p) <=> Names(file.PL, p)
  BY <1>1, <1>2, KnownNames
<1>5. <<t, p>> # <<>> /\ <<t, p>>[1] = t /\ <<t, p>>[2] = p
  BY PairTurned
<1>6. ArcBad(file.TR, <<t, p>>) <=> LooksOutside(t, p)
  BY <1>3, <1>5 DEF ArcBad, LooksOutside
<1> QED
  BY <1>3, <1>4, <1>6

(* What the hooks do with an arc of the transition t and the place p.      *)
Judged(t, p) ==
  /\ status' \in {"read", "error", "undefined"}
  /\ status' = "undefined" <=> LooksOutside(t, p)
  /\ status' = "error" <=> ~ LooksOutside(t, p) /\ ~ (Known(tr, t) /\ Known(pl, p))

LEMMA ArcVerdict ==
  ASSUME VInv, status = "read", NEW t \in Int, NEW p \in Int, Judged(t, p),
         Bad(file') <=> ArcBad(file.TR, <<t, p>>),
         Good(file') <=> Names(file.TR, t) /\ Names(file.PL, p)
  PROVE  Verdict'
BY LookUps, VerdictNext DEF Judged

LEMMA InsertArcVerdict ==
  ASSUME VInv, NEW co \in ArcLine, InsertArc(co)
  PROVE  Reading' /\ Verdict'
<1>1. /\ Longer(file, file', Block, co)
      /\ status = "read" /\ Block \in {"TP", "PT"} /\ Block \in ArcBlocks
      /\ blocks' = blocks
  BY DEF InsertArc, Error, Undefined, Longer, ArcBlocks
<1>2. /\ Good(file) /\ ~ Bad(file) /\ Pointing(file.blocks, blocks) /\ Counting
      /\ blocks \in 0..14 /\ file \in Files
  BY <1>1, ReadFacts
<1>4. "TP" \in ArcBlocks /\ "PT" \in ArcBlocks /\ "RA" \in ArcBlocks
  BY DEF ArcBlocks
<1>5. /\ file'.PL = file.PL /\ file'.TR = file.TR
      /\ file'[Block] = Append(file[Block], co) /\ file[Block] \in Seq(ArcLine)
      /\ \A c \in ArcBlocks \ {Block} : file'[c] = file[c]
  BY <1>1, <1>2, OneArc
<1>6. file'.blocks = file.blocks
  BY <1>1, <1>2 DEF Files, Longer
<1>7. Direction = (Block = "TP")
  BY <1>1 DEF VInv, DInv, Wiring, Direction
<1>8. /\ Layout(file.blocks) /\ Nodes(file.PL, file.TR)
      /\ Arcs(file.TR, file.PL, file.TP, file.PT, file.RA)
  BY <1>2 DEF Good
<1>9. Good(file') <=> Arcs(file.TR, file.PL, file'.TP, file'.PT, file'.RA)
  BY <1>5, <1>6, <1>8 DEF Good
<1>10. Reading'
  <2>1. CASE status' # "read"
    BY <2>1 DEF Reading
  <2>2. CASE status' = "read"
    <3>1. UNCHANGED auto
      BY <2>2 DEF InsertArc, Error, Undefined
    <3> QED
      BY <1>1, <1>2, <1>5, <1>6, <3>1 DEF Reading, Counting, Positional, Pointing, IdentOf
  <2> QED
    BY <2>1, <2>2
<1>11. CASE Block = "TP"
  <2>1. /\ file'.TP = Append(file.TP, co) /\ file.TP \in Seq(ArcLine)
        /\ file'.PT = file.PT /\ file'.RA = file.RA
    BY <1>4, <1>5, <1>11
  <2>2. Bad(file') <=> ArcBad(file.TR, co)
    BY <1>2, <1>5, <2>1, BadAppend DEF Bad
  <2>3. CASE co = <<>>
    BY <1>10, <2>2, <2>3, VerdictNext DEF ArcBad, InsertArc, Undefined
  <2>4. CASE co # <<>>
    <3>1. PICK x \in Int, y \in Int : co = <<x, y>>
      BY <2>4 DEF ArcLine
    <3>2. co[1] = x /\ co[2] = y
      BY <3>1
    <3>3. Good(file') <=> Names(file.TR, x) /\ Names(file.PL, y)
      BY <1>8, <1>9, <2>1, <3>1, NamedAppend DEF Arcs
    <3>4. Judged(x, y)
      BY <1>1, <1>7, <1>11, <2>4, <3>2 DEF InsertArc, Error, Undefined, Judged
    <3> QED
      BY <1>1, <1>10, <2>2, <3>1, <3>3, <3>4, ArcVerdict
  <2> QED
    BY <2>3, <2>4
<1>12. CASE Block = "PT"
  <2>1. /\ file'.PT = Append(file.PT, co) /\ file.PT \in Seq(ArcLine)
        /\ file'.TP = file.TP /\ file'.RA = file.RA
    BY <1>4, <1>5, <1>12
  <2>2. /\ Turned(file'.PT) = Append(Turned(file.PT), TurnedArc(co))
        /\ Turned(file.PT) \in Seq(ArcLine) /\ TurnedArc(co) \in ArcLine
    BY <2>1, TurnedAppend, LineTurned
  <2>3. Bad(file') <=> ArcBad(file.TR, TurnedArc(co))
    <3>1. ArcsBad(file.TR, Append(Turned(file.PT), TurnedArc(co))) <=>
            ArcsBad(file.TR, Turned(file.PT)) \/ ArcBad(file.TR, TurnedArc(co))
      BY <2>2, BadAppend
    <3> QED
      BY <1>2, <1>5, <2>1, <2>2, <3>1 DEF Bad
  <2>4. CASE co = <<>>
    BY <1>10, <2>3, <2>4, VerdictNext DEF ArcBad, TurnedArc, InsertArc, Undefined
  <2>5. CASE co # <<>>
    <3>1. PICK x \in Int, y \in Int : co = <<x, y>>
      BY <2>5 DEF ArcLine
    <3>2. co[1] = x /\ co[2] = y /\ TurnedArc(co) = <<y, x>>
      BY <3>1, PairTurned
    <3>3. ArcsNamed(file.TR, file.PL, Append(Turned(file.PT), <<y, x>>)) <=>
            /\ ArcsNamed(file.TR, file.PL, Turned(file.PT))
            /\ Names(file.TR, y) /\ Names(file.PL, x)
      BY <2>2, NamedAppend
    <3>4. Good(file') <=> Names(file.TR, y) /\ Names(file.PL, x)
      BY <1>8, <1>9, <2>1, <2>2, <3>2, <3>3 DEF Arcs
    <3>5. Judged(y, x)
      BY <1>1, <1>7, <1>12, <2>5, <3>2 DEF InsertArc, Error, Undefined, Judged
    <3> QED
      BY <1>1, <1>10, <2>3, <3>2, <3>4, <3>5, ArcVerdict
  <2> QED
    BY <2>4, <2>5
<1> QED
  BY <1>1, <1>11, <1>12

LEMMA InsertRaVerdict ==
  ASSUME VInv, NEW co \in ArcLine, InsertRa(co)
  PROVE  Reading' /\ Verdict'
<1>1. /\ Longer(file, file', "RA", co)
      /\ status = "read" /\ Block = "RA" /\ UNCHANGED <<blocks, auto>>
  BY DEF InsertRa, Error, Undefined, Longer
<1>2. /\ Good(file) /\ ~ Bad(file) /\ Pointing(file.blocks, blocks) /\ Counting
      /\ blocks \in 0..14 /\ file \in Files
  BY <1>1, ReadFacts
<1>4. "TP" \in ArcBlocks /\ "PT" \in ArcBlocks /\ "RA" \in ArcBlocks
  BY DEF ArcBlocks
<1>5. /\ file'.PL = file.PL /\ file'.TR = file.TR
      /\ file'.RA = Append(file.RA, co) /\ file.RA \in Seq(ArcLine)
      /\ file'.TP = file.TP /\ file'.PT = file.PT
  BY <1>1, <1>2, <1>4, OneArc
<1>6. file'.blocks = file.blocks
  BY <1>1, <1>2 DEF Files, Longer
<1>7. Reading'
  BY <1>1, <1>2, <1>5, <1>6 DEF Reading, Counting, Positional, Pointing, IdentOf
<1>8. Bad(file') <=> ArcBad(file.TR, co)
  BY <1>2, <1>5, BadAppend DEF Bad
<1>9. CASE co = <<>>
  BY <1>7, <1>8, <1>9, VerdictNext DEF ArcBad, InsertRa, Undefined
<1>10. CASE co # <<>>
  <2>1. PICK x \in Int, y \in Int : co = <<x, y>>
    BY <1>10 DEF ArcLine
  <2>2. co[1] = x /\ co[2] = y
    BY <2>1
  <2>3. Good(file') <=> Names(file.TR, x) /\ Names(file.PL, y)
    BY <1>2, <1>5, <1>6, <2>1, NamedAppend DEF Good, Arcs
  <2>4. Judged(x, y)
    BY <1>1, <1>10, <2>2 DEF InsertRa, Error, Undefined, Judged
  <2> QED
    BY <1>1, <1>7, <1>8, <2>1, <2>3, <2>4, ArcVerdict
<1> QED
  BY <1>9, <1>10

LEMMA SameFile ==
  ASSUME UNCHANGED file
  PROVE  (WellFormed' <=> WellFormed) /\ (Harmful' <=> Harmful)
<1>1. (WellFormed <=> Good(file))' /\ (Harmful <=> Bad(file))'
  BY GoodIs, BadIs, PTL
<1> QED
  BY <1>1, GoodIs, BadIs DEF Good, Bad

(* At the end of the file the blocks up to the pointer are there, no others. *)
LEMMA EndOfFileVerdict == ASSUME VInv, EndOfFile PROVE Reading' /\ Verdict'
<1>1. status = "read" /\ UNCHANGED <<file, net>> /\ status' \in {"missing", "unmarked", "ok"}
  BY DEF EndOfFile
<1>2. Good(file) /\ ~ Bad(file) /\ Pointing(file.blocks, blocks) /\ blocks \in 0..14
  BY <1>1, ReadFacts
<1>3. Len(netblocks) = 14
  BY BlockNames
<1>4. WellFormed /\ ~ Harmful
  BY <1>2, GoodIs, BadIs
<1>5. AllThere <=> ~ \E i \in blocks + 1..14 : netblocks[i] \in Mandatory
  <2>1. ASSUME NEW i \in blocks + 1..14, netblocks[i] \in Mandatory, AllThere
        PROVE  FALSE
    <3>1. PICK j \in DOMAIN file.blocks : file.blocks[j] = netblocks[i]
      BY <2>1 DEF AllThere
    <3>2. PICK p \in 1..blocks : file.blocks[j] = netblocks[p]
      BY <1>2 DEF Pointing
    <3>3. i \in 1..14 /\ p \in 1..14 /\ p < i
      BY <1>2
    <3>4. i = p
      BY <3>1, <3>2, <3>3, Same
    <3> QED
      BY <3>3, <3>4
  <2>2. ASSUME ~ \E i \in blocks + 1..14 : netblocks[i] \in Mandatory
        PROVE  AllThere
    <3> SUFFICES ASSUME NEW n \in Mandatory
                 PROVE  \E i \in DOMAIN file.blocks : file.blocks[i] = n
      BY DEF AllThere
    <3>1. Position(n) \in 1..14 /\ netblocks[Position(n)] = n
      BY PositionIs
    <3>2. Position(n) \in 1..blocks
      <4>1. Position(n) \notin blocks + 1..14
        BY <2>2, <3>1
      <4> QED
        BY <4>1, <3>1, <1>2
    <3> QED
      BY <3>1, <3>2, <1>2 DEF Pointing
  <2> QED
    BY <2>1, <2>2
<1>6. net.marked = Marked
  BY <1>1 DEF VInv, DInv, Denotes, Going
<1>7. /\ status' = "missing" => ~ AllThere
      /\ status' = "unmarked" => AllThere /\ Marked = {}
      /\ status' = "ok" => AllThere /\ Marked # {}
  BY <1>3, <1>5, <1>6 DEF EndOfFile
<1>8. /\ AllThere' <=> AllThere
      /\ Marked' = Marked
      /\ WellFormed' <=> WellFormed
      /\ Harmful' <=> Harmful
  BY <1>1, SameFile DEF AllThere, Marked
<1>9. status' \notin {"error", "undefined", "read"}
  BY <1>1
<1> QED
  BY <1>4, <1>7, <1>8, <1>9 DEF Verdict, Reading

LEMMA StutterVerdict == ASSUME VInv, UNCHANGED vars PROVE Reading' /\ Verdict'
<1>1. UNCHANGED <<file, status, blocks, auto>>
  BY DEF vars
<1>2. Reading'
  BY <1>1 DEF VInv, Reading, Counting, Positional, IdentOf, Pointing
<1>3. /\ AllThere' <=> AllThere
      /\ Marked' = Marked
      /\ WellFormed' <=> WellFormed
      /\ Harmful' <=> Harmful
  BY <1>1, SameFile DEF AllThere, Marked
<1> QED
  BY <1>1, <1>2, <1>3 DEF VInv, Verdict

LEMMA InitVInv == Init => VInv
<1> SUFFICES ASSUME Init PROVE VInv
  OBVIOUS
<1>1. /\ file.blocks = <<>> /\ file.PL = <<>> /\ file.TR = <<>> /\ file.TP = <<>>
      /\ file.PT = <<>> /\ file.RA = <<>>
      /\ status = "read" /\ blocks = 0 /\ auto = TRUE
  BY DEF Init
<1>2. Pointing(<<>>, 0)
  BY DEF Pointing
<1>3. NumberingOK(<<>>) /\ Marking(<<>>) /\ Positional(<<>>)
  BY DEF NumberingOK, Marking, Positional
<1>4. Good(file)
  BY <1>1, <1>2, <1>3, PointingLayout, NoArcsNamed DEF Good, Nodes
<1>5. ~ Bad(file)
  BY <1>1, NoArcsBad DEF Bad, NodesHarm
<1>7. Verdict
  BY <1>1, <1>4, <1>5, GoodIs, BadIs DEF Verdict
<1>6. Reading
  BY <1>1, <1>2, <1>3 DEF Reading, Counting
<1> QED
  BY <1>6, <1>7, InitDInv DEF VInv

(* The reader looks outside its tables exactly if a negative number, one    *)
(* that is too large or an arc without numbers makes it, and otherwise      *)
(* refuses a file exactly if it is not of the format it takes, for files of *)
(* any length with any names of blocks and any ints for numbers.           *)
THEOREM VerdictRight == Spec => []Verdict
<1>1. VInv /\ DInv' /\ [Next]_vars => VInv'
  <2> SUFFICES ASSUME VInv, [Next]_vars PROVE Reading' /\ Verdict'
    BY DEF VInv
  <2>1. ASSUME NEW n \in Keywords, BeginBlock(n) PROVE Reading' /\ Verdict'
    BY <2>1, BeginBlockVerdict
  <2>2. ASSUME NEW i \in Idents, NEW m \in -1..2, InsertPlace(i, m)
        PROVE  Reading' /\ Verdict'
    <3>1. i \in Int /\ m \in Int
      BY FieldsFit
    <3> QED
      BY <2>2, <3>1, InsertPlaceVerdict
  <2>3. ASSUME NEW i \in Idents, InsertTrans(i) PROVE Reading' /\ Verdict'
    <3>1. i \in Int
      BY FieldsFit
    <3> QED
      BY <2>3, <3>1, InsertTransVerdict
  <2>4. ASSUME NEW co \in Fields, InsertArc(co) PROVE Reading' /\ Verdict'
    <3>1. co \in ArcLine
      BY FieldsFit
    <3> QED
      BY <2>4, <3>1, InsertArcVerdict
  <2>5. ASSUME NEW co \in Fields, InsertRa(co) PROVE Reading' /\ Verdict'
    <3>1. co \in ArcLine
      BY FieldsFit
    <3> QED
      BY <2>5, <3>1, InsertRaVerdict
  <2>6. CASE EndOfFile
    BY <2>6, EndOfFileVerdict
  <2>7. CASE UNCHANGED vars
    BY <2>7, StutterVerdict
  <2> QED
    BY <2>1, <2>2, <2>3, <2>4, <2>5, <2>6, <2>7 DEF Next, Fields
<1>2. VInv => Verdict
  BY DEF VInv
<1> QED
  BY InitVInv, DescribedAlways, <1>1, <1>2, PTL DEF Spec
=============================================================================
