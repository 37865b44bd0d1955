------------------------------ MODULE Readpep ------------------------------
(***************************************************************************)
(* The reader of PEP files: _read_PEP_file and its hooks _insert_place,    *)
(* _insert_trans, _insert_arc, _insert_ra of src/cunf/readpep.c, the        *)
(* functions of netconv.c they call, and the checks main makes of the net. *)
(*                                                                         *)
(* The environment writes the file block by block and line by line; `file' *)
(* remembers it for the properties.  A line is the fields the hooks look   *)
(* at: the number and the marking of a node (0 if the field is not there;  *)
(* fields are cleared before each line), the two numbers of an arc, or the *)
(* empty tuple if the line of an arc has none and rd_co stays NULL.  Nodes *)
(* are numbered as they are created, places from 0 and transitions from 1; *)
(* the file refers to them by identifiers, which two growing tables        *)
(* translate.                                                              *)
(*                                                                         *)
(* Numbers are whatever ReadNumber makes of the text: it reads a sign, and *)
(* digits that are too many for an int leave some int.  Nothing refuses a  *)
(* negative identifier, which the hooks use as an index.  The behaviour of *)
(* the program is undefined from there on (as it is after rd_co = NULL and *)
(* after a size that overflows): the model stops with the status           *)
(* "undefined" and says nothing of what follows.                           *)
(***************************************************************************)
EXTENDS Integers, Sequences, FiniteSets

CONSTANTS
  NAMES_START,    \* slots of a new table
  NAMES_OFFSET,   \* slots by which it grows
  MAXINT,         \* the greatest int
  Idents,         \* the numbers that occur in files, as ReadNumber returns them
  Keywords,       \* the names of blocks that occur
  MaxLines        \* bound on the lines of a file

(* The sizes a table can have before its computation overflows, and the    *)
(* identifiers it can hold then.                                           *)
Sizes == {NAMES_START + k * NAMES_OFFSET : k \in 0..MAXINT} \cap 0..MAXINT

Fits(id) == \E s \in Sizes : id < s

ASSUME SizesAssumption ==
  {NAMES_START, NAMES_OFFSET, MAXINT} \subseteq Nat \ {0} /\ NAMES_START <= MAXINT
ASSUME IdentsAssumption == Idents \subseteq -MAXINT - 1..MAXINT
ASSUME LinesAssumption == MaxLines \in Nat /\ Fits(MaxLines)

VARIABLES
  file,         \* [blocks, PL, TR, TP, PT, RA] : what was read
  status,       \* "read", "error" (ut_err in the loop), "undefined" (memory outside
                \* the tables is used), "missing", "unmarked", "ok"
  blocks,       \* the block at work, as a position in netblocks; 0 before the first
  blocktype,    \* its name, which _insert_arc clears
  tp,           \* the static variable of _insert_arc
  auto,         \* autonumbering
  pl, tr,       \* PlArray and TrArray with their sizes: [arr, anz, max]
  net           \* [numpl, numtr, marked, pre, post, cont, isplain]

vars == <<file, status, blocks, blocktype, tp, auto, pl, tr, net>>

NoNode == -1

netblocks == <<"DBL", "DPL", "DTR", "DPT", "BL", "PL", "TR", "PTR", "TP", "PT",
               "RA", "PTP", "PPT", "TX">>

Mandatory == {"PL", "TR", "TP", "PT"}

Block == IF blocks = 0 THEN "" ELSE netblocks[blocks]

-----------------------------------------------------------------------------
(* Blocks.                                                                 *)

(* The loop that looks for the name from the pointer on: whether it skips  *)
(* a block that must be there, or runs off the end.                        *)
Skipped(name) ==
  \E i \in blocks + 1..Len(netblocks) :
    /\ netblocks[i] \in Mandatory
    /\ \A j \in blocks + 1..i : netblocks[j] # name

BeginBlock(name) ==
  /\ status = "read"
  /\ file' = [file EXCEPT !.blocks = Append(@, name)]
  /\ IF Skipped(name) \/ \A i \in blocks + 1..Len(netblocks) : netblocks[i] # name
     THEN status' = "error" /\ UNCHANGED <<blocks, blocktype>>
     ELSE /\ \E i \in blocks + 1..Len(netblocks) : netblocks[i] = name /\ blocks' = i
          /\ blocktype' = name
          /\ UNCHANGED status
  /\ UNCHANGED <<tp, auto, pl, tr, net>>

-----------------------------------------------------------------------------
(* Lines.                                                                  *)

Room ==
  Len(file.PL) + Len(file.TR) + Len(file.TP) + Len(file.PT) + Len(file.RA) < MaxLines

Error == status' = "error" /\ UNCHANGED <<blocks, blocktype, tp, auto, pl, tr, net>>

Undefined ==
  status' = "undefined" /\ UNCHANGED <<blocks, blocktype, tp, auto, pl, tr, net>>

(* The number a node gets, 0 if it has none: its own, or the count while   *)
(* autonumbering is on.                                                    *)
StaysAuto(ident, count, on) == on /\ ident \in {0, count}

Number(ident, count, on) ==
  IF ident = 0 /\ StaysAuto(ident, count, on) THEN count ELSE ident

(* A new node whose number is not in the table and cannot be: a negative   *)
(* one is less than the greatest number, and the table is read below its   *)
(* start; for one that does not fit the size overflows.                    *)
Outside(id) == id < 0 \/ ~ Fits(id)

UsedTwice(t, id) == id \in 1..t.anz /\ t.arr[id] # NoNode

(* Mutant: the table grows once.                                           *)
GrownOnce(t, id, node, u) ==
  LET anz == IF id > t.anz THEN id ELSE t.anz
      max == IF anz >= t.max THEN t.max + NAMES_OFFSET ELSE t.max
  IN  u = [anz |-> anz,
           max |-> max,
           arr |-> [i \in 1..max - 1 |-> IF i = id THEN node
                                         ELSE IF i < t.max THEN t.arr[i] ELSE NoNode]]

(* u is the table t after the new node is entered: its size goes up in     *)
(* steps of NAMES_OFFSET until the greatest number fits.  (The slot 0 is   *)
(* never used.)                                                            *)
Entered(t, id, node, u) ==
  LET anz == IF id > t.anz THEN id ELSE t.anz
  IN  \E max \in Sizes :
        /\ max > anz
        /\ max >= t.max
        /\ max = t.max \/ max - NAMES_OFFSET <= anz
        /\ u = [anz |-> anz,
                max |-> max,
                arr |-> [i \in 1..max - 1 |-> IF i = id THEN node
                                              ELSE IF i < t.max THEN t.arr[i] ELSE NoNode]]

(* nc_create_place with its marking, of which only what is not 0 matters;  *)
(* nc_create_transition; nc_create_arc, which ignores an arc that is there. *)
CreatePlace(marked) ==
  [net EXCEPT !.numpl = @ + 1, !.marked = IF marked # 0 THEN @ \cup {net.numpl} ELSE @]

CreateTrans == [net EXCEPT !.numtr = @ + 1]

CreateArc(arcs, t, p) == arcs \cup {<<t, p>>}

(* _insert_place: the node is created before its marking is refused.       *)
InsertPlace(ident, marked) ==
  /\ status = "read" /\ Block = "PL" /\ Room
  /\ file' = [file EXCEPT !.PL = Append(@, [ident |-> ident, marked |-> marked])]
  /\ LET count == net.numpl + 1
         id    == Number(ident, count, auto)
     IN IF Outside(id) THEN Undefined
        ELSE IF id = 0 \/ UsedTwice(pl, id) \/ marked > 1 THEN Error
        ELSE /\ auto' = StaysAuto(ident, count, auto)
             /\ Entered(pl, id, net.numpl, pl')
             /\ net' = CreatePlace(marked)
             /\ UNCHANGED <<status, blocks, blocktype, tp, tr>>

(* Mutant: autonumbering is not switched on again.                         *)
AutoAsBefore == auto

(* The first transition switches autonumbering on again.                   *)
AutoOfTrans == net.numtr = 0 \/ auto

InsertTrans(ident) ==
  /\ status = "read" /\ Block = "TR" /\ Room
  /\ file' = [file EXCEPT !.TR = Append(@, [ident |-> ident])]
  /\ LET count == net.numtr + 1
         id    == Number(ident, count, AutoOfTrans)
     IN IF Outside(id) THEN Undefined
        ELSE IF id = 0 \/ UsedTwice(tr, id) THEN Error
        ELSE /\ auto' = StaysAuto(ident, count, AutoOfTrans)
             /\ Entered(tr, id, count, tr')
             /\ net' = CreateTrans
             /\ UNCHANGED <<status, blocks, blocktype, tp, pl>>

(* A number that is not negative is looked up, first the transition and    *)
(* then the place; a negative one passes the tests and is looked up too.   *)
Known(t, id) == id \in 1..t.anz /\ t.arr[id] # NoNode

LooksOutside(t, p) == t < 0 \/ (Known(tr, t) /\ p < 0)

(* Mutant: the direction stays the one of the first block of arcs.         *)
DirectionOnce == IF net.pre \cup net.post # {} THEN tp ELSE blocktype # "PT"

(* The direction is found out at the first arc of a block.                 *)
Direction == IF blocktype = "" THEN tp ELSE blocktype # "PT"

(* _insert_arc, whose line has the fields co.                              *)
InsertArc(co) ==
  /\ status = "read" /\ Block \in {"TP", "PT"} /\ Room
  /\ file' = [file EXCEPT ![Block] = Append(@, co)]
  /\ IF co = <<>> THEN Undefined
     ELSE LET p == IF Direction THEN co[2] ELSE co[1]
              t == IF Direction THEN co[1] ELSE co[2]
          IN IF LooksOutside(t, p) THEN Undefined
             ELSE IF ~ Known(tr, t) \/ ~ Known(pl, p) THEN Error
             ELSE /\ tp' = Direction
                  /\ blocktype' = ""
                  /\ net' = IF Direction
                            THEN [net EXCEPT !.post = CreateArc(@, tr.arr[t], pl.arr[p])]
                            ELSE [net EXCEPT !.pre = CreateArc(@, tr.arr[t], pl.arr[p])]
                  /\ UNCHANGED <<status, blocks, auto, pl, tr>>

InsertRa(co) ==
  /\ status = "read" /\ Block = "RA" /\ Room
  /\ file' = [file EXCEPT !.RA = Append(@, co)]
  /\ IF co = <<>> THEN Undefined
     ELSE IF LooksOutside(co[1], co[2]) THEN Undefined
     ELSE IF ~ Known(tr, co[1]) \/ ~ Known(pl, co[2]) THEN Error
     ELSE /\ net' = [net EXCEPT !.cont = CreateArc(@, tr.arr[co[1]], pl.arr[co[2]]),
                                !.isplain = FALSE]
          /\ UNCHANGED <<status, blocks, blocktype, tp, auto, pl, tr>>

-----------------------------------------------------------------------------
(* The end of the file: blocks that are missing, then _insert_t0, which    *)
(* takes over the marking, and nc_static_checks.                           *)
EndOfFile ==
  /\ status = "read"
  /\ status' = IF \E i \in blocks + 1..Len(netblocks) : netblocks[i] \in Mandatory
               THEN "missing"
               ELSE IF net.marked = {} THEN "unmarked" ELSE "ok"
  /\ UNCHANGED <<file, blocks, blocktype, tp, auto, pl, tr, net>>

Table == [arr |-> [i \in 1..NAMES_START - 1 |-> NoNode], anz |-> 0, max |-> NAMES_START]

Init ==
  /\ file = [blocks |-> <<>>, PL |-> <<>>, TR |-> <<>>, TP |-> <<>>, PT |-> <<>>,
             RA |-> <<>>]
  /\ status = "read"
  /\ blocks = 0 /\ blocktype = "" /\ tp = FALSE
  /\ auto = TRUE
  /\ pl = Table /\ tr = Table
  /\ net = [numpl |-> 0, numtr |-> 0, marked |-> {}, pre |-> {}, post |-> {},
            cont |-> {}, isplain |-> TRUE]

Next ==
  \/ \E n \in Keywords : BeginBlock(n)
  \/ \E i \in Idents, m \in -1..2 : InsertPlace(i, m)
  \/ \E i \in Idents : InsertTrans(i)
  \/ \E co \in Idents \X Idents \cup {<<>>} : InsertArc(co) \/ InsertRa(co)
  \/ EndOfFile

Spec == Init /\ [][Next]_vars

-----------------------------------------------------------------------------
(* What a file means, read as a whole.                                     *)

Position(name) == CHOOSE i \in DOMAIN netblocks : netblocks[i] = name

(* The blocks come in the order of netblocks, each once, and none that     *)
(* must be there is left out before one that is.  (In the manual RA comes  *)
(* anywhere between TP and PTP; here PT is before it.)                     *)
LayoutOK ==
  LET b == file.blocks
      known == {netblocks[i] : i \in DOMAIN netblocks}
      has == {b[i] : i \in DOMAIN b}
  IN  /\ has \subseteq known
      /\ \A i, j \in DOMAIN b : i < j => Position(b[i]) < Position(b[j])
      /\ \A n \in Mandatory : (\E m \in has : Position(n) < Position(m)) => n \in has

(* The identifier of the i-th node of a block.                             *)
IdentOf(lines, i) == IF lines[i].ident = 0 THEN i ELSE lines[i].ident

(* Identifiers are unique, and can be left out as long as those given are  *)
(* the positions of their lines.                                           *)
NumberingOK(lines) ==
  /\ \A i, j \in DOMAIN lines : i # j => IdentOf(lines, i) # IdentOf(lines, j)
  /\ \A i, j \in DOMAIN lines :
       j < i /\ lines[i].ident = 0 => IdentOf(lines, j) = j

Names(lines, id) == \E i \in DOMAIN lines : IdentOf(lines, i) = id

NodeOf(lines, id) == CHOOSE i \in DOMAIN lines : IdentOf(lines, i) = id

(* Arcs of the file, transition first, as pairs of nodes.                  *)
ArcsOK(arcs) ==
  \A i \in DOMAIN arcs : Names(file.TR, arcs[i][1]) /\ Names(file.PL, arcs[i][2])

Turned(arcs) ==
  [i \in DOMAIN arcs |-> IF arcs[i] = <<>> THEN <<>> ELSE <<arcs[i][2], arcs[i][1]>>]

(* The numbers a file must not have for the program to be defined: a node  *)
(* or a place or transition of an arc with a negative number, a number too *)
(* large for a table, an arc without its numbers.                          *)
NodesHarm(lines) == \E i \in DOMAIN lines : Outside(lines[i].ident)

ArcsHarm(arcs) ==
  \E i \in DOMAIN arcs :
    \/ arcs[i] = <<>>
    \/ arcs[i][1] < 0
    \/ (Names(file.TR, arcs[i][1]) /\ arcs[i][2] < 0)

Harmful ==
  \/ NodesHarm(file.PL) \/ NodesHarm(file.TR)
  \/ ArcsHarm(file.TP) \/ ArcsHarm(Turned(file.PT)) \/ ArcsHarm(file.RA)

ArcsOf(arcs) ==
  {<<NodeOf(file.TR, arcs[i][1]), NodeOf(file.PL, arcs[i][2]) - 1>> : i \in DOMAIN arcs}

WellFormed ==
  /\ LayoutOK
  /\ NumberingOK(file.PL) /\ NumberingOK(file.TR)
  /\ \A i \in DOMAIN file.PL : file.PL[i].marked <= 1
  /\ ArcsOK(file.TP) /\ ArcsOK(Turned(file.PT)) /\ ArcsOK(file.RA)

AllThere == \A n \in Mandatory : \E i \in DOMAIN file.blocks : file.blocks[i] = n

Marked == {i - 1 : i \in {k \in DOMAIN file.PL : file.PL[k].marked # 0}}

(* It has got as far as this without being stopped.                        *)
Going == status \notin {"error", "undefined"}

(* The program goes astray exactly if the numbers of the file make it, and *)
(* otherwise refuses a file exactly if it is not of the format it takes:   *)
(* what is read without an error so far is well formed, an error in the    *)
(* middle means that it is not, and at the end a missing block or marking  *)
(* is noticed.                                                             *)
Verdict ==
  /\ status = "undefined" <=> Harmful
  /\ status = "error" <=> ~ Harmful /\ ~ WellFormed
  /\ status = "missing" => ~ AllThere
  /\ status = "unmarked" => AllThere /\ Marked = {}
  /\ status = "ok" => AllThere /\ Marked # {}

(* At any time the net is the one the lines read so far describe: each     *)
(* identifier leads to its own node, whatever the numbering, arcs go the   *)
(* way their block says and are there once, and the net is plain if it has *)
(* no read arc.  A read arc names its transition first, as in TP.          *)
Denotes ==
  Going =>
    net = [numpl |-> Len(file.PL), numtr |-> Len(file.TR), marked |-> Marked,
           pre |-> ArcsOf(Turned(file.PT)), post |-> ArcsOf(file.TP),
           cont |-> ArcsOf(file.RA), isplain |-> file.RA = <<>>]

(* The manual lets read arcs be given like the arcs of PT or like those of *)
(* TP: a file all of whose read arcs name a place and then a transition is *)
(* not refused.                                                            *)
ReadArcsEitherWay ==
  status = "error" =>
    ~ /\ LayoutOK
      /\ NumberingOK(file.PL) /\ NumberingOK(file.TR)
      /\ \A i \in DOMAIN file.PL : file.PL[i].marked <= 1
      /\ ArcsOK(file.TP) /\ ArcsOK(Turned(file.PT)) /\ ArcsOK(Turned(file.RA))

(* The table t and the lines of its block: its greatest number is inside,  *)
(* its size is an int, and it leads from the identifier of the i-th line   *)
(* to node base + i, and nowhere else.                                     *)
InBounds(t) ==
  /\ t.anz \in Nat /\ t.max \in Nat /\ t.anz < t.max /\ t.max <= MAXINT
  /\ DOMAIN t.arr = 1..t.max - 1
  /\ \A id \in DOMAIN t.arr : id > t.anz => t.arr[id] = NoNode

Translates(t, lines, base) ==
  /\ \A i \in DOMAIN lines : IdentOf(lines, i) \in 1..t.anz
                             /\ t.arr[IdentOf(lines, i)] = base + i
  /\ \A id \in DOMAIN t.arr : t.arr[id] # NoNode => Names(lines, id)

(* Autonumbering is on exactly as long as every line of the block has the  *)
(* number of its position.                                                 *)
Positional(lines) == \A i \in DOMAIN lines : IdentOf(lines, i) = i

(* The tables have room for every number in them, however large, and lead  *)
(* from identifiers to nodes as the lines of the file say.  (Verdict says  *)
(* when the program looks outside of them.)                                *)
IInv ==
  /\ InBounds(pl) /\ InBounds(tr)
  /\ Going =>
       /\ Translates(pl, file.PL, -1) /\ Translates(tr, file.TR, 0)
       /\ net.numpl = Len(file.PL) /\ net.numtr = Len(file.TR)
       /\ auto => Positional(IF file.TR = <<>> THEN file.PL ELSE file.TR)
=============================================================================
