------------------------------ MODULE CufFormat ------------------------------
(***************************************************************************)
(* The format CUF03 in which finished prefixes are written, as its reader  *)
(* __read_cuf3 of scripts/ptnet/unfolding.py takes it.  Two programs of    *)
(* the repository write it: write_cuf of src/cunf/output.c (module Cuf)     *)
(* and writecuf of scripts/prcompress.c (module Fold).  A file is the      *)
(* record of its numbered sections; integers are integers (they fit into   *)
(* 32 bits), names of places and transitions stand for themselves.         *)
(***************************************************************************)
EXTENDS Integers, Sequences, SequencesExt

NoEvent == -1   \* 0xffffffff, which is no index

(* __read_cuf3 raises an exception on an index out of range.               *)
InRange(f) ==
  LET isEvent(i) == i + 1 \in DOMAIN f.events IN
  /\ \A i \in DOMAIN f.events : f.events[i] \in 0..f.numtr - 1
  /\ Len(f.names) = f.numtr + f.numpl
  /\ \A k \in DOMAIN f.conds :
       LET c == f.conds[k] IN
       /\ c.place \in 0..f.numpl - 1
       /\ c.pre # NoEvent => isEvent(c.pre)
       /\ \A i \in Range(c.post) \cup Range(c.cont) : isEvent(i)

(* What it makes of the file; events and conditions are numbered from 0.   *)
ReadCuf(f) ==
  [events |-> [i \in 0..Len(f.events) - 1 |->
                 [label |-> f.names[f.events[i + 1] + 1],
                  colour |-> IF i < f.nwhite THEN "white"
                             ELSE IF i < f.nwhite + f.ngray THEN "gray" ELSE "black"]],
   conds  |-> [k \in 0..Len(f.conds) - 1 |->
                 LET c == f.conds[k + 1] IN
                 [label |-> f.names[f.numtr + c.place + 1],
                  pre   |-> {c.pre} \ {NoEvent},
                  post  |-> Range(c.post),
                  cont  |-> Range(c.cont)]]]
=============================================================================
