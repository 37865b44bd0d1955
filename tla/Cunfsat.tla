------------------------------ MODULE Cunfsat ------------------------------
(***************************************************************************)
(* The clauses that src/cna/cunfsat.cc generates for a formula over the     *)
(* prefix of a plain net, as it is when the method encode is called.       *)
(*                                                                         *)
(* A variable is a pair <<kind, number>>, as the program has one map of    *)
(* variables for each kind of object.  The clauses of amo_2tree_two_ways   *)
(* are replaced by what module AmoTree shows of them.                      *)
(***************************************************************************)
EXTENDS UnfolderProps, SpecTree

Lit(kind, x) == [v |-> <<kind, x>>, pos |-> TRUE]
Neg(l)       == [l EXCEPT !.pos = ~ @]

EventVar(e)   == Lit("event", e)
CondVar(c)    == Lit("cond", c)
EnabledVar(e) == Lit("enabled", e)
TransVar(t)   == Lit("trans", t)
DeadlockVar   == Lit("deadlock", 0)
NodeVar(x)    == Lit("node", x)

-----------------------------------------------------------------------------
(* Configurations.                                                         *)

(* Events flagged as cutoffs, which those in the queue are, too, are not   *)
(* part of any configuration.                                              *)
NonCutoffs == {e \in DOMAIN events : ~ events[e].iscutoff}
Live       == NonCutoffs \ {1}

(* get_imm_pred; the event e0 is skipped.                                  *)
ImmPred(e) == {conds[c].pre : c \in events[e].pre \cup events[e].cont} \ {1}

Causality == UNION {{{Neg(EventVar(e)), EventVar(f)} : f \in ImmPred(e)} : e \in Live}

(* Mutant: the first pass stops at the third consumer.                     *)
ContestedByThree(c) == Cardinality(Consumers(c) \cap NonCutoffs) >= 3

Contested(c) == Cardinality(Consumers(c) \cap NonCutoffs) >= 2

(* At most one of L is true, and p is their disjunction.                   *)
AtMostOneTree(L, p) ==
  {{Neg(x[1]), Neg(x[2])} : x \in {y \in L \X L : y[1] # y[2]}}
    \cup {{Neg(q), p} : q \in L} \cup {{Neg(p)} \cup L}

SymConflict ==
  UNION {AtMostOneTree({EventVar(e) : e \in Consumers(c) \cap NonCutoffs}, CondVar(c)) :
         c \in {d \in DOMAIN conds : Contested(d)}}

-----------------------------------------------------------------------------
(* Atoms.                                                                  *)

(* mark_atoms: with which signs an atom occurs below x, which is in        *)
(* negation normal form.                                                   *)
Negated(x)  == {Atom(nodes, nodes[y].left) : y \in {z \in Nodes(nodes, x) : IsNot(z)}}
Positive(x) ==
  LET neg == {nodes[y].left : y \in {z \in Nodes(nodes, x) : IsNot(z)}}
  IN  {Atom(nodes, y) : y \in {z \in Nodes(nodes, x) : IsAtom(z)} \ neg}

HasPlace(x) == \E y \in Nodes(nodes, x) : nodes[y].type = "place"

TransAtoms(x) ==
  {t \in net.trans : <<"trans", t>> \in Positive(x) \cup Negated(x)}
DeadlockPos(x) == <<"deadlock">> \in Positive(x)
DeadlockNeg(x) == <<"deadlock">> \in Negated(x)

Occurrences(t) == {e \in DOMAIN events : events[e].ft = t}

(* Mutant: the two halves of the equivalence are exchanged.                *)
TransEnabledSwapped(x, t) ==
  {{Neg(TransVar(t))} \cup {EnabledVar(e) : e \in Occurrences(t)} :
     a \in {<<"trans", t>>} \cap Negated(x)}
  \cup {{Neg(EnabledVar(e)), TransVar(t)} :
     e \in {f \in Occurrences(t) : <<"trans", t>> \in Positive(x)}}

(* t <=> some event of t is enabled: left to right if t occurs positively, *)
(* right to left if it occurs negatively.                                  *)
TransEnabled(x, t) ==
  {{Neg(TransVar(t))} \cup {EnabledVar(e) : e \in Occurrences(t)} :
     a \in {<<"trans", t>>} \cap Positive(x)}
  \cup {{Neg(EnabledVar(e)), TransVar(t)} :
     e \in {f \in Occurrences(t) : <<"trans", t>> \in Negated(x)}}

(* Mutant: cutoffs do not count.                                           *)
DeadlockNoCutoffs(x) ==
  {{Neg(DeadlockVar), Neg(EnabledVar(e))} : e \in {f \in Live : DeadlockPos(x)}}
  \cup {{DeadlockVar} \cup {EnabledVar(e) : e \in Live} : s \in {TRUE} \cap {DeadlockNeg(x)}}

(* deadlock <=> no event is enabled.                                       *)
Deadlock(x) ==
  LET E == DOMAIN events \ {1} IN
  {{Neg(DeadlockVar), Neg(EnabledVar(e))} : e \in {f \in E : DeadlockPos(x)}}
  \cup {{DeadlockVar} \cup {EnabledVar(e) : e \in E} : s \in {TRUE} \cap {DeadlockNeg(x)}}

(* The events with a variable that says they are enabled, ...              *)
Watched(x) ==
  (UNION {Occurrences(t) : t \in TransAtoms(x)})
    \cup (IF DeadlockPos(x) \/ DeadlockNeg(x) THEN DOMAIN events \ {1} ELSE {})

(* ... and what it stands for: e did not occur, its predecessors did, and  *)
(* no condition it consumes is taken, as far as that has a variable.       *)
Circumstances(e) ==
  (IF events[e].iscutoff THEN {} ELSE {Neg(EventVar(e))})
    \cup {EventVar(f) : f \in ImmPred(e)}
    \cup {Neg(CondVar(c)) : c \in {d \in events[e].pre : Contested(d)}}

EventEnabled(x, e) ==
  LET t  == <<"trans", events[e].ft>>
      lr == t \in Positive(x) \/ DeadlockNeg(x)
      rl == t \in Negated(x)  \/ DeadlockPos(x)
  IN  {{Neg(EnabledVar(e)), l} : l \in {k \in Circumstances(e) : lr}}
        \cup {{EnabledVar(e)} \cup {Neg(l) : l \in Circumstances(e)} : s \in {TRUE} \cap {rl}}

-----------------------------------------------------------------------------
(* The formula.                                                            *)

SpecLit(x) ==
  CASE nodes[x].type = "trans"    -> TransVar(nodes[x].trans)
    [] nodes[x].type = "deadlock" -> DeadlockVar
    [] nodes[x].type = "not"      ->
         Neg(IF nodes[nodes[x].left].type = "trans" THEN TransVar(nodes[nodes[x].left].trans)
             ELSE DeadlockVar)
    [] OTHER                      -> NodeVar(x)

NodeClauses(x) ==
  LET p == NodeVar(x)
      q == SpecLit(nodes[x].left)
      r == SpecLit(nodes[x].right)
  IN  IF nodes[x].type = "and"
      THEN {{Neg(p), q}, {Neg(p), r}, {Neg(q), Neg(r), p}}
      ELSE {{Neg(p), q, r}, {Neg(q), p}, {Neg(r), p}}

EncodeSpec(x) ==
  {{SpecLit(x)}} \cup
    UNION {NodeClauses(y) : y \in {z \in Nodes(nodes, x) : nodes[z].type \in {"and", "or"}}}

(* encode_plain, for the formula x in negation normal form.                *)
Encoding(x) ==
  Causality \cup SymConflict
    \cup (UNION {TransEnabled(x, t) : t \in TransAtoms(x)})
    \cup Deadlock(x)
    \cup (UNION {EventEnabled(x, e) : e \in Watched(x)})
    \cup EncodeSpec(x)

-----------------------------------------------------------------------------
(* Minisat: whether the clauses F have a model.                            *)

Assign(F, l) == {c \ {Neg(l)} : c \in {d \in F : l \notin d}}

(* The bounded quantifiers bind values, so that TLC computes each once.     *)
Satisfiable(F) ==
  LET sat[G \in SUBSET SUBSET UNION F] ==
        IF {} \in G \/ G = {} THEN G = {}
        ELSE \E c \in {CHOOSE d \in G : \A k \in G : Cardinality(d) <= Cardinality(k)} :
             \E l \in {CHOOSE k \in c : TRUE} :
             \E H \in {Assign(G, l)}
                        \cup (IF Cardinality(c) > 1 THEN {Assign(G, Neg(l))} ELSE {}) :
               sat[H]
  IN  sat[F]

-----------------------------------------------------------------------------
(* The variables of the events have the configurations of the prefix that  *)
(* hold no cutoff as their values: causality and conflicts allow nothing    *)
(* else, and exclude none of them.                                         *)
EncodesConfigurations ==
  \A E \in SUBSET Live :
    LET units == {{EventVar(e)} : e \in E} \cup {{Neg(EventVar(e))} : e \in Live \ E}
    IN  (\E F \in {Causality \cup SymConflict \cup units} : Satisfiable(F)) <=> IsConfiguration(E \cup {1})
=============================================================================
