------------------------------- MODULE Verify -------------------------------
(***************************************************************************)
(* main_ of src/cunf/cunf.cc with the class Speccheck: the unfolder, which *)
(* calls for a partial verification once the prefix has a certain number   *)
(* of events; the authoritative verification at its end; the destructors. *)
(* Each verification brings the formulas that are not solved into negation *)
(* normal form, encodes them over the prefix and solves the clauses.       *)
(***************************************************************************)
EXTENDS Cunfsat

CONSTANT PartialAt    \* events at which the partial verification takes place

ASSUME PartialAtAssumption == PartialAt \in Nat

VARIABLES
  loaded,         \* the specification, as the parser built it
  specs,          \* [result, solved, error] for each property
  phase,          \* "unfold", "verify", "encode", "print" or "end"
  authoritative,  \* of the last call of verify
  counter,        \* of _do_partial_verification
  i               \* the property at work

checker == <<loaded, specs, phase, authoritative, counter, i>>
all     == <<vars, tree, checker>>

(* The parser only accepts names of the net.                               *)
Fits(s) ==
  \A x \in DOMAIN s.nodes : /\ s.nodes[x].type = "trans" => s.nodes[x].trans \in net.trans
                            /\ s.nodes[x].type = "place" => s.nodes[x].place \in net.places

VerifyInit ==
  /\ Init
  /\ loaded \in {s \in Specifications : Fits(s)}
  /\ nodes = loaded.nodes /\ roots = loaded.roots
  /\ freed = {} /\ todo = <<>>
  /\ specs = [k \in DOMAIN loaded.roots |-> [result |-> "UNK", solved |-> FALSE, error |-> FALSE]]
  /\ phase = "unfold" /\ authoritative = FALSE /\ counter = 0 /\ i = 0

-----------------------------------------------------------------------------
(* The end of the loop of unfold.                                          *)

PartialDue ==
  status = "run" /\ Idle /\ cur # 1 /\ Len(events) >= PartialAt /\ counter = 0

UnfoldStep ==
  /\ phase = "unfold"
  /\ ~ PartialDue
  /\ Next
  /\ UNCHANGED <<tree, checker>>

Partial ==
  /\ phase = "unfold"
  /\ PartialDue
  /\ counter' = counter + 1
  /\ phase' = "verify" /\ authoritative' = FALSE /\ i' = 1
  /\ UNCHANGED <<vars, tree, loaded, specs>>

(* The queue is empty, or the user quits.                                  *)
Final ==
  /\ phase = "unfold"
  /\ ~ PartialDue
  /\ (status = "run" /\ Idle /\ queue = {}) \/ status = "quit"
  /\ phase' = "verify" /\ authoritative' = TRUE /\ i' = 1
  /\ UNCHANGED <<vars, tree, loaded, specs, counter>>

-----------------------------------------------------------------------------
(* Speccheck::verify and do_verification.                                  *)

Unsolved == [result |-> "UNK", solved |-> FALSE, error |-> FALSE]

SkipSolved ==
  /\ phase = "verify" /\ i \in DOMAIN specs
  /\ specs[i].solved
  /\ i' = i + 1
  /\ UNCHANGED <<vars, tree, loaded, specs, phase, authoritative, counter>>

(* Read arcs are not supported.                                            *)
Reject ==
  /\ phase = "verify" /\ i \in DOMAIN specs
  /\ ~ specs[i].solved
  /\ ~ IsPlain(net)
  /\ specs' = [specs EXCEPT ![i] = [Unsolved EXCEPT !.error = TRUE]]
  /\ i' = i + 1
  /\ UNCHANGED <<vars, tree, loaded, phase, authoritative, counter>>

Begin ==
  /\ phase = "verify" /\ i \in DOMAIN specs
  /\ ~ specs[i].solved
  /\ IsPlain(net)
  /\ specs' = [specs EXCEPT ![i] = Unsolved]
  /\ todo' = <<roots[i]>>
  /\ phase' = "encode"
  /\ UNCHANGED <<vars, nodes, freed, roots, loaded, authoritative, counter, i>>

Normalise ==
  /\ phase = "encode"
  /\ PushNegations
  /\ UNCHANGED <<vars, checker>>

(* Nor are places.                                                         *)
RejectPlace ==
  /\ phase = "encode" /\ todo = <<>>
  /\ HasPlace(roots[i])
  /\ specs' = [specs EXCEPT ![i].error = TRUE]
  /\ phase' = "verify" /\ i' = i + 1
  /\ UNCHANGED <<vars, tree, loaded, authoritative, counter>>

(* Mutant: only what is satisfied is settled.                              *)
SettledIfSat(res) == res = "SAT"

Settled(res) == authoritative \/ res = "SAT"

Answer ==
  /\ phase = "encode" /\ todo = <<>>
  /\ ~ HasPlace(roots[i])
  /\ \E F \in {Encoding(roots[i])} :
       LET res == IF Satisfiable(F) THEN "SAT" ELSE "UNSAT"
       IN  specs' = [specs EXCEPT ![i].result = res, ![i].solved = Settled(res)]
  /\ phase' = "verify" /\ i' = i + 1
  /\ UNCHANGED <<vars, tree, loaded, authoritative, counter>>

(* Back to the unfolder, or on to the results.                             *)
EndVerify ==
  /\ phase = "verify" /\ i \notin DOMAIN specs
  /\ phase' = IF authoritative THEN "print" ELSE "unfold"
  /\ UNCHANGED <<vars, tree, loaded, specs, authoritative, counter, i>>

(* ~Speccheck, with the destructors of the formulas.                       *)
Destroy ==
  /\ phase = "print"
  /\ freed' = freed \cup UNION {Nodes(nodes, roots[k]) : k \in DOMAIN roots}
  /\ roots' = <<>>
  /\ phase' = "end"
  /\ UNCHANGED <<vars, nodes, todo, loaded, specs, authoritative, counter, i>>

VerifyNext ==
  \/ UnfoldStep
  \/ Partial \/ Final
  \/ SkipSolved \/ Reject \/ Begin
  \/ Normalise \/ RejectPlace \/ Answer
  \/ EndVerify
  \/ Destroy

(* The program is one thread that does not stop before its end; Decided    *)
(* leaves out the interactive mode, where the user may stay away.          *)
VerifySpec == VerifyInit /\ [][VerifyNext]_all /\ WF_all(VerifyNext)

-----------------------------------------------------------------------------
(* The formulas keep their meaning in every step of the rewriting, and are *)
(* in negation normal form when the encoding looks at them, which          *)
(* mark_atoms asserts.                                                     *)
Normalised ==
  /\ \A k \in DOMAIN roots :
       \A true \in SUBSET Atoms(loaded.nodes, loaded.roots[k]) :
         Value(nodes, roots[k], true) <=> Value(loaded.nodes, loaded.roots[k], true)
  /\ phase = "encode" /\ todo = <<>> => IsNormal(roots[i])

(* The atoms that are true at a marking.                                   *)
TrueAt(m) ==
  LET ts == {t \in net.trans : Enabled(net, m, t)}
  IN  {<<"trans", t>> : t \in ts} \cup {<<"place", p>> : p \in m}
        \cup {<<"deadlock">> : s \in {TRUE} \cap {ts = {}}}

Satisfied(k) ==
  \E m \in ReachableOf[net] : Value(loaded.nodes, loaded.roots[k], TrueAt(m))

(* No condition that a cutoff consumes has a single consumer that is not   *)
(* one: then the variable of the cutoff says that it is enabled.           *)
Attended ==
  \A e \in DOMAIN events \ Live : \A c \in events[e].pre :
    Cardinality(Consumers(c) \cap NonCutoffs) # 1

Finished == status = "run" /\ Idle /\ queue = {}

(* An answer SAT, partial or not, means that the formula holds at some     *)
(* reachable marking; UNSAT over a finished prefix that it holds at none.  *)
AnswersRight ==
  [][\A k \in DOMAIN specs :
       /\ specs'[k] # specs[k] /\ Attended /\ Unbounded /\ SafeNet[net]
       => /\ specs'[k].result = "SAT" => Satisfied(k)
          /\ specs'[k].result = "UNSAT" /\ Finished => ~ Satisfied(k)]_all

(* What is right without Attended: too many events may count as enabled,   *)
(* never too few.  So a deadlock that is reported is one, and a transition *)
(* that is reported dead is dead.                                          *)
DeadlocksReal ==
  Unbounded /\ SafeNet[net] => \A k \in DOMAIN roots :
    /\ /\ specs[k].result = "SAT"
       /\ Negated(roots[k]) \subseteq {<<"trans", t>> : t \in net.trans}
       /\ Positive(roots[k]) \subseteq {<<"deadlock">>}
       => Satisfied(k)
    /\ /\ specs[k].result = "UNSAT" /\ specs[k].solved /\ Finished
       /\ Positive(roots[k]) \subseteq {<<"trans", t>> : t \in net.trans}
       /\ Negated(roots[k]) \subseteq {<<"deadlock">>}
       => ~ Satisfied(k)

(* The clauses for configurations, at each verification.                   *)
ConfigurationsOnly ==
  phase = "verify" /\ i = 1 /\ IsPlain(net) => EncodesConfigurations

(* The program reaches its end with an answer to every formula it supports. *)
Supported(k) ==
  IsPlain(net) /\ \A a \in Atoms(loaded.nodes, loaded.roots[k]) : a[1] # "place"

Decided ==
  ~ opt.interactive =>
    <>(\/ status = "unsafe"
       \/ phase = "end" /\ \A k \in DOMAIN specs : specs[k].solved <=> Supported(k))

(* The comment at the head of cunfsat.cc: e* says that e is enabled at the *)
(* configuration.  Then the program finds every deadlock.                  *)
DeadlocksFound ==
  Finished /\ Unbounded /\ SafeNet[net] => \A k \in DOMAIN roots :
    /\ specs[k].solved /\ specs[k].result = "UNSAT"
    /\ loaded.nodes[loaded.roots[k]].type = "deadlock"
    => ~ Satisfied(k)
=============================================================================
