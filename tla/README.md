# Cunf in TLA+

Cunf is a set of programs around contextual Petri nets (Petri nets with read
arcs). `cunf` builds a finite complete prefix of the unfolding of a net
(`src/src/cunf`), optionally checks properties of markings on it with a
SAT solver (`src/src/cna`), and writes it to a file. This directory holds TLA+
models of its algorithms, TLC configurations that check them on small
instances, and TLAPS proofs about them. Paths are relative to the repository,
which is the directory `src/`.

## The system

| component | state it keeps | operations | what makes it correct |
|---|---|---|---|
| main loop, `cunf/unfold.cc` | the struct `u`: net, prefix, work in progress | `unfold`, `_unfold_enriched`, `_unfold_combine`, `_unfold_postset`, `_unfold_init` | it stops; the finished prefix is complete; quotas stop it |
| possible extensions, `cunf/pe.c` | queue of histories (heap in an array); combinator of enriched conditions | `pe_update_gen`, `pe_update_read`, `pe_pop`, the interactive shell | every extension is found once; a minimal history leaves |
| enriched conditions, `cunf/ec.c` | lists `ecl` per condition; relation `co` with two bits per entry; lists `rco` | `ec_alloc`, `ec_alloc2`, `ec_conc`, `ec_conc_tst`, `ec_included` | `co` is the concurrency relation of the enriched prefix, bits included |
| history graph, `cunf/h.c` | nodes with edges, red and green readers, size, depth, Parikh vector, marking | `h_alloc`, `h_add`, `h_marking`, `h_cmp` | each history is a configuration with one maximal event; `h_cmp` is an order |
| table of markings, `cunf/marking.c` | hash table of histories by marking | `marking_add` | a cutoff has a corresponding history that is smaller and has its marking |
| nets, `cunf/netconv.c`, `cunf/readpep.c` | places, transitions, arcs; tables of identifiers | `_read_PEP_file` with its hooks, `nc_*`, static checks | what the file says |
| net library, `net/net.cc` | nets, markings | token game, `is_reachable`, `Unfolding` | firing |
| model checker, `cna/cunfsat.cc`, `sat/` | clauses over the prefix | encodings of configurations, events, places, at-most-one trees | models of the clauses are the configurations |
| specifications, `cna/spec*.cc` | formula tree; list of properties with results | parser, negation normal form, `Speccheck` | SAT / UNSAT is right, on partial prefixes too |
| output, `cunf/output.c` | numbering of nodes | `write_cuf`, `write_dot` | the file is the prefix |
| Minisat, `minisat/core` | clauses in watch lists, trail of literals with levels and reasons, heap of variables | `addClause_`, `propagate`, `analyze`, `search`, `simplify`, `reduceDB` | the answer is right, whatever the heuristics decide |
| folding, `scripts/prcompress.c` | queue of events, hash table of presets, maps to folded nodes | `readmci`, `convert`, `writecuf` | the file is the prefix of the contextual net whose encoding was unfolded |
| utilities, `util/` | growing arrays, adjacency lists, node lists, linked lists | `al_*`, `da_*`, `nl_*`, `ls_*`, `dls_*` | the containers their callers take them for |

Everything runs in one thread. `main` loads the net, then `unfold` runs:

```
unfold:  repeat h := pe_pop()                       queue of histories
           marking_add(h)                           is h a cutoff?
           _unfold_postset(h->e)                    conditions of its event
           _unfold_enriched(h):                     unless cutoff or over quota
              for c in post(e): ec_alloc; ec_conc; pe_update_gen
              for c in cont(e): ec_alloc; ec_conc; pe_update_read
                                _unfold_combine: ec_alloc2; ec_conc; pe_update_read
         where pe_update_* call h_alloc, h_add, h_marking, _pe_q_insert
```

With no threads, messages or persistence, what is hard is neither concurrency
nor recovery. It is (1) the *order of events inside one run*: relations that are
computed incrementally from the lists of older nodes, and must come out as if
computed from scratch, whatever the order in which nodes were created; (2) the
*shortcuts*: only the head of a list is looked at, only the newest history of a
marking is compared, an instance is only searched if some condition has two
enriched conditions, levels without own nodes are skipped; (3) *flags and
cached data* that are set at one point of the loop and relied on at another;
(4) *boundaries*: reallocation at powers of two, the last node of the heap, the
quotas, which are tested where a node is extended and not where it is inserted.
`PROJECT.json` lists these hazards at their lines with the properties that
would catch each going wrong.

## Modules

| module | models | uses |
|---|---|---|
| `CNet` | contextual nets, the 1-safe token game, reachable markings | |
| `Nets` | small nets for the runs | `CNet` |
| `Readpep` | the reader of PEP files with the calls of `netconv.c` | |
| `HOrder` | `h_cmp` with all its orders | |
| `HOrderPairs` | the order on words that `h_cmp` implements, and the pairs it is compared on | `HOrder` |
| `Unfolder` | the loop of `unfold()` with `pe.c`, `ec.c`, `h.c`, `marking.c` | `CNet`, `HOrder` |
| `UnfolderProps` | configurations, histories and concurrency defined on the prefix, independently of the algorithm, and the properties | `Unfolder` |
| `PEBag` | abstract queue: a set from which a minimal history leaves | |
| `PEQueue` | the heap of `pe.c`, step by step | refines `PEBag` |
| `CufFormat` | the format in which prefixes are written, as its reader in `scripts/ptnet/unfolding.py` takes it | |
| `Cuf` | `write_cuf` of `output.c` | `UnfolderProps`, `CufFormat` |
| `Fold` | `scripts/prcompress.c` | `CufFormat` |
| `Solver`, `SolverProps` | the search of Minisat, and what makes it correct | |
| `AmoTree` | the trees of clauses for at-most-one of `sat/cnf.cc` | |
| `SpecTree` | formulas on the heap and their negation normal form, `cna/spec.cc` | |
| `Cunfsat` | the clauses of `cna/cunfsat.cc` over the prefix | `UnfolderProps`, `SpecTree` |
| `Verify` | `main_` with a specification: unfolder, partial and final verification, `cna/speccheck.cc` | `Cunfsat` |
| `UnfolderProofs`, `ConcurrencyProofs`, `CutoffProofs` | theorems about the unfolder and the file it writes, each on top of the one before | `UnfolderProps`, `Cuf` |
| `PEQueueProofs`, `AmoTreeProofs`, `ReadpepProofs` | theorems about these components | |
| `SpecTreeProofs` | theorems about the formulas on the heap and the clauses over the prefix | `CutoffProofs`, `Verify` |
| `SolverProofs` | theorems about the search of Minisat | `SolverProps` |
| `MCUnfolder`, `MCPEQueue` (with `HOrderPairs`), `MCAmoTree`, `MCVerify`, `MCReadpep`, `MCFold`, `MCSolver` | instances for TLC | |

### Unfolder

Events, conditions, histories and enriched conditions are numbered in the order
in which they are allocated, and are sequences of records (`events`, `conds`,
`hists`, `ecs`); 0 is the null pointer. `co`, `dir` and `rco` are sets of pairs:
`co` the entries of the lists `ec->co`, `dir` their two low bits (the pair
`<<r, rp>>` is in `dir` iff r // rp), `rco` the lists `ec->rco`. A history holds
its whole past as a set, which the program recovers with marks; `rd` and `sd`
are the marked readers that `h_marking` stores.

Actions follow the loops: `Pop` (or `Pick` in interactive mode) is the body of
`unfold` up to `_unfold_enriched`; `Generate(c)` and `Read(c)` are one round of
the two loops of `_unfold_enriched`; `Combine(rp)` one round of the loop of
`_unfold_combine`; `Solve(s)` is `_pe_comb_solution` for one solution found by
`pe_update_*`, including `h_alloc`, `h_add`, `h_marking`, and the insertion in
the queue. `Unsafe` ends the run as `ut_err` does. The model is deterministic
up to what the order of arcs in the input file and ties in the queue decide:
loops over adjacency lists take their elements in any order, so a check covers
every order of the file.

The input `net` and the command line `opt` are variables that never change, so
one run covers many nets and options. `IsNet` are the nets that can be built and
pass `nc_static_checks`. Two kinds of them do not enter (`Consuming`, in
`NetsAssumption`), and nothing in this directory is claimed for them:

- nets where a transition consumes nothing. `nc_static_checks` warns about a
  transition without a pre-set (`netconv.c:121`; not if its post-set is empty,
  too) and goes on. If it only reads, what its event produces is concurrent
  with all the event was built on, so `ec_conc` enters the siblings of its read
  conditions a second time with the intersection, and what is built on such a pair
  is found as often: the sets of the model cannot say that. If the transition
  does not read either, it never occurs, as no condition leads to it.
- nets where a transition both consumes and reads one place: assertions in
  `_pe_comb_new_event` fail in a debug build, and the result without
  assertions is not modelled.

Two pieces of the code are dead in this program and left out: the stop
transition (`u.stoptr` is always null, `cunf.cc:425`) and `pe_skip`.

### HOrder

The code computes the order on two linked sub-graphs of the history graph with
marks; `HOrder` has the same computation on sets of nodes with labels and
depths: sizes, Parikh vectors as sorted arrays compared position by position,
and the level loop of `_h_cmp_foata` with its skipping of levels that hold no
own node, its early break and the two ways it can end. `HOrderPairs` defines the
order again, on words (the sorted sequence of labels of each level, compared
lexicographically), and compares the two on every pair of small histories; it
is part of the run `queue`, as the queue goes by that order.

### PEQueue and PEBag

One iteration of the loops in `_pe_q_insert` and `pe_pop` is one step, with the
gap `hole` and the history `carry` in hand. The array is a function from the
allocated slots, so a write outside is an error of the model as it is one of
the program. `PEBag` is what `Unfolder` assumes of the queue; `PEQueue`
implements it, with `bag` mapped to what is in the array or in hand.

### AmoTree

One clause group of `Cnf::amo_2tree_two_ways` is one step; literals are numbers
as `to_dimacs` prints them. What the clauses mean is defined by truth under all
assignments: at the end they must force at most one literal and make `p` their
disjunction (`Sound`), and at no time may they forbid a choice of at most one
literal (`Conservative`).

### SpecTree, Cunfsat and Verify

`Verify` composes the unfolder with the model checker. Its first phase takes the
steps of `Unfolder`; when the prefix has `PartialAt` events (500 in the code)
at the end of a round of the loop, `verify(false)` interrupts it once, and at
its end comes `verify(true)`. Both go through the formulas that are not solved.
A contextual net or a formula with places is an error of that formula alone;
otherwise the formula is rewritten by the steps of `SpecTree`, encoded by the
operators of `Cunfsat` and answered. `Destroy` is what the destructors delete
at the end of `main_`.

`SpecTree` has the heap: nodes are numbered as they are allocated, `freed` are
the deleted ones, `todo` the recursive calls of `push_negations` still to be
made. `Ownership` says that each object that is left belongs to one parent, so
the destructors delete all of them once; `Normalised` that each formula means
what was loaded, at every step, under every truth assignment to its atoms.

`Cunfsat` has the clauses as sets of literals over the state of the unfolder.
The trees of `amo_2tree_two_ways` are replaced by the pairwise clauses, which
`AmoTree` justifies. Minisat is the operator `Satisfiable`; that its search
answers as that operator does is the property `Answers` of `SolverProps`.

What the answers mean is stated on the markings of the net, by the token game:
`AnswersRight` relates SAT and UNSAT to the existence of a reachable marking
that satisfies the loaded formula. It has the premise `Attended`, because of
the finding `DeadlocksFound` below: no condition of a flagged event may have
exactly one consumer that is not flagged. `DeadlocksReal` says what is
right without that premise: the encoding takes too many events for enabled and
never too few, so a reported deadlock is one. `ConfigurationsOnly` says
that the models of the clauses, restricted to the events, are exactly the
configurations without cutoffs.

### Readpep

One line of the file is one action, one block header another; the file is
written by the environment as it is read, so every file within the bound is
covered, the wrong ones included. `pl` and `tr` are the tables from identifiers
to nodes with the greatest identifier and the size. `blocks` is the pointer that
runs over the list of blocks, `blocktype` and `tp` the name that `_insert_arc`
clears and its static variable. `Verdict` and `Denotes` define the meaning of a
file as a whole, without the reader's state, and compare.

Numbers are any ints, as `ReadNumber` accepts a sign and does not look for
overflow. The hooks test identifiers for upper bounds only: a negative one
indexes a table below its start. From there on, and after an arc without numbers
(`rd_co` is NULL) and an identifier for which the size of a table exceeds
`MAXINT`, the behaviour of the program is undefined; the model ends with the
status `"undefined"`. `Verdict` says exactly which files lead there (`Harmful`,
which speaks of the file alone), so it is part of what is checked and proved, and
not assumed, where the tables are accessed. The marking of a place counts if it is not
0, and only one greater than 1 is refused, so a negative one is a token. That a
huge table does not fit the memory is left out.

The format that `WellFormed` describes is the one the program takes. It is not
quite the one of the manual: there the block `RA` can stand before or after
`PT`, and read arcs can have either form. See the findings; `ReadArcsEitherWay`
is the second point as a property, which the run `manual` refutes.

### CufFormat and Cuf

`write_cuf` is the operator `Write` over the state in which the unfolder has
ended: colours, renumbering and the fields of each condition. What
`__read_cuf3` makes of the file is `ReadCuf`, and `RoundTrip` compares that
with the prefix itself.

### Fold

`prcompress` takes the prefix of a plain net in which every reader of a place
has a copy of the place to itself (the encoding of `scripts/cont2pr.pl`) and
folds it to a prefix of the contextual net. `Read` is the loop over the initial
conditions, `FoldNew` and `FoldKnown` are one round of the main loop for an
event whose folded preset was not seen before, or was. The loops over
conditions are folds over a record of the variables they change, since a
condition produced may queue events and be read in the same round. `MCFold`
builds both unfoldings by definition, as sets of terms (an event is its
transition and its preset), and relates them by `Decode`: no algorithm of the
repository takes part in saying what the result should be. Three things about
the input are assumed, and the files of the run are chosen so: the last
condition is not an initial one (the loop at `prcompress.c:384` leaves it out),
no transition both consumes and produces a place (it is taken for a read arc),
and no name of a place contains two underscores but for the copies.
`cont2pr.pl` separates the number of a copy by a dash, so its nets cannot be
folded as they are; the pairs of stem and copy stand for names with underscores.

### Solver

`addClause_`, `simplify`, `reduceDB` and `pickBranchLit` are one action each.
`propagate` takes a literal off the queue (`Propagate`) and then visits one
clause at a time (`Visit`, with one disjunct for each way the inner loop goes
on; `todo` is what is left of the list that is walked). `analyze` is one action
for each clause it resolves with (`Resolve`), and `Learn` is what `search` does
with the learnt clause. Watch lists are sequences of clause number and
blocker and keep their order, clauses are sequences whose first two literals
are watched, deletion is lazy as in the code (`removed`, `dirty`). What
depends on activities, saved phases and counters is left open: the variable and
sign of a decision, which variables have left the heap before it, which of the
clauses `reduceDB` may drop it drops, when it is called, and when `simplify`
works. The checks hold for every such choice and hence for the ones the program
makes. That the solver stops is not stated: the model allows `MaxRestarts`
restarts, and the code argues with counters that the model leaves open.
Assumptions, budgets and released variables are not used by the program;
the garbage collector moves clauses without changing them.

## Runs

| run | checks | about |
|---|---|---|
| `prefix` | `ConcurrencySound`, `ConcurrencyComplete`, `ConcurrencyCount`, `HistoriesSound`, `NoDuplicateEvents`, `NoDuplicateHistories`, `IInv`, `PrefixInv`, `CutoffsJustified`, `OrderIsPreorder`, `CutoffEvents`, `Complete`, `UnsafeIsUnsafe`, `SafeCuts`, `RoundTrip`, `PopsInOrder`, `QuotaStops`, `Terminates` | Contextual nets are unfolded with every order, with quotas and with a user who picks the histories, in every order of the adjacency lists: the concurrency relation is exact, histories and cutoffs are justified, the finished prefix is complete and is what the file says; the program stops, and gives up only on nets that are not 1-safe. |
| `queue` | `IInv`, `ComparesHistories`, `BagSpec` | Six histories with ties go through the heap, and through the array of the interactive shell, in every order of insertions and removals: a heap in an array with room for it, that yields a minimal history. The order it goes by, h_cmp, on all pairs of histories of two levels and three transitions, or three levels and two, against the order defined on words. |
| `marking` | `MarkingComplete` | *violated:* A net where a transition reads two places and another consumes both: the finished prefix does not represent a reachable marking. |
| `cuf` | `WrittenInitial` | *violated:* A net whose only transition leads back to the initial marking: no event is white, and the condition a cutoff produces is written as an initial one. |
| `assertion` | `CutoffAssertion` | *violated:* In interactive mode a history becomes a cutoff because of a greater one. |
| `amo` | `IInv`, `Sound`, `Conservative`, `Terminates` | The at-most-one tree over up to six literals of either sign: its clauses say what they should and no more, and the loop that tests for exactly two ends. |
| `verify` | `Ownership`, `Normalised`, `DeadlocksReal`, `ConfigurationsOnly`, `AnswersRight`, `Decided` | Files of formulas are checked on five plain nets and a contextual one, on a partial prefix and at the end or when the user quits: the rewriting keeps the meaning and the memory, the clauses describe the configurations, the answers are right where the encoding allows it and every supported formula gets one. |
| `deadlock` | `DeadlocksFound` | *violated:* A loop at a place and a transition that leaves it: the program reports the net free of deadlocks, which it is not. |
| `reader` | `IInv`, `Verdict`, `Denotes` | Files of up to five lines with all kinds of blocks, identifiers that are given, left out, repeated, negative, beyond the tables or beyond what a table can hold: the program goes astray exactly where the numbers make it, and otherwise refuses what is not of the format it takes and nothing else, and builds the net the file describes. |
| `manual` | `ReadArcsEitherWay` | *violated:* A file that gives a read arc in the form of the section PT is refused, which the manual allows. |
| `fold` | `FoldsHistories`, `FoldIsUnfolding` | Prefixes of the place-replication encodings of nine contextual nets, with up to two cutoffs or all that are possible and the conditions in both orders, are folded: events and conditions are put together exactly if they should, and the written file is the prefix of the contextual net. |
| `solver` | `PropagationComplete`, `ReasonsJustify`, `KeepsModels`, `Answers` | Small sets of clauses, satisfiable or not, are solved under every choice of the heuristics, with restarts, simplifications and dropped clauses: no clause escapes the watch lists, reasons justify what they should, learnt clauses follow, and the answer is right. |

Each property of a passing run has a *mutant* in `PROJECT.json`: a plausible
bug in the mapped code under which TLC finds that property violated in that
same run. The mutants stand before the definitions they replace, marked
"Mutant".

**Bounds.** A run of the unfolder ends by itself: 1-safe nets have finite
prefixes. The larger nets of `prefix` have two to six places and three to
five transitions and were chosen so that every mechanism is used: several
histories of an event, two concurrent readers of a place and one consumer
(compound conditions), a compound condition built on a reader that is built on
another reader, a reader in a cycle, a net without read arcs (for which
`_pe_comb_instance_of` has a shortcut), cutoff and non-cutoff histories of one
event. They are unfolded with the total and the partial orders, some of them
with quotas and by a user. `SmallNets` leaves nothing to choice: it is every net with three
places and two transitions that both can fire, the first of which reads a
place, 1-safe or not. Two transitions are enough there for
consumer/reader races and self-loops, not for compound conditions, which
the larger nets have. Three nets are not 1-safe in less obvious ways: through
different transitions, through a place that is also read, and only after a
cycle (this one the program does not notice, because the history that would
show it is a cutoff; the README of Cunf says it "will blindly assume the input
is 1-safe"). In `queue`, six histories force the array through
sizes 2, 4, 8, growing and shrinking, and three levels of the heap; with an empty
queue, two histories of up to two or three levels cover all branches of the
comparison, since only the first level in which they differ counts. In `amo`, lengths 1 to 6
cover the single literal, odd and even layers, and two layers of each parity. In
`verify`, the plain nets are two processes that lock two resources in opposite
orders (a deadlock, and cutoffs that attend to the premise), a choice that meets
another token (no cutoffs, a deadlock), a net without deadlock, and two that break
the premise; the three files hold eleven formulas with atoms of each sign and of
both, up to four nested negations, and a place. `PartialAt` is 4, so that the
partial verification sees a prefix with events in the queue. In `reader`, five
lines are enough for an identifier beyond the table after one that was left
out, arcs of both blocks after that, and every wrong order of blocks; the identifiers are
-1, 0, 1, 2 and 6, the tables start with one slot and grow by one, so that they grow by
several steps at once, and `MAXINT` is 6, which makes 6 a number that no table can
hold. In
`fold`, configurations of up to four to seven events give events with several
histories, readers in a cycle and conditions with two readers; the cutoffs are
any one or two events on which nothing is built, or all of them. In `solver`, the formulas are
all sets of ternary clauses over three variables up to symmetry, the pigeons,
and some for repeated, shortened, unit and contradictory clauses and for learnt
clauses that are minimised or long enough to be dropped; a restart is due after
every conflict of the first sequence, and there are at most `MaxRestarts` of
them, without which the open heuristics could go round for ever.

**Fairness.** `Fairness` is `WF_vars(~ Waits /\ Next)`: the program is one thread
that does not stop before its loop ends, but for the interactive shell, which
waits in `read` (`Waits`). No answer of the user is assumed: while the program
waits, `~ Waits /\ Next` is disabled, and `Pick` and `Quit` may never be taken. So
`Terminates` says that a run that is not interactive ends (`Waits` is false in
it), and of an interactive one only that the work on a history ends and the user
is asked again. `VerifySpec` makes the
same assumption of the whole of `main_`, and `Decided` leaves the interactive
mode out.

**Completeness** (`Complete`) is the property users rely on: every reachable
marking is the marking of a configuration of the finished prefix without
cutoffs, and each transition enabled there labels an event that extends it.
Configurations are enumerated by definition, not through the histories the
program found.

## Proofs

`UnfolderProofs`: for every set of nets and options that satisfies
`NetsAssumption` (finite nets whose transitions consume something, see
above) and `OptionsAssumption`, `Spec => []IInv`. `IInv` is
inductive. Its parts: types (every number points to something allocated);
`Causal` (an event takes conditions of older events only); `Linked` (every
condition an event takes has an enriched condition in the `ecl` of each of its
histories -- this is what lets the loop in `_ec_alloc` find `r1`, and is why the
type of `ecs` is invariant -- and the loops of `_unfold_enriched` range over
what belongs to the event at work); `Discipline` (a history waits in the queue
with `corr = itself`, the table holds non-cutoffs only, and no cutoff is
extended). With these the properties follow: `BuiltOnNonCutoffs` (the assertion
of `h_add`, for the whole past), `EcsOfNonCutoffs`, `CutoffsOfNonCutoffs`. None
of those three is inductive by itself: a step that extends a history needs to
know that enriched conditions only stand for popped non-cutoffs, and that
needs `Discipline`.

All three modules put a second layer, `PrefixInv`, on top of `IInv`: what a
prefix is made of. Its parts were checked together by run `prefix` before each
was proved inductive relative to `IInv` and to the parts before it, so the
layers are separate lemmas `Spec => []...` that one temporal step combines.
`Labelled`: an event takes one condition for each place that its
transition consumes or reads. `Searching`: a solution contains the newest
enriched condition, and that one belongs to the history that left the queue
last. `Grounded` and `UniqueEcls`: a history stands on one enriched condition
per condition, and no two histories of one transition on the same; the second
needs `Searching`, because what is found now contains an enriched condition
that no earlier history can have seen. `OfPlainNets`: what the shortcuts for
nets without read arcs rely on. `NotBlack`: what an event consumes is never
concurrent with what it produces or reads. `Coherent`: what the sets of events
mean (below). `Ordered`: histories outside the queue are not greater than those
in it. `Marked`: the stored marking is the one of the cut. `Layered`: the nodes
of a history lead down to the one of e0, level by level. With these:

- `QuotaStops` needs no invariant but `IInv`: the step of the main loop that
  would extend a history tests the quotas.
- `CutoffEvents`: the mark of an event stays right although a history of it may
  turn out not to be a cutoff after others did.
- `NoDuplicateEvents`: an event can be found on several enriched conditions of
  its conditions; what `_pe_comb_instance_of` compares, and in plain nets the
  shortcut that skips the comparison, is enough (`Grounded`, `UniqueEcls`,
  `OfPlainNets`).
- `ConcurrencySound`: see below. (The lemma `ConcurrencyCounted`, that sibling
  pairs, inherited pairs and those of compounds are disjoint, needs that every
  transition consumes something, and is no more than a help for nets that do.)
- `OrderIsPreorder`: the sign of `h_cmp` is antisymmetric and transitive for
  every prefix, net and order. Level by level it compares the vectors of counts
  of the labels in lexical order, and a total order calls two histories equal
  only if all levels have the same counts. Which of the two histories runs out
  of levels first needs `Layered`: no level between 0 and the depth is empty.
- `PopsInOrder` and `CutoffsJustified`: a new history is larger than the one it
  extends, and `h_cmp` compares sizes first, so no history enters the queue that
  is smaller than one that left it. The corresponding history of a cutoff left
  the queue before; the part of `CutoffsJustified` about the order follows, and
  with it `CutoffAssertion` for every run that is not interactive (the run
  `assertion` shows why the restriction is needed).

`ConcurrencyProofs`: `Spec => []ConcurrencySound`, the soundness half of the
concurrency relation of contextual unfoldings as `ec.c` computes it. The
program never looks at configurations: it intersects the lists `co` of what an
event consumes and reads, with the bits in two of them, adds the siblings, and
combines a generating with a reading condition. The theorem says that what it
gets this way is concurrency as defined on sets of events. The invariant
`Coherent` says of a history that its events are closed, free of conflicts and
made of those of the enriched conditions it stands on, which are pairwise
related, with the bit where they are consumed (`Assembled`); of an enriched
condition that it is in the cut of its histories and knows all their readers
of that cut (`EcSound`); and that the lists and what is still being combined or
searched only relate what fits (`Related`). The steps are few: when an event
is added to the union of the histories it stands on, a configuration that fits
each of them fits the result (`CandidateFits`), which is where the bit is
needed -- a reader of a consumed condition outside the new history would have to
come before and after its event; the two bits of an inherited entry are the
conjunction of those it comes from (`CandidateBits`); and a compound fits
what both of its parts fit (`CombineCoherent`).

The same module proves `Spec => []NoDuplicateHistories`. The program compares
the preset and the context of a new event with those it has, and never compares
two histories: a history found twice would be entered twice. Two more layers
are needed. `Arranged`: an enriched condition stands for histories of events that
produce or read its condition; no two enriched conditions have the same condition
and the same histories, for which one has to know what the loops of
`_unfold_enriched` and `_unfold_combine` have already made (`Enriched`,
`Compounded`). `Shapely`: the events of a history are an initial part of those of
each larger one that has its node (`Initial`), all of them are before its last event,
and events of one set of histories that touch a condition do not
come before each other (`Separated`). Then two histories of one event with the same
events stand on enriched conditions with the same histories, by induction on
their number of events, and so on the same enriched conditions; `UniqueEcls`
says that they are one (`TwinsEqual`). TLC checked both layers on
the nets of `Nets` before they were proved.

Completeness of the lists, `ConcurrencyIsComplete` and `CutsAreSafe`, holds for
nets whose transitions read at most one place that some transition consumes
(`SingleReads`), and that is where it ends: `_ec_conc_siblings` looks at the
newest enriched condition of each condition only, and that is not the one of the
current history when the history reads a second condition which was
combined before (the finding of `marking` is what may come of it). The
invariant `Found` says at any time, not only between two rounds, that every two
concurrent enriched conditions are in `co`, are of different places, and that
`rco` has what `_unfold_combine` needs. A new enriched condition is concurrent
with an older one either inside the current history (`OwnSibling`: the
other one is the newest of its condition, `AtWork`) or because what fits the history
fits each enriched condition it stands on (`FitPart`), so that
the intersection has it (`FitCandidate`) and the colours do not drop it
(`FitCompatible`). That the event of the current history is not in the other
history needs that no history was found twice (`OtherHistory`). A compound has the
pairs that both of its parts have, because what fits the union fits the parts
(`CombineCatches`). `CutsAreSafe` is the converse of `UnsafeIsReal`: before
a pair is related its places are compared, and all pairs are. `AtWork` and
`Found` were checked by TLC on the nets of `prefix` first.

`CutoffProofs` ends with completeness, `PrefixIsComplete`, for the same nets
and the orders that compare histories by their size alone (`BySizeAlone`).
Three layers say that nothing which could be made has been forgotten. `AllExpanded`:
each kept history that left the queue has an enriched condition for each
condition its event produced, unless no transition needs the place or a quota
stopped it (`WithinQuotas`). `AllCombined`: two concurrent enriched conditions of
one condition that the loop of `_unfold_combine` has to put together have their
compound (`LeftToCombine` names what is still to do). `Explored`: every choice
of pairwise related enriched conditions for the pre-set and context of a
transition is a solution that is still in work or a history (`OccursOn`). `CutoffsGreater`:
a history found to be a cutoff when it was popped is greater than its corresponding one.
At the end nothing is in work. Then a run made of kept histories (`Built`)
whose marking enables t can be continued: each place of t has an
enriched condition whose histories are within the run (`PicksFound`, with all readers of a
consumed one), any two of them are concurrent and so in `co`, and the search has made
a history of it (`ContinuationFound`). If that history is a cutoff, the run
with it is the cutoff's history followed by a firing sequence (`RunPath`), and the
corresponding history, which is smaller, leads by the same sequence to the same
marking (`CutoffReplaced`). So take, for a reachable marking, the runs from which
firings lead to it, those with the fewest events and remaining firings together, and of them one
with the fewest firings left: none is left (`CompletedFrom`).

`CutoffProofs` contains three more results that compare the program with the
net. `HistoriesAreConfigurations`: what the nodes of a history stand for is a
configuration, once each, with one maximal event. `HistoriesReachable`: in
1-safe nets its marking is reachable. The events of a configuration can be
fired one by one: a smallest part of it whose cut is not reachable, or
has two conditions for a place, would be a smaller part and one event that is
enabled after it (`RunMarks`, `OneMoreFires`). That `Below` and
`Reachable`, which are folds of a step, compute closures is proved by
least sets (`BelowFacts`, `ReachableFacts`). `UnsafeIsReal`: if the program gives up, the
two enriched conditions it found belong to one configuration
(`ConcurrencySound`), which as a run of the net puts two tokens into one place.
In a net that is not 1-safe `HistoriesSound` speaks of markings as sets, where
firings with two tokens in a place are lost; that instance of the property stays
with TLC.

`FileHoldsPrefix`: `Spec => []RoundTrip`, for prefixes of any size. `write_cuf`
numbers the events, the white ones first, then the gray and the black ones, and
writes tables whose lengths and indices must agree; the reader takes them
one after the other. That the reader finds every table where the writer put
it is arithmetic on offsets (`Tables`); that no event is in two of the loops or in
none (`FileColoured`) needs that the cutoff bit is right (`CutoffEvents`) and that
the history of e0 has left the queue and is kept (`FirstKept`); that indices
are in range needs `Causal`; and `NumberedAssumption` says that transitions
are numbered from 1, as the reader of nets does. The lists that are folded into sequences are
described by what they enumerate (`Enumerates`, `Followed`), in any order.

`PEQueueProofs`: for any number of histories and any weights,
`Spec => []IInv` and from it the invariants 1 to 4 that the comment in `pe.c`
states (`Room`, `HeapOrder`), and `Spec => BagSpec`. The inductive invariant
adds to the heap order what holds around the gap (`Gap`: the edges across the
gap are ordered, which is what a move re-establishes) and that no history is
in two positions (`Distinct`). `Room` needs that the allocated size is a power of two
although the array shrinks; `Doubled` proves that the test
`n & (n - 1) = 0`, read as "no odd divisor but 1", is kept by doubling. That the
root is minimal is an argument by the least position that is smaller than the
root (well-foundedness of the naturals).

`AmoTreeProofs`: for vectors of any length and literals of either sign,
`Spec => []IInv`, and from it `Sound` and `Conservative`. The invariant says
that the literals that still wait for a parent (`laux`, and `l` from `i` on)
stand for the whole vector in every model of the clauses so far (`Stands`);
each step replaces two neighbours by their disjunction, which keeps both the
number of true ones and whether there is one (`Merge`). That the models can
always be extended to the new variable needs that its clauses are the first
that have it (`Used`).

`ReadpepProofs`: for files of any length with any ints in them (the one
assumption about numbers is that they are ints, `IdentsAssumption`) and any first
size and growth of the tables, `Spec =>` `[]IInv`, `[]Denotes` and `[]Verdict`. That
the tables have room for what is in them and follow the lines (`IInv`) needs
`Later`: transitions are read only after the places, so the one switch `auto`
always speaks about the block at work. A size with room for the next identifier exists
exactly if it `Fits`. That the net is the one the lines describe
(`Denotes`) needs two facts more: arcs are read only after the nodes
(`ArcsLater`), so the nodes that identifiers stand for do not change any more,
and `Wiring`: whether the direction is still to be found or was found at an
earlier arc of the block, it is the one of the block at work.

`Verdict` says that the program goes astray exactly if the file is `Harmful`, and
otherwise refuses it exactly if it is not `WellFormed`; both are defined without the
reader. Its invariant adds to the one of `Denotes` where the reader is in the
format (`Pointing`: the pointer to the block at work stands at the last block
of the file, and the mandatory blocks before it were there) and what the switch
`auto` says of the lines read (`Counting`). That a file refused at one line
stays refused, and harmful stays harmful, is part of it: no later line makes an
earlier one right.

`SpecTreeProofs`: for every specification that the parser can build
(`SpecificationsAssumption`) and every interleaving with the unfolder,
`VerifySpec => []Ownership` and `VerifySpec => []Normalised`, and that no object
is left at the end (`NothingLeaks`). The invariant `TreeInv` says that the
objects that are not deleted are a forest (`Forest`: one parent each, the roots
none, both children of a connective different, and everything below a root),
that no object is below two of the calls of `push_negations` to come (`Apart`),
and that every negation that has still to be moved is below one of them
(`Covers`). `Ownership` counts owners, so one lemma goes from counting to
unique parents and back (`OwnedFacts`); that nothing is lost in a cycle does
not follow from counting, and the proof that what the parser builds is a forest
uses that children are allocated first. Two relations between heaps, `Morgan`
and `Double`, stand for the two rewriting steps; the lemmas about them are
first-order. `Nodes` and `Value` are recursive functions. Without an induction
rule their proofs go through least sets: the nodes of a tree are the least
closed set with its root (`NodesFacts`), a set that satisfies the rules of
evaluation exists and is unique because a smallest counterexample would have
children that are none (`Bottom`, `ValuedExists`, `ValuedOnce`), and it is what
`Value` computes (`ValueFacts`).

`ClausesConfigure`: `VerifySpec => []ConfigurationsOnly`. `Satisfiable` decides by
splitting on a literal and is a recursive function over sets of clauses;
`SatisfiableIff` proves, by a smallest set of literals with clauses for which it could
fail, that it means "there is a model". A model of the clauses for causality and conflicts, restricted
to events, is a configuration (`ModelIsConfiguration`): closed, as
`encode_causality` writes a clause for each of the direct predecessors of an event
only, and free of conflicts, as the trees of `cnf.cc` allow at most one consumer of a
condition (`TreeModels`). Conversely a configuration extends to the
variables of the trees, which no two conditions share (`ConfigurationIsModel`).
That the conflicts of a plain net are those of its conditions, and that no
consumer is left out, is where the invariants of the prefix come in
(`Encodable`); `VerifyUnfolds` carries them over from `Spec`, as no
verification changes the prefix.

`SolverProofs`: for every set of clauses and every choice of the heuristics,
`Spec => []` of the four properties of `SolverProps`. All rest on one inductive
invariant, `SolverInv`, whose parts need each other (TLC checked all of them on
the instance of the run `solver` before they were proved):

- `FlowInv`: which values of the program counter go with decisions, a conflict
  and a finished propagation; `HeapInv`: an unassigned variable is in the heap.
- `TrailInv`: a variable is on the trail once, and the literals of a level are
  next to each other (`trail_lim`); the levels below the current one have been
  looked at, so nothing that is undone was passed over.
- `ClauseInv`, `WatchInv`: a live clause has its two first literals watched, once in
  each list, or is still to be visited in the list that is walked; a deleted one
  is only in lists that are marked for cleaning; a blocker belongs to its clause or is
  false at level 0, where it was trimmed off.
- `SupportInv`: the key of propagation. If a watched literal of a live clause is
  false and its list has been walked, the clause has a true literal whose level
  is not above the one at which the watched literal became false. Without the level this
  would not survive backtracking; with it, the true literal goes only when the
  false one goes. `PropagationComplete` follows, because at the end all lists
  have been walked.
- `ReasonInv`, `ConflictInv`: a reason is live and became unit where the trail says
  so, with a second literal of the same level; a clause in conflict has a false literal
  of the current level. `simplify` and `reduceDB` keep reasons because a
  reason is locked.
- `AnalyzeInv`: during the analysis the variables seen are on the trail, those of
  the current level not behind the place the search has reached, `pathC` counts them, and no
  model of the formula makes `an.p` and all the seen literals of the trail true
  (`Excluded`). At the end this is the learnt clause.
- `ModelInv`: every model of the formula satisfies all clauses that ever
  existed and the literals of level 0, and conversely the clauses of
  the caller that are left, with level 0, say all of the formula. `KeepsModels` and
  `Answers` follow.

The minimisation (`litRedundant`) is a union of sets of variables closed under
reasons; that what it drops follows from the rest is an argument by the least
position on the trail of a dropped literal (`NatMin`), as the reasons lead
backwards. The functions over sequences (`Among`, `Trimmed`) are recursive functions;
what they yield for any length is proved by the least length at which it
could fail (`AmongSifts`, `TrimmedFacts`).

**Model-checked only**, and why:

- liveness (`Terminates`, `Decided`): out of reach of the provers;
- `Complete` for the orders `parikh`, `erv` and `mole`: the exchange of a cutoff's
  history for the corresponding one has to make something smaller, and for the total
  orders that is the Foata normal form of a configuration beyond the prefix;
- `ConcurrencyComplete` and `SafeCuts` for nets with transitions that read two or
  more places, where they are not true of all nets, and `HistoriesSound` for
  nets that are not 1-safe, as described above;
- `ComparesHistories`: the reference order is a recursive function over levels
  and lists of labels; `OrderIsPreorder` proves what the algorithm needs of it;
- `FoldsHistories`, `FoldIsUnfolding`: what folds over the equivalence classes of a file
  compute;
- `DeadlocksReal`, `AnswersRight`: they rest on `Complete`, and on the value of the
  clauses for disabled transitions and specifications.

## Findings

**MarkingComplete** (`src/src/cunf/ec.c:298`, run `marking`). With a transition that reads two places and a transition that consumes both, the history of the consumer after the reader is never found, and the marking it leads to is not represented: _ec_conc_siblings looks at the newest enriched condition of each condition of cont(e) only, and misses the sibling, contrary to the comment at src/src/cunf/ec.c:272-273 ("set r || rp, and r // rp, and rp // r for all rp sharing the same history than r, including r"), once _unfold_combine has put a compound one on top. src/doc/manual/main.tex:113-114 says "the term unfolding in this document refers to the finite marking-complete unfolding prefix that one can build".

**DeadlocksFound** (`src/src/cna/cunfsat.cc:730`, run `deadlock`). The variable e* of a cutoff event e is only tied to conditions that two non-cutoffs consume. If one non-cutoff consumes a condition of e, the clauses let e be enabled after it: with a loop at a place and a transition that leaves it, the deadlock behind that transition is not found and the program answers UNSAT to "deadlock". The comment at src/src/cna/cunfsat.cc:33 says of e* "event e is is enabled at the configuration identified by the e's", and the one at src/src/cna/cunfsat.cc:45 "dead <=> ~e_1* ^ ... ^ ~e_n* [with e_i in E]".

**WrittenInitial** (`src/src/cunf/output.c:417`, run `cuf`). The conditions of e0 are told by the number 0, and by the colour of their event if it is the first of the file. If the prefix has no white event, the event that gets number 0 is gray or black, and what it produces is written as initial. The format (src/src/cunf/output.c:291) says "0xffffffff if initial condition; index of generating event otherwise".

**CutoffAssertion** (`src/src/cunf/marking.c:105`, run `assertion`). The interactive shell yields histories in any order, and with a total order marking_add then makes a smaller history a cutoff because of a greater one. src/src/cunf/marking.c:105 asserts "ASSERT (h_cmp (he->h, h) <= 0);".

**ReadArcsEitherWay** (`src/src/cunf/readpep.c:550`, run `manual`). _insert_ra takes the first number of a read arc for the transition and the second for the place, as in the section TP, and has no way to be told otherwise. A file that gives its read arcs as those of the section PT, place first, is refused if a number fits no node, and read as another net if both fit. src/doc/manual/main.tex:762-765 says of the section RA that it "contains a list of read arcs, each one specified in the same way as either the place-transition arcs in section PT or the transition-place arcs in section TP".

**Verdict** (`src/src/cunf/readpep.c:119`, run `reader`). The table netblocks has RA behind PT, and the loop that moves through it refuses a file in which the block PT comes after RA: that is the layout LayoutOK, against which Verdict holds. src/doc/manual/main.tex:768-771 asks less: "The new RA section must appear after the section TP (transition to place arcs) and before the (optional) section PTP (phantom transition to place arcs)", so that PT may stand on either side of it.

## Not modelled

Marks (`mrk`, `mark`, `m`) and the caches that the colours of `ec.c` keep in
statics are replaced by the sets they represent. Hashing in `marking.c` only
spreads entries, so the table is one sequence. That a cached mark of `ec.c` is
stale is therefore a hazard no property here covers, `ConcurrencySound` and
`ConcurrencyComplete` included. `CONFIG_PMASK`, `CONFIG_DEBUG`
and `CONFIG_PART3` are compiled out. Memory exhaustion ends the program and is
left out. `write_dot` and the other output for drawing programs, the lexers, the
reading of the command line (its results are the constants `Options` and
`PartialAt`) and the generators of nets are formatting. The lists and arrays of
`util/` are sequences and sets in all modules; each of their operations moves a
pointer or two, and where an array that grows is delicate (`pe.c`,
`readpep.c`), the module has the array. `Heap.h`, `Vec.h` and the allocator of
Minisat likewise. Nets where a transition consumes nothing, about which
`nc_static_checks` only warns, are read but not unfolded here.

## Plan

1. The marks and cached colours of `ec.c` as a module that refines the sets of
   `Unfolder`.
2. The garbage collector of Minisat: references to clauses in watch lists,
   reasons and the two lists are moved together, with lazily detached ones among
   them.
3. The encodings for contextual nets in `cunfsat.cc`, when they get a caller.
