--------------------------- MODULE CoverageReducer ---------------------------
(***************************************************************************)
(* ApiGraph::_heuristic_choose (api_graph.rs): the greedy selection of the *)
(* sequences to emit.  Each round scans the sequences not yet chosen and   *)
(* takes the one adding the most uncovered functions, then the most       *)
(* uncovered dependency edges, then the shortest; a first phase only      *)
(* looks at sequences with a dynamic-length fuzzable, a second only at     *)
(* fixed-length ones.                                                      *)
(*                                                                         *)
(* A sequence is what the reducer reads of it: its functions               *)
(* (_get_contained_api_functions), its edges (_covered_dependencies), its  *)
(* length, and the answers of _has_no_fuzzables,                          *)
(* _contains_dead_code_except_last_one and _is_fuzzables_fixed_length.    *)
(***************************************************************************)
EXTENDS Integers, Sequences, FiniteSets

CONSTANTS Inputs,              \* the api_sequences the reducer may be given
          NumDeps,             \* api_dependencies.len()
          MaxSize,             \* max_size
          StopFlags            \* the stop_at_visit_all_nodes arguments

VARIABLES
  seqs,     \* api_sequences: Seq of [fns, edges, len, fuzz, dead, fixed]
  stopAll,  \* stop_at_visit_all_nodes
  chosen,   \* sorted_chosen_sequences
  nodes,    \* already_covered_nodes
  edges,    \* already_covered_edges
  dyn,      \* try_to_find_dynamic_length_flag
  iter,     \* the round of for _ in 0..max_size + 1
  done      \* the function has left its loop

vars == <<seqs, stopAll, chosen, nodes, edges, dyn, iter, done>>

Idx == DOMAIN seqs
ChosenSet == { chosen[i] : i \in DOMAIN chosen }

(* A sequence worth emitting: it has fuzzables and no dead code before its *)
(* last call.                                                              *)
Valid(j) == seqs[j].fuzz /\ ~seqs[j].dead

(* valid_fuzz_sequence_count                                               *)
ValidCount == Cardinality({ j \in Idx : Valid(j) })

(* to_cover_nodes: the functions of the valid sequences.                   *)
ToCoverNodes == UNION { seqs[j].fns : j \in { i \in Idx : Valid(i) } }

(* Mutant: the scan forgets to skip sequences without fuzzables or with  *)
(* dead code.                                                              *)
InPhaseAnySequence(j) == j \notin ChosenSet /\ (dyn = ~seqs[j].fixed)

(* A sequence the current phase may take.                                  *)
InPhase(j) == j \notin ChosenSet /\ Valid(j) /\ (dyn = ~seqs[j].fixed)

NewNodes(j) == Cardinality(seqs[j].fns \ nodes)
NewEdges(j) == Cardinality(seqs[j].edges \ edges)

(* Mutant: the scan compares functions and then length, forgetting edges. *)
RECURSIVE ScanBestNoEdges(_, _)
ScanBestNoEdges(j, cur) ==
  IF j > Len(seqs) THEN cur
  ELSE ScanBestNoEdges(j + 1,
         IF /\ InPhase(j)
            /\ \/ NewNodes(j) > cur.n
               \/ NewNodes(j) = cur.n /\ seqs[j].len < cur.len
         THEN [idx |-> j, n |-> NewNodes(j), e |-> NewEdges(j), len |-> seqs[j].len]
         ELSE cur)

(* The scan from j on, with the best so far in cur = [idx, n, e, len].     *)
(* A candidate replaces cur when it adds more functions, as many functions *)
(* and more edges, or as many of both and is shorter.                      *)
RECURSIVE ScanBest(_, _)
ScanBest(j, cur) ==
  IF j > Len(seqs) THEN cur
  ELSE ScanBest(j + 1,
         IF /\ InPhase(j)
            /\ \/ NewNodes(j) > cur.n
               \/ NewNodes(j) = cur.n /\ NewEdges(j) > cur.e
               \/ NewNodes(j) = cur.n /\ NewEdges(j) = cur.e /\ seqs[j].len < cur.len
         THEN [idx |-> j, n |-> NewNodes(j), e |-> NewEdges(j), len |-> seqs[j].len]
         ELSE cur)

(* The round's result; the scan starts from index 0 and zero counts.       *)
Best == ScanBest(1, [idx |-> 0, n |-> 0, e |-> 0, len |-> 0])

(* _heuristic_choose returns at once when no sequence is valid.            *)
Init ==
  /\ seqs \in Inputs
  /\ stopAll \in StopFlags
  /\ chosen = <<>>
  /\ nodes = {}
  /\ edges = {}
  /\ dyn = TRUE
  /\ iter = 0
  /\ done = (Cardinality({ j \in DOMAIN seqs : seqs[j].fuzz /\ ~seqs[j].dead }) = 0)

(* A round of for _ in 0..max_size + 1 remains.                           *)
Round == ~done /\ iter < MaxSize + 1

(* No dynamic-length sequence adds a function: switch to fixed-length      *)
(* ones; the switch uses up the round.                                     *)
SwitchPhase(b) ==
  /\ Round /\ dyn /\ b.n <= 0
  /\ dyn' = FALSE
  /\ iter' = iter + 1
  /\ UNCHANGED <<seqs, stopAll, chosen, nodes, edges, done>>

(* No fixed-length sequence adds a function or an edge: stop.              *)
NoGain(b) ==
  /\ Round /\ ~dyn /\ b.n <= 0 /\ b.e <= 0
  /\ done' = TRUE
  /\ UNCHANGED <<seqs, stopAll, chosen, nodes, edges, dyn, iter>>

(* Mutant: the all-chosen stop is off by one.                           *)
StopsEarly(c, ns, es) ==
  \/ Len(c) + 1 = ValidCount
  \/ NumDeps # 0 /\ Cardinality(es) = NumDeps
  \/ stopAll /\ Cardinality(ns) = Cardinality(ToCoverNodes)

(* The loop stops once every valid sequence is chosen, every edge of the   *)
(* graph is covered, or (stop_at_visit_all_nodes) every function is.      *)
Stops(c, ns, es) ==
  \/ Len(c) = ValidCount
  \/ NumDeps # 0 /\ Cardinality(es) = NumDeps
  \/ stopAll /\ Cardinality(ns) = Cardinality(ToCoverNodes)

Take(c, ns, es) ==
  /\ chosen' = c /\ nodes' = ns /\ edges' = es
  /\ iter' = iter + 1
  /\ done' = Stops(c, ns, es)
  /\ UNCHANGED <<seqs, stopAll, dyn>>

(* The best sequence of the round is chosen and its coverage added.        *)
Pick(b) ==
  /\ Round
  /\ ~(dyn /\ b.n <= 0) /\ ~(~dyn /\ b.n <= 0 /\ b.e <= 0)
  /\ Take(Append(chosen, b.idx), nodes \cup seqs[b.idx].fns, edges \cup seqs[b.idx].edges)

(* The rounds are used up.                                                 *)
Exhausted ==
  /\ ~done /\ iter = MaxSize + 1
  /\ done' = TRUE
  /\ UNCHANGED <<seqs, stopAll, chosen, nodes, edges, dyn, iter>>

Next == SwitchPhase(Best) \/ NoGain(Best) \/ Pick(Best) \/ Exhausted

Spec == Init /\ [][Next]_vars

-----------------------------------------------------------------------------
TypeOK ==
  /\ \A i \in DOMAIN chosen : chosen[i] \in Idx
  /\ nodes \subseteq ToCoverNodes
  /\ edges \subseteq 1..NumDeps
  /\ iter \in 0..(MaxSize + 1)
  /\ dyn \in BOOLEAN /\ done \in BOOLEAN

(* The reference greedy order: more new functions, then more new edges,   *)
(* then shorter, then the earlier index.                                   *)
Key(j) == <<NewNodes(j), NewEdges(j), -seqs[j].len, -j>>
KeyGreater(k1, k2) ==
  \E i \in 1..4 : k1[i] > k2[i] /\ \A h \in 1..(i - 1) : k1[h] = k2[h]
RefBest == CHOOSE j \in { i \in Idx : InPhase(i) } :
             \A k \in { i \in Idx : InPhase(i) } \ {j} : KeyGreater(Key(j), Key(k))

(* Every sequence _heuristic_choose takes is the greedy optimum of its     *)
(* phase (spec.md §4.6): the scan's running comparison agrees with the     *)
(* lexicographic order, whatever order the sequences come in.              *)
GreedyChoice ==
  [][Len(chosen') = Len(chosen) + 1 => chosen'[Len(chosen')] = RefBest]_vars

(* At most max_size sequences are returned (spec.md §4.6: the selection   *)
(* stops when max_count sequences are chosen).                             *)
AtMostMaxSize == Len(chosen) <= MaxSize

(* When _heuristic_choose returns with rounds to spare, every function of  *)
(* a valid sequence, or every edge of the graph, is covered: the phase     *)
(* switch and the stops (no gain, all chosen, all edges, all functions)   *)
(* never leave a function behind (spec.md §4.6).                           *)
CoverageOnReturn ==
  (done /\ iter <= MaxSize) =>
    (nodes = ToCoverNodes \/ (NumDeps # 0 /\ Cardinality(edges) = NumDeps))

=============================================================================
