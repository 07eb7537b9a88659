---------------------------- MODULE ReverseCover ----------------------------
(***************************************************************************)
(* ApiGraph::_try_to_cover_unvisited_nodes (api_graph.rs), the backward   *)
(* search, composed with bfs as the driver composes them.  Each round     *)
(* recomputes the candidate sequences (_choose_candidate_sequence_for_     *)
(* merge) and goes over the unvisited functions; a function all of whose  *)
(* non-fuzzable parameters some candidate's last call can feed gets the   *)
(* merge of those candidates, extended with it by is_fun_satisfied.  The  *)
(* rounds stop when one covers nothing, or after as many rounds as there  *)
(* were unvisited functions.                                               *)
(*                                                                         *)
(* The unvisited functions are an FxHashSet; the model visits them in any *)
(* order, which includes the one the hash gives.                          *)
(***************************************************************************)
EXTENDS BfsStrategy

CONSTANT Modes   \* the GraphTraverseAlgorithm values the driver may get

VARIABLES
  mode,        \* the algorithm: "Bfs", "FastBfs", "BfsEndPoint",
               \* "FastBfsEndPoint", "Default", "TryDeepBfs" or
               \* "DirectBackwardSearch"
  unvisited,   \* unvisited_nodes
  nRounds,     \* unvisited_nodes.len() when the round loop starts
  rounds,      \* the rounds done
  cands,       \* candidate_sequences of the round
  plan,        \* per function, what the round's candidate_sequences
               \* give it: whether every non-fuzzable parameter is fed
               \* (can_be_covered_flag) and the merge of the dependents
  todo,        \* the unvisited nodes this round has still to go over
  coveredNow   \* covered_node_this_iteration

NoPlan == [fed |-> FALSE, merged |-> EmptySequence]

vars == <<bfsVars, mode, unvisited, nRounds, rounds, cands, plan, todo, coveredNow>>
revVars == <<mode, unvisited, nRounds, rounds, cands, plan, todo, coveredNow>>

(* generate_all_possoble_sequences' bfs arguments <<stop_at_end, fast>>;   *)
(* _default_generate_sequences runs _BfsEndPoint and then the backward     *)
(* search.                                                                 *)
BfsArgs == [Bfs |-> <<FALSE, FALSE>>, FastBfs |-> <<FALSE, TRUE>>,
            BfsEndPoint |-> <<TRUE, FALSE>>, FastBfsEndPoint |-> <<TRUE, TRUE>>,
            Default |-> <<TRUE, FALSE>>]

(* _DirectBackwardSearch clears api_sequences and the visited flags and    *)
(* starts the backward search at once.                                     *)
BackInit ==
  /\ seqs = <<>> /\ visited = {} /\ stopAtEnd = FALSE /\ fastMode = FALSE
  /\ level = 0 /\ tmp = <<>> /\ si = 1 /\ fi = 1 /\ pc = "reverse"
  /\ deep = FALSE /\ maxLen = MaxLen
  /\ nodesSeen = {} /\ edgesSeen = {} /\ hasNew = FALSE /\ budget = 0

Init ==
  /\ mode \in Modes
  /\ CASE mode = "DirectBackwardSearch" -> BackInit
       [] mode = "TryDeepBfs"           -> DeepInit
       [] OTHER                         -> BfsInit(BfsArgs[mode][1], BfsArgs[mode][2])
  /\ unvisited = {} /\ nRounds = 0 /\ rounds = 0
  /\ cands = <<>> /\ plan = [node \in FnIds |-> NoPlan] /\ todo = {} /\ coveredNow = {}

(* _choose_candidate_sequence_for_merge: the sequences, by index, that are *)
(* not ended, not empty, and have no dead code before their last call.     *)
IsCandidate(s) ==
  /\ ~IsEnded(s) /\ SeqLen(s) >= 1
  /\ \A j \in 1..(SeqLen(s) - 1) : ~DeadCall(s, j)

Candidates(pool) == SelectSeq([i \in DOMAIN pool |-> i], LAMBDA i : IsCandidate(pool[i]))

(* The non-fuzzable parameters of function node, in order.                    *)
NonFuzzableParams(node) ==
  SelectSeq([prm \in DOMAIN Fn(node).inputs |-> prm], LAMBDA prm : ~IsFuzzableType(Fn(node).inputs[prm]))

(* The candidate taken for parameter prm of node: the first one whose last call *)
(* feeds prm and that has fuzzables, or else the last one feeding prm; 0 when  *)
(* none does.                                                              *)
Dependent(pool, cset, node, prm) ==
  LET feeding == SelectSeq(cset, LAMBDA cnd : CheckDependency(LastFn(pool[cnd]), node, prm) # {})
      fuzzed  == SelectSeq(feeding, LAMBDA cnd : ~HasNoFuzzables(pool[cnd]))
  IN  IF fuzzed # <<>> THEN fuzzed[1]
      ELSE IF feeding # <<>> THEN feeding[Len(feeding)] ELSE 0

DependentIndexes(pool, cset, node) ==
  [pos \in DOMAIN NonFuzzableParams(node) |-> Dependent(pool, cset, node, NonFuzzableParams(node)[pos])]

(* What the dependent indexes deps give a function: can_be_covered_flag, *)
(* and the merge of the dependent sequences (_merge_sequences).  The merge *)
(* is fixed for the round: the candidates are indices of sequences pushed  *)
(* before it and api_sequences only grows, so the merge taken at a node's  *)
(* turn is the one computed when the round starts.                         *)
PlanOf(pool, deps) ==
  IF \A pos \in DOMAIN deps : deps[pos] # 0
    THEN [fed |-> TRUE, merged |-> MergeSequences([pos \in DOMAIN deps |-> pool[deps[pos]]])]
    ELSE NoPlan

Plan(pool, cset) == [node \in FnIds |-> PlanOf(pool, DependentIndexes(pool, cset, node))]

(* The backward search starts: after bfs for _default_generate_sequences,  *)
(* at once for _DirectBackwardSearch.                                      *)
StartReverse ==
  /\ \/ pc = "reverse"
     \/ pc = "end" /\ mode = "Default"
  /\ unvisited' = FnIds \ visited
  /\ nRounds' = Cardinality(FnIds \ visited)
  /\ rounds' = 0
  /\ pc' = "round"
  /\ UNCHANGED <<seqs, visited, stopAtEnd, fastMode, level, tmp, si, fi, deepVars,
                 mode, cands, plan, todo, coveredNow>>

StartRound ==
  /\ pc = "round" /\ rounds < nRounds
  /\ cands' = Candidates(seqs)
  /\ plan' = Plan(seqs, cands')
  /\ todo' = unvisited /\ coveredNow' = {}
  /\ pc' = "node"
  /\ UNCHANGED <<seqs, visited, stopAtEnd, fastMode, level, tmp, si, fi, deepVars,
                 mode, unvisited, nRounds, rounds>>

(* On return the plan is recomputed from the final sequences, for         *)
(* ReverseFixpoint to read; the code does nothing more.                    *)
Observe ==
  /\ cands' = Candidates(seqs)
  /\ plan' = Plan(seqs, cands')
  /\ UNCHANGED <<seqs, visited, stopAtEnd, fastMode, level, tmp, si, fi, deepVars,
                 mode, unvisited, nRounds, rounds, todo, coveredNow>>

RoundsUsedUp ==
  /\ pc = "round" /\ rounds = nRounds
  /\ pc' = "done"
  /\ Observe

NodeStep(node) ==
  /\ pc = "node" /\ node \in todo
  /\ todo' = todo \ {node}

(* node is left for a later round: a non-fuzzable parameter no candidate  *)
(* feeds, or is_fun_satisfied (outcome w) rejects the merge ("Should not   *)
(* go to here").                                                           *)
NotCovered(node, w) ==
  /\ NodeStep(node) /\ ~(plan[node].fed /\ w.ok)
  /\ UNCHANGED <<seqs, visited, stopAtEnd, fastMode, level, tmp, si, fi, pc, deepVars,
                 mode, unvisited, nRounds, rounds, cands, plan, coveredNow>>

(* The merge m extended with node is pushed and node is visited.          *)
Covered(node, m, w) ==
  /\ NodeStep(node) /\ plan[node].fed /\ w.ok
  /\ seqs' = Append(seqs, Appended(m, node, w))
  /\ visited' = visited \cup {node}
  /\ coveredNow' = coveredNow \cup {node}
  /\ UNCHANGED <<stopAtEnd, fastMode, level, tmp, si, fi, pc, deepVars,
                 mode, unvisited, nRounds, rounds, cands, plan>>

(* node's turn in the round, with m its merge and w is_fun_satisfied's    *)
(* outcome on it, both read only when the plan says fed.                 *)
VisitWith(node, m, w) == Covered(node, m, w) \/ NotCovered(node, w)
Visit(node, m) == VisitWith(node, m, Satisfied(m, node))

(* The round covered nothing: the backward search gives up.                *)
NoProgress ==
  /\ pc = "node" /\ todo = {} /\ coveredNow = {}
  /\ pc' = "done"
  /\ Observe

Progress ==
  /\ pc = "node" /\ todo = {} /\ coveredNow # {}
  /\ unvisited' = unvisited \ coveredNow
  /\ rounds' = rounds + 1
  /\ pc' = "round"
  /\ UNCHANGED <<seqs, visited, stopAtEnd, fastMode, level, tmp, si, fi, deepVars,
                 mode, nRounds, cands, plan, todo, coveredNow>>

Next ==
  \/ BfsNext /\ UNCHANGED revVars
  \/ StartReverse \/ StartRound \/ RoundsUsedUp \/ NoProgress \/ Progress
  \/ \E node \in todo : Visit(node, plan[node].merged)

Spec == Init /\ [][Next]_vars

-----------------------------------------------------------------------------
(* The functions some sequence calls.                                      *)
Contained(pool) == UNION { ContainedFns(pool[i]) : i \in DOMAIN pool }

(* When the backward search returns, a function no sequence calls cannot   *)
(* be covered from the sequences there are: some non-fuzzable parameter    *)
(* has no candidate producer, or the merge is rejected (spec.md §4.5: the  *)
(* search is repeated until a full pass brings no new coverage).  Neither  *)
(* the round bound nor the visited flags left by bfs may end it early.     *)
ReverseFixpoint ==
  pc = "done" =>
    \A node \in FnIds \ Contained(seqs) :
       plan[node].fed => ~Satisfied(plan[node].merged, node).ok

(* The branch printing "Should not go to here. Only if algorithm error     *)
(* occurs" is never taken: whenever a round comes to a function whose      *)
(* non-fuzzable parameters the candidates all feed, is_fun_satisfied       *)
(* accepts it appended to the merge of those candidates, whatever the      *)
(* merged calls move and borrow.                                           *)
ReverseAccepted ==
  pc = "node" =>
    \A node \in todo : plan[node].fed => Satisfied(plan[node].merged, node).ok

=============================================================================
