---------------------------- MODULE BfsStrategy ----------------------------
(***************************************************************************)
(* ApiGraph::bfs (api_graph.rs): bounded breadth-first enumeration.  Level *)
(* by level, from the empty sequence, every sequence of the level's length *)
(* (not ended, when stop_at_end_function) is tried with every function in *)
(* index order; each extension is_fun_satisfied accepts is pushed onto    *)
(* api_sequences and marks its function visited.  In fast mode a function *)
(* already visited is not tried again.                                     *)
(*                                                                         *)
(* ApiGraph::_try_deep_bfs runs the same loops from cleared api_sequences, *)
(* with stop_at_end_function, up to as many calls as there are functions.  *)
(* It breaks after a level that adds no function or edge to those it has  *)
(* seen, or, past length 2, before a level once the sequences times the    *)
(* visited functions reach max_sequence_number.                            *)
(*                                                                         *)
(* One step of the model is one (frontier sequence, function) pair of the  *)
(* inner loop, so the visited flags fast mode reads are those of the code  *)
(* at that point of the scan.                                              *)
(***************************************************************************)
EXTENDS SequenceValues, FiniteSets

CONSTANTS
  MaxLen,      \* bfs max_len (the driver passes bfs_max_len = 5)
  DeepBudgets  \* the max_sequence_number values _try_deep_bfs may get
               \* (the driver passes 100000)

ASSUME MaxLen \in Nat \ {0} /\ DeepBudgets \subseteq Nat /\ Len(ApiFunctions) > 0

VARIABLES
  seqs,        \* api_sequences: Seq of sequence values (SequenceValues)
  visited,     \* the functions whose api_functions_visited flag is set
  stopAtEnd,   \* bfs stop_at_end_function
  fastMode,    \* bfs fast_mode
  level,       \* len of for len in 0..max_len
  tmp,         \* tmp_sequences, the frontier of the level
  si,          \* the frontier sequence being extended
  fi,          \* api_func_index
  pc,          \* "level", "scan", or "end" once bfs has returned
  deep,        \* _try_deep_bfs rather than bfs
  maxLen,      \* the loop bound: max_len, or the number of functions
  nodesSeen,   \* _try_deep_bfs already_covered_nodes
  edgesSeen,   \* _try_deep_bfs already_covered_edges
  hasNew,      \* _try_deep_bfs has_new_coverage_flag
  budget       \* _try_deep_bfs max_sequence_number

deepVars == <<deep, maxLen, nodesSeen, edgesSeen, hasNew, budget>>
bfsVars == <<seqs, visited, stopAtEnd, fastMode, level, tmp, si, fi, pc, deepVars>>

NumFns == Len(ApiFunctions)

(* bfs on a graph with no sequences yet: reset_visited, then the empty     *)
(* sequence pushed as the only sequence of length 0.                       *)
BfsInit(stop, fast) ==
  /\ seqs = <<EmptySequence>>
  /\ visited = {}
  /\ stopAtEnd = stop /\ fastMode = fast
  /\ level = 0 /\ tmp = <<>> /\ si = 1 /\ fi = 1
  /\ pc = "level"
  /\ deep = FALSE /\ maxLen = MaxLen
  /\ nodesSeen = {} /\ edgesSeen = {} /\ hasNew = FALSE /\ budget = 0

(* _try_deep_bfs: api_sequences cleared, reset_visited, max_len the number *)
(* of functions, and the empty sequence pushed.                            *)
DeepInit ==
  /\ seqs = <<EmptySequence>>
  /\ visited = {}
  /\ stopAtEnd = TRUE /\ fastMode = FALSE
  /\ level = 0 /\ tmp = <<>> /\ si = 1 /\ fi = 1
  /\ pc = "level"
  /\ deep = TRUE /\ maxLen = NumFns
  /\ nodesSeen = {} /\ edgesSeen = {} /\ hasNew = FALSE /\ budget \in DeepBudgets

(* tmp_sequences: the sequences of length len, skipping ended ones when    *)
(* stop_at_end_function.                                                   *)
Frontier ==
  SelectSeq(seqs, LAMBDA s : ~(stopAtEnd /\ IsEnded(s)) /\ SeqLen(s) = level)

(* _try_deep_bfs' budget test at the top of a level.                       *)
BudgetSpent ==
  deep /\ level > 2 /\ Len(seqs) * Cardinality(visited) >= budget

StartLevel ==
  /\ pc = "level" /\ level < maxLen /\ ~BudgetSpent
  /\ tmp' = Frontier
  /\ si' = 1 /\ fi' = 1 /\ pc' = "scan"
  /\ hasNew' = FALSE
  /\ UNCHANGED <<seqs, visited, stopAtEnd, fastMode, level, deep, maxLen, nodesSeen, edgesSeen, budget>>

(* _try_deep_bfs breaks before the level: too many sequences.              *)
OverBudget ==
  /\ pc = "level" /\ level < maxLen /\ BudgetSpent
  /\ pc' = "end"
  /\ UNCHANGED <<seqs, visited, stopAtEnd, fastMode, level, tmp, si, fi, deepVars>>

(* Mutant: the loop stops one length short (for len in 0..max_len - 1).  *)
EndBfsEarly ==
  /\ pc = "level" /\ level = maxLen - 1
  /\ pc' = "end"
  /\ UNCHANGED <<seqs, visited, stopAtEnd, fastMode, level, tmp, si, fi, deepVars>>

(* The for len in 0..max_len loop is over; bfs returns.                    *)
EndBfs ==
  /\ pc = "level" /\ level = maxLen
  /\ pc' = "end"
  /\ UNCHANGED <<seqs, visited, stopAtEnd, fastMode, level, tmp, si, fi, deepVars>>

Scanning == pc = "scan" /\ si <= Len(tmp)

(* The next (sequence, function) pair of the two nested loops.             *)
Advance ==
  IF fi < NumFns THEN fi' = fi + 1 /\ si' = si ELSE fi' = 1 /\ si' = si + 1

(* Fast mode: a visited function is not tried.                            *)
SkipVisited ==
  /\ Scanning /\ fastMode /\ fi \in visited
  /\ Advance
  /\ UNCHANGED <<seqs, visited, stopAtEnd, fastMode, level, tmp, pc, deepVars>>

Tried == Scanning /\ ~(fastMode /\ fi \in visited)

(* Mutant: the function is marked visited before is_fun_satisfied is      *)
(* asked, whatever it answers.                                             *)
RejectMarking(w) ==
  /\ Tried /\ ~w.ok
  /\ visited' = visited \cup {fi}
  /\ Advance
  /\ UNCHANGED <<seqs, stopAtEnd, fastMode, level, tmp, pc, deepVars>>

(* _try_deep_bfs: the functions ns and edges es of a pushed sequence are   *)
(* added to those seen, and has_new_coverage_flag set if any is new.       *)
Seen(ns, es) ==
  IF deep
  THEN /\ nodesSeen' = nodesSeen \cup ns /\ edgesSeen' = edgesSeen \cup es
       /\ hasNew' = (hasNew \/ ~(ns \subseteq nodesSeen) \/ ~(es \subseteq edgesSeen))
  ELSE UNCHANGED <<nodesSeen, edgesSeen, hasNew>>

(* is_fun_satisfied accepts: the new sequence is pushed, the function      *)
(* visited; check_all_visited's early return is commented out.            *)
Accept(w) ==
  /\ Tried /\ w.ok
  /\ seqs' = Append(seqs, Appended(tmp[si], fi, w))
  /\ visited' = visited \cup {fi}
  /\ Advance
  /\ Seen(ContainedFns(tmp[si]) \cup {fi}, w.covered)
  /\ UNCHANGED <<stopAtEnd, fastMode, level, tmp, pc, deep, maxLen, budget>>

Reject(w) ==
  /\ Tried /\ ~w.ok
  /\ Advance
  /\ UNCHANGED <<seqs, visited, stopAtEnd, fastMode, level, tmp, pc, deepVars>>

(* The frontier is done: the next length.                                  *)
NextLevel ==
  /\ pc = "scan" /\ si > Len(tmp) /\ ~(deep /\ ~hasNew)
  /\ level' = level + 1 /\ pc' = "level"
  /\ UNCHANGED <<seqs, visited, stopAtEnd, fastMode, tmp, si, fi, deepVars>>

(* _try_deep_bfs breaks after a level that brought no new function or edge *)
(* ("forward bfs can not find more"); that level is done.                  *)
Stale ==
  /\ pc = "scan" /\ si > Len(tmp) /\ deep /\ ~hasNew
  /\ level' = level + 1 /\ pc' = "end"
  /\ UNCHANGED <<seqs, visited, stopAtEnd, fastMode, tmp, si, fi, deepVars>>

(* The current pair tried, with w is_fun_satisfied's outcome, read only   *)
(* when Scanning holds.                                                    *)
Try(w) == Accept(w) \/ Reject(w)

BfsNext ==
  \/ StartLevel \/ OverBudget \/ EndBfs \/ NextLevel \/ Stale \/ SkipVisited
  \/ Try(Satisfied(tmp[si], fi))

-----------------------------------------------------------------------------
(* A sequence the loops must have extended: shorter than max_len for bfs,  *)
(* than the levels done when _try_deep_bfs breaks, and, with              *)
(* stop_at_end_function, not ended.                                        *)
Extendable(s) ==
  /\ SeqLen(s) < (IF deep THEN level ELSE maxLen)
  /\ ~(stopAtEnd /\ IsEnded(s))

(* When bfs or _try_deep_bfs returns, api_sequences is closed under the    *)
(* extensions the assembler accepts, up to the levels done (spec.md §4.5): *)
(* every function some extended sequence accepts is visited, and without  *)
(* fast mode the extension itself is in api_sequences.  The level loop,    *)
(* its breaks, the frontier filter and the fast skip must agree for it.    *)
ExtensionKept(s, fn0, res) ==
  (Extendable(s) /\ res.ok) =>
     /\ fn0 \in visited
     /\ ~fastMode => \E sj0 \in DOMAIN seqs : seqs[sj0] = Appended(s, fn0, res)

BfsClosed ==
  pc = "end" =>
    \A si0 \in DOMAIN seqs : \A fn0 \in FnIds :
      ExtensionKept(seqs[si0], fn0, Satisfied(seqs[si0], fn0))

=============================================================================
