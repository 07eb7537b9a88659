--------------------------- MODULE FriesGenerator ---------------------------
(***************************************************************************)
(* ApiGraph::my_method (api_graph.rs), the corpus-guided generator the     *)
(* driver runs (_UseRealWorld).  An outer loop starts a sequence with the  *)
(* next start function, round robin; an inner loop grows it to max_len,    *)
(* either restarting from a random start function (rand_num(0, len + 3)   *)
(* = 0, or need_new) or appending a successor, in the dependency graph,   *)
(* of a function already in the sequence; the sequence is then pushed,     *)
(* until max_num sequences exist.                                          *)
(*                                                                         *)
(* The corpus weights only bias the draws: normalize_weights maps every    *)
(* weight into [0.05, 0.95], so every successor keeps a positive chance,   *)
(* and the three retries that avoid covered successors end on any of them. *)
(* Each draw is therefore a nondeterministic choice.                       *)
(***************************************************************************)
EXTENDS SequenceValues

CONSTANTS MaxNum,   \* my_method max_num: sequences to generate
          MaxLen    \* my_method max_len: the length of each

VARIABLES
  sequence,       \* the sequence the inner loop grows
  needNew,        \* need_new
  covered,        \* covered_function
  sequences,      \* the sequences pushed so far
  polling,        \* start_index_polling
  pc              \* "outer", "inner", "done", or "panic" (index out of bounds)

vars == <<sequence, needNew, covered, sequences, polling, pc>>

(* extract_start_function: the start functions in index order.            *)
StartFunctions == SelectSeq([i \in FnIds |-> i], IsStartFunction)

(* construct_function_succ_table: the consumers of i's output, one entry  *)
(* per dependency edge.                                                    *)
SuccTable(i) == { e.in : e \in { d \in Dependencies : d.out = i } }

(* _get_available_function_indexs: the functions of the unmoved calls      *)
(* whose successor table is not empty.                                     *)
Available(s) ==
  { s.calls[k].fn : k \in { k \in DOMAIN s.calls :
                              SuccTable(s.calls[k].fn) # {} /\ k \notin s.moved } }

Init ==
  /\ sequence = EmptySequence
  /\ needNew = FALSE
  /\ covered = {}
  /\ sequences = <<>>
  /\ polling = 0
  /\ pc = "outer"

(* Mutant: the loop is left only past max_num sequences.                  *)
FinishPastMax ==
  /\ pc = "outer" /\ Len(sequences) > MaxNum
  /\ pc' = "done"
  /\ UNCHANGED <<sequence, needNew, covered, sequences, polling>>

(* The outer loop is left once max_num sequences exist.                    *)
Finish ==
  /\ pc = "outer" /\ Len(sequences) >= MaxNum
  /\ pc' = "done"
  /\ UNCHANGED <<sequence, needNew, covered, sequences, polling>>

(* The polling index is advanced before it is used and wraps at the number *)
(* of start functions.                                                     *)
NextPolling == IF polling + 1 >= Len(StartFunctions) THEN 0 ELSE polling + 1

(* A sequence begun with start function st; is_fun_satisfied returned w.  *)
Begin(st, w) ==
  /\ polling' = NextPolling
  /\ IF w.ok
     THEN /\ sequence' = Appended(EmptySequence, st, w)
          /\ covered' = covered \cup {st}
          /\ pc' = "inner"
     ELSE UNCHANGED <<sequence, covered, pc>>
  /\ needNew' = FALSE
  /\ UNCHANGED sequences

(* An index past the start functions (with none, index 0) panics.        *)
StartSequence ==
  /\ pc = "outer" /\ Len(sequences) < MaxNum
  /\ IF NextPolling >= Len(StartFunctions)
     THEN /\ pc' = "panic"
          /\ UNCHANGED <<sequence, needNew, covered, sequences, polling>>
     ELSE Begin(StartFunctions[NextPolling + 1],
                SA(EmptySequence)!IsFunSatisfied(StartFunctions[NextPolling + 1]))

(* The sequence reached max_len and is pushed; the next outer iteration   *)
(* starts from ApiSequence::new.                                           *)
PushSequence ==
  /\ pc = "inner" /\ Len(sequence.calls) >= MaxLen
  /\ sequences' = Append(sequences, sequence)
  /\ sequence' = EmptySequence
  /\ pc' = "outer"
  /\ UNCHANGED <<needNew, covered, polling>>

(* Mutant: the None of is_fun_satisfied is not checked.                  *)
ExtendUnchecked(f, w) ==
  /\ sequence' = Appended(sequence, f, w)
  /\ covered' = covered \cup {f}

(* Appending f, when is_fun_satisfied accepts it; a rejection continues   *)
(* the inner loop unchanged.                                               *)
Extend(f, w) ==
  /\ w.ok
  /\ sequence' = Appended(sequence, f, w)
  /\ covered' = covered \cup {f}

(* rand == 0 || need_new: a random start function.                        *)
Restart ==
  /\ pc = "inner" /\ Len(sequence.calls) < MaxLen
  /\ \E i \in DOMAIN StartFunctions :
        Extend(StartFunctions[i], SA(sequence)!IsFunSatisfied(StartFunctions[i]))
  /\ needNew' = FALSE
  /\ UNCHANGED <<sequences, polling, pc>>

(* No unmoved call has a successor: the next iteration must restart.      *)
NoSuccessor ==
  /\ pc = "inner" /\ Len(sequence.calls) < MaxLen /\ ~needNew
  /\ Available(sequence) = {}
  /\ needNew' = TRUE
  /\ UNCHANGED <<sequence, covered, sequences, polling, pc>>

(* A successor of an available producer.                                   *)
Successor ==
  /\ pc = "inner" /\ Len(sequence.calls) < MaxLen /\ ~needNew
  /\ \E p \in Available(sequence) : \E f \in SuccTable(p) :
        Extend(f, SA(sequence)!IsFunSatisfied(f))
  /\ UNCHANGED <<needNew, sequences, polling, pc>>

Next == Finish \/ StartSequence \/ PushSequence
          \/ Restart \/ NoSuccessor \/ Successor

(***************************************************************************)
(* Fairness.  Every draw has a positive probability (rand_num, and weights *)
(* of at least 0.05), so a step that stays possible is taken with          *)
(* probability 1: weak fairness of Next.                                   *)
(***************************************************************************)
Spec == Init /\ [][Next]_vars /\ WF_vars(Next)

-----------------------------------------------------------------------------
TypeOK ==
  /\ needNew \in BOOLEAN
  /\ covered \subseteq FnIds
  /\ Len(sequences) \in 0..MaxNum
  /\ polling \in Nat
  /\ pc \in {"outer", "inner", "done", "panic"}
  /\ Len(sequence.calls) <= MaxLen
  /\ \A k \in DOMAIN sequence.calls :
        Len(sequence.calls[k].params) = Len(Fn(sequence.calls[k].fn).inputs)

=============================================================================
