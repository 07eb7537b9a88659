-------------------------- MODULE SearchStrategies --------------------------
(***************************************************************************)
(* ApiGraph::random_walk (api_graph.rs): the set of sequences api_sequences *)
(* grows by extending a randomly chosen sequence with a randomly chosen    *)
(* function, through is_fun_satisfied, until more than max_size extensions *)
(* have reached max_len.  Each sequence is an ApiSequence value; the       *)
(* assembler of SequenceAssembler is instantiated for it.                  *)
(*                                                                         *)
(* api_sequences is a Vec in the code and a set here: the walk only reads  *)
(* it to pick a sequence, and a duplicate is as pickable as its original.  *)
(* seq_num still counts every push, duplicates included.                   *)
(***************************************************************************)
EXTENDS SequenceValues, FiniteSets

CONSTANTS MaxLen,     \* random_walk max_len: the length that counts
          StopAtEnd,  \* random_walk stop_at_end_function
          MaxSize     \* random_walk max_size

VARIABLES
  apiSequences,   \* api_sequences
  visited,        \* api_functions_visited, as the set of visited indices
  seqNum,         \* seq_num
  done            \* the loop has returned or broken out

vars == <<apiSequences, visited, seqNum, done>>

(* random_walk clears the sequences and the visited flags, returns at once *)
(* for an empty graph, and otherwise starts from the empty sequence.       *)
Init ==
  /\ apiSequences = {EmptySequence}
  /\ visited = {}
  /\ seqNum = 0
  /\ done = (FnIds = {})

(* A pushed sequence of at least max_len counts; the loop breaks once the  *)
(* count exceeds max_size.                                                 *)
Push(f, n) ==
  /\ apiSequences' = apiSequences \cup {n}
  /\ visited' = visited \cup {f}
  /\ IF Len(n.calls) >= MaxLen
     THEN /\ seqNum' = seqNum + 1
          /\ done' = (seqNum + 1 > MaxSize)
     ELSE UNCHANGED <<seqNum, done>>

Accept(s, f, w) == w.ok /\ Push(f, Appended(s, f, w))

(* Mutant: the loop goes on after the break condition.                   *)
WalkStepAfterBreak(s, f) ==
  /\ ~(StopAtEnd /\ SA(s)!IsSequenceEnded)
  /\ Accept(s, f, SA(s)!IsFunSatisfied(f))

(* One iteration of the loop that extends a sequence.  An iteration that   *)
(* picks an ended sequence (with stop_at_end_function) or a function       *)
(* is_fun_satisfied rejects changes nothing: it is a stuttering step.      *)
WalkStep(s, f) ==
  /\ ~done
  /\ ~(StopAtEnd /\ SA(s)!IsSequenceEnded)
  /\ Accept(s, f, SA(s)!IsFunSatisfied(f))

Next == \E s \in apiSequences, f \in FnIds : WalkStep(s, f)

(***************************************************************************)
(* Fairness.  Each iteration draws the sequence and the function uniformly *)
(* (rng.gen_range), so while some extension is possible one is made with   *)
(* probability 1: weak fairness of Next.                                   *)
(***************************************************************************)
Spec == Init /\ [][Next]_vars /\ WF_vars(Next)

-----------------------------------------------------------------------------
TypeOK ==
  /\ EmptySequence \in apiSequences
  /\ visited \subseteq FnIds
  /\ seqNum \in 0..(MaxSize + 1)
  /\ done \in BOOLEAN

(* random_walk returns: the loop eventually breaks (spec.md: the walk ends *)
(* after enough long sequences or when its attempt budget is spent).       *)
Terminates == <>done

=============================================================================
