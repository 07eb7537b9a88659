--------------------------- MODULE FriesPipeline ---------------------------
(***************************************************************************)
(* The default pipeline of the driver (context.rs): my_method generates    *)
(* max_num sequences into api_sequences, then FileHelper::new               *)
(* (file_util.rs) selects with _first_choose(max_size, max_len), keys the   *)
(* selection by its printed text, and writes one harness per key, up to    *)
(* MAX_TEST_FILE_NUMBER.                                                    *)
(*                                                                         *)
(* _first_choose's covered node and edge sets feed only its statistics     *)
(* printing and are left out; so are the visited flags my_method sets      *)
(* after its loop, which nothing in the pipeline reads afterwards.         *)
(***************************************************************************)
EXTENDS FriesGenerator

CONSTANTS MaxSize,          \* FileHelper max_size (the driver passes max_num)
          MaxTestFiles      \* MAX_TEST_FILE_NUMBER

VARIABLES
  stage,       \* "generate", "choose", "dedup", or "written"
  index,       \* _first_choose's index into api_sequences
  res,         \* _first_choose's res
  harnesses    \* the printed sequences written as test files

pipeVars == <<stage, index, res, harnesses>>
allVars == <<vars, pipeVars>>

(* The text print_sequence gives a sequence: its calls, with where each    *)
(* argument comes from, and its fuzzable parameters.                      *)
Printed(s) == <<s.calls, s.fuzzableParams>>

PipelineInit ==
  /\ Init
  /\ stage = "generate" /\ index = 1 /\ res = <<>> /\ harnesses = {}

(* my_method runs to completion.                                           *)
Generate ==
  /\ stage = "generate" /\ Next
  /\ UNCHANGED pipeVars

(* my_method has returned: self.api_sequences = sequences, and             *)
(* _first_choose starts over them.                                          *)
StartChoose ==
  /\ stage = "generate" /\ pc = "done"
  /\ stage' = "choose" /\ index' = 1 /\ res' = <<>>
  /\ UNCHANGED <<vars, harnesses>>

Choosing == stage = "choose" /\ index <= Len(sequences)

(* Mutant: sequences of exactly max_len are passed over as well.          *)
SkippedAtMax(s) == HasNoFuzzables(s) \/ SeqLen(s) <= MaxLen

(* A sequence without fuzzable parameters, or shorter than max_len, is     *)
(* passed over.                                                             *)
Skipped(s) == HasNoFuzzables(s) \/ SeqLen(s) < MaxLen

ChooseSkip ==
  /\ Choosing /\ Skipped(sequences[index])
  /\ index' = index + 1
  /\ UNCHANGED <<vars, stage, res, harnesses>>

(* The sequence is pushed; the loop breaks once res holds max_size.        *)
ChoosePush ==
  /\ Choosing /\ ~Skipped(sequences[index])
  /\ res' = Append(res, sequences[index])
  /\ stage' = IF Len(res') >= MaxSize THEN "dedup" ELSE "choose"
  /\ index' = index + 1
  /\ UNCHANGED <<vars, harnesses>>

ChooseEnd ==
  /\ stage = "choose" /\ index > Len(sequences)
  /\ stage' = "dedup"
  /\ UNCHANGED <<vars, index, res, harnesses>>

(* sequence_map keeps one sequence per printed text; the keys are sorted   *)
(* and a test file written for each, up to MAX_TEST_FILE_NUMBER.           *)
WriteFiles ==
  /\ stage = "dedup"
  /\ LET keys == { Printed(res[i]) : i \in DOMAIN res }
     IN  harnesses' = IF Cardinality(keys) <= MaxTestFiles THEN keys
                      ELSE CHOOSE h \in SUBSET keys : Cardinality(h) = MaxTestFiles
  /\ stage' = "written"
  /\ UNCHANGED <<vars, index, res>>

PipelineNext ==
  \/ Generate \/ StartChoose \/ ChooseSkip \/ ChoosePush \/ ChooseEnd \/ WriteFiles

PipelineSpec == PipelineInit /\ [][PipelineNext]_allVars /\ WF_allVars(PipelineNext)

-----------------------------------------------------------------------------
(* The driver's pipeline writes a harness for every distinct sequence      *)
(* my_method generated that takes fuzz input, and for no other: the        *)
(* max_len filter of _first_choose, its max_size break (max_size is       *)
(* max_num) and the printed-text dedup of FileHelper::new must together    *)
(* drop nothing my_method produced but the sequences without fuzzable     *)
(* parameters.                                                              *)
HarnessesExact ==
  stage = "written" =>
    harnesses = { Printed(sequences[i]) : i \in { j \in DOMAIN sequences :
                                                    ~HasNoFuzzables(sequences[j]) } }

(* The pipeline ends: my_method generates its max_num sequences of        *)
(* max_len calls, restarting whenever no successor is left, and the test   *)
(* files get written.                                                      *)
Written == <>(stage = "written")

=============================================================================
