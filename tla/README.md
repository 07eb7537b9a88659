# TLA+ models of the fuzz-target generator (`fuzz_targets_gen`)

This directory holds TLA+ models of the core of `src/src/librustdoc/fuzz_targets_gen`. That core builds an
API dependency graph of a Rust library and searches it for call sequences that become
fuzz harnesses. The code is a single-threaded, deterministic batch pipeline; its only
nondeterminism is `rand`. Nothing runs concurrently, nothing is persisted, and no messages are
exchanged. What is hard is the *combinatorics*: which sequences of legal steps the
assembler accepts, and whether its ad-hoc borrow simulation keeps those sequences inside Rust's
borrow rules.

## 1. The system (inventory)

| Part | Source | State | Operations | Model |
|---|---|---|---|---|
| Type compatibility resolver | `api_util.rs` 40-960, `call_type` (history snapshot) | none (pure) | `_same_type_hard_mode` and helpers, `_copy_type`, `_move_condition`, `_is_(im)mutable_borrow_occurs`, `_need_mut_tag`, `_is_generic_type`, `_is_end_type`, `_is_immutable_borrow_type` | `ApiTypes` |
| Prelude-type classifier | `prelude_type.rs` (not in the repository) | none | Option/Result flattening, To/Unwrap call types | `ApiTypes` (from spec.md) |
| Fuzzable-type classifier | `fuzz_type` (history snapshot), `api_util.rs` 826-837 | none | `fuzzable_call_type`, `is_fuzzable_type`, `generate_fuzzable_type_and_call_type` | `ApiTypes` (layout facts only) |
| API function classification | `api_function.rs` | none | start/end function, `contains_mut_borrow`, unsupported fuzzable types | `ApiGraph` |
| Dependency graph builder | `api_graph.rs` 130-421, 2737-2763 | `api_functions`, `api_dependencies` (built once) | `add_api_function`, `find_all_dependencies`, `check_dependency` | `ApiGraph` |
| Sequence assembler | `api_graph.rs` 2038-2375, `ApiSequence` | one `ApiSequence`: calls, fuzzable slots, `_moved`, `careful_pairs`, mut tags, unsafe flag, traits, covered dependencies | `is_fun_satisfied` | `SequenceAssembler` |
| Search strategies | `api_graph.rs` 558-871, 2561-2735 | `api_sequences`, `api_functions_visited` | `bfs` (fast/end-point), `_try_deep_bfs`, `random_walk`, `fudge`, `my_method`, `_reverse_construct`, `_try_to_cover_unvisited_nodes` | `BfsStrategy` (`bfs`), `ReverseCover` (`_try_to_cover_unvisited_nodes` and the driver's traversal modes), `SearchStrategies` (`random_walk`), `FriesGenerator` (`my_method`) |
| Coverage reducer | `api_graph.rs` 1454-2036 | chosen flags, covered nodes/edges | `_heuristic_choose`, `_first_choose`, `_random_choose`, `_naive_choose_sequence` | `CoverageReducer` (`_heuristic_choose`), `FriesPipeline` (`_first_choose`) |
| Harness selection in `FileHelper::new` | `file_util.rs` 196-247, `context.rs` 211-239 | chosen sequences, dedup map | `_first_choose`, dedup by printed text | `FriesPipeline` |
| Corpus statistics of one body | `extract_dep.rs` 126-360, 422-511, 550-722, `extract_info.rs` 174-312 | dependency bit rows, call sites, `pre_succ_map`/`order_map` keys | `direct_dependencies`, `propagate`, `extract_function_call`, `get_origins`, `extract_info` | `LocalDependencies` |
| Signature extraction, corpus sequences, file writing, visibility filter | `context.rs`, `extract_seq.rs`, `file_util.rs`, `api_graph.rs` 213-256 | rustc data, files | I/O plumbing | not modelled |

How they interact: the extractor hands the graph a list of functions. `add_api_function` drops
those with unsupported fuzzable parameters. `find_all_dependencies` calls the resolver for every
(producer, consumer, parameter) triple. Every search strategy then repeatedly asks
`is_fun_satisfied` whether a function can be appended to a sequence, and the reducer picks a
subset of the sequences by the functions and dependency edges they cover.

Hard behaviours in this code:
- **The borrow simulation in `is_fun_satisfied`.** It uses four loosely coupled sets (`_moved`,
  `_multi_mut`, `_immutable_borrow`, `careful_pairs`). Two of them are local to one call, and
  parameters are scanned in order.
- **The order of side effects within one call.** A dependency is recorded before the conflict
  check that may reject it.
- **Resolver details that decide which edges exist.** Prelude unwrapping happens at the
  producer, and the generic skip removes every path with a type argument.
- **Termination and bounds of the search and selection loops.** `random_walk` has no attempt
  budget, and `_heuristic_choose` loops `0..max_size + 1`.

The correctness property that matters: **every sequence the assembler accepts is a Rust program
the borrow checker accepts.** The emitted harness must compile.

## 2. Modules

- **`ApiTypes`** covers types and call types. A `clean::Type` is a record `[k, name, mut, args]`,
  and a `CallType` is the sequence of its constructors, outermost first (`<<"BorrowedRef",
  "DirectCall">>` is `&(x)`). `SameType` and its helpers translate
  `_same_type_hard_mode` and its mutually recursive helpers case by case, in the code's priority
  order: reference or pointer input first, then a prelude input, then the output's kind.
  `FuzzableCallType` keeps four facts of the fuzzable type: fuzzable, number of dynamic parts,
  nested dynamic length, and mut tag.
- **`ApiGraph`** covers the graph. The constant `Fns` is the extractor's output. `ApiFunctions`
  is `add_api_function`'s filter, and `Dependencies` is `find_all_dependencies` with
  `support_generic = false`, the setting of every driver mode except `my_method`'s generic
  option. `CheckDependency` returns the edge as a set with zero or one element.
- **`SequenceAssembler`** covers the assembler. Its state is the fields of one `ApiSequence`.
  - `AppendCall(f)` is one successful `is_fun_satisfied(f, seq)` applied by a strategy. It is
    guarded by the length bound and by `stop_at_end`.
  - `IsFunSatisfied` folds `ResolveParams` over the parameters. Each parameter is either a new
    fuzzable slot (`AddFuzzableParam`) or the ordered scan of earlier calls (`ScanPriorCalls`).
  - `ScanPriorCalls` works in the code's order:
    1. skip moved calls (`Usable`, in `EdgeAt`);
    2. look up the edge, and record it as covered (`RecordEdge`);
    3. apply the move, mutable-borrow or shared-borrow conflict check (`Blocked`, in
       `TakeOrSkip`), going on to the next call if it fails;
    4. otherwise take the producer (`UseProducer`). This covers careful-pair invalidation, the
       careful-pair record, the mut tag, the unsafe flag and the parameter.
  - Intermediate results are passed to the next operator as parameters instead of being bound
    by `LET`. This keeps TLC's coverage pass linear in the size of the definitions.
  - `Commit` is the strategy pushing the returned `new_sequence`.
  - Indices are 1-based in the model and 0-based in the code.
- **`SequenceLegality`** is the abstract specification: what the assembler promises. A sequence is
  a straight-line program. Each argument uses an earlier variable in one mode: move, mut, shared
  or copy. A call that returns a reference holds loans on what it borrowed, transitively through
  the values it was given. `Legal` states four rules:
  - no use after a move, and no non-Copy value moved out from behind a pointer (mode `out`);
  - no two conflicting uses in one call;
  - no move or mutable borrow while a live loan exists;
  - no use at all while a live mutable loan exists.

  Here "live" means the loan-holding variable is read at that call or later, following
  non-lexical lifetimes. The abstract system only grows a legal sequence by one call.
  `SequenceAssembler` instantiates it with the refinement mapping `AbsCall`. That mapping reads
  each argument's mode off the call type as `_to_call_string` prints it: the innermost
  constructor is the one applied to the variable (`ArgMode`). An `UnsafeDeref` outermost prints
  `*(x)`, a by-value use of the pointee; `_same_type_raw_pointer` builds it without the
  `_copy_type` test `_same_type_borrowed_ref` makes, so for a non-Copy pointee the mode is `out`. The property `LegalSequences` is
  `Legality!Spec`.
- **`SequenceValues`** turns an `ApiSequence` into a record value. `SA(s)` instantiates
  `SequenceAssembler` for the sequence `s`, so that a strategy holding many sequences can ask
  `SA(s)!IsFunSatisfied(f)` (`Satisfied(s, f)`). `Appended` is the `new_sequence` that call
  returns. `ApiSequence`'s own methods are here too: `len`, `_last_api_func_index`,
  `_has_no_fuzzables`, `is_sequence_ended` for a value, `_dead_code` (`DeadCall`) and
  `_merge_sequences` (`MergeSequences`). `api_sequence.rs` is not in the repository, so
  `_dead_code` and `_merge_sequences` are modelled from spec.md: the merge splices the
  sequences in order, shifting every call index, fuzzable slot and careful pair of each one past
  those before it (`Shifted`, `Join`).
- **`BfsStrategy`** covers `bfs` (`api_graph.rs` 558-607). Its state is `api_sequences` (a
  sequence of sequence values, in push order), the visited flags, the two mode flags, the loop
  counters `len` (`level`), the frontier `tmp_sequences` (`tmp`) and the scan position
  (`si`, `fi`).
  - `StartLevel` builds the frontier (`Frontier`: the sequences of length `len`, not ended when
    `stop_at_end_function`); `NextLevel` and `EndBfs` close the two loops.
  - One step is one (frontier sequence, function) pair: `SkipVisited` is fast mode's `continue`,
    `Accept` and `Reject` the two answers of `is_fun_satisfied`. So the visited flags fast mode
    reads are those of the code at that point of the scan.
  - `check_all_visited`'s early return is commented out in the code, and so absent here.
  - `_try_deep_bfs` (617-686) runs the same loops (`deep`): from cleared sequences, with
    `stop_at_end_function`, up to as many calls as functions. `Seen` is its bookkeeping of the
    functions and edges the pushed sequences contain. `Stale` is the break after a level that
    added none, and `OverBudget` the break past length 2 once `|api_sequences| *
    _visited_nodes_num()` reaches `max_sequence_number` (the variable `budget`).
- **`ReverseCover`** covers `_try_to_cover_unvisited_nodes` and
  `_choose_candidate_sequence_for_merge` (`api_graph.rs` 1454-1577), composed with `bfs` as
  `generate_all_possoble_sequences` (438-511) and `_default_generate_sequences` (423-432)
  compose them. The constant `Modes` holds the traversal modes that reach this code: `_Bfs`,
  `_FastBfs`, `_BfsEndPoint`, `_FastBfsEndPoint`, `_Default` (bfs end point, then the backward
  search), `_TryDeepBfs` and `_DirectBackwardSearch` (clear, `reset_visited`, then the backward search).
  - `StartReverse` collects `unvisited_nodes` and fixes the round count to its size.
  - `StartRound` recomputes the candidates and, per unvisited function, the `plan`: whether
    every non-fuzzable parameter has a candidate whose last call feeds it (`Dependent`: the first
    feeding one with fuzzables, else the last feeding one), and the merge of those candidates.
    The candidates are indices of sequences pushed before the round, and `api_sequences` only
    grows, so the merge a function gets at its turn is the one computed when the round starts.
  - `Visit(node)` is one iteration of `for unvisited_node in &unvisited_nodes`: `Covered` pushes
    the merge extended by the function, `NotCovered` leaves it for a later round. The
    iteration order of the `FxHashSet` is any order (`\E node \in todo`).
  - `NoProgress`, `RoundsUsedUp` and `Progress` end a round. `Observe` recomputes `cands` and
    `plan` from the final sequences when the function returns; it is bookkeeping for the
    properties, and the code does nothing there.
- **`SearchStrategies`** covers `random_walk` (`api_graph.rs` 688-748).
  - Its state is `api_sequences` (a set: the walk only picks from it), the visited functions,
    `seq_num`, and whether the loop has broken.
  - `WalkStep(s, f)` is one loop iteration that extends `s` by `f`. An iteration that draws an
    ended sequence, or a function `is_fun_satisfied` rejects, changes nothing and is a
    stuttering step.
- **`FriesGenerator`** covers `my_method` (`api_graph.rs` 873-1453), the generator the driver runs
  by default (`_UseRealWorld`, `max_num = 100`, `max_len = 15` in `context.rs`).
  - `pc` follows the two loops.
  - `StartSequence` advances the round-robin start index and appends that start function; with
    no start function it indexes an empty list (`pc = "panic"`).
  - In the inner loop, `Restart` appends a random start function (`rand == 0 || need_new`),
    `NoSuccessor` sets `need_new`, and `Successor` appends a successor of an available producer.
  - The corpus weights only bias draws (they are normalised into [0.05, 0.95]), so each draw is
    a nondeterministic choice.
- **`FriesPipeline`** extends `FriesGenerator` with what the driver does with `my_method`'s
  sequences: `FileHelper::new` (`file_util.rs`) calls `_first_choose(max_num, max_len)`
  (`api_graph.rs` 1720-1791) and keeps one sequence per printed text.
  - `stage` runs through `"generate"` (`Generate`, a `my_method` step), `"choose"`,
    `"dedup"` and `"written"`.
  - `ChooseSkip` passes over a sequence without fuzzable parameters or shorter than `max_len`.
    `ChoosePush` pushes it and breaks once `res` holds `max_size`. `ChooseEnd` is the end of
    the index loop.
  - `WriteFiles` is the `sequence_map` dedup and the loop bounded by `MAX_TEST_FILE_NUMBER`.
    The printed text (`Printed`) is abstracted to the calls and the fuzzable parameters,
    because `print_sequence` is in the absent `api_sequence.rs`.
  - `_first_choose`'s covered node and edge sets only feed its statistics printing and are
    left out.
  - `can_write_to_file` is false for `_Bfs`, so `FileHelper`'s `_heuristic_choose` branch is
    never reached from the driver, and `_first_choose` is the selection in use.
- **`CoverageReducer`** covers `_heuristic_choose` (`api_graph.rs` 1792-2036).
  - A sequence is what the reducer reads of it: its functions, its edges, its length, and the
    answers of `_has_no_fuzzables`, `_contains_dead_code_except_last_one` and
    `_is_fuzzables_fixed_length`.
  - `ScanBest` is the inner `for j` scan as a RECURSIVE operator, with its running comparison.
  - `SwitchPhase`, `NoGain`, `Pick` and `Exhausted` are the round outcomes; `Stops` holds the
    three `break`s.
  - `RefBest` is the reference definition: the lexicographic maximum of (new functions, new edges,
    −length, −index) among the phase's candidates.
- **`LocalDependencies`** covers the corpus-statistics analysis of one function body of a
  crate that uses the tested library (`extract_dep.rs`, `extract_info.rs`). The statistics
  become the weights `my_method` draws with.
  - `deps` is the `IndexVec<Local, BitVec>`: per local, the set of columns set in its row
    (locals, then constant `k` at `NumLocals + k`). `Init` gives every row its own bit.
  - The body is built in the order `extract_all_dependencies` walks it: `VisitCall` is one
    `Call` terminator (`extract_function_call`; a constant callee that is not `Fn`/`AssocFn`
    is dropped by its `return`), `EndCalls` ends that walk, `VisitAssign` is one
    `visit_assign` with up to two operand columns, `StartPropagate` ends that walk and keeps
    the direct rows in the history variable `directDeps`.
  - `PropagateStep` is one iteration of `propagate`'s `loop` for row `index`; `Pass` is the
    inner `for` over the other rows, in order, with `deps1` growing as it goes. The row
    advances once an iteration leaves it unchanged.
  - `Record` is `get_origins` (`ReturnSources`: bit 0 gives the caller, a temporary the callee
    of its first writing call, `FirstWriter`) and `extract_info`'s two loops over the
    tested-crate calls (`TestCalls`): the keys of `pre_succ_map` (`pairs`) and of
    `order_map` (`orders`). Counts are left out: my_method's draws from them are free choices
    in `FriesGenerator`.
- **`MC_Widget`** and **`MC_Counterexamples`** define small libraries as `Fns`. `MC_Widget`'s
  `RawPtrFns` has `consume_v(V)`, whose only producer is `opt_ptr`'s `*const V`, so every call of
  it moves out of a raw pointer; `WidgetFns`, the passing run's library, leaves it out. `MC_Walk` and
  `MC_Fries` (over `FriesPipeline`) do the same for the strategies, and `MC_Search` for `bfs` and the backward search. `MC_Reducer` enumerates every list of three
  sequence summaries over two functions and one edge (64,000 lists), with `stop_at_visit_all_nodes` both true (as `file_util.rs` passes it) and false. `MC_LocalDeps` gives `LocalDependencies` one tested-crate callee `Step`.

## 3. Runs

| Run | Checks | Result | What it shows |
|---|---|---|---|
| `widget_assembly` (`MC_Widget.cfg`) | `TypeOK`, `SharedRefInvalidated`, `LegalSequences` | pass, 2753 states | On `WidgetFns` (a constructor, a fallible byte constructor, a shared getter, a setter, a reader, an unsafe pointer getter read through `&*p`, and a two-argument `merge(&mut W, &W)`), every accepted sequence of up to 5 calls is a legal Rust program. Careful pairs invalidate the getter's reference when its source is mutated. |
| `double_move` | `LegalSequences` | violation | spec.md Scenario A: `[make, consume, consume]` is accepted. `_move_condition`'s non-Copy clause is commented out (`api_util.rs:806`), so no owned value is ever marked moved. |
| `mut_ref_alias` | `LegalSequences` | violation | A `&mut V` returned from `&mut W` stays usable while `W` is mutably borrowed again. Careful pairs are only recorded for shared-reference returns. |
| `param_order` | `LegalSequences` | violation | `poke(&V, &mut W)` is accepted when `&V` was taken from `W`. The mutable borrow's conflict check only sees the borrowed index itself; with the parameters swapped, the call is rejected. |
| `phantom_edge` | `CoveredEdgesExercised` | violation | `[new, from_bytes, merge]` records the edge `(new, merge, 2)` as covered although that parameter takes `from_bytes`' value. `_add_dependency` runs before the conflict check, which inflates the edge coverage the reducer maximises. |
| `raw_ptr_move` (`MC_RawPtrMove.cfg`) | `LegalSequences` | violation | On `RawPtrFns`, `[new, opt_ptr, consume_v]` is accepted: the argument is `*(p)` for `p: *const V`, a move out of a raw pointer (E0507). `_same_type_raw_pointer` (`api_util.rs:617`) has no `_copy_type` test. |
| `walk_terminates` (`MC_Walk.cfg`) | `TypeOK`, `Terminates` | pass | With a start function (`from_bytes(&[u8])`), `random_walk` eventually gets more than `max_size` sequences to `max_len` calls and breaks. |
| `fries` (`MC_Fries.cfg`) | `TypeOK`, `HarnessesExact`, `Written` | pass | This is the driver's default pipeline. `my_method` returns with `max_num` sequences of `max_len` calls, whatever successors and restarts are drawn. The harnesses written are then exactly the distinct generated sequences that take fuzz input (26,529 states, about 70 s). |
| `heuristic_choose` (`MC_Reducer.cfg`) | `TypeOK`, `CoverageOnReturn`, `GreedyChoice` | pass, 311,447 states | Every sequence taken is `RefBest`, so the running comparison is the lexicographic optimum in every input order. When it returns with rounds to spare, every function, or every edge, is covered, despite the phase switch that spends a round. |
| `heuristic_max_size` (`MC_ReducerMaxSize.cfg`) | `AtMostMaxSize` | violation | With `max_size = 1`, two dynamic-length sequences each adding a function are both taken: the loop runs `0..max_size + 1` (`api_graph.rs:1851`). |
| `local_deps` (`MC_LocalDeps.cfg`) | `TypeOK`, `PropagateClosed` | pass, 1,277,332 states (about 80 s) | For every body of three locals and one constant built from up to two calls and three assignments, `propagate` leaves each row the transitive closure of the direct dependencies (computed with `Relation`'s `ReflexiveTransitiveClosure`), although it closes rows in index order while later rows are still open. |
| `search` (`MC_Search.cfg`) | `BfsClosed`, `ReverseFixpoint`, `ReverseAccepted` | pass, 671 states | Under all seven traversal modes, `bfs` and `_try_deep_bfs` return with `api_sequences` closed under the extensions `is_fun_satisfied` accepts, up to `max_len` for `bfs` and up to the level where `_try_deep_bfs` broke (every such function visited, and the extension itself kept unless in fast mode). The backward search stops only when no uncovered function can be covered from the sequences there are, in spite of its round bound and of the visited flags `bfs` leaves. And its "Should not go to here" branch is never taken: the merge always gives each parameter its own producer. |

Each property of the passing run has a mutant, a plausible bug in a mapped definition, under
which TLC finds that property violated:

| Property | Mutant |
|---|---|
| `TypeOK` | a 0-based fuzzable slot index |
| `SharedRefInvalidated` | careful pairs not consulted |
| `LegalSequences` | moved calls not skipped |
| `TypeOK` (walk) | the walk goes on after its break |
| `Terminates` (walk) | `is_fun_satisfied` rejects any dynamic-length fuzzable, so no long sequence is ever built |
| `TypeOK` (fries) | the `None` of `is_fun_satisfied` is not checked |
| `Written` (fries) | the outer loop breaks only past `max_num` |
| `HarnessesExact` (fries) | `_first_choose` also passes over sequences of exactly `max_len` |
| `TypeOK` (reducer) | the scan does not skip sequences without fuzzables |
| `CoverageOnReturn` | the all-chosen break is off by one |
| `GreedyChoice` | the scan forgets the edge criterion |
| `TypeOK` (local deps) | `extract_info` does not check that the source is of the tested crate |
| `PropagateClosed` | one iteration per row, without the loop to a stable point |
| `BfsClosed` | `bfs`'s level loop stops one length short |
| `ReverseFixpoint` | `bfs` marks a function visited even when `is_fun_satisfied` rejects it, so the backward search never tries it |
| `ReverseAccepted` | the producer scan gives up at a producer this call's own borrows block, instead of going on to the next call |

**Bounds.** `MaxLen = 5` is `bfs_max_len` in `generate_all_possoble_sequences` (`api_graph.rs:448`),
so the passing run covers every sequence plain `bfs` can produce on its library.
- `StopAtEnd = FALSE` is the `_Bfs`/`_FastBfs` setting. With `TRUE` (`_BfsEndPoint`), sequences
  ending in an end function are only pruned, so every sequence it reaches is also reached with
  `FALSE`.
- The libraries are small but each exercises a distinct branch: every edge kind the resolver can
  produce with generics off (`DirectCall`, `BorrowedRef`, `MutBorrowedRef`, `UnsafeDeref`), both
  fuzzable kinds (primitive, dynamic slice), an unsafe function, a trait method, careful pairs,
  and their invalidation.

Strategy and reducer bounds:
- `MC_Walk` uses three functions, `MaxLen = 3` and `MaxSize = 1`. That is enough for a sequence
  to reach `max_len` twice, so the break happens; larger libraries grow the set of sequences
  beyond TLC's reach.
- `MC_Fries` uses `MaxNum = 3` over three start functions, so the round-robin index wraps
  (`NextPollingLate` indexes past them). One of them, `version()`, takes no parameters, so
  some generated sequences take no fuzz input and `_first_choose` skips them. `MaxSize` is
  `MaxNum`, as the driver passes it. With that value a break before the push would drop
  nothing, and the run shows this. `MAX_TEST_FILE_NUMBER` stays at 300, far above what three
  sequences reach.
- `MC_Search` uses `MaxLen = 3` (the driver's is 5) on six functions: a chain
  `new -> step -> join -> finish` longer than `bfs` reaches, so the backward search has to cover
  `join` and `finish` in two rounds; `join` takes `&mut W` and `&W`, so its merge needs two
  copies of `new`; `version()` takes no parameters; and `mix(&W, &V)` is first reached by a
  sequence of three calls, so `_try_deep_bfs` gets past length 2. Between them the modes reach
  each way the backward search returns (no progress, rounds used up). `_try_deep_bfs` runs
  with `max_sequence_number` 12, which the sequences reach at length 3, and with the driver's
  100000, where it stops at a level without new coverage.
- `MC_LocalDeps` has three locals (`_0`, one argument `_1`, one temporary `_2`) and one
  constant. That is enough for a row that needs two iterations (`_0 = _2`, `_2 = _1`,
  `_1 = const` closes `_0` only on the second pass), for a row read before it is closed, for a
  self dependency on `_0` (the caller as a source), and for two calls writing the same
  temporary, where `FirstWriter` decides. Up to two calls (of `Step` or through a function
  pointer) and three assignments of two operands each.
- `MC_Reducer` lists give ties in new functions, new edges and length, both phases, invalid
  sequences, and all three breaks.

**Deadlock.** Every cfg says `CHECK_DEADLOCK FALSE`. For the assembler, a sequence at `MaxLen`,
or one no function extends, is where `bfs` stops extending it: the normal end of a lineage. For
the strategies and reducers, the final state is the function's return.

**Fairness.** `SearchStrategies` and `FriesPipeline` (which runs `FriesGenerator`'s `Next`) assume weak fairness of their next-state relations.
- Every choice in those loops is a draw with positive probability: `gen_range` is uniform, and
  `my_method`'s weights are at least 0.05.
- So a step that stays enabled is taken with probability 1, and a rejected draw is a stuttering
  step.
- `Terminates` and `Written` are checked under this assumption. The selection and writing steps are
  plain loops, so fairness only asks that they continue. Nothing stronger is assumed: a draw that is
  only sometimes possible gets no guarantee.
- The reducers, `bfs` and the backward search are deterministic loops, checked for safety only.

## 4. What is not modelled, and why

- **Byte-layout arithmetic** of `FuzzType` (`min_size`, offsets) and the harness text.
  These are formatting and decoding templates outside the assembler's decisions.
- **Generic substitution** (`support_generic = true`). All generics become `i32`. Planned.
- **`filter_functions`, the visibility filter and signature extraction** (`context.rs`,
  `extract_seq.rs`). They translate rustc and rustdoc data into the input function list, which
  the model takes as the constant `Fns`. Of the corpus statistics, only the counts and the
  interprocedural part (`FunctionInfo` of current-crate callees, which stores nothing) are left
  out of `LocalDependencies`.
- **`random_walk` on a library where no sequence reaches `max_len`.** It has no attempt budget
  (spec.md §4.5 promises one) and never returns; `walk_terminates` checks the loop with a start
  function. A run keeping the non-terminating trace was dropped to stay within the project's
  run limit.
- **Completeness of the statistics.** `get_origins` keeps only the first call writing a
  local, and a call result stored in an argument local is classified as `Argument`: real flows
  are missed. No property reads the recorded pairs and orders: that every recorded pair is a real
  flow follows from `PropagateClosed` and the definitions, and that every flow is recorded is
  false by the code's design and would need a violation run.
- **`fudge`** is `random_walk` with a hard-coded corpus file, `max_len = 4`, a budget of 10^7 and a
  limit of 50. **`_random_choose`** and **`_naive_choose_sequence`** have no caller (`file_util.rs:205` is
  commented out). `_first_choose`
  returns one sequence for `max_size = 0` (`api_graph.rs:1748`). The driver passes
  `max_size = max_num = 100`, so `fries` runs it only with `MaxSize = MaxNum`.
- **A by-value parameter beside a borrow of the same value in one call** (`f(W, &W)`):
  `is_fun_satisfied` never records a by-value parameter in `_multi_mut` or
  `_immutable_borrow` (FIXME at `api_graph.rs:2145`). No library here has such a function; it
  would give a `LegalSequences` violation of the kind `double_move` shows.
- **The file writing** (`write_files`, the harness text, the sort of the printed texts): I/O and
  formatting. Which 300 files the sort keeps past `MAX_TEST_FILE_NUMBER` is not modelled.
- **`_reverse_construct`** (2561-2735). Nothing in the code calls it. Planned.
- **The statistics `_try_to_cover_unvisited_nodes` prints** after its rounds (`api_graph.rs`
  1578-1607): printing only.
- **`my_method` without a start function.** `fries` runs a library with start functions, where
  the polling index cannot leave them. On one without, `my_method` indexes an empty
  `_start_functions` at `api_graph.rs:1126` and panics; no run keeps that trace.

## 5. Open work

1. **`_reverse_construct`** index-ordered recursion. Nothing calls it, but spec.md §4.5
   describes the backward construction by it.
2. **Resolver properties** over a bounded type universe: spec.md §8 identity, failure symmetry
   and numeric closure. Also `new_segments_without_lifetime` equating `Vec<A>` with `Vec<B>`
   (`api_util.rs:948`) under `support_generic = true`.
3. **Generic substitution**, as a second `Dependencies` configuration.
