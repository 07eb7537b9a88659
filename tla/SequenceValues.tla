--------------------------- MODULE SequenceValues ---------------------------
(***************************************************************************)
(* ApiSequence as a value, for the strategies that keep many sequences:    *)
(* a record with the fields SequenceAssembler keeps as variables, and the  *)
(* assembler instantiated for one such record.                             *)
(***************************************************************************)
EXTENDS ApiGraph

(* The assembler working on sequence s.  Its MaxLen and StopAtEnd are the  *)
(* bfs guards of AppendCall, which the strategies here do not use.         *)
SA(s) == INSTANCE SequenceAssembler
           WITH calls <- s.calls, fuzzableParams <- s.fuzzableParams,
                fuzzableMut <- s.fuzzableMut, functionMut <- s.functionMut,
                isUnsafe <- s.isUnsafe, traits <- s.traits,
                carefulPairs <- s.carefulPairs, coveredDeps <- s.coveredDeps,
                moved <- s.moved, MaxLen <- 0, StopAtEnd <- FALSE

(* is_fun_satisfied(f, s): the assembler's working state after appending *)
(* f to s; its ok field is FALSE where the code returns None.             *)
Satisfied(s, f) == SA(s)!IsFunSatisfied(f)

(* ApiSequence::new                                                        *)
EmptySequence ==
  [calls |-> <<>>, fuzzableParams |-> <<>>, fuzzableMut |-> {}, functionMut |-> {},
   isUnsafe |-> FALSE, traits |-> {}, carefulPairs |-> {}, coveredDeps |-> {},
   moved |-> {}]

(* The new_sequence is_fun_satisfied returns when it accepts f for s.       *)
Appended(s, f, w) ==
  [calls |-> Append(s.calls, [fn |-> f, params |-> w.params]),
   fuzzableParams |-> w.fuzzable, fuzzableMut |-> w.fuzzMut, functionMut |-> w.funMut,
   isUnsafe |-> w.unsafe, traits |-> w.traits, carefulPairs |-> w.careful,
   coveredDeps |-> w.covered, moved |-> w.moved]

(* ApiSequence::len, _last_api_func_index and _has_no_fuzzables           *)
SeqLen(s) == Len(s.calls)
LastFn(s) == s.calls[Len(s.calls)].fn
HasNoFuzzables(s) == s.fuzzableParams = <<>>

(* ApiSequence::_get_contained_api_functions                               *)
ContainedFns(s) == { s.calls[k].fn : k \in DOMAIN s.calls }

(* ApiGraph::is_sequence_ended for a sequence value.                       *)
IsEnded(s) == s.calls # <<>> /\ IsEndFunction(LastFn(s))

(* ApiSequence::_dead_code: call j's result is used by no later call,      *)
(* although the function returns one.                                      *)
DeadCall(s, j) ==
  /\ ~HasNoOutput(s.calls[j].fn)
  /\ \A k \in (j + 1)..Len(s.calls) : \A q \in DOMAIN s.calls[k].params :
        ~(s.calls[k].params[q].kind = "ret" /\ s.calls[k].params[q].src = j)

(* Sequence b with its call indices moved up by dc and its fuzzable slots *)
(* by df, as it reads once placed after dc calls and df slots.            *)
Shifted(b, dc, df) ==
  LET Sh(a) == [a EXCEPT !.src = @ + (IF a.kind = "ret" THEN dc ELSE df)]
  IN  [b EXCEPT
         !.calls = [k \in DOMAIN @ |->
                     [fn |-> @[k].fn, params |-> [q \in DOMAIN @[k].params |-> Sh(@[k].params[q])]]],
         !.fuzzableMut = { x + df : x \in @ },
         !.functionMut = { x + dc : x \in @ },
         !.carefulPairs = { <<x[1] + dc, x[2] + dc>> : x \in @ },
         !.moved = { x + dc : x \in @ }]

(* Sequence a followed by sb, sb already shifted past a.                  *)
Join(a, sb) ==
  [calls |-> a.calls \o sb.calls,
   fuzzableParams |-> a.fuzzableParams \o sb.fuzzableParams,
   fuzzableMut |-> a.fuzzableMut \cup sb.fuzzableMut,
   functionMut |-> a.functionMut \cup sb.functionMut,
   isUnsafe |-> a.isUnsafe \/ sb.isUnsafe, traits |-> a.traits \cup sb.traits,
   carefulPairs |-> a.carefulPairs \cup sb.carefulPairs,
   coveredDeps |-> a.coveredDeps \cup sb.coveredDeps,
   moved |-> a.moved \cup sb.moved]

(* Sequence b spliced after sequence a.                                    *)
Concat(a, b) == Join(a, Shifted(b, Len(a.calls), Len(a.fuzzableParams)))

(* ApiSequence::_merge_sequences: the sequences spliced in order.          *)
RECURSIVE MergeFrom(_, _)
MergeFrom(acc, ss) == IF ss = <<>> THEN acc ELSE MergeFrom(Concat(acc, Head(ss)), Tail(ss))

MergeSequences(ss) == MergeFrom(EmptySequence, ss)

=============================================================================
