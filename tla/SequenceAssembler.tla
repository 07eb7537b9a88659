-------------------------- MODULE SequenceAssembler --------------------------
(***************************************************************************)
(* The sequence assembler, ApiGraph::is_fun_satisfied (api_graph.rs), with *)
(* the ApiSequence bookkeeping it updates (api_sequence.rs).  The state is *)
(* one ApiSequence as a search strategy grows it: each step appends one    *)
(* function that is_fun_satisfied accepts.  Call indices are 1-based here  *)
(* where the code's are 0-based.                                           *)
(***************************************************************************)
EXTENDS ApiGraph, FiniteSets

CONSTANTS MaxLen,     \* the strategy's length bound (bfs max_len)
          StopAtEnd   \* bfs stop_at_end: an ended sequence is not extended

VARIABLES
  calls,          \* functions: Seq of [fn, params : Seq of [kind, src, ct]]
  fuzzableParams, \* fuzzable_params: Seq of FuzzableType records
  fuzzableMut,    \* _fuzzable_mut_tag: fuzzable slots declared `mut`
  functionMut,    \* _function_mut_tag: call indices declared `mut`
  isUnsafe,       \* _unsafe_tag
  traits,         \* _using_traits
  carefulPairs,   \* careful_pairs as a set of <<borrowed, borrower>> pairs
  coveredDeps,    \* _covered_dependencies: the edges the sequence records
  moved           \* _moved: call indices whose value is consumed

vars == <<calls, fuzzableParams, fuzzableMut, functionMut, isUnsafe, traits,
          carefulPairs, coveredDeps, moved>>

Init ==
  /\ calls = <<>>
  /\ fuzzableParams = <<>>
  /\ fuzzableMut = {}
  /\ functionMut = {}
  /\ isUnsafe = FALSE
  /\ traits = {}
  /\ carefulPairs = {}
  /\ coveredDeps = {}
  /\ moved = {}

(* ApiSequence::is_sequence_ended: the last call is an end function.       *)
IsSequenceEnded == calls # <<>> /\ IsEndFunction(calls[Len(calls)].fn)

(***************************************************************************)
(* The working state of one is_fun_satisfied call: new_sequence's fields,  *)
(* the call's params, and the per-call sets _moved_indexes, _multi_mut and *)
(* _immutable_borrow.  ok turns FALSE where the code returns None.         *)
(***************************************************************************)
StartWork(f) ==
  [ok |-> TRUE, params |-> <<>>,
   fuzzable |-> fuzzableParams, fuzzMut |-> fuzzableMut, funMut |-> functionMut,
   unsafe |-> isUnsafe \/ Fn(f).unsafe,
   traits |-> traits \cup (IF Fn(f).trait = "" THEN {} ELSE {Fn(f).trait}),
   careful |-> carefulPairs, covered |-> coveredDeps, moved |-> moved,
   multiMut |-> {}, immBorrow |-> {}]

(* Mutant: the slot index taken 0-based, as current_fuzzable_index is.     *)
AddFuzzableParamZeroBased(w, ty) ==
  LET fz   == GeneratedFuzzableType(ty)
      slot == Len(w.fuzzable)
  IN  IF ~fz.fuzzable THEN [w EXCEPT !.ok = FALSE]
      ELSE [w EXCEPT !.fuzzMut  = IF fz.mutTag THEN @ \cup {slot} ELSE @,
                     !.fuzzable = Append(@, fz),
                     !.params   = Append(@, [kind |-> "fuzz", src |-> slot, ct |-> <<>>])]

(* A fuzzable parameter: a new fuzzable slot, `mut` if its call type       *)
(* borrows mutably; NoFuzzable makes the function unsatisfiable.           *)
AddFuzzableParam(w, ty) ==
  LET fz   == GeneratedFuzzableType(ty)
      slot == Len(w.fuzzable) + 1
  IN  IF ~fz.fuzzable THEN [w EXCEPT !.ok = FALSE]
      ELSE [w EXCEPT !.fuzzMut  = IF fz.mutTag THEN @ \cup {slot} ELSE @,
                     !.fuzzable = Append(@, fz),
                     !.params   = Append(@, [kind |-> "fuzz", src |-> slot, ct |-> <<>>])]

(* Mutant: the scan does not skip moved calls.                             *)
UsableIgnoringMoved(w, idx) == TRUE

(* The scan skips the calls already moved, in this call included.          *)
Usable(w, idx) == idx \notin w.moved

(* Mutant: a shared borrow ignores an earlier mutable borrow in the call.  *)
ImmBorrowAllowedAlways(w, idx) == TRUE

(* A move or a mutable borrow conflicts with any earlier borrow of the     *)
(* same value by this call; a shared borrow only with a mutable one.       *)
MoveAllowed(w, idx)      == idx \notin w.multiMut \cup w.immBorrow
MutBorrowAllowed(w, idx) == idx \notin w.multiMut \cup w.immBorrow
ImmBorrowAllowed(w, idx) == idx \notin w.multiMut

(* Mutant: careful_pairs is not consulted.                                 *)
InvalidateWithoutCarefulPairs(w, idx, isMove) == w.moved \cup (IF isMove THEN {idx} ELSE {})

(* Moving or mutably borrowing idx also moves the calls careful_pairs      *)
(* lists for it, together with idx itself for a move.                      *)
Invalidate(w, idx, isMove) ==
  w.moved \cup { p[2] : p \in { q \in w.careful : q[1] = idx } }
          \cup (IF isMove THEN {idx} ELSE {})

(* A careful pair is recorded when the new function returns a shared       *)
(* reference and the borrowed producer's output is not one.                *)
CarefulPairCondition(f, idx) ==
  /\ ~HasNoOutput(f)
  /\ IsImmutableBorrowType(Fn(f).output)
  /\ ~IsImmutableBorrowType(Fn(calls[idx].fn).output)

(* The use of the value of call idx through edge e, after the conflict     *)
(* check passed: the borrow bookkeeping, then the common tail.             *)
UseProducer(w, f, ty, idx, e) ==
  LET mv == MoveCondition(ty, e.ct)
      mb == ~mv /\ IsMutableBorrowOccurs(ty, e.ct)
      ib == ~mv /\ ~mb /\ IsImmutableBorrowOccurs(ty, e.ct)
  IN  [w EXCEPT
         !.moved     = IF mv \/ mb THEN Invalidate(w, idx, mv) ELSE @,
         !.multiMut  = IF mb THEN @ \cup {idx} ELSE @,
         !.immBorrow = IF ib THEN @ \cup {idx} ELSE @,
         !.careful   = IF ib /\ CarefulPairCondition(f, idx)
                         THEN @ \cup {<<idx, Len(calls) + 1>>} ELSE @,
         !.funMut    = IF NeedMutTag(e.ct) THEN @ \cup {idx} ELSE @,
         !.unsafe    = @ \/ UnsafeCallType(e.ct),
         !.params    = Append(@, [kind |-> "ret", src |-> idx, ct |-> e.ct])]

Blocked(w, ty, idx, e) ==
  LET mv == MoveCondition(ty, e.ct)
      mb == ~mv /\ IsMutableBorrowOccurs(ty, e.ct)
      ib == ~mv /\ ~mb /\ IsImmutableBorrowOccurs(ty, e.ct)
  IN  \/ mv /\ ~MoveAllowed(w, idx)
      \/ mb /\ ~MutBorrowAllowed(w, idx)
      \/ ib /\ ~ImmBorrowAllowed(w, idx)

(* The edge from the call at idx to parameter k of f, as the scan sees it: *)
(* none when that call is already moved.                                   *)
EdgeAt(w, f, k, idx) ==
  IF Usable(w, idx) THEN CheckDependency(calls[idx].fn, f, k) ELSE {}

(* The scan of the prior calls, in order, for a producer of parameter k of *)
(* f.  The edge is added to the covered dependencies as soon as it is      *)
(* found (RecordEdge), before the conflict check that may reject it; a     *)
(* rejected producer lets the scan go on with the next call.               *)
RECURSIVE ScanPriorCalls(_, _, _, _, _), RecordEdge(_, _, _, _, _, _),
          TakeOrSkip(_, _, _, _, _, _)
ScanPriorCalls(w, f, k, ty, idx) ==
  IF idx > Len(calls) THEN [w EXCEPT !.ok = FALSE]
  ELSE RecordEdge(w, f, k, ty, idx, EdgeAt(w, f, k, idx))

RecordEdge(w, f, k, ty, idx, es) ==
  TakeOrSkip([w EXCEPT !.covered = @ \cup es], f, k, ty, idx, es)

(* Mutant: a producer the call's own borrows block ends the scan.          *)
TakeOrReject(w, f, k, ty, idx, es) ==
  IF es = {} THEN ScanPriorCalls(w, f, k, ty, idx + 1)
  ELSE IF ~Blocked(w, ty, idx, CHOOSE e \in es : TRUE)
       THEN UseProducer(w, f, ty, idx, CHOOSE e \in es : TRUE)
       ELSE [w EXCEPT !.ok = FALSE]

TakeOrSkip(w, f, k, ty, idx, es) ==
  IF es # {} /\ ~Blocked(w, ty, idx, CHOOSE e \in es : TRUE)
  THEN UseProducer(w, f, ty, idx, CHOOSE e \in es : TRUE)
  ELSE ScanPriorCalls(w, f, k, ty, idx + 1)

(* One parameter of f: a new fuzzable slot, or a producer from the scan.   *)
ResolveParam(w, f, k, ty) ==
  IF IsFuzzableType(ty) THEN AddFuzzableParam(w, ty) ELSE ScanPriorCalls(w, f, k, ty, 1)

(* The parameters in order; the first that cannot be resolved ends it.     *)
RECURSIVE ResolveParams(_, _, _)
ResolveParams(w, f, k) ==
  IF ~w.ok \/ k > Len(Fn(f).inputs) THEN w
  ELSE ResolveParams(ResolveParam(w, f, k, Fn(f).inputs[k]), f, k + 1)

(* ApiSequence::_contains_multi_dynamic_length_fuzzable                    *)
ContainsMultiDynamicLengthFuzzable(fzs) == \E i \in DOMAIN fzs : fzs[i].multi

(* is_fun_satisfied: the outcome of appending f; a function without        *)
(* parameters is accepted before the multi-dynamic-length check.           *)
(* Mutant: any dynamic-length fuzzable slot rejects the sequence.        *)
CheckAnyDynamic(w, f) ==
  [w EXCEPT !.ok = @ /\ (Fn(f).inputs = <<>> \/ ~\E i \in DOMAIN w.fuzzable : w.fuzzable[i].dyn > 0)]

CheckMultiDynamic(w, f) ==
  [w EXCEPT !.ok = @ /\ (Fn(f).inputs = <<>> \/ ~ContainsMultiDynamicLengthFuzzable(w.fuzzable))]

IsFunSatisfied(f) == CheckMultiDynamic(ResolveParams(StartWork(f), f, 1), f)

(* The strategy takes the new_sequence is_fun_satisfied returned.         *)
Commit(f, w) ==
  /\ w.ok
  /\ calls' = Append(calls, [fn |-> f, params |-> w.params])
  /\ fuzzableParams' = w.fuzzable
  /\ fuzzableMut' = w.fuzzMut
  /\ functionMut' = w.funMut
  /\ isUnsafe' = w.unsafe
  /\ traits' = w.traits
  /\ carefulPairs' = w.careful
  /\ coveredDeps' = w.covered
  /\ moved' = w.moved

(* One successful step of a strategy: append f to the sequence.            *)
AppendCall(f) ==
  /\ Len(calls) < MaxLen
  /\ ~(StopAtEnd /\ IsSequenceEnded)
  /\ Commit(f, IsFunSatisfied(f))

Next == \E f \in FnIds : AppendCall(f)

Spec == Init /\ [][Next]_vars

-----------------------------------------------------------------------------
(***************************************************************************)
(* The program a sequence stands for.  The emitter binds call k's result,  *)
(* unwrapped when its output is an Option or Result, to a variable, and    *)
(* passes argument x as CallType::_to_call_string writes it: the           *)
(* innermost constructor of the call type is the one applied to x.  An     *)
(* UnsafeDeref outermost passes *x by value: _same_type_raw_pointer emits  *)
(* it without the _copy_type test _same_type_borrowed_ref makes, so a      *)
(* non-Copy pointee is moved out of the pointer.                           *)
(***************************************************************************)
ArgMode(xTy, ct) ==
  LET op == IF Len(ct) = 1 THEN ct[1] ELSE ct[Len(ct) - 1]
  IN  CASE ct[1] = "UnsafeDeref" /\ xTy.k = "ptr" /\ ~CopyType(Inner(xTy)) -> "out"
        [] op \in {"BorrowedRef", "ConstRawPointer"}       -> "shared"
        [] op \in {"MutBorrowedRef", "MutRawPointer"}      -> "mut"
        [] op \in {"Deref", "UnsafeDeref", "AsConvert"}    -> "copy"
        [] OTHER -> IF CopyType(xTy) THEN "copy"
                    ELSE IF xTy.k = "ref" THEN "mut" ELSE "move"

RECURSIVE HoldsReference(_)
HoldsReference(t) == t.k = "ref" \/ \E i \in DOMAIN t.args : HoldsReference(t.args[i])

AbsCall(c) ==
  LET rs == SelectSeq(c.params, LAMBDA a : a.kind = "ret")
  IN  [args   |-> [i \in DOMAIN rs |->
                     [src  |-> rs[i].src,
                      mode |-> ArgMode(DependencyOutput(calls[rs[i].src].fn), rs[i].ct)]],
       retRef |-> HoldsReference(Fn(c.fn).output)]

Legality == INSTANCE SequenceLegality WITH aseq <- [k \in DOMAIN calls |-> AbsCall(calls[k])]

-----------------------------------------------------------------------------
(* Well-formedness: every parameter refers to an earlier call or to an     *)
(* existing fuzzable slot, and the bookkeeping sets name existing calls.   *)
TypeOK ==
  /\ Len(calls) <= MaxLen
  /\ \A k \in DOMAIN calls :
       /\ calls[k].fn \in FnIds
       /\ Len(calls[k].params) = Len(Fn(calls[k].fn).inputs)
       /\ \A p \in DOMAIN calls[k].params :
            LET a == calls[k].params[p]
            IN  IF a.kind = "ret" THEN a.src \in 1..(k - 1)
                ELSE a.kind = "fuzz" /\ a.src \in DOMAIN fuzzableParams
  /\ fuzzableMut \subseteq DOMAIN fuzzableParams
  /\ functionMut \cup moved \subseteq DOMAIN calls
  /\ carefulPairs \subseteq (DOMAIN calls) \X (DOMAIN calls)
  /\ coveredDeps \subseteq Dependencies
  /\ isUnsafe \in BOOLEAN

(* Uses of a value by one call that move it or borrow it mutably.          *)
ExclusiveUse(k, p) ==
  LET a == calls[k].params[p]
      ty == Fn(calls[k].fn).inputs[p]
  IN  a.kind = "ret" /\ (MoveCondition(ty, a.ct) \/ IsMutableBorrowOccurs(ty, a.ct))

(* is_fun_satisfied's _multi_mut/_immutable_borrow sets: a value one       *)
(* parameter of a call moves or borrows mutably is used by no other        *)
(* parameter of that call, whichever parameter comes first.                *)
ExclusiveUseWithinCall ==
  \A k \in DOMAIN calls : \A p, q \in DOMAIN calls[k].params :
     (p # q /\ ExclusiveUse(k, p) /\ calls[k].params[q].kind = "ret")
        => calls[k].params[q].src # calls[k].params[p].src

(* careful_pairs: a shared reference that call c returned, borrowed from   *)
(* the value of call j, is never used by a call u after a call m between   *)
(* them moved or mutably borrowed j.                                       *)
SharedRefInvalidated ==
  \A c, m, u \in DOMAIN calls :
     (c < m /\ m < u) =>
       \A p \in DOMAIN calls[c].params :
          LET j == calls[c].params[p].src
          IN  ( /\ calls[c].params[p].kind = "ret"
                /\ IsImmutableBorrowOccurs(Fn(calls[c].fn).inputs[p], calls[c].params[p].ct)
                /\ CarefulPairCondition(calls[c].fn, j)
                /\ \E q \in DOMAIN calls[m].params :
                      calls[m].params[q].src = j /\ ExclusiveUse(m, q) )
              => \A r \in DOMAIN calls[u].params :
                    calls[u].params[r].kind = "ret" => calls[u].params[r].src # c

(* _covered_dependencies, which _heuristic_choose counts as the edges a    *)
(* sequence covers, holds only edges some call of the sequence uses: the   *)
(* parameter it feeds takes the value of a call of the edge's producer.    *)
CoveredEdgesExercised ==
  \A e \in coveredDeps : \E k \in DOMAIN calls :
     /\ calls[k].fn = e.in
     /\ calls[k].params[e.param].kind = "ret"
     /\ calls[calls[k].params[e.param].src].fn = e.out

(* Refinement: every sequence the assembler builds, step by step, is a     *)
(* program the borrow rules of SequenceLegality accept.                    *)
LegalSequences == Legality!Spec

=============================================================================
