------------------------------ MODULE ApiTypes ------------------------------
(***************************************************************************)
(* Type descriptors, conversion descriptors (CallType) and the pure        *)
(* predicates over them that the dependency graph and the sequence         *)
(* assembler use: the Type Compatibility Resolver (_same_type_hard_mode    *)
(* and its helpers in api_util.rs), Copy classification, the move and      *)
(* borrow classification of one argument, and the fuzzable classifier.     *)
(*                                                                         *)
(* A type is a record [k, name, mut, args] mirroring clean::Type: k is the *)
(* variant, name the primitive or path name, mut the mutability of a       *)
(* reference or raw pointer, args the generic arguments of a path, the     *)
(* elements of a tuple, or the single referent of ref/ptr/slice.           *)
(* Lifetimes are not represented.                                          *)
(*                                                                         *)
(* A CallType is the chain of its constructors, outermost first, ending in *)
(* "DirectCall" or "AsConvert": MutBorrowedRef(UnwrapOption(DirectCall))   *)
(* is <<"MutBorrowedRef", "UnwrapOption", "DirectCall">>.                  *)
(***************************************************************************)
EXTENDS Naturals, Sequences, SequencesExt

Prim(n)        == [k |-> "prim",    name |-> n,  mut |-> FALSE, args |-> <<>>]
Path(n, as)    == [k |-> "path",    name |-> n,  mut |-> FALSE, args |-> as]
Ref(m, t)      == [k |-> "ref",     name |-> "", mut |-> m,     args |-> <<t>>]
Ptr(m, t)      == [k |-> "ptr",     name |-> "", mut |-> m,     args |-> <<t>>]
SliceTy(t)     == [k |-> "slice",   name |-> "", mut |-> FALSE, args |-> <<t>>]
TupleTy(ts)    == [k |-> "tuple",   name |-> "", mut |-> FALSE, args |-> ts]
GenericTy(n)   == [k |-> "generic", name |-> n,  mut |-> FALSE, args |-> <<>>]
Inner(t)       == t.args[1]

NumericPrims == {"isize", "i8", "i16", "i32", "i64", "i128",
                 "usize", "u8", "u16", "u32", "u64", "u128", "f32", "f64"}

NotCompatible == <<"NotCompatible">>
DirectCall    == <<"DirectCall">>
AsConvert     == <<"AsConvert">>
Wrap(tag, ct) == <<tag>> \o ct

(***************************************************************************)
(* Prelude types (prelude_type.rs, not in the tree): Option and Result are *)
(* unwrapped to their final inner type, and a conversion found for the     *)
(* inner type is wrapped once per layer.                                   *)
(***************************************************************************)
IsPrelude(t) == t.k = "path" /\ t.name \in {"Option", "Result"} /\ Len(t.args) = 1

RECURSIVE FinalType(_)
FinalType(t) == IF IsPrelude(t) THEN FinalType(Inner(t)) ELSE t

RECURSIVE ToCallType(_, _)
ToCallType(t, ct) ==
  IF IsPrelude(t)
  THEN Wrap(IF t.name = "Option" THEN "ToOption" ELSE "ToResult", ToCallType(Inner(t), ct))
  ELSE ct

RECURSIVE UnwrapCallType(_, _)
UnwrapCallType(t, ct) ==
  IF IsPrelude(t)
  THEN Wrap(IF t.name = "Option" THEN "UnwrapOption" ELSE "UnwrapResult", UnwrapCallType(Inner(t), ct))
  ELSE ct

(***************************************************************************)
(* _copy_type: primitives other than str, raw pointers, shared references *)
(* and tuples of Copy types are Copy; paths (even Copy structs), slices,   *)
(* mutable references and generics are not.                                *)
(***************************************************************************)
RECURSIVE CopyType(_)
CopyType(t) ==
  CASE t.k = "prim"  -> t.name \in NumericPrims \cup {"char", "bool"}
    [] t.k = "tuple" -> \A i \in DOMAIN t.args : CopyType(t.args[i])
    [] t.k = "ptr"   -> TRUE
    [] t.k = "ref"   -> ~t.mut
    [] OTHER         -> FALSE

(* _resolved_path_equal_without_lifetime: same path, and the segments      *)
(* compared after new_segments_without_lifetime dropped every generic      *)
(* argument (lifetimes, and also types and consts).                        *)
PathEqualWithoutLifetime(l, r) == l.k = "path" /\ r.k = "path" /\ l.name = r.name

(* _same_type_primitive: numbers convert to numbers with `as`, u8 to char,  *)
(* char to u8; nothing else converts.                                      *)
SameTypePrimitive(o, in) ==
  IF in.k # "prim" THEN NotCompatible
  ELSE IF o = in.name THEN DirectCall
  ELSE IF \/ o \in NumericPrims /\ in.name \in NumericPrims
          \/ o = "u8" /\ in.name = "char"
          \/ o = "char" /\ in.name = "u8"
       THEN AsConvert
  ELSE NotCompatible

(***************************************************************************)
(* The resolver, _same_type_hard_mode and its mutually recursive helpers:  *)
(* a reference or pointer input is peeled first, then a prelude input,     *)
(* then the cases of the output type.                                      *)
(***************************************************************************)
RECURSIVE SameType(_, _), SameTypeResolvedPath(_, _), SameTypeRawPointer(_, _),
          SameTypeBorrowedRef(_, _), BorrowedRefInSameType(_, _, _),
          RawPointerInSameType(_, _, _)

Under(tag, ct) == IF ct = NotCompatible THEN NotCompatible ELSE Wrap(tag, ct)

(* _same_type_hard_mode                                                    *)
SameType(out, in) ==
  IF out = in THEN DirectCall
  ELSE IF in.k = "ref" THEN BorrowedRefInSameType(in.mut, Inner(in), out)
  ELSE IF in.k = "ptr" THEN RawPointerInSameType(in.mut, Inner(in), out)
  ELSE IF IsPrelude(in) THEN
    LET ct == SameType(out, FinalType(in))
    IN  IF ct = NotCompatible THEN NotCompatible ELSE ToCallType(in, ct)
  ELSE CASE out.k = "path" -> SameTypeResolvedPath(out, in)
         [] out.k = "prim" -> SameTypePrimitive(out.name, in)
         [] out.k = "ptr"  -> SameTypeRawPointer(Inner(out), in)
         [] out.k = "ref"  -> SameTypeBorrowedRef(Inner(out), in)
         [] OTHER -> NotCompatible

(* _same_type_resolved_path: a prelude output is unwrapped first.          *)
SameTypeResolvedPath(out, in) ==
  IF IsPrelude(out) THEN
    LET ct == SameType(FinalType(out), in)
    IN  IF ct = NotCompatible THEN NotCompatible ELSE UnwrapCallType(out, ct)
  ELSE IF in.k = "path" /\ (out = in \/ PathEqualWithoutLifetime(out, in)) THEN DirectCall
  ELSE NotCompatible

(* _same_type_raw_pointer: a pointer output is dereferenced.               *)
SameTypeRawPointer(inner, in) == Under("UnsafeDeref", SameType(inner, in))

(* _same_type_borrowed_ref: a reference output is dereferenced only when   *)
(* the referent is Copy.                                                   *)
SameTypeBorrowedRef(inner, in) ==
  LET ct == SameType(inner, in)
  IN  IF ct # NotCompatible /\ CopyType(inner) THEN Wrap("Deref", ct) ELSE NotCompatible

(* _borrowed_ref_in_same_type: a reference input borrows the output.       *)
BorrowedRefInSameType(m, inner, out) ==
  Under(IF m THEN "MutBorrowedRef" ELSE "BorrowedRef", SameType(out, inner))

(* _raw_pointer_in_same_type: a pointer input takes the output's address.  *)
RawPointerInSameType(m, inner, out) ==
  Under(IF m THEN "MutRawPointer" ELSE "ConstRawPointer", SameType(out, inner))

(***************************************************************************)
(* CallType predicates.                                                    *)
(***************************************************************************)
(* _contains_move_call_type = _contains_unwrap_call_type (call_type.rs).   *)
ContainsMoveCallType(ct) == \E i \in DOMAIN ct : ct[i] \in {"UnwrapOption", "UnwrapResult"}

(* unsafe_call_type()._is_unsafe(): the chain dereferences a raw pointer.  *)
UnsafeCallType(ct) == \E i \in DOMAIN ct : ct[i] = "UnsafeDeref"

(* _move_condition: both of its branches test _contains_move_call_type;    *)
(* the clause for a non-Copy value passed by DirectCall/Deref is commented *)
(* out in the code.                                                        *)
MoveCondition(inTy, ct) == ContainsMoveCallType(ct)

(* _is_mutable_borrow_occurs                                               *)
IsMutableBorrowOccurs(inTy, ct) ==
  /\ ~ContainsMoveCallType(ct)
  /\ inTy.k \in {"ref", "ptr"} /\ inTy.mut
  /\ ct[1] \in {"DirectCall", "MutBorrowedRef", "MutRawPointer"}

(* _is_immutable_borrow_occurs                                             *)
IsImmutableBorrowOccurs(inTy, ct) ==
  /\ inTy.k \in {"ref", "ptr"} /\ ~inTy.mut
  /\ ct[1] \in {"DirectCall", "BorrowedRef", "ConstRawPointer"}

(* _need_mut_tag                                                           *)
NeedMutTag(ct) == ct[1] \in {"MutBorrowedRef", "MutRawPointer"}

(***************************************************************************)
(* Type predicates.                                                        *)
(***************************************************************************)
(* _is_immutable_borrow_type: a shared reference occurs anywhere in it.    *)
RECURSIVE IsImmutableBorrowType(_)
IsImmutableBorrowType(t) ==
  CASE t.k = "ref" -> ~t.mut \/ IsImmutableBorrowType(Inner(t))
    [] t.k \in {"path", "tuple", "slice", "ptr"} ->
         \E i \in DOMAIN t.args : IsImmutableBorrowType(t.args[i])
    [] OTHER -> FALSE

(* _is_generic_type: a generic, or any path carrying a type argument.      *)
RECURSIVE IsGenericType(_)
IsGenericType(t) ==
  CASE t.k = "generic" -> TRUE
    [] t.k = "path"    -> t.args # <<>>
    [] t.k \in {"tuple", "slice", "ptr", "ref"} ->
         \E i \in DOMAIN t.args : IsGenericType(t.args[i])
    [] OTHER -> FALSE

(* _is_end_type with support_generic = false.                              *)
RECURSIVE IsEndType(_)
IsEndType(t) ==
  CASE t.k = "path"  -> IsPrelude(t) /\ IsEndType(FinalType(t))
    [] t.k = "prim"  -> TRUE
    [] t.k = "tuple" -> \A i \in DOMAIN t.args : IsEndType(t.args[i])
    [] t.k \in {"slice", "ptr", "ref"} -> IsEndType(Inner(t))
    [] OTHER -> FALSE

(***************************************************************************)
(* fuzzable_call_type followed by generate_fuzzable_type_and_call_type,    *)
(* abstracted to what the assembler and selector read: whether the type is *)
(* fuzzable, how many dynamic-length parts it has, whether a dynamic part  *)
(* nests inside another one (_is_multiple_dynamic_length), and whether the *)
(* generated argument needs a `mut` binding.                               *)
(***************************************************************************)
NoFuzzable == [fuzzable |-> FALSE, dyn |-> 0, multi |-> FALSE, mutTag |-> FALSE]
FuzzLeaf(d) == [fuzzable |-> TRUE, dyn |-> d, multi |-> FALSE, mutTag |-> FALSE]

RECURSIVE FuzzableCallType(_)
FuzzableCallType(t) ==
  LET sub == FuzzableCallType(Inner(t))
  IN
  CASE t.k = "prim" -> FuzzLeaf(IF t.name = "str" THEN 1 ELSE 0)
    [] t.k = "path" ->
         IF IsPrelude(t) /\ t.name = "Option" /\ sub.fuzzable
         THEN [sub EXCEPT !.mutTag = FALSE] ELSE NoFuzzable
    [] t.k = "tuple" ->
         LET es == [i \in DOMAIN t.args |-> FuzzableCallType(t.args[i])]
         IN  IF \A i \in DOMAIN es : es[i].fuzzable
             THEN [fuzzable |-> TRUE,
                   dyn |-> FoldSeq(LAMBDA e, acc : e.dyn + acc, 0, es),
                   multi |-> \E i \in DOMAIN es : es[i].multi,
                   mutTag |-> FALSE]
             ELSE NoFuzzable
    [] t.k = "slice" ->
         IF sub.fuzzable
         THEN [fuzzable |-> TRUE, dyn |-> 1, multi |-> sub.dyn > 0, mutTag |-> FALSE]
         ELSE NoFuzzable
    [] t.k \in {"ref", "ptr"} ->
         IF t.k = "ref" /\ ~t.mut /\ Inner(t) = Prim("str") THEN FuzzLeaf(1)
         ELSE IF sub.fuzzable THEN [sub EXCEPT !.mutTag = t.mut] ELSE NoFuzzable
    [] OTHER -> NoFuzzable

IsFuzzableType(t) == FuzzableCallType(t).fuzzable

(* generate_fuzzable_type_and_call_type yields NoFuzzable for a fuzzable   *)
(* tuple that holds a reference or pointer (the `(&usize)` case its        *)
(* callers comment on).                                                    *)
RECURSIVE TupleHoldsReference(_)
TupleHoldsReference(t) ==
  CASE t.k = "tuple" -> \E i \in DOMAIN t.args :
                          t.args[i].k \in {"ref", "ptr"} \/ TupleHoldsReference(t.args[i])
    [] t.k \in {"ref", "ptr", "slice"} \/ IsPrelude(t) -> TupleHoldsReference(Inner(t))
    [] OTHER -> FALSE

(* The FuzzableType produced for a fuzzable type, or NoFuzzable.           *)
GeneratedFuzzableType(t) ==
  IF TupleHoldsReference(t) THEN NoFuzzable ELSE FuzzableCallType(t)

=============================================================================
