----------------------------- MODULE MC_Widget -----------------------------
(***************************************************************************)
(* The sequence assembler over a small library: a type W built from        *)
(* nothing or from bytes, a V read from it by shared reference or through  *)
(* a raw pointer, a setter and a two-argument merge.  Between them the     *)
(* functions exercise every branch of is_fun_satisfied: mutable and shared *)
(* borrows, careful pairs, fuzzable slices and primitives, unsafe          *)
(* functions and call types, and trait methods.                            *)
(*                                                                         *)
(* consume_v takes a V by value.  Its only producer is opt_ptr's *const V, *)
(* so every call of it moves a V out of a raw pointer: WidgetFns, the      *)
(* library of the passing run, leaves it out, RawPtrFns keeps it.          *)
(***************************************************************************)
EXTENDS SequenceAssembler, TLC

W == Path("W", <<>>)
V == Path("V", <<>>)
U8 == Prim("u8")

RawPtrFns ==
  << [name |-> "new",       inputs |-> <<>>,                          output |-> W,
      unsafe |-> FALSE, trait |-> ""],
     [name |-> "from_bytes", inputs |-> <<Ref(FALSE, SliceTy(U8))>>,  output |-> Path("Option", <<W>>),
      unsafe |-> FALSE, trait |-> ""],
     [name |-> "get",       inputs |-> <<Ref(FALSE, W)>>,             output |-> Ref(FALSE, V),
      unsafe |-> FALSE, trait |-> ""],
     [name |-> "set",       inputs |-> <<Ref(TRUE, W), U8>>,          output |-> NoOutput,
      unsafe |-> FALSE, trait |-> "Settable"],
     [name |-> "read",      inputs |-> <<Ref(FALSE, V)>>,             output |-> U8,
      unsafe |-> FALSE, trait |-> ""],
     [name |-> "opt_ptr",   inputs |-> <<Ref(FALSE, W)>>,             output |-> Ptr(FALSE, V),
      unsafe |-> TRUE,  trait |-> ""],
     [name |-> "consume_v", inputs |-> <<V>>,                         output |-> NoOutput,
      unsafe |-> FALSE, trait |-> ""],
     [name |-> "merge",     inputs |-> <<Ref(TRUE, W), Ref(FALSE, W)>>, output |-> NoOutput,
      unsafe |-> FALSE, trait |-> ""] >>

WidgetFns == SelectSeq(RawPtrFns, LAMBDA f : f.name # "consume_v")

=============================================================================
