------------------------- MODULE MC_Counterexamples -------------------------
(***************************************************************************)
(* Libraries on which the sequence assembler builds sequences the borrow   *)
(* rules reject.  Each cfg picks one of them as Fns.                       *)
(***************************************************************************)
EXTENDS SequenceAssembler, TLC

W == Path("W", <<>>)
V == Path("V", <<>>)

Fun(n, ins, out) == [name |-> n, inputs |-> ins, output |-> out, unsafe |-> FALSE, trait |-> ""]

(* spec.md Scenario A: make() -> Widget, consume(Widget).                  *)
DoubleMoveFns == << Fun("make", <<>>, W), Fun("consume", <<W>>, NoOutput) >>

(* A getter returning a mutable reference into its argument.               *)
MutRefAliasFns ==
  << Fun("new", <<>>, W), Fun("get_mut", <<Ref(TRUE, W)>>, Ref(TRUE, V)),
     Fun("len", <<Ref(FALSE, W)>>, Prim("usize")), Fun("bump", <<Ref(TRUE, V)>>, NoOutput) >>

(* A shared reference into W passed alongside a mutable borrow of W.       *)
ParamOrderFns ==
  << Fun("new", <<>>, W), Fun("get", <<Ref(FALSE, W)>>, Ref(FALSE, V)),
     Fun("poke", <<Ref(FALSE, V), Ref(TRUE, W)>>, NoOutput) >>

=============================================================================
