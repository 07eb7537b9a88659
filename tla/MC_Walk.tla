------------------------------ MODULE MC_Walk ------------------------------
(***************************************************************************)
(* Libraries for the random walk.                                          *)
(***************************************************************************)
EXTENDS SearchStrategies, TLC

W == Path("W", <<>>)

Fun(n, ins, out) == [name |-> n, inputs |-> ins, output |-> out, unsafe |-> FALSE, trait |-> ""]

(* A fallible byte-slice constructor, a setter and an end function.      *)
WalkFns ==
  << Fun("from_bytes", <<Ref(FALSE, SliceTy(Prim("u8")))>>, Path("Option", <<W>>)),
     Fun("set", <<Ref(TRUE, W), Prim("u8")>>, NoOutput),
     Fun("len", <<Ref(FALSE, W)>>, Prim("usize")) >>

=============================================================================
