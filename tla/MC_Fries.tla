------------------------------ MODULE MC_Fries ------------------------------
(***************************************************************************)
(* Libraries for the corpus-guided generator.                              *)
(***************************************************************************)
EXTENDS FriesPipeline, TLC

W == Path("W", <<>>)

Fun(n, ins, out) == [name |-> n, inputs |-> ins, output |-> out, unsafe |-> FALSE, trait |-> ""]

(* Two start functions: a fallible byte-slice constructor of W, and seed, *)
(* whose output nothing consumes; a setter, a reader, and merge, which     *)
(* is rejected while the sequence holds a single W; and version, a start   *)
(* function without parameters, so a sequence may take no fuzz input.     *)
FriesFns ==
  << Fun("from_bytes", <<Ref(FALSE, SliceTy(Prim("u8")))>>, Path("Option", <<W>>)),
     Fun("seed", <<Prim("u8")>>, Prim("u64")),
     Fun("set", <<Ref(TRUE, W), Prim("u8")>>, NoOutput),
     Fun("len", <<Ref(FALSE, W)>>, Prim("usize")),
     Fun("merge", <<Ref(TRUE, W), Ref(FALSE, W)>>, NoOutput),
     Fun("version", <<>>, Prim("u8")) >>

=============================================================================
