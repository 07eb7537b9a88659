----------------------------- MODULE MC_Search -----------------------------
(***************************************************************************)
(* A library for bfs and the backward search.                              *)
(***************************************************************************)
EXTENDS ReverseCover, TLC

W == Path("W", <<>>)
V == Path("V", <<>>)

Fun(n, ins, out) == [name |-> n, inputs |-> ins, output |-> out, unsafe |-> FALSE, trait |-> ""]

Z == Path("Z", <<>>)

(* A chain new -> step -> join -> finish, longer than bfs goes, whose      *)
(* join takes values of both new and step and borrows a W both mutably    *)
(* and shared, so that it needs two calls of new; and a function without   *)
(* parameters.                                                             *)
SearchFns ==
  << Fun("new", <<Prim("u8")>>, W),
     Fun("step", <<W>>, V),
     Fun("join", <<Ref(TRUE, W), Ref(FALSE, W), Ref(FALSE, V)>>, Z),
     Fun("finish", <<Ref(FALSE, Z)>>, Prim("u8")),
     Fun("version", <<>>, Prim("u8")),
     Fun("mix", <<Ref(FALSE, W), Ref(FALSE, V)>>, Prim("u8")) >>

AllModes == {"Bfs", "FastBfs", "BfsEndPoint", "FastBfsEndPoint", "Default",
             "TryDeepBfs", "DirectBackwardSearch"}

(* A max_sequence_number the sequences reach past length 2, and one they   *)
(* do not.                                                                 *)
Budgets == {12, 100000}

=============================================================================
