---------------------------- MODULE MC_LocalDeps ----------------------------
(***************************************************************************)
(* A function body of three locals (the return place _0, one argument _1,  *)
(* one temporary _2) and one constant, calling one function of the tested *)
(* crate, Step, which both makes and takes the crate's values, or a       *)
(* function pointer.                                                       *)
(***************************************************************************)
EXTENDS LocalDependencies

CONSTANTS Step

BodyCallees == {Step}

=============================================================================
