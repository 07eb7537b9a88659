----------------------------- MODULE MC_Reducer -----------------------------
(***************************************************************************)
(* _heuristic_choose on every list of three sequences over two functions   *)
(* and one dependency edge: each sequence has one or both functions, the   *)
(* edge or not, a length of 1 or 2 calls (at least its distinct           *)
(* functions), fuzzables or none, and dynamic or fixed-length fuzzables.   *)
(***************************************************************************)
EXTENDS CoverageReducer

Summaries ==
  { s \in [fns : SUBSET {1, 2} \ {{}}, edges : SUBSET {1}, len : {1, 2},
           fuzz : BOOLEAN, dead : {FALSE}, fixed : BOOLEAN] :
      Cardinality(s.fns) <= s.len }

AllLists == [1..3 -> Summaries]

(* A dynamic-length sequence with both functions, and a dynamic-length one *)
(* that adds only the edge.                                                *)
EdgeOnlyLists ==
  { << [fns |-> {1, 2}, edges |-> {}, len |-> 2, fuzz |-> TRUE, dead |-> FALSE, fixed |-> FALSE],
       [fns |-> {1}, edges |-> {1}, len |-> 2, fuzz |-> TRUE, dead |-> FALSE, fixed |-> FALSE] >> }

(* A sequence covering the only edge, and one with a function of no edge. *)
AllEdgesLists ==
  { << [fns |-> {1}, edges |-> {1}, len |-> 2, fuzz |-> TRUE, dead |-> FALSE, fixed |-> FALSE],
       [fns |-> {2}, edges |-> {}, len |-> 1, fuzz |-> TRUE, dead |-> FALSE, fixed |-> TRUE] >> }
=============================================================================
