------------------------------ MODULE ApiGraph ------------------------------
(***************************************************************************)
(* The API dependency graph (api_graph.rs, api_function.rs): the functions *)
(* that survive filtering, the start/end classification of a function,    *)
(* and the dependency edges find_all_dependencies computes with the type   *)
(* resolver of ApiTypes.  Everything here is fixed once the graph is built *)
(* and is read by the sequence assembler and the search strategies.        *)
(***************************************************************************)
EXTENDS ApiTypes

(***************************************************************************)
(* Fns: the extracted functions in extraction order, each a record         *)
(*   [name, inputs : Seq(type), output : type or NoOutput,                 *)
(*    unsafe : BOOLEAN, trait : trait path or ""].                         *)
(* The model has no generic functions: filter_functions drops them when    *)
(* generics are not supported, which is the default driver's setting.      *)
(***************************************************************************)
CONSTANT Fns

NoOutput == [k |-> "none", name |-> "", mut |-> FALSE, args |-> <<>>]

(* ApiFunction::contains_unsupported_fuzzable_type: a fuzzable parameter   *)
(* whose generated type is NoFuzzable or has nested dynamic lengths.       *)
ContainsUnsupportedFuzzableType(fn) ==
  \E p \in DOMAIN fn.inputs :
     /\ IsFuzzableType(fn.inputs[p])
     /\ LET g == GeneratedFuzzableType(fn.inputs[p])
        IN  ~g.fuzzable \/ g.multi

(* add_api_function keeps a function only if its fuzzable types are        *)
(* supported; the graph's function indices are positions in this list.    *)
ApiFunctions == SelectSeq(Fns, LAMBDA fn : ~ContainsUnsupportedFuzzableType(fn))

FnIds == 1..Len(ApiFunctions)
Fn(i) == ApiFunctions[i]

(* ApiFunction::_has_no_output                                             *)
HasNoOutput(i) == Fn(i).output = NoOutput

(* ApiFunction::contains_mut_borrow: some parameter is &mut or *mut.       *)
ContainsMutBorrow(i) ==
  \E p \in DOMAIN Fn(i).inputs : Fn(i).inputs[p].k \in {"ref", "ptr"} /\ Fn(i).inputs[p].mut

(* ApiFunction::_is_start_function: every parameter is an end type.        *)
IsStartFunction(i) == \A p \in DOMAIN Fn(i).inputs : IsEndType(Fn(i).inputs[p])

(* ApiFunction::_is_end_function: no &mut parameter, and no output or an   *)
(* end-typed output.                                                       *)
IsEndFunction(i) == ~ContainsMutBorrow(i) /\ (HasNoOutput(i) \/ IsEndType(Fn(i).output))

(* find_all_dependencies strips Option/Result from the producer's output   *)
(* once, before resolving; the generated code unwraps at the binding.      *)
DependencyOutput(i) ==
  IF IsPrelude(Fn(i).output) THEN FinalType(Fn(i).output) ELSE Fn(i).output

(* The (producer, consumer, parameter) triples find_all_dependencies      *)
(* visits.                                                                 *)
Triples == UNION { FnIds \X {j} \X DOMAIN Fn(j).inputs : j \in FnIds }

(* find_all_dependencies' filter before resolving: the producer is not an  *)
(* end function and has an output, the consumer is not a start function,  *)
(* and with support_generic = false neither type is a generic non-prelude  *)
(* type.                                                                   *)
Candidate(t) ==
  /\ ~IsEndFunction(t[1]) /\ ~HasNoOutput(t[1])
  /\ ~IsStartFunction(t[2])
  /\ ~(~IsPrelude(DependencyOutput(t[1])) /\ IsGenericType(DependencyOutput(t[1])))
  /\ ~(~IsPrelude(Fn(t[2]).inputs[t[3]]) /\ IsGenericType(Fn(t[2]).inputs[t[3]]))

(* find_all_dependencies: an edge for each candidate triple the resolver   *)
(* finds a conversion for, labelled with that call type.                   *)
Dependencies ==
  { e \in { [out |-> t[1], in |-> t[2], param |-> t[3],
             ct  |-> SameType(DependencyOutput(t[1]), Fn(t[2]).inputs[t[3]])]
            : t \in { t \in Triples : Candidate(t) } } :
      e.ct # NotCompatible }

(* check_dependency: the edge from producer i to parameter k of j, as a    *)
(* set holding it, or {} when there is none.                               *)
CheckDependency(i, j, k) == { e \in Dependencies : e.out = i /\ e.in = j /\ e.param = k }

=============================================================================
