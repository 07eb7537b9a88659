------------------------- MODULE LocalDependencies -------------------------
(***************************************************************************)
(* The corpus-statistics analysis of one function body (extract_dep.rs,    *)
(* extract_info.rs).  LocalDependencies::direct_dependencies walks the     *)
(* MIR assignments and sets, in the bit row of the assigned local, the bit *)
(* of every local or constant the rvalue reads; every row starts with its  *)
(* own bit.  extract_function_call records each Call terminator.  Then     *)
(* propagate closes the rows one by one, in local order, OR-ing in the     *)
(* rows of the locals a row names until the row stops changing.            *)
(* extract_all_dependencies maps each set bit to a source (get_origins):   *)
(* bit 0 is the caller's own return, a local some call writes is the      *)
(* return of the first such call.  ExtractInfo::extract_info then counts,  *)
(* for every call of the tested crate, the tested-crate calls its         *)
(* arguments come from, and the order of consecutive tested-crate calls.  *)
(*                                                                         *)
(* The body is built statement by statement, in the order                 *)
(* extract_all_dependencies walks it: extract_function_call's walk first,  *)
(* a step per Call, then direct_dependencies', a step per assignment.      *)
(* Rvalues that read nothing (NullaryOp, ThreadLocalRef) change   *)
(* nothing and are left out.  The statistics keep which pairs occur, not   *)
(* their counts: the weights they become are drawn freely in the model of *)
(* my_method.                                                              *)
(***************************************************************************)
EXTENDS Naturals, FiniteSets, Sequences, Relation

CONSTANTS
  NumLocals,     \* local_decls.len(): _0 the return place, then arguments
  ArgCount,      \* arg_count
  NumConsts,     \* constants.len(), as extract_constant finds them
  Callees,       \* the functions a Call may name (DefIds)
  TestCrate,     \* those whose path starts with the tested crate's name
  NonFnCallees,  \* those whose def_kind is neither Fn nor AssocFn
  Caller,        \* the function whose body this is (of the current crate)
  FnPtr,         \* Call through a local function pointer
  MaxAssigns, MaxCalls

ASSUME /\ ArgCount < NumLocals /\ TestCrate \subseteq Callees /\ NonFnCallees \subseteq Callees
       /\ Caller \notin Callees /\ FnPtr \notin Callees

Locals == 0..(NumLocals - 1)
Temps == (ArgCount + 1)..(NumLocals - 1)
\* The columns of a row: the locals, then constant k at NumLocals + k.
Columns == 0..(NumLocals + NumConsts - 1)
Operands == Columns          \* Copy/Move of a local, or a constant

VARIABLES
  deps,        \* dependencies: per local, the set bits of its row
  callsites,   \* the recorded CallSites, in visiting order
  nAssigns, nCalls,
  phase,       \* "calls", "assigns", "propagate" or "done"
  index,       \* the row propagate is closing
  directDeps,  \* history: the rows as direct_dependencies left them
  pairs,       \* pre_succ_map's keys
  orders       \* order_map's keys

vars == <<deps, callsites, nAssigns, nCalls, phase, index, directDeps, pairs, orders>>

(* IndexVec::from_elem_n, then each local depends on itself.               *)
Init ==
  /\ deps = [l \in Locals |-> {l}]
  /\ callsites = <<>> /\ nAssigns = 0 /\ nCalls = 0
  /\ phase = "calls" /\ index = 0 /\ directDeps = deps
  /\ pairs = {} /\ orders = {}

(* visit_assign: lvalue = rvalue, where ids are the operands' columns     *)
(* (Use, Cast, BinaryOp, Aggregate ...) or the place's local (Ref, Len,   *)
(* Discriminant ...).                                                      *)
VisitAssign(lhs, ids) ==
  /\ phase = "assigns" /\ nAssigns < MaxAssigns
  /\ deps' = [deps EXCEPT ![lhs] = @ \cup ids]
  /\ nAssigns' = nAssigns + 1
  /\ UNCHANGED <<callsites, nCalls, phase, index, directDeps, pairs, orders>>

(* visit_terminator on Call { func, args, destination }: a call of a       *)
(* constant of def_kind Fn or AssocFn, or through a local, is recorded;    *)
(* any other constant callee returns without a record.  Which local holds *)
(* a function pointer only feeds Callee::LocalFunctionPtr, which           *)
(* extract_info skips, and a constant argument gives at most a FunctionId  *)
(* source: arguments are locals here.                                      *)
VisitCall(callee, arg, dest) ==
  /\ phase = "calls" /\ nCalls < MaxCalls
  /\ callsites' = IF callee \in NonFnCallees THEN callsites
                  ELSE Append(callsites, [callee |-> callee, arg |-> arg, dest |-> dest])
  /\ nCalls' = nCalls + 1
  /\ UNCHANGED <<deps, nAssigns, phase, index, directDeps, pairs, orders>>

(* extract_function_call has walked the body; compute starts.              *)
EndCalls ==
  /\ phase = "calls" /\ phase' = "assigns"
  /\ UNCHANGED <<deps, callsites, nAssigns, nCalls, index, directDeps, pairs, orders>>

(* direct_dependencies has walked the body; propagate starts.              *)
StartPropagate ==
  /\ phase = "assigns"
  /\ phase' = "propagate" /\ index' = 0 /\ directDeps' = deps
  /\ UNCHANGED <<deps, callsites, nAssigns, nCalls, pairs, orders>>

(* One iteration of the loop: for idx over the other rows, in order, if   *)
(* deps1 has bit idx, deps1 |= dependencies[idx]; deps1 grows as it goes.  *)
RECURSIVE Pass(_, _, _)
Pass(row, i, k) ==
  IF k >= NumLocals THEN row
  ELSE Pass(IF k # i /\ k \in row THEN row \cup deps[k] ELSE row, i, k + 1)

(* Mutant: a single iteration per row, without the loop to a stable point. *)
PropagateOnce ==
  /\ phase = "propagate" /\ index < NumLocals
  /\ deps' = [deps EXCEPT ![index] = Pass(deps[index], index, 0)]
  /\ index' = index + 1
  /\ UNCHANGED <<callsites, nAssigns, nCalls, phase, directDeps, pairs, orders>>

(* The row is closed once an iteration leaves it unchanged.                *)
PropagateStep ==
  /\ phase = "propagate" /\ index < NumLocals
  /\ LET new == Pass(deps[index], index, 0)
     IN  /\ deps' = [deps EXCEPT ![index] = new]
         /\ index' = IF new = deps[index] THEN index + 1 ELSE index
  /\ UNCHANGED <<callsites, nAssigns, nCalls, phase, directDeps, pairs, orders>>

-----------------------------------------------------------------------------
(* The first recorded call whose destination is d (callsites.find).       *)
Writers(d) == { i \in DOMAIN callsites : callsites[i].dest = d }
FirstWriter(d) == callsites[CHOOSE i \in Writers(d) : \A j \in Writers(d) : i <= j]

(* get_origins, the ReturnVariable sources: bit 0 is the caller's return, *)
(* a bit past the arguments and below the constants a local, the return   *)
(* of the callee of its first writer when that is a direct call.  A       *)
(* function-pointer writer gives an Argument source or none, a constant   *)
(* a FunctionId source: neither is read by extract_info.                   *)
ReturnSources(l) ==
  (IF 0 \in deps[l] THEN {Caller} ELSE {})
  \cup { FirstWriter(d).callee : d \in { d \in deps[l] \cap Temps :
                                         Writers(d) # {} /\ FirstWriter(d).callee # FnPtr } }

(* arg_sources of a call: get_origins of its argument.                     *)
ArgReturnSources(cs) == ReturnSources(cs.arg)

TestCalls == SelectSeq(callsites, LAMBDA cs : cs.callee \in TestCrate)

(* Mutant: the sources are not checked to be of the tested crate.          *)
RecordUnfiltered ==
  /\ phase = "propagate" /\ index = NumLocals
  /\ pairs' = UNION { ArgReturnSources(TestCalls[i]) \X {TestCalls[i].callee} : i \in DOMAIN TestCalls }
  /\ orders' = { <<TestCalls[i].callee, TestCalls[i + 1].callee>> : i \in 1..(Len(TestCalls) - 1) }
  /\ phase' = "done"
  /\ UNCHANGED <<deps, callsites, nAssigns, nCalls, index, directDeps>>

(* extract_all_dependencies records the function; extract_info adds, for  *)
(* each tested-crate call, its tested-crate argument sources as pairs, and *)
(* each two consecutive tested-crate calls to order_map.                   *)
Record ==
  /\ phase = "propagate" /\ index = NumLocals
  /\ pairs' = UNION { (ArgReturnSources(TestCalls[i]) \cap TestCrate) \X {TestCalls[i].callee} :
                      i \in DOMAIN TestCalls }
  /\ orders' = { <<TestCalls[i].callee, TestCalls[i + 1].callee>> : i \in 1..(Len(TestCalls) - 1) }
  /\ phase' = "done"
  /\ UNCHANGED <<deps, callsites, nAssigns, nCalls, index, directDeps>>

Next ==
  \/ \E lhs \in Locals, a, b \in Operands : VisitAssign(lhs, {a, b})
  \/ \E c \in Callees \cup {FnPtr}, a \in Locals, d \in Locals : VisitCall(c, a, d)
  \/ EndCalls \/ StartPropagate \/ PropagateStep \/ Record

Spec == Init /\ [][Next]_vars

-----------------------------------------------------------------------------
TypeOK ==
  /\ deps \in [Locals -> SUBSET Columns]
  /\ phase \in {"calls", "assigns", "propagate", "done"}
  /\ index \in 0..NumLocals
  /\ pairs \subseteq TestCrate \X TestCrate

(* The direct dependencies as a relation over the locals.                 *)
DirectRel == [p \in Locals \X Locals |-> p[2] \in directDeps[p[1]]]

(* The locals whose value flows into l through assignments.               *)
Reach(l) == { m \in Locals : ReflexiveTransitiveClosure(DirectRel, Locals)[l, m] }

(* propagate leaves every row the transitive closure of the direct        *)
(* dependencies, constants included, although it closes the rows in index *)
(* order and a row may be closed while the rows it reads are still open.   *)
PropagateClosed ==
  phase = "done" =>
    \A l \in Locals : deps[l] = UNION { directDeps[m] : m \in Reach(l) }

=============================================================================
