-------------------------- MODULE SequenceLegality --------------------------
(***************************************************************************)
(* What the sequence assembler promises: every sequence it emits is a      *)
(* straight-line Rust program the borrow checker accepts.  A sequence is   *)
(* a list of calls; call k binds its value to variable k and takes as      *)
(* arguments earlier variables, each used in one mode:                     *)
(*   "move"   the value is consumed;                                       *)
(*   "mut"    it is borrowed mutably (&mut x, a reborrow of a &mut);       *)
(*   "shared" it is borrowed immutably (&x);                               *)
(*   "copy"   a Copy value is read;                                        *)
(*   "out"    a non-Copy value is moved out from behind a pointer or       *)
(*            reference, a use of *x, which Rust never allows (E0507).     *)
(* A call whose result holds a reference (retRef) keeps the loans of the   *)
(* borrows it was given, and of the values it was given that hold loans,   *)
(* for as long as its own variable is used (non-lexical lifetimes).        *)
(***************************************************************************)
EXTENDS Naturals, Sequences

VARIABLE aseq   \* Seq of [args : Seq of [src, mode], retRef : BOOLEAN]

Modes == {"move", "mut", "shared", "copy", "out"}

Args(s, k) == { s[k].args[i] : i \in DOMAIN s[k].args }

(* The variables call u reads.                                             *)
Sources(s, u) == { a.src : a \in Args(s, u) }

(* The loans <<x, mode>> the value of call r holds.                        *)
RECURSIVE Loans(_, _)
Loans(s, r) ==
  IF ~s[r].retRef THEN {}
  ELSE UNION { (IF a.mode \in {"shared", "mut"} THEN {<<a.src, a.mode>>} ELSE {})
                 \cup Loans(s, a.src) : a \in Args(s, r) }

(* Variable r is live at call k: it is read at k or later.                 *)
Live(s, r, k) == \E u \in k..Len(s) : r \in Sources(s, u)

MovedBefore(s, x, k) ==
  \E m \in 1..(k - 1) : \E a \in Args(s, m) : a.src = x /\ a.mode = "move"

(* The arguments of one call that use the same variable must all be reads  *)
(* or shared borrows.                                                      *)
CompatibleInCall(s, k) ==
  \A i, j \in DOMAIN s[k].args :
     (i # j /\ s[k].args[i].src = s[k].args[j].src)
       => {s[k].args[i].mode, s[k].args[j].mode} \subseteq {"shared", "copy"}

(* A use of x at call k is illegal while another live variable holds a     *)
(* mutable loan on x, or, for a move or mutable borrow, any loan on x.     *)
NoLiveConflictingLoan(s, k) ==
  \A a \in Args(s, k) : \A r \in 1..(k - 1) :
     (r # a.src /\ \E l \in Loans(s, r) :
                     l[1] = a.src /\ (a.mode \in {"move", "mut"} \/ l[2] = "mut"))
       => ~Live(s, r, k)

Legal(s) ==
  \A k \in DOMAIN s :
     /\ \A a \in Args(s, k) : a.src < k /\ ~MovedBefore(s, a.src, k) /\ a.mode # "out"
     /\ CompatibleInCall(s, k)
     /\ NoLiveConflictingLoan(s, k)

(* A strategy only ever extends a sequence by one call, and every prefix   *)
(* of a legal program is legal (liveness only looks forward, so the new    *)
(* call re-checks the earlier ones against its own uses).                  *)
Init == aseq = <<>>

Extend ==
  /\ Len(aseq') = Len(aseq) + 1
  /\ SubSeq(aseq', 1, Len(aseq)) = aseq
  /\ Legal(aseq')

Spec == Init /\ [][Extend]_aseq

=============================================================================
