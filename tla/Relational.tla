----------------------------- MODULE Relational -----------------------------
(***************************************************************************)
(* What a query promises: one answer, which is its meaning on the segment, *)
(* or an error with a reason that applies.  Abstract specification,        *)
(* implemented by Query.                                                   *)
(***************************************************************************)
EXTENDS Meaning

VARIABLES seg, q, answer

Unanswered == [kind |-> "none"]
Error(why) == [kind |-> "error", why |-> why]
Table(rows) == [kind |-> "rows", rows |-> rows]

Init == seg \in Segments /\ q \in Queries /\ answer = Unanswered

Answer ==
  /\ answer = Unanswered
  /\ \/ \E why \in Faults(seg, q) : answer' = Error(why)
     \/ Faults(seg, q) = {} /\ Overflows(seg, q) /\ answer' = Error("sum overflow")
     \/ Faults(seg, q) = {} /\ ~Overflows(seg, q) /\ answer' = Table(RowsOf(seg, q))
  /\ UNCHANGED <<seg, q>>

Spec == Init /\ [][Answer]_<<seg, q, answer>>
=============================================================================
