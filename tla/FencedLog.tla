----------------------------- MODULE FencedLog -----------------------------
(***************************************************************************)
(* What the lease and the chain promise together: an append-only log       *)
(* whose every entry is written under the newest epoch there is.  Once the *)
(* fence moves, nothing of an earlier epoch is ever appended, and no entry *)
(* is appended twice, changed or taken away.                               *)
(***************************************************************************)
EXTENDS Naturals, Sequences

CONSTANT Value

VARIABLES log, fence
vars == <<log, fence>>

Advance == fence' = fence + 1 /\ UNCHANGED log

Append1(v) ==
  /\ \A i \in 1..Len(log) : log[i].value # v
  /\ log' = Append(log, [value |-> v, epoch |-> fence])
  /\ UNCHANGED fence

Init == log = <<>> /\ fence \in {0, 1}
Next == Advance \/ \E v \in Value : Append1(v)
Spec == Init /\ [][Next]_vars
=============================================================================
