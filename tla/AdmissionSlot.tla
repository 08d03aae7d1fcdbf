--------------------------- MODULE AdmissionSlot ---------------------------
(***************************************************************************)
(* The registry implements the slot of LeaseSlot, as long as no more       *)
(* leases are consumed than its nonce memory holds and the state file is   *)
(* not lost.                                                               *)
(***************************************************************************)
EXTENDS Admission

SlotOf ==
  [lease |-> reg.armed,
   used  |-> reg.armed # None /\ reg.recent[reg.armed] # "ARMED"]

Spent == {l \in Lease : \E k \in 1..Len(log) : log[k].granted /\ log[k].lease = l}

Slot == INSTANCE LeaseSlot WITH slot <- SlotOf, spent <- Spent

(* Every step of the registry is a step of the slot, or none: a grant only  *)
(* of the lease that stands armed, once in its life, whatever crashes and   *)
(* failed writes lie between.                                               *)
Implements == Slot!SlotSpec
=============================================================================
