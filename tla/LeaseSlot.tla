----------------------------- MODULE LeaseSlot -----------------------------
(***************************************************************************)
(* What the active-scan admission registry promises its callers, without   *)
(* files, threads or clocks: a slot for one lease, and a grant only of the *)
(* lease that stands in it unused, and never of a lease granted before.    *)
(* Admission implements it; ActiveScan is built on it.                     *)
(***************************************************************************)
CONSTANTS Lease, None

VARIABLES
  slot,   \* the lease that stands, and whether it was consumed since
  spent   \* the leases whose consumption was granted

slotVars == <<slot, spent>>

EmptySlot == [lease |-> None, used |-> FALSE]

SlotInit == slot = EmptySlot /\ spent = {}

(* An unspent lease takes the slot, from an expired one if need be. *)
Admit(l) ==
  /\ l \notin spent
  /\ slot' = [lease |-> l, used |-> FALSE]
  /\ UNCHANGED spent

Grant(l) ==
  /\ slot = [lease |-> l, used |-> FALSE] /\ l \notin spent
  /\ slot' = [slot EXCEPT !.used = TRUE]
  /\ spent' = spent \cup {l}

(* A consumption the caller is never told of. *)
Burn(l) ==
  /\ slot = [lease |-> l, used |-> FALSE]
  /\ slot' = [slot EXCEPT !.used = TRUE]
  /\ UNCHANGED spent

(* Revoked, expired, restarted. *)
Free ==
  /\ slot' = EmptySlot
  /\ UNCHANGED spent

SlotNext == Free \/ \E l \in Lease : Admit(l) \/ Grant(l) \/ Burn(l)

SlotSpec == SlotInit /\ [][SlotNext]_slotVars
=============================================================================
