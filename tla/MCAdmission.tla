---------------------------- MODULE MCAdmission ----------------------------
(* Small registries for TLC. *)
EXTENDS AdmissionSlot, TLC

CONSTANTS l1, l2, c1, c2

TwoLeases  == {l1, l2}
TwoThreads == {c1, c2}

(* The one lease expires before the other begins to be any good.            *)
FromStart  == [l \in {l1, l2} |-> 0]
Staggered  == [l \in {l1, l2} |-> IF l = l1 THEN 1 ELSE 2]

Threads == Permutations({c1, c2})

(* States are told apart by what the future and the properties depend on: what a *)
(* spoilt file says is never read again, nor the marker of a file that is there, *)
(* a registry that is not healthy never looks at a request, it refuses it or     *)
(* dies over it, a revocation asks for no time, of what was told it matters      *)
(* whether the lease is armed, and of a consumption whether it was in time.      *)
Asked(q) == IF q # None /\ q.op = "revoke" THEN q.lease ELSE q

Volume ==
  CASE disk.file = "ok"     -> <<disk.armed, disk.recent, disk.nonces>>
    [] disk.file = "bad"    -> "bad"
    [] disk.file = "absent" -> disk

Relevant ==
  <<up, reg, Volume, now, {l \in Lease : told[l] = "armed"},
    IF reg.healthy THEN [c \in Thread |-> Asked(req[c])] ELSE \E c \in Thread : req[c] # None,
    [k \in 1 .. Len(log) |-> <<log[k].lease, log[k].granted, log[k].at < Expires[log[k].lease]>>]>>
=============================================================================
