--------------------------- MODULE MCScanService ---------------------------
(* Small deployments for TLC. *)
EXTENDS ScanService, TLC

CONSTANTS s1, s2, m1, m2

TwoScans   == {s1, s2}
Symmetric  == Permutations(TwoScans)

(* a finding; complete coverage without one; nothing that decides *)
Findings   == {<<"cross">>, <<"control", "denied">>, <<"odd">>}

(* States are told apart by what the future and the properties depend on: what a   *)
(* task holds is of no use when its flow is over, and whom a selection overtook      *)
(* only matters as long as the scan may still be planned.                          *)
At(s, places, value) == IF pc[s] \in places THEN value ELSE None

Relevant ==
  <<proc, work, drain, cancelling, loop, store, pc, provider, planner, select, rows, crashes, unsaved,
    [s \in Scan |-> <<IF pc[s] \in {"none", "new", "ended", "done"} THEN None ELSE mem[s],
                     At(s, {"bind", "verify", "decide"}, todo[s]), At(s, {"model"}, asked[s]),
                     At(s, {"new", "import", "head", "model", "reserve", "dispatch", "bind",
                            "verify"}, <<spent[s], s \in overtaken>>)>>],
    misled \ overtaken>>
=============================================================================
