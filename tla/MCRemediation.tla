--------------------------- MODULE MCRemediation ---------------------------
(* Small deployments for TLC. *)
EXTENDS Remediation, TLC

CONSTANTS w1, w2

TwoWorkers == {w1, w2}
Symmetric  == Permutations(TwoWorkers)
=============================================================================
