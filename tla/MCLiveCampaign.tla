--------------------------- MODULE MCLiveCampaign ---------------------------
(* One run of each campaign for TLC. States are told apart by what the future and *)
(* the properties still depend on.                                             *)
EXTENDS LiveCampaign

(* What can only be seen where the other arm should be, or not at all: no GO is *)
(* possible with it on record (a lost login after the burst is no such thing). *)
Spoils == [vulnerable |-> {"lost", "throttled", "stripped", "refused", "INCOMPLETE", "PASS"},
           patched    |-> {"reached", "credential", "INCOMPLETE", "CONFIRMED"}]

Lost ==
    \/ ~record.good \/ ~Paid \/ record.down = "failed" \/ record.listed # {}
    \/ \E a \in Arm, s \in {"baseline", "alternate", "control", "boundary", "control_A",
                            "control_B", "service", "adjudicate", "verify", "verify_B"} :
          \/ /\ Saw(a, s) \in Spoils[a]
             /\ s = "boundary" => campaign = "chain" /\ Saw(a, s) # "credential"
          \/ Saw(a, s) = "lost" /\ s \in {"baseline", "alternate", "control"}
    \/ part \notin {"setup", "vulnerable"} /\ ~ArmVerdict("vulnerable")
    \/ part \notin {"setup", "vulnerable", "patched"} /\ ~ArmVerdict("patched")

(* Of a campaign that cannot be a GO any more the rows remain, and what its steps  *)
(* still depend on.                                                           *)
Way ==
    <<campaign, part, todo, record.up, record.stopped, record.errors, rows, left,
      IF campaign = "adversary" THEN usage
      ELSE IF campaign = "chain" /\ part \in Arm
           THEN <<range.vulnerable, others,
                  Saw(part, "boundary"), Saw(part, "verify"), Saw(part, "verify_B")>>
           ELSE <<>> >>

(* Once an exception is on its way nothing is written, and only the stacks matter. *)
Remembered ==
    IF raised THEN <<campaign, part, todo, left>> ELSE IF Lost /\ written = None THEN Way ELSE vars
=============================================================================
