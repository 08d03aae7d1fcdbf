--------------------------- MODULE MCActiveScan ---------------------------
(* Small deployments for TLC. *)
EXTENDS ActiveScan, TLC

CONSTANTS k1, t1, t2

OneStop      == {k1}
OneScenario  == {t1}
TwoScenarios == {t1, t2}

\* A stop among calls that all succeed, or everything lost and no stop.
StopOrLoss   == {{"stop"}, {"rpc", "restart", "guard", "registry"}}
StopAndLoss  == {{"stop", "guard", "registry"}}

Symmetric == Permutations(TwoScenarios)

(* Where states are told apart by what the future and the run's properties depend  *)
(* on: not by the state of a session that was followed by another, by what a task,   *)
(* a stop or a thread that is over answered, by a guard that lets nothing through    *)
(* any more, nor by the expiry of a lease nobody will ask about again.              *)
When(relevant, value) == IF relevant THEN value ELSE 0

AskedFor(l) ==
  \/ l \in {store.lease, guard.lease, slot.lease} \/ armCall[l] = "sent"
  \/ \E s \in Session : task[s].lease = l /\ run[s].pc \in {"sent", "begun", "granted", "tracked"}

Relevant ==
  <<world, scenario, {l \in late : AskedFor(l)},
    cur, sess[cur], store, arming, slot, spent, flag,
    [s \in Session |->
       <<task[s].pc, task[s].lease, When(task[s].pc \in {"closing", "finishing"}, task[s].result),
         When(armCall[s] = "sent" \/ arming = s, armCall[s]),
         When(revoke[s] # "ended" \/ task[s].pc = "closing", revoke[s]),
         run[s].pc, run[s].engine = "alive",
         When(run[s].pc \in {"spawned", "disarmed"}, <<run[s].engine, run[s].traffic>>),
         When(run[s].pc # "ended" \/ task[s].pc = "running", run[s].out)>>],
    [k \in Stop |->
       <<stop[k].pc, When(stop[k].pc # "ended" \/ revoke[k] \in {"sent", "half"}, stop[k].session),
         When(revoke[k] # "ended" \/ stop[k].pc = "revoking", revoke[k]),
         kill[k].pc, kill[k].lease, When(kill[k].pc # "ended", kill[k].process)>>],
    When(\E k \in Stop : May("stop") /\ stop[k].pc \in {"idle", "stopping"}, leased),
    When(GuardOpen, guard)>>
=============================================================================
