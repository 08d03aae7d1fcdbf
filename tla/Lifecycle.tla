----------------------------- MODULE Lifecycle -----------------------------
(***************************************************************************)
(* The authorized assessment lifecycle of aegis/multi_agent/lifecycle.py.  *)
(*                                                                         *)
(* A stateless controller drives a DAG of stages.  Everything it knows is  *)
(* in a SQLite ledger that survives a crash of the controller; each ledger *)
(* call is one transaction, hence one step here, and the controller may    *)
(* die between any two of them.  An external stage (a provider or tool     *)
(* call) runs its effect at a broker outside the ledger: `effects' is what *)
(* the broker really did, and no guard of the controller reads it except   *)
(* through a dispatcher's answer or a reconciler's.                        *)
(*                                                                         *)
(* Abstractions.  One assessment.  One usage figure stands for the calls   *)
(* and the tokens, which the code treats alike.  `fresh' stands for        *)
(* produced_epoch = run_epoch.  An idempotency key is the pair of stage    *)
(* and attempt number (the caller passes the same key on every call of a   *)
(* stage and the code appends #attempt_no to it).  One controller runs at  *)
(* a time, an operator may request cancellation at any moment, and the     *)
(* lease may run out at any moment.  A failed transaction changes nothing  *)
(* and is a crash.  The audit table is append-only prose and is left out.  *)
(***************************************************************************)
EXTENDS Naturals, Sequences, FiniteSetsExt

CONSTANTS
  UNKNOWN,            \* usage that was not measured
  Outcomes,           \* what a dispatcher or executor may report
  Calls,              \* arguments run_external_stage is called with
  Internal,           \* stages the callers run with run_stage
  External,           \* stages the callers run with run_external_stage
  RequiredStages,     \* AssessmentSpec.required_stages
  PerStageBudget,     \* AssessmentSpec.per_stage_*
  CumulativeBudget,   \* AssessmentSpec.cumulative_*
  Obligations,        \* the cleanup obligations the caller passes
  MaxAttempts         \* bound: attempts of one stage that TLC explores

VARIABLES
  state,     \* lifecycle_assessments.state
  cancel,    \* lifecycle_assessments.cancel_requested
  expired,   \* now >= lease_expires_at
  rec,       \* lifecycle_stages, one record per stage
  attempts,  \* lifecycle_attempts, ordered by attempt_no
  cleanup,   \* lifecycle_cleanup, one entry per obligation
  ctl,       \* volatile: the call the controller is in the middle of
  verdict,   \* volatile: the last AssessmentVerdict handed out
  effects    \* the broker: effects that really happened, in order

vars == <<state, cancel, expired, rec, attempts, cleanup, ctl, verdict, effects>>

-----------------------------------------------------------------------------
(* Stages, the DAG, and the overall state machine.                          *)

Control == {"AUTHORIZE", "PREPARE"}
Stage   == {"AUTHORIZE", "PREPARE", "EXECUTE", "VERIFY", "REMEDIATE", "RETEST",
            "REPORT", "CLEANUP"}
Evidence == {"EXECUTE", "VERIFY", "RETEST"}

StageDeps == [s \in Stage |->
  CASE s = "PREPARE"   -> {"AUTHORIZE"}
    [] s = "EXECUTE"   -> {"PREPARE"}
    [] s = "VERIFY"    -> {"EXECUTE"}
    [] s = "REMEDIATE" -> {"VERIFY"}
    [] s = "RETEST"    -> {"REMEDIATE"}
    [] s = "REPORT"    -> {"VERIFY"}
    [] OTHER           -> {}]

Terminal == {"COMPLETED", "PARTIAL", "FAILED", "CANCELLED", "CLEANUP_FAILED"}
Active   == {"CREATED", "AUTHORIZED", "READY", "RUNNING", "VERIFYING", "REMEDIATING",
             "RETESTING", "REPORTING", "CLEANING_UP"}
State    == Active \cup Terminal

ActiveState == [s \in Stage |->
  CASE s = "AUTHORIZE" -> "AUTHORIZED"
    [] s = "PREPARE"   -> "READY"
    [] s = "EXECUTE"   -> "RUNNING"
    [] s = "VERIFY"    -> "VERIFYING"
    [] s = "REMEDIATE" -> "REMEDIATING"
    [] s = "RETEST"    -> "RETESTING"
    [] s = "REPORT"    -> "REPORTING"
    [] s = "CLEANUP"   -> "CLEANING_UP"]

ActiveExits == {"CLEANING_UP", "CANCELLED", "FAILED"}

(* Faulty: a report may follow a remediation at once. *)
TransitionsSkippingRetest == [s \in State |->
  CASE s = "CREATED"     -> {"AUTHORIZED"} \cup ActiveExits
    [] s = "AUTHORIZED"  -> {"READY"} \cup ActiveExits
    [] s = "READY"       -> {"RUNNING"} \cup ActiveExits
    [] s = "RUNNING"     -> {"VERIFYING"} \cup ActiveExits
    [] s = "VERIFYING"   -> {"REMEDIATING", "REPORTING"} \cup ActiveExits
    [] s = "REMEDIATING" -> {"RETESTING", "REPORTING"} \cup ActiveExits
    [] s = "RETESTING"   -> {"REPORTING"} \cup ActiveExits
    [] s = "REPORTING"   -> ActiveExits
    [] s = "CLEANING_UP" -> Terminal
    [] OTHER             -> {}]

Transitions == [s \in State |->
  CASE s = "CREATED"     -> {"AUTHORIZED"} \cup ActiveExits
    [] s = "AUTHORIZED"  -> {"READY"} \cup ActiveExits
    [] s = "READY"       -> {"RUNNING"} \cup ActiveExits
    [] s = "RUNNING"     -> {"VERIFYING"} \cup ActiveExits
    [] s = "VERIFYING"   -> {"REMEDIATING", "REPORTING"} \cup ActiveExits
    [] s = "REMEDIATING" -> {"RETESTING"} \cup ActiveExits
    [] s = "RETESTING"   -> {"REPORTING"} \cup ActiveExits
    [] s = "REPORTING"   -> ActiveExits
    [] s = "CLEANING_UP" -> Terminal
    [] OTHER             -> {}]

(* LifecycleLedger.set_state returns when nothing changes and raises on an  *)
(* illegal transition: MaySet is the condition under which it does not.     *)
MaySet(new) == new = state \/ new \in Transitions[state]

-----------------------------------------------------------------------------
(* Records.                                                                 *)

Usage   == Nat \cup {UNKNOWN}
Outcome == [ok: BOOLEAN, fresh: BOOLEAN, usage: Usage]

(* The arguments of run_external_stage that decide anything; reconcilable   *)
(* says that a reconcile callback is passed as well.                        *)
Call   == [paid: BOOLEAN, reconcilable: BOOLEAN, auth: BOOLEAN, operator: BOOLEAN]

ASSUME LifecycleAssumption ==
  /\ UNKNOWN \notin Nat
  /\ Outcomes \subseteq Outcome
  /\ Calls \subseteq Call
  /\ Internal \subseteq Stage \ (Control \cup {"CLEANUP"})
  /\ External \subseteq Stage \ (Control \cup {"CLEANUP"})
  /\ Internal \cap External = {}
  /\ RequiredStages \subseteq Stage
  /\ PerStageBudget \in Nat
  /\ CumulativeBudget \in Nat
  /\ MaxAttempts \in Nat

NoOutcome == [ok |-> FALSE, fresh |-> FALSE, usage |-> 0]

NoCall == [paid |-> FALSE, reconcilable |-> FALSE, auth |-> FALSE, operator |-> FALSE]

StageStatus == {"none", "RUNNING", "DONE", "FAILED"}
StageRecord == [status: StageStatus, fresh: BOOLEAN, usage: Usage]
Blank(st)   == [status |-> st, fresh |-> FALSE, usage |-> 0]

AttemptStatus == {"PREPARED", "DISPATCHED", "COMPLETED", "FAILED", "SUPERSEDED"}
Attempt == [status: AttemptStatus, call: Call, dispatched: BOOLEAN,
            fresh: BOOLEAN, usage: Usage]

Effect == [no: Nat \ {0}, out: Outcome]

Verdict   == [final: Terminal, complete: BOOLEAN, usage: Nat]
NoVerdict == [final |-> "none", complete |-> FALSE, usage |-> 0]

PC == {"idle", "open", "enter", "running", "mark_dispatched", "dispatch", "returned",
       "commit", "fail", "reconcile", "execute", "control", "cleanup", "finalize"}

(* The call in progress: where it is, its stage, the attempt it works on,   *)
(* its arguments, the dispatcher's answer, the obligations still to run and *)
(* the verdict about to be returned.                                        *)
NoCtl == [pc |-> "idle", stage |-> "CLEANUP", no |-> 0, call |-> NoCall,
          out |-> NoOutcome, todo |-> {}, allok |-> TRUE, verdict |-> NoVerdict]

Idle     == ctl.pc = "idle"
Goto(pc) == ctl' = [ctl EXCEPT !.pc = pc]
Return   == ctl' = NoCtl

-----------------------------------------------------------------------------
(* Questions asked of the ledger.                                           *)

Done(s) == rec[s].status = "DONE"

(* _aggregate_usage *)
Charged(s)        == IF Done(s) /\ rec[s].usage # UNKNOWN THEN rec[s].usage ELSE 0
AggregateUsage    == Charged("AUTHORIZE") + Charged("PREPARE") + Charged("EXECUTE")
                     + Charged("VERIFY") + Charged("REMEDIATE") + Charged("RETEST")
                     + Charged("REPORT") + Charged("CLEANUP")
AggregateComplete == \A s \in Stage : Done(s) => rec[s].usage # UNKNOWN

(* _check_budget, against the usage of one response *)
(* Faulty: forgets what is already charged. *)
WithinStageBudgetOnly(u) == u <= PerStageBudget

WithinBudget(u) ==
  /\ u <= PerStageBudget
  /\ AggregateComplete
  /\ AggregateUsage + u <= CumulativeBudget

With(s, st) == {i \in 1..Len(attempts[s]) : attempts[s][i].status = st}

Completed(s) == With(s, "COMPLETED")
Unknown(s)   == With(s, "DISPATCHED")
Stale(s)     == Unknown(s) \cup With(s, "PREPARED")

HasUnreconciledEffect ==
  \E s \in External : Unknown(s) \cup With(s, "SUPERSEDED") # {}

(* _preflight *)
Preflight(s) ==
  /\ state \notin Terminal
  /\ ~cancel
  /\ ~expired
  /\ \A d \in StageDeps[s] : Done(d)

(* _upstream_evidence *)
FreshUpstream(s) == \A d \in StageDeps[s] \cap Evidence : rec[d].fresh

(* Faulty: asks for the operator only when the new call is paid. *)
MayReissueNewPaidOnly(s, c) == c.auth /\ (c.paid => c.operator)

(* A new attempt may replace an unknown one: an explicit decision, and the  *)
(* operator's too when either of the two calls is paid.                     *)
MayReissue(s, c) ==
  /\ c.auth
  /\ c.paid \/ attempts[s][Max(Unknown(s))].call.paid => c.operator

-----------------------------------------------------------------------------
(* Ledger writes.                                                           *)

WriteStage(s, r)      == rec' = [rec EXCEPT ![s] = r]
WriteAttempt(s, i, a) == attempts' = [attempts EXCEPT ![s][i] = a]
MarkAttempt(s, i, st) == WriteAttempt(s, i, [attempts[s][i] EXCEPT !.status = st])

(* What a response leaves in the stage record: FAILED when it is stale, not *)
(* ok or unmeasured; DONE with its usage when the budget allows; nothing    *)
(* when _check_budget raises.                                               *)
Settle(s, o) ==
  IF ~o.fresh \/ ~o.ok \/ o.usage = UNKNOWN
  THEN WriteStage(s, Blank("FAILED"))
  ELSE IF WithinBudget(o.usage)
       THEN WriteStage(s, [status |-> "DONE", fresh |-> TRUE, usage |-> o.usage])
       ELSE UNCHANGED rec

-----------------------------------------------------------------------------
Init ==
  /\ state = "CREATED"
  /\ cancel = FALSE
  /\ expired = FALSE
  /\ rec = [s \in Stage |-> Blank("none")]
  /\ attempts = [s \in External |-> <<>>]
  /\ cleanup = [o \in Obligations |-> "none"]
  /\ ctl = NoCtl
  /\ verdict = NoVerdict
  /\ effects = [s \in External |-> <<>>]

(* The world: an operator, the clock, a crash.                              *)

RequestCancel ==
  /\ ~cancel
  /\ cancel' = TRUE
  /\ UNCHANGED <<state, expired, rec, attempts, cleanup, ctl, verdict, effects>>

LeaseExpires ==
  /\ ~expired
  /\ expired' = TRUE
  /\ UNCHANGED <<state, cancel, rec, attempts, cleanup, ctl, verdict, effects>>

(* The process dies, or a callback raises out of the call.                  *)
Crash ==
  /\ ~Idle
  /\ Return
  /\ UNCHANGED <<state, cancel, expired, rec, attempts, cleanup, verdict, effects>>

-----------------------------------------------------------------------------
(* authorize and mark_ready.  authorize makes none of the preflight checks  *)
(* but the lease's.                                                         *)

Begin(s, pc, c, no) == ctl' = [NoCtl EXCEPT !.pc = pc, !.stage = s, !.call = c, !.no = no]

Authorize ==
  /\ Idle /\ ~expired /\ ~Done("AUTHORIZE")
  /\ Begin("AUTHORIZE", "enter", NoCall, 0)
  /\ UNCHANGED <<state, cancel, expired, rec, attempts, cleanup, verdict, effects>>

MarkReady ==
  /\ Idle /\ Preflight("PREPARE") /\ ~Done("PREPARE")
  /\ Begin("PREPARE", "enter", NoCall, 0)
  /\ UNCHANGED <<state, cancel, expired, rec, attempts, cleanup, verdict, effects>>

CommitControl ==
  /\ ctl.pc = "control"
  /\ WriteStage(ctl.stage, [status |-> "DONE", fresh |-> TRUE, usage |-> 0])
  /\ Return
  /\ UNCHANGED <<state, cancel, expired, attempts, cleanup, verdict, effects>>

(* set_state on behalf of every stage; LifecycleStateError ends the call.   *)
EnterState ==
  /\ ctl.pc = "enter"
  /\ LET new == ActiveState[ctl.stage]
     IN IF MaySet(new)
        THEN /\ state' = new
             /\ Goto(IF ctl.stage \in Control THEN "control" ELSE "running")
        ELSE Return /\ UNCHANGED state
  /\ UNCHANGED <<cancel, expired, rec, attempts, cleanup, verdict, effects>>

(* Faulty: the dispatched mark is not written before the call goes out. *)
MarkRunningThenDispatch ==
  /\ ctl.pc = "running"
  /\ WriteStage(ctl.stage, Blank("RUNNING"))
  /\ Goto(IF ctl.stage \in External THEN "dispatch" ELSE "execute")
  /\ UNCHANGED <<state, cancel, expired, attempts, cleanup, verdict, effects>>

MarkRunning ==
  /\ ctl.pc = "running"
  /\ WriteStage(ctl.stage, Blank("RUNNING"))
  /\ Goto(IF ctl.stage \in External THEN "mark_dispatched" ELSE "execute")
  /\ UNCHANGED <<state, cancel, expired, attempts, cleanup, verdict, effects>>

-----------------------------------------------------------------------------
(* run_stage                                                                *)

RunStage(s) ==
  /\ Idle /\ Preflight(s) /\ ~Done(s) /\ FreshUpstream(s)
  /\ Begin(s, "enter", NoCall, 0)
  /\ UNCHANGED <<state, cancel, expired, rec, attempts, cleanup, verdict, effects>>

ExecutorReports(o) ==
  /\ ctl.pc = "execute"
  /\ Settle(ctl.stage, o)
  /\ Return
  /\ UNCHANGED <<state, cancel, expired, attempts, cleanup, verdict, effects>>

-----------------------------------------------------------------------------
(* run_external_stage                                                       *)

(* Which path the call takes, read off the attempts the ledger holds.       *)
Path(s, c) ==
  CASE Completed(s) # {} -> "commit"
    [] Completed(s) = {} /\ Unknown(s) = {} -> "open"
    [] OTHER -> LET u == Max(Unknown(s))
                IN IF c.reconcilable /\ attempts[s][u].call.reconcilable THEN "reconcile"
                   ELSE IF MayReissue(s, c) THEN "open" ELSE "raise"

(* bound *)
MayOpen(s) == Len(attempts[s]) < MaxAttempts

RunExternalStage(s, c) ==
  /\ Idle /\ Preflight(s) /\ ~Done(s) /\ FreshUpstream(s)
  /\ Path(s, c) # "raise"
  /\ Path(s, c) = "open" => MayOpen(s)
  /\ Begin(s, Path(s, c), c,
           CASE Path(s, c) = "commit"    -> Min(Completed(s))
             [] Path(s, c) = "reconcile" -> Max(Unknown(s))
             [] OTHER                    -> 0)
  /\ UNCHANGED <<state, cancel, expired, rec, attempts, cleanup, verdict, effects>>

(* Faulty: a usage the broker did not measure is taken for zero. *)
ReconcileAdoptsZero ==
  /\ ctl.pc = "reconcile"
  /\ \E k \in 1..Len(effects[ctl.stage]) :
       LET e == effects[ctl.stage][k]
       IN /\ e.no = ctl.no
          /\ WriteAttempt(ctl.stage, ctl.no,
                [attempts[ctl.stage][ctl.no] EXCEPT !.status = "COMPLETED", !.fresh = e.out.fresh,
                   !.usage = IF e.out.usage = UNKNOWN THEN 0 ELSE e.out.usage])
  /\ Goto("commit")
  /\ UNCHANGED <<state, cancel, expired, rec, cleanup, verdict, effects>>

(* The broker knows the key of the unknown attempt: its answer is adopted.  *)
ReconcileAdopts ==
  /\ ctl.pc = "reconcile"
  /\ \E k \in 1..Len(effects[ctl.stage]) :
       LET e == effects[ctl.stage][k]
       IN /\ e.no = ctl.no
          /\ WriteAttempt(ctl.stage, ctl.no,
                [attempts[ctl.stage][ctl.no] EXCEPT !.status = "COMPLETED",
                   !.fresh = e.out.fresh, !.usage = e.out.usage])
  /\ Goto("commit")
  /\ UNCHANGED <<state, cancel, expired, rec, cleanup, verdict, effects>>

(* The broker cannot tell: the effect stays unknown.                        *)
ReconcileCannotTell ==
  /\ ctl.pc = "reconcile"
  /\ IF MayReissue(ctl.stage, ctl.call) /\ MayOpen(ctl.stage) THEN Goto("open") ELSE Return
  /\ UNCHANGED <<state, cancel, expired, rec, attempts, cleanup, verdict, effects>>

Supersede ==
  /\ ctl.pc = "open"
  /\ \E i \in Stale(ctl.stage) : MarkAttempt(ctl.stage, i, "SUPERSEDED")
  /\ UNCHANGED <<state, cancel, expired, rec, cleanup, ctl, verdict, effects>>

PrepareAttempt ==
  /\ ctl.pc = "open"
  /\ Stale(ctl.stage) = {}
  /\ attempts' = [attempts EXCEPT ![ctl.stage] =
        Append(@, [status |-> "PREPARED", call |-> ctl.call, dispatched |-> FALSE,
                   fresh |-> FALSE, usage |-> 0])]
  /\ ctl' = [ctl EXCEPT !.pc = "enter", !.no = Len(attempts[ctl.stage]) + 1]
  /\ UNCHANGED <<state, cancel, expired, rec, cleanup, verdict, effects>>

MarkDispatched ==
  /\ ctl.pc = "mark_dispatched"
  /\ WriteAttempt(ctl.stage, ctl.no,
       [attempts[ctl.stage][ctl.no] EXCEPT !.status = "DISPATCHED", !.dispatched = TRUE])
  /\ Goto("dispatch")
  /\ UNCHANGED <<state, cancel, expired, rec, cleanup, verdict, effects>>

(* The dispatcher reaches the broker and answers.  One that reports a       *)
(* failure may have had its effect or not.                                  *)
DispatcherAnswers(o) ==
  /\ ctl.pc = "dispatch"
  /\ \/ effects' = [effects EXCEPT ![ctl.stage] = Append(@, [no |-> ctl.no, out |-> o])]
     \/ ~o.ok /\ UNCHANGED effects
  /\ ctl' = [ctl EXCEPT !.pc = "returned", !.out = o]
  /\ UNCHANGED <<state, cancel, expired, rec, attempts, cleanup, verdict>>

PersistResponse ==
  /\ ctl.pc = "returned"
  /\ IF ctl.out.ok
     THEN WriteAttempt(ctl.stage, ctl.no,
            [attempts[ctl.stage][ctl.no] EXCEPT !.status = "COMPLETED",
               !.fresh = ctl.out.fresh, !.usage = ctl.out.usage])
     ELSE MarkAttempt(ctl.stage, ctl.no, "FAILED")
  /\ ctl' = [ctl EXCEPT !.pc = IF ctl.out.ok THEN "commit" ELSE "fail", !.out = NoOutcome]
  /\ UNCHANGED <<state, cancel, expired, rec, cleanup, verdict, effects>>

FailStage ==
  /\ ctl.pc = "fail"
  /\ WriteStage(ctl.stage, Blank("FAILED"))
  /\ Return
  /\ UNCHANGED <<state, cancel, expired, attempts, cleanup, verdict, effects>>

(* _commit_stage_done: the ok of a reconciled answer is not looked at.      *)
CommitStageDone ==
  /\ ctl.pc = "commit"
  /\ LET a == attempts[ctl.stage][ctl.no]
     IN Settle(ctl.stage, [ok |-> TRUE, fresh |-> a.fresh, usage |-> a.usage])
  /\ Return
  /\ UNCHANGED <<state, cancel, expired, attempts, cleanup, verdict, effects>>

-----------------------------------------------------------------------------
(* run_cleanup: also on a terminal assessment, where only the state stays.  *)

RunCleanup ==
  /\ Idle
  /\ state' = IF state \in Terminal THEN state ELSE "CLEANING_UP"
  /\ ctl' = [NoCtl EXCEPT !.pc = "cleanup", !.todo = Obligations]
  /\ UNCHANGED <<cancel, expired, rec, attempts, cleanup, verdict, effects>>

Compensate(o, ok) ==
  /\ ctl.pc = "cleanup" /\ o \in ctl.todo
  /\ cleanup' = [cleanup EXCEPT ![o] = IF ok THEN "compensated" ELSE "failed"]
  /\ ctl' = [ctl EXCEPT !.todo = @ \ {o}, !.allok = @ /\ ok]
  /\ UNCHANGED <<state, cancel, expired, rec, attempts, verdict, effects>>

EndCleanup ==
  /\ ctl.pc = "cleanup" /\ ctl.todo = {}
  /\ WriteStage("CLEANUP", [status |-> IF ctl.allok THEN "DONE" ELSE "FAILED",
                            fresh |-> TRUE, usage |-> 0])
  /\ Return
  /\ UNCHANGED <<state, cancel, expired, attempts, cleanup, verdict, effects>>

-----------------------------------------------------------------------------
(* finalize                                                                 *)

Entries       == {o \in Obligations : cleanup[o] # "none"}
(* Faulty: one compensated obligation is enough. *)
CleanupSomeOk == \E o \in Entries : cleanup[o] = "compensated"

CleanupOk     == Entries # {} /\ \A o \in Entries : cleanup[o] = "compensated"
RequiredDone  == \A s \in RequiredStages : Done(s)

FinalState ==
  CASE Entries = {}  -> "PARTIAL"
    [] Entries # {} /\ ~CleanupOk -> "CLEANUP_FAILED"
    [] CleanupOk /\ cancel -> "CANCELLED"
    [] CleanupOk /\ ~cancel /\ RequiredDone -> "COMPLETED"
    [] OTHER -> "PARTIAL"

ComputeVerdict ==
  [final    |-> FinalState,
   complete |-> AggregateComplete /\ ~HasUnreconciledEffect,
   usage    |-> AggregateUsage]

(* The write that follows the reads: the final state when it can be         *)
(* reached, CLEANING_UP on the way to it when not, and nothing when the     *)
(* state is terminal already: the verdict is returned all the same.         *)
Finalize ==
  /\ Idle
  /\ LET v == ComputeVerdict
     IN IF MaySet(v.final) \/ state \in Terminal
        THEN /\ state' = IF MaySet(v.final) THEN v.final ELSE state
             /\ verdict' = v
             /\ UNCHANGED ctl
        ELSE /\ state' = "CLEANING_UP"
             /\ ctl' = [NoCtl EXCEPT !.pc = "finalize", !.verdict = v]
             /\ UNCHANGED verdict
  /\ UNCHANGED <<cancel, expired, rec, attempts, cleanup, effects>>

FinishFinalize ==
  /\ ctl.pc = "finalize"
  /\ state' = ctl.verdict.final
  /\ verdict' = ctl.verdict
  /\ Return
  /\ UNCHANGED <<cancel, expired, rec, attempts, cleanup, effects>>

-----------------------------------------------------------------------------
Next ==
  \/ RequestCancel \/ LeaseExpires \/ Crash
  \/ Authorize \/ MarkReady \/ CommitControl \/ EnterState \/ MarkRunning
  \/ \E s \in Internal : RunStage(s)
  \/ \E o \in Outcomes : ExecutorReports(o) \/ DispatcherAnswers(o)
  \/ \E s \in External, c \in Calls : RunExternalStage(s, c)
  \/ ReconcileAdopts \/ ReconcileCannotTell \/ Supersede \/ PrepareAttempt
  \/ MarkDispatched \/ PersistResponse \/ FailStage \/ CommitStageDone
  \/ RunCleanup \/ EndCleanup
  \/ \E o \in Obligations, ok \in BOOLEAN : Compensate(o, ok)
  \/ Finalize \/ FinishFinalize

Spec == Init /\ [][Next]_vars

-----------------------------------------------------------------------------
(* Properties.                                                              *)

(* The type invariant. *)
TypeOK ==
  /\ state \in State
  /\ cancel \in BOOLEAN
  /\ expired \in BOOLEAN
  /\ rec \in [Stage -> StageRecord]
  /\ attempts \in [External -> Seq(Attempt)]
  /\ cleanup \in [Obligations -> {"none", "compensated", "failed"}]
  /\ ctl \in [pc: PC, stage: Stage, no: Nat, call: Call, out: Outcome,
              todo: SUBSET Obligations, allok: BOOLEAN, verdict: Verdict \cup {NoVerdict}]
  /\ verdict \in Verdict \cup {NoVerdict}
  /\ effects \in [External -> Seq(Effect)]

(* However often a stage is crashed, resumed and reissued, only its last    *)
(* attempt is still open or can be replayed: every earlier one is FAILED or *)
(* SUPERSEDED, so no resume can pick an answer that was given up on.        *)
OneLive ==
  \A s \in External : \A i \in 1..Len(attempts[s]) :
     i < Len(attempts[s]) => attempts[s][i].status \in {"FAILED", "SUPERSEDED"}

(* No effect without a durable trace: whatever happened at the broker has   *)
(* an attempt in the ledger marked dispatched, and no idempotency key       *)
(* reaches the broker twice.                                                *)
WriteAhead ==
  \A s \in External : \A k \in 1..Len(effects[s]) :
     /\ effects[s][k].no \in 1..Len(attempts[s])
     /\ attempts[s][effects[s][k].no].dispatched
     /\ \A l \in 1..Len(effects[s]) : l # k => effects[s][l].no # effects[s][k].no

(* A DONE external stage is backed by its last attempt, COMPLETED, and by   *)
(* an effect the broker really had under that key: the usage charged is the *)
(* usage of that effect, at the current run epoch.                          *)
DoneBacked ==
  \A s \in External : Done(s) =>
     /\ Completed(s) = {Len(attempts[s])}
     /\ \E k \in 1..Len(effects[s]) :
          /\ effects[s][k].no = Len(attempts[s])
          /\ effects[s][k].out.fresh
          /\ effects[s][k].out.usage = rec[s].usage

(* What is charged never exceeds the per-stage nor the cumulative budget,   *)
(* in whatever order stages fail, are retried and are replayed.             *)
BudgetRespected ==
  /\ \A s \in Stage : Charged(s) <= PerStageBudget
  /\ AggregateUsage <= CumulativeBudget

(* A call of unknown outcome is given up only under an explicit decision,   *)
(* and the operator's as well when the call given up or the new one is paid.*)
GivenUpExplicitly ==
  [][\A s \in External : \A i \in 1..Len(attempts[s]) :
       attempts[s][i].status = "DISPATCHED" /\ attempts'[s][i].status = "SUPERSEDED"
         => /\ ctl.call.auth
            /\ attempts[s][i].call.paid \/ ctl.call.paid => ctl.call.operator]_vars

(* A committed charge is never touched again: no re-execution, no second    *)
(* charge, no failure recorded over it.                                     *)
DoneIsFinal ==
  [][\A s \in Stage \ {"CLEANUP"} : Done(s) => rec'[s] = rec[s]]_vars

(* COMPLETED is reached only with every required stage DONE and every       *)
(* obligation compensated, also when a cleanup was cut short and rerun.     *)
CompletedEarned ==
  [][state' = "COMPLETED" /\ state # "COMPLETED" =>
       /\ RequiredDone
       /\ CleanupOk
       /\ "CLEANUP" \in RequiredStages => \A o \in Obligations : cleanup[o] = "compensated"]_vars

(* The state machine, not the DAG, keeps a report from skipping the retest: *)
(* once a remediation has begun, REPORT is DONE only if a retest was at     *)
(* least prepared, whatever crashed in between.                             *)
ReportAfterRetest ==
  Done("REPORT") /\ rec["REMEDIATE"].status # "none" /\ "RETEST" \in External
    => attempts["RETEST"] # <<>>
=============================================================================
