-------------------------- MODULE LifecycleProofs --------------------------
(***************************************************************************)
(* Theorems about Lifecycle, for every set of outcomes, calls, stages,     *)
(* obligations and budgets.                                                *)
(***************************************************************************)
EXTENDS Lifecycle, TLAPS

USE DEF Control

(* Every figure the aggregate adds up is a number, so the aggregate is.     *)
LEMMA AggregateIsNat ==
  ASSUME TypeOK PROVE AggregateUsage \in Nat
<1>1. ASSUME NEW s \in Stage PROVE Charged(s) \in Nat
  BY DEF TypeOK, StageRecord, Usage, Charged
<1> QED
  BY <1>1 DEF AggregateUsage, Stage

(* The verdict finalize computes is a verdict: its state is terminal.       *)
LEMMA VerdictType ==
  ASSUME TypeOK PROVE ComputeVerdict \in Verdict
<1>1. FinalState \in Terminal
  BY DEF FinalState, Terminal, CleanupOk
<1>2. /\ AggregateComplete \in BOOLEAN
      /\ HasUnreconciledEffect \in BOOLEAN
  BY DEF AggregateComplete, HasUnreconciledEffect
<1> QED
  BY <1>1, <1>2, AggregateIsNat DEF ComputeVerdict, Verdict

(* What a response leaves in a stage record is a stage record. *)
LEMMA SettleType ==
  ASSUME TypeOK, NEW s \in Stage, NEW o, o.usage \in Usage, o.fresh \in BOOLEAN, Settle(s, o)
  PROVE  rec' \in [Stage -> StageRecord]
<1>1. \A st \in StageStatus : Blank(st) \in StageRecord
  BY DEF Blank, StageRecord, Usage
<1>2. [status |-> "DONE", fresh |-> TRUE, usage |-> o.usage] \in StageRecord
  BY DEF StageRecord, StageStatus
<1> QED
  BY <1>1, <1>2 DEF Settle, WriteStage, TypeOK, StageStatus

(* Every state a stage drives the assessment into is a state. *)
LEMMA ActiveStateType == \A s \in Stage : ActiveState[s] \in Active
  BY DEF ActiveState, Stage, Active

(* Writing an attempt over one that is there keeps the attempts attempts.   *)
LEMMA AttemptWriteType ==
  ASSUME attempts \in [External -> Seq(Attempt)], NEW s \in External,
         NEW i \in 1..Len(attempts[s]), NEW a \in Attempt, WriteAttempt(s, i, a)
  PROVE  attempts' \in [External -> Seq(Attempt)]
<1>1. [attempts[s] EXCEPT ![i] = a] \in Seq(Attempt)
  OBVIOUS
<1> QED
  BY <1>1 DEF WriteAttempt

(* The attempt the controller has in hand is the last one of its stage, and *)
(* how far the call has come is how far that attempt has come.              *)
ExternalPC == {"open", "mark_dispatched", "dispatch", "returned", "commit", "fail", "reconcile"}
AttemptPC  == {"enter", "running", "mark_dispatched", "dispatch", "returned", "commit", "fail",
               "reconcile"}

CtlAttempt ==
  /\ ctl.pc \in ExternalPC => ctl.stage \in External
  /\ ctl.pc = "control" => ctl.stage \in Control
  /\ ctl.pc = "execute" => ctl.stage \notin External
  /\ ctl.pc = "finalize" => ctl.verdict \in Verdict
  /\ ctl.pc = "open" => Completed(ctl.stage) = {}
  /\ ctl.pc \in AttemptPC /\ ctl.stage \in External =>
       /\ ctl.no = Len(attempts[ctl.stage])
       /\ ctl.no \in 1..Len(attempts[ctl.stage])
  /\ ctl.pc \in {"enter", "running", "mark_dispatched"} /\ ctl.stage \in External =>
       attempts[ctl.stage][ctl.no].status = "PREPARED"
  /\ ctl.pc \in {"dispatch", "returned", "reconcile"} =>
       attempts[ctl.stage][ctl.no].status = "DISPATCHED"
  /\ ctl.pc = "commit" => attempts[ctl.stage][ctl.no].status = "COMPLETED"
  /\ ctl.pc = "fail" => attempts[ctl.stage][ctl.no].status = "FAILED"

IInv == TypeOK /\ OneLive /\ CtlAttempt

Ctl == [pc: PC, stage: Stage, no: Nat, call: Call, out: Outcome,
        todo: SUBSET Obligations, allok: BOOLEAN, verdict: Verdict \cup {NoVerdict}]

LEMMA NoCtlType == NoCtl \in Ctl
  BY DEF NoCtl, Ctl, PC, Stage, Call, NoCall, Outcome, NoOutcome, Usage

(* A call that returns, or dies, leaves nothing in hand. *)
LEMMA ReturnType ==
  ASSUME Return PROVE ctl' \in Ctl /\ CtlAttempt'
<1>1. ctl' = NoCtl /\ NoCtl.pc = "idle"
  BY DEF Return, NoCtl
<1> QED
  BY <1>1, NoCtlType DEF CtlAttempt, ExternalPC, AttemptPC

LEMMA BeginType ==
  ASSUME NEW s \in Stage, NEW pc \in PC, NEW c \in Call, NEW no \in Nat, Begin(s, pc, c, no)
  PROVE  /\ ctl' \in Ctl
         /\ ctl'.pc = pc /\ ctl'.stage = s /\ ctl'.call = c /\ ctl'.no = no
  BY NoCtlType DEF Begin, NoCtl, Ctl

LEMMA GotoType ==
  ASSUME TypeOK, NEW pc \in PC, Goto(pc)
  PROVE  /\ ctl' \in Ctl
         /\ ctl'.pc = pc /\ ctl'.stage = ctl.stage /\ ctl'.no = ctl.no
         /\ ctl'.call = ctl.call /\ ctl'.verdict = ctl.verdict
  BY DEF Goto, Ctl, TypeOK

(* Only the last attempt can be prepared, dispatched or completed, so the   *)
(* first and the last of such attempts are that one.                        *)
LEMMA LastOnly ==
  ASSUME TypeOK, OneLive, NEW s \in External, NEW st \in {"PREPARED", "DISPATCHED", "COMPLETED"},
         With(s, st) # {}
  PROVE  /\ With(s, st) = {Len(attempts[s])}
         /\ Len(attempts[s]) \in 1..Len(attempts[s])
         /\ attempts[s][Len(attempts[s])].status = st
         /\ Max(With(s, st)) = Len(attempts[s])
         /\ Min(With(s, st)) = Len(attempts[s])
<1> DEFINE n == Len(attempts[s])
<1>1. n \in Nat
  BY DEF TypeOK
<1>2. With(s, st) \subseteq {n}
  BY <1>1 DEF OneLive, With
<1>3. With(s, st) = {n}
  BY <1>2
<1>4. n \in 1..n /\ attempts[s][n].status = st
  BY <1>3 DEF With
<1>5. Max({n}) = n /\ Min({n}) = n
  BY <1>1 DEF Max, Min
<1> QED
  BY <1>3, <1>4, <1>5

(* Overwriting the attempt in hand with one of another status keeps every   *)
(* earlier attempt settled.                                                 *)
LEMMA OverwriteLast ==
  ASSUME IInv, NEW s \in External, NEW a \in Attempt,
         Len(attempts[s]) \in 1..Len(attempts[s]), WriteAttempt(s, Len(attempts[s]), a)
  PROVE  /\ attempts' \in [External -> Seq(Attempt)]
         /\ OneLive'
         /\ Len(attempts'[s]) = Len(attempts[s])
         /\ attempts'[s][Len(attempts[s])] = a
<1>1. attempts' \in [External -> Seq(Attempt)]
  BY AttemptWriteType DEF IInv, TypeOK
<1>2. /\ attempts'[s] = [attempts[s] EXCEPT ![Len(attempts[s])] = a]
      /\ \A r \in External : r # s => attempts'[r] = attempts[r]
  BY DEF WriteAttempt, IInv, TypeOK
<1>3. Len(attempts'[s]) = Len(attempts[s]) /\ attempts'[s][Len(attempts[s])] = a
  BY <1>2 DEF IInv, TypeOK
<1>4. ASSUME NEW r \in External, NEW i \in 1..Len(attempts'[r]), i < Len(attempts'[r])
      PROVE  attempts'[r][i].status \in {"FAILED", "SUPERSEDED"}
  <2>1. CASE r = s
    <3>1. attempts'[s][i] = attempts[s][i]
      BY <1>2, <1>3, <1>4, <2>1 DEF IInv, TypeOK
    <3> QED
      BY <1>3, <1>4, <2>1, <3>1 DEF IInv, OneLive
  <2>2. CASE r # s
    BY <1>2, <1>4, <2>2 DEF IInv, OneLive
  <2> QED
    BY <2>1, <2>2
<1> QED
  BY <1>1, <1>3, <1>4 DEF OneLive

(* The operator, the clock, a crash, and the calls that only begin. *)
LEMMA WorldStep ==
  ASSUME IInv, RequestCancel \/ LeaseExpires \/ Crash PROVE IInv'
<1>1. CASE RequestCancel
  BY <1>1 DEF RequestCancel, IInv, TypeOK, OneLive, CtlAttempt, Completed, With
<1>2. CASE LeaseExpires
  BY <1>2 DEF LeaseExpires, IInv, TypeOK, OneLive, CtlAttempt, Completed, With
<1>3. CASE Crash
  BY <1>3, ReturnType DEF Crash, IInv, TypeOK, OneLive, Ctl
<1> QED
  BY <1>1, <1>2, <1>3

LEMMA BeginStep ==
  ASSUME IInv, Authorize \/ MarkReady \/ \E s \in Internal : RunStage(s) PROVE IInv'
<1>1. ASSUME NEW s \in Stage, s \notin External, Begin(s, "enter", NoCall, 0),
             UNCHANGED <<state, cancel, expired, rec, attempts, cleanup, verdict, effects>>
      PROVE  IInv'
  <2>1. /\ ctl' \in Ctl
        /\ ctl'.pc = "enter" /\ ctl'.stage = s
    BY <1>1, BeginType DEF PC, Call, NoCall
  <2>2. TypeOK' /\ OneLive'
    BY <1>1, <2>1 DEF IInv, TypeOK, Ctl, OneLive
  <2>3. CtlAttempt'
    BY <1>1, <2>1 DEF CtlAttempt, ExternalPC, AttemptPC
  <2> QED
    BY <2>2, <2>3 DEF IInv
<1>2. \A s \in Internal \cup Control : s \in Stage /\ s \notin External
  BY LifecycleAssumption DEF Stage
<1> QED
  BY <1>1, <1>2 DEF Authorize, MarkReady, RunStage

LEMMA EnterStep ==
  ASSUME IInv, EnterState \/ MarkRunning PROVE IInv'
<1>1. CASE EnterState
  <2>1. CASE MaySet(ActiveState[ctl.stage])
    <3>1. /\ state' = ActiveState[ctl.stage]
          /\ Goto(IF ctl.stage \in Control THEN "control" ELSE "running")
      BY <1>1, <2>1 DEF EnterState
    <3>2. state' \in State
      BY <3>1, ActiveStateType DEF IInv, TypeOK, State
    <3> DEFINE pc == IF ctl.stage \in Control THEN "control" ELSE "running"
    <3>3. /\ ctl' \in Ctl
          /\ ctl'.pc = pc /\ ctl'.stage = ctl.stage /\ ctl'.no = ctl.no
      BY <3>1, GotoType DEF IInv, PC
    <3>4. TypeOK' /\ OneLive'
      BY <1>1, <3>2, <3>3 DEF EnterState, IInv, TypeOK, Ctl, OneLive
    <3>5. CtlAttempt'
      BY <1>1, <3>3 DEF EnterState, IInv, CtlAttempt, ExternalPC, AttemptPC, Completed, With
    <3> QED
      BY <3>4, <3>5 DEF IInv
  <2>2. CASE ~MaySet(ActiveState[ctl.stage])
    <3>1. Return /\ UNCHANGED state
      BY <1>1, <2>2 DEF EnterState
    <3> QED
      BY <1>1, <3>1, ReturnType DEF EnterState, IInv, TypeOK, Ctl, OneLive
  <2> QED
    BY <2>1, <2>2
<1>2. CASE MarkRunning
  <2> DEFINE pc == IF ctl.stage \in External THEN "mark_dispatched" ELSE "execute"
  <2>1. /\ ctl' \in Ctl
        /\ ctl'.pc = pc /\ ctl'.stage = ctl.stage /\ ctl'.no = ctl.no
    BY <1>2, GotoType DEF MarkRunning, IInv, PC
  <2>2. rec' \in [Stage -> StageRecord]
    BY <1>2 DEF MarkRunning, WriteStage, Blank, IInv, TypeOK, StageRecord, StageStatus, Usage
  <2>3. TypeOK' /\ OneLive'
    BY <1>2, <2>1, <2>2 DEF MarkRunning, IInv, TypeOK, Ctl, OneLive
  <2>4. CtlAttempt'
    BY <1>2, <2>1 DEF MarkRunning, IInv, CtlAttempt, ExternalPC, AttemptPC, Completed, With
  <2> QED
    BY <2>3, <2>4 DEF IInv
<1> QED
  BY <1>1, <1>2

(* The calls whose only write is a stage record, and that return after it.  *)
LEMMA StageWriteStep ==
  ASSUME IInv,
         CommitControl \/ FailStage \/ CommitStageDone \/ EndCleanup
           \/ \E o \in Outcomes : ExecutorReports(o)
  PROVE  IInv'
<1>1. /\ Return
      /\ UNCHANGED <<state, cancel, expired, attempts, cleanup, verdict, effects>>
  BY DEF CommitControl, FailStage, CommitStageDone, EndCleanup, ExecutorReports
<1>2. rec' \in [Stage -> StageRecord]
  <2>1. CASE CommitControl
    BY <2>1 DEF CommitControl, WriteStage, IInv, TypeOK, StageRecord, StageStatus, Usage
  <2>2. CASE FailStage
    BY <2>2 DEF FailStage, WriteStage, Blank, IInv, TypeOK, StageRecord, StageStatus, Usage
  <2>3. CASE EndCleanup
    BY <2>3 DEF EndCleanup, WriteStage, IInv, TypeOK, StageRecord, StageStatus, Usage
  <2>4. CASE CommitStageDone
    <3> DEFINE a == attempts[ctl.stage][ctl.no]
               o == [ok |-> TRUE, fresh |-> a.fresh, usage |-> a.usage]
    <3>1. a \in Attempt
      BY <2>4 DEF CommitStageDone, IInv, TypeOK, CtlAttempt, ExternalPC, AttemptPC
    <3>2. o.usage \in Usage /\ o.fresh \in BOOLEAN /\ Settle(ctl.stage, o) /\ ctl.stage \in Stage
      BY <2>4, <3>1 DEF CommitStageDone, Attempt, IInv, TypeOK
    <3> QED
      BY <3>2, SettleType DEF IInv
  <2>5. ASSUME NEW o \in Outcomes, ExecutorReports(o) PROVE rec' \in [Stage -> StageRecord]
    BY <2>5, LifecycleAssumption, SettleType DEF ExecutorReports, Outcome, IInv, TypeOK
  <2> QED
    BY <2>1, <2>2, <2>3, <2>4, <2>5
<1>3. ctl' \in Ctl /\ CtlAttempt'
  BY <1>1, ReturnType
<1> QED
  BY <1>1, <1>2, <1>3 DEF IInv, TypeOK, Ctl, OneLive

(* A resumed or fresh external call starts with the attempt the path found. *)
LEMMA RunExternalStep ==
  ASSUME IInv, NEW s \in External, NEW c \in Calls, RunExternalStage(s, c) PROVE IInv'
<1> DEFINE no == CASE Path(s, c) = "commit"    -> Min(Completed(s))
                   [] Path(s, c) = "reconcile" -> Max(Unknown(s))
                   [] OTHER                    -> 0
<1>1. s \in Stage /\ c \in Call
  BY LifecycleAssumption
<1>2. /\ Begin(s, Path(s, c), c, no)
      /\ UNCHANGED <<state, cancel, expired, rec, attempts, cleanup, verdict, effects>>
      /\ Path(s, c) # "raise"
  BY DEF RunExternalStage
<1>3. Path(s, c) \in {"commit", "open", "reconcile"}
  BY <1>2, Zenon DEF Path
<1>4. CASE Path(s, c) = "commit"
  <2>1. no = Len(attempts[s]) /\ no \in 1..Len(attempts[s]) /\ attempts[s][no].status = "COMPLETED"
    <3>1. Completed(s) # {}
      BY <1>4, Zenon DEF Path
    <3> QED
      BY <1>4, <3>1, LastOnly DEF Completed, IInv
  <2>2. /\ ctl' \in Ctl
        /\ ctl'.pc = "commit" /\ ctl'.stage = s /\ ctl'.no = no
    BY <1>1, <1>2, <1>4, <2>1, BeginType DEF PC
  <2> QED
    BY <1>2, <2>1, <2>2 DEF IInv, TypeOK, Ctl, OneLive, CtlAttempt, ExternalPC, AttemptPC
<1>5. CASE Path(s, c) = "reconcile"
  <2>1. no = Len(attempts[s]) /\ no \in 1..Len(attempts[s]) /\ attempts[s][no].status = "DISPATCHED"
    <3>1. Unknown(s) # {}
      BY <1>5, Zenon DEF Path
    <3> QED
      BY <1>5, <3>1, LastOnly DEF Unknown, IInv
  <2>2. /\ ctl' \in Ctl
        /\ ctl'.pc = "reconcile" /\ ctl'.stage = s /\ ctl'.no = no
    BY <1>1, <1>2, <1>5, <2>1, BeginType DEF PC
  <2> QED
    BY <1>2, <2>1, <2>2 DEF IInv, TypeOK, Ctl, OneLive, CtlAttempt, ExternalPC, AttemptPC
<1>6. CASE Path(s, c) = "open"
  <2>1. Completed(s) = {}
    BY <1>6, Zenon DEF Path
  <2>2. /\ ctl' \in Ctl
        /\ ctl'.pc = "open" /\ ctl'.stage = s
    BY <1>1, <1>2, <1>6, BeginType DEF PC
  <2> QED
    BY <1>2, <2>1, <2>2 DEF IInv, TypeOK, Ctl, OneLive, CtlAttempt, ExternalPC, AttemptPC,
                            Completed, With
<1> QED
  BY <1>3, <1>4, <1>5, <1>6

(* The steps that write an attempt. *)
LEMMA OverwriteStep ==
  ASSUME IInv, ReconcileAdopts \/ MarkDispatched \/ PersistResponse PROVE IInv'
<1> DEFINE s == ctl.stage
           n == Len(attempts[s])
<1>1. ASSUME NEW a \in Attempt, NEW pc \in PC, s \in External, ctl.no = n, n \in 1..n,
             WriteAttempt(s, n, a),
             ctl' \in Ctl, ctl'.pc = pc, ctl'.stage = s, ctl'.no = n,
             UNCHANGED <<state, cancel, expired, rec, cleanup, verdict, effects>>,
             \/ pc = "commit" /\ a.status = "COMPLETED"
             \/ pc = "dispatch" /\ a.status = "DISPATCHED"
             \/ pc = "fail" /\ a.status = "FAILED"
      PROVE  IInv'
  <2>1. /\ attempts' \in [External -> Seq(Attempt)]
        /\ OneLive'
        /\ Len(attempts'[s]) = n
        /\ attempts'[s][n] = a
    BY <1>1, OverwriteLast
  <2>2. TypeOK'
    BY <1>1, <2>1 DEF IInv, TypeOK, Ctl
  <2>3. CtlAttempt'
    BY <1>1, <2>1 DEF CtlAttempt, ExternalPC, AttemptPC
  <2> QED
    BY <2>1, <2>2, <2>3 DEF IInv
<1>2. CASE ReconcileAdopts
  <2>1. s \in External /\ ctl.no = n /\ n \in 1..n
    BY <1>2 DEF ReconcileAdopts, IInv, CtlAttempt, ExternalPC, AttemptPC
  <2>2. PICK k \in 1..Len(effects[s]) :
          WriteAttempt(s, n, [attempts[s][n] EXCEPT !.status = "COMPLETED",
            !.fresh = effects[s][k].out.fresh, !.usage = effects[s][k].out.usage])
    BY <1>2, <2>1 DEF ReconcileAdopts
  <2> DEFINE a == [attempts[s][n] EXCEPT !.status = "COMPLETED",
                    !.fresh = effects[s][k].out.fresh, !.usage = effects[s][k].out.usage]
  <2>3. attempts[s][n] \in Attempt /\ effects[s][k] \in Effect
    BY <2>1, <2>2 DEF IInv, TypeOK
  <2>4. a \in Attempt /\ a.status = "COMPLETED"
    BY <2>3 DEF Attempt, AttemptStatus, Effect, Outcome
  <2>5. ctl' \in Ctl /\ ctl'.pc = "commit" /\ ctl'.stage = s /\ ctl'.no = n
    BY <1>2, <2>1, GotoType DEF ReconcileAdopts, IInv, PC
  <2> QED
    BY <1>1, <1>2, <2>1, <2>2, <2>4, <2>5 DEF ReconcileAdopts, PC
<1>3. CASE MarkDispatched
  <2>1. s \in External /\ ctl.no = n /\ n \in 1..n
    BY <1>3 DEF MarkDispatched, IInv, CtlAttempt, ExternalPC, AttemptPC
  <2> DEFINE a == [attempts[s][n] EXCEPT !.status = "DISPATCHED", !.dispatched = TRUE]
  <2>2. attempts[s][n] \in Attempt
    BY <2>1 DEF IInv, TypeOK
  <2>3. a \in Attempt /\ a.status = "DISPATCHED"
    BY <2>2 DEF Attempt, AttemptStatus
  <2>4. ctl' \in Ctl /\ ctl'.pc = "dispatch" /\ ctl'.stage = s /\ ctl'.no = n
    BY <1>3, <2>1, GotoType DEF MarkDispatched, IInv, PC
  <2> QED
    BY <1>1, <1>3, <2>1, <2>3, <2>4 DEF MarkDispatched, PC
<1>4. CASE PersistResponse
  <2>1. s \in External /\ ctl.no = n /\ n \in 1..n
    BY <1>4 DEF PersistResponse, IInv, CtlAttempt, ExternalPC, AttemptPC
  <2>2. attempts[s][n] \in Attempt /\ ctl \in Ctl
    BY <2>1 DEF IInv, TypeOK, Ctl
  <2>3. CASE ctl.out.ok
    <3> DEFINE a == [attempts[s][n] EXCEPT !.status = "COMPLETED",
                      !.fresh = ctl.out.fresh, !.usage = ctl.out.usage]
    <3>1. a \in Attempt /\ a.status = "COMPLETED"
      BY <2>2 DEF Attempt, AttemptStatus, Ctl, Outcome
    <3>2. ctl' \in Ctl /\ ctl'.pc = "commit" /\ ctl'.stage = s /\ ctl'.no = n
      BY <1>4, <2>1, <2>2, <2>3 DEF PersistResponse, Ctl, PC, NoOutcome, Outcome, Usage
    <3> QED
      BY <1>1, <1>4, <2>1, <2>3, <3>1, <3>2 DEF PersistResponse, PC
  <2>4. CASE ~ctl.out.ok
    <3> DEFINE a == [attempts[s][n] EXCEPT !.status = "FAILED"]
    <3>1. a \in Attempt /\ a.status = "FAILED"
      BY <2>2 DEF Attempt, AttemptStatus
    <3>2. ctl' \in Ctl /\ ctl'.pc = "fail" /\ ctl'.stage = s /\ ctl'.no = n
      BY <1>4, <2>1, <2>2, <2>4 DEF PersistResponse, Ctl, PC, NoOutcome, Outcome, Usage
    <3> QED
      BY <1>1, <1>4, <2>1, <2>4, <3>1, <3>2 DEF PersistResponse, MarkAttempt, PC
  <2> QED
    BY <2>3, <2>4
<1> QED
  BY <1>2, <1>3, <1>4

(* Giving up the open attempt, then opening the next one. *)
LEMMA OpenStep ==
  ASSUME IInv, Supersede \/ PrepareAttempt PROVE IInv'
<1> DEFINE s == ctl.stage
           n == Len(attempts[s])
<1>1. s \in External /\ n \in Nat /\ Completed(s) = {} /\ attempts[s] \in Seq(Attempt)
  BY DEF Supersede, PrepareAttempt, IInv, CtlAttempt, ExternalPC, TypeOK
<1>2. CASE Supersede
  <2>1. PICK i \in Stale(s) : MarkAttempt(s, i, "SUPERSEDED")
    BY <1>2 DEF Supersede
  <2>2. i = n /\ n \in 1..n
    BY <1>1, <2>1, LastOnly DEF Stale, Unknown, IInv
  <2> DEFINE a == [attempts[s][n] EXCEPT !.status = "SUPERSEDED"]
  <2>3. a \in Attempt /\ a.status = "SUPERSEDED"
    <3>1. attempts[s][n] \in Attempt
      BY <1>1, <2>2
    <3> QED
      BY <3>1 DEF Attempt, AttemptStatus
  <2>4. /\ attempts' \in [External -> Seq(Attempt)]
        /\ OneLive'
        /\ Len(attempts'[s]) = n
        /\ attempts'[s][n] = a
    BY <1>1, <2>1, <2>2, <2>3, OverwriteLast DEF MarkAttempt
  <2>5. Completed(s)' = {}
    <3>1. s' = s
      BY <1>2 DEF Supersede
    <3>2. \A k \in 1..n : k < n => attempts'[s][k].status \in {"FAILED", "SUPERSEDED"}
      BY <1>1, <2>4 DEF OneLive
    <3>3. attempts'[s][n].status = "SUPERSEDED"
      BY <2>3, <2>4
    <3> HIDE DEF n, s
    <3>4. \A k \in 1..n : attempts'[s][k].status # "COMPLETED"
      BY <1>1, <3>2, <3>3
    <3> QED
      BY <2>4, <3>1, <3>4 DEF Completed, With
  <2>6. TypeOK'
    BY <1>2, <2>4 DEF Supersede, IInv, TypeOK
  <2>7. CtlAttempt'
    BY <1>1, <1>2, <2>5 DEF Supersede, IInv, CtlAttempt, ExternalPC, AttemptPC
  <2> QED
    BY <2>4, <2>6, <2>7 DEF IInv
<1>3. CASE PrepareAttempt
  <2> DEFINE a == [status |-> "PREPARED", call |-> ctl.call, dispatched |-> FALSE,
                   fresh |-> FALSE, usage |-> 0]
  <2>1. a \in Attempt
    BY DEF IInv, TypeOK, Attempt, AttemptStatus, Usage
  <2>2. attempts' = [attempts EXCEPT ![s] = Append(attempts[s], a)]
    BY <1>3 DEF PrepareAttempt
  <2>3. /\ attempts' \in [External -> Seq(Attempt)]
        /\ attempts'[s] = Append(attempts[s], a)
        /\ Len(attempts'[s]) = n + 1
        /\ attempts'[s][n + 1] = a
        /\ \A i \in 1..n : attempts'[s][i] = attempts[s][i]
        /\ \A r \in External : r # s => attempts'[r] = attempts[r]
    BY <1>1, <2>1, <2>2 DEF IInv, TypeOK
  <2>4. \A i \in 1..n : attempts[s][i].status \in {"FAILED", "SUPERSEDED"}
    <3>1. Unknown(s) = {} /\ With(s, "PREPARED") = {} /\ With(s, "COMPLETED") = {}
      BY <1>1, <1>3 DEF PrepareAttempt, Stale, Completed
    <3>2. \A i \in 1..n : attempts[s][i].status \in AttemptStatus
      <4>1. \A i \in 1..n : attempts[s][i] \in Attempt
        BY <1>1
      <4> QED
        BY <4>1 DEF Attempt
    <3> QED
      BY <3>1, <3>2 DEF Unknown, With, AttemptStatus
  <2>5. OneLive'
    <3>1. ASSUME NEW r \in External, NEW i \in 1..Len(attempts'[r]), i < Len(attempts'[r])
          PROVE  attempts'[r][i].status \in {"FAILED", "SUPERSEDED"}
      <4>1. CASE r = s
        <5>1. i \in 1..n
          BY <1>1, <2>3, <3>1, <4>1
        <5> QED
          BY <2>3, <2>4, <4>1, <5>1
      <4>2. CASE r # s
        BY <2>3, <3>1, <4>2 DEF IInv, OneLive
      <4> QED
        BY <4>1, <4>2
    <3> QED
      BY <3>1 DEF OneLive
  <2>6. ctl' \in Ctl /\ ctl'.pc = "enter" /\ ctl'.stage = s /\ ctl'.no = n + 1
    <3>1. ctl \in Ctl /\ ctl' = [ctl EXCEPT !.pc = "enter", !.no = n + 1]
      BY <1>3 DEF PrepareAttempt, IInv, TypeOK, Ctl
    <3>2. n + 1 \in Nat
      BY <1>1
    <3> HIDE DEF n
    <3> QED
      BY <3>1, <3>2 DEF Ctl, PC
  <2>7. TypeOK'
    BY <1>3, <2>3, <2>6 DEF PrepareAttempt, IInv, TypeOK, Ctl
  <2>8. CtlAttempt'
    BY <1>1, <2>3, <2>6 DEF CtlAttempt, ExternalPC, AttemptPC
  <2> QED
    BY <2>5, <2>7, <2>8 DEF IInv
<1> QED
  BY <1>2, <1>3

(* The broker: it answers a dispatch, or it cannot tell. *)
LEMMA BrokerStep ==
  ASSUME IInv, ReconcileCannotTell \/ \E o \in Outcomes : DispatcherAnswers(o) PROVE IInv'
<1>1. CASE ReconcileCannotTell
  <2>1. ctl.stage \in External /\ ctl.no = Len(attempts[ctl.stage]) /\ ctl.no \in Nat
    BY <1>1 DEF ReconcileCannotTell, IInv, TypeOK, CtlAttempt, ExternalPC, AttemptPC
  <2>2. Completed(ctl.stage) = {}
    <3>1. attempts[ctl.stage][ctl.no].status = "DISPATCHED"
      BY <1>1 DEF ReconcileCannotTell, IInv, CtlAttempt
    <3> QED
      BY <2>1, <3>1, LastOnly DEF Completed, IInv
  <2>3. CASE Goto("open")
    <3>1. ctl' \in Ctl /\ ctl'.pc = "open" /\ ctl'.stage = ctl.stage
      BY <2>3, GotoType DEF IInv, PC
    <3> QED
      BY <1>1, <2>1, <2>2, <3>1 DEF ReconcileCannotTell, IInv, TypeOK, Ctl, OneLive, CtlAttempt,
                                    ExternalPC, AttemptPC, Completed, With
  <2>4. CASE Return
    BY <1>1, <2>4, ReturnType DEF ReconcileCannotTell, IInv, TypeOK, Ctl, OneLive
  <2> QED
    BY <1>1, <2>3, <2>4 DEF ReconcileCannotTell
<1>2. ASSUME NEW o \in Outcomes, DispatcherAnswers(o) PROVE IInv'
  <2>1. /\ ctl.stage \in External
        /\ ctl.no \in Nat \ {0}
        /\ ctl \in Ctl
        /\ o \in Outcome
    <3>1. ctl.stage \in External /\ ctl.no \in 1..Len(attempts[ctl.stage])
      BY <1>2 DEF DispatcherAnswers, IInv, CtlAttempt, ExternalPC, AttemptPC
    <3>2. Len(attempts[ctl.stage]) \in Nat
      BY <3>1 DEF IInv, TypeOK
    <3>3. ctl \in Ctl /\ o \in Outcome
      BY LifecycleAssumption DEF IInv, TypeOK, Ctl
    <3> QED
      BY <3>1, <3>2, <3>3
  <2>2. ctl' \in Ctl /\ ctl'.pc = "returned" /\ ctl'.stage = ctl.stage /\ ctl'.no = ctl.no
    BY <1>2, <2>1 DEF DispatcherAnswers, Ctl, PC
  <2>3. effects' \in [External -> Seq(Effect)]
    <3>1. [no |-> ctl.no, out |-> o] \in Effect
      BY <2>1 DEF Effect
    <3> QED
      <4>1. Append(effects[ctl.stage], [no |-> ctl.no, out |-> o]) \in Seq(Effect)
        BY <2>1, <3>1 DEF IInv, TypeOK
      <4> QED
        BY <1>2, <2>1, <4>1, ZenonT(60) DEF DispatcherAnswers, IInv, TypeOK
  <2>4. TypeOK' /\ OneLive'
    BY <1>2, <2>2, <2>3 DEF DispatcherAnswers, IInv, TypeOK, Ctl, OneLive
  <2>5. CtlAttempt'
    BY <1>2, <2>2 DEF DispatcherAnswers, IInv, CtlAttempt, ExternalPC, AttemptPC
  <2> QED
    BY <2>4, <2>5 DEF IInv
<1> QED
  BY <1>1, <1>2

(* Cleanup and the verdict: no attempt changes. *)
LEMMA EndStep ==
  ASSUME IInv,
         RunCleanup \/ Finalize \/ FinishFinalize
           \/ \E o \in Obligations, ok \in BOOLEAN : Compensate(o, ok)
  PROVE  IInv'
<1>1. CASE RunCleanup
  <2>1. ctl' \in Ctl /\ ctl'.pc = "cleanup"
    BY <1>1, NoCtlType DEF RunCleanup, Ctl, NoCtl, PC
  <2>2. state' \in State
    BY <1>1 DEF RunCleanup, IInv, TypeOK, State, Active
  <2> QED
    BY <1>1, <2>1, <2>2 DEF RunCleanup, IInv, TypeOK, Ctl, OneLive, CtlAttempt, ExternalPC, AttemptPC
<1>2. CASE Finalize
  <2>1. ComputeVerdict \in Verdict /\ ComputeVerdict.final \in Terminal
    BY VerdictType DEF IInv, Verdict
  <2>2. CASE MaySet(ComputeVerdict.final) \/ state \in Terminal
    <3>1. /\ state' \in State
          /\ verdict' \in Verdict
          /\ UNCHANGED <<ctl, cancel, expired, rec, attempts, cleanup, effects>>
      BY <1>2, <2>1, <2>2 DEF Finalize, IInv, TypeOK, State
    <3> QED
      BY <1>2, <3>1 DEF Finalize, Idle, IInv, TypeOK, OneLive, CtlAttempt, ExternalPC, AttemptPC
  <2>3. CASE ~(MaySet(ComputeVerdict.final) \/ state \in Terminal)
    <3>1. ctl' = [NoCtl EXCEPT !.pc = "finalize", !.verdict = ComputeVerdict]
      BY <1>2, <2>3 DEF Finalize
    <3>2. ctl' \in Ctl /\ ctl'.pc = "finalize" /\ ctl'.verdict \in Verdict
      BY <2>1, <3>1, NoCtlType DEF Ctl, NoCtl, PC
    <3>3. /\ state' \in State
          /\ UNCHANGED <<verdict, cancel, expired, rec, attempts, cleanup, effects>>
      BY <1>2, <2>3 DEF Finalize, State, Active
    <3> QED
      BY <3>2, <3>3 DEF IInv, TypeOK, Ctl, OneLive, CtlAttempt, ExternalPC, AttemptPC
  <2> QED
    BY <2>2, <2>3
<1>3. CASE FinishFinalize
  <2>1. ctl.verdict \in Verdict /\ ctl.verdict.final \in State
    BY <1>3 DEF FinishFinalize, IInv, CtlAttempt, Verdict, State
  <2> QED
    BY <1>3, <2>1, ReturnType DEF FinishFinalize, IInv, TypeOK, Ctl, OneLive
<1>4. ASSUME NEW o \in Obligations, NEW ok \in BOOLEAN, Compensate(o, ok) PROVE IInv'
  <2>1. ctl' \in Ctl /\ ctl'.pc = "cleanup"
    BY <1>4 DEF Compensate, IInv, TypeOK, Ctl
  <2> QED
    BY <1>4, <2>1 DEF Compensate, IInv, TypeOK, Ctl, OneLive, CtlAttempt, ExternalPC, AttemptPC
<1> QED
  BY <1>1, <1>2, <1>3, <1>4

LEMMA InitIInv == Init => IInv
<1> SUFFICES ASSUME Init PROVE IInv
  OBVIOUS
<1>1. /\ state \in State
      /\ rec \in [Stage -> StageRecord]
      /\ attempts \in [External -> Seq(Attempt)]
      /\ effects \in [External -> Seq(Effect)]
      /\ cleanup \in [Obligations -> {"none", "compensated", "failed"}]
  BY DEF Init, State, Active, Blank, StageRecord, StageStatus, Usage
<1>2. ctl \in Ctl /\ ctl.pc = "idle"
  BY NoCtlType DEF Init, NoCtl
<1>3. TypeOK
  BY <1>1, <1>2 DEF Init, TypeOK, Ctl
<1>4. OneLive /\ CtlAttempt
  BY <1>2 DEF Init, OneLive, CtlAttempt, ExternalPC, AttemptPC
<1> QED
  BY <1>3, <1>4 DEF IInv

LEMMA NextIInv == IInv /\ [Next]_vars => IInv'
<1> SUFFICES ASSUME IInv, [Next]_vars PROVE IInv'
  OBVIOUS
<1>1. CASE UNCHANGED vars
  BY <1>1 DEF vars, IInv, TypeOK, OneLive, CtlAttempt, Completed, With
<1>2. CASE Next
  BY <1>2, WorldStep, BeginStep, EnterStep, StageWriteStep, RunExternalStep, OverwriteStep,
     OpenStep, BrokerStep, EndStep DEF Next
<1> QED
  BY <1>1, <1>2

(* Type correctness, for every value of the constants. *)
THEOREM TypeCorrect == Spec => []TypeOK
<1>1. IInv => TypeOK
  BY DEF IInv
<1> QED
  BY <1>1, InitIInv, NextIInv, PTL DEF Spec

(* However a stage is crashed, resumed and reissued, only its last attempt  *)
(* can still be replayed, reconciled or given up.                           *)
THEOREM OneLiveAttempt == Spec => []OneLive
<1>1. IInv => OneLive
  BY DEF IInv
<1> QED
  BY <1>1, InitIInv, NextIInv, PTL DEF Spec

-----------------------------------------------------------------------------
(* Effects and charges.  What ties the ledger to the broker is inductive    *)
(* together with what the controller knows in the middle of a call: before  *)
(* the dispatch its key is unused, after it the answer in hand is the       *)
(* broker's.                                                                *)

Dispatched(s, i) == attempts[s][i].status \in {"DISPATCHED", "COMPLETED"}

Backed(s, i) ==
  \E k \in 1..Len(effects[s]) :
     /\ effects[s][k].no = i
     /\ effects[s][k].out.fresh = attempts[s][i].fresh
     /\ effects[s][k].out.usage = attempts[s][i].usage

BrokerInv ==
  /\ WriteAhead
  /\ \A s \in External : \A i \in 1..Len(attempts[s]) :
       /\ Dispatched(s, i) => attempts[s][i].dispatched
       /\ attempts[s][i].status = "COMPLETED" => Backed(s, i)

DoneInv ==
  \A s \in External : Done(s) =>
     /\ Len(attempts[s]) \in 1..Len(attempts[s])
     /\ attempts[s][Len(attempts[s])].status = "COMPLETED"
     /\ attempts[s][Len(attempts[s])].fresh
     /\ attempts[s][Len(attempts[s])].usage = rec[s].usage

DecidedFor(s, i, c) == c.auth /\ (attempts[s][i].call.paid \/ c.paid => c.operator)

CallInv ==
  /\ ctl.pc \in {"enter", "running", "mark_dispatched", "dispatch"} /\ ctl.stage \in External =>
       \A k \in 1..Len(effects[ctl.stage]) : effects[ctl.stage][k].no # ctl.no
  /\ ctl.pc = "returned" /\ ctl.out.ok =>
       \E k \in 1..Len(effects[ctl.stage]) :
          effects[ctl.stage][k] = [no |-> ctl.no, out |-> ctl.out]
  /\ ctl.pc = "open" => \A i \in Unknown(ctl.stage) : DecidedFor(ctl.stage, i, ctl.call)
  /\ ctl.pc \notin {"idle", "cleanup", "finalize"} => ~Done(ctl.stage)

EInv == IInv /\ BrokerInv /\ DoneInv /\ CallInv

(* Nothing of this looks beyond the attempts, the effects and the records.  *)
LEMMA BrokerFrame ==
  ASSUME BrokerInv, UNCHANGED <<attempts, effects>> PROVE BrokerInv'
  BY DEF BrokerInv, WriteAhead, Dispatched, Backed

LEMMA DoneFrame ==
  ASSUME DoneInv, UNCHANGED <<attempts, rec>> PROVE DoneInv'
  BY DEF DoneInv, Done

(* A stage that is not DONE may have its attempts rewritten. *)
LEMMA DoneOther ==
  ASSUME IInv, DoneInv, NEW s \in External, ~Done(s), UNCHANGED rec,
         \A r \in External : r # s => attempts'[r] = attempts[r]
  PROVE  DoneInv'
  BY DEF DoneInv, Done

LEMMA CallIdle == ASSUME Return PROVE CallInv'
<1>1. ctl'.pc = "idle"
  BY DEF Return, NoCtl
<1> QED
  BY <1>1 DEF CallInv

(* Rewriting the last attempt of a stage. *)
LEMMA BrokerOverwrite ==
  ASSUME IInv, BrokerInv, NEW s \in External, NEW a \in Attempt, UNCHANGED effects,
         Len(attempts[s]) \in 1..Len(attempts[s]), WriteAttempt(s, Len(attempts[s]), a),
         attempts[s][Len(attempts[s])].dispatched => a.dispatched,
         a.status \in {"DISPATCHED", "COMPLETED"} => a.dispatched,
         a.status = "COMPLETED" =>
           \E k \in 1..Len(effects[s]) : /\ effects[s][k].no = Len(attempts[s])
                                         /\ effects[s][k].out.fresh = a.fresh
                                         /\ effects[s][k].out.usage = a.usage
  PROVE  BrokerInv'
<1> DEFINE n == Len(attempts[s])
<1>1. /\ Len(attempts'[s]) = n
      /\ attempts'[s][n] = a
      /\ \A i \in 1..n : i # n => attempts'[s][i] = attempts[s][i]
      /\ \A r \in External : r # s => attempts'[r] = attempts[r]
  BY DEF WriteAttempt, IInv, TypeOK
<1>2. WriteAhead'
  <2>1. \A r \in External : \A i \in 1..Len(attempts[r]) :
          attempts[r][i].dispatched => attempts'[r][i].dispatched
    BY <1>1
  <2>2. \A r \in External : Len(attempts'[r]) = Len(attempts[r])
    BY <1>1
  <2> QED
    BY <2>1, <2>2 DEF BrokerInv, WriteAhead
<1>3. ASSUME NEW r \in External, NEW i \in 1..Len(attempts'[r])
      PROVE  /\ Dispatched(r, i)' => attempts'[r][i].dispatched
             /\ attempts'[r][i].status = "COMPLETED" => Backed(r, i)'
  <2>1. CASE r = s /\ i = n
    BY <1>1, <2>1 DEF Dispatched, Backed
  <2>2. CASE r # s \/ i # n
    <3>1. attempts'[r][i] = attempts[r][i] /\ i \in 1..Len(attempts[r])
      BY <1>1, <1>3, <2>2
    <3> QED
      BY <3>1 DEF BrokerInv, Dispatched, Backed
  <2> QED
    BY <2>1, <2>2
<1> QED
  BY <1>2, <1>3 DEF BrokerInv

(* The calls that only begin, the world, and the calls that end: neither an *)
(* attempt nor an effect nor a record changes.                              *)
LEMMA EQuiet ==
  ASSUME EInv,
         \/ RequestCancel \/ LeaseExpires \/ Crash \/ Authorize \/ MarkReady
         \/ \E s \in Internal : RunStage(s)
         \/ RunCleanup \/ Finalize \/ FinishFinalize
         \/ \E o \in Obligations, ok \in BOOLEAN : Compensate(o, ok)
  PROVE  BrokerInv' /\ DoneInv' /\ CallInv'
<1>1. UNCHANGED <<attempts, effects, rec>>
  BY DEF RequestCancel, LeaseExpires, Crash, Authorize, MarkReady, RunStage, RunCleanup, Finalize,
         FinishFinalize, Compensate
<1>2. BrokerInv' /\ DoneInv'
  BY <1>1, BrokerFrame, DoneFrame DEF EInv
<1>3. ASSUME NEW s \in Stage, ~Done(s), s \notin External, Begin(s, "enter", NoCall, 0)
      PROVE  CallInv'
  <2>1. ctl'.pc = "enter" /\ ctl'.stage = s
    BY <1>3, BeginType DEF PC, Call, NoCall
  <2> QED
    BY <1>1, <1>3, <2>1 DEF CallInv, Done
<1>4. \A s \in Internal \cup Control : s \in Stage /\ s \notin External
  BY LifecycleAssumption DEF Stage
<1>5. CASE Authorize \/ MarkReady \/ \E s \in Internal : RunStage(s)
  BY <1>2, <1>3, <1>4, <1>5 DEF Authorize, MarkReady, RunStage
<1>6. CASE UNCHANGED ctl
  BY <1>2, <1>1, <1>6 DEF EInv, CallInv, Unknown, With, DecidedFor, Done
<1>7. CASE Return
  BY <1>2, <1>7, CallIdle
<1>8. CASE ctl'.pc \in {"idle", "cleanup", "finalize"}
  BY <1>2, <1>8 DEF CallInv
<1>9. ctl \in Ctl
  BY DEF EInv, IInv, TypeOK, Ctl
<1>10. RunCleanup => ctl'.pc = "cleanup"
  BY NoCtlType DEF RunCleanup, NoCtl
<1>11. Finalize => ctl'.pc \in {"idle", "finalize"} \/ UNCHANGED ctl
  BY NoCtlType DEF Finalize, NoCtl
<1>12. ASSUME NEW o \in Obligations, NEW ok \in BOOLEAN, Compensate(o, ok) PROVE ctl'.pc = "cleanup"
  BY <1>9, <1>12 DEF Compensate, Ctl
<1>13. RequestCancel \/ LeaseExpires => UNCHANGED ctl
  BY DEF RequestCancel, LeaseExpires
<1>14. Crash \/ FinishFinalize => Return
  BY DEF Crash, FinishFinalize
<1> QED
  BY <1>2, <1>5, <1>6, <1>7, <1>8, <1>10, <1>11, <1>12, <1>13, <1>14

(* What a stage record becomes: never DONE for an external stage but from a *)
(* completed attempt.                                                       *)
LEMMA ERecord ==
  ASSUME EInv,
         CommitControl \/ FailStage \/ CommitStageDone \/ EndCleanup
           \/ \E o \in Outcomes : ExecutorReports(o)
  PROVE  BrokerInv' /\ DoneInv' /\ CallInv'
<1>1. UNCHANGED <<attempts, effects>> /\ Return
  BY DEF CommitControl, FailStage, CommitStageDone, EndCleanup, ExecutorReports
<1>2. BrokerInv' /\ CallInv'
  BY <1>1, BrokerFrame, CallIdle DEF EInv
<1>3. rec \in [Stage -> StageRecord] /\ External \subseteq Stage /\ "CLEANUP" \notin External
      /\ \A s \in Control : s \notin External
  BY LifecycleAssumption DEF EInv, IInv, TypeOK
<1>4. ASSUME NEW s, NEW r, WriteStage(s, r), s \notin External \/ r.status # "DONE"
      PROVE  DoneInv'
  BY <1>1, <1>3, <1>4 DEF WriteStage, EInv, DoneInv, Done
<1>5. CASE CommitControl
  BY <1>2, <1>3, <1>4, <1>5 DEF CommitControl, EInv, IInv, CtlAttempt
<1>6. CASE FailStage
  BY <1>2, <1>4, <1>6 DEF FailStage, Blank
<1>7. CASE EndCleanup
  BY <1>2, <1>3, <1>4, <1>7 DEF EndCleanup
<1>8. ASSUME NEW o \in Outcomes, ExecutorReports(o) PROVE DoneInv'
  <2>1. ctl.stage \notin External /\ Settle(ctl.stage, o)
    BY <1>8 DEF ExecutorReports, EInv, IInv, CtlAttempt
  <2>2. CASE UNCHANGED rec
    BY <1>1, <2>2, DoneFrame DEF EInv
  <2>3. CASE ~UNCHANGED rec
    BY <1>4, <2>1, <2>3 DEF Settle
  <2> QED
    BY <2>2, <2>3
<1>9. CASE CommitStageDone
  <2> DEFINE s == ctl.stage
             n == Len(attempts[s])
             a == attempts[s][n]
             o == [ok |-> TRUE, fresh |-> a.fresh, usage |-> a.usage]
  <2>1. s \in External /\ ctl.no = n /\ n \in 1..n /\ a.status = "COMPLETED"
    BY <1>9 DEF CommitStageDone, EInv, IInv, CtlAttempt, ExternalPC, AttemptPC
  <2>2. Settle(s, o)
    BY <1>9, <2>1 DEF CommitStageDone
  <2>3. CASE WriteStage(s, Blank("FAILED"))
    BY <1>2, <1>4, <2>3 DEF Blank
  <2>4. CASE UNCHANGED rec
    BY <1>2, <1>1, <2>4, DoneFrame DEF EInv
  <2>5. CASE a.fresh /\ WriteStage(s, [status |-> "DONE", fresh |-> TRUE, usage |-> a.usage])
    <3>1. rec'[s].usage = a.usage /\ \A r \in External : r # s => rec'[r] = rec[r]
      BY <1>3, <2>1, <2>5 DEF WriteStage
    <3> QED
      BY <1>2, <1>1, <2>1, <2>5, <3>1 DEF EInv, DoneInv, Done
  <2> QED
    BY <2>2, <2>3, <2>4, <2>5 DEF Settle
<1> QED
  BY <1>2, <1>5, <1>6, <1>7, <1>8, <1>9

(* Entering the stage's state and marking it RUNNING: the key in hand stays *)
(* unused, and RUNNING is never written over DONE.                          *)
LEMMA EEnter ==
  ASSUME EInv, EnterState \/ MarkRunning PROVE BrokerInv' /\ DoneInv' /\ CallInv'
<1>1. UNCHANGED <<attempts, effects>> /\ ~Done(ctl.stage) /\ ctl \in Ctl
  BY DEF EnterState, MarkRunning, EInv, IInv, TypeOK, CallInv, Ctl
<1>2. BrokerInv'
  BY <1>1, BrokerFrame DEF EInv
<1>3. CASE EnterState
  <2>1. UNCHANGED rec /\ (Return \/ Goto("control") \/ Goto("running"))
    BY <1>3 DEF EnterState
  <2>2. DoneInv'
    BY <1>1, <2>1, DoneFrame DEF EInv
  <2>3. CASE Return
    BY <1>2, <2>2, <2>3, CallIdle
  <2>4. CASE Goto("control") \/ Goto("running")
    <3>1. /\ ctl'.pc \in {"control", "running"}
          /\ ctl'.stage = ctl.stage /\ ctl'.no = ctl.no
      BY <2>4, GotoType DEF EInv, IInv, PC
    <3>2. CallInv'
      BY <1>1, <1>3, <2>1, <3>1 DEF EnterState, EInv, CallInv, Done
    <3> QED
      BY <1>2, <2>2, <3>2
  <2> QED
    BY <2>1, <2>3, <2>4
<1>4. CASE MarkRunning
  <2>1. /\ WriteStage(ctl.stage, Blank("RUNNING"))
        /\ Goto("mark_dispatched") \/ Goto("execute")
    BY <1>4 DEF MarkRunning
  <2>2. /\ ctl'.pc \in {"mark_dispatched", "execute"}
        /\ ctl'.stage = ctl.stage /\ ctl'.no = ctl.no
    BY <2>1, GotoType DEF EInv, IInv, PC
  <2>3. /\ ctl.stage \in Stage /\ External \subseteq Stage /\ rec \in [Stage -> StageRecord]
    BY LifecycleAssumption DEF EInv, IInv, TypeOK
  <2>4. DoneInv' /\ ~Done(ctl.stage)'
    BY <1>1, <2>1, <2>2, <2>3 DEF WriteStage, Blank, EInv, DoneInv, Done
  <2>5. CallInv'
    BY <1>1, <1>4, <2>2, <2>4 DEF MarkRunning, EInv, CallInv
  <2> QED
    BY <1>2, <2>4, <2>5
<1> QED
  BY <1>3, <1>4

(* An external call opens a new attempt over an unknown one only under the  *)
(* decisions MayReissue asks for.                                           *)
LEMMA EReissue ==
  ASSUME IInv, NEW s \in External, NEW c, Unknown(s) = {} \/ MayReissue(s, c)
  PROVE  \A i \in Unknown(s) : DecidedFor(s, i, c)
<1>1. CASE Unknown(s) # {}
  <2>1. Unknown(s) = {Max(Unknown(s))}
    BY <1>1, LastOnly DEF Unknown, IInv
  <2> QED
    BY <1>1, <2>1 DEF MayReissue, DecidedFor
<1> QED
  BY <1>1

LEMMA ERunExternal ==
  ASSUME EInv, NEW s \in External, NEW c \in Calls, RunExternalStage(s, c)
  PROVE  BrokerInv' /\ DoneInv' /\ CallInv'
<1>1. /\ UNCHANGED <<attempts, effects, rec>>
      /\ ~Done(s)
      /\ Path(s, c) # "raise"
  BY DEF RunExternalStage
<1>2. PICK no : Begin(s, Path(s, c), c, no)
  BY DEF RunExternalStage
<1>3. ctl'.pc = Path(s, c) /\ ctl'.stage = s /\ ctl'.call = c
  BY <1>2 DEF Begin, NoCtl
<1>4. Path(s, c) \in {"commit", "open", "reconcile"}
  BY <1>1, Zenon DEF Path
<1>5. Path(s, c) = "open" => Unknown(s) = {} \/ MayReissue(s, c)
  BY Zenon DEF Path
<1>6. Path(s, c) = "open" => \A i \in Unknown(s) : DecidedFor(s, i, c)
  BY <1>5, EReissue DEF EInv
<1>7. CallInv'
  <2>1. ~Done(s)' /\ Unknown(s)' = Unknown(s)
    BY <1>1 DEF Done, Unknown, With
  <2>2. \A i : DecidedFor(s, i, c)' <=> DecidedFor(s, i, c)
    BY <1>1 DEF DecidedFor
  <2> QED
    BY <1>3, <1>4, <1>6, <2>1, <2>2 DEF CallInv, Unknown, With, DecidedFor
<1> QED
  BY <1>1, <1>7, BrokerFrame, DoneFrame DEF EInv

LEMMA EBroker ==
  ASSUME EInv, ReconcileCannotTell \/ \E o \in Outcomes : DispatcherAnswers(o)
  PROVE  BrokerInv' /\ DoneInv' /\ CallInv'
<1> DEFINE s == ctl.stage
<1>1. /\ UNCHANGED <<attempts, rec>>
      /\ ~Done(s)
      /\ s \in External
      /\ ctl.no \in 1..Len(attempts[s])
      /\ attempts[s][ctl.no].status = "DISPATCHED"
      /\ ctl \in Ctl
  BY DEF ReconcileCannotTell, DispatcherAnswers, EInv, IInv, TypeOK, CtlAttempt, ExternalPC,
         AttemptPC, CallInv, Ctl
<1>2. DoneInv'
  BY <1>1, DoneFrame DEF EInv
<1>3. CASE ReconcileCannotTell
  <2>1. BrokerInv'
    BY <1>1, <1>3, BrokerFrame DEF ReconcileCannotTell, EInv
  <2>2. CASE MayReissue(s, ctl.call) /\ Goto("open")
    <3>1. ctl'.pc = "open" /\ ctl'.stage = s /\ ctl'.call = ctl.call
      BY <2>2, GotoType DEF EInv, IInv, PC
    <3>2. \A i \in Unknown(s) : DecidedFor(s, i, ctl.call)
      BY <1>1, <2>2, EReissue DEF EInv
    <3>3. CallInv'
      BY <1>1, <3>1, <3>2 DEF CallInv, Unknown, With, DecidedFor, Done
    <3> QED
      BY <1>2, <2>1, <3>3
  <2>3. CASE Return
    BY <1>2, <2>1, <2>3, CallIdle
  <2> QED
    BY <1>3, <2>2, <2>3 DEF ReconcileCannotTell
<1>4. ASSUME NEW o \in Outcomes, DispatcherAnswers(o) PROVE BrokerInv' /\ CallInv'
  <2>1. ctl'.pc = "returned" /\ ctl'.stage = s /\ ctl'.no = ctl.no /\ ctl'.out = o
    BY <1>1, <1>4 DEF DispatcherAnswers, Ctl
  <2>2. CASE effects' = [effects EXCEPT ![s] = Append(@, [no |-> ctl.no, out |-> o])]
    <3> DEFINE m == Len(effects[s])
               e == [no |-> ctl.no, out |-> o]
    <3>1. /\ m \in Nat
          /\ Len(effects'[s]) = m + 1
          /\ effects'[s][m + 1] = e
          /\ \A k \in 1..m : effects'[s][k] = effects[s][k]
          /\ \A r \in External : r # s => effects'[r] = effects[r]
      BY <1>1, <2>2 DEF EInv, IInv, TypeOK
    <3>2. \A k \in 1..m : effects[s][k].no # ctl.no
      BY <1>1, <1>4 DEF DispatcherAnswers, EInv, CallInv
    <3>3. attempts[s][ctl.no].dispatched
      BY <1>1 DEF EInv, BrokerInv, Dispatched
    <3>4. WriteAhead'
      <4>1. ASSUME NEW r \in External, NEW k \in 1..Len(effects'[r])
            PROVE  /\ effects'[r][k].no \in 1..Len(attempts[r])
                   /\ attempts[r][effects'[r][k].no].dispatched
                   /\ \A l \in 1..Len(effects'[r]) :
                        l # k => effects'[r][l].no # effects'[r][k].no
        <5>1. CASE r # s
          BY <3>1, <5>1, SMTT(30) DEF EInv, BrokerInv, WriteAhead
        <5>2. CASE r = s /\ k = m + 1
          <6>1. effects'[r][k].no = ctl.no
            BY <3>1, <5>2
          <6>2. \A l \in 1..Len(effects'[r]) : l # k => l \in 1..m /\ effects'[r][l] = effects[r][l]
            BY <3>1, <5>2
          <6> QED
            BY <1>1, <3>2, <3>3, <5>2, <6>1, <6>2
        <5>3. CASE r = s /\ k \in 1..m
          <6>1. effects'[r][k] = effects[r][k]
            BY <3>1, <5>3
          <6>2. \A l \in 1..Len(effects'[r]) :
                  \/ l \in 1..m /\ effects'[r][l] = effects[r][l]
                  \/ l = m + 1 /\ effects'[r][l].no = ctl.no
            BY <3>1, <5>3
          <6>3. /\ effects[r][k].no \in 1..Len(attempts[r])
                /\ attempts[r][effects[r][k].no].dispatched
                /\ \A l \in 1..m : l # k => effects[r][l].no # effects[r][k].no
            BY <1>1, <5>3 DEF EInv, BrokerInv, WriteAhead
          <6> HIDE DEF m
          <6> QED
            BY <3>2, <5>3, <6>1, <6>2, <6>3
        <5>4. r = s => k = m + 1 \/ k \in 1..m
          BY <3>1
        <5> QED
          BY <5>1, <5>2, <5>3, <5>4
      <4> QED
        BY <1>1, <4>1 DEF WriteAhead
    <3>5. ASSUME NEW r \in External, NEW i \in 1..Len(attempts[r])
          PROVE  /\ Dispatched(r, i)' => attempts'[r][i].dispatched
                 /\ attempts'[r][i].status = "COMPLETED" => Backed(r, i)'
      <4>1. Backed(r, i) => Backed(r, i)'
        <5>1. CASE r # s
          BY <1>1, <3>1, <5>1 DEF Backed
        <5>2. CASE r = s
          <6> SUFFICES ASSUME Backed(r, i) PROVE Backed(r, i)'
            OBVIOUS
          <6>1. PICK k \in 1..m : effects[r][k].no = i /\ effects[r][k].out.fresh = attempts[r][i].fresh
                                /\ effects[r][k].out.usage = attempts[r][i].usage
            BY <5>2 DEF Backed
          <6>2. k \in 1..Len(effects'[r]) /\ effects'[r][k] = effects[r][k]
            BY <3>1, <5>2, <6>1
          <6> QED
            BY <1>1, <6>1, <6>2 DEF Backed
        <5> QED
          BY <5>1, <5>2
      <4> QED
        BY <1>1, <4>1 DEF EInv, BrokerInv, Dispatched
    <3>6. BrokerInv'
      BY <1>1, <3>4, <3>5 DEF BrokerInv
    <3>7. CallInv'
      BY <1>1, <2>1, <3>1 DEF CallInv, Done
    <3> QED
      BY <3>6, <3>7
  <2>3. CASE ~o.ok /\ UNCHANGED effects
    <3>1. CallInv'
      BY <1>1, <2>1, <2>3 DEF CallInv, Done
    <3> QED
      BY <1>1, <2>3, <3>1, BrokerFrame DEF EInv
  <2> QED
    BY <1>4, <2>2, <2>3 DEF DispatcherAnswers
<1> QED
  BY <1>2, <1>3, <1>4

(* Rewriting the attempt in hand: marking it dispatched, storing the answer *)
(* to it, or adopting the answer the broker remembers.                      *)
LEMMA EOverwrite ==
  ASSUME EInv, ReconcileAdopts \/ MarkDispatched \/ PersistResponse
  PROVE  BrokerInv' /\ DoneInv' /\ CallInv'
<1> DEFINE s == ctl.stage
           n == Len(attempts[s])
<1>1. /\ s \in External /\ ctl.no = n /\ n \in 1..n
      /\ attempts[s][n] \in Attempt
      /\ UNCHANGED <<rec, effects>>
      /\ ~Done(s)
      /\ ctl \in Ctl
  <2>1. s \in External /\ ctl.no = n /\ n \in 1..n
    BY DEF ReconcileAdopts, MarkDispatched, PersistResponse, EInv, IInv, CtlAttempt, ExternalPC,
           AttemptPC
  <2>2. attempts[s][n] \in Attempt /\ ctl \in Ctl
    BY <2>1 DEF EInv, IInv, TypeOK, Ctl
  <2>3. UNCHANGED <<rec, effects>> /\ ~Done(s)
    BY DEF ReconcileAdopts, MarkDispatched, PersistResponse, EInv, CallInv
  <2> QED
    BY <2>1, <2>2, <2>3
<1>2. ASSUME NEW a, NEW i, WriteAttempt(s, i, a) PROVE DoneInv'
  BY <1>1, <1>2, DoneOther DEF WriteAttempt, EInv, IInv, TypeOK
<1>3. DoneInv'
  BY <1>2 DEF ReconcileAdopts, MarkDispatched, PersistResponse, MarkAttempt
<1>4. CASE ReconcileAdopts
  <2>1. PICK k \in 1..Len(effects[s]) :
          /\ effects[s][k].no = n
          /\ WriteAttempt(s, n, [attempts[s][n] EXCEPT !.status = "COMPLETED",
               !.fresh = effects[s][k].out.fresh, !.usage = effects[s][k].out.usage])
    BY <1>1, <1>4 DEF ReconcileAdopts
  <2> DEFINE a == [attempts[s][n] EXCEPT !.status = "COMPLETED",
                    !.fresh = effects[s][k].out.fresh, !.usage = effects[s][k].out.usage]
  <2>2. effects[s][k] \in Effect
    BY <1>1 DEF EInv, IInv, TypeOK
  <2>3. a \in Attempt
    BY <1>1, <2>2 DEF Attempt, AttemptStatus, Effect, Outcome
  <2>4. /\ a.dispatched = attempts[s][n].dispatched
        /\ a.fresh = effects[s][k].out.fresh
        /\ a.usage = effects[s][k].out.usage
    BY <1>1 DEF Attempt
  <2>5. attempts[s][n].dispatched
    BY <1>1, <1>4 DEF ReconcileAdopts, EInv, IInv, CtlAttempt, BrokerInv, Dispatched
  <2>6. BrokerInv'
    <3> HIDE DEF a, n, s
    <3> QED
      BY <1>1, <2>1, <2>3, <2>4, <2>5, BrokerOverwrite DEF EInv, a, n
  <2>7. ctl'.pc = "commit" /\ ctl'.stage = s
    BY <1>4, GotoType DEF ReconcileAdopts, EInv, IInv, PC
  <2> QED
    BY <1>1, <1>3, <2>6, <2>7 DEF CallInv, Done
<1>5. CASE MarkDispatched
  <2> DEFINE a == [attempts[s][n] EXCEPT !.status = "DISPATCHED", !.dispatched = TRUE]
  <2>1. a \in Attempt /\ a.dispatched /\ a.status = "DISPATCHED"
    BY <1>1 DEF Attempt, AttemptStatus
  <2>2. WriteAttempt(s, n, a)
    BY <1>1, <1>5 DEF MarkDispatched
  <2>3. BrokerInv'
    <3> HIDE DEF a
    <3> QED
      BY <1>1, <2>1, <2>2, BrokerOverwrite DEF EInv
  <2>4. ctl'.pc = "dispatch" /\ ctl'.stage = s /\ ctl'.no = ctl.no
    BY <1>5, GotoType DEF MarkDispatched, EInv, IInv, PC
  <2>5. \A k \in 1..Len(effects[s]) : effects[s][k].no # ctl.no
    BY <1>1, <1>5 DEF MarkDispatched, EInv, CallInv
  <2> QED
    BY <1>1, <1>3, <2>3, <2>4, <2>5 DEF CallInv, Done
<1>6. CASE PersistResponse
  <2>1. attempts[s][n].dispatched
    BY <1>1, <1>6 DEF PersistResponse, EInv, IInv, CtlAttempt, BrokerInv, Dispatched
  <2>2. /\ ctl'.pc \in {"commit", "fail"}
        /\ ctl'.stage = s
    BY <1>1, <1>6 DEF PersistResponse, Ctl
  <2>3. CallInv'
    BY <1>1, <2>2 DEF CallInv, Done
  <2>4. CASE ctl.out.ok
    <3> DEFINE a == [attempts[s][n] EXCEPT !.status = "COMPLETED",
                      !.fresh = ctl.out.fresh, !.usage = ctl.out.usage]
    <3>1. /\ a \in Attempt /\ a.dispatched = attempts[s][n].dispatched
          /\ a.fresh = ctl.out.fresh /\ a.usage = ctl.out.usage
      BY <1>1 DEF Attempt, AttemptStatus, Ctl, Outcome
    <3>2. WriteAttempt(s, n, a)
      BY <1>1, <1>6, <2>4 DEF PersistResponse
    <3>3. PICK k \in 1..Len(effects[s]) : effects[s][k] = [no |-> ctl.no, out |-> ctl.out]
      BY <1>6, <2>4 DEF PersistResponse, EInv, CallInv
    <3>4. /\ effects[s][k].no = n
          /\ effects[s][k].out.fresh = a.fresh
          /\ effects[s][k].out.usage = a.usage
      BY <1>1, <3>1, <3>3
    <3>5. BrokerInv'
      <4> HIDE DEF a
      <4> QED
        BY <1>1, <2>1, <3>1, <3>2, <3>4, BrokerOverwrite DEF EInv
    <3> QED
      BY <1>3, <2>3, <3>5
  <2>5. CASE ~ctl.out.ok
    <3> DEFINE a == [attempts[s][n] EXCEPT !.status = "FAILED"]
    <3>1. a \in Attempt /\ a.dispatched = attempts[s][n].dispatched /\ a.status = "FAILED"
      BY <1>1 DEF Attempt, AttemptStatus
    <3>2. WriteAttempt(s, n, a)
      BY <1>1, <1>6, <2>5 DEF PersistResponse, MarkAttempt
    <3>3. BrokerInv'
      <4> HIDE DEF a
      <4> QED
        BY <1>1, <2>1, <3>1, <3>2, BrokerOverwrite DEF EInv
    <3> QED
      BY <1>3, <2>3, <3>3
  <2> QED
    BY <2>4, <2>5
<1> QED
  BY <1>4, <1>5, <1>6

(* Opening an attempt: what is superseded is the last attempt, and the new  *)
(* attempt's key is past every key the broker has seen.                     *)
LEMMA EOpen ==
  ASSUME EInv, Supersede \/ PrepareAttempt
  PROVE  BrokerInv' /\ DoneInv' /\ CallInv'
<1> DEFINE s == ctl.stage
           n == Len(attempts[s])
<1>1. /\ s \in External /\ n \in Nat
      /\ attempts[s] \in Seq(Attempt)
      /\ UNCHANGED <<rec, effects>>
      /\ ~Done(s)
      /\ ctl \in Ctl /\ ctl.pc = "open"
  BY DEF Supersede, PrepareAttempt, EInv, IInv, TypeOK, CtlAttempt, ExternalPC, CallInv, Ctl
<1>2. CASE Supersede
  <2>1. PICK i \in Stale(s) : MarkAttempt(s, i, "SUPERSEDED")
    BY <1>2 DEF Supersede
  <2>2. i = n /\ n \in 1..n
    BY <1>1, <2>1, LastOnly DEF Stale, Unknown, EInv, IInv
  <2> DEFINE a == [attempts[s][n] EXCEPT !.status = "SUPERSEDED"]
  <2>3. attempts[s][n] \in Attempt
    BY <1>1, <2>2
  <2>4. a \in Attempt /\ a.dispatched = attempts[s][n].dispatched /\ a.status = "SUPERSEDED"
    BY <2>3 DEF Attempt, AttemptStatus
  <2>5. WriteAttempt(s, n, a)
    BY <2>1, <2>2 DEF MarkAttempt
  <2>6. BrokerInv'
    <3> HIDE DEF a
    <3> QED
      BY <1>1, <2>2, <2>4, <2>5, BrokerOverwrite DEF EInv
  <2>7. DoneInv'
    BY <1>1, <2>5, DoneOther DEF WriteAttempt, EInv, IInv, TypeOK
  <2>8. /\ Len(attempts'[s]) = n
        /\ attempts'[s][n].status = "SUPERSEDED"
        /\ \A k \in 1..n : k # n => attempts'[s][k] = attempts[s][k]
    BY <1>1, <2>2, <2>4, <2>5 DEF WriteAttempt, EInv, IInv, TypeOK
  <2>9. UNCHANGED ctl
    BY <1>2 DEF Supersede
  <2>10. \A k \in Unknown(s)' : DecidedFor(s, k, ctl.call)'
    <3> SUFFICES ASSUME NEW k \in Unknown(s)' PROVE DecidedFor(s, k, ctl.call)'
      OBVIOUS
    <3>1. k \in 1..n /\ attempts'[s][k].status = "DISPATCHED"
      BY <2>8, <2>9 DEF Unknown, With
    <3>2. k # n /\ attempts'[s][k] = attempts[s][k]
      BY <2>8, <3>1
    <3>3. k \in Unknown(s)
      BY <3>1, <3>2 DEF Unknown, With
    <3>4. DecidedFor(s, k, ctl.call)
      BY <1>1, <3>3 DEF EInv, CallInv
    <3> QED
      BY <2>9, <3>2, <3>4 DEF DecidedFor
  <2>11. CallInv'
    BY <1>1, <2>9, <2>10 DEF CallInv, Done
  <2> QED
    BY <2>6, <2>7, <2>11
<1>3. CASE PrepareAttempt
  <2> DEFINE a == [status |-> "PREPARED", call |-> ctl.call, dispatched |-> FALSE,
                   fresh |-> FALSE, usage |-> 0]
  <2>1. attempts' = [attempts EXCEPT ![s] = Append(attempts[s], a)]
    BY <1>3 DEF PrepareAttempt
  <2>2. /\ Len(attempts'[s]) = n + 1
        /\ attempts'[s][n + 1].status = "PREPARED"
        /\ \A i \in 1..n : attempts'[s][i] = attempts[s][i]
        /\ \A r \in External : r # s => attempts'[r] = attempts[r]
    <3>1. attempts'[s] = Append(attempts[s], a)
      BY <1>1, <2>1 DEF EInv, IInv, TypeOK
    <3>2. \A r \in External : r # s => attempts'[r] = attempts[r]
      BY <1>1, <2>1 DEF EInv, IInv, TypeOK
    <3> QED
      BY <1>1, <3>1, <3>2
  <2>3. DoneInv'
    BY <1>1, <2>2, DoneOther DEF EInv
  <2>4. \A r \in External : \A i \in 1..Len(attempts[r]) :
           i \in 1..Len(attempts'[r]) /\ attempts'[r][i] = attempts[r][i]
    <3> SUFFICES ASSUME NEW r \in External, NEW i \in 1..Len(attempts[r])
                 PROVE  i \in 1..Len(attempts'[r]) /\ attempts'[r][i] = attempts[r][i]
      OBVIOUS
    <3>1. CASE r = s
      BY <1>1, <2>2, <3>1
    <3>2. CASE r # s
      BY <2>2, <3>2
    <3> QED
      BY <3>1, <3>2
  <2>5. WriteAhead'
    BY <1>1, <2>4, ZenonT(60) DEF EInv, BrokerInv, WriteAhead
  <2>6. ASSUME NEW r \in External, NEW i \in 1..Len(attempts'[r])
        PROVE  /\ Dispatched(r, i)' => attempts'[r][i].dispatched
               /\ attempts'[r][i].status = "COMPLETED" => Backed(r, i)'
    <3>1. CASE r = s /\ i = n + 1
      BY <2>2, <3>1 DEF Dispatched
    <3>2. CASE ~(r = s /\ i = n + 1)
      <4>1. i \in 1..Len(attempts[r])
        BY <1>1, <2>2, <2>6, <3>2
      <4>2. attempts'[r][i] = attempts[r][i]
        BY <2>4, <4>1
      <4> QED
        BY <1>1, <4>1, <4>2 DEF EInv, BrokerInv, Dispatched, Backed
    <3> QED
      BY <3>1, <3>2
  <2>7. BrokerInv'
    BY <2>5, <2>6 DEF BrokerInv
  <2>8. ctl'.pc = "enter" /\ ctl'.stage = s /\ ctl'.no = n + 1
    BY <1>1, <1>3 DEF PrepareAttempt, Ctl
  <2>9. \A k \in 1..Len(effects[s]) : effects[s][k].no # n + 1
    BY <1>1 DEF EInv, BrokerInv, WriteAhead
  <2>10. CallInv'
    BY <1>1, <2>8, <2>9 DEF CallInv, Done
  <2> QED
    BY <2>3, <2>7, <2>10
<1> QED
  BY <1>2, <1>3

LEMMA InitEInv == Init => EInv
<1> SUFFICES ASSUME Init PROVE EInv
  OBVIOUS
<1>1. \A s \in External : Len(attempts[s]) = 0 /\ Len(effects[s]) = 0
  BY DEF Init
<1>2. \A s \in Stage : ~Done(s)
  BY DEF Init, Done, Blank
<1>3. ctl.pc = "idle" /\ External \subseteq Stage
  BY LifecycleAssumption DEF Init, NoCtl
<1> QED
  BY <1>1, <1>2, <1>3, InitIInv DEF EInv, BrokerInv, WriteAhead, DoneInv, CallInv

LEMMA NextEInv == EInv /\ [Next]_vars => EInv'
<1> SUFFICES ASSUME EInv, [Next]_vars PROVE EInv'
  OBVIOUS
<1>1. IInv'
  BY NextIInv DEF EInv
<1>2. CASE UNCHANGED vars
  <2>1. BrokerInv' /\ DoneInv'
    BY <1>2, BrokerFrame, DoneFrame DEF vars, EInv
  <2>2. CallInv'
    BY <1>2 DEF vars, EInv, CallInv, Unknown, With, DecidedFor, Done
  <2> QED
    BY <1>1, <2>1, <2>2 DEF EInv
<1>3. CASE Next
  <2>1. BrokerInv' /\ DoneInv' /\ CallInv'
    BY <1>3, EQuiet, ERecord, EEnter, ERunExternal, EBroker, EOverwrite, EOpen DEF Next
  <2> QED
    BY <1>1, <2>1 DEF EInv
<1> QED
  BY <1>2, <1>3

(* Every effect at the broker has a ledger attempt marked dispatched, and   *)
(* no idempotency key reaches the broker twice, whatever crashed between.   *)
THEOREM EffectsAreWrittenAhead == Spec => []WriteAhead
<1>1. EInv => WriteAhead
  BY DEF EInv, BrokerInv
<1> QED
  BY <1>1, InitEInv, NextEInv, PTL DEF Spec

(* What a DONE external stage is charged is what its last attempt's effect  *)
(* really used.                                                             *)
THEOREM ChargesAreBacked == Spec => []DoneBacked
<1>1. EInv => DoneBacked
  <2> SUFFICES ASSUME EInv, NEW s \in External, Done(s)
               PROVE  /\ Completed(s) = {Len(attempts[s])}
                      /\ \E k \in 1..Len(effects[s]) :
                           /\ effects[s][k].no = Len(attempts[s])
                           /\ effects[s][k].out.fresh
                           /\ effects[s][k].out.usage = rec[s].usage
    BY DEF DoneBacked
  <2> DEFINE n == Len(attempts[s])
  <2>1. /\ n \in 1..n /\ attempts[s][n].status = "COMPLETED"
        /\ attempts[s][n].fresh /\ attempts[s][n].usage = rec[s].usage
    BY DEF EInv, DoneInv
  <2>2. Completed(s) = {n}
    BY <2>1, LastOnly DEF Completed, With, EInv, IInv
  <2>3. Backed(s, n)
    BY <2>1 DEF EInv, BrokerInv
  <2> QED
    BY <2>1, <2>2, <2>3 DEF Backed
<1> QED
  BY <1>1, InitEInv, NextEInv, PTL DEF Spec

(* A committed charge is never touched again: only the stage of the call in *)
(* progress, which is not DONE, and CLEANUP have their record written.      *)
THEOREM ChargesAreFinal == Spec => DoneIsFinal
<1>1. ASSUME EInv, Next, NEW s \in Stage \ {"CLEANUP"}, Done(s) PROVE rec'[s] = rec[s]
  <2>1. rec \in [Stage -> StageRecord]
    BY <1>1 DEF EInv, IInv, TypeOK
  <2>2. ASSUME NEW r, NEW t, t # s, WriteStage(t, r) PROVE rec'[s] = rec[s]
    BY <2>1, <2>2 DEF WriteStage
  <2>3. ctl.pc \in {"control", "running", "fail", "commit", "execute"} => ctl.stage # s
    BY <1>1 DEF EInv, CallInv
  <2>4. CASE CommitControl \/ FailStage \/ MarkRunning
    BY <2>2, <2>3, <2>4 DEF CommitControl, FailStage, MarkRunning
  <2>5. CASE CommitStageDone
    BY <2>2, <2>3, <2>5 DEF CommitStageDone, Settle
  <2>6. ASSUME NEW o \in Outcomes, ExecutorReports(o) PROVE rec'[s] = rec[s]
    BY <2>2, <2>3, <2>6 DEF ExecutorReports, Settle
  <2>7. CASE EndCleanup
    BY <2>2, <2>7 DEF EndCleanup
  <2>8. CASE UNCHANGED rec
    BY <2>8
  <2> QED
    BY <1>1, <2>4, <2>5, <2>6, <2>7, <2>8
    DEF Next, RequestCancel, LeaseExpires, Crash, Authorize, MarkReady, EnterState, RunStage,
        DispatcherAnswers, RunExternalStage, ReconcileAdopts, ReconcileCannotTell, Supersede,
        PrepareAttempt, MarkDispatched, PersistResponse, RunCleanup, Compensate, Finalize,
        FinishFinalize
<1>2. EInv /\ [Next]_vars => [\A s \in Stage \ {"CLEANUP"} : Done(s) => rec'[s] = rec[s]]_vars
  BY <1>1
<1> QED
  BY <1>2, InitEInv, NextEInv, PTL DEF Spec, DoneIsFinal

(* An attempt of unknown outcome is superseded only by a call that carries  *)
(* the decision, and the operator's when either of the two calls is paid.   *)
THEOREM UnknownGivenUpByDecision == Spec => GivenUpExplicitly
<1> DEFINE GivenUp(s, i) == /\ attempts[s][i].status = "DISPATCHED"
                            /\ attempts'[s][i].status = "SUPERSEDED"
<1>1. ASSUME EInv, Next, NEW s \in External, NEW i \in 1..Len(attempts[s]), GivenUp(s, i)
      PROVE  DecidedFor(s, i, ctl.call)
  <2> DEFINE x == ctl.stage
  <2>1. attempts \in [External -> Seq(Attempt)] /\ attempts[s][i] \in Attempt
    BY <1>1 DEF EInv, IInv, TypeOK
  <2>2. ASSUME NEW y \in External, NEW j \in 1..Len(attempts[y]), NEW a \in Attempt,
               WriteAttempt(y, j, a)
        PROVE  s = y /\ i = j /\ a.status = "SUPERSEDED"
    <3>1. CASE s = y /\ i = j
      BY <1>1, <2>1, <2>2, <3>1 DEF WriteAttempt
    <3>2. CASE ~(s = y /\ i = j)
      <4>1. attempts'[s][i] = attempts[s][i]
        BY <2>1, <2>2, <3>2 DEF WriteAttempt
      <4> QED
        BY <1>1, <4>1
    <3> QED
      BY <3>1, <3>2
  <2>3. ~UNCHANGED attempts
    BY <1>1
  <2>4. CASE Supersede
    <3>1. PICK j \in Stale(x) : MarkAttempt(x, j, "SUPERSEDED")
      BY <2>4 DEF Supersede
    <3>2. x \in External /\ j \in 1..Len(attempts[x])
      BY <1>1, <2>4, <3>1 DEF Supersede, EInv, IInv, CtlAttempt, ExternalPC, Stale, Unknown, With
    <3>3. attempts[x][j] \in Attempt
      BY <2>1, <3>2
    <3>4. [attempts[x][j] EXCEPT !.status = "SUPERSEDED"] \in Attempt
      BY <3>3 DEF Attempt, AttemptStatus
    <3>5. s = x /\ i = j
      BY <2>2, <3>1, <3>2, <3>4 DEF MarkAttempt
    <3>6. i \in Unknown(x)
      BY <1>1, <3>5 DEF Unknown, With
    <3> QED
      BY <1>1, <2>4, <3>5, <3>6 DEF Supersede, EInv, CallInv
  <2>5. CASE ReconcileAdopts \/ MarkDispatched \/ PersistResponse
    <3>1. x \in External /\ ctl.no \in 1..Len(attempts[x])
      BY <1>1, <2>5 DEF ReconcileAdopts, MarkDispatched, PersistResponse, EInv, IInv, CtlAttempt,
                        ExternalPC, AttemptPC
    <3>2. attempts[x][ctl.no] \in Attempt /\ ctl \in Ctl
      BY <1>1, <2>1, <3>1 DEF EInv, IInv, TypeOK, Ctl
    <3>3. PICK a : WriteAttempt(x, ctl.no, a) /\ a \in Attempt /\ a.status # "SUPERSEDED"
      <4>1. CASE ReconcileAdopts
        <5>1. PICK k \in 1..Len(effects[x]) : WriteAttempt(x, ctl.no,
                [attempts[x][ctl.no] EXCEPT !.status = "COMPLETED",
                   !.fresh = effects[x][k].out.fresh, !.usage = effects[x][k].out.usage])
          BY <4>1 DEF ReconcileAdopts
        <5>2. effects[x][k] \in Effect
          BY <1>1, <3>1 DEF EInv, IInv, TypeOK
        <5>3. LET a == [attempts[x][ctl.no] EXCEPT !.status = "COMPLETED",
                          !.fresh = effects[x][k].out.fresh, !.usage = effects[x][k].out.usage]
              IN a \in Attempt /\ a.status # "SUPERSEDED"
          BY <3>2, <5>2 DEF Attempt, AttemptStatus, Effect, Outcome
        <5> QED
          BY <5>1, <5>3
      <4>2. CASE MarkDispatched
        <5> DEFINE a == [attempts[x][ctl.no] EXCEPT !.status = "DISPATCHED", !.dispatched = TRUE]
        <5>1. a \in Attempt /\ a.status # "SUPERSEDED"
          BY <3>2 DEF Attempt, AttemptStatus
        <5> QED
          BY <4>2, <5>1 DEF MarkDispatched
      <4>3. CASE PersistResponse
        <5> DEFINE a == [attempts[x][ctl.no] EXCEPT !.status = "COMPLETED",
                           !.fresh = ctl.out.fresh, !.usage = ctl.out.usage]
                   b == [attempts[x][ctl.no] EXCEPT !.status = "FAILED"]
        <5>1. a \in Attempt /\ a.status # "SUPERSEDED" /\ b \in Attempt /\ b.status # "SUPERSEDED"
          BY <3>2 DEF Attempt, AttemptStatus, Ctl, Outcome
        <5>2. WriteAttempt(x, ctl.no, a) \/ WriteAttempt(x, ctl.no, b)
          BY <4>3 DEF PersistResponse, MarkAttempt
        <5> QED
          BY <5>1, <5>2
      <4> QED
        BY <2>5, <4>1, <4>2, <4>3
    <3> QED
      BY <2>2, <3>1, <3>3
  <2>6. CASE PrepareAttempt
    <3>1. x \in External
      BY <1>1, <2>6 DEF PrepareAttempt, EInv, IInv, CtlAttempt, ExternalPC
    <3>2. attempts'[s][i] = attempts[s][i]
      BY <2>1, <2>6, <3>1 DEF PrepareAttempt
    <3> QED
      BY <1>1, <3>2
  <2> QED
    BY <1>1, <2>3, <2>4, <2>5, <2>6
    DEF Next, RequestCancel, LeaseExpires, Crash, Authorize, MarkReady, EnterState, RunStage,
        DispatcherAnswers, RunExternalStage, ReconcileCannotTell, CommitControl, MarkRunning,
        ExecutorReports, FailStage, CommitStageDone, EndCleanup, RunCleanup, Compensate, Finalize,
        FinishFinalize
<1>2. EInv /\ [Next]_vars =>
        [\A s \in External : \A i \in 1..Len(attempts[s]) :
           attempts[s][i].status = "DISPATCHED" /\ attempts'[s][i].status = "SUPERSEDED"
             => /\ ctl.call.auth
                /\ attempts[s][i].call.paid \/ ctl.call.paid => ctl.call.operator]_vars
  BY <1>1 DEF DecidedFor
<1> QED
  BY <1>2, InitEInv, NextEInv, PTL DEF Spec, GivenUpExplicitly

-----------------------------------------------------------------------------
(* The budget.                                                              *)

Price(r) == IF r.status = "DONE" /\ r.usage # UNKNOWN THEN r.usage ELSE 0

(* Writing one record adds at most its price to the aggregate. *)
LEMMA AggregateGrowth ==
  ASSUME TypeOK, NEW s \in Stage, NEW r \in StageRecord, WriteStage(s, r)
  PROVE  /\ AggregateUsage' \in Nat
         /\ AggregateUsage' <= AggregateUsage + Price(r)
         /\ \A t \in Stage : Charged(t)' = IF t = s THEN Price(r) ELSE Charged(t)
         /\ Price(r) \in Nat
<1>1. ASSUME NEW t \in Stage PROVE Charged(t)' = IF t = s THEN Price(r) ELSE Charged(t)
  BY DEF WriteStage, TypeOK, Charged, Done, Price
<1>2. ASSUME NEW t \in Stage PROVE Charged(t) \in Nat
  BY DEF TypeOK, StageRecord, Usage, Charged
<1>3. Price(r) \in Nat
  BY DEF StageRecord, Usage, Price
<1>4. AggregateUsage' \in Nat /\ AggregateUsage' <= AggregateUsage + Price(r)
  <2> HIDE DEF Price
  <2> QED
    BY <1>1, <1>2, <1>3 DEF AggregateUsage, Stage
<1> QED
  BY <1>1, <1>3, <1>4

(* Only a response that was checked against the budget is charged. *)
LEMMA SettleBudget ==
  ASSUME TypeOK, BudgetRespected, NEW s \in Stage, NEW o, o.usage \in Usage, Settle(s, o)
  PROVE  BudgetRespected'
<1>1. AggregateUsage \in Nat /\ PerStageBudget \in Nat /\ CumulativeBudget \in Nat
  BY AggregateIsNat, LifecycleAssumption
<1>2. CASE WriteStage(s, Blank("FAILED"))
  <2>1. Blank("FAILED") \in StageRecord /\ Price(Blank("FAILED")) = 0
    BY DEF Blank, StageRecord, StageStatus, Usage, Price
  <2>2. /\ AggregateUsage' \in Nat
        /\ AggregateUsage' <= AggregateUsage + 0
        /\ \A t \in Stage : Charged(t)' = IF t = s THEN 0 ELSE Charged(t)
    BY <1>2, <2>1, AggregateGrowth
  <2> QED
    BY <1>1, <2>2 DEF BudgetRespected
<1>3. CASE /\ WithinBudget(o.usage) /\ o.usage # UNKNOWN
           /\ WriteStage(s, [status |-> "DONE", fresh |-> TRUE, usage |-> o.usage])
  <2> DEFINE r == [status |-> "DONE", fresh |-> TRUE, usage |-> o.usage]
  <2>1. r \in StageRecord /\ Price(r) = o.usage /\ o.usage \in Nat
    BY <1>3 DEF StageRecord, StageStatus, Usage, Price
  <2>2. /\ AggregateUsage' \in Nat
        /\ AggregateUsage' <= AggregateUsage + o.usage
        /\ \A t \in Stage : Charged(t)' = IF t = s THEN o.usage ELSE Charged(t)
    BY <1>3, <2>1, AggregateGrowth
  <2> QED
    BY <1>1, <1>3, <2>1, <2>2 DEF BudgetRespected, WithinBudget
<1>4. CASE UNCHANGED rec
  BY <1>4 DEF BudgetRespected, Charged, AggregateUsage, Done
<1> QED
  BY <1>2, <1>3, <1>4 DEF Settle

(* A record that costs nothing keeps the budget. *)
LEMMA FreeBudget ==
  ASSUME TypeOK, BudgetRespected, NEW s \in Stage, NEW r \in StageRecord, WriteStage(s, r),
         r.status = "DONE" => r.usage = 0
  PROVE  BudgetRespected'
<1>1. AggregateUsage \in Nat /\ PerStageBudget \in Nat /\ CumulativeBudget \in Nat
  BY AggregateIsNat, LifecycleAssumption
<1>2. Price(r) = 0
  BY DEF Price
<1>3. /\ AggregateUsage' \in Nat
      /\ AggregateUsage' <= AggregateUsage + 0
      /\ \A t \in Stage : Charged(t)' = IF t = s THEN 0 ELSE Charged(t)
  BY <1>2, AggregateGrowth
<1> QED
  BY <1>1, <1>3 DEF BudgetRespected

(* What is charged never exceeds the per-stage nor the cumulative budget,   *)
(* in whatever order stages fail, are retried, reconciled and replayed.     *)
THEOREM BudgetNeverExceeded == Spec => []BudgetRespected
<1>1. Init => BudgetRespected
  <2> SUFFICES ASSUME Init PROVE BudgetRespected
    OBVIOUS
  <2>1. \A s \in Stage : Charged(s) = 0
    BY DEF Init, Charged, Done, Blank
  <2>2. AggregateUsage = 0
    BY <2>1 DEF AggregateUsage, Stage
  <2> QED
    BY <2>1, <2>2, LifecycleAssumption DEF BudgetRespected
<1>2. IInv /\ BudgetRespected /\ [Next]_vars => BudgetRespected'
  <2> SUFFICES ASSUME IInv, BudgetRespected, [Next]_vars PROVE BudgetRespected'
    OBVIOUS
  <2>1. TypeOK /\ ctl \in Ctl /\ ctl.stage \in Stage
    BY DEF IInv, TypeOK, Ctl
  <2>2. ASSUME NEW st \in {"RUNNING", "FAILED"} PROVE Blank(st) \in StageRecord /\ Blank(st).status # "DONE"
    BY DEF Blank, StageRecord, StageStatus, Usage
  <2>3. \A st \in {"DONE", "FAILED"} : [status |-> st, fresh |-> TRUE, usage |-> 0] \in StageRecord
    BY DEF StageRecord, StageStatus, Usage
  <2>4. CASE FailStage \/ MarkRunning
    BY <2>1, <2>2, <2>4, FreeBudget DEF FailStage, MarkRunning
  <2>5. CASE CommitControl
    BY <2>1, <2>3, <2>5, FreeBudget DEF CommitControl
  <2>6. CASE EndCleanup
    <3> DEFINE st == IF ctl.allok THEN "DONE" ELSE "FAILED"
    <3>1. st \in {"DONE", "FAILED"} /\ "CLEANUP" \in Stage
      BY DEF Stage
    <3>2. WriteStage("CLEANUP", [status |-> st, fresh |-> TRUE, usage |-> 0])
      BY <2>6 DEF EndCleanup
    <3> HIDE DEF st
    <3> QED
      BY <2>1, <2>3, <3>1, <3>2, FreeBudget
  <2>7. CASE CommitStageDone
    <3> DEFINE s == ctl.stage
               a == attempts[s][ctl.no]
               o == [ok |-> TRUE, fresh |-> a.fresh, usage |-> a.usage]
    <3>1. s \in External /\ ctl.no \in 1..Len(attempts[s])
      BY <2>7 DEF CommitStageDone, IInv, CtlAttempt, ExternalPC, AttemptPC
    <3>2. a \in Attempt
      BY <2>1, <3>1 DEF TypeOK
    <3>3. o.usage \in Usage
      BY <3>2 DEF Attempt
    <3>4. Settle(s, o)
      BY <2>7 DEF CommitStageDone
    <3> HIDE DEF o
    <3> QED
      BY <2>1, <3>3, <3>4, SettleBudget
  <2>8. ASSUME NEW o \in Outcomes, ExecutorReports(o) PROVE BudgetRespected'
    BY <2>1, <2>8, SettleBudget, LifecycleAssumption DEF ExecutorReports, Outcome
  <2>9. CASE UNCHANGED rec
    BY <2>9 DEF BudgetRespected, Charged, AggregateUsage, Done
  <2> QED
    BY <2>4, <2>5, <2>6, <2>7, <2>8, <2>9
    DEF Next, vars, RequestCancel, LeaseExpires, Crash, Authorize, MarkReady, EnterState, RunStage,
        DispatcherAnswers, RunExternalStage, ReconcileAdopts, ReconcileCannotTell, Supersede,
        PrepareAttempt, MarkDispatched, PersistResponse, RunCleanup, Compensate, Finalize,
        FinishFinalize
<1> QED
  BY <1>1, <1>2, InitIInv, NextIInv, PTL DEF Spec

-----------------------------------------------------------------------------
(* The loop.                                                                *)

(* A stage whose record exists was entered, and the overall state has not   *)
(* gone back behind it.                                                     *)
WritePC == {"execute", "mark_dispatched", "dispatch", "returned", "fail", "commit", "reconcile"}

Begun(s) == rec[s].status # "none"

EnteredInv ==
  /\ ctl.pc = "running" => state = ActiveState[ctl.stage]
  /\ ctl.pc \in WritePC => Begun(ctl.stage)
  /\ \A s \in External : Completed(s) \cup Unknown(s) # {} => Begun(s)
  /\ Begun("REMEDIATE") =>
       state \in {"REMEDIATING", "RETESTING", "REPORTING", "CLEANING_UP"} \cup Terminal
  /\ Begun("REPORT") => state \in {"REPORTING", "CLEANING_UP"} \cup Terminal

(* A remediation begun leads to a report only through a prepared retest.    *)
RetestInv ==
  "RETEST" \in External =>
    /\ state = "RETESTING" => attempts["RETEST"] # <<>>
    /\ Begun("REMEDIATE") /\ (state = "REPORTING" \/ Begun("REPORT")) => attempts["RETEST"] # <<>>

(* A cleanup that is DONE has an entry for every obligation, and a verdict  *)
(* on its way says no more than the ledger it was read from.                *)
CleanupInv ==
  /\ ctl.pc \in {"enter", "running", "execute"} => ctl.stage # "CLEANUP"
  /\ ctl.pc = "cleanup" => \A o \in Obligations \ ctl.todo : cleanup[o] # "none"
  /\ Done("CLEANUP") => \A o \in Obligations : cleanup[o] # "none"
  /\ ctl.pc = "finalize" /\ ctl.verdict.final = "COMPLETED" => RequiredDone /\ CleanupOk

LInv == IInv /\ EnteredInv /\ RetestInv /\ CleanupInv

(* The overall state never goes back behind a remediation or a report, and  *)
(* a report follows a verification or a retest.                             *)
LEMMA TransitionsAhead ==
  /\ \A x \in {"REMEDIATING", "RETESTING", "REPORTING", "CLEANING_UP"} \cup Terminal :
        Transitions[x] \subseteq {"REMEDIATING", "RETESTING", "REPORTING", "CLEANING_UP"} \cup Terminal
  /\ \A x \in {"REPORTING", "CLEANING_UP"} \cup Terminal :
        Transitions[x] \subseteq {"REPORTING", "CLEANING_UP"} \cup Terminal
  /\ \A x \in State : "REPORTING" \in Transitions[x] => x \in {"VERIFYING", "RETESTING"}
<1>1. \A x \in Terminal : Transitions[x] = {}
  BY DEF Transitions, State, Active, Terminal
<1>2. /\ Transitions["REMEDIATING"] = {"RETESTING"} \cup ActiveExits
      /\ Transitions["RETESTING"] = {"REPORTING"} \cup ActiveExits
      /\ Transitions["REPORTING"] = ActiveExits
      /\ Transitions["CLEANING_UP"] = Terminal
      /\ Transitions["CREATED"] = {"AUTHORIZED"} \cup ActiveExits
      /\ Transitions["AUTHORIZED"] = {"READY"} \cup ActiveExits
      /\ Transitions["READY"] = {"RUNNING"} \cup ActiveExits
      /\ Transitions["RUNNING"] = {"VERIFYING"} \cup ActiveExits
  BY DEF Transitions, State, Active
<1> QED
  BY <1>1, <1>2 DEF State, Active, ActiveExits, Terminal

(* A step that writes no record and no attempt and leaves the state alone   *)
(* keeps everything but what is said of the call in hand.                   *)
LEMMA LQuiet ==
  ASSUME LInv, UNCHANGED <<state, rec, attempts, cleanup>>,
         \/ UNCHANGED ctl
         \/ ctl'.pc \notin WritePC \cup {"running", "enter", "cleanup", "finalize"}
         \/ ctl'.pc \in WritePC \ {"execute"} /\ Begun(ctl'.stage)
         \/ ctl'.pc = "enter" /\ ctl'.stage # "CLEANUP"
  PROVE  EnteredInv' /\ RetestInv' /\ CleanupInv'
<1>1. EnteredInv'
  BY DEF LInv, EnteredInv, Begun, Completed, Unknown, With, WritePC
<1>2. RetestInv'
  BY DEF LInv, RetestInv, Begun
<1>3. CleanupInv'
  BY DEF LInv, CleanupInv, Done, RequiredDone, CleanupOk, Entries, WritePC
<1> QED
  BY <1>1, <1>2, <1>3

(* Writing the record of a stage that is begun, or that is neither of the   *)
(* two the invariant speaks of.                                             *)
LEMMA LRecord ==
  ASSUME LInv, UNCHANGED <<state, attempts, cleanup>>, Return, NEW s \in Stage,
         NEW r \in StageRecord, rec' = [rec EXCEPT ![s] = r], r.status # "none",
         Begun(s) \/ s \notin {"REMEDIATE", "REPORT"},
         s = "CLEANUP" /\ r.status = "DONE" => \A o \in Obligations : cleanup[o] # "none"
  PROVE  EnteredInv' /\ RetestInv' /\ CleanupInv'
<1>1. ctl'.pc = "idle"
  BY DEF Return, NoCtl
<1>2. \A t \in Stage : rec'[t] = IF t = s THEN r ELSE rec[t]
  BY DEF LInv, IInv, TypeOK
<1>3. /\ \A t \in Stage : Begun(t) => Begun(t)'
      /\ \A t \in {"REMEDIATE", "REPORT"} : Begun(t)' => Begun(t)
  BY <1>2 DEF Begun, Stage
<1>4. EnteredInv'
  <2>1. \A t \in External : Completed(t)' = Completed(t) /\ Unknown(t)' = Unknown(t) /\ t \in Stage
    BY LifecycleAssumption DEF Completed, Unknown, With
  <2> QED
    BY <1>1, <1>3, <2>1 DEF LInv, EnteredInv, WritePC
<1>5. RetestInv'
  BY <1>3 DEF LInv, RetestInv
<1>6. CleanupInv'
  BY <1>1, <1>2 DEF LInv, CleanupInv, Done, Stage
<1> QED
  BY <1>4, <1>5, <1>6

(* Writing attempts of a stage: one that is begun, or none of its attempts  *)
(* becomes unknown or completed.                                            *)
LEMMA LAttempt ==
  ASSUME LInv, UNCHANGED <<state, rec, cleanup>>, NEW s \in External,
         \A t \in External \ {s} : attempts'[t] = attempts[t],
         attempts[s] # <<>> => attempts'[s] # <<>>,
         Begun(s) \/ (Completed(s) \cup Unknown(s))' \subseteq Completed(s) \cup Unknown(s),
         ctl'.pc \in WritePC \ {"execute"} => ctl'.stage = s /\ Begun(s),
         ctl'.pc \notin {"running", "cleanup", "finalize", "execute"},
         ctl'.pc = "enter" => ctl'.stage = s
  PROVE  EnteredInv' /\ RetestInv' /\ CleanupInv'
<1>1. \A t \in External : Completed(t)' \cup Unknown(t)' # {} => Begun(t)
  <2> SUFFICES ASSUME NEW t \in External, Completed(t)' \cup Unknown(t)' # {} PROVE Begun(t)
    OBVIOUS
  <2>1. CASE t = s
    BY <2>1 DEF LInv, EnteredInv
  <2>2. CASE t # s
    <3>1. Completed(t)' = Completed(t) /\ Unknown(t)' = Unknown(t)
      BY <2>2 DEF Completed, Unknown, With
    <3> QED
      BY <3>1 DEF LInv, EnteredInv
  <2> QED
    BY <2>1, <2>2
<1>2. EnteredInv'
  BY <1>1 DEF LInv, EnteredInv, Begun, WritePC
<1>3. RetestInv'
  BY DEF LInv, RetestInv, Begun
<1>4. CleanupInv'
  BY LifecycleAssumption DEF LInv, CleanupInv, Done, WritePC
<1> QED
  BY <1>2, <1>3, <1>4

LEMMA LBegin ==
  ASSUME LInv,
         \/ RequestCancel \/ LeaseExpires \/ Crash \/ Authorize \/ MarkReady
         \/ \E s \in Internal : RunStage(s)
         \/ \E s \in External, c \in Calls : RunExternalStage(s, c)
  PROVE  EnteredInv' /\ RetestInv' /\ CleanupInv'
<1>1. CASE RequestCancel \/ LeaseExpires
  BY <1>1, LQuiet DEF RequestCancel, LeaseExpires
<1>2. CASE Crash
  <2>1. ctl'.pc = "idle"
    BY <1>2 DEF Crash, Return, NoCtl
  <2> QED
    BY <1>2, <2>1, LQuiet DEF Crash, WritePC
<1>3. CASE Authorize \/ MarkReady \/ \E s \in Internal : RunStage(s)
  <2>1. PICK s \in {"AUTHORIZE", "PREPARE"} \cup Internal : Begin(s, "enter", NoCall, 0)
    BY <1>3 DEF Authorize, MarkReady, RunStage
  <2>2. ctl'.pc = "enter" /\ ctl'.stage = s /\ s # "CLEANUP"
    BY <2>1, LifecycleAssumption DEF Begin, NoCtl
  <2> QED
    BY <1>3, <2>2, LQuiet DEF Authorize, MarkReady, RunStage
<1>4. ASSUME NEW s \in External, NEW c \in Calls, RunExternalStage(s, c)
      PROVE  EnteredInv' /\ RetestInv' /\ CleanupInv'
  <2>1. ctl'.pc = Path(s, c) /\ ctl'.stage = s
    <3>1. PICK no : Begin(s, Path(s, c), c, no)
      BY <1>4 DEF RunExternalStage
    <3> QED
      BY <3>1 DEF Begin, NoCtl
  <2>2. Path(s, c) \in {"commit", "reconcile", "open", "raise"}
    BY DEF Path
  <2>3. Path(s, c) \in {"commit", "reconcile"} => Completed(s) \cup Unknown(s) # {}
    BY DEF Path
  <2>4. Path(s, c) \in {"commit", "reconcile"} => Begun(s)
    BY <2>3 DEF LInv, EnteredInv
  <2> QED
    BY <1>4, <2>1, <2>2, <2>4, LQuiet DEF RunExternalStage, WritePC
<1> QED
  BY <1>1, <1>2, <1>3, <1>4

LEMMA LEnter ==
  ASSUME LInv, EnterState PROVE EnteredInv' /\ RetestInv' /\ CleanupInv'
<1>1. CASE ~MaySet(ActiveState[ctl.stage])
  <2>1. ctl'.pc = "idle"
    BY <1>1 DEF EnterState, Return, NoCtl
  <2> QED
    BY <1>1, <2>1, LQuiet DEF EnterState, WritePC
<1>2. CASE MaySet(ActiveState[ctl.stage])
  <2> DEFINE new == ActiveState[ctl.stage]
  <2>1. /\ state' = new /\ ctl'.stage = ctl.stage /\ ctl'.pc \in {"control", "running"}
        /\ ctl.pc = "enter" /\ ctl.stage # "CLEANUP"
        /\ UNCHANGED <<rec, attempts, cleanup>>
    BY <1>2, GotoType DEF EnterState, LInv, IInv, CleanupInv, PC
  <2>2. /\ state \in State /\ ctl.stage \in Stage
        /\ new = state \/ new \in Transitions[state]
    BY <1>2 DEF LInv, IInv, TypeOK, MaySet
  <2>3. /\ new = "RETESTING" => ctl.stage = "RETEST"
        /\ new # "CLEANING_UP"
    BY <2>1, <2>2 DEF ActiveState, Stage
  <2> HIDE DEF new
  <2>4. /\ \A s \in Stage : Begun(s)' = Begun(s)
        /\ \A s \in External : Completed(s)' = Completed(s) /\ Unknown(s)' = Unknown(s) /\ s \in Stage
    BY <2>1, LifecycleAssumption DEF Begun, Completed, Unknown, With
  <2>5. EnteredInv'
    <3>1. /\ Begun("REMEDIATE")' =>
               state' \in {"REMEDIATING", "RETESTING", "REPORTING", "CLEANING_UP"} \cup Terminal
          /\ Begun("REPORT")' => state' \in {"REPORTING", "CLEANING_UP"} \cup Terminal
      BY <2>1, <2>2, <2>4, TransitionsAhead DEF LInv, EnteredInv, Stage
    <3>2. ctl'.pc = "running" => state' = ActiveState[ctl'.stage]
      BY <2>1 DEF new
    <3> QED
      BY <2>1, <2>4, <3>1, <3>2 DEF LInv, EnteredInv, WritePC
  <2>6. RetestInv'
    <3> SUFFICES ASSUME "RETEST" \in External
                 PROVE  /\ state' = "RETESTING" => attempts'["RETEST"] # <<>>
                        /\ Begun("REMEDIATE")' /\ (state' = "REPORTING" \/ Begun("REPORT")') =>
                             attempts'["RETEST"] # <<>>
      BY DEF RetestInv
    <3>1. ctl.stage = "RETEST" => attempts["RETEST"] # <<>>
      BY <2>1 DEF LInv, IInv, CtlAttempt, AttemptPC
    <3>2. Begun("REMEDIATE") => state # "VERIFYING"
      BY DEF LInv, EnteredInv, Terminal
    <3>3. new = "REPORTING" /\ Begun("REMEDIATE") => attempts["RETEST"] # <<>>
      BY <2>2, <3>2, TransitionsAhead DEF LInv, RetestInv
    <3> QED
      BY <2>1, <2>3, <2>4, <3>1, <3>3 DEF LInv, RetestInv, Stage
  <2>7. CleanupInv'
    BY <2>1 DEF LInv, CleanupInv, Done
  <2> QED
    BY <2>5, <2>6, <2>7
<1> QED
  BY <1>1, <1>2

LEMMA LRunning ==
  ASSUME LInv, MarkRunning PROVE EnteredInv' /\ RetestInv' /\ CleanupInv'
<1>1. /\ ctl'.stage = ctl.stage /\ ctl'.pc \in {"mark_dispatched", "execute"}
      /\ ctl.pc = "running" /\ ctl.stage # "CLEANUP" /\ ctl.stage \in Stage
      /\ state = ActiveState[ctl.stage]
      /\ UNCHANGED <<state, attempts, cleanup>>
  BY GotoType DEF MarkRunning, LInv, IInv, TypeOK, CleanupInv, EnteredInv, PC
<1>2. \A s \in Stage : rec'[s] = IF s = ctl.stage THEN Blank("RUNNING") ELSE rec[s]
  BY <1>1 DEF MarkRunning, WriteStage, LInv, IInv, TypeOK
<1>3. \A s \in Stage : Begun(s)' <=> s = ctl.stage \/ Begun(s)
  BY <1>2 DEF Begun, Blank
<1>4. /\ ctl.stage = "REMEDIATE" => state = "REMEDIATING"
      /\ ctl.stage = "REPORT" => state = "REPORTING"
  BY <1>1 DEF ActiveState, Stage
<1>5. EnteredInv'
  <2>1. \A s \in External : Completed(s)' = Completed(s) /\ Unknown(s)' = Unknown(s) /\ s \in Stage
    BY <1>1, LifecycleAssumption DEF Completed, Unknown, With
  <2>2. /\ Begun("REMEDIATE")' =>
             state' \in {"REMEDIATING", "RETESTING", "REPORTING", "CLEANING_UP"} \cup Terminal
        /\ Begun("REPORT")' => state' \in {"REPORTING", "CLEANING_UP"} \cup Terminal
    BY <1>1, <1>3, <1>4 DEF LInv, EnteredInv, Stage
  <2> QED
    BY <1>1, <1>3, <2>1, <2>2 DEF LInv, EnteredInv
<1>6. RetestInv'
  <2>1. state = "REMEDIATING" => ~Begun("REPORT")
    BY DEF LInv, EnteredInv, Terminal
  <2> QED
    BY <1>1, <1>3, <1>4, <2>1 DEF LInv, RetestInv, Stage
<1>7. CleanupInv'
  BY <1>1, <1>2 DEF LInv, CleanupInv, Done, Stage
<1> QED
  BY <1>5, <1>6, <1>7

LEMMA LRecords ==
  ASSUME LInv,
         CommitControl \/ FailStage \/ CommitStageDone \/ EndCleanup
           \/ \E o \in Outcomes : ExecutorReports(o)
  PROVE  EnteredInv' /\ RetestInv' /\ CleanupInv'
<1>1. TypeOK /\ ctl.stage \in Stage /\ UNCHANGED <<state, attempts, cleanup>> /\ Return
  BY DEF LInv, IInv, TypeOK, CommitControl, FailStage, CommitStageDone, EndCleanup, ExecutorReports
<1>2. ASSUME NEW st \in {"FAILED", "DONE"}, NEW f \in BOOLEAN, NEW u \in Usage
      PROVE  LET r == [status |-> st, fresh |-> f, usage |-> u]
             IN r \in StageRecord /\ r.status # "none"
  BY DEF StageRecord, StageStatus
<1>3. CASE CommitControl
  <2> DEFINE r == [status |-> "DONE", fresh |-> TRUE, usage |-> 0]
  <2>1. rec' = [rec EXCEPT ![ctl.stage] = r] /\ ctl.stage \in Control
    BY <1>3 DEF CommitControl, WriteStage, LInv, IInv, CtlAttempt
  <2>2. r \in StageRecord /\ r.status # "none"
    BY <1>2 DEF Usage
  <2> QED
    BY <1>1, <2>1, <2>2, LRecord
<1>4. CASE FailStage
  <2>1. Blank("FAILED") \in StageRecord /\ Blank("FAILED").status = "FAILED"
    BY <1>2 DEF Blank, Usage
  <2>2. rec' = [rec EXCEPT ![ctl.stage] = Blank("FAILED")] /\ Begun(ctl.stage)
    BY <1>4 DEF FailStage, WriteStage, LInv, EnteredInv, WritePC
  <2> QED
    BY <1>1, <2>1, <2>2, LRecord
<1>5. ASSUME NEW o, o.usage \in Usage, Settle(ctl.stage, o), Begun(ctl.stage),
             ctl.stage # "CLEANUP"
      PROVE  EnteredInv' /\ RetestInv' /\ CleanupInv'
  <2>1. CASE UNCHANGED rec
    <3>1. ctl'.pc = "idle"
      BY <1>1 DEF Return, NoCtl
    <3> QED
      BY <1>1, <2>1, <3>1, LQuiet DEF WritePC
  <2>2. CASE rec' # rec
    <3>1. PICK r \in {Blank("FAILED"), [status |-> "DONE", fresh |-> TRUE, usage |-> o.usage]} :
            rec' = [rec EXCEPT ![ctl.stage] = r]
      BY <1>5, <2>2 DEF Settle, WriteStage
    <3>2. r \in StageRecord /\ r.status # "none"
      BY <1>2, <1>5, <3>1 DEF Blank, Usage
    <3> QED
      BY <1>1, <1>5, <3>1, <3>2, LRecord
  <2> QED
    BY <2>1, <2>2
<1>6. CASE CommitStageDone
  <2> DEFINE a == attempts[ctl.stage][ctl.no]
             o == [ok |-> TRUE, fresh |-> a.fresh, usage |-> a.usage]
  <2>1. a \in Attempt /\ ctl.stage # "CLEANUP"
    BY <1>6, LifecycleAssumption DEF CommitStageDone, LInv, IInv, TypeOK, CtlAttempt, ExternalPC, AttemptPC
  <2>2. o.usage \in Usage /\ Settle(ctl.stage, o) /\ Begun(ctl.stage)
    BY <1>6, <2>1 DEF CommitStageDone, Attempt, LInv, EnteredInv, WritePC
  <2> HIDE DEF o
  <2> QED
    BY <1>5, <2>1, <2>2
<1>7. ASSUME NEW o \in Outcomes, ExecutorReports(o) PROVE EnteredInv' /\ RetestInv' /\ CleanupInv'
  <2>1. o.usage \in Usage
    BY LifecycleAssumption DEF Outcome
  <2>2. Settle(ctl.stage, o) /\ Begun(ctl.stage) /\ ctl.stage # "CLEANUP"
    BY <1>7 DEF ExecutorReports, LInv, EnteredInv, WritePC, CleanupInv
  <2> QED
    BY <1>5, <2>1, <2>2
<1>8. CASE EndCleanup
  <2> DEFINE st == IF ctl.allok THEN "DONE" ELSE "FAILED"
             r == [status |-> st, fresh |-> TRUE, usage |-> 0]
  <2>1. r \in StageRecord /\ r.status # "none" /\ "CLEANUP" \in Stage
    BY <1>2 DEF Usage, Stage
  <2>2. rec' = [rec EXCEPT !["CLEANUP"] = r]
    BY <1>8 DEF EndCleanup, WriteStage
  <2>3. \A o \in Obligations : cleanup[o] # "none"
    BY <1>8 DEF EndCleanup, LInv, CleanupInv
  <2> HIDE DEF r
  <2> QED
    BY <1>1, <2>1, <2>2, <2>3, LRecord
<1> QED
  BY <1>3, <1>4, <1>6, <1>7, <1>8

LEMMA LBroker ==
  ASSUME LInv,
         \/ \E o \in Outcomes : DispatcherAnswers(o)
         \/ ReconcileCannotTell \/ Supersede \/ PrepareAttempt
         \/ ReconcileAdopts \/ MarkDispatched \/ PersistResponse
  PROVE  EnteredInv' /\ RetestInv' /\ CleanupInv'
<1>0. ctl.stage \in External
  <2>1. ctl.pc \in ExternalPC
    BY DEF DispatcherAnswers, ReconcileCannotTell, Supersede, PrepareAttempt, ReconcileAdopts,
           MarkDispatched, PersistResponse, ExternalPC
  <2> QED
    BY <2>1 DEF LInv, IInv, CtlAttempt
<1> PICK s \in External : s = ctl.stage
  BY <1>0
<1>1. s = ctl.stage /\ TypeOK /\ ctl \in Ctl /\ attempts[s] \in Seq(Attempt)
  BY DEF LInv, IInv, TypeOK, Ctl
<1>2. ASSUME NEW o \in Outcomes, DispatcherAnswers(o) PROVE EnteredInv' /\ RetestInv' /\ CleanupInv'
  <2>1. ctl'.pc = "returned" /\ ctl'.stage = s
    BY <1>1, <1>2 DEF DispatcherAnswers, Ctl
  <2>2. Begun(s)
    BY <1>1, <1>2 DEF DispatcherAnswers, LInv, EnteredInv, WritePC
  <2> QED
    BY <1>2, <2>1, <2>2, LQuiet DEF DispatcherAnswers, WritePC
<1>3. CASE ReconcileCannotTell
  <2>1. ctl'.pc \in {"open", "idle"}
    BY <1>1, <1>3 DEF ReconcileCannotTell, Goto, Return, NoCtl, Ctl
  <2> QED
    BY <1>3, <2>1, LQuiet DEF ReconcileCannotTell, WritePC
<1>4. CASE PrepareAttempt
  <2> DEFINE a == [status |-> "PREPARED", call |-> ctl.call, dispatched |-> FALSE,
                   fresh |-> FALSE, usage |-> 0]
  <2>1. /\ attempts'[s] = Append(attempts[s], a)
        /\ \A t \in External \ {s} : attempts'[t] = attempts[t]
        /\ ctl'.pc = "enter" /\ ctl'.stage = s
        /\ UNCHANGED <<state, rec, cleanup>>
    BY <1>1, <1>4 DEF PrepareAttempt, TypeOK, Ctl
  <2>2. attempts'[s] # <<>>
    BY <1>1, <2>1
  <2>3. (Completed(s) \cup Unknown(s))' \subseteq Completed(s) \cup Unknown(s)
    BY <1>1, <2>1 DEF Completed, Unknown, With
  <2> QED
    BY <1>1, <2>1, <2>2, <2>3, LAttempt DEF WritePC
<1>5. ASSUME NEW i \in 1..Len(attempts[s]), NEW a \in Attempt, WriteAttempt(s, i, a),
             UNCHANGED <<state, rec, cleanup>>,
             Begun(s) \/ a.status \notin {"COMPLETED", "DISPATCHED"},
             ctl'.stage = s, ctl'.pc \in {"open", "commit", "dispatch", "fail"},
             ctl'.pc # "open" => Begun(s)
      PROVE  EnteredInv' /\ RetestInv' /\ CleanupInv'
  <2>1. /\ attempts'[s] = [attempts[s] EXCEPT ![i] = a]
        /\ \A t \in External \ {s} : attempts'[t] = attempts[t]
    BY <1>1, <1>5 DEF WriteAttempt, TypeOK
  <2>2. /\ attempts'[s] # <<>>
        /\ Len(attempts'[s]) = Len(attempts[s])
        /\ \A j \in 1..Len(attempts[s]) : attempts'[s][j] = IF j = i THEN a ELSE attempts[s][j]
    BY <1>1, <1>5, <2>1
  <2>3. Begun(s) \/ (Completed(s) \cup Unknown(s))' \subseteq Completed(s) \cup Unknown(s)
    BY <1>5, <2>2 DEF Completed, Unknown, With
  <2> QED
    BY <1>1, <1>5, <2>1, <2>2, <2>3, LAttempt DEF WritePC
<1>6. CASE Supersede
  <2>1. PICK i \in Stale(s) : MarkAttempt(s, i, "SUPERSEDED")
    BY <1>1, <1>6 DEF Supersede
  <2>2. i \in 1..Len(attempts[s])
    BY <2>1 DEF Stale, Unknown, With
  <2>3. attempts[s][i] \in Attempt
    BY <1>1, <2>2
  <2>4. [attempts[s][i] EXCEPT !.status = "SUPERSEDED"] \in Attempt
    BY <2>3 DEF Attempt, AttemptStatus
  <2> QED
    BY <1>1, <1>5, <1>6, <2>1, <2>2, <2>3, <2>4 DEF Supersede, MarkAttempt, Attempt
<1>7. CASE ReconcileAdopts \/ MarkDispatched \/ PersistResponse
  <2>1. ctl.no \in 1..Len(attempts[s]) /\ Begun(s)
    BY <1>1, <1>7 DEF ReconcileAdopts, MarkDispatched, PersistResponse, LInv, IInv, CtlAttempt,
                      EnteredInv, WritePC, ExternalPC, AttemptPC
  <2>2. attempts[s][ctl.no] \in Attempt
    BY <1>1, <2>1
  <2>3. \E a \in Attempt : WriteAttempt(s, ctl.no, a)
    <3>1. CASE ReconcileAdopts
      <4>1. PICK k \in 1..Len(effects[s]) : WriteAttempt(s, ctl.no,
              [attempts[s][ctl.no] EXCEPT !.status = "COMPLETED",
                 !.fresh = effects[s][k].out.fresh, !.usage = effects[s][k].out.usage])
        BY <1>1, <3>1 DEF ReconcileAdopts
      <4>2. effects[s][k] \in Effect
        BY <1>1 DEF TypeOK
      <4>3. [attempts[s][ctl.no] EXCEPT !.status = "COMPLETED", !.fresh = effects[s][k].out.fresh,
               !.usage = effects[s][k].out.usage] \in Attempt
        BY <2>2, <4>2 DEF Attempt, AttemptStatus, Effect, Outcome
      <4> QED
        BY <4>1, <4>3
    <3>2. CASE MarkDispatched
      <4>1. [attempts[s][ctl.no] EXCEPT !.status = "DISPATCHED", !.dispatched = TRUE] \in Attempt
        BY <2>2 DEF Attempt, AttemptStatus
      <4> QED
        BY <1>1, <3>2, <4>1 DEF MarkDispatched
    <3>3. CASE PersistResponse
      <4>1. /\ [attempts[s][ctl.no] EXCEPT !.status = "COMPLETED", !.fresh = ctl.out.fresh,
                 !.usage = ctl.out.usage] \in Attempt
            /\ [attempts[s][ctl.no] EXCEPT !.status = "FAILED"] \in Attempt
        BY <1>1, <2>2 DEF Attempt, AttemptStatus, Ctl, Outcome
      <4> QED
        BY <1>1, <3>3, <4>1 DEF PersistResponse, MarkAttempt
    <3> QED
      BY <1>7, <3>1, <3>2, <3>3
  <2>4. /\ ctl'.stage = s /\ ctl'.pc \in {"commit", "dispatch", "fail"}
        /\ UNCHANGED <<state, rec, cleanup>>
    BY <1>1, <1>7 DEF ReconcileAdopts, MarkDispatched, PersistResponse, Goto, Ctl
  <2> QED
    BY <1>5, <2>1, <2>3, <2>4
<1> QED
  BY <1>2, <1>3, <1>4, <1>6, <1>7

LEMMA LEnd ==
  ASSUME LInv,
         \/ RunCleanup \/ Finalize \/ FinishFinalize
         \/ \E o \in Obligations, ok \in BOOLEAN : Compensate(o, ok)
  PROVE  EnteredInv' /\ RetestInv' /\ CleanupInv'
<1>1. TypeOK /\ ctl \in Ctl /\ UNCHANGED <<rec, attempts>>
  <2>1. TypeOK /\ ctl \in Ctl
    BY DEF LInv, IInv, TypeOK, Ctl
  <2>2. UNCHANGED <<rec, attempts>>
    BY DEF RunCleanup, Finalize, FinishFinalize, Compensate
  <2> QED
    BY <2>1, <2>2
<1>2. state' = state \/ state' \in {"CLEANING_UP"} \cup Terminal
  <2>1. CASE RunCleanup
    BY <2>1 DEF RunCleanup
  <2>2. CASE Finalize
    BY <1>1, <2>2, VerdictType DEF Finalize, Verdict
  <2>3. CASE FinishFinalize
    BY <2>3 DEF FinishFinalize, LInv, IInv, CtlAttempt, Verdict
  <2>4. (\E o \in Obligations, ok \in BOOLEAN : Compensate(o, ok)) => state' = state
    BY DEF Compensate
  <2> QED
    BY <2>1, <2>2, <2>3, <2>4
<1>3. ctl'.pc \in {"cleanup", "finalize", "idle"}
  <2>1. RunCleanup => ctl'.pc = "cleanup"
    BY DEF RunCleanup, NoCtl
  <2>2. Finalize => ctl'.pc \in {"finalize", "idle"}
    BY DEF Finalize, Idle, NoCtl
  <2>3. FinishFinalize => ctl'.pc = "idle"
    BY DEF FinishFinalize, Return, NoCtl
  <2>4. (\E o \in Obligations, ok \in BOOLEAN : Compensate(o, ok)) => ctl'.pc = "cleanup"
    BY <1>1 DEF Compensate, Ctl
  <2> QED
    BY <2>1, <2>2, <2>3, <2>4
<1>4. EnteredInv'
  BY <1>1, <1>2, <1>3 DEF LInv, EnteredInv, Begun, Completed, Unknown, With, WritePC
<1>5. RetestInv'
  BY <1>1, <1>2 DEF LInv, RetestInv, Begun, Terminal
<1>6. CleanupInv'
  <2>1. CASE RunCleanup
    <3>1. ctl'.pc = "cleanup" /\ ctl'.todo = Obligations
      BY <2>1 DEF RunCleanup, NoCtl
    <3> QED
      BY <1>1, <2>1, <3>1 DEF RunCleanup, LInv, CleanupInv, Done
  <2>2. CASE Finalize
    <3>1. cleanup' = cleanup /\ ctl'.pc # "cleanup"
      BY <1>1, <2>2 DEF Finalize, Idle, NoCtl
    <3>2. ctl'.pc = "finalize" => ctl'.verdict = ComputeVerdict
      BY <1>1, <2>2 DEF Finalize, Idle, NoCtl
    <3>3. ComputeVerdict.final = "COMPLETED" => RequiredDone /\ CleanupOk
      BY DEF ComputeVerdict, FinalState, CleanupOk
    <3> QED
      BY <1>1, <1>3, <3>1, <3>2, <3>3 DEF LInv, CleanupInv, Done, RequiredDone, CleanupOk, Entries
  <2>3. CASE FinishFinalize
    <3>1. ctl'.pc = "idle" /\ cleanup' = cleanup
      BY <2>3 DEF FinishFinalize, Return, NoCtl
    <3> QED
      BY <1>1, <3>1 DEF LInv, CleanupInv, Done
  <2>4. ASSUME NEW o \in Obligations, NEW ok \in BOOLEAN, Compensate(o, ok) PROVE CleanupInv'
    <3>1. ctl.pc = "cleanup" /\ ctl'.pc = "cleanup" /\ ctl'.todo = ctl.todo \ {o}
      BY <1>1, <2>4 DEF Compensate, Ctl
    <3>2. cleanup' = [cleanup EXCEPT ![o] = IF ok THEN "compensated" ELSE "failed"]
      BY <2>4 DEF Compensate
    <3>3. \A x \in Obligations : cleanup'[x] # "none" <=> x = o \/ cleanup[x] # "none"
      BY <1>1, <3>2 DEF TypeOK
    <3> QED
      BY <1>1, <3>1, <3>3 DEF LInv, CleanupInv, Done
  <2> QED
    BY <2>1, <2>2, <2>3, <2>4
<1> QED
  BY <1>4, <1>5, <1>6

LEMMA InitLInv == Init => LInv
<1> SUFFICES ASSUME Init PROVE LInv
  OBVIOUS
<1>1. IInv /\ ctl.pc = "idle" /\ \A s \in Stage : rec[s].status = "none"
  BY InitIInv DEF Init, NoCtl, Blank
<1>2. \A s \in External : Completed(s) \cup Unknown(s) = {}
  BY DEF Init, Completed, Unknown, With
<1> QED
  BY <1>1, <1>2 DEF Init, LInv, EnteredInv, RetestInv, CleanupInv, Begun, Done, WritePC, Stage

LEMMA NextLInv == LInv /\ [Next]_vars => LInv'
<1> SUFFICES ASSUME LInv, [Next]_vars PROVE LInv'
  OBVIOUS
<1>1. IInv'
  BY NextIInv DEF LInv
<1>2. EnteredInv' /\ RetestInv' /\ CleanupInv'
  <2>1. CASE UNCHANGED vars
    BY <2>1, LQuiet DEF vars
  <2> QED
    BY <2>1, LBegin, LEnter, LRunning, LRecords, LBroker, LEnd DEF Next
<1> QED
  BY <1>1, <1>2 DEF LInv

(* Once a remediation has begun, a report is DONE only if a retest was at   *)
(* least prepared, whichever stages are run inside and whichever outside,   *)
(* and whatever crashed in between: the state machine refuses the rest.     *)
THEOREM ReportFollowsRetest == Spec => []ReportAfterRetest
<1>1. LInv => ReportAfterRetest
  BY DEF LInv, RetestInv, ReportAfterRetest, Begun, Done
<1> QED
  BY <1>1, InitLInv, NextLInv, PTL DEF Spec

(* COMPLETED is reached only with every required stage DONE, the cleanup    *)
(* clean, and, when the cleanup is required, with every obligation of it    *)
(* compensated, also when an earlier cleanup was cut short.                 *)
THEOREM CompletionIsEarned == Spec => CompletedEarned
<1>1. ASSUME LInv, Next, state' = "COMPLETED", state # "COMPLETED"
      PROVE  /\ RequiredDone
             /\ CleanupOk
             /\ "CLEANUP" \in RequiredStages => \A o \in Obligations : cleanup[o] = "compensated"
  <2>1. Finalize \/ FinishFinalize
    <3>1. EnterState => state' = state \/ state' = ActiveState[ctl.stage]
      BY DEF EnterState
    <3>2. ActiveState[ctl.stage] # "COMPLETED"
      BY <1>1, ActiveStateType DEF LInv, IInv, TypeOK, Active
    <3>3. RunCleanup => state' \in {state, "CLEANING_UP"}
      BY DEF RunCleanup
    <3> QED
      BY <1>1, <3>1, <3>2, <3>3
      DEF Next, RequestCancel, LeaseExpires, Crash, Authorize, MarkReady, CommitControl, MarkRunning,
          RunStage, ExecutorReports, DispatcherAnswers, RunExternalStage, ReconcileAdopts,
          ReconcileCannotTell, Supersede, PrepareAttempt, MarkDispatched, PersistResponse, FailStage,
          CommitStageDone, EndCleanup, Compensate
  <2>2. RequiredDone /\ CleanupOk
    <3>1. CASE Finalize
      <4>1. ComputeVerdict.final = "COMPLETED"
        BY <1>1, <3>1 DEF Finalize
      <4> QED
        BY <4>1 DEF ComputeVerdict, FinalState, CleanupOk
    <3>2. CASE FinishFinalize
      BY <1>1, <3>2 DEF FinishFinalize, LInv, CleanupInv
    <3> QED
      BY <2>1, <3>1, <3>2
  <2>3. "CLEANUP" \in RequiredStages => \A o \in Obligations : cleanup[o] = "compensated"
    BY <1>1, <2>2 DEF LInv, CleanupInv, RequiredDone, CleanupOk, Entries
  <2> QED
    BY <2>2, <2>3
<1>2. LInv /\ [Next]_vars =>
        [state' = "COMPLETED" /\ state # "COMPLETED" =>
           /\ RequiredDone
           /\ CleanupOk
           /\ "CLEANUP" \in RequiredStages => \A o \in Obligations : cleanup[o] = "compensated"]_vars
  BY <1>1
<1> QED
  BY <1>2, InitLInv, NextLInv, PTL DEF Spec, CompletedEarned

=============================================================================
