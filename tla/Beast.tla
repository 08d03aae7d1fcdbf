------------------------------- MODULE Beast -------------------------------
(***************************************************************************)
(* The disposable sandbox: the controller's runs (aegis/beast/             *)
(* controller.py) over their store, the supervisor of the one sandbox      *)
(* (beast_sandbox/server.py) and the gateway between the sandbox and the   *)
(* target (beast_gateway/server.py).                                       *)
(*                                                                         *)
(* The controller is one event loop: what a task does between two awaits   *)
(* is one step, and so is a call of its store.  Calls to the supervisor    *)
(* are coroutines there and go on when their caller has given up.  What    *)
(* the supervisor does under its lock is one step, with the gateway's part *)
(* of it; the look at the session before the lock, and the kill before it, *)
(* are steps of their own.                                                 *)
(*                                                                         *)
(* A lease is good for one run, and both are one number.  Commands, their  *)
(* results, the observations and the audit are left out; what the model    *)
(* answers and what the verifier finds is any of what the code tells apart.*)
(***************************************************************************)
EXTENDS Naturals, FiniteSets

CONSTANTS
  MaxRun,      \* bound: leases, and so runs
  Target,      \* the launchable targets
  Stop,        \* presses of the emergency stop
  Request,     \* requests of the sandbox that can be open at once
  MaxCommands, \* ResourceEnvelope.max_commands
  MaxConnections, MaxConcurrency,
  Faults       \* "rpc": an answer is lost or late; "gateway": the supervisor's
               \* calls of the gateway fail; "detached": a command outlives its
               \* process group; "drain": of the controller

Run == 1..MaxRun

ASSUME BeastAssumption ==
  /\ MaxRun \in Nat \ {0}
  /\ Stop \cap Run = {}
  /\ IsFiniteSet(Request)
  /\ {MaxCommands, MaxConnections, MaxConcurrency} \subseteq Nat \ {0}
  /\ Faults \subseteq {"rpc", "gateway", "detached", "drain"}

VARIABLES
  \* the store
  lease,     \* LeaseState: NONE, ACTIVE, CONSUMED, EXPIRED or REVOKED
  late,      \* leases past expires_at
  target,    \* BeastLease.target_ref
  runs,      \* BeastRun: [state, stopped, verdict, clean], see NoRun
  blocked,   \* beast_target_blocks
  \* the controller
  serving,   \* ProcessLifecycle admits work
  task,      \* run(), with its own copy of the BeastRun
  stop,      \* emergency_stop(): whose run, and whether it awaits its answer
  restoring, \* restore_target(), waiting for the target's health
  \* the supervisor
  session, process, \* Supervisor.session, .process: a run, or 0
  alive,     \* runs with a process of the command identity
  create, execute,  \* POST /v1/sessions and /v1/commands, per run
  destroy,   \* POST /v1/runs/{id}/destroy, per caller
  \* the gateway
  armed, connections, active, \* GuardState
  request    \* proxy()

store   == <<lease, late, target, runs, blocked>>
control == <<serving, task, stop, restoring>>
sandbox == <<session, process, alive, create, execute, destroy>>
gateway == <<armed, connections, active, request>>
vars == <<store, control, sandbox, gateway>>

-----------------------------------------------------------------------------

Caller   == Run \cup Stop
Awaiting == {"creating", "deciding", "commanding", "verifying"}

\* What the verifier's conclusion makes of a run: CONFIRMED and PASS are both VERIFIED here.
Conclusion == {"VERIFIED", "REVIEW_REQUIRED"}

Busy == {r \in Run : runs[r].state \in {"QUEUED", "RUNNING"}}

\* Mutant: the task asks its own copy.
StoppingByCopy(r) == task[r].copy.stopped

\* What a task re-reads after each of its awaits.
Stopping(r) == runs[r].stopped \/ lease[r] = "REVOKED"

Stopped(c) == [c EXCEPT !.stopped = TRUE, !.state = "STOPPED"]

InFlight == {i \in Request : request[i].at = "forwarding"}

NoRun == [state |-> "NONE", stopped |-> FALSE, verdict |-> FALSE, clean |-> FALSE]

Init ==
  /\ lease = [r \in Run |-> "NONE"] /\ late = {} /\ target \in [Run -> Target]
  /\ runs = [r \in Run |-> NoRun] /\ blocked = {}
  /\ serving = TRUE /\ restoring = {}
  /\ task = [r \in Run |-> [at |-> "none", session |-> FALSE, commands |-> 0, copy |-> NoRun]]
  /\ stop = [s \in Stop |-> [run |-> 0, waiting |-> FALSE]]
  /\ session = 0 /\ process = 0 /\ alive = {}
  /\ create = [r \in Run |-> "none"] /\ execute = [r \in Run |-> "none"]
  /\ destroy = [c \in Caller |-> "none"]
  /\ armed = 0 /\ connections = 0 /\ active = 0
  /\ request = [i \in Request |-> [at |-> "free", run |-> 0]]

-----------------------------------------------------------------------------
(* Admission                                                               *)

\* issue_lease: the preflight refuses a blocked target.
IssueLease(r) ==
  /\ serving /\ lease[r] = "NONE" /\ \A q \in Run : q < r => lease[q] # "NONE"
  /\ target[r] \notin blocked
  /\ lease' = [lease EXCEPT ![r] = "ACTIVE"]
  /\ UNCHANGED <<late, target, runs, blocked, control, sandbox, gateway>>

LeaseRunsOut(r) ==
  /\ lease[r] \in {"ACTIVE", "CONSUMED"} /\ r \notin late  \* no one asks it of another
  /\ late' = late \cup {r}
  /\ UNCHANGED <<lease, target, runs, blocked, control, sandbox, gateway>>

\* create_run, inside create_and_submit.
CreateRun(r) ==
  /\ serving /\ lease[r] = "ACTIVE" /\ r \notin late
  /\ Busy = {}
  /\ lease' = [lease EXCEPT ![r] = "CONSUMED"]
  /\ runs' = [runs EXCEPT ![r].state = "QUEUED"]
  /\ task' = [task EXCEPT ![r].at = "created"]
  /\ UNCHANGED <<late, target, blocked, serving, stop, restoring, sandbox, gateway>>

\* create_run finds the lease past its end.
RefuseExpired(r) ==
  /\ serving /\ lease[r] = "ACTIVE" /\ r \in late
  /\ lease' = [lease EXCEPT ![r] = "EXPIRED"]
  /\ UNCHANGED <<late, target, runs, blocked, control, sandbox, gateway>>

-----------------------------------------------------------------------------
(* The task of a run                                                       *)

\* Mutant: the task's copy is saved as it is.
FinishOwnCopy(r, c, failed) ==
  LET last == IF failed THEN [c EXCEPT !.clean = FALSE, !.state = "REVIEW_REQUIRED"] ELSE c
  IN /\ runs' = [runs EXCEPT ![r] = last]
     /\ lease' = [lease EXCEPT ![r] = "REVOKED"]
     /\ blocked' = IF failed \/ last.stopped THEN blocked \cup {target[r]} ELSE blocked
     /\ task' = [task EXCEPT ![r].at = "done", ![r].copy = last]

\* The end of the finally block.  failed: the cleanup raised.
Finish(r, c, failed) ==
  LET dirty == IF failed THEN [c EXCEPT !.clean = FALSE, !.state = "REVIEW_REQUIRED"] ELSE c
      last  == IF runs[r].stopped THEN [Stopped(dirty) EXCEPT !.verdict = FALSE] ELSE dirty
  IN /\ runs' = [runs EXCEPT ![r] = last]
     /\ lease' = [lease EXCEPT ![r] = "REVOKED"]
     /\ blocked' = IF failed \/ last.stopped THEN blocked \cup {target[r]} ELSE blocked
     /\ task' = [task EXCEPT ![r].at = "done", ![r].copy = last]

\* The finally block up to its await: only a session it knows of is destroyed.
Unwind(r, c, known) ==
  IF known
    THEN /\ task' = [task EXCEPT ![r].at = "destroying", ![r].session = TRUE, ![r].copy = c]
         /\ destroy' = [destroy EXCEPT ![r] = "sent"]
         /\ UNCHANGED <<runs, lease, blocked>>
    ELSE Finish(r, [c EXCEPT !.clean = TRUE], FALSE) /\ UNCHANGED destroy

\* The except clause, then the finally block.
Reject(r, known) ==
  LET c == task[r].copy
  IN Unwind(r, IF runs[r].stopped THEN Stopped(c) ELSE [c EXCEPT !.state = "INCOMPLETE"], known)

\* The head of the loop: stopped, expired, out of time, or on to the next decision.
Loop(r) ==
  \/ Reject(r, TRUE)  \* TOTAL_WALL_TIME_EXHAUSTED
  \/ /\ ~ Stopping(r) /\ r \notin late
     /\ task' = [task EXCEPT ![r].at = "deciding", ![r].session = TRUE]
     /\ UNCHANGED <<runs, lease, blocked, destroy>>

\* Its first step comes before any request that could name the run.
StartRun(r) ==
  /\ task[r].at = "created"
  /\ LET c == [runs[r] EXCEPT !.state = "RUNNING"]
     IN /\ runs' = [runs EXCEPT ![r] = c]
        /\ task' = [task EXCEPT ![r].at = "creating", ![r].copy = c]
  /\ create' = [create EXCEPT ![r] = "sent"]
  /\ UNCHANGED <<lease, late, target, blocked, serving, stop, restoring,
                 session, process, alive, execute, destroy, gateway>>

Unanswered(call) == call = "failed" \/ ("rpc" \in Faults /\ call # "none")

SessionAnswered(r) ==
  /\ task[r].at = "creating"
  /\ \/ create[r] = "ok" /\ Loop(r)
     \/ Unanswered(create[r]) /\ Reject(r, FALSE)
  /\ UNCHANGED <<late, target, serving, stop, restoring,
                 session, process, alive, create, execute, gateway>>

\* The model's answer: unusable, a command, or its stop on sufficient evidence.
DecisionAnswered(r) ==
  /\ task[r].at = "deciding"
  /\ \/ Reject(r, TRUE) /\ UNCHANGED execute
     \/ /\ ~ Stopping(r)
        /\ task' = [task EXCEPT ![r].at = "commanding", ![r].commands = @ + 1]
        /\ execute' = [execute EXCEPT ![r] = "sent"]
        /\ UNCHANGED <<runs, lease, blocked, destroy>>
     \/ /\ ~ Stopping(r) /\ task[r].commands > 0
        /\ task' = [task EXCEPT ![r].at = "verifying"]
        /\ UNCHANGED <<runs, lease, blocked, destroy, execute>>
  /\ UNCHANGED <<late, target, serving, stop, restoring,
                 session, process, alive, create, gateway>>

\* Mutant: the stop is not looked for before the save.
SaveProgressBlindly(r, c) == runs' = [runs EXCEPT ![r] = c]

\* run.results and run.observations are saved, unless a stop was.
SaveProgress(r, c) ==
  /\ ~ Stopping(r)
  /\ runs' = [runs EXCEPT ![r] = c]

CommandAnswered(r) ==
  /\ task[r].at = "commanding"
  /\ \/ /\ execute[r] = "ok" /\ Stopping(r)
        /\ runs' = [runs EXCEPT ![r] = Stopped(task[r].copy)]
        /\ task' = [task EXCEPT ![r].at = "destroying", ![r].copy = Stopped(@)]
        /\ destroy' = [destroy EXCEPT ![r] = "sent"]
        /\ UNCHANGED <<lease, blocked>>
     \/ /\ execute[r] = "ok" /\ SaveProgress(r, task[r].copy)
        /\ task[r].commands < MaxCommands /\ r \notin late
        /\ task' = [task EXCEPT ![r].at = "deciding"]
        /\ UNCHANGED <<lease, blocked, destroy>>
     \/ \* MODEL_DID_NOT_EXPLICITLY_STOP, LEASE_EXPIRED, TOTAL_WALL_TIME_EXHAUSTED
        /\ execute[r] = "ok" /\ SaveProgress(r, task[r].copy)
        /\ task' = [task EXCEPT ![r].at = "destroying", ![r].copy.state = "INCOMPLETE"]
        /\ destroy' = [destroy EXCEPT ![r] = "sent"]
        /\ UNCHANGED <<lease, blocked>>
     \/ Unanswered(execute[r]) /\ Reject(r, TRUE)
  /\ UNCHANGED <<late, target, serving, stop, restoring,
                 session, process, alive, create, execute, gateway>>

\* The verifier concludes, or does not answer.
VerifierAnswered(r) ==
  /\ task[r].at = "verifying"
  /\ \/ \E c \in Conclusion :
          Unwind(r, [task[r].copy EXCEPT !.state = c, !.verdict = TRUE], TRUE)
     \/ Reject(r, TRUE)
  /\ UNCHANGED <<late, target, serving, stop, restoring,
                 session, process, alive, create, execute, gateway>>

DestroyAnswered(r) ==
  /\ task[r].at = "destroying"
  /\ \/ destroy[r] = "ok" /\ Finish(r, [task[r].copy EXCEPT !.clean = TRUE], FALSE)
     \/ Unanswered(destroy[r]) /\ Finish(r, task[r].copy, TRUE)
  /\ UNCHANGED <<late, target, serving, stop, restoring, sandbox, gateway>>

-----------------------------------------------------------------------------
(* The operator                                                            *)

\* emergency_stop up to its await.  The run's first step is taken by then.
EmergencyStop(s, r) ==
  /\ stop[s].run = 0 /\ runs[r].state # "NONE" /\ task[r].at # "created"
  /\ stop' = [stop EXCEPT ![s] = [run |-> r, waiting |-> TRUE]]
  /\ lease' = [lease EXCEPT ![r] = "REVOKED"]
  /\ runs' = [runs EXCEPT ![r] = Stopped(@)]
  /\ blocked' = blocked \cup {target[r]}
  /\ destroy' = [destroy EXCEPT ![s] = "sent"]
  /\ UNCHANGED <<late, target, serving, task, restoring,
                 session, process, alive, create, execute, gateway>>

\* The second half works on the run as it is stored by then.
StopAnswered(s) ==
  /\ destroy[s] = "ok" /\ stop[s].waiting
  /\ runs' = [runs EXCEPT ![stop[s].run] = [Stopped(@) EXCEPT !.verdict = FALSE, !.clean = TRUE]]
  /\ stop' = [stop EXCEPT ![s].waiting = FALSE]
  /\ UNCHANGED <<lease, late, target, blocked, serving, task, restoring, sandbox, gateway>>

\* restore_target finds the block, asks for the target's health, then lifts the block.
RestoreBegins(t) ==
  /\ serving /\ t \in blocked \ restoring
  /\ restoring' = restoring \cup {t}
  /\ UNCHANGED <<store, serving, task, stop, sandbox, gateway>>

RestoreEnds(t) ==
  /\ t \in restoring
  /\ restoring' = restoring \ {t}
  /\ blocked' \in {blocked, blocked \ {t}}
  /\ UNCHANGED <<lease, late, target, runs, serving, task, stop, sandbox, gateway>>

-----------------------------------------------------------------------------
(* The process of the controller: a crash is a drain that cancels nothing  *)

\* drain() stops admission; what does not end in time is cancelled.
Drain ==
  /\ "drain" \in Faults /\ serving
  /\ serving' = FALSE
  /\ UNCHANGED <<store, task, stop, restoring, sandbox, gateway>>

\* A cancelled task runs its finally block, not its except clause; cancelled
\* inside of that block it ends where it is.
Cancel(r) ==
  /\ ~ serving
  /\ \/ task[r].at \in Awaiting /\ Unwind(r, task[r].copy, task[r].session)
     \/ /\ task[r].at = "destroying"
        /\ task' = [task EXCEPT ![r].at = "done"]
        /\ UNCHANGED <<runs, lease, blocked, destroy>>
  /\ UNCHANGED <<late, target, serving, stop, restoring,
                 session, process, alive, create, execute, gateway>>

\* The process ends, its tasks with it, and a new one starts: nothing is reconciled.
Restart ==
  /\ ~ serving
  /\ serving' = TRUE /\ restoring' = {}
  /\ task' = [r \in Run |-> IF task[r].at = "none" THEN task[r] ELSE [task[r] EXCEPT !.at = "done"]]
  /\ stop' = [s \in Stop |-> [stop[s] EXCEPT !.waiting = FALSE]]
  /\ UNCHANGED <<store, sandbox, gateway>>

-----------------------------------------------------------------------------
(* The supervisor                                                          *)

Fails == "gateway" \in Faults

\* create() looks at the session before it waits for the lock.
CheckSession(r) ==
  /\ create[r] = "sent"
  /\ create' = [create EXCEPT ![r] = IF session = 0 THEN "checked" ELSE "failed"]
  /\ UNCHANGED <<store, control, session, process, alive, execute, destroy, gateway>>

Arm(r) == armed' = r /\ connections' = 0 /\ active' = 0 /\ UNCHANGED request

\* Under the lock: the session is recorded, then the gateway is armed.
CreateSession(r) ==
  /\ create[r] = "checked"
  /\ \/ /\ process # 0
        /\ create' = [create EXCEPT ![r] = "failed"]
        /\ UNCHANGED <<session, gateway>>
     \/ /\ process = 0
        /\ session' = r
        /\ \/ Arm(r) /\ create' = [create EXCEPT ![r] = "ok"]
           \/ Fails /\ (Arm(r) \/ UNCHANGED gateway) /\ create' = [create EXCEPT ![r] = "failed"]
  /\ UNCHANGED <<store, control, process, alive, execute, destroy>>

\* execute() under the lock.
Spawn(r) ==
  /\ execute[r] = "sent"
  /\ \/ /\ session = r /\ process = 0
        /\ process' = r /\ alive' = alive \cup {r}
        /\ execute' = [execute EXCEPT ![r] = "running"]
     \/ /\ Fails \/ session # r \/ process # 0
        /\ execute' = [execute EXCEPT ![r] = "failed"]
        /\ UNCHANGED <<process, alive>>
  /\ UNCHANGED <<store, control, session, create, destroy, gateway>>

\* The command ends, at its own pace, killed or at its timeout; whatever else the
\* command identity runs is killed.  killpg on a group that is gone raises.
CommandEnds(r) ==
  /\ execute[r] = "running"
  /\ \/ /\ process' = 0 /\ alive' = {}
        /\ \E a \in {"ok"} \cup (IF Fails THEN {"failed"} ELSE {}) :
             execute' = [execute EXCEPT ![r] = a]
     \/ /\ "detached" \in Faults
        /\ execute' = [execute EXCEPT ![r] = "failed"]
        /\ UNCHANGED <<process, alive>>
  /\ UNCHANGED <<store, control, session, create, destroy, gateway>>

RunOf(c) == IF c \in Run THEN c ELSE stop[c].run

\* destroy() kills first, without the lock, whoever's command it is.
Kill(c) ==
  /\ destroy[c] = "sent"
  /\ alive' = {}
  /\ destroy' = [destroy EXCEPT ![c] = "killed"]
  /\ UNCHANGED <<store, control, session, process, create, execute, gateway>>

Disarm == armed' = 0 /\ UNCHANGED <<connections, active, request>>

\* Mutant: an unreachable gateway does not fail the destroy.
TakeDownBestEffort(c) ==
  /\ destroy[c] = "killed"
  /\ destroy' = [destroy EXCEPT ![c] = "ok"]
  /\ session' = IF session = RunOf(c) THEN 0 ELSE session
  /\ IF session = RunOf(c) THEN Disarm \/ (Fails /\ UNCHANGED gateway) ELSE UNCHANGED gateway
  /\ UNCHANGED <<store, control, process, alive, create, execute>>

\* Under the lock: another run's session is left alone, its own is taken down.
TakeDown(c) ==
  /\ destroy[c] = "killed"
  /\ \/ /\ session # RunOf(c)
        /\ destroy' = [destroy EXCEPT ![c] = "ok"]
        /\ UNCHANGED <<session, gateway>>
     \/ /\ session = RunOf(c)
        /\ session' = 0 /\ Disarm
        /\ destroy' = [destroy EXCEPT ![c] = "ok"]
     \/ /\ session = RunOf(c) /\ Fails
        /\ Disarm \/ UNCHANGED gateway
        /\ destroy' = [destroy EXCEPT ![c] = "failed"]
        /\ UNCHANGED session
  /\ UNCHANGED <<store, control, process, alive, create, execute>>

-----------------------------------------------------------------------------
(* The gateway                                                             *)

\* proxy() up to its await: only what is inside the armed scope goes on.
Ask(i, r) ==
  /\ request[i].at = "free" /\ r \in alive
  /\ armed # 0
  /\ request' = [request EXCEPT ![i] = [at |-> "body", run |-> armed]]
  /\ UNCHANGED <<store, control, sandbox, armed, connections, active>>

\* Mutant: only the total is limited.
ForwardUnlimited(i) ==
  /\ request[i].at = "body" /\ connections < MaxConnections
  /\ connections' = connections + 1 /\ active' = 1
  /\ request' = [request EXCEPT ![i].at = "forwarding"]
  /\ UNCHANGED <<store, control, sandbox, armed>>

\* The body is there: the budgets of whoever is armed by now decide.
Forward(i) ==
  /\ request[i].at = "body"
  /\ connections < MaxConnections /\ active < MaxConcurrency
  /\ connections' = connections + 1 /\ active' = active + 1
  /\ request' = [request EXCEPT ![i].at = "forwarding"]
  /\ UNCHANGED <<store, control, sandbox, armed>>

\* Over budget, or the caller is gone.
Drop(i) ==
  /\ request[i].at = "body"
  /\ request' = [request EXCEPT ![i] = [at |-> "free", run |-> 0]]
  /\ UNCHANGED <<store, control, sandbox, armed, connections, active>>

Forwarded(i) ==
  /\ request[i].at = "forwarding"
  /\ active' = IF active = 0 THEN 0 ELSE active - 1
  /\ request' = [request EXCEPT ![i] = [at |-> "free", run |-> 0]]
  /\ UNCHANGED <<store, control, sandbox, armed, connections>>

-----------------------------------------------------------------------------

Task(r) ==
  \/ StartRun(r) \/ SessionAnswered(r) \/ DecisionAnswered(r) \/ CommandAnswered(r)
  \/ VerifierAnswered(r) \/ DestroyAnswered(r)

Supervise ==
  \/ \E r \in Run : CheckSession(r) \/ CreateSession(r) \/ Spawn(r) \/ CommandEnds(r)
  \/ \E c \in Caller : Kill(c) \/ TakeDown(c)

Proxy == \E i \in Request : Forward(i) \/ Drop(i) \/ Forwarded(i) \/ \E r \in Run : Ask(i, r)

Next ==
  \/ \E r \in Run : IssueLease(r) \/ LeaseRunsOut(r) \/ CreateRun(r) \/ RefuseExpired(r)
  \/ \E r \in Run : Task(r) \/ Cancel(r)
  \/ \E s \in Stop : StopAnswered(s) \/ \E r \in Run : EmergencyStop(s, r)
  \/ \E t \in Target : RestoreBegins(t) \/ RestoreEnds(t)
  \/ Drain \/ Restart \/ Supervise \/ Proxy

\* Every await of a task has a timeout, and so has every command; the supervisor and
\* the controller serve what they were called for.
Fairness ==
  /\ \A r \in Run : WF_vars(Task(r)) /\ WF_vars(CheckSession(r) \/ CreateSession(r))
                    /\ WF_vars(Spawn(r) \/ CommandEnds(r))
  /\ \A c \in Caller : WF_vars(Kill(c) \/ TakeDown(c))

Spec == Init /\ [][Next]_vars
FairSpec == Spec /\ Fairness
-----------------------------------------------------------------------------
(* Properties                                                              *)

\* One run at a time: at most one is stored as QUEUED or RUNNING, although the task of
\* a stopped run saves its own copy long after the next run was admitted.
OneActive == Cardinality(Busy) <= 1

\* A run that ends on the verifier's word ends with its sandbox taken down, none of its
\* processes left, its lease revoked and the gateway closed to it, whatever was lost, failed
\* or stopped, but for one way: another run's creation came late, took the session from
\* it and failed to arm the gateway, so that the verified run's destroy found nothing of
\* its own to take down.  Then the gateway stays armed for it until that other session
\* goes, and nothing lives in the sandbox that could use it.
VerdictEarned ==
  \A r \in Run : runs[r].state = "VERIFIED" =>
    /\ runs[r].clean /\ lease[r] = "REVOKED"
    /\ session # r /\ r \notin alive
    /\ armed = r => session # 0 /\ create[session] = "failed" /\ alive = {}

\* The gateway forgets its open requests whenever it is armed, and their ends are then
\* taken off the next run's count: each arming adds at most one ceiling.
ConcurrencyBound ==
  Cardinality(InFlight) <=
    MaxConcurrency * Cardinality({r \in Run : create[r] \in {"ok", "failed"}})

\* What the emergency stop wrote is never written over by the task of the run, which
\* holds a copy from before the stop; and once the stop's destroy was answered no
\* command of the run starts, also when its session was created only after it.
StopStands ==
  [][/\ \A r \in Run : runs[r].stopped => runs'[r].stopped /\ runs'[r].state = "STOPPED"
     /\ \A s \in Stop : LET r == stop[s].run IN
          r # 0 /\ destroy[s] = "ok" /\ r \notin alive => r \notin alive']_vars

\* A stop ends its run: stored as stopped, its lease revoked, and nothing drives it on.
StopSettles ==
  \A s \in Stop : stop[s].run # 0 ~>
    \E r \in Run : /\ r = stop[s].run
                   /\ runs[r].state = "STOPPED" /\ lease[r] = "REVOKED"
                   /\ task[r].at \in {"none", "done"}
=============================================================================
