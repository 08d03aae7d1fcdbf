# Verification of aegis

aegis runs authorized security tests of synthetic targets: a control plane (one FastAPI process
around an event loop) admits work, drives tools that live in components of their own (a runner for
each engine, a guard all tool traffic goes through, a registry of signed leases, a sandbox, a
synthetic range), and lets a deterministic verifier, never a model, decide what was found. What
makes it hard is not the parsing but the agreement of these parts: who may run, once or twice, under
whose permission, and what is true after a crash, a lost answer or the operator's stop.

This directory holds TLA+ modules translated from the sources, TLC configurations that check them
on small instances, and TLAPS proofs of their safety properties for every instance.
`PROJECT.json` says for each definition which lines it models.

    tlc -config lifecycle.cfg MCLifecycle             # one run
    tlapm LifecycleProofs.tla                         # one module of proofs

Paths below are relative to `src/src/`, those of scripts to `src/`.

## 1. Inventory

### Modelled

| component | module | state | hard behaviour | correct when |
|---|---|---|---|---|
| Assessment lifecycle: `aegis/multi_agent/lifecycle.py` | Lifecycle | SQLite ledger: state, stages, attempts, cleanup obligations | a crash between any two transactions; effects outside the ledger; unknown outcomes; resume, reconcile, reissue | an effect is written ahead, charged once and exactly, given up only by decision; COMPLETED is earned |
| Admission registry: `zap_active_admission/` | Admission, LeaseSlot, AdmissionSlot | the armed slot, records, consumed nonces; the state file and its marker | handler threads, persists that fail half-way, restart, a damaged volume, expiry on a clock read earlier | a lease is granted once, in time, only while it stands armed |
| Active scan: `aegis/zap_active_controller.py`, `aegis/engine/zap_active.py`, `aegis/zap_active_lease.py`, `zap_active_runner/`, active mode of `zap_guard/` | ActiveScan | session, in-memory lease, run lock, stop flag, process in flight, guard | a stop at any moment, time-outs whose threads go on, lost calls, restarts | one engine; traffic only under its own lease; a stop silences |
| Sandbox runs: `aegis/beast/`, `beast_sandbox/`, `beast_gateway/` | Beast | leases, runs, target blocks; one session, one process; the gateway's counters | a stop beside a running task, lost session answers, arm failures, requests that wait over a disarm | one run in the sandbox; a stopped run stays stopped; a verdict only of a sandbox that is gone |
| Scan service, store, process lifecycle, model selection, run ledger: `aegis/service.py`, `storage.py`, `process_lifecycle.py`, `gateway.py`, `planner.py`, `main.py`, `run_ledger.py` | ScanService | scans, tasks, the drain, the gateway's and the planner's model | a drain gives up on a task that saves later; restart; last writer wins; check, await, act | a verdict follows the evidence that was saved; nothing is left without a task; a scan has one model |
| Agents' runtime, budget, broker, run store: `aegis/multi_agent/runtime.py`, `budget.py`, `broker.py`, `store.py`, with `aegis_range/` | AgentRun | run, task, ledgers, saved rows, the range | cancellation beside execution, a budget that ends in the middle, a range others use | charged before the effect; the selection undone; what is saved is true |
| Remediation: `aegis/multi_agent/remediation.py`, its two drivers, the simulation queue | Remediation | loop state, rows, jobs, the range | several transactions per step, two processes, crashes | each effect once; PASS earned; one verdict |
| Live campaigns: `scripts/phase_2_0...`, `2_1`, `2_2`, `1_9` | LiveCampaign | what a script keeps, jobs, chain, usage, the range, containers | any call failing or timing out; a range switched by somebody else | GO is earned; totals are what was used |
| Passive and template scans: `aegis/engine/zap.py`, `nuclei.py`, the engine flows of `service.py`, `zap_runner/`, `nuclei_runner/`, passive mode of `zap_guard/` | PassiveScan | scan, runner, process, guard, requests on the wire | late reads, lost arm and disarm, processes that outlive their run, drift, restarts | a verdict rests on a complete execution answered for its own traffic |

How they interact. The controller of the active scan issues a lease into its own store, has the
runner arm it at the registry, and later asks the runner to run. The runner consumes the lease at
the registry, arms the guard, spawns the engine, polls the guard's counters, disarms, and revokes.
The stop goes controller - runner - registry - guard - process, beside all of this. The passive
runner does the same without a lease: it arms the guard under the execution's token and reads its
counters at the disarm. The sandbox's supervisor arms the gateway for a session and disarms it when
it takes the session down. The scan service admits every scan through the process lifecycle, whose
drain waits for its tasks, cancels them and writes for those that do not end. The lifecycle is
independent of the scans: it calls executors and dispatchers it is given, among them the four
adapters that drive the remediation loop. The agents' runtime, the remediation drivers and the
campaigns meet in the range, which each of them resets and switches.

### Not modelled

| component | why |
|---|---|
| Recon and injection gates, delegation queue (`multi_agent/recon.py`, `injection.py`, `delegation.py`) | gates of the shape of an agents' run without its states and its cancellation; nothing consumes the queue |
| The report agent's queue (`multi_agent/report_agent.py`) | of the shape of the queues in Remediation and LiveCampaign |
| Operator sessions (`aegis/operator.py`, `operator_session.py`) | a shared secret turned into signed cookies, one request at a time |
| Provider and consolidated campaign budgets (`multi_agent/live_safety.py`, `consolidated_campaign.py`), container budgets (`container_acceptance/`), range ingress (`aegis_range/ingress.py`) | planned, section 2 |
| Contracts, prompts, fact projection, planner, providers, reporting, verifiers, console, observability | no state between calls; what they return is a choice in the models that use it |
| Synthetic targets, benchmarks, deployment checks and scripts | defects are deliberate; one-shot programs |

Hazards in what is not modelled, or at lines a property above only touches:

| line | what can go wrong |
|---|---|
| `aegis/multi_agent/authentication.py:823` | A job claimed by a consumer that died stays CLAIMED and is never offered again. |
| `aegis/gateway.py:302` | The provider is replaced while requests that reserved under the old one are in flight. |
| `aegis/multi_agent/live_safety.py:220` | A call is reserved at its worst case before it is made; after one of unknown usage none may follow. |
| `aegis/container_acceptance/sqlmap_budget.py:94` | A watchdog polls the request count: the ceiling is overshot by what is sent between two polls. |
| `aegis_range/ingress.py:51` | A fixed window admits twice its limit across its boundary. |
| `aegis/multi_agent/consolidated_campaign.py:1087` | One compensation of several fails, and the record must not claim a clean end. |
| `aegis/run_ledger.py:126` | One of the two files a row is appended to cannot be written. |
| `aegis/multi_agent/lifecycle.py:1242` | Usage counts as complete although the effect of a refused response was not counted. |
| `aegis/engine/zap_active.py:565` | A failed attestation leaves the lease live until it expires. |
| `zap_active_runner/execution.py:331` | The stop flag is cleared by the run it was set for. |
| `aegis/zap_active_controller.py:147` | The controller restarts while a runner thread executes for it. |
| `aegis/beast/controller.py:602` | A lost create answer leaves a session, and the run says its cleanup was verified. |
| `aegis/beast/store.py:98` | A run left RUNNING by a crash or a drain blocks every later one. |
| `beast_sandbox/server.py:286` | The destroy stops the command before it takes the lock; one spawned in between lives on. |

## 2. Plan

| order | module | state |
|---|---|---|
| 1 | Lifecycle | checked; every safety property proved |
| 2 | Admission, LeaseSlot, AdmissionSlot | checked; every property and the refinement proved |
| 3 | ActiveScan | checked; every safety property proved |
| 4 | Beast | checked; every safety property proved |
| 5 | AgentRun | checked; every safety property proved |
| 6 | Remediation | checked; every property proved |
| 7 | PassiveScan | checked; every property proved |
| 8 | ScanService | checked; every property proved |
| 9 | LiveCampaign | checked; every property proved |
| 10 | a budget module for `live_safety.py`, `consolidated_campaign.py`, `sqlmap_budget.py`: reserve, dispatch, reconcile, compensate | open |
| 11 | ChargedEffect: an abstract ledger (an effect is open, charged once, or given up) implemented by Lifecycle, and an abstract single-use token implemented by the receipt of Remediation as the lease of Admission implements LeaseSlot | open |

Modules are written to be proved about: constants with named assumptions, one action per operation
or stretch between two awaits, no RECURSIVE operators. Bounds in the runs are two of everything that
can meet (two sessions, two runs, two scans, two processes), one or two of each fault, and budgets
small enough to be exceeded; the theorems drop them.

## 3. The assessment lifecycle: `Lifecycle`

The controller keeps nothing: everything is in the ledger, and every ledger call is a transaction.
So a step of the model is a transaction, or a call to the world outside, and `ctl` is the program
counter and the locals of the call in progress; `Crash` forgets `ctl` between any two of them.
`effects` is the truth at the broker, written only by `DispatcherAnswers`; a crash right after it
loses the answer and keeps the effect. No guard reads it, except through an answer or a
reconciliation.

| variable | code |
|---|---|
| `state`, `cancel` | `lifecycle_assessments.state`, `.cancel_requested` |
| `expired` | `now >= lease_expires_at` |
| `rec` | `lifecycle_stages`: status, freshness (`produced_epoch = run_epoch`) and usage |
| `attempts` | `lifecycle_attempts`, ordered by `attempt_no` |
| `cleanup` | `lifecycle_cleanup` |
| `verdict` | the last `AssessmentVerdict` handed out |

`run_external_stage` is the chain RunExternalStage, (ReconcileAdopts or ReconcileCannotTell),
Supersede, PrepareAttempt, EnterState, MarkRunning, MarkDispatched, DispatcherAnswers,
PersistResponse, then CommitStageDone or FailStage. `run_stage` shares EnterState, MarkRunning,
CommitStageDone and FailStage with it. `run_cleanup` is RunCleanup, Compensate per obligation,
EndCleanup; `finalize` is Finalize and, when it has to pass through CLEANING_UP, FinishFinalize.

Abstractions: one assessment; one usage figure for calls and tokens, which the code treats alike;
`fresh` for the equality of epochs; the idempotency key is the pair of stage and attempt. The audit
table and digests are left out. One controller runs at a time: a second one on the same ledger is
not a deployment of this code.

Run `lifecycle`: all eight stages, two of them external (EXECUTE, RETEST), stage budget 2 and
cumulative 3, two cleanup obligations, and every way a response can be judged: within budget, exactly
at it, above the stage's, stale, of unknown usage, failed. Two stages suffice to exceed the cumulative
budget with charges that are each allowed, two attempts for everything the code decides about an
attempt and its predecessor. The calls cover one with a broker to ask, one with a decision, and a paid
one with the operator's; the first resumes an attempt of the second without either. Remediation and
retest are not required, so that COMPLETED is reached with and without them. The bound `ReissuesEarly`
(a CONSTRAINT) gives a second attempt to EXECUTE only, and then lets neither remediation nor report
follow: what is decided of attempts, and the order of the stages, are explored in full side by side,
cleanup, cancellation and finalize with either. The VIEW drops what no later step and no property of
the run reads: the arguments of a call once its attempt is prepared, of an attempt once its outcome
is known, the verdicts handed out, and which of the two obligations is which.
It checks `WriteAhead` (every effect has its dispatched attempt in the ledger, no key used twice),
`DoneBacked` (a DONE external stage has the usage of the effect of its last attempt),
`BudgetRespected`, `GivenUpExplicitly` (an unknown attempt is superseded only by decision, the
operator's if paid), `ReportAfterRetest`, and `CompletedEarned` over cleanups that are cut short and
rerun.

Proofs, for any stages, budgets, outcomes, calls and number of attempts that
`LifecycleAssumption` allows: TypeOK, OneLive (only the last attempt of a stage is open), DoneIsFinal
and every property of the run. OneLive is not inductive: whether a write hits the last attempt
depends on where the controller is. `IInv` adds `CtlAttempt`, which ties the program counter to the
attempt in hand (it is the last one, with this status, and the stage is not DONE). For the effects,
`EInv` adds `BrokerInv` (an effect belongs to a dispatched attempt, one effect per key, a COMPLETED
attempt has one of its own), `DoneInv` (the charge of a DONE stage is its effect's) and `CallInv`
(what a decision in `ctl` was given for). BudgetRespected rests on `AggregateGrowth`: committing one
stage adds its usage to the sum and nothing else, and `WithinBudget` was checked on the same
records. For the loop's two properties `LInv` adds what the overall state says of
the past: `EnteredInv`, that a stage with a record was entered and the state has not gone back behind
it, `RetestInv`, that REPORTING is reached from a remediation only over a prepared retest, and
`CleanupInv`, that a cleanup in progress has an entry for every obligation it is past and that a
verdict in `ctl` says no more than the ledger it was read from.

Observed:

* `lifecycle.py:1242`: `has_unreconciled_effect` looks only at DISPATCHED and SUPERSEDED attempts. An
  effect whose response was refused (over budget, unknown usage) or reported failed is in no DONE
  record, and `usage_complete` is true all the same, with usage 0, while lines 17-19 say that
  unmeasured usage stays UNKNOWN and is never defaulted to zero.
* `lifecycle.py:965`: an unknown attempt is SUPERSEDED in one transaction and replaced in a later
  one. After a crash between them a resume without authorization dispatches again; lines 888-891 say
  a new attempt requires an explicit `new_attempt_authorization`. GivenUpExplicitly is what holds.
* `lifecycle.py:1260`: `finalize` on a terminal assessment swallows the refused transition and
  returns a verdict computed from a cleanup that was run since, which the ledger does not hold.

## 4. The admission registry: `Admission`, `LeaseSlot`, `AdmissionSlot`

A handler thread reads the clock (`Receive`), waits for the one lock, and does everything else
under it: `Arm`, `Consume`, `Revoke` and `Look` are one step each, with the expiry found on the way
and both persists inside. A persist ends in one of three ways: done, failed before the rename, or
failed after it (the directory or the marker could not be synced); in both failures the registry is
unhealthy and refuses until a restart. `Boot` is `_recover`, `Damage` happens to the volume. `fits`
is what signature and binding checks decide. Skew is granted where the token is authenticated and
not where the slot expires, as in the code. `log` and `told` are history: the consumptions made, and
what each lease's last caller was told.

`LeaseSlot` is what the registry promises: `Admit`, `Grant`, `Burn` (consumed, but its caller
refused) and `Free`; the active scan is built on it. `AdmissionSlot` reads the slot off the memory:
`SlotOf` the armed lease and whether it was consumed, `Spent` the granted ones.

Run `admission`: two threads (so that a request may be overtaken by another's arming or expiry on a
later clock), two leases whose lifetimes meet at time 1, a clock to 2 (before, at and after the first
expiry), a file spoilt at any moment, memory and log of 2 so that no nonce is forgotten.
`ConsumedInTime`, `SingleUse`, `GrantOnlyWhileArmed`, and `Implements`, the refinement. Threads are
symmetric: nothing tells them apart. The VIEW drops what no later step and no property reads: the
rest of a spoilt file, the times of a revocation, whose request an unhealthy registry is about to
refuse, the marker of a file that is there, and, of a consumption, by how much it was in time;
of what a lease's callers were told it keeps whether the last word was armed. A file that is lost ("absent") is not in the run; with its
marker still there the registry refuses to start, with both gone it cannot be told from a first
start, so SingleUse and the refinement are stated without it.

Proofs (in ActiveScanProofs, before those of the scan built on the registry), for any leases, threads,
lifetimes, skew, memory and faults: TypeOK, OneArmed, NothingToLose,
ConsumedInTime and GrantOnlyWhileArmed from `AInv`, which adds `Standing`, that a record which is
ARMED in a healthy registry was last reported armed, and that a component that is down has nothing in
memory. `LeaseUsedOnce` proves SingleUse when the file is not lost, by `NInv`: the last consumptions
of `log`, as many as the memory holds, are among the nonces of every registry that may still write
and of every file recovery would accept. `RegistryImplementsSlot` proves the refinement, initial
states and every step, when the file is not lost and MaxLog <= NonceMemory; the second condition is
the size of `NONCE_MEMORY` in the code against the consumptions of a lifetime.

Observed:

* `registry.py:150`: a lease revoked by a restart can be armed again, its nonce is not in the
  consumed set, while the docstring at lines 12-14 says its nonce is kept there. GrantOnlyWhileArmed
  and SingleUse hold regardless: it must be armed anew, and was never consumed.
* `registry.py:208`: a first persist that dies between the file and the marker leaves a volume whose
  marker is never written afterwards (`:170`), so a later loss of the file is taken for a first start.

## 5. The active scan: `ActiveScan`

The controller is an event loop: what it does between two awaits is a step. Every call to the
runner is a thread there, with a record of its own (`armCall`, `run`, `kill`, `revoke`), because it
goes on when the controller has given up on it: with "rpc" in the world a caller may time out at any
point and the thread lives on. Session, lease and execution id are one number: the n-th activation.
`late` holds the leases that expired. A `world` is the set of events one behaviour may contain.

| step | code |
|---|---|
| Activate, ArmAtRegistry, Armed, ArmFailed | `ZapActiveController.activate` and the runner's `_lease_arm` |
| Execute, Start, RunAnswered, Closed, Finish | `execute` with `ZapActiveAdapter.run` |
| Press, RunnerStopped, Stopped | `stop` |
| RunBegin ... RunEnd | `Executor.run`: lock, consume, track, arm the guard, spawn, disarm, classify, close, revoke |
| KillBegin ... KillEnd | `Executor.emergency_stop`: snapshot, wait for a process, revoke at the registry, at the guard, kill |
| EngineRequest, EngineEnds | the engine: its traffic through `GuardState.admit`, its end |
| ControllerRestart, SlotFreed, Expire | restart, the registry's own expiry or restart, the clock |

`KillRevoke` and `RunSpawn` exclude each other by `_stop_lock`; the wait of the kill switch for a
process is before that lock and bounded, so it may give up at any point (`KillLook` is optional).

Runs. `activescan_two`: two activations, in one of two worlds: a stop at any moment and no lost call,
or everything lost (runner, guard and registry calls, restarts) and no stop, the second activation
on the same target or another. `OneEngine` (no two engines, and one that runs is supervised under
the run lock), `LeaseRunsOnce`, `TrafficIsOwn` (what passes the guard passes under that execution's
own arming and granted lease), `StopNotOvertaken` (an execution the kill switch found is not
classified as completed). `activescan_live`: one activation and one stop with the guard and the
registry failing: `StopSilences`, and `AllSettle`, that session, run lock and stop come to their
end. Two activations are enough for TLC because the properties relate an execution to one other that
was stopped, lost or forgotten, and the runner has one lock, one in-flight record and one guard. The
VIEW of `activescan_two` drops what a task, stop or thread that is over has answered, the state of a
session that another followed, and the expiry of a lease nobody will ask about again.

Fairness: weak fairness of each task of the event loop that can go on, of each thread of the runner,
and of the end of an engine (the runner polls it and kills it at its deadline). None for the
operator, for `KillLook`, for requests of the engine, for expiry, restarts or faults. With "rpc" off
in that run every call answers; losing it only frees the caller earlier.

Proofs, for any number of activations, presses and targets and every world at once: WellTyped, OneEngine,
LeaseRunsOnce, TrafficIsOwn, StopSilences, StopNotOvertaken. `IInv` has four parts beside the type:
`Issued`, that a lease on offer has no task consuming it; `Once`, that a session has one execution
and one run call; `Held`, that the holder of the run lock has its grant and, from the arming to the
disarm, the guard, and nobody else an engine; `Killed`, what a kill that found an execution keeps
from it: the stop flag stands or the guard is closed to its lease. AllSettle stays with TLC.

Observed:

* `zap_active_runner/execution.py:331`: a stop handled just before the execution takes the lock is
  forgotten, and its revoke finds no armed guard yet (`:433`); the engine then runs for a STOPPED
  session, while `aegis/engine/zap_active.py:401` says the revoke disarms the guard, so that traffic
  stops at once. StopSilences is what holds: for an execution the kill switch found, and a guard it
  heard.
* `aegis/engine/zap_active.py:569`: the adapter consumes whatever lease the store holds; a stopped
  session still resetting its target consumes the lease of the next activation.
* A run cut off by expiry or revocation in its middle can be classified COMPLETED: requests refused
  for want of an armed guard are in no counter the runner reads (`zap_guard/guard.py:424`,
  `execution.py:89`).

## 6. Sandbox runs: `Beast`

The controller's tasks are coroutines of one loop, and so are, at the supervisor, the calls they make:
a call whose caller has given up goes on. What the supervisor does under its lock, with its call of
the gateway, is one step; the look at the session before the lock (`CheckSession`) and the kill
before it (`Kill`) are steps of their own. Lease and run are one number.

| variables | code |
|---|---|
| `lease`, `late`, `target`, `runs`, `blocked` | the store's tables: leases, runs, target blocks |
| `serving`, `task`, `stop`, `restoring` | the controller: its tasks with the copy of the run each holds, presses of the stop, restores under way |
| `session`, `process`, `alive`, `create`, `execute`, `destroy` | the supervisor: the session, its command, what lives, the calls under way |
| `armed`, `connections`, `active`, `request` | the gateway: for whom, how many so far, how many at once, each request |

IssueLease, CreateRun, RefuseExpired, Task (StartRun, SessionAnswered, DecisionAnswered,
CommandAnswered, VerifierAnswered, DestroyAnswered, SaveProgress, Finish), EmergencyStop and
StopAnswered, RestoreBegins and RestoreEnds, Drain, Cancel and Restart are the controller's;
Supervise and Proxy the supervisor's and the gateway's.

Runs. `beast_stop` (two runs, one press at any moment, answers lost or late): `OneActive`,
`StopStands` (no task writes over what a stop wrote, no command of a stopped run starts once its
destroy was answered), `StopSettles`. `beast_traffic` (two runs of two commands, two requests open over the next arming, one press at any
moment, answers lost or late, the gateway failing, commands outliving their group, drain and restart,
all of them together): `VerdictEarned` (a verified run's sandbox is gone and the gateway closed to it,
but for one way, below), `ConcurrencyBound` (what the forgotten count of open requests may add to the
ceiling). The bound `StopOrRequests` (a CONSTRAINT) keeps open requests and a pressed stop apart, since
neither invariant relates them; everything else is combined. The VIEW tells open requests apart by
where they are, and drops what a run that is over still holds, the end of a lease that is no longer
live, blocked targets once every lease was issued, and the total of a gateway nobody is armed at.
Fairness: every await of a task
has a timeout, every command a limit, and supervisor and controller serve what they were called for:
weak fairness of each task, of each supervisor call (the look at the session and what follows it),
of each command (that it starts, once asked for, and ends), and of each destroy.

Proofs, for any number of runs, presses, requests: TypeOK, OneActive, StopStands, VerdictEarned,
ConcurrencyBound. `IInv`: `Holds`, who holds the one place; `Ordered`, the calls of a run come in
their order; `Pressed`, what a press has done so far; `Counted`, each arming forgets at most one
ceiling of open requests; `Gate`, armed for the session or for nobody, unless the creation of the
session failed to arm, and then over an empty sandbox. VerdictEarned has no condition. Its one way
out is the code's: a creation looks at the session before it waits for the lock
(`beast_sandbox/server.py:69`), so that of a run already given up may come when another run has the
session, take it, and fail to arm the gateway, which stays armed for the other. That one's destroy
then finds nothing of its own and is answered ok: its run is VERIFIED and clean with the gateway still
armed for it. The run reaches this state. What is proved of it: the session is then that
of the failed creation, and nothing lives in the sandbox that could use the gateway, since a command
is served only in a session whose creation was answered; the next arming, or the destroy of that
session, ends it.

Observed: `create_run` (`beast/controller.py:275`) looks at lease and active runs, never at
`target_block`, while `docs/phase-1.4-beast-mode.md:80-82` says a stop or a failed cleanup blocks
reactivation until restored. `destroy()` (`beast_sandbox/server.py:286`) stops the command before it
takes the lock, so one spawned in between outlives the session, while
`docs/threat-model-tool-integrations.md:89` says every process of the command identity is killed
after each command, stop and destroy. A drained run saved as RUNNING blocks later ones; `killpg`
on a process already gone leaves `Supervisor.process` set for good; a stop of an old run kills the
current run's command; a restore's await can lift a block set by a newer stop; a request waiting for
its body is forwarded after the disarm; `active_runs` looks at the last hundred runs only. A restart
of the supervisor is not modelled.

## 7. The control plane's scans: `ScanService`

One event loop: between two awaits a task is alone, and `loop` names the scan in the middle of such a
stretch. Every save is a transaction of its own, so a stretch is cut where it saves: a crash may come
between any two of them, another task may not.

| variables | code |
|---|---|
| `proc`, `work`, `drain` | `ProcessLifecycle._state`, `._work`, where `_drain_once` is and the tasks it waits for |
| `cancelling` | tasks with a CancelledError on its way |
| `store`, `mem`, `pc`, `todo`, `spent` | table `scans`; the `ScanResult` a task holds, where it is, the hypothesis in hand, its budget |
| `provider`, `planner`, `asked`, `select` | the gateway's model, the planner's, who serves a call, `console_ai_select` |
| `rows` | the run ledger |
| `unsaved`, `misled`, `overtaken` | history: scans one of whose saves failed, that took a plan of another model, that were admitted while a selection was on its way |

| step | code |
|---|---|
| Create, Start, Imported | `create_and_submit`, `run` |
| LoopHead, ModelAnswers, Dispatch, Dispatched, Bind, Verify, Bound | the native flow, one iteration after the other |
| Job, EngineAnswers, Decide | the shape the two engine flows share |
| Raises, Cancelled, Finally, Stamp, StoreFails, Record, WorkDone | the exception handlers, `finally`, the last save, the ledger row, the end of the task |
| BeginDrain, DrainSnapshot, GraceEnds, CancelEnds, Callback, Stopped | `_drain_once` with its two bounds and its callback |
| Exit, Crash, Boot, Reconcile, Serve | the process; `ScanStore.initialize` |
| SelectBegin, GatewaySelects, SelectAnswered, SelectLost | model selection |

Run `scan_service`: two scans, each native, engine or retest, one dispatch and one iteration, two
models and one selection, one crash, saves that fail and answers that are lost. One scan's save
failing is enough, since saves do not read each other's rows. The VIEW drops what a task whose flow
is over still holds, and whom a selection overtook once the scan is planned. `VerdictFollowsEvidence` (whoever
closed a native scan, its status is what its saved evidence says; an engine scan's PASS or FAIL agrees
with the finding saved with it, and one that was interrupted is exempt), `LiveHasTask` (admission, drain and
restart leave no orphan), `LedgerHonest` (the row is the outcome the store ends with),
`PlannedByItsModel`, and `VerdictFinal` (a PASS or FAIL in the store is never changed).
The drain's grace is taken to be positive, as configured.

Proofs, for any number of scans, models, answers, budgets, selections and crashes, whatever fails:
TypeOK, the four invariants and VerdictFinal. None of the four is inductive. `IInv` adds, per scan:
`Placed` (which positions are registered work, may be cancelled, or are in the middle of a stretch),
`Held` (what a task holds is what it saved last, or the drain ended that row and the task's
CancelledError is still on its way), `Evident` (in a flow the row is RUNNING; a flow that waits has
no finding, since a verdict is reached in the stretch that found it), `Drained` (what the drain cancelled
or still answers for has no cross-owner read, and is out of its flow or about to be thrown out; and
whatever is still live is in the drain's set, which is why LiveHasTask survives a drain that gives
up), `Attended`, `Recorded` and `Planned`. VerdictFinal follows because every
write to a row that is a PASS or a FAIL is one of the two saves after the flow, and those keep it.
TLC was given `IInv` on the run's instance with the fault "disk" added before it was proved.

Run `engine_finding` is expected to fail, on the same two scans without faults and selections.
`EngineFindingKept` says of the engine flows what `aegis/service.py:1036-1037` says of both
reconciliations, "already-verifiable findings remain FAIL". The counterexample: the engine answers,
its finding is confirmed by the independent verifier and saved, the process crashes before the
terminal save, and the next start verifies anew from `hypotheses` and `evidence`
(`aegis/storage.py:54-62`), which an engine scan leaves empty: the scan is closed INCOMPLETE and its
finding is gone. Without a failing save a drain cannot do it, since nothing is awaited between the two.

Observed: A create whose audit row fails leaves a QUEUED scan without
a task until the restart, a failed save a RUNNING one. Selection checks that no work is in progress,
awaits the gateway, and switches (`main.py:1623-1624` says not to change the identity underneath
work): the exception `overtaken` in PlannedByItsModel. After a restart, or a lost answer, planner and
gateway disagree and every plan is refused until a model is selected again. A crash between the
terminal save and SCAN_COMPLETED leaves `completed_at` unset for good.

## 8. The agents' run: `AgentRun`

All runs share one event loop; an action is a stretch between two awaits that suspend. A charge never
suspends, and nobody else holds a run's budget, so charge and call are one step up to the await.
`run` is the run, its execution and budget in memory, `rows` the saved evaluations, `range` the
bank application with who changed it last; `reached` and `dirty` are history: requests that reached
a target, runs whose selection no reset has undone. Execute, ResetAnswered, SelectAnswered,
StepAnswered, VerifyAnswered, CleanupAnswered follow `execute` on both paths; CancelUndone and
FailureUndone are its two handlers, with the `finally` in the same step; Cancel, Interrupt, Operate
and RangeRestart come from outside.

Run `agent_run`: one run of either path on four budgets (each of which ends it somewhere else), two
operations and one restart of the range. `EffectsCharged`, `SavedIsHonest`, `CleanupProven`,
`NoModelAfterCancel`, and `RunEnds` under weak fairness of the run's steps: every await has a timeout.

Proofs, for any number of runs on the one range: TypeOK, WithinLimits (no ledger exceeds its limits),
and the four safety properties. `IInv`: `Owed`, what was charged and not yet sent (EffectsCharged is
an inequality, the invariant says by how much); `Stopped`, `Ended`, `InHand`, `Judged`, `Spent` per
run and position; `Saved` and `Placed`, what row and range say of a run that is over. RunEnds stays
with TLC.

Observed: a cancel seen by `transition` raises ValueError, and the cancelled evaluation is never
saved; its verdict in memory may stay CONFIRMED, and a task may become COMPLETED after it. Any other
failure is raised again, so failed runs are never saved; the elapsed-time check in `finally` can
replace the result. An interrupt from outside saves a CANCELLED run with a RUNNING task; one in a
handler leaves the run active and unsaved. After a restart of the range generations repeat, and a
cleanup is reported failed though it reset. CleanupProven speaks of runs that had the range to
themselves (`own`). A timed-out request served after the following reset is not modelled.

## 9. Remediation: `Remediation`

Two programs drive one loop: the live script, one process with new ids on a shared range, and the
four lifecycle adapters, whose stages a resumed assessment may dispatch again, in processes that each
have their own range. A process is at a call of its program (`Live`, `Program`); `Step` makes it:
Open, PersistFinding, Authorize, PersistReceipt, ConsumeRead and ConsumeWrite, Bind, Read and Write of
each transition, QueueStep, Model, RangeStep, Probe, JudgeRecon and JudgeRetest. A method of the
ledger that reads and then writes does so in two statements, and `seen` is what the first read; an
insert with a key that exists fails. `probes`, `patches`, `concluded` are history.

Run `remediation`: two processes, three crashes (enough for every stage of the chain to be dispatched
again after one), two operations of others and a restart. `LedgerBacksState` (the rows a state stands
for are there), `EffectOnce` (one first probe, one patch, one retest), `PassIsEarned` (a PASS rests
on a finding before the patch, a range seen to change, a denied probe after), `OneVerdict`.

Proofs, for any number of processes, crashes, operations: TypeOK and all four. `IInv`: tokens
`MayProbe`, `MayPatch`, `MayConclude`, held by a process that has passed the key and not yet had the
effect, so that effect and token together are one; `Chain`, each row has the rows before it;
`Counted`, the effects are at most what the rows account for; `StateBacked`; `Stands` and `Alone`, what
a process in the middle of its program has read and nobody else can be doing; and positions in the
programs. The proofs unfold the programs once, in lemmas about the call at each position.

Observed: each stage process makes its own range, so a resumed assessment retests on another one. A
stale `transition` write of a second process can reopen a concluded loop (EffectOnce and OneVerdict
hold because of the keys). A crash after the consumption and before the binding spends the receipt
without a retest. Budget stops and early failures of a model leave the loop open and its jobs
CLAIMED. `can_start` reserves only the output ceiling while the record adds all tokens. Results of
reset and select are ignored, and sentinels repeat after a restart; CLEANUP_FAILED is never entered.
The lifecycle's rule of when a stage may be dispatched again is over-approximated. No liveness is
claimed: the loop may stop at any failed step.

## 10. The live campaigns: `LiveCampaign`

One module for four scripts of one shape: build and bring up the stacks, two arms against the range,
tear down, decide. `part` is where it is and `todo` the calls that part still makes; every call may
take effect or not, and answer, answer nothing readable, or time out, which is an exception on its
way through `finally` (`raised`). `facts` is what each arm recorded, by step; `job` and `chain` the
rows; `usage` the totals; `hidden` the calls that were made and not counted.

Run `live_campaign` checks the four campaigns, each once, with one operation of somebody else or one
restart of the range: `GoEarned` (GO means both arms saw what they claim, on a range in that arm's
state; of logins that were lost the record, and so the property, says nothing), `UsageCounted` (a GO is within its ceilings and its totals miss no call but a lost explanation),
`WayOut` (where an acceptance is written the jobs, chains and links agree, and a GO has left nothing
running). The VIEW drops what no property and no later step reads: after an exception nothing
is written but the way out, and a campaign that can no longer be a GO keeps its rows and what its
remaining steps depend on. Token sizes 1 and 7 against ceilings the seven breaks, so that each
ceiling is met from both sides. A burst of logins and a verification are one step each. GO is
reached in every campaign, in the chain also with an uncounted explanation and with the range
touched, which shows that the properties are not held by never getting there.

Proofs (LiveCampaignProofs), for any number of operations and restarts of the range and all four
campaigns: GoEarned, UsageCounted, WayOut. Assumed is only that None is none of the words a row or a
record may hold. None of the three is inductive: each speaks of the moment of the acceptance and is
lost or won long before. `IInv` says of every state what is still ahead:

* `Control`: the calls that remain, as a set (`Rest`), are calls of this part in their order (`Stage`),
  none twice; `Ahead` has what any suffix of a script, and any way out of it, keeps: an opening call
  comes with a closing one, a chain that will be begun with one that decides it, Stage B with its own
  link and decision, and the way out of a failed chain is all there is. It is this that makes the many ways
  through four programs one argument: a step is known by how it changes `Rest` (`Kinds`), and each other
  part of the invariant is kept by every kind.
* `Jobs`, `Chains`, for WayOut: an open job is recorded as an error, or has its closing call ahead, or
  an exception is on its way; the links of a chain are the verifications of its arm as far as they have
  been written, and CHAIN_CONFIRMED stands exactly when both are CONFIRMED, except while `final` is to
  come. `Pristine`: an arm not begun has no row and no fact.
* `Record`, for GoEarned: what a step is recorded to have seen was there on the range it was made on
  (`Sound`), and an effect of the service was had in the generation of the credential. The operator may
  switch the range at will: a fact holds what it was seen on, so nothing he does unmakes it.
* `Usage`, for UsageCounted: a call missing from the totals is the lost explanation, or the verdict is
  spoilt (`Doomed`): the record is no longer good, the usage unknown, an exception raised, or the
  patched arm of a chain has passed the only call that could make it BLOCKED_BY_PATCH.
* `Containers`, for WayOut: what a removal that was not reported as failed has removed; only a step
  that timed out leaves a worker. `Accepted`: a GO is still what the record says when it is read.

The run is with MaxOthers = 1 (2 did not finish); the theorems are for any.

Observed: 2_2's token ceiling is not ensured (only the output ceiling is reserved, unknown usage is
not recorded); its `interpret_submit` is in the script and no arm calls it. A time-out leaves jobs
CLAIMED and no acceptance; one of `up` skips the teardown. Close errors are not in the verdict; a
listing that fails reads as nothing left. The chain's patched arm is BLOCKED_BY_PATCH in the ledger
whatever the verifier said. "No credential" is satisfied by a probe that never ran, the causal
control by one that never arrived. Results of reset and select are ignored: somebody's switch between
worker and verifier lets the vulnerable arm's burst come from a patched range. 1_9's verdict asks
nothing of what the boundary probe found, and only that jobs were CLAIMED. Two invocations share one
compose project. In the consolidated campaign, which is not modelled, `container.create()` comes
before the `try` its comment speaks of.

## 11. Passive and template scans: `PassiveScan`

A scan's task is one coroutine; a run on a runner one thread under a lock that is not waited for; what
either does between two calls is a step. `scan` is the `ScanResult` and its task, `calls` and `answer`
the adapter's calls and what came back, `runner`, `drifted`, `process` the two runners, `guard`, `wire`,
`upstream` the guard with the requests on their way to it and to the target, `late` arming calls whose
caller has gone. An execution has the name of its scan.

| step | code |
|---|---|
| Create, Start, Attested, AttestLost, GiveUp, Answered, Verified | `create`, `_zap_flow` and `_nuclei_flow`, the adapters, projection, decision |
| Refuse, PrepareZap, PrepareFails, StartNuclei | the runners' policy and files |
| ArmRefused, ArmAndSpawn, ArmLost, ReadLate, Expire | arming; what the guard reads late; the arming's end |
| Ask, Admit, Relay | a request: made, judged at the guard, answered by the target |
| EngineEnds, ZapExited, ZapStopped, WatchFails, NucleiExited, NucleiTimeout | the process and who watches it |
| DisarmAndAnswer, DisarmLost, SafetyNet | the end of a run |
| Drift, RestartRunner, RestartGuard | the world |

Assumptions: the lab's vulnerable target is the one whose probe comes back as the verifier confirms
(for ZAP, JSON without the nosniff header): `evaluate` reads the response and no name, and `ZapVerdict`
and `NucleiVerdict` say what it then finds; what ZAP says it imported is what it was answered; an arming outlasts its run (its TTL is
the run time and ten seconds); a nonce is sent once. Query parameters and methods, and the checks
`retest_of` makes at creation, are left out.

Run `passive_scan`: a first scan of any target and a second of the patched one, on either engine; two
requests of a process, one on its way at a time; one fault. The VIEW drops what no later step and no
property reads: a scan that is over and that nothing acts for, the particulars of a response that
cannot be valid, and what the guard counted and ZAP got when the execution can no longer be
complete. `VerdictEarned` (PASS and FAIL rest on a
complete execution and on the controller's own probes; which target they are about follows from the
assumption on the lab), `TrafficIsOwn` (a completed ZAP execution was
answered for its own requests alone). That scans end is not checked: the state space with a liveness
tableau is too large; every await of the task has a deadline in the code.

Proofs, for any number of scans, requests, faults: TypeOK and both. `IInv`: `Placed`, that a scan runs
once, and one whose arming was lost never runs; `Budgeted`, that what the guard counts is within the
armed budget; `Own` and `Mine`, a count: of what was forwarded under an execution's token as much is
its own as it got or waits for, and strictly more was forwarded if any was another's, so that counts
which are exact at the classification mean all of it is its own; `Judged`, what each response kept
in a scan was classified from.

Observed: a lost arm answer leaves the guard armed for its TTL, and runs are GUARD_UNAVAILABLE until
then. The answer to an old request is recorded under the next arming and fails it, closed, as
TARGET_TIMEOUT. An adapter that times out ends its scan while the runner goes on. An exception in the
poll loop leaves the process running. An attestation that is lost is made again by `run` itself, which
may then execute although no budget was reserved (`service.py` says "Reserve the target-request budget
first (fail closed)"); the scan ends INCOMPLETE with a COMPLETED execution record.
Attestation reports the last verification, not drift since.

## 12. What the checks and the proofs show

* All runs set CHECK_DEADLOCK FALSE: the systems may stop, when an assessment is terminal, the
  bounded clock has ended, or all activations, runs or scans are over.
* The bounds (MaxAttempts, MaxTime, MaxLog, MaxSession, MaxRun, MaxCrash, MaxOperator, MaxRestart,
  MaxDispatch, MaxIteration, MaxSelect, MaxOthers, MaxAsk, MaxOpen, MaxFault) are in the guards of the
  actions they bound and named as such. Two runs have a CONSTRAINT besides, ReissuesEarly and
  StopOrRequests. The theorems hold for every value of the former and without the latter.
* Proved without a run of their own: the type invariants, OneLive, DoneIsFinal, OneArmed,
  NothingToLose, WithinLimits. Each follows from, or is part of, an inductive invariant that TLC was
  given on the runs before it was proved.
* Every safety property of a run is proved, but for EngineFindingKept, which a comment of the source
  states and the code violates: its run ends in the counterexample. Model-checked only is liveness: AllSettle, StopSettles, RunEnds.
  Fairness and ENABLED are out of the proof system's reach, and so are induction over data and
  RECURSIVE operators, which no module here declares.
* HTTP framing, signatures, digests, report parsing and what a model writes are abstracted to a choice
  of outcome, so that a property here never rests on them.
* SQLite is trusted to make a transaction atomic and durable, the file system to make a synced
  rename so.

Every property that a run finds to hold has a mutant in `PROJECT.json`: a change of one definition that a plausible
bug in the code would make (the operators commented "Mutant" or "Faulty" in the modules), under which
TLC finds that property violated.
