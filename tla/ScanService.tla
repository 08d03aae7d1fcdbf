---------------------------- MODULE ScanService ----------------------------
(* The control plane's own work: scans, the tasks that run them, the drain of  *)
(* the process, its restart, and the choice of the model they are planned by.  *)
(*                                                                            *)
(* aegis/service.py           ScanService: create, run, the native flow, the   *)
(*                            two engine flows, the shutdown callback          *)
(* aegis/process_lifecycle.py ProcessLifecycle: admission, drain               *)
(* aegis/storage.py           ScanStore: upsert, reconciliation at start       *)
(* aegis/main.py              middleware, lifespan, model selection, ledger    *)
(* aegis/planner.py, gateway.py   who answers, and whose answer is accepted    *)
(*                                                                            *)
(* The process is one event loop: between two awaits a task is alone, and      *)
(* `loop` names the scan in the middle of such a stretch. Every save is a      *)
(* transaction of its own, so a stretch is cut where it saves: a crash may     *)
(* come between any two of them, another task may not.                         *)
EXTENDS Naturals, Sequences

CONSTANTS
    Scan,           \* scan ids
    Console,        \* native scans created by console_create_assessment: they are recorded
    Model,          \* allowlisted model ids
    DefaultModel,   \* the one in the settings of both processes
    Answers,        \* what one dispatched hypothesis can read: sequences of Read
    MaxDispatch,    \* request budget of a scan, in hypotheses
    MaxIteration,   \* settings.max_iterations
    MaxSelect,      \* bound: selections the operator makes
    MaxCrash,       \* bound: crashes of the process
    Faults,         \* subset of {"store", "disk", "lost"}
    None

Read == {"cross", "control", "denied", "odd"}
Await == {"import", "model", "dispatch", "engine"}

(* The rows of the table, of which None is none. *)
Rows == [engine : BOOLEAN, retest_of : Scan \cup {None}, model : Model \cup {None},
         status : {"QUEUED", "RUNNING", "PASS", "FAIL", "REVIEW", "INCOMPLETE"},
         reads : SUBSET Read, found : BOOLEAN, passed : BOOLEAN, closed : BOOLEAN]

ASSUME ScanServiceAssumption ==
    /\ Console \subseteq Scan
    /\ DefaultModel \in Model /\ Answers \subseteq Seq(Read)
    /\ {MaxDispatch, MaxIteration, MaxSelect, MaxCrash} \subseteq Nat
    /\ Faults \subseteq {"store", "disk", "lost"} /\ None \notin Scan \cup Model \cup Rows

VARIABLES
    proc,       \* "DOWN" or ProcessLifecycle._state
    work,       \* ProcessLifecycle._work
    drain,      \* _drain_once: [pc, set]: the tasks it waits for, cancels, answers for
    cancelling, \* tasks with a CancelledError on its way
    loop,       \* the scan in the middle of a stretch of the event loop, or None
    store,      \* table scans: scan -> row or None
    mem,        \* the ScanResult a task holds
    pc,         \* where the task of a scan is
    todo,       \* reads of the dispatched hypothesis not bound yet, in order
    spent,      \* [dispatch, iteration] of the task's ScanBudget
    asked,      \* the provider that serves the task's model call
    provider,   \* the gateway's model
    planner,    \* GatewayPlanner.model, and settings.ai_model with it
    select,     \* console_ai_select: [pc, model, left]
    rows,       \* run ledger: scan -> recorded outcome or None
    crashes,
    unsaved,    \* history: scans one of whose saves has failed
    misled,     \* history: scans that accepted a plan of a model not their own
    overtaken   \* history: scans admitted while a selection was on its way

vars == <<proc, work, drain, cancelling, loop, store, mem, pc, todo, spent, asked,
          provider, planner, select, rows, crashes, unsaved, misled, overtaken>>

task == <<mem, pc, todo, spent, asked, loop>>
life == <<proc, work, drain, cancelling, crashes>>
models == <<provider, planner, select>>
past == <<unsaved, misled, overtaken>>

(* Where the drain is, and the tasks it concerns. *)
Drain(at, set) == [pc |-> at, set |-> set]

(* A row of the table: `engine` for the Nuclei and ZAP flows, `closed` for        *)
(* completed_at, `passed` for a verification of status PASS.                   *)
Row(engine, parent, m) ==
    [engine |-> engine, retest_of |-> parent, model |-> m, status |-> "QUEUED",
     reads |-> {}, found |-> FALSE, passed |-> FALSE, closed |-> FALSE]

(* DeterministicVerifier.verify and .evaluate: a cross-owner read confirms; a   *)
(* PASS needs the owner controls and a refused probe and nothing else.         *)
Verified(r) ==
    [r EXCEPT !.found = "cross" \in r.reads,
              !.passed = r.reads = {"control", "denied"}]

(* The findings again from the evidence, for a scan that was interrupted. The  *)
(* evidence of an engine flow is not in `reads`: its findings are not found    *)
(* again.                                                                      *)
Interrupted(r) ==
    LET found == "cross" \in r.reads
    IN  [r EXCEPT !.found = found, !.closed = TRUE,
                  !.status = IF found THEN "FAIL" ELSE "INCOMPLETE"]

(* Bound: the saves of one scan fail, of the others none. *)
StoreMayFail(s) == "store" \in Faults /\ unsaved \subseteq {s}

(* The row of s becomes r, in the memory of its task and in the store. *)
Save(s, r) == /\ mem' = [mem EXCEPT ![s] = r]
              /\ store' = [store EXCEPT ![s] = r]

Goto(s, at) == pc' = [pc EXCEPT ![s] = at]

(* No stretch is in progress; the drain's callbacks are one too. *)
Free == loop = None /\ drain.pc # "callback"

(* A task goes on after an await, unless it was cancelled meanwhile. *)
Resumes(s, at) == /\ Free /\ pc[s] = at /\ s \notin cancelling
Alone(s, at)   == loop = s /\ pc[s] = at

(* A stretch ends at the await `at`. *)
AwaitAt(s, at) == Goto(s, at) /\ loop' = None
GoOn(s, at)    == Goto(s, at) /\ loop' = s

Idle(left) == [pc |-> "idle", model |-> None, left |-> left]

Init ==
    /\ proc = "SERVING" /\ work = {} /\ drain = Drain("none", {}) /\ cancelling = {}
    /\ loop = None /\ store = [s \in Scan |-> None] /\ mem = [s \in Scan |-> None]
    /\ pc = [s \in Scan |-> "none"] /\ todo = [s \in Scan |-> <<>>]
    /\ spent = [s \in Scan |-> [dispatch |-> 0, iteration |-> 0]]
    /\ asked = [s \in Scan |-> None]
    /\ provider = DefaultModel /\ planner = DefaultModel
    /\ select = [pc |-> "idle", model |-> None, left |-> MaxSelect]
    /\ rows = [s \in Scan |-> None]
    /\ crashes = 0 /\ unsaved = {} /\ misled = {} /\ overtaken = {}

-----------------------------------------------------------------------------
(* Admission: create the row and register the task, in one critical section.  *)

(* A retest needs a parent of its own engine that is FAIL, with its findings.   *)
MayRetest(engine, parent) ==
    parent # None => /\ store[parent] # None /\ store[parent].engine = engine
                     /\ store[parent].status = "FAIL" /\ store[parent].found

Create(s, engine, parent) ==
    /\ proc = "SERVING" /\ Free /\ store[s] = None /\ MayRetest(engine, parent)
    /\ store' = [store EXCEPT ![s] = Row(engine, parent, IF engine THEN None ELSE planner)]
    /\ \/ work' = work \cup {s} /\ Goto(s, "new") /\ UNCHANGED unsaved
       \/ \* the audit row of the creation fails: the scan is saved and has no task
          /\ StoreMayFail(s) /\ unsaved' = unsaved \cup {s} /\ UNCHANGED <<work, pc>>
    /\ overtaken' = IF select.pc = "idle" THEN overtaken ELSE overtaken \cup {s}
    /\ UNCHANGED <<proc, drain, cancelling, loop, mem, todo, spent, asked, models, rows,
                   crashes, misled>>

(* run: it returns at once unless the scan is QUEUED. *)
Start(s) ==
    /\ Resumes(s, "new") /\ store[s].status = "QUEUED"
    /\ Save(s, [store[s] EXCEPT !.status = "RUNNING"])
    /\ IF store[s].engine THEN GoOn(s, "job") ELSE AwaitAt(s, "import")
    /\ UNCHANGED <<life, todo, spent, asked, models, rows, past>>

-----------------------------------------------------------------------------
(* The native flow.                                                           *)

(* _terminal: the flow ends with a verdict; the rest is left to `finally`. *)
Terminal(s, status) ==
    /\ Save(s, [mem[s] EXCEPT !.status = status])
    /\ GoOn(s, "finally")

(* A preflight blocker, an empty or rejected generation, no admitted candidate. *)
Blocked(s) == \E status \in {"REVIEW", "INCOMPLETE"} : Terminal(s, status)

(* The interface description was read: verify what there is, enter the loop. *)
Imported(s) ==
    /\ Resumes(s, "import")
    /\ Save(s, Verified(mem[s])) /\ GoOn(s, "head")
    /\ UNCHANGED <<life, todo, spent, asked, models, rows, past>>

(* A retest is executed once: no verdict after that is inconclusive. *)
Undecided(s) == ~mem[s].found /\ ~mem[s].passed
MayIterate(s) == Undecided(s) /\ (mem[s].retest_of # None => spent[s].dispatch = 0)

(* The head of the loop: a verdict, or another iteration. *)
LoopHead(s) ==
    /\ Alone(s, "head")
    /\ \/ mem[s].found /\ Terminal(s, "FAIL") /\ UNCHANGED <<spent, asked>>
       \/ ~mem[s].found /\ mem[s].passed /\ Terminal(s, "PASS") /\ UNCHANGED <<spent, asked>>
       \/ /\ Undecided(s) /\ ~MayIterate(s)
          /\ Terminal(s, "REVIEW") /\ UNCHANGED <<spent, asked>>
       \/ /\ MayIterate(s) /\ spent[s].iteration < MaxIteration
          /\ spent' = [spent EXCEPT ![s].iteration = @ + 1]
          /\ \/ Blocked(s) /\ UNCHANGED asked
             \/ /\ IF mem[s].retest_of = None THEN AwaitAt(s, "model") ELSE GoOn(s, "reserve")
                /\ asked' = [asked EXCEPT ![s] = IF mem[s].retest_of = None THEN provider ELSE None]
                /\ UNCHANGED <<mem, store>>
    /\ UNCHANGED <<life, todo, models, rows, past>>

(* An answer is accepted from the planner's model only; a refused one raises.  *)
ModelAnswers(s) ==
    /\ Resumes(s, "model") /\ asked[s] = planner
    /\ asked' = [asked EXCEPT ![s] = None]
    /\ misled' = IF asked[s] = mem[s].model THEN misled ELSE misled \cup {s}
    /\ \/ Blocked(s)
       \/ GoOn(s, "reserve") /\ UNCHANGED <<mem, store>>
    /\ UNCHANGED <<life, todo, spent, models, rows, unsaved, overtaken>>

(* Reserve the hypothesis' requests before any of them is made. *)
Dispatch(s) ==
    /\ Alone(s, "reserve") /\ spent[s].dispatch < MaxDispatch
    /\ spent' = [spent EXCEPT ![s].dispatch = @ + 1]
    /\ AwaitAt(s, "dispatch")
    /\ UNCHANGED <<life, store, mem, todo, asked, models, rows, past>>

Dispatched(s) ==
    /\ Resumes(s, "dispatch")
    /\ \E reads \in Answers : todo' = [todo EXCEPT ![s] = reads]
    /\ GoOn(s, "bind")
    /\ UNCHANGED <<life, store, mem, spent, asked, models, rows, past>>

(* Each observation is saved, then the verdict it leads to. *)
Bind(s) ==
    /\ Alone(s, "bind")
    /\ todo[s] # <<>> /\ todo' = [todo EXCEPT ![s] = Tail(@)]
    /\ Save(s, [mem[s] EXCEPT !.reads = @ \cup {Head(todo[s])}])
    /\ GoOn(s, "verify")
    /\ UNCHANGED <<life, spent, asked, models, rows, past>>

Verify(s) ==
    /\ Alone(s, "verify")
    /\ Save(s, Verified(mem[s])) /\ GoOn(s, "bind")
    /\ UNCHANGED <<life, todo, spent, asked, models, rows, past>>

(* All is bound: the next admitted candidate, unless a verdict is reached. *)
Bound(s) ==
    /\ Alone(s, "bind") /\ todo[s] = <<>>
    /\ \/ GoOn(s, "head")
       \/ Undecided(s) /\ mem[s].retest_of = None /\ GoOn(s, "reserve")
    /\ UNCHANGED <<life, store, mem, todo, spent, asked, models, rows, past>>

-----------------------------------------------------------------------------
(* The two engine flows. They differ in what is attested and parsed, not in    *)
(* what they save and when.                                                   *)

(* The job is built, or refused without contacting the runner. *)
Job(s) ==
    /\ Alone(s, "job")
    /\ \/ Terminal(s, "REVIEW")
       \/ AwaitAt(s, "engine") /\ UNCHANGED <<mem, store>>
    /\ UNCHANGED <<life, todo, spent, asked, models, rows, past>>

(* The independent verification: a finding needs a report of the tool and the  *)
(* confirmation of the verifier. `todo` keeps whether the tool reported.       *)
Collected(s) ==
    \E reported \in BOOLEAN, verdict \in {"CONFIRMED", "PASS", "INSUFFICIENT"} :
       /\ Save(s, [mem[s] EXCEPT !.found = reported /\ verdict = "CONFIRMED",
                                 !.passed = verdict = "PASS"])
       /\ todo' = [todo EXCEPT ![s] = IF reported THEN <<"odd">> ELSE <<>>]

(* The runner is attested, the engine run, its report parsed and verified: four  *)
(* awaits with nothing saved between them.                                     *)
EngineAnswers(s) ==
    /\ Resumes(s, "engine")
    /\ \/ Terminal(s, "INCOMPLETE") /\ UNCHANGED todo
       \/ Collected(s) /\ GoOn(s, "decide")
    /\ UNCHANGED <<life, spent, asked, models, rows, past>>

Decide(s) ==
    LET reported == todo[s] # <<>> IN
    /\ Alone(s, "decide")
    /\ \/ reported /\ mem[s].found /\ Terminal(s, "FAIL")
       \/ reported /\ ~mem[s].found /\ Terminal(s, "REVIEW")
       \/ ~reported /\ mem[s].passed /\ Terminal(s, "PASS")
       \/ \* disagreement of the verifier, or incomplete coverage
          ~reported /\ \E status \in {"REVIEW", "INCOMPLETE"} : Terminal(s, status)
    /\ UNCHANGED <<life, todo, spent, asked, models, rows, past>>

-----------------------------------------------------------------------------
(* How a run ends.                                                            *)

(* A refusal, a budget, the time limit or an error ends the flow: at an await,  *)
(* where a budget is charged or a candidate compiled, or where a save fails. A  *)
(* refusal of the safety controller is for review.                            *)
Raises(s) ==
    /\ \/ /\ \/ \E at \in Await : Resumes(s, at)
             \/ Alone(s, "head") /\ MayIterate(s)
             \/ Alone(s, "reserve")   \* no candidate is admitted, or its job is refused
             \/ StoreMayFail(s) /\ \E at \in {"bind", "verify", "decide", "job"} : Alone(s, at)
          /\ Terminal(s, "INCOMPLETE")
       \/ /\ Alone(s, "reserve") \/ Resumes(s, "dispatch")   \* the safety controller
          /\ Terminal(s, "REVIEW")
    /\ UNCHANGED <<life, todo, spent, asked, models, rows, past>>

\* Mutant: a cancelled scan is left for review.
CancelledForReview(s) ==
    /\ Free /\ s \in cancelling /\ pc[s] \in Await
    /\ cancelling' = cancelling \ {s}
    /\ Terminal(s, "REVIEW")
    /\ UNCHANGED <<proc, work, drain, crashes, todo, spent, asked, models, rows, past>>

(* A cancelled task is thrown out of its await. *)
Cancelled(s) ==
    /\ Free /\ s \in cancelling /\ pc[s] \in Await
    /\ cancelling' = cancelling \ {s}
    /\ Terminal(s, "INCOMPLETE")
    /\ UNCHANGED <<proc, work, drain, crashes, todo, spent, asked, models, rows, past>>

(* finally: the native flow verifies once more, and saves that first. *)
Finally(s) ==
    /\ Alone(s, "finally") /\ GoOn(s, "stamp")
    /\ Save(s, IF mem[s].engine THEN mem[s] ELSE Verified(mem[s]))
    /\ UNCHANGED <<life, todo, spent, asked, models, rows, past>>

\* Mutant: the status that was set stands.
StampAsSet(s) ==
    /\ Alone(s, "stamp")
    /\ Save(s, [mem[s] EXCEPT !.closed = TRUE])
    /\ IF s \in Console /\ ~mem[s].engine THEN GoOn(s, "ledger") ELSE AwaitAt(s, "ended")
    /\ UNCHANGED <<life, todo, spent, asked, models, rows, past>>

(* A finding overrides whatever status was set. *)
Stamp(s) ==
    /\ Alone(s, "stamp")
    /\ Save(s, [mem[s] EXCEPT !.closed = TRUE,
                              !.status = IF ~mem[s].engine /\ mem[s].found THEN "FAIL" ELSE @])
    /\ IF s \in Console /\ ~mem[s].engine THEN GoOn(s, "ledger") ELSE AwaitAt(s, "ended")
    /\ UNCHANGED <<life, todo, spent, asked, models, rows, past>>

(* The database refuses from here to the end of the task: nothing more is saved,  *)
(* and the ledger may record what is stored in the middle of a run.             *)
StoreFails(s) ==
    /\ StoreMayFail(s) /\ loop = s
    /\ pc[s] \in {"head", "bind", "verify", "job", "decide", "finally", "stamp"}
    /\ unsaved' = unsaved \cup {s} /\ AwaitAt(s, "ended")
    /\ \/ UNCHANGED rows
       \/ s \in Console /\ ~mem[s].engine /\ rows' = [rows EXCEPT ![s] = store[s].status]
    /\ UNCHANGED <<life, store, mem, todo, spent, asked, models, misled, overtaken>>

(* _record_run_ledger: the stored outcome, unless the disk fails. *)
Record(s) ==
    /\ Alone(s, "ledger") /\ AwaitAt(s, "ended")
    /\ rows' \in {[rows EXCEPT ![s] = store[s].status]} \cup (IF "disk" \in Faults THEN {rows} ELSE {})
    /\ UNCHANGED <<life, store, mem, todo, spent, asked, models, past>>

(* _work_done, the callback of the task. *)
WorkDone(s) ==
    /\ Free /\ pc[s] = "ended" /\ Goto(s, "done")
    /\ work' = work \ {s}
    /\ UNCHANGED <<proc, drain, cancelling, loop, store, mem, todo, spent, asked, models, rows,
                   crashes, past>>

-----------------------------------------------------------------------------
(* Drain and restart.                                                         *)

BeginDrain ==
    /\ proc = "SERVING" /\ loop = None
    /\ proc' = "DRAINING" /\ drain' = Drain("begin", {})
    /\ UNCHANGED <<work, cancelling, crashes, task, store, models, rows, past>>

(* _drain_once, a task of its own: it begins with a snapshot. *)
DrainSnapshot ==
    /\ drain.pc = "begin" /\ loop = None
    /\ drain' = Drain("grace", work)
    /\ UNCHANGED <<proc, work, cancelling, crashes, task, store, models, rows, past>>

\* Mutant: whatever was admitted before the drain timed out.
GraceEndsForAll ==
    /\ drain.pc = "grace" /\ loop = None
    /\ drain' = Drain("cancel", drain.set)
    /\ cancelling' = {s \in drain.set : pc[s] # "new"}
    /\ UNCHANGED <<proc, work, crashes, task, store, models, rows, past>>

(* Everything ended in time, or what is left is cancelled. A task registered     *)
(* before the drain has taken its first step by the end of the grace.          *)
GraceEnds ==
    LET pending == {s \in drain.set \cap work : pc[s] # "ended"} IN
    /\ drain.pc = "grace" /\ loop = None
    /\ IF pending = {} THEN drain' = Drain("callback", {}) /\ UNCHANGED cancelling
       ELSE /\ \A s \in pending : pc[s] # "new"
            /\ drain' = Drain("cancel", pending)
            /\ cancelling' = pending
    /\ UNCHANGED <<proc, work, crashes, task, store, models, rows, past>>

(* The cancelled tasks ended, or the second bound expired over them. *)
CancelEnds ==
    /\ drain.pc = "cancel" /\ loop = None
    /\ drain' = Drain("callback", drain.set)
    /\ UNCHANGED <<proc, work, cancelling, crashes, task, store, models, rows, past>>

(* mark_shutdown_timeout for one of them; its failure is logged. *)
Callback(s) ==
    /\ drain.pc = "callback" /\ s \in drain.set
    /\ drain' = Drain("callback", drain.set \ {s})
    /\ \/ store' = [store EXCEPT ![s] = Interrupted(@)] /\ UNCHANGED unsaved
       \/ StoreMayFail(s) /\ unsaved' = unsaved \cup {s} /\ UNCHANGED store
    /\ UNCHANGED <<proc, work, cancelling, crashes, task, models, rows, misled, overtaken>>

Stopped ==
    /\ drain = Drain("callback", {})
    /\ proc' = "STOPPED" /\ drain' = Drain("none", {})
    /\ UNCHANGED <<work, cancelling, crashes, task, store, models, rows, past>>

(* Nobody waits for the gateway any more; a request on its way may be served. *)
Forgotten ==
    /\ select' = Idle(select.left)
    /\ provider' \in {provider} \cup (IF select.pc = "sent" THEN {select.model} ELSE {})

(* The process is gone, and all it had in memory. *)
Dead ==
    /\ proc' = "DOWN" /\ work' = {} /\ cancelling' = {} /\ loop' = None
    /\ drain' = Drain("none", {})
    /\ pc' = [s \in Scan |-> "none"] /\ mem' = [s \in Scan |-> None]
    /\ todo' = [s \in Scan |-> <<>>] /\ asked' = [s \in Scan |-> None]
    /\ spent' = [s \in Scan |-> [dispatch |-> 0, iteration |-> 0]]
    /\ Forgotten /\ UNCHANGED <<store, planner, rows, past>>

Exit == proc = "STOPPED" /\ loop = None /\ Dead /\ UNCHANGED crashes
Crash == /\ proc \in {"STARTING", "SERVING", "DRAINING"} /\ crashes < MaxCrash
         /\ crashes' = crashes + 1 /\ Dead

(* The planner is built from the settings again; the gateway is another process. *)
Boot ==
    /\ proc = "DOWN" /\ proc' = "STARTING" /\ planner' = DefaultModel
    /\ UNCHANGED <<work, drain, cancelling, crashes, task, store, provider, select, rows,
                   past>>

(* initialize: a scan that was in progress is ended on its saved evidence. *)
Reconcile(s) ==
    /\ proc = "STARTING" /\ store[s] # None /\ store[s].status \in {"QUEUED", "RUNNING"}
    /\ store' = [store EXCEPT ![s] = Interrupted(@)]
    /\ UNCHANGED <<life, task, models, rows, past>>

\* Mutant: requests are served before the reconciliation is over.
ServeAtOnce ==
    /\ proc = "STARTING" /\ proc' = "SERVING"
    /\ UNCHANGED <<work, drain, cancelling, crashes, task, store, models, rows, past>>

Serve ==
    /\ proc = "STARTING"
    /\ \A s \in Scan : store[s] # None => store[s].status \notin {"QUEUED", "RUNNING"}
    /\ proc' = "SERVING"
    /\ UNCHANGED <<work, drain, cancelling, crashes, task, store, models, rows, past>>

-----------------------------------------------------------------------------
(* Model selection: a check, a call to the gateway, and only then the switch.  *)

\* Mutant: no work in progress is looked for.
SelectBeginAnytime(m) ==
    /\ proc = "SERVING" /\ Free /\ select.pc = "idle" /\ select.left > 0
    /\ m \notin {provider} \cap {planner}
    /\ select' = [pc |-> "sent", model |-> m, left |-> select.left - 1]
    /\ UNCHANGED <<life, task, store, provider, planner, rows, past>>

SelectBegin(m) ==
    /\ proc = "SERVING" /\ Free /\ select.pc = "idle" /\ select.left > 0
    /\ work = {} /\ m \notin {provider} \cap {planner}   \* else nothing changes
    /\ select' = [pc |-> "sent", model |-> m, left |-> select.left - 1]
    /\ UNCHANGED <<life, task, store, provider, planner, rows, past>>

GatewaySelects ==
    /\ select.pc = "sent"
    /\ provider' = select.model /\ select' = [select EXCEPT !.pc = "applied"]
    /\ UNCHANGED <<life, task, store, planner, rows, past>>

SelectAnswered ==
    /\ select.pc = "applied" /\ Free
    /\ planner' = select.model /\ select' = Idle(select.left)
    /\ UNCHANGED <<life, task, store, provider, rows, past>>

SelectLost ==
    /\ "lost" \in Faults /\ select.pc # "idle" /\ Free
    /\ Forgotten /\ UNCHANGED <<life, task, store, planner, rows, past>>

-----------------------------------------------------------------------------
TaskStep(s) ==
    \/ Start(s) \/ Imported(s) \/ LoopHead(s) \/ ModelAnswers(s) \/ Dispatch(s)
    \/ Dispatched(s) \/ Bind(s) \/ Verify(s) \/ Bound(s)
    \/ Job(s) \/ EngineAnswers(s) \/ Decide(s)
    \/ Raises(s) \/ Cancelled(s) \/ Finally(s) \/ Stamp(s)
    \/ Record(s) \/ WorkDone(s)

DrainStep == DrainSnapshot \/ GraceEnds \/ CancelEnds \/ Stopped \/ \E s \in Scan : Callback(s)
BootStep  == Boot \/ Serve \/ \E s \in Scan : Reconcile(s)

Next ==
    \/ \E s \in Scan : \/ TaskStep(s) \/ StoreFails(s)
                      \/ \E engine \in BOOLEAN, parent \in Scan \cup {None} : Create(s, engine, parent)
    \/ BeginDrain \/ DrainStep \/ Exit \/ Crash \/ BootStep
    \/ \E m \in Model : SelectBegin(m)
    \/ GatewaySelects \/ SelectAnswered \/ SelectLost

Spec == Init /\ [][Next]_vars

-----------------------------------------------------------------------------
Status(s) == IF store[s] = None THEN "NONE" ELSE store[s].status
Live(s)   == Status(s) \in {"QUEUED", "RUNNING"}

(* A native scan that is closed says what its saved evidence says, whoever closed  *)
(* it: its own run, the shutdown callback or the next start. A cross-owner read   *)
(* that was saved makes it FAIL, nothing else does, and only complete coverage is   *)
(* a PASS. Of an engine scan less holds: a PASS or FAIL agrees with the finding     *)
(* saved with it, but interrupted it is INCOMPLETE whatever was found, as the next   *)
(* property says. About the overrides in `finally` and the two reconciliations.    *)
VerdictFollowsEvidence ==
    \A s \in Scan : store[s] # None =>
        LET row == store[s] IN
        IF row.engine
        THEN row.status \in {"PASS", "FAIL"} => row.found = (row.status = "FAIL")
        ELSE /\ row.closed => (row.status = "FAIL" <=> "cross" \in row.reads)
             /\ row.status = "PASS" => row.reads = {"control", "denied"}

(* What mark_shutdown_timeout says of itself and of the restart, "already-verifiable *)
(* findings remain FAIL", for the engine flows: a scan whose confirmed finding is    *)
(* saved ends FAIL. It does not: the next start verifies from evidence that an engine *)
(* scan does not have, and drops the finding.                                      *)
EngineFindingKept ==
    [][\A s \in Scan : Live(s) /\ store[s].engine /\ store[s].found
                        => Live(s)' \/ Status(s)' = "FAIL"]_vars

(* A scan that is QUEUED or RUNNING in the store has a task that will end it,   *)
(* unless one of its saves failed: admission, drain and restart leave no orphan *)
(* behind, and when an orderly stop is over there is none, although the drain     *)
(* gives up on tasks in two ways. About create_and_submit, _drain_once with its  *)
(* callback, and initialize.                                                     *)
LiveHasTask ==
    \A s \in Scan \ unsaved :
        Live(s) => /\ proc # "STOPPED"
                   /\ proc \in {"SERVING", "DRAINING"} =>
                         s \in work /\ pc[s] \notin {"none", "ended", "done"}

(* The run ledger's row is the outcome the store ends up with, also when the task  *)
(* was cancelled and the shutdown callback wrote after it.                         *)
LedgerHonest ==
    \A s \in Scan \ unsaved : rows[s] # None => rows[s] = Status(s)

(* A PASS or a FAIL in the store is final: no cancellation, callback or restart  *)
(* that was already on its way changes it.                                       *)
VerdictFinal ==
    [][\A s \in Scan : Status(s) \in {"PASS", "FAIL"} => Status(s)' = Status(s)]_vars

(* The model a scan is recorded under is the only one it was planned by, over      *)
(* lost answers, crashes and the gateway's own mind, unless it was admitted while  *)
(* a selection was on its way. About the check of console_ai_select and the        *)
(* identity the planner asks of every answer.                                     *)
PlannedByItsModel ==
    misled \subseteq overtaken

=============================================================================
