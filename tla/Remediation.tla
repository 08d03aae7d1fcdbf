----------------------------- MODULE Remediation -----------------------------
(* One loop of finding, remediation and retest: the ledger of its states, the   *)
(* receipt that lets it be retested once, the range it patches, and the two     *)
(* programs that drive it.                                                     *)
(*                                                                            *)
(* aegis/multi_agent/remediation.py           ledger and controller            *)
(* aegis/multi_agent/adversary_simulation.py  AdvSimTaskQueue                  *)
(* scripts/phase_2_3_live_adaptive_retest.py  _run_loop: one process, new ids,  *)
(*    on a range that its operators reach too                                  *)
(* aegis/multi_agent/lifecycle_adapters.py    four stages with fixed ids, that  *)
(*    a resumed assessment may dispatch again, each process with its own range  *)
(* aegis_range/controller.py, ops.py, verifier.py   the range and its verifier  *)
(*                                                                            *)
(* A method of the ledger that reads and then writes does so in two SQL          *)
(* statements of which only the second is in a transaction: `seen` is what the  *)
(* first has read. An insert with a key that exists fails.                      *)
EXTENDS Naturals, Sequences

CONSTANTS
    Worker,         \* processes
    MaxCrash,       \* bound: crashes
    MaxOperator,    \* bound: resets and selections of an operator
    MaxRestart,     \* bound: restarts of the range
    None


Mode == {"vulnerable", "patched"}
Driver == {"live", "stages"}
Stage == {"EXECUTE", "VERIFY", "REMEDIATE", "RETEST"}
Happy == <<"INITIAL_EXECUTION_PENDING", "INITIAL_CONFIRMED", "REMEDIATION_RECOMMENDED",
           "PATCH_AUTHORIZED", "PATCH_APPLIED", "RETEST_QUEUED", "RETEST_RUNNING">>
Final == {"RETEST_PASS", "RETEST_FAIL"}
States == {Happy[i] : i \in 1 .. Len(Happy)} \cup Final \cup {"INCOMPLETE"}
Job == {"recon", "retest"}

(* A state of a range, as a driver may read it. *)
View == [mode : Mode, generation : Nat, sentinel : Seq(Nat)]

(* None is no state or verdict, no state of a range and no receipt. *)
ASSUME RemediationAssumption ==
    /\ {MaxCrash, MaxOperator, MaxRestart} \subseteq Nat
    /\ None \notin States \cup {"QUEUED", "CLAIMED", "CLOSED", "PASS", "CONFIRMED", "unused"}
    /\ None \notin View \cup [before : View, after : View]

VARIABLES
    driver,     \* which of the programs drives this loop
    ledger,     \* [state, finding, authorization, receipt, consumed, binding]
    job,        \* the queue: status of each job, or None
    done,       \* stages the assessment has recorded as DONE
    proc,       \* the processes, and what they have in memory
    range,      \* aegis-ops of each process: [mode, generation, sentinel]
    crashes, operator, restarts,
    probes,     \* history: evidence of the probes of each job
    patches,    \* history: times a driver has patched a range
    concluded   \* history: the verdicts the loop was ever concluded with

vars == <<driver, ledger, job, done, proc, range, crashes, operator, restarts,
          probes, patches, concluded>>
outside == <<crashes, operator, restarts>>

-----------------------------------------------------------------------------
(* The programs: what a driver calls, in order. A call that has the name of a   *)
(* state is a transition to it.                                               *)

Mutation == <<"read_before", "patch", "rotate", "read_after">>

\* Mutant: the state is moved before the row it stands for is there.
RemediateStateFirst ==
    <<"REMEDIATION_RECOMMENDED", "PATCH_AUTHORIZED", "authorize">>
    \o Mutation \o <<"receipt", "PATCH_APPLIED", "RETEST_QUEUED">>

Remediate ==
    <<"REMEDIATION_RECOMMENDED", "authorize", "PATCH_AUTHORIZED">>
    \o Mutation \o <<"receipt", "PATCH_APPLIED", "RETEST_QUEUED">>

Verify  == <<"finding", "INITIAL_CONFIRMED">>
Retest  == <<"consume", "bind", "RETEST_RUNNING">>
Handoff == <<"enqueue_recon", "claim_recon">>
Initial == <<"probe_recon", "judge_recon">>
Again   == <<"probe_retest", "judge_retest">>

Live ==
    <<"reset", "vulnerable", "open">> \o Handoff \o <<"model">> \o Initial \o <<"close_recon">>
    \o Verify \o <<"model">> \o Remediate \o <<"enqueue_retest", "claim_retest">>
    \o Retest \o <<"model">> \o Again \o <<"conclude", "close_retest">>

Program ==
    [live       |-> Live,
     EXECUTE    |-> Handoff \o <<"probe_recon", "record">>,
     VERIFY     |-> <<"judge_recon", "open">> \o Verify \o <<"record">>,
     REMEDIATE  |-> Remediate \o <<"record">>,
     RETEST     |-> Retest \o Again \o <<"conclude", "record">>,
     rejected   |-> <<"close_recon", "INCOMPLETE">>,
     failed     |-> <<"RETEST_FAIL">>,
     incomplete |-> <<"INCOMPLETE">>,
     cleanup    |-> <<"reset", "rotate">>]

Idle == [program |-> "idle", at |-> 0, seen |-> None, first |-> None, again |-> None,
         verdict |-> None, before |-> None, after |-> None]

(* ScenarioRuntime and the ops application; a stage's process makes its own. *)
Fresh == [mode |-> "patched", generation |-> 1, sentinel |-> <<1>>]
Created == [Fresh EXCEPT !.mode = "vulnerable", !.generation = 2]

Init ==
    /\ driver \in Driver
    /\ ledger = [state |-> None, finding |-> None, authorization |-> FALSE,
                 receipt |-> None, consumed |-> FALSE, binding |-> FALSE]
    /\ job = [j \in Job |-> None] /\ done = {}
    /\ proc = [w \in Worker |-> Idle]
    /\ range = [w \in Worker |-> IF driver = "live" THEN Fresh ELSE Created]
    /\ crashes = 0 /\ operator = 0 /\ restarts = 0
    /\ probes = [j \in Job |-> <<>>] /\ patches = 0 /\ concluded = {}

-----------------------------------------------------------------------------
(* How a program goes on.                                                     *)

Calls(w, call) == proc[w].program # "idle" /\ Program[proc[w].program][proc[w].at] = call
Jump(p, name)  == [p EXCEPT !.program = name, !.at = 1, !.seen = None]

(* An exception or the end: `finally` cleans up for the live driver, a stage just *)
(* ends and its process waits for the next.                                     *)
Over(p) == IF driver = "live" /\ p.program # "cleanup" THEN Jump(p, "cleanup")
           ELSE [p EXCEPT !.program = "idle", !.at = 0, !.seen = None]

Onward(p) ==
    IF p.at < Len(Program[p.program]) THEN [p EXCEPT !.at = @ + 1, !.seen = None] ELSE Over(p)

GoOn(w, p) == proc' = [proc EXCEPT ![w] = Onward(p)]
Raise(w)   == proc' = [proc EXCEPT ![w] = Over(@)]

(* A failure the live driver records in the ledger; in a stage it is raised. *)
Gives(w, name) == proc' = [proc EXCEPT ![w] = IF driver = "live" THEN Jump(@, name) ELSE Over(@)]

(* What is raised in apply_remediation the live driver turns into INCOMPLETE. *)
Reject(w) ==
    IF \E call \in {"receipt", "PATCH_APPLIED", "RETEST_QUEUED"} : Calls(w, call)
    THEN Gives(w, "incomplete") ELSE Raise(w)

-----------------------------------------------------------------------------
(* The ledger.                                                                *)

(* valid_transitions, of the transitions that are ever asked for. *)
Legal(from, to) ==
    \/ \E i \in 1 .. Len(Happy) - 1 : from = Happy[i] /\ to = Happy[i + 1]
    \/ from = "RETEST_RUNNING" /\ to \in Final
    \/ \E i \in 1 .. Len(Happy) : from = Happy[i] /\ to = "INCOMPLETE"

(* prove_causal_break. The stages compute the time of their evidence from the     *)
(* time of the patch.                                                          *)
CausalBreak(w) ==
    LET r == ledger.receipt IN
    /\ r # None /\ ledger.consumed /\ ~ledger.finding.late
    /\ proc[w].again.late \/ driver = "stages"
    /\ r.after.generation >= r.before.generation

(* conclude_retest *)
Conclusion(w) ==
    IF proc[w].verdict = "PASS" /\ CausalBreak(w) THEN "RETEST_PASS" ELSE "RETEST_FAIL"

Asks(w, to) == Calls(w, to) \/ (Calls(w, "conclude") /\ to = Conclusion(w))

Read(w, to) ==
    /\ Asks(w, to) /\ proc[w].seen = None
    /\ IF Legal(ledger.state, to) THEN proc' = [proc EXCEPT ![w].seen = ledger.state] ELSE Reject(w)
    /\ UNCHANGED <<driver, ledger, job, done, range, outside, probes, patches, concluded>>

Write(w, to) ==
    /\ Asks(w, to) /\ proc[w].seen # None
    /\ ledger' = [ledger EXCEPT !.state = to]
    /\ concluded' = IF to \in Final THEN concluded \cup {to} ELSE concluded
    /\ GoOn(w, proc[w])
    /\ UNCHANGED <<driver, job, done, range, outside, probes, patches>>

(* A method that is one insert, or a check and an insert nothing can come between. *)
Insert(w, call, guard, new) ==
    /\ Calls(w, call)
    /\ IF guard THEN ledger' = new /\ GoOn(w, proc[w]) ELSE Reject(w) /\ UNCHANGED ledger
    /\ UNCHANGED <<driver, job, done, range, outside, probes, patches, concluded>>

Open(w) == Insert(w, "open", ledger.state = None, [ledger EXCEPT !.state = Happy[1]])

PersistFinding(w) ==
    Insert(w, "finding", ledger.finding = None, [ledger EXCEPT !.finding = proc[w].first])

\* Mutant: an authorization replaces the one before.
AuthorizeAgain(w) ==
    Insert(w, "authorize", ledger.finding # None, [ledger EXCEPT !.authorization = TRUE])

Authorize(w) ==
    Insert(w, "authorize", ledger.finding # None /\ ~ledger.authorization,
           [ledger EXCEPT !.authorization = TRUE])

(* apply_remediation: the receipt of a patch that was seen to be one. *)
Changed(b, a) ==
    /\ b # None /\ a # None /\ b.mode = "vulnerable" /\ a.mode = "patched"
    /\ b.sentinel # a.sentinel

PersistReceipt(w) ==
    Insert(w, "receipt",
           Changed(proc[w].before, proc[w].after) /\ ledger.authorization /\ ledger.receipt = None,
           [ledger EXCEPT !.receipt = [before |-> proc[w].before, after |-> proc[w].after]])

(* consume_receipt: the update is of a row that is not consumed, and nobody looks *)
(* at how many rows there were.                                                *)
ConsumeRead(w) ==
    /\ Calls(w, "consume") /\ proc[w].seen = None
    /\ IF ledger.receipt # None /\ ~ledger.consumed
       THEN proc' = [proc EXCEPT ![w].seen = "unused"] ELSE Raise(w)
    /\ UNCHANGED <<driver, ledger, job, done, range, outside, probes, patches, concluded>>

ConsumeWrite(w) ==
    /\ Calls(w, "consume") /\ proc[w].seen # None
    /\ ledger' = [ledger EXCEPT !.consumed = TRUE] /\ GoOn(w, proc[w])
    /\ UNCHANGED <<driver, job, done, range, outside, probes, patches, concluded>>

\* Mutant: the binding is replaced.
BindAgain(w) == Insert(w, "bind", TRUE, [ledger EXCEPT !.binding = TRUE])

(* bind_retest_job: the id of the job is the key, and the stages' id is fixed. *)
Bind(w) == Insert(w, "bind", ~ledger.binding, [ledger EXCEPT !.binding = TRUE])

-----------------------------------------------------------------------------
(* The queue, and the model.                                                  *)

Queue(w, j, verb, from, to) ==
    /\ Calls(w, verb)
    /\ IF job[j] = from THEN job' = [job EXCEPT ![j] = to] /\ GoOn(w, proc[w])
       ELSE Raise(w) /\ UNCHANGED job
    /\ UNCHANGED <<driver, ledger, done, range, outside, probes, patches, concluded>>

QueueStep(w) ==
    \/ Queue(w, "recon", "enqueue_recon", None, "QUEUED")
    \/ Queue(w, "recon", "claim_recon", "QUEUED", "CLAIMED")
    \/ Queue(w, "recon", "close_recon", "CLAIMED", "CLOSED")
    \/ Queue(w, "retest", "enqueue_retest", None, "QUEUED")
    \/ Queue(w, "retest", "claim_retest", "QUEUED", "CLAIMED")
    \/ Queue(w, "retest", "close_retest", "CLAIMED", "CLOSED")

(* The steps of the model up to the next effect, and the broker on the plan: they *)
(* succeed, the budget stops the loop as it is, or they fail. Before the finding   *)
(* a failure stops the loop too, after it the ledger says so.                   *)
Model(w) ==
    /\ Calls(w, "model")
    /\ \/ GoOn(w, proc[w])
       \/ Raise(w)
       \/ ledger.state = "INITIAL_CONFIRMED" /\ Gives(w, "incomplete")
       \/ ledger.state = "RETEST_RUNNING" /\ Gives(w, "failed")
    /\ UNCHANGED <<driver, ledger, job, done, range, outside, probes, patches, concluded>>

-----------------------------------------------------------------------------
(* The range, the probe and the verifier.                                     *)

Generation(w) == range[w].generation + 1
ResetRange(w) == [mode |-> "patched", generation |-> Generation(w), sentinel |-> <<Generation(w)>>]
Selected(w, mode) == [range[w] EXCEPT !.mode = mode, !.generation = Generation(w)]
Rotated(w) == [range[w] EXCEPT !.sentinel = Append(@, range[w].generation)]

(* A call of the live driver before and after the loop: its result is recorded    *)
(* and never looked at.                                                        *)
Control(w, call, after) ==
    /\ Calls(w, call) /\ (call = "rotate" => proc[w].program = "cleanup")
    /\ range' \in {range, [range EXCEPT ![w] = after]} /\ GoOn(w, proc[w])
    /\ UNCHANGED <<driver, ledger, job, done, outside, probes, patches, concluded>>

(* apply_detection_control_remediation, apply_patch_mutation: four calls, each of  *)
(* which may fail, having taken effect or not. What then comes back is nothing     *)
(* for the live driver, and an exception in a stage.                            *)
NoResult(w) ==
    proc' = [proc EXCEPT ![w] =
               IF driver = "live"
               THEN [@ EXCEPT !.before = None,
                              !.at = CHOOSE i \in DOMAIN Live : Live[i] = "receipt"]
               ELSE Over(@)]

Look(w, call) ==
    /\ Calls(w, call)
    /\ \/ call = "read_before" /\ GoOn(w, [proc[w] EXCEPT !.before = range[w]])
       \/ call = "read_after" /\ GoOn(w, [proc[w] EXCEPT !.after = range[w]])
       \/ (call = "read_after" \/ driver = "live") /\ NoResult(w)
    /\ UNCHANGED <<driver, ledger, job, done, range, outside, probes, patches, concluded>>

Patch(w) ==
    /\ Calls(w, "patch")
    /\ \/ /\ range' = [range EXCEPT ![w] = Selected(w, "patched")] /\ patches' = patches + 1
          /\ GoOn(w, proc[w]) \/ NoResult(w)
       \/ NoResult(w) /\ UNCHANGED <<range, patches>>
    /\ UNCHANGED <<driver, ledger, job, done, outside, probes, concluded>>

(* The live controller takes any status of this one for an answer. *)
Rotate(w) ==
    /\ Calls(w, "rotate") /\ proc[w].program # "cleanup"
    /\ range' \in {range, [range EXCEPT ![w] = Rotated(w)]}
    /\ \/ GoOn(w, proc[w]) /\ (driver = "live" \/ range' # range)
       \/ NoResult(w)
    /\ UNCHANGED <<driver, ledger, job, done, outside, probes, patches, concluded>>

RangeStep(w) ==
    \/ Control(w, "reset", ResetRange(w)) \/ Control(w, "vulnerable", Selected(w, "vulnerable"))
    \/ Control(w, "rotate", Rotated(w))
    \/ Look(w, "read_before") \/ Patch(w) \/ Rotate(w) \/ Look(w, "read_after")

(* The command of the live driver that makes the call runs out of time, which is    *)
(* raised. One that has had its effect before is the next one that does.          *)
TimedOut(w) ==
    /\ driver = "live"
    /\ \E call \in {"reset", "vulnerable", "rotate", "probe_recon", "judge_recon", "read_before",
                    "patch", "read_after", "probe_retest", "judge_retest"} : Calls(w, call)
    /\ Raise(w)
    /\ UNCHANGED <<driver, ledger, job, done, range, outside, probes, patches, concluded>>

(* What the worker's two probes saw; `late` for a time after the patch. *)
Evidence(w) ==
    {[alternate |-> IF range[w].mode = "patched" THEN "denied" ELSE "reached",
      sentinel |-> range[w].sentinel, late |-> ledger.receipt # None],
     [alternate |-> "lost", sentinel |-> <<>>, late |-> ledger.receipt # None]}

Probe(w, j, call) ==
    /\ Calls(w, call)
    /\ \E e \in Evidence(w) :
          /\ probes' = [probes EXCEPT ![j] = Append(@, e)]
          /\ GoOn(w, IF j = "recon" THEN [proc[w] EXCEPT !.first = e] ELSE [proc[w] EXCEPT !.again = e])
    /\ UNCHANGED <<driver, ledger, job, done, range, outside, patches, concluded>>

\* Mutant: what did not get through was denied.
JudgedLoosely(w, e) ==
    IF e.alternate = "reached" /\ e.sentinel = range[w].sentinel THEN "CONFIRMED" ELSE "PASS"

(* _decide_detection_control_bypass, on the sentinel as it is now. *)
Judged(w, e) ==
    CASE e.alternate = "reached" /\ e.sentinel = range[w].sentinel -> "CONFIRMED"
      [] e.alternate = "denied" -> "PASS"
      [] OTHER -> "INCOMPLETE"

(* A process that has lost the evidence cannot have it judged, and the verifier    *)
(* may not answer the live driver.                                             *)
Confirms(w) == proc[w].first # None /\ Judged(w, proc[w].first) = "CONFIRMED"

JudgeRecon(w) ==
    /\ Calls(w, "judge_recon")
    /\ \/ Confirms(w) /\ GoOn(w, proc[w])
       \/ /\ driver = "live"
          /\ proc' = [proc EXCEPT ![w] = Jump(@, "rejected")]
       \/ driver = "stages" /\ ~Confirms(w) /\ Raise(w)
    /\ UNCHANGED <<driver, ledger, job, done, range, outside, probes, patches, concluded>>

JudgeRetest(w) ==
    /\ Calls(w, "judge_retest")
    /\ \E verdict \in {Judged(w, proc[w].again)} \cup (IF driver = "live" THEN {None} ELSE {}) :
          GoOn(w, [proc[w] EXCEPT !.verdict = verdict])
    /\ UNCHANGED <<driver, ledger, job, done, range, outside, probes, patches, concluded>>

-----------------------------------------------------------------------------
(* Who drives, and what happens around.                                       *)

(* On a range that has just come up. *)
StartLive(w) ==
    /\ driver = "live" /\ ledger.state = None
    /\ \A v \in Worker : proc[v] = Idle /\ range[v] = Fresh
    /\ proc' = [proc EXCEPT ![w] = Jump(@, "live")]
    /\ UNCHANGED <<driver, ledger, job, done, range, outside, probes, patches, concluded>>

(* A stage may be dispatched until the assessment has recorded it as DONE, when    *)
(* those before it are, and beside a process that runs one: nothing but care       *)
(* prevents it.                                                                *)
Order == <<"EXECUTE", "VERIFY", "REMEDIATE", "RETEST">>
Dispatch(w, i) ==
    /\ driver = "stages" /\ proc[w].program = "idle"
    /\ Order[i] \notin done /\ \A k \in 1 .. i - 1 : Order[k] \in done
    /\ proc' = [proc EXCEPT ![w] = Jump(@, Order[i])]
    /\ UNCHANGED <<driver, ledger, job, done, range, outside, probes, patches, concluded>>

Record(w) ==
    /\ Calls(w, "record") /\ done' = done \cup {proc[w].program} /\ Raise(w)
    /\ UNCHANGED <<driver, ledger, job, range, outside, probes, patches, concluded>>

(* A process dies; the one that comes after it makes a range of its own. *)
Crash(w) ==
    /\ crashes < MaxCrash /\ crashes' = crashes + 1 /\ proc[w] # Idle
    /\ proc' = [proc EXCEPT ![w] = Idle]
    /\ range' = IF driver = "live" THEN range ELSE [range EXCEPT ![w] = Created]
    /\ UNCHANGED <<driver, ledger, job, done, operator, restarts, probes, patches, concluded>>

Operate(w) ==
    /\ driver = "live" /\ proc[w] # Idle /\ operator < MaxOperator /\ operator' = operator + 1
    /\ \E after \in {ResetRange(w)} \cup {Selected(w, mode) : mode \in Mode} :
          range' = [range EXCEPT ![w] = after]
    /\ UNCHANGED <<driver, ledger, job, done, proc, crashes, restarts, probes, patches, concluded>>

RangeRestart(w) ==
    /\ driver = "live" /\ proc[w] # Idle /\ restarts < MaxRestart /\ restarts' = restarts + 1
    /\ range' = [range EXCEPT ![w] = Fresh]
    /\ UNCHANGED <<driver, ledger, job, done, proc, crashes, operator, probes, patches, concluded>>

Step(w) ==
    \/ \E to \in States : Read(w, to) \/ Write(w, to)
    \/ Open(w) \/ PersistFinding(w) \/ Authorize(w) \/ PersistReceipt(w)
    \/ ConsumeRead(w) \/ ConsumeWrite(w) \/ Bind(w)
    \/ Record(w) \/ QueueStep(w) \/ Model(w) \/ RangeStep(w) \/ TimedOut(w) \/ JudgeRecon(w) \/ JudgeRetest(w)
    \/ Probe(w, "recon", "probe_recon") \/ Probe(w, "retest", "probe_retest")

Next ==
    \E w \in Worker :
       \/ Step(w) \/ StartLive(w) \/ Crash(w) \/ Operate(w) \/ RangeRestart(w)
       \/ \E i \in 1 .. Len(Order) : Dispatch(w, i)

Spec == Init /\ [][Next]_vars

-----------------------------------------------------------------------------
Reached(s) == \E i \in 1 .. Len(Happy) : Happy[i] = s /\ \E k \in i .. Len(Happy) : ledger.state = Happy[k]

(* The rows a state stands for are there, whatever crashed or ran beside it: a      *)
(* finding from INITIAL_CONFIRMED on, an authorization from PATCH_AUTHORIZED on,   *)
(* a receipt from PATCH_APPLIED on, and a retest only on a receipt that is spent.  *)
(* The retest's job is closed only over a loop that is concluded.                *)
(* About the order of insert and transition in RemediationController.            *)
LedgerBacksState ==
    /\ Reached("INITIAL_CONFIRMED") => ledger.finding # None
    /\ Reached("PATCH_AUTHORIZED") => ledger.authorization
    /\ Reached("PATCH_APPLIED") => ledger.receipt # None
    /\ Reached("RETEST_RUNNING") \/ ledger.state \in Final => ledger.consumed /\ ledger.binding
    /\ job["retest"] = "CLOSED" => ledger.state \in Final

(* Nothing is done twice, however often a stage is dispatched again, after a crash  *)
(* or beside the process it replaces: one first probe, one patch, one retest of a   *)
(* receipt. About the keys of the job, the authorization and the binding, for       *)
(* neither `transition` nor `consume_receipt` is atomic.                         *)
EffectOnce ==
    Len(probes["recon"]) <= 1 /\ patches <= 1 /\ Len(probes["retest"]) <= 1

(* RETEST_PASS was earned: the finding was reached on a vulnerable range before     *)
(* the patch, the range was seen to change, and the one probe after that was       *)
(* denied. About conclude_retest and the verifier, with operators at work.        *)
PassIsEarned ==
    ledger.state = "RETEST_PASS" =>
        /\ ledger.finding.alternate = "reached" /\ ~ledger.finding.late
        /\ Changed(ledger.receipt.before, ledger.receipt.after)
        /\ Len(probes["retest"]) = 1
        /\ probes["retest"][1].alternate = "denied" /\ probes["retest"][1].late

(* A loop is concluded once: it never gets the other verdict too, though a process *)
(* that has read an earlier state writes its transition over a conclusion. About   *)
(* the keys again, and about the unconditional update of `transition`.          *)
OneVerdict == \A one, other \in concluded : one = other

=============================================================================
