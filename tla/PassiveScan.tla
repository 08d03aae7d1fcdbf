---------------------------- MODULE PassiveScan ----------------------------
(***************************************************************************)
(* The operator's capability scans: the two engine flows of the scan       *)
(* service (aegis/service.py), the adapters they call (aegis/engine/zap.py *)
(* and nuclei.py), the two runners (zap_runner, nuclei_runner), and the    *)
(* scope guard in passive mode, which is ZAP's only way to the target      *)
(* (zap_guard/guard.py).  Active mode is in ActiveScan.                    *)
(*                                                                         *)
(* A scan's task is one coroutine: what it does between two awaits is one  *)
(* step.  A run on a runner is one thread under the executor's lock; what  *)
(* it does between two calls of the guard, or two looks at its process, is *)
(* one step.  An execution has the name of its scan: a scan has one.       *)
(*                                                                         *)
(* Digests, pins and versions are either as pinned or not.  What an engine *)
(* writes is any of what the parsers tell apart, with one assumption: what *)
(* ZAP says it imported is what it was answered.  Every await of the task  *)
(* and every look at a process has a deadline, and an arming of the guard  *)
(* one that is later than its run's.                                       *)
(***************************************************************************)
EXTENDS Integers, FiniteSets

CONSTANTS
  Scans,      \* bound: how many scans
  Offer,      \* what each may be: <<engine, target, request_budget>>
  MaxAsk,     \* bound: requests one ZAP process makes
  MaxOpen,    \* bound: requests of one ZAP process on their way at a time
  MaxFault    \* bound: lost calls, restarts, drifts and runner faults

Scan == 1..Scans  \* in the order they are created
Free == 0         \* nobody
Engine == {"zap", "nuclei"}

\* The inventories: two targets that are verified and, for ZAP, a runtime negative
\* control ("unsteady": redirects, cuts or is slow) and one that project() refuses.
Acceptance == {"vulnerable", "patched"}
Inventory == ({"zap"} \X (Acceptance \cup {"unsteady", "writing"})) \cup ({"nuclei"} \X Acceptance)

\* What project() makes of a target; nothing where it raises.
Projected(t) == CASE t \in Acceptance -> {<<t, "control">>, <<t, "scenario">>}
                  [] t = "unsteady"   -> {<<t, "control">>}
                  [] OTHER            -> {}

Operation == UNION {Projected(t) : t \in Acceptance \cup {"unsteady"}}
Elsewhere == <<"elsewhere", "control">>  \* a path or an origin no scan has

\* The probes of the independent verifier, zap_verifier or scm_verifier.
ZapProbes(t)    == IF t \in Acceptance THEN {"control", "probe"} ELSE {}
NucleiProbes(t) == {"control", "probe"}
Probes(e, t)    == IF e = "zap" THEN ZapProbes(t) ELSE NucleiProbes(t)

ASSUME PassiveScanAssumption ==
  /\ {Scans, MaxAsk, MaxOpen, MaxFault} \subseteq Nat
  /\ \A s \in Scan : \A o \in Offer[s] : <<o[1], o[2]>> \in Inventory /\ o[3] \in Nat \ {0}

VARIABLES
  scan,     \* ScanResult, and the task that runs it
  calls,    \* POST /v1/run on its way to the runner
  answer,   \* the runner's response on its way back
  runner,   \* per engine: RunnerState, and the thread that holds Executor._lock
  drifted,  \* engines whose files are no longer as pinned
  process,  \* the engine process of a scan's execution
  guard,    \* GuardState
  wire,     \* requests of ZAP the guard has not read yet
  upstream, \* requests the guard has forwarded and awaits
  late,     \* control calls the guard has not read yet and nobody waits for
  faults

network == <<wire, upstream, late>>
vars == <<scan, calls, answer, runner, drifted, process, guard, network, faults>>

-----------------------------------------------------------------------------

\* GuardState._reset.  `from` is a history variable: whose requests were forwarded.
Disarmed == [armed |-> FALSE, token |-> Free, allow |-> {}, forwarded |-> 0,
             count |-> [o \in Operation |-> 0], blocked |-> FALSE,
             unsteady |-> FALSE, from |-> {}]

Idle(ready) == [ready |-> ready, job |-> Free, at |-> "idle", exit |-> "none"]

\* `clean`: it ended by itself, with 0, and its output says so.
NoProcess == [alive |-> FALSE, asked |-> 0, got |-> {}, clean |-> FALSE]

\* What a runner answers; `traffic` is the guard's record in it.
Response(status, found, complete, traffic) ==
  [status |-> status, found |-> found, complete |-> complete, traffic |-> traffic]

NoAnswer == Response("NONE", {}, FALSE, Disarmed)
Rejected == Response("REJECTED", {}, FALSE, Disarmed)
Failed   == Response("FAILED", {}, FALSE, Disarmed)

NoScan == [at |-> "none", engine |-> "zap", target |-> "patched", left |-> 0, status |-> "NONE",
           again |-> FALSE, response |-> NoAnswer, verdict |-> "NONE"]

Init ==
  /\ scan = [s \in Scan |-> NoScan] /\ calls = {} /\ answer = [s \in Scan |-> NoAnswer]
  /\ runner = [e \in Engine |-> Idle(TRUE)] /\ drifted = {}
  /\ process = [s \in Scan |-> NoProcess]
  /\ guard = Disarmed /\ wire = {} /\ upstream = {} /\ late = {} /\ faults = 0

Fault == faults < MaxFault /\ faults' = faults + 1

-----------------------------------------------------------------------------
(* Creation, and the first step of the task                                *)

Created(s, engine) ==
  \E o \in Offer[s] :
    /\ o[1] = engine
    /\ scan' = [scan EXCEPT ![s] = [NoScan EXCEPT !.at = "queued", !.status = "QUEUED",
                                    !.engine = engine, !.target = o[2], !.left = o[3]]]

CreateZap(s)    == Created(s, "zap")
CreateNuclei(s) == Created(s, "nuclei")

Create(s) ==
  /\ scan[s].at = "none" /\ \A p \in 1..(s - 1) : scan[p].at # "none"
  /\ CreateZap(s) \/ CreateNuclei(s)
  /\ UNCHANGED <<calls, answer, runner, drifted, process, guard, network, faults>>

\* The budget build_zap_job and build_nuclei_job ask for: one request per operation, one
\* per request of the template set.
ZapRequests(s)    == Cardinality(Projected(scan[s].target))
NucleiRequests(s) == 1
Requests(s)       == IF scan[s].engine = "zap" THEN ZapRequests(s) ELSE NucleiRequests(s)

ZapJob(s)    == Projected(scan[s].target) # {} /\ ZapRequests(s) <= scan[s].left
NucleiJob(s) == NucleiRequests(s) <= scan[s].left
Job(s)       == IF scan[s].engine = "zap" THEN ZapJob(s) ELSE NucleiJob(s)

\* _run_zap_scan and _run_nuclei_scan: nothing is contacted before there is a job.
Start(s) ==
  /\ scan[s].at = "queued"
  /\ scan' = IF Job(s) THEN [scan EXCEPT ![s].at = "attest", ![s].status = "RUNNING"]
                       ELSE [scan EXCEPT ![s].at = "done", ![s].status = "REVIEW", ![s].left = 0]
  /\ UNCHANGED <<calls, answer, runner, drifted, process, guard, network, faults>>

\* The budget is the flow's own.
Ends(s, status) == scan' = [scan EXCEPT ![s].at = "done", ![s].status = status, ![s].left = 0]

-----------------------------------------------------------------------------
(* Attestation, and the request                                            *)

\* attestation_problem.  The runner tells what it found at its last verification: a
\* drift since then is not in it.
ZapProblem    == ~runner["zap"].ready
NucleiProblem == ~runner["nuclei"].ready
Problem(s) == IF scan[s].engine = "zap" THEN ZapProblem ELSE NucleiProblem

\* ScanBudget.request, once for each request the job may make; then the adapter asks.
Send(s) ==
  /\ scan' = [scan EXCEPT ![s].at = "sent", ![s].left = @ - Requests(s)]
  /\ calls' = calls \cup {s}

\* run() of the adapter attests by itself when the flow has no attestation to give it.
\* The flow has gone past its reservation by then.
SendAfterAll(s) ==
  /\ scan' = [scan EXCEPT ![s].at = "sent", ![s].again = TRUE]
  /\ calls' = calls \cup {s}

Attested(s) ==
  /\ scan[s].at \in {"attest", "again"}
  /\ \/ Problem(s) /\ Ends(s, "INCOMPLETE") /\ UNCHANGED calls
     \/ ~Problem(s) /\ scan[s].at = "attest" /\ Send(s)
     \/ ~Problem(s) /\ scan[s].at = "again" /\ SendAfterAll(s)
  /\ UNCHANGED <<answer, runner, drifted, process, guard, network, faults>>

\* No attestation, or one without the guard.
AttestLost(s) ==
  /\ Fault
  /\ \/ scan[s].at = "attest" /\ scan' = [scan EXCEPT ![s].at = "again"]
     \/ scan[s].at = "again" /\ Ends(s, "INCOMPLETE")
     \/ scan[s].at \in {"attest", "again"} /\ scan[s].engine = "zap" /\ Ends(s, "INCOMPLETE")
  /\ UNCHANGED <<calls, answer, runner, drifted, process, guard, network>>

\* The adapter's time-out, the flow's, or a cancellation: the scan ends, the runner goes on.
GiveUp(s) ==
  /\ scan[s].at \in {"attest", "again", "sent", "verify"}
  /\ Ends(s, "INCOMPLETE")
  /\ answer' = [answer EXCEPT ![s] = NoAnswer]
  /\ UNCHANGED <<calls, runner, drifted, process, guard, network, faults>>

-----------------------------------------------------------------------------
(* The runner: Executor.run                                                *)

Reply(s, response) ==
  answer' = IF scan[s].at = "sent" THEN [answer EXCEPT ![s] = response] ELSE answer

At(s, phase) == runner[scan[s].engine].job = s /\ runner[scan[s].engine].at = phase
Holds(s, phase) == runner' = [runner EXCEPT ![scan[s].engine].job = s,
                                            ![scan[s].engine].at = phase]

\* The end of run(): the answer is given and the lock released.  A process that still runs
\* goes on.
Finish(s, response) ==
  /\ Reply(s, response)
  /\ process' = [process EXCEPT ![s] = IF @.alive THEN @ ELSE NoProcess]
  /\ runner' = [runner EXCEPT ![scan[s].engine] = Idle(@.ready)]

\* _policy and _policy_error, the lock that is not waited for, and the files again.
ZapPolicy    == runner["zap"].ready
NucleiPolicy == runner["nuclei"].ready
Policy(e)    == IF e = "zap" THEN ZapPolicy ELSE NucleiPolicy

Refuse(s) ==
  LET e == scan[s].engine IN
  /\ s \in calls /\ calls' = calls \ {s}
  /\ ~Policy(e) \/ runner[e].job # Free \/ e \in drifted
  /\ Reply(s, Rejected)
  /\ runner' = IF Policy(e) /\ runner[e].job = Free
               THEN [runner EXCEPT ![e].ready = FALSE] ELSE runner
  /\ UNCHANGED <<scan, drifted, process, guard, network, faults>>

Accepted(s) ==
  LET e == scan[s].engine IN
  /\ s \in calls /\ calls' = calls \ {s}
  /\ Policy(e) /\ runner[e].job = Free /\ e \notin drifted

Spawn(s) == process' = [process EXCEPT ![s] = [NoProcess EXCEPT !.alive = TRUE]]

\* Workspace and plan are written and read back; then the guard is asked.
PrepareZap(s) ==
  /\ Accepted(s) /\ scan[s].engine = "zap"
  /\ Holds(s, "arming")
  /\ UNCHANGED <<scan, answer, drifted, process, guard, network, faults>>

\* A fault of the workspace, a plan that does not validate, a spawn that fails.
PrepareFails(s) ==
  /\ Accepted(s) /\ Fault
  /\ Reply(s, Failed)
  /\ UNCHANGED <<scan, runner, drifted, process, guard, network>>

StartNuclei(s) ==
  /\ Accepted(s) /\ scan[s].engine = "nuclei"
  /\ Holds(s, "run") /\ Spawn(s)
  /\ UNCHANGED <<scan, answer, drifted, guard, network, faults>>

-----------------------------------------------------------------------------
(* The guard, armed and disarmed                                           *)

\* GuardState.arm, for the operations of one execution.
Armed(s) == [Disarmed EXCEPT !.armed = TRUE, !.token = s, !.allow = Projected(scan[s].target)]

\* 409: the guard is armed for an execution that nobody may end any more.
ArmRefused(s) ==
  /\ At(s, "arming") /\ guard.armed
  /\ Finish(s, Failed)
  /\ UNCHANGED <<scan, calls, drifted, guard, network, faults>>

ArmAndSpawn(s) ==
  /\ At(s, "arming") /\ ~guard.armed
  /\ guard' = Armed(s)
  /\ \/ Holds(s, "run") /\ Spawn(s) /\ UNCHANGED faults
     \/ Fault /\ Holds(s, "net") /\ UNCHANGED process
  /\ UNCHANGED <<scan, calls, answer, drifted, network>>

\* GuardClient._call gives up: whether the guard has armed, or will, it cannot know.
ArmLost(s) ==
  /\ At(s, "arming") /\ Fault
  /\ late' = late \cup {<<"arm", s>>}
  /\ Finish(s, Failed)
  /\ UNCHANGED <<scan, calls, drifted, guard, wire, upstream>>

\* GuardState.counters with disarm: the token decides, armed or expired.
Disarm(s) == guard' = IF guard.token = s THEN Disarmed ELSE guard

ReadLate(c) ==
  /\ c \in late /\ late' = late \ {c}
  /\ CASE c[1] = "arm" -> guard' = IF guard.armed THEN guard ELSE Armed(c[2])
       [] OTHER -> Disarm(c[2])
  /\ UNCHANGED <<scan, calls, answer, runner, drifted, process, wire, upstream, faults>>

\* is_armed: past its deadline, which is later than that of the run it is for.  The
\* token and what was counted under it stay until the next arming.
Expire ==
  /\ guard.armed /\ runner["zap"].job # guard.token
  /\ guard' = [guard EXCEPT !.armed = FALSE]
  /\ UNCHANGED <<scan, calls, answer, runner, drifted, process, network, faults>>

-----------------------------------------------------------------------------
(* ZAP, and the guard as its proxy                                         *)

\* A ZAP process asks for what its plan has, again, or for anything else.
Ask(s, o) ==
  /\ process[s].alive /\ scan[s].engine = "zap" /\ process[s].asked < MaxAsk
  /\ o \in Projected(scan[s].target) \cup {Elsewhere} /\ <<s, o>> \notin wire
  /\ Cardinality({q \in wire \cup upstream : q[1] = s}) < MaxOpen
  /\ process' = [process EXCEPT ![s].asked = @ + 1]
  /\ wire' = wire \cup {<<s, o>>}
  /\ UNCHANGED <<scan, calls, answer, runner, drifted, guard, upstream, late, faults>>

Block == guard' = [guard EXCEPT !.blocked = TRUE]

Forward(q) ==
  /\ guard' = [guard EXCEPT !.forwarded = @ + 1, !.count[q[2]] = @ + 1, !.from = @ \cup {q[1]}]
  /\ upstream' = upstream \cup {q}

Allowed(q) == q[2] \in guard.allow /\ guard.forwarded < Cardinality(guard.allow)

\* admit: under the lock, for whoever is armed when the request is read.  Its sender may
\* have been killed since.
Admit(q) ==
  /\ q \in wire /\ wire' = wire \ {q}
  /\ \/ ~guard.armed /\ UNCHANGED <<guard, upstream>>
     \/ guard.armed /\ ~Allowed(q) /\ Block /\ UNCHANGED upstream
     \/ guard.armed /\ Allowed(q) /\ Forward(q)
  /\ UNCHANGED <<scan, calls, answer, runner, drifted, process, late, faults>>

Gets(q) == process' = IF process[q[1]].alive
                      THEN [process EXCEPT ![q[1]].got = @ \cup {q[2]}] ELSE process

\* record_response and record_failure: under the arming of now, not the one that admitted.
Counted == guard' = IF guard.token # Free THEN [guard EXCEPT !.unsteady = TRUE] ELSE guard

Relay(q) ==
  /\ q \in upstream /\ upstream' = upstream \ {q}
  /\ \/ Gets(q) /\ q[2][1] \in Acceptance /\ UNCHANGED guard
     \/ Gets(q) /\ q[2][1] = "unsteady" /\ Counted
     \/ UNCHANGED process /\ Counted
  /\ UNCHANGED <<scan, calls, answer, runner, drifted, wire, late, faults>>

\* An engine process ends by itself.
EngineEnds(s) ==
  /\ process[s].alive
  /\ \/ process' = [process EXCEPT ![s].alive = FALSE, ![s].asked = 0, ![s].clean = TRUE]
     \/ process' = [process EXCEPT ![s] = NoProcess]
  /\ UNCHANGED <<scan, calls, answer, runner, drifted, guard, network, faults>>

-----------------------------------------------------------------------------
(* The runner watches its process                                          *)

Kill(s) == process' = [process EXCEPT ![s] = NoProcess]

Leaves(s, exit) == runner' = [runner EXCEPT ![scan[s].engine].at = "disarm",
                                            ![scan[s].engine].exit = exit]

ZapExited(s) ==
  /\ At(s, "run") /\ scan[s].engine = "zap" /\ ~process[s].alive
  /\ Leaves(s, IF process[s].clean THEN "clean" ELSE "other")
  /\ UNCHANGED <<scan, calls, answer, drifted, process, guard, network, faults>>

\* The deadline, output past its bound, or a blocked request in the guard's counters.
ZapStopped(s) ==
  /\ At(s, "run") /\ scan[s].engine = "zap"
  /\ Kill(s) /\ Leaves(s, "other")
  /\ UNCHANGED <<scan, calls, answer, drifted, guard, network, faults>>

\* An exception while it polls: the answer is SPAWN_FAILED, and nobody kills the process.
WatchFails(s) ==
  /\ At(s, "run") /\ scan[s].engine = "zap" /\ Fault
  /\ Holds(s, "net")
  /\ UNCHANGED <<scan, calls, answer, drifted, process, guard, network>>

-----------------------------------------------------------------------------
(* The end of a run                                                        *)

\* Mutant: ZAP's own word on what it imported is not asked for.
ClassifyByTraffic(s, exit, traffic) ==
  LET ops == Projected(scan[s].target) IN
  /\ exit = "clean"
  /\ ~traffic.blocked /\ ~traffic.unsteady
  /\ traffic.forwarded = Cardinality(ops) /\ \A o \in ops : traffic.count[o] = 1

\* classify: complete, by ZAP's facts and by the guard's.
Classify(s, exit, traffic) ==
  LET ops == Projected(scan[s].target) IN
  /\ exit = "clean"
  /\ ~traffic.blocked /\ ~traffic.unsteady
  /\ process[s].got = ops
  /\ traffic.forwarded = Cardinality(ops) /\ \A o \in ops : traffic.count[o] = 1

Malformed == {"malformed"}

\* parse_report: fails, or alerts on the operations of the projection.
Parsed(s) == {Malformed} \cup SUBSET {o[2] : o \in Projected(scan[s].target)}

ZapAnswer(s, exit, found) ==
  IF Classify(s, exit, guard) /\ found # Malformed
  THEN Response("COMPLETED", found, TRUE, guard) ELSE Failed

\* Disarm, classify, parse, answer.  Without the guard's record there is no answer to trust;
\* the second disarm, in `finally`, then changes nothing either.
DisarmAndAnswer(s) ==
  /\ At(s, "disarm")
  /\ Disarm(s)
  /\ IF guard.token = s
     THEN \E found \in Parsed(s) : Finish(s, ZapAnswer(s, runner["zap"].exit, found))
     ELSE Finish(s, Failed)
  /\ UNCHANGED <<scan, calls, drifted, network, faults>>

DisarmLost(s) ==
  /\ At(s, "disarm") /\ Fault
  /\ late' = late \cup {<<"disarm", s>>}
  /\ Holds(s, "net")
  /\ UNCHANGED <<scan, calls, answer, drifted, process, guard, wire, upstream>>

\* The disarm in `finally`.
SafetyNet(s) ==
  /\ At(s, "net")
  /\ \/ Disarm(s) /\ UNCHANGED <<late, faults>>
     \/ Fault /\ late' = late \cup {<<"disarm", s>>} /\ UNCHANGED guard
  /\ Finish(s, Failed)
  /\ UNCHANGED <<scan, calls, drifted, wire, upstream>>

\* One line of output for the one admitted template, or one that is not as pinned.
Line == [matched : BOOLEAN, error : BOOLEAN]

\* parse_jsonl: equal lines collapse, different ones contradict each other.
NucleiParse(lines) ==
  IF \E l \in Line : lines = {l} /\ ~(l.matched /\ l.error)
  THEN LET l == CHOOSE l \in lines : TRUE IN
       Response("COMPLETED", IF l.matched THEN {"scenario"} ELSE {}, ~l.error, Disarmed)
  ELSE Failed

NucleiExited(s) ==
  /\ At(s, "run") /\ scan[s].engine = "nuclei" /\ ~process[s].alive
  /\ \E lines \in SUBSET Line :
       Finish(s, IF process[s].clean THEN NucleiParse(lines) ELSE Failed)
  /\ UNCHANGED <<scan, calls, drifted, guard, network, faults>>

NucleiTimeout(s) ==
  /\ At(s, "run") /\ scan[s].engine = "nuclei"
  /\ Kill(s) /\ Reply(s, Failed) /\ runner' = [runner EXCEPT !["nuclei"] = Idle(@.ready)]
  /\ UNCHANGED <<scan, calls, drifted, guard, network, faults>>

-----------------------------------------------------------------------------
(* The flow after the run                                                  *)

\* validate_response and what run() makes of it: is this a complete execution?
ZapValid(s, r) ==
  /\ r.status = "COMPLETED" /\ r.complete
  /\ r.traffic.forwarded = ZapRequests(s) /\ ~r.traffic.blocked
  /\ {o \in Operation : r.traffic.count[o] > 0} \subseteq Projected(scan[s].target)
NucleiValid(s, r) == r.status = "COMPLETED" /\ r.complete
Valid(s, r) == IF scan[s].engine = "zap" THEN ZapValid(s, r) ELSE NucleiValid(s, r)

\* The answer is recorded; a target without probes, or a budget without room for them,
\* ends the scan.
Answered(s) ==
  LET n == Cardinality(Probes(scan[s].engine, scan[s].target)) IN
  /\ scan[s].at = "sent" /\ answer[s] # NoAnswer
  /\ IF Valid(s, answer[s]) /\ ~scan[s].again /\ n > 0 /\ n <= scan[s].left
     THEN scan' = [scan EXCEPT ![s].at = "verify", ![s].left = @ - n, ![s].response = answer[s]]
     ELSE Ends(s, "INCOMPLETE")
  /\ answer' = [answer EXCEPT ![s] = NoAnswer]
  /\ UNCHANGED <<calls, runner, drifted, process, guard, network, faults>>

\* collect and evaluate: fresh requests of the controller's own, each answered or not.  The
\* verifier reads what came back, never a name: for ZAP the nosniff header of the probe.  That
\* the vulnerable target, and no other, answers as it confirms is assumed of the lab.
ZapVerdict(t, heard) ==
  IF heard # ZapProbes(t) THEN "INSUFFICIENT" ELSE IF t = "vulnerable" THEN "CONFIRMED" ELSE "PASS"
NucleiVerdict(t, heard) ==
  IF heard # NucleiProbes(t) THEN "INSUFFICIENT"
  ELSE IF t = "vulnerable" THEN "CONFIRMED" ELSE "PASS"
Verdict(e, t, heard) == IF e = "zap" THEN ZapVerdict(t, heard) ELSE NucleiVerdict(t, heard)

\* Correlated alerts: those on the path the scenario is about.
InScope(r) == r.found \cap {"scenario"}

\* The terminal decision.  No report of an engine is a verdict, nor is its silence.
Silent(r, verdict) ==
  CASE verdict = "PASS" /\ r.complete -> "PASS"
    [] verdict = "CONFIRMED" -> "REVIEW"  \* the engine missed what the verifier saw
    [] OTHER -> "INCOMPLETE"

\* Mutant: an alert that is not the scenario's is dropped rather than reviewed.
ZapDecisionInScope(r, verdict) ==
  IF InScope(r) = {} THEN Silent(r, verdict)
  ELSE IF verdict = "CONFIRMED" THEN "FAIL" ELSE "REVIEW"

ZapDecision(r, verdict) ==
  IF r.found = {} THEN Silent(r, verdict)
  ELSE IF InScope(r) = r.found /\ verdict = "CONFIRMED" THEN "FAIL" ELSE "REVIEW"

NucleiDecision(r, verdict) ==
  IF r.found = {} THEN Silent(r, verdict)
  ELSE IF verdict = "CONFIRMED" THEN "FAIL" ELSE "REVIEW"

Decision(e, r, verdict) == IF e = "zap" THEN ZapDecision(r, verdict) ELSE NucleiDecision(r, verdict)

Verified(s) ==
  LET e == scan[s].engine t == scan[s].target IN
  /\ scan[s].at = "verify"
  /\ \E heard \in SUBSET Probes(e, t) :
       scan' = [scan EXCEPT ![s].at = "done", ![s].left = 0, ![s].verdict = Verdict(e, t, heard),
                            ![s].status = Decision(e, scan[s].response, Verdict(e, t, heard))]
  /\ UNCHANGED <<calls, answer, runner, drifted, process, guard, network, faults>>

-----------------------------------------------------------------------------
(* What happens to a container                                             *)

\* Nobody looks at the files while a run holds the lock.
Drift(e) ==
  /\ Fault /\ runner[e].job = Free /\ e \notin drifted /\ drifted' = drifted \cup {e}
  /\ UNCHANGED <<scan, calls, answer, runner, process, guard, network>>

\* attest at boot: the files, what the engine itself lists, and (ZAP) the guard.
ZapAttests    == {"zap" \notin drifted, FALSE}
NucleiAttests == {"nuclei" \notin drifted}
Attests(e)    == IF e = "zap" THEN ZapAttests ELSE NucleiAttests

\* The runner's container: its processes end with it, what it asked the guard does not.
RestartRunner(e) ==
  /\ Fault
  /\ \E ready \in Attests(e) : runner' = [runner EXCEPT ![e] = Idle(ready)]
  /\ process' = [s \in Scan |-> IF scan[s].engine = e THEN NoProcess ELSE process[s]]
  /\ calls' = {s \in calls : scan[s].engine # e}
  /\ UNCHANGED <<scan, answer, drifted, guard, network>>

RestartGuard ==
  /\ Fault
  /\ guard' = Disarmed /\ wire' = {} /\ upstream' = {} /\ late' = {}
  /\ UNCHANGED <<scan, calls, answer, runner, drifted, process>>

-----------------------------------------------------------------------------

Next ==
  \/ \E s \in Scan :
       \/ Create(s) \/ Start(s) \/ Attested(s) \/ AttestLost(s) \/ GiveUp(s)
       \/ Refuse(s) \/ PrepareZap(s) \/ PrepareFails(s) \/ StartNuclei(s)
       \/ ArmRefused(s) \/ ArmAndSpawn(s) \/ ArmLost(s)
       \/ \E o \in Operation \cup {Elsewhere} : Ask(s, o)
       \/ EngineEnds(s) \/ ZapExited(s) \/ ZapStopped(s) \/ WatchFails(s)
       \/ DisarmAndAnswer(s) \/ DisarmLost(s) \/ SafetyNet(s)
       \/ NucleiExited(s) \/ NucleiTimeout(s) \/ Answered(s) \/ Verified(s)
  \/ \E c \in late : ReadLate(c)
  \/ \E q \in wire : Admit(q)
  \/ \E q \in upstream : Relay(q)
  \/ \E e \in Engine : Drift(e) \/ RestartRunner(e)
  \/ Expire \/ RestartGuard

Spec == Init /\ [][Next]_vars

-----------------------------------------------------------------------------
(* Properties                                                              *)

\* A verdict needs both: what the engine covered and what the controller saw for itself.
\* PASS is given only to the patched target, after an execution that covered all of it
\* and reported nothing, on the control path included; FAIL only to the vulnerable one,
\* for what that execution reported (_zap_flow, _nuclei_flow).  Which target it was follows
\* from the verifier's verdict by what is assumed of the lab (ZapVerdict, NucleiVerdict).
VerdictEarned ==
  \A s \in Scan :
    LET r == scan[s].response IN
    /\ scan[s].status = "PASS" =>
         scan[s].target = "patched" /\ scan[s].verdict = "PASS" /\ r.complete /\ r.found = {}
    /\ scan[s].status = "FAIL" =>
         /\ scan[s].target = "vulnerable" /\ scan[s].verdict = "CONFIRMED"
         /\ r.complete /\ r.found = {"scenario"}

\* The traffic of a completed ZAP execution is its own: a process left from an earlier run,
\* or a request it had on the way, cannot stand in for one of its operations, nor be counted
\* beside them (classify).
TrafficIsOwn ==
  \A s \in Scan : answer[s].status = "COMPLETED" /\ scan[s].engine = "zap" =>
    answer[s].traffic.token = s /\ answer[s].traffic.from = {s}

=============================================================================
