------------------------------ MODULE AgentRun ------------------------------
(* One evaluation run of the agents on the synthetic range, and what may come   *)
(* in its way: a cancellation, an interrupt, a budget that runs out, another    *)
(* run or an operator on the same range, a range that fails or restarts.        *)
(*                                                                            *)
(* aegis/multi_agent/runtime.py   MultiAgentRuntime: execute, cancel            *)
(* aegis/multi_agent/budget.py    AtomicBudget                                  *)
(* aegis/multi_agent/broker.py    ControlledToolBroker                          *)
(* aegis/multi_agent/store.py     MultiAgentStore.save                          *)
(* aegis_range/controller.py, runtime.py   RangeController, ScenarioRuntime      *)
(*                                                                            *)
(* All runs share one event loop; an action is a stretch between two awaits     *)
(* that suspend. A charge never suspends: nobody else holds a run's budget.     *)
EXTENDS Naturals, Sequences

CONSTANTS
    Run,            \* run ids
    Limits,         \* what a run may be given: [calls, requests, agent], agent for each agent's calls
    MaxOperator,    \* bound: selections and resets the operator makes on the range
    MaxRestart,     \* bound: restarts of the range
    Faults,         \* subset of {"http", "model", "budget", "interrupt"}
    None

Path == {"multi", "single"}
Mode == {"vulnerable", "patched"}
Agent == {"lead", "surface", "auth"}
Terminal == {"COMPLETED", "FAILED", "CANCELLED"}

ASSUME AgentRunAssumption ==
    /\ Limits \subseteq [calls : Nat, requests : Nat, agent : Nat] /\ Limits # {}
    /\ MaxOperator \in Nat /\ MaxRestart \in Nat
    /\ Faults \subseteq {"http", "model", "budget", "interrupt"}
    /\ None \notin Run

VARIABLES
    run,        \* AgentRun, its execution and its budget, in memory
    rows,       \* table agent_runs: run -> the evaluation saved, or None
    range,      \* ScenarioRuntime of aegis-bank: [mode, generation, by], by who changed it last
    operator,   \* operations the operator has made on the range
    restarts,   \* restarts of the range
    reached,    \* history: requests of a run that have reached a target
    dirty       \* history: runs whose selection no reset has undone

vars == <<run, rows, range, operator, restarts, reached, dirty>>

(* The agent and the kind of each step. `last` ends the agent's task.          *)
Step(agent, kind, last) == [agent |-> agent, kind |-> kind, last |-> last]
Steps ==
    [multi  |-> << Step("lead", "model", TRUE), Step("surface", "surface", FALSE),
                   Step("surface", "model", TRUE), Step("lead", "model", TRUE),
                   Step("auth", "model", FALSE), Step("auth", "compare", TRUE) >>,
     single |-> << Step("auth", "surface", FALSE), Step("auth", "model", FALSE),
                   Step("auth", "compare", TRUE) >>]

NoRun == [pc |-> "none", path |-> None, mode |-> None, step |-> 0, limit |-> None,
          state |-> "QUEUED", stop |-> FALSE, verdict |-> None, cleanup |-> FALSE,
          before |-> 0, after |-> 0, task |-> None,
          calls |-> [a \in Agent |-> 0], requests |-> 0,
          own |-> FALSE, interrupted |-> FALSE]

Init ==
    /\ run = [r \in Run |-> NoRun] /\ rows = [r \in Run |-> None]
    /\ range = [mode |-> "patched", generation |-> 1, by |-> None]
    /\ operator = 0 /\ restarts = 0
    /\ reached = [r \in Run |-> 0] /\ dirty = {}

-----------------------------------------------------------------------------
(* What a stretch makes of the run x. Each operator is a function of x, as the  *)
(* code between two awaits is.                                                *)

Calls(x) == x.calls["lead"] + x.calls["surface"] + x.calls["auth"]

(* consume: both ledgers are looked at before either is charged. *)
MayCall(x, a)    == Calls(x) < x.limit.calls /\ x.calls[a] < x.limit.agent
MayRequest(x, n) == x.requests + n <= x.limit.requests
Charged(x, n)    == [x EXCEPT !.requests = @ + n]

(* An exception or a CancelledError: the handlers begin with a reset. *)
Failed(x)    == [x EXCEPT !.pc = "undo_failure"]
Cancelled(x) == [x EXCEPT !.pc = "undo_cancel"]

\* Mutant: the run's state is not looked at again.
ActiveOnce(x) == TRUE

(* _ensure_active, before a model call and after its answer. *)
Active(x) == ~x.stop

(* A step begins; its task is created with its first one. *)
Begun(x, n) ==
    LET s == Steps[x.path][n]
        y == [x EXCEPT !.step = n,
                       !.task = IF n = 1 \/ Steps[x.path][n - 1].last THEN "RUNNING" ELSE @]
    IN  CASE s.kind = "model" /\ ~Active(y) -> Cancelled(y)
          [] s.kind = "model" /\ Active(y) /\ MayCall(y, s.agent) ->
                [y EXCEPT !.pc = "step", !.calls[s.agent] = @ + 1]
          [] s.kind = "surface" /\ MayRequest(y, 1) -> [Charged(y, 1) EXCEPT !.pc = "step"]
          [] s.kind = "compare" /\ MayRequest(y, 3) -> [Charged(y, 3) EXCEPT !.pc = "step"]
          [] OTHER -> Failed(y)

(* What the next state of the run is entered with. *)
Working(x) == Begun([x EXCEPT !.state = "RUNNING"], 1)

\* Mutant: the requests of the verifier are not the run's.
VerifyingUncharged(x) == [x EXCEPT !.state = "VERIFYING", !.pc = "verify"]
Verifying(x) ==
    IF MayRequest(x, 3) THEN [Charged(x, 3) EXCEPT !.state = "VERIFYING", !.pc = "verify"]
    ELSE Failed([x EXCEPT !.state = "VERIFYING"])
Cleaning(x) == [x EXCEPT !.state = "CLEANING_UP", !.pc = "cleanup"]

(* transition: from a state that is not the one before it is refused, with a ValueError. *)
Transition(x, from, next) == IF x.state = from THEN next ELSE Failed(x)

(* The step that was begun succeeded. *)
Advanced(x) ==
    LET s == Steps[x.path][x.step]
        y == IF s.last THEN [x EXCEPT !.task = "COMPLETED"] ELSE x
    IN  IF s.kind = "model" /\ ~Active(x) THEN Cancelled(x)
        ELSE IF x.step = Len(Steps[x.path]) THEN Transition(y, "RUNNING", Verifying(y))
        ELSE Begun(y, x.step + 1)

-----------------------------------------------------------------------------
(* The range. A request whose answer is lost was served before, or never is.   *)

Patched(by) == [mode |-> "patched", generation |-> range.generation + 1, by |-> by]

(* reset_application and health: served or not, answered or not. *)
Reset(r, answered, refused) ==
    \/ /\ range' = Patched(r) /\ dirty' = {}
       /\ run' = [run EXCEPT ![r] = answered]
    \/ /\ "http" \in Faults
       /\ \/ range' = Patched(r) /\ dirty' = {}
          \/ UNCHANGED <<range, dirty>>
       /\ run' = [run EXCEPT ![r] = refused]

At(r, pc) == run[r].pc = pc

-----------------------------------------------------------------------------
(* execute.                                                                   *)

Execute(r, path, mode, limit) ==
    /\ At(r, "none")
    /\ run' = [run EXCEPT ![r] = [NoRun EXCEPT !.pc = "reset", !.path = path, !.mode = mode,
                                               !.limit = limit, !.state = "RESETTING"]]
    /\ UNCHANGED <<rows, range, operator, restarts, reached, dirty>>

ResetAnswered(r) ==
    LET answered == [run[r] EXCEPT !.pc = "select", !.before = range.generation + 1] IN
    /\ At(r, "reset") /\ Reset(r, answered, Failed(run[r]))
    /\ UNCHANGED <<rows, operator, restarts, reached>>

SelectAnswered(r) ==
    LET selected == [mode |-> run[r].mode, generation |-> range.generation + 1, by |-> r] IN
    /\ At(r, "select")
    /\ \/ /\ range' = selected /\ dirty' = dirty \cup {r}
          /\ run' = [run EXCEPT ![r] = Transition(@, "RESETTING", Working(@))]
       \/ /\ "http" \in Faults
          /\ \/ range' = selected /\ dirty' = dirty \cup {r}
             \/ UNCHANGED <<range, dirty>>
          /\ run' = [run EXCEPT ![r] = Failed(@)]
    /\ UNCHANGED <<rows, operator, restarts, reached>>

(* How many requests a step of this kind makes. *)
Requests(kind) == CASE kind = "model" -> 0 [] kind = "surface" -> 1 [] kind = "compare" -> 3

(* The model answers, or the broker is done. A refusal raises: an answer that is  *)
(* not valid, tokens or evidence over the limit, a target that does not answer   *)
(* all of the requests.                                                        *)
StepAnswered(r) ==
    LET kind == Steps[run[r].path][run[r].step].kind IN
    /\ At(r, "step")
    /\ \/ /\ reached' = [reached EXCEPT ![r] = @ + Requests(kind)]
          /\ run' = [run EXCEPT ![r] = Advanced(@)]
       \/ /\ "model" \in Faults /\ kind = "model"
          /\ run' = [run EXCEPT ![r] = IF Active(@) THEN Failed(@) ELSE Cancelled(@)]
          /\ UNCHANGED reached
       \/ /\ "http" \in Faults /\ kind # "model"
          /\ \E n \in 0 .. Requests(kind) : reached' = [reached EXCEPT ![r] = @ + n]
          /\ run' = [run EXCEPT ![r] = Failed(@)]
    /\ UNCHANGED <<rows, range, operator, restarts, dirty>>

\* Mutant: the verdict of a run that was cancelled meanwhile is saved with it.
VerifyAnsweredBlindly(r) ==
    /\ At(r, "verify")
    /\ \E verdict \in {IF range.mode = "vulnerable" THEN "CONFIRMED" ELSE "PASS"} :
          LET x == [run[r] EXCEPT !.verdict = verdict, !.own = range.by = r] IN
          run' = [run EXCEPT ![r] = Cleaning(x)]
    /\ reached' = [reached EXCEPT ![r] = @ + 3]
    /\ UNCHANGED <<rows, range, operator, restarts, dirty>>

(* The verdict is set whatever happened to the run; the transition after it is  *)
(* what a cancelled run fails at.                                              *)
VerifyAnswered(r) ==
    /\ At(r, "verify")
    /\ \/ /\ \E verdict \in {IF range.mode = "vulnerable" THEN "CONFIRMED" ELSE "PASS"}
                            \cup (IF "http" \in Faults THEN {"INCOMPLETE"} ELSE {}) :
                LET x == [run[r] EXCEPT !.verdict = verdict, !.own = range.by = r] IN
                \/ run' = [run EXCEPT ![r] = Transition(x, "VERIFYING", Cleaning(x))]
                \/ \* no budget is left for the evidence handed to the lead
                   /\ "budget" \in Faults /\ x.path = "multi"
                   /\ run' = [run EXCEPT ![r] = Failed(x)]
          /\ reached' = [reached EXCEPT ![r] = @ + 3]
       \/ /\ "http" \in Faults
          /\ \E n \in 0 .. 3 : reached' = [reached EXCEPT ![r] = @ + n]
          /\ run' = [run EXCEPT ![r] = Failed(@)]
    /\ UNCHANGED <<rows, range, operator, restarts, dirty>>

(* The end of `execute`, if nothing was raised: the evaluation is saved. In       *)
(* `finally` the time is charged, which may raise itself.                      *)
Save(r, x) ==
    \/ rows' = [rows EXCEPT ![r] = x] /\ run' = [run EXCEPT ![r] = x]
    \/ "budget" \in Faults /\ run' = [run EXCEPT ![r] = x] /\ UNCHANGED rows

(* COMPLETED needs a reset the range has counted since the first one. *)
CleanupAnswered(r) ==
    LET cleaned == [run[r] EXCEPT !.after = range.generation + 1,
                                  !.cleanup = range.generation + 1 > run[r].before]
    IN
    /\ At(r, "cleanup")
    /\ \/ /\ cleaned.cleanup /\ cleaned.state = "CLEANING_UP"
          /\ range' = Patched(r) /\ dirty' = {}
          /\ Save(r, [cleaned EXCEPT !.state = "COMPLETED", !.pc = "over"])
       \/ /\ ~(cleaned.cleanup /\ cleaned.state = "CLEANING_UP") \/ "budget" \in Faults
          /\ range' = Patched(r) /\ dirty' = {}
          /\ run' = [run EXCEPT ![r] = Failed(cleaned)] /\ UNCHANGED rows
       \/ "http" \in Faults /\ Reset(r, Failed(run[r]), Failed(run[r])) /\ UNCHANGED rows
    /\ UNCHANGED <<operator, restarts, reached>>

(* except CancelledError. A reset that raises here leaves execute. *)
CancelUndone(r) ==
    LET x == run[r]
        ended == [x EXCEPT !.pc = "over", !.verdict = "CANCELLED",
                           !.state = IF @ \in Terminal THEN @ ELSE "CANCELLED"]
    IN
    /\ At(r, "undo_cancel")
    /\ \/ /\ range' = Patched(r) /\ dirty' = {}
          /\ Save(r, [ended EXCEPT !.after = range.generation + 1, !.cleanup = TRUE])
       \/ /\ "http" \in Faults
          /\ \/ range' = Patched(r) /\ dirty' = {}
             \/ UNCHANGED <<range, dirty>>
          /\ \/ Save(r, [ended EXCEPT !.cleanup = FALSE])
             \/ run' = [run EXCEPT ![r].pc = "over"] /\ UNCHANGED rows
    /\ UNCHANGED <<operator, restarts, reached>>

\* Mutant: the range is healthy, so it is taken for clean.
FailureUndoneByHealth(r) ==
    /\ At(r, "undo_failure")
    /\ run' = [run EXCEPT ![r].pc = "over", ![r].cleanup = TRUE,
                          ![r].state = IF @ \in Terminal THEN @ ELSE "FAILED"]
    /\ UNCHANGED <<rows, range, operator, restarts, reached, dirty>>

\* Mutant: a run that was cancelled is left to who cancelled it.
FailureUndoneUnlessEnded(r) ==
    LET over == [run[r] EXCEPT !.pc = "over", !.cleanup = FALSE, !.state = "FAILED"] IN
    /\ At(r, "undo_failure") /\ run[r].state \notin Terminal /\ Reset(r, over, over)
    /\ UNCHANGED <<rows, operator, restarts, reached>>

(* except Exception: it is raised again, and nothing is saved. *)
FailureUndone(r) ==
    LET over == [run[r] EXCEPT !.pc = "over",
                               !.task = IF @ = "RUNNING" THEN "FAILED" ELSE @,
                               !.state = IF @ \in Terminal THEN @ ELSE "FAILED"]
        answered == [over EXCEPT !.after = range.generation + 1,
                                 !.cleanup = range.generation + 1 > run[r].before]
        refused == [over EXCEPT !.cleanup = FALSE]
    IN
    /\ At(r, "undo_failure") /\ Reset(r, answered, refused)
    /\ UNCHANGED <<rows, operator, restarts, reached>>

(* cancel: it marks the run, and leaves the rest to the execution. *)
Cancel(r) ==
    /\ ~At(r, "none") /\ run[r].state \notin Terminal
    /\ run' = [run EXCEPT ![r].stop = TRUE, ![r].state = "CANCELLED", ![r].verdict = "CANCELLED",
                          ![r].task = IF @ = "RUNNING" THEN "CANCELLED" ELSE @]
    /\ UNCHANGED <<rows, range, operator, restarts, reached, dirty>>

(* The caller's task is cancelled: the await raises CancelledError. In a handler  *)
(* nothing catches it.                                                        *)
Interrupt(r) ==
    /\ "interrupt" \in Faults /\ run[r].pc \notin {"none", "over"} /\ ~run[r].interrupted
    /\ run' = [run EXCEPT ![r].interrupted = TRUE,
                          ![r].pc = IF @ \in {"undo_cancel", "undo_failure"} THEN "over"
                                    ELSE "undo_cancel"]
    /\ UNCHANGED <<rows, range, operator, restarts, reached, dirty>>

-----------------------------------------------------------------------------
(* The range, used by an operator through its own API, and restarted.          *)

Operate ==
    /\ operator < MaxOperator /\ operator' = operator + 1
    /\ \/ range' = Patched(None) /\ dirty' = {}
       \/ \E mode \in Mode :
             range' = [Patched(None) EXCEPT !.mode = mode] /\ UNCHANGED dirty
    /\ UNCHANGED <<run, rows, restarts, reached>>

RangeRestart ==
    /\ restarts < MaxRestart /\ restarts' = restarts + 1
    /\ range' = [mode |-> "patched", generation |-> 1, by |-> None] /\ dirty' = {}
    /\ UNCHANGED <<run, rows, operator, reached>>

-----------------------------------------------------------------------------
RunStep(r) ==
    \/ ResetAnswered(r) \/ SelectAnswered(r) \/ StepAnswered(r) \/ VerifyAnswered(r)
    \/ CleanupAnswered(r) \/ CancelUndone(r) \/ FailureUndone(r)

Next ==
    \/ \E r \in Run :
          \/ \E path \in Path, mode \in Mode, limit \in Limits : Execute(r, path, mode, limit)
          \/ RunStep(r) \/ Cancel(r) \/ Interrupt(r)
    \/ Operate \/ RangeRestart

(* Every await of a run has a timeout: the model's, or three seconds. *)
Fairness == \A r \in Run : WF_vars(RunStep(r))

Spec == Init /\ [][Next]_vars /\ Fairness

-----------------------------------------------------------------------------

(* No target has seen a request the run's ledger does not know of, also when the  *)
(* step failed in the middle. About the charge before every effect of the broker  *)
(* and of the verification.                                                     *)
EffectsCharged == \A r \in Run : reached[r] <= run[r].requests

(* What is saved is what the run ended as: a cancelled run has no verdict but     *)
(* CANCELLED although the verifier may have answered after the cancellation, a    *)
(* completed one was never cancelled and has the verifier's verdict and a counted *)
(* reset, and nothing changes a run that is saved. It has no task that is still     *)
(* running, unless it was interrupted from outside, and if nobody else has changed  *)
(* the range since it was selected the verdict is about the mode the run asked for. *)
(* About cancel() beside execute(), and what its exception handlers save.          *)
SavedIsHonest ==
    \A r \in Run : rows[r] # None =>
        LET x == rows[r] IN
        /\ x = run[r] /\ x.state \in {"COMPLETED", "CANCELLED"}
        /\ x.state = "CANCELLED" => x.verdict = "CANCELLED"
        /\ x.state = "COMPLETED" => /\ ~x.stop /\ x.cleanup /\ x.after > x.before
                                    /\ x.verdict \in {"CONFIRMED", "PASS", "INCOMPLETE"}
        /\ ~x.interrupted => x.task # "RUNNING"
        /\ x.own => /\ x.verdict = "CONFIRMED" => x.mode = "vulnerable"
                    /\ x.verdict = "PASS" => x.mode = "patched"

(* A run that reports its cleanup has had its selection undone, on every way out   *)
(* of execute(): the regular one, a failure anywhere, a cancellation.            *)
CleanupProven == \A r \in Run : run[r].cleanup /\ At(r, "over") => r \notin dirty

(* A cancelled run asks its model nothing more, wherever it was when it was       *)
(* cancelled. About the two checks of _generate.                                 *)
NoModelAfterCancel == [][\A r \in Run : run[r].stop => Calls(run'[r]) = Calls(run[r])]_vars

(* Every run comes to its end, cancelled, failed or not. About the handlers, that  *)
(* await the range again.                                                       *)
RunEnds == \A r \in Run : ~At(r, "none") ~> At(r, "over")

=============================================================================
