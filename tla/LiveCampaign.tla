---------------------------- MODULE LiveCampaign ----------------------------
(* The four live proof campaigns: a script that builds the stacks, drives a      *)
(* vulnerable and a patched arm against the range with models it pays for, tears *)
(* everything down, and writes GO or PARTIAL from its own record.               *)
(*                                                                            *)
(* scripts/phase_2_0_live_multi_primitive_chain.py     "chain"                  *)
(* scripts/phase_2_1_live_authentication_testing.py    "authentication"         *)
(* scripts/phase_2_2_live_adversary_simulation.py      "adversary"              *)
(* scripts/phase_1_9_live_cloud_boundary.py            "boundary"               *)
(* aegis/multi_agent/attack_chain.py, authentication.py, adversary_simulation.py, *)
(*    cloud_boundary.py: the queues, and the workers that probe the range       *)
(* aegis_range/bank.py, cloud.py, ops.py, controller.py, verifier.py            *)
(*                                                                            *)
(* One process runs one campaign. Every command it runs may take effect or not,  *)
(* and may answer, answer nothing that can be read, or time out: a time-out is   *)
(* an exception, and so is a failure of the database. A burst of logins and a    *)
(* verification are one step each.                                             *)
EXTENDS Naturals, Sequences

CONSTANTS
    MaxOthers,      \* bound: resets and switches by others, and restarts of the range
    None

(* What a row, the record, a step of an arm or the acceptance may say.            *)
Said == {"QUEUED", "CLAIMED", "CLOSED", "RUNNING", "LINK_CONFIRMED", "CHAIN_CONFIRMED",
         "BLOCKED_BY_PATCH", "FAILED", "CONFIRMED", "PASS", "INCOMPLETE", "credential", "stripped",
         "refused", "reached", "denied", "answered", "held", "effect", "accepted", "throttled",
         "open", "done", "lost", "ok", "failed", "GO", "PARTIAL"}

ASSUME CampaignAssumption == MaxOthers \in Nat /\ None \notin Said

Campaign == {"chain", "authentication", "adversary", "boundary"}
Arm == {"vulnerable", "patched"}

VARIABLES
    campaign,   \* which script this is
    part,       \* what it is at: "setup", an arm, "teardown", "verdict", "over"
    todo,       \* the calls this part still has to make
    raised,     \* an exception is on its way through `finally`
    record,     \* what it keeps beside the arms
    facts,      \* the record of each arm: what was seen, by the step that saw it
    usage,      \* [calls, tokens, fit]: what the models' answers say they used
    job,        \* the arms' rows in the queue: [lead, agent, handoff]
    chain,      \* the arms' rows in the chain ledger: [state, links]
    range,      \* the application: [vulnerable, generation, sentinel, failures]
    left,       \* containers and networks that exist
    others,     \* how often the range was touched by somebody else, or restarted
    hidden,     \* history: calls of a model that the totals do not have
    written     \* the acceptance: None, "GO" or "PARTIAL"

vars == <<campaign, part, todo, raised, record, facts, usage, job, chain, range, left,
          others, hidden, written>>
outside == <<campaign, others, written>>
rows    == <<job, chain>>
paid    == <<usage, hidden>>

-----------------------------------------------------------------------------
(* The campaigns: what each calls, in order.                                   *)

Setup    == <<"build_ds", "build_range", "up_ds", "up_range", "health">>
Teardown == <<"down_ds", "down_range", "list">>

Handoff == <<"reset", "select", "enqueue_lead", "claim_lead", "delegate", "delegation",
             "enqueue_agent", "claim_agent", "plan", "broker">>
Close == <<"settle_agent", "settle_lead">>

AdversaryArm ==
    Handoff \o <<"baseline", "alternate", "worker_ends", "adjudicate", "rotate">> \o Close

AuthenticationArm ==
    Handoff \o <<"control", "burst", "post", "worker_ends", "interpret", "verify", "accounts">>
    \o Close

StageA == <<"reset", "select", "enqueue_lead", "claim_lead", "RUNNING", "plan_chain", "plan",
            "broker", "control_A", "boundary">>
StageB == <<"causal", "control_B", "service">>
Finish == <<"LINK_CONFIRMED", "interpret", "select_B", "verify_B", "link_B", "explain",
            "final", "close_lead">>

ChainArm(arm) ==
    IF arm = "vulnerable"
    THEN StageA \o StageB \o <<"worker_ends", "verify", "link_A">> \o Finish
    ELSE StageA \o <<"worker_ends", "verify", "link_A", "BLOCKED_BY_PATCH", "close_lead">>

BoundaryArm ==
    <<"reset", "select", "enqueue_agent", "claim_agent", "plan", "broker", "control_A",
      "boundary", "worker_ends", "interpret", "verify", "close_agent">>

ArmCalls(p) ==
    CASE campaign = "adversary" -> AdversaryArm
      [] campaign = "chain"     -> ChainArm(p)
      [] campaign = "boundary"  -> BoundaryArm
      [] OTHER                  -> AuthenticationArm

Calls(p) ==
    CASE p = "setup"    -> Setup
      [] p = "teardown" -> Teardown
      [] p \in Arm      -> ArmCalls(p)
      [] OTHER          -> <<>>

WorkerSteps == {"baseline", "alternate", "control", "burst", "post", "control_A", "boundary",
                "causal", "control_B", "service"}

\* Mutant: the way out of a failed chain leaves its job as it is.
FailUnclosed(call) ==
    CASE campaign = "chain"    -> <<"FAILED">>
      [] campaign = "boundary" -> <<"close_agent">>
      [] OTHER                 -> IF call = "delegate" THEN <<"close_lead">> ELSE Close

(* The way out of an arm that cannot go on: _fail, or the closing of its jobs. *)
WayOutOf(call) ==
    CASE campaign = "chain"    -> <<"FAILED", "close_lead">>
      [] campaign = "boundary" -> <<"close_agent">>
      [] OTHER                 -> IF call = "delegate" THEN <<"close_lead">> ELSE Close

Fresh == [vulnerable |-> {}, generation |-> 1, sentinel |-> <<1>>, failures |-> 0]

Init ==
    /\ campaign \in Campaign
    /\ part = "setup" /\ todo = Setup /\ raised = FALSE
    /\ record = [up |-> TRUE, good |-> TRUE, stopped |-> FALSE,
                 errors |-> {}, down |-> None, listed |-> {}]
    /\ facts = [a \in Arm |-> <<>>]
    /\ usage = [calls |-> 0, tokens |-> 0, fit |-> TRUE]
    /\ job = [a \in Arm |-> [lead |-> None, agent |-> None, handoff |-> FALSE]]
    /\ chain = [a \in Arm |-> [state |-> None, links |-> <<>>]]
    /\ range = Fresh /\ left = {} /\ others = 0
    /\ hidden = {} /\ written = None

-----------------------------------------------------------------------------
(* How a campaign goes on.                                                     *)

At(call) == todo # <<>> /\ Head(todo) = call

After(p) ==
    CASE p = "setup"      -> "vulnerable"
      [] p = "vulnerable" -> IF record.stopped THEN "teardown" ELSE "patched"
      [] p = "patched"    -> "teardown"
      [] p = "teardown"   -> IF raised THEN "over" ELSE "verdict"

Enter(p) == part' = p /\ todo' = Calls(p) /\ UNCHANGED raised

Do(rest) ==
    IF rest # <<>> THEN todo' = rest /\ UNCHANGED <<part, raised>> ELSE Enter(After(part))

GoOn == Do(Tail(todo))

(* `finally` is entered with the health checks: what is raised before them, or by *)
(* the teardown itself, ends the script.                                        *)
Raise ==
    /\ raised' = TRUE
    /\ IF part \in Arm \/ At("health")
       THEN part' = "teardown" /\ todo' = Teardown ELSE part' = "over" /\ todo' = <<>>

-----------------------------------------------------------------------------
(* The stacks.                                                                *)

Build(call) ==
    /\ At(call)
    /\ GoOn \/ Enter("verdict") \/ Raise
    /\ UNCHANGED <<outside, record, facts, paid, rows, range, left>>

(* Both stacks are brought up before either result is looked at. *)
Up(call, what) ==
    /\ At(call)
    /\ \/ /\ left' = left \cup what /\ UNCHANGED record
          /\ IF record.up THEN GoOn ELSE Enter("teardown")
       \/ /\ \E some \in SUBSET what : left' = left \cup some
          /\ \/ Raise /\ UNCHANGED record
             \/ /\ record' = [record EXCEPT !.up = FALSE]
                /\ IF call = "up_range" THEN Enter("teardown") ELSE GoOn
    /\ UNCHANGED <<outside, facts, paid, rows, range>>

(* Health, isolation of the key, and the scenario's entry in the ground truth. *)
Health ==
    /\ At("health")
    /\ \E sound \in BOOLEAN : record' = [record EXCEPT !.good = sound]
    /\ GoOn \/ Enter("teardown") \/ Raise
    /\ UNCHANGED <<outside, facts, paid, rows, range, left>>

(* A worker that was left behind holds the network; compose may or may not say so. *)
Down(call, what) ==
    /\ At(call)
    /\ \/ /\ left' = left \ (IF "worker" \in left THEN what \ {"network"} ELSE what)
          /\ record' = [record EXCEPT !.down = IF @ = None THEN "ok" ELSE @]
          /\ GoOn
       \/ /\ \E some \in SUBSET what : left' = left \ some
          /\ \/ record' = [record EXCEPT !.down = "failed"] /\ GoOn
             \/ Raise /\ UNCHANGED record
    /\ UNCHANGED <<outside, facts, paid, rows, range>>

(* A listing that fails lists nothing, and a worker has no label of a project. *)
List ==
    /\ At("list")
    /\ \/ Raise /\ UNCHANGED record
       \/ \E shown \in SUBSET (left \ {"worker"}) :
              record' = [record EXCEPT !.listed = shown] /\ GoOn
    /\ UNCHANGED <<outside, facts, paid, rows, range, left>>

WorkerEnds ==
    /\ "worker" \in left /\ left' = left \ {"worker"}
    /\ UNCHANGED <<outside, part, todo, raised, record, facts, paid, rows, range>>

Stacks ==
    \/ \E call \in {"build_ds", "build_range"} : Build(call)
    \/ Up("up_ds", {"ds"}) \/ Up("up_range", {"range", "network"})
    \/ Health
    \/ Down("down_ds", {"ds"}) \/ Down("down_range", {"range", "network"})
    \/ List \/ WorkerEnds

-----------------------------------------------------------------------------
(* The queue and the chain ledger: one transaction a call.                      *)

Saw(arm, step) == IF step \in DOMAIN facts[arm] THEN facts[arm][step].saw ELSE None
Confirmed(arm, step) == Saw(arm, step) = "CONFIRMED"
Credential(arm) == Saw(arm, "boundary") = "credential"

Link(step) == IF Saw(part, step) \in {"CONFIRMED", "PASS"} THEN Saw(part, step) ELSE "INCOMPLETE"
BothConfirmed == Confirmed(part, "verify") /\ Confirmed(part, "verify_B")

(* What follows a row: Stage B only on a verified Stage A and its credential, an   *)
(* explanation only of a chain that is verified.                               *)
Following(call) ==
    IF call = "link_A" /\ part = "vulnerable" /\ ~(Credential(part) /\ Confirmed(part, "verify"))
    THEN WayOutOf(call)
    ELSE IF call = "link_B" /\ ~BothConfirmed THEN Tail(Tail(todo)) ELSE Tail(todo)

Row(call, jobs, chains) ==
    /\ At(call)
    /\ \/ job' = jobs /\ chain' = chains /\ Do(Following(call))
       \/ Raise /\ UNCHANGED rows
    /\ UNCHANGED <<outside, record, facts, paid, range, left>>

Job(who, status) == [job EXCEPT ![part] = [@ EXCEPT ![who] = status]]
State(state) == [chain EXCEPT ![part].state = state]
Linked(step) == [chain EXCEPT ![part].links = Append(@, Link(step))]

(* _close_jobs: what is raised is recorded, and the other job is closed all the same. *)
Settle(who, call) ==
    /\ At(call) /\ GoOn
    /\ \/ job' = Job(who, "CLOSED") /\ UNCHANGED record
       \/ record' = [record EXCEPT !.errors = @ \cup {<<part, who>>}] /\ UNCHANGED job
    /\ UNCHANGED <<outside, facts, paid, chain, range, left>>

CloseAgent == Row("close_agent", Job("agent", "CLOSED"), chain)

Rows ==
    \/ Row("enqueue_lead", Job("lead", "QUEUED"), chain)
    \/ Row("claim_lead", Job("lead", "CLAIMED"), chain)
    \/ Row("close_lead", Job("lead", "CLOSED"), chain)
    \/ Row("delegation", [job EXCEPT ![part].handoff = TRUE], chain)
    \/ Row("enqueue_agent", Job("agent", "QUEUED"), chain)
    \/ Row("claim_agent", Job("agent", "CLAIMED"), chain)
    \/ CloseAgent
    \/ \E state \in {"RUNNING", "LINK_CONFIRMED", "BLOCKED_BY_PATCH", "FAILED"} :
           Row(state, job, State(state))
    \/ Row("link_A", job, Linked("verify"))
    \/ Row("link_B", job, Linked("verify_B"))
    \/ Row("final", job, State(IF BothConfirmed THEN "CHAIN_CONFIRMED" ELSE "FAILED"))
    \/ Settle("agent", "settle_agent")
    \/ Settle("lead", "settle_lead")

-----------------------------------------------------------------------------
(* The models.                                                                *)

(* Token budgets, in units of the smaller of two sizes an answer may have. *)
Sizes     == {1, 7}
Reserve   == 3
MaxTokens == [adversary |-> 9, authentication |-> 34, chain |-> 45, boundary |-> 20]
MaxCalls  == [adversary |-> 4, authentication |-> 10, chain |-> 12, boundary |-> 8]

(* What each campaign asks of its models. *)
AdversaryAsks      == {"delegate", "plan"}
AuthenticationAsks == {"delegate", "plan", "interpret"}
ChainAsks          == {"plan_chain", "plan", "interpret", "select_B", "explain"}
BoundaryAsks       == {"plan", "interpret"}

Asks == [adversary |-> AdversaryAsks, authentication |-> AuthenticationAsks,
         chain |-> ChainAsks, boundary |-> BoundaryAsks]

Essential(call) == call \in {"delegate", "plan", "plan_chain", "select_B"}

(* interpret and submit are two calls of one step, but not of the chain's. *)
Charge(call, tokens) ==
    [usage EXCEPT !.calls = @ + (IF campaign # "chain" /\ call = "interpret" THEN 2 ELSE 1),
                  !.tokens = @ + tokens]

CanStart == /\ usage.calls + 1 <= MaxCalls["adversary"]
            /\ usage.tokens + Reserve <= MaxTokens["adversary"]

(* Only the adversary campaign asks its budget first. *)
Refused(call) == campaign = "adversary" /\ call \in {"delegate", "plan"} /\ ~CanStart

BudgetStop(call) ==
    /\ At(call) /\ Refused(call)
    /\ record' = [record EXCEPT !.stopped = TRUE, !.good = FALSE]
    /\ todo' = WayOutOf(call)
    /\ UNCHANGED <<outside, part, raised, facts, paid, rows, range, left>>

(* The verdict asks what a model said of the vulnerable chain, and of both arms of  *)
(* the others; never what it explained.                                        *)
Relevant(call) == call # "explain" /\ (campaign # "chain" \/ part = "vulnerable")

(* The answer may be one the verdict does not want, of any call if its projection  *)
(* was not clean or it came from another model.                                 *)
Answer(call) ==
    /\ At(call) /\ ~Refused(call) /\ GoOn
    /\ \/ \E size \in Sizes : usage' = Charge(call, size) /\ UNCHANGED record
       \/ usage' = Charge(call, 1) /\ record' = [record EXCEPT !.good = FALSE]
    /\ UNCHANGED <<outside, facts, hidden, rows, range, left>>

\* Mutant: a usage nobody knows counts as none.
ForgivingTotal(call) == Charge(call, 0)

(* _combined_tokens: one unknown usage makes the total unknown. *)
UnknownTotal(call) == [Charge(call, 0) EXCEPT !.fit = FALSE]

(* The gateway rejects the answer (its usage known or not), or there is nothing that *)
(* can be read: a crash of the step, or an error without a status. What has no     *)
(* result is in no total.                                                      *)
NoAnswer(call) ==
    /\ At(call) /\ ~Refused(call)
    /\ record' = [record EXCEPT !.good = @ /\ ~Relevant(call)]
    /\ \/ usage' = Charge(call, 1) /\ UNCHANGED hidden
       \/ usage' = UnknownTotal(call) /\ hidden' = hidden \cup {<<call, "unknown">>}
       \/ hidden' = hidden \cup {<<call, "lost">>} /\ UNCHANGED usage
    /\ Do(IF Essential(call) THEN WayOutOf(call) ELSE Tail(todo))
    /\ UNCHANGED <<outside, facts, rows, range, left>>

TimedOutCall(call) ==
    /\ At(call) /\ ~Refused(call) /\ Raise /\ hidden' = hidden \cup {<<call, "lost">>}
    /\ UNCHANGED <<outside, record, facts, usage, rows, range, left>>

(* The broker renders the plan with what the controller fixes, or rejects it. *)
Broker ==
    /\ At("broker")
    /\ \/ GoOn /\ UNCHANGED record
       \/ record' = [record EXCEPT !.good = FALSE] /\ Do(WayOutOf("broker"))
    /\ UNCHANGED <<outside, facts, paid, rows, range, left>>

Models ==
    \/ \E call \in Asks[campaign] :
           BudgetStop(call) \/ Answer(call) \/ NoAnswer(call) \/ TimedOutCall(call)
    \/ Broker

-----------------------------------------------------------------------------
(* The range, by its controller.                                               *)

Generation == range.generation + 1
ResetRange == [Fresh EXCEPT !.generation = Generation, !.sentinel = <<Generation>>]

(* select_mode: the scenarios it puts, one request each. All but the last are what *)
(* the last depends on and become vulnerable.                                  *)
Puts(arm) ==
    CASE campaign = "adversary"                      -> <<"ops">>
      [] campaign = "authentication"                 -> <<"login">>
      [] campaign = "chain" /\ arm = "vulnerable"    -> <<"entry", "meta", "service">>
      [] OTHER                                       -> <<"entry", "meta">>

Selected(arm, n) ==
    LET puts == Puts(arm)
        some == {puts[i] : i \in 1 .. n}
    IN  [range EXCEPT !.generation = @ + n,
                      !.vulnerable = IF arm = "patched" /\ n = Len(puts)
                                     THEN (@ \cup some) \ {puts[n]} ELSE @ \cup some]

(* Nobody looks at the result of a reset or a selection. *)
Switch ==
    /\ \/ At("reset") /\ range' \in {range, ResetRange}
       \/ At("select") /\ \E n \in 0 .. Len(Puts(part)) : range' = Selected(part, n)
    /\ GoOn \/ Raise
    /\ UNCHANGED <<outside, record, facts, paid, rows, left>>

See(step, saw, mark) ==
    facts' = [facts EXCEPT ![part] = [s \in DOMAIN @ \cup {step} |->
                 IF s = step THEN [saw |-> saw, in |-> range.vulnerable, mark |-> mark] ELSE @[s]]]

(* The sentinel's rotation, and the clearing of the accounts: the last step of an arm. *)
Cleared(call, new) ==
    /\ At(call)
    /\ \/ range' = new /\ See(call, "done", None) /\ GoOn
       \/ range' \in {range, new} /\ UNCHANGED facts /\ (GoOn \/ Raise)
    /\ UNCHANGED <<outside, record, paid, rows, left>>

Clear ==
    \/ Cleared("rotate", [range EXCEPT !.sentinel = Append(@, range.generation)])
    \/ Cleared("accounts", [range EXCEPT !.failures = 0])

Operate ==
    /\ others < MaxOthers /\ others' = others + 1 /\ part \in Arm
    /\ \/ range' = ResetRange
       \/ \E a \in Arm : \E i \in 1 .. Len(Puts(a)) : \E on \in BOOLEAN :
              range' = [range EXCEPT !.generation = Generation,
                            !.vulnerable = IF on THEN @ \cup {Puts(a)[i]} ELSE @ \ {Puts(a)[i]}]
    /\ UNCHANGED <<campaign, written, part, todo, raised, record, facts, paid, rows, left>>

RangeRestart ==
    /\ others < MaxOthers /\ others' = others + 1 /\ part \in Arm
    /\ range' = Fresh
    /\ UNCHANGED <<campaign, written, part, todo, raised, record, facts, paid, rows, left>>

-----------------------------------------------------------------------------
(* The worker: a container of its own whose requests may be lost one by one. The  *)
(* record of an arm has what it saw only if all of its output can be read.       *)

Vulnerable(scenarios) == scenarios \subseteq range.vulnerable

Probe(call, saw, mark, rest) ==
    /\ At(call)
    /\ See(call, saw, mark) /\ Do(rest)
    /\ UNCHANGED <<outside, record, paid, rows, range, left>>

Attempt(call, saw, mark) ==
    Probe(call, saw, mark, Tail(todo)) \/ Probe(call, "lost", None, Tail(todo))

(* The alternate probe sees a digest of the sentinel of the moment. *)
Detection ==
    \/ Attempt("baseline", "denied", None)
    \/ Attempt("alternate", IF Vulnerable({"ops"}) THEN "reached" ELSE "denied", range.sentinel)

Threshold == 5
Burst == 6

(* create_session: a patched account that has failed too often is locked. *)
Login == IF ~Vulnerable({"login"}) /\ range.failures >= Threshold THEN "throttled" ELSE "accepted"

Failed(n) == IF Vulnerable({"login"}) THEN range.failures
             ELSE IF range.failures + n < Threshold THEN range.failures + n ELSE Threshold

(* A login that is lost on the way is recorded like one that was answered. *)
InvalidBurst ==
    /\ At("burst")
    /\ \E n \in 0 .. Burst :
          /\ See("burst", IF ~Vulnerable({"login"}) /\ n > 0 /\ range.failures + n > Threshold
                          THEN "throttled" ELSE "open", n = Burst)
          /\ range' = [range EXCEPT !.failures = Failed(n)]
    /\ GoOn
    /\ UNCHANGED <<outside, record, paid, rows, left>>

Logins == Attempt("control", Login, None) \/ InvalidBurst \/ Attempt("post", Login, None)

(* The metadata service has a credential of the generation of the range. *)
Boundary ==
    CASE Vulnerable({"entry", "meta"}) -> "credential"
      [] Vulnerable({"entry"}) /\ ~Vulnerable({"meta"}) -> "stripped"
      [] OTHER -> "refused"

(* Without a credential, or in the patched arm, there is no Stage B. *)
AfterBoundary(saw) ==
    IF campaign = "chain" /\ part = "vulnerable" /\ saw # "credential"
    THEN <<"worker_ends", "verify", "link_A">> \o Finish ELSE Tail(todo)

(* The model of the boundary campaign may choose the partner as its destination. *)
Elsewhere == IF campaign = "boundary" THEN {"answered"} ELSE {}

ChainProbe ==
    \/ Attempt("control_A", "answered", None)
    \/ \E saw \in {Boundary, "lost"} \cup Elsewhere :
           Probe("boundary", saw, range.generation, AfterBoundary(saw))
    \/ Probe("causal", "held", None, Tail(todo))
    \/ Attempt("control_B", "answered", None)
    \/ /\ At("service")
       /\ Attempt("service", IF /\ Vulnerable({"service"})
                                /\ facts[part]["boundary"].mark = range.generation
                             THEN "effect" ELSE "refused", range.generation)

WorkerTimeout ==
    /\ \E call \in WorkerSteps : At(call)
    /\ Raise /\ left' = left \cup {"worker"}
    /\ UNCHANGED <<outside, record, facts, paid, rows, range>>

WorkerOutput ==
    /\ At("worker_ends") /\ GoOn
    /\ facts' \in {facts, [facts EXCEPT ![part] =
                      [s \in DOMAIN facts[part] \ WorkerSteps |-> facts[part][s]]]}
    /\ UNCHANGED <<outside, record, paid, rows, range, left>>

Worker == Detection \/ Logins \/ ChainProbe \/ WorkerTimeout \/ WorkerOutput

-----------------------------------------------------------------------------
(* The verifier.                                                              *)

Decision(confirmed, pass) ==
    IF confirmed THEN "CONFIRMED" ELSE IF pass THEN "PASS" ELSE "INCOMPLETE"

(* _decide_detection_control_bypass: on the worker's evidence, without a request. *)
Adjudicated ==
    LET denied == Saw(part, "baseline") = "denied" IN
    Decision(/\ denied /\ Saw(part, "alternate") = "reached"
             /\ facts[part]["alternate"].mark = range.sentinel,
             denied /\ Saw(part, "alternate") = "denied")

\* Mutant: no token is taken for a patch, whatever the status.
AnyRefusal == Decision(Vulnerable({"entry", "meta"}), ~Vulnerable({"entry", "meta"}))

(* _cloud_metadata *)
MetadataVerified ==
    Decision(Vulnerable({"entry", "meta"}), Vulnerable({"entry"}) /\ ~Vulnerable({"meta"}))

(* _cloud_internal *)
ServiceVerified ==
    Decision(Vulnerable({"entry", "meta", "service"}),
             Vulnerable({"entry", "meta"}) /\ ~Vulnerable({"service"}))

(* _bank_login_rate_limit clears the accounts and makes logins of its own. *)
LoginVerified == Decision(Vulnerable({"login"}), ~Vulnerable({"login"}))
AfterVerifier == [range EXCEPT !.failures = IF Vulnerable({"login"}) THEN 0 ELSE Threshold]

Verify(call, decision, new) ==
    /\ At(call)
    /\ \/ See(call, decision, None) /\ range' = new /\ GoOn
       \/ range' \in {range, new} /\ UNCHANGED facts /\ (GoOn \/ Raise)
    /\ UNCHANGED <<outside, record, paid, rows, left>>

Verifier ==
    \/ Verify("adjudicate", Adjudicated, range)
    \/ campaign = "authentication" /\ Verify("verify", LoginVerified, AfterVerifier)
    \/ campaign \in {"chain", "boundary"} /\ Verify("verify", MetadataVerified, range)
    \/ Verify("verify_B", ServiceVerified, range)

-----------------------------------------------------------------------------
(* The verdict, on the record alone.                                           *)

Paid == /\ usage.fit /\ usage.calls <= MaxCalls[campaign]
        /\ usage.tokens <= MaxTokens[campaign]

Expected == [vulnerable |-> "CONFIRMED", patched |-> "PASS"]

AdversaryVerdict(a) ==
    /\ Saw(a, "baseline") = "denied" /\ Saw(a, "rotate") = "done" /\ job[a].handoff
    /\ Saw(a, "alternate") = IF a = "vulnerable" THEN "reached" ELSE "denied"
    /\ Saw(a, "adjudicate") = Expected[a]

AuthenticationVerdict(a) ==
    /\ Saw(a, "control") = "accepted" /\ Saw(a, "burst") # None /\ Saw(a, "post") # None
    /\ Saw(a, "accounts") = "done" /\ job[a].handoff
    /\ IF a = "vulnerable" THEN Saw(a, "burst") = "open" /\ Saw(a, "post") = "accepted"
       ELSE Saw(a, "burst") = "throttled" \/ Saw(a, "post") = "throttled"
    /\ Saw(a, "verify") = Expected[a]

ChainVerdict(a) ==
    /\ Saw(a, "verify") = Expected[a] /\ job[a].lead = "CLOSED"
    /\ IF a = "vulnerable"
       THEN /\ Saw(a, "control_A") = "answered" /\ Credential(a) /\ Saw(a, "causal") = "held"
            /\ Saw(a, "control_B") = "answered" /\ Saw(a, "service") = "effect"
            /\ Confirmed(a, "verify_B") /\ chain[a].state = "CHAIN_CONFIRMED"
       ELSE ~Credential(a) /\ chain[a].state = "BLOCKED_BY_PATCH"

(* What the worker found at the boundary is asked of nobody: only that it got there. *)
BoundaryVerdict(a) == Saw(a, "control_A") = "answered" /\ Saw(a, "verify") = Expected[a]

ArmVerdict(a) ==
    CASE campaign = "adversary"      -> AdversaryVerdict(a)
      [] campaign = "authentication" -> AuthenticationVerdict(a)
      [] campaign = "chain"          -> ChainVerdict(a)
      [] campaign = "boundary"       -> BoundaryVerdict(a)

Go == /\ record.good /\ Paid /\ record.down = "ok" /\ record.listed = {}
      /\ \A a \in Arm : ArmVerdict(a)

Verdict ==
    /\ part = "verdict" /\ part' = "over"
    /\ written' = IF Go THEN "GO" ELSE "PARTIAL"
    /\ UNCHANGED <<campaign, others, todo, raised, record, facts, paid, rows, range, left>>

Next == Stacks \/ Rows \/ Models \/ Switch \/ Clear \/ Operate \/ RangeRestart \/ Worker
        \/ Verifier \/ Verdict

Spec == Init /\ [][Next]_vars

-----------------------------------------------------------------------------
(* Properties.                                                                *)

In(arm, step) == facts[arm][step].in

(* Nobody looks at whether the range was switched, and others switch it too: a   *)
(* GO says it all the same. The defect was there where it was seen and verified,  *)
(* the control was there where it denied and where the verifier passed it, and a  *)
(* service that was reached was reached on the range the credential is from. Of   *)
(* logins that were lost the record says nothing (_vulnerable_no_throttle).       *)
GoEarned ==
    written = "GO" =>
      CASE campaign = "adversary" ->
             "ops" \in In("vulnerable", "alternate") /\ "ops" \notin In("patched", "alternate")
        [] campaign = "authentication" ->
             /\ "login" \in In("vulnerable", "verify") /\ "login" \notin In("patched", "verify")
             /\ facts["vulnerable"]["burst"].mark => "login" \in In("vulnerable", "burst")
             /\ "login" \notin In("patched", "burst") \/ "login" \notin In("patched", "post")
        [] campaign = "chain" ->
             /\ {"entry", "meta"} \subseteq In("vulnerable", "verify")
             /\ {"entry", "meta", "service"} \subseteq In("vulnerable", "verify_B")
             /\ facts["vulnerable"]["boundary"].mark = facts["vulnerable"]["service"].mark
             /\ "entry" \in In("patched", "verify") /\ "meta" \notin In("patched", "verify")
        [] campaign = "boundary" ->
             /\ {"entry", "meta"} \subseteq In("vulnerable", "verify")
             /\ "entry" \in In("patched", "verify") /\ "meta" \notin In("patched", "verify")

(* A GO is within the ceilings, and no call of a model is missing from its totals  *)
(* but the explanation of the chain, which _all_model_results passes over when it  *)
(* has no result.                                                             *)
UsageCounted ==
    written = "GO" => hidden \subseteq {<<"explain", "lost">>} /\ Paid

(* Every way out of an arm (the early returns of _run_mode, _fail) leaves the rows  *)
(* final and in agreement: where an acceptance is written no job is open but for   *)
(* a recorded error, a chain is confirmed just when both of its links are, and a   *)
(* GO leaves nothing running.                                                  *)
WayOut ==
    written # None =>
      /\ \A a \in Arm, who \in {"lead", "agent"} :
            job[a][who] \in {None, "CLOSED"} \/ <<a, who>> \in record.errors
      /\ \A a \in Arm :
            /\ chain[a].state \notin {"RUNNING", "LINK_CONFIRMED"}
            /\ (chain[a].state = "CHAIN_CONFIRMED") <=> (chain[a].links = <<"CONFIRMED", "CONFIRMED">>)
      /\ written = "GO" => left = {}

=============================================================================
