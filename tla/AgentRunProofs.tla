--------------------------- MODULE AgentRunProofs ---------------------------
(***************************************************************************)
(* Theorems about AgentRun, for any number of runs on the one range, any   *)
(* limits and any faults.                                                  *)
(***************************************************************************)
EXTENDS AgentRun, TLAPS

(* Every value a run may have in memory. *)
PC == {"none", "reset", "select", "step", "verify", "cleanup", "undo_cancel", "undo_failure", "over"}
State == {"QUEUED", "RESETTING", "RUNNING", "VERIFYING", "CLEANING_UP"} \cup Terminal
Verdict == {"CONFIRMED", "PASS", "INCOMPLETE"}

RunRecord ==
    [pc : PC, path : Path \cup {None}, mode : Mode \cup {None}, step : Nat, limit : Limits \cup {None},
     state : State, stop : BOOLEAN, verdict : Verdict \cup {"CANCELLED", None}, cleanup : BOOLEAN,
     before : Nat, after : Nat, task : {"RUNNING", "COMPLETED", "FAILED", "CANCELLED", None},
     calls : [Agent -> Nat], requests : Nat, own : BOOLEAN, interrupted : BOOLEAN]

(* The type invariant. *)
TypeOK ==
    /\ run \in [Run -> RunRecord]
    /\ rows \in [Run -> RunRecord \cup {None}]
    /\ range \in [mode : Mode, generation : Nat, by : Run \cup {None}]
    /\ operator \in Nat /\ restarts \in Nat
    /\ reached \in [Run -> Nat] /\ dirty \in SUBSET Run

(* What is paid for and not yet made: the requests of the step in hand. *)
Owed(x) == CASE x.pc = "step"   -> Requests(Steps[x.path][x.step].kind)
             [] x.pc = "verify" -> 3
             [] OTHER           -> 0

(* What holds of a run whatever the range and the other runs do.                *)
Stopped(x) == x.stop => x.state = "CANCELLED" /\ x.task # "RUNNING" /\ x.pc # "none"
Ended(x)   == x.state \in {"COMPLETED", "FAILED"} => x.pc = "over"
InHand(x)  ==
    /\ x.pc = "none" => x.state = "QUEUED" /\ ~x.cleanup /\ x.calls = NoRun.calls /\ x.requests = 0
    /\ x.pc # "none" => x.path \in Path /\ x.mode \in Mode /\ x.limit \in Limits
    /\ x.pc = "step" => x.step \in 1 .. Len(Steps[x.path]) /\ x.state \in {"RUNNING", "CANCELLED"}
    /\ x.pc = "undo_cancel" => x.stop \/ x.interrupted
    /\ x.cleanup => x.pc \in {"undo_cancel", "undo_failure", "over"}
Judged(x)  ==
    /\ x.state \in {"VERIFYING", "CLEANING_UP"} => x.task = "COMPLETED"
    /\ x.state = "CLEANING_UP" => x.verdict \in Verdict
    /\ x.own /\ x.verdict = "CONFIRMED" => x.mode = "vulnerable"
    /\ x.own /\ x.verdict = "PASS" => x.mode = "patched"
Spent(x)   == x.pc # "none" => Calls(x) <= x.limit.calls /\ x.requests <= x.limit.requests

Consistent(x) == Stopped(x) /\ Ended(x) /\ InHand(x) /\ Judged(x) /\ Spent(x)

(* What holds of a run, its row and the range.                                  *)
Saved(r) ==
    rows[r] # None =>
        LET x == rows[r] IN
        /\ x = run[r] /\ x.pc = "over" /\ x.state \in {"COMPLETED", "CANCELLED"}
        /\ x.state = "CANCELLED" => x.verdict = "CANCELLED"
        /\ x.state = "COMPLETED" => x.cleanup /\ x.after > x.before /\ x.verdict \in Verdict
        /\ ~x.interrupted => x.task # "RUNNING"
Placed(r) ==
    /\ reached[r] + Owed(run[r]) <= run[r].requests
    /\ run[r].pc \in {"step", "verify"} /\ range.by = r => range.mode = run[r].mode
    /\ run[r].cleanup => r \notin dirty

IInv == TypeOK /\ \A r \in Run : Consistent(run[r]) /\ Saved(r) /\ Placed(r)

-----------------------------------------------------------------------------
(* The steps.                                                                *)

(* The last step of a path ends its agent's task; no other step but a model's *)
(* does. A request costs the ledger what it sends.                            *)
LEMMA StepsFacts ==
  ASSUME NEW p \in Path
  PROVE  /\ Len(Steps[p]) \in Nat \ {0}
         /\ Steps[p][Len(Steps[p])].last
         /\ \A n \in 1 .. Len(Steps[p]) :
              /\ Steps[p][n].kind \in {"model", "surface", "compare"}
              /\ Steps[p][n].agent \in Agent
              /\ Steps[p][n].kind # "model" /\ n < Len(Steps[p]) => ~Steps[p][n].last
<1>1. CASE p = "multi"
  <2> DEFINE q == << Step("lead", "model", TRUE), Step("surface", "surface", FALSE),
                     Step("surface", "model", TRUE), Step("lead", "model", TRUE),
                     Step("auth", "model", FALSE), Step("auth", "compare", TRUE) >>
  <2>1. Steps[p] = q
    BY <1>1 DEF Steps
  <2>2. /\ Len(q) = 6
        /\ q[1] = Step("lead", "model", TRUE) /\ q[2] = Step("surface", "surface", FALSE)
        /\ q[3] = Step("surface", "model", TRUE) /\ q[4] = Step("lead", "model", TRUE)
        /\ q[5] = Step("auth", "model", FALSE) /\ q[6] = Step("auth", "compare", TRUE)
    OBVIOUS
  <2>3. \A n \in 1 .. 6 : n = 1 \/ n = 2 \/ n = 3 \/ n = 4 \/ n = 5 \/ n = 6
    OBVIOUS
  <2> HIDE DEF q
  <2>4. \A n \in 1 .. 6 : /\ q[n].kind \in {"model", "surface", "compare"}
                         /\ q[n].agent \in Agent
    BY <2>2, <2>3 DEF Step, Agent
  <2>5. \A n \in 1 .. 6 : q[n].kind # "model" /\ n < 6 => ~q[n].last
    BY <2>2, <2>3 DEF Step
  <2> QED
    BY <2>1, <2>2, <2>4, <2>5 DEF Step
<1>2. CASE p = "single"
  <2> DEFINE q == << Step("auth", "surface", FALSE), Step("auth", "model", FALSE),
                     Step("auth", "compare", TRUE) >>
  <2>1. Steps[p] = q
    BY <1>2 DEF Steps
  <2>2. /\ Len(q) = 3
        /\ q[1] = Step("auth", "surface", FALSE) /\ q[2] = Step("auth", "model", FALSE)
        /\ q[3] = Step("auth", "compare", TRUE)
    OBVIOUS
  <2>3. \A n \in 1 .. 3 : n = 1 \/ n = 2 \/ n = 3
    OBVIOUS
  <2> HIDE DEF q
  <2>4. \A n \in 1 .. 3 : /\ q[n].kind \in {"model", "surface", "compare"}
                         /\ q[n].agent \in Agent
    BY <2>2, <2>3 DEF Step, Agent
  <2>5. \A n \in 1 .. 3 : q[n].kind # "model" /\ n < 3 => ~q[n].last
    BY <2>2, <2>3 DEF Step
  <2> QED
    BY <2>1, <2>2, <2>4, <2>5 DEF Step
<1> QED
  BY <1>1, <1>2 DEF Path

LEMMA RequestsFacts ==
  /\ Requests("model") = 0 /\ Requests("surface") = 1 /\ Requests("compare") = 3
  BY DEF Requests

LEMMA OwedIsNat ==
  ASSUME NEW x \in RunRecord, Consistent(x) PROVE Owed(x) \in Nat
<1>1. x.pc = "step" => Steps[x.path][x.step].kind \in {"model", "surface", "compare"}
  BY StepsFacts DEF Consistent, InHand
<1> QED
  BY <1>1, RequestsFacts DEF Owed

-----------------------------------------------------------------------------
(* What a stretch makes of a run.                                            *)

(* From x to y: y is a run like x, has paid for what it is about to do, and a *)
(* stopped x has asked nothing more.                                         *)
Onward(x, y) ==
    /\ y \in RunRecord /\ Consistent(y)
    /\ y.pc \in {"step", "verify", "undo_cancel", "undo_failure"}
    /\ x.requests + Owed(y) <= y.requests
    /\ y.mode = x.mode /\ y.stop = x.stop /\ ~y.cleanup
    /\ x.stop => y.calls = x.calls

(* The two handlers may be entered from anywhere in execute(). *)
LEMMA HandlerEntered ==
  ASSUME NEW x \in RunRecord, Consistent(x), x.pc \notin {"none", "over"},
         NEW y, y = Failed(x) \/ (y = Cancelled(x) /\ (x.stop \/ x.interrupted))
  PROVE  /\ y \in RunRecord /\ Consistent(y) /\ y.pc \in {"undo_cancel", "undo_failure"}
         /\ Owed(y) = 0
         /\ y.requests = x.requests /\ y.calls = x.calls /\ y.stop = x.stop
         /\ y.mode = x.mode /\ y.cleanup = x.cleanup
<1>1. /\ y \in RunRecord
      /\ y.pc \in {"undo_cancel", "undo_failure"}
      /\ y.pc = "undo_cancel" => x.stop \/ x.interrupted
      /\ y.path = x.path /\ y.mode = x.mode /\ y.limit = x.limit /\ y.state = x.state
      /\ y.stop = x.stop /\ y.verdict = x.verdict /\ y.cleanup = x.cleanup /\ y.task = x.task
      /\ y.calls = x.calls /\ y.requests = x.requests /\ y.own = x.own
      /\ y.interrupted = x.interrupted
  BY DEF Failed, Cancelled, RunRecord, PC
<1>2. Consistent(y)
  BY <1>1 DEF Consistent, Stopped, Ended, InHand, Judged, Spent, Calls
<1> QED
  BY <1>1, <1>2 DEF Owed

LEMMA HandlerOnward ==
  ASSUME NEW x \in RunRecord, Consistent(x), x.pc \in {"select", "step", "verify"},
         NEW y, y = Failed(x) \/ (y = Cancelled(x) /\ (x.stop \/ x.interrupted))
  PROVE  Onward(x, y)
<1>1. ~x.cleanup /\ x.requests \in Nat
  BY DEF Consistent, InHand, RunRecord
<1>2. /\ y \in RunRecord /\ Consistent(y) /\ y.pc \in {"undo_cancel", "undo_failure"}
      /\ Owed(y) = 0
      /\ y.requests = x.requests /\ y.calls = x.calls /\ y.stop = x.stop
      /\ y.mode = x.mode /\ y.cleanup = x.cleanup
  BY HandlerEntered
<1> HIDE DEF Owed
<1> QED
  BY <1>1, <1>2 DEF Onward

LEMMA BegunOnward ==
  ASSUME NEW x \in RunRecord, Consistent(x), x.pc \in {"select", "step"},
         x.state \in {"RUNNING", "CANCELLED"},
         NEW n \in 1 .. Len(Steps[x.path]),
         x.stop => n # 1 /\ ~Steps[x.path][n - 1].last
  PROVE  Onward(x, Begun(x, n))
<1> DEFINE s == Steps[x.path][n]
           y == [x EXCEPT !.step = n,
                          !.task = IF n = 1 \/ Steps[x.path][n - 1].last THEN "RUNNING" ELSE @]
<1>1. /\ x.path \in Path /\ x.mode \in Mode /\ x.limit \in Limits /\ ~x.cleanup
      /\ x.limit.calls \in Nat /\ x.limit.requests \in Nat
      /\ x.requests \in Nat /\ x.calls \in [Agent -> Nat]
  BY AgentRunAssumption DEF Consistent, InHand, RunRecord
<1>2. s.kind \in {"model", "surface", "compare"} /\ s.agent \in Agent /\ n \in Nat
  BY <1>1, StepsFacts
<1>3. /\ y \in RunRecord
      /\ y.pc = x.pc /\ y.path = x.path /\ y.mode = x.mode /\ y.limit = x.limit /\ y.state = x.state
      /\ y.stop = x.stop /\ y.verdict = x.verdict /\ y.cleanup = x.cleanup
      /\ y.calls = x.calls /\ y.requests = x.requests /\ y.own = x.own
      /\ y.interrupted = x.interrupted /\ y.step = n
      /\ x.stop => y.task = x.task
  BY <1>2 DEF RunRecord
<1>4. Begun(x, n) = CASE s.kind = "model" /\ ~Active(y) -> Cancelled(y)
          [] s.kind = "model" /\ Active(y) /\ MayCall(y, s.agent) ->
                [y EXCEPT !.pc = "step", !.calls[s.agent] = @ + 1]
          [] s.kind = "surface" /\ MayRequest(y, 1) -> [Charged(y, 1) EXCEPT !.pc = "step"]
          [] s.kind = "compare" /\ MayRequest(y, 3) -> [Charged(y, 3) EXCEPT !.pc = "step"]
          [] OTHER -> Failed(y)
  BY DEF Begun
<1> HIDE DEF y
<1>5. Consistent(y)
  BY <1>1, <1>3 DEF Consistent, Stopped, Ended, InHand, Judged, Spent, Calls
<1>6. CASE Begun(x, n) = Failed(y) \/ (Begun(x, n) = Cancelled(y) /\ y.stop)
  <2>1. Onward(y, Begun(x, n))
    BY <1>3, <1>5, <1>6, HandlerOnward
  <2> QED
    BY <1>3, <2>1 DEF Onward
<1>7. CASE /\ s.kind = "model" /\ Active(y) /\ MayCall(y, s.agent)
           /\ Begun(x, n) = [y EXCEPT !.pc = "step", !.calls[s.agent] = @ + 1]
  <2> DEFINE w == [y EXCEPT !.pc = "step", !.calls[s.agent] = @ + 1]
  <2>1. /\ w \in RunRecord
        /\ w.pc = "step" /\ w.path = x.path /\ w.mode = x.mode /\ w.limit = x.limit
        /\ w.state = x.state /\ w.stop = x.stop /\ w.verdict = x.verdict /\ w.cleanup = x.cleanup
        /\ w.task = y.task /\ w.requests = x.requests /\ w.own = x.own
        /\ w.interrupted = x.interrupted /\ w.step = n
        /\ w.calls = [x.calls EXCEPT ![s.agent] = @ + 1]
    <3> DEFINE c == [x.calls EXCEPT ![s.agent] = @ + 1]
    <3>1. c \in [Agent -> Nat]
      BY <1>1, <1>2
    <3>2. w = [y EXCEPT !.pc = "step", !.calls = c]
      BY <1>3
    <3> HIDE DEF c, w, s
    <3>3. /\ w \in RunRecord
          /\ w.pc = "step" /\ w.path = x.path /\ w.mode = x.mode /\ w.limit = x.limit
          /\ w.state = x.state /\ w.stop = x.stop /\ w.verdict = x.verdict /\ w.cleanup = x.cleanup
          /\ w.task = y.task /\ w.requests = x.requests /\ w.own = x.own
          /\ w.interrupted = x.interrupted /\ w.step = n /\ w.calls = c
      BY <1>2, <1>3, <3>1, <3>2 DEF RunRecord, PC
    <3> QED
      BY <3>3 DEF c
  <2> HIDE DEF w
  <2>2. Calls(w) = Calls(x) + 1 /\ Calls(x) < x.limit.calls
    <3>1. s.agent = "lead" \/ s.agent = "surface" \/ s.agent = "auth"
      BY <1>2 DEF Agent
    <3>2. Calls(w) = Calls(x) + 1
      <4> HIDE DEF s
      <4> QED
        BY <1>1, <2>1, <3>1 DEF Calls, Agent
    <3>3. Calls(x) < x.limit.calls
      BY <1>3, <1>7 DEF Calls, MayCall
    <3> QED
      BY <3>2, <3>3
  <2>3. Calls(x) \in Nat
    BY <1>1 DEF Calls, Agent
  <2>4. ~x.stop
    BY <1>3, <1>7 DEF Active
  <2>5. Consistent(w)
    BY <1>1, <1>3, <1>5, <2>1, <2>2, <2>3, <2>4 DEF Consistent, Stopped, Ended, InHand, Judged, Spent
  <2>6. Owed(w) = 0
    BY <1>3, <1>7, <2>1, RequestsFacts DEF Owed
  <2> HIDE DEF Owed
  <2>7. Onward(x, w)
    BY <1>1, <2>1, <2>4, <2>5, <2>6 DEF Onward
  <2> QED
    BY <1>7, <2>7 DEF w
<1>8. ASSUME NEW k \in {1, 3}, k = Requests(s.kind), MayRequest(y, k),
             Begun(x, n) = [Charged(y, k) EXCEPT !.pc = "step"]
      PROVE  Onward(x, Begun(x, n))
  <2> DEFINE w == [Charged(y, k) EXCEPT !.pc = "step"]
  <2>1. /\ w \in RunRecord
        /\ w.pc = "step" /\ w.path = x.path /\ w.mode = x.mode /\ w.limit = x.limit
        /\ w.state = x.state /\ w.stop = x.stop /\ w.verdict = x.verdict /\ w.cleanup = x.cleanup
        /\ w.task = y.task /\ w.requests = x.requests + k /\ w.own = x.own
        /\ w.interrupted = x.interrupted /\ w.step = n
        /\ w.calls = x.calls
    <3>1. w = [y EXCEPT !.requests = y.requests + k, !.pc = "step"]
      BY DEF Charged
    <3>2. x.requests + k \in Nat
      BY <1>1
    <3> HIDE DEF w, s
    <3> QED
      BY <1>2, <1>3, <3>1, <3>2 DEF RunRecord, PC
  <2> HIDE DEF w
  <2>2. x.requests + k <= x.limit.requests
    BY <1>3, <1>8 DEF MayRequest
  <2>3. Consistent(w)
    BY <1>1, <1>3, <1>5, <2>1, <2>2 DEF Consistent, Stopped, Ended, InHand, Judged, Spent, Calls
  <2>4. Owed(w) = k
    BY <1>8, <2>1 DEF Owed
  <2> HIDE DEF Owed
  <2>5. Onward(x, w)
    BY <1>1, <2>1, <2>3, <2>4 DEF Onward
  <2> QED
    BY <1>8, <2>5 DEF w
<1> HIDE DEF s
<1>9. \/ Begun(x, n) = Failed(y) \/ (Begun(x, n) = Cancelled(y) /\ y.stop)
      \/ /\ s.kind = "model" /\ Active(y) /\ MayCall(y, s.agent)
         /\ Begun(x, n) = [y EXCEPT !.pc = "step", !.calls[s.agent] = @ + 1]
      \/ \E k \in {1, 3} : /\ k = Requests(s.kind) /\ MayRequest(y, k)
                           /\ Begun(x, n) = [Charged(y, k) EXCEPT !.pc = "step"]
  BY <1>4, RequestsFacts DEF Active
<1> QED
  BY <1>6, <1>7, <1>8, <1>9

LEMMA VerifyingOnward ==
  ASSUME NEW x \in RunRecord, Consistent(x), x.pc = "step", x.state = "RUNNING",
         x.task = "COMPLETED"
  PROVE  Onward(x, Verifying(x))
<1>1. /\ x.path \in Path /\ x.mode \in Mode /\ x.limit \in Limits /\ ~x.cleanup /\ ~x.stop
      /\ x.limit.requests \in Nat /\ x.requests \in Nat
  BY AgentRunAssumption DEF Consistent, Stopped, InHand, RunRecord
<1>2. CASE MayRequest(x, 3)
  <2> DEFINE y == [Charged(x, 3) EXCEPT !.state = "VERIFYING", !.pc = "verify"]
  <2>1. y = [x EXCEPT !.requests = x.requests + 3, !.state = "VERIFYING", !.pc = "verify"]
    BY DEF Charged
  <2> HIDE DEF y
  <2>2. /\ y \in RunRecord
        /\ y.pc = "verify" /\ y.path = x.path /\ y.mode = x.mode /\ y.limit = x.limit
        /\ y.state = "VERIFYING" /\ y.stop = x.stop /\ y.verdict = x.verdict
        /\ y.cleanup = x.cleanup /\ y.task = x.task /\ y.requests = x.requests + 3
        /\ y.own = x.own /\ y.interrupted = x.interrupted /\ y.calls = x.calls
    <3>1. x.requests + 3 \in Nat
      BY <1>1
    <3> QED
      BY <2>1, <3>1 DEF RunRecord, PC, State
  <2>3. Consistent(y)
    BY <1>1, <1>2, <2>2 DEF Consistent, Stopped, Ended, InHand, Judged, Spent, Calls, MayRequest
  <2>4. Owed(y) = 3
    BY <2>2 DEF Owed
  <2>5. Onward(x, y)
    BY <1>1, <2>2, <2>3, <2>4 DEF Onward
  <2> QED
    BY <1>2, <2>5 DEF Verifying, y
<1>3. CASE ~MayRequest(x, 3)
  <2> DEFINE z == [x EXCEPT !.state = "VERIFYING"]
  <2>1. /\ z \in RunRecord
        /\ z.pc = x.pc /\ z.path = x.path /\ z.mode = x.mode /\ z.limit = x.limit
        /\ z.state = "VERIFYING" /\ z.stop = x.stop /\ z.verdict = x.verdict
        /\ z.cleanup = x.cleanup /\ z.task = x.task /\ z.requests = x.requests
        /\ z.own = x.own /\ z.interrupted = x.interrupted /\ z.calls = x.calls /\ z.step = x.step
    BY DEF RunRecord, State
  <2> HIDE DEF z
  <2> DEFINE y == Failed(z)
  <2>2. /\ y \in RunRecord
        /\ y.pc = "undo_failure" /\ y.path = x.path /\ y.mode = x.mode /\ y.limit = x.limit
        /\ y.state = "VERIFYING" /\ y.stop = x.stop /\ y.verdict = x.verdict
        /\ y.cleanup = x.cleanup /\ y.task = x.task /\ y.requests = x.requests
        /\ y.own = x.own /\ y.interrupted = x.interrupted /\ y.calls = x.calls
    BY <2>1 DEF RunRecord, PC, Failed
  <2> HIDE DEF y
  <2>3. Consistent(y)
    BY <1>1, <2>2 DEF Consistent, Stopped, Ended, InHand, Judged, Spent, Calls
  <2>4. Owed(y) = 0
    BY <2>2 DEF Owed
  <2>5. Onward(x, y)
    BY <1>1, <2>2, <2>3, <2>4 DEF Onward
  <2> QED
    BY <1>3, <2>5 DEF Verifying, y, z
<1> QED
  BY <1>2, <1>3

LEMMA AdvancedOnward ==
  ASSUME NEW x \in RunRecord, Consistent(x), x.pc = "step"
  PROVE  Onward(x, Advanced(x))
<1> DEFINE s == Steps[x.path][x.step]
           y == IF s.last THEN [x EXCEPT !.task = "COMPLETED"] ELSE x
<1>1. /\ x.path \in Path /\ x.step \in 1 .. Len(Steps[x.path])
      /\ x.state \in {"RUNNING", "CANCELLED"} /\ Len(Steps[x.path]) \in Nat \ {0}
  BY StepsFacts DEF Consistent, InHand
<1>2. Steps[x.path][Len(Steps[x.path])].last /\ (s.kind # "model" /\ x.step < Len(Steps[x.path]) => ~s.last)
  BY <1>1, StepsFacts
<1>3. /\ y \in RunRecord
      /\ y.pc = x.pc /\ y.path = x.path /\ y.mode = x.mode /\ y.limit = x.limit
      /\ y.state = x.state /\ y.stop = x.stop /\ y.verdict = x.verdict
      /\ y.cleanup = x.cleanup /\ y.requests = x.requests
      /\ y.own = x.own /\ y.interrupted = x.interrupted /\ y.calls = x.calls /\ y.step = x.step
      /\ y.task \in {"COMPLETED", x.task}
      /\ s.last => y.task = "COMPLETED"
  BY DEF RunRecord
<1>4. Advanced(x) = IF s.kind = "model" /\ ~Active(x) THEN Cancelled(x)
                    ELSE IF x.step = Len(Steps[x.path]) THEN Transition(y, "RUNNING", Verifying(y))
                    ELSE Begun(y, x.step + 1)
  BY DEF Advanced
<1> HIDE DEF y
<1>5. Consistent(y)
  BY <1>1, <1>3 DEF Consistent, Stopped, Ended, InHand, Judged, Spent, Calls
<1>6. \A z : Onward(y, z) => Onward(x, z)
  BY <1>3 DEF Onward
<1>7. CASE Advanced(x) = Cancelled(x) /\ ~Active(x)
  BY <1>7, HandlerOnward DEF Active
<1>8. CASE x.step = Len(Steps[x.path]) /\ Advanced(x) = Transition(y, "RUNNING", Verifying(y))
  <2>1. y.task = "COMPLETED"
    BY <1>2, <1>3, <1>8
  <2>2. CASE y.state = "RUNNING"
    BY <1>3, <1>5, <1>6, <1>8, <2>1, <2>2, VerifyingOnward DEF Transition
  <2>3. CASE y.state # "RUNNING"
    BY <1>3, <1>5, <1>6, <1>8, <2>3, HandlerOnward DEF Transition
  <2> QED
    BY <2>2, <2>3
<1>9. CASE /\ x.step # Len(Steps[x.path]) /\ ~(s.kind = "model" /\ ~Active(x))
           /\ Advanced(x) = Begun(y, x.step + 1)
  <2> DEFINE n == x.step + 1
  <2>1. n \in 1 .. Len(Steps[y.path]) /\ n # 1 /\ n - 1 = x.step
    BY <1>1, <1>3, <1>9
  <2>2. y.stop => ~Steps[y.path][n - 1].last
    BY <1>1, <1>2, <1>3, <1>9, <2>1 DEF Active
  <2> HIDE DEF n
  <2>3. Onward(y, Begun(y, n))
    BY <1>1, <1>3, <1>5, <2>1, <2>2, BegunOnward
  <2> QED
    BY <1>6, <1>9, <2>3 DEF n
<1> QED
  BY <1>4, <1>7, <1>8, <1>9

LEMMA WorkingOnward ==
  ASSUME NEW x \in RunRecord, Consistent(x), x.pc = "select"
  PROVE  Onward(x, Transition(x, "RESETTING", Working(x)))
<1>1. CASE x.state = "RESETTING"
  <2> DEFINE y == [x EXCEPT !.state = "RUNNING"]
  <2>1. /\ y \in RunRecord
        /\ y.pc = x.pc /\ y.path = x.path /\ y.mode = x.mode /\ y.limit = x.limit
        /\ y.state = "RUNNING" /\ y.stop = x.stop /\ y.verdict = x.verdict
        /\ y.cleanup = x.cleanup /\ y.requests = x.requests /\ y.task = x.task
        /\ y.own = x.own /\ y.interrupted = x.interrupted /\ y.calls = x.calls
    BY DEF RunRecord, State
  <2> HIDE DEF y
  <2>2. Consistent(y) /\ ~y.stop
    BY <1>1, <2>1 DEF Consistent, Stopped, Ended, InHand, Judged, Spent, Calls
  <2>3. 1 \in 1 .. Len(Steps[y.path])
    BY <2>1, <2>2, StepsFacts DEF Consistent, InHand
  <2>4. Onward(y, Begun(y, 1))
    BY <2>1, <2>2, <2>3, BegunOnward
  <2>5. Onward(x, Begun(y, 1))
    BY <2>1, <2>4 DEF Onward
  <2> QED
    BY <1>1, <2>5 DEF Transition, Working, y
<1>2. CASE x.state # "RESETTING"
  BY <1>2, HandlerOnward DEF Transition
<1> QED
  BY <1>1, <1>2

-----------------------------------------------------------------------------
(* The invariant.                                                            *)

(* One run is replaced by another that is in order; the others do not notice. *)
LEMMA RunChanges ==
  ASSUME IInv, NEW r \in Run, NEW y \in RunRecord, Consistent(y),
         run' = [run EXCEPT ![r] = y],
         UNCHANGED <<operator, restarts>>,
         range' \in [mode : Mode, generation : Nat, by : Run \cup {None}],
         range'.by \in {range.by, r}, range'.by = range.by /\ range.by # r => range'.mode = range.mode,
         range'.by = r /\ y.pc \in {"step", "verify"} => range'.mode = y.mode,
         reached' \in [Run -> Nat], \A q \in Run \ {r} : reached'[q] = reached[q],
         reached'[r] + Owed(y) <= y.requests,
         dirty' \subseteq dirty \cup {r}, y.cleanup => r \notin dirty',
         \/ rows' = rows /\ rows[r] = None
         \/ /\ rows' = [rows EXCEPT ![r] = y]
            /\ y.pc = "over" /\ y.state \in {"COMPLETED", "CANCELLED"}
            /\ y.state = "CANCELLED" => y.verdict = "CANCELLED"
            /\ y.state = "COMPLETED" => y.cleanup /\ y.after > y.before /\ y.verdict \in Verdict
            /\ ~y.interrupted => y.task # "RUNNING"
  PROVE  IInv'
<1>1. \A q \in Run : run'[q] = IF q = r THEN y ELSE run[q]
  BY DEF IInv, TypeOK
<1>2. \A q \in Run : rows'[q] = rows[q] \/ (q = r /\ rows'[q] = y)
  BY DEF IInv, TypeOK
<1>3. TypeOK'
  <2>1. run' \in [Run -> RunRecord]
    BY DEF IInv, TypeOK
  <2>2. rows' \in [Run -> RunRecord \cup {None}]
    BY DEF IInv, TypeOK
  <2>3. dirty' \in SUBSET Run
    BY DEF IInv, TypeOK
  <2> QED
    BY <2>1, <2>2, <2>3 DEF IInv, TypeOK
<1>4. ASSUME NEW q \in Run PROVE Consistent(run[q])'
  BY <1>1 DEF IInv
<1>5. ASSUME NEW q \in Run PROVE Saved(q)'
  <2>1. CASE q # r
    BY <1>1, <1>2, <2>1 DEF IInv, Saved
  <2>2. CASE q = r
    <3>1. (rows'[r] = rows[r] /\ rows[r] = None) \/ rows'[r] = y
      BY <1>2 DEF IInv, TypeOK
    <3>2. rows'[r] # None => rows'[r] = y /\ rows' = [rows EXCEPT ![r] = y]
      BY <3>1
    <3> QED
      BY <1>1, <2>2, <3>2 DEF Saved
  <2> QED
    BY <2>1, <2>2
<1>6. ASSUME NEW q \in Run PROVE Placed(q)'
  <2>1. CASE q # r
    <3>1. run'[q] = run[q] /\ reached'[q] = reached[q]
      BY <1>1, <2>1
    <3>2. Placed(q)
      BY DEF IInv
    <3>3. reached'[q] + Owed(run'[q]) <= run'[q].requests
      BY <3>1, <3>2 DEF Placed
    <3>4. run'[q].pc \in {"step", "verify"} /\ range'.by = q => range'.mode = run'[q].mode
      BY <2>1, <3>1, <3>2 DEF Placed
    <3>5. run'[q].cleanup => q \notin dirty'
      BY <2>1, <3>1, <3>2 DEF Placed
    <3> QED
      BY <3>3, <3>4, <3>5 DEF Placed, Owed
  <2>2. CASE q = r
    BY <1>1, <2>2 DEF Placed, Owed
  <2> QED
    BY <2>1, <2>2
<1> QED
  BY <1>3, <1>4, <1>5, <1>6 DEF IInv

(* Who resets the range leaves it patched and clean. *)
LEMMA PatchedRange ==
  ASSUME IInv, NEW q \in Run \cup {None}
  PROVE  /\ Patched(q) \in [mode : Mode, generation : Nat, by : Run \cup {None}]
         /\ Patched(q).by = q /\ Patched(q).mode = "patched"
  BY DEF IInv, TypeOK, Patched, Mode

(* A run that is not over has no row, and a run in order owes a number. *)
LEMMA NoRowYet ==
  ASSUME IInv, NEW r \in Run, run[r].pc # "over" \/ run[r].state \notin {"COMPLETED", "CANCELLED"}
  PROVE  rows[r] = None
  BY DEF IInv, Saved

LEMMA RunFacts ==
  ASSUME IInv, NEW r \in Run
  PROVE  /\ run[r] \in RunRecord /\ Consistent(run[r]) /\ Placed(r)
         /\ reached[r] \in Nat /\ run[r].requests \in Nat /\ Owed(run[r]) \in Nat
         /\ reached[r] <= run[r].requests
<1>1. run[r] \in RunRecord /\ Consistent(run[r]) /\ Placed(r) /\ reached[r] \in Nat
  BY DEF IInv, TypeOK
<1>2. Owed(run[r]) \in Nat /\ run[r].requests \in Nat
  BY <1>1, OwedIsNat DEF RunRecord
<1> HIDE DEF Owed
<1>3. reached[r] <= run[r].requests
  BY <1>1, <1>2 DEF Placed
<1> QED
  BY <1>1, <1>2, <1>3

LEMMA ExecuteStep ==
  ASSUME IInv, NEW r \in Run, NEW path \in Path, NEW mode \in Mode, NEW limit \in Limits,
         Execute(r, path, mode, limit)
  PROVE  IInv'
<1> DEFINE y == [NoRun EXCEPT !.pc = "reset", !.path = path, !.mode = mode,
                              !.limit = limit, !.state = "RESETTING"]
<1>1. /\ y \in RunRecord
      /\ y.pc = "reset" /\ y.path = path /\ y.mode = mode /\ y.limit = limit
      /\ y.state = "RESETTING" /\ ~y.stop /\ ~y.cleanup /\ ~y.own
      /\ y.calls = [a \in Agent |-> 0] /\ y.requests = 0
  BY DEF NoRun, RunRecord, PC, State
<1> HIDE DEF y
<1>2. limit.calls \in Nat /\ limit.requests \in Nat
  BY AgentRunAssumption
<1>3. Consistent(y) /\ Owed(y) = 0
  BY <1>1, <1>2 DEF Consistent, Stopped, Ended, InHand, Judged, Spent, Calls, Agent, Owed
<1>4. reached[r] = 0
  <2>1. run[r].pc = "none" => run[r].requests = 0
    BY RunFacts DEF Consistent, InHand
  <2> QED
    BY <2>1, RunFacts DEF Execute, At
<1>5. rows[r] = None
  BY NoRowYet DEF Execute, At
<1>6. run' = [run EXCEPT ![r] = y]
  BY DEF Execute, y
<1>7. /\ UNCHANGED <<rows, range, operator, restarts, reached, dirty>>
      /\ range \in [mode : Mode, generation : Nat, by : Run \cup {None}]
      /\ reached \in [Run -> Nat]
  BY DEF Execute, IInv, TypeOK
<1> HIDE DEF Owed
<1>8. reached'[r] + Owed(y) <= y.requests
  BY <1>1, <1>3, <1>4, <1>7
<1>9. /\ range'.by = range.by /\ range'.mode = range.mode
      /\ range'.by = r /\ y.pc \in {"step", "verify"} => range'.mode = y.mode
      /\ \A q \in Run \ {r} : reached'[q] = reached[q]
      /\ reached' \in [Run -> Nat]
      /\ range' \in [mode : Mode, generation : Nat, by : Run \cup {None}]
      /\ dirty' \subseteq dirty \cup {r}
  BY <1>1, <1>7
<1> QED
  BY <1>1, <1>3, <1>5, <1>6, <1>7, <1>8, <1>9, RunChanges

LEMMA ResetStep ==
  ASSUME IInv, NEW r \in Run, ResetAnswered(r) PROVE IInv'
<1> DEFINE x == run[r]
           a == [x EXCEPT !.pc = "select", !.before = range.generation + 1]
           f == Failed(x)
<1>1. /\ x \in RunRecord /\ Consistent(x) /\ x.pc = "reset" /\ ~x.cleanup
      /\ reached[r] \in Nat /\ x.requests \in Nat /\ reached[r] <= x.requests
      /\ rows[r] = None /\ range.generation \in Nat
  BY RunFacts, NoRowYet DEF ResetAnswered, At, Consistent, InHand, IInv, TypeOK
<1>2. /\ run' = [run EXCEPT ![r] = a] \/ run' = [run EXCEPT ![r] = f]
      /\ range' = Patched(r) \/ range' = range
      /\ dirty' \subseteq dirty
      /\ UNCHANGED <<rows, operator, restarts, reached>>
  BY DEF ResetAnswered, Reset
<1>3. a \in RunRecord /\ Consistent(a) /\ Owed(a) = 0 /\ a.requests = x.requests /\ a.pc = "select" /\ ~a.cleanup
  <2>1. /\ a \in RunRecord
        /\ a.pc = "select" /\ a.path = x.path /\ a.mode = x.mode /\ a.limit = x.limit
        /\ a.state = x.state /\ a.stop = x.stop /\ a.verdict = x.verdict
        /\ a.cleanup = x.cleanup /\ a.requests = x.requests /\ a.task = x.task
        /\ a.own = x.own /\ a.interrupted = x.interrupted /\ a.calls = x.calls
    <3>1. range.generation + 1 \in Nat
      BY <1>1
    <3> QED
      BY <1>1, <3>1, ZenonT(60) DEF RunRecord, PC
  <2> HIDE DEF a
  <2> QED
    BY <1>1, <2>1 DEF Consistent, Stopped, Ended, InHand, Judged, Spent, Calls, Owed
<1>4. f \in RunRecord /\ Consistent(f) /\ Owed(f) = 0 /\ f.requests = x.requests /\ f.pc = "undo_failure" /\ ~f.cleanup
  BY <1>1, HandlerEntered DEF Failed, RunRecord
<1>5. /\ range' \in [mode : Mode, generation : Nat, by : Run \cup {None}]
      /\ range'.by \in {range.by, r}
      /\ range'.by = range.by /\ range.by # r => range'.mode = range.mode
  BY <1>2, PatchedRange DEF IInv, TypeOK
<1>6. reached \in [Run -> Nat]
  BY DEF IInv, TypeOK
<1> HIDE DEF a, f, x, Owed
<1> QED
  BY <1>1, <1>2, <1>3, <1>4, <1>5, <1>6, RunChanges

LEMMA SelectStep ==
  ASSUME IInv, NEW r \in Run, SelectAnswered(r) PROVE IInv'
<1> DEFINE x == run[r]
           a == Transition(x, "RESETTING", Working(x))
           f == Failed(x)
           selected == [mode |-> x.mode, generation |-> range.generation + 1, by |-> r]
<1>1. /\ x \in RunRecord /\ Consistent(x) /\ x.pc = "select" /\ ~x.cleanup /\ x.mode \in Mode
      /\ reached[r] \in Nat /\ x.requests \in Nat /\ reached[r] <= x.requests
      /\ rows[r] = None /\ range.generation \in Nat
  BY RunFacts, NoRowYet DEF SelectAnswered, At, Consistent, InHand, IInv, TypeOK
<1>2. /\ \/ run' = [run EXCEPT ![r] = a] /\ range' = selected
         \/ run' = [run EXCEPT ![r] = f] /\ range' \in {selected, range}
      /\ dirty' \subseteq dirty \cup {r}
      /\ UNCHANGED <<rows, operator, restarts, reached>>
  BY DEF SelectAnswered
<1>3. Onward(x, a)
  BY <1>1, WorkingOnward
<1>4. Onward(x, f) /\ f.pc = "undo_failure"
  BY <1>1, HandlerOnward DEF Failed, RunRecord
<1>5. /\ range' \in [mode : Mode, generation : Nat, by : Run \cup {None}]
      /\ range'.by \in {range.by, r}
      /\ range'.by = range.by /\ range.by # r => range'.mode = range.mode
      /\ range' = selected => range'.mode = x.mode
  <2>1. range.generation + 1 \in Nat
    BY <1>1
  <2> HIDE DEF x
  <2> QED
    BY <1>1, <1>2, <2>1 DEF IInv, TypeOK
<1>6. reached \in [Run -> Nat] /\ Owed(a) \in Nat /\ Owed(f) \in Nat
  BY <1>3, <1>4, OwedIsNat DEF IInv, TypeOK, Onward
<1>7. /\ a \in RunRecord /\ Consistent(a) /\ ~a.cleanup /\ a.mode = x.mode
      /\ x.requests + Owed(a) <= a.requests /\ a.requests \in Nat
      /\ f \in RunRecord /\ Consistent(f) /\ ~f.cleanup
      /\ x.requests + Owed(f) <= f.requests /\ f.requests \in Nat
  BY <1>3, <1>4 DEF Onward, RunRecord
<1> HIDE DEF a, f, x, Owed, selected
<1>8. reached[r] + Owed(a) <= a.requests /\ reached[r] + Owed(f) <= f.requests
  BY <1>1, <1>6, <1>7
<1>9. CASE run' = [run EXCEPT ![r] = a] /\ range' = selected
  BY <1>1, <1>2, <1>5, <1>6, <1>7, <1>8, <1>9, RunChanges
<1>10. CASE run' = [run EXCEPT ![r] = f]
  BY <1>1, <1>2, <1>4, <1>5, <1>6, <1>7, <1>8, <1>10, RunChanges
<1> QED
  BY <1>2, <1>9, <1>10

LEMMA StepStep ==
  ASSUME IInv, NEW r \in Run, StepAnswered(r) PROVE IInv'
<1> DEFINE x == run[r]
           kind == Steps[x.path][x.step].kind
<1>1. /\ x \in RunRecord /\ Consistent(x) /\ x.pc = "step" /\ ~x.cleanup
      /\ reached[r] \in Nat /\ x.requests \in Nat /\ Placed(r)
      /\ rows[r] = None
  BY RunFacts, NoRowYet DEF StepAnswered, At, Consistent, InHand
<1>2. Requests(kind) \in {0, 1, 3} /\ Owed(x) = Requests(kind)
  <2>1. kind \in {"model", "surface", "compare"}
    BY <1>1, StepsFacts DEF Consistent, InHand
  <2> HIDE DEF kind
  <2>2. Requests(kind) \in {0, 1, 3}
    BY <2>1, RequestsFacts
  <2> QED
    BY <1>1, <2>2 DEF Owed, kind
<1>3. /\ UNCHANGED <<rows, range, operator, restarts, dirty>>
      /\ \E n \in 0 .. Requests(kind) : reached' = [reached EXCEPT ![r] = @ + n]
      /\ \E y \in {Advanced(x), Failed(x), Cancelled(x)} :
            /\ run' = [run EXCEPT ![r] = y]
            /\ y = Cancelled(x) => y = Advanced(x) \/ x.stop
  <2>1. CASE /\ reached' = [reached EXCEPT ![r] = @ + Requests(kind)]
             /\ run' = [run EXCEPT ![r] = Advanced(@)]
    <3>1. Requests(kind) \in 0 .. Requests(kind)
      BY <1>2
    <3> HIDE DEF kind
    <3> QED
      BY <2>1, <3>1 DEF StepAnswered
  <2>2. CASE /\ run' = [run EXCEPT ![r] = IF Active(@) THEN Failed(@) ELSE Cancelled(@)]
             /\ UNCHANGED reached
    <3>1. 0 \in 0 .. Requests(kind) /\ reached' = [reached EXCEPT ![r] = @ + 0]
      BY <1>1, <1>2, <2>2 DEF IInv, TypeOK
    <3>2. run' = [run EXCEPT ![r] = IF Active(x) THEN Failed(x) ELSE Cancelled(x)]
      BY <2>2
    <3>3. Failed(x).pc # Cancelled(x).pc
      BY <1>1 DEF Failed, Cancelled, RunRecord
    <3> HIDE DEF kind, x
    <3> QED
      BY <3>1, <3>2, <3>3 DEF StepAnswered, Active
  <2>3. CASE /\ \E n \in 0 .. Requests(kind) : reached' = [reached EXCEPT ![r] = @ + n]
             /\ run' = [run EXCEPT ![r] = Failed(@)]
    <3>1. Failed(x).pc # Cancelled(x).pc
      BY <1>1 DEF Failed, Cancelled, RunRecord
    <3> HIDE DEF kind
    <3> QED
      BY <2>3, <3>1 DEF StepAnswered
  <2> QED
    BY <2>1, <2>2, <2>3 DEF StepAnswered
<1>4. PICK y \in {Advanced(x), Failed(x), Cancelled(x)} :
        run' = [run EXCEPT ![r] = y] /\ (y = Cancelled(x) => y = Advanced(x) \/ x.stop)
  BY <1>3
<1>5. Onward(x, y)
  BY <1>1, <1>4, AdvancedOnward, HandlerOnward
<1>6. PICK n \in 0 .. Requests(kind) : reached' = [reached EXCEPT ![r] = @ + n]
  BY <1>3
<1> HIDE DEF x, kind
<1>7. /\ reached' \in [Run -> Nat] /\ \A q \in Run \ {r} : reached'[q] = reached[q]
      /\ reached'[r] = reached[r] + n
      /\ n \in Nat /\ n <= Owed(x) /\ Owed(x) \in Nat
  <2>1. n \in Nat /\ n <= Owed(x)
    BY <1>2, <1>6
  <2> QED
    BY <1>2, <1>6, <2>1 DEF IInv, TypeOK
<1>8. /\ y \in RunRecord /\ Consistent(y) /\ ~y.cleanup /\ y.mode = x.mode
      /\ x.requests + Owed(y) <= y.requests /\ y.requests \in Nat /\ Owed(y) \in Nat
  BY <1>5, OwedIsNat DEF Onward, RunRecord
<1>9. reached[r] + Owed(x) <= x.requests /\ (range.by = r => range.mode = x.mode)
  BY <1>1 DEF Placed, x
<1> HIDE DEF Owed
<1>10. reached'[r] + Owed(y) <= y.requests
  BY <1>1, <1>7, <1>8, <1>9
<1>11. range \in [mode : Mode, generation : Nat, by : Run \cup {None}]
  BY DEF IInv, TypeOK
<1> QED
  BY <1>1, <1>3, <1>4, <1>7, <1>8, <1>9, <1>10, <1>11, RunChanges

LEMMA VerifyStep ==
  ASSUME IInv, NEW r \in Run, VerifyAnswered(r) PROVE IInv'
<1> DEFINE x == run[r]
           j(v) == [x EXCEPT !.verdict = v, !.own = range.by = r]
<1>1. /\ x \in RunRecord /\ Consistent(x) /\ x.pc = "verify" /\ ~x.cleanup
      /\ reached[r] \in Nat /\ x.requests \in Nat /\ Placed(r)
      /\ rows[r] = None /\ range.mode \in Mode
  BY RunFacts, NoRowYet DEF VerifyAnswered, At, Consistent, InHand, IInv, TypeOK
<1>2. /\ UNCHANGED <<rows, range, operator, restarts, dirty>>
      /\ \E n \in 0 .. 3 : reached' = [reached EXCEPT ![r] = @ + n]
      /\ \/ run' = [run EXCEPT ![r] = Failed(x)]
         \/ \E v \in {IF range.mode = "vulnerable" THEN "CONFIRMED" ELSE "PASS", "INCOMPLETE"} :
               \/ run' = [run EXCEPT ![r] = Transition(j(v), "VERIFYING", Cleaning(j(v)))]
               \/ run' = [run EXCEPT ![r] = Failed(j(v))]
  <2>1. CASE /\ reached' = [reached EXCEPT ![r] = @ + 3]
             /\ \E v \in {IF range.mode = "vulnerable" THEN "CONFIRMED" ELSE "PASS", "INCOMPLETE"} :
                  \/ run' = [run EXCEPT ![r] = Transition(j(v), "VERIFYING", Cleaning(j(v)))]
                  \/ run' = [run EXCEPT ![r] = Failed(j(v))]
    <3>1. 3 \in 0 .. 3
      OBVIOUS
    <3> HIDE DEF x, j
    <3> QED
      BY <2>1, <3>1 DEF VerifyAnswered
  <2>2. CASE /\ \E n \in 0 .. 3 : reached' = [reached EXCEPT ![r] = @ + n]
             /\ run' = [run EXCEPT ![r] = Failed(@)]
    BY <2>2 DEF VerifyAnswered
  <2> QED
    BY <2>1, <2>2 DEF VerifyAnswered
<1>3. ASSUME NEW v \in {IF range.mode = "vulnerable" THEN "CONFIRMED" ELSE "PASS", "INCOMPLETE"}
      PROVE  /\ j(v) \in RunRecord /\ Consistent(j(v)) /\ j(v).pc = "verify" /\ ~j(v).cleanup
             /\ j(v).requests = x.requests /\ j(v).verdict \in Verdict
  <2> DEFINE y == j(v)
  <2>1. v \in Verdict
    BY DEF Verdict
  <2>2. /\ y \in RunRecord
        /\ y.pc = x.pc /\ y.path = x.path /\ y.mode = x.mode /\ y.limit = x.limit
        /\ y.state = x.state /\ y.stop = x.stop /\ y.verdict = v
        /\ y.cleanup = x.cleanup /\ y.requests = x.requests /\ y.task = x.task
        /\ y.own <=> range.by = r
        /\ y.interrupted = x.interrupted /\ y.calls = x.calls /\ y.step = x.step
    BY <1>1, <2>1, ZenonT(60) DEF RunRecord
  <2>3. range.by = r => range.mode = x.mode
    BY <1>1 DEF Placed
  <2> HIDE DEF y
  <2>4. Judged(y)
    BY <1>1, <2>1, <2>2, <2>3 DEF Judged, Consistent, Mode, Verdict
  <2>5. Consistent(y)
    BY <1>1, <2>2, <2>4 DEF Consistent, Stopped, Ended, InHand, Spent, Calls
  <2> QED
    BY <1>1, <2>1, <2>2, <2>5 DEF y
<1>4. ASSUME NEW z \in RunRecord, Consistent(z), z.pc = "verify", ~z.cleanup, z.verdict \in Verdict,
             z.state = "VERIFYING"
      PROVE  /\ Cleaning(z) \in RunRecord /\ Consistent(Cleaning(z)) /\ Cleaning(z).pc = "cleanup"
             /\ ~Cleaning(z).cleanup /\ Cleaning(z).requests = z.requests
  <2> DEFINE y == Cleaning(z)
  <2>1. /\ y \in RunRecord
        /\ y.pc = "cleanup" /\ y.path = z.path /\ y.mode = z.mode /\ y.limit = z.limit
        /\ y.state = "CLEANING_UP" /\ y.stop = z.stop /\ y.verdict = z.verdict
        /\ y.cleanup = z.cleanup /\ y.requests = z.requests /\ y.task = z.task
        /\ y.own = z.own /\ y.interrupted = z.interrupted /\ y.calls = z.calls
    BY DEF RunRecord, Cleaning, PC, State
  <2> HIDE DEF y
  <2>2. Consistent(y)
    BY <1>4, <2>1 DEF Consistent, Stopped, Ended, InHand, Judged, Spent, Calls
  <2> QED
    BY <1>4, <2>1, <2>2 DEF y
<1>5. ASSUME NEW z \in RunRecord, Consistent(z), z.pc = "verify", ~z.cleanup
      PROVE  /\ Failed(z) \in RunRecord /\ Consistent(Failed(z)) /\ Failed(z).pc = "undo_failure"
             /\ ~Failed(z).cleanup /\ Failed(z).requests = z.requests
  <2>1. Failed(z).pc = "undo_failure"
    BY DEF Failed, RunRecord
  <2> QED
    BY <1>5, <2>1, HandlerEntered
<1>6. \E y \in RunRecord :
         /\ Consistent(y) /\ y.pc \in {"cleanup", "undo_failure"} /\ ~y.cleanup
         /\ y.requests = x.requests /\ run' = [run EXCEPT ![r] = y]
  <2> HIDE DEF x, j
  <2>1. CASE run' = [run EXCEPT ![r] = Failed(x)]
    BY <1>1, <1>5, <2>1
  <2>2. CASE \E v \in {IF range.mode = "vulnerable" THEN "CONFIRMED" ELSE "PASS", "INCOMPLETE"} :
               \/ run' = [run EXCEPT ![r] = Transition(j(v), "VERIFYING", Cleaning(j(v)))]
               \/ run' = [run EXCEPT ![r] = Failed(j(v))]
    <3>1. PICK v \in {IF range.mode = "vulnerable" THEN "CONFIRMED" ELSE "PASS", "INCOMPLETE"} :
               \/ run' = [run EXCEPT ![r] = Transition(j(v), "VERIFYING", Cleaning(j(v)))]
               \/ run' = [run EXCEPT ![r] = Failed(j(v))]
      BY <2>2
    <3>2. \/ run' = [run EXCEPT ![r] = Cleaning(j(v))] /\ j(v).state = "VERIFYING"
          \/ run' = [run EXCEPT ![r] = Failed(j(v))]
      BY <3>1 DEF Transition
    <3> QED
      BY <1>3, <1>4, <1>5, <3>2
  <2> QED
    BY <1>2, <2>1, <2>2
<1>7. PICK y \in RunRecord :
         /\ Consistent(y) /\ y.pc \in {"cleanup", "undo_failure"} /\ ~y.cleanup
         /\ y.requests = x.requests /\ run' = [run EXCEPT ![r] = y]
  BY <1>6
<1>8. PICK n \in 0 .. 3 : reached' = [reached EXCEPT ![r] = @ + n]
  BY <1>2
<1>9. Owed(y) = 0 /\ Owed(x) = 3
  BY <1>1, <1>7 DEF Owed
<1>10. reached[r] + 3 <= x.requests
  BY <1>1, <1>9 DEF Placed
<1>11. reached' \in [Run -> Nat] /\ reached'[r] = reached[r] + n
       /\ (\A q \in Run \ {r} : reached'[q] = reached[q])
       /\ range \in [mode : Mode, generation : Nat, by : Run \cup {None}]
  BY <1>8 DEF IInv, TypeOK
<1> HIDE DEF Owed, x, j
<1>12. reached'[r] + Owed(y) <= y.requests
  BY <1>1, <1>7, <1>9, <1>10, <1>11
<1> QED
  BY <1>1, <1>2, <1>7, <1>9, <1>11, <1>12, RunChanges

(* A step of a run whose targets get nothing more: what is left to show of it. *)
LEMMA QuietChange ==
  ASSUME IInv, NEW r \in Run, NEW y \in RunRecord, Consistent(y),
         run' = [run EXCEPT ![r] = y], UNCHANGED <<operator, restarts, reached>>,
         y.requests = run[r].requests, Owed(y) = 0 \/ Owed(y) = Owed(run[r]),
         y.mode = run[r].mode, y.pc \in {"step", "verify"} => run[r].pc = y.pc,
         \/ range' = range /\ dirty' = dirty /\ (y.cleanup => run[r].cleanup)
         \/ range' = Patched(r) /\ dirty' = {} /\ y.pc \notin {"step", "verify"}
         \/ range' \in {range, Patched(r)} /\ dirty' \subseteq dirty /\ ~y.cleanup
            /\ y.pc \notin {"step", "verify"},
         \/ rows' = rows /\ rows[r] = None
         \/ /\ rows' = [rows EXCEPT ![r] = y]
            /\ y.pc = "over" /\ y.state \in {"COMPLETED", "CANCELLED"}
            /\ y.state = "CANCELLED" => y.verdict = "CANCELLED"
            /\ y.state = "COMPLETED" => y.cleanup /\ y.after > y.before /\ y.verdict \in Verdict
            /\ ~y.interrupted => y.task # "RUNNING"
  PROVE  IInv'
<1>1. /\ reached[r] \in Nat /\ run[r].requests \in Nat /\ Owed(run[r]) \in Nat
      /\ reached[r] <= run[r].requests
  BY RunFacts
<1>2. /\ reached[r] + Owed(run[r]) <= run[r].requests
      /\ run[r].pc \in {"step", "verify"} /\ range.by = r => range.mode = run[r].mode
      /\ run[r].cleanup => r \notin dirty
  BY DEF IInv, Placed
<1> HIDE DEF Owed
<1>3. reached'[r] + Owed(y) <= y.requests
  BY <1>1, <1>2
<1>4. /\ range' \in [mode : Mode, generation : Nat, by : Run \cup {None}]
      /\ range'.by \in {range.by, r}
      /\ range'.by = range.by /\ range.by # r => range'.mode = range.mode
      /\ range' = range \/ y.pc \notin {"step", "verify"}
  BY PatchedRange DEF IInv, TypeOK
<1>5. /\ range'.by = r /\ y.pc \in {"step", "verify"} => range'.mode = y.mode
      /\ dirty' \subseteq dirty \cup {r} /\ (y.cleanup => r \notin dirty')
  BY <1>2, <1>4
<1>6. reached' \in [Run -> Nat] /\ \A q \in Run \ {r} : reached'[q] = reached[q]
  BY DEF IInv, TypeOK
<1> QED
  BY <1>3, <1>4, <1>5, <1>6, RunChanges

LEMMA CleanupStep ==
  ASSUME IInv, NEW r \in Run, CleanupAnswered(r) PROVE IInv'
<1> DEFINE x == run[r]
           b == range.generation + 1 > x.before
           c == [x EXCEPT !.after = range.generation + 1, !.cleanup = b]
           e == [c EXCEPT !.state = "COMPLETED", !.pc = "over"]
<1>1. /\ x \in RunRecord /\ Consistent(x) /\ x.pc = "cleanup" /\ ~x.cleanup
      /\ rows[r] = None /\ range.generation + 1 \in Nat
  BY RunFacts, NoRowYet, SMTT(30) DEF CleanupAnswered, At, Consistent, InHand, IInv, TypeOK
<1>2. /\ c \in RunRecord
      /\ c.pc = x.pc /\ c.path = x.path /\ c.mode = x.mode /\ c.limit = x.limit /\ c.state = x.state
      /\ c.stop = x.stop /\ c.verdict = x.verdict /\ (c.cleanup <=> b) /\ c.requests = x.requests
      /\ c.task = x.task /\ c.own = x.own /\ c.interrupted = x.interrupted /\ c.calls = x.calls
      /\ c.after = range.generation + 1 /\ c.before = x.before
  <2>1. b \in BOOLEAN
    OBVIOUS
  <2> HIDE DEF b
  <2> QED
    BY <1>1, <2>1, ZenonT(60) DEF RunRecord
<1>3. /\ UNCHANGED <<operator, restarts, reached>>
      /\ \/ /\ c.cleanup /\ x.state = "CLEANING_UP"
            /\ range' = Patched(r) /\ dirty' = {} /\ run' = [run EXCEPT ![r] = e]
            /\ rows' = [rows EXCEPT ![r] = e] \/ rows' = rows
         \/ range' = Patched(r) /\ dirty' = {} /\ run' = [run EXCEPT ![r] = Failed(c)] /\ rows' = rows
         \/ /\ range' \in {range, Patched(r)} /\ dirty' \subseteq dirty
            /\ run' = [run EXCEPT ![r] = Failed(x)] /\ rows' = rows
  <2> HIDE DEF x, b
  <2> QED
    BY <1>2 DEF CleanupAnswered, Save, Reset, x, b
<1> HIDE DEF c
<1>4. ASSUME c.cleanup, x.state = "CLEANING_UP"
      PROVE  /\ e \in RunRecord /\ Consistent(e) /\ e.pc = "over" /\ e.requests = x.requests
             /\ e.mode = x.mode /\ e.state = "COMPLETED" /\ e.cleanup /\ e.after > e.before
             /\ e.verdict \in Verdict /\ e.task # "RUNNING" /\ Owed(e) = 0
  <2>1. /\ e \in RunRecord
        /\ e.pc = "over" /\ e.path = c.path /\ e.mode = c.mode /\ e.limit = c.limit
        /\ e.state = "COMPLETED" /\ e.stop = c.stop /\ e.verdict = c.verdict
        /\ e.cleanup = c.cleanup /\ e.requests = c.requests /\ e.task = c.task
        /\ e.own = c.own /\ e.interrupted = c.interrupted /\ e.calls = c.calls
        /\ e.after = c.after /\ e.before = c.before
    BY <1>2 DEF RunRecord, PC, State, Terminal
  <2> HIDE DEF e
  <2>2. Consistent(e)
    BY <1>1, <1>2, <1>4, <2>1 DEF Consistent, Stopped, Ended, InHand, Judged, Spent, Calls
  <2>3. x.task = "COMPLETED" /\ x.verdict \in Verdict
    BY <1>1, <1>4 DEF Consistent, Judged
  <2>4. b
    BY <1>2, <1>4
  <2>5. e.task # "RUNNING" /\ e.verdict \in Verdict
    BY <1>2, <2>1, <2>3
  <2>6. e.after > e.before /\ Owed(e) = 0
    BY <1>2, <2>1, <2>4 DEF Owed
  <2> QED
    BY <1>2, <1>4, <2>1, <2>2, <2>5, <2>6
<1>5. /\ Failed(c) \in RunRecord /\ Consistent(Failed(c)) /\ Failed(c).requests = x.requests
      /\ Failed(c).mode = x.mode /\ Failed(c).pc = "undo_failure" /\ Owed(Failed(c)) = 0
  <2> DEFINE f == Failed(c)
  <2>1. /\ f \in RunRecord
        /\ f.pc = "undo_failure" /\ f.path = c.path /\ f.mode = c.mode /\ f.limit = c.limit
        /\ f.state = c.state /\ f.stop = c.stop /\ f.verdict = c.verdict
        /\ f.cleanup = c.cleanup /\ f.requests = c.requests /\ f.task = c.task
        /\ f.own = c.own /\ f.interrupted = c.interrupted /\ f.calls = c.calls
    BY <1>2 DEF RunRecord, PC, Failed
  <2> HIDE DEF f
  <2>2. Consistent(f)
    BY <1>1, <1>2, <2>1 DEF Consistent, Stopped, Ended, InHand, Judged, Spent, Calls
  <2>3. Owed(f) = 0
    BY <2>1 DEF Owed
  <2> QED
    BY <1>2, <2>1, <2>2, <2>3 DEF f
<1>6. /\ Failed(x) \in RunRecord /\ Consistent(Failed(x)) /\ Failed(x).requests = x.requests
      /\ Failed(x).mode = x.mode /\ Failed(x).pc = "undo_failure" /\ Owed(Failed(x)) = 0
      /\ ~Failed(x).cleanup
  <2>1. Failed(x).pc = "undo_failure"
    BY <1>1 DEF Failed, RunRecord
  <2> QED
    BY <1>1, <2>1, HandlerEntered
<1> HIDE DEF Owed, e, b
<1>7. CASE /\ c.cleanup /\ x.state = "CLEANING_UP"
           /\ range' = Patched(r) /\ dirty' = {} /\ run' = [run EXCEPT ![r] = e]
           /\ rows' = [rows EXCEPT ![r] = e] \/ rows' = rows
  BY <1>1, <1>3, <1>4, <1>7, QuietChange
<1>8. CASE range' = Patched(r) /\ dirty' = {} /\ run' = [run EXCEPT ![r] = Failed(c)] /\ rows' = rows
  BY <1>1, <1>3, <1>5, <1>8, QuietChange
<1>9. CASE /\ range' \in {range, Patched(r)} /\ dirty' \subseteq dirty
           /\ run' = [run EXCEPT ![r] = Failed(x)] /\ rows' = rows
  BY <1>1, <1>3, <1>6, <1>9, QuietChange
<1> QED
  BY <1>3, <1>7, <1>8, <1>9

LEMMA CancelUndoneStep ==
  ASSUME IInv, NEW r \in Run, CancelUndone(r) PROVE IInv'
<1> DEFINE x == run[r]
           z == [x EXCEPT !.pc = "over", !.verdict = "CANCELLED",
                          !.state = IF @ \in Terminal THEN @ ELSE "CANCELLED"]
           y1 == [z EXCEPT !.after = range.generation + 1, !.cleanup = TRUE]
           y2 == [z EXCEPT !.cleanup = FALSE]
           y3 == [x EXCEPT !.pc = "over"]
<1>1. /\ x \in RunRecord /\ Consistent(x) /\ x.pc = "undo_cancel"
      /\ rows[r] = None /\ range.generation + 1 \in Nat
  BY RunFacts, NoRowYet DEF CancelUndone, At, IInv, TypeOK
<1>2. /\ z \in RunRecord
      /\ z.pc = "over" /\ z.path = x.path /\ z.mode = x.mode /\ z.limit = x.limit
      /\ z.state = "CANCELLED" /\ z.verdict = "CANCELLED"
      /\ z.stop = x.stop /\ z.requests = x.requests
      /\ z.task = x.task /\ z.own = x.own /\ z.interrupted = x.interrupted /\ z.calls = x.calls
  <2>1. x.state \notin {"COMPLETED", "FAILED"}
    BY <1>1 DEF Consistent, Ended
  <2>2. (IF x.state \in Terminal THEN x.state ELSE "CANCELLED") = "CANCELLED"
    BY <2>1 DEF Terminal
  <2>3. z = [x EXCEPT !.pc = "over", !.verdict = "CANCELLED", !.state = "CANCELLED"]
    BY <2>2
  <2> HIDE DEF z
  <2> QED
    BY <1>1, <2>3, ZenonT(60) DEF RunRecord, PC, State, Terminal
<1>3. Consistent(z) /\ (~z.interrupted => z.task # "RUNNING")
  <2> HIDE DEF z
  <2> QED
    BY <1>1, <1>2 DEF Consistent, Stopped, Ended, InHand, Judged, Spent, Calls, Verdict
<1>4. ASSUME NEW y, y = y1 \/ y = y2
      PROVE  /\ y \in RunRecord /\ Consistent(y) /\ y.pc = "over" /\ y.state = "CANCELLED"
             /\ y.verdict = "CANCELLED" /\ y.requests = x.requests /\ y.mode = x.mode
             /\ (~y.interrupted => y.task # "RUNNING") /\ Owed(y) = 0
             /\ y = y2 => ~y.cleanup
  <2> HIDE DEF z
  <2>1. /\ y \in RunRecord
        /\ y.pc = z.pc /\ y.path = z.path /\ y.mode = z.mode /\ y.limit = z.limit
        /\ y.state = z.state /\ y.verdict = z.verdict /\ y.stop = z.stop /\ y.requests = z.requests
        /\ y.task = z.task /\ y.own = z.own /\ y.interrupted = z.interrupted /\ y.calls = z.calls
        /\ y = y2 => ~y.cleanup
    <3>1. CASE y = y1
      <4>1. y1 # y2
        BY <1>1, <1>2 DEF RunRecord
      <4> QED
        BY <1>1, <1>2, <3>1, <4>1, ZenonT(60) DEF RunRecord
    <3>2. CASE y = y2
      BY <1>1, <1>2, <3>2, ZenonT(60) DEF RunRecord
    <3> QED
      BY <1>4, <3>1, <3>2
  <2> HIDE DEF y1, y2
  <2>2. Consistent(y)
    BY <1>2, <1>3, <2>1 DEF Consistent, Stopped, Ended, InHand, Judged, Spent, Calls
  <2>3. Owed(y) = 0
    BY <1>2, <2>1 DEF Owed
  <2> QED
    BY <1>2, <1>3, <2>1, <2>2, <2>3
<1>5. /\ y3 \in RunRecord /\ Consistent(y3) /\ y3.requests = x.requests /\ y3.mode = x.mode
      /\ y3.pc = "over" /\ Owed(y3) = 0 /\ (y3.cleanup <=> x.cleanup)
  <2>1. /\ y3 \in RunRecord
        /\ y3.pc = "over" /\ y3.path = x.path /\ y3.mode = x.mode /\ y3.limit = x.limit
        /\ y3.state = x.state /\ y3.verdict = x.verdict /\ y3.stop = x.stop
        /\ y3.requests = x.requests /\ y3.cleanup = x.cleanup
        /\ y3.task = x.task /\ y3.own = x.own /\ y3.interrupted = x.interrupted /\ y3.calls = x.calls
    BY <1>1 DEF RunRecord, PC
  <2> HIDE DEF y3
  <2>2. Consistent(y3)
    BY <1>1, <2>1 DEF Consistent, Stopped, Ended, InHand, Judged, Spent, Calls
  <2> QED
    BY <2>1, <2>2 DEF Owed
<1> HIDE DEF z
<1>6. /\ UNCHANGED <<operator, restarts, reached>>
      /\ \/ /\ range' = Patched(r) /\ dirty' = {} /\ run' = [run EXCEPT ![r] = y1]
            /\ rows' = [rows EXCEPT ![r] = y1] \/ rows' = rows
         \/ /\ (range' = Patched(r) /\ dirty' = {}) \/ UNCHANGED <<range, dirty>>
            /\ \/ /\ run' = [run EXCEPT ![r] = y2]
                  /\ rows' = [rows EXCEPT ![r] = y2] \/ rows' = rows
               \/ run' = [run EXCEPT ![r] = y3] /\ rows' = rows
  BY DEF CancelUndone, Save, z
<1> HIDE DEF Owed, y1, y2, y3
<1>7. CASE /\ range' = Patched(r) /\ dirty' = {} /\ run' = [run EXCEPT ![r] = y1]
           /\ rows' = [rows EXCEPT ![r] = y1] \/ rows' = rows
  BY <1>1, <1>4, <1>6, <1>7, QuietChange
<1>8. CASE /\ (range' = Patched(r) /\ dirty' = {}) \/ UNCHANGED <<range, dirty>>
           /\ run' = [run EXCEPT ![r] = y2]
           /\ rows' = [rows EXCEPT ![r] = y2] \/ rows' = rows
  BY <1>1, <1>4, <1>6, <1>8, QuietChange
<1>9. CASE /\ (range' = Patched(r) /\ dirty' = {}) \/ UNCHANGED <<range, dirty>>
           /\ run' = [run EXCEPT ![r] = y3] /\ rows' = rows
  BY <1>1, <1>5, <1>6, <1>9, QuietChange
<1> QED
  BY <1>6, <1>7, <1>8, <1>9

LEMMA FailureUndoneStep ==
  ASSUME IInv, NEW r \in Run, FailureUndone(r) PROVE IInv'
<1> DEFINE x == run[r]
           b == range.generation + 1 > x.before
           z == [x EXCEPT !.pc = "over",
                          !.task = IF @ = "RUNNING" THEN "FAILED" ELSE @,
                          !.state = IF @ \in Terminal THEN @ ELSE "FAILED"]
           y1 == [z EXCEPT !.after = range.generation + 1, !.cleanup = b]
           y2 == [z EXCEPT !.cleanup = FALSE]
<1>1. /\ x \in RunRecord /\ Consistent(x) /\ x.pc = "undo_failure"
      /\ rows[r] = None /\ range.generation + 1 \in Nat
  BY RunFacts, NoRowYet DEF FailureUndone, At, IInv, TypeOK
<1>2. /\ z \in RunRecord
      /\ z.pc = "over" /\ z.path = x.path /\ z.mode = x.mode /\ z.limit = x.limit
      /\ z.state \in {"CANCELLED", "FAILED"} /\ z.verdict = x.verdict /\ z.task # "RUNNING"
      /\ z.state = "CANCELLED" \/ x.state # "CANCELLED"
      /\ z.stop = x.stop /\ z.requests = x.requests
      /\ z.own = x.own /\ z.interrupted = x.interrupted /\ z.calls = x.calls
  <2> DEFINE t == IF x.task = "RUNNING" THEN "FAILED" ELSE x.task
             s == IF x.state \in Terminal THEN x.state ELSE "FAILED"
  <2>1. x.state \notin {"COMPLETED", "FAILED"}
    BY <1>1 DEF Consistent, Ended
  <2>2. s \in {"CANCELLED", "FAILED"} /\ (s = "CANCELLED" \/ x.state # "CANCELLED")
    BY <2>1 DEF Terminal
  <2>3. t \in {"COMPLETED", "FAILED", "CANCELLED", None} /\ t # "RUNNING"
    BY <1>1 DEF RunRecord
  <2>4. z = [x EXCEPT !.pc = "over", !.task = t, !.state = s]
    OBVIOUS
  <2> HIDE DEF z, t, s
  <2>5. /\ z.pc = "over" /\ z.path = x.path /\ z.mode = x.mode /\ z.limit = x.limit
        /\ z.state = s /\ z.verdict = x.verdict /\ z.task = t
        /\ z.stop = x.stop /\ z.requests = x.requests
        /\ z.own = x.own /\ z.interrupted = x.interrupted /\ z.calls = x.calls
    BY <1>1, <2>4 DEF RunRecord
  <2>6. z \in RunRecord
    <3>1. s \in State /\ "over" \in PC
      BY <2>2 DEF State, Terminal, PC
    <3>2. t \in {"RUNNING", "COMPLETED", "FAILED", "CANCELLED", None}
      BY <2>3
    <3> QED
      BY <1>1, <2>4, <3>1, <3>2, ZenonT(60) DEF RunRecord
  <2> QED
    BY <1>1, <2>2, <2>3, <2>5, <2>6
<1>3. Consistent(z)
  <2> HIDE DEF z
  <2> QED
    BY <1>1, <1>2 DEF Consistent, Stopped, Ended, InHand, Judged, Spent, Calls
<1>4. ASSUME NEW y, y = y1 \/ y = y2
      PROVE  /\ y \in RunRecord /\ Consistent(y) /\ y.pc = "over" /\ y.requests = x.requests
             /\ y.mode = x.mode /\ Owed(y) = 0 /\ (y = y2 => ~y.cleanup)
  <2>0. b \in BOOLEAN
    OBVIOUS
  <2> HIDE DEF z, b
  <2>1. /\ y \in RunRecord
        /\ y.pc = z.pc /\ y.path = z.path /\ y.mode = z.mode /\ y.limit = z.limit
        /\ y.state = z.state /\ y.verdict = z.verdict /\ y.stop = z.stop /\ y.requests = z.requests
        /\ y.task = z.task /\ y.own = z.own /\ y.interrupted = z.interrupted /\ y.calls = z.calls
        /\ y = y2 => ~y.cleanup
    <3>1. CASE y = y2
      BY <1>1, <1>2, <3>1, ZenonT(60) DEF RunRecord
    <3>2. CASE y = y1 /\ y # y2
      BY <1>1, <1>2, <2>0, <3>2, ZenonT(60) DEF RunRecord
    <3> QED
      BY <1>4, <3>1, <3>2
  <2> HIDE DEF y1, y2
  <2>2. Consistent(y)
    BY <1>2, <1>3, <2>1 DEF Consistent, Stopped, Ended, InHand, Judged, Spent, Calls
  <2> QED
    BY <1>2, <2>1, <2>2 DEF Owed
<1> HIDE DEF z
<1>5. /\ UNCHANGED <<rows, operator, restarts, reached>>
      /\ \/ range' = Patched(r) /\ dirty' = {} /\ run' = [run EXCEPT ![r] = y1]
         \/ /\ (range' = Patched(r) /\ dirty' = {}) \/ UNCHANGED <<range, dirty>>
            /\ run' = [run EXCEPT ![r] = y2]
  BY DEF FailureUndone, Reset, z
<1> HIDE DEF Owed, y1, y2
<1>6. CASE range' = Patched(r) /\ dirty' = {} /\ run' = [run EXCEPT ![r] = y1]
  BY <1>1, <1>4, <1>5, <1>6, QuietChange
<1>7. CASE /\ (range' = Patched(r) /\ dirty' = {}) \/ UNCHANGED <<range, dirty>>
           /\ run' = [run EXCEPT ![r] = y2]
  BY <1>1, <1>4, <1>5, <1>7, QuietChange
<1> QED
  BY <1>5, <1>6, <1>7

LEMMA CancelStep ==
  ASSUME IInv, NEW r \in Run, Cancel(r) PROVE IInv'
<1> DEFINE x == run[r]
           t == IF x.task = "RUNNING" THEN "CANCELLED" ELSE x.task
           y == [x EXCEPT !.stop = TRUE, !.state = "CANCELLED", !.verdict = "CANCELLED", !.task = t]
<1>1. /\ x \in RunRecord /\ Consistent(x) /\ x.pc # "none" /\ x.state \notin Terminal
      /\ rows[r] = None
  BY RunFacts, NoRowYet DEF Cancel, At, Terminal
<1>2. run' = [run EXCEPT ![r] = y] /\ UNCHANGED <<rows, range, operator, restarts, reached, dirty>>
  BY DEF Cancel
<1>3. t \in {"COMPLETED", "FAILED", "CANCELLED", None} /\ t # "RUNNING"
  BY <1>1 DEF RunRecord
<1> HIDE DEF t
<1>4. /\ y \in RunRecord
      /\ y.pc = x.pc /\ y.path = x.path /\ y.mode = x.mode /\ y.limit = x.limit /\ y.step = x.step
      /\ y.state = "CANCELLED" /\ y.verdict = "CANCELLED" /\ y.stop /\ y.task = t
      /\ y.requests = x.requests /\ y.cleanup = x.cleanup
      /\ y.own = x.own /\ y.interrupted = x.interrupted /\ y.calls = x.calls
  BY <1>1, <1>3, ZenonT(60) DEF RunRecord, State, Terminal
<1> HIDE DEF y
<1>5. Consistent(y)
  BY <1>1, <1>3, <1>4 DEF Consistent, Stopped, Ended, InHand, Judged, Spent, Calls, Verdict
<1>6. Owed(y) = Owed(x)
  BY <1>4 DEF Owed
<1> HIDE DEF Owed
<1> QED
  BY <1>1, <1>2, <1>4, <1>5, <1>6, QuietChange

LEMMA InterruptStep ==
  ASSUME IInv, NEW r \in Run, Interrupt(r) PROVE IInv'
<1> DEFINE x == run[r]
           p == IF x.pc \in {"undo_cancel", "undo_failure"} THEN "over" ELSE "undo_cancel"
           y == [x EXCEPT !.interrupted = TRUE, !.pc = p]
<1>1. /\ x \in RunRecord /\ Consistent(x) /\ x.pc \notin {"none", "over"}
      /\ rows[r] = None
  BY RunFacts, NoRowYet DEF Interrupt
<1>2. run' = [run EXCEPT ![r] = y] /\ UNCHANGED <<rows, range, operator, restarts, reached, dirty>>
  BY DEF Interrupt
<1>3. /\ p = "over" \/ p = "undo_cancel"
      /\ p = "undo_cancel" => x.pc \notin {"undo_cancel", "undo_failure"}
  OBVIOUS
<1> HIDE DEF p
<1>4. /\ y \in RunRecord
      /\ y.pc = p /\ y.path = x.path /\ y.mode = x.mode /\ y.limit = x.limit
      /\ y.state = x.state /\ y.verdict = x.verdict /\ y.stop = x.stop /\ y.task = x.task
      /\ y.requests = x.requests /\ y.cleanup = x.cleanup
      /\ y.own = x.own /\ y.interrupted /\ y.calls = x.calls
  BY <1>1, <1>3, ZenonT(60) DEF RunRecord, PC
<1> HIDE DEF y
<1>5. Consistent(y)
  BY <1>1, <1>3, <1>4 DEF Consistent, Stopped, Ended, InHand, Judged, Spent, Calls
<1>6. Owed(y) = 0
  BY <1>3, <1>4 DEF Owed
<1> HIDE DEF Owed
<1> QED
  BY <1>1, <1>2, <1>3, <1>4, <1>5, <1>6, QuietChange

(* The range changes on its own, by nobody's run; what the runs undid stays so. *)
LEMMA RangeStep ==
  ASSUME IInv, UNCHANGED <<run, rows, reached>>, operator' \in Nat, restarts' \in Nat,
         range' \in [mode : Mode, generation : Nat, by : Run \cup {None}], range'.by = None,
         dirty' \subseteq dirty
  PROVE  IInv'
<1>1. TypeOK'
  BY DEF IInv, TypeOK
<1>2. ASSUME NEW r \in Run PROVE (Consistent(run[r]) /\ Saved(r) /\ Placed(r))'
  <2>1. run'[r] = run[r] /\ rows'[r] = rows[r] /\ reached'[r] = reached[r]
    OBVIOUS
  <2>2. Consistent(run[r]) /\ Saved(r) /\ Placed(r)
    BY DEF IInv
  <2>3. Saved(r)'
    BY <2>1, <2>2 DEF Saved
  <2>4. Owed(run[r])' = Owed(run[r])
    BY DEF Owed
  <2>5. range'.by # r
    BY AgentRunAssumption
  <2>6. Placed(r)'
    <3> HIDE DEF Owed
    <3> QED
      BY <2>1, <2>2, <2>4, <2>5 DEF Placed
  <2> QED
    BY <2>1, <2>2, <2>3, <2>6
<1> QED
  BY <1>1, <1>2 DEF IInv

LEMMA OperateStep ==
  ASSUME IInv, Operate PROVE IInv'
<1>1. operator' \in Nat /\ (restarts' \in Nat \/ restarts' = restarts)
  BY DEF Operate, IInv, TypeOK
<1>2. /\ UNCHANGED <<run, rows, restarts, reached>> /\ dirty' \subseteq dirty
      /\ operator' \in Nat /\ restarts' \in Nat
      /\ range' = Patched(None) \/ \E mode \in Mode : range' = [Patched(None) EXCEPT !.mode = mode]
  BY DEF Operate, IInv, TypeOK
<1>3. /\ range' \in [mode : Mode, generation : Nat, by : Run \cup {None}] /\ range'.by = None
  BY <1>2, PatchedRange
<1> QED
  BY <1>2, <1>3, RangeStep

LEMMA RangeRestartStep ==
  ASSUME IInv, RangeRestart PROVE IInv'
<1>1. /\ UNCHANGED <<run, rows, operator, reached>> /\ dirty' \subseteq dirty
      /\ operator' \in Nat /\ restarts' \in Nat
      /\ range' \in [mode : Mode, generation : Nat, by : Run \cup {None}] /\ range'.by = None
  BY DEF RangeRestart, IInv, TypeOK, Mode
<1> QED
  BY <1>1, RangeStep

-----------------------------------------------------------------------------
(* The theorems.                                                             *)

LEMMA InitIInv == Init => IInv
<1> SUFFICES ASSUME Init PROVE IInv
  OBVIOUS
<1>1. /\ NoRun \in RunRecord
      /\ NoRun.pc = "none" /\ NoRun.state = "QUEUED" /\ ~NoRun.stop /\ ~NoRun.cleanup /\ ~NoRun.own
      /\ NoRun.requests = 0
  BY DEF NoRun, RunRecord, PC, State
<1>2. Consistent(NoRun) /\ Owed(NoRun) = 0
  BY <1>1 DEF Consistent, Stopped, Ended, InHand, Judged, Spent, Owed
<1>3. /\ \A r \in Run : run[r] = NoRun /\ rows[r] = None /\ reached[r] = 0
      /\ dirty = {}
  BY DEF Init
<1>4. TypeOK
  <2>1. run \in [Run -> RunRecord]
    BY <1>1 DEF Init
  <2> QED
    BY <2>1 DEF Init, TypeOK, Mode
<1> HIDE DEF Owed, NoRun
<1>5. ASSUME NEW r \in Run PROVE Consistent(run[r]) /\ Saved(r) /\ Placed(r)
  <2>1. Saved(r)
    BY <1>3 DEF Saved
  <2>2. reached[r] + Owed(run[r]) <= run[r].requests
    BY <1>1, <1>2, <1>3
  <2> QED
    BY <1>1, <1>2, <1>3, <2>1, <2>2 DEF Placed
<1> QED
  BY <1>4, <1>5 DEF IInv

LEMMA NextIInv == IInv /\ [Next]_vars => IInv'
<1> SUFFICES ASSUME IInv, [Next]_vars PROVE IInv'
  OBVIOUS
<1>1. ASSUME NEW r \in Run, NEW path \in Path, NEW mode \in Mode, NEW limit \in Limits,
             Execute(r, path, mode, limit)
      PROVE  IInv'
  BY <1>1, ExecuteStep
<1>2. ASSUME NEW r \in Run, RunStep(r) PROVE IInv'
  BY <1>2, ResetStep, SelectStep, StepStep, VerifyStep, CleanupStep, CancelUndoneStep,
     FailureUndoneStep DEF RunStep
<1>3. ASSUME NEW r \in Run, Cancel(r) \/ Interrupt(r) PROVE IInv'
  BY <1>3, CancelStep, InterruptStep
<1>4. CASE Operate \/ RangeRestart
  BY <1>4, OperateStep, RangeRestartStep
<1>5. CASE UNCHANGED vars
  <2>1. TypeOK'
    BY <1>5 DEF IInv, TypeOK, vars
  <2>2. ASSUME NEW r \in Run PROVE (Consistent(run[r]) /\ Saved(r) /\ Placed(r))'
    <3>1. /\ run' = run /\ rows' = rows /\ reached' = reached /\ range' = range /\ dirty' = dirty
          /\ Consistent(run[r]) /\ Saved(r) /\ Placed(r)
      BY <1>5 DEF IInv, vars
    <3>2. Owed(run[r])' = Owed(run[r])
      BY <3>1 DEF Owed
    <3> HIDE DEF Owed
    <3> QED
      BY <3>1, <3>2 DEF Saved, Placed
  <2> QED
    BY <2>1, <2>2 DEF IInv
<1> QED
  BY <1>1, <1>2, <1>3, <1>4, <1>5 DEF Next

LEMMA SpecIInv == Spec => []IInv
<1> QED
  BY InitIInv, NextIInv, PTL DEF Spec

(* Every value the model keeps is of its type, in every behaviour. *)
THEOREM TypeCorrect == Spec => []TypeOK
<1>1. IInv => TypeOK
  BY DEF IInv
<1> QED
  BY <1>1, SpecIInv, PTL

(* No target sees a request the run's ledger does not know of: the charge is  *)
(* before the effect in broker and verification, whatever fails in between.   *)
THEOREM ChargedBeforeTheEffect == Spec => []EffectsCharged
<1>1. IInv => EffectsCharged
  BY RunFacts DEF EffectsCharged
<1> QED
  BY <1>1, SpecIInv, PTL

(* No run asks its model or its targets more than its limits allow: the charge  *)
(* of AtomicBudget looks at every ledger before it writes one.                *)
WithinLimits ==
    \A r \in Run : ~At(r, "none") =>
        /\ Calls(run[r]) <= run[r].limit.calls
        /\ reached[r] <= run[r].limit.requests
THEOREM BudgetHolds == Spec => []WithinLimits
<1>1. IInv => WithinLimits
  <2> SUFFICES ASSUME IInv, NEW r \in Run, run[r].pc # "none"
               PROVE  /\ Calls(run[r]) <= run[r].limit.calls
                      /\ reached[r] <= run[r].limit.requests
    BY DEF WithinLimits, At
  <2>1. run[r].limit.requests \in Nat
    BY RunFacts, AgentRunAssumption DEF Consistent, InHand
  <2>2. Calls(run[r]) <= run[r].limit.calls /\ run[r].requests <= run[r].limit.requests
    BY RunFacts DEF Consistent, Spent
  <2> QED
    BY <2>1, <2>2, RunFacts
<1> QED
  BY <1>1, SpecIInv, PTL

(* A saved evaluation is what its run ended as, with the verdict, the cleanup and *)
(* the task its state needs: cancel() beside execute(), and the handlers' saves. *)
THEOREM RowsAreHonest == Spec => []SavedIsHonest
<1>1. IInv => SavedIsHonest
  <2> SUFFICES ASSUME IInv, NEW r \in Run, rows[r] # None
               PROVE  LET x == rows[r] IN
                      /\ x = run[r] /\ x.state \in {"COMPLETED", "CANCELLED"}
                      /\ x.state = "CANCELLED" => x.verdict = "CANCELLED"
                      /\ x.state = "COMPLETED" => /\ ~x.stop /\ x.cleanup /\ x.after > x.before
                                                  /\ x.verdict \in {"CONFIRMED", "PASS", "INCOMPLETE"}
                      /\ ~x.interrupted => x.task # "RUNNING"
                      /\ x.own => /\ x.verdict = "CONFIRMED" => x.mode = "vulnerable"
                                  /\ x.verdict = "PASS" => x.mode = "patched"
    BY DEF SavedIsHonest
  <2> DEFINE x == rows[r]
  <2>1. x = run[r] /\ Saved(r) /\ Consistent(x)
    BY DEF IInv, Saved
  <2>2. x.state = "COMPLETED" => ~x.stop
    BY <2>1 DEF Consistent, Stopped
  <2>3. x.own => /\ x.verdict = "CONFIRMED" => x.mode = "vulnerable"
                 /\ x.verdict = "PASS" => x.mode = "patched"
    BY <2>1 DEF Consistent, Judged
  <2> QED
    BY <2>1, <2>2, <2>3 DEF Saved, Verdict
<1> QED
  BY <1>1, SpecIInv, PTL

(* A run that reports its cleanup has had its selection undone, on every way  *)
(* out of execute(), by whoever reset the range after it.                     *)
THEOREM CleanupIsProven == Spec => []CleanupProven
<1>1. IInv => CleanupProven
  BY DEF IInv, Placed, CleanupProven
<1> QED
  BY <1>1, SpecIInv, PTL

(* A step of a stopped run asks its model nothing: of the stretches between two *)
(* awaits only StepAnswered charges a call, and it looks at the run again.    *)
LEMMA NoCall ==
  ASSUME IInv, [Next]_vars, NEW q \in Run, run[q].stop
  PROVE  Calls(run'[q]) = Calls(run[q])
<1>1. /\ run \in [Run -> RunRecord]
      /\ run[q] \in RunRecord /\ Consistent(run[q]) /\ run[q].pc # "none"
  BY DEF IInv, TypeOK, Consistent, Stopped
<1>2. ASSUME NEW r \in Run, \E y : run' = [run EXCEPT ![r] = y] /\ (r = q => y.calls = run[q].calls)
      PROVE  Calls(run'[q]) = Calls(run[q])
  BY <1>1, <1>2 DEF Calls
<1>3. ASSUME NEW r \in Run, NEW path \in Path, NEW mode \in Mode, NEW limit \in Limits,
             Execute(r, path, mode, limit)
      PROVE  Calls(run'[q]) = Calls(run[q])
  <2>1. r # q
    BY <1>1, <1>3 DEF Execute, At
  <2> QED
    BY <1>2, <1>3, <2>1 DEF Execute
<1>4. ASSUME NEW x \in RunRecord
      PROVE  Failed(x).calls = x.calls /\ Cancelled(x).calls = x.calls
  BY DEF Failed, Cancelled, RunRecord
<1>5. ASSUME NEW r \in Run, ResetAnswered(r) PROVE Calls(run'[q]) = Calls(run[q])
  <2> DEFINE a == [run[r] EXCEPT !.pc = "select", !.before = range.generation + 1]
  <2>1. r = q => a.calls = run[q].calls /\ Failed(run[r]).calls = run[q].calls
    BY <1>1, <1>4 DEF RunRecord
  <2>2. run' = [run EXCEPT ![r] = a] \/ run' = [run EXCEPT ![r] = Failed(run[r])]
    BY <1>5 DEF ResetAnswered, Reset
  <2> HIDE DEF a
  <2> QED
    BY <1>2, <2>1, <2>2
<1>6. ASSUME NEW r \in Run, SelectAnswered(r) PROVE Calls(run'[q]) = Calls(run[q])
  <2> DEFINE a == Transition(run[r], "RESETTING", Working(run[r]))
  <2>1. run' = [run EXCEPT ![r] = a] \/ run' = [run EXCEPT ![r] = Failed(run[r])]
    BY <1>6 DEF SelectAnswered
  <2>2. r = q => Onward(run[r], a)
    BY <1>1, <1>6, WorkingOnward DEF SelectAnswered, At
  <2> HIDE DEF a
  <2>3. r = q => a.calls = run[q].calls /\ Failed(run[r]).calls = run[q].calls
    BY <1>1, <1>4, <2>2 DEF Onward
  <2> QED
    BY <1>2, <2>1, <2>3
<1>7. ASSUME NEW r \in Run, StepAnswered(r) PROVE Calls(run'[q]) = Calls(run[q])
  <2>1. \E y \in {Advanced(run[r]), Failed(run[r]), Cancelled(run[r])} : run' = [run EXCEPT ![r] = y]
    BY <1>7 DEF StepAnswered
  <2>2. r = q => Onward(run[r], Advanced(run[r]))
    BY <1>1, <1>7, AdvancedOnward DEF StepAnswered, At
  <2>3. r = q => /\ Advanced(run[r]).calls = run[q].calls /\ Failed(run[r]).calls = run[q].calls
                 /\ Cancelled(run[r]).calls = run[q].calls
    BY <1>1, <1>4, <2>2 DEF Onward
  <2> QED
    BY <1>2, <2>1, <2>3
<1>8. ASSUME NEW r \in Run, VerifyAnswered(r) PROVE Calls(run'[q]) = Calls(run[q])
  <2> DEFINE j(v) == [run[r] EXCEPT !.verdict = v, !.own = range.by = r]
  <2>1. \/ run' = [run EXCEPT ![r] = Failed(run[r])]
        \/ \E v \in Verdict :
               \/ run' = [run EXCEPT ![r] = Transition(j(v), "VERIFYING", Cleaning(j(v)))]
               \/ run' = [run EXCEPT ![r] = Failed(j(v))]
    BY <1>8 DEF VerifyAnswered, Verdict
  <2>2. ASSUME NEW v \in Verdict, r = q
        PROVE  /\ Cleaning(j(v)).calls = run[q].calls /\ Failed(j(v)).calls = run[q].calls
    <3>1. j(v) \in RunRecord /\ j(v).calls = run[q].calls
      BY <1>1, <2>2, ZenonT(60) DEF RunRecord
    <3> HIDE DEF j
    <3>2. Cleaning(j(v)).calls = j(v).calls /\ Failed(j(v)).calls = j(v).calls
      BY <3>1 DEF Cleaning, Failed, RunRecord
    <3> QED
      BY <3>1, <3>2
  <2> HIDE DEF j
  <2>3. ASSUME NEW v \in Verdict, r = q
        PROVE  Transition(j(v), "VERIFYING", Cleaning(j(v))).calls = run[q].calls
    BY <2>2, <2>3 DEF Transition
  <2> QED
    BY <1>1, <1>2, <1>4, <2>1, <2>2, <2>3
<1>9. ASSUME NEW r \in Run, CleanupAnswered(r) PROVE Calls(run'[q]) = Calls(run[q])
  <2> DEFINE x == run[r]
             b == range.generation + 1 > x.before
             c == [x EXCEPT !.after = range.generation + 1, !.cleanup = b]
             e == [c EXCEPT !.state = "COMPLETED", !.pc = "over"]
  <2>1. run' = [run EXCEPT ![r] = e] \/ run' = [run EXCEPT ![r] = Failed(c)]
        \/ run' = [run EXCEPT ![r] = Failed(x)]
    BY <1>9 DEF CleanupAnswered, Save, Reset
  <2>2. r = q => e.calls = x.calls /\ Failed(c).calls = x.calls /\ Failed(x).calls = x.calls
    <3> HIDE DEF b
    <3> QED
      BY <1>1 DEF Failed, RunRecord
  <2> HIDE DEF c, e
  <2> QED
    BY <1>2, <2>1, <2>2
<1>10. ASSUME NEW r \in Run, CancelUndone(r) PROVE Calls(run'[q]) = Calls(run[q])
  <2> DEFINE x == run[r]
             s == IF x.state \in Terminal THEN x.state ELSE "CANCELLED"
             z == [x EXCEPT !.pc = "over", !.verdict = "CANCELLED", !.state = s]
             y1 == [z EXCEPT !.after = range.generation + 1, !.cleanup = TRUE]
             y2 == [z EXCEPT !.cleanup = FALSE]
             y3 == [x EXCEPT !.pc = "over"]
  <2>1. run' = [run EXCEPT ![r] = y1] \/ run' = [run EXCEPT ![r] = y2] \/ run' = [run EXCEPT ![r] = y3]
    BY <1>10 DEF CancelUndone, Save
  <2>2. r = q => y1.calls = x.calls /\ y2.calls = x.calls /\ y3.calls = x.calls
    <3> HIDE DEF s
    <3> QED
      BY <1>1 DEF RunRecord
  <2> HIDE DEF y1, y2, y3
  <2> QED
    BY <1>2, <2>1, <2>2
<1>11. ASSUME NEW r \in Run, FailureUndone(r) PROVE Calls(run'[q]) = Calls(run[q])
  <2> DEFINE x == run[r]
             b == range.generation + 1 > x.before
             t == IF x.task = "RUNNING" THEN "FAILED" ELSE x.task
             s == IF x.state \in Terminal THEN x.state ELSE "FAILED"
             z == [x EXCEPT !.pc = "over", !.task = t, !.state = s]
             y1 == [z EXCEPT !.after = range.generation + 1, !.cleanup = b]
             y2 == [z EXCEPT !.cleanup = FALSE]
  <2>1. run' = [run EXCEPT ![r] = y1] \/ run' = [run EXCEPT ![r] = y2]
    BY <1>11 DEF FailureUndone, Reset
  <2>2. r = q => y1.calls = x.calls /\ y2.calls = x.calls
    <3> HIDE DEF s, t, b
    <3> QED
      BY <1>1 DEF RunRecord
  <2> HIDE DEF y1, y2
  <2> QED
    BY <1>2, <2>1, <2>2
<1>12. ASSUME NEW r \in Run, Cancel(r) \/ Interrupt(r) PROVE Calls(run'[q]) = Calls(run[q])
  <2>1. ASSUME r # q PROVE run'[q] = run[q]
    BY <1>1, <1>12, <2>1 DEF Cancel, Interrupt
  <2>2. ASSUME r = q PROVE run'[q].calls = run[q].calls
    <3>1. CASE Cancel(r)
      BY <1>1, <2>2, <3>1 DEF Cancel, RunRecord
    <3>2. CASE Interrupt(r)
      BY <1>1, <2>2, <3>2 DEF Interrupt, RunRecord
    <3> QED
      BY <1>12, <3>1, <3>2
  <2> QED
    BY <2>1, <2>2 DEF Calls
<1>13. CASE Operate \/ RangeRestart \/ UNCHANGED vars
  BY <1>13 DEF Operate, RangeRestart, vars
<1> QED
  BY <1>3, <1>5, <1>6, <1>7, <1>8, <1>9, <1>13, <1>10, <1>11, <1>12 DEF Next, RunStep

(* A cancelled run asks its model nothing more, wherever it was when it was   *)
(* cancelled: the two checks of _generate, before the call and after it.      *)
THEOREM NothingAfterCancel == Spec => NoModelAfterCancel
<1>1. IInv /\ [Next]_vars => [\A r \in Run : run[r].stop => Calls(run'[r]) = Calls(run[r])]_vars
  BY NoCall
<1> QED
  BY <1>1, SpecIInv, PTL DEF Spec, NoModelAfterCancel

=============================================================================
