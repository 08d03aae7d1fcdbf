-------------------------- MODULE ScanServiceProofs --------------------------
(***************************************************************************)
(* Theorems about ScanService, for any number of scans, models, answers,   *)
(* budgets, crashes and selections, whatever fails.                        *)
(***************************************************************************)
EXTENDS ScanService, TLAPS

(* Where a task may be: in a flow, or past its end. *)
Native == {"import", "head", "model", "reserve", "dispatch", "bind", "verify"}
Foreign == {"job", "engine", "decide"}
Flow   == Native \cup Foreign
Closing  == {"finally", "stamp", "ledger"}
Inner  == (Flow \cup Closing) \ Await
PC     == {"none", "new", "ended", "done"} \cup Flow \cup Closing

(* The type invariant. *)
TypeOK ==
    /\ proc \in {"SERVING", "DRAINING", "STOPPED", "DOWN", "STARTING"}
    /\ work \in SUBSET Scan /\ cancelling \in SUBSET Scan /\ loop \in Scan \cup {None}
    /\ drain \in [pc : {"none", "begin", "grace", "cancel", "callback"}, set : SUBSET Scan]
    /\ store \in [Scan -> Rows \cup {None}] /\ mem \in [Scan -> Rows \cup {None}]
    /\ pc \in [Scan -> PC] /\ todo \in [Scan -> Seq(Read)]
    /\ spent \in [Scan -> [dispatch : Nat, iteration : Nat]]
    /\ asked \in [Scan -> Model \cup {None}]
    /\ provider \in Model /\ planner \in Model
    /\ select \in [pc : {"idle", "sent", "applied"}, model : Model \cup {None}, left : Nat]
    /\ select.pc # "idle" => select.model \in Model
    /\ rows \in [Scan -> {"QUEUED", "RUNNING", "PASS", "FAIL", "REVIEW", "INCOMPLETE", None}]
    /\ crashes \in Nat
    /\ unsaved \in SUBSET Scan /\ misled \in SUBSET Scan /\ overtaken \in SUBSET Scan

(* A task is registered as long as it is at work, and the loop's is in the     *)
(* middle of a stretch.                                                        *)
Placed(s) ==
    /\ pc[s] \in Inner <=> loop = s
    /\ s \in work <=> pc[s] \notin {"none", "done"}
    /\ s \in cancelling => pc[s] \in Await
    /\ pc[s] # "none" => store[s] # None

(* A row as it was created, and one whose verification is of its evidence.     *)
Blank(r) == r.status = "QUEUED" /\ r.reads = {} /\ ~r.found /\ ~r.passed /\ ~r.closed
Matches(r) == /\ r.found <=> "cross" \in r.reads
              /\ r.passed <=> r.reads = {"control", "denied"}

(* What a task holds is what it saved last, unless the drain wrote after it.   *)
Held(s) ==
    /\ pc[s] = "new" => Blank(store[s])
    /\ pc[s] \in Flow \cup Closing =>
          /\ mem[s] # None
          /\ store[s] = mem[s] \/ (s \in cancelling /\ store[s] = Interrupted(mem[s]))

(* The evidence of a flow, by where it is: a flow that waits has no finding.    *)
Evident(s) ==
    /\ pc[s] \in Flow => /\ mem[s].status = "RUNNING" /\ ~mem[s].closed
                         /\ mem[s].engine <=> pc[s] \in Foreign
    /\ pc[s] \in Native \ {"verify"} => Matches(mem[s])
    /\ pc[s] \in Await \cup {"reserve", "job"} => ~mem[s].found
    /\ pc[s] = "decide" /\ mem[s].found => todo[s] # <<>>
    /\ pc[s] \in Closing => mem[s].status \notin {"QUEUED", "RUNNING"}
    /\ pc[s] = "stamp" => mem[s].engine \/ Matches(mem[s])

(* What a row says whoever wrote it. *)
Honest(r) ==
    IF r.engine
    THEN /\ r.reads = {}
         /\ r.status \in {"PASS", "FAIL"} => r.found = (r.status = "FAIL")
    ELSE /\ r.closed => (r.status = "FAIL" <=> "cross" \in r.reads)
         /\ r.status = "FAIL" => "cross" \in r.reads
         /\ r.status = "PASS" => r.reads = {"control", "denied"}

(* What the drain cancelled or will answer for is without a finding, and over  *)
(* or on its way out.                                                          *)
Drained(s) ==
    /\ drain.pc = "grace" /\ s \in work => s \in drain.set
    /\ drain.pc \in {"cancel", "callback"} =>
          /\ s \in drain.set =>
                /\ pc[s] # "none" /\ "cross" \notin store[s].reads
                /\ \/ s \in cancelling
                   \/ pc[s] \in Closing \cup {"ended", "done"} /\ Status(s) = "INCOMPLETE"
          /\ Live(s) /\ s \notin unsaved => s \in drain.set

Attended(s) ==
    Live(s) /\ s \notin unsaved =>
       /\ proc # "STOPPED"
       /\ proc \in {"SERVING", "DRAINING"} => s \in work /\ pc[s] # "ended"

Recorded(s) ==
    rows[s] # None => /\ store[s] # None /\ pc[s] \in {"none", "ended", "done"}
                      /\ s \notin unsaved => rows[s] = Status(s) /\ ~Live(s)

(* A scan that nobody overtook has the planner's model. *)
Planned(s) ==
    /\ s \in work /\ s \notin overtaken /\ ~store[s].engine => store[s].model = planner
    /\ select.pc # "idle" /\ s \in work => s \in overtaken

(* The process and its drain. *)
Process ==
    /\ proc \in {"DOWN", "STARTING"} => pc = [s \in Scan |-> "none"]
    /\ drain.pc # "none" <=> proc = "DRAINING"
    /\ drain.pc = "callback" => loop = None
    /\ misled \subseteq overtaken

ScanInv(s) ==
    /\ Placed(s) /\ Held(s) /\ Evident(s) /\ (store[s] # None => Honest(store[s]))
    /\ Drained(s) /\ Attended(s) /\ Recorded(s) /\ Planned(s)

IInv == TypeOK /\ Process /\ \A s \in Scan : ScanInv(s)

-----------------------------------------------------------------------------
(* The rows.                                                                *)

Statuses == {"QUEUED", "RUNNING", "PASS", "FAIL", "REVIEW", "INCOMPLETE"}

LEMMA CreatedRow ==
  ASSUME NEW e \in BOOLEAN, NEW p \in Scan \cup {None}, NEW m \in Model \cup {None}
  PROVE  LET x == Row(e, p, m) IN
         /\ x \in Rows /\ Blank(x) /\ x.engine = e /\ x.retest_of = p /\ x.model = m /\ Honest(x)
  BY DEF Row, Rows, Blank, Honest

LEMMA StatusRow ==
  ASSUME NEW r \in Rows, NEW st \in Statuses
  PROVE  LET x == [r EXCEPT !.status = st] IN
         /\ x \in Rows /\ x.status = st /\ x.engine = r.engine /\ x.retest_of = r.retest_of
         /\ x.model = r.model /\ x.reads = r.reads /\ x.found = r.found /\ x.passed = r.passed
         /\ x.closed = r.closed
  BY DEF Rows, Statuses

LEMMA VerifiedRow ==
  ASSUME NEW r \in Rows
  PROVE  LET x == Verified(r) IN
         /\ x \in Rows /\ x.status = r.status /\ x.engine = r.engine /\ x.retest_of = r.retest_of
         /\ x.model = r.model /\ x.reads = r.reads /\ Matches(x) /\ x.closed = r.closed
<1> DEFINE f == "cross" \in r.reads
           p == r.reads = {"control", "denied"}
           x == [r EXCEPT !.found = f, !.passed = p]
<1>1. f \in BOOLEAN /\ p \in BOOLEAN /\ Verified(r) = x
  BY DEF Verified
<1>2. x \in Rows /\ x.status = r.status /\ x.engine = r.engine /\ x.retest_of = r.retest_of
      /\ x.model = r.model /\ x.reads = r.reads /\ x.closed = r.closed /\ x.found = f /\ x.passed = p
  <2> HIDE DEF f, p
  <2> QED
    BY <1>1 DEF Rows
<1> HIDE DEF x
<1> QED
  BY <1>1, <1>2 DEF Matches

LEMMA InterruptedRow ==
  ASSUME NEW r \in Rows
  PROVE  LET x == Interrupted(r) IN
         /\ x \in Rows /\ x.engine = r.engine /\ x.retest_of = r.retest_of
         /\ x.model = r.model /\ x.reads = r.reads
         /\ x.closed /\ (x.found <=> "cross" \in r.reads)
         /\ x.status = IF "cross" \in r.reads THEN "FAIL" ELSE "INCOMPLETE"
         /\ Honest(r) => Honest(x)
<1> DEFINE f == "cross" \in r.reads
           st == IF f THEN "FAIL" ELSE "INCOMPLETE"
           x == [r EXCEPT !.found = f, !.closed = TRUE, !.status = st]
<1>1. f \in BOOLEAN /\ st \in Statuses /\ Interrupted(r) = x
  BY DEF Interrupted, Statuses
<1>2. x \in Rows /\ x.engine = r.engine /\ x.retest_of = r.retest_of /\ x.status = st
      /\ x.model = r.model /\ x.reads = r.reads /\ x.closed /\ x.found = f
  <2> HIDE DEF f, st
  <2> QED
    BY <1>1 DEF Rows, Statuses
<1> HIDE DEF x
<1> QED
  BY <1>1, <1>2 DEF Honest

LEMMA BoundRow ==
  ASSUME NEW r \in Rows, NEW a \in Read
  PROVE  LET x == [r EXCEPT !.reads = @ \cup {a}] IN
         /\ x \in Rows /\ x.status = r.status /\ x.engine = r.engine /\ x.retest_of = r.retest_of
         /\ x.model = r.model /\ x.closed = r.closed
  BY DEF Rows

LEMMA CollectedRow ==
  ASSUME NEW r \in Rows, NEW f \in BOOLEAN, NEW p \in BOOLEAN
  PROVE  LET x == [r EXCEPT !.found = f, !.passed = p] IN
         /\ x \in Rows /\ x.status = r.status /\ x.engine = r.engine /\ x.retest_of = r.retest_of
         /\ x.model = r.model /\ x.reads = r.reads /\ x.closed = r.closed /\ x.found = f
  BY DEF Rows

LEMMA StampedRow ==
  ASSUME NEW r \in Rows
  PROVE  LET x == [r EXCEPT !.closed = TRUE, !.status = IF ~r.engine /\ r.found THEN "FAIL" ELSE @] IN
         /\ x \in Rows /\ x.engine = r.engine /\ x.retest_of = r.retest_of
         /\ x.model = r.model /\ x.reads = r.reads /\ x.closed /\ x.found = r.found
         /\ x.status = IF ~r.engine /\ r.found THEN "FAIL" ELSE r.status
<1>1. CASE ~r.engine /\ r.found
  BY <1>1 DEF Rows
<1>2. CASE ~(~r.engine /\ r.found)
  BY <1>2 DEF Rows
<1> QED
  BY <1>1, <1>2

-----------------------------------------------------------------------------
(* What a step does not touch.                                              *)

(* Scan t is as it was. *)
Same(t) ==
  /\ pc'[t] = pc[t] /\ store'[t] = store[t] /\ mem'[t] = mem[t] /\ todo'[t] = todo[t]
  /\ rows'[t] = rows[t] /\ (loop' = t <=> loop = t) /\ (t \in work' <=> t \in work)
  /\ (t \in cancelling' <=> t \in cancelling) /\ (t \in unsaved' <=> t \in unsaved)
  /\ (t \in overtaken' <=> t \in overtaken)

LEMMA SameStatus == ASSUME NEW t \in Scan, Same(t)
  PROVE Status(t)' = Status(t) /\ (Live(t)' <=> Live(t))
  BY DEF Same, Status, Live

LEMMA Unmoved ==
  ASSUME IInv, NEW t \in Scan, Same(t), proc' = proc, planner' = planner, select'.pc = select.pc,
         drain'.pc = drain.pc, t \in drain'.set <=> t \in drain.set
  PROVE  ScanInv(t)'
<1>1. ScanInv(t)
  BY DEF IInv
<1>2. Status(t)' = Status(t) /\ (Live(t)' <=> Live(t))
  BY SameStatus
<1>3. Placed(t)' /\ Held(t)' /\ Evident(t)'
  BY <1>1 DEF ScanInv, Same, Placed, Held, Evident
<1>4. (store[t] # None => Honest(store[t]))'
  BY <1>1 DEF ScanInv, Same
<1>5. Drained(t)'
  BY <1>1, <1>2 DEF ScanInv, Same, Drained
<1>6. Attended(t)' /\ Recorded(t)'
  BY <1>1, <1>2 DEF ScanInv, Same, Attended, Recorded
<1>7. Planned(t)'
  BY <1>1 DEF ScanInv, Same, Planned
<1> QED
  BY <1>3, <1>4, <1>5, <1>6, <1>7 DEF ScanInv

(* A step of the task of s: of the other scans, of the process and of the    *)
(* models nothing.                                                          *)
OnlyTask(s) ==
  /\ UNCHANGED <<proc, drain, planner, select>>
  /\ \A t \in Scan \ {s} : Same(t)

(* Nothing of the process either, and no callback runs beside it. *)
LEMMA OthersStay ==
  ASSUME IInv, NEW s \in Scan, OnlyTask(s), TypeOK', ScanInv(s)',
         drain.pc = "callback" => loop' = None, misled' \subseteq overtaken',
         proc \notin {"DOWN", "STARTING"}
  PROVE  IInv'
<1>1. ASSUME NEW t \in Scan PROVE ScanInv(t)'
  <2>1. CASE t = s
    BY <2>1
  <2>2. CASE t # s
    BY <2>2, Unmoved DEF OnlyTask
  <2> QED
    BY <2>1, <2>2
<1>2. Process'
  BY DEF IInv, Process, OnlyTask
<1> QED
  BY <1>1, <1>2 DEF IInv

(* A scan that has a task has a row, a process, and no callback on the way    *)
(* when it goes on.                                                          *)
LEMMA AtWork ==
  ASSUME IInv, NEW s \in Scan, pc[s] # "none"
  PROVE  /\ store[s] \in Rows /\ store[s] # None /\ Honest(store[s])
         /\ proc \notin {"DOWN", "STARTING"}
         /\ pc[s] \in Flow \cup Closing => /\ mem[s] \in Rows /\ mem[s].engine = store[s].engine
                                        /\ mem[s].reads = store[s].reads
                                        /\ mem[s].model = store[s].model
                                        /\ mem[s].retest_of = store[s].retest_of
                                        /\ rows[s] = None /\ s \in work
         /\ pc[s] \in (Flow \cup Closing) \ Await => store[s] = mem[s] /\ loop = s /\ drain.pc # "callback"
                                                  /\ s \notin cancelling
<1>1. ScanInv(s) /\ TypeOK /\ Process
  BY DEF IInv
<1>2. store[s] \in Rows /\ store[s] # None /\ Honest(store[s])
  BY <1>1 DEF ScanInv, Placed, TypeOK
<1>3. proc \notin {"DOWN", "STARTING"}
  BY <1>1 DEF Process
<1>4. ASSUME pc[s] \in Flow \cup Closing
      PROVE  /\ mem[s] \in Rows /\ mem[s].engine = store[s].engine
             /\ mem[s].reads = store[s].reads
             /\ mem[s].model = store[s].model
             /\ mem[s].retest_of = store[s].retest_of
             /\ rows[s] = None /\ s \in work
  <2>1. mem[s] \in Rows
    BY <1>1, <1>4 DEF ScanInv, Held, TypeOK
  <2>2. store[s] = mem[s] \/ store[s] = Interrupted(mem[s])
    BY <1>1, <1>4 DEF ScanInv, Held
  <2>3. pc[s] \notin {"none", "new", "ended", "done"}
    BY <1>4 DEF Flow, Native, Foreign, Closing
  <2>4. rows[s] = None /\ s \in work
    BY <1>1, <2>3 DEF ScanInv, Recorded, Placed
  <2> QED
    BY <2>1, <2>2, <2>4, InterruptedRow
<1>5. ASSUME pc[s] \in (Flow \cup Closing) \ Await
      PROVE  store[s] = mem[s] /\ loop = s /\ drain.pc # "callback" /\ s \notin cancelling
  <2>1. s \notin cancelling /\ loop = s
    BY <1>1, <1>5 DEF ScanInv, Placed, Inner
  <2>2. loop # None
    BY <2>1, ScanServiceAssumption
  <2> QED
    BY <1>1, <1>5, <2>1, <2>2 DEF ScanInv, Held, Process
<1> QED
  BY <1>2, <1>3, <1>4, <1>5

(* A flow goes on, with a row that is RUNNING still.                        *)
LEMMA Goes ==
  ASSUME IInv, NEW s \in Scan, OnlyTask(s), TypeOK', pc[s] \in Flow \cup {"new"}, pc'[s] \in Flow,
         s \notin cancelling, cancelling' = cancelling, work' = work, rows' = rows, unsaved' = unsaved,
         overtaken' = overtaken, misled' \subseteq overtaken, drain.pc # "callback",
         loop' = IF pc'[s] \in Await THEN None ELSE s,
         mem'[s] \in Rows, store'[s] = mem'[s], mem'[s].status = "RUNNING", ~mem'[s].closed,
         mem'[s].engine = store[s].engine, mem'[s].model = store[s].model,
         mem'[s].engine => mem'[s].reads = {}, Evident(s)'
  PROVE  IInv'
<1>1. ScanInv(s) /\ TypeOK /\ Process
  BY DEF IInv
<1>2. store[s] \in Rows /\ store[s] # None /\ proc \notin {"DOWN", "STARTING"}
  BY AtWork DEF Flow, Native, Foreign
<1>3. pc[s] \notin {"none", "ended", "done"} \cup Closing /\ pc'[s] \notin {"none", "new", "ended", "done"} \cup Closing
  BY DEF Flow, Native, Foreign, Closing
<1>4. Live(s) /\ Live(s)' /\ Status(s)' = "RUNNING"
  <2>1. ASSUME pc[s] = "new" PROVE Live(s)
    BY <1>1, <1>2, <2>1 DEF ScanInv, Held, Blank, Live, Status
  <2>2. ASSUME pc[s] \in Flow PROVE Live(s)
    <3>1. mem[s].status = "RUNNING" /\ store[s] = mem[s]
      BY <1>1, <2>2 DEF ScanInv, Held, Evident
    <3> QED
      BY <1>2, <3>1 DEF Live, Status
  <2>3. mem'[s] # None
    BY ScanServiceAssumption
  <2>4. Status(s)' = "RUNNING"
    BY <2>3 DEF Status
  <2> QED
    BY <2>1, <2>2, <2>4 DEF Live
<1>5. mem'[s] # None
  BY ScanServiceAssumption
<1>6. Placed(s)'
  <2>1. pc'[s] \in Inner <=> loop' = s
    BY ScanServiceAssumption DEF Inner
  <2>2. s \in work
    BY <1>1, <1>3 DEF ScanInv, Placed
  <2> QED
    BY <1>3, <1>5, <2>1, <2>2 DEF Placed
<1>7. Held(s)'
  BY <1>3, <1>5 DEF Held
<1>8. Honest(store[s])'
  BY DEF Honest
<1>9. Drained(s)'
  BY <1>1, <1>3, <1>4 DEF ScanInv, Drained, OnlyTask
<1>10. Attended(s)'
  BY <1>1, <1>3, <1>4 DEF ScanInv, Attended, OnlyTask
<1>11. Recorded(s)'
  BY <1>1, <1>3 DEF ScanInv, Recorded, Flow, Native, Foreign
<1>12. Planned(s)'
  BY <1>1 DEF ScanInv, Planned, OnlyTask
<1>13. ScanInv(s)'
  BY <1>6, <1>7, <1>8, <1>9, <1>10, <1>11, <1>12 DEF ScanInv
<1> QED
  BY <1>2, <1>13, OthersStay DEF OnlyTask

(* A flow ends with a status, at an await or in the middle of a stretch.     *)
LEMMA Ends ==
  ASSUME IInv, NEW s \in Scan, NEW st \in {"PASS", "FAIL", "REVIEW", "INCOMPLETE"}, Terminal(s, st),
         OnlyTask(s), pc[s] \in Flow, cancelling' = cancelling \ {s}, work' = work,
         s \in cancelling => st = "INCOMPLETE",
         rows' = rows, unsaved' = unsaved, overtaken' = overtaken, misled' \subseteq overtaken,
         drain.pc # "callback", TypeOK => TypeOK',
         Honest([mem[s] EXCEPT !.status = st])
  PROVE  IInv'
<1> DEFINE r == [mem[s] EXCEPT !.status = st]
<1>1. ScanInv(s) /\ TypeOK /\ Process
  BY DEF IInv
<1>2. /\ store[s] \in Rows /\ proc \notin {"DOWN", "STARTING"} /\ mem[s] \in Rows /\ store[s] # None
      /\ mem[s].engine = store[s].engine /\ mem[s].reads = store[s].reads
      /\ mem[s].model = store[s].model /\ rows[s] = None /\ s \in work
  BY AtWork DEF Flow, Native, Foreign
<1>3. /\ r \in Rows /\ r.status = st /\ r.engine = store[s].engine /\ r.reads = store[s].reads
      /\ r.model = store[s].model /\ r # None /\ Honest(r)
  <2>1. st \in Statuses
    BY DEF Statuses
  <2> QED
    BY <1>2, <2>1, StatusRow, ScanServiceAssumption
<1>4. mem'[s] = r /\ store'[s] = r /\ pc'[s] = "finally" /\ loop' = s
  BY <1>1 DEF Terminal, Save, GoOn, Goto, TypeOK
<1> HIDE DEF r
<1>5. /\ "finally" \in Closing /\ "finally" \notin Flow \cup {"none", "new", "ended", "done"}
      /\ "finally" \in Inner
  BY DEF Closing, Flow, Native, Foreign, Inner, Await
<1>6. Status(s)' = st /\ ~Live(s)'
  BY <1>3, <1>4 DEF Status, Live
<1>7. Placed(s)'
  BY <1>2, <1>3, <1>4, <1>5 DEF Placed
<1>8. Held(s)'
  BY <1>3, <1>4, <1>5 DEF Held
<1>9. Evident(s)'
  BY <1>3, <1>4, <1>5 DEF Evident, Native, Foreign, Flow, Await
<1>10. Drained(s)'
  <2>1. pc[s] \notin Closing \cup {"ended", "done"}
    BY DEF Flow, Native, Foreign, Closing
  <2> QED
    BY <1>1, <1>3, <1>4, <1>5, <1>6, <2>1 DEF ScanInv, Drained, OnlyTask
<1>11. Attended(s)' /\ Recorded(s)'
  BY <1>2, <1>6 DEF Attended, Recorded
<1>12. Planned(s)'
  BY <1>1, <1>3, <1>4 DEF ScanInv, Planned, OnlyTask
<1>13. ScanInv(s)'
  BY <1>3, <1>4, <1>7, <1>8, <1>9, <1>10, <1>11, <1>12 DEF ScanInv
<1> QED
  BY <1>1, <1>2, <1>13, OthersStay DEF OnlyTask

-----------------------------------------------------------------------------
(* The steps of a task.                                                      *)

(* A step that writes pc, store, mem and todo of s alone, and no set but its. *)
LEMMA Local ==
  ASSUME TypeOK, NEW s \in Scan, UNCHANGED <<proc, drain, planner, select>>,
         \E x : pc' = [pc EXCEPT ![s] = x], \E x : store' = [store EXCEPT ![s] = x],
         \E x : mem' = [mem EXCEPT ![s] = x], \E x : todo' = [todo EXCEPT ![s] = x],
         \E x : rows' = [rows EXCEPT ![s] = x], loop \in {s, None}, loop' \in {s, None},
         work' \in {work, work \ {s}}, cancelling' \in {cancelling, cancelling \ {s}},
         unsaved' \in {unsaved, unsaved \cup {s}}, overtaken' \in {overtaken, overtaken \cup {s}}
  PROVE  OnlyTask(s)
<1> SUFFICES ASSUME NEW t \in Scan \ {s} PROVE Same(t)
  BY DEF OnlyTask
<1>1. loop # t /\ loop' # t
  BY ScanServiceAssumption
<1> QED
  BY <1>1 DEF Same, TypeOK

LEMMA StartStep ==
  ASSUME IInv, NEW s \in Scan, Start(s) PROVE IInv'
<1> DEFINE r == [store[s] EXCEPT !.status = "RUNNING"]
<1>1. ScanInv(s) /\ TypeOK /\ Process
  BY DEF IInv
<1>2. store[s] \in Rows /\ pc[s] = "new" /\ s \notin cancelling /\ loop = None /\ drain.pc # "callback"
  BY AtWork DEF Start, Resumes, Free
<1>3. Blank(store[s])
  BY <1>1, <1>2 DEF ScanInv, Held
<1>4. /\ r \in Rows /\ r.status = "RUNNING" /\ r.engine = store[s].engine /\ r.model = store[s].model
      /\ r.reads = {} /\ ~r.found /\ ~r.passed /\ ~r.closed
  BY <1>2, <1>3, StatusRow DEF Statuses, Blank
<1> DEFINE at == IF store[s].engine THEN "job" ELSE "import"
<1>5. /\ mem' = [mem EXCEPT ![s] = r] /\ store' = [store EXCEPT ![s] = r]
      /\ pc' = [pc EXCEPT ![s] = at]
      /\ loop' = (IF at \in Await THEN None ELSE s)
  BY DEF Start, Save, GoOn, AwaitAt, Goto, Await
<1>6. at \in Flow /\ at \in PC /\ (at \in Foreign <=> store[s].engine) /\ at \in {"job", "import"}
  BY <1>2 DEF Flow, Native, Foreign, PC, Rows
<1> HIDE DEF r, at
<1>7. UNCHANGED <<proc, work, drain, cancelling, crashes, todo, spent, asked, provider, planner, select,
                  rows, unsaved, misled, overtaken>>
  BY DEF Start, life, models, past
<1>8. TypeOK'
  BY <1>1, <1>4, <1>5, <1>6, <1>7 DEF TypeOK
<1>9. OnlyTask(s)
  <2>1. rows' = [rows EXCEPT ![s] = rows[s]] /\ todo' = [todo EXCEPT ![s] = todo[s]]
    BY <1>1, <1>7 DEF TypeOK
  <2>2. loop \in {s, None} /\ loop' \in {s, None}
    BY <1>2, <1>5
  <2>3. /\ UNCHANGED <<proc, drain, planner, select>>
        /\ work' = work /\ cancelling' = cancelling /\ unsaved' = unsaved /\ overtaken' = overtaken
    BY <1>7
  <2> QED
    BY <1>1, <1>5, <2>1, <2>2, <2>3, Local
<1>10. mem'[s] = r /\ store'[s] = r /\ pc'[s] = at
  BY <1>1, <1>5 DEF TypeOK
<1>11. Matches(r)
  BY <1>4 DEF Matches
<1>12. Evident(s)'
  BY <1>4, <1>6, <1>10, <1>11 DEF Evident, Closing, Native, Foreign, Await
<1> QED
  BY <1>1, <1>2, <1>4, <1>5, <1>6, <1>7, <1>8, <1>9, <1>10, <1>12, Goes DEF Process

(* A flow that is about to end at `at'.                                       *)
LEMMA EndsTyped ==
  ASSUME IInv, NEW s \in Scan, NEW st \in {"PASS", "FAIL", "REVIEW", "INCOMPLETE"}, Terminal(s, st),
         pc[s] \in Flow, loop \in {s, None},
         UNCHANGED <<proc, drain, work, crashes, provider, planner, select, rows, unsaved, overtaken>>,
         cancelling' \in {cancelling, cancelling \ {s}},
         \E x \in Seq(Read) : todo' = [todo EXCEPT ![s] = x],
         spent' \in [Scan -> [dispatch : Nat, iteration : Nat]], asked' \in [Scan -> Model \cup {None}],
         misled' \in SUBSET Scan
  PROVE  OnlyTask(s) /\ TypeOK'
<1> DEFINE r == [mem[s] EXCEPT !.status = st]
<1>1. TypeOK /\ mem[s] \in Rows /\ st \in Statuses
  BY AtWork DEF IInv, Flow, Native, Foreign, Statuses
<1>2. r \in Rows
  BY <1>1, StatusRow
<1>3. /\ mem' = [mem EXCEPT ![s] = r] /\ store' = [store EXCEPT ![s] = r]
      /\ pc' = [pc EXCEPT ![s] = "finally"] /\ loop' = s
  BY DEF Terminal, Save, GoOn, Goto
<1> HIDE DEF r
<1>4. PICK x \in Seq(Read) : todo' = [todo EXCEPT ![s] = x]
  OBVIOUS
<1>5. TypeOK'
  BY <1>1, <1>2, <1>3, <1>4 DEF TypeOK, PC, Closing
<1>6. rows' = [rows EXCEPT ![s] = rows[s]]
  BY <1>1 DEF TypeOK
<1>7. OnlyTask(s)
  BY <1>1, <1>3, <1>4, <1>6, Local
<1> QED
  BY <1>5, <1>7

(* A flow that stops without a verdict.                                       *)
LEMMA EndsUndecided ==
  ASSUME IInv, NEW s \in Scan, NEW st \in {"REVIEW", "INCOMPLETE"}, Terminal(s, st),
         pc[s] \in Flow, pc[s] \in Await => Free,
         s \in cancelling => st = "INCOMPLETE", cancelling' = cancelling \ {s},
         UNCHANGED <<proc, drain, work, crashes, provider, planner, select, rows, unsaved, overtaken>>,
         \E x \in Seq(Read) : todo' = [todo EXCEPT ![s] = x],
         spent' \in [Scan -> [dispatch : Nat, iteration : Nat]], asked' \in [Scan -> Model \cup {None}],
         misled' \subseteq overtaken
  PROVE  IInv'
<1> DEFINE r == [mem[s] EXCEPT !.status = st]
<1>1. ScanInv(s) /\ TypeOK
  BY DEF IInv
<1>2. /\ mem[s] \in Rows /\ store[s] \in Rows /\ Honest(store[s])
      /\ mem[s].engine = store[s].engine /\ mem[s].reads = store[s].reads
      /\ loop \in {s, None} /\ drain.pc # "callback"
  BY AtWork DEF Flow, Native, Foreign, Free
<1>3. r.status = st /\ r.engine = mem[s].engine /\ r.reads = mem[s].reads /\ r.closed = mem[s].closed
  BY <1>2, StatusRow DEF Statuses
<1>4. ~mem[s].closed
  BY <1>1 DEF ScanInv, Evident
<1> HIDE DEF r
<1>5. Honest(r)
  BY <1>2, <1>3, <1>4 DEF Honest
<1>6. misled' \in SUBSET Scan
  BY <1>1 DEF TypeOK
<1>7. OnlyTask(s) /\ TypeOK'
  BY <1>2, <1>6, EndsTyped
<1> QED
  BY <1>2, <1>5, <1>7, Ends DEF r

(* A flow that goes on without a save.                                       *)
LEMMA Quiet ==
  ASSUME IInv, NEW s \in Scan, pc[s] \in Flow, s \notin cancelling, drain.pc # "callback",
         NEW at \in Flow, pc' = [pc EXCEPT ![s] = at], loop \in {s, None},
         loop' = IF at \in Await THEN None ELSE s,
         UNCHANGED <<proc, drain, cancelling, work, crashes, provider, planner, select, rows, unsaved,
                     overtaken, mem, store>>,
         \E x \in Seq(Read) : todo' = [todo EXCEPT ![s] = x],
         spent' \in [Scan -> [dispatch : Nat, iteration : Nat]], asked' \in [Scan -> Model \cup {None}],
         misled' \subseteq overtaken,
         mem[s].engine <=> at \in Foreign, at \in Native \ {"verify"} => Matches(mem[s]),
         at \in Await \cup {"reserve", "job", "decide"} => ~mem[s].found
  PROVE  IInv'
<1>1. ScanInv(s) /\ TypeOK
  BY DEF IInv
<1>2. /\ mem[s] \in Rows /\ mem[s].engine = store[s].engine /\ store[s] \in Rows
      /\ Honest(store[s]) /\ mem[s].model = store[s].model
  BY AtWork DEF Flow, Native, Foreign
<1>3. store[s] = mem[s] /\ mem[s].status = "RUNNING" /\ ~mem[s].closed
  BY <1>1 DEF ScanInv, Held, Evident
<1>4. PICK x \in Seq(Read) : todo' = [todo EXCEPT ![s] = x]
  OBVIOUS
<1>5. TypeOK'
  BY <1>1, <1>4, ScanServiceAssumption DEF TypeOK, PC
<1>6. OnlyTask(s)
  <2>1. rows' = [rows EXCEPT ![s] = rows[s]] /\ mem' = [mem EXCEPT ![s] = mem[s]]
        /\ store' = [store EXCEPT ![s] = store[s]]
    BY <1>1 DEF TypeOK
  <2>2. loop' \in {s, None}
    OBVIOUS
  <2> QED
    BY <1>1, <1>4, <2>1, <2>2, Local
<1>7. pc'[s] = at
  BY <1>1 DEF TypeOK
<1>8. Evident(s)'
  BY <1>3, <1>7 DEF Evident, Closing, Flow, Native, Foreign, Await
<1> QED
  BY <1>2, <1>3, <1>5, <1>6, <1>7, <1>8, Goes DEF Honest

(* A flow that goes on with a row of the same kind saved.                     *)
LEMMA Saves ==
  ASSUME IInv, NEW s \in Scan, pc[s] \in Flow, s \notin cancelling, drain.pc # "callback",
         NEW at \in Flow \ Await, pc' = [pc EXCEPT ![s] = at], loop \in {s, None}, loop' = s,
         UNCHANGED <<proc, drain, cancelling, work, crashes, provider, planner, select, rows, unsaved,
                     overtaken, misled, spent, asked>>,
         \E x \in Seq(Read) : todo' = [todo EXCEPT ![s] = x],
         NEW r \in Rows, Save(s, r), r.status = mem[s].status, r.closed = mem[s].closed,
         r.engine = mem[s].engine, r.model = mem[s].model, r.engine => r.reads = mem[s].reads,
         r.engine <=> at \in Foreign, at \in Native \ {"verify"} => Matches(r),
         at \in {"reserve", "job"} => ~r.found, at = "decide" /\ r.found => todo'[s] # <<>>
  PROVE  IInv'
<1>1. ScanInv(s) /\ TypeOK
  BY DEF IInv
<1>2. /\ mem[s] \in Rows /\ mem[s].engine = store[s].engine /\ store[s] \in Rows
      /\ Honest(store[s]) /\ mem[s].model = store[s].model
  BY AtWork DEF Flow, Native, Foreign
<1>3. store[s] = mem[s] /\ mem[s].status = "RUNNING" /\ ~mem[s].closed
  BY <1>1 DEF ScanInv, Held, Evident
<1>4. PICK x \in Seq(Read) : todo' = [todo EXCEPT ![s] = x]
  OBVIOUS
<1>5. mem' = [mem EXCEPT ![s] = r] /\ store' = [store EXCEPT ![s] = r]
  BY DEF Save
<1>6. TypeOK'
  BY <1>1, <1>4, <1>5, ScanServiceAssumption DEF TypeOK, PC
<1>7. OnlyTask(s)
  <2>1. rows' = [rows EXCEPT ![s] = rows[s]]
    BY <1>1 DEF TypeOK
  <2> QED
    BY <1>1, <1>4, <1>5, <2>1, Local
<1>8. pc'[s] = at /\ mem'[s] = r /\ store'[s] = r
  BY <1>1, <1>5 DEF TypeOK
<1>9. Evident(s)'
  BY <1>3, <1>8 DEF Evident, Closing, Flow, Native, Foreign, Await
<1>10. misled' \subseteq overtaken /\ (mem'[s].engine => mem'[s].reads = {})
  BY <1>2, <1>3, <1>8 DEF IInv, Process, Honest
<1> QED
  BY <1>2, <1>3, <1>6, <1>7, <1>8, <1>9, <1>10, Goes

LEMMA ImportedStep ==
  ASSUME IInv, NEW s \in Scan, Imported(s) PROVE IInv'
<1>1. ScanInv(s) /\ TypeOK
  BY DEF IInv
<1>2. /\ pc[s] = "import" /\ s \notin cancelling /\ loop = None /\ drain.pc # "callback"
      /\ pc' = [pc EXCEPT ![s] = "head"] /\ loop' = s /\ Save(s, Verified(mem[s]))
      /\ UNCHANGED <<proc, work, drain, cancelling, crashes, todo, spent, asked, provider, planner, select,
                     rows, unsaved, misled, overtaken>>
  BY DEF Imported, Resumes, Free, GoOn, Goto, life, models, past
<1>3. "import" \in Flow \cap Native /\ "head" \in Native \cap (Flow \ Await) /\ "head" \notin Foreign
      /\ "import" \notin Foreign
  BY DEF Flow, Native, Foreign, Await
<1>4. mem[s] \in Rows /\ ~mem[s].engine
  BY <1>1, <1>2, <1>3, AtWork DEF ScanInv, Evident
<1>5. todo[s] \in Seq(Read) /\ todo' = [todo EXCEPT ![s] = todo[s]]
  BY <1>1, <1>2 DEF TypeOK
<1> DEFINE r == Verified(mem[s])
<1>6. /\ r \in Rows /\ r.status = mem[s].status /\ r.engine = mem[s].engine /\ r.model = mem[s].model
      /\ Matches(r) /\ r.closed = mem[s].closed
  BY <1>4, VerifiedRow
<1> HIDE DEF r
<1>7. Save(s, r)
  BY <1>2 DEF r
<1> QED
  BY <1>2, <1>3, <1>4, <1>5, <1>6, <1>7, Saves

LEMMA VerifyStep ==
  ASSUME IInv, NEW s \in Scan, Verify(s) PROVE IInv'
<1>1. ScanInv(s) /\ TypeOK
  BY DEF IInv
<1>2. /\ pc[s] = "verify" /\ loop = s
      /\ pc' = [pc EXCEPT ![s] = "bind"] /\ loop' = s /\ Save(s, Verified(mem[s]))
      /\ UNCHANGED <<proc, work, drain, cancelling, crashes, todo, spent, asked, provider, planner, select,
                     rows, unsaved, misled, overtaken>>
  BY DEF Verify, Alone, GoOn, Goto, life, models, past
<1>3. "verify" \in (Flow \ Await) \cap Native /\ "bind" \in Native \cap (Flow \ Await) /\ "bind" \notin Foreign
      /\ "verify" \notin Foreign
  BY DEF Flow, Native, Foreign, Await
<1>4. mem[s] \in Rows /\ ~mem[s].engine /\ s \notin cancelling /\ drain.pc # "callback"
  BY <1>1, <1>2, <1>3, AtWork DEF ScanInv, Evident
<1>5. todo[s] \in Seq(Read) /\ todo' = [todo EXCEPT ![s] = todo[s]]
  BY <1>1, <1>2 DEF TypeOK
<1> DEFINE r == Verified(mem[s])
<1>6. /\ r \in Rows /\ r.status = mem[s].status /\ r.engine = mem[s].engine /\ r.model = mem[s].model
      /\ Matches(r) /\ r.closed = mem[s].closed
  BY <1>4, VerifiedRow
<1> HIDE DEF r
<1>7. Save(s, r)
  BY <1>2 DEF r
<1> QED
  BY <1>2, <1>3, <1>4, <1>5, <1>6, <1>7, Saves

LEMMA BindStep ==
  ASSUME IInv, NEW s \in Scan, Bind(s) PROVE IInv'
<1>1. ScanInv(s) /\ TypeOK
  BY DEF IInv
<1>2. /\ pc[s] = "bind" /\ loop = s /\ todo[s] # <<>>
      /\ todo' = [todo EXCEPT ![s] = Tail(todo[s])]
      /\ pc' = [pc EXCEPT ![s] = "verify"] /\ loop' = s
      /\ Save(s, [mem[s] EXCEPT !.reads = @ \cup {Head(todo[s])}])
      /\ UNCHANGED <<proc, work, drain, cancelling, crashes, spent, asked, provider, planner, select,
                     rows, unsaved, misled, overtaken>>
  BY <1>1 DEF Bind, Alone, GoOn, Goto, life, models, past, TypeOK
<1>3. "bind" \in (Flow \ Await) \cap Native /\ "verify" \in Native \cap (Flow \ Await) /\ "bind" \notin Foreign
      /\ "verify" \notin Foreign
  BY DEF Flow, Native, Foreign, Await
<1>4. mem[s] \in Rows /\ ~mem[s].engine /\ s \notin cancelling /\ drain.pc # "callback"
  BY <1>1, <1>2, <1>3, AtWork DEF ScanInv, Evident
<1>5. Tail(todo[s]) \in Seq(Read) /\ Head(todo[s]) \in Read
  BY <1>1, <1>2 DEF TypeOK
<1> DEFINE r == [mem[s] EXCEPT !.reads = @ \cup {Head(todo[s])}]
<1>6. /\ r \in Rows /\ r.status = mem[s].status /\ r.engine = mem[s].engine /\ r.model = mem[s].model
      /\ r.closed = mem[s].closed
  BY <1>4, <1>5, BoundRow
<1> HIDE DEF r
<1>7. Save(s, r)
  BY <1>2 DEF r
<1> QED
  BY <1>2, <1>3, <1>4, <1>5, <1>6, <1>7, Saves

LEMMA LoopHeadStep ==
  ASSUME IInv, NEW s \in Scan, LoopHead(s) PROVE IInv'
<1>1. ScanInv(s) /\ TypeOK /\ Process
  BY DEF IInv
<1>2. /\ pc[s] = "head" /\ loop = s
      /\ UNCHANGED <<proc, work, drain, cancelling, crashes, todo, provider, planner, select,
                     rows, unsaved, misled, overtaken>>
  BY DEF LoopHead, Alone, life, models, past
<1>3. "head" \in (Flow \ Await) \cap Native /\ "head" \notin Foreign
  BY DEF Flow, Native, Foreign, Await
<1>4. /\ mem[s] \in Rows /\ ~mem[s].engine /\ s \notin cancelling /\ drain.pc # "callback"
      /\ Matches(mem[s]) /\ misled \subseteq overtaken /\ ~mem[s].closed
  BY <1>1, <1>2, <1>3, AtWork DEF ScanInv, Evident, Process
<1>5. todo[s] \in Seq(Read) /\ todo' = [todo EXCEPT ![s] = todo[s]]
  BY <1>1, <1>2 DEF TypeOK
<1>6. spent \in [Scan -> [dispatch : Nat, iteration : Nat]] /\ asked \in [Scan -> Model \cup {None}]
      /\ provider \in Model
  BY <1>1 DEF TypeOK
<1>7. [spent EXCEPT ![s].iteration = @ + 1] \in [Scan -> [dispatch : Nat, iteration : Nat]]
  <2>1. spent[s] \in [dispatch : Nat, iteration : Nat]
    BY <1>6
  <2>2. [spent[s] EXCEPT !.iteration = @ + 1] \in [dispatch : Nat, iteration : Nat]
    BY <2>1
  <2> QED
    BY <1>6, <2>2
<1>8. ASSUME NEW st \in {"PASS", "FAIL"}, Terminal(s, st), UNCHANGED <<spent, asked>>,
             IF st = "FAIL" THEN mem[s].found ELSE mem[s].passed
      PROVE  IInv'
  <2> DEFINE r == [mem[s] EXCEPT !.status = st]
  <2>1. r.status = st /\ r.engine = mem[s].engine /\ r.reads = mem[s].reads /\ r.closed = mem[s].closed
    BY <1>4, StatusRow DEF Statuses
  <2> HIDE DEF r
  <2>2. Honest(r)
    BY <1>4, <1>8, <2>1 DEF Honest, Matches
  <2>3. cancelling' = cancelling \ {s}
    BY <1>2, <1>4
  <2>4. OnlyTask(s) /\ TypeOK'
    <3>1. \E x \in Seq(Read) : todo' = [todo EXCEPT ![s] = x]
      BY <1>5
    <3>2. /\ spent' \in [Scan -> [dispatch : Nat, iteration : Nat]]
          /\ asked' \in [Scan -> Model \cup {None}] /\ misled' \in SUBSET Scan
      BY <1>1, <1>2, <1>6, <1>8 DEF TypeOK
    <3> QED
      BY <1>1, <1>2, <1>3, <1>8, <3>1, <3>2, EndsTyped
  <2> QED
    BY <1>2, <1>3, <1>4, <1>8, <2>2, <2>3, <2>4, Ends DEF r
<1>9. ASSUME NEW st \in {"REVIEW", "INCOMPLETE"}, Terminal(s, st),
             spent' \in [Scan -> [dispatch : Nat, iteration : Nat]], asked' = asked
      PROVE  IInv'
  <2>1. cancelling' = cancelling \ {s}
    BY <1>2, <1>4
  <2> QED
    BY <1>2, <1>3, <1>4, <1>5, <1>6, <1>9, <2>1, EndsUndecided
<1>10. ASSUME MayIterate(s), UNCHANGED <<mem, store>>, spent' = [spent EXCEPT ![s].iteration = @ + 1],
              \/ AwaitAt(s, "model") /\ asked' = [asked EXCEPT ![s] = provider]
              \/ GoOn(s, "reserve") /\ asked' = [asked EXCEPT ![s] = None]
       PROVE  IInv'
  <2>1. asked' \in [Scan -> Model \cup {None}] /\ spent' \in [Scan -> [dispatch : Nat, iteration : Nat]]
    BY <1>6, <1>7, <1>10
  <2>2. ~mem[s].found
    BY <1>10 DEF MayIterate, Undecided
  <2>3. PICK at \in {"model", "reserve"} :
          /\ pc' = [pc EXCEPT ![s] = at] /\ loop' = IF at \in Await THEN None ELSE s
    BY <1>10 DEF AwaitAt, GoOn, Goto, Await
  <2>4. at \in Flow /\ at \notin Foreign
    BY DEF Flow, Native, Foreign
  <2> QED
    BY <1>2, <1>3, <1>4, <1>5, <1>10, <2>1, <2>2, <2>3, <2>4, Quiet
<1>11. \/ mem[s].found /\ Terminal(s, "FAIL") /\ UNCHANGED <<spent, asked>>
       \/ mem[s].passed /\ Terminal(s, "PASS") /\ UNCHANGED <<spent, asked>>
       \/ Terminal(s, "REVIEW") /\ UNCHANGED <<spent, asked>>
       \/ /\ spent' = [spent EXCEPT ![s].iteration = @ + 1] /\ MayIterate(s)
          /\ \/ Terminal(s, "REVIEW") /\ UNCHANGED asked
             \/ Terminal(s, "INCOMPLETE") /\ UNCHANGED asked
             \/ /\ UNCHANGED <<mem, store>>
                /\ \/ AwaitAt(s, "model") /\ asked' = [asked EXCEPT ![s] = provider]
                   \/ GoOn(s, "reserve") /\ asked' = [asked EXCEPT ![s] = None]
  BY DEF LoopHead, Blocked
<1>12. UNCHANGED <<spent, asked>> => spent' \in [Scan -> [dispatch : Nat, iteration : Nat]]
  BY <1>6
<1> HIDE DEF LoopHead
<1> QED
  BY <1>7, <1>8, <1>9, <1>10, <1>11, <1>12

LEMMA ModelStep ==
  ASSUME IInv, NEW s \in Scan, ModelAnswers(s) PROVE IInv'
<1>1. ScanInv(s) /\ TypeOK /\ Process
  BY DEF IInv
<1>2. /\ pc[s] = "model" /\ s \notin cancelling /\ loop = None /\ drain.pc # "callback" /\ Free
      /\ asked[s] = planner /\ asked' = [asked EXCEPT ![s] = None]
      /\ misled' = (IF asked[s] = mem[s].model THEN misled ELSE misled \cup {s})
      /\ UNCHANGED <<proc, work, drain, cancelling, crashes, todo, spent, provider, planner, select,
                     rows, unsaved, overtaken>>
  BY DEF ModelAnswers, Resumes, Free, life, models
<1>3. "model" \in Flow \cap Native \cap Await /\ "model" \notin Foreign
  BY DEF Flow, Native, Foreign, Await
<1>4. /\ mem[s] \in Rows /\ ~mem[s].engine /\ Matches(mem[s]) /\ ~mem[s].found
      /\ mem[s].model = store[s].model /\ mem[s].engine = store[s].engine /\ s \in work
      /\ misled \subseteq overtaken
  BY <1>1, <1>2, <1>3, AtWork DEF ScanInv, Evident, Process
<1>5. misled' \subseteq overtaken
  <2>1. s \notin overtaken => mem[s].model = planner
    BY <1>1, <1>4 DEF ScanInv, Planned
  <2> QED
    BY <1>2, <1>4, <2>1
<1>6. todo[s] \in Seq(Read) /\ todo' = [todo EXCEPT ![s] = todo[s]]
  BY <1>1, <1>2 DEF TypeOK
<1>7. spent' \in [Scan -> [dispatch : Nat, iteration : Nat]] /\ asked' \in [Scan -> Model \cup {None}]
  BY <1>1, <1>2 DEF TypeOK
<1>8. CASE Blocked(s)
  <2>1. PICK st \in {"REVIEW", "INCOMPLETE"} : Terminal(s, st)
    BY <1>8 DEF Blocked
  <2>2. cancelling' = cancelling \ {s}
    BY <1>2
  <2> QED
    BY <1>2, <1>3, <1>5, <1>6, <1>7, <2>1, <2>2, EndsUndecided
<1>9. CASE GoOn(s, "reserve") /\ UNCHANGED <<mem, store>>
  <2>1. "reserve" \in Flow /\ "reserve" \notin Foreign \cup Await
    BY DEF Flow, Native, Foreign, Await
  <2>2. pc' = [pc EXCEPT ![s] = "reserve"] /\ loop' = s
    BY <1>9 DEF GoOn, Goto
  <2> QED
    BY <1>2, <1>3, <1>4, <1>5, <1>6, <1>7, <1>9, <2>1, <2>2, Quiet
<1> QED
  BY <1>8, <1>9 DEF ModelAnswers

(* Steps of the native flow that save nothing.                               *)
LEMMA DispatchSteps ==
  ASSUME IInv, NEW s \in Scan, Dispatch(s) \/ Dispatched(s) \/ Bound(s) PROVE IInv'
<1>1. ScanInv(s) /\ TypeOK /\ Process
  BY DEF IInv
<1>2. /\ pc[s] \in {"reserve", "dispatch", "bind"} /\ loop \in {s, None}
      /\ UNCHANGED <<proc, work, drain, cancelling, crashes, asked, provider, planner, select,
                     rows, unsaved, misled, overtaken, mem, store>>
  BY DEF Dispatch, Dispatched, Bound, Alone, Resumes, Free, life, models, past
<1>3. /\ {"reserve", "dispatch", "bind", "head"} \subseteq Native \cap Flow
      /\ {"reserve", "dispatch", "bind", "head", "verify"} \cap Foreign = {}
      /\ {"reserve", "bind"} \cap Await = {}
  BY DEF Flow, Native, Foreign, Await
<1>4. s \notin cancelling /\ drain.pc # "callback"
  <2>1. CASE pc[s] \in {"reserve", "bind"}
    BY <1>3, <2>1, AtWork
  <2>2. CASE pc[s] = "dispatch"
    BY <2>2 DEF Dispatch, Dispatched, Bound, Alone, Resumes, Free
  <2> QED
    BY <1>2, <2>1, <2>2
<1>5. /\ mem[s] \in Rows /\ ~mem[s].engine /\ Matches(mem[s]) /\ misled \subseteq overtaken
      /\ pc[s] # "bind" => ~mem[s].found
  BY <1>1, <1>2, <1>3, AtWork DEF ScanInv, Evident, Process, Await
<1>6. PICK at \in {"dispatch", "bind", "head", "reserve"} :
         /\ pc' = [pc EXCEPT ![s] = at] /\ loop' = IF at \in Await THEN None ELSE s
         /\ at \in {"dispatch", "reserve"} => ~mem[s].found
  BY <1>2, <1>5 DEF Dispatch, Dispatched, Bound, Alone, Resumes, Undecided, AwaitAt, GoOn, Goto, Await
<1>7. \E x \in Seq(Read) : todo' = [todo EXCEPT ![s] = x]
  <2>1. CASE UNCHANGED todo
    BY <1>1, <2>1 DEF TypeOK
  <2>2. CASE Dispatched(s)
    BY <2>2, ScanServiceAssumption DEF Dispatched
  <2> QED
    BY <2>1, <2>2 DEF Dispatch, Bound
<1>8. spent' \in [Scan -> [dispatch : Nat, iteration : Nat]]
  <2>1. CASE UNCHANGED spent
    BY <1>1, <2>1 DEF TypeOK
  <2>2. CASE spent' = [spent EXCEPT ![s].dispatch = @ + 1]
    <3>1. spent[s] \in [dispatch : Nat, iteration : Nat]
      BY <1>1 DEF TypeOK
    <3>2. [spent[s] EXCEPT !.dispatch = @ + 1] \in [dispatch : Nat, iteration : Nat]
      BY <3>1
    <3> QED
      BY <1>1, <2>2, <3>2 DEF TypeOK
  <2> QED
    BY <2>1, <2>2 DEF Dispatch, Dispatched, Bound
<1>9. asked' \in [Scan -> Model \cup {None}]
  BY <1>1, <1>2 DEF TypeOK
<1>10. at \notin Foreign /\ at # "decide" /\ at # "job" /\ at \in Flow
       /\ (at \in Await \cup {"reserve", "job", "decide"} => at \in {"dispatch", "reserve"})
  BY <1>3 DEF Await
<1>11. misled' \subseteq overtaken /\ pc[s] \in Flow
  BY <1>2, <1>3, <1>5
<1> QED
  BY <1>2, <1>4, <1>5, <1>6, <1>7, <1>8, <1>9, <1>10, <1>11, Quiet

LEMMA JobStep ==
  ASSUME IInv, NEW s \in Scan, Job(s) PROVE IInv'
<1>1. ScanInv(s) /\ TypeOK /\ Process
  BY DEF IInv
<1>2. /\ pc[s] = "job" /\ loop = s
      /\ UNCHANGED <<proc, work, drain, cancelling, crashes, todo, spent, asked, provider, planner, select,
                     rows, unsaved, misled, overtaken>>
  BY DEF Job, Alone, life, models, past
<1>3. "job" \in (Flow \ Await) \cap Foreign /\ "engine" \in Flow \cap Await \cap Foreign
      /\ "engine" \notin Native
  BY DEF Flow, Native, Foreign, Await
<1>4. /\ mem[s] \in Rows /\ mem[s].engine /\ ~mem[s].found /\ s \notin cancelling
      /\ drain.pc # "callback" /\ misled \subseteq overtaken
  BY <1>1, <1>2, <1>3, AtWork DEF ScanInv, Evident, Process
<1>5. todo[s] \in Seq(Read) /\ todo' = [todo EXCEPT ![s] = todo[s]]
  BY <1>1, <1>2 DEF TypeOK
<1>6. spent' \in [Scan -> [dispatch : Nat, iteration : Nat]] /\ asked' \in [Scan -> Model \cup {None}]
  BY <1>1, <1>2 DEF TypeOK
<1>7. CASE Terminal(s, "REVIEW")
  <2>1. cancelling' = cancelling \ {s}
    BY <1>2, <1>4
  <2> QED
    BY <1>2, <1>3, <1>4, <1>5, <1>6, <1>7, <2>1, EndsUndecided
<1>8. CASE AwaitAt(s, "engine") /\ UNCHANGED <<mem, store>>
  <2>1. pc' = [pc EXCEPT ![s] = "engine"] /\ loop' = None
    BY <1>8 DEF AwaitAt, Goto
  <2> QED
    BY <1>2, <1>3, <1>4, <1>5, <1>6, <1>8, <2>1, Quiet
<1> QED
  BY <1>7, <1>8 DEF Job

LEMMA EngineStep ==
  ASSUME IInv, NEW s \in Scan, EngineAnswers(s) PROVE IInv'
<1>1. ScanInv(s) /\ TypeOK /\ Process
  BY DEF IInv
<1>2. /\ pc[s] = "engine" /\ loop = None /\ s \notin cancelling /\ drain.pc # "callback" /\ Free
      /\ UNCHANGED <<proc, work, drain, cancelling, crashes, spent, asked, provider, planner, select,
                     rows, unsaved, misled, overtaken>>
  BY DEF EngineAnswers, Resumes, Free, life, models, past
<1>3. "engine" \in Flow \cap Await \cap Foreign /\ "decide" \in (Flow \ Await) \cap Foreign
      /\ "decide" \notin Native
  BY DEF Flow, Native, Foreign, Await
<1>4. /\ mem[s] \in Rows /\ mem[s].engine /\ misled \subseteq overtaken
  BY <1>1, <1>2, <1>3, AtWork DEF ScanInv, Evident, Process
<1>5. spent' \in [Scan -> [dispatch : Nat, iteration : Nat]] /\ asked' \in [Scan -> Model \cup {None}]
  BY <1>1, <1>2 DEF TypeOK
<1>6. CASE Terminal(s, "INCOMPLETE") /\ UNCHANGED todo
  <2>1. cancelling' = cancelling \ {s}
    BY <1>2
  <2>2. todo[s] \in Seq(Read) /\ todo' = [todo EXCEPT ![s] = todo[s]]
    BY <1>1, <1>6 DEF TypeOK
  <2> QED
    BY <1>2, <1>3, <1>4, <1>5, <1>6, <2>1, <2>2, EndsUndecided
<1>7. CASE Collected(s) /\ GoOn(s, "decide")
  <2>1. PICK reported \in BOOLEAN, verdict \in {"CONFIRMED", "PASS", "INSUFFICIENT"} :
          /\ Save(s, [mem[s] EXCEPT !.found = reported /\ verdict = "CONFIRMED",
                                    !.passed = verdict = "PASS"])
          /\ todo' = [todo EXCEPT ![s] = IF reported THEN <<"odd">> ELSE <<>>]
    BY <1>7 DEF Collected
  <2> DEFINE f == reported /\ verdict = "CONFIRMED"
             p == verdict = "PASS"
             r == [mem[s] EXCEPT !.found = f, !.passed = p]
             x == IF reported THEN <<"odd">> ELSE <<>>
  <2>2. f \in BOOLEAN /\ p \in BOOLEAN
    OBVIOUS
  <2>3. Save(s, r)
    BY <2>1
  <2>4. x \in Seq(Read) /\ (f => x # <<>>)
    <3>1. <<"odd">> \in Seq(Read) /\ <<>> \in Seq(Read) /\ <<"odd">> # <<>>
      BY DEF Read
    <3>2. CASE reported
      BY <3>1, <3>2
    <3>3. CASE ~reported
      BY <3>1, <3>3
    <3> QED
      BY <3>2, <3>3
  <2>5. todo' = [todo EXCEPT ![s] = x]
    BY <2>1
  <2> HIDE DEF f, p, x
  <2>6. /\ r \in Rows /\ r.status = mem[s].status /\ r.engine = mem[s].engine /\ r.model = mem[s].model
        /\ r.reads = mem[s].reads /\ r.closed = mem[s].closed /\ r.found = f
    BY <1>4, <2>2 DEF Rows
  <2>7. todo'[s] = x
    BY <1>1, <2>5 DEF TypeOK
  <2>8. pc' = [pc EXCEPT ![s] = "decide"] /\ loop' = s
    BY <1>7 DEF GoOn, Goto
  <2> HIDE DEF r
  <2> QED
    BY <1>2, <1>3, <1>4, <2>2, <2>3, <2>4, <2>5, <2>6, <2>7, <2>8, Saves
<1> QED
  BY <1>6, <1>7 DEF EngineAnswers

LEMMA DecideStep ==
  ASSUME IInv, NEW s \in Scan, Decide(s) PROVE IInv'
<1>1. ScanInv(s) /\ TypeOK /\ Process
  BY DEF IInv
<1>2. /\ pc[s] = "decide" /\ loop = s
      /\ UNCHANGED <<proc, work, drain, cancelling, crashes, todo, spent, asked, provider, planner, select,
                     rows, unsaved, misled, overtaken>>
  BY DEF Decide, Alone, life, models, past
<1>3. "decide" \in (Flow \ Await) \cap Foreign
  BY DEF Flow, Native, Foreign, Await
<1>4. /\ mem[s] \in Rows /\ mem[s].engine /\ s \notin cancelling /\ mem[s].reads = {}
      /\ drain.pc # "callback" /\ misled \subseteq overtaken
      /\ mem[s].found => todo[s] # <<>>
  BY <1>1, <1>2, <1>3, AtWork DEF ScanInv, Evident, Process, Honest
<1>5. todo[s] \in Seq(Read) /\ todo' = [todo EXCEPT ![s] = todo[s]]
  BY <1>1, <1>2 DEF TypeOK
<1>6. /\ spent' \in [Scan -> [dispatch : Nat, iteration : Nat]] /\ asked' \in [Scan -> Model \cup {None}]
      /\ misled' \in SUBSET Scan
  BY <1>1, <1>2 DEF TypeOK
<1>7. PICK st \in {"PASS", "FAIL", "REVIEW", "INCOMPLETE"} :
        Terminal(s, st) /\ (st = "FAIL" => mem[s].found) /\ (st = "PASS" => ~mem[s].found)
  BY <1>4 DEF Decide
<1>12. st \in Statuses
  BY <1>7 DEF Statuses
<1> DEFINE r == [mem[s] EXCEPT !.status = st]
<1>8. r.status = st /\ r.engine = mem[s].engine /\ r.reads = mem[s].reads /\ r.found = mem[s].found
  BY <1>4, <1>12, StatusRow
<1> HIDE DEF r
<1>9. Honest(r)
  <2>1. mem[s].found \in BOOLEAN
    BY <1>4 DEF Rows
  <2> QED
    BY <1>4, <1>7, <1>8, <2>1 DEF Honest
<1>10. cancelling' = cancelling \ {s}
  BY <1>2, <1>4
<1>11. OnlyTask(s) /\ TypeOK'
  BY <1>2, <1>3, <1>5, <1>6, <1>7, EndsTyped
<1> QED
  BY <1>2, <1>3, <1>4, <1>7, <1>9, <1>10, <1>11, Ends DEF r

LEMMA RaisesStep ==
  ASSUME IInv, NEW s \in Scan, Raises(s) PROVE IInv'
<1>1. ScanInv(s) /\ TypeOK /\ Process
  BY DEF IInv
<1>2. UNCHANGED <<proc, work, drain, cancelling, crashes, todo, spent, asked, provider, planner, select,
                  rows, unsaved, misled, overtaken>>
  BY DEF Raises, life, models, past
<1>3. pc[s] \in Flow /\ (pc[s] \in Await => Free /\ s \notin cancelling)
  BY DEF Raises, Resumes, Alone, Flow, Native, Foreign, Await
<1>4. s \notin cancelling /\ misled' \subseteq overtaken
  <2>1. pc[s] # "none" /\ misled' \subseteq overtaken
    BY <1>1, <1>2, <1>3 DEF Process, Flow, Native, Foreign
  <2> QED
    BY <1>3, <2>1, AtWork
<1>5. cancelling' = cancelling \ {s}
  BY <1>2, <1>4
<1>6. todo[s] \in Seq(Read) /\ todo' = [todo EXCEPT ![s] = todo[s]]
  BY <1>1, <1>2 DEF TypeOK
<1>7. spent' \in [Scan -> [dispatch : Nat, iteration : Nat]] /\ asked' \in [Scan -> Model \cup {None}]
  BY <1>1, <1>2 DEF TypeOK
<1>8. PICK st \in {"REVIEW", "INCOMPLETE"} : Terminal(s, st)
  BY DEF Raises
<1> QED
  BY <1>2, <1>3, <1>4, <1>5, <1>6, <1>7, <1>8, EndsUndecided

LEMMA CancelledStep ==
  ASSUME IInv, NEW s \in Scan, Cancelled(s) PROVE IInv'
<1>1. ScanInv(s) /\ TypeOK /\ Process
  BY DEF IInv
<1>2. /\ pc[s] \in Await /\ Free /\ s \in cancelling /\ cancelling' = cancelling \ {s}
      /\ Terminal(s, "INCOMPLETE")
      /\ UNCHANGED <<proc, work, drain, crashes, todo, spent, asked, provider, planner, select,
                     rows, unsaved, misled, overtaken>>
  BY DEF Cancelled, models, past
<1>3. pc[s] \in Flow /\ misled' \subseteq overtaken
  BY <1>1, <1>2 DEF Flow, Native, Foreign, Await, Process
<1>4. todo[s] \in Seq(Read) /\ todo' = [todo EXCEPT ![s] = todo[s]]
  BY <1>1, <1>2 DEF TypeOK
<1>5. spent' \in [Scan -> [dispatch : Nat, iteration : Nat]] /\ asked' \in [Scan -> Model \cup {None}]
  BY <1>1, <1>2 DEF TypeOK
<1> QED
  BY <1>2, <1>3, <1>4, <1>5, EndsUndecided

(* The end of a task, after its flow: another row is saved, or none.          *)
LEMMA Closes ==
  ASSUME IInv, NEW s \in Scan, pc[s] \in Closing, NEW at \in Closing \cup {"ended"},
         pc' = [pc EXCEPT ![s] = at], loop' = IF at = "ended" THEN None ELSE s,
         UNCHANGED <<proc, drain, cancelling, work, crashes, provider, planner, select, todo, spent,
                     asked, misled, overtaken, unsaved>>,
         NEW r \in Rows, Save(s, r), r.engine = mem[s].engine, r.reads = mem[s].reads,
         r.model = mem[s].model, Honest(r), r.status \notin {"QUEUED", "RUNNING"},
         mem[s].status = "INCOMPLETE" /\ "cross" \notin r.reads => r.status = "INCOMPLETE",
         at = "stamp" => r.engine \/ Matches(r),
         \/ rows' = rows
         \/ at = "ended" /\ rows' = [rows EXCEPT ![s] = r.status]
  PROVE  IInv'
<1>1. ScanInv(s) /\ TypeOK /\ Process
  BY DEF IInv
<1>2. /\ Closing \cap (Flow \cup {"none", "new", "ended", "done"}) = {} /\ Closing \subseteq Inner
      /\ "ended" \notin Inner \cup Flow /\ Await \subseteq Flow
  BY DEF Closing, Flow, Native, Foreign, Inner, Await
<1>3. /\ store[s] = mem[s] /\ loop = s /\ drain.pc # "callback" /\ s \notin cancelling /\ s \in work
      /\ proc \notin {"DOWN", "STARTING"} /\ rows[s] = None /\ mem[s] \in Rows /\ mem[s] # None
  BY <1>2, AtWork
<1>4. mem[s].status \notin {"QUEUED", "RUNNING"}
  BY <1>1 DEF ScanInv, Evident
<1>5. mem' = [mem EXCEPT ![s] = r] /\ store' = [store EXCEPT ![s] = r] /\ r # None
  BY ScanServiceAssumption DEF Save
<1>6. r.status \in Statuses
  BY DEF Rows, Statuses
<1>7. TypeOK'
  <2>1. pc' \in [Scan -> PC] /\ loop' \in Scan \cup {None}
    BY <1>1 DEF TypeOK, PC
  <2>2. store' \in [Scan -> Rows \cup {None}] /\ mem' \in [Scan -> Rows \cup {None}]
    BY <1>1, <1>5 DEF TypeOK
  <2>3. rows' \in [Scan -> {"QUEUED", "RUNNING", "PASS", "FAIL", "REVIEW", "INCOMPLETE", None}]
    BY <1>1, <1>6 DEF TypeOK, Statuses
  <2> QED
    BY <1>1, <2>1, <2>2, <2>3 DEF TypeOK
<1>8. pc'[s] = at /\ mem'[s] = r /\ store'[s] = r
  BY <1>1, <1>5 DEF TypeOK
<1>9. OnlyTask(s)
  <2>1. todo' = [todo EXCEPT ![s] = todo[s]]
    BY <1>1 DEF TypeOK
  <2>2. \E x : rows' = [rows EXCEPT ![s] = x]
    <3>1. CASE rows' = rows
      <4>1. rows' = [rows EXCEPT ![s] = rows[s]]
        BY <1>1, <3>1 DEF TypeOK
      <4> QED
        BY <4>1
    <3> QED
      BY <3>1
  <2>3. loop \in {s, None} /\ loop' \in {s, None}
    BY <1>3
  <2> QED
    BY <1>1, <1>5, <2>1, <2>2, <2>3, Local
<1>10. Status(s)' = r.status /\ ~Live(s)' /\ Status(s) = mem[s].status
  BY <1>3, <1>5, <1>8 DEF Status, Live
<1>11. Placed(s)'
  BY <1>2, <1>3, <1>5, <1>8, ScanServiceAssumption DEF Placed
<1>12. Held(s)' /\ Evident(s)'
  <2>1. /\ at \notin Flow /\ at \notin Native \ {"verify"} /\ at # "new" /\ at # "decide"
        /\ at \notin Await \cup {"reserve", "job"}
    BY <1>2 DEF Flow, Native, Foreign
  <2>2. Held(s)'
    BY <1>5, <1>8, <2>1 DEF Held
  <2>3. Evident(s)'
    BY <1>5, <1>8, <2>1 DEF Evident
  <2> QED
    BY <2>2, <2>3
<1>13. Drained(s)'
  <2>1. "cross" \notin store[s].reads => "cross" \notin r.reads
    BY <1>3
  <2>2. Drained(s)
    BY <1>1 DEF ScanInv
  <2>3. pc'[s] \in Closing \cup {"ended", "done"} /\ pc'[s] # "none"
    BY <1>2, <1>8
  <2>4. drain.pc \in {"cancel", "callback"} /\ s \in drain.set =>
           "cross" \notin store[s].reads /\ Status(s) = "INCOMPLETE"
    BY <1>3, <2>2 DEF Drained
  <2> QED
    BY <1>2, <1>3, <1>8, <1>10, <2>1, <2>2, <2>3, <2>4 DEF Drained
<1>14. Attended(s)'
  BY <1>10 DEF Attended
<1>15. Recorded(s)'
  <2>1. CASE rows' = rows
    BY <1>3, <2>1 DEF Recorded
  <2>2. CASE at = "ended" /\ rows' = [rows EXCEPT ![s] = r.status]
    <3>1. rows'[s] = r.status
      BY <1>1, <2>2 DEF TypeOK
    <3> QED
      BY <1>5, <1>8, <1>10, <2>2, <3>1 DEF Recorded
  <2> QED
    BY <2>1, <2>2
<1>16. Planned(s)'
  BY <1>1, <1>3, <1>8 DEF ScanInv, Planned
<1>17. ScanInv(s)'
  BY <1>8, <1>11, <1>12, <1>13, <1>14, <1>15, <1>16 DEF ScanInv
<1> QED
  BY <1>1, <1>3, <1>7, <1>9, <1>17, OthersStay DEF Process

LEMMA FinallyStep ==
  ASSUME IInv, NEW s \in Scan, Finally(s) PROVE IInv'
<1>1. ScanInv(s) /\ TypeOK /\ Process
  BY DEF IInv
<1>2. /\ pc[s] = "finally" /\ loop' = s /\ pc' = [pc EXCEPT ![s] = "stamp"]
      /\ Save(s, IF mem[s].engine THEN mem[s] ELSE Verified(mem[s]))
      /\ UNCHANGED <<proc, work, drain, cancelling, crashes, todo, spent, asked, provider, planner, select,
                     rows, unsaved, misled, overtaken>>
  BY DEF Finally, Alone, GoOn, Goto, life, models, past
<1>3. pc[s] \in Closing /\ "stamp" \in Closing /\ pc[s] \notin Flow
  BY <1>2 DEF Closing, Flow, Native, Foreign
<1>4. store[s] = mem[s] /\ mem[s] \in Rows /\ Honest(mem[s]) /\ mem[s].status \notin {"QUEUED", "RUNNING"}
  BY <1>1, <1>2, <1>3, AtWork DEF Await, ScanInv, Evident
<1> DEFINE r == IF mem[s].engine THEN mem[s] ELSE Verified(mem[s])
<1>5. /\ r \in Rows /\ r.status = mem[s].status /\ r.engine = mem[s].engine /\ r.model = mem[s].model
      /\ r.reads = mem[s].reads /\ r.closed = mem[s].closed /\ (r.engine \/ Matches(r))
      /\ r.engine => r = mem[s]
  BY <1>4, VerifiedRow
<1> HIDE DEF r
<1>6. Honest(r)
  BY <1>4, <1>5 DEF Honest
<1>7. Save(s, r)
  BY <1>2 DEF r
<1> QED
  BY <1>2, <1>3, <1>4, <1>5, <1>6, <1>7, Closes

LEMMA StampStep ==
  ASSUME IInv, NEW s \in Scan, Stamp(s) PROVE IInv'
<1>1. ScanInv(s) /\ TypeOK /\ Process
  BY DEF IInv
<1> DEFINE r == [mem[s] EXCEPT !.closed = TRUE, !.status = IF ~mem[s].engine /\ mem[s].found THEN "FAIL" ELSE @]
           at == IF s \in Console /\ ~mem[s].engine THEN "ledger" ELSE "ended"
<1>2. /\ pc[s] = "stamp" /\ loop' = (IF at = "ended" THEN None ELSE s) /\ pc' = [pc EXCEPT ![s] = at]
      /\ Save(s, r)
      /\ UNCHANGED <<proc, work, drain, cancelling, crashes, todo, spent, asked, provider, planner, select,
                     rows, unsaved, misled, overtaken>>
  BY DEF Stamp, Alone, GoOn, AwaitAt, Goto, life, models, past
<1>3. pc[s] \in Closing /\ at \in {"ledger", "ended"} /\ at \in Closing \cup {"ended"} /\ pc[s] \notin Flow
  BY <1>2 DEF Closing, Flow, Native, Foreign
<1>4. /\ store[s] = mem[s] /\ mem[s] \in Rows /\ Honest(mem[s]) /\ mem[s].status \notin {"QUEUED", "RUNNING"}
      /\ mem[s].engine \/ Matches(mem[s])
  BY <1>1, <1>2, <1>3, AtWork DEF Await, ScanInv, Evident
<1>5. /\ r \in Rows /\ r.engine = mem[s].engine /\ r.model = mem[s].model
      /\ r.reads = mem[s].reads /\ r.closed /\ r.found = mem[s].found
      /\ r.status = IF ~mem[s].engine /\ mem[s].found THEN "FAIL" ELSE mem[s].status
  BY <1>4, StampedRow
<1> HIDE DEF r, at
<1>6. /\ r.status \notin {"QUEUED", "RUNNING"}
      /\ mem[s].status = "INCOMPLETE" /\ "cross" \notin r.reads => r.status = "INCOMPLETE"
  BY <1>4, <1>5 DEF Matches
<1>7. Honest(r)
  <2>1. CASE mem[s].engine
    BY <1>4, <1>5, <2>1 DEF Honest
  <2>2. CASE ~mem[s].engine /\ mem[s].found
    BY <1>4, <1>5, <2>2 DEF Honest, Matches
  <2>3. CASE ~mem[s].engine /\ ~mem[s].found
    BY <1>4, <1>5, <2>3 DEF Honest, Matches
  <2> QED
    BY <2>1, <2>2, <2>3
<1> QED
  BY <1>2, <1>3, <1>4, <1>5, <1>6, <1>7, Closes

LEMMA RecordStep ==
  ASSUME IInv, NEW s \in Scan, Record(s) PROVE IInv'
<1>1. ScanInv(s) /\ TypeOK /\ Process
  BY DEF IInv
<1>2. /\ pc[s] = "ledger" /\ loop' = None /\ pc' = [pc EXCEPT ![s] = "ended"]
      /\ rows' = rows \/ rows' = [rows EXCEPT ![s] = store[s].status]
      /\ UNCHANGED <<proc, work, drain, cancelling, crashes, todo, spent, asked, provider, planner, select,
                     unsaved, misled, overtaken, store, mem>>
  BY DEF Record, Alone, AwaitAt, Goto, life, models, past
<1>3. pc[s] \in Closing /\ pc[s] \notin Flow
  BY <1>2 DEF Closing, Flow, Native, Foreign
<1>4. store[s] = mem[s] /\ mem[s] \in Rows /\ Honest(mem[s]) /\ mem[s].status \notin {"QUEUED", "RUNNING"}
  BY <1>1, <1>2, <1>3, AtWork DEF Await, ScanInv, Evident
<1>5. Save(s, mem[s])
  BY <1>1, <1>2, <1>4 DEF Save, TypeOK
<1> DEFINE r == mem[s]
           at == "ended"
<1>6. /\ r \in Rows /\ Save(s, r) /\ r.engine = mem[s].engine /\ r.reads = mem[s].reads
      /\ r.model = mem[s].model /\ Honest(r) /\ r.status \notin {"QUEUED", "RUNNING"}
      /\ mem[s].status = "INCOMPLETE" /\ "cross" \notin r.reads => r.status = "INCOMPLETE"
  BY <1>4, <1>5
<1>7. /\ at \in Closing \cup {"ended"} /\ pc' = [pc EXCEPT ![s] = at]
      /\ loop' = IF at = "ended" THEN None ELSE s
      /\ at = "stamp" => r.engine \/ Matches(r)
      /\ rows' = rows \/ (at = "ended" /\ rows' = [rows EXCEPT ![s] = r.status])
  BY <1>2, <1>4
<1> HIDE DEF r, at
<1> QED
  BY <1>2, <1>3, <1>6, <1>7, Closes

LEMMA StoreFailsStep ==
  ASSUME IInv, NEW s \in Scan, StoreFails(s) PROVE IInv'
<1>1. ScanInv(s) /\ TypeOK /\ Process
  BY DEF IInv
<1>2. /\ pc[s] \in {"head", "bind", "verify", "job", "decide", "finally", "stamp"}
      /\ loop' = None /\ pc' = [pc EXCEPT ![s] = "ended"] /\ unsaved' = unsaved \cup {s}
      /\ UNCHANGED <<proc, work, drain, cancelling, crashes, store, mem, todo, spent, asked,
                     provider, planner, select, misled, overtaken>>
      /\ rows' = rows \/ rows' = [rows EXCEPT ![s] = store[s].status]
  BY DEF StoreFails, AwaitAt, Goto, life, models
<1>3. pc[s] \in (Flow \cup Closing) \ Await /\ pc[s] \notin {"none", "new", "ended", "done"}
      /\ "ended" \notin Inner \cup Flow \cup Closing \cup Await \cup Native \cup {"reserve", "job"}
  BY <1>2 DEF Flow, Native, Foreign, Closing, Await, Inner
<1>4. /\ store[s] # None /\ Honest(store[s]) /\ proc \notin {"DOWN", "STARTING"} /\ store[s] = mem[s]
      /\ drain.pc # "callback" /\ s \notin cancelling /\ rows[s] = None /\ s \in work /\ loop = s
  BY <1>3, AtWork
<1>5. TypeOK'
  <2>1. store[s].status \in {"QUEUED", "RUNNING", "PASS", "FAIL", "REVIEW", "INCOMPLETE"}
    BY <1>1, <1>4 DEF TypeOK, Rows
  <2>2. rows' \in [Scan -> {"QUEUED", "RUNNING", "PASS", "FAIL", "REVIEW", "INCOMPLETE", None}]
    BY <1>1, <1>2, <2>1 DEF TypeOK
  <2> QED
    BY <1>1, <1>2, <2>2 DEF TypeOK, PC
<1>6. OnlyTask(s)
  <2>1. /\ todo' = [todo EXCEPT ![s] = todo[s]] /\ rows' = [rows EXCEPT ![s] = rows'[s]]
        /\ mem' = [mem EXCEPT ![s] = mem[s]] /\ store' = [store EXCEPT ![s] = store[s]]
    BY <1>1, <1>2 DEF TypeOK
  <2> QED
    BY <1>1, <1>2, <1>4, <2>1, Local
<1>7. pc'[s] = "ended" /\ store'[s] = store[s] /\ Status(s)' = Status(s)
  BY <1>1, <1>2 DEF TypeOK, Status
<1>8. Placed(s)'
  BY <1>2, <1>3, <1>4, <1>7, ScanServiceAssumption DEF Placed
<1>9. Held(s)' /\ Evident(s)'
  BY <1>3, <1>7 DEF Held, Evident
<1>10. Drained(s)'
  <2>1. Drained(s)
    BY <1>1 DEF ScanInv
  <2>2. s \in unsaved'
    BY <1>2
  <2> QED
    BY <1>2, <1>3, <1>4, <1>7, <2>1, <2>2 DEF Drained
<1>11. Attended(s)' /\ Recorded(s)'
  <2>1. s \in unsaved'
    BY <1>2
  <2> QED
    BY <1>4, <1>7, <2>1 DEF Attended, Recorded
<1>12. Planned(s)'
  BY <1>1, <1>2 DEF ScanInv, Planned
<1>13. ScanInv(s)'
  BY <1>4, <1>7, <1>8, <1>9, <1>10, <1>11, <1>12 DEF ScanInv
<1> QED
  BY <1>1, <1>2, <1>4, <1>5, <1>6, <1>13, OthersStay DEF Process

LEMMA WorkDoneStep ==
  ASSUME IInv, NEW s \in Scan, WorkDone(s) PROVE IInv'
<1>1. ScanInv(s) /\ TypeOK /\ Process
  BY DEF IInv
<1>2. /\ pc[s] = "ended" /\ pc' = [pc EXCEPT ![s] = "done"] /\ work' = work \ {s}
      /\ loop = None /\ drain.pc # "callback"
      /\ UNCHANGED <<proc, drain, cancelling, loop, store, mem, todo, spent, asked,
                     provider, planner, select, rows, crashes, unsaved, misled, overtaken>>
  BY DEF WorkDone, Free, Goto, models, past
<1>3. /\ "done" \notin Inner \cup Flow \cup Closing \cup Await \cup Native \cup {"reserve", "job"}
      /\ "ended" \notin Await \cup Closing
  BY DEF Flow, Native, Foreign, Closing, Await, Inner
<1>4. store[s] # None /\ Honest(store[s]) /\ proc \notin {"DOWN", "STARTING"}
  BY <1>2, AtWork
<1>5. TypeOK'
  BY <1>1, <1>2 DEF TypeOK, PC
<1>6. OnlyTask(s)
  <2>1. /\ todo' = [todo EXCEPT ![s] = todo[s]] /\ rows' = [rows EXCEPT ![s] = rows[s]]
        /\ mem' = [mem EXCEPT ![s] = mem[s]] /\ store' = [store EXCEPT ![s] = store[s]]
    BY <1>1, <1>2 DEF TypeOK
  <2> QED
    BY <1>1, <1>2, <2>1, Local
<1>7. pc'[s] = "done" /\ store'[s] = store[s] /\ Status(s)' = Status(s) /\ (Live(s)' <=> Live(s))
  BY <1>1, <1>2 DEF TypeOK, Status, Live
<1>8. s \notin cancelling
  BY <1>1, <1>2, <1>3 DEF ScanInv, Placed
<1>9. Placed(s)'
  BY <1>2, <1>3, <1>4, <1>7, <1>8, ScanServiceAssumption DEF Placed
<1>10. Held(s)' /\ Evident(s)'
  BY <1>3, <1>7 DEF Held, Evident
<1>11. Drained(s)'
  <2>1. Drained(s)
    BY <1>1 DEF ScanInv
  <2> QED
    BY <1>2, <1>3, <1>7, <1>8, <2>1 DEF Drained
<1>12. Attended(s)'
  <2>1. Live(s) => s \in unsaved
    BY <1>1, <1>2, <1>4 DEF ScanInv, Attended, TypeOK
  <2> QED
    BY <1>2, <1>7, <2>1 DEF Attended
<1>13. Recorded(s)'
  BY <1>1, <1>2, <1>7 DEF ScanInv, Recorded
<1>14. Planned(s)'
  BY <1>2 DEF Planned
<1>15. ScanInv(s)'
  BY <1>4, <1>7, <1>9, <1>10, <1>11, <1>12, <1>13, <1>14 DEF ScanInv
<1> QED
  BY <1>1, <1>2, <1>4, <1>5, <1>6, <1>15, OthersStay DEF Process

LEMMA CreateStep ==
  ASSUME IInv, NEW s \in Scan, NEW e \in BOOLEAN, NEW p \in Scan \cup {None}, Create(s, e, p)
  PROVE  IInv'
<1> DEFINE r == Row(e, p, IF e THEN None ELSE planner)
<1>1. ScanInv(s) /\ TypeOK /\ Process
  BY DEF IInv
<1>2. /\ proc = "SERVING" /\ loop = None /\ drain.pc # "callback" /\ store[s] = None
      /\ store' = [store EXCEPT ![s] = r]
      /\ \/ work' = work \cup {s} /\ pc' = [pc EXCEPT ![s] = "new"] /\ unsaved' = unsaved
         \/ unsaved' = unsaved \cup {s} /\ work' = work /\ pc' = pc
      /\ overtaken' = (IF select.pc = "idle" THEN overtaken ELSE overtaken \cup {s})
      /\ UNCHANGED <<proc, drain, cancelling, loop, mem, todo, spent, asked,
                     provider, planner, select, rows, crashes, misled>>
  BY DEF Create, Free, Goto, models
<1>3. r \in Rows /\ Blank(r) /\ r.engine = e /\ r.model = (IF e THEN None ELSE planner) /\ Honest(r)
  BY <1>1, CreatedRow DEF TypeOK
<1> HIDE DEF r
<1>4. r # None /\ r.status = "QUEUED"
  BY <1>3, ScanServiceAssumption DEF Blank
<1>5. {"none", "new"} \cap (Inner \cup Flow \cup Closing \cup Await \cup Native \cup {"reserve", "job"}) = {}
  BY DEF Flow, Native, Foreign, Closing, Await, Inner
<1>6. pc[s] = "none" /\ s \notin work /\ s \notin cancelling /\ rows[s] = None
  BY <1>1, <1>2, <1>5 DEF ScanInv, Placed, Recorded
<1>7. TypeOK'
  BY <1>1, <1>2, <1>3 DEF TypeOK, PC
<1>8. OnlyTask(s)
  <2>1. /\ todo' = [todo EXCEPT ![s] = todo[s]] /\ rows' = [rows EXCEPT ![s] = rows[s]]
        /\ mem' = [mem EXCEPT ![s] = mem[s]] /\ pc = [pc EXCEPT ![s] = pc[s]]
    BY <1>1, <1>2 DEF TypeOK
  <2>2. ASSUME NEW t \in Scan \ {s} PROVE Same(t)
    BY <1>1, <1>2 DEF Same, TypeOK
  <2> QED
    BY <1>2, <2>2 DEF OnlyTask
<1>9. store'[s] = r /\ mem'[s] = mem[s] /\ Status(s)' = "QUEUED"
  BY <1>1, <1>2, <1>4 DEF TypeOK, Status
<1>10. Drained(s)'
  BY <1>1, <1>2 DEF Drained, Process
<1>11. Recorded(s)'
  BY <1>2, <1>6 DEF Recorded
<1>12. Planned(s)'
  BY <1>2, <1>3, <1>9 DEF Planned
<1>13. CASE work' = work \cup {s} /\ pc' = [pc EXCEPT ![s] = "new"] /\ unsaved' = unsaved
  <2>1. pc'[s] = "new" /\ s \in work'
    BY <1>1, <1>13 DEF TypeOK
  <2>2. Placed(s)'
    BY <1>2, <1>4, <1>5, <1>6, <1>9, <2>1, ScanServiceAssumption DEF Placed
  <2>3. Held(s)' /\ Evident(s)' /\ Attended(s)'
    BY <1>2, <1>3, <1>5, <1>9, <2>1 DEF Held, Evident, Attended
  <2>4. ScanInv(s)'
    BY <1>3, <1>9, <1>10, <1>11, <1>12, <2>2, <2>3 DEF ScanInv
  <2> QED
    BY <1>1, <1>2, <1>7, <1>8, <2>4, OthersStay DEF Process
<1>14. CASE unsaved' = unsaved \cup {s} /\ work' = work /\ pc' = pc
  <2>1. pc'[s] = "none" /\ s \notin work' /\ s \in unsaved'
    BY <1>6, <1>14
  <2>2. Placed(s)'
    BY <1>2, <1>4, <1>5, <1>6, <1>9, <2>1, ScanServiceAssumption DEF Placed
  <2>3. Held(s)' /\ Evident(s)' /\ Attended(s)'
    BY <1>2, <1>5, <2>1 DEF Held, Evident, Attended
  <2>4. ScanInv(s)'
    BY <1>3, <1>9, <1>10, <1>11, <1>12, <2>2, <2>3 DEF ScanInv
  <2> QED
    BY <1>1, <1>2, <1>7, <1>8, <2>4, OthersStay DEF Process
<1> QED
  BY <1>2, <1>13, <1>14

-----------------------------------------------------------------------------
(* The drain.                                                                *)

(* Tasks and rows are as they were, and so are the tasks to cancel.           *)
LEMMA DrainMoves ==
  ASSUME IInv, TypeOK', Process', \A t \in Scan : Drained(t)' /\ Attended(t)',
         UNCHANGED <<task, store, work, cancelling, models, rows, past>>
  PROVE  IInv'
<1> SUFFICES ASSUME NEW t \in Scan PROVE ScanInv(t)'
  BY DEF IInv
<1>1. ScanInv(t)
  BY DEF IInv
<1>2. UNCHANGED <<pc, mem, todo, loop, store, work, cancelling, select, planner, rows, unsaved, overtaken>>
  BY DEF task, models, past
<1>3. Status(t)' = Status(t) /\ (Live(t)' <=> Live(t))
  BY <1>2 DEF Status, Live
<1>4. Placed(t)' /\ Held(t)' /\ Evident(t)'
  BY <1>1, <1>2 DEF ScanInv, Placed, Held, Evident
<1>5. Recorded(t)' /\ Planned(t)'
  BY <1>1, <1>2, <1>3 DEF ScanInv, Recorded, Planned
<1>6. (store[t] # None => Honest(store[t]))'
  BY <1>1, <1>2 DEF ScanInv
<1> QED
  BY <1>4, <1>5, <1>6 DEF ScanInv

LEMMA BeginDrainStep ==
  ASSUME IInv, BeginDrain PROVE IInv'
<1>1. /\ TypeOK /\ Process /\ proc = "SERVING" /\ proc' = "DRAINING" /\ loop = None
      /\ drain' = [pc |-> "begin", set |-> {}]
      /\ UNCHANGED <<work, cancelling, crashes, task, store, models, rows, past>>
  BY DEF BeginDrain, IInv, Drain
<1>2. TypeOK'
  BY <1>1 DEF TypeOK, task, models, past
<1>3. Process'
  BY <1>1 DEF Process, task, past
<1>4. ASSUME NEW t \in Scan PROVE Drained(t)' /\ Attended(t)'
  <2>1. Attended(t)
    BY DEF IInv, ScanInv
  <2> QED
    BY <1>1, <2>1 DEF Drained, Attended, Live, Status, task, past
<1> QED
  BY <1>1, <1>2, <1>3, <1>4, DrainMoves

LEMMA DrainSnapshotStep ==
  ASSUME IInv, DrainSnapshot PROVE IInv'
<1>1. /\ TypeOK /\ Process /\ drain.pc = "begin" /\ loop = None
      /\ drain' = [pc |-> "grace", set |-> work]
      /\ UNCHANGED <<proc, work, cancelling, crashes, task, store, models, rows, past>>
  BY DEF DrainSnapshot, IInv, Drain
<1>2. TypeOK'
  BY <1>1 DEF TypeOK, task, models, past
<1>3. Process'
  BY <1>1 DEF Process, task, past
<1>4. ASSUME NEW t \in Scan PROVE Drained(t)' /\ Attended(t)'
  <2>1. Attended(t)
    BY DEF IInv, ScanInv
  <2> QED
    BY <1>1, <2>1 DEF Drained, Attended, Live, Status, task, past
<1> QED
  BY <1>1, <1>2, <1>3, <1>4, DrainMoves

(* At the end of the grace a task that is at work waits, and has no finding.   *)
LEMMA Pending ==
  ASSUME IInv, NEW s \in Scan, s \in work, pc[s] # "ended", pc[s] # "new", loop = None
  PROVE  pc[s] \in Await /\ "cross" \notin store[s].reads
<1>1. ScanInv(s) /\ TypeOK
  BY DEF IInv
<1>2. pc[s] \in Await
  <2>1. pc[s] \notin Inner /\ pc[s] \notin {"none", "done"} /\ pc[s] \in PC
    BY <1>1, ScanServiceAssumption DEF ScanInv, Placed, TypeOK
  <2> QED
    BY <2>1 DEF PC, Inner
<1>3. pc[s] \in Flow /\ pc[s] # "none" /\ (pc[s] \in Foreign \/ pc[s] \in Native \ {"verify"})
  BY <1>2 DEF Await, Flow, Native, Foreign
<1>4. /\ mem[s].reads = store[s].reads /\ mem[s].engine = store[s].engine /\ Honest(store[s])
  BY <1>3, AtWork
<1>5. CASE pc[s] \in Foreign
  BY <1>1, <1>2, <1>3, <1>4, <1>5 DEF ScanInv, Evident, Honest
<1>6. CASE pc[s] \in Native \ {"verify"}
  BY <1>1, <1>2, <1>4, <1>6 DEF ScanInv, Evident, Matches
<1> QED
  BY <1>2, <1>3, <1>5, <1>6

LEMMA GraceEndsStep ==
  ASSUME IInv, GraceEnds PROVE IInv'
<1> DEFINE pending == {s \in drain.set \cap work : pc[s] # "ended"}
<1>1. /\ TypeOK /\ Process /\ drain.pc = "grace" /\ loop = None
      /\ \/ pending = {} /\ drain' = [pc |-> "callback", set |-> {}] /\ cancelling' = cancelling
         \/ /\ \A s \in pending : pc[s] # "new"
            /\ drain' = [pc |-> "cancel", set |-> pending] /\ cancelling' = pending
      /\ UNCHANGED <<proc, work, crashes, task, store, models, rows, past>>
  BY DEF GraceEnds, IInv, Drain
<1>2. pending \in SUBSET Scan /\ proc = "DRAINING"
  BY <1>1 DEF TypeOK, Process
<1>3. ASSUME NEW t \in Scan, Live(t), t \notin unsaved PROVE t \in pending
  BY <1>1, <1>2, <1>3 DEF IInv, ScanInv, Attended, Drained
<1>4. ASSUME NEW t \in Scan, t \in pending
      PROVE  t \in work /\ pc[t] # "ended"
  BY <1>4
<1>5. ASSUME NEW t \in cancelling PROVE t \in pending
  <2>1. t \in Scan /\ pc[t] \in Await
    BY <1>1, <1>5 DEF TypeOK, IInv, ScanInv, Placed
  <2>2. t \in work /\ pc[t] # "ended"
    BY <2>1 DEF IInv, ScanInv, Placed, Await
  <2> QED
    BY <1>1, <2>1, <2>2 DEF IInv, ScanInv, Drained
<1> HIDE DEF pending
<1>6. TypeOK'
  BY <1>1, <1>2 DEF TypeOK, task, models, past
<1>7. Process'
  BY <1>1 DEF Process, task, past
<1>8. ASSUME NEW t \in Scan PROVE Attended(t)' /\ (Live(t)' <=> Live(t)) /\ unsaved' = unsaved
  BY <1>1 DEF IInv, ScanInv, Attended, Live, Status, task, past
<1>9. CASE pending = {} /\ drain' = [pc |-> "callback", set |-> {}] /\ cancelling' = cancelling
  <2>1. ASSUME NEW t \in Scan PROVE Drained(t)'
    BY <1>3, <1>8, <1>9 DEF Drained
  <2> QED
    BY <1>1, <1>6, <1>7, <1>8, <1>9, <2>1, DrainMoves
<1>10. CASE /\ \A s \in pending : pc[s] # "new"
            /\ drain' = [pc |-> "cancel", set |-> pending] /\ cancelling' = pending
  <2>1. ASSUME NEW t \in Scan, t \in pending PROVE pc[t] \in Await /\ "cross" \notin store[t].reads
    BY <1>1, <1>4, <1>10, <2>1, Pending
  <2>2. UNCHANGED <<pc, mem, todo, loop, store, work, select, planner, rows, unsaved, overtaken>>
    BY <1>1 DEF task, models, past
  <2>3. ASSUME NEW t \in Scan PROVE ScanInv(t)'
    <3>1. ScanInv(t)
      BY DEF IInv
    <3>2. Placed(t)' /\ Held(t)' /\ Evident(t)'
      BY <1>5, <1>10, <2>1, <2>2, <3>1 DEF ScanInv, Placed, Held, Evident
    <3>3. Recorded(t)' /\ Planned(t)'
      BY <1>8, <2>2, <3>1 DEF ScanInv, Recorded, Planned, Status
    <3>4. (store[t] # None => Honest(store[t]))'
      BY <2>2, <3>1 DEF ScanInv
    <3>5. Drained(t)'
      <4>1. t \in pending => pc[t] # "none"
        BY <2>1 DEF Await
      <4> QED
        BY <1>3, <1>8, <1>10, <2>1, <2>2, <4>1 DEF Drained
    <3> QED
      BY <1>8, <3>2, <3>3, <3>4, <3>5 DEF ScanInv
  <2> QED
    BY <1>6, <1>7, <2>3 DEF IInv
<1> QED
  BY <1>1, <1>9, <1>10

LEMMA CancelEndsStep ==
  ASSUME IInv, CancelEnds PROVE IInv'
<1>1. /\ TypeOK /\ Process /\ drain.pc = "cancel" /\ loop = None
      /\ drain' = [pc |-> "callback", set |-> drain.set]
      /\ UNCHANGED <<proc, work, cancelling, crashes, task, store, models, rows, past>>
  BY DEF CancelEnds, IInv, Drain
<1>2. TypeOK'
  BY <1>1 DEF TypeOK, task, models, past
<1>3. Process'
  BY <1>1 DEF Process, task, past
<1>4. ASSUME NEW t \in Scan PROVE Drained(t)' /\ Attended(t)'
  <2>1. Drained(t) /\ Attended(t)
    BY DEF IInv, ScanInv
  <2>2. UNCHANGED <<pc, store, work, cancelling, unsaved, proc>> /\ drain'.pc = "callback" /\ drain'.set = drain.set
    BY <1>1 DEF task, past
  <2>3. Status(t)' = Status(t) /\ (Live(t)' <=> Live(t))
    BY <2>2 DEF Live, Status
  <2> QED
    BY <1>1, <2>1, <2>2, <2>3 DEF Drained, Attended
<1> QED
  BY <1>1, <1>2, <1>3, <1>4, DrainMoves

LEMMA StoppedStep ==
  ASSUME IInv, Stopped PROVE IInv'
<1>1. /\ TypeOK /\ Process /\ drain = [pc |-> "callback", set |-> {}]
      /\ drain' = [pc |-> "none", set |-> {}] /\ proc' = "STOPPED"
      /\ UNCHANGED <<work, cancelling, crashes, task, store, models, rows, past>>
  BY DEF Stopped, IInv, Drain
<1>2. TypeOK'
  BY <1>1 DEF TypeOK, task, models, past
<1>3. Process'
  BY <1>1 DEF Process, task, past
<1>4. ASSUME NEW t \in Scan PROVE Drained(t)' /\ Attended(t)'
  <2>1. Drained(t)
    BY DEF IInv, ScanInv
  <2>2. Live(t) => t \in unsaved
    BY <1>1, <2>1 DEF Drained
  <2> QED
    BY <1>1, <2>2 DEF Drained, Attended, Live, Status, task, past
<1> QED
  BY <1>1, <1>2, <1>3, <1>4, DrainMoves

(* A row that was ended already is ended as it was.                           *)
LEMMA InterruptedTwice ==
  ASSUME NEW r \in Rows PROVE Interrupted(Interrupted(r)) = Interrupted(r)
<1> DEFINE f == "cross" \in r.reads
           st == IF f THEN "FAIL" ELSE "INCOMPLETE"
           x == [r EXCEPT !.found = f, !.closed = TRUE, !.status = st]
<1>1. Interrupted(r) = x
  BY DEF Interrupted
<1> HIDE DEF f, st
<1>2. /\ x.reads = r.reads /\ x.found = f /\ x.closed = TRUE /\ x.status = st
      /\ x = [x EXCEPT !.found = f, !.closed = TRUE, !.status = st]
  BY DEF Rows
<1> HIDE DEF x
<1>3. Interrupted(x) = [x EXCEPT !.found = f, !.closed = TRUE, !.status = st]
  BY <1>2 DEF Interrupted, f, st
<1> QED
  BY <1>1, <1>2, <1>3

LEMMA CallbackStep ==
  ASSUME IInv, NEW s \in Scan, Callback(s) PROVE IInv'
<1>1. ScanInv(s) /\ TypeOK /\ Process
  BY DEF IInv
<1>2. /\ drain.pc = "callback" /\ s \in drain.set /\ drain' = [pc |-> "callback", set |-> drain.set \ {s}]
      /\ \/ store' = [store EXCEPT ![s] = Interrupted(store[s])] /\ unsaved' = unsaved
         \/ store' = store /\ unsaved' = unsaved \cup {s}
      /\ UNCHANGED <<proc, work, cancelling, crashes, mem, pc, todo, spent, asked, loop,
                     provider, planner, select, rows, misled, overtaken>>
  BY <1>1 DEF Callback, Drain, task, models, TypeOK
<1>3. loop = None /\ loop # s
  BY <1>1, <1>2, ScanServiceAssumption DEF Process
<1>4. /\ pc[s] # "none" /\ "cross" \notin store[s].reads
      /\ \/ s \in cancelling /\ pc[s] \in Await
         \/ pc[s] \in Closing \cup {"ended", "done"} /\ Status(s) = "INCOMPLETE"
  BY <1>1, <1>2 DEF ScanInv, Drained, Placed
<1>5. store[s] \in Rows /\ store[s] # None /\ Honest(store[s])
  BY <1>4, AtWork
<1> DEFINE r == Interrupted(store[s])
<1>6. /\ r \in Rows /\ r.engine = store[s].engine /\ r.model = store[s].model /\ r.reads = store[s].reads
      /\ r.status = "INCOMPLETE" /\ Honest(r) /\ r # None
  BY <1>4, <1>5, InterruptedRow, ScanServiceAssumption
<1>7. pc[s] \in Flow \cup Closing => r = Interrupted(mem[s])
  <2>1. ASSUME pc[s] \in Flow \cup Closing PROVE mem[s] \in Rows /\ store[s] \in {mem[s], Interrupted(mem[s])}
    BY <1>1, <1>4, <2>1, AtWork DEF ScanInv, Held
  <2> QED
    BY <2>1, InterruptedTwice
<1> HIDE DEF r
<1>8. TypeOK'
  BY <1>1, <1>2, <1>6 DEF TypeOK, r
<1>9. Process'
  BY <1>1, <1>2 DEF Process
<1>10. ASSUME NEW t \in Scan \ {s} PROVE ScanInv(t)'
  <2>1. Same(t)
    BY <1>1, <1>2 DEF Same, TypeOK
  <2> QED
    BY <1>2, <2>1, Unmoved
<1>11. CASE store' = [store EXCEPT ![s] = Interrupted(store[s])] /\ unsaved' = unsaved
  <2>1. store'[s] = r /\ Status(s)' = "INCOMPLETE" /\ ~Live(s)'
    BY <1>1, <1>6, <1>11 DEF TypeOK, Status, Live, r
  <2>2. Placed(s)'
    BY <1>1, <1>2, <1>6, <2>1 DEF ScanInv, Placed
  <2>3. Held(s)'
    <3>1. pc[s] \notin {"new"} /\ (pc[s] \in Flow \cup Closing => s \in cancelling)
      <4>1. ASSUME pc[s] \in Closing PROVE FALSE
        BY <1>1, <1>3, <4>1 DEF ScanInv, Placed, Inner, Closing, Await
      <4> QED
        BY <1>4, <4>1 DEF Await, Flow, Native, Foreign
    <3> QED
      BY <1>1, <1>2, <1>7, <2>1, <3>1 DEF ScanInv, Held
  <2>4. Evident(s)'
    BY <1>1, <1>2 DEF ScanInv, Evident
  <2>5. Drained(s)'
    BY <1>2, <2>1 DEF Drained
  <2>6. Attended(s)'
    BY <2>1 DEF Attended
  <2>7. Recorded(s)'
    <3>1. rows[s] # None => Status(s) = "INCOMPLETE"
      BY <1>1, <1>4 DEF ScanInv, Recorded, Await
    <3> QED
      BY <1>1, <1>2, <1>6, <1>11, <2>1, <3>1 DEF ScanInv, Recorded
  <2>8. Planned(s)'
    BY <1>1, <1>2, <1>6, <2>1 DEF ScanInv, Planned
  <2>9. ScanInv(s)'
    BY <1>6, <2>1, <2>2, <2>3, <2>4, <2>5, <2>6, <2>7, <2>8 DEF ScanInv
  <2> QED
    BY <1>8, <1>9, <1>10, <2>9 DEF IInv
<1>12. CASE store' = store /\ unsaved' = unsaved \cup {s}
  <2>1. Status(s)' = Status(s) /\ s \in unsaved'
    BY <1>12 DEF Status
  <2>2. Placed(s)' /\ Held(s)' /\ Evident(s)'
    BY <1>1, <1>2, <1>12 DEF ScanInv, Placed, Held, Evident
  <2>3. Drained(s)' /\ Attended(s)'
    BY <1>2, <2>1 DEF Drained, Attended
  <2>4. Recorded(s)' /\ Planned(s)'
    BY <1>1, <1>2, <1>12, <2>1 DEF ScanInv, Recorded, Planned
  <2>5. ScanInv(s)'
    BY <1>5, <1>12, <2>2, <2>3, <2>4 DEF ScanInv
  <2> QED
    BY <1>8, <1>9, <1>10, <2>5 DEF IInv
<1> QED
  BY <1>2, <1>11, <1>12

-----------------------------------------------------------------------------
(* The end of a process, and the next one.                                   *)

LEMMA DeadStep ==
  ASSUME IInv, Dead, crashes' \in Nat PROVE IInv'
<1>1. /\ TypeOK /\ Process
      /\ proc' = "DOWN" /\ work' = {} /\ cancelling' = {} /\ loop' = None
      /\ drain' = [pc |-> "none", set |-> {}]
      /\ pc' = [s \in Scan |-> "none"] /\ mem' = [s \in Scan |-> None]
      /\ todo' = [s \in Scan |-> <<>>] /\ asked' = [s \in Scan |-> None]
      /\ spent' = [s \in Scan |-> [dispatch |-> 0, iteration |-> 0]]
      /\ select' = [pc |-> "idle", model |-> None, left |-> select.left]
      /\ provider' \in {provider} \cup (IF select.pc = "sent" THEN {select.model} ELSE {})
      /\ UNCHANGED <<store, planner, rows, unsaved, misled, overtaken>>
  BY DEF Dead, IInv, Drain, Forgotten, Idle, past
<1>2. TypeOK'
  <2>1. select.left \in Nat /\ provider' \in Model
    BY <1>1 DEF TypeOK
  <2>2. spent' \in [Scan -> [dispatch : Nat, iteration : Nat]]
    BY <1>1
  <2>3. todo' \in [Scan -> Seq(Read)]
    <3>1. <<>> \in Seq(Read)
      OBVIOUS
    <3> QED
      BY <1>1, <3>1
  <2> QED
    BY <1>1, <2>1, <2>2, <2>3 DEF TypeOK, PC
<1>3. Process'
  BY <1>1 DEF Process
<1>4. ASSUME NEW t \in Scan PROVE ScanInv(t)'
  <2>1. ScanInv(t) /\ t # None
    BY ScanServiceAssumption DEF IInv
  <2>2. pc'[t] = "none" /\ t \notin work' /\ loop' # t /\ t \notin cancelling' /\ store'[t] = store[t]
    BY <1>1, <2>1
  <2>3. "none" \notin Inner \cup Flow \cup Closing \cup Await \cup Native \cup {"reserve", "job"}
    BY DEF Flow, Native, Foreign, Closing, Await, Inner
  <2>4. Placed(t)' /\ Held(t)' /\ Evident(t)'
    BY <2>2, <2>3 DEF Placed, Held, Evident
  <2>5. Drained(t)' /\ Attended(t)' /\ Planned(t)'
    BY <1>1, <2>2 DEF Drained, Attended, Planned
  <2>6. Recorded(t)'
    BY <1>1, <2>1, <2>2 DEF ScanInv, Recorded, Status, Live
  <2>7. (store[t] # None => Honest(store[t]))'
    BY <2>1, <2>2 DEF ScanInv
  <2> QED
    BY <2>4, <2>5, <2>6, <2>7 DEF ScanInv
<1> QED
  BY <1>2, <1>3, <1>4 DEF IInv

(* A process that has not begun to serve has no task.                        *)
LEMMA NoTask ==
  ASSUME IInv, proc \in {"DOWN", "STARTING"}, NEW t \in Scan
  PROVE  pc[t] = "none" /\ t \notin work /\ drain.pc = "none"
BY DEF IInv, Process, ScanInv, Placed

LEMMA BootStepHolds ==
  ASSUME IInv, Boot PROVE IInv'
<1>1. /\ TypeOK /\ Process /\ proc = "DOWN" /\ proc' = "STARTING" /\ planner' = DefaultModel
      /\ UNCHANGED <<work, drain, cancelling, crashes, mem, pc, todo, spent, asked, loop, store, provider,
                     select, rows, unsaved, misled, overtaken>>
  BY DEF Boot, IInv, task, past
<1>2. TypeOK' /\ Process'
  BY <1>1, ScanServiceAssumption DEF TypeOK, Process
<1>3. ASSUME NEW t \in Scan PROVE ScanInv(t)'
  <2>1. ScanInv(t) /\ pc[t] = "none" /\ t \notin work /\ drain.pc = "none"
    BY <1>1, NoTask DEF IInv
  <2>2. Placed(t)' /\ Held(t)' /\ Evident(t)'
    BY <1>1, <2>1 DEF ScanInv, Placed, Held, Evident
  <2>3. Drained(t)' /\ Attended(t)' /\ Planned(t)'
    BY <1>1, <2>1 DEF Drained, Attended, Planned
  <2>4. Recorded(t)' /\ (store[t] # None => Honest(store[t]))'
    BY <1>1, <2>1 DEF ScanInv, Recorded, Status, Live
  <2> QED
    BY <2>2, <2>3, <2>4 DEF ScanInv
<1> QED
  BY <1>2, <1>3 DEF IInv

LEMMA ReconcileStep ==
  ASSUME IInv, NEW s \in Scan, Reconcile(s) PROVE IInv'
<1> DEFINE r == Interrupted(store[s])
<1>1. /\ ScanInv(s) /\ TypeOK /\ Process /\ proc = "STARTING" /\ store[s] # None
      /\ store[s].status \in {"QUEUED", "RUNNING"}
      /\ store' = [store EXCEPT ![s] = r]
      /\ UNCHANGED <<proc, work, drain, cancelling, crashes, mem, pc, todo, spent, asked, loop, provider,
                     planner, select, rows, unsaved, misled, overtaken>>
  BY DEF Reconcile, IInv, life, task, models, past, TypeOK
<1>2. pc[s] = "none" /\ s \notin work /\ drain.pc = "none" /\ store[s] \in Rows /\ Honest(store[s])
  BY <1>1, NoTask DEF TypeOK, ScanInv
<1>3. r \in Rows /\ Honest(r) /\ r # None /\ r.status \in {"FAIL", "INCOMPLETE"}
  BY <1>2, InterruptedRow, ScanServiceAssumption
<1> HIDE DEF r
<1>4. TypeOK' /\ Process'
  BY <1>1, <1>3 DEF TypeOK, Process
<1>5. ASSUME NEW t \in Scan PROVE ScanInv(t)'
  <2>1. CASE t # s
    <3>1. Same(t)
      BY <1>1, <2>1 DEF Same, TypeOK
    <3> QED
      BY <1>1, <3>1, Unmoved
  <2>2. CASE t = s
    <3>1. store'[s] = r /\ Status(s)' = r.status /\ ~Live(s)' /\ Live(s)
      BY <1>1, <1>3 DEF TypeOK, Status, Live
    <3>2. Placed(s)' /\ Evident(s)'
      BY <1>1, <1>3, <3>1 DEF ScanInv, Placed, Evident
    <3>3. Held(s)'
      BY <1>1, <1>2 DEF Held, Flow, Native, Foreign, Closing
    <3>4. Drained(s)' /\ Attended(s)' /\ Planned(s)'
      BY <1>1, <1>2, <3>1 DEF Drained, Attended, Planned
    <3>5. Recorded(s)'
      BY <1>1, <1>3, <3>1 DEF ScanInv, Recorded
    <3> QED
      BY <1>3, <2>2, <3>1, <3>2, <3>3, <3>4, <3>5 DEF ScanInv
  <2> QED
    BY <2>1, <2>2
<1> QED
  BY <1>4, <1>5 DEF IInv

LEMMA ServeStep ==
  ASSUME IInv, Serve PROVE IInv'
<1>1. /\ TypeOK /\ Process /\ proc = "STARTING" /\ proc' = "SERVING"
      /\ \A s \in Scan : store[s] # None => store[s].status \notin {"QUEUED", "RUNNING"}
      /\ UNCHANGED <<work, drain, cancelling, crashes, task, store, models, rows, past>>
  BY DEF Serve, IInv
<1>2. TypeOK' /\ Process'
  BY <1>1 DEF TypeOK, Process, task, models, past
<1>3. ASSUME NEW t \in Scan PROVE Drained(t)' /\ Attended(t)'
  <2>1. ~Live(t)' /\ drain'.pc = "none"
    BY <1>1, NoTask DEF Live, Status
  <2> QED
    BY <2>1 DEF Drained, Attended
<1> QED
  BY <1>1, <1>2, <1>3, DrainMoves

-----------------------------------------------------------------------------
(* The selection of a model.                                                 *)

LEMMA SelectMoves ==
  ASSUME IInv, provider' \in Model, planner' \in Model,
         select' \in [pc : {"idle", "sent", "applied"}, model : Model \cup {None}, left : Nat],
         select'.pc # "idle" => select'.model \in Model,
         \A t \in work : \/ t \in overtaken
                         \/ planner' = planner /\ (select'.pc # "idle" => select.pc # "idle"),
         UNCHANGED <<life, task, store, rows, past>>
  PROVE  IInv'
<1>1. /\ TypeOK /\ Process
      /\ UNCHANGED <<proc, work, drain, cancelling, crashes, mem, pc, todo, spent, asked, loop, store, rows,
                     unsaved, misled, overtaken>>
  BY DEF IInv, life, task, past
<1>2. TypeOK' /\ Process'
  BY <1>1 DEF TypeOK, Process
<1>3. ASSUME NEW t \in Scan PROVE ScanInv(t)'
  <2>1. ScanInv(t) /\ Status(t)' = Status(t) /\ (Live(t)' <=> Live(t))
    BY <1>1 DEF IInv, Status, Live
  <2>2. Placed(t)' /\ Held(t)' /\ Evident(t)'
    BY <1>1, <2>1 DEF ScanInv, Placed, Held, Evident
  <2>3. Drained(t)' /\ Attended(t)' /\ Recorded(t)'
    BY <1>1, <2>1 DEF ScanInv, Drained, Attended, Recorded
  <2>4. Planned(t)'
    BY <1>1, <2>1 DEF ScanInv, Planned
  <2>5. (store[t] # None => Honest(store[t]))'
    BY <1>1, <2>1 DEF ScanInv
  <2> QED
    BY <2>2, <2>3, <2>4, <2>5 DEF ScanInv
<1> QED
  BY <1>2, <1>3 DEF IInv

LEMMA SelectSteps ==
  ASSUME IInv, (\E m \in Model : SelectBegin(m)) \/ GatewaySelects \/ SelectAnswered \/ SelectLost
  PROVE  IInv'
<1>1. /\ provider \in Model /\ planner \in Model /\ work \subseteq Scan
      /\ select \in [pc : {"idle", "sent", "applied"}, model : Model \cup {None}, left : Nat]
      /\ select.pc # "idle" => select.model \in Model
  BY DEF IInv, TypeOK
<1>2. select.pc # "idle" => \A t \in work : t \in overtaken
  BY <1>1 DEF IInv, ScanInv, Planned
<1>3. ASSUME NEW m \in Model, SelectBegin(m) PROVE IInv'
  <2>1. /\ select' = [pc |-> "sent", model |-> m, left |-> select.left - 1] /\ work = {}
        /\ select.left > 0 /\ UNCHANGED <<life, task, store, provider, planner, rows, past>>
    BY <1>3 DEF SelectBegin
  <2>2. select.left - 1 \in Nat
    BY <1>1, <2>1
  <2> QED
    BY <1>1, <2>1, <2>2, SelectMoves
<1>4. CASE GatewaySelects
  BY <1>1, <1>4, SelectMoves DEF GatewaySelects
<1>5. CASE SelectAnswered
  BY <1>1, <1>2, <1>5, SelectMoves DEF SelectAnswered, Idle
<1>6. CASE SelectLost
  BY <1>1, <1>6, SelectMoves DEF SelectLost, Forgotten, Idle
<1> QED
  BY <1>3, <1>4, <1>5, <1>6

-----------------------------------------------------------------------------
(* The invariant.                                                            *)

LEMMA InitIInv == Init => IInv
<1> SUFFICES ASSUME Init PROVE IInv
  OBVIOUS
<1> USE ScanServiceAssumption DEF Init
<1>1. TypeOK
  <2>1. <<>> \in Seq(Read)
    OBVIOUS
  <2>2. /\ todo \in [Scan -> Seq(Read)] /\ spent \in [Scan -> [dispatch : Nat, iteration : Nat]]
        /\ pc \in [Scan -> PC]
    BY <2>1 DEF PC
  <2> QED
    BY <2>2 DEF TypeOK, Drain
<1>2. Process
  BY DEF Process, Drain
<1>3. ASSUME NEW t \in Scan PROVE ScanInv(t)
  <2>1. "none" \notin Inner \cup Flow \cup Closing \cup Await \cup Native \cup {"reserve", "job"}
    BY DEF Flow, Native, Foreign, Closing, Await, Inner
  <2>2. Placed(t) /\ Held(t) /\ Evident(t)
    BY <2>1 DEF Placed, Held, Evident
  <2>3. Drained(t) /\ Attended(t) /\ Recorded(t) /\ Planned(t)
    BY DEF Drained, Attended, Recorded, Planned, Live, Status, Drain
  <2> QED
    BY <2>2, <2>3 DEF ScanInv
<1> QED
  BY <1>1, <1>2, <1>3 DEF IInv

LEMMA StutterIInv == ASSUME IInv, UNCHANGED vars PROVE IInv'
<1>1. TypeOK' /\ Process'
  BY DEF IInv, TypeOK, Process, vars
<1>2. ASSUME NEW t \in Scan PROVE ScanInv(t)'
  BY Unmoved DEF Same, vars
<1> QED
  BY <1>1, <1>2 DEF IInv

LEMMA NextIInv == IInv /\ [Next]_vars => IInv'
<1> SUFFICES ASSUME IInv, [Next]_vars PROVE IInv'
  OBVIOUS
<1>1. ASSUME NEW s \in Scan, TaskStep(s) PROVE IInv'
  BY <1>1, StartStep, ImportedStep, LoopHeadStep, ModelStep, DispatchSteps, BindStep, VerifyStep, JobStep,
     EngineStep, DecideStep, RaisesStep, CancelledStep, FinallyStep, StampStep, RecordStep, WorkDoneStep
     DEF TaskStep
<1>2. ASSUME NEW s \in Scan, StoreFails(s) PROVE IInv'
  BY <1>2, StoreFailsStep
<1>3. ASSUME NEW s \in Scan, NEW e \in BOOLEAN, NEW p \in Scan \cup {None}, Create(s, e, p) PROVE IInv'
  BY <1>3, CreateStep
<1>4. CASE BeginDrain
  BY <1>4, BeginDrainStep
<1>5. CASE DrainStep
  BY <1>5, DrainSnapshotStep, GraceEndsStep, CancelEndsStep, StoppedStep, CallbackStep DEF DrainStep
<1>6. CASE Exit \/ Crash
  <2>1. crashes' \in Nat
    BY <1>6 DEF IInv, TypeOK, Exit, Crash
  <2> QED
    BY <1>6, <2>1, DeadStep DEF Exit, Crash
<1>7. CASE BootStep
  BY <1>7, BootStepHolds, ServeStep, ReconcileStep DEF BootStep
<1>8. CASE (\E m \in Model : SelectBegin(m)) \/ GatewaySelects \/ SelectAnswered \/ SelectLost
  BY <1>8, SelectSteps
<1>9. CASE UNCHANGED vars
  BY <1>9, StutterIInv
<1> QED
  BY <1>1, <1>2, <1>3, <1>4, <1>5, <1>6, <1>7, <1>8, <1>9 DEF Next

LEMMA Inductive == Spec => []IInv
BY InitIInv, NextIInv, PTL DEF Spec

(* Every variable has its type in every reachable state.                      *)
THEOREM TypeCorrect == Spec => []TypeOK
<1>1. IInv => TypeOK
  BY DEF IInv
<1> QED
  BY <1>1, Inductive, PTL

-----------------------------------------------------------------------------
(* What a scan ends as.                                                      *)

(* A closed native scan says what its saved evidence says, whoever closed it;  *)
(* an engine scan that is PASS or FAIL agrees with the finding saved with it,  *)
(* and nothing is said of one that was interrupted. About `finally`,           *)
(* mark_shutdown_timeout and initialize.                                       *)
THEOREM VerdictsFollowEvidence == Spec => []VerdictFollowsEvidence
<1>1. IInv => VerdictFollowsEvidence
  BY DEF IInv, ScanInv, Honest, VerdictFollowsEvidence
<1> QED
  BY <1>1, Inductive, PTL

(* Without a failed save, a scan that is QUEUED or RUNNING has a task that is   *)
(* not over yet, and none is left when the drain is. About create_and_submit,   *)
(* _drain_once with its callback, and initialize.                              *)
THEOREM LiveScansHaveTasks == Spec => []LiveHasTask
<1>1. ASSUME IInv PROVE LiveHasTask
  BY <1>1 DEF IInv, ScanInv, Placed, Attended, LiveHasTask
<1> QED
  BY <1>1, Inductive, PTL

(* What the run ledger recorded is what the store still says. About             *)
(* _record_run_ledger and the writers that come after it.                       *)
THEOREM LedgerIsHonest == Spec => []LedgerHonest
<1>1. ASSUME IInv PROVE LedgerHonest
  BY <1>1 DEF IInv, ScanInv, Recorded, LedgerHonest
<1> QED
  BY <1>1, Inductive, PTL

(* Only a scan admitted while a selection was on its way can have a plan of      *)
(* another model than the one it is recorded under. About console_ai_select      *)
(* and the planner's check of who answered.                                     *)
THEOREM ScansArePlannedByTheirModel == Spec => []PlannedByItsModel
<1>1. IInv => PlannedByItsModel
  BY DEF IInv, Process, PlannedByItsModel
<1> QED
  BY <1>1, Inductive, PTL

-----------------------------------------------------------------------------
(* A verdict is final.                                                       *)

(* A flow that is not over has a row without a verdict, also when the drain     *)
(* wrote it.                                                                   *)
LEMMA FlowIsOpen ==
  ASSUME IInv, NEW s \in Scan, pc[s] \in Flow PROVE Status(s) \notin {"PASS", "FAIL"}
<1>1. ScanInv(s) /\ TypeOK
  BY DEF IInv
<1>2. /\ store[s] \in Rows /\ store[s] # None /\ mem[s] \in Rows /\ Honest(store[s])
      /\ mem[s].engine = store[s].engine /\ mem[s].reads = store[s].reads
  BY AtWork DEF Flow, Native, Foreign
<1>3. mem[s].status = "RUNNING"
  BY <1>1 DEF ScanInv, Evident
<1>4. CASE store[s] = mem[s]
  BY <1>2, <1>3, <1>4 DEF Status
<1>5. CASE s \in cancelling /\ store[s] = Interrupted(mem[s])
  <2>1. pc[s] \in Await /\ pc[s] # "verify"
    BY <1>1, <1>5 DEF ScanInv, Placed, Await
  <2>2. "cross" \notin mem[s].reads
    <3>1. CASE pc[s] \in Foreign
      BY <1>1, <1>2, <3>1 DEF ScanInv, Evident, Honest
    <3>2. CASE pc[s] \in Native \ {"verify"}
      BY <1>1, <2>1, <3>2 DEF ScanInv, Evident, Matches
    <3> QED
      BY <2>1, <3>1, <3>2 DEF Flow
  <2>3. store[s].status = "INCOMPLETE"
    BY <1>2, <1>5, <2>2, InterruptedRow
  <2> QED
    BY <1>2, <2>3 DEF Status
<1> QED
  BY <1>1, <1>4, <1>5 DEF ScanInv, Held

(* One row is written, of a scan without a verdict, or none.                   *)
Open(s) == Status(s) \notin {"PASS", "FAIL"} /\ \E r : store' = [store EXCEPT ![s] = r]

LEMMA TaskIsFinal ==
  ASSUME IInv, NEW s \in Scan, TaskStep(s), NEW t \in Scan, Status(t) \in {"PASS", "FAIL"}
  PROVE  Status(t)' = Status(t)
<1>1. ScanInv(s) /\ TypeOK
  BY DEF IInv
<1>2. ASSUME Open(s) PROVE Status(t)' = Status(t)
  <2>1. t # s /\ store'[t] = store[t]
    BY <1>1, <1>2 DEF Open, TypeOK
  <2> QED
    BY <2>1 DEF Status
<1>3. ASSUME UNCHANGED store PROVE Status(t)' = Status(t)
  BY <1>3 DEF Status
<1>4. CASE Start(s)
  <2>1. Open(s)
    BY <1>4 DEF Open, Start, Save, Status
  <2> QED
    BY <1>2, <2>1
<1>5. CASE \/ Imported(s) \/ LoopHead(s) \/ ModelAnswers(s) \/ Bind(s) \/ Verify(s) \/ Job(s)
           \/ EngineAnswers(s) \/ Decide(s) \/ Raises(s) \/ Cancelled(s)
  <2>1. pc[s] \in Flow
    BY <1>5 DEF Imported, LoopHead, ModelAnswers, Bind, Verify, Job, EngineAnswers, Decide, Raises, Cancelled,
                Resumes, Alone, Flow, Native, Foreign, Await
  <2>2. UNCHANGED store \/ \E r : store' = [store EXCEPT ![s] = r]
    <3>1. ASSUME NEW st, Terminal(s, st) PROVE \E r : store' = [store EXCEPT ![s] = r]
      BY <3>1 DEF Terminal, Save
    <3>2. ASSUME NEW r, Save(s, r) PROVE \E x : store' = [store EXCEPT ![s] = x]
      BY <3>2 DEF Save
    <3>3. CASE Imported(s) \/ Bind(s) \/ Verify(s) \/ EngineAnswers(s)
      BY <3>1, <3>2, <3>3 DEF Imported, Bind, Verify, EngineAnswers, Collected
    <3>4. CASE LoopHead(s)
      BY <3>1, <3>4 DEF LoopHead, Blocked
    <3>5. CASE ModelAnswers(s) \/ Job(s)
      BY <3>1, <3>5 DEF ModelAnswers, Job, Blocked
    <3>6. CASE Decide(s) \/ Raises(s) \/ Cancelled(s)
      BY <3>1, <3>6 DEF Decide, Raises, Cancelled
    <3> QED
      BY <1>5, <3>3, <3>4, <3>5, <3>6
  <2> QED
    BY <1>2, <1>3, <2>1, <2>2, FlowIsOpen DEF Open
<1>6. CASE Dispatch(s) \/ Dispatched(s) \/ Bound(s) \/ Record(s) \/ WorkDone(s)
  BY <1>3, <1>6 DEF Dispatch, Dispatched, Bound, Record, WorkDone
<1>7. ASSUME pc[s] \in {"finally", "stamp"}, NEW r \in Rows, store' = [store EXCEPT ![s] = r],
             mem[s].status \in {"PASS", "FAIL"} => r.status = mem[s].status
      PROVE  Status(t)' = Status(t)
  <2>1. store[s] = mem[s] /\ store[s] # None /\ r # None
    BY <1>7, AtWork, ScanServiceAssumption DEF Closing, Await
  <2>2. CASE t = s
    <3>1. store'[s] = r
      BY <1>1, <1>7 DEF TypeOK
    <3> QED
      BY <1>7, <2>1, <2>2, <3>1 DEF Status
  <2>3. CASE t # s
    BY <1>1, <1>7, <2>3 DEF Status, TypeOK
  <2> QED
    BY <2>2, <2>3
<1>8. CASE Finally(s)
  <2> DEFINE r == IF mem[s].engine THEN mem[s] ELSE Verified(mem[s])
  <2>1. pc[s] = "finally" /\ store' = [store EXCEPT ![s] = r]
    BY <1>8 DEF Finally, Alone, Save
  <2>2. mem[s] \in Rows
    BY <2>1, AtWork DEF Closing
  <2>3. r \in Rows /\ r.status = mem[s].status
    BY <2>2, VerifiedRow
  <2> HIDE DEF r
  <2> QED
    BY <1>7, <2>1, <2>3
<1>9. CASE Stamp(s)
  <2> DEFINE r == [mem[s] EXCEPT !.closed = TRUE, !.status = IF ~mem[s].engine /\ mem[s].found THEN "FAIL" ELSE @]
  <2>1. pc[s] = "stamp" /\ store' = [store EXCEPT ![s] = r]
    BY <1>9 DEF Stamp, Alone, Save
  <2>2. /\ mem[s] \in Rows /\ store[s] = mem[s] /\ Honest(mem[s])
        /\ mem[s].engine \/ Matches(mem[s])
    BY <1>1, <2>1, AtWork DEF Closing, Await, ScanInv, Evident
  <2>3. r \in Rows /\ r.status = (IF ~mem[s].engine /\ mem[s].found THEN "FAIL" ELSE mem[s].status)
    BY <2>2, StampedRow
  <2> HIDE DEF r
  <2>4. mem[s].status \in {"PASS", "FAIL"} => r.status = mem[s].status
    <3>1. mem[s].status = "PASS" /\ ~mem[s].engine => ~mem[s].found
      BY <2>2 DEF Honest, Matches
    <3> QED
      BY <2>3, <3>1
  <2> QED
    BY <1>7, <2>1, <2>3, <2>4
<1> QED
  BY <1>4, <1>5, <1>6, <1>8, <1>9 DEF TaskStep

LEMMA OtherStepsAreFinal ==
  ASSUME IInv, [Next]_vars, ~ \E s \in Scan : TaskStep(s), NEW t \in Scan, Status(t) \in {"PASS", "FAIL"}
  PROVE  Status(t)' = Status(t)
<1>1. TypeOK
  BY DEF IInv
<1>2. ASSUME NEW s \in Scan, Open(s) PROVE Status(t)' = Status(t)
  <2>1. t # s /\ store'[t] = store[t]
    BY <1>1, <1>2 DEF Open, TypeOK
  <2> QED
    BY <2>1 DEF Status
<1>3. ASSUME UNCHANGED store PROVE Status(t)' = Status(t)
  BY <1>3 DEF Status
<1>4. ASSUME NEW s \in Scan, NEW e \in BOOLEAN, NEW p \in Scan \cup {None}, Create(s, e, p)
      PROVE  Status(t)' = Status(t)
  <2>1. Open(s)
    BY <1>4 DEF Open, Create, Status
  <2> QED
    BY <1>2, <2>1
<1>5. ASSUME NEW s \in Scan, Reconcile(s) PROVE Status(t)' = Status(t)
  <2>1. Open(s)
    BY <1>5 DEF Open, Reconcile, Status
  <2> QED
    BY <1>2, <2>1
<1>6. ASSUME NEW s \in Scan, Callback(s) PROVE Status(t)' = Status(t)
  <2>1. ScanInv(s) /\ drain.pc = "callback" /\ s \in drain.set
    BY <1>6 DEF IInv, Callback
  <2>2. Status(s) \notin {"PASS", "FAIL"}
    <3>1. CASE s \in cancelling
      <4>1. pc[s] \in Flow
        BY <2>1, <3>1 DEF ScanInv, Placed, Await, Flow, Native, Foreign
      <4> QED
        BY <4>1, FlowIsOpen
    <3>2. CASE s \notin cancelling
      BY <2>1, <3>2 DEF ScanInv, Drained
    <3> QED
      BY <3>1, <3>2
  <2>3. UNCHANGED store \/ Open(s)
    BY <1>6, <2>2 DEF Open, Callback
  <2> QED
    BY <1>2, <1>3, <2>3
<1>7. ASSUME NEW s \in Scan, StoreFails(s) PROVE Status(t)' = Status(t)
  BY <1>3, <1>7 DEF StoreFails
<1>8. CASE BeginDrain \/ DrainSnapshot \/ GraceEnds \/ CancelEnds \/ Stopped
  BY <1>3, <1>8 DEF BeginDrain, DrainSnapshot, GraceEnds, CancelEnds, Stopped
<1>9. CASE Exit \/ Crash \/ Boot \/ Serve
  BY <1>3, <1>9 DEF Exit, Crash, Dead, Boot, Serve
<1>10. CASE (\E m \in Model : SelectBegin(m)) \/ GatewaySelects \/ SelectAnswered \/ SelectLost
  BY <1>3, <1>10 DEF SelectBegin, GatewaySelects, SelectAnswered, SelectLost
<1>11. CASE UNCHANGED vars
  BY <1>3, <1>11 DEF vars
<1> QED
  BY <1>4, <1>5, <1>6, <1>7, <1>8, <1>9, <1>10, <1>11 DEF Next, DrainStep, BootStep

(* A PASS or a FAIL in the store is never written over: not by a cancellation,   *)
(* the shutdown callback or a restart. About the order of the saves in `run`     *)
(* and whom mark_shutdown_timeout is called for.                                *)
THEOREM VerdictsAreFinal == Spec => VerdictFinal
<1>1. IInv /\ [Next]_vars => [\A s \in Scan : Status(s) \in {"PASS", "FAIL"} => Status(s)' = Status(s)]_vars
  <2> SUFFICES ASSUME IInv, [Next]_vars, NEW t \in Scan, Status(t) \in {"PASS", "FAIL"}
               PROVE  Status(t)' = Status(t)
    OBVIOUS
  <2>1. CASE \E s \in Scan : TaskStep(s)
    BY <2>1, TaskIsFinal
  <2>2. CASE ~ \E s \in Scan : TaskStep(s)
    BY <2>2, OtherStepsAreFinal
  <2> QED
    BY <2>1, <2>2
<1> QED
  BY <1>1, Inductive, PTL DEF Spec, VerdictFinal
=============================================================================
