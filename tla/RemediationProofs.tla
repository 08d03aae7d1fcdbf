-------------------------- MODULE RemediationProofs --------------------------
(***************************************************************************)
(* Theorems about Remediation, for any number of processes, crashes,       *)
(* operations and restarts.                                                *)
(***************************************************************************)
EXTENDS Remediation, TLAPS

(* Every value the loop may have. *)
Seen  == [alternate : {"denied", "reached", "lost"}, sentinel : Seq(Nat), late : BOOLEAN]
Names == {"idle", "live", "rejected", "failed", "incomplete", "cleanup"} \cup Stage
Proc ==
    [program : Names, at : Nat, seen : States \cup {"unused", None},
     first : Seen \cup {None}, again : Seen \cup {None},
     verdict : {"CONFIRMED", "PASS", "INCOMPLETE", None},
     before : View \cup {None}, after : View \cup {None}]
Ledger ==
    [state : States \cup {None}, finding : Seen \cup {None}, authorization : BOOLEAN,
     receipt : [before : View, after : View] \cup {None}, consumed : BOOLEAN, binding : BOOLEAN]

(* A process is idle, or at a call of its program. *)
Placed(p) == IF p.program = "idle" THEN p.at = 0 ELSE p.at \in 1 .. Len(Program[p.program])

(* The type invariant. *)
TypeRest ==
    /\ driver \in Driver /\ ledger \in Ledger
    /\ job \in [Job -> {None, "QUEUED", "CLAIMED", "CLOSED"}] /\ done \in SUBSET Stage
    /\ range \in [Worker -> View]
    /\ crashes \in Nat /\ operator \in Nat /\ restarts \in Nat
    /\ probes \in [Job -> Seq(Seen)] /\ patches \in Nat /\ concluded \in SUBSET Final
TypeOK ==
    /\ TypeRest
    /\ proc \in [Worker -> Proc] /\ \A w \in Worker : Placed(proc[w])

-----------------------------------------------------------------------------
(* Where a process is: past place n of the live program or  *)
(* place m of a stage, or there.                                              *)
Past(p, n, stage, m) == (p.program = "live" /\ p.at > n) \/ (p.program = stage /\ p.at > m)
Is(p, n, stage, m)   == (p.program = "live" /\ p.at = n) \/ (p.program = stage /\ p.at = m)

PastClaim(p)     == Past(p, 5, "EXECUTE", 2)
PastProbe(p)     == Past(p, 7, "EXECUTE", 3)
PastJudge(p)     == Past(p, 8, "VERIFY", 1)
PastFinding(p)   == Past(p, 10, "VERIFY", 3)
PastAuthorize(p) == Past(p, 14, "REMEDIATE", 2)
PastPatch(p)     == Past(p, 17, "REMEDIATE", 5)
PastReceipt(p)   == Past(p, 20, "REMEDIATE", 8)
PastConsume(p)   == Past(p, 25, "RETEST", 1)
PastBind(p)      == Past(p, 26, "RETEST", 2)
PastAgain(p)     == Past(p, 29, "RETEST", 4)
PastJudged(p)    == Past(p, 30, "RETEST", 5)
PastConclude(p)  == Past(p, 31, "RETEST", 6)

(* What only one process may do, and only once: it has passed the key and not yet *)
(* had the effect the key is for.                                              *)
MayProbe(p)    == PastClaim(p) /\ ~PastProbe(p)
MayPatch(p)    == PastAuthorize(p) /\ ~PastPatch(p)
MayProbeAgain(p) == PastBind(p) /\ ~PastAgain(p)
MayConclude(p) == (PastBind(p) /\ ~PastConclude(p)) \/ p.program = "failed"

Alone(p, q, d) ==
    /\ ~(MayProbe(p) /\ MayProbe(q))
    /\ ~(MayPatch(p) /\ MayPatch(q))
    /\ ~(MayConclude(p) /\ MayConclude(q))
    /\ d = "live" => p.program = "idle" \/ q.program = "idle"

(* The receipt was seen to be unused, and it will now be consumed. *)
AtConsume(p) == Is(p, 25, "RETEST", 1)

(* What the processes share. *)
now == [driver |-> driver, ledger |-> ledger, job |-> job, probes |-> probes,
        patches |-> patches, concluded |-> concluded]

(* The rows a process relies on, and the right it has not used. *)
Backed(p, g) ==
    /\ PastFinding(p) \/ p.program = "REMEDIATE" => g.ledger.finding # None
    /\ PastAuthorize(p) => g.ledger.authorization
    /\ PastReceipt(p) => g.ledger.receipt # None
    /\ AtConsume(p) /\ p.seen # None => g.ledger.receipt # None
    /\ PastConsume(p) => g.ledger.consumed
    /\ PastBind(p) \/ p.program = "failed" => g.ledger.binding
    /\ MayProbe(p) => g.job["recon"] \notin {None, "QUEUED"} /\ g.probes["recon"] = <<>>
    /\ MayPatch(p) => g.patches = 0
    /\ MayProbeAgain(p) => g.probes["retest"] = <<>>
    /\ MayConclude(p) => g.concluded = {}

(* What a process knows of its evidence. *)
Witnessed(p, g) ==
    /\ PastJudge(p) /\ ~PastFinding(p) => p.first # None /\ p.first.alternate = "reached"
    /\ PastAgain(p) /\ ~PastConclude(p) => g.probes["retest"] = <<p.again>> /\ p.again.late
    /\ PastJudged(p) /\ ~PastConclude(p) /\ p.verdict = "PASS" => p.again.alternate = "denied"

(* The live program is alone with its ledger. *)
Tracked(p, g) ==
    /\ p.program \in Stage => g.driver = "stages"
    /\ p.program \notin Stage \cup {"idle"} => g.driver = "live"
    /\ p.program = "live" /\ p.at <= 27 => g.ledger.state # "RETEST_RUNNING"
    /\ p.program \in {"rejected", "failed", "incomplete"} => g.ledger.state \notin Final
    /\ p.program = "live" => (p.at = 32 <=> g.ledger.state \in Final)

Stands(p, g) == Backed(p, g) /\ Witnessed(p, g) /\ Tracked(p, g)

(* Each row of the ledger rests on the one before it. *)
Chain ==
    /\ ledger.authorization => ledger.finding # None
    /\ ledger.receipt # None => ledger.authorization
    /\ ledger.consumed => ledger.receipt # None
    /\ ledger.binding => ledger.consumed
    /\ "VERIFY" \in done => ledger.finding # None
    /\ ledger.finding # None => ledger.finding.alternate = "reached"
    /\ ledger.receipt # None => Changed(ledger.receipt.before, ledger.receipt.after)

(* Nothing has happened that has not its row, and nothing twice. *)
Counted ==
    /\ job["recon"] \in {None, "QUEUED"} => probes["recon"] = <<>>
    /\ ~ledger.authorization => patches = 0
    /\ ~ledger.binding => probes["retest"] = <<>> /\ concluded = {}
    /\ EffectOnce /\ OneVerdict

StateBacked ==
    /\ ledger.state \in {Happy[i] : i \in 2 .. 7} => ledger.finding # None
    /\ ledger.state \in {Happy[i] : i \in 4 .. 7} => ledger.authorization
    /\ ledger.state \in {Happy[i] : i \in 5 .. 7} => ledger.receipt # None
    /\ ledger.state \in {"RETEST_RUNNING"} \cup Final => ledger.binding
    /\ job["retest"] = "CLOSED" => driver = "live" /\ ledger.state \in Final
    /\ PassIsEarned

IInv ==
    /\ TypeOK /\ Chain /\ Counted /\ StateBacked
    /\ \A w \in Worker : Stands(proc[w], now)
    /\ \A v, w \in Worker : v # w => Alone(proc[v], proc[w], driver)

-----------------------------------------------------------------------------
(* The programs, written out.                                                *)

LEMMA RemediateWritten ==
  /\ Len(Remediate) = 10 /\ Remediate[1] = "REMEDIATION_RECOMMENDED"
  /\ Remediate[2] = "authorize" /\ Remediate[3] = "PATCH_AUTHORIZED"
  /\ Remediate[4] = "read_before" /\ Remediate[5] = "patch" /\ Remediate[6] = "rotate"
  /\ Remediate[7] = "read_after" /\ Remediate[8] = "receipt"
  /\ Remediate[9] = "PATCH_APPLIED" /\ Remediate[10] = "RETEST_QUEUED"
  BY DEF Remediate, Mutation

LEMMA LiveWritten ==
  /\ Len(Live) = 32 /\ Live[1] = "reset" /\ Live[2] = "vulnerable" /\ Live[3] = "open"
  /\ Live[4] = "enqueue_recon" /\ Live[5] = "claim_recon" /\ Live[6] = "model"
  /\ Live[7] = "probe_recon" /\ Live[8] = "judge_recon" /\ Live[9] = "close_recon"
  /\ Live[10] = "finding" /\ Live[11] = "INITIAL_CONFIRMED" /\ Live[12] = "model"
  /\ Live[13] = "REMEDIATION_RECOMMENDED" /\ Live[14] = "authorize"
  /\ Live[15] = "PATCH_AUTHORIZED" /\ Live[16] = "read_before" /\ Live[17] = "patch"
  /\ Live[18] = "rotate" /\ Live[19] = "read_after" /\ Live[20] = "receipt"
  /\ Live[21] = "PATCH_APPLIED" /\ Live[22] = "RETEST_QUEUED" /\ Live[23] = "enqueue_retest"
  /\ Live[24] = "claim_retest" /\ Live[25] = "consume" /\ Live[26] = "bind"
  /\ Live[27] = "RETEST_RUNNING" /\ Live[28] = "model" /\ Live[29] = "probe_retest"
  /\ Live[30] = "judge_retest" /\ Live[31] = "conclude" /\ Live[32] = "close_retest"
  BY DEF Live, Handoff, Initial, Verify, Remediate, Mutation, Retest, Again

LEMMA ExecuteProgramWritten ==
  /\ Len(Program["EXECUTE"]) = 4 /\ Program["EXECUTE"][1] = "enqueue_recon"
  /\ Program["EXECUTE"][2] = "claim_recon" /\ Program["EXECUTE"][3] = "probe_recon"
  /\ Program["EXECUTE"][4] = "record"
  BY DEF Program, Handoff, Verify, Retest, Again

LEMMA VerifyProgramWritten ==
  /\ Len(Program["VERIFY"]) = 5 /\ Program["VERIFY"][1] = "judge_recon"
  /\ Program["VERIFY"][2] = "open" /\ Program["VERIFY"][3] = "finding"
  /\ Program["VERIFY"][4] = "INITIAL_CONFIRMED" /\ Program["VERIFY"][5] = "record"
  BY DEF Program, Handoff, Verify, Retest, Again

LEMMA RemediateProgramWritten ==
  /\ Len(Program["REMEDIATE"]) = 11 /\ Program["REMEDIATE"][1] = "REMEDIATION_RECOMMENDED"
  /\ Program["REMEDIATE"][2] = "authorize" /\ Program["REMEDIATE"][3] = "PATCH_AUTHORIZED"
  /\ Program["REMEDIATE"][4] = "read_before" /\ Program["REMEDIATE"][5] = "patch"
  /\ Program["REMEDIATE"][6] = "rotate" /\ Program["REMEDIATE"][7] = "read_after"
  /\ Program["REMEDIATE"][8] = "receipt" /\ Program["REMEDIATE"][9] = "PATCH_APPLIED"
  /\ Program["REMEDIATE"][10] = "RETEST_QUEUED" /\ Program["REMEDIATE"][11] = "record"
  BY DEF Program, Remediate, Mutation

LEMMA RetestProgramWritten ==
  /\ Len(Program["RETEST"]) = 7 /\ Program["RETEST"][1] = "consume"
  /\ Program["RETEST"][2] = "bind" /\ Program["RETEST"][3] = "RETEST_RUNNING"
  /\ Program["RETEST"][4] = "probe_retest" /\ Program["RETEST"][5] = "judge_retest"
  /\ Program["RETEST"][6] = "conclude" /\ Program["RETEST"][7] = "record"
  BY DEF Program, Handoff, Verify, Retest, Again

LEMMA OthersWritten ==
  /\ Len(Program["rejected"]) = 2 /\ Program["rejected"][1] = "close_recon"
  /\ Program["rejected"][2] = "INCOMPLETE"
  /\ Len(Program["failed"]) = 1 /\ Program["failed"][1] = "RETEST_FAIL"
  /\ Len(Program["incomplete"]) = 1 /\ Program["incomplete"][1] = "INCOMPLETE"
  /\ Len(Program["cleanup"]) = 2 /\ Program["cleanup"][1] = "reset"
  /\ Program["cleanup"][2] = "rotate"
  /\ Program["live"] = Live
  BY DEF Program

(* Where a call is made, and what a process that makes it is in. *)
LEMMA Places ==
  ASSUME NEW p \in Proc, Placed(p), p.program # "idle", NEW c, c = Program[p.program][p.at]
  PROVE  /\ c = "enqueue_recon" => Is(p, 4, "EXECUTE", 1)
         /\ c = "claim_recon" => Is(p, 5, "EXECUTE", 2)
         /\ c = "probe_recon" => Is(p, 7, "EXECUTE", 3)
         /\ c = "judge_recon" => Is(p, 8, "VERIFY", 1)
         /\ c = "close_recon" => Is(p, 9, "rejected", 1)
         /\ c = "open" => Is(p, 3, "VERIFY", 2)
         /\ c = "finding" => Is(p, 10, "VERIFY", 3)
         /\ c = "INITIAL_CONFIRMED" => Is(p, 11, "VERIFY", 4)
         /\ c = "REMEDIATION_RECOMMENDED" => Is(p, 13, "REMEDIATE", 1)
         /\ c = "authorize" => Is(p, 14, "REMEDIATE", 2)
         /\ c = "PATCH_AUTHORIZED" => Is(p, 15, "REMEDIATE", 3)
         /\ c = "read_before" => Is(p, 16, "REMEDIATE", 4)
         /\ c = "patch" => Is(p, 17, "REMEDIATE", 5)
         /\ c = "rotate" => Is(p, 18, "REMEDIATE", 6) \/ (p.program = "cleanup" /\ p.at = 2)
         /\ c = "read_after" => Is(p, 19, "REMEDIATE", 7)
         /\ c = "receipt" => Is(p, 20, "REMEDIATE", 8)
         /\ c = "PATCH_APPLIED" => Is(p, 21, "REMEDIATE", 9)
         /\ c = "RETEST_QUEUED" => Is(p, 22, "REMEDIATE", 10)
         /\ c \in {"enqueue_retest", "claim_retest"} => p.program = "live" /\ p.at \in {23, 24}
         /\ c = "consume" => Is(p, 25, "RETEST", 1)
         /\ c = "bind" => Is(p, 26, "RETEST", 2)
         /\ c = "RETEST_RUNNING" => Is(p, 27, "RETEST", 3)
         /\ c = "model" => p.program = "live" /\ p.at \in {6, 12, 28}
         /\ c = "probe_retest" => Is(p, 29, "RETEST", 4)
         /\ c = "judge_retest" => Is(p, 30, "RETEST", 5)
         /\ c = "conclude" => Is(p, 31, "RETEST", 6)
         /\ c = "close_retest" => p.program = "live" /\ p.at = 32
         /\ c = "record" => p.program \in Stage /\ p.at = Len(Program[p.program])
         /\ c = "reset" => Is(p, 1, "cleanup", 1)
         /\ c = "vulnerable" => p.program = "live" /\ p.at = 2
         /\ c = "RETEST_FAIL" => p.program = "failed"
         /\ c = "INCOMPLETE" => p.program \in {"rejected", "incomplete"} /\ (p.program = "rejected" => p.at = 2)
         /\ c \notin {"INITIAL_EXECUTION_PENDING", "RETEST_PASS"}
<1>1. p.at \in Nat /\ p.program \in Names \ {"idle"} /\ p.at \in 1 .. Len(Program[p.program])
  BY DEF Proc, Placed
<1>2. CASE p.program = "live"
  <2>1. Program[p.program] = Live
    BY <1>2, OthersWritten
  <2>2. p.at \in 1 .. 32 /\ c = Live[p.at]
    BY <1>1, <2>1, LiveWritten
  <2> QED
    BY <1>2, <2>2, LiveWritten DEF Is, Stage
<1>3. CASE p.program = "EXECUTE"
  BY <1>1, <1>3, ExecuteProgramWritten DEF Is, Stage
<1>4. CASE p.program = "VERIFY"
  BY <1>1, <1>4, VerifyProgramWritten DEF Is, Stage
<1>5. CASE p.program = "REMEDIATE"
  BY <1>1, <1>5, RemediateProgramWritten DEF Is, Stage
<1>6. CASE p.program = "RETEST"
  BY <1>1, <1>6, RetestProgramWritten DEF Is, Stage
<1>7. CASE p.program \in {"rejected", "failed", "incomplete", "cleanup"}
  BY <1>1, <1>7, OthersWritten, SMTT(30) DEF Is, Stage
<1> QED
  BY <1>1, <1>2, <1>3, <1>4, <1>5, <1>6, <1>7 DEF Names, Stage

-----------------------------------------------------------------------------
(* How a process goes on.                                                    *)

LEMMA ProgramsHaveCalls ==
  ASSUME NEW name \in Names \ {"idle"} PROVE Len(Program[name]) \in Nat \ {0}
<1> DEFINE Called(n) == Len(Program[n]) \in Nat \ {0}
<1>1. Called("live")
  <2>1. Program["live"] = Live /\ Len(Live) = 32
    BY OthersWritten, LiveWritten
  <2> QED
    BY <2>1
<1>2. Called("EXECUTE") /\ Called("VERIFY")
  BY ExecuteProgramWritten, VerifyProgramWritten
<1>3. Called("REMEDIATE") /\ Called("RETEST")
  BY RemediateProgramWritten, RetestProgramWritten
<1>4. Called("rejected") /\ Called("failed") /\ Called("incomplete") /\ Called("cleanup")
  BY OthersWritten
<1> HIDE DEF Called
<1>5. \A n \in Names \ {"idle"} : Called(n)
  BY <1>1, <1>2, <1>3, <1>4 DEF Names, Stage
<1> QED
  BY <1>5 DEF Called

LEMMA JumpMoves ==
  ASSUME NEW p \in Proc, NEW name \in Names \ {"idle"}, NEW q, q = Jump(p, name)
  PROVE  /\ q \in Proc /\ Placed(q)
         /\ q.program = name /\ q.at = 1 /\ q.seen = None /\ q.first = p.first
<1>1. Len(Program[name]) \in Nat \ {0}
  BY ProgramsHaveCalls
<1>2. /\ q \in Proc /\ q.program = name /\ q.at = 1 /\ q.seen = None /\ q.first = p.first
  BY DEF Jump, Proc
<1> QED
  BY <1>1, <1>2 DEF Placed

LEMMA OverMoves ==
  ASSUME NEW p \in Proc, NEW q, q = Over(p)
  PROVE  /\ q \in Proc /\ Placed(q)
         /\ q.program \in {"idle", "cleanup"} /\ (q.program = "cleanup" => driver = "live")
<1>1. CASE driver = "live" /\ p.program # "cleanup"
  BY <1>1, JumpMoves DEF Over, Names
<1>2. CASE ~(driver = "live" /\ p.program # "cleanup")
  <2>1. q = [p EXCEPT !.program = "idle", !.at = 0, !.seen = None]
    BY <1>2 DEF Over
  <2>2. q \in Proc /\ q.program = "idle" /\ q.at = 0
    <3>1. "idle" \in Names /\ 0 \in Nat
      BY DEF Names
    <3> QED
      BY <2>1, <3>1 DEF Proc
  <2> QED
    BY <2>2 DEF Placed
<1> QED
  BY <1>1, <1>2

(* One place on; at the end of the program, over. *)
OnePlaceOn(p, q) ==
    /\ q.program = p.program /\ q.at = p.at + 1 /\ q.seen = None
    /\ q.first = p.first /\ q.again = p.again /\ q.verdict = p.verdict
LEMMA OnwardMoves ==
  ASSUME NEW p \in Proc, Placed(p), p.program # "idle", NEW q, q = Onward(p)
  PROVE  /\ q \in Proc /\ Placed(q)
         /\ \/ OnePlaceOn(p, q)
            \/ /\ q.program \in {"idle", "cleanup"} /\ (q.program = "cleanup" => driver = "live")
               /\ p.at = Len(Program[p.program])
<1>1. Len(Program[p.program]) \in Nat
  BY ProgramsHaveCalls DEF Proc
<1>2. p.at \in 1 .. Len(Program[p.program])
  BY DEF Placed
<1>3. CASE p.at < Len(Program[p.program])
  <2>1. q = [p EXCEPT !.at = p.at + 1, !.seen = None]
    BY <1>3 DEF Onward
  <2>2. p.at + 1 \in 1 .. Len(Program[p.program]) /\ p.at + 1 \in Nat
    BY <1>1, <1>2, <1>3
  <2>3. q \in Proc /\ OnePlaceOn(p, q)
    BY <2>1, <2>2 DEF Proc, OnePlaceOn
  <2> QED
    BY <2>2, <2>3 DEF Placed, OnePlaceOn
<1>4. CASE ~(p.at < Len(Program[p.program]))
  BY <1>1, <1>2, <1>4, OverMoves DEF Onward
<1> QED
  BY <1>3, <1>4

(* A process that is over, or gives up, relies on nothing. *)
LEMMA GoneStands ==
  ASSUME NEW q, NEW g, q.program \in {"idle", "cleanup", "rejected", "incomplete"},
         q.program # "idle" => g.driver = "live",
         q.program \in {"rejected", "incomplete"} => g.ledger.state \notin Final
  PROVE  /\ Stands(q, g) /\ ~MayProbe(q) /\ ~MayPatch(q) /\ ~MayConclude(q)
  BY DEF Stands, Backed, Witnessed, Tracked, MayProbe, MayPatch, MayConclude, MayProbeAgain,
         PastClaim, PastProbe, PastJudge, PastFinding, PastAuthorize, PastPatch, PastReceipt,
         PastConsume, PastBind, PastAgain, PastJudged, PastConclude, Past, Is, AtConsume, Stage

(* The call of p at its place succeeds: r is p with what it has learnt, g what was *)
(* shared before and h after.                                                  *)
Grows(g, h) ==
    /\ h.driver = g.driver
    /\ g.ledger.finding # None => h.ledger.finding # None
    /\ g.ledger.authorization => h.ledger.authorization
    /\ g.ledger.receipt # None => h.ledger.receipt # None
    /\ g.ledger.consumed => h.ledger.consumed
    /\ g.ledger.binding => h.ledger.binding
    /\ g.job["recon"] \notin {None, "QUEUED"} => h.job["recon"] \notin {None, "QUEUED"}
Passes(p, r, g, h) ==
    /\ r.program = p.program /\ r.at = p.at
    /\ Is(p, 5, "EXECUTE", 2) => h.job["recon"] \notin {None, "QUEUED"} /\ h.probes["recon"] = <<>>
    /\ Is(p, 10, "VERIFY", 3) => h.ledger.finding # None
    /\ Is(p, 14, "REMEDIATE", 2) => h.ledger.authorization /\ h.patches = 0
    /\ Is(p, 20, "REMEDIATE", 8) => h.ledger.receipt # None
    /\ Is(p, 25, "RETEST", 1) => h.ledger.consumed
    /\ Is(p, 26, "RETEST", 2) =>
          h.ledger.binding /\ h.probes["retest"] = <<>> /\ h.concluded = {}
    /\ h.probes["recon"] = g.probes["recon"] \/ Is(p, 7, "EXECUTE", 3)
    /\ h.patches = g.patches \/ Is(p, 17, "REMEDIATE", 5)
    /\ h.probes["retest"] = g.probes["retest"] \/ Is(p, 29, "RETEST", 4)
    /\ h.concluded = g.concluded \/ Is(p, 31, "RETEST", 6) \/ p.program = "failed"
    /\ r.first = p.first \/ Is(p, 7, "EXECUTE", 3)
    /\ Is(p, 8, "VERIFY", 1) => p.first # None /\ p.first.alternate = "reached"
    /\ r.again = p.again \/ Is(p, 29, "RETEST", 4)
    /\ Is(p, 29, "RETEST", 4) => h.probes["retest"] = <<r.again>> /\ r.again.late
    /\ r.verdict = p.verdict \/ Is(p, 30, "RETEST", 5)
    /\ Is(p, 30, "RETEST", 5) => (r.verdict = "PASS" => p.again.alternate = "denied")
    /\ p.program = "live" /\ p.at < 27 => h.ledger.state # "RETEST_RUNNING"
    /\ p.program = "live" /\ p.at < 32 => (p.at = 31 <=> h.ledger.state \in Final)
    /\ p.program = "rejected" => h.ledger.state \notin Final

LEMMA OnwardStands ==
  ASSUME NEW p \in Proc, NEW r \in Proc, NEW q \in Proc, Placed(q), NEW g, NEW h,
         Placed(p), p.program # "idle",
         Stands(p, g), Grows(g, h), Passes(p, r, g, h), OnePlaceOn(r, q)
  PROVE  /\ Stands(q, h)
         /\ MayProbe(q) => (MayProbe(p) /\ ~Is(p, 7, "EXECUTE", 3)) \/ Is(p, 5, "EXECUTE", 2)
         /\ MayPatch(q) => (MayPatch(p) /\ ~Is(p, 17, "REMEDIATE", 5)) \/ Is(p, 14, "REMEDIATE", 2)
         /\ MayConclude(q) => (MayConclude(p) /\ ~Is(p, 31, "RETEST", 6)) \/ Is(p, 26, "RETEST", 2)
<1>1. /\ p.at \in Nat /\ q.at = p.at + 1 /\ q.program = p.program /\ q.seen = None
      /\ q.first = r.first /\ q.again = r.again /\ q.verdict = r.verdict
  BY DEF Proc, OnePlaceOn, Passes
<1>2. /\ PastClaim(q) <=> PastClaim(p) \/ Is(p, 5, "EXECUTE", 2)
      /\ PastProbe(q) <=> PastProbe(p) \/ Is(p, 7, "EXECUTE", 3)
      /\ PastJudge(q) <=> PastJudge(p) \/ Is(p, 8, "VERIFY", 1)
      /\ PastFinding(q) <=> PastFinding(p) \/ Is(p, 10, "VERIFY", 3)
      /\ PastAuthorize(q) <=> PastAuthorize(p) \/ Is(p, 14, "REMEDIATE", 2)
      /\ PastPatch(q) <=> PastPatch(p) \/ Is(p, 17, "REMEDIATE", 5)
      /\ PastReceipt(q) <=> PastReceipt(p) \/ Is(p, 20, "REMEDIATE", 8)
      /\ PastConsume(q) <=> PastConsume(p) \/ Is(p, 25, "RETEST", 1)
      /\ PastBind(q) <=> PastBind(p) \/ Is(p, 26, "RETEST", 2)
      /\ PastAgain(q) <=> PastAgain(p) \/ Is(p, 29, "RETEST", 4)
      /\ PastJudged(q) <=> PastJudged(p) \/ Is(p, 30, "RETEST", 5)
      /\ PastConclude(q) <=> PastConclude(p) \/ Is(p, 31, "RETEST", 6)
  BY <1>1 DEF Is, PastClaim, PastProbe, PastJudge, PastFinding, PastAuthorize, PastPatch,
     PastReceipt, PastConsume, PastBind, PastAgain, PastJudged, PastConclude, Past
<1>3. /\ Is(p, 7, "EXECUTE", 3) => PastClaim(p) /\ ~PastJudge(p)
      /\ Is(p, 8, "VERIFY", 1) => ~PastFinding(p) /\ ~Is(p, 7, "EXECUTE", 3)
      /\ Is(p, 17, "REMEDIATE", 5) => PastAuthorize(p)
      /\ Is(p, 29, "RETEST", 4) => PastBind(p) /\ ~PastJudged(p) /\ ~Is(p, 30, "RETEST", 5)
      /\ Is(p, 30, "RETEST", 5) => PastAgain(p) /\ ~PastConclude(p)
      /\ Is(p, 31, "RETEST", 6) => PastBind(p)
      /\ PastAgain(p) => ~Is(p, 29, "RETEST", 4) /\ PastBind(p)
      /\ PastJudged(p) => ~Is(p, 30, "RETEST", 5)
  BY <1>1 DEF Is, PastClaim, PastProbe, PastJudge, PastFinding, PastAuthorize, PastPatch,
     PastReceipt, PastConsume, PastBind, PastAgain, PastJudged, PastConclude, Past
<1>4. /\ q.program # "failed" /\ q.program # "incomplete"
      /\ q.program = "live" => q.at <= 32
  <2>1. /\ Len(Program["failed"]) = 1 /\ Len(Program["incomplete"]) = 1
        /\ Len(Program["live"]) = 32
    BY LiveWritten, OthersWritten
  <2>2. p.at >= 1
    <3>1. Len(Program[p.program]) \in Nat
      BY ProgramsHaveCalls DEF Proc
    <3> QED
      BY <3>1 DEF Placed
  <2>3. q.program # "idle"
    BY <1>1
  <2>4. q.at \in 1 .. Len(Program[q.program])
    BY <2>3 DEF Placed
  <2>5. CASE q.program = "failed"
    <3>1. Len(Program[q.program]) = 1
      BY <2>1, <2>5
    <3>2. q.at \in 1 .. 1
      BY <2>4, <3>1
    <3> QED
      BY <1>1, <2>2, <2>5, <3>2
  <2>6. CASE q.program = "incomplete"
    <3>1. Len(Program[q.program]) = 1
      BY <2>1, <2>6
    <3>2. q.at \in 1 .. 1
      BY <2>4, <3>1
    <3> QED
      BY <1>1, <2>2, <2>6, <3>2
  <2>7. CASE q.program = "live"
    <3>1. Len(Program[q.program]) = 32
      BY <2>1, <2>7
    <3>2. q.at \in 1 .. 32
      BY <2>4, <3>1
    <3> QED
      BY <1>1, <2>2, <2>7, <3>2
  <2> QED
    BY <2>5, <2>6, <2>7
<1>5. Backed(q, h)
  <2>1. /\ PastFinding(q) \/ q.program = "REMEDIATE" => h.ledger.finding # None
        /\ PastAuthorize(q) => h.ledger.authorization
        /\ PastReceipt(q) => h.ledger.receipt # None
        /\ PastConsume(q) => h.ledger.consumed
        /\ PastBind(q) => h.ledger.binding
    BY <1>1, <1>2 DEF Stands, Backed, Grows, Passes
  <2>2. MayProbe(q) => h.job["recon"] \notin {None, "QUEUED"} /\ h.probes["recon"] = <<>>
    BY <1>2 DEF Stands, Backed, Grows, Passes, MayProbe
  <2>3. MayPatch(q) => h.patches = 0
    BY <1>2 DEF Stands, Backed, Passes, MayPatch
  <2>4. MayProbeAgain(q) => h.probes["retest"] = <<>>
    BY <1>2 DEF Stands, Backed, Passes, MayProbeAgain
  <2>5. MayConclude(q) => h.concluded = {}
    BY <1>1, <1>2, <1>4 DEF Stands, Backed, Passes, MayConclude
  <2> QED
    BY <1>1, <1>4, <2>1, <2>2, <2>3, <2>4, <2>5 DEF Backed
<1>6. Witnessed(q, h)
  <2>1. PastJudge(q) /\ ~PastFinding(q) => q.first # None /\ q.first.alternate = "reached"
    BY <1>1, <1>2, <1>3 DEF Stands, Witnessed, Passes
  <2>2. PastAgain(q) /\ ~PastConclude(q) => h.probes["retest"] = <<q.again>> /\ q.again.late
    BY <1>1, <1>2, <1>3 DEF Stands, Witnessed, Passes
  <2>3. PastJudged(q) /\ ~PastConclude(q) /\ q.verdict = "PASS" => q.again.alternate = "denied"
    BY <1>1, <1>2, <1>3 DEF Stands, Witnessed, Passes
  <2> QED
    BY <2>1, <2>2, <2>3 DEF Witnessed
<1>7. Tracked(q, h)
  BY <1>1, <1>4 DEF Stands, Tracked, Passes, Grows
<1> QED
  BY <1>1, <1>2, <1>4, <1>5, <1>6, <1>7 DEF Stands, MayProbe, MayPatch, MayConclude

(* What becomes of the shared state that another process relies on. *)
Later(g, h, p) ==
    /\ Grows(g, h)
    /\ h.probes["recon"] = g.probes["recon"] \/ ~MayProbe(p)
    /\ h.patches = g.patches \/ ~MayPatch(p)
    /\ (h.probes["retest"] = g.probes["retest"] /\ h.concluded = g.concluded) \/ ~MayConclude(p)
    /\ h.ledger.state = g.ledger.state \/ g.driver = "stages" \/ p.program = "idle"
LEMMA OthersStand ==
  ASSUME NEW p \in Proc, NEW g, NEW h, Stands(p, g), Later(g, h, p), g.driver \in Driver
  PROVE  Stands(p, h)
<1>1. /\ MayProbeAgain(p) => MayConclude(p)
      /\ PastAgain(p) /\ ~PastConclude(p) => MayConclude(p)
  BY DEF Proc, MayProbeAgain, MayConclude, PastBind, PastAgain, PastConclude, Past
<1>2. Backed(p, h)
  BY <1>1 DEF Stands, Backed, Later, Grows
<1>3. Witnessed(p, h)
  BY <1>1 DEF Stands, Witnessed, Later
<1>4. Tracked(p, h)
  BY DEF Stands, Tracked, Later, Grows, Stage, Driver
<1> QED
  BY <1>2, <1>3, <1>4 DEF Stands

-----------------------------------------------------------------------------
(* The invariant.                                                            *)

LEMMA Moves ==
  ASSUME IInv, NEW w \in Worker, NEW q \in Proc, Placed(q), proc' = [proc EXCEPT ![w] = q],
         driver' = driver, TypeRest', Chain', Counted', StateBacked', Stands(q, now'),
         \A v \in Worker \ {w} : Later(now, now', proc[v]),
         \A v \in Worker \ {w} : Alone(q, proc[v], driver)
  PROVE  IInv'
<1>1. \A v \in Worker : proc'[v] = IF v = w THEN q ELSE proc[v]
  BY DEF IInv, TypeOK
<1>2. TypeOK'
  <2>1. proc' \in [Worker -> Proc]
    BY DEF IInv, TypeOK
  <2>2. \A v \in Worker : Placed(proc'[v])
    BY <1>1 DEF IInv, TypeOK
  <2> QED
    BY <2>1, <2>2 DEF TypeOK
<1>3. \A v \in Worker : Stands(proc'[v], now')
  <2>1. ASSUME NEW v \in Worker, v # w PROVE Stands(proc'[v], now')
    <3>1. proc[v] \in Proc /\ Stands(proc[v], now) /\ now.driver \in Driver
      BY DEF IInv, TypeOK, TypeRest, now
    <3>2. Later(now, now', proc[v])
      BY <2>1
    <3> HIDE DEF now
    <3> QED
      BY <1>1, <2>1, <3>1, <3>2, OthersStand
  <2> QED
    BY <1>1, <2>1
<1>4. \A v, u \in Worker : v # u => Alone(proc'[v], proc'[u], driver')
  <2>1. \A p1, p2 : Alone(p1, p2, driver) => Alone(p2, p1, driver)
    BY DEF Alone
  <2> QED
    BY <1>1, <2>1 DEF IInv
<1> QED
  BY <1>2, <1>3, <1>4 DEF IInv

(* A process moves and nothing it shares changes. *)
Shared == <<driver, ledger, job, done, probes, patches, concluded>>
Aside ==
    /\ UNCHANGED Shared /\ range' \in [Worker -> View]
    /\ crashes' \in Nat /\ operator' \in Nat /\ restarts' \in Nat
LEMMA SharedKept ==
  ASSUME IInv, Aside
  PROVE  now' = now /\ driver' = driver /\ TypeRest' /\ Chain' /\ Counted' /\ StateBacked'
<1>1. now' = now /\ driver' = driver
  BY DEF Shared, now, Aside
<1>2. TypeRest'
  BY DEF IInv, TypeOK, TypeRest, Shared, Aside
<1>3. Chain'
  BY DEF IInv, Chain, Changed, Shared, Aside
<1>4. Counted'
  BY DEF IInv, Counted, EffectOnce, OneVerdict, Shared, Aside
<1>5. StateBacked'
  BY DEF IInv, StateBacked, PassIsEarned, Changed, Shared, Aside
<1> QED
  BY <1>1, <1>2, <1>3, <1>4, <1>5

LEMMA Quiet ==
  ASSUME IInv, NEW w \in Worker, NEW q \in Proc, Placed(q), proc' = [proc EXCEPT ![w] = q],
         Aside, Stands(q, now),
         MayProbe(q) => MayProbe(proc[w]), MayPatch(q) => MayPatch(proc[w]),
         MayConclude(q) => MayConclude(proc[w]),
         driver = "live" /\ q.program # "idle" =>
             proc[w].program # "idle" \/ \A v \in Worker : proc[v].program = "idle"
  PROVE  IInv'
<1>1. now' = now /\ driver' = driver /\ TypeRest' /\ Chain' /\ Counted' /\ StateBacked'
  BY SharedKept
<1>2. \A v \in Worker \ {w} : Later(now, now', proc[v])
  BY <1>1 DEF Later, Grows
<1>3. \A v \in Worker \ {w} : Alone(q, proc[v], driver)
  BY DEF IInv, Alone
<1> QED
  BY <1>1, <1>2, <1>3, Moves

LEMMA ProcFacts ==
  ASSUME IInv, NEW w \in Worker
  PROVE  proc[w] \in Proc /\ Placed(proc[w]) /\ Stands(proc[w], now) /\ driver \in Driver
  BY DEF IInv, TypeOK, TypeRest

(* The call at the place of w succeeds, and the shared state with it. *)
LEMMA Advance ==
  ASSUME IInv, NEW w \in Worker, proc[w].program # "idle", NEW r \in Proc, GoOn(w, r),
         driver' = driver, TypeRest', Chain', Counted', StateBacked',
         Grows(now, now'), Passes(proc[w], r, now, now'),
         Is(proc[w], 5, "EXECUTE", 2) => \A v \in Worker \ {w} : ~MayProbe(proc[v]),
         Is(proc[w], 14, "REMEDIATE", 2) => \A v \in Worker \ {w} : ~MayPatch(proc[v]),
         Is(proc[w], 26, "RETEST", 2) => \A v \in Worker \ {w} : ~MayConclude(proc[v])
  PROVE  IInv'
<1> DEFINE p == proc[w]
<1>1. p \in Proc /\ Placed(p) /\ Stands(p, now) /\ driver \in Driver
  BY ProcFacts
<1>2. PICK q : q = Onward(r)
  OBVIOUS
<1>3. r.program = p.program /\ r.at = p.at
  BY DEF Passes
<1>4. Placed(r) /\ r.program # "idle"
  BY <1>1, <1>3 DEF Placed
<1>5. /\ q \in Proc /\ Placed(q)
      /\ \/ OnePlaceOn(r, q)
         \/ q.program \in {"idle", "cleanup"} /\ (q.program = "cleanup" => driver = "live")
  BY <1>2, <1>4, OnwardMoves
<1>6. proc' = [proc EXCEPT ![w] = q]
  BY <1>2 DEF GoOn
<1>7. /\ Stands(q, now')
      /\ MayProbe(q) => (MayProbe(p) /\ ~Is(p, 7, "EXECUTE", 3)) \/ Is(p, 5, "EXECUTE", 2)
      /\ MayPatch(q) => (MayPatch(p) /\ ~Is(p, 17, "REMEDIATE", 5)) \/ Is(p, 14, "REMEDIATE", 2)
      /\ MayConclude(q) => (MayConclude(p) /\ ~Is(p, 31, "RETEST", 6)) \/ Is(p, 26, "RETEST", 2)
  <2>1. CASE OnePlaceOn(r, q)
    BY <1>1, <1>5, <2>1, OnwardStands
  <2>2. CASE q.program \in {"idle", "cleanup"} /\ (q.program = "cleanup" => driver = "live")
    <3>1. q.program # "idle" => now'.driver = "live"
      BY <2>2 DEF now
    <3> QED
      BY <2>2, <3>1, GoneStands
  <2> QED
    BY <1>5, <2>1, <2>2
<1>8. \A v \in Worker \ {w} : Alone(p, proc[v], driver)
  BY DEF IInv
<1>9. \A v \in Worker \ {w} : Alone(q, proc[v], driver)
  BY <1>7, <1>8 DEF Alone
<1>10. ASSUME NEW v \in Worker \ {w} PROVE Later(now, now', proc[v])
  <2>1. /\ now'.probes["recon"] = now.probes["recon"] \/ ~MayProbe(proc[v])
        /\ now'.patches = now.patches \/ ~MayPatch(proc[v])
        /\ (now'.probes["retest"] = now.probes["retest"] /\ now'.concluded = now.concluded)
           \/ ~MayConclude(proc[v])
    <3>1. /\ Is(p, 7, "EXECUTE", 3) => MayProbe(p)
          /\ Is(p, 17, "REMEDIATE", 5) => MayPatch(p)
          /\ Is(p, 29, "RETEST", 4) \/ Is(p, 31, "RETEST", 6) \/ p.program = "failed" => MayConclude(p)
      BY DEF Is, MayProbe, MayPatch, MayConclude, PastClaim, PastProbe, PastAuthorize, PastPatch,
         PastBind, PastConclude, Past
    <3> HIDE DEF now
    <3> QED
      BY <1>8, <3>1 DEF Alone, Passes
  <2>2. now'.ledger.state = now.ledger.state \/ now.driver = "stages" \/ proc[v].program = "idle"
    BY <1>1, <1>8 DEF Alone, now, Driver
  <2> QED
    BY <2>1, <2>2 DEF Later
<1> HIDE DEF p
<1> QED
  BY <1>5, <1>6, <1>7, <1>9, <1>10, Moves

-----------------------------------------------------------------------------
(* Calls that change nothing the processes share.                            *)

LEMMA CallPlace ==
  ASSUME IInv, NEW w \in Worker, NEW c, Calls(w, c)
  PROVE  proc[w].program # "idle" /\ c = Program[proc[w].program][proc[w].at]
  BY DEF Calls

LEMMA NotTouched ==
  ASSUME IInv, UNCHANGED Shared, UNCHANGED <<range, outside>> PROVE Aside
  BY DEF IInv, TypeOK, TypeRest, Aside, outside

Key(p) ==
    \/ Is(p, 5, "EXECUTE", 2) \/ Is(p, 7, "EXECUTE", 3) \/ Is(p, 8, "VERIFY", 1)
    \/ Is(p, 10, "VERIFY", 3) \/ Is(p, 14, "REMEDIATE", 2) \/ Is(p, 17, "REMEDIATE", 5)
    \/ Is(p, 20, "REMEDIATE", 8) \/ Is(p, 25, "RETEST", 1) \/ Is(p, 26, "RETEST", 2)
    \/ Is(p, 27, "RETEST", 3) \/ Is(p, 29, "RETEST", 4) \/ Is(p, 30, "RETEST", 5)
    \/ Is(p, 31, "RETEST", 6)

(* What has no key passes as it was. *)
LEMMA Steady ==
  ASSUME IInv, NEW w \in Worker, proc[w].program # "idle", ~Key(proc[w]), Aside,
         NEW r \in Proc, GoOn(w, r),
         r.program = proc[w].program, r.at = proc[w].at, r.first = proc[w].first,
         r.again = proc[w].again, r.verdict = proc[w].verdict
  PROVE  IInv'
<1> DEFINE p == proc[w]
<1>1. p \in Proc /\ Placed(p) /\ Stands(p, now)
  BY ProcFacts
<1>2. now' = now /\ driver' = driver /\ TypeRest' /\ Chain' /\ Counted' /\ StateBacked'
  BY SharedKept
<1>3. Passes(p, r, now, now)
  <2>1. p.at \in Nat
    BY <1>1 DEF Proc
  <2>2. p.program = "live" => p.at # 31
    BY DEF Key, Is
  <2>3. Tracked(p, now)
    BY <1>1 DEF Stands
  <2> HIDE DEF p, now
  <2>4. /\ p.program = "live" /\ p.at < 27 => now.ledger.state # "RETEST_RUNNING"
        /\ p.program = "live" /\ p.at < 32 => (p.at = 31 <=> now.ledger.state \in Final)
        /\ p.program = "rejected" => now.ledger.state \notin Final
    BY <2>1, <2>2, <2>3 DEF Tracked
  <2> QED
    BY <2>4 DEF Passes, Key, p
<1>4. Grows(now, now)
  BY DEF Grows
<1> HIDE DEF now
<1> QED
  BY <1>1, <1>2, <1>3, <1>4, Advance DEF Key

LEMMA RaiseStep ==
  ASSUME IInv, NEW w \in Worker, proc[w].program # "idle", Raise(w), Aside PROVE IInv'
<1>1. PICK q : q = Over(proc[w])
  OBVIOUS
<1>2. /\ q \in Proc /\ Placed(q)
      /\ q.program \in {"idle", "cleanup"} /\ (q.program = "cleanup" => driver = "live")
  BY <1>1, ProcFacts, OverMoves
<1>3. q.program # "idle" => now.driver = "live"
  BY <1>2 DEF now
<1>4. Stands(q, now) /\ ~MayProbe(q) /\ ~MayPatch(q) /\ ~MayConclude(q)
  BY <1>2, <1>3, GoneStands
<1>5. proc' = [proc EXCEPT ![w] = q]
  BY <1>1 DEF Raise
<1> QED
  BY <1>2, <1>4, <1>5, Quiet

LEMMA GivesStep ==
  ASSUME IInv, NEW w \in Worker, proc[w].program # "idle", NEW name \in {"rejected", "incomplete"},
         Gives(w, name), Aside, driver = "live" => ledger.state \notin Final
  PROVE  IInv'
<1>1. CASE driver = "live"
  <2>1. PICK q : q = Jump(proc[w], name)
    OBVIOUS
  <2>2. q \in Proc /\ Placed(q) /\ q.program = name
    BY <2>1, ProcFacts, JumpMoves DEF Names
  <2>3. now.driver = "live" /\ now.ledger.state \notin Final
    BY <1>1 DEF now
  <2>4. Stands(q, now) /\ ~MayProbe(q) /\ ~MayPatch(q) /\ ~MayConclude(q)
    BY <2>2, <2>3, GoneStands
  <2>5. proc' = [proc EXCEPT ![w] = q]
    BY <1>1, <2>1 DEF Gives
  <2> QED
    BY <2>2, <2>4, <2>5, Quiet
<1>2. CASE driver # "live"
  <2>1. Raise(w)
    BY <1>2 DEF Gives, Raise
  <2> QED
    BY <2>1, RaiseStep
<1> QED
  BY <1>1, <1>2

(* A live process that is not at the end of its program has concluded nothing. *)
LEMMA NotConcluded ==
  ASSUME IInv, NEW w \in Worker, proc[w].program = "live", proc[w].at # 32
  PROVE  ledger.state \notin Final
<1>1. Tracked(proc[w], now) /\ now.ledger = ledger
  BY ProcFacts DEF Stands, now
<1> HIDE DEF now
<1> QED
  BY <1>1 DEF Tracked

LEMMA RejectStep ==
  ASSUME IInv, NEW w \in Worker, proc[w].program # "idle", Reject(w), Aside PROVE IInv'
<1>1. CASE \E call \in {"receipt", "PATCH_APPLIED", "RETEST_QUEUED"} : Calls(w, call)
  <2>1. PICK call \in {"receipt", "PATCH_APPLIED", "RETEST_QUEUED"} : Calls(w, call)
    BY <1>1
  <2>2. /\ call = "receipt" => Is(proc[w], 20, "REMEDIATE", 8)
        /\ call = "PATCH_APPLIED" => Is(proc[w], 21, "REMEDIATE", 9)
        /\ call = "RETEST_QUEUED" => Is(proc[w], 22, "REMEDIATE", 10)
    BY <2>1, CallPlace, ProcFacts, Places
  <2>3. driver = "live" => proc[w].program = "live" /\ proc[w].at # 32
    <3>1. Tracked(proc[w], now) /\ now.driver = driver
      BY ProcFacts DEF Stands, now
    <3>2. proc[w].program = "REMEDIATE" => driver = "stages"
      BY <3>1 DEF Tracked, Stage
    <3> QED
      BY <2>2, <3>2 DEF Is
  <2>4. Gives(w, "incomplete")
    BY <1>1 DEF Reject
  <2> QED
    BY <2>3, <2>4, GivesStep, NotConcluded
<1>2. CASE ~\E call \in {"receipt", "PATCH_APPLIED", "RETEST_QUEUED"} : Calls(w, call)
  BY <1>2, RaiseStep DEF Reject
<1> QED
  BY <1>1, <1>2

(* The names of the states are no calls of any other kind. *)
LEMMA StatesFacts ==
  /\ States = {"INITIAL_EXECUTION_PENDING", "INITIAL_CONFIRMED", "REMEDIATION_RECOMMENDED",
               "PATCH_AUTHORIZED", "PATCH_APPLIED", "RETEST_QUEUED", "RETEST_RUNNING",
               "RETEST_PASS", "RETEST_FAIL", "INCOMPLETE"}
  /\ Happy[1] = "INITIAL_EXECUTION_PENDING" /\ Happy[2] = "INITIAL_CONFIRMED"
  /\ Happy[3] = "REMEDIATION_RECOMMENDED" /\ Happy[4] = "PATCH_AUTHORIZED"
  /\ Happy[5] = "PATCH_APPLIED" /\ Happy[6] = "RETEST_QUEUED" /\ Happy[7] = "RETEST_RUNNING"
  /\ Len(Happy) = 7
<1>1. /\ Happy[1] = "INITIAL_EXECUTION_PENDING" /\ Happy[2] = "INITIAL_CONFIRMED"
      /\ Happy[3] = "REMEDIATION_RECOMMENDED" /\ Happy[4] = "PATCH_AUTHORIZED"
      /\ Happy[5] = "PATCH_APPLIED" /\ Happy[6] = "RETEST_QUEUED" /\ Happy[7] = "RETEST_RUNNING"
      /\ Len(Happy) = 7
  BY DEF Happy
<1>2. \A i \in 1 .. 7 : i = 1 \/ i = 2 \/ i = 3 \/ i = 4 \/ i = 5 \/ i = 6 \/ i = 7
  OBVIOUS
<1>3. 1 \in 1 .. 7 /\ 2 \in 1 .. 7 /\ 3 \in 1 .. 7 /\ 4 \in 1 .. 7 /\ 5 \in 1 .. 7 /\ 6 \in 1 .. 7 /\ 7 \in 1 .. 7
  OBVIOUS
<1>4. {Happy[i] : i \in 1 .. Len(Happy)} =
        {"INITIAL_EXECUTION_PENDING", "INITIAL_CONFIRMED", "REMEDIATION_RECOMMENDED",
         "PATCH_AUTHORIZED", "PATCH_APPLIED", "RETEST_QUEUED", "RETEST_RUNNING"}
  <2>1. Len(Happy) = 7
    BY <1>1
  <2> QED
    BY <1>1, <1>2, <1>3, <2>1
<1> QED
  BY <1>1, <1>4 DEF States, Final

LEMMA ReadStep ==
  ASSUME IInv, NEW w \in Worker, NEW to \in States, Read(w, to) PROVE IInv'
<1> DEFINE p == proc[w]
<1>1. p \in Proc /\ Placed(p) /\ Stands(p, now)
  BY ProcFacts
<1>2. Aside
  BY NotTouched DEF Read, Shared
<1>3. p.program # "idle"
  BY DEF Read, Asks, Calls
<1>4. CASE Legal(ledger.state, to)
  <2> DEFINE q == [p EXCEPT !.seen = ledger.state]
  <2>1. ledger.state \in States \cup {"unused", None}
    BY DEF IInv, TypeOK, TypeRest, Ledger
  <2>2. /\ q \in Proc /\ q.program = p.program /\ q.at = p.at /\ q.first = p.first
        /\ q.again = p.again /\ q.verdict = p.verdict
    BY <1>1, <2>1 DEF Proc
  <2>3. proc' = [proc EXCEPT ![w] = q]
    BY <1>4 DEF Read
  <2>4. ~AtConsume(p)
    <3>1. Asks(w, to)
      BY DEF Read
    <3>2. Program[p.program][p.at] # "consume"
      BY <3>1, StatesFacts DEF Asks, Calls
    <3>3. CASE p.program = "live" /\ p.at = 25
      BY <3>2, <3>3, LiveWritten, OthersWritten
    <3>4. CASE p.program = "RETEST" /\ p.at = 1
      BY <3>2, <3>4, RetestProgramWritten
    <3> QED
      BY <3>3, <3>4 DEF AtConsume, Is
  <2> HIDE DEF p, q, now
  <2>5. Stands(q, now) /\ (MayProbe(q) => MayProbe(p)) /\ (MayPatch(q) => MayPatch(p))
        /\ (MayConclude(q) => MayConclude(p))
    BY <1>1, <2>2, <2>4 DEF Stands, Backed, Witnessed, Tracked, MayProbe, MayPatch, MayConclude,
       MayProbeAgain, PastClaim, PastProbe, PastJudge, PastFinding, PastAuthorize, PastPatch,
       PastReceipt, PastConsume, PastBind, PastAgain, PastJudged, PastConclude, Past, Is, AtConsume
  <2>6. Placed(q)
    BY <1>1, <2>2 DEF Placed
  <2> QED
    BY <1>2, <1>3, <2>2, <2>3, <2>5, <2>6, Quiet DEF p
<1>5. CASE ~Legal(ledger.state, to)
  BY <1>2, <1>3, <1>5, RejectStep DEF Read
<1> QED
  BY <1>4, <1>5

LEMMA ConsumeReadStep ==
  ASSUME IInv, NEW w \in Worker, ConsumeRead(w) PROVE IInv'
<1> DEFINE p == proc[w]
<1>1. p \in Proc /\ Placed(p) /\ Stands(p, now) /\ now.ledger = ledger
  BY ProcFacts DEF now
<1>2. Aside
  BY NotTouched DEF ConsumeRead, Shared
<1>3. p.program # "idle"
  BY DEF ConsumeRead, Calls
<1>4. CASE ledger.receipt # None /\ ~ledger.consumed
  <2> DEFINE q == [p EXCEPT !.seen = "unused"]
  <2>1. "unused" \in States \cup {"unused", None}
    OBVIOUS
  <2>2. /\ q \in Proc /\ q.program = p.program /\ q.at = p.at /\ q.first = p.first
        /\ q.again = p.again /\ q.verdict = p.verdict
    BY <1>1, <2>1 DEF Proc
  <2>3. proc' = [proc EXCEPT ![w] = q]
    BY <1>4 DEF ConsumeRead
  <2> HIDE DEF p, q, now
  <2>4. now.ledger.receipt # None
    BY <1>1, <1>4
  <2>5. Stands(q, now) /\ (MayProbe(q) => MayProbe(p)) /\ (MayPatch(q) => MayPatch(p))
        /\ (MayConclude(q) => MayConclude(p))
    BY <1>1, <2>2, <2>4 DEF Stands, Backed, Witnessed, Tracked, MayProbe, MayPatch, MayConclude,
       MayProbeAgain, PastClaim, PastProbe, PastJudge, PastFinding, PastAuthorize, PastPatch,
       PastReceipt, PastConsume, PastBind, PastAgain, PastJudged, PastConclude, Past, Is, AtConsume
  <2>6. Placed(q)
    BY <1>1, <2>2 DEF Placed
  <2> QED
    BY <1>2, <1>3, <2>2, <2>3, <2>5, <2>6, Quiet DEF p
<1>5. CASE ~(ledger.receipt # None /\ ~ledger.consumed)
  BY <1>2, <1>3, <1>5, RaiseStep DEF ConsumeRead
<1> QED
  BY <1>4, <1>5

LEMMA ModelStep ==
  ASSUME IInv, NEW w \in Worker, Model(w) PROVE IInv'
<1> DEFINE p == proc[w]
<1>1. p \in Proc /\ Placed(p) /\ Stands(p, now) /\ now.ledger = ledger /\ now.driver = driver
  BY ProcFacts DEF now
<1>2. Aside
  BY NotTouched DEF Model, Shared
<1>3. p.program = "live" /\ p.at \in {6, 12, 28}
  BY <1>1, CallPlace, Places DEF Model
<1>4. CASE GoOn(w, p)
  <2>1. ~Key(p)
    BY <1>3 DEF Key, Is, Stage
  <2> QED
    BY <1>1, <1>2, <1>3, <1>4, <2>1, Steady
<1>5. CASE Raise(w)
  BY <1>2, <1>3, <1>5, RaiseStep
<1>6. CASE Gives(w, "incomplete")
  BY <1>2, <1>3, <1>6, GivesStep, NotConcluded
<1>7. CASE ledger.state = "RETEST_RUNNING" /\ Gives(w, "failed")
  <2>1. driver = "live"
    BY <1>1, <1>3 DEF Stands, Tracked, Stage
  <2>2. p.at = 28
    BY <1>1, <1>3, <1>7 DEF Stands, Tracked
  <2>3. PICK q : q = Jump(p, "failed")
    OBVIOUS
  <2>4. q \in Proc /\ Placed(q) /\ q.program = "failed"
    BY <1>1, <2>3, JumpMoves DEF Names
  <2>5. proc' = [proc EXCEPT ![w] = q]
    BY <1>7, <2>1, <2>3 DEF Gives
  <2>6. MayConclude(p) /\ PastBind(p)
    BY <1>3, <2>2 DEF MayConclude, PastBind, PastConclude, Past
  <2> HIDE DEF now
  <2>7. Stands(q, now) /\ ~MayProbe(q) /\ ~MayPatch(q)
    BY <1>1, <1>7, <2>1, <2>4, <2>6 DEF Stands, Backed, Witnessed, Tracked, MayProbe, MayPatch,
       MayConclude, MayProbeAgain, PastClaim, PastProbe, PastJudge, PastFinding, PastAuthorize,
       PastPatch, PastReceipt, PastConsume, PastBind, PastAgain, PastJudged, PastConclude, Past,
       Is, AtConsume, Stage, Final
  <2> QED
    BY <1>2, <1>3, <2>4, <2>5, <2>6, <2>7, Quiet
<1> QED
  BY <1>4, <1>5, <1>6, <1>7 DEF Model

(* Nothing comes back of the mutation: the live driver goes on to the receipt. *)
LEMMA ReceiptPlace == (CHOOSE i \in DOMAIN Live : Live[i] = "receipt") = 20
<1>1. DOMAIN Live = 1 .. 32
  BY DEF Live, Handoff, Initial, Verify, Remediate, Mutation, Retest, Again
<1>2. Live[20] = "receipt" /\ \A i \in 1 .. 32 : Live[i] = "receipt" => i = 20
  BY LiveWritten
<1>3. 20 \in 1 .. 32
  OBVIOUS
<1> QED
  BY <1>1, <1>2, <1>3

LEMMA NoResultMoves ==
  ASSUME IInv, NEW w \in Worker, NoResult(w), NEW h, Grows(now, h),
         h.ledger.state = ledger.state,
         \/ proc[w].program = "REMEDIATE"
         \/ proc[w].program = "live" /\ proc[w].at \in 16 .. 19
  PROVE  \E q \in Proc :
            /\ Placed(q) /\ proc' = [proc EXCEPT ![w] = q] /\ Stands(q, h)
            /\ ~MayProbe(q) /\ ~MayPatch(q) /\ ~MayConclude(q)
<1> DEFINE p == proc[w]
<1>1. p \in Proc /\ Placed(p) /\ Stands(p, now) /\ now.ledger = ledger /\ now.driver = driver
      /\ driver \in Driver /\ h.driver = driver
  BY ProcFacts DEF now, Grows
<1> HIDE DEF now
<1>2. CASE driver = "live"
  <2> DEFINE q == [p EXCEPT !.before = None, !.at = 20]
  <2>1. proc' = [proc EXCEPT ![w] = q]
    BY <1>2, ReceiptPlace DEF NoResult
  <2>2. q \in Proc /\ q.program = p.program /\ q.at = 20
    <3>1. None \in View \cup {None} /\ 20 \in Nat
      OBVIOUS
    <3> QED
      BY <1>1, <3>1 DEF Proc
  <2>3. p.program = "live" /\ p.at \in 16 .. 19 /\ p.at \in Nat
    BY <1>1, <1>2 DEF Stands, Tracked, Stage, Proc
  <2> HIDE DEF q
  <2>4. Placed(q)
    <3>1. Len(Program["live"]) = 32
      BY LiveWritten, OthersWritten
    <3> QED
      BY <2>2, <2>3, <3>1 DEF Placed
  <2>5. PastFinding(p) /\ PastAuthorize(p)
    BY <2>3 DEF PastFinding, PastAuthorize, Past
  <2>6. Stands(q, h) /\ ~MayProbe(q) /\ ~MayPatch(q) /\ ~MayConclude(q)
    <3>1. h.ledger.finding # None /\ h.ledger.authorization
      BY <1>1, <2>5 DEF Stands, Backed, Grows
    <3>2. h.ledger.state # "RETEST_RUNNING" /\ h.ledger.state \notin Final
      BY <1>1, <2>3 DEF Stands, Tracked
    <3> QED
      BY <1>1, <1>2, <2>2, <2>3, <3>1, <3>2 DEF Stands, Backed, Witnessed, Tracked, MayProbe, MayPatch,
       MayConclude, MayProbeAgain, PastClaim, PastProbe, PastJudge, PastFinding, PastAuthorize,
       PastPatch, PastReceipt, PastConsume, PastBind, PastAgain, PastJudged, PastConclude, Past,
       Is, AtConsume, Stage
  <2> QED
    BY <2>1, <2>2, <2>4, <2>6
<1>3. CASE driver # "live"
  <2>1. PICK q : q = Over(p)
    OBVIOUS
  <2>2. q \in Proc /\ Placed(q) /\ q.program = "idle"
    BY <1>1, <1>3, <2>1, OverMoves
  <2>3. Stands(q, h) /\ ~MayProbe(q) /\ ~MayPatch(q) /\ ~MayConclude(q)
    BY <2>2, GoneStands
  <2>4. proc' = [proc EXCEPT ![w] = q]
    BY <1>3, <2>1 DEF NoResult
  <2> QED
    BY <2>2, <2>3, <2>4
<1> QED
  BY <1>2, <1>3

LEMMA NoResultStep ==
  ASSUME IInv, NEW w \in Worker, NoResult(w), Aside,
         \/ proc[w].program = "REMEDIATE"
         \/ proc[w].program = "live" /\ proc[w].at \in 16 .. 19
  PROVE  IInv'
<1>1. Grows(now, now) /\ now.ledger.state = ledger.state
  BY DEF Grows, now
<1>2. PICK q \in Proc :
            /\ Placed(q) /\ proc' = [proc EXCEPT ![w] = q] /\ Stands(q, now)
            /\ ~MayProbe(q) /\ ~MayPatch(q) /\ ~MayConclude(q)
  BY <1>1, NoResultMoves
<1> HIDE DEF now
<1> QED
  BY <1>2, Quiet

-----------------------------------------------------------------------------
(* The range, and what happens around.                                       *)

LEMMA RangeValues ==
  ASSUME IInv, NEW w \in Worker
  PROVE  /\ range[w] \in View /\ ResetRange(w) \in View /\ Rotated(w) \in View
         /\ \A m \in Mode : Selected(w, m) \in View
         /\ Fresh \in View /\ Created \in View
<1>1. range[w] \in View
  BY DEF IInv, TypeOK, TypeRest
<1>2. /\ range[w].mode \in Mode /\ range[w].generation \in Nat /\ range[w].sentinel \in Seq(Nat)
      /\ Generation(w) \in Nat
  BY <1>1 DEF View, Generation
<1>3. <<Generation(w)>> \in Seq(Nat) /\ Append(range[w].sentinel, range[w].generation) \in Seq(Nat)
      /\ <<1>> \in Seq(Nat)
  BY <1>2
<1>4. ResetRange(w) \in View
  BY <1>2, <1>3 DEF ResetRange, View, Mode
<1>5. Rotated(w) \in View
  BY <1>1, <1>3 DEF Rotated, View
<1>6. \A m \in Mode : Selected(w, m) \in View
  BY <1>1, <1>2 DEF Selected, View
<1>7. Fresh \in View /\ Created \in View
  BY <1>3 DEF Fresh, Created, View, Mode
<1> QED
  BY <1>1, <1>4, <1>5, <1>6, <1>7

LEMMA RangeTyped ==
  ASSUME IInv, NEW w \in Worker, NEW after \in View, range' \in {range, [range EXCEPT ![w] = after]}
  PROVE  range' \in [Worker -> View]
  BY DEF IInv, TypeOK, TypeRest

LEMMA CountersTyped ==
  ASSUME IInv PROVE crashes \in Nat /\ operator \in Nat /\ restarts \in Nat
  BY DEF IInv, TypeOK, TypeRest

LEMMA ControlStep ==
  ASSUME IInv, NEW w \in Worker, NEW call \in {"reset", "vulnerable", "rotate"}, NEW after \in View,
         Control(w, call, after)
  PROVE  IInv'
<1> DEFINE p == proc[w]
<1>1. p \in Proc /\ Placed(p)
  BY ProcFacts
<1>2. Aside
  BY RangeTyped, CountersTyped DEF Control, Aside, Shared, outside
<1>3. p.program # "idle" /\ call = Program[p.program][p.at]
  BY DEF Control, Calls
<1>4. (p.program = "live" /\ p.at \in {1, 2}) \/ p.program = "cleanup"
  <2>1. /\ call = "reset" => Is(p, 1, "cleanup", 1)
        /\ call = "vulnerable" => p.program = "live" /\ p.at = 2
        /\ call = "rotate" => p.program = "cleanup"
    BY <1>1, <1>3, Places DEF Control
  <2> QED
    BY <2>1 DEF Is
<1>5. ~Key(p)
  BY <1>4 DEF Key, Is
<1>6. GoOn(w, p)
  BY DEF Control
<1> QED
  BY <1>1, <1>2, <1>3, <1>5, <1>6, Steady

LEMMA LookStep ==
  ASSUME IInv, NEW w \in Worker, NEW call \in {"read_before", "read_after"}, Look(w, call)
  PROVE  IInv'
<1> DEFINE p == proc[w]
<1>1. p \in Proc /\ Placed(p) /\ range[w] \in View
  BY ProcFacts, RangeValues
<1>2. Aside
  BY NotTouched DEF Look, Shared
<1>3. p.program # "idle" /\ call = Program[p.program][p.at]
  BY DEF Look, Calls
<1>4. (p.program = "live" /\ p.at \in {16, 19}) \/ (p.program = "REMEDIATE" /\ p.at \in {4, 7})
  <2>1. /\ call = "read_before" => Is(p, 16, "REMEDIATE", 4)
        /\ call = "read_after" => Is(p, 19, "REMEDIATE", 7)
    BY <1>1, <1>3, Places
  <2> QED
    BY <2>1 DEF Is
<1>5. ~Key(p)
  BY <1>4 DEF Key, Is
<1>6. ASSUME NEW r, GoOn(w, r),
             r = [p EXCEPT !.before = range[w]] \/ r = [p EXCEPT !.after = range[w]]
      PROVE  IInv'
  <2>1. /\ r \in Proc /\ r.program = p.program /\ r.at = p.at /\ r.first = p.first
        /\ r.again = p.again /\ r.verdict = p.verdict
    BY <1>1, <1>6 DEF Proc
  <2> QED
    BY <1>2, <1>3, <1>5, <1>6, <2>1, Steady
<1>7. CASE NoResult(w)
  BY <1>2, <1>4, <1>7, NoResultStep
<1> QED
  BY <1>6, <1>7 DEF Look

LEMMA RotateStep ==
  ASSUME IInv, NEW w \in Worker, Rotate(w) PROVE IInv'
<1> DEFINE p == proc[w]
<1>1. p \in Proc /\ Placed(p) /\ Rotated(w) \in View
  BY ProcFacts, RangeValues
<1>2. Aside
  BY <1>1, RangeTyped, CountersTyped DEF Rotate, Aside, Shared, outside
<1>3. p.program # "idle" /\ "rotate" = Program[p.program][p.at] /\ p.program # "cleanup"
  BY DEF Rotate, Calls
<1>4. Is(p, 18, "REMEDIATE", 6)
  BY <1>1, <1>3, Places
<1>5. ~Key(p)
  BY <1>4 DEF Key, Is
<1>6. CASE GoOn(w, p)
  BY <1>1, <1>2, <1>3, <1>5, <1>6, Steady
<1>7. CASE NoResult(w)
  BY <1>2, <1>4, <1>7, NoResultStep DEF Is
<1> QED
  BY <1>6, <1>7 DEF Rotate

LEMMA TimedOutStep ==
  ASSUME IInv, NEW w \in Worker, TimedOut(w) PROVE IInv'
<1>1. Aside
  BY NotTouched DEF TimedOut, Shared
<1>2. proc[w].program # "idle" /\ Raise(w)
  BY DEF TimedOut, Calls
<1> QED
  BY <1>1, <1>2, RaiseStep

(* The range changes around a process that does not move. *)
LEMMA Around ==
  ASSUME IInv, Aside, proc' = proc PROVE IInv'
<1>1. now' = now /\ driver' = driver /\ TypeRest' /\ Chain' /\ Counted' /\ StateBacked'
  BY SharedKept
<1>2. TypeOK'
  BY <1>1 DEF IInv, TypeOK
<1>3. \A w \in Worker : Stands(proc'[w], now')
  BY <1>1 DEF IInv
<1>4. \A v, w \in Worker : v # w => Alone(proc'[v], proc'[w], driver')
  BY <1>1 DEF IInv
<1> QED
  BY <1>1, <1>2, <1>3, <1>4 DEF IInv

LEMMA OperateStep ==
  ASSUME IInv, NEW w \in Worker, Operate(w) PROVE IInv'
<1>1. PICK after \in {ResetRange(w)} \cup {Selected(w, m) : m \in Mode} :
         range' = [range EXCEPT ![w] = after]
  BY DEF Operate
<1>2. after \in View
  BY <1>1, RangeValues
<1>3. operator' \in Nat
  BY CountersTyped DEF Operate
<1>4. Aside
  BY <1>1, <1>2, <1>3, RangeTyped, CountersTyped DEF Operate, Aside, Shared
<1> QED
  BY <1>4, Around DEF Operate

LEMMA RangeRestartStep ==
  ASSUME IInv, NEW w \in Worker, RangeRestart(w) PROVE IInv'
<1>1. restarts' \in Nat /\ Fresh \in View
  BY CountersTyped, RangeValues DEF RangeRestart
<1>2. Aside
  BY <1>1, RangeTyped, CountersTyped DEF RangeRestart, Aside, Shared
<1> QED
  BY <1>2, Around DEF RangeRestart

LEMMA CrashStep ==
  ASSUME IInv, NEW w \in Worker, Crash(w) PROVE IInv'
<1>1. crashes' \in Nat /\ Created \in View
  BY CountersTyped, RangeValues DEF Crash
<1>2. range' \in {range, [range EXCEPT ![w] = Created]}
  BY DEF Crash
<1>3. Aside
  BY <1>1, <1>2, RangeTyped, CountersTyped DEF Crash, Aside, Shared
<1>4. Idle \in Proc /\ Placed(Idle) /\ Idle.program = "idle"
  <2>1. "idle" \in Names /\ 0 \in Nat
    BY DEF Names
  <2>2. None \in States \cup {"unused", None} /\ None \in Seen \cup {None} /\ None \in View \cup {None}
        /\ None \in {"CONFIRMED", "PASS", "INCOMPLETE", None}
    OBVIOUS
  <2> QED
    BY <2>1, <2>2 DEF Idle, Proc, Placed
<1>5. Stands(Idle, now) /\ ~MayProbe(Idle) /\ ~MayPatch(Idle) /\ ~MayConclude(Idle)
  BY <1>4, GoneStands
<1>6. proc' = [proc EXCEPT ![w] = Idle]
  BY DEF Crash
<1> QED
  BY <1>3, <1>4, <1>5, <1>6, Quiet

LEMMA StartLiveStep ==
  ASSUME IInv, NEW w \in Worker, StartLive(w) PROVE IInv'
<1>1. Aside
  BY NotTouched DEF StartLive, Shared
<1>2. PICK q : q = Jump(proc[w], "live")
  OBVIOUS
<1>3. q \in Proc /\ Placed(q) /\ q.program = "live" /\ q.at = 1
  BY <1>2, ProcFacts, JumpMoves DEF Names
<1>4. now.driver = "live" /\ now.ledger.state # "RETEST_RUNNING" /\ now.ledger.state \notin Final
  BY RemediationAssumption, StatesFacts DEF StartLive, now, Final
<1>5. ~MayProbe(q) /\ ~MayPatch(q) /\ ~MayConclude(q)
  BY <1>3 DEF MayProbe, MayPatch, MayConclude, PastClaim, PastAuthorize, PastBind, Past, Stage
<1> HIDE DEF now
<1>6. Stands(q, now)
  BY <1>3, <1>4, <1>5 DEF Stands, Backed, Witnessed, Tracked, MayProbeAgain, PastJudge, PastFinding,
     PastAuthorize, PastReceipt, PastConsume, PastBind, PastAgain, PastJudged, Past, Is, AtConsume,
     Stage
<1>7. \A v \in Worker : proc[v].program = "idle"
  BY DEF StartLive, Idle
<1>8. proc' = [proc EXCEPT ![w] = q]
  BY <1>2 DEF StartLive
<1> QED
  BY <1>1, <1>3, <1>5, <1>6, <1>7, <1>8, Quiet

LEMMA DispatchStep ==
  ASSUME IInv, NEW w \in Worker, NEW i \in 1 .. Len(Order), Dispatch(w, i) PROVE IInv'
<1>1. Aside
  BY NotTouched DEF Dispatch, Shared
<1>2. /\ i \in 1 .. 4 /\ Order[1] = "EXECUTE" /\ Order[2] = "VERIFY" /\ Order[3] = "REMEDIATE"
      /\ Order[4] = "RETEST"
  BY DEF Order
<1>3. Order[i] \in Stage
  BY <1>2 DEF Stage
<1>4. PICK q : q = Jump(proc[w], Order[i])
  OBVIOUS
<1>5. q \in Proc /\ Placed(q) /\ q.program = Order[i] /\ q.at = 1 /\ q.seen = None
  BY <1>3, <1>4, ProcFacts, JumpMoves DEF Names, Stage
<1>6. Order[i] = "REMEDIATE" => ledger.finding # None
  <2>1. ASSUME Order[i] = "REMEDIATE" PROVE "VERIFY" \in done
    <3>1. i = 3
      BY <1>2, <2>1
    <3>2. 2 \in 1 .. i - 1
      BY <3>1
    <3> QED
      BY <1>2, <3>2 DEF Dispatch
  <2> QED
    BY <2>1 DEF IInv, Chain
<1>7. now.driver = "stages" /\ now.ledger = ledger
  BY DEF Dispatch, now
<1> HIDE DEF now
<1>8. ~MayProbe(q) /\ ~MayPatch(q) /\ ~MayConclude(q)
  BY <1>3, <1>5 DEF MayProbe, MayPatch, MayConclude, PastClaim, PastAuthorize, PastBind, Past, Stage
<1>9. Stands(q, now)
  BY <1>3, <1>5, <1>6, <1>7, <1>8 DEF Stands, Backed, Witnessed, Tracked, MayProbeAgain, PastJudge,
     PastFinding, PastAuthorize, PastReceipt, PastConsume, PastBind, PastAgain, PastJudged, Past, Is,
     AtConsume, Stage
<1>10. driver # "live"
  BY DEF Dispatch
<1>11. proc' = [proc EXCEPT ![w] = q]
  BY <1>4 DEF Dispatch
<1> QED
  BY <1>1, <1>5, <1>8, <1>9, <1>10, <1>11, Quiet

-----------------------------------------------------------------------------
(* The verifier.                                                             *)

(* What is true of a place and the state of the ledger stays so one place on. *)
LEMMA StateAhead ==
  ASSUME NEW p \in Proc, NEW g, Stands(p, g), ~Is(p, 31, "RETEST", 6)
  PROVE  /\ p.program = "live" /\ p.at < 27 => g.ledger.state # "RETEST_RUNNING"
         /\ p.program = "live" /\ p.at < 32 => (p.at = 31 <=> g.ledger.state \in Final)
         /\ p.program = "rejected" => g.ledger.state \notin Final
<1>1. p.at \in Nat
  BY DEF Proc
<1> QED
  BY <1>1 DEF Stands, Tracked, Is

LEMMA JudgeReconStep ==
  ASSUME IInv, NEW w \in Worker, JudgeRecon(w) PROVE IInv'
<1> DEFINE p == proc[w]
<1>1. p \in Proc /\ Placed(p) /\ Stands(p, now) /\ now.driver = driver
  BY ProcFacts DEF now
<1>2. Aside
  BY NotTouched DEF JudgeRecon, Shared
<1>3. p.program # "idle" /\ "judge_recon" = Program[p.program][p.at]
  BY DEF JudgeRecon, Calls
<1>4. (p.program = "live" /\ p.at = 8) \/ (p.program = "VERIFY" /\ p.at = 1)
  BY <1>1, <1>3, Places DEF Is
<1>5. now' = now /\ driver' = driver /\ TypeRest' /\ Chain' /\ Counted' /\ StateBacked'
  BY <1>2, SharedKept
<1>6. CASE Confirms(w) /\ GoOn(w, p)
  <2>1. p.first # None /\ p.first.alternate = "reached"
    BY <1>6 DEF Confirms, Judged
  <2>2. Grows(now, now)
    BY DEF Grows
  <2> HIDE DEF p, now
  <2>3. Passes(p, p, now, now)
    BY <1>1, <1>4, <2>1, StateAhead DEF Passes, Is
  <2>4. ~Is(p, 5, "EXECUTE", 2) /\ ~Is(p, 14, "REMEDIATE", 2) /\ ~Is(p, 26, "RETEST", 2)
    BY <1>4 DEF Is
  <2> QED
    BY <1>1, <1>3, <1>5, <1>6, <2>2, <2>3, <2>4, Advance DEF p
<1>7. CASE driver = "live" /\ proc' = [proc EXCEPT ![w] = Jump(@, "rejected")]
  <2>1. Gives(w, "rejected")
    BY <1>7 DEF Gives
  <2>2. p.program = "live"
    BY <1>1, <1>4, <1>7 DEF Stands, Tracked, Stage
  <2> QED
    BY <1>2, <1>3, <1>4, <2>1, <2>2, GivesStep, NotConcluded
<1>8. CASE Raise(w)
  BY <1>2, <1>3, <1>8, RaiseStep
<1> QED
  BY <1>6, <1>7, <1>8 DEF JudgeRecon

LEMMA JudgeRetestStep ==
  ASSUME IInv, NEW w \in Worker, JudgeRetest(w) PROVE IInv'
<1> DEFINE p == proc[w]
<1>1. p \in Proc /\ Placed(p) /\ Stands(p, now)
  BY ProcFacts
<1>2. Aside
  BY NotTouched DEF JudgeRetest, Shared
<1>3. p.program # "idle" /\ "judge_retest" = Program[p.program][p.at]
  BY DEF JudgeRetest, Calls
<1>4. (p.program = "live" /\ p.at = 30) \/ (p.program = "RETEST" /\ p.at = 5)
  BY <1>1, <1>3, Places DEF Is
<1>5. now' = now /\ driver' = driver /\ TypeRest' /\ Chain' /\ Counted' /\ StateBacked'
  BY <1>2, SharedKept
<1>6. PICK verdict \in {Judged(w, p.again), None} : GoOn(w, [p EXCEPT !.verdict = verdict])
  BY DEF JudgeRetest
<1>7. verdict \in {"CONFIRMED", "PASS", "INCOMPLETE", None}
      /\ (verdict = "PASS" => p.again.alternate = "denied")
  BY <1>6, RemediationAssumption DEF Judged
<1>8. PICK r : r = [p EXCEPT !.verdict = verdict]
  OBVIOUS
<1>9. /\ r \in Proc /\ r.program = p.program /\ r.at = p.at /\ r.first = p.first
      /\ r.again = p.again /\ r.verdict = verdict
  BY <1>1, <1>7, <1>8 DEF Proc
<1>10. Grows(now, now)
  BY DEF Grows
<1> HIDE DEF p, now
<1>11. Passes(p, r, now, now)
  BY <1>1, <1>4, <1>7, <1>9, StateAhead DEF Passes, Is
<1>12. ~Is(p, 5, "EXECUTE", 2) /\ ~Is(p, 14, "REMEDIATE", 2) /\ ~Is(p, 26, "RETEST", 2)
  BY <1>4 DEF Is
<1> QED
  BY <1>1, <1>3, <1>5, <1>6, <1>8, <1>9, <1>10, <1>11, <1>12, Advance DEF p

-----------------------------------------------------------------------------
(* The ledger.                                                               *)

(* A row is added to what the ledger has. *)
Extends(l, n) ==
    /\ n.state = l.state /\ (l.finding # None => n.finding = l.finding)
    /\ (l.authorization => n.authorization) /\ (l.receipt # None => n.receipt = l.receipt)
    /\ (l.consumed => n.consumed) /\ (l.binding => n.binding)
LEMMA RowStep ==
  ASSUME IInv, NEW w \in Worker, proc[w].program # "idle", NEW new \in Ledger, ledger' = new,
         GoOn(w, proc[w]), Chain', Extends(ledger, new),
         UNCHANGED <<driver, job, done, range, outside, probes, patches, concluded>>,
         \/ Is(proc[w], 10, "VERIFY", 3) /\ new.finding # None
         \/ /\ Is(proc[w], 14, "REMEDIATE", 2) /\ new.authorization /\ patches = 0
            /\ \A v \in Worker \ {w} : ~MayPatch(proc[v])
         \/ Is(proc[w], 20, "REMEDIATE", 8) /\ new.receipt # None
         \/ Is(proc[w], 25, "RETEST", 1) /\ new.consumed
         \/ /\ Is(proc[w], 26, "RETEST", 2) /\ new.binding
            /\ probes["retest"] = <<>> /\ concluded = {}
            /\ \A v \in Worker \ {w} : ~MayConclude(proc[v])
  PROVE  IInv'
<1> DEFINE p == proc[w]
<1>1. p \in Proc /\ Placed(p) /\ Stands(p, now) /\ now.ledger = ledger
  BY ProcFacts DEF now
<1>2. TypeRest'
  BY DEF IInv, TypeOK, TypeRest, outside
<1>3. Counted'
  BY DEF IInv, Counted, EffectOnce, OneVerdict, Extends
<1>4. StateBacked'
  <2>1. /\ ledger'.state = ledger.state /\ (ledger.finding # None => ledger'.finding # None)
        /\ (ledger.receipt # None => ledger'.receipt # None)
    BY DEF Extends
  <2>2. PassIsEarned'
    <3>1. ASSUME ledger.state = "RETEST_PASS"
          PROVE  ledger'.finding = ledger.finding /\ ledger'.receipt = ledger.receipt
      BY <3>1 DEF IInv, StateBacked, Chain, Extends, Final
    <3> QED
      BY <2>1, <3>1 DEF IInv, StateBacked, PassIsEarned, Changed
  <2> QED
    BY <2>1, <2>2 DEF IInv, StateBacked, Extends
<1>5. Grows(now, now')
  BY DEF Grows, now, Extends
<1>6. /\ now'.ledger = new /\ now'.probes = now.probes /\ now'.patches = now.patches
      /\ now'.concluded = now.concluded /\ now.ledger.state = new.state
      /\ now.patches = patches /\ now.probes = probes /\ now.concluded = concluded
  BY DEF now, Extends
<1> HIDE DEF p, now
<1>7. Passes(p, p, now, now')
  <2>1. ~Is(p, 31, "RETEST", 6)
    BY DEF Is, p
  <2>2. /\ p.program = "live" /\ p.at < 27 => new.state # "RETEST_RUNNING"
        /\ p.program = "live" /\ p.at < 32 => (p.at = 31 <=> new.state \in Final)
        /\ p.program = "rejected" => new.state \notin Final
    BY <1>1, <1>6, <2>1, StateAhead
  <2> QED
    BY <1>6, <2>2 DEF Passes, Is, p
<1>8. /\ Is(p, 14, "REMEDIATE", 2) => \A v \in Worker \ {w} : ~MayPatch(proc[v])
      /\ Is(p, 26, "RETEST", 2) => \A v \in Worker \ {w} : ~MayConclude(proc[v])
      /\ ~Is(p, 5, "EXECUTE", 2)
  BY DEF Is, p
<1> QED
  BY <1>1, <1>2, <1>3, <1>4, <1>5, <1>7, <1>8, Advance DEF p

(* An insert that fails. *)
LEMMA Refused ==
  ASSUME IInv, NEW w \in Worker, proc[w].program # "idle", Reject(w), UNCHANGED ledger,
         UNCHANGED <<driver, job, done, range, outside, probes, patches, concluded>>
  PROVE  IInv'
<1>1. Aside
  BY NotTouched DEF Shared
<1> QED
  BY <1>1, RejectStep

LEMMA PersistFindingStep ==
  ASSUME IInv, NEW w \in Worker, PersistFinding(w) PROVE IInv'
<1> DEFINE p == proc[w]
<1>1. p \in Proc /\ Placed(p) /\ Stands(p, now) /\ ledger \in Ledger
  BY ProcFacts DEF IInv, TypeOK, TypeRest
<1>2. p.program # "idle" /\ "finding" = Program[p.program][p.at]
  BY DEF PersistFinding, Insert, Calls
<1>3. CASE ledger.finding = None
  <2>1. Is(p, 10, "VERIFY", 3)
    BY <1>1, <1>2, Places
  <2>2. p.first # None /\ p.first.alternate = "reached" /\ p.first \in Seen
    BY <1>1, <2>1 DEF Stands, Witnessed, PastJudge, PastFinding, Past, Is, Proc
  <2>3. PICK new : new = [ledger EXCEPT !.finding = p.first]
    OBVIOUS
  <2>4. new \in Ledger /\ Extends(ledger, new) /\ new.finding # None
    BY <1>1, <1>3, <2>2, <2>3 DEF Ledger, Extends
  <2>5. ledger' = new /\ GoOn(w, p)
    BY <1>3, <2>3 DEF PersistFinding, Insert
  <2>6. Chain'
    BY <1>1, <1>3, <2>2, <2>3, <2>5 DEF IInv, Chain, Changed, PersistFinding, Insert, Ledger
  <2>7. UNCHANGED <<driver, job, done, range, outside, probes, patches, concluded>>
    BY DEF PersistFinding, Insert
  <2> QED
    BY <1>2, <2>1, <2>4, <2>5, <2>6, <2>7, RowStep
<1>4. CASE ledger.finding # None
  BY <1>2, <1>4, Refused DEF PersistFinding, Insert
<1> QED
  BY <1>3, <1>4

LEMMA AuthorizeStep ==
  ASSUME IInv, NEW w \in Worker, Authorize(w) PROVE IInv'
<1> DEFINE p == proc[w]
<1>1. p \in Proc /\ Placed(p) /\ Stands(p, now) /\ ledger \in Ledger
  BY ProcFacts DEF IInv, TypeOK, TypeRest
<1>2. p.program # "idle" /\ "authorize" = Program[p.program][p.at]
  BY DEF Authorize, Insert, Calls
<1>3. CASE ledger.finding # None /\ ~ledger.authorization
  <2>1. Is(p, 14, "REMEDIATE", 2)
    BY <1>1, <1>2, Places
  <2>2. PICK new : new = [ledger EXCEPT !.authorization = TRUE]
    OBVIOUS
  <2>3. new \in Ledger /\ Extends(ledger, new) /\ new.authorization
    BY <1>1, <2>2 DEF Ledger, Extends
  <2>4. ledger' = new /\ GoOn(w, p)
    BY <1>3, <2>2 DEF Authorize, Insert
  <2>5. Chain'
    BY <1>1, <1>3, <2>2, <2>4 DEF IInv, Chain, Changed, Authorize, Insert, Ledger
  <2>6. UNCHANGED <<driver, job, done, range, outside, probes, patches, concluded>>
    BY DEF Authorize, Insert
  <2>7. patches = 0
    BY <1>3 DEF IInv, Counted
  <2>8. \A v \in Worker : ~MayPatch(proc[v])
    BY <1>3 DEF IInv, Stands, Backed, MayPatch, now
  <2> QED
    BY <1>2, <2>1, <2>3, <2>4, <2>5, <2>6, <2>7, <2>8, RowStep
<1>4. CASE ~(ledger.finding # None /\ ~ledger.authorization)
  BY <1>2, <1>4, Refused DEF Authorize, Insert
<1> QED
  BY <1>3, <1>4

LEMMA PersistReceiptStep ==
  ASSUME IInv, NEW w \in Worker, PersistReceipt(w) PROVE IInv'
<1> DEFINE p == proc[w]
           seen == Changed(p.before, p.after) /\ ledger.authorization /\ ledger.receipt = None
<1>1. p \in Proc /\ Placed(p) /\ Stands(p, now) /\ ledger \in Ledger
  BY ProcFacts DEF IInv, TypeOK, TypeRest
<1>2. p.program # "idle" /\ "receipt" = Program[p.program][p.at]
  BY DEF PersistReceipt, Insert, Calls
<1>3. CASE seen
  <2>1. Is(p, 20, "REMEDIATE", 8)
    BY <1>1, <1>2, Places
  <2>2. PICK r : r = [before |-> p.before, after |-> p.after]
    OBVIOUS
  <2>3. p.before \in View /\ p.after \in View
    BY <1>1, <1>3 DEF Changed, Proc
  <2>4. r \in [before : View, after : View] /\ r # None
    BY <2>2, <2>3, RemediationAssumption
  <2>5. PICK new : new = [ledger EXCEPT !.receipt = r]
    OBVIOUS
  <2>6. new \in Ledger /\ Extends(ledger, new) /\ new.receipt # None
    BY <1>1, <1>3, <2>4, <2>5 DEF Ledger, Extends
  <2>7. ledger' = new /\ GoOn(w, p)
    BY <1>3, <2>2, <2>5 DEF PersistReceipt, Insert
  <2>8. Chain'
    <3>1. /\ ledger'.finding = ledger.finding /\ ledger'.authorization = ledger.authorization
          /\ ledger'.receipt = r /\ ledger'.consumed = ledger.consumed
          /\ ledger'.binding = ledger.binding /\ done' = done
      BY <1>1, <2>5, <2>7 DEF Ledger, PersistReceipt, Insert
    <3>2. Changed(r.before, r.after)
      BY <1>3, <2>2
    <3> QED
      BY <1>3, <2>4, <3>1, <3>2 DEF IInv, Chain
  <2>9. UNCHANGED <<driver, job, done, range, outside, probes, patches, concluded>>
    BY DEF PersistReceipt, Insert
  <2> QED
    BY <1>2, <2>1, <2>6, <2>7, <2>8, <2>9, RowStep
<1>4. CASE ~seen
  BY <1>2, <1>4, Refused DEF PersistReceipt, Insert
<1> QED
  BY <1>3, <1>4

LEMMA ConsumeWriteStep ==
  ASSUME IInv, NEW w \in Worker, ConsumeWrite(w) PROVE IInv'
<1> DEFINE p == proc[w]
<1>1. p \in Proc /\ Placed(p) /\ Stands(p, now) /\ ledger \in Ledger /\ now.ledger = ledger
  BY ProcFacts DEF IInv, TypeOK, TypeRest, now
<1>2. p.program # "idle" /\ "consume" = Program[p.program][p.at] /\ p.seen # None
  BY DEF ConsumeWrite, Calls
<1>3. Is(p, 25, "RETEST", 1)
  BY <1>1, <1>2, Places
<1>4. ledger.receipt # None
  BY <1>1, <1>2, <1>3 DEF Stands, Backed, AtConsume
<1>5. PICK new : new = [ledger EXCEPT !.consumed = TRUE]
  OBVIOUS
<1>6. new \in Ledger /\ Extends(ledger, new) /\ new.consumed
  BY <1>1, <1>5 DEF Ledger, Extends
<1>7. ledger' = new /\ GoOn(w, p)
  BY <1>5 DEF ConsumeWrite
<1>8. Chain'
  BY <1>1, <1>4, <1>5, <1>7 DEF IInv, Chain, Changed, ConsumeWrite, Ledger
<1>9. UNCHANGED <<driver, job, done, range, outside, probes, patches, concluded>>
  BY DEF ConsumeWrite
<1> QED
  BY <1>2, <1>3, <1>6, <1>7, <1>8, <1>9, RowStep

LEMMA BindStep ==
  ASSUME IInv, NEW w \in Worker, Bind(w) PROVE IInv'
<1> DEFINE p == proc[w]
<1>1. p \in Proc /\ Placed(p) /\ Stands(p, now) /\ ledger \in Ledger /\ now.ledger = ledger
  BY ProcFacts DEF IInv, TypeOK, TypeRest, now
<1>2. p.program # "idle" /\ "bind" = Program[p.program][p.at]
  BY DEF Bind, Insert, Calls
<1>3. CASE ~ledger.binding
  <2>1. Is(p, 26, "RETEST", 2)
    BY <1>1, <1>2, Places
  <2>2. ledger.consumed
    BY <1>1, <2>1 DEF Stands, Backed, PastConsume, Past, Is
  <2>3. PICK new : new = [ledger EXCEPT !.binding = TRUE]
    OBVIOUS
  <2>4. new \in Ledger /\ Extends(ledger, new) /\ new.binding
    BY <1>1, <2>3 DEF Ledger, Extends
  <2>5. ledger' = new /\ GoOn(w, p)
    BY <1>3, <2>3 DEF Bind, Insert
  <2>6. Chain'
    BY <1>1, <2>2, <2>3, <2>5 DEF IInv, Chain, Changed, Bind, Insert, Ledger
  <2>7. UNCHANGED <<driver, job, done, range, outside, probes, patches, concluded>>
    BY DEF Bind, Insert
  <2>8. probes["retest"] = <<>> /\ concluded = {}
    BY <1>3 DEF IInv, Counted
  <2>9. \A v \in Worker : ~MayConclude(proc[v])
    BY <1>3 DEF IInv, Stands, Backed, MayConclude, now
  <2> QED
    BY <1>2, <2>1, <2>4, <2>5, <2>6, <2>7, <2>8, <2>9, RowStep
<1>4. CASE ledger.binding
  BY <1>2, <1>4, Refused DEF Bind, Insert
<1> QED
  BY <1>3, <1>4

-----------------------------------------------------------------------------
(* Transitions.                                                              *)

(* Where the transition to a state is made. *)
LEMMA WritePlaces ==
  ASSUME IInv, NEW w \in Worker, NEW to \in States, Asks(w, to), NEW p, p = proc[w]
  PROVE  /\ p.program # "idle"
         /\ to # "INITIAL_EXECUTION_PENDING"
         /\ to = "INITIAL_CONFIRMED" => Is(p, 11, "VERIFY", 4)
         /\ to = "REMEDIATION_RECOMMENDED" => Is(p, 13, "REMEDIATE", 1)
         /\ to = "PATCH_AUTHORIZED" => Is(p, 15, "REMEDIATE", 3)
         /\ to = "PATCH_APPLIED" => Is(p, 21, "REMEDIATE", 9)
         /\ to = "RETEST_QUEUED" => Is(p, 22, "REMEDIATE", 10)
         /\ to = "RETEST_RUNNING" => Is(p, 27, "RETEST", 3)
         /\ to = "RETEST_PASS" => Is(p, 31, "RETEST", 6) /\ Conclusion(w) = "RETEST_PASS"
         /\ to = "RETEST_FAIL" => Is(p, 31, "RETEST", 6) \/ p.program = "failed"
         /\ to = "INCOMPLETE" => p.program \in {"rejected", "incomplete"}
<1>1. p \in Proc /\ Placed(p)
  BY ProcFacts
<1>2. p.program # "idle"
  BY DEF Asks, Calls
<1>3. CASE Calls(w, to)
  <2>1. to = Program[p.program][p.at]
    BY <1>3 DEF Calls
  <2> QED
    BY <1>1, <1>2, <2>1, Places
<1>4. CASE Calls(w, "conclude") /\ to = Conclusion(w)
  <2>1. "conclude" = Program[p.program][p.at]
    BY <1>4 DEF Calls
  <2>2. Is(p, 31, "RETEST", 6)
    BY <1>1, <1>2, <2>1, Places
  <2>3. to \in {"RETEST_PASS", "RETEST_FAIL"}
    BY <1>4 DEF Conclusion
  <2> QED
    BY <1>2, <1>4, <2>2, <2>3
<1> QED
  BY <1>3, <1>4 DEF Asks

(* A process that makes a transition is not beside a loop whose job is closed. *)
LEMMA WriterIsBefore ==
  ASSUME IInv, NEW w \in Worker, NEW p, p = proc[w],
         p.program \in {"rejected", "failed", "incomplete"} \cup Stage
            \/ (p.program = "live" /\ p.at # 32)
  PROVE  job["retest"] # "CLOSED"
<1>1. Tracked(p, now) /\ now.driver = driver /\ now.ledger = ledger
  BY ProcFacts DEF Stands, now
<1> HIDE DEF now
<1> QED
  BY <1>1 DEF IInv, StateBacked, Tracked

LEMMA WriteStep ==
  ASSUME IInv, NEW w \in Worker, NEW to \in States, Write(w, to) PROVE IInv'
<1> DEFINE p == proc[w]
<1>1. /\ p \in Proc /\ Placed(p) /\ Stands(p, now) /\ ledger \in Ledger /\ now.ledger = ledger
      /\ now.driver = driver /\ now.probes = probes /\ now.concluded = concluded
      /\ now.patches = patches /\ now.job = job
  BY ProcFacts DEF IInv, TypeOK, TypeRest, now
<1>2. /\ p.program # "idle"
      /\ to # "INITIAL_EXECUTION_PENDING"
      /\ to = "INITIAL_CONFIRMED" => Is(p, 11, "VERIFY", 4)
      /\ to = "REMEDIATION_RECOMMENDED" => Is(p, 13, "REMEDIATE", 1)
      /\ to = "PATCH_AUTHORIZED" => Is(p, 15, "REMEDIATE", 3)
      /\ to = "PATCH_APPLIED" => Is(p, 21, "REMEDIATE", 9)
      /\ to = "RETEST_QUEUED" => Is(p, 22, "REMEDIATE", 10)
      /\ to = "RETEST_RUNNING" => Is(p, 27, "RETEST", 3)
      /\ to = "RETEST_PASS" => Is(p, 31, "RETEST", 6) /\ Conclusion(w) = "RETEST_PASS"
      /\ to = "RETEST_FAIL" => Is(p, 31, "RETEST", 6) \/ p.program = "failed"
      /\ to = "INCOMPLETE" => p.program \in {"rejected", "incomplete"}
  BY WritePlaces DEF Write
<1>3. /\ ledger' = [ledger EXCEPT !.state = to] /\ GoOn(w, p)
      /\ concluded' = IF to \in Final THEN concluded \cup {to} ELSE concluded
      /\ UNCHANGED <<driver, job, done, range, outside, probes, patches>>
  BY DEF Write
<1>4. /\ ledger' \in Ledger /\ ledger'.state = to /\ ledger'.finding = ledger.finding
      /\ ledger'.authorization = ledger.authorization /\ ledger'.receipt = ledger.receipt
      /\ ledger'.consumed = ledger.consumed /\ ledger'.binding = ledger.binding
  BY <1>1, <1>3 DEF Ledger
<1>5. TypeRest'
  BY <1>3, <1>4 DEF IInv, TypeOK, TypeRest, outside
<1>6. Chain'
  BY <1>3, <1>4 DEF IInv, Chain
<1>7. to \in Final => MayConclude(p) /\ ledger.binding /\ concluded = {}
  <2>1. to \in Final => MayConclude(p) /\ (PastBind(p) \/ p.program = "failed")
    BY <1>2 DEF Final, MayConclude, PastBind, PastConclude, Past, Is
  <2> HIDE DEF now
  <2> QED
    BY <1>1, <2>1 DEF Stands, Backed
<1>8. Counted'
  BY <1>3, <1>4, <1>7 DEF IInv, Counted, EffectOnce, OneVerdict
<1>9. StateBacked'
  <2>1. to \in {Happy[i] : i \in 2 .. 7} => ledger.finding # None
    <3>1. to \in {"INITIAL_CONFIRMED", "REMEDIATION_RECOMMENDED", "PATCH_AUTHORIZED",
                  "PATCH_APPLIED", "RETEST_QUEUED", "RETEST_RUNNING"} => PastFinding(p) \/ p.program = "REMEDIATE" \/ PastBind(p)
      BY <1>2 DEF PastFinding, PastBind, Past, Is
    <3>2. PastBind(p) => ledger.binding
      BY <1>1 DEF Stands, Backed
    <3>3. PastFinding(p) \/ p.program = "REMEDIATE" => ledger.finding # None
      BY <1>1 DEF Stands, Backed
    <3>4. ledger.binding => ledger.finding # None
      BY DEF IInv, Chain
    <3>5. \A i \in 2 .. 7 : i = 2 \/ i = 3 \/ i = 4 \/ i = 5 \/ i = 6 \/ i = 7
      OBVIOUS
    <3> QED
      BY <3>1, <3>2, <3>3, <3>4, <3>5, StatesFacts
  <2>2. to \in {Happy[i] : i \in 4 .. 7} => ledger.authorization
    <3>1. to \in {"PATCH_AUTHORIZED", "PATCH_APPLIED", "RETEST_QUEUED", "RETEST_RUNNING"} =>
             PastAuthorize(p) \/ PastBind(p)
      BY <1>2 DEF PastAuthorize, PastBind, Past, Is
    <3>2. (PastBind(p) => ledger.binding) /\ (PastAuthorize(p) => ledger.authorization)
      BY <1>1 DEF Stands, Backed
    <3>3. ledger.binding => ledger.authorization
      BY DEF IInv, Chain
    <3>4. \A i \in 4 .. 7 : i = 4 \/ i = 5 \/ i = 6 \/ i = 7
      OBVIOUS
    <3> QED
      BY <3>1, <3>2, <3>3, <3>4, StatesFacts
  <2>3. to \in {Happy[i] : i \in 5 .. 7} => ledger.receipt # None
    <3>1. to \in {"PATCH_APPLIED", "RETEST_QUEUED", "RETEST_RUNNING"} =>
             PastReceipt(p) \/ PastBind(p)
      BY <1>2 DEF PastReceipt, PastBind, Past, Is
    <3>2. (PastBind(p) => ledger.binding) /\ (PastReceipt(p) => ledger.receipt # None)
      BY <1>1 DEF Stands, Backed
    <3>3. ledger.binding => ledger.receipt # None
      BY DEF IInv, Chain
    <3>4. \A i \in 5 .. 7 : i = 5 \/ i = 6 \/ i = 7
      OBVIOUS
    <3> QED
      BY <3>1, <3>2, <3>3, <3>4, StatesFacts
  <2>4. to \in {"RETEST_RUNNING"} \cup Final => ledger.binding
    <3>1. to = "RETEST_RUNNING" => PastBind(p)
      BY <1>2 DEF PastBind, Past, Is
    <3> QED
      BY <1>1, <1>7, <3>1 DEF Stands, Backed
  <2>5. job["retest"] # "CLOSED"
    <3>1. \/ p.program \in {"rejected", "failed", "incomplete"} \cup Stage
          \/ p.program = "live" /\ p.at # 32
      BY <1>2, StatesFacts DEF Is, Stage
    <3> QED
      BY <3>1, WriterIsBefore
  <2>6. PassIsEarned'
    <3>1. SUFFICES ASSUME to = "RETEST_PASS" PROVE PassIsEarned'
      BY <1>4 DEF PassIsEarned
    <3>2. Is(p, 31, "RETEST", 6) /\ p.verdict = "PASS" /\ CausalBreak(w)
      BY <1>2, <3>1 DEF Conclusion
    <3>3. PastAgain(p) /\ PastJudged(p) /\ ~PastConclude(p) /\ PastBind(p)
      BY <3>2 DEF PastAgain, PastJudged, PastConclude, PastBind, Past, Is
    <3>4. probes["retest"] = <<p.again>> /\ p.again.late /\ p.again.alternate = "denied"
      BY <1>1, <3>2, <3>3 DEF Stands, Witnessed
    <3>5. ledger.receipt # None /\ ~ledger.finding.late
      BY <3>2 DEF CausalBreak
    <3>6. /\ ledger.finding.alternate = "reached"
          /\ Changed(ledger.receipt.before, ledger.receipt.after)
      BY <3>5 DEF IInv, Chain
    <3>7. probes' = probes
      BY <1>3
    <3>8. Len(probes["retest"]) = 1 /\ probes["retest"][1] = p.again
      BY <3>4
    <3> QED
      BY <1>4, <3>4, <3>5, <3>6, <3>7, <3>8 DEF PassIsEarned, Changed
  <2>7. driver' = driver /\ job' = job
    BY <1>3
  <2> QED
    BY <1>4, <2>1, <2>2, <2>3, <2>4, <2>5, <2>6, <2>7 DEF StateBacked
<1>10. Grows(now, now') /\ now'.probes = probes /\ now'.patches = patches
       /\ now'.ledger.state = to /\ now'.concluded = concluded'
  BY <1>3, <1>4 DEF Grows, now
<1> HIDE DEF p, now
<1>11. Passes(p, p, now, now')
  <2>1. to \notin Final => concluded' = concluded
    BY <1>3
  <2>2. /\ p.program = "live" /\ p.at < 27 => to # "RETEST_RUNNING"
        /\ p.program = "live" /\ p.at < 32 => (p.at = 31 <=> to \in Final)
        /\ p.program = "rejected" => to \notin Final
    BY <1>2, StatesFacts DEF Is, Final
  <2>3. /\ ~Is(p, 5, "EXECUTE", 2) /\ ~Is(p, 10, "VERIFY", 3) /\ ~Is(p, 14, "REMEDIATE", 2)
        /\ ~Is(p, 20, "REMEDIATE", 8) /\ ~Is(p, 25, "RETEST", 1) /\ ~Is(p, 26, "RETEST", 2)
        /\ ~Is(p, 8, "VERIFY", 1) /\ ~Is(p, 29, "RETEST", 4) /\ ~Is(p, 30, "RETEST", 5)
        /\ (to \in Final => Is(p, 31, "RETEST", 6) \/ p.program = "failed")
    BY <1>2, StatesFacts DEF Is, Final
  <2> QED
    BY <1>1, <1>10, <2>1, <2>2, <2>3 DEF Passes
<1>12. ~Is(p, 5, "EXECUTE", 2) /\ ~Is(p, 14, "REMEDIATE", 2) /\ ~Is(p, 26, "RETEST", 2)
  BY <1>2, StatesFacts DEF Is
<1>13. driver' = driver
  BY <1>3
<1> QED
  BY <1>1, <1>2, <1>3, <1>5, <1>6, <1>8, <1>9, <1>10, <1>11, <1>12, <1>13, Advance DEF p

LEMMA OpenStep ==
  ASSUME IInv, NEW w \in Worker, Open(w) PROVE IInv'
<1> DEFINE p == proc[w]
<1>1. /\ p \in Proc /\ Placed(p) /\ Stands(p, now) /\ ledger \in Ledger /\ now.ledger = ledger
      /\ now.driver = driver /\ now.probes = probes /\ now.concluded = concluded
      /\ now.patches = patches /\ now.job = job
  BY ProcFacts DEF IInv, TypeOK, TypeRest, now
<1>2. p.program # "idle" /\ "open" = Program[p.program][p.at]
  BY DEF Open, Insert, Calls
<1>3. CASE ledger.state = None
  <2>1. Is(p, 3, "VERIFY", 2)
    BY <1>1, <1>2, Places
  <2>2. /\ ledger' = [ledger EXCEPT !.state = Happy[1]] /\ GoOn(w, p)
        /\ UNCHANGED <<driver, job, done, range, outside, probes, patches, concluded>>
    BY <1>3 DEF Open, Insert
  <2>3. Happy[1] \in States
    BY StatesFacts
  <2>4. /\ ledger' \in Ledger /\ ledger'.state = Happy[1] /\ ledger'.finding = ledger.finding
        /\ ledger'.authorization = ledger.authorization /\ ledger'.receipt = ledger.receipt
        /\ ledger'.consumed = ledger.consumed /\ ledger'.binding = ledger.binding
    BY <1>1, <2>2, <2>3 DEF Ledger
  <2>5. TypeRest'
    BY <2>2, <2>4 DEF IInv, TypeOK, TypeRest, outside
  <2>6. Chain'
    BY <2>2, <2>4 DEF IInv, Chain
  <2>7. Counted'
    BY <2>2, <2>4 DEF IInv, Counted, EffectOnce, OneVerdict
  <2>8. Happy[1] \notin {Happy[i] : i \in 2 .. 7} /\ Happy[1] \notin Final
    <3>1. \A i \in 2 .. 7 : i = 2 \/ i = 3 \/ i = 4 \/ i = 5 \/ i = 6 \/ i = 7
      OBVIOUS
    <3> QED
      BY <3>1, StatesFacts DEF Final
  <2>9. StateBacked'
    <3>1. job["retest"] # "CLOSED"
      BY <1>3, RemediationAssumption DEF IInv, StateBacked, States
    <3>2. PassIsEarned'
      BY <2>4, <2>8 DEF PassIsEarned, Final
    <3>3. \A i : i \in 4 .. 7 \/ i \in 5 .. 7 => i \in 2 .. 7
      OBVIOUS
    <3>4. Happy[1] # "RETEST_RUNNING"
      BY StatesFacts
    <3> QED
      BY <2>2, <2>4, <2>8, <3>1, <3>2, <3>3, <3>4 DEF StateBacked
  <2>10. /\ Grows(now, now') /\ now'.probes = probes /\ now'.patches = patches
         /\ now'.ledger.state = Happy[1] /\ now'.concluded = concluded /\ driver' = driver
    BY <2>2, <2>4 DEF Grows, now
  <2> HIDE DEF p, now
  <2>11. Passes(p, p, now, now')
    BY <1>1, <2>1, <2>8, <2>10, StatesFacts DEF Passes, Is
  <2>12. ~Is(p, 5, "EXECUTE", 2) /\ ~Is(p, 14, "REMEDIATE", 2) /\ ~Is(p, 26, "RETEST", 2)
    BY <2>1 DEF Is
  <2> QED
    BY <1>1, <1>2, <2>2, <2>5, <2>6, <2>7, <2>9, <2>10, <2>11, <2>12, Advance DEF p
<1>4. CASE ledger.state # None
  BY <1>2, <1>4, Refused DEF Open, Insert
<1> QED
  BY <1>3, <1>4

-----------------------------------------------------------------------------
(* The queue.                                                                *)

LEMMA QueueStepKeeps ==
  ASSUME IInv, NEW w \in Worker, NEW j \in Job, NEW verb, NEW from, NEW to, Queue(w, j, verb, from, to),
         \/ j = "recon" /\ verb = "enqueue_recon" /\ from = None /\ to = "QUEUED"
         \/ j = "recon" /\ verb = "claim_recon" /\ from = "QUEUED" /\ to = "CLAIMED"
         \/ j = "recon" /\ verb = "close_recon" /\ from = "CLAIMED" /\ to = "CLOSED"
         \/ j = "retest" /\ verb = "enqueue_retest" /\ from = None /\ to = "QUEUED"
         \/ j = "retest" /\ verb = "claim_retest" /\ from = "QUEUED" /\ to = "CLAIMED"
         \/ j = "retest" /\ verb = "close_retest" /\ from = "CLAIMED" /\ to = "CLOSED"
  PROVE  IInv'
<1> DEFINE p == proc[w]
<1>1. /\ p \in Proc /\ Placed(p) /\ Stands(p, now) /\ now.job = job /\ now.ledger = ledger
      /\ now.driver = driver /\ now.probes = probes /\ now.patches = patches
      /\ now.concluded = concluded
  BY ProcFacts DEF now
<1>2. p.program # "idle" /\ verb = Program[p.program][p.at]
  BY DEF Queue, Calls
<1>3. /\ verb = "enqueue_recon" => Is(p, 4, "EXECUTE", 1)
      /\ verb = "claim_recon" => Is(p, 5, "EXECUTE", 2)
      /\ verb = "close_recon" => Is(p, 9, "rejected", 1)
      /\ verb \in {"enqueue_retest", "claim_retest"} => p.program = "live" /\ p.at \in {23, 24}
      /\ verb = "close_retest" => p.program = "live" /\ p.at = 32
  BY <1>1, <1>2, Places
<1>4. CASE job[j] = from
  <2>1. /\ job' = [job EXCEPT ![j] = to] /\ GoOn(w, p)
        /\ UNCHANGED <<driver, ledger, done, range, outside, probes, patches, concluded>>
    BY <1>4 DEF Queue
  <2>2. /\ job'[j] = to /\ (j = "recon" => job'["retest"] = job["retest"])
        /\ (j = "retest" => job'["recon"] = job["recon"])
    BY <2>1 DEF IInv, TypeOK, TypeRest, Job
  <2>3. TypeRest'
    BY <2>1 DEF IInv, TypeOK, TypeRest, outside
  <2>4. Chain'
    BY <2>1 DEF IInv, Chain
  <2>5. Counted'
    <3>1. job'["recon"] \in {None, "QUEUED"} => job["recon"] \in {None, "QUEUED"}
      BY <1>4, <2>2, RemediationAssumption
    <3> QED
      BY <2>1, <3>1 DEF IInv, Counted, EffectOnce, OneVerdict
  <2>6. StateBacked'
    <3>1. job'["retest"] = "CLOSED" => driver = "live" /\ ledger.state \in Final
      <4>1. CASE verb = "close_retest"
        BY <1>1, <1>3, <4>1 DEF Stands, Tracked, Stage
      <4>2. CASE verb # "close_retest"
        BY <2>2, <4>2 DEF IInv, StateBacked
      <4> QED
        BY <4>1, <4>2
    <3>2. PassIsEarned'
      BY <2>1 DEF IInv, StateBacked, PassIsEarned, Changed
    <3> QED
      BY <2>1, <3>1, <3>2 DEF IInv, StateBacked
  <2>7. Grows(now, now')
    BY <1>4, <2>1, <2>2, RemediationAssumption DEF Grows, now
  <2>8. /\ now'.probes = probes /\ now'.patches = patches /\ now'.concluded = concluded
        /\ now'.ledger = ledger /\ now'.job = job' /\ driver' = driver
    BY <2>1 DEF now
  <2>9. verb = "claim_recon" =>
          /\ job'["recon"] \notin {None, "QUEUED"} /\ probes["recon"] = <<>>
          /\ \A v \in Worker : ~MayProbe(proc[v])
    <3>1. verb = "claim_recon" => job["recon"] = "QUEUED" /\ job'["recon"] = "CLAIMED"
      BY <1>4, <2>2
    <3>2. ASSUME NEW v \in Worker, MayProbe(proc[v]) PROVE job["recon"] # "QUEUED"
      BY <3>2 DEF IInv, Stands, Backed, now
    <3> QED
      BY <3>1, <3>2, RemediationAssumption DEF IInv, Counted
  <2>10. /\ Is(p, 5, "EXECUTE", 2) => verb = "claim_recon"
         /\ ~Is(p, 8, "VERIFY", 1) /\ ~Is(p, 10, "VERIFY", 3) /\ ~Is(p, 14, "REMEDIATE", 2)
         /\ ~Is(p, 20, "REMEDIATE", 8) /\ ~Is(p, 25, "RETEST", 1) /\ ~Is(p, 26, "RETEST", 2)
         /\ ~Is(p, 29, "RETEST", 4) /\ ~Is(p, 30, "RETEST", 5) /\ ~Is(p, 31, "RETEST", 6)
    BY <1>3 DEF Is
  <2> HIDE DEF p, now
  <2>11. /\ p.program = "live" /\ p.at < 27 => ledger.state # "RETEST_RUNNING"
         /\ p.program = "live" /\ p.at < 32 => (p.at = 31 <=> ledger.state \in Final)
         /\ p.program = "rejected" => ledger.state \notin Final
    BY <1>1, <2>10, StateAhead
  <2>12. Passes(p, p, now, now')
    BY <1>1, <2>8, <2>9, <2>10, <2>11 DEF Passes
  <2> QED
    BY <1>1, <1>2, <2>1, <2>3, <2>4, <2>5, <2>6, <2>7, <2>8, <2>9, <2>10, <2>12, Advance DEF p
<1>5. CASE job[j] # from
  <2>1. Aside /\ Raise(w)
    BY <1>5, NotTouched DEF Queue, Shared
  <2> QED
    BY <1>2, <2>1, RaiseStep
<1> QED
  BY <1>4, <1>5

LEMMA QueuesKeep ==
  ASSUME IInv, NEW w \in Worker, QueueStep(w) PROVE IInv'
<1>1. "recon" \in Job /\ "retest" \in Job
  BY DEF Job
<1>2. CASE Queue(w, "recon", "enqueue_recon", None, "QUEUED")
  BY <1>1, <1>2, QueueStepKeeps
<1>3. CASE Queue(w, "recon", "claim_recon", "QUEUED", "CLAIMED")
  BY <1>1, <1>3, QueueStepKeeps
<1>4. CASE Queue(w, "recon", "close_recon", "CLAIMED", "CLOSED")
  BY <1>1, <1>4, QueueStepKeeps
<1>5. CASE Queue(w, "retest", "enqueue_retest", None, "QUEUED")
  BY <1>1, <1>5, QueueStepKeeps
<1>6. CASE Queue(w, "retest", "claim_retest", "QUEUED", "CLAIMED")
  BY <1>1, <1>6, QueueStepKeeps
<1>7. CASE Queue(w, "retest", "close_retest", "CLAIMED", "CLOSED")
  BY <1>1, <1>7, QueueStepKeeps
<1> QED
  BY <1>2, <1>3, <1>4, <1>5, <1>6, <1>7 DEF QueueStep

-----------------------------------------------------------------------------
(* The effects.                                                              *)

LEMMA PatchStep ==
  ASSUME IInv, NEW w \in Worker, Patch(w) PROVE IInv'
<1> DEFINE p == proc[w]
<1>1. /\ p \in Proc /\ Placed(p) /\ Stands(p, now) /\ now.job = job /\ now.ledger = ledger
      /\ now.driver = driver /\ now.probes = probes /\ now.patches = patches
      /\ now.concluded = concluded
  BY ProcFacts DEF now
<1>2. p.program # "idle" /\ "patch" = Program[p.program][p.at]
  BY DEF Patch, Calls
<1>3. Is(p, 17, "REMEDIATE", 5)
  BY <1>1, <1>2, Places
<1>4. MayPatch(p) /\ PastAuthorize(p)
  BY <1>3 DEF MayPatch, PastAuthorize, PastPatch, Past, Is
<1>5. CASE /\ range' = [range EXCEPT ![w] = Selected(w, "patched")] /\ patches' = patches + 1
           /\ GoOn(w, p) \/ NoResult(w)
  <2>1. patches = 0 /\ ledger.authorization
    BY <1>1, <1>4 DEF Stands, Backed
  <2>2. patches' = 1 /\ UNCHANGED <<driver, ledger, job, done, outside, probes, concluded>>
    BY <1>5, <2>1 DEF Patch
  <2>3. range' \in [Worker -> View]
    <3>1. Selected(w, "patched") \in View
      BY RangeValues DEF Mode
    <3> QED
      BY <1>5, <3>1, RangeTyped
  <2>4. TypeRest'
    BY <2>2, <2>3 DEF IInv, TypeOK, TypeRest, outside
  <2>5. Chain'
    BY <2>2 DEF IInv, Chain
  <2>6. Counted'
    BY <2>1, <2>2 DEF IInv, Counted, EffectOnce, OneVerdict
  <2>7. StateBacked'
    <3>1. PassIsEarned'
      BY <2>2 DEF IInv, StateBacked, PassIsEarned, Changed
    <3> QED
      BY <2>2, <3>1 DEF IInv, StateBacked
  <2>8. /\ Grows(now, now') /\ now'.probes = probes /\ now'.concluded = concluded
        /\ now'.ledger = ledger /\ driver' = driver
    BY <2>2 DEF Grows, now
  <2>9. /\ ~Is(p, 5, "EXECUTE", 2) /\ ~Is(p, 8, "VERIFY", 1) /\ ~Is(p, 10, "VERIFY", 3)
        /\ ~Is(p, 14, "REMEDIATE", 2) /\ ~Is(p, 20, "REMEDIATE", 8) /\ ~Is(p, 25, "RETEST", 1)
        /\ ~Is(p, 26, "RETEST", 2) /\ ~Is(p, 29, "RETEST", 4) /\ ~Is(p, 30, "RETEST", 5)
        /\ ~Is(p, 31, "RETEST", 6)
    BY <1>3 DEF Is
  <2>10. CASE GoOn(w, p)
    <3> HIDE DEF p, now
    <3>1. Passes(p, p, now, now')
      BY <1>1, <1>3, <2>8, <2>9, StateAhead DEF Passes
    <3> QED
      BY <1>1, <1>2, <2>4, <2>5, <2>6, <2>7, <2>8, <2>9, <2>10, <3>1, Advance DEF p
  <2>11. CASE NoResult(w)
    <3>1. p.program = "REMEDIATE" \/ (p.program = "live" /\ p.at \in 16 .. 19)
      BY <1>3 DEF Is
    <3>2. PICK h : h = now'
      OBVIOUS
    <3>3. Grows(now, h) /\ h.ledger.state = ledger.state
      BY <2>8, <3>2
    <3>4. PICK q \in Proc :
            /\ Placed(q) /\ proc' = [proc EXCEPT ![w] = q] /\ Stands(q, h)
            /\ ~MayProbe(q) /\ ~MayPatch(q) /\ ~MayConclude(q)
      BY <2>11, <3>1, <3>3, NoResultMoves
    <3>5. \A v \in Worker \ {w} : Alone(p, proc[v], driver)
      BY DEF IInv
    <3>6. \A v \in Worker \ {w} : Alone(q, proc[v], driver)
      <4>1. q.program # "idle" => p.program # "idle"
        BY <1>2
      <4> QED
        BY <3>4, <3>5, <4>1 DEF Alone
    <3>7. \A v \in Worker \ {w} : ~MayPatch(proc[v])
      BY <1>4, <3>5 DEF Alone
    <3> HIDE DEF p, now
    <3>8. \A v \in Worker \ {w} : Later(now, now', proc[v])
      BY <1>1, <2>8, <3>7 DEF Later
    <3> QED
      BY <2>4, <2>5, <2>6, <2>7, <2>8, <3>2, <3>4, <3>6, <3>8, Moves
  <2> QED
    BY <1>5, <2>10, <2>11
<1>6. CASE NoResult(w) /\ UNCHANGED <<range, patches>>
  <2>1. Aside
    BY <1>6, NotTouched DEF Patch, Shared
  <2> QED
    BY <1>3, <1>6, <2>1, NoResultStep DEF Is
<1> QED
  BY <1>5, <1>6 DEF Patch

LEMMA EvidenceTyped ==
  ASSUME IInv, NEW w \in Worker, NEW e \in Evidence(w)
  PROVE  e \in Seen /\ e.late = (ledger.receipt # None)
<1>1. range[w] \in View
  BY RangeValues
<1>2. range[w].sentinel \in Seq(Nat) /\ <<>> \in Seq(Nat) /\ (ledger.receipt # None) \in BOOLEAN
  BY <1>1 DEF View
<1>3. CASE e = [alternate |-> "lost", sentinel |-> <<>>, late |-> ledger.receipt # None]
  BY <1>2, <1>3 DEF Seen
<1>4. CASE e = [alternate |-> IF range[w].mode = "patched" THEN "denied" ELSE "reached",
                sentinel |-> range[w].sentinel, late |-> ledger.receipt # None]
  BY <1>2, <1>4 DEF Seen
<1> QED
  BY <1>3, <1>4 DEF Evidence

LEMMA ProbeReconStep ==
  ASSUME IInv, NEW w \in Worker, Probe(w, "recon", "probe_recon") PROVE IInv'
<1> DEFINE p == proc[w]
<1>1. /\ p \in Proc /\ Placed(p) /\ Stands(p, now) /\ now.job = job /\ now.ledger = ledger
      /\ now.driver = driver /\ now.probes = probes /\ now.patches = patches
      /\ now.concluded = concluded
  BY ProcFacts DEF now
<1>2. p.program # "idle" /\ "probe_recon" = Program[p.program][p.at]
  BY DEF Probe, Calls
<1>3. Is(p, 7, "EXECUTE", 3)
  BY <1>1, <1>2, Places
<1>4. MayProbe(p)
  BY <1>3 DEF MayProbe, PastClaim, PastProbe, Past, Is
<1>5. PICK e \in Evidence(w) :
        /\ probes' = [probes EXCEPT !["recon"] = Append(@, e)]
        /\ GoOn(w, [p EXCEPT !.first = e])
  BY DEF Probe
<1>6. UNCHANGED <<driver, ledger, job, done, range, outside, patches, concluded>>
  BY DEF Probe
<1>7. probes["recon"] = <<>> /\ job["recon"] \notin {None, "QUEUED"} /\ e \in Seen
      /\ probes \in [Job -> Seq(Seen)]
  BY <1>1, <1>4, EvidenceTyped DEF Stands, Backed, IInv, TypeOK, TypeRest
<1>8. probes'["recon"] = <<e>> /\ probes'["retest"] = probes["retest"] /\ probes' \in [Job -> Seq(Seen)]
  <2>1. Append(probes["recon"], e) = <<e>> /\ <<e>> \in Seq(Seen)
    BY <1>7
  <2> QED
    BY <1>5, <1>7, <2>1 DEF Job
<1>9. TypeRest'
  BY <1>6, <1>8 DEF IInv, TypeOK, TypeRest, outside
<1>10. Chain'
  BY <1>6 DEF IInv, Chain
<1>11. Counted'
  <2>1. Len(probes'["recon"]) <= 1
    BY <1>8
  <2> QED
    BY <1>6, <1>7, <1>8, <2>1 DEF IInv, Counted, EffectOnce, OneVerdict
<1>12. StateBacked'
  <2>1. PassIsEarned'
    BY <1>6, <1>8 DEF IInv, StateBacked, PassIsEarned, Changed
  <2> QED
    BY <1>6, <2>1 DEF IInv, StateBacked
<1>13. /\ Grows(now, now') /\ now'.probes["retest"] = probes["retest"] /\ now'.patches = patches
       /\ now'.concluded = concluded /\ now'.ledger = ledger /\ driver' = driver
  BY <1>6, <1>8 DEF Grows, now
<1>14. PICK r : r = [p EXCEPT !.first = e]
  OBVIOUS
<1>15. /\ r \in Proc /\ r.program = p.program /\ r.at = p.at /\ r.first = e
       /\ r.again = p.again /\ r.verdict = p.verdict
  BY <1>1, <1>7, <1>14 DEF Proc
<1>16. /\ ~Is(p, 5, "EXECUTE", 2) /\ ~Is(p, 8, "VERIFY", 1) /\ ~Is(p, 10, "VERIFY", 3)
       /\ ~Is(p, 14, "REMEDIATE", 2) /\ ~Is(p, 20, "REMEDIATE", 8) /\ ~Is(p, 25, "RETEST", 1)
       /\ ~Is(p, 26, "RETEST", 2) /\ ~Is(p, 29, "RETEST", 4) /\ ~Is(p, 30, "RETEST", 5)
       /\ ~Is(p, 31, "RETEST", 6)
  BY <1>3 DEF Is
<1> HIDE DEF p, now
<1>17. Passes(p, r, now, now')
  BY <1>1, <1>3, <1>13, <1>15, <1>16, StateAhead DEF Passes
<1> QED
  BY <1>1, <1>2, <1>5, <1>9, <1>10, <1>11, <1>12, <1>13, <1>14, <1>15, <1>16, <1>17, Advance DEF p

LEMMA ProbeRetestStep ==
  ASSUME IInv, NEW w \in Worker, Probe(w, "retest", "probe_retest") PROVE IInv'
<1> DEFINE p == proc[w]
<1>1. /\ p \in Proc /\ Placed(p) /\ Stands(p, now) /\ now.job = job /\ now.ledger = ledger
      /\ now.driver = driver /\ now.probes = probes /\ now.patches = patches
      /\ now.concluded = concluded
  BY ProcFacts DEF now
<1>2. p.program # "idle" /\ "probe_retest" = Program[p.program][p.at]
  BY DEF Probe, Calls
<1>3. Is(p, 29, "RETEST", 4)
  BY <1>1, <1>2, Places
<1>4. MayProbeAgain(p) /\ PastBind(p)
  BY <1>3 DEF MayProbeAgain, PastBind, PastAgain, Past, Is
<1>5. PICK e \in Evidence(w) :
        /\ probes' = [probes EXCEPT !["retest"] = Append(@, e)]
        /\ GoOn(w, [p EXCEPT !.again = e])
  BY DEF Probe
<1>6. UNCHANGED <<driver, ledger, job, done, range, outside, patches, concluded>>
  BY DEF Probe
<1>7. probes["retest"] = <<>> /\ ledger.binding /\ probes \in [Job -> Seq(Seen)]
  BY <1>1, <1>4 DEF Stands, Backed, IInv, TypeOK, TypeRest
<1>8. e \in Seen /\ e.late
  <2>1. ledger.receipt # None
    BY <1>7 DEF IInv, Chain
  <2> QED
    BY <2>1, EvidenceTyped
<1>9. probes'["retest"] = <<e>> /\ probes'["recon"] = probes["recon"] /\ probes' \in [Job -> Seq(Seen)]
  <2>1. Append(probes["retest"], e) = <<e>> /\ <<e>> \in Seq(Seen)
    BY <1>7, <1>8
  <2> QED
    BY <1>5, <1>7, <2>1 DEF Job
<1>10. TypeRest'
  BY <1>6, <1>9 DEF IInv, TypeOK, TypeRest, outside
<1>11. Chain'
  BY <1>6 DEF IInv, Chain
<1>12. Counted'
  <2>1. Len(probes'["retest"]) <= 1
    BY <1>9
  <2> QED
    BY <1>6, <1>7, <1>9, <2>1 DEF IInv, Counted, EffectOnce, OneVerdict
<1>13. StateBacked'
  <2>1. ledger.state # "RETEST_PASS"
    <3>1. Len(probes["retest"]) = 0
      BY <1>7
    <3> QED
      BY <3>1 DEF IInv, StateBacked, PassIsEarned
  <2>2. PassIsEarned'
    BY <1>6, <2>1 DEF PassIsEarned
  <2> QED
    BY <1>6, <2>2 DEF IInv, StateBacked
<1>14. /\ Grows(now, now') /\ now'.probes["recon"] = probes["recon"] /\ now'.patches = patches
       /\ now'.probes["retest"] = <<e>>
       /\ now'.concluded = concluded /\ now'.ledger = ledger /\ driver' = driver
  BY <1>6, <1>9 DEF Grows, now
<1>15. PICK r : r = [p EXCEPT !.again = e]
  OBVIOUS
<1>16. /\ r \in Proc /\ r.program = p.program /\ r.at = p.at /\ r.first = p.first
       /\ r.again = e /\ r.verdict = p.verdict
  BY <1>1, <1>8, <1>15 DEF Proc
<1>17. /\ ~Is(p, 5, "EXECUTE", 2) /\ ~Is(p, 8, "VERIFY", 1) /\ ~Is(p, 10, "VERIFY", 3)
       /\ ~Is(p, 14, "REMEDIATE", 2) /\ ~Is(p, 20, "REMEDIATE", 8) /\ ~Is(p, 25, "RETEST", 1)
       /\ ~Is(p, 26, "RETEST", 2) /\ ~Is(p, 30, "RETEST", 5) /\ ~Is(p, 31, "RETEST", 6)
  BY <1>3 DEF Is
<1> HIDE DEF p, now
<1>18. Passes(p, r, now, now')
  BY <1>1, <1>3, <1>8, <1>14, <1>16, <1>17, StateAhead DEF Passes
<1> QED
  BY <1>1, <1>2, <1>5, <1>10, <1>11, <1>12, <1>13, <1>14, <1>15, <1>16, <1>17, <1>18, Advance DEF p

LEMMA RecordStep ==
  ASSUME IInv, NEW w \in Worker, Record(w) PROVE IInv'
<1> DEFINE p == proc[w]
<1>1. /\ p \in Proc /\ Placed(p) /\ Stands(p, now) /\ now.ledger = ledger /\ now.driver = driver
  BY ProcFacts DEF now
<1>2. p.program # "idle" /\ "record" = Program[p.program][p.at]
  BY DEF Record, Calls
<1>3. p.program \in Stage /\ p.at = Len(Program[p.program])
  BY <1>1, <1>2, Places
<1>4. /\ UNCHANGED <<driver, ledger, job, range, outside, probes, patches, concluded>>
      /\ done' = done \cup {p.program} /\ Raise(w)
  BY DEF Record
<1>5. TypeRest'
  BY <1>3, <1>4 DEF IInv, TypeOK, TypeRest, outside
<1>6. Chain'
  <2>1. p.program = "VERIFY" => ledger.finding # None
    <3>1. ASSUME p.program = "VERIFY" PROVE PastFinding(p)
      BY <1>3, <3>1, VerifyProgramWritten DEF PastFinding, Past
    <3> QED
      BY <1>1, <3>1 DEF Stands, Backed
  <2> QED
    BY <1>4, <2>1 DEF IInv, Chain
<1>7. Counted'
  BY <1>4 DEF IInv, Counted, EffectOnce, OneVerdict
<1>8. StateBacked'
  <2>1. PassIsEarned'
    BY <1>4 DEF IInv, StateBacked, PassIsEarned, Changed
  <2> QED
    BY <1>4, <2>1 DEF IInv, StateBacked
<1>9. now' = now /\ driver' = driver
  BY <1>4 DEF now
<1>10. PICK q : q = Over(p)
  OBVIOUS
<1>11. /\ q \in Proc /\ Placed(q)
       /\ q.program \in {"idle", "cleanup"} /\ (q.program = "cleanup" => driver = "live")
  BY <1>1, <1>10, OverMoves
<1>12. Stands(q, now) /\ ~MayProbe(q) /\ ~MayPatch(q) /\ ~MayConclude(q)
  BY <1>1, <1>11, GoneStands
<1>13. proc' = [proc EXCEPT ![w] = q]
  BY <1>4, <1>10 DEF Raise
<1>14. \A v \in Worker \ {w} : Later(now, now', proc[v]) /\ Alone(q, proc[v], driver)
  BY <1>2, <1>9, <1>12 DEF Later, Grows, Alone, IInv
<1> QED
  BY <1>5, <1>6, <1>7, <1>8, <1>9, <1>11, <1>12, <1>13, <1>14, Moves

-----------------------------------------------------------------------------
(* The theorems.                                                             *)

LEMMA InitIInv == Init => IInv
<1> SUFFICES ASSUME Init PROVE IInv
  OBVIOUS
<1>1. Idle \in Proc /\ Placed(Idle)
  <2>1. "idle" \in Names /\ 0 \in Nat
    BY DEF Names
  <2>2. None \in States \cup {"unused", None} /\ None \in Seen \cup {None} /\ None \in View \cup {None}
        /\ None \in {"CONFIRMED", "PASS", "INCOMPLETE", None}
    OBVIOUS
  <2> QED
    BY <2>1, <2>2 DEF Idle, Proc, Placed
<1>2. Fresh \in View /\ Created \in View
  <2>1. <<1>> \in Seq(Nat) /\ 1 \in Nat /\ 2 \in Nat
    OBVIOUS
  <2> QED
    BY <2>1 DEF Fresh, Created, View, Mode
<1>3. TypeOK
  <2>1. ledger \in Ledger
    <3>1. None \in States \cup {None} /\ None \in Seen \cup {None}
          /\ None \in [before : View, after : View] \cup {None}
      OBVIOUS
    <3> QED
      BY <3>1 DEF Init, Ledger
  <2>2. probes \in [Job -> Seq(Seen)] /\ job \in [Job -> {None, "QUEUED", "CLAIMED", "CLOSED"}]
    <3>1. <<>> \in Seq(Seen)
      OBVIOUS
    <3> QED
      BY <3>1 DEF Init
  <2>3. range \in [Worker -> View] /\ proc \in [Worker -> Proc] /\ \A w \in Worker : Placed(proc[w])
    BY <1>1, <1>2 DEF Init
  <2>4. concluded = {} /\ concluded \in SUBSET Final /\ done \in SUBSET Stage
    BY DEF Init
  <2> QED
    BY <2>1, <2>2, <2>3, <2>4 DEF Init, TypeOK, TypeRest, Driver
<1>4. Chain
  BY DEF Init, Chain
<1>5. probes["recon"] = <<>> /\ probes["retest"] = <<>>
  BY DEF Init, Job
<1>6. Counted
  <2>1. Len(probes["recon"]) <= 1 /\ Len(probes["retest"]) <= 1
    BY <1>5
  <2> QED
    BY <1>5, <2>1 DEF Init, Counted, EffectOnce, OneVerdict
<1>7. StateBacked
  <2>1. ledger.state = None /\ job["retest"] = None
    BY DEF Init, Job
  <2>2. {Happy[i] : i \in 2 .. 7} \subseteq States
    <3>1. \A i \in 2 .. 7 : i = 2 \/ i = 3 \/ i = 4 \/ i = 5 \/ i = 6 \/ i = 7
      OBVIOUS
    <3> QED
      BY <3>1, StatesFacts
  <2>3. \A i : i \in 4 .. 7 \/ i \in 5 .. 7 => i \in 2 .. 7
    OBVIOUS
  <2>4. None \notin States /\ None # "CLOSED"
    BY RemediationAssumption
  <2> QED
    BY <2>1, <2>2, <2>3, <2>4, StatesFacts DEF StateBacked, PassIsEarned, Final
<1>8. Idle.program = "idle" /\ \A w \in Worker : proc[w] = Idle
  BY DEF Init, Idle
<1>9. \A w \in Worker : Stands(proc[w], now)
  <2>1. Stands(Idle, now)
    BY <1>8, GoneStands
  <2> QED
    BY <1>8, <2>1
<1>10. \A v, w \in Worker : v # w => Alone(proc[v], proc[w], driver)
  <2>1. ~MayProbe(Idle) /\ ~MayPatch(Idle) /\ ~MayConclude(Idle)
    BY <1>8 DEF MayProbe, MayPatch, MayConclude, PastClaim, PastAuthorize, PastBind, Past, Idle
  <2> QED
    BY <1>8, <2>1 DEF Alone
<1> QED
  BY <1>3, <1>4, <1>6, <1>7, <1>9, <1>10 DEF IInv

LEMMA StepIInv ==
  ASSUME IInv, NEW w \in Worker, Step(w) PROVE IInv'
<1>1. CASE \E to \in States : Read(w, to) \/ Write(w, to)
  BY <1>1, ReadStep, WriteStep
<1>2. CASE Open(w) \/ PersistFinding(w) \/ Authorize(w) \/ PersistReceipt(w)
  BY <1>2, OpenStep, PersistFindingStep, AuthorizeStep, PersistReceiptStep
<1>3. CASE ConsumeRead(w) \/ ConsumeWrite(w) \/ Bind(w)
  BY <1>3, ConsumeReadStep, ConsumeWriteStep, BindStep
<1>4. CASE Record(w) \/ QueueStep(w) \/ Model(w)
  BY <1>4, RecordStep, QueuesKeep, ModelStep
<1>5. CASE RangeStep(w)
  <2>1. /\ ResetRange(w) \in View /\ Rotated(w) \in View /\ Selected(w, "vulnerable") \in View
    BY RangeValues DEF Mode
  <2>2. CASE Control(w, "reset", ResetRange(w))
    <3>1. PICK after \in View : after = ResetRange(w)
      BY <2>1
    <3> QED
      BY <2>2, <3>1, ControlStep
  <2>3. CASE Control(w, "vulnerable", Selected(w, "vulnerable"))
    <3>1. PICK after \in View : after = Selected(w, "vulnerable")
      BY <2>1
    <3> QED
      BY <2>3, <3>1, ControlStep
  <2>4. CASE Control(w, "rotate", Rotated(w))
    <3>1. PICK after \in View : after = Rotated(w)
      BY <2>1
    <3> QED
      BY <2>4, <3>1, ControlStep
  <2>5. CASE Look(w, "read_before") \/ Look(w, "read_after")
    BY <2>5, LookStep
  <2> QED
    BY <1>5, <2>2, <2>3, <2>4, <2>5, PatchStep, RotateStep DEF RangeStep
<1>6. CASE TimedOut(w) \/ JudgeRecon(w) \/ JudgeRetest(w)
  BY <1>6, TimedOutStep, JudgeReconStep, JudgeRetestStep
<1>7. CASE Probe(w, "recon", "probe_recon") \/ Probe(w, "retest", "probe_retest")
  BY <1>7, ProbeReconStep, ProbeRetestStep
<1> QED
  BY <1>1, <1>2, <1>3, <1>4, <1>5, <1>6, <1>7 DEF Step

LEMMA NextIInv == IInv /\ [Next]_vars => IInv'
<1> SUFFICES ASSUME IInv, [Next]_vars PROVE IInv'
  OBVIOUS
<1>1. CASE UNCHANGED vars
  <2>1. UNCHANGED Shared /\ UNCHANGED <<range, outside>> /\ proc' = proc
    BY <1>1 DEF vars, Shared, outside
  <2> QED
    BY <2>1, NotTouched, Around
<1>2. CASE Next
  <2>1. PICK w \in Worker :
          \/ Step(w) \/ StartLive(w) \/ Crash(w) \/ Operate(w) \/ RangeRestart(w)
          \/ \E i \in 1 .. Len(Order) : Dispatch(w, i)
    BY <1>2 DEF Next
  <2> QED
    BY <2>1, StepIInv, StartLiveStep, CrashStep, OperateStep, RangeRestartStep, DispatchStep
<1> QED
  BY <1>1, <1>2

LEMMA IInvAlways == Spec => []IInv
  BY InitIInv, NextIInv, PTL DEF Spec

(* The values of the loop are the ones its code computes, and a process is at a  *)
(* call of the program it runs. About the ledger's columns, the jobs, the range  *)
(* and what each driver holds in memory.                                        *)
THEOREM TypeCorrect == Spec => []TypeOK
  BY IInvAlways, PTL DEF IInv

(* RemediationController inserts each row before it moves the state that stands   *)
(* for it: whatever crashed, ran beside it or wrote a transition it had decided    *)
(* on long before, the row is there.                                            *)
THEOREM RowsBackTheState == Spec => []LedgerBacksState
<1>1. IInv => LedgerBacksState
  <2> SUFFICES ASSUME IInv PROVE LedgerBacksState
    OBVIOUS
  <2>1. \A a, b : a \in 1 .. 7 /\ b \in a .. 7 => b \in a .. 7 /\ b \in 1 .. 7
    OBVIOUS
  <2>2. Reached("INITIAL_CONFIRMED") => ledger.state \in {Happy[k] : k \in 2 .. 7}
    <3>1. \A i \in 1 .. 7 : Happy[i] = "INITIAL_CONFIRMED" => i = 2
      BY StatesFacts DEF Happy
    <3> QED
      BY <3>1, StatesFacts DEF Reached
  <2>3. Reached("PATCH_AUTHORIZED") => ledger.state \in {Happy[k] : k \in 4 .. 7}
    <3>1. \A i \in 1 .. 7 : Happy[i] = "PATCH_AUTHORIZED" => i = 4
      BY StatesFacts DEF Happy
    <3> QED
      BY <3>1, StatesFacts DEF Reached
  <2>4. Reached("PATCH_APPLIED") => ledger.state \in {Happy[k] : k \in 5 .. 7}
    <3>1. \A i \in 1 .. 7 : Happy[i] = "PATCH_APPLIED" => i = 5
      BY StatesFacts DEF Happy
    <3> QED
      BY <3>1, StatesFacts DEF Reached
  <2>5. Reached("RETEST_RUNNING") => ledger.state = "RETEST_RUNNING"
    <3>1. \A i \in 1 .. 7 : Happy[i] = "RETEST_RUNNING" => i = 7
      BY StatesFacts DEF Happy
    <3>2. \A k \in 7 .. 7 : k = 7
      OBVIOUS
    <3> QED
      BY <3>1, <3>2, StatesFacts DEF Reached
  <2> QED
    BY <2>2, <2>3, <2>4, <2>5 DEF IInv, StateBacked, Chain, LedgerBacksState
<1> QED
  BY <1>1, IInvAlways, PTL

(* The keys of the job, the authorization and the binding give the right to an     *)
(* effect to one process, once: one first probe, one patch and one retest, for     *)
(* any number of dispatches, crashes and processes at once.                      *)
THEOREM EffectsHappenOnce == Spec => []EffectOnce
<1>1. IInv => EffectOnce
  BY DEF IInv, Counted
<1> QED
  BY <1>1, IInvAlways, PTL

(* conclude_retest says RETEST_PASS only of a finding that was reached before the  *)
(* patch, a range that was seen to change, and a probe after it that was denied.   *)
THEOREM PassesAreEarned == Spec => []PassIsEarned
<1>1. IInv => PassIsEarned
  BY DEF IInv, StateBacked
<1> QED
  BY <1>1, IInvAlways, PTL

(* The loop is never concluded with both verdicts, although `transition` updates   *)
(* the state without looking whether it still is what was read.                   *)
THEOREM VerdictIsOne == Spec => []OneVerdict
<1>1. IInv => OneVerdict
  BY DEF IInv, Counted
<1> QED
  BY <1>1, IInvAlways, PTL

=============================================================================
