------------------------- MODULE PassiveScanProofs -------------------------
(***************************************************************************)
(* Theorems about PassiveScan, for any number of scans, requests, faults   *)
(* and restarts.                                                           *)
(***************************************************************************)
EXTENDS PassiveScan, FiniteSetTheorems, TLAPS

(* Every value the parts may have.                                         *)
Report   == SUBSET {"control", "scenario"}
Traffic  == [armed : BOOLEAN, token : Scan \cup {Free}, allow : SUBSET Operation, forwarded : Nat,
             count : [Operation -> Nat], blocked : BOOLEAN, unsteady : BOOLEAN, from : SUBSET Scan]
Answer   == [status : {"NONE", "REJECTED", "FAILED", "COMPLETED"}, found : Report,
             complete : BOOLEAN, traffic : Traffic]
Result   == [at : {"none", "queued", "attest", "again", "sent", "verify", "done"}, engine : Engine,
             target : Acceptance \cup {"unsteady", "writing"}, left : Nat,
             status : {"NONE", "QUEUED", "RUNNING", "REVIEW", "INCOMPLETE", "PASS", "FAIL"},
             again : BOOLEAN, response : Answer,
             verdict : {"NONE", "INSUFFICIENT", "CONFIRMED", "PASS"}]
Thread   == [ready : BOOLEAN, job : Scan \cup {Free},
             at : {"idle", "arming", "run", "disarm", "net"}, exit : {"none", "clean", "other"}]
Program  == [alive : BOOLEAN, asked : Nat, got : SUBSET (Operation \cup {Elsewhere}), clean : BOOLEAN]
Asked    == Scan \X (Operation \cup {Elsewhere})

TypeOK ==
  /\ scan \in [Scan -> Result] /\ calls \in SUBSET Scan /\ answer \in [Scan -> Answer]
  /\ runner \in [Engine -> Thread] /\ drifted \in SUBSET Engine
  /\ process \in [Scan -> Program] /\ guard \in Traffic
  /\ wire \in SUBSET Asked /\ upstream \in SUBSET Asked
  /\ late \in SUBSET ({"arm", "disarm"} \X Scan) /\ faults \in Nat

(* A scan runs once.  Until it runs it has no process and no request, and  *)
(* one whose arming was lost never runs.                                   *)
Quiet(s) == process[s] = NoProcess /\ \A q \in wire \cup upstream : q[1] # s
Placed(s) ==
  /\ scan[s].at \in {"none", "queued", "attest", "again"} =>
       s \notin calls /\ (\A e \in Engine : runner[e].job # s) /\ <<"arm", s>> \notin late /\ Quiet(s)
  /\ s \in calls => (\A e \in Engine : runner[e].job # s) /\ <<"arm", s>> \notin late /\ Quiet(s)
  /\ \A e \in Engine : runner[e].job = s =>
       /\ scan[s].engine = e /\ <<"arm", s>> \notin late
       /\ runner[e].at = "arming" => Quiet(s)
  /\ <<"arm", s>> \in late => Quiet(s)
  /\ runner["nuclei"].job = s => runner["nuclei"].at = "run"

(* What is spent was there; what is asked of the guard is something.       *)
Budgeted(s) ==
  /\ scan[s].at \in {"attest", "again"} => Requests(s) <= scan[s].left
  /\ scan[s].engine = "zap" /\ (scan[s].at \in {"attest", "again", "sent", "verify"} \/ s \in calls
                                  \/ runner["zap"].job = s) => Projected(scan[s].target) # {}
  /\ scan[s].engine = "nuclei" => scan[s].target \in Acceptance

(* Of what the guard forwarded under an execution's token, as much is its  *)
(* own as it got or waits for, and more if anyone else's was forwarded.    *)
Mine(s) == process[s].got \cup {o \in Operation \cup {Elsewhere} : <<s, o>> \in upstream}
Own(s) ==
  guard.token = s =>
    /\ Cardinality(Mine(s)) <= guard.forwarded
    /\ ~(guard.from \subseteq {s}) => Cardinality(Mine(s)) < guard.forwarded
    /\ Mine(s) # {} => s \in guard.from

(* What an answer says, and what is concluded from it.                     *)
OfItsOwn(s, a) ==
  /\ a.status = "COMPLETED" /\ scan[s].engine = "zap" =>
       a.traffic.token = s /\ a.traffic.from = {s}
  /\ scan[s].engine = "nuclei" => a.found \in {{}, {"scenario"}}
Judged(s) ==
  /\ scan[s].at # "sent" => answer[s] = NoAnswer
  /\ OfItsOwn(s, answer[s])
  /\ scan[s].at = "verify" =>
       /\ scan[s].response.complete /\ OfItsOwn(s, scan[s].response)
       /\ scan[s].target \in Acceptance
  /\ scan[s].at # "done" => scan[s].status \notin {"PASS", "FAIL"}

IInv ==
  /\ TypeOK /\ (guard.armed => guard.token # Free)
  /\ \A s \in Scan : Placed(s) /\ Budgeted(s) /\ Own(s) /\ Judged(s)
  /\ VerdictEarned

(* What the decision of a scan needs.                                      *)
Earned(s) ==
  /\ scan[s].status = "PASS" =>
       /\ scan[s].target = "patched" /\ scan[s].verdict = "PASS"
       /\ scan[s].response.complete /\ scan[s].response.found = {}
  /\ scan[s].status = "FAIL" =>
       /\ scan[s].target = "vulnerable" /\ scan[s].verdict = "CONFIRMED"
       /\ scan[s].response.complete /\ scan[s].response.found = {"scenario"}

LEMMA AllEarned == VerdictEarned <=> \A s \in Scan : Earned(s)
  BY DEF VerdictEarned, Earned

-----------------------------------------------------------------------------
(* What the proofs keep needing.                                           *)

LEMMA PairIsFinite ==
  ASSUME NEW x, NEW y, NEW S, S = {x, y} PROVE IsFiniteSet(S)
<1>1. IsFiniteSet({x}) /\ IsFiniteSet({y})
  BY FS_Singleton
<1>2. IsFiniteSet({x} \cup {y})
  BY <1>1, FS_Union
<1>3. S = {x} \cup {y}
  OBVIOUS
<1> QED
  BY <1>2, <1>3

LEMMA Constants ==
  /\ 0 \notin Scan /\ Scan \subseteq Nat /\ Free = 0
  /\ IsFiniteSet(Operation \cup {Elsewhere})
  /\ \A t \in Acceptance \cup {"unsteady", "writing"} :
       /\ Projected(t) \subseteq Operation /\ IsFiniteSet(Projected(t))
       /\ \A o \in Projected(t) : o[2] \in {"control", "scenario"}
  /\ Projected("writing") = {}
<1>1. /\ Projected("vulnerable") = {<<"vulnerable", "control">>, <<"vulnerable", "scenario">>}
      /\ Projected("patched") = {<<"patched", "control">>, <<"patched", "scenario">>}
      /\ Projected("unsteady") = {<<"unsteady", "control">>} /\ Projected("writing") = {}
  BY DEF Projected, Acceptance
<1>2. Operation = Projected("vulnerable") \cup Projected("patched") \cup Projected("unsteady")
  BY DEF Operation, Acceptance
<1>3. IsFiniteSet(Operation \cup {Elsewhere})
  <2>2. /\ IsFiniteSet(Projected("vulnerable")) /\ IsFiniteSet(Projected("patched"))
        /\ IsFiniteSet(Projected("unsteady")) /\ IsFiniteSet({Elsewhere})
    <3> DEFINE a == <<"vulnerable", "control">>  b == <<"vulnerable", "scenario">>
               c == <<"patched", "control">>     d == <<"patched", "scenario">>
               e == <<"unsteady", "control">>    f == Elsewhere
    <3>1. /\ Projected("vulnerable") = {a, b} /\ Projected("patched") = {c, d}
          /\ Projected("unsteady") = {e, e} /\ {Elsewhere} = {f, f}
      BY <1>1
    <3> HIDE DEF a, b, c, d, e, f
    <3> QED
      BY <3>1, PairIsFinite
  <2> QED
    BY <1>2, <2>2, FS_Union
<1>4. 0 \notin Scan /\ Scan \subseteq Nat
  BY PassiveScanAssumption DEF Scan
<1>5. ASSUME NEW t \in Acceptance \cup {"unsteady", "writing"}
      PROVE  /\ Projected(t) \subseteq Operation /\ IsFiniteSet(Projected(t))
             /\ \A o \in Projected(t) : o[2] \in {"control", "scenario"}
  <2>1. Projected(t) \subseteq Operation
    BY <1>1, <1>2 DEF Acceptance
  <2>2. IsFiniteSet(Projected(t))
    BY <1>3, <2>1, FS_Subset
  <2>3. \A o \in Projected(t) : o[2] \in {"control", "scenario"}
    BY <1>1 DEF Acceptance
  <2> QED
    BY <2>1, <2>2, <2>3
<1> QED
  BY <1>1, <1>3, <1>4, <1>5 DEF Free

LEMMA Typed ==
  ASSUME IInv, NEW s \in Scan
  PROVE  /\ scan[s] \in Result /\ scan[s].engine \in Engine /\ answer[s] \in Answer
         /\ runner[scan[s].engine] \in Thread /\ process[s] \in Program
         /\ Placed(s) /\ Budgeted(s) /\ Own(s) /\ Judged(s) /\ Earned(s)
         /\ scan[s].target \in Acceptance \cup {"unsteady", "writing"}
         /\ Requests(s) \in Nat
<1>1. /\ scan[s] \in Result /\ scan[s].engine \in Engine /\ answer[s] \in Answer
      /\ runner[scan[s].engine] \in Thread /\ process[s] \in Program
      /\ Placed(s) /\ Budgeted(s) /\ Own(s) /\ Judged(s) /\ Earned(s)
      /\ scan[s].target \in Acceptance \cup {"unsteady", "writing"}
  BY AllEarned DEF IInv, TypeOK, Result
<1>2. Cardinality(Projected(scan[s].target)) \in Nat
  BY <1>1, Constants, FS_CardinalityType
<1> QED
  BY <1>1, <1>2 DEF Requests, ZapRequests, NucleiRequests

LEMMA Blank ==
  /\ Disarmed \in Traffic /\ NoAnswer \in Answer /\ Rejected \in Answer /\ Failed \in Answer
  /\ NoProcess \in Program /\ NoProcess.got = {} /\ ~NoProcess.alive
  /\ \A s \in Scan, a \in {NoAnswer, Rejected, Failed} : OfItsOwn(s, a)
<1>1. Disarmed \in Traffic
  BY DEF Disarmed, Traffic
<1> HIDE DEF Disarmed
<1>2. NoAnswer \in Answer /\ Rejected \in Answer /\ Failed \in Answer
  BY <1>1 DEF NoAnswer, Rejected, Failed, Response, Answer, Report
<1>3. NoProcess \in Program /\ NoProcess.got = {} /\ ~NoProcess.alive
  BY DEF NoProcess, Program
<1>4. \A s \in Scan, a \in {NoAnswer, Rejected, Failed} : OfItsOwn(s, a)
  BY DEF OfItsOwn, NoAnswer, Rejected, Failed, Response
<1> QED
  BY <1>1, <1>2, <1>3, <1>4

LEMMA FewAreMine ==
  ASSUME IInv, NEW s \in Scan
  PROVE  IsFiniteSet(Mine(s)) /\ Cardinality(Mine(s)) \in Nat
<1>1. Mine(s) \subseteq Operation \cup {Elsewhere}
  BY Typed DEF Mine, Program
<1> QED
  BY <1>1, Constants, FS_Subset, FS_CardinalityType

(* The guard forwards nothing; what is an execution's own can get less.    *)
LEMMA OwnStays ==
  ASSUME IInv, \A q \in Scan : Mine(q)' \subseteq Mine(q),
         \/ guard'.token = Free
         \/ /\ guard'.token = guard.token /\ guard'.forwarded = guard.forwarded
            /\ guard'.from = guard.from
  PROVE  \A q \in Scan : Own(q)'
<1> TAKE q \in Scan
<1>1. CASE guard'.token = Free
  BY <1>1, Constants DEF Own
<1>2. CASE /\ guard'.token = guard.token /\ guard'.forwarded = guard.forwarded
           /\ guard'.from = guard.from
  <2>1. /\ Cardinality(Mine(q)') <= Cardinality(Mine(q)) /\ Cardinality(Mine(q)') \in Nat
        /\ Cardinality(Mine(q)) \in Nat /\ guard.forwarded \in Nat
    BY FewAreMine, FS_Subset, FS_CardinalityType DEF IInv, TypeOK, Traffic
  <2>2. Own(q)
    BY Typed
  <2> DEFINE m == Cardinality(Mine(q))
             n == Cardinality(Mine(q)')
  <2>3. guard.token = q => n <= guard.forwarded /\ (~(guard.from \subseteq {q}) => n < guard.forwarded)
    <3>1. n <= m /\ m \in Nat /\ n \in Nat /\ guard.forwarded \in Nat
      BY <2>1
    <3>2. guard.token = q => m <= guard.forwarded /\ (~(guard.from \subseteq {q}) => m < guard.forwarded)
      BY <2>2 DEF Own
    <3> HIDE DEF m, n
    <3> QED
      BY <3>1, <3>2
  <2>4. guard.token = q /\ Mine(q)' # {} => q \in guard.from
    BY <2>2 DEF Own
  <2> QED
    BY <1>2, <2>3, <2>4 DEF Own
<1> QED
  BY <1>1, <1>2

(* Of the scans, only s moves on the runner.                               *)
LEMMA PlacedMoves ==
  ASSUME IInv, NEW s \in Scan, UNCHANGED <<scan, wire, upstream>>, calls' \subseteq calls,
         \A q \in Scan \ {s} : process'[q] = process[q],
         \A e \in Engine : \A q \in Scan \ {s} :
           runner'[e].job = q => runner[e].job = q /\ runner'[e].at = runner[e].at,
         \A q \in Scan \ {s} : <<"arm", q>> \in late' => <<"arm", q>> \in late,
         Placed(s)'
  PROVE  \A q \in Scan : Placed(q)'
<1> TAKE q \in Scan
<1>1. CASE q = s
  BY <1>1
<1>2. CASE q # s
  BY <1>2, Typed DEF Placed, Quiet, Engine
<1> QED
  BY <1>1, <1>2

(* The scans stay as they are.                                             *)
LEMMA ScansStay ==
  ASSUME IInv, UNCHANGED scan, TypeOK', guard.armed' => guard.token' # Free,
         \A q \in Scan : Placed(q)', \A q \in Scan : Own(q)',
         \A q \in Scan : q \in calls' \/ runner'["zap"].job = q => q \in calls \/ runner["zap"].job = q,
         \A q \in Scan : scan[q].at # "sent" => answer'[q] = NoAnswer,
         \A q \in Scan : OfItsOwn(q, answer'[q])
  PROVE  IInv'
<1> SUFFICES ASSUME NEW q \in Scan PROVE Budgeted(q)' /\ Judged(q)' /\ Earned(q)'
  BY AllEarned DEF IInv, VerdictEarned, Earned
<1>1. Budgeted(q) /\ Judged(q) /\ Earned(q)
  BY Typed
<1>2. Budgeted(q)'
  BY <1>1 DEF Budgeted, Requests, ZapRequests, NucleiRequests
<1>3. Judged(q)'
  BY <1>1 DEF Judged, OfItsOwn
<1>4. Earned(q)'
  BY <1>1 DEF Earned
<1> QED
  BY <1>2, <1>3, <1>4

(* A scan's task moves; on the runner at most its call arrives.            *)
LEMMA FlowMoves ==
  ASSUME IInv, NEW s \in Scan, NEW x \in Result, scan' = [scan EXCEPT ![s] = x],
         UNCHANGED <<runner, drifted, process, guard, network>>, faults' \in Nat,
         calls' \in {calls, calls \cup {s}}, answer' \in [Scan -> Answer],
         \A q \in Scan \ {s} : answer'[q] = answer[q],
         Placed(s)', Budgeted(s)', Judged(s)', Earned(s)'
  PROVE  IInv'
<1>1. scan' \in [Scan -> Result] /\ \A q \in Scan \ {s} : scan'[q] = scan[q]
  BY DEF IInv, TypeOK
<1>2. TypeOK'
  BY <1>1 DEF IInv, TypeOK, network
<1>3. ASSUME NEW q \in Scan PROVE Placed(q)' /\ Budgeted(q)' /\ Judged(q)' /\ Earned(q)'
  <2>1. CASE q = s
    BY <2>1
  <2>2. CASE q # s
    <3>1. /\ Placed(q) /\ Budgeted(q) /\ Judged(q) /\ Earned(q) /\ scan'[q] = scan[q]
          /\ answer'[q] = answer[q] /\ (q \in calls' <=> q \in calls)
      BY <1>1, <2>2, Typed
    <3>2. Placed(q)'
      BY <3>1 DEF Placed, Quiet, network
    <3>3. Budgeted(q)'
      BY <3>1 DEF Budgeted, Requests, ZapRequests, NucleiRequests
    <3>4. Judged(q)' /\ Earned(q)'
      BY <3>1 DEF Judged, OfItsOwn, Earned
    <3> QED
      BY <3>2, <3>3, <3>4
  <2> QED
    BY <2>1, <2>2
<1>4. \A q \in Scan : Own(q)'
  BY DEF IInv, Own, Mine, network
<1> QED
  BY <1>2, <1>3, <1>4, AllEarned DEF IInv, VerdictEarned, Earned

-----------------------------------------------------------------------------
(* The task of a scan.                                                     *)

LEMMA CreateStep ==
  ASSUME IInv, NEW s \in Scan, Create(s) PROVE IInv'
<1>1. /\ scan[s].at = "none" /\ (CreateZap(s) \/ CreateNuclei(s))
      /\ UNCHANGED <<calls, answer, runner, drifted, process, guard, network, faults>>
  BY DEF Create
<1>2. PICK o \in Offer[s] :
        scan' = [scan EXCEPT ![s] = [NoScan EXCEPT !.at = "queued", !.status = "QUEUED",
                                                   !.engine = o[1], !.target = o[2], !.left = o[3]]]
  BY <1>1 DEF CreateZap, CreateNuclei, Created
<1> DEFINE x == [NoScan EXCEPT !.at = "queued", !.status = "QUEUED",
                               !.engine = o[1], !.target = o[2], !.left = o[3]]
<1>3. /\ o[1] \in Engine /\ o[2] \in Acceptance \cup {"unsteady", "writing"} /\ o[3] \in Nat
      /\ o[1] = "nuclei" => o[2] \in Acceptance
  <2>1. <<o[1], o[2]>> \in Inventory /\ o[3] \in Nat
    BY PassiveScanAssumption
  <2> QED
    BY <2>1 DEF Inventory, Engine
<1>4. x \in Result /\ x.at = "queued" /\ x.status = "QUEUED" /\ x.engine = o[1] /\ x.target = o[2]
  BY <1>3, Blank DEF NoScan, Result, Acceptance
<1> HIDE DEF x
<1>5. scan'[s] = x
  BY <1>2 DEF IInv, TypeOK, x
<1>6. Placed(s) /\ Judged(s) /\ answer[s] = NoAnswer
  BY <1>1, Typed DEF Judged
<1>7. Placed(s)'
  BY <1>1, <1>4, <1>5, <1>6 DEF Placed, Quiet, network
<1>8. Budgeted(s)'
  BY <1>1, <1>3, <1>4, <1>5, <1>6 DEF Budgeted, Placed, Engine
<1>9. Judged(s)' /\ Earned(s)'
  BY <1>1, <1>4, <1>5, <1>6, Blank DEF Judged, Earned, OfItsOwn, NoAnswer, Response
<1>10. faults' \in Nat /\ calls' \in {calls, calls \cup {s}} /\ answer' \in [Scan -> Answer]
       /\ \A q \in Scan \ {s} : answer'[q] = answer[q]
  BY <1>1 DEF IInv, TypeOK
<1> QED
  BY <1>1, <1>2, <1>4, <1>7, <1>8, <1>9, <1>10, FlowMoves DEF x

(* The scan ends without a decision.                                       *)
LEMMA EndsMoves ==
  ASSUME IInv, NEW s \in Scan, NEW status \in {"REVIEW", "INCOMPLETE"}, Ends(s, status),
         scan[s].at \notin {"none", "queued"},
         scan[s].at \in {"attest", "again"} => calls' = calls,
         UNCHANGED <<runner, drifted, process, guard, network>>, faults' \in Nat,
         calls' = calls, answer' \in {answer, [answer EXCEPT ![s] = NoAnswer]},
         scan[s].at = "sent" => answer' = [answer EXCEPT ![s] = NoAnswer]
  PROVE  IInv'
<1> DEFINE x == [scan[s] EXCEPT !.at = "done", !.status = status, !.left = 0]
<1>1. scan' = [scan EXCEPT ![s] = x]
  BY DEF Ends
<1>2. /\ x \in Result /\ x.at = "done" /\ x.status = status
      /\ x.engine = scan[s].engine /\ x.target = scan[s].target
  BY Typed, ZenonT(60) DEF Result
<1> HIDE DEF x
<1>3. scan'[s] = x /\ answer'[s] = NoAnswer
  BY <1>1, Typed DEF IInv, TypeOK, Judged
<1>4. answer' \in [Scan -> Answer] /\ \A q \in Scan \ {s} : answer'[q] = answer[q]
  BY Blank DEF IInv, TypeOK
<1>5. Placed(s)'
  BY <1>2, <1>3, Typed DEF Placed, Quiet, network
<1>6. Budgeted(s)'
  BY <1>2, <1>3, Typed DEF Budgeted
<1>7. Judged(s)' /\ Earned(s)'
  BY <1>2, <1>3, Blank DEF Judged, Earned, OfItsOwn, NoAnswer, Response
<1> QED
  BY <1>1, <1>2, <1>4, <1>5, <1>6, <1>7, FlowMoves

LEMMA StartStep ==
  ASSUME IInv, NEW s \in Scan, Start(s) PROVE IInv'
<1>1. /\ scan[s].at = "queued"
      /\ UNCHANGED <<calls, answer, runner, drifted, process, guard, network, faults>>
  BY DEF Start
<1>2. /\ scan[s] \in Result /\ Placed(s) /\ Budgeted(s) /\ Judged(s)
      /\ Requests(s) \in Nat /\ scan[s].left \in Nat /\ answer[s] = NoAnswer
  BY <1>1, Typed DEF Result, Judged
<1> DEFINE x == [scan[s] EXCEPT !.at = "attest", !.status = "RUNNING"]
           y == [scan[s] EXCEPT !.at = "done", !.status = "REVIEW", !.left = 0]
<1>3. /\ x \in Result /\ x.at = "attest" /\ x.status = "RUNNING" /\ x.left = scan[s].left
      /\ x.engine = scan[s].engine /\ x.target = scan[s].target
      /\ y \in Result /\ y.at = "done" /\ y.status = "REVIEW"
      /\ y.engine = scan[s].engine /\ y.target = scan[s].target
  BY <1>2 DEF Result
<1>4. scan' = IF Job(s) THEN [scan EXCEPT ![s] = x] ELSE [scan EXCEPT ![s] = y]
  BY DEF Start
<1> HIDE DEF x, y
<1>5. /\ faults' \in Nat /\ calls' = calls /\ answer' \in [Scan -> Answer]
      /\ \A q \in Scan \ {s} : answer'[q] = answer[q]
  BY <1>1 DEF IInv, TypeOK
<1>6. CASE Job(s)
  <2>1. scan' = [scan EXCEPT ![s] = x] /\ scan'[s] = x
    BY <1>4, <1>6 DEF IInv, TypeOK
  <2>2. Placed(s)'
    BY <1>1, <1>2, <1>3, <2>1 DEF Placed, Quiet, network
  <2>3. Requests(s) <= scan[s].left /\ (scan[s].engine = "zap" => Projected(scan[s].target) # {})
    BY <1>2, <1>6 DEF Job, ZapJob, NucleiJob, Requests
  <2>4. Requests(s)' = Requests(s)
    BY <1>3, <2>1 DEF Requests, ZapRequests, NucleiRequests
  <2>5. Budgeted(s)'
    BY <1>2, <1>3, <2>1, <2>3, <2>4 DEF Budgeted
  <2>6. Judged(s)' /\ Earned(s)'
    BY <1>1, <1>2, <1>3, <2>1 DEF Judged, Earned, OfItsOwn
  <2> QED
    BY <1>1, <1>3, <1>5, <2>1, <2>2, <2>5, <2>6, FlowMoves
<1>7. CASE ~Job(s)
  <2>1. scan' = [scan EXCEPT ![s] = y] /\ scan'[s] = y
    BY <1>4, <1>7 DEF IInv, TypeOK
  <2>2. Placed(s)'
    BY <1>1, <1>2, <1>3, <2>1 DEF Placed, Quiet, network
  <2>3. Budgeted(s)'
    BY <1>1, <1>2, <1>3, <2>1, Constants DEF Budgeted, Placed, Engine
  <2>4. Judged(s)' /\ Earned(s)'
    BY <1>1, <1>2, <1>3, <2>1 DEF Judged, Earned, OfItsOwn
  <2> QED
    BY <1>1, <1>3, <1>5, <2>1, <2>2, <2>3, <2>4, FlowMoves
<1> QED
  BY <1>6, <1>7

LEMMA SendMoves ==
  ASSUME IInv, NEW s \in Scan, scan[s].at \in {"attest", "again"}, Send(s) \/ SendAfterAll(s),
         UNCHANGED <<answer, runner, drifted, process, guard, network, faults>>
  PROVE  IInv'
<1>1. /\ scan[s] \in Result /\ Placed(s) /\ Budgeted(s) /\ Judged(s) /\ Earned(s)
      /\ Requests(s) \in Nat /\ scan[s].left \in Nat /\ Requests(s) <= scan[s].left
      /\ answer[s] = NoAnswer
  BY Typed DEF Result, Budgeted, Judged
<1> DEFINE x == [scan[s] EXCEPT !.at = "sent", !.left = scan[s].left - Requests(s)]
           y == [scan[s] EXCEPT !.at = "sent", !.again = TRUE]
<1>2. /\ x \in Result /\ x.at = "sent" /\ x.engine = scan[s].engine /\ x.target = scan[s].target
      /\ x.status = scan[s].status
  <2>1. scan[s].left - Requests(s) \in Nat
    BY <1>1
  <2> QED
    BY <1>1, <2>1 DEF Result
<1>3. /\ y \in Result /\ y.at = "sent" /\ y.engine = scan[s].engine /\ y.target = scan[s].target
      /\ y.status = scan[s].status
  BY <1>1 DEF Result
<1>4. calls' = calls \cup {s} /\ (scan' = [scan EXCEPT ![s] = x] \/ scan' = [scan EXCEPT ![s] = y])
  BY DEF Send, SendAfterAll
<1> HIDE DEF x, y
<1>5. PICK z \in {x, y} : scan' = [scan EXCEPT ![s] = z]
  BY <1>4
<1>6. /\ z \in Result /\ z.at = "sent" /\ z.engine = scan[s].engine /\ z.target = scan[s].target
      /\ z.status = scan[s].status
  BY <1>2, <1>3
<1>7. scan'[s] = z
  BY <1>5 DEF IInv, TypeOK
<1>8. Placed(s)'
  BY <1>1, <1>6, <1>7 DEF Placed, Quiet, network
<1>9. Budgeted(s)'
  BY <1>1, <1>6, <1>7 DEF Budgeted
<1>10. Judged(s)' /\ Earned(s)'
  BY <1>1, <1>6, <1>7 DEF Judged, Earned, OfItsOwn
<1>11. /\ faults' \in Nat /\ calls' \in {calls, calls \cup {s}} /\ answer' \in [Scan -> Answer]
       /\ \A q \in Scan \ {s} : answer'[q] = answer[q]
  BY <1>4 DEF IInv, TypeOK
<1> QED
  BY <1>5, <1>6, <1>8, <1>9, <1>10, <1>11, FlowMoves

LEMMA AttestedStep ==
  ASSUME IInv, NEW s \in Scan, Attested(s) PROVE IInv'
<1>1. /\ scan[s].at \in {"attest", "again"}
      /\ UNCHANGED <<answer, runner, drifted, process, guard, network, faults>>
      /\ \/ Ends(s, "INCOMPLETE") /\ UNCHANGED calls
         \/ Send(s) \/ SendAfterAll(s)
  BY DEF Attested
<1>2. faults' \in Nat
  BY <1>1 DEF IInv, TypeOK
<1>3. CASE Ends(s, "INCOMPLETE") /\ UNCHANGED calls
  BY <1>1, <1>2, <1>3, EndsMoves
<1>4. CASE Send(s) \/ SendAfterAll(s)
  BY <1>1, <1>4, SendMoves
<1> QED
  BY <1>1, <1>3, <1>4

LEMMA AttestLostStep ==
  ASSUME IInv, NEW s \in Scan, AttestLost(s) PROVE IInv'
<1>1. /\ scan[s].at \in {"attest", "again"} /\ faults' \in Nat
      /\ UNCHANGED <<calls, answer, runner, drifted, process, guard, network>>
      /\ \/ scan' = [scan EXCEPT ![s].at = "again"]
         \/ Ends(s, "INCOMPLETE")
  BY DEF AttestLost, Fault, IInv, TypeOK
<1>2. CASE Ends(s, "INCOMPLETE")
  BY <1>1, <1>2, EndsMoves
<1>3. CASE scan' = [scan EXCEPT ![s].at = "again"]
  <2> DEFINE x == [scan[s] EXCEPT !.at = "again"]
  <2>1. /\ scan[s] \in Result /\ Placed(s) /\ Budgeted(s) /\ Judged(s) /\ Earned(s)
    BY Typed
  <2>2. /\ x \in Result /\ x.at = "again" /\ x.engine = scan[s].engine /\ x.target = scan[s].target
        /\ x.status = scan[s].status /\ x.left = scan[s].left
    BY <2>1 DEF Result
  <2>3. scan' = [scan EXCEPT ![s] = x]
    BY <1>3
  <2> HIDE DEF x
  <2>4. scan'[s] = x
    BY <2>3 DEF IInv, TypeOK
  <2>5. Placed(s)'
    BY <1>1, <2>1, <2>2, <2>4 DEF Placed, Quiet, network
  <2>6. Budgeted(s)'
    BY <1>1, <2>1, <2>2, <2>4 DEF Budgeted, Requests, ZapRequests, NucleiRequests
  <2>7. Judged(s)' /\ Earned(s)'
    BY <1>1, <2>1, <2>2, <2>4 DEF Judged, Earned, OfItsOwn
  <2>8. calls' \in {calls, calls \cup {s}} /\ answer' \in [Scan -> Answer]
        /\ \A q \in Scan \ {s} : answer'[q] = answer[q]
    BY <1>1 DEF IInv, TypeOK
  <2> QED
    BY <1>1, <2>2, <2>3, <2>5, <2>6, <2>7, <2>8, FlowMoves
<1> QED
  BY <1>1, <1>2, <1>3

LEMMA GiveUpStep ==
  ASSUME IInv, NEW s \in Scan, GiveUp(s) PROVE IInv'
<1>1. /\ scan[s].at \in {"attest", "again", "sent", "verify"} /\ Ends(s, "INCOMPLETE")
      /\ answer' = [answer EXCEPT ![s] = NoAnswer] /\ faults' \in Nat
      /\ UNCHANGED <<calls, runner, drifted, process, guard, network>>
  BY DEF GiveUp, IInv, TypeOK
<1> QED
  BY <1>1, EndsMoves

LEMMA AnsweredStep ==
  ASSUME IInv, NEW s \in Scan, Answered(s) PROVE IInv'
<1> DEFINE n == Cardinality(Probes(scan[s].engine, scan[s].target))
           fit == Valid(s, answer[s]) /\ ~scan[s].again /\ n > 0 /\ n <= scan[s].left
<1>1. /\ scan[s].at = "sent" /\ answer' = [answer EXCEPT ![s] = NoAnswer] /\ faults' \in Nat
      /\ UNCHANGED <<calls, runner, drifted, process, guard, network>>
      /\ ~fit => Ends(s, "INCOMPLETE")
      /\ fit => scan' = [scan EXCEPT ![s].at = "verify", ![s].left = @ - n, ![s].response = answer[s]]
  BY DEF Answered, IInv, TypeOK
<1>2. CASE ~fit
  BY <1>1, <1>2, EndsMoves
<1>3. CASE fit
  <2>1. /\ scan[s] \in Result /\ Placed(s) /\ Budgeted(s) /\ Judged(s) /\ Earned(s)
        /\ answer[s] \in Answer /\ scan[s].left \in Nat /\ scan[s].engine \in Engine
    BY Typed DEF Result
  <2>2. Probes(scan[s].engine, scan[s].target) # {} /\ n \in Nat
    <3>1. IsFiniteSet({"control", "probe"})
      BY PairIsFinite
    <3>2. IsFiniteSet(Probes(scan[s].engine, scan[s].target))
      BY <3>1, FS_Subset DEF Probes, ZapProbes, NucleiProbes
    <3> QED
      BY <1>3, <3>2, FS_EmptySet, FS_CardinalityType
  <2>3. scan[s].target \in Acceptance
    BY <2>1, <2>2 DEF Probes, ZapProbes, Budgeted, Engine
  <2>4. answer[s].complete
    BY <1>3 DEF Valid, ZapValid, NucleiValid
  <2> DEFINE x == [scan[s] EXCEPT !.at = "verify", !.left = scan[s].left - n, !.response = answer[s]]
  <2>5. /\ x \in Result /\ x.at = "verify" /\ x.engine = scan[s].engine /\ x.target = scan[s].target
        /\ x.status = scan[s].status /\ x.response = answer[s]
    <3>1. scan[s].left - n \in Nat
      BY <1>3, <2>1, <2>2
    <3> HIDE DEF n
    <3> QED
      BY <2>1, <3>1 DEF Result
  <2>6. scan' = [scan EXCEPT ![s] = x]
    BY <1>1, <1>3
  <2> HIDE DEF x, n
  <2>7. scan'[s] = x /\ answer'[s] = NoAnswer /\ answer' \in [Scan -> Answer]
        /\ \A q \in Scan \ {s} : answer'[q] = answer[q]
    BY <1>1, <2>6, Blank DEF IInv, TypeOK
  <2>8. Placed(s)'
    BY <1>1, <2>1, <2>5, <2>7 DEF Placed, Quiet, network
  <2>9. Budgeted(s)'
    BY <1>1, <2>1, <2>5, <2>7 DEF Budgeted
  <2>10. Judged(s)' /\ Earned(s)'
    BY <1>1, <2>1, <2>3, <2>4, <2>5, <2>7, Blank DEF Judged, Earned, OfItsOwn, NoAnswer, Response
  <2> QED
    BY <1>1, <2>5, <2>6, <2>7, <2>8, <2>9, <2>10, FlowMoves
<1> QED
  BY <1>2, <1>3

(* No report is a verdict, nor is its silence.                             *)
LEMMA DecisionEarned ==
  ASSUME NEW e \in Engine, NEW t \in Acceptance, NEW r \in Answer, NEW heard, r.complete,
         e = "nuclei" => r.found \in {{}, {"scenario"}}
  PROVE  /\ Verdict(e, t, heard) \in {"NONE", "INSUFFICIENT", "CONFIRMED", "PASS"}
         /\ Decision(e, r, Verdict(e, t, heard)) \in {"FAIL", "REVIEW", "PASS", "INCOMPLETE"}
         /\ Decision(e, r, Verdict(e, t, heard)) = "PASS" =>
              t = "patched" /\ Verdict(e, t, heard) = "PASS" /\ r.found = {}
         /\ Decision(e, r, Verdict(e, t, heard)) = "FAIL" =>
              t = "vulnerable" /\ Verdict(e, t, heard) = "CONFIRMED" /\ r.found = {"scenario"}
<1> DEFINE v == Verdict(e, t, heard)
<1>1. /\ v \in {"INSUFFICIENT", "CONFIRMED", "PASS"}
      /\ v = "CONFIRMED" => t = "vulnerable"
      /\ v = "PASS" => t = "patched"
  BY DEF Verdict, ZapVerdict, NucleiVerdict, Acceptance
<1> HIDE DEF v
<1>2. /\ Decision(e, r, v) \in {"FAIL", "REVIEW", "PASS", "INCOMPLETE"}
      /\ Decision(e, r, v) = "PASS" => v = "PASS" /\ r.found = {}
      /\ Decision(e, r, v) = "FAIL" => v = "CONFIRMED" /\ r.found = {"scenario"}
  <2>1. CASE e = "zap"
    <3>1. Decision(e, r, v) = ZapDecision(r, v)
      BY <2>1 DEF Decision
    <3>2. CASE r.found = {}
      <4>1. InScope(r) = {}
        BY <3>2 DEF InScope
      <4> QED
        BY <1>1, <3>1, <3>2, <4>1 DEF ZapDecision, Silent
    <3>3. CASE r.found # {} /\ InScope(r) = r.found
      <4>1. r.found = {"scenario"}
        BY <3>3 DEF InScope
      <4> QED
        BY <1>1, <3>1, <3>3, <4>1 DEF ZapDecision
    <3>4. CASE InScope(r) # r.found
      BY <1>1, <3>1, <3>4 DEF ZapDecision, Silent
    <3> QED
      BY <3>2, <3>3, <3>4
  <2>2. CASE e = "nuclei"
    <3>1. Decision(e, r, v) = NucleiDecision(r, v)
      BY <2>2 DEF Decision
    <3> QED
      BY <1>1, <2>2, <3>1 DEF NucleiDecision, Silent
  <2> QED
    BY <2>1, <2>2 DEF Engine
<1> QED
  BY <1>1, <1>2 DEF v

LEMMA VerifiedStep ==
  ASSUME IInv, NEW s \in Scan, Verified(s) PROVE IInv'
<1>1. /\ scan[s].at = "verify" /\ UNCHANGED <<calls, answer, runner, drifted, process, guard, network, faults>>
      /\ scan[s] \in Result /\ Placed(s) /\ Budgeted(s) /\ Judged(s)
  BY Typed DEF Verified
<1> DEFINE e == scan[s].engine
           t == scan[s].target
           r == scan[s].response
<1>2. PICK heard : scan' = [scan EXCEPT ![s].at = "done", ![s].left = 0, ![s].verdict = Verdict(e, t, heard),
                            ![s].status = Decision(e, r, Verdict(e, t, heard))]
  BY DEF Verified
<1> DEFINE v == Verdict(e, t, heard)
           d == Decision(e, r, Verdict(e, t, heard))
           x == [scan[s] EXCEPT !.at = "done", !.left = 0, !.verdict = v, !.status = d]
<1>3. e \in Engine /\ t \in Acceptance /\ r \in Answer /\ r.complete
      /\ (e = "nuclei" => r.found \in {{}, {"scenario"}})
  BY <1>1 DEF Judged, OfItsOwn, Result
<1>4. /\ v \in {"NONE", "INSUFFICIENT", "CONFIRMED", "PASS"}
      /\ d \in {"FAIL", "REVIEW", "PASS", "INCOMPLETE"}
      /\ d = "PASS" => t = "patched" /\ v = "PASS" /\ r.found = {}
      /\ d = "FAIL" => t = "vulnerable" /\ v = "CONFIRMED" /\ r.found = {"scenario"}
  <2> HIDE DEF e, t, r
  <2> QED
    BY <1>3, DecisionEarned
<1> HIDE DEF v, d
<1>5. /\ x \in Result /\ x.at = "done" /\ x.engine = e /\ x.target = t /\ x.response = r
      /\ x.verdict = v /\ x.status = d
  BY <1>1, <1>4 DEF Result
<1>6. scan' = [scan EXCEPT ![s] = x]
  BY <1>2 DEF v, d
<1> HIDE DEF x
<1>7. scan'[s] = x /\ answer[s] = NoAnswer
  BY <1>1, <1>6 DEF IInv, TypeOK, Judged
<1>8. Placed(s)'
  BY <1>1, <1>5, <1>7 DEF Placed, Quiet, network
<1>9. Budgeted(s)'
  BY <1>1, <1>5, <1>7 DEF Budgeted
<1>10. Judged(s)'
  BY <1>1, <1>5, <1>7 DEF Judged, OfItsOwn
<1>11. Earned(s)'
  BY <1>3, <1>4, <1>5, <1>7 DEF Earned
<1>12. /\ faults' \in Nat /\ calls' \in {calls, calls \cup {s}} /\ answer' \in [Scan -> Answer]
       /\ \A q \in Scan \ {s} : answer'[q] = answer[q]
  BY <1>1 DEF IInv, TypeOK
<1> QED
  BY <1>1, <1>5, <1>6, <1>8, <1>9, <1>10, <1>11, <1>12, FlowMoves

-----------------------------------------------------------------------------
(* The runner.                                                             *)

(* The answer of a run: nobody waits for it, or it is the one given.       *)
LEMMA Replied ==
  ASSUME IInv, NEW s \in Scan, NEW r \in Answer, Reply(s, r), OfItsOwn(s, r)
  PROVE  /\ answer' \in [Scan -> Answer] /\ \A q \in Scan : OfItsOwn(q, answer'[q])
         /\ \A q \in Scan : scan[q].at # "sent" => answer'[q] = NoAnswer
<1>1. answer' \in [Scan -> Answer] /\ \A q \in Scan : answer'[q] \in {answer[q]} \cup (IF q = s THEN {r} ELSE {})
  BY DEF Reply, IInv, TypeOK
<1>2. scan[s].at # "sent" => answer' = answer
  BY DEF Reply
<1>3. ASSUME NEW q \in Scan PROVE OfItsOwn(q, answer'[q]) /\ (scan[q].at # "sent" => answer'[q] = NoAnswer)
  <2>1. OfItsOwn(q, answer[q]) /\ (scan[q].at # "sent" => answer[q] = NoAnswer)
    BY Typed DEF Judged
  <2>2. q = s => (scan[q].at # "sent" => answer'[q] = answer[q])
    BY <1>2
  <2>3. CASE q = s
    BY <1>1, <2>1, <2>2, <2>3
  <2>4. CASE q # s
    BY <1>1, <2>1, <2>4
  <2> QED
    BY <2>3, <2>4
<1> QED
  BY <1>1, <1>3

(* Nobody is answered.                                                     *)
LEMMA Unanswered ==
  ASSUME IInv, answer' = answer
  PROVE  /\ \A q \in Scan : OfItsOwn(q, answer'[q])
         /\ \A q \in Scan : scan[q].at # "sent" => answer'[q] = NoAnswer
  BY Typed DEF Judged

(* The lock is released; a process that still runs goes on.                *)
LEMMA Finished ==
  ASSUME IInv, NEW s \in Scan, NEW e \in Engine, e = scan[s].engine,
         process' = [process EXCEPT ![s] = IF @.alive THEN @ ELSE NoProcess] \/ process' = process
           \/ process' = [process EXCEPT ![s] = NoProcess],
         runner' = [runner EXCEPT ![e] = Idle(@.ready)]
  PROVE  /\ process' \in [Scan -> Program] /\ runner' \in [Engine -> Thread]
         /\ \A q \in Scan : process'[q] \in {process[q], NoProcess}
         /\ \A q \in Scan \ {s} : process'[q] = process[q]
         /\ runner'[e].job = Free
         /\ \A f \in Engine : \A q \in Scan : runner'[f].job = q =>
              f # e /\ runner[f].job = q /\ runner'[f].at = runner[f].at
<1>1. process' \in [Scan -> Program] /\ \A q \in Scan : process'[q] \in {process[q], NoProcess}
  BY Blank DEF IInv, TypeOK
<1>2. Idle(runner[e].ready) \in Thread /\ Idle(runner[e].ready).job = Free
  BY DEF Idle, Thread, IInv, TypeOK, Free
<1>3. runner' \in [Engine -> Thread] /\ runner'[e].job = Free /\ \A f \in Engine \ {e} : runner'[f] = runner[f]
  BY <1>2 DEF IInv, TypeOK
<1>4. \A q \in Scan \ {s} : process'[q] = process[q]
  BY DEF IInv, TypeOK
<1> QED
  BY <1>1, <1>3, <1>4, Constants

(* What is left of a scan's run when its process is gone or goes on.       *)
LEMMA MineStays ==
  ASSUME IInv, upstream' \subseteq upstream, NEW q \in Scan, process'[q] \in {process[q], NoProcess}
  PROVE  Mine(q)' \subseteq Mine(q)
  BY Blank DEF Mine

LEMMA RefuseStep ==
  ASSUME IInv, NEW s \in Scan, Refuse(s) PROVE IInv'
<1> DEFINE e == scan[s].engine
<1>1. /\ s \in calls /\ calls' = calls \ {s} /\ Reply(s, Rejected)
      /\ runner' \in {runner, [runner EXCEPT ![e].ready = FALSE]}
      /\ UNCHANGED <<scan, drifted, process, guard, network, faults>>
  BY DEF Refuse
<1>2. e \in Engine /\ Placed(s)
  BY Typed
<1> HIDE DEF e
<1>3. runner' \in [Engine -> Thread]
      /\ \A f \in Engine : runner'[f].job = runner[f].job /\ runner'[f].at = runner[f].at
  <2> DEFINE x == [runner[e] EXCEPT !.ready = FALSE]
  <2>1. x \in Thread /\ x.job = runner[e].job /\ x.at = runner[e].at
    BY <1>2 DEF IInv, TypeOK, Thread
  <2>2. runner' \in {runner, [runner EXCEPT ![e] = x]}
    BY <1>1
  <2> HIDE DEF x
  <2> QED
    BY <1>2, <2>1, <2>2 DEF IInv, TypeOK
<1>4. /\ answer' \in [Scan -> Answer] /\ \A q \in Scan : OfItsOwn(q, answer'[q])
      /\ \A q \in Scan : scan[q].at # "sent" => answer'[q] = NoAnswer
  BY <1>1, Blank, Replied
<1>5. TypeOK'
  BY <1>1, <1>3, <1>4 DEF IInv, TypeOK, network
<1>6. Placed(s)'
  BY <1>1, <1>2, <1>3 DEF Placed, Quiet, network, Engine
<1>7. \A q \in Scan : Placed(q)'
  BY <1>1, <1>3, <1>6, PlacedMoves DEF network
<1>8. \A q \in Scan : Own(q)'
  BY <1>1 DEF IInv, Own, Mine, network
<1>9. \A q \in Scan : q \in calls' \/ runner'["zap"].job = q => q \in calls \/ runner["zap"].job = q
  BY <1>1, <1>3 DEF Engine
<1>10. guard.armed => guard.token # Free
  BY DEF IInv
<1> QED
  BY <1>1, <1>4, <1>5, <1>7, <1>8, <1>9, <1>10, ScansStay

(* The lock is taken, or its holder goes on to another phase.              *)
LEMMA HoldsMoves ==
  ASSUME IInv, NEW s \in Scan, NEW phase \in {"arming", "run", "disarm", "net"}, Holds(s, phase)
  PROVE  /\ runner' \in [Engine -> Thread] /\ scan[s].engine \in Engine
         /\ runner'[scan[s].engine].job = s /\ runner'[scan[s].engine].at = phase
         /\ \A e \in Engine \ {scan[s].engine} : runner'[e] = runner[e]
         /\ \A e \in Engine : \A q \in Scan \ {s} :
              runner'[e].job = q => runner[e].job = q /\ runner'[e].at = runner[e].at
<1> DEFINE f == scan[s].engine
           x == [runner[f] EXCEPT !.job = s, !.at = phase]
<1>1. f \in Engine /\ runner[f] \in Thread
  BY Typed
<1>2. x \in Thread /\ x.job = s /\ x.at = phase
  BY <1>1 DEF Thread
<1>3. runner' = [runner EXCEPT ![f] = x]
  <2>1. runner' = [[runner EXCEPT ![f].job = s] EXCEPT ![f].at = phase]
    BY DEF Holds
  <2> QED
    BY <1>1, <2>1 DEF IInv, TypeOK
<1> HIDE DEF f, x
<1>4. runner' \in [Engine -> Thread] /\ runner'[f] = x /\ \A e \in Engine \ {f} : runner'[e] = runner[e]
  BY <1>1, <1>2, <1>3 DEF IInv, TypeOK
<1> QED
  BY <1>1, <1>2, <1>4 DEF f

LEMMA AcceptedFacts ==
  ASSUME IInv, NEW s \in Scan, Accepted(s)
  PROVE  /\ s \in calls /\ calls' = calls \ {s} /\ Placed(s) /\ Quiet(s) /\ <<"arm", s>> \notin late
         /\ scan[s].at \notin {"none", "queued", "attest", "again"}
         /\ \A e \in Engine : runner[e].job # s
  BY Typed DEF Accepted, Placed

LEMMA PrepareZapStep ==
  ASSUME IInv, NEW s \in Scan, PrepareZap(s) PROVE IInv'
<1>1. /\ Accepted(s) /\ scan[s].engine = "zap" /\ Holds(s, "arming")
      /\ UNCHANGED <<scan, answer, drifted, process, guard, network, faults>>
  BY DEF PrepareZap
<1>2. /\ s \in calls /\ calls' = calls \ {s} /\ Placed(s) /\ Quiet(s) /\ <<"arm", s>> \notin late
      /\ scan[s].at \notin {"none", "queued", "attest", "again"}
      /\ \A e \in Engine : runner[e].job # s
  BY <1>1, AcceptedFacts
<1>3. /\ runner' \in [Engine -> Thread]
      /\ runner'["zap"].job = s /\ runner'["nuclei"] = runner["nuclei"]
      /\ \A e \in Engine : \A q \in Scan \ {s} :
           runner'[e].job = q => runner[e].job = q /\ runner'[e].at = runner[e].at
  BY <1>1, HoldsMoves DEF Engine
<1>4. TypeOK'
  BY <1>1, <1>2, <1>3 DEF IInv, TypeOK, network
<1>5. Placed(s)'
  <2>1. Quiet(s)'
    BY <1>1, <1>2 DEF Quiet, network
  <2>2. \A e \in Engine : e # "zap" => runner'[e].job # s
    BY <1>2, <1>3 DEF Engine
  <2> QED
    BY <1>1, <1>2, <1>3, <2>1, <2>2 DEF Placed, network, Engine
<1>6. \A q \in Scan : Placed(q)'
  BY <1>1, <1>2, <1>3, <1>5, PlacedMoves DEF network
<1>7. \A q \in Scan : Own(q)'
  BY <1>1 DEF IInv, Own, Mine, network
<1>8. \A q \in Scan : q \in calls' \/ runner'["zap"].job = q => q \in calls \/ runner["zap"].job = q
  BY <1>2, <1>3 DEF Engine
<1> QED
  BY <1>1, <1>4, <1>6, <1>7, <1>8, Unanswered, ScansStay DEF IInv

LEMMA PrepareFailsStep ==
  ASSUME IInv, NEW s \in Scan, PrepareFails(s) PROVE IInv'
<1>1. /\ Accepted(s) /\ Reply(s, Failed) /\ faults' \in Nat
      /\ UNCHANGED <<scan, runner, drifted, process, guard, network>>
  BY DEF PrepareFails, Fault, IInv, TypeOK
<1>2. /\ s \in calls /\ calls' = calls \ {s} /\ Placed(s)
  BY <1>1, AcceptedFacts
<1>3. /\ answer' \in [Scan -> Answer] /\ \A q \in Scan : OfItsOwn(q, answer'[q])
      /\ \A q \in Scan : scan[q].at # "sent" => answer'[q] = NoAnswer
  BY <1>1, Blank, Replied
<1>4. TypeOK'
  BY <1>1, <1>2, <1>3 DEF IInv, TypeOK, network
<1>5. Placed(s)'
  BY <1>1, <1>2 DEF Placed, Quiet, network
<1>6. \A q \in Scan : Placed(q)'
  BY <1>1, <1>2, <1>5, PlacedMoves DEF network
<1>7. \A q \in Scan : Own(q)'
  BY <1>1 DEF IInv, Own, Mine, network
<1>8. \A q \in Scan : q \in calls' \/ runner'["zap"].job = q => q \in calls \/ runner["zap"].job = q
  BY <1>1, <1>2
<1> QED
  BY <1>1, <1>3, <1>4, <1>6, <1>7, <1>8, ScansStay DEF IInv

LEMMA StartNucleiStep ==
  ASSUME IInv, NEW s \in Scan, StartNuclei(s) PROVE IInv'
<1>1. /\ Accepted(s) /\ scan[s].engine = "nuclei" /\ Holds(s, "run") /\ Spawn(s)
      /\ UNCHANGED <<scan, answer, drifted, guard, network, faults>>
  BY DEF StartNuclei
<1>2. /\ s \in calls /\ calls' = calls \ {s} /\ Placed(s) /\ Quiet(s) /\ <<"arm", s>> \notin late
      /\ scan[s].at \notin {"none", "queued", "attest", "again"}
      /\ \A e \in Engine : runner[e].job # s
  BY <1>1, AcceptedFacts
<1>3. /\ runner' \in [Engine -> Thread]
      /\ runner'["nuclei"].job = s /\ runner'["nuclei"].at = "run" /\ runner'["zap"] = runner["zap"]
      /\ \A e \in Engine : \A q \in Scan \ {s} :
           runner'[e].job = q => runner[e].job = q /\ runner'[e].at = runner[e].at
  BY <1>1, HoldsMoves DEF Engine
<1> DEFINE x == [NoProcess EXCEPT !.alive = TRUE]
<1>4. x \in Program /\ x.got = {}
  BY DEF NoProcess, Program
<1>5. /\ process' \in [Scan -> Program] /\ process'[s] = x
      /\ \A q \in Scan \ {s} : process'[q] = process[q]
  BY <1>1, <1>4 DEF Spawn, IInv, TypeOK
<1> HIDE DEF x
<1>6. TypeOK'
  BY <1>1, <1>2, <1>3, <1>5 DEF IInv, TypeOK, network
<1>7. Placed(s)'
  <2>1. \A e \in Engine : e # "nuclei" => runner'[e].job # s
    BY <1>2, <1>3 DEF Engine
  <2> QED
    BY <1>1, <1>2, <1>3, <2>1 DEF Placed, network
<1>8. \A q \in Scan : Placed(q)'
  BY <1>1, <1>2, <1>3, <1>5, <1>7, PlacedMoves DEF network
<1>9. \A q \in Scan : Mine(q)' \subseteq Mine(q)
  BY <1>1, <1>4, <1>5 DEF Mine, network
<1>10. \A q \in Scan : Own(q)'
  BY <1>1, <1>9, OwnStays
<1>11. \A q \in Scan : q \in calls' \/ runner'["zap"].job = q => q \in calls \/ runner["zap"].job = q
  BY <1>2, <1>3
<1> QED
  BY <1>1, <1>6, <1>8, <1>10, <1>11, Unanswered, ScansStay DEF IInv

(* A run ends: the lock is released, and nothing is forwarded.             *)
LEMMA RunEnds ==
  ASSUME IInv, NEW s \in Scan, NEW r \in Answer, Reply(s, r), OfItsOwn(s, r),
         runner[scan[s].engine].job = s, UNCHANGED <<scan, calls, drifted, wire, upstream>>,
         \/ process' = [process EXCEPT ![s] = IF @.alive THEN @ ELSE NoProcess]
         \/ process' = [process EXCEPT ![s] = NoProcess],
         runner' = [runner EXCEPT ![scan[s].engine] = Idle(@.ready)],
         guard' \in Traffic, guard'.armed => guard'.token # Free,
         \/ guard'.token = Free
         \/ /\ guard'.token = guard.token /\ guard'.forwarded = guard.forwarded
            /\ guard'.from = guard.from,
         late' \subseteq late \cup {<<"arm", s>>, <<"disarm", s>>},
         <<"arm", s>> \in late' => Quiet(s), faults' \in Nat
  PROVE  IInv'
<1> DEFINE e == scan[s].engine
<1>1. e \in Engine /\ Placed(s) /\ runner[e].job = s
  BY Typed
<1>2. /\ process' \in [Scan -> Program] /\ runner' \in [Engine -> Thread]
      /\ \A q \in Scan : process'[q] \in {process[q], NoProcess}
      /\ \A q \in Scan \ {s} : process'[q] = process[q]
      /\ runner'[e].job = Free
      /\ \A f \in Engine : \A q \in Scan : runner'[f].job = q =>
           f # e /\ runner[f].job = q /\ runner'[f].at = runner[f].at
  BY <1>1, Finished
<1>3. /\ answer' \in [Scan -> Answer] /\ \A q \in Scan : OfItsOwn(q, answer'[q])
      /\ \A q \in Scan : scan[q].at # "sent" => answer'[q] = NoAnswer
  BY Replied
<1>4. TypeOK'
  <2>1. late' \in SUBSET ({"arm", "disarm"} \X Scan)
    BY DEF IInv, TypeOK
  <2> QED
    BY <1>2, <1>3, <2>1 DEF IInv, TypeOK
<1>5. Placed(s)'
  <2>1. Quiet(s) => Quiet(s)'
    BY <1>2 DEF Quiet
  <2>2. scan[s].at \notin {"none", "queued", "attest", "again"} /\ s \notin calls
    BY <1>1 DEF Placed
  <2>3. \A f \in Engine : runner'[f].job = s => f # e /\ runner[f].job = s
    BY <1>2
  <2>4. \A f \in Engine : runner[f].job = s => e = f
    BY <1>1 DEF Placed
  <2>5. \A f \in Engine : runner'[f].job # s
    BY <2>3, <2>4
  <2> HIDE DEF e
  <2> QED
    BY <2>1, <2>2, <2>5 DEF Placed, Engine
<1>6. \A q \in Scan : Placed(q)'
  BY <1>2, <1>5, PlacedMoves, ZenonT(60)
<1>7. \A q \in Scan : Mine(q)' \subseteq Mine(q)
  BY <1>2, MineStays
<1>8. \A q \in Scan : Own(q)'
  BY <1>7, OwnStays
<1>9. \A q \in Scan : q \in calls' \/ runner'["zap"].job = q => q \in calls \/ runner["zap"].job = q
  BY <1>2 DEF Engine
<1> QED
  BY <1>3, <1>4, <1>6, <1>8, <1>9, ScansStay

(* Who holds the lock of ZAP's runner goes on.                             *)
LEMMA RunGoesOn ==
  ASSUME IInv, NEW s \in Scan, runner["zap"].job = s,
         UNCHANGED <<scan, calls, answer, drifted, wire, upstream>>,
         runner' \in [Engine -> Thread], runner'["zap"].job = s, runner'["zap"].at # "arming",
         runner'["nuclei"] = runner["nuclei"],
         process' \in [Scan -> Program], \A q \in Scan \ {s} : process'[q] = process[q],
         guard' \in Traffic, guard'.armed => guard'.token # Free, \A q \in Scan : Own(q)',
         late' \subseteq late \cup {<<"disarm", s>>}, faults' \in Nat
  PROVE  IInv'
<1>1. Placed(s)
  BY Typed
<1>2. TypeOK'
  <2>1. late' \in SUBSET ({"arm", "disarm"} \X Scan)
    BY DEF IInv, TypeOK
  <2> QED
    BY <2>1 DEF IInv, TypeOK
<1>3. <<"arm", s>> \notin late' /\ \A q \in Scan : <<"arm", q>> \in late' => <<"arm", q>> \in late
  BY <1>1 DEF Placed, Engine
<1>4. Placed(s)'
  BY <1>1, <1>3 DEF Placed, Engine
<1>5. \A e \in Engine : \A q \in Scan \ {s} :
        runner'[e].job = q => runner[e].job = q /\ runner'[e].at = runner[e].at
  BY DEF Engine
<1>6. \A q \in Scan : Placed(q)'
  BY <1>3, <1>4, <1>5, PlacedMoves
<1> QED
  BY <1>2, <1>6, Unanswered, ScansStay

(* Only ZAP's runner arms and disarms.                                     *)
LEMMA AtIsZap ==
  ASSUME IInv, NEW s \in Scan, NEW phase, At(s, phase)
  PROVE  /\ runner[scan[s].engine].job = s /\ Placed(s)
         /\ phase # "run" => scan[s].engine = "zap"
         /\ scan[s].engine = "zap" => runner["zap"].job = s /\ runner["zap"].at = phase
         /\ phase = "arming" => Quiet(s)
<1>1. /\ runner[scan[s].engine].job = s /\ Placed(s) /\ runner[scan[s].engine].at = phase
      /\ scan[s].engine \in Engine
  BY Typed DEF At
<1> QED
  BY <1>1 DEF Placed, Engine

(* The guard forgets what it counted before.                               *)
LEMMA ArmsMoves ==
  ASSUME IInv, NEW s \in Scan, guard' = Armed(s), Mine(s)' = {}
  PROVE  guard' \in Traffic /\ guard'.token # Free /\ \A q \in Scan : Own(q)'
<1>1. scan[s].target \in Acceptance \cup {"unsteady", "writing"}
  BY Typed
<1>2. Projected(scan[s].target) \subseteq Operation
  BY <1>1, Constants
<1>3. guard' \in Traffic /\ guard'.token = s /\ guard'.forwarded = 0 /\ guard'.from = {}
  BY <1>2 DEF Armed, Disarmed, Traffic
<1>4. Own(s)'
  BY <1>3, FS_EmptySet DEF Own
<1>5. \A q \in Scan \ {s} : Own(q)'
  BY <1>3 DEF Own
<1> QED
  BY <1>3, <1>4, <1>5, Constants

LEMMA Disarms ==
  ASSUME IInv, NEW s, Disarm(s)
  PROVE  /\ guard' \in Traffic /\ (guard'.armed => guard'.token # Free)
         /\ \/ guard'.token = Free
            \/ /\ guard'.token = guard.token /\ guard'.forwarded = guard.forwarded
               /\ guard'.from = guard.from
<1>1. Disarmed.token = Free /\ ~Disarmed.armed
  BY DEF Disarmed
<1> QED
  BY <1>1, Blank DEF Disarm, IInv, TypeOK

LEMMA ArmRefusedStep ==
  ASSUME IInv, NEW s \in Scan, ArmRefused(s) PROVE IInv'
<1>1. /\ At(s, "arming") /\ Finish(s, Failed)
      /\ UNCHANGED <<scan, calls, drifted, guard, network, faults>>
  BY DEF ArmRefused
<1>2. runner[scan[s].engine].job = s /\ Placed(s) /\ Quiet(s)
  BY <1>1, AtIsZap
<1>3. guard' \in Traffic /\ (guard'.armed => guard'.token # Free) /\ faults' \in Nat
  BY <1>1 DEF IInv, TypeOK
<1> QED
  BY <1>1, <1>2, <1>3, Blank, RunEnds DEF Finish, network

LEMMA ArmAndSpawnStep ==
  ASSUME IInv, NEW s \in Scan, ArmAndSpawn(s) PROVE IInv'
<1>1. /\ At(s, "arming") /\ guard' = Armed(s) /\ faults' \in Nat
      /\ \/ Holds(s, "run") /\ Spawn(s)
         \/ Holds(s, "net") /\ UNCHANGED process
      /\ UNCHANGED <<scan, calls, answer, drifted, network>>
  <2>1. faults' \in Nat
    BY DEF ArmAndSpawn, Fault, IInv, TypeOK
  <2> QED
    BY <2>1 DEF ArmAndSpawn
<1>2. scan[s].engine = "zap" /\ runner["zap"].job = s /\ Quiet(s)
  BY <1>1, AtIsZap
<1>3. /\ runner' \in [Engine -> Thread] /\ runner'["zap"].job = s /\ runner'["zap"].at # "arming"
      /\ runner'["nuclei"] = runner["nuclei"]
  <2>1. CASE Holds(s, "run")
    BY <1>2, <2>1, HoldsMoves DEF Engine
  <2>2. CASE Holds(s, "net")
    BY <1>2, <2>2, HoldsMoves DEF Engine
  <2> QED
    BY <1>1, <2>1, <2>2
<1>4. /\ process' \in [Scan -> Program] /\ process'[s].got = {}
      /\ \A q \in Scan \ {s} : process'[q] = process[q]
  <2> DEFINE x == [NoProcess EXCEPT !.alive = TRUE]
  <2>1. x \in Program /\ x.got = {}
    BY DEF NoProcess, Program
  <2>2. process' = process \/ process' = [process EXCEPT ![s] = x]
    BY <1>1 DEF Spawn
  <2>3. process[s].got = {}
    BY <1>2, Blank DEF Quiet
  <2> HIDE DEF x
  <2> QED
    BY <2>1, <2>2, <2>3 DEF IInv, TypeOK
<1>5. Mine(s)' = {}
  BY <1>1, <1>2, <1>4 DEF Mine, Quiet, network
<1>6. guard' \in Traffic /\ guard'.token # Free /\ \A q \in Scan : Own(q)'
  BY <1>1, <1>5, ArmsMoves
<1> QED
  BY <1>1, <1>2, <1>3, <1>4, <1>6, RunGoesOn DEF network

LEMMA ArmLostStep ==
  ASSUME IInv, NEW s \in Scan, ArmLost(s) PROVE IInv'
<1>1. /\ At(s, "arming") /\ Finish(s, Failed) /\ late' = late \cup {<<"arm", s>>} /\ faults' \in Nat
      /\ UNCHANGED <<scan, calls, drifted, guard, wire, upstream>>
  BY DEF ArmLost, Fault, IInv, TypeOK
<1>2. runner[scan[s].engine].job = s /\ Quiet(s)
  BY <1>1, AtIsZap
<1>3. guard' \in Traffic /\ (guard'.armed => guard'.token # Free)
  BY <1>1 DEF IInv, TypeOK
<1> QED
  BY <1>1, <1>2, <1>3, Blank, RunEnds DEF Finish

LEMMA ZapExitedStep ==
  ASSUME IInv, NEW s \in Scan, ZapExited(s) PROVE IInv'
<1> DEFINE exit == IF process[s].clean THEN "clean" ELSE "other"
<1>1. /\ At(s, "run") /\ scan[s].engine = "zap" /\ Leaves(s, exit)
      /\ UNCHANGED <<scan, calls, answer, drifted, process, guard, network, faults>>
  BY DEF ZapExited
<1>2. runner["zap"].job = s /\ runner["zap"] \in Thread
  BY <1>1, AtIsZap DEF IInv, TypeOK, Engine
<1>3. exit \in {"clean", "other"}
  OBVIOUS
<1> HIDE DEF exit
<1> DEFINE x == [runner["zap"] EXCEPT !.at = "disarm", !.exit = exit]
<1>4. x \in Thread /\ x.job = s /\ x.at = "disarm"
  BY <1>2, <1>3 DEF Thread
<1>5. runner' = [runner EXCEPT !["zap"] = x]
  BY <1>1 DEF Leaves, IInv, TypeOK, Engine
<1> HIDE DEF x
<1>6. /\ runner' \in [Engine -> Thread] /\ runner'["zap"].job = s /\ runner'["zap"].at # "arming"
      /\ runner'["nuclei"] = runner["nuclei"]
  BY <1>4, <1>5 DEF IInv, TypeOK, Engine
<1>7. /\ \A q \in Scan : Own(q)' /\ process' \in [Scan -> Program] /\ guard' \in Traffic
      /\ (guard'.armed => guard'.token # Free) /\ faults' \in Nat
  BY <1>1 DEF IInv, TypeOK, Own, Mine, network
<1> QED
  BY <1>1, <1>2, <1>6, <1>7, RunGoesOn DEF network

LEMMA ZapStoppedStep ==
  ASSUME IInv, NEW s \in Scan, ZapStopped(s) PROVE IInv'
<1>1. /\ At(s, "run") /\ scan[s].engine = "zap" /\ Leaves(s, "other") /\ Kill(s)
      /\ UNCHANGED <<scan, calls, answer, drifted, guard, network, faults>>
  BY DEF ZapStopped
<1>2. runner["zap"].job = s /\ runner["zap"] \in Thread
  BY <1>1, AtIsZap DEF IInv, TypeOK, Engine
<1> DEFINE x == [runner["zap"] EXCEPT !.at = "disarm", !.exit = "other"]
<1>4. x \in Thread /\ x.job = s /\ x.at = "disarm"
  BY <1>2 DEF Thread
<1>5. runner' = [runner EXCEPT !["zap"] = x]
  BY <1>1 DEF Leaves, IInv, TypeOK, Engine
<1> HIDE DEF x
<1>6. /\ runner' \in [Engine -> Thread] /\ runner'["zap"].job = s /\ runner'["zap"].at # "arming"
      /\ runner'["nuclei"] = runner["nuclei"]
  BY <1>4, <1>5 DEF IInv, TypeOK, Engine
<1>7. /\ process' \in [Scan -> Program] /\ \A q \in Scan : process'[q] \in {process[q], NoProcess}
      /\ \A q \in Scan \ {s} : process'[q] = process[q]
  BY <1>1, Blank DEF Kill, IInv, TypeOK
<1>8. \A q \in Scan : Mine(q)' \subseteq Mine(q)
  BY <1>1, <1>7, MineStays DEF network
<1>9. \A q \in Scan : Own(q)'
  BY <1>1, <1>8, OwnStays
<1>10. guard' \in Traffic /\ (guard'.armed => guard'.token # Free) /\ faults' \in Nat
  BY <1>1 DEF IInv, TypeOK
<1> QED
  BY <1>1, <1>2, <1>6, <1>7, <1>9, <1>10, RunGoesOn DEF network

LEMMA WatchFailsStep ==
  ASSUME IInv, NEW s \in Scan, WatchFails(s) PROVE IInv'
<1>1. /\ At(s, "run") /\ scan[s].engine = "zap" /\ Holds(s, "net") /\ faults' \in Nat
      /\ UNCHANGED <<scan, calls, answer, drifted, process, guard, network>>
  BY DEF WatchFails, Fault, IInv, TypeOK
<1>2. runner["zap"].job = s
  BY <1>1, AtIsZap
<1>3. /\ runner' \in [Engine -> Thread] /\ runner'["zap"].job = s /\ runner'["zap"].at # "arming"
      /\ runner'["nuclei"] = runner["nuclei"]
  BY <1>1, HoldsMoves DEF Engine
<1>4. /\ \A q \in Scan : Own(q)' /\ process' \in [Scan -> Program] /\ guard' \in Traffic
      /\ (guard'.armed => guard'.token # Free)
  BY <1>1 DEF IInv, TypeOK, Own, Mine, network
<1> QED
  BY <1>1, <1>2, <1>3, <1>4, RunGoesOn DEF network

LEMMA DisarmLostStep ==
  ASSUME IInv, NEW s \in Scan, DisarmLost(s) PROVE IInv'
<1>1. /\ At(s, "disarm") /\ Holds(s, "net") /\ faults' \in Nat /\ late' = late \cup {<<"disarm", s>>}
      /\ UNCHANGED <<scan, calls, answer, drifted, process, guard, wire, upstream>>
  BY DEF DisarmLost, Fault, IInv, TypeOK
<1>2. runner["zap"].job = s /\ scan[s].engine = "zap"
  BY <1>1, AtIsZap
<1>3. /\ runner' \in [Engine -> Thread] /\ runner'["zap"].job = s /\ runner'["zap"].at # "arming"
      /\ runner'["nuclei"] = runner["nuclei"]
  BY <1>1, <1>2, HoldsMoves DEF Engine
<1>4. /\ \A q \in Scan : Own(q)' /\ process' \in [Scan -> Program] /\ guard' \in Traffic
      /\ (guard'.armed => guard'.token # Free)
  BY <1>1 DEF IInv, TypeOK, Own, Mine
<1> QED
  BY <1>1, <1>2, <1>3, <1>4, RunGoesOn

LEMMA SafetyNetStep ==
  ASSUME IInv, NEW s \in Scan, SafetyNet(s) PROVE IInv'
<1>1. /\ At(s, "net") /\ Finish(s, Failed) /\ faults' \in Nat
      /\ Disarm(s) \/ UNCHANGED guard
      /\ late' \subseteq late \cup {<<"disarm", s>>}
      /\ UNCHANGED <<scan, calls, drifted, wire, upstream>>
  BY DEF SafetyNet, Fault, IInv, TypeOK
<1>2. runner[scan[s].engine].job = s /\ <<"arm", s>> \notin late
  BY <1>1, AtIsZap DEF Placed, Engine
<1>3. <<"arm", s>> \notin late'
  BY <1>1, <1>2
<1>4. /\ guard' \in Traffic /\ (guard'.armed => guard'.token # Free)
      /\ \/ guard'.token = Free
         \/ /\ guard'.token = guard.token /\ guard'.forwarded = guard.forwarded
            /\ guard'.from = guard.from
  BY <1>1, Disarms DEF IInv, TypeOK
<1> QED
  BY <1>1, <1>2, <1>3, <1>4, Blank, RunEnds DEF Finish

(* What the runner answers for a completed execution is its own.           *)
LEMMA ClassifiedIsOwn ==
  ASSUME IInv, NEW s \in Scan, NEW exit, guard.token = s, Classify(s, exit, guard),
         runner["zap"].job = s
  PROVE  guard.from = {s}
<1> DEFINE ops == Projected(scan[s].target)
<1>1. process[s].got = ops /\ guard.forwarded = Cardinality(ops)
  BY DEF Classify
<1>2. Own(s) /\ Placed(s) /\ Budgeted(s) /\ scan[s].target \in Acceptance \cup {"unsteady", "writing"}
  BY Typed
<1>3. ops # {} /\ guard.from \subseteq Scan
  BY <1>2 DEF Placed, Budgeted, Engine, IInv, TypeOK, Traffic
<1>4. ops \subseteq Mine(s) /\ IsFiniteSet(Mine(s)) /\ Cardinality(Mine(s)) \in Nat
  BY <1>1, FewAreMine DEF Mine
<1> HIDE DEF ops
<1>5. Cardinality(ops) <= Cardinality(Mine(s)) /\ Cardinality(ops) \in Nat
  BY <1>4, FS_Subset, FS_CardinalityType
<1>6. ~(Cardinality(Mine(s)) < guard.forwarded)
  BY <1>1, <1>4, <1>5
<1>7. guard.from \subseteq {s} /\ s \in guard.from
  BY <1>2, <1>3, <1>4, <1>6 DEF Own
<1> QED
  BY <1>7

LEMMA DisarmAndAnswerStep ==
  ASSUME IInv, NEW s \in Scan, DisarmAndAnswer(s) PROVE IInv'
<1>1. At(s, "disarm") /\ Disarm(s) /\ UNCHANGED <<scan, calls, drifted, network, faults>>
  BY DEF DisarmAndAnswer
<1>2. runner[scan[s].engine].job = s /\ <<"arm", s>> \notin late /\ scan[s].engine = "zap"
      /\ runner["zap"].job = s
  BY <1>1, AtIsZap DEF Placed, Engine
<1>3. /\ guard' \in Traffic /\ (guard'.armed => guard'.token # Free)
      /\ \/ guard'.token = Free
         \/ /\ guard'.token = guard.token /\ guard'.forwarded = guard.forwarded
            /\ guard'.from = guard.from
  BY <1>1, Disarms
<1>4. faults' \in Nat
  BY <1>1 DEF IInv, TypeOK
<1>5. PICK r \in Answer : Finish(s, r) /\ OfItsOwn(s, r)
  <2>1. CASE guard.token # s
    BY <2>1, Blank DEF DisarmAndAnswer
  <2>2. CASE guard.token = s
    <3>1. PICK found \in Parsed(s) : Finish(s, ZapAnswer(s, runner["zap"].exit, found))
      BY <2>2 DEF DisarmAndAnswer
    <3> DEFINE exit == runner["zap"].exit
    <3>2. CASE ~(Classify(s, exit, guard) /\ found # Malformed)
      BY <3>1, <3>2, Blank DEF ZapAnswer
    <3>3. CASE Classify(s, exit, guard) /\ found # Malformed
      <4> DEFINE r == Response("COMPLETED", found, TRUE, guard)
      <4>1. Finish(s, r)
        BY <3>1, <3>3 DEF ZapAnswer
      <4>2. found \in Report
        <5>1. scan[s].target \in Acceptance \cup {"unsteady", "writing"}
          BY Typed
        <5>2. \A o \in Projected(scan[s].target) : o[2] \in {"control", "scenario"}
          BY <5>1, Constants
        <5> QED
          BY <3>3, <5>2 DEF Parsed, Report
      <4>3. r \in Answer /\ r.status = "COMPLETED" /\ r.traffic = guard
        BY <4>2 DEF Response, Answer, IInv, TypeOK
      <4>4. guard.from = {s}
        BY <1>2, <2>2, <3>3, ClassifiedIsOwn
      <4>5. OfItsOwn(s, r)
        BY <1>2, <2>2, <4>3, <4>4 DEF OfItsOwn
      <4> QED
        BY <4>1, <4>3, <4>5
    <3> QED
      BY <3>2, <3>3
  <2> QED
    BY <2>1, <2>2
<1> QED
  BY <1>1, <1>2, <1>3, <1>4, <1>5, RunEnds DEF Finish, network

LEMMA NucleiParsed ==
  ASSUME NEW s \in Scan, scan[s].engine = "nuclei", NEW lines
  PROVE  NucleiParse(lines) \in Answer /\ OfItsOwn(s, NucleiParse(lines))
<1>1. CASE NucleiParse(lines) = Failed
  BY <1>1, Blank
<1>2. CASE NucleiParse(lines) # Failed
  <2> DEFINE l == CHOOSE l \in lines : TRUE
             found == IF l.matched THEN {"scenario"} ELSE {}
             r == Response("COMPLETED", found, ~l.error, Disarmed)
  <2>1. NucleiParse(lines) = r
    BY <1>2 DEF NucleiParse
  <2>2. found \in Report /\ found \in {{}, {"scenario"}}
    BY DEF Report
  <2>3. (~l.error) \in BOOLEAN
    OBVIOUS
  <2> HIDE DEF found, l
  <2>4. r \in Answer /\ r.found = found
    BY <2>2, <2>3, Blank DEF Response, Answer
  <2> HIDE DEF r
  <2> QED
    BY <2>1, <2>2, <2>4 DEF OfItsOwn
<1> QED
  BY <1>1, <1>2

LEMMA NucleiExitedStep ==
  ASSUME IInv, NEW s \in Scan, NucleiExited(s) PROVE IInv'
<1>1. /\ At(s, "run") /\ scan[s].engine = "nuclei"
      /\ UNCHANGED <<scan, calls, drifted, guard, network, faults>>
  BY DEF NucleiExited
<1>2. runner[scan[s].engine].job = s /\ <<"arm", s>> \notin late
  BY <1>1, AtIsZap DEF Placed, Engine
<1>3. PICK r \in Answer : Finish(s, r) /\ OfItsOwn(s, r)
  <2>1. PICK lines \in SUBSET Line : Finish(s, IF process[s].clean THEN NucleiParse(lines) ELSE Failed)
    BY DEF NucleiExited
  <2> QED
    BY <1>1, <2>1, NucleiParsed, Blank
<1>4. guard' \in Traffic /\ (guard'.armed => guard'.token # Free) /\ faults' \in Nat
  BY <1>1 DEF IInv, TypeOK
<1> QED
  BY <1>1, <1>2, <1>3, <1>4, RunEnds DEF Finish, network

LEMMA NucleiTimeoutStep ==
  ASSUME IInv, NEW s \in Scan, NucleiTimeout(s) PROVE IInv'
<1>1. /\ At(s, "run") /\ scan[s].engine = "nuclei" /\ Kill(s) /\ Reply(s, Failed)
      /\ runner' = [runner EXCEPT ![scan[s].engine] = Idle(@.ready)]
      /\ UNCHANGED <<scan, calls, drifted, guard, network, faults>>
  BY DEF NucleiTimeout
<1>2. runner[scan[s].engine].job = s /\ <<"arm", s>> \notin late
  BY <1>1, AtIsZap DEF Placed, Engine
<1>3. guard' \in Traffic /\ (guard'.armed => guard'.token # Free) /\ faults' \in Nat
  BY <1>1 DEF IInv, TypeOK
<1> QED
  BY <1>1, <1>2, <1>3, Blank, RunEnds DEF Kill, network

-----------------------------------------------------------------------------
(* The guard, ZAP, and what happens to a container.                        *)

(* Nobody's place changes but to let go of it.                             *)
LEMMA PlacedStays ==
  ASSUME IInv, UNCHANGED scan, calls' \subseteq calls,
         \A e \in Engine, q \in Scan : runner'[e].job = q =>
           runner[e].job = q /\ runner'[e].at = runner[e].at,
         \A q \in Scan : <<"arm", q>> \in late' => <<"arm", q>> \in late,
         \A q \in Scan : Quiet(q) => Quiet(q)'
  PROVE  /\ \A q \in Scan : Placed(q)'
         /\ \A q \in Scan : q \in calls' \/ runner'["zap"].job = q => q \in calls \/ runner["zap"].job = q
<1> USE DEF Engine
<1>1. ASSUME NEW q \in Scan PROVE Placed(q)'
  <2>1. Placed(q) /\ (Quiet(q) => Quiet(q)')
    BY Typed
  <2>2. \A e \in Engine : runner'[e].job = q => runner[e].job = q /\ runner'[e].at = runner[e].at
    OBVIOUS
  <2>3. <<"arm", q>> \in late' => <<"arm", q>> \in late
    OBVIOUS
  <2>4. q \in calls' => q \in calls
    OBVIOUS
  <2> QED
    BY <2>1, <2>2, <2>3, <2>4 DEF Placed
<1> QED
  BY <1>1

LEMMA QuietStays ==
  ASSUME IInv, wire' \cup upstream' \subseteq wire \cup upstream,
         \A q \in Scan : process'[q] \in {process[q], NoProcess} \/ process[q].alive
  PROVE  \A q \in Scan : Quiet(q) => Quiet(q)'
  BY Blank DEF Quiet

LEMMA ReadLateStep ==
  ASSUME IInv, NEW c \in late, ReadLate(c) PROVE IInv'
<1>1. /\ late' = late \ {c}
      /\ UNCHANGED <<scan, calls, answer, runner, drifted, process, wire, upstream, faults>>
      /\ c[1] \in {"arm", "disarm"} /\ c[2] \in Scan /\ c = <<c[1], c[2]>>
  BY DEF ReadLate, IInv, TypeOK
<1>2. \A q \in Scan : Quiet(q) => Quiet(q)'
  BY <1>1, QuietStays
<1>3. /\ \A q \in Scan : Placed(q)'
      /\ \A q \in Scan : q \in calls' \/ runner'["zap"].job = q => q \in calls \/ runner["zap"].job = q
  BY <1>1, <1>2, PlacedStays
<1>4. \A q \in Scan : Mine(q)' = Mine(q)
  BY <1>1 DEF Mine
<1>5. guard' \in Traffic /\ (guard'.armed => guard'.token # Free) /\ \A q \in Scan : Own(q)'
  <2>1. CASE c[1] = "arm" /\ ~guard.armed
    <3>1. guard' = Armed(c[2])
      BY <2>1 DEF ReadLate
    <3>2. Quiet(c[2])
      BY <1>1, <2>1, Typed DEF Placed
    <3>3. Mine(c[2])' = {}
      <4>1. process[c[2]].got = {}
        BY <3>2, Blank DEF Quiet
      <4>2. \A o : <<c[2], o>> \notin upstream
        BY <3>2 DEF Quiet
      <4> QED
        BY <1>1, <1>4, <4>1, <4>2 DEF Mine
    <3> QED
      BY <1>1, <3>1, <3>3, ArmsMoves
  <2>2. CASE c[1] = "arm" /\ guard.armed
    <3>1. guard' = guard
      BY <2>2 DEF ReadLate
    <3> QED
      BY <1>4, <3>1, OwnStays DEF IInv, TypeOK
  <2>3. CASE c[1] # "arm"
    <3>1. Disarm(c[2])
      BY <2>3 DEF ReadLate
    <3> QED
      BY <1>4, <3>1, Disarms, OwnStays
  <2> QED
    BY <2>1, <2>2, <2>3
<1>6. TypeOK'
  BY <1>1, <1>5 DEF IInv, TypeOK
<1> QED
  BY <1>1, <1>3, <1>5, <1>6, Unanswered, ScansStay

LEMMA ExpireStep ==
  ASSUME IInv, Expire PROVE IInv'
<1>1. /\ guard' = [guard EXCEPT !.armed = FALSE]
      /\ UNCHANGED <<scan, calls, answer, runner, drifted, process, network, faults>>
  BY DEF Expire
<1>2. \A q \in Scan : Quiet(q) => Quiet(q)'
  BY <1>1, QuietStays DEF network
<1>3. /\ \A q \in Scan : Placed(q)'
      /\ \A q \in Scan : q \in calls' \/ runner'["zap"].job = q => q \in calls \/ runner["zap"].job = q
  BY <1>1, <1>2, PlacedStays DEF network
<1>4. /\ guard' \in Traffic /\ ~guard'.armed /\ guard'.token = guard.token
      /\ guard'.forwarded = guard.forwarded /\ guard'.from = guard.from
  BY <1>1 DEF IInv, TypeOK, Traffic
<1>5. \A q \in Scan : Own(q)'
  BY <1>1, <1>4, OwnStays DEF Mine, network
<1>6. TypeOK'
  BY <1>1, <1>4 DEF IInv, TypeOK, network
<1> QED
  BY <1>1, <1>3, <1>4, <1>5, <1>6, Unanswered, ScansStay

LEMMA AskStep ==
  ASSUME IInv, NEW s \in Scan, NEW o \in Operation \cup {Elsewhere}, Ask(s, o) PROVE IInv'
<1> DEFINE x == [process[s] EXCEPT !.asked = @ + 1]
<1>1. /\ process[s].alive /\ process' = [process EXCEPT ![s] = x] /\ wire' = wire \cup {<<s, o>>}
      /\ UNCHANGED <<scan, calls, answer, runner, drifted, guard, upstream, late, faults>>
  BY DEF Ask
<1>2. process[s] \in Program
  BY Typed
<1>3. x \in Program /\ x.got = process[s].got
  BY <1>2 DEF Program
<1> HIDE DEF x
<1>4. /\ process' \in [Scan -> Program] /\ process'[s] = x
      /\ \A q \in Scan \ {s} : process'[q] = process[q]
  BY <1>1, <1>3 DEF IInv, TypeOK
<1>5. \A q \in Scan : Quiet(q) => Quiet(q)'
  <2> TAKE q \in Scan
  <2>1. CASE q = s
    BY <1>1, <2>1, Blank DEF Quiet
  <2>2. CASE q # s
    <3>1. \A w \in wire' \cup upstream' : w[1] = q => w \in wire \cup upstream
      BY <1>1, <2>2
    <3> QED
      BY <1>4, <2>2, <3>1 DEF Quiet
  <2> QED
    BY <2>1, <2>2
<1>6. /\ \A q \in Scan : Placed(q)'
      /\ \A q \in Scan : q \in calls' \/ runner'["zap"].job = q => q \in calls \/ runner["zap"].job = q
  BY <1>1, <1>5, PlacedStays
<1>7. \A q \in Scan : Own(q)'
  <2>1. \A q \in Scan : Mine(q)' \subseteq Mine(q)
    BY <1>1, <1>3, <1>4 DEF Mine
  <2> QED
    BY <1>1, <2>1, OwnStays
<1>8. TypeOK'
  <2>1. wire' \in SUBSET Asked
    BY <1>1 DEF Asked, IInv, TypeOK
  <2> QED
    BY <1>1, <1>4, <2>1 DEF IInv, TypeOK
<1> QED
  BY <1>1, <1>6, <1>7, <1>8, Unanswered, ScansStay DEF IInv

(* One more is forwarded: to the execution's own, or beside them.          *)
LEMMA ForwardMoves ==
  ASSUME IInv, NEW q \in Asked, guard.armed, Allowed(q), Forward(q), process' = process
  PROVE  guard' \in Traffic /\ guard'.token = guard.token /\ \A p \in Scan : Own(p)'
<1> DEFINE n == [guard.count EXCEPT ![q[2]] = @ + 1]
           x == [guard EXCEPT !.forwarded = @ + 1, !.count = n, !.from = @ \cup {q[1]}]
<1>1. guard \in Traffic /\ q[1] \in Scan /\ q[2] \in guard.allow /\ q[2] \in Operation
      /\ q = <<q[1], q[2]>>
  BY DEF IInv, TypeOK, Traffic, Allowed, Asked
<1>2. guard' = x
  BY <1>1 DEF Forward
<1>3. n \in [Operation -> Nat]
  BY <1>1 DEF Traffic
<1> HIDE DEF n
<1>4. /\ x \in Traffic /\ x.token = guard.token /\ x.forwarded = guard.forwarded + 1
      /\ x.from = guard.from \cup {q[1]} /\ guard.forwarded \in Nat
  <2>1. guard.forwarded \in Nat /\ guard.forwarded + 1 \in Nat /\ guard.from \cup {q[1]} \in SUBSET Scan
    BY <1>1 DEF Traffic
  <2> DEFINE k == guard.forwarded + 1
             f == guard.from \cup {q[1]}
  <2>2. x = [guard EXCEPT !.forwarded = k, !.count = n, !.from = f]
    OBVIOUS
  <2>3. k \in Nat /\ f \in SUBSET Scan
    BY <2>1
  <2> HIDE DEF k, f, x
  <2>4. x \in Traffic /\ x.token = guard.token /\ x.forwarded = k /\ x.from = f
    BY <1>1, <1>3, <2>2, <2>3 DEF Traffic
  <2> QED
    BY <2>1, <2>4 DEF k, f
<1> HIDE DEF x
<1>5. ASSUME NEW p \in Scan PROVE Own(p)'
  <2>1. Own(p) /\ IsFiniteSet(Mine(p)) /\ Cardinality(Mine(p)) \in Nat
    BY Typed, FewAreMine
  <2>2. CASE q[1] = p
    <3>1. Mine(p)' = Mine(p) \cup {q[2]}
      <4>1. \A o : <<p, o>> \in upstream' <=> <<p, o>> \in upstream \/ o = q[2]
        BY <1>1, <2>2 DEF Forward
      <4> QED
        BY <1>1, <4>1 DEF Mine
    <3> DEFINE m == Cardinality(Mine(p))
               k == Cardinality(Mine(p)')
    <3>2. k <= m + 1 /\ k \in Nat /\ m \in Nat
      <4>1. Cardinality(Mine(p) \cup {q[2]}) \in {m, m + 1}
        BY <2>1, FS_AddElement
      <4> HIDE DEF m
      <4>2. k \in {m, m + 1}
        BY <3>1, <4>1
      <4>3. m \in Nat
        BY <2>1 DEF m
      <4> HIDE DEF k
      <4> QED
        BY <4>2, <4>3
    <3>3. guard.token = p => m <= guard.forwarded /\ (~(guard.from \subseteq {p}) => m < guard.forwarded)
      BY <2>1 DEF Own
    <3> HIDE DEF m, k
    <3>4. guard.token = p => k <= guard.forwarded + 1
            /\ (~(guard.from \subseteq {p}) => k < guard.forwarded + 1)
      BY <1>4, <3>2, <3>3
    <3>5. guard'.from = guard.from \cup {p}
      BY <1>2, <1>4, <2>2
    <3> QED
      BY <1>2, <1>4, <3>4, <3>5 DEF Own, k
  <2>3. CASE q[1] # p
    <3>1. Mine(p)' = Mine(p)
      <4>1. \A o : <<p, o>> \in upstream' <=> <<p, o>> \in upstream
        BY <1>1, <2>3 DEF Forward
      <4> QED
        BY <4>1 DEF Mine
    <3> QED
      BY <1>2, <1>4, <2>1, <3>1 DEF Own
  <2> QED
    BY <2>2, <2>3
<1> QED
  BY <1>2, <1>4, <1>5

LEMMA AdmitStep ==
  ASSUME IInv, NEW q \in wire, Admit(q) PROVE IInv'
<1>1. /\ wire' = wire \ {q}
      /\ UNCHANGED <<scan, calls, answer, runner, drifted, process, late, faults>>
      /\ \/ UNCHANGED <<guard, upstream>>
         \/ Block /\ UNCHANGED upstream
         \/ guard.armed /\ Allowed(q) /\ Forward(q)
  BY DEF Admit
<1>2. q \in Asked /\ upstream' \subseteq upstream \cup {q}
  BY <1>1 DEF Forward, IInv, TypeOK
<1>3. \A p \in Scan : Quiet(p) => Quiet(p)'
  <2>1. wire' \cup upstream' \subseteq wire \cup upstream
    BY <1>1, <1>2
  <2> QED
    BY <1>1, <2>1, QuietStays
<1>4. /\ \A p \in Scan : Placed(p)'
      /\ \A p \in Scan : p \in calls' \/ runner'["zap"].job = p => p \in calls \/ runner["zap"].job = p
  BY <1>1, <1>3, PlacedStays
<1>5. guard' \in Traffic /\ guard'.token = guard.token /\ (guard'.armed => guard.armed)
      /\ \A p \in Scan : Own(p)'
  <2>1. CASE UNCHANGED <<guard, upstream>>
    BY <1>1, <2>1 DEF IInv, TypeOK, Own, Mine
  <2>2. CASE Block /\ UNCHANGED upstream
    <3>1. /\ guard' \in Traffic /\ guard'.token = guard.token /\ guard'.forwarded = guard.forwarded
          /\ guard'.from = guard.from /\ guard'.armed = guard.armed
      BY <2>2 DEF Block, IInv, TypeOK, Traffic
    <3> QED
      BY <1>1, <2>2, <3>1, OwnStays DEF Mine
  <2>3. CASE guard.armed /\ Allowed(q) /\ Forward(q)
    BY <1>1, <1>2, <2>3, ForwardMoves
  <2> QED
    BY <1>1, <2>1, <2>2, <2>3
<1>6. TypeOK'
  BY <1>1, <1>2, <1>5 DEF IInv, TypeOK
<1> QED
  BY <1>1, <1>4, <1>5, <1>6, Unanswered, ScansStay DEF IInv

LEMMA RelayStep ==
  ASSUME IInv, NEW q \in upstream, Relay(q) PROVE IInv'
<1> DEFINE s == q[1]
           x == [process[s] EXCEPT !.got = @ \cup {q[2]}]
<1>1. /\ upstream' = upstream \ {q}
      /\ UNCHANGED <<scan, calls, answer, runner, drifted, wire, late, faults>>
      /\ \/ process' = process
         \/ process[s].alive /\ process' = [process EXCEPT ![s] = x]
      /\ guard' \in {guard, [guard EXCEPT !.unsteady = TRUE]}
  BY DEF Relay, Gets, Counted
<1>2. s \in Scan /\ q[2] \in Operation \cup {Elsewhere} /\ q = <<s, q[2]>>
  BY DEF IInv, TypeOK, Asked
<1>3. x \in Program /\ x.got = process[s].got \cup {q[2]}
  BY <1>2, Typed DEF Program
<1> HIDE DEF x, s
<1>4. /\ process' \in [Scan -> Program]
      /\ \A p \in Scan : process'[p] = process[p] \/ (p = s /\ process[p].alive /\ process'[p] = x)
  BY <1>1, <1>2, <1>3 DEF IInv, TypeOK
<1>5. \A p \in Scan : Quiet(p) => Quiet(p)'
  BY <1>1, <1>4, QuietStays
<1>6. /\ \A p \in Scan : Placed(p)'
      /\ \A p \in Scan : p \in calls' \/ runner'["zap"].job = p => p \in calls \/ runner["zap"].job = p
  BY <1>1, <1>5, PlacedStays
<1>7. /\ guard' \in Traffic /\ guard'.token = guard.token /\ guard'.forwarded = guard.forwarded
      /\ guard'.from = guard.from /\ guard'.armed = guard.armed
  BY <1>1 DEF IInv, TypeOK, Traffic
<1>8. \A p \in Scan : Mine(p)' \subseteq Mine(p)
  <2> TAKE p \in Scan
  <2>1. CASE process'[p] = process[p]
    BY <1>1, <2>1 DEF Mine
  <2>2. CASE p = s /\ process'[p] = x
    <3>1. q[2] \in Mine(p)
      BY <1>2, <2>2 DEF Mine
    <3> QED
      BY <1>1, <1>3, <2>2, <3>1 DEF Mine
  <2> QED
    BY <1>4, <2>1, <2>2
<1>9. \A p \in Scan : Own(p)'
  BY <1>7, <1>8, OwnStays
<1>10. TypeOK'
  BY <1>1, <1>4, <1>7 DEF IInv, TypeOK
<1> QED
  BY <1>1, <1>6, <1>7, <1>9, <1>10, Unanswered, ScansStay DEF IInv

LEMMA EngineEndsStep ==
  ASSUME IInv, NEW s \in Scan, EngineEnds(s) PROVE IInv'
<1> DEFINE x == [process[s] EXCEPT !.alive = FALSE, !.asked = 0, !.clean = TRUE]
<1>1. /\ process[s].alive
      /\ UNCHANGED <<scan, calls, answer, runner, drifted, guard, network, faults>>
      /\ \E y \in {x, NoProcess} : process' = [process EXCEPT ![s] = y]
  <2>1. \/ process' = [process EXCEPT ![s] = x]
        \/ process' = [process EXCEPT ![s] = NoProcess]
    BY DEF EngineEnds, IInv, TypeOK
  <2> QED
    BY <2>1 DEF EngineEnds
<1>2. x \in Program /\ x.got = process[s].got
  BY Typed DEF Program
<1> HIDE DEF x
<1>3. PICK y \in {x, NoProcess} : process' = [process EXCEPT ![s] = y]
  BY <1>1
<1>4. y \in Program /\ y.got \subseteq process[s].got
  BY <1>2, Blank
<1>5. /\ process' \in [Scan -> Program] /\ process'[s] = y
      /\ \A p \in Scan \ {s} : process'[p] = process[p]
  BY <1>3, <1>4 DEF IInv, TypeOK
<1>6. \A p \in Scan : Quiet(p) => Quiet(p)'
  BY <1>1, <1>5, QuietStays DEF network
<1>7. /\ \A p \in Scan : Placed(p)'
      /\ \A p \in Scan : p \in calls' \/ runner'["zap"].job = p => p \in calls \/ runner["zap"].job = p
  BY <1>1, <1>6, PlacedStays DEF network
<1>8. \A p \in Scan : Mine(p)' \subseteq Mine(p)
  <2> TAKE p \in Scan
  <2>1. process'[p].got \subseteq process[p].got
    BY <1>4, <1>5
  <2> QED
    BY <1>1, <2>1 DEF Mine, network
<1>9. \A p \in Scan : Own(p)'
  BY <1>1, <1>8, OwnStays
<1>10. TypeOK'
  BY <1>1, <1>5 DEF IInv, TypeOK, network
<1> QED
  BY <1>1, <1>7, <1>9, <1>10, Unanswered, ScansStay DEF IInv

LEMMA DriftStep ==
  ASSUME IInv, NEW e \in Engine, Drift(e) PROVE IInv'
<1>1. /\ drifted' = drifted \cup {e} /\ faults' \in Nat
      /\ UNCHANGED <<scan, calls, answer, runner, process, guard, network>>
  BY DEF Drift, Fault, IInv, TypeOK
<1>2. \A p \in Scan : Quiet(p) => Quiet(p)'
  BY <1>1, QuietStays DEF network
<1>3. /\ \A p \in Scan : Placed(p)'
      /\ \A p \in Scan : p \in calls' \/ runner'["zap"].job = p => p \in calls \/ runner["zap"].job = p
  BY <1>1, <1>2, PlacedStays DEF network
<1>4. \A p \in Scan : Own(p)'
  BY <1>1 DEF IInv, Own, Mine, network
<1>5. TypeOK'
  BY <1>1 DEF IInv, TypeOK, network
<1> QED
  BY <1>1, <1>3, <1>4, <1>5, Unanswered, ScansStay DEF IInv

LEMMA RestartRunnerStep ==
  ASSUME IInv, NEW e \in Engine, RestartRunner(e) PROVE IInv'
<1>1. PICK ready \in Attests(e) : runner' = [runner EXCEPT ![e] = Idle(ready)]
  BY DEF RestartRunner
<1>2. /\ process' = [s \in Scan |-> IF scan[s].engine = e THEN NoProcess ELSE process[s]]
      /\ calls' \subseteq calls /\ faults' \in Nat
      /\ UNCHANGED <<scan, answer, drifted, guard, network>>
  BY DEF RestartRunner, Fault, IInv, TypeOK
<1>3. Idle(ready) \in Thread /\ Idle(ready).job = Free
  <2>1. ready \in BOOLEAN
    BY <1>1 DEF Attests, ZapAttests, NucleiAttests
  <2> QED
    BY <2>1 DEF Idle, Thread
<1>4. /\ runner' \in [Engine -> Thread] /\ runner'[e].job = Free
      /\ \A f \in Engine \ {e} : runner'[f] = runner[f]
  BY <1>1, <1>3 DEF IInv, TypeOK
<1>5. \A f \in Engine, q \in Scan : runner'[f].job = q =>
        runner[f].job = q /\ runner'[f].at = runner[f].at
  BY <1>4, Constants
<1>6. process' \in [Scan -> Program] /\ \A q \in Scan : process'[q] \in {process[q], NoProcess}
  BY <1>2, Blank DEF IInv, TypeOK
<1>7. \A p \in Scan : Quiet(p) => Quiet(p)'
  BY <1>2, <1>6, QuietStays DEF network
<1>8. /\ \A p \in Scan : Placed(p)'
      /\ \A p \in Scan : p \in calls' \/ runner'["zap"].job = p => p \in calls \/ runner["zap"].job = p
  BY <1>2, <1>5, <1>7, PlacedStays DEF network
<1>9. \A p \in Scan : Mine(p)' \subseteq Mine(p)
  BY <1>2, <1>6, MineStays DEF network
<1>10. \A p \in Scan : Own(p)'
  BY <1>2, <1>9, OwnStays
<1>11. TypeOK'
  BY <1>2, <1>4, <1>6 DEF IInv, TypeOK, network
<1> QED
  BY <1>2, <1>8, <1>10, <1>11, Unanswered, ScansStay DEF IInv

LEMMA RestartGuardStep ==
  ASSUME IInv, RestartGuard PROVE IInv'
<1>1. /\ guard' = Disarmed /\ wire' = {} /\ upstream' = {} /\ late' = {} /\ faults' \in Nat
      /\ UNCHANGED <<scan, calls, answer, runner, drifted, process>>
  BY DEF RestartGuard, Fault, IInv, TypeOK
<1>2. \A p \in Scan : Quiet(p) => Quiet(p)'
  BY <1>1, QuietStays
<1>3. /\ \A p \in Scan : Placed(p)'
      /\ \A p \in Scan : p \in calls' \/ runner'["zap"].job = p => p \in calls \/ runner["zap"].job = p
  BY <1>1, <1>2, PlacedStays
<1>4. Disarmed.token = Free /\ ~Disarmed.armed
  BY DEF Disarmed
<1>5. \A p \in Scan : Own(p)'
  BY <1>1, <1>4, OwnStays DEF Mine
<1>6. TypeOK'
  BY <1>1, Blank DEF IInv, TypeOK
<1> QED
  BY <1>1, <1>3, <1>4, <1>5, <1>6, Unanswered, ScansStay

-----------------------------------------------------------------------------

LEMMA InitIInv == Init => IInv
<1> SUFFICES ASSUME Init PROVE IInv
  OBVIOUS
<1>1. NoScan \in Result /\ NoScan.at = "none" /\ NoScan.status = "NONE" /\ NoScan.engine = "zap"
      /\ NoScan.target \in Acceptance
  BY Blank DEF NoScan, Result, Engine, Acceptance
<1>2. Idle(TRUE) \in Thread /\ Idle(TRUE).job = Free
  BY DEF Idle, Thread
<1>3. Disarmed.token = Free /\ ~Disarmed.armed
  BY DEF Disarmed
<1>4. TypeOK
  BY <1>1, <1>2, Blank DEF Init, TypeOK
<1>5. ASSUME NEW s \in Scan PROVE Placed(s) /\ Budgeted(s) /\ Own(s) /\ Judged(s) /\ Earned(s)
  <2>1. scan[s] = NoScan /\ answer[s] = NoAnswer /\ (\A e \in Engine : runner[e].job = Free)
        /\ process[s] = NoProcess
    BY <1>2 DEF Init
  <2>2. s # Free
    BY Constants
  <2>3. Placed(s)
    BY <1>1, <2>1, <2>2 DEF Init, Placed, Quiet, Engine
  <2>4. Budgeted(s)
    BY <1>1, <2>1, <2>2 DEF Init, Budgeted, Engine
  <2>5. Own(s)
    BY <1>3, <2>2 DEF Init, Own
  <2>6. Judged(s) /\ Earned(s)
    BY <1>1, <2>1, Blank DEF Judged, Earned
  <2> QED
    BY <2>3, <2>4, <2>5, <2>6
<1> QED
  BY <1>3, <1>4, <1>5, AllEarned DEF IInv, Init

LEMMA StutterStep == ASSUME IInv, UNCHANGED vars PROVE IInv'
<1>1. UNCHANGED <<scan, calls, answer, runner, drifted, process, guard, network, faults>>
  BY DEF vars
<1>2. TypeOK'
  BY <1>1 DEF IInv, TypeOK, network
<1>3. \A q \in Scan : Placed(q)' /\ Own(q)'
  <2>1. \A q \in Scan : Quiet(q) => Quiet(q)'
    BY <1>1, QuietStays DEF network
  <2>2. \A q \in Scan : Placed(q)'
    BY <1>1, <2>1, PlacedStays DEF network
  <2> QED
    BY <1>1, <2>2 DEF IInv, Own, Mine, network
<1> QED
  BY <1>1, <1>2, <1>3, Unanswered, ScansStay DEF IInv

LEMMA NextIInv == IInv /\ [Next]_vars => IInv'
<1> SUFFICES ASSUME IInv, [Next]_vars PROVE IInv'
  OBVIOUS
<1>1. CASE \E s \in Scan :
             \/ Create(s) \/ Start(s) \/ Attested(s) \/ AttestLost(s) \/ GiveUp(s)
             \/ Refuse(s) \/ PrepareZap(s) \/ PrepareFails(s) \/ StartNuclei(s)
  BY <1>1, CreateStep, StartStep, AttestedStep, AttestLostStep, GiveUpStep, RefuseStep,
     PrepareZapStep, PrepareFailsStep, StartNucleiStep
<1>2. CASE \E s \in Scan :
             \/ ArmRefused(s) \/ ArmAndSpawn(s) \/ ArmLost(s)
             \/ \E o \in Operation \cup {Elsewhere} : Ask(s, o)
             \/ EngineEnds(s) \/ ZapExited(s) \/ ZapStopped(s) \/ WatchFails(s)
  BY <1>2, ArmRefusedStep, ArmAndSpawnStep, ArmLostStep, AskStep, EngineEndsStep, ZapExitedStep,
     ZapStoppedStep, WatchFailsStep
<1>3. CASE \E s \in Scan :
             \/ DisarmAndAnswer(s) \/ DisarmLost(s) \/ SafetyNet(s)
             \/ NucleiExited(s) \/ NucleiTimeout(s) \/ Answered(s) \/ Verified(s)
  BY <1>3, DisarmAndAnswerStep, DisarmLostStep, SafetyNetStep, NucleiExitedStep,
     NucleiTimeoutStep, AnsweredStep, VerifiedStep
<1>4. CASE \E c \in late : ReadLate(c)
  BY <1>4, ReadLateStep
<1>5. CASE \E q \in wire : Admit(q)
  BY <1>5, AdmitStep
<1>6. CASE \E q \in upstream : Relay(q)
  BY <1>6, RelayStep
<1>7. CASE \E e \in Engine : Drift(e) \/ RestartRunner(e)
  BY <1>7, DriftStep, RestartRunnerStep
<1>8. CASE Expire \/ RestartGuard
  BY <1>8, ExpireStep, RestartGuardStep
<1>9. CASE UNCHANGED vars
  BY <1>9, StutterStep
<1> QED
  BY <1>1, <1>2, <1>3, <1>4, <1>5, <1>6, <1>7, <1>8, <1>9 DEF Next

LEMMA Invariance == Spec => []IInv
  BY InitIInv, NextIInv, PTL DEF Spec

-----------------------------------------------------------------------------

(* Every part keeps its type.                                              *)
THEOREM TypeCorrect == Spec => []TypeOK
<1>1. IInv => TypeOK
  BY DEF IInv
<1> QED
  BY <1>1, Invariance, PTL

(* A verdict needs what the engine covered and what the controller saw for *)
(* itself, whatever runner and guard lose, repeat or answer late           *)
(* (_zap_flow, _nuclei_flow).                                              *)
THEOREM VerdictsAreEarned == Spec => []VerdictEarned
<1>1. IInv => VerdictEarned
  BY DEF IInv
<1> QED
  BY <1>1, Invariance, PTL

(* The traffic of a completed ZAP execution is its own, however many       *)
(* requests of earlier processes still reach the guard (classify).         *)
THEOREM TrafficBelongs == Spec => []TrafficIsOwn
<1>1. IInv => TrafficIsOwn
  BY Typed DEF TrafficIsOwn, Judged, OfItsOwn
<1> QED
  BY <1>1, Invariance, PTL

=============================================================================
