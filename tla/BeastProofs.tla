---------------------------- MODULE BeastProofs ----------------------------
(***************************************************************************)
(* Theorems about Beast, for any number of runs, presses of the stop and   *)
(* open requests, whatever fails.                                          *)
(***************************************************************************)
EXTENDS Beast, FiniteSetTheorems, TLAPS

(* Every value the parts may have.                                         *)
Run0   == Run \cup {0}
Copy   == [state : {"NONE", "QUEUED", "RUNNING", "STOPPED", "INCOMPLETE", "VERIFIED", "REVIEW_REQUIRED"},
           stopped : BOOLEAN, verdict : BOOLEAN, clean : BOOLEAN]
Job    == [at : {"none", "created", "destroying", "done"} \cup Awaiting, session : BOOLEAN,
           commands : Nat, copy : Copy]
Press  == [run : Run0, waiting : BOOLEAN]
Open   == [at : {"free", "body", "forwarding"}, run : Run0]

TypeOK ==
  /\ lease \in [Run -> {"NONE", "ACTIVE", "CONSUMED", "EXPIRED", "REVOKED"}]
  /\ late \in SUBSET Run /\ target \in [Run -> Target]
  /\ runs \in [Run -> Copy] /\ blocked \in SUBSET Target
  /\ serving \in BOOLEAN /\ restoring \in SUBSET Target
  /\ task \in [Run -> Job] /\ stop \in [Stop -> Press]
  /\ session \in Run0 /\ process \in Run0 /\ alive \in SUBSET Run
  /\ create \in [Run -> {"none", "sent", "checked", "ok", "failed"}]
  /\ execute \in [Run -> {"none", "sent", "running", "ok", "failed"}]
  /\ destroy \in [Caller -> {"none", "sent", "killed", "ok", "failed"}]
  /\ armed \in Run0 /\ connections \in Nat /\ active \in Nat
  /\ request \in [Request -> Open]

(* Who holds the one place: a run that was admitted and is not stopped, as *)
(* long as its task has not saved an end.                                  *)
Holds(r) ==
  /\ lease[r] \in {"NONE", "ACTIVE", "EXPIRED"} =>
       runs[r].state = "NONE" /\ ~runs[r].stopped /\ task[r].at = "none"
  /\ task[r].at = "created" => runs[r].state = "QUEUED" /\ ~runs[r].stopped
  /\ task[r].at \in Awaiting \cup {"destroying"} => runs[r].stopped \/ runs[r].state = "RUNNING"
  /\ task[r].at \in Awaiting => task[r].copy.state = "RUNNING"
  /\ runs[r].stopped => runs[r].state = "STOPPED"
  /\ task[r].copy.stopped => runs[r].stopped
Admitted == (\A q, r \in Busy : q = r) /\ \A r \in Run : Holds(r)

(* The calls of a run come in their order, and what was called was created.*)
Ordered(r) ==
  /\ task[r].at \in {"none", "created"} => create[r] = "none"
  /\ task[r].at \in {"none", "created", "creating"} =>
       ~task[r].session /\ execute[r] = "none" /\ destroy[r] = "none"
  /\ task[r].at \in Awaiting \ {"creating"} \/ task[r].session \/ execute[r] # "none"
       \/ destroy[r] # "none" => create[r] = "ok"
  /\ task[r].at \in {"deciding", "verifying"} \/ task[r].copy.state = "VERIFIED"
       \/ runs[r].state = "VERIFIED" => execute[r] \in {"none", "ok"}
  /\ execute[r] \in {"none", "sent", "ok"} => r \notin alive
  /\ destroy[r] = "ok" => session # r
  /\ runs[r].state = "VERIFIED" =>
       task[r].at = "done" /\ runs[r].clean /\ lease[r] = "REVOKED" /\ destroy[r] = "ok"

(* What a press of the stop has done to the run it was pressed for.        *)
Pressed(s) ==
  /\ stop[s].run = 0 => destroy[s] = "none" /\ ~stop[s].waiting
  /\ stop[s].run # 0 => runs[stop[s].run].stopped
  /\ stop[s].run # 0 /\ destroy[s] = "ok" /\ session = stop[s].run => execute[session] = "none"

IInv == TypeOK /\ Admitted /\ (\A r \in Run : Ordered(r)) /\ \A s \in Stop : Pressed(s)

(* Each arming of the gateway forgets at most one ceiling of requests.     *)
Made == {r \in Run : create[r] \in {"ok", "failed"}}
Counted ==
  /\ active <= MaxConcurrency
  /\ Made = {} => armed = 0 /\ active = 0 /\ \A i \in Request : request[i].at = "free"
  /\ Made # {} =>
       Cardinality(InFlight) + MaxConcurrency <= active + MaxConcurrency * Cardinality(Made)

(* The gateway is armed for the session or for nobody, unless the creation *)
(* of the session could not arm it: then the sandbox is empty.             *)
Gate ==
  /\ alive \subseteq {process}
  /\ \/ armed \in {0, session}
     \/ session # 0 /\ create[session] = "failed" /\ process = 0 /\ alive = {}

-----------------------------------------------------------------------------
(* What the proofs keep needing.                                           *)

LEMMA Numbers ==
  /\ Run \subseteq Nat /\ Run0 \subseteq Nat /\ 0 \notin Run /\ IsFiniteSet(Run)
  /\ MaxConcurrency \in Nat \ {0} /\ MaxConnections \in Nat \ {0} /\ Stop \cap Run = {}
<1>1. MaxRun \in Nat
  BY BeastAssumption
<1>2. IsFiniteSet(Run)
  BY <1>1, FS_Interval DEF Run
<1>3. MaxConcurrency \in Nat \ {0} /\ MaxConnections \in Nat \ {0} /\ Stop \cap Run = {}
  BY BeastAssumption
<1> QED
  BY <1>1, <1>2, <1>3 DEF Run, Run0

LEMMA Typed ==
  ASSUME IInv, NEW r \in Run
  PROVE  /\ task[r] \in Job /\ task[r].copy \in Copy /\ runs[r] \in Copy
         /\ Holds(r) /\ Ordered(r)
         /\ task \in [Run -> Job] /\ runs \in [Run -> Copy]
  BY DEF IInv, TypeOK, Admitted, Job

(* Of the runs, only r moves; the sandbox stays as it is.                  *)
LEMMA RunMoves ==
  ASSUME IInv, NEW r \in Run,
         UNCHANGED <<late, target, stop, session, process, alive, gateway>>,
         serving' \in BOOLEAN, restoring' \in SUBSET Target, blocked' \in SUBSET Target,
         lease' \in [Run -> {"NONE", "ACTIVE", "CONSUMED", "EXPIRED", "REVOKED"}],
         runs' \in [Run -> Copy], task' \in [Run -> Job],
         create' \in [Run -> {"none", "sent", "checked", "ok", "failed"}],
         execute' \in [Run -> {"none", "sent", "running", "ok", "failed"}],
         destroy' \in [Caller -> {"none", "sent", "killed", "ok", "failed"}],
         \A q \in Run \ {r} : /\ lease'[q] = lease[q] /\ runs'[q] = runs[q] /\ task'[q] = task[q]
                              /\ create'[q] = create[q] /\ execute'[q] = execute[q]
                              /\ destroy'[q] = destroy[q],
         \A s \in Stop : destroy'[s] = destroy[s],
         Holds(r)', Ordered(r)',
         runs'[r].state \in {"QUEUED", "RUNNING"} => r \in Busy \/ Busy = {},
         runs[r].stopped => runs'[r].stopped /\ execute'[r] = execute[r]
  PROVE  IInv'
<1>1. TypeOK'
  BY DEF IInv, TypeOK, gateway
<1>2. Admitted'
  <2>1. \A q \in Run : Holds(q)'
    <3> TAKE q \in Run
    <3>1. CASE q = r
      BY <3>1
    <3>2. CASE q # r
      BY <3>2 DEF IInv, Admitted, Holds
    <3> QED
      BY <3>1, <3>2
  <2>2. \A p, q \in Busy' : p = q
    BY DEF IInv, Admitted, Busy
  <2> QED
    BY <2>1, <2>2 DEF Admitted
<1>3. \A q \in Run : Ordered(q)'
  <2> TAKE q \in Run
  <2>1. CASE q = r
    BY <2>1
  <2>2. CASE q # r
    BY <2>2 DEF IInv, Ordered
  <2> QED
    BY <2>1, <2>2
<1>4. ASSUME NEW s \in Stop PROVE Pressed(s)'
  <2>1. stop[s].run \in Run0 /\ session \in Run0 /\ Pressed(s)
    BY DEF IInv, TypeOK, Press
  <2>2. CASE stop[s].run = 0
    BY <2>1, <2>2 DEF Pressed
  <2>3. CASE stop[s].run = r
    BY <2>1, <2>3, Numbers DEF Pressed
  <2>4. CASE stop[s].run \in Run \ {r}
    BY <2>1, <2>4 DEF Pressed
  <2> QED
    BY <2>1, <2>2, <2>3, <2>4 DEF Run0
<1> QED
  BY <1>1, <1>2, <1>3, <1>4 DEF IInv

(* The end of the finally block.                                           *)
LEMMA FinishMoves ==
  ASSUME IInv, NEW r \in Run, NEW c \in Copy, NEW failed \in BOOLEAN, Finish(r, c, failed),
         task[r].at \in Awaiting \cup {"destroying"},
         UNCHANGED <<late, target, serving, stop, restoring, sandbox, gateway>>,
         c.stopped => runs[r].stopped,
         ~failed => c.clean /\ (c.state = "VERIFIED" => destroy[r] = "ok" /\ execute[r] \in {"none", "ok"})
  PROVE  IInv'
<1> DEFINE dirty == IF failed THEN [c EXCEPT !.clean = FALSE, !.state = "REVIEW_REQUIRED"] ELSE c
           last  == IF runs[r].stopped THEN [Stopped(dirty) EXCEPT !.verdict = FALSE] ELSE dirty
<1>1. /\ runs[r] \in Copy /\ task[r] \in Job /\ Holds(r) /\ Ordered(r)
      /\ runs[r].stopped \in BOOLEAN
  BY Typed DEF Copy
<1>2. dirty \in Copy /\ dirty.stopped = c.stopped
      /\ (dirty.state = "VERIFIED" => ~failed /\ c.state = "VERIFIED" /\ dirty.clean)
  <2>1. CASE failed
    BY <2>1 DEF Copy
  <2>2. CASE ~failed
    BY <2>2
  <2> QED
    BY <2>1, <2>2
<1>3. /\ last \in Copy
      /\ runs[r].stopped => last.stopped /\ last.state = "STOPPED"
      /\ ~runs[r].stopped => last = dirty /\ ~last.stopped
  <2> HIDE DEF dirty
  <2>1. CASE runs[r].stopped
    BY <1>2, <2>1 DEF Copy, Stopped
  <2>2. CASE ~runs[r].stopped
    BY <1>2, <2>2 DEF Copy
  <2> QED
    BY <2>1, <2>2
<1>4. /\ runs' = [runs EXCEPT ![r] = last]
      /\ lease' = [lease EXCEPT ![r] = "REVOKED"]
      /\ blocked' = IF failed \/ last.stopped THEN blocked \cup {target[r]} ELSE blocked
      /\ task' = [task EXCEPT ![r].at = "done", ![r].copy = last]
  BY DEF Finish
<1> DEFINE t == [task[r] EXCEPT !.at = "done", !.copy = last]
<1> HIDE DEF dirty, last
<1>5. t \in Job /\ t.at = "done" /\ t.copy = last /\ t.session = task[r].session
  BY <1>1, <1>3 DEF Job
<1>6. task' = [task EXCEPT ![r] = t]
  BY <1>4
<1> HIDE DEF t
<1>7. /\ runs' \in [Run -> Copy] /\ task' \in [Run -> Job]
      /\ lease' \in [Run -> {"NONE", "ACTIVE", "CONSUMED", "EXPIRED", "REVOKED"}]
      /\ blocked' \in SUBSET Target /\ serving' \in BOOLEAN /\ restoring' \in SUBSET Target
      /\ runs'[r] = last /\ task'[r] = t /\ lease'[r] = "REVOKED"
      /\ \A q \in Run \ {r} : lease'[q] = lease[q] /\ runs'[q] = runs[q] /\ task'[q] = task[q]
  <2>1. blocked' \in {blocked, blocked \cup {target[r]}} /\ target[r] \in Target /\ blocked \in SUBSET Target
    BY <1>4 DEF IInv, TypeOK
  <2>2. blocked' \in SUBSET Target
    BY <2>1
  <2>3. runs' \in [Run -> Copy] /\ runs'[r] = last /\ \A q \in Run \ {r} : runs'[q] = runs[q]
    BY <1>3, <1>4 DEF IInv, TypeOK
  <2>4. task' \in [Run -> Job] /\ task'[r] = t /\ \A q \in Run \ {r} : task'[q] = task[q]
    BY <1>5, <1>6 DEF IInv, TypeOK
  <2>5. /\ lease' \in [Run -> {"NONE", "ACTIVE", "CONSUMED", "EXPIRED", "REVOKED"}]
        /\ lease'[r] = "REVOKED" /\ \A q \in Run \ {r} : lease'[q] = lease[q]
    BY <1>4 DEF IInv, TypeOK
  <2> QED
    BY <2>2, <2>3, <2>4, <2>5 DEF IInv, TypeOK
<1>8. last.state = "VERIFIED" => /\ last.clean /\ destroy[r] = "ok" /\ execute[r] \in {"none", "ok"}
  BY <1>2, <1>3
<1>9. Holds(r)'
  BY <1>3, <1>5, <1>7 DEF Holds, Awaiting
<1>10. Ordered(r)'
  BY <1>1, <1>5, <1>7, <1>8 DEF Ordered, Awaiting, sandbox
<1>11. runs'[r].state \in {"QUEUED", "RUNNING"} => r \in Busy
  BY <1>1, <1>3, <1>7 DEF Holds, Busy
<1> QED
  BY <1>1, <1>3, <1>7, <1>9, <1>10, <1>11, RunMoves DEF IInv, TypeOK, sandbox

(* The finally block up to its await.                                      *)
LEMMA UnwindMoves ==
  ASSUME IInv, NEW r \in Run, NEW c \in Copy, NEW known \in BOOLEAN, Unwind(r, c, known),
         task[r].at \in Awaiting,
         UNCHANGED <<late, target, serving, stop, restoring, session, process, alive, create,
                     execute, gateway>>,
         known => create[r] = "ok",
         c.stopped => runs[r].stopped,
         c.state = "VERIFIED" => known /\ execute[r] \in {"none", "ok"}
  PROVE  IInv'
<1>1. task[r] \in Job /\ Holds(r) /\ Ordered(r) /\ runs[r] \in Copy
  BY Typed
<1>2. CASE known
  <2>1. /\ task' = [task EXCEPT ![r].at = "destroying", ![r].session = TRUE, ![r].copy = c]
        /\ destroy' = [destroy EXCEPT ![r] = "sent"] /\ UNCHANGED <<runs, lease, blocked>>
    BY <1>2 DEF Unwind
  <2> DEFINE t == [task[r] EXCEPT !.at = "destroying", !.session = TRUE, !.copy = c]
  <2>2. t \in Job /\ t.at = "destroying" /\ t.session /\ t.copy = c
    BY <1>1 DEF Job
  <2>3. task' = [task EXCEPT ![r] = t]
    BY <2>1
  <2> HIDE DEF t
  <2>4. /\ task' \in [Run -> Job] /\ task'[r] = t /\ \A q \in Run \ {r} : task'[q] = task[q]
        /\ destroy' \in [Caller -> {"none", "sent", "killed", "ok", "failed"}]
        /\ destroy'[r] = "sent" /\ \A q \in Caller \ {r} : destroy'[q] = destroy[q]
    <3>1. task' \in [Run -> Job] /\ task'[r] = t /\ \A q \in Run \ {r} : task'[q] = task[q]
      BY <2>2, <2>3 DEF IInv, TypeOK
    <3>2. r \in Caller
      BY DEF Caller
    <3>3. /\ destroy' \in [Caller -> {"none", "sent", "killed", "ok", "failed"}]
          /\ destroy'[r] = "sent" /\ \A q \in Caller \ {r} : destroy'[q] = destroy[q]
      BY <2>1, <3>2 DEF IInv, TypeOK
    <3> QED
      BY <3>1, <3>3
  <2>5. Run \ {r} \subseteq Caller \ {r} /\ Stop \subseteq Caller \ {r}
    BY Numbers DEF Caller
  <2>6. Holds(r)'
    BY <1>1, <2>1, <2>2, <2>4 DEF Holds, Awaiting
  <2>7. Ordered(r)'
    BY <1>1, <1>2, <2>1, <2>2, <2>4 DEF Ordered, Holds, Awaiting
  <2>8. runs[r].state \in {"QUEUED", "RUNNING"} => r \in Busy
    BY DEF Busy
  <2> QED
    BY <2>1, <2>4, <2>5, <2>6, <2>7, <2>8, RunMoves DEF IInv, TypeOK
<1>3. CASE ~known
  <2> DEFINE d == [c EXCEPT !.clean = TRUE]
  <2>1. d \in Copy /\ d.clean /\ d.stopped = c.stopped /\ d.state = c.state
    BY DEF Copy
  <2>2. Finish(r, d, FALSE) /\ UNCHANGED destroy
    BY <1>3 DEF Unwind
  <2> HIDE DEF d
  <2> QED
    BY <1>1, <1>3, <2>1, <2>2, FinishMoves DEF sandbox
<1> QED
  BY <1>2, <1>3

(* The except clause.                                                      *)
LEMMA RejectMoves ==
  ASSUME IInv, NEW r \in Run, NEW known \in BOOLEAN, Reject(r, known),
         task[r].at \in Awaiting,
         UNCHANGED <<late, target, serving, stop, restoring, session, process, alive, create,
                     execute, gateway>>,
         known => create[r] = "ok"
  PROVE  IInv'
<1> DEFINE c == IF runs[r].stopped THEN Stopped(task[r].copy) ELSE [task[r].copy EXCEPT !.state = "INCOMPLETE"]
<1>1. task[r].copy \in Copy /\ Holds(r)
  BY Typed
<1>2. c \in Copy /\ (c.stopped => runs[r].stopped) /\ c.state # "VERIFIED"
  <2>1. CASE runs[r].stopped
    BY <1>1, <2>1 DEF Copy, Stopped
  <2>2. CASE ~runs[r].stopped
    BY <1>1, <2>2 DEF Copy, Holds
  <2> QED
    BY <2>1, <2>2
<1>3. Unwind(r, c, known)
  BY DEF Reject
<1> HIDE DEF c
<1> QED
  BY <1>2, <1>3, UnwindMoves

(* The task goes on to another await, with the same copy.                  *)
LEMMA TaskGoesOn ==
  ASSUME IInv, NEW r \in Run, NEW t \in Job, task' = [task EXCEPT ![r] = t],
         task[r].at \in Awaiting, create[r] = "ok", ~runs[r].stopped,
         t.at \in Awaiting \ {"creating"}, t.copy = task[r].copy,
         UNCHANGED <<late, target, serving, stop, restoring, session, process, alive, create,
                     lease, blocked, destroy, gateway>>,
         runs' \in [Run -> Copy], runs'[r] \in {runs[r], task[r].copy},
         \A q \in Run \ {r} : runs'[q] = runs[q],
         execute' \in [Run -> {"none", "sent", "running", "ok", "failed"}],
         \A q \in Run \ {r} : execute'[q] = execute[q],
         IF t.at = "commanding" THEN execute'[r] = "sent" /\ execute[r] \in {"none", "ok"}
         ELSE execute'[r] = execute[r] /\ execute[r] \in {"none", "ok"}
  PROVE  IInv'
<1>1. task[r] \in Job /\ Holds(r) /\ Ordered(r) /\ runs[r] \in Copy /\ task[r].copy \in Copy
  BY Typed
<1>2. /\ task' \in [Run -> Job] /\ task'[r] = t /\ \A q \in Run \ {r} : task'[q] = task[q]
  BY DEF IInv, TypeOK
<1>3. runs'[r].state = "RUNNING" /\ ~runs'[r].stopped /\ runs[r].state = "RUNNING"
  BY <1>1 DEF Holds, Copy
<1>4. Holds(r)'
  BY <1>1, <1>2, <1>3 DEF Holds, Awaiting
<1>5. Ordered(r)'
  BY <1>1, <1>2, <1>3 DEF Ordered, Holds, Awaiting
<1>6. r \in Busy
  BY <1>3 DEF Busy
<1> QED
  BY <1>2, <1>3, <1>4, <1>5, <1>6, RunMoves DEF IInv, TypeOK

-----------------------------------------------------------------------------
(* The controller.                                                         *)

LEMMA IssueLeaseStep ==
  ASSUME IInv, NEW r \in Run, IssueLease(r) PROVE IInv'
<1>1. /\ UNCHANGED <<late, target, runs, blocked, control, sandbox, gateway>>
      /\ lease[r] = "NONE" /\ lease' = [lease EXCEPT ![r] = "ACTIVE"]
  BY DEF IssueLease
<1>2. Holds(r) /\ Ordered(r)
  BY Typed
<1>3. /\ lease' \in [Run -> {"NONE", "ACTIVE", "CONSUMED", "EXPIRED", "REVOKED"}]
      /\ lease'[r] = "ACTIVE" /\ \A q \in Run \ {r} : lease'[q] = lease[q]
  BY <1>1 DEF IInv, TypeOK
<1>4. Holds(r)' /\ Ordered(r)'
  BY <1>1, <1>2, <1>3 DEF Holds, Ordered, control, sandbox
<1> QED
  BY <1>1, <1>3, <1>4, RunMoves DEF IInv, TypeOK, control, sandbox, Busy

LEMMA RefuseExpiredStep ==
  ASSUME IInv, NEW r \in Run, RefuseExpired(r) PROVE IInv'
<1>1. /\ UNCHANGED <<late, target, runs, blocked, control, sandbox, gateway>>
      /\ lease[r] = "ACTIVE" /\ lease' = [lease EXCEPT ![r] = "EXPIRED"]
  BY DEF RefuseExpired
<1>2. Holds(r) /\ Ordered(r)
  BY Typed
<1>3. /\ lease' \in [Run -> {"NONE", "ACTIVE", "CONSUMED", "EXPIRED", "REVOKED"}]
      /\ lease'[r] = "EXPIRED" /\ \A q \in Run \ {r} : lease'[q] = lease[q]
  BY <1>1 DEF IInv, TypeOK
<1>4. Holds(r)' /\ Ordered(r)'
  BY <1>1, <1>2, <1>3 DEF Holds, Ordered, control, sandbox
<1> QED
  BY <1>1, <1>3, <1>4, RunMoves DEF IInv, TypeOK, control, sandbox, Busy

LEMMA CreateRunStep ==
  ASSUME IInv, NEW r \in Run, CreateRun(r) PROVE IInv'
<1>1. /\ UNCHANGED <<late, target, blocked, serving, stop, restoring, sandbox, gateway>>
      /\ lease[r] = "ACTIVE" /\ lease' = [lease EXCEPT ![r] = "CONSUMED"] /\ Busy = {}
      /\ runs' = [runs EXCEPT ![r].state = "QUEUED"]
      /\ task' = [task EXCEPT ![r].at = "created"]
  BY DEF CreateRun
<1>2. Holds(r) /\ Ordered(r) /\ task[r] \in Job /\ runs[r] \in Copy
  BY Typed
<1> DEFINE c == [runs[r] EXCEPT !.state = "QUEUED"]
           t == [task[r] EXCEPT !.at = "created"]
<1>3. c \in Copy /\ c.state = "QUEUED" /\ ~c.stopped
  BY <1>1, <1>2 DEF Copy, Holds
<1>4. t \in Job /\ t.at = "created" /\ t.copy = task[r].copy /\ t.session = task[r].session
  BY <1>2 DEF Job
<1>5. runs' = [runs EXCEPT ![r] = c] /\ task' = [task EXCEPT ![r] = t]
  BY <1>1
<1> HIDE DEF c, t
<1>6. /\ lease' \in [Run -> {"NONE", "ACTIVE", "CONSUMED", "EXPIRED", "REVOKED"}]
      /\ runs' \in [Run -> Copy] /\ task' \in [Run -> Job]
      /\ lease'[r] = "CONSUMED" /\ runs'[r] = c /\ task'[r] = t
      /\ \A q \in Run \ {r} : lease'[q] = lease[q] /\ runs'[q] = runs[q] /\ task'[q] = task[q]
  BY <1>1, <1>3, <1>4, <1>5 DEF IInv, TypeOK
<1>7. Holds(r)'
  BY <1>1, <1>2, <1>3, <1>4, <1>6 DEF Holds, Awaiting
<1>8. Ordered(r)'
  BY <1>1, <1>2, <1>3, <1>4, <1>6 DEF Ordered, Holds, Awaiting, sandbox
<1>9. ~runs[r].stopped
  BY <1>1, <1>2 DEF Holds
<1> QED
  BY <1>1, <1>6, <1>7, <1>8, <1>9, RunMoves DEF IInv, TypeOK, sandbox

LEMMA StartRunStep ==
  ASSUME IInv, NEW r \in Run, StartRun(r) PROVE IInv'
<1>1. /\ UNCHANGED <<lease, late, target, blocked, serving, stop, restoring,
                 session, process, alive, execute, destroy, gateway>>
      /\ task[r].at = "created" /\ create' = [create EXCEPT ![r] = "sent"]
  BY DEF StartRun
<1>2. Holds(r) /\ Ordered(r) /\ task[r] \in Job /\ runs[r] \in Copy
  BY Typed
<1> DEFINE c == [runs[r] EXCEPT !.state = "RUNNING"]
           t == [task[r] EXCEPT !.at = "creating", !.copy = c]
<1>3. c \in Copy /\ c.state = "RUNNING" /\ ~c.stopped
  BY <1>1, <1>2 DEF Copy, Holds
<1>4. runs' = [runs EXCEPT ![r] = c] /\ task' = [task EXCEPT ![r] = t]
  BY DEF StartRun
<1> HIDE DEF c
<1>5. t \in Job /\ t.at = "creating" /\ t.copy = c /\ t.session = task[r].session
  BY <1>2, <1>3 DEF Job, Awaiting
<1> HIDE DEF t
<1>6. /\ create' \in [Run -> {"none", "sent", "checked", "ok", "failed"}]
      /\ runs' \in [Run -> Copy] /\ task' \in [Run -> Job]
      /\ create'[r] = "sent" /\ runs'[r] = c /\ task'[r] = t
      /\ \A q \in Run \ {r} : create'[q] = create[q] /\ runs'[q] = runs[q] /\ task'[q] = task[q]
  BY <1>1, <1>3, <1>4, <1>5 DEF IInv, TypeOK
<1>7. Holds(r)'
  BY <1>1, <1>2, <1>3, <1>5, <1>6 DEF Holds, Awaiting
<1>8. Ordered(r)'
  BY <1>1, <1>2, <1>3, <1>5, <1>6 DEF Ordered, Holds, Awaiting
<1>9. ~runs[r].stopped /\ r \in Busy
  BY <1>1, <1>2 DEF Holds, Busy
<1> QED
  BY <1>1, <1>6, <1>7, <1>8, <1>9, RunMoves DEF IInv, TypeOK


LEMMA LoopMoves ==
  ASSUME IInv, NEW r \in Run, Loop(r), task[r].at = "creating", create[r] = "ok",
         UNCHANGED <<late, target, serving, stop, restoring, session, process, alive, create,
                     execute, gateway>>
  PROVE  IInv'
<1>1. task[r] \in Job /\ Holds(r) /\ Ordered(r) /\ task[r].at \in Awaiting
  BY Typed DEF Awaiting
<1>2. CASE Reject(r, TRUE)
  BY <1>1, <1>2, RejectMoves
<1>3. CASE /\ ~Stopping(r)
           /\ task' = [task EXCEPT ![r].at = "deciding", ![r].session = TRUE]
           /\ UNCHANGED <<runs, lease, blocked, destroy>>
  <2> DEFINE t == [task[r] EXCEPT !.at = "deciding", !.session = TRUE]
  <2>1. t \in Job /\ t.at = "deciding" /\ t.copy = task[r].copy
    BY <1>1 DEF Job, Awaiting
  <2>2. task' = [task EXCEPT ![r] = t]
    BY <1>3
  <2> HIDE DEF t
  <2>3. execute[r] = "none" /\ ~runs[r].stopped
    BY <1>1, <1>3 DEF Ordered, Stopping
  <2>4. /\ runs' \in [Run -> Copy] /\ execute' \in [Run -> {"none", "sent", "running", "ok", "failed"}]
        /\ runs' = runs /\ execute' = execute /\ t.at \in Awaiting \ {"creating"} /\ t.at # "commanding"
    BY <1>3, <2>1 DEF IInv, TypeOK, Awaiting
  <2> QED
    BY <1>1, <1>3, <2>1, <2>2, <2>3, <2>4, TaskGoesOn
<1> QED
  BY <1>2, <1>3 DEF Loop

LEMMA SessionAnsweredStep ==
  ASSUME IInv, NEW r \in Run, SessionAnswered(r) PROVE IInv'
<1>1. /\ task[r].at = "creating" /\ task[r].at \in Awaiting
      /\ UNCHANGED <<late, target, serving, stop, restoring,
                     session, process, alive, create, execute, gateway>>
  BY DEF SessionAnswered, Awaiting
<1>2. CASE create[r] = "ok" /\ Loop(r)
  BY <1>1, <1>2, LoopMoves
<1>3. CASE Reject(r, FALSE)
  BY <1>1, <1>3, RejectMoves
<1> QED
  BY <1>2, <1>3 DEF SessionAnswered

LEMMA DecisionAnsweredStep ==
  ASSUME IInv, NEW r \in Run, DecisionAnswered(r) PROVE IInv'
<1>1. /\ task[r].at = "deciding" /\ task[r].at \in Awaiting
      /\ UNCHANGED <<late, target, serving, stop, restoring,
                     session, process, alive, create, gateway>>
      /\ task[r] \in Job /\ Ordered(r)
  BY Typed DEF DecisionAnswered, Awaiting
<1>2. create[r] = "ok" /\ execute[r] \in {"none", "ok"}
  BY <1>1 DEF Ordered, Awaiting
<1>3. CASE Reject(r, TRUE) /\ UNCHANGED execute
  BY <1>1, <1>2, <1>3, RejectMoves
<1>4. CASE /\ ~Stopping(r)
           /\ task' = [task EXCEPT ![r].at = "commanding", ![r].commands = @ + 1]
           /\ execute' = [execute EXCEPT ![r] = "sent"]
           /\ UNCHANGED <<runs, lease, blocked, destroy>>
  <2> DEFINE t == [task[r] EXCEPT !.at = "commanding", !.commands = task[r].commands + 1]
  <2>1. task[r].commands + 1 \in Nat
    BY <1>1 DEF Job
  <2>2. t \in Job /\ t.at = "commanding" /\ t.copy = task[r].copy
    BY <1>1, <2>1 DEF Job, Awaiting
  <2>3. task' = [task EXCEPT ![r] = t]
    BY <1>4
  <2> HIDE DEF t
  <2>4. /\ execute' \in [Run -> {"none", "sent", "running", "ok", "failed"}]
        /\ execute'[r] = "sent" /\ \A q \in Run \ {r} : execute'[q] = execute[q]
        /\ runs' \in [Run -> Copy] /\ runs' = runs /\ t.at \in Awaiting \ {"creating"}
        /\ ~runs[r].stopped
    BY <1>4, <2>2 DEF IInv, TypeOK, Awaiting, Stopping
  <2> QED
    BY <1>1, <1>2, <1>4, <2>2, <2>3, <2>4, TaskGoesOn
<1>5. CASE /\ ~Stopping(r)
           /\ task' = [task EXCEPT ![r].at = "verifying"]
           /\ UNCHANGED <<runs, lease, blocked, destroy, execute>>
  <2> DEFINE t == [task[r] EXCEPT !.at = "verifying"]
  <2>1. t \in Job /\ t.at = "verifying" /\ t.copy = task[r].copy
    BY <1>1 DEF Job, Awaiting
  <2>2. task' = [task EXCEPT ![r] = t]
    BY <1>5
  <2> HIDE DEF t
  <2>3. /\ execute' \in [Run -> {"none", "sent", "running", "ok", "failed"}]
        /\ execute' = execute /\ runs' \in [Run -> Copy] /\ runs' = runs
        /\ t.at \in Awaiting \ {"creating"} /\ t.at # "commanding" /\ ~runs[r].stopped
    BY <1>5, <2>1 DEF IInv, TypeOK, Awaiting, Stopping
  <2> QED
    BY <1>1, <1>2, <1>5, <2>1, <2>2, <2>3, TaskGoesOn
<1> QED
  BY <1>3, <1>4, <1>5 DEF DecisionAnswered

(* The task saves its copy, with its end in it, and takes its sandbox down. *)
LEMMA SavesAndDestroys ==
  ASSUME IInv, NEW r \in Run, NEW c \in Copy, NEW d \in Copy,
         task[r].at = "commanding", runs' = [runs EXCEPT ![r] = c],
         task' = [task EXCEPT ![r].at = "destroying", ![r].copy = d],
         destroy' = [destroy EXCEPT ![r] = "sent"],
         UNCHANGED <<late, target, serving, stop, restoring, session, process, alive, create,
                     execute, lease, blocked, gateway>>,
         c.stopped => c.state = "STOPPED", d.stopped => c.stopped,
         c.stopped \/ (c.state = "RUNNING" /\ ~runs[r].stopped), d.state # "VERIFIED"
  PROVE  IInv'
<1>1. task[r] \in Job /\ Holds(r) /\ Ordered(r) /\ runs[r] \in Copy /\ r \in Caller
  BY Typed DEF Caller
<1> DEFINE t == [task[r] EXCEPT !.at = "destroying", !.copy = d]
<1>2. t \in Job /\ t.at = "destroying" /\ t.copy = d /\ t.session = task[r].session
  BY <1>1 DEF Job
<1>3. task' = [task EXCEPT ![r] = t]
  OBVIOUS
<1> HIDE DEF t
<1>4. task' \in [Run -> Job] /\ task'[r] = t /\ \A q \in Run \ {r} : task'[q] = task[q]
  <2>1. task \in [Run -> Job]
    BY DEF IInv, TypeOK
  <2>2. [task EXCEPT ![r] = t] \in [Run -> Job] /\ [task EXCEPT ![r] = t][r] = t
        /\ \A q \in Run \ {r} : [task EXCEPT ![r] = t][q] = task[q]
    BY <1>2, <2>1, Zenon
  <2> QED
    BY <1>3, <2>2, Zenon
<1>5. runs' \in [Run -> Copy] /\ runs'[r] = c /\ \A q \in Run \ {r} : runs'[q] = runs[q]
  BY DEF IInv, TypeOK
<1>6. /\ destroy' \in [Caller -> {"none", "sent", "killed", "ok", "failed"}]
      /\ destroy'[r] = "sent" /\ \A q \in Caller \ {r} : destroy'[q] = destroy[q]
  BY <1>1 DEF IInv, TypeOK
<1>7. Run \ {r} \subseteq Caller \ {r} /\ Stop \subseteq Caller \ {r}
  BY Numbers DEF Caller
<1>8. Holds(r)'
  BY <1>1, <1>2, <1>4, <1>5 DEF Holds, Awaiting
<1>9. Ordered(r)'
  BY <1>1, <1>2, <1>4, <1>5, <1>6 DEF Ordered, Holds, Awaiting
<1>10. runs'[r].state \in {"QUEUED", "RUNNING"} => r \in Busy
  BY <1>1, <1>5 DEF Holds, Busy, Awaiting
<1> QED
  BY <1>4, <1>5, <1>6, <1>7, <1>8, <1>9, <1>10, RunMoves DEF IInv, TypeOK

LEMMA CommandAnsweredStep ==
  ASSUME IInv, NEW r \in Run, CommandAnswered(r) PROVE IInv'
<1>1. /\ task[r].at = "commanding" /\ task[r].at \in Awaiting
      /\ UNCHANGED <<late, target, serving, stop, restoring,
                     session, process, alive, create, execute, gateway>>
      /\ task[r] \in Job /\ Ordered(r) /\ Holds(r) /\ task[r].copy \in Copy /\ runs[r] \in Copy
  BY Typed DEF CommandAnswered, Awaiting
<1>2. create[r] = "ok" /\ task[r].copy.state = "RUNNING"
  BY <1>1 DEF Ordered, Holds, Awaiting
<1>3. CASE /\ Stopping(r) /\ runs' = [runs EXCEPT ![r] = Stopped(task[r].copy)]
           /\ task' = [task EXCEPT ![r].at = "destroying", ![r].copy = Stopped(@)]
           /\ destroy' = [destroy EXCEPT ![r] = "sent"]
           /\ UNCHANGED <<lease, blocked>>
  <2> DEFINE c == Stopped(task[r].copy)
  <2>1. c \in Copy /\ c.stopped /\ c.state = "STOPPED"
    BY <1>1 DEF Copy, Stopped
  <2>2. runs' = [runs EXCEPT ![r] = c] /\ task' = [task EXCEPT ![r].at = "destroying", ![r].copy = c]
    BY <1>3
  <2> HIDE DEF c
  <2> QED
    BY <1>1, <1>3, <2>1, <2>2, SavesAndDestroys
<1>4. CASE /\ execute[r] = "ok" /\ SaveProgress(r, task[r].copy)
           /\ task' = [task EXCEPT ![r].at = "deciding"]
           /\ UNCHANGED <<lease, blocked, destroy>>
  <2> DEFINE t == [task[r] EXCEPT !.at = "deciding"]
  <2>1. t \in Job /\ t.at = "deciding" /\ t.copy = task[r].copy
    BY <1>1 DEF Job, Awaiting
  <2>2. task' = [task EXCEPT ![r] = t] /\ ~runs[r].stopped /\ runs' = [runs EXCEPT ![r] = task[r].copy]
    BY <1>4 DEF SaveProgress, Stopping
  <2> HIDE DEF t
  <2>3. /\ execute' \in [Run -> {"none", "sent", "running", "ok", "failed"}]
        /\ execute' = execute /\ t.at \in Awaiting \ {"creating"} /\ t.at # "commanding"
        /\ runs' \in [Run -> Copy] /\ runs'[r] = task[r].copy /\ \A q \in Run \ {r} : runs'[q] = runs[q]
    BY <1>1, <2>1, <2>2 DEF IInv, TypeOK, Awaiting
  <2> QED
    BY <1>1, <1>2, <1>4, <2>1, <2>2, <2>3, TaskGoesOn
<1>5. CASE /\ SaveProgress(r, task[r].copy)
           /\ task' = [task EXCEPT ![r].at = "destroying", ![r].copy.state = "INCOMPLETE"]
           /\ destroy' = [destroy EXCEPT ![r] = "sent"]
           /\ UNCHANGED <<lease, blocked>>
  <2> DEFINE d == [task[r].copy EXCEPT !.state = "INCOMPLETE"]
  <2>1. d \in Copy /\ d.state = "INCOMPLETE" /\ d.stopped = task[r].copy.stopped
    BY <1>1 DEF Copy
  <2>2. task' = [task EXCEPT ![r].at = "destroying", ![r].copy = d]
    BY <1>1, <1>5 DEF Job
  <2>3. ~runs[r].stopped /\ runs' = [runs EXCEPT ![r] = task[r].copy] /\ ~task[r].copy.stopped
    BY <1>1, <1>5 DEF SaveProgress, Stopping, Holds
  <2> HIDE DEF d
  <2> QED
    BY <1>1, <1>2, <1>5, <2>1, <2>2, <2>3, SavesAndDestroys
<1>6. CASE Reject(r, TRUE)
  BY <1>1, <1>2, <1>6, RejectMoves
<1> QED
  BY <1>3, <1>4, <1>5, <1>6 DEF CommandAnswered

LEMMA VerifierAnsweredStep ==
  ASSUME IInv, NEW r \in Run, VerifierAnswered(r) PROVE IInv'
<1>1. /\ task[r].at = "verifying" /\ task[r].at \in Awaiting
      /\ UNCHANGED <<late, target, serving, stop, restoring,
                     session, process, alive, create, execute, gateway>>
      /\ Ordered(r) /\ Holds(r) /\ task[r].copy \in Copy
  BY Typed DEF VerifierAnswered, Awaiting
<1>2. create[r] = "ok" /\ execute[r] \in {"none", "ok"}
  BY <1>1 DEF Ordered, Awaiting
<1>3. ASSUME NEW c \in Conclusion, Unwind(r, [task[r].copy EXCEPT !.state = c, !.verdict = TRUE], TRUE)
      PROVE  IInv'
  <2> DEFINE d == [task[r].copy EXCEPT !.state = c, !.verdict = TRUE]
  <2>1. c \in {"NONE", "QUEUED", "RUNNING", "STOPPED", "INCOMPLETE", "VERIFIED", "REVIEW_REQUIRED"}
    BY DEF Conclusion
  <2>2. d \in Copy /\ d.stopped = task[r].copy.stopped
    BY <1>1, <2>1 DEF Copy
  <2>3. Unwind(r, d, TRUE) /\ (d.stopped => runs[r].stopped)
    BY <1>1, <1>3, <2>2 DEF Holds
  <2> HIDE DEF d
  <2> QED
    BY <1>1, <1>2, <2>2, <2>3, UnwindMoves
<1>4. CASE Reject(r, TRUE)
  BY <1>1, <1>2, <1>4, RejectMoves
<1> QED
  BY <1>3, <1>4 DEF VerifierAnswered

LEMMA DestroyAnsweredStep ==
  ASSUME IInv, NEW r \in Run, DestroyAnswered(r) PROVE IInv'
<1>1. /\ task[r].at = "destroying"
      /\ UNCHANGED <<late, target, serving, stop, restoring, sandbox, gateway>>
      /\ Ordered(r) /\ Holds(r) /\ task[r].copy \in Copy
  BY Typed DEF DestroyAnswered
<1>2. task[r].copy.stopped => runs[r].stopped
  BY <1>1 DEF Holds
<1>3. CASE destroy[r] = "ok" /\ Finish(r, [task[r].copy EXCEPT !.clean = TRUE], FALSE)
  <2> DEFINE d == [task[r].copy EXCEPT !.clean = TRUE]
  <2>1. d \in Copy /\ d.clean /\ d.stopped = task[r].copy.stopped /\ d.state = task[r].copy.state
    BY <1>1 DEF Copy
  <2>2. Finish(r, d, FALSE)
    BY <1>3
  <2> HIDE DEF d
  <2>3. d.state = "VERIFIED" => execute[r] \in {"none", "ok"}
    BY <1>1, <2>1 DEF Ordered
  <2> QED
    BY <1>1, <1>2, <1>3, <2>1, <2>2, <2>3, FinishMoves
<1>4. CASE Finish(r, task[r].copy, TRUE)
  BY <1>1, <1>2, <1>4, FinishMoves
<1> QED
  BY <1>3, <1>4 DEF DestroyAnswered


LEMMA CancelStep ==
  ASSUME IInv, NEW r \in Run, Cancel(r) PROVE IInv'
<1>1. /\ UNCHANGED <<late, target, serving, stop, restoring,
                     session, process, alive, create, execute, gateway>>
      /\ Ordered(r) /\ Holds(r) /\ task[r].copy \in Copy /\ task[r] \in Job
  BY Typed DEF Cancel
<1>2. CASE task[r].at \in Awaiting /\ Unwind(r, task[r].copy, task[r].session)
  <2>1. /\ task[r].copy.state = "RUNNING" /\ (task[r].copy.stopped => runs[r].stopped)
        /\ task[r].session \in BOOLEAN /\ (task[r].session => create[r] = "ok")
    BY <1>1, <1>2 DEF Holds, Ordered, Job
  <2> QED
    BY <1>1, <1>2, <2>1, UnwindMoves
<1>3. CASE /\ task[r].at = "destroying" /\ task' = [task EXCEPT ![r].at = "done"]
           /\ UNCHANGED <<runs, lease, blocked, destroy>>
  <2> DEFINE t == [task[r] EXCEPT !.at = "done"]
  <2>1. t \in Job /\ t.at = "done" /\ t.copy = task[r].copy /\ t.session = task[r].session
    BY <1>1 DEF Job
  <2>2. task' = [task EXCEPT ![r] = t]
    BY <1>3
  <2> HIDE DEF t
  <2>3. task' \in [Run -> Job] /\ task'[r] = t /\ \A q \in Run \ {r} : task'[q] = task[q]
    BY <2>1, <2>2 DEF IInv, TypeOK
  <2>4. Holds(r)'
    BY <1>1, <1>3, <2>1, <2>3 DEF Holds, Awaiting
  <2>5. Ordered(r)'
    BY <1>1, <1>3, <2>1, <2>3 DEF Ordered, Awaiting
  <2>6. runs[r].state \in {"QUEUED", "RUNNING"} => r \in Busy
    BY DEF Busy
  <2> QED
    BY <1>1, <1>3, <2>3, <2>4, <2>5, <2>6, RunMoves DEF IInv, TypeOK
<1> QED
  BY <1>2, <1>3 DEF Cancel

(* A press writes to its run: stopped, whatever the task has saved.        *)
LEMMA PressMoves ==
  ASSUME IInv, NEW s \in Stop, NEW r \in Run, NEW c \in Copy, NEW p \in Press,
         runs' = [runs EXCEPT ![r] = c], c.stopped, c.state = "STOPPED",
         stop' = [stop EXCEPT ![s] = p], p.run = r, task[r].at # "created",
         lease' \in [Run -> {"NONE", "ACTIVE", "CONSUMED", "EXPIRED", "REVOKED"}],
         lease'[r] \in {"CONSUMED", "REVOKED"}, \A q \in Run \ {r} : lease'[q] = lease[q],
         blocked' \in SUBSET Target,
         destroy' \in [Caller -> {"none", "sent", "killed", "ok", "failed"}],
         \A q \in Caller \ {s} : destroy'[q] = destroy[q],
         destroy'[s] = "ok" => destroy[s] = "ok" /\ stop[s].run = r,
         UNCHANGED <<late, target, serving, task, restoring,
                     session, process, alive, create, execute, gateway>>
  PROVE  IInv'
<1>1. /\ runs' \in [Run -> Copy] /\ runs'[r] = c /\ \A q \in Run \ {r} : runs'[q] = runs[q]
      /\ stop' \in [Stop -> Press] /\ stop'[s] = p /\ \A q \in Stop \ {s} : stop'[q] = stop[q]
  BY DEF IInv, TypeOK
<1>2. Run \subseteq Caller \ {s} /\ Stop \subseteq Caller
  BY Numbers DEF Caller
<1>3. TypeOK'
  BY <1>1 DEF IInv, TypeOK, gateway
<1>4. \A q \in Run : Holds(q)' /\ Ordered(q)'
  <2> TAKE q \in Run
  <2>1. Holds(q) /\ Ordered(q)
    BY Typed
  <2>2. CASE q = r
    BY <1>1, <1>2, <2>1, <2>2 DEF Holds, Ordered
  <2>3. CASE q # r
    BY <1>1, <1>2, <2>1, <2>3 DEF Holds, Ordered
  <2> QED
    BY <2>2, <2>3
<1>5. Admitted'
  <2>1. \A p1, p2 \in Busy' : p1 = p2
    BY <1>1 DEF IInv, Admitted, Busy
  <2> QED
    BY <1>4, <2>1 DEF Admitted
<1>6. ASSUME NEW q \in Stop PROVE Pressed(q)'
  <2>1. Pressed(q) /\ stop[q].run \in Run0 /\ session \in Run0
    BY DEF IInv, TypeOK, Press
  <2>2. CASE q = s
    BY <1>1, <2>1, <2>2, Numbers DEF Pressed
  <2>3. CASE q # s
    <3>1. /\ stop'[q] = stop[q] /\ destroy'[q] = destroy[q]
      BY <1>1, <1>2, <2>3
    <3>2. stop[q].run # 0 => runs'[stop[q].run].stopped
      BY <1>1, <2>1 DEF Pressed, Run0
    <3> QED
      BY <2>1, <3>1, <3>2 DEF Pressed
  <2> QED
    BY <2>2, <2>3
<1> QED
  BY <1>3, <1>4, <1>5, <1>6 DEF IInv

LEMMA EmergencyStopStep ==
  ASSUME IInv, NEW s \in Stop, NEW r \in Run, EmergencyStop(s, r) PROVE IInv'
<1>1. /\ task[r].at # "created"
      /\ stop' = [stop EXCEPT ![s] = [run |-> r, waiting |-> TRUE]]
      /\ lease' = [lease EXCEPT ![r] = "REVOKED"]
      /\ runs' = [runs EXCEPT ![r] = Stopped(runs[r])]
      /\ blocked' = blocked \cup {target[r]}
      /\ destroy' = [destroy EXCEPT ![s] = "sent"]
      /\ UNCHANGED <<late, target, serving, task, restoring,
                     session, process, alive, create, execute, gateway>>
  BY DEF EmergencyStop
<1> DEFINE c == Stopped(runs[r])
           p == [run |-> r, waiting |-> TRUE]
<1>2. c \in Copy /\ c.stopped /\ c.state = "STOPPED" /\ p \in Press /\ p.run = r
  BY Typed DEF Copy, Stopped, Press, Run0
<1>3. runs' = [runs EXCEPT ![r] = c] /\ stop' = [stop EXCEPT ![s] = p]
  BY <1>1
<1> HIDE DEF c, p
<1>4. /\ lease' \in [Run -> {"NONE", "ACTIVE", "CONSUMED", "EXPIRED", "REVOKED"}]
      /\ lease'[r] = "REVOKED" /\ \A q \in Run \ {r} : lease'[q] = lease[q]
  BY <1>1 DEF IInv, TypeOK
<1>5. blocked' \in SUBSET Target
  BY <1>1 DEF IInv, TypeOK
<1>6. /\ destroy' \in [Caller -> {"none", "sent", "killed", "ok", "failed"}]
      /\ destroy'[s] = "sent" /\ \A q \in Caller \ {s} : destroy'[q] = destroy[q]
  BY <1>1 DEF IInv, TypeOK, Caller
<1>7. /\ task[r].at # "created"
      /\ UNCHANGED <<late, target, serving, task, restoring,
                     session, process, alive, create, execute, gateway>>
  BY <1>1
<1>8. lease'[r] \in {"CONSUMED", "REVOKED"} /\ (destroy'[s] = "ok" => FALSE)
  BY <1>4, <1>6
<1> QED
  BY <1>2, <1>3, <1>4, <1>5, <1>6, <1>7, <1>8, PressMoves

LEMMA StopAnsweredStep ==
  ASSUME IInv, NEW s \in Stop, StopAnswered(s) PROVE IInv'
<1>1. /\ destroy[s] = "ok" /\ stop[s].run \in Run0 /\ Pressed(s) /\ stop[s] \in Press
      /\ runs' = [runs EXCEPT ![stop[s].run] = [Stopped(@) EXCEPT !.verdict = FALSE, !.clean = TRUE]]
      /\ stop' = [stop EXCEPT ![s].waiting = FALSE]
      /\ UNCHANGED <<lease, late, target, blocked, serving, task, restoring, sandbox, gateway>>
  BY DEF StopAnswered, IInv, TypeOK, Press
<1>2. PICK r \in Run : r = stop[s].run
  BY <1>1 DEF Pressed, Run0
<1> DEFINE c == [Stopped(runs[r]) EXCEPT !.verdict = FALSE, !.clean = TRUE]
           p == [stop[s] EXCEPT !.waiting = FALSE]
<1>3. c \in Copy /\ c.stopped /\ c.state = "STOPPED"
  BY Typed DEF Copy, Stopped
<1>4. p \in Press /\ p.run = r
  BY <1>1, <1>2 DEF Press
<1>5. runs' = [runs EXCEPT ![r] = c] /\ stop' = [stop EXCEPT ![s] = p]
  BY <1>1, <1>2
<1> HIDE DEF c, p
<1>6. r # 0 /\ runs[r].stopped /\ Holds(r)
  BY <1>1, <1>2, Numbers, Typed DEF Pressed
<1>7. lease[r] \in {"CONSUMED", "REVOKED"} /\ task[r].at # "created"
  BY <1>6 DEF Holds, IInv, TypeOK
<1>8. /\ lease' \in [Run -> {"NONE", "ACTIVE", "CONSUMED", "EXPIRED", "REVOKED"}]
      /\ blocked' \in SUBSET Target
      /\ destroy' \in [Caller -> {"none", "sent", "killed", "ok", "failed"}]
      /\ UNCHANGED <<late, target, serving, task, restoring,
                     session, process, alive, create, execute, gateway, lease, destroy>>
  BY <1>1 DEF IInv, TypeOK, sandbox
<1>9. destroy[s] = "ok" /\ stop[s].run = r
  BY <1>1, <1>2
<1> QED
  BY <1>3, <1>4, <1>5, <1>7, <1>8, <1>9, PressMoves

(* Nothing of a run or of the sandbox moves.                               *)
LEMMA NothingMoves ==
  ASSUME IInv, UNCHANGED <<lease, target, runs, task, stop, sandbox>>,
         late' \in SUBSET Run, blocked' \in SUBSET Target, serving' \in BOOLEAN,
         restoring' \in SUBSET Target,
         armed' \in Run0, connections' \in Nat, active' \in Nat, request' \in [Request -> Open]
  PROVE  IInv'
<1>1. TypeOK'
  BY DEF IInv, TypeOK, sandbox
<1>2. Admitted' /\ (\A r \in Run : Ordered(r)') /\ \A s \in Stop : Pressed(s)'
  BY DEF IInv, Admitted, Holds, Ordered, Pressed, sandbox, Busy
<1> QED
  BY <1>1, <1>2 DEF IInv

LEMMA OperatorStep ==
  ASSUME IInv,
         \/ \E r \in Run : LeaseRunsOut(r)
         \/ \E t \in Target : RestoreBegins(t) \/ RestoreEnds(t)
         \/ Drain
  PROVE  IInv'
<1>1. /\ UNCHANGED <<lease, target, runs, task, stop, sandbox, gateway>>
  BY DEF LeaseRunsOut, RestoreBegins, RestoreEnds, Drain, store, control
<1>2. late' \in SUBSET Run
  BY DEF LeaseRunsOut, RestoreBegins, RestoreEnds, Drain, store, IInv, TypeOK
<1>3. serving' \in BOOLEAN
  BY DEF LeaseRunsOut, RestoreBegins, RestoreEnds, Drain, control, IInv, TypeOK
<1>4. blocked' \in SUBSET Target /\ restoring' \in SUBSET Target
  BY DEF LeaseRunsOut, RestoreBegins, RestoreEnds, Drain, store, control, IInv, TypeOK
<1> QED
  BY <1>1, <1>2, <1>3, <1>4, NothingMoves DEF IInv, TypeOK, gateway

LEMMA RestartStep ==
  ASSUME IInv, Restart PROVE IInv'
<1>1. /\ serving' = TRUE /\ restoring' = {} /\ UNCHANGED <<store, sandbox, gateway>>
      /\ task' = [r \in Run |-> IF task[r].at = "none" THEN task[r] ELSE [task[r] EXCEPT !.at = "done"]]
      /\ stop' = [s \in Stop |-> [stop[s] EXCEPT !.waiting = FALSE]]
  BY DEF Restart
<1>2. /\ task' \in [Run -> Job]
      /\ \A r \in Run : /\ task'[r].at = IF task[r].at = "none" THEN "none" ELSE "done"
                        /\ task'[r].copy = task[r].copy /\ task'[r].session = task[r].session
  <2>1. \A r \in Run : /\ task[r] \in Job /\ [task[r] EXCEPT !.at = "done"] \in Job
                       /\ [task[r] EXCEPT !.at = "done"].at = "done"
                       /\ [task[r] EXCEPT !.at = "done"].copy = task[r].copy
                       /\ [task[r] EXCEPT !.at = "done"].session = task[r].session
    BY Typed DEF Job
  <2> HIDE DEF Job
  <2> QED
    BY <1>1, <2>1
<1>3. /\ stop' \in [Stop -> Press]
      /\ \A s \in Stop : stop'[s].run = stop[s].run /\ ~stop'[s].waiting
  <2>1. \A s \in Stop : /\ [stop[s] EXCEPT !.waiting = FALSE] \in Press
                        /\ [stop[s] EXCEPT !.waiting = FALSE].run = stop[s].run
                        /\ ~[stop[s] EXCEPT !.waiting = FALSE].waiting
    BY DEF IInv, TypeOK, Press
  <2> HIDE DEF Press
  <2> QED
    BY <1>1, <2>1
<1>4. TypeOK'
  BY <1>1, <1>2, <1>3 DEF IInv, TypeOK, store, sandbox, gateway
<1>5. \A r \in Run : Holds(r)' /\ Ordered(r)'
  <2> TAKE r \in Run
  <2>1. Holds(r) /\ Ordered(r)
    BY Typed
  <2>2. UNCHANGED <<lease, runs, create, execute, destroy, alive, session>>
    BY <1>1 DEF store, sandbox
  <2>3. Holds(r)'
    BY <1>2, <2>1, <2>2 DEF Holds, Awaiting
  <2>4. Ordered(r)'
    BY <1>2, <2>1, <2>2 DEF Ordered, Awaiting
  <2> QED
    BY <2>3, <2>4
<1>6. Admitted'
  BY <1>1, <1>5 DEF IInv, Admitted, Busy, store
<1>7. \A s \in Stop : Pressed(s)'
  BY <1>1, <1>3 DEF IInv, Pressed, store, sandbox
<1> QED
  BY <1>4, <1>5, <1>6, <1>7 DEF IInv

-----------------------------------------------------------------------------
(* The supervisor and the gateway.                                         *)

LEMMA SandboxMoves ==
  ASSUME IInv, UNCHANGED <<store, control>>, TypeOK',
         \A q \in Run : Ordered(q)', \A s \in Stop : Pressed(s)'
  PROVE  IInv'
<1>1. Admitted'
  BY DEF IInv, Admitted, Holds, Busy, store, control
<1> QED
  BY <1>1 DEF IInv

LEMMA CheckSessionStep ==
  ASSUME IInv, NEW r \in Run, CheckSession(r) PROVE IInv'
<1>1. /\ create[r] = "sent"
      /\ create' = [create EXCEPT ![r] = IF session = 0 THEN "checked" ELSE "failed"]
      /\ UNCHANGED <<store, control, session, process, alive, execute, destroy, gateway>>
  BY DEF CheckSession
<1>2. /\ create' \in [Run -> {"none", "sent", "checked", "ok", "failed"}]
      /\ create'[r] \in {"checked", "failed"} /\ \A q \in Run \ {r} : create'[q] = create[q]
  BY <1>1 DEF IInv, TypeOK
<1>3. TypeOK'
  BY <1>1, <1>2 DEF IInv, TypeOK, store, control, gateway
<1>4. \A q \in Run : Ordered(q)'
  <2> TAKE q \in Run
  <2>1. Ordered(q)
    BY Typed
  <2>2. CASE q = r
    BY <1>1, <1>2, <2>1, <2>2 DEF Ordered, store, control
  <2>3. CASE q # r
    BY <1>1, <1>2, <2>1, <2>3 DEF Ordered, store, control
  <2> QED
    BY <2>2, <2>3
<1>5. \A s \in Stop : Pressed(s)'
  BY <1>1 DEF IInv, Pressed, store, control
<1> QED
  BY <1>1, <1>3, <1>4, <1>5, SandboxMoves

LEMMA CreateSessionStep ==
  ASSUME IInv, NEW r \in Run, CreateSession(r) PROVE IInv'
<1>1. /\ create[r] = "checked" /\ Ordered(r)
      /\ UNCHANGED <<store, control, process, alive, execute, destroy>>
      /\ session' \in {session, r} /\ armed' \in {armed, r}
      /\ connections' \in {connections, 0} /\ active' \in {active, 0} /\ UNCHANGED request
      /\ create' \in {[create EXCEPT ![r] = "ok"], [create EXCEPT ![r] = "failed"]}
  BY Typed DEF CreateSession, Arm, gateway
<1>2. /\ create' \in [Run -> {"none", "sent", "checked", "ok", "failed"}]
      /\ create'[r] \in {"ok", "failed"} /\ \A q \in Run \ {r} : create'[q] = create[q]
  BY <1>1 DEF IInv, TypeOK
<1>3. destroy[r] = "none" /\ execute[r] = "none" /\ r # 0
  BY <1>1, Numbers DEF Ordered
<1>4. TypeOK'
  <2>1. session' \in Run0 /\ armed' \in Run0 /\ connections' \in Nat /\ active' \in Nat
    BY <1>1 DEF IInv, TypeOK, Run0
  <2> QED
    BY <1>1, <1>2, <2>1 DEF IInv, TypeOK, store, control
<1>5. \A q \in Run : Ordered(q)'
  <2> TAKE q \in Run
  <2>1. Ordered(q)
    BY Typed
  <2>2. CASE q = r
    BY <1>1, <1>2, <1>3, <2>1, <2>2 DEF Ordered, store, control
  <2>3. CASE q # r
    BY <1>1, <1>2, <2>1, <2>3 DEF Ordered, store, control
  <2> QED
    BY <2>2, <2>3
<1>6. \A s \in Stop : Pressed(s)'
  BY <1>1, <1>3 DEF IInv, Pressed, store, control
<1> QED
  BY <1>1, <1>4, <1>5, <1>6, SandboxMoves

LEMMA SpawnStep ==
  ASSUME IInv, NEW r \in Run, Spawn(r) PROVE IInv'
<1>1. /\ execute[r] = "sent" /\ Ordered(r)
      /\ UNCHANGED <<store, control, session, create, destroy, gateway>>
      /\ process' \in {process, r} /\ alive' \in {alive, alive \cup {r}}
      /\ \/ execute' = [execute EXCEPT ![r] = "running"]
         \/ execute' = [execute EXCEPT ![r] = "failed"]
  BY Typed DEF Spawn
<1>2. /\ execute' \in [Run -> {"none", "sent", "running", "ok", "failed"}]
      /\ execute'[r] \in {"running", "failed"} /\ \A q \in Run \ {r} : execute'[q] = execute[q]
  BY <1>1 DEF IInv, TypeOK
<1>3. TypeOK'
  BY <1>1, <1>2 DEF IInv, TypeOK, store, control, gateway, Run0
<1>4. \A q \in Run : Ordered(q)'
  <2> TAKE q \in Run
  <2>1. Ordered(q)
    BY Typed
  <2>2. CASE q = r
    BY <1>1, <1>2, <2>1, <2>2 DEF Ordered, store, control
  <2>3. CASE q # r
    BY <1>1, <1>2, <2>1, <2>3 DEF Ordered, store, control
  <2> QED
    BY <2>2, <2>3
<1>5. ASSUME NEW s \in Stop PROVE Pressed(s)'
  <2>1. Pressed(s) /\ stop[s].run \in Run0
    BY DEF IInv, TypeOK, Press
  <2>2. UNCHANGED <<stop, runs, session, destroy>>
    BY <1>1 DEF store, control
  <2>3. CASE stop[s].run = r
    BY <1>1, <2>1, <2>2, <2>3 DEF Pressed
  <2>4. CASE stop[s].run # r
    BY <1>2, <2>1, <2>2, <2>4 DEF Pressed, Run0
  <2> QED
    BY <2>3, <2>4
<1> QED
  BY <1>1, <1>3, <1>4, <1>5, SandboxMoves

LEMMA CommandEndsStep ==
  ASSUME IInv, NEW r \in Run, CommandEnds(r) PROVE IInv'
<1>1. /\ execute[r] = "running" /\ Ordered(r)
      /\ UNCHANGED <<store, control, session, create, destroy, gateway>>
      /\ \/ /\ process' = 0 /\ alive' = {}
            /\ execute' \in {[execute EXCEPT ![r] = "ok"], [execute EXCEPT ![r] = "failed"]}
         \/ execute' = [execute EXCEPT ![r] = "failed"] /\ UNCHANGED <<process, alive>>
  BY Typed DEF CommandEnds
<1>2. /\ execute' \in [Run -> {"none", "sent", "running", "ok", "failed"}]
      /\ execute'[r] \in {"ok", "failed"} /\ \A q \in Run \ {r} : execute'[q] = execute[q]
      /\ alive' \in {alive, {}} /\ (execute'[r] = "ok" => alive' = {})
  BY <1>1 DEF IInv, TypeOK
<1>3. TypeOK'
  BY <1>1, <1>2 DEF IInv, TypeOK, store, control, gateway, Run0
<1>4. \A q \in Run : Ordered(q)'
  <2> TAKE q \in Run
  <2>1. Ordered(q)
    BY Typed
  <2>2. CASE q = r
    BY <1>1, <1>2, <2>1, <2>2 DEF Ordered, store, control
  <2>3. CASE q # r
    BY <1>1, <1>2, <2>1, <2>3 DEF Ordered, store, control
  <2> QED
    BY <2>2, <2>3
<1>5. ASSUME NEW s \in Stop PROVE Pressed(s)'
  <2>1. Pressed(s) /\ stop[s].run \in Run0
    BY DEF IInv, TypeOK, Press
  <2>2. UNCHANGED <<stop, runs, session, destroy>>
    BY <1>1 DEF store, control
  <2>3. CASE stop[s].run = r
    BY <1>1, <2>1, <2>2, <2>3 DEF Pressed
  <2>4. CASE stop[s].run # r
    BY <1>2, <2>1, <2>2, <2>4 DEF Pressed, Run0
  <2> QED
    BY <2>3, <2>4
<1> QED
  BY <1>1, <1>3, <1>4, <1>5, SandboxMoves

LEMMA KillStep ==
  ASSUME IInv, NEW c \in Caller, Kill(c) PROVE IInv'
<1>1. /\ destroy[c] = "sent" /\ alive' = {} /\ destroy' = [destroy EXCEPT ![c] = "killed"]
      /\ UNCHANGED <<store, control, session, process, create, execute, gateway>>
  BY DEF Kill
<1>2. /\ destroy' \in [Caller -> {"none", "sent", "killed", "ok", "failed"}]
      /\ destroy'[c] = "killed" /\ \A q \in Caller \ {c} : destroy'[q] = destroy[q]
  BY <1>1 DEF IInv, TypeOK
<1>3. Run \subseteq Caller /\ Stop \subseteq Caller
  BY DEF Caller
<1>4. TypeOK'
  BY <1>1, <1>2 DEF IInv, TypeOK, store, control, gateway
<1>5. \A q \in Run : Ordered(q)'
  <2> TAKE q \in Run
  <2>1. Ordered(q)
    BY Typed
  <2>2. CASE q = c
    BY <1>1, <1>2, <2>1, <2>2 DEF Ordered, store, control
  <2>3. CASE q # c
    BY <1>1, <1>2, <1>3, <2>1, <2>3 DEF Ordered, store, control
  <2> QED
    BY <2>2, <2>3
<1>6. \A s \in Stop : Pressed(s)'
  BY <1>1, <1>2, <1>3 DEF IInv, Pressed, store, control
<1> QED
  BY <1>1, <1>4, <1>5, <1>6, SandboxMoves

LEMMA TakeDownStep ==
  ASSUME IInv, NEW c \in Caller, TakeDown(c) PROVE IInv'
<1>1. /\ destroy[c] = "killed" /\ UNCHANGED <<store, control, process, alive, create, execute>>
      /\ UNCHANGED <<connections, active, request>> /\ armed' \in {armed, 0}
      /\ session' \in {session, 0}
      /\ \/ destroy' = [destroy EXCEPT ![c] = "ok"] /\ session' # RunOf(c)
         \/ destroy' = [destroy EXCEPT ![c] = "ok"] /\ session' = 0
         \/ destroy' = [destroy EXCEPT ![c] = "failed"]
  BY DEF TakeDown, Disarm, gateway
<1>2. /\ destroy' \in [Caller -> {"none", "sent", "killed", "ok", "failed"}]
      /\ destroy'[c] \in {"ok", "failed"} /\ \A q \in Caller \ {c} : destroy'[q] = destroy[q]
      /\ destroy'[c] = "ok" => session' # RunOf(c) \/ session' = 0
  BY <1>1 DEF IInv, TypeOK
<1>3. Run \subseteq Caller /\ Stop \subseteq Caller /\ 0 \notin Run /\ Stop \cap Run = {}
  BY Numbers DEF Caller
<1>4. TypeOK'
  BY <1>1, <1>2 DEF IInv, TypeOK, store, control, Run0
<1>5. \A q \in Run : Ordered(q)'
  <2> TAKE q \in Run
  <2>1. Ordered(q) /\ q # 0
    BY <1>3, Typed
  <2>2. CASE q = c
    <3>1. destroy'[q] = "ok" => session' # q
      BY <1>2, <2>1, <2>2 DEF RunOf
    <3> QED
      BY <1>1, <1>2, <2>1, <2>2, <3>1 DEF Ordered, store, control
  <2>3. CASE q # c
    BY <1>1, <1>2, <1>3, <2>1, <2>3 DEF Ordered, store, control
  <2> QED
    BY <2>2, <2>3
<1>6. ASSUME NEW s \in Stop PROVE Pressed(s)'
  <2>1. Pressed(s) /\ s \notin Run
    BY <1>3 DEF IInv
  <2>2. UNCHANGED <<stop, runs, execute>> /\ session' \in {session, 0}
    BY <1>1 DEF store, control
  <2>3. CASE s = c
    BY <1>1, <1>2, <2>1, <2>2, <2>3 DEF Pressed, RunOf
  <2>4. CASE s # c
    BY <1>2, <1>3, <2>1, <2>2, <2>4 DEF Pressed
  <2> QED
    BY <2>3, <2>4
<1> QED
  BY <1>1, <1>4, <1>5, <1>6, SandboxMoves

LEMMA ProxyStep ==
  ASSUME IInv, Proxy PROVE IInv'
<1>1. PICK i \in Request : Forward(i) \/ Drop(i) \/ Forwarded(i) \/ \E r \in Run : Ask(i, r)
  BY DEF Proxy
<1>2. UNCHANGED <<store, control, sandbox, armed>>
  BY <1>1 DEF Forward, Drop, Forwarded, Ask
<1>3. request[i] \in Open /\ connections \in Nat /\ active \in Nat /\ armed \in Run0
  BY DEF IInv, TypeOK
<1>4. connections' \in Nat
  BY <1>1, <1>3 DEF Forward, Drop, Forwarded, Ask
<1>5. active' \in Nat
  BY <1>1, <1>3 DEF Forward, Drop, Forwarded, Ask
<1>6. request' \in [Request -> Open]
  <2>1. CASE Forward(i)
    <3>1. [request[i] EXCEPT !.at = "forwarding"] \in Open
      BY <1>3 DEF Open
    <3>2. request' = [request EXCEPT ![i] = [request[i] EXCEPT !.at = "forwarding"]]
      BY <2>1 DEF Forward
    <3> QED
      BY <3>1, <3>2 DEF IInv, TypeOK
  <2>2. CASE Drop(i) \/ Forwarded(i)
    <3>1. [at |-> "free", run |-> 0] \in Open
      BY DEF Open, Run0
    <3>2. request' = [request EXCEPT ![i] = [at |-> "free", run |-> 0]]
      BY <2>2 DEF Drop, Forwarded
    <3> QED
      BY <3>1, <3>2 DEF IInv, TypeOK
  <2>3. CASE \E r \in Run : Ask(i, r)
    <3>1. [at |-> "body", run |-> armed] \in Open
      BY <1>3 DEF Open
    <3>2. request' = [request EXCEPT ![i] = [at |-> "body", run |-> armed]]
      BY <2>3 DEF Ask
    <3> QED
      BY <3>1, <3>2 DEF IInv, TypeOK
  <2> QED
    BY <1>1, <2>1, <2>2, <2>3
<1>7. TypeOK'
  BY <1>2, <1>4, <1>5, <1>6 DEF IInv, TypeOK, store, control, sandbox
<1>8. \A q \in Run : Ordered(q)'
  BY <1>2 DEF IInv, Ordered, store, control, sandbox
<1>9. \A s \in Stop : Pressed(s)'
  BY <1>2 DEF IInv, Pressed, store, control, sandbox
<1> QED
  BY <1>2, <1>7, <1>8, <1>9, SandboxMoves

-----------------------------------------------------------------------------
(* The invariant.                                                          *)

LEMMA InitIInv == Init => IInv
<1> SUFFICES ASSUME Init PROVE IInv
  OBVIOUS
<1> DEFINE job == [at |-> "none", session |-> FALSE, commands |-> 0, copy |-> NoRun]
<1>1. NoRun \in Copy /\ NoRun.state = "NONE" /\ ~NoRun.stopped
  BY DEF NoRun, Copy
<1>2. job \in Job /\ job.at = "none" /\ ~job.session /\ job.copy = NoRun
  BY <1>1 DEF Job
<1>3. [run |-> 0, waiting |-> FALSE] \in Press /\ [at |-> "free", run |-> 0] \in Open
  BY DEF Press, Open, Run0
<1>4. /\ runs = [r \in Run |-> NoRun] /\ task = [r \in Run |-> job]
      /\ stop = [s \in Stop |-> [run |-> 0, waiting |-> FALSE]]
      /\ request = [i \in Request |-> [at |-> "free", run |-> 0]]
      /\ lease = [r \in Run |-> "NONE"] /\ late = {} /\ target \in [Run -> Target]
      /\ blocked = {} /\ serving = TRUE /\ restoring = {} /\ session = 0 /\ process = 0 /\ alive = {}
      /\ create = [r \in Run |-> "none"] /\ execute = [r \in Run |-> "none"]
      /\ destroy = [c \in Caller |-> "none"] /\ armed = 0 /\ connections = 0 /\ active = 0
  BY DEF Init
<1> HIDE DEF job
<1>5. TypeOK
  <2>1. runs \in [Run -> Copy] /\ task \in [Run -> Job]
    BY <1>1, <1>2, <1>4
  <2>2. stop \in [Stop -> Press] /\ request \in [Request -> Open]
    BY <1>3, <1>4
  <2> QED
    BY <1>4, <2>1, <2>2 DEF TypeOK, Run0
<1>6. \A r \in Run : Holds(r) /\ Ordered(r)
  BY <1>1, <1>2, <1>4 DEF Holds, Ordered, Awaiting, Caller
<1>7. Busy = {}
  BY <1>1, <1>4 DEF Busy
<1>8. \A s \in Stop : Pressed(s)
  BY <1>4 DEF Pressed, Caller
<1> QED
  BY <1>5, <1>6, <1>7, <1>8 DEF IInv, Admitted

LEMMA StutterStep ==
  ASSUME IInv, UNCHANGED vars PROVE IInv'
<1>1. UNCHANGED <<store, control, sandbox, gateway>>
  BY DEF vars
<1>2. TypeOK'
  BY <1>1 DEF IInv, TypeOK, store, control, sandbox, gateway
<1>3. (\A q \in Run : Ordered(q)') /\ \A s \in Stop : Pressed(s)'
  BY <1>1 DEF IInv, Ordered, Pressed, store, control, sandbox
<1> QED
  BY <1>1, <1>2, <1>3, SandboxMoves

(* Every step keeps the invariant.                                         *)
LEMMA NextIInv == IInv /\ [Next]_vars => IInv'
<1> SUFFICES ASSUME IInv, [Next]_vars PROVE IInv'
  OBVIOUS
<1>1. CASE \E r \in Run : IssueLease(r) \/ LeaseRunsOut(r) \/ CreateRun(r) \/ RefuseExpired(r)
  BY <1>1, IssueLeaseStep, OperatorStep, CreateRunStep, RefuseExpiredStep
<1>2. CASE \E r \in Run : Task(r) \/ Cancel(r)
  BY <1>2, StartRunStep, SessionAnsweredStep, DecisionAnsweredStep, CommandAnsweredStep,
     VerifierAnsweredStep, DestroyAnsweredStep, CancelStep DEF Task
<1>3. CASE \E s \in Stop : StopAnswered(s) \/ \E r \in Run : EmergencyStop(s, r)
  BY <1>3, StopAnsweredStep, EmergencyStopStep
<1>4. CASE (\E t \in Target : RestoreBegins(t) \/ RestoreEnds(t)) \/ Drain
  BY <1>4, OperatorStep
<1>5. CASE Restart
  BY <1>5, RestartStep
<1>6. CASE Supervise
  BY <1>6, CheckSessionStep, CreateSessionStep, SpawnStep, CommandEndsStep, KillStep,
     TakeDownStep DEF Supervise
<1>7. CASE Proxy
  BY <1>7, ProxyStep
<1>8. CASE UNCHANGED vars
  BY <1>8, StutterStep
<1> QED
  BY <1>1, <1>2, <1>3, <1>4, <1>5, <1>6, <1>7, <1>8 DEF Next

LEMMA Invariance == Spec => []IInv
  BY InitIInv, NextIInv, PTL DEF Spec

(* Every variable keeps to its values.                                     *)
THEOREM TypeCorrect == Spec => []TypeOK
<1>1. IInv => TypeOK
  BY DEF IInv
<1> QED
  BY <1>1, Invariance, PTL

(* One run at a time: create_run looks for a QUEUED or RUNNING run, and no *)
(* task writes one of those over a run that has ended or was stopped.      *)
THEOREM RunsOneAtATime == Spec => []OneActive
<1>1. ASSUME IInv PROVE OneActive
  <2>1. CASE Busy = {}
    BY <2>1, FS_EmptySet DEF OneActive
  <2>2. CASE Busy # {}
    <3>1. PICK r \in Busy : TRUE
      BY <2>2
    <3>2. Busy = {r}
      BY <1>1, <3>1 DEF IInv, Admitted
    <3>3. Cardinality(Busy) = 1
      BY <3>2, FS_Singleton
    <3> QED
      BY <3>3 DEF OneActive
  <2> QED
    BY <2>1, <2>2
<1> QED
  BY <1>1, Invariance, PTL

-----------------------------------------------------------------------------
(* The emergency stop.                                                     *)

(* Only a press, a save or an end of the task writes to a run, and none    *)
(* writes over a stop.                                                     *)
LEMMA StoppedStays ==
  ASSUME IInv, [Next]_vars, NEW r \in Run, runs[r].stopped
  PROVE  runs'[r].stopped
<1>1. runs \in [Run -> Copy] /\ \A q \in Run : Holds(q) /\ runs[q] \in Copy /\ task[q].copy \in Copy
  BY Typed DEF IInv, TypeOK
<1>2. ASSUME NEW q \in Run, NEW c \in Copy, NEW failed \in BOOLEAN, Finish(q, c, failed)
      PROVE runs'[r].stopped
  <2> DEFINE dirty == IF failed THEN [c EXCEPT !.clean = FALSE, !.state = "REVIEW_REQUIRED"] ELSE c
             d == [Stopped(dirty) EXCEPT !.verdict = FALSE]
             last == IF runs[q].stopped THEN d ELSE dirty
  <2>1. runs' = [runs EXCEPT ![q] = last]
    BY <1>2 DEF Finish
  <2>2. dirty \in Copy
    BY DEF Copy
  <2> HIDE DEF dirty
  <2>3. d.stopped
    BY <2>2 DEF Stopped, Copy
  <2> HIDE DEF d
  <2>4. CASE q = r
    BY <1>1, <2>1, <2>3, <2>4
  <2>5. CASE q # r
    BY <1>1, <2>1, <2>5
  <2> QED
    BY <2>4, <2>5
<1>3. ASSUME NEW q \in Run, NEW c \in Copy, NEW known \in BOOLEAN, Unwind(q, c, known)
      PROVE runs'[r].stopped
  <2>1. CASE known
    BY <1>3, <2>1 DEF Unwind
  <2>2. CASE ~known
    <3>1. [c EXCEPT !.clean = TRUE] \in Copy
      BY DEF Copy
    <3>2. Finish(q, [c EXCEPT !.clean = TRUE], FALSE)
      BY <1>3, <2>2 DEF Unwind
    <3> QED
      BY <1>2, <3>1, <3>2
  <2> QED
    BY <2>1, <2>2
<1>4. ASSUME NEW q \in Run, NEW known \in BOOLEAN, Reject(q, known)
      PROVE runs'[r].stopped
  <2>1. Stopped(task[q].copy) \in Copy /\ [task[q].copy EXCEPT !.state = "INCOMPLETE"] \in Copy
    BY <1>1 DEF Stopped, Copy
  <2>2. CASE runs[q].stopped
    BY <1>3, <1>4, <2>1, <2>2 DEF Reject
  <2>3. CASE ~runs[q].stopped
    BY <1>3, <1>4, <2>1, <2>3 DEF Reject
  <2> QED
    BY <2>2, <2>3
<1>5. ASSUME NEW q \in Run, NEW c, runs' = [runs EXCEPT ![q] = c], c.stopped \/ ~runs[q].stopped
      PROVE runs'[r].stopped
  BY <1>1, <1>5
<1>6. CASE UNCHANGED runs
  BY <1>6
<1>7. ASSUME NEW q \in Run, CreateRun(q) PROVE runs'[r].stopped
  <2>1. runs' = [runs EXCEPT ![q] = [runs[q] EXCEPT !.state = "QUEUED"]]
    BY <1>7 DEF CreateRun
  <2>2. [runs[q] EXCEPT !.state = "QUEUED"].stopped = runs[q].stopped /\ runs[q].stopped \in BOOLEAN
    BY <1>1 DEF Copy
  <2> QED
    BY <1>5, <2>1, <2>2
<1>8. ASSUME NEW q \in Run, Task(q) PROVE runs'[r].stopped
  <2>1. CASE StartRun(q)
    <3>1. runs' = [runs EXCEPT ![q] = [runs[q] EXCEPT !.state = "RUNNING"]]
      BY <2>1 DEF StartRun
    <3>2. [runs[q] EXCEPT !.state = "RUNNING"].stopped = runs[q].stopped /\ runs[q].stopped \in BOOLEAN
      BY <1>1 DEF Copy
    <3> QED
      BY <1>5, <3>1, <3>2
  <2>2. CASE SessionAnswered(q)
    BY <1>4, <1>6, <2>2 DEF SessionAnswered, Loop
  <2>3. CASE DecisionAnswered(q)
    BY <1>4, <1>6, <2>3 DEF DecisionAnswered
  <2>4. CASE CommandAnswered(q)
    <3>1. CASE runs' = [runs EXCEPT ![q] = Stopped(task[q].copy)]
      <4>1. Stopped(task[q].copy).stopped
        BY <1>1 DEF Stopped, Copy
      <4> QED
        BY <1>5, <3>1, <4>1
    <3>2. CASE SaveProgress(q, task[q].copy)
      <4>1. ~runs[q].stopped /\ runs' = [runs EXCEPT ![q] = task[q].copy]
        BY <3>2 DEF SaveProgress, Stopping
      <4> QED
        BY <1>5, <4>1
    <3>3. CASE Reject(q, TRUE)
      BY <1>4, <3>3
    <3> QED
      BY <2>4, <3>1, <3>2, <3>3 DEF CommandAnswered
  <2>5. CASE VerifierAnswered(q)
    <3>1. CASE \E c \in Conclusion : Unwind(q, [task[q].copy EXCEPT !.state = c, !.verdict = TRUE], TRUE)
      BY <1>6, <3>1 DEF Unwind
    <3> QED
      BY <1>4, <2>5, <3>1 DEF VerifierAnswered
  <2>6. CASE DestroyAnswered(q)
    <3>1. [task[q].copy EXCEPT !.clean = TRUE] \in Copy
      BY <1>1 DEF Copy
    <3> QED
      BY <1>1, <1>2, <2>6, <3>1 DEF DestroyAnswered
  <2> QED
    BY <1>8, <2>1, <2>2, <2>3, <2>4, <2>5, <2>6 DEF Task
<1>9. ASSUME NEW q \in Run, Cancel(q) PROVE runs'[r].stopped
  <2>1. task[q].session \in BOOLEAN
    BY Typed DEF Job
  <2> QED
    BY <1>1, <1>3, <1>6, <1>9, <2>1 DEF Cancel
<1>10. ASSUME NEW s \in Stop, StopAnswered(s) PROVE runs'[r].stopped
  <2>1. runs' = [runs EXCEPT ![stop[s].run] = [Stopped(runs[stop[s].run]) EXCEPT !.verdict = FALSE, !.clean = TRUE]]
    BY <1>10 DEF StopAnswered
  <2>2. CASE stop[s].run = r
    <3>1. [Stopped(runs[r]) EXCEPT !.verdict = FALSE, !.clean = TRUE].stopped
      BY <1>1 DEF Stopped, Copy
    <3> QED
      BY <1>1, <2>1, <2>2, <3>1
  <2>3. CASE stop[s].run # r
    BY <1>1, <2>1, <2>3
  <2> QED
    BY <2>2, <2>3
<1>11. ASSUME NEW s \in Stop, NEW q \in Run, EmergencyStop(s, q) PROVE runs'[r].stopped
  <2>1. runs' = [runs EXCEPT ![q] = Stopped(runs[q])] /\ Stopped(runs[q]).stopped
    BY <1>1, <1>11 DEF EmergencyStop, Stopped, Copy
  <2> QED
    BY <1>5, <2>1
<1>12. CASE \/ \E q \in Run : IssueLease(q) \/ LeaseRunsOut(q) \/ RefuseExpired(q)
            \/ \E t \in Target : RestoreBegins(t) \/ RestoreEnds(t)
            \/ Drain \/ Restart
  BY <1>6, <1>12 DEF IssueLease, LeaseRunsOut, RefuseExpired, RestoreBegins, RestoreEnds, Drain, Restart,
     store
<1>13. CASE Supervise \/ Proxy
  BY <1>6, <1>13 DEF Supervise, CheckSession, CreateSession, Spawn, CommandEnds, Kill, TakeDown,
     Proxy, Ask, Forward, Drop, Forwarded, store
<1>14. CASE UNCHANGED vars
  BY <1>6, <1>14 DEF vars, store
<1> QED
  BY <1>7, <1>8, <1>9, <1>10, <1>11, <1>12, <1>13, <1>14 DEF Next

(* Only a spawn adds a process, and only for the run of the session.       *)
LEMMA AliveGrows ==
  ASSUME [Next]_vars, NEW r \in Run, r \notin alive, r \in alive'
  PROVE  execute[r] = "sent" /\ session = r
<1>1. CASE UNCHANGED alive
  BY <1>1
<1>2. CASE Supervise
  BY <1>2 DEF Supervise, CheckSession, CreateSession, Spawn, CommandEnds, Kill, TakeDown
<1>3. CASE UNCHANGED sandbox
  BY <1>3 DEF sandbox
<1>4. CASE Proxy
  BY <1>3, <1>4 DEF Proxy, Ask, Forward, Drop, Forwarded
<1>5. CASE \E q \in Run : IssueLease(q) \/ LeaseRunsOut(q) \/ CreateRun(q) \/ RefuseExpired(q)
  BY <1>3, <1>5 DEF IssueLease, LeaseRunsOut, CreateRun, RefuseExpired
<1>6. CASE \E q \in Run : Task(q) \/ Cancel(q)
  BY <1>1, <1>6 DEF Task, StartRun, SessionAnswered, DecisionAnswered, CommandAnswered,
     VerifierAnswered, DestroyAnswered, Cancel, sandbox
<1>7. CASE \E s \in Stop : StopAnswered(s) \/ \E q \in Run : EmergencyStop(s, q)
  BY <1>1, <1>7 DEF StopAnswered, EmergencyStop, sandbox
<1>8. CASE (\E t \in Target : RestoreBegins(t) \/ RestoreEnds(t)) \/ Drain \/ Restart
  BY <1>3, <1>8 DEF RestoreBegins, RestoreEnds, Drain, Restart
<1>9. CASE UNCHANGED vars
  BY <1>3, <1>9 DEF vars
<1> QED
  BY <1>2, <1>4, <1>5, <1>6, <1>7, <1>8, <1>9 DEF Next

(* The stop stands: what it wrote is not written over by the task of the   *)
(* run, and once its destroy was answered no command of the run starts.    *)
THEOREM StopHolds == Spec => StopStands
<1> DEFINE Step ==
     /\ \A r \in Run : runs[r].stopped => runs'[r].stopped /\ runs'[r].state = "STOPPED"
     /\ \A s \in Stop : LET r == stop[s].run IN
          r # 0 /\ destroy[s] = "ok" /\ r \notin alive => r \notin alive'
<1>1. ASSUME IInv, IInv', [Next]_vars PROVE Step
  <2>1. ASSUME NEW r \in Run, runs[r].stopped PROVE runs'[r].stopped /\ runs'[r].state = "STOPPED"
    BY <1>1, <2>1, StoppedStays DEF IInv, Admitted, Holds
  <2>2. ASSUME NEW s \in Stop, stop[s].run # 0, destroy[s] = "ok", stop[s].run \notin alive,
               stop[s].run \in alive'
        PROVE FALSE
    <3>1. stop[s].run \in Run
      BY <1>1, <2>2 DEF IInv, TypeOK, Press, Run0
    <3>2. execute[stop[s].run] = "sent" /\ session = stop[s].run
      BY <1>1, <2>2, <3>1, AliveGrows
    <3> QED
      BY <1>1, <2>2, <3>2 DEF IInv, Pressed
  <2> QED
    BY <2>1, <2>2
<1>2. ASSUME IInv, IInv', [Next]_vars PROVE [Step]_vars
  BY <1>1, <1>2
<1> HIDE DEF Step
<1>3. Spec => [][Step]_vars
  BY <1>2, Invariance, PTL DEF Spec
<1> QED
  BY <1>3 DEF Step, StopStands

-----------------------------------------------------------------------------
(* The gateway's count of open requests.                                   *)

LEMMA Finite ==
  IInv => /\ IsFiniteSet(Made) /\ Cardinality(Made) \in Nat
          /\ IsFiniteSet(InFlight) /\ Cardinality(InFlight) \in Nat
          /\ active \in Nat /\ MaxConcurrency \in Nat \ {0}
<1> SUFFICES ASSUME IInv
    PROVE  /\ IsFiniteSet(Made) /\ Cardinality(Made) \in Nat
           /\ IsFiniteSet(InFlight) /\ Cardinality(InFlight) \in Nat
           /\ active \in Nat /\ MaxConcurrency \in Nat \ {0}
  OBVIOUS
<1>1. IsFiniteSet(Made)
  BY Numbers, FS_Subset DEF Made
<1>2. IsFiniteSet(InFlight)
  BY BeastAssumption, FS_Subset DEF InFlight
<1> QED
  BY <1>1, <1>2, Numbers, FS_CardinalityType DEF IInv, TypeOK

LEMMA OneMore ==
  ASSUME NEW a \in Nat, NEW b \in Nat PROVE a * b \in Nat /\ a * (b + 1) = a * b + a
  OBVIOUS

LEMMA OneCeiling ==
  ASSUME NEW f \in Nat, NEW p \in Nat, NEW c \in Nat, NEW a \in Nat, f <= p
  PROVE  f + c <= a + (p + c)
  OBVIOUS

(* A run's session call is over: one more ceiling.                         *)
LEMMA CountsOneMore ==
  ASSUME IInv, Counted, NEW r \in Run, r \notin Made, Made' = Made \cup {r},
         UNCHANGED request, active' \in {active, 0}
  PROVE  Counted'
<1> DEFINE m == Cardinality(Made)
           f == Cardinality(InFlight)
<1>1. m \in Nat /\ f \in Nat /\ active \in Nat /\ MaxConcurrency \in Nat \ {0} /\ IsFiniteSet(Made)
  BY Finite
<1>2. Cardinality(Made') = m + 1
  BY <1>1, FS_AddElement
<1>3. InFlight' = InFlight
  BY DEF InFlight
<1>4. MaxConcurrency * m \in Nat /\ MaxConcurrency * (m + 1) = MaxConcurrency * m + MaxConcurrency
  BY <1>1, OneMore
<1>5. f <= MaxConcurrency * m
  <2>1. CASE Made = {}
    <3>1. InFlight = {}
      BY <2>1 DEF Counted, InFlight
    <3> QED
      BY <1>4, <3>1, FS_EmptySet
  <2>2. CASE Made # {}
    <3>1. f + MaxConcurrency <= active + MaxConcurrency * m /\ active <= MaxConcurrency
      BY <2>2 DEF Counted
    <3> HIDE DEF f, m
    <3> QED
      BY <1>1, <1>4, <3>1
  <2> QED
    BY <2>1, <2>2
<1>6. f + MaxConcurrency <= active' + MaxConcurrency * (m + 1) /\ active' <= MaxConcurrency
  <2>1. active' \in Nat /\ active' <= MaxConcurrency
    BY <1>1 DEF Counted
  <2> DEFINE p == MaxConcurrency * m
             n == MaxConcurrency * (m + 1)
  <2>2. p \in Nat /\ n \in Nat /\ n = p + MaxConcurrency /\ f <= p /\ f \in Nat /\ MaxConcurrency \in Nat
    BY <1>1, <1>4, <1>5
  <2> HIDE DEF f, p, n
  <2>3. f + MaxConcurrency <= active' + n
    BY <2>1, <2>2, OneCeiling
  <2> QED
    BY <2>1, <2>3 DEF n
<1> QED
  BY <1>2, <1>3, <1>6 DEF Counted

(* Neither a session call nor the gateway.                                 *)
LEMMA CountStays ==
  ASSUME IInv, Counted, Made' = Made, UNCHANGED gateway
  PROVE  Counted'
<1>1. InFlight' = InFlight
  BY DEF InFlight, gateway
<1> QED
  BY <1>1 DEF Counted, gateway

LEMMA ProxyCounted ==
  ASSUME IInv, Counted, Proxy PROVE Counted'
<1> DEFINE m == Cardinality(Made)
           f == Cardinality(InFlight)
<1>1. /\ m \in Nat /\ f \in Nat /\ active \in Nat /\ MaxConcurrency \in Nat \ {0}
      /\ IsFiniteSet(Made) /\ IsFiniteSet(InFlight) /\ MaxConcurrency * m \in Nat
      /\ request \in [Request -> Open]
  BY Finite, OneMore DEF IInv, TypeOK
<1>2. Made' = Made /\ armed' = armed
  BY DEF Made, Proxy, Ask, Forward, Drop, Forwarded, sandbox
<1>3. PICK i \in Request : Forward(i) \/ Drop(i) \/ Forwarded(i) \/ \E r \in Run : Ask(i, r)
  BY DEF Proxy
<1>4. CASE Forward(i)
  <2>1. /\ request' = [request EXCEPT ![i] = [request[i] EXCEPT !.at = "forwarding"]]
        /\ request[i].at = "body" /\ active < MaxConcurrency /\ active' = active + 1
    BY <1>4 DEF Forward
  <2>2. Made # {}
    BY <2>1 DEF Counted
  <2>3. InFlight' = InFlight \cup {i} /\ i \notin InFlight
    BY <1>1, <2>1 DEF InFlight, Open
  <2>4. Cardinality(InFlight') = f + 1
    BY <1>1, <2>3, FS_AddElement
  <2>5. f + MaxConcurrency <= active + MaxConcurrency * m
    BY <2>2 DEF Counted
  <2> HIDE DEF f, m
  <2>6. f + 1 + MaxConcurrency <= active' + MaxConcurrency * m /\ active' <= MaxConcurrency
    BY <1>1, <2>1, <2>5
  <2> QED
    BY <1>2, <2>2, <2>4, <2>6 DEF Counted, m
<1>5. CASE Drop(i) \/ \E r \in Run : Ask(i, r)
  <2>1. PICK o : /\ request' = [request EXCEPT ![i] = o] /\ o.at \in {"free", "body"}
                 /\ Made = {} => o.at = "free"
    BY <1>5 DEF Drop, Ask, Counted
  <2>2. request[i].at # "forwarding" /\ active' = active
    BY <1>5 DEF Drop, Ask
  <2>3. InFlight' = InFlight
    BY <1>1, <2>1, <2>2 DEF InFlight
  <2>4. Made = {} => \A j \in Request : request'[j].at = "free"
    BY <1>1, <2>1 DEF Counted
  <2> QED
    BY <1>2, <2>2, <2>3, <2>4 DEF Counted
<1>6. CASE Forwarded(i)
  <2>1. /\ request' = [request EXCEPT ![i] = [at |-> "free", run |-> 0]]
        /\ request[i].at = "forwarding" /\ active' = IF active = 0 THEN 0 ELSE active - 1
    BY <1>6 DEF Forwarded
  <2>2. Made # {} /\ i \in InFlight
    BY <2>1 DEF Counted, InFlight
  <2>3. InFlight' = InFlight \ {i}
    BY <1>1, <2>1 DEF InFlight
  <2>4. Cardinality(InFlight') = f - 1
    BY <1>1, <2>2, <2>3, FS_RemoveElement
  <2>5. f + MaxConcurrency <= active + MaxConcurrency * m /\ active <= MaxConcurrency
    BY <2>2 DEF Counted
  <2> HIDE DEF f, m
  <2>6. f - 1 + MaxConcurrency <= active' + MaxConcurrency * m /\ active' <= MaxConcurrency
    <3>1. CASE active = 0
      BY <1>1, <2>1, <2>5, <3>1
    <3>2. CASE active # 0
      BY <1>1, <2>1, <2>5, <3>2
    <3> QED
      BY <3>1, <3>2
  <2> QED
    BY <1>2, <2>2, <2>4, <2>6 DEF Counted, m
<1> QED
  BY <1>3, <1>4, <1>5, <1>6

LEMMA NextCounted ==
  ASSUME IInv, Counted, [Next]_vars PROVE Counted'
<1>1. create \in [Run -> {"none", "sent", "checked", "ok", "failed"}] /\ armed \in Run0
  BY DEF IInv, TypeOK
<1>2. CASE UNCHANGED <<create, gateway>>
  BY <1>2, CountStays DEF Made
<1>3. ASSUME NEW r \in Run, StartRun(r) PROVE Counted'
  <2>1. create[r] = "none" /\ create' = [create EXCEPT ![r] = "sent"] /\ UNCHANGED gateway
    BY <1>3, Typed DEF StartRun, Ordered
  <2>2. Made' = Made
    BY <1>1, <2>1 DEF Made
  <2> QED
    BY <2>1, <2>2, CountStays
<1>4. ASSUME NEW r \in Run, CheckSession(r) PROVE Counted'
  <2>1. create[r] = "sent" /\ UNCHANGED gateway
        /\ create' = [create EXCEPT ![r] = IF session = 0 THEN "checked" ELSE "failed"]
    BY <1>4 DEF CheckSession
  <2>2. CASE session = 0
    <3>1. Made' = Made
      BY <1>1, <2>1, <2>2 DEF Made
    <3> QED
      BY <2>1, <3>1, CountStays
  <2>3. CASE session # 0
    <3>1. Made' = Made \cup {r} /\ r \notin Made
      BY <1>1, <2>1, <2>3 DEF Made
    <3> QED
      BY <2>1, <3>1, CountsOneMore DEF gateway
  <2> QED
    BY <2>2, <2>3
<1>5. ASSUME NEW r \in Run, CreateSession(r) PROVE Counted'
  <2>1. /\ create[r] = "checked" /\ active' \in {active, 0} /\ UNCHANGED request
        /\ create' \in {[create EXCEPT ![r] = "ok"], [create EXCEPT ![r] = "failed"]}
    BY <1>5 DEF CreateSession, Arm, gateway
  <2>2. Made' = Made \cup {r} /\ r \notin Made
    BY <1>1, <2>1 DEF Made
  <2> QED
    BY <2>1, <2>2, CountsOneMore
<1>6. ASSUME NEW c \in Caller, TakeDown(c) PROVE Counted'
  <2>1. UNCHANGED <<create, active, request>> /\ armed' \in {armed, 0}
    BY <1>6 DEF TakeDown, Disarm, gateway
  <2>2. Made' = Made /\ InFlight' = InFlight
    BY <2>1 DEF Made, InFlight
  <2> QED
    BY <2>1, <2>2 DEF Counted
<1>7. CASE Supervise
  BY <1>2, <1>4, <1>5, <1>6, <1>7 DEF Supervise, Spawn, CommandEnds, Kill
<1>8. CASE \E r \in Run : Task(r) \/ Cancel(r)
  BY <1>2, <1>3, <1>8 DEF Task, SessionAnswered, DecisionAnswered, CommandAnswered,
     VerifierAnswered, DestroyAnswered, Cancel, sandbox
<1>9. CASE \E r \in Run : IssueLease(r) \/ LeaseRunsOut(r) \/ CreateRun(r) \/ RefuseExpired(r)
  BY <1>2, <1>9 DEF IssueLease, LeaseRunsOut, CreateRun, RefuseExpired, sandbox
<1>10. CASE \E s \in Stop : StopAnswered(s) \/ \E r \in Run : EmergencyStop(s, r)
  BY <1>2, <1>10 DEF StopAnswered, EmergencyStop, sandbox
<1>11. CASE (\E t \in Target : RestoreBegins(t) \/ RestoreEnds(t)) \/ Drain \/ Restart
  BY <1>2, <1>11 DEF RestoreBegins, RestoreEnds, Drain, Restart, sandbox
<1>12. CASE UNCHANGED vars
  BY <1>2, <1>12 DEF vars, sandbox
<1>13. CASE Proxy
  BY <1>13, ProxyCounted
<1> QED
  BY <1>7, <1>8, <1>9, <1>10, <1>11, <1>12, <1>13 DEF Next

(* No more requests are under way than one ceiling for each arming.        *)
THEOREM RequestsAreBounded == Spec => []ConcurrencyBound
<1>1. Init => Counted
  <2> SUFFICES ASSUME Init PROVE Counted
    OBVIOUS
  <2>1. Made = {}
    BY DEF Init, Made
  <2>2. armed = 0 /\ active = 0 /\ \A i \in Request : request[i].at = "free"
    BY DEF Init
  <2> QED
    BY <2>1, <2>2, Numbers DEF Counted
<1>2. ASSUME IInv, Counted PROVE ConcurrencyBound
  <2> DEFINE m == Cardinality(Made)
             f == Cardinality(InFlight)
  <2>1. m \in Nat /\ f \in Nat /\ active \in Nat /\ MaxConcurrency \in Nat \ {0}
        /\ MaxConcurrency * m \in Nat
    BY <1>2, Finite, OneMore
  <2>2. f <= MaxConcurrency * m
    <3>1. CASE Made = {}
      <4>1. InFlight = {}
        BY <1>2, <3>1 DEF Counted, InFlight
      <4> QED
        BY <2>1, <4>1, FS_EmptySet
    <3>2. CASE Made # {}
      <4>1. f + MaxConcurrency <= active + MaxConcurrency * m /\ active <= MaxConcurrency
        BY <1>2, <3>2 DEF Counted
      <4> HIDE DEF f, m
      <4> QED
        BY <2>1, <4>1
    <3> QED
      BY <3>1, <3>2
  <2> QED
    BY <2>2 DEF ConcurrencyBound, Made
<1>3. IInv /\ Counted /\ [Next]_vars => Counted'
  BY NextCounted
<1>4. Spec => []Counted
  BY <1>1, <1>3, Invariance, PTL DEF Spec
<1>5. IInv /\ Counted => ConcurrencyBound
  BY <1>2
<1> QED
  BY <1>4, <1>5, Invariance, PTL

-----------------------------------------------------------------------------
(* The verdict.                                                            *)

(* Of the supervisor's steps only a creation leaves the gateway armed for  *)
(* someone else, and it needs an empty sandbox, which stays empty: to be   *)
(* served, a command needs a creation of its session that was answered.    *)
LEMMA SuperviseKeepsGate ==
  ASSUME IInv, Gate, Supervise PROVE Gate'
<1>1. /\ create \in [Run -> {"none", "sent", "checked", "ok", "failed"}]
      /\ session \in Run0 /\ 0 \notin Run
  BY Numbers DEF IInv, TypeOK
<1>2. ASSUME NEW r \in Run, CheckSession(r) PROVE Gate'
  <2>1. /\ create[r] = "sent" /\ UNCHANGED <<armed, session, process, alive>>
        /\ \A q \in Run \ {r} : create'[q] = create[q]
    BY <1>1, <1>2 DEF CheckSession, gateway
  <2>2. session # 0 /\ create[session] = "failed" => create'[session] = "failed"
    BY <1>1, <2>1 DEF Run0
  <2> QED
    BY <2>1, <2>2 DEF Gate
<1>3. ASSUME NEW r \in Run, CreateSession(r) PROVE Gate'
  <2>1. create[r] = "checked" /\ UNCHANGED <<process, alive>>
    BY <1>3 DEF CreateSession
  <2>2. CASE process # 0
    BY <1>3, <2>1, <2>2 DEF CreateSession, Gate, gateway
  <2>3. CASE process = 0
    <3>1. alive = {}
      BY <1>1, <2>3 DEF Gate, IInv, TypeOK
    <3>2. session' = r /\ (armed' = r \/ create' = [create EXCEPT ![r] = "failed"])
      BY <1>3, <2>3 DEF CreateSession, Arm
    <3>3. armed' = r \/ create'[r] = "failed"
      BY <1>1, <3>2
    <3> QED
      BY <1>1, <2>1, <2>3, <3>1, <3>2, <3>3 DEF Gate
  <2> QED
    BY <2>2, <2>3
<1>4. ASSUME NEW r \in Run, Spawn(r) PROVE Gate'
  <2>1. UNCHANGED <<armed, session, create>>
    BY <1>4 DEF Spawn, gateway
  <2>2. CASE UNCHANGED <<process, alive>>
    BY <2>1, <2>2 DEF Gate
  <2>3. CASE ~UNCHANGED <<process, alive>>
    <3>1. execute[r] = "sent" /\ session = r /\ process = 0 /\ process' = r /\ alive' = alive \cup {r}
      BY <1>4, <2>3 DEF Spawn
    <3>2. create[session] = "ok"
      BY <3>1, Typed DEF Ordered
    <3>3. alive' \subseteq {process'}
      BY <1>1, <3>1 DEF Gate, IInv, TypeOK
    <3> QED
      BY <2>1, <3>2, <3>3 DEF Gate
  <2> QED
    BY <2>2, <2>3
<1>5. ASSUME NEW r \in Run, CommandEnds(r) PROVE Gate'
  <2>1. /\ UNCHANGED <<armed, session, create>>
        /\ UNCHANGED <<process, alive>> \/ (process' = 0 /\ alive' = {})
    BY <1>5 DEF CommandEnds, gateway
  <2> QED
    BY <2>1 DEF Gate
<1>6. ASSUME NEW c \in Caller, Kill(c) PROVE Gate'
  <2>1. UNCHANGED <<armed, session, create, process>> /\ alive' = {}
    BY <1>6 DEF Kill, gateway
  <2> QED
    BY <2>1 DEF Gate
<1>7. ASSUME NEW c \in Caller, TakeDown(c) PROVE Gate'
  <2>1. /\ UNCHANGED <<create, process, alive>>
        /\ UNCHANGED <<armed, session>> \/ armed' = 0
    BY <1>7, Zenon DEF TakeDown, Disarm, gateway
  <2> QED
    BY <2>1 DEF Gate
<1> QED
  BY <1>2, <1>3, <1>4, <1>5, <1>6, <1>7 DEF Supervise

LEMMA NextGate ==
  ASSUME IInv, Gate, [Next]_vars PROVE Gate'
<1>1. CASE UNCHANGED <<armed, session, process, alive, create>>
  BY <1>1 DEF Gate
<1>2. CASE \E r \in Run : IssueLease(r) \/ LeaseRunsOut(r) \/ CreateRun(r) \/ RefuseExpired(r)
  BY <1>1, <1>2 DEF IssueLease, LeaseRunsOut, CreateRun, RefuseExpired, sandbox, gateway
<1>3. ASSUME NEW r \in Run, StartRun(r) PROVE Gate'
  <2>1. /\ task[r].at = "created" /\ UNCHANGED <<armed, session, process, alive>>
        /\ create' = [create EXCEPT ![r] = "sent"]
    BY <1>3 DEF StartRun, gateway
  <2>2. create[r] = "none" /\ create \in [Run -> {"none", "sent", "checked", "ok", "failed"}]
        /\ session \in Run0
    BY <2>1, Typed DEF Ordered, IInv, TypeOK
  <2>3. session # 0 /\ create[session] = "failed" => create'[session] = "failed"
    BY <2>1, <2>2 DEF Run0
  <2> QED
    BY <2>1, <2>3 DEF Gate
<1>4. ASSUME NEW r \in Run, Task(r) \/ Cancel(r), ~StartRun(r) PROVE Gate'
  BY <1>1, <1>4 DEF Task, SessionAnswered, DecisionAnswered, CommandAnswered,
     VerifierAnswered, DestroyAnswered, Cancel, sandbox, gateway
<1>5. CASE \E s \in Stop : StopAnswered(s) \/ \E r \in Run : EmergencyStop(s, r)
  BY <1>1, <1>5 DEF StopAnswered, EmergencyStop, sandbox, gateway
<1>6. CASE (\E t \in Target : RestoreBegins(t) \/ RestoreEnds(t)) \/ Drain \/ Restart
  BY <1>1, <1>6 DEF RestoreBegins, RestoreEnds, Drain, Restart, sandbox, gateway
<1>7. CASE Supervise
  BY <1>7, SuperviseKeepsGate
<1>8. CASE Proxy
  BY <1>1, <1>8 DEF Proxy, Ask, Forward, Drop, Forwarded, sandbox
<1>9. CASE UNCHANGED vars
  BY <1>1, <1>9 DEF vars, sandbox, gateway
<1> QED
  BY <1>2, <1>3, <1>4, <1>5, <1>6, <1>7, <1>8, <1>9 DEF Next

(* A verified run ends with its sandbox gone, none of its processes left,  *)
(* its lease revoked and the gateway closed to it, whatever is lost, fails *)
(* or is stopped; but when another run's late creation took the session    *)
(* and could not arm the gateway, it may be left armed, over an empty      *)
(* sandbox, until that session goes.                                       *)
THEOREM VerdictIsEarned == Spec => []VerdictEarned
<1>1. Init => Gate
  BY DEF Init, Gate
<1>2. IInv /\ Gate /\ [Next]_vars => Gate'
  BY NextGate
<1>3. IInv /\ Gate => VerdictEarned
  <2> SUFFICES ASSUME IInv, Gate, NEW r \in Run, runs[r].state = "VERIFIED"
      PROVE  /\ runs[r].clean /\ lease[r] = "REVOKED"
             /\ session # r /\ r \notin alive
             /\ armed = r => session # 0 /\ create[session] = "failed" /\ alive = {}
    BY DEF VerdictEarned
  <2>1. Ordered(r) /\ r # 0
    BY Typed, Numbers
  <2>2. destroy[r] = "ok" /\ execute[r] \in {"none", "ok"} /\ runs[r].clean /\ lease[r] = "REVOKED"
    BY <2>1 DEF Ordered
  <2>3. session # r /\ r \notin alive
    BY <2>1, <2>2 DEF Ordered
  <2> QED
    BY <2>1, <2>2, <2>3 DEF Gate
<1>4. Spec => []Gate
  BY <1>1, <1>2, Invariance, PTL DEF Spec
<1> QED
  BY <1>3, <1>4, Invariance, PTL
=============================================================================
