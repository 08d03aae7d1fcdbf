----------------------------- MODULE ActiveScan -----------------------------
(***************************************************************************)
(* One active scan across the parts that must agree on it: the controller  *)
(* (aegis/zap_active_controller.py, its adapter and its lease store), the  *)
(* runner (zap_active_runner/execution.py), the registry (the slot of      *)
(* LeaseSlot, which Admission implements) and the scope guard (zap_guard). *)
(*                                                                         *)
(* The controller is one event loop: what it does between two awaits is    *)
(* one step.  Every call to the runner is a thread of its own there, and   *)
(* goes on when the controller has given up on it.  Under the runner's     *)
(* lock runs one execution; the emergency stop and the spawn of the engine *)
(* exclude each other by the stop lock.                                    *)
(*                                                                         *)
(* A session, its lease and its execution id are one number.  `late' holds *)
(* the leases whose expiry has passed, on one clock for all.  The report,  *)
(* the alerts and the verifier's probes are left out.                      *)
(***************************************************************************)
EXTENDS Naturals, FiniteSets

CONSTANTS
  MaxSession,  \* bound: activations
  Stop,        \* presses of the emergency stop
  Scenario,    \* the targets an activation may name
  Worlds       \* what may happen together.  "stop": the operator presses it;
               \* "rpc": calls to the runner are lost or time out;
               \* "guard", "registry": the runner's own calls are;
               \* "restart": the controller and the registry restart

Session == 1..MaxSession

ASSUME ActiveScanAssumption ==
  /\ MaxSession \in Nat \ {0}
  /\ Stop \cap Session = {}
  /\ Scenario # {}
  /\ Worlds # {} /\ \A w \in Worlds : w \subseteq {"stop", "rpc", "guard", "registry", "restart"}

VARIABLES
  world,     \* which of Worlds this is
  scenario,  \* what each activation will ask for
  late,      \* leases past expires_at
  \* the controller
  cur,       \* ZapActiveController.session
  sess,      \* ZapActiveSession.state
  leased,    \* the sessions that were issued a lease
  store,     \* ActiveScanLeaseStore._lease
  arming,    \* the activation that awaits its arm call
  task,      \* execute(), per session
  stop,      \* stop(), per press
  \* the runner's threads
  armCall,   \* POST /v1/lease/arm
  run,       \* POST /v1/run
  kill,      \* POST /v1/emergency-stop
  revoke,    \* POST /v1/lease/revoke, from execute() or stop()
  flag,      \* Executor._stop
  \* the guard and the registry
  guard,     \* GuardState
  slot, spent

INSTANCE LeaseSlot WITH Lease <- Session, None <- 0

control  == <<cur, sess, leased, store, arming, task, stop>>
threads  == <<armCall, run, kill, revoke, flag>>
given    == <<world, scenario>>
vars     == <<given, late, control, threads, guard, slot, spent>>

-----------------------------------------------------------------------------

May(event) == event \in world

(* touch: STOPPED is terminal *)
Touch(s, st) == sess' = [sess EXCEPT ![s] = IF @ = "STOPPED" THEN @ ELSE st]

(* _expire_if_needed, is_live, _terminate *)
Fresh == IF store.state = "ISSUED" /\ store.lease \in late
         THEN [store EXCEPT !.state = "EXPIRED"] ELSE store
Live  == Fresh.state = "ISSUED"
Terminated(l, st) == IF store.lease = l /\ store.state \in {"ISSUED", "CONSUMED"}
                     THEN [store EXCEPT !.state = st] ELSE store

(* The runner: the lock, the lease and the process in flight, the stop lock *)
Locked   == {"begun", "granted", "tracked", "armed", "spawned", "disarmed", "closing", "revoking"}
Busy     == \E s \in Session : run[s].pc \in Locked
InFlight == {s \in Session : run[s].pc \in Locked \ {"begun", "granted"}}
Engines  == {s \in Session : run[s].engine = "alive"}
StopLock == \E k \in Stop : kill[k].pc \in {"revoked", "guarded"}

(* GuardState.is_armed; arm_active is refused while it holds *)
GuardOpen == guard.run # 0 /\ ~guard.revoked /\ guard.lease \notin late
Disarmed(s) == IF guard.run = s THEN [guard EXCEPT !.run = 0, !.lease = 0] ELSE guard
GuardRevoked(l) == IF guard.lease = l THEN [guard EXCEPT !.revoked = TRUE] ELSE guard

(* revoke at the registry; the lease of a record that is not in the slot stays *)
Release(l) == IF slot.lease = l THEN Free ELSE UNCHANGED <<slot, spent>>

Ended(s, out) == run' = [run EXCEPT ![s].pc = "ended", ![s].out = out]
At(s, pc)     == run' = [run EXCEPT ![s].pc = pc]

Init ==
  /\ world \in Worlds /\ scenario \in [Session -> Scenario]
  /\ late = {} /\ leased = {}
  /\ cur = 0 /\ arming = 0
  /\ sess = [s \in 0..MaxSession |-> IF s = 0 THEN "IDLE" ELSE "NONE"]
  /\ store = [lease |-> 0, state |-> "NONE"]
  /\ task = [s \in Session |-> [pc |-> "idle", lease |-> 0, result |-> "NONE"]]
  /\ stop = [k \in Stop |-> [pc |-> "idle", session |-> 0]]
  /\ armCall = [s \in Session |-> "idle"]
  /\ run = [s \in Session |-> [pc |-> "idle", engine |-> "none", traffic |-> "none",
                               out |-> "NONE"]]
  /\ kill = [k \in Stop |-> [pc |-> "idle", lease |-> 0, process |-> 0, quiet |-> FALSE]]
  /\ revoke = [c \in Session \cup Stop |-> "idle"]
  /\ flag = FALSE
  /\ guard = [run |-> 0, lease |-> 0, revoked |-> FALSE]
  /\ SlotInit

-----------------------------------------------------------------------------
(* The ceremony: activate(), under its own lock.                            *)

Activate(s) ==
  /\ s = cur + 1 /\ arming = 0
  /\ sess[cur] \notin {"ARMED", "RUNNING"}
  /\ cur' = s
  /\ \/ (* the policy rejects the job *)
        /\ Touch(s, "FAILED")
        /\ UNCHANGED <<leased, store, arming, armCall>>
     \/ (* issue() finds a live lease *)
        /\ Live
        /\ Touch(s, "IDLE")
        /\ UNCHANGED <<leased, store, arming, armCall>>
     \/ /\ ~Live
        /\ Touch(s, "IDLE")
        /\ store' = [lease |-> s, state |-> "ISSUED"]
        /\ leased' = leased \cup {s}
        /\ arming' = s
        /\ armCall' = [armCall EXCEPT ![s] = "sent"]
  /\ UNCHANGED <<given, late, task, stop, run, kill, revoke, flag, guard, slot, spent>>

(* The runner's thread asks the registry. *)
ArmAtRegistry(s) ==
  /\ armCall[s] = "sent"
  /\ \/ /\ slot.lease = 0 \/ slot.lease \in late
        /\ Admit(s)
        /\ \/ armCall' = [armCall EXCEPT ![s] = "armed"]
           \/ May("registry") /\ armCall' = [armCall EXCEPT ![s] = "refused"]
     \/ /\ slot.lease # 0 \/ s \in late \/ May("registry")
        /\ armCall' = [armCall EXCEPT ![s] = "refused"]
        /\ UNCHANGED <<slot, spent>>
  /\ UNCHANGED <<given, late, control, run, kill, revoke, flag, guard>>

Armed(s) ==
  /\ arming = s /\ armCall[s] = "armed"
  /\ arming' = 0
  /\ Touch(s, "ARMED")
  /\ UNCHANGED <<given, late, cur, leased, store, task, stop, threads, guard, slot, spent>>

ArmFailed(s) ==
  /\ arming = s
  /\ armCall[s] = "refused" \/ May("rpc")
  /\ arming' = 0
  /\ store' = Terminated(s, "REVOKED")
  /\ Touch(s, "FAILED")
  /\ UNCHANGED <<given, late, cur, leased, task, stop, threads, guard, slot, spent>>

-----------------------------------------------------------------------------
(* execute(), with the adapter's run() inside.                              *)

Execute(s) ==
  /\ s = cur /\ sess[s] = "ARMED"
  /\ Touch(s, "RUNNING")
  /\ task' = [task EXCEPT ![s].pc = "starting"]
  /\ UNCHANGED <<given, late, cur, leased, store, arming, stop, threads, guard, slot, spent>>

(* Faulty: whatever the state of the lease in the store. *)
ConsumableAnyState(st, s) == st.lease # 0 /\ scenario[st.lease] = scenario[s]

(* ActiveScanLeaseStore.consume, called with the store's own current token *)
Consumable(st, s) == st.state = "ISSUED" /\ scenario[st.lease] = scenario[s]

(* The target is reset and the runner attests; then the lease is consumed.  *)
Start(s) ==
  /\ task[s].pc = "starting"
  /\ \/ (* the runner does not attest *)
        /\ task' = [task EXCEPT ![s].pc = "finishing", ![s].result = "FAILED"]
        /\ UNCHANGED <<store, run>>
     \/ /\ Consumable(Fresh, s)
        /\ store' = [Fresh EXCEPT !.state = "CONSUMED"]
        /\ task' = [task EXCEPT ![s].pc = "running", ![s].lease = store.lease]
        /\ At(s, "sent")
     \/ /\ ~Consumable(Fresh, s)
        /\ store' = Fresh
        /\ task' = [task EXCEPT ![s].pc = "finishing", ![s].result = "FAILED"]
        /\ UNCHANGED run
  /\ UNCHANGED <<given, late, cur, sess, leased, arming, stop, armCall, kill, revoke, flag,
                 guard, slot, spent>>

(* Faulty: only a run that was accepted is answered. *)
RunAnsweredIfRun(s) ==
  /\ task[s].pc = "running" /\ run[s].pc = "ended" /\ run[s].out # "REJECTED"
  /\ store' = Terminated(task[s].lease, "REVOKED")
  /\ task' = [task EXCEPT ![s].pc = "finishing", ![s].result = run[s].out]
  /\ UNCHANGED <<given, late, cur, sess, leased, arming, stop, threads, guard, slot, spent>>

(* The run call answers, or is lost. *)
RunAnswered(s) ==
  /\ task[s].pc = "running"
  /\ \/ /\ run[s].pc = "ended" /\ run[s].out \in {"REJECTED", "FAILED"}
        /\ store' = Terminated(task[s].lease, "REVOKED")
        /\ task' = [task EXCEPT ![s].pc = "finishing", ![s].result = "FAILED"]
        /\ UNCHANGED revoke
     \/ /\ run[s].pc = "ended" /\ run[s].out \in {"STOPPED", "COMPLETED"}
        /\ store' = Terminated(task[s].lease,
                               IF run[s].out = "STOPPED" THEN "REVOKED" ELSE "COMPLETED")
        /\ task' = [task EXCEPT ![s].pc = "closing", ![s].result = run[s].out]
        /\ revoke' = [revoke EXCEPT ![s] = "sent"]
     \/ /\ May("rpc")
        /\ store' = Terminated(task[s].lease, "REVOKED")
        /\ task' = [task EXCEPT ![s].pc = "closing", ![s].result = "FAILED"]
        /\ revoke' = [revoke EXCEPT ![s] = "sent"]
  /\ UNCHANGED <<given, late, cur, sess, leased, arming, stop, armCall, run, kill, flag,
                 guard, slot, spent>>

Closed(s) ==
  /\ task[s].pc = "closing"
  /\ revoke[s] = "ended" \/ May("rpc")
  /\ task' = [task EXCEPT ![s].pc = "finishing"]
  /\ UNCHANGED <<given, late, cur, sess, leased, store, arming, stop, threads, guard, slot, spent>>

(* The verifier has run and the target is reset. *)
Finish(s) ==
  /\ task[s].pc = "finishing"
  /\ task' = [task EXCEPT ![s].pc = "ended"]
  /\ Touch(s, task[s].result)
  /\ UNCHANGED <<given, late, cur, leased, store, arming, stop, threads, guard, slot, spent>>

-----------------------------------------------------------------------------
(* stop(): the runner first, then the store, then the lease at the runner.  *)

Press(k) ==
  /\ May("stop") /\ stop[k].pc = "idle"
  /\ stop' = [stop EXCEPT ![k].pc = "stopping", ![k].session = cur]
  /\ kill' = [kill EXCEPT ![k].pc = "sent"]
  /\ UNCHANGED <<given, late, cur, sess, leased, store, arming, task, armCall, run, revoke,
                 flag, guard, slot, spent>>

RunnerStopped(k) ==
  /\ stop[k].pc = "stopping"
  /\ kill[k].pc = "ended" \/ May("rpc")
  /\ IF stop[k].session \in leased
     THEN /\ store' = Terminated(store.lease, "REVOKED")
          /\ revoke' = [revoke EXCEPT ![k] = "sent"]
          /\ stop' = [stop EXCEPT ![k].pc = "revoking"]
          /\ UNCHANGED sess
     ELSE /\ Touch(stop[k].session, "STOPPED")
          /\ stop' = [stop EXCEPT ![k].pc = "ended"]
          /\ UNCHANGED <<store, revoke>>
  /\ UNCHANGED <<given, late, cur, leased, arming, task, armCall, run, kill, flag,
                 guard, slot, spent>>

Stopped(k) ==
  /\ stop[k].pc = "revoking"
  /\ revoke[k] = "ended" \/ May("rpc")
  /\ Touch(stop[k].session, "STOPPED")
  /\ stop' = [stop EXCEPT ![k].pc = "ended"]
  /\ UNCHANGED <<given, late, cur, leased, store, arming, task, threads, guard, slot, spent>>

(* The controller comes back with an idle session and an empty store. *)
ControllerRestart ==
  /\ May("restart") /\ cur # 0 /\ sess[cur] # "GONE"
  /\ sess' = [s \in 0..MaxSession |-> IF s \in 1..cur THEN "GONE" ELSE sess[s]]
  /\ store' = [lease |-> 0, state |-> "NONE"]
  /\ leased' = {} /\ arming' = 0
  /\ task' = [s \in Session |-> IF task[s].pc = "idle" THEN task[s]
                                ELSE [task[s] EXCEPT !.pc = "ended"]]
  /\ stop' = [k \in Stop |-> IF stop[k].pc = "idle" THEN stop[k]
                             ELSE [stop[k] EXCEPT !.pc = "ended"]]
  /\ UNCHANGED <<given, late, cur, threads, guard, slot, spent>>

-----------------------------------------------------------------------------
(* The runner: Executor.run, one thread per call.                           *)

(* Faulty: the lock is not tried. *)
RunBeginUnlocked(s) ==
  /\ run[s].pc = "sent"
  /\ At(s, "begun") /\ flag' = FALSE
  /\ UNCHANGED <<given, late, control, armCall, kill, revoke, guard, slot, spent>>

RunBegin(s) ==
  /\ run[s].pc = "sent"
  /\ \/ (* the policy rejects, or the runner is busy *)
        Ended(s, "REJECTED") /\ UNCHANGED flag
     \/ ~Busy /\ At(s, "begun") /\ flag' = FALSE
  /\ UNCHANGED <<given, late, control, armCall, kill, revoke, guard, slot, spent>>

(* Faulty: a refused consumption goes unnoticed. *)
RunConsumeBlindly(s) ==
  /\ run[s].pc = "begun"
  /\ At(s, "granted")
  /\ IF slot = [lease |-> task[s].lease, used |-> FALSE] THEN Grant(task[s].lease)
     ELSE UNCHANGED <<slot, spent>>
  /\ UNCHANGED <<given, late, control, armCall, kill, revoke, flag, guard>>

RunConsume(s) ==
  /\ run[s].pc = "begun"
  /\ LET l == task[s].lease IN
     \/ l \notin late /\ Grant(l) /\ At(s, "granted")
     \/ May("registry") /\ l \notin late /\ Burn(l) /\ Ended(s, "REJECTED")
     \/ (* an engine or add-on file has changed, or the registry refuses *)
        Ended(s, "REJECTED") /\ UNCHANGED <<slot, spent>>
  /\ UNCHANGED <<given, late, control, armCall, kill, revoke, flag, guard>>

RunTrack(s) ==
  /\ run[s].pc = "granted"
  /\ At(s, "tracked")
  /\ UNCHANGED <<given, late, control, armCall, kill, revoke, flag, guard, slot, spent>>

(* Projection, plan and guard; what fails before the token is known leaves  *)
(* nothing to disarm.                                                       *)
RunArmGuard(s) ==
  /\ run[s].pc = "tracked"
  /\ \/ /\ ~GuardOpen /\ task[s].lease \notin late
        /\ guard' = [run |-> s, lease |-> task[s].lease, revoked |-> FALSE]
        /\ \/ At(s, "armed")
           \/ May("guard") /\ run' = [run EXCEPT ![s].pc = "revoking", ![s].out = "FAILED"]
     \/ /\ run' = [run EXCEPT ![s].pc = "revoking", ![s].out = "FAILED"]
        /\ UNCHANGED guard
  /\ UNCHANGED <<given, late, control, armCall, kill, revoke, flag, slot, spent>>

(* Faulty: the stop is not looked at. *)
RunSpawnRegardless(s) ==
  /\ run[s].pc = "armed" /\ ~StopLock
  /\ run' = [run EXCEPT ![s].pc = "spawned", ![s].engine = "alive"]
  /\ UNCHANGED <<given, late, control, armCall, kill, revoke, flag, guard, slot, spent>>

RunSpawn(s) ==
  /\ run[s].pc = "armed" /\ ~StopLock
  /\ \/ flag /\ run' = [run EXCEPT ![s].pc = "closing", ![s].out = "STOPPED"]
     \/ ~flag /\ run' = [run EXCEPT ![s].pc = "spawned", ![s].engine = "alive"]
     \/ ~flag /\ run' = [run EXCEPT ![s].pc = "closing", ![s].out = "FAILED"]
  /\ UNCHANGED <<given, late, control, armCall, kill, revoke, flag, guard, slot, spent>>

(* A request of the engine meets the guard.  A refusal for want of an armed *)
(* guard is in none of the counters the runner polls.                       *)
EngineRequest(s) ==
  /\ run[s].engine = "alive"
  /\ LET t == run[s].traffic IN
     \/ GuardOpen /\ t = "none" /\ run' = [run EXCEPT ![s].traffic = "some"]
     \/ ~GuardOpen /\ t = "none" /\ run' = [run EXCEPT ![s].traffic = "refused"]
     \/ ~GuardOpen /\ t = "some" /\ run' = [run EXCEPT ![s].traffic = "cut"]
  /\ UNCHANGED <<given, late, control, armCall, kill, revoke, flag, guard, slot, spent>>

(* It exits, or is killed: out of time, out of budget, out of scope, stopped. *)
EngineEnds(s) ==
  /\ run[s].engine = "alive"
  /\ \E e \in {"clean", "dead"} : run' = [run EXCEPT ![s].engine = e]
  /\ UNCHANGED <<given, late, control, armCall, kill, revoke, flag, guard, slot, spent>>

(* Without the guard's counters the run has failed. *)
RunDisarm(s) ==
  /\ run[s].pc = "spawned" /\ run[s].engine # "alive"
  /\ \/ guard' = Disarmed(s) /\ At(s, "disarmed")
     \/ /\ May("guard") /\ guard' \in {guard, Disarmed(s)}
        /\ run' = [run EXCEPT ![s].pc = "disarmed", ![s].engine = "dead"]
  /\ UNCHANGED <<given, late, control, armCall, kill, revoke, flag, slot, spent>>

(* Faulty: the exit status alone decides. *)
RunClassifyByExit(s) ==
  /\ run[s].pc = "disarmed"
  /\ \E out \in {"FAILED", "COMPLETED"} :
       /\ out = "COMPLETED" => run[s].engine = "clean" /\ run[s].traffic \in {"some", "cut"}
       /\ run' = [run EXCEPT ![s].pc = "closing", ![s].out = out]
  /\ UNCHANGED <<given, late, control, armCall, kill, revoke, flag, guard, slot, spent>>

RunClassify(s) ==
  /\ run[s].pc = "disarmed"
  /\ \E out \in {"STOPPED", "FAILED", "COMPLETED"} :
       /\ flag <=> out = "STOPPED"
       /\ out = "COMPLETED" => run[s].engine = "clean" /\ run[s].traffic \in {"some", "cut"}
       /\ run' = [run EXCEPT ![s].pc = "closing", ![s].out = out]
  /\ UNCHANGED <<given, late, control, armCall, kill, revoke, flag, guard, slot, spent>>

RunClose(s) ==
  /\ run[s].pc = "closing"
  /\ At(s, "revoking")
  /\ guard' \in {Disarmed(s)} \cup (IF May("guard") THEN {guard} ELSE {})
  /\ UNCHANGED <<given, late, control, armCall, kill, revoke, flag, slot, spent>>

(* The lease is terminal, nothing is in flight, the lock is free. *)
RunEnd(s) ==
  /\ run[s].pc = "revoking"
  /\ At(s, "ended")
  /\ Release(task[s].lease) \/ (May("registry") /\ UNCHANGED <<slot, spent>>)
  /\ UNCHANGED <<given, late, control, armCall, kill, revoke, flag, guard>>

-----------------------------------------------------------------------------
(* The kill switch: Executor.emergency_stop.  It waits a while, without the *)
(* stop lock, for the execution in flight to reach its spawn.               *)

KillBegin(k) ==
  /\ kill[k].pc = "sent"
  /\ \E s \in InFlight \cup {0} :
       /\ s = 0 => InFlight = {}
       /\ kill' = [kill EXCEPT ![k].pc = "waiting",
                               ![k].lease = IF s = 0 THEN 0 ELSE task[s].lease,
                               ![k].process = IF s \in Engines THEN s ELSE 0]
  /\ UNCHANGED <<given, late, control, armCall, run, revoke, flag, guard, slot, spent>>

KillLook(k) ==
  /\ kill[k].pc = "waiting" /\ kill[k].lease # 0 /\ kill[k].process = 0
  /\ \E s \in Engines : kill' = [kill EXCEPT ![k].process = s]
  /\ UNCHANGED <<given, late, control, armCall, run, revoke, flag, guard, slot, spent>>

KillRevoke(k) ==
  /\ kill[k].pc = "waiting" /\ ~StopLock
  /\ \/ /\ kill[k].lease = 0
        /\ kill' = [kill EXCEPT ![k].pc = "ended"]
        /\ flag' = TRUE
        /\ UNCHANGED <<slot, spent>>
     \/ /\ kill[k].lease # 0
        /\ kill' = [kill EXCEPT ![k].pc = "revoked"]
        /\ Release(kill[k].lease) \/ (May("registry") /\ UNCHANGED <<slot, spent>>)
        /\ UNCHANGED flag
  /\ UNCHANGED <<given, late, control, armCall, run, revoke, guard>>

(* Faulty: the guard is left armed. *)
KillGuardForgotten(k) ==
  /\ kill[k].pc = "revoked"
  /\ kill' = [kill EXCEPT ![k].pc = "guarded", ![k].quiet = TRUE]
  /\ UNCHANGED <<given, late, control, armCall, run, revoke, flag, guard, slot, spent>>

(* quiet is steps["guard_disarmed"]: revoked there, or idle anyway *)
KillGuard(k) ==
  /\ kill[k].pc = "revoked"
  /\ \/ /\ guard' = GuardRevoked(kill[k].lease)
        /\ kill' = [kill EXCEPT ![k].pc = "guarded",
                                ![k].quiet = guard.lease = kill[k].lease \/ ~GuardOpen]
     \/ /\ May("guard")
        /\ guard' \in {guard, GuardRevoked(kill[k].lease)}
        /\ kill' = [kill EXCEPT ![k].pc = "guarded"]
  /\ UNCHANGED <<given, late, control, armCall, run, revoke, flag, slot, spent>>

KillEnd(k) ==
  /\ kill[k].pc = "guarded"
  /\ kill' = [kill EXCEPT ![k].pc = "ended"]
  /\ flag' = TRUE
  /\ run' = [s \in Session |-> IF s = kill[k].process /\ run[s].engine = "alive"
                               THEN [run[s] EXCEPT !.engine = "dead"] ELSE run[s]]
  /\ UNCHANGED <<given, late, control, armCall, revoke, guard, slot, spent>>

(* revoke_lease, for execute() of a session or for a press of the stop      *)
RevokedLease(c) == IF c \in Stop THEN stop[c].session ELSE task[c].lease

RevokeAtGuard(c) ==
  /\ revoke[c] = "sent"
  /\ revoke' = [revoke EXCEPT ![c] = "half"]
  /\ guard' \in {GuardRevoked(RevokedLease(c))} \cup (IF May("guard") THEN {guard} ELSE {})
  /\ UNCHANGED <<given, late, control, armCall, run, kill, flag, slot, spent>>

RevokeAtRegistry(c) ==
  /\ revoke[c] = "half"
  /\ revoke' = [revoke EXCEPT ![c] = "ended"]
  /\ Release(RevokedLease(c)) \/ (May("registry") /\ UNCHANGED <<slot, spent>>)
  /\ UNCHANGED <<given, late, control, armCall, run, kill, flag, guard>>

-----------------------------------------------------------------------------
(* Time, and the registry on its own.                                       *)

Expire(l) ==
  /\ l \in 1..cur \ late
  /\ late' = late \cup {l}
  /\ UNCHANGED <<given, control, threads, guard, slot, spent>>

SlotFreed ==
  /\ slot.lease # 0
  /\ slot.lease \in late \/ May("restart")
  /\ Free
  /\ UNCHANGED <<given, late, control, threads, guard>>

-----------------------------------------------------------------------------
Operator ==
  \/ \E s \in Session : Activate(s) \/ Execute(s)
  \/ \E k \in Stop : Press(k)

SessionTask(s) ==
  Armed(s) \/ ArmFailed(s) \/ Start(s) \/ RunAnswered(s) \/ Closed(s) \/ Finish(s)

StopTask(k) == RunnerStopped(k) \/ Stopped(k)

Controller ==
  \/ \E s \in Session : SessionTask(s)
  \/ \E k \in Stop : StopTask(k)

RunThread(s) ==
  \/ RunBegin(s) \/ RunConsume(s) \/ RunTrack(s) \/ RunArmGuard(s) \/ RunSpawn(s)
  \/ RunDisarm(s) \/ RunClassify(s) \/ RunClose(s) \/ RunEnd(s)

KillThread(k) == KillBegin(k) \/ KillRevoke(k) \/ KillGuard(k) \/ KillEnd(k)

RevokeThread(c) == RevokeAtGuard(c) \/ RevokeAtRegistry(c)

Runner ==
  \/ \E s \in Session : ArmAtRegistry(s) \/ RunThread(s) \/ EngineRequest(s) \/ EngineEnds(s)
  \/ \E k \in Stop : KillThread(k) \/ KillLook(k)
  \/ \E c \in Session \cup Stop : RevokeThread(c)

World == ControllerRestart \/ SlotFreed \/ \E l \in Session : Expire(l)

Next == Operator \/ Controller \/ Runner \/ World

Spec == Init /\ [][Next]_vars

(* The tasks of the controller are sequential, and one that can go on does;   *)
(* so does every thread of the runner, and an engine that does not exit meets *)
(* its deadline.                                                            *)
Fairness ==
  /\ \A s \in Session : /\ WF_vars(SessionTask(s)) /\ WF_vars(ArmAtRegistry(s))
                         /\ WF_vars(RunThread(s)) /\ WF_vars(EngineEnds(s))
  /\ \A k \in Stop : WF_vars(StopTask(k)) /\ WF_vars(KillThread(k))
  /\ \A c \in Session \cup Stop : WF_vars(RevokeThread(c))

FairSpec == Spec /\ Fairness

-----------------------------------------------------------------------------
(* Properties.                                                              *)

Reaches(s) == run[s].engine = "alive" /\ GuardOpen

(* Two engines never run side by side, and one that runs is supervised by   *)
(* the thread that holds the runner's lock, whatever the controller gave up *)
(* on or forgot.                                                            *)
OneEngine ==
  /\ \A s \in Engines : run[s].pc = "spawned"
  /\ \A r, s \in Session : run[r].pc \in Locked /\ run[s].pc \in Locked => r = s

(* What an engine sends passes the guard only under that execution's own    *)
(* arming, with the lease the registry granted to it.                       *)
TrafficIsOwn ==
  \A s \in Session : Reaches(s) =>
    guard.run = s /\ guard.lease = task[s].lease /\ guard.lease \in spent

(* A lease starts one execution at most, over stops, lost calls, restarts   *)
(* and new activations.                                                     *)
LeaseRunsOnce ==
  \A r, s \in Session : task[r].lease = task[s].lease /\ task[r].lease # 0 => r = s

(* A kill switch that says the guard is disarmed has silenced the execution *)
(* it found in flight, for good: no engine of it reaches the target.        *)
StopSilences ==
  \A k \in Stop, s \in Session :
    kill[k].pc = "ended" /\ kill[k].quiet /\ kill[k].lease = task[s].lease => ~Reaches(s)

(* ... and that execution is never classified as completed.                 *)
StopNotOvertaken ==
  [][\A k \in Stop, s \in Session :
       kill[k].pc = "ended" /\ kill[k].lease # 0 /\ kill[k].lease = task[s].lease
         => ~(run[s].out = "NONE" /\ run'[s].out = "COMPLETED")]_vars

(* Every session that runs ends, the runner's lock is always given back,    *)
(* and a stop comes to its end whoever holds the locks it needs, over every *)
(* loss and refusal.                                                        *)
AllSettle ==
  /\ \A s \in Session : sess[s] = "RUNNING" ~> sess[s] # "RUNNING"
  /\ Busy ~> ~Busy
  /\ \A k \in Stop : kill[k].pc = "sent" ~> kill[k].pc = "ended"
=============================================================================
