----------------------------- MODULE Admission -----------------------------
(***************************************************************************)
(* The armed-lease registry of zap_active_admission/registry.py: a signed  *)
(* lease is permission to scan only once it is armed here, and only until  *)
(* it is consumed, revoked, expired, or the component restarts.            *)
(*                                                                         *)
(* Handler threads read the clock, then wait for the one lock; everything  *)
(* under the lock, its one or two persists included, is one step.  A       *)
(* persist may fail before or after the new file is in place, and the      *)
(* process may die at any moment.                                          *)
(*                                                                         *)
(* Abstractions.  A lease, its token and its nonce are one value.  What a  *)
(* signature or a binding check decides is `fits'.  The sixteen-entry      *)
(* window on terminated records, which only picks a refusal code, and the  *)
(* counters are left out.  `log' and `told' are what callers have seen; no *)
(* guard reads them, but for the bound MaxLog.                             *)
(***************************************************************************)
EXTENDS Naturals, Sequences, FiniteSets

CONSTANTS
  Lease,        \* signed leases
  None,         \* no lease, no request
  Thread,       \* handler threads
  NotBefore,    \* LeaseClaims.not_before of each lease
  Expires,      \* LeaseClaims.expires_at of each lease
  Skew,         \* MAX_CLOCK_SKEW_SECONDS
  NonceMemory,  \* NONCE_MEMORY
  Faults,       \* what may become of the file: "bad", "absent"
  MaxTime,      \* bound: the clock
  MaxLog        \* bound: consumptions

ASSUME AdmissionAssumption ==
  /\ None \notin Lease
  /\ NotBefore \in [Lease -> Nat]
  /\ Expires \in [Lease -> Nat]
  /\ Skew \in Nat
  /\ NonceMemory \in Nat \ {0}
  /\ Faults \subseteq {"bad", "absent"}
  /\ MaxTime \in Nat
  /\ MaxLog \in Nat

VARIABLES
  up,     \* the component runs
  reg,    \* AdmissionRegistry: healthy, _armed, _recent, _nonces
  disk,   \* leases.json and .initialized
  now,    \* the clock
  req,    \* the request each thread has read and not yet answered
  log,    \* every consumption made in memory, granted to its caller or not
  told    \* per lease, what the last caller to be answered was told of it

registryVars == <<up, reg, disk, now, req, log, told>>

-----------------------------------------------------------------------------
Status  == {"none", "ARMED", "CONSUMED", "REVOKED", "EXPIRED"}
Registry == [healthy: BOOLEAN, armed: Lease \cup {None}, recent: [Lease -> Status],
             nonces: Seq(Lease)]
Disk     == [file: {"absent", "ok", "bad"}, marker: BOOLEAN, armed: Lease \cup {None},
             recent: [Lease -> Status], nonces: Seq(Lease)]
Request  == [op: {"arm", "consume", "revoke"}, lease: Lease, t: Nat]

EmptyRegistry == [healthy |-> FALSE, armed |-> None, recent |-> [l \in Lease |-> "none"],
                  nonces |-> <<>>]

(* How a persist ends: done, failed with the old file in place, failed with *)
(* the new file in place (the directory or the marker could not be synced). *)
Persist == {"ok", "old", "new"}

Image(r, marker) == [file |-> "ok", marker |-> marker, armed |-> r.armed,
                     recent |-> r.recent, nonces |-> r.nonces]

(* _persist: the registry and the volume after it *)
Persisted(r, d, p) ==
  [reg  |-> IF p = "ok" THEN r ELSE [r EXCEPT !.healthy = FALSE],
   disk |-> IF p = "old" THEN d ELSE Image(r, d.marker)]

(* _remember_nonce *)
RememberNonce(ns, l) ==
  IF Len(ns) < NonceMemory THEN Append(ns, l) ELSE Tail(Append(ns, l))

Known(r, l) == \E k \in 1..Len(r.nonces) : r.nonces[k] = l

(* What a record is moved to; the armed slot is left to the caller. *)
Marked(r, l, st) == [r EXCEPT !.recent[l] = st]

(* Faulty: an expired lease keeps the slot. *)
NeverExpired(t, p) == [reg |-> reg, disk |-> disk]

(* _expire_locked; a CONSUMED record expires too, and frees the slot *)
ExpiredAt(t, p) ==
  IF reg.armed # None /\ Expires[reg.armed] <= t
  THEN Persisted([Marked(reg, reg.armed, "EXPIRED") EXCEPT !.armed = None], disk, p)
  ELSE [reg |-> reg, disk |-> disk]

(* _authenticate: the skew is granted here, not in _expire_locked *)
Authentic(q) == q.t + Skew >= NotBefore[q.lease] /\ q.t < Expires[q.lease] + Skew

-----------------------------------------------------------------------------
RegistryInit ==
  /\ up = FALSE
  /\ reg = EmptyRegistry
  /\ disk = [file |-> "absent", marker |-> FALSE, armed |-> None,
             recent |-> EmptyRegistry.recent, nonces |-> <<>>]
  /\ now = 0
  /\ req = [c \in Thread |-> None]
  /\ log = <<>>
  /\ told = [l \in Lease |-> "stopped"]

(* The clock and the volume.                                                *)

Tick ==
  /\ now < MaxTime
  /\ now' = now + 1
  /\ UNCHANGED <<up, reg, disk, req, log, told>>

Damage(f) ==
  /\ disk.file # "absent"
  /\ disk' = [disk EXCEPT !.file = f]
  /\ UNCHANGED <<up, reg, now, req, log, told>>

Crash ==
  /\ up
  /\ up' = FALSE
  /\ reg' = EmptyRegistry
  /\ req' = [c \in Thread |-> None]
  /\ UNCHANGED <<disk, now, log, told>>

(* _recover: every lease that was still ARMED is REVOKED(RUNNER_RESTART).   *)

(* Faulty: a lease that was armed stays armed over a restart. *)
RecoveredStillArmed ==
  [healthy |-> TRUE, armed |-> disk.armed, nonces |-> disk.nonces, recent |-> disk.recent]

(* Faulty: the consumed set is not read back. *)
RecoveredForgetful ==
  [healthy |-> TRUE, armed |-> None, nonces |-> <<>>,
   recent |-> [l \in Lease |-> IF disk.recent[l] = "ARMED" THEN "REVOKED" ELSE disk.recent[l]]]

Recovered ==
  [healthy |-> TRUE, armed |-> None, nonces |-> disk.nonces,
   recent |-> [l \in Lease |-> IF disk.recent[l] = "ARMED" THEN "REVOKED" ELSE disk.recent[l]]]

(* the one ARMED record there may be is the one in the slot *)
Coherent == \A l \in Lease : disk.recent[l] = "ARMED" => disk.armed = l

Boot(p) ==
  /\ ~up
  /\ up' = TRUE
  /\ \/ /\ disk.file = "absent" /\ ~disk.marker
        /\ \E marker \in BOOLEAN :
             LET fresh == [EmptyRegistry EXCEPT !.healthy = TRUE]
                 x     == Persisted(fresh, [disk EXCEPT !.marker = marker], p)
             IN /\ p = "ok" => marker
                /\ p = "old" => ~marker
                /\ reg' = x.reg /\ disk' = x.disk
     \/ /\ disk.file = "bad" \/ (disk.file = "absent" /\ disk.marker)
           \/ (disk.file = "ok" /\ ~Coherent)
        /\ reg' = EmptyRegistry /\ UNCHANGED disk
     \/ /\ disk.file = "ok" /\ Coherent
        /\ LET x == Persisted(Recovered, disk, p) IN reg' = x.reg /\ disk' = x.disk
  /\ told' = [l \in Lease |-> IF told[l] = "armed" THEN "stopped" ELSE told[l]]
  /\ UNCHANGED <<now, req, log>>

-----------------------------------------------------------------------------
(* Requests.  The clock is read before the lock is waited for.              *)

Receive(c, op, l) ==
  /\ up /\ req[c] = None
  /\ req' = [req EXCEPT ![c] = [op |-> op, lease |-> l, t |-> now]]
  /\ UNCHANGED <<up, reg, disk, now, log, told>>

Asks(c, op) == up /\ req[c] # None /\ req[c].op = op
Answer(c)   == req' = [req EXCEPT ![c] = None]

Becomes(x) == reg' = x.reg /\ disk' = x.disk

(* A registry that is not healthy refuses everything. *)
RefuseUnhealthy(c) ==
  /\ up /\ req[c] # None /\ ~reg.healthy
  /\ Answer(c)
  /\ UNCHANGED <<up, reg, disk, now, log, told>>

(* Faulty: a spent lease is armed again. *)
ArmableAgain(r, q) == Authentic(q) /\ r.armed = None

Armable(r, q) == Authentic(q) /\ ~Known(r, q.lease) /\ r.armed = None

(* p ends the persist of an expiry found on the way, s that of the arming.  *)
Arm(c, fits, p, s) ==
  /\ Asks(c, "arm") /\ reg.healthy
  /\ LET q == req[c]
         x == ExpiredAt(q.t, p)
         y == Persisted([Marked(x.reg, q.lease, "ARMED") EXCEPT !.armed = q.lease], x.disk, s)
     IN IF fits /\ Armable(x.reg, q)
        THEN /\ Becomes(y)
             /\ told' = IF s = "ok" THEN [told EXCEPT ![q.lease] = "armed"] ELSE told
        ELSE Becomes(x) /\ UNCHANGED told
  /\ Answer(c)
  /\ UNCHANGED <<up, now, log>>

MayConsume(r, q) ==
  /\ Authentic(q)
  /\ ~Known(r, q.lease)
  /\ r.armed = q.lease
  /\ r.recent[q.lease] = "ARMED"

Consume(c, fits, p, s) ==
  /\ Asks(c, "consume") /\ reg.healthy
  /\ LET q == req[c]
         x == ExpiredAt(q.t, p)
         y == Persisted([Marked(x.reg, q.lease, "CONSUMED")
                           EXCEPT !.nonces = RememberNonce(@, q.lease)], x.disk, s)
     IN IF fits /\ MayConsume(x.reg, q)
        THEN /\ Len(log) < MaxLog
             /\ Becomes(y)
             /\ log' = Append(log, [lease |-> q.lease, granted |-> s = "ok", at |-> q.t])
             /\ told' = IF s = "ok" THEN [told EXCEPT ![q.lease] = "used"] ELSE told
        ELSE Becomes(x) /\ UNCHANGED <<log, told>>
  /\ Answer(c)
  /\ UNCHANGED <<up, now>>

(* A lease that is not in the slot is answered with its record, if any. *)
Revoke(c, s) ==
  /\ Asks(c, "revoke") /\ reg.healthy
  /\ LET q == req[c]
         y == Persisted([Marked(reg, q.lease, "REVOKED") EXCEPT !.armed = None], disk, s)
         stopped == [told EXCEPT ![q.lease] = "stopped"]
     IN IF reg.armed = q.lease
        THEN Becomes(y) /\ told' = IF s = "ok" THEN stopped ELSE told
        ELSE /\ UNCHANGED <<reg, disk>>
             /\ told' = IF reg.recent[q.lease] # "none" THEN stopped ELSE told
  /\ Answer(c)
  /\ UNCHANGED <<up, now, log>>

(* snapshot and armed_record: no look at healthy, and the clock as it is *)
Look(p) ==
  /\ up
  /\ Becomes(ExpiredAt(now, p))
  /\ UNCHANGED <<up, now, req, log, told>>

-----------------------------------------------------------------------------
RegistryNext ==
  \/ Tick \/ Crash
  \/ \E f \in Faults : Damage(f)
  \/ \E p \in Persist : Boot(p) \/ Look(p)
  \/ \E c \in Thread :
       \/ \E l \in Lease, op \in {"arm", "consume", "revoke"} : Receive(c, op, l)
       \/ RefuseUnhealthy(c)
       \/ \E fits \in BOOLEAN, p, s \in Persist : Arm(c, fits, p, s) \/ Consume(c, fits, p, s)
       \/ \E s \in Persist : Revoke(c, s)

RegistrySpec == RegistryInit /\ [][RegistryNext]_registryVars

-----------------------------------------------------------------------------
(* Properties.                                                              *)

TypeOK ==
  /\ up \in BOOLEAN
  /\ reg \in Registry
  /\ disk \in Disk
  /\ now \in Nat
  /\ req \in [Thread -> Request \cup {None}]
  /\ log \in Seq([lease: Lease, granted: BOOLEAN, at: Nat])
  /\ told \in [Lease -> {"armed", "used", "stopped"}]

(* A lease whose consumption was granted is not consumed again before as    *)
(* many other leases have been as the nonce memory holds, whatever crashes, *)
(* half-written files, revocations and re-arming happen in between.         *)
SingleUse ==
  \A i, j \in 1..Len(log) :
     i < j /\ log[i].granted /\ log[i].lease = log[j].lease => j - i > NonceMemory

(* No grant behind the back of the caller: a consumption is granted only if *)
(* the last answer about that lease was that it is armed, with no restart   *)
(* since.                                                                   *)
GrantOnlyWhileArmed ==
  [][\A k \in Len(log)+1..Len(log') :
       log'[k].granted => told[log'[k].lease] = "armed"]_registryVars

(* At most one record is ARMED, in memory and on the volume, and it is the  *)
(* one in the slot: recovery never meets an incoherent file of its own.     *)
OneArmed ==
  /\ \A l \in Lease : reg.recent[l] = "ARMED" => reg.armed = l
  /\ disk.file = "ok" => Coherent

(* A healthy registry has nothing in memory a crash would lose, as long as  *)
(* the volume is left alone.                                                *)
NothingToLose ==
  up /\ reg.healthy /\ disk.file = "ok" => disk = Image(reg, disk.marker)

(* No consumption at or past the expiry, on the clock the request was read  *)
(* with: the skew that admits a late token to the slot never reaches a scan.*)
ConsumedInTime == \A k \in 1..Len(log) : log[k].at < Expires[log[k].lease]
=============================================================================
