------------------------- MODULE ActiveScanProofs --------------------------
(***************************************************************************)
(* Theorems about the active scan.  About the registry (Admission,         *)
(* AdmissionSlot): for any leases, threads, lifetimes, skew, size of the   *)
(* nonce memory and faults of the volume.  About the scan (ActiveScan):    *)
(* for any number of activations, stops and targets, and for every loss in *)
(* any combination.                                                        *)
(***************************************************************************)
EXTENDS AdmissionSlot, ActiveScan, TLAPS

-----------------------------------------------------------------------------
(* The registry.                                                           *)

LEMMA EmptyType ==
  /\ EmptyRegistry \in Registry
  /\ ~EmptyRegistry.healthy /\ EmptyRegistry.armed = None
  /\ \A l \in Lease : EmptyRegistry.recent[l] = "none"
  BY DEF EmptyRegistry, Registry, Status

LEMMA ImageType ==
  ASSUME NEW r \in Registry, NEW m \in BOOLEAN PROVE Image(r, m) \in Disk
  BY DEF Image, Registry, Disk

(* What a persist leaves of the registry and of the volume. *)
LEMMA PersistedFacts ==
  ASSUME NEW r \in Registry, NEW d \in Disk, NEW p \in Persist
  PROVE  LET x == Persisted(r, d, p)
         IN /\ x.reg \in Registry /\ x.disk \in Disk
            /\ x.reg.armed = r.armed /\ x.reg.recent = r.recent /\ x.reg.nonces = r.nonces
            /\ x.reg.healthy => p = "ok" /\ r.healthy
            /\ p = "ok" => x.reg = r
            /\ x.disk = IF p = "old" THEN d ELSE Image(r, d.marker)
<1>1. Image(r, d.marker) \in Disk
  BY ImageType DEF Disk
<1> QED
  BY <1>1 DEF Persisted, Registry, Persist

(* Moving one record, and the slot with it, stays a registry. *)
LEMMA MarkedType ==
  ASSUME NEW r \in Registry, NEW l \in Lease, NEW st \in Status, NEW a \in Lease \cup {None}
  PROVE  /\ Marked(r, l, st) \in Registry
         /\ [Marked(r, l, st) EXCEPT !.armed = a] \in Registry
         /\ Marked(r, l, st).recent = [r.recent EXCEPT ![l] = st]
         /\ Marked(r, l, st).nonces = r.nonces
         /\ Marked(r, l, st).armed = r.armed
         /\ Marked(r, l, st).healthy = r.healthy
  BY DEF Marked, Registry

(* An expiry on the way to a request touches only the slot: either nothing  *)
(* is due and nothing changes, or the slot is free afterwards.              *)
LEMMA ExpiredFacts ==
  ASSUME reg \in Registry, disk \in Disk, None \notin Lease, Expires \in [Lease -> Nat],
         NEW t \in Nat, NEW p \in Persist
  PROVE  LET x == ExpiredAt(t, p)
         IN /\ x.reg \in Registry /\ x.disk \in Disk
            /\ x.reg.nonces = reg.nonces
            /\ x.reg.healthy => reg.healthy
            /\ \/ /\ x.reg = reg /\ x.disk = disk
                  /\ reg.armed = None \/ Expires[reg.armed] > t
               \/ /\ reg.armed \in Lease
                  /\ x.reg.armed = None
                  /\ x.reg.recent = [reg.recent EXCEPT ![reg.armed] = "EXPIRED"]
                  /\ x.reg.healthy => x.disk = Image(x.reg, disk.marker)
                  /\ \/ x.disk = disk
                     \/ \E r \in Registry : /\ x.disk = Image(r, disk.marker)
                                            /\ r.armed = None
                                            /\ r.recent = x.reg.recent
                                            /\ r.nonces = reg.nonces
<1>1. CASE reg.armed # None /\ Expires[reg.armed] <= t
  <2> DEFINE r == [Marked(reg, reg.armed, "EXPIRED") EXCEPT !.armed = None]
  <2>1. reg.armed \in Lease
    BY <1>1 DEF Registry
  <2>2. r \in Registry
    BY <2>1, MarkedType DEF Status
  <2>3. /\ r.armed = None /\ r.nonces = reg.nonces /\ r.healthy = reg.healthy
        /\ r.recent = [reg.recent EXCEPT ![reg.armed] = "EXPIRED"]
    BY <2>1 DEF Marked, Registry
  <2>4. ExpiredAt(t, p) = Persisted(r, disk, p)
    BY <1>1 DEF ExpiredAt
  <2> HIDE DEF r
  <2> QED
    BY <2>1, <2>2, <2>3, <2>4, PersistedFacts
<1>2. CASE ~(reg.armed # None /\ Expires[reg.armed] <= t)
  <2>1. ExpiredAt(t, p) = [reg |-> reg, disk |-> disk]
    BY <1>2 DEF ExpiredAt
  <2>2. reg.armed = None \/ Expires[reg.armed] > t
    BY <1>2 DEF Registry
  <2> QED
    BY <2>1, <2>2
<1> QED
  BY <1>1, <1>2

LEMMA RememberType ==
  ASSUME NonceMemory \in Nat \ {0}, NEW ns \in Seq(Lease), NEW l \in Lease
  PROVE  RememberNonce(ns, l) \in Seq(Lease)
  BY DEF RememberNonce

(* The inductive invariant: besides what is to be shown, a component that   *)
(* is down has nothing in memory, and a lease that is ARMED in a healthy    *)
(* registry is one whose caller was told so.                                *)
Standing ==
  reg.healthy /\ reg.armed # None /\ reg.recent[reg.armed] = "ARMED"
    => told[reg.armed] = "armed"

AInv ==
  /\ TypeOK
  /\ OneArmed
  /\ NothingToLose
  /\ ConsumedInTime
  /\ ~up => reg = EmptyRegistry
  /\ Standing

OneArmedIn(r) == \A l \in Lease : r.recent[l] = "ARMED" => r.armed = l

(* What a write of the registry to the volume keeps. *)
LEMMA WrittenFacts ==
  ASSUME NEW r \in Registry, NEW d \in Disk, NEW p \in Persist, OneArmedIn(r),
         d.file = "ok" => OneArmedIn(d),
         Becomes(Persisted(r, d, p))
  PROVE  /\ reg' \in Registry /\ disk' \in Disk /\ OneArmed'
         /\ reg'.healthy => disk' = Image(reg', disk'.marker)
         /\ reg'.armed = r.armed /\ reg'.recent = r.recent /\ reg'.nonces = r.nonces
         /\ reg'.healthy => p = "ok" /\ r.healthy
<1> DEFINE x == Persisted(r, d, p)
<1>1. /\ x.reg \in Registry /\ x.disk \in Disk
      /\ x.reg.armed = r.armed /\ x.reg.recent = r.recent /\ x.reg.nonces = r.nonces
      /\ x.reg.healthy => p = "ok" /\ r.healthy
      /\ p = "ok" => x.reg = r
      /\ x.disk = IF p = "old" THEN d ELSE Image(r, d.marker)
  BY PersistedFacts
<1>2. reg' = x.reg /\ disk' = x.disk
  BY DEF Becomes
<1> HIDE DEF x
<1>3. OneArmed'
  BY <1>1, <1>2 DEF OneArmed, OneArmedIn, Coherent, Image
<1>4. reg'.healthy => disk' = Image(reg', disk'.marker)
  BY <1>1, <1>2 DEF Image, Persist
<1> QED
  BY <1>1, <1>2, <1>3, <1>4

(* The registry as an expiry leaves it, ready for the request itself. *)
LEMMA AfterExpiry ==
  ASSUME AInv, NEW t \in Nat, NEW p \in Persist
  PROVE  LET x == ExpiredAt(t, p)
         IN /\ x.reg \in Registry /\ x.disk \in Disk
            /\ OneArmedIn(x.reg)
            /\ x.disk.file = "ok" => OneArmedIn(x.disk)
            /\ x.reg.healthy => reg.healthy
            /\ x.reg.armed # None => /\ x.reg = reg /\ x.disk = disk
                                     /\ Expires[reg.armed] > t
            /\ x.reg.armed = None \/ x.reg.armed = reg.armed
            /\ x.reg.nonces = reg.nonces
            /\ x.reg.healthy /\ up /\ x.disk.file = "ok"
                 => x.disk = Image(x.reg, x.disk.marker)
<1> DEFINE x == ExpiredAt(t, p)
<1>1. /\ x.reg \in Registry /\ x.disk \in Disk
      /\ x.reg.nonces = reg.nonces
      /\ x.reg.healthy => reg.healthy
      /\ \/ /\ x.reg = reg /\ x.disk = disk
            /\ reg.armed = None \/ Expires[reg.armed] > t
         \/ /\ reg.armed \in Lease
            /\ x.reg.armed = None
            /\ x.reg.recent = [reg.recent EXCEPT ![reg.armed] = "EXPIRED"]
            /\ x.reg.healthy => x.disk = Image(x.reg, disk.marker)
            /\ \/ x.disk = disk
               \/ \E r \in Registry : /\ x.disk = Image(r, disk.marker)
                                      /\ r.armed = None
                                      /\ r.recent = x.reg.recent
                                      /\ r.nonces = reg.nonces
  BY ExpiredFacts, AdmissionAssumption DEF AInv, TypeOK
<1>2. OneArmedIn(reg) /\ (disk.file = "ok" => OneArmedIn(disk)) /\ reg.recent \in [Lease -> Status]
  BY DEF AInv, OneArmed, OneArmedIn, Coherent, TypeOK, Registry
<1> HIDE DEF x
<1>3. OneArmedIn(x.reg)
  BY <1>1, <1>2 DEF OneArmedIn
<1>4. x.disk.file = "ok" => OneArmedIn(x.disk)
  <2>1. CASE x.disk = disk
    BY <1>2, <2>1
  <2>2. ASSUME NEW r \in Registry, x.disk = Image(r, disk.marker), r.armed = None,
               r.recent = x.reg.recent, x.reg.armed = None
        PROVE  OneArmedIn(x.disk)
    BY <1>3, <2>2 DEF OneArmedIn, Image
  <2> QED
    BY <1>1, <2>1, <2>2
<1>5. x.reg.healthy /\ up /\ x.disk.file = "ok" => x.disk = Image(x.reg, x.disk.marker)
  BY <1>1 DEF AInv, NothingToLose, Image
<1>6. /\ x.reg.armed # None => /\ x.reg = reg /\ x.disk = disk
                                /\ Expires[reg.armed] > t
      /\ x.reg.armed = None \/ x.reg.armed = reg.armed
  BY <1>1, AdmissionAssumption
<1> USE DEF x
<1> QED
  BY <1>1, <1>3, <1>4, <1>5, <1>6, Zenon

LEMMA AnswerType ==
  ASSUME TypeOK, NEW c \in Thread, Answer(c) PROVE req' \in [Thread -> Request \cup {None}]
  BY DEF Answer, TypeOK

LEMMA ArmStep ==
  ASSUME AInv, NEW c \in Thread, NEW fits \in BOOLEAN, NEW p \in Persist, NEW s \in Persist,
         Arm(c, fits, p, s)
  PROVE  AInv'
<1> DEFINE q == req[c]
           x == ExpiredAt(q.t, p)
           r == [Marked(x.reg, q.lease, "ARMED") EXCEPT !.armed = q.lease]
<1>1. q \in Request /\ req' \in [Thread -> Request \cup {None}] /\ up /\ UNCHANGED <<up, now, log>>
  BY AnswerType DEF Arm, Asks, AInv, TypeOK
<1>2. q.lease \in Lease /\ q.t \in Nat
  BY <1>1 DEF Request
<1>3. /\ x.reg \in Registry /\ x.disk \in Disk /\ OneArmedIn(x.reg)
      /\ x.disk.file = "ok" => OneArmedIn(x.disk)
      /\ x.reg.armed # None => x.reg = reg /\ x.disk = disk
      /\ x.reg.healthy => reg.healthy
      /\ x.reg.healthy /\ up /\ x.disk.file = "ok" => x.disk = Image(x.reg, x.disk.marker)
  BY <1>2, AfterExpiry
<1>4. CASE fits /\ Armable(x.reg, q)
  <2>1. x.reg.armed = None
    BY <1>4 DEF Armable
  <2>2. /\ r \in Registry
        /\ r.armed = q.lease /\ r.recent = [x.reg.recent EXCEPT ![q.lease] = "ARMED"]
    BY <1>2, <1>3 DEF Marked, Registry, Status
  <2>3. OneArmedIn(r)
    BY <1>2, <1>3, <2>1, <2>2, AdmissionAssumption DEF OneArmedIn, Registry
  <2>4. /\ Becomes(Persisted(r, x.disk, s))
        /\ told' = IF s = "ok" THEN [told EXCEPT ![q.lease] = "armed"] ELSE told
    BY <1>4 DEF Arm
  <2> HIDE DEF r, x, q
  <2>5. /\ reg' \in Registry /\ disk' \in Disk /\ OneArmed'
        /\ reg'.healthy => disk' = Image(reg', disk'.marker)
        /\ reg'.armed = r.armed
        /\ reg'.healthy => s = "ok"
    BY <1>3, <2>2, <2>3, <2>4, WrittenFacts
  <2>6. TypeOK'
    BY <1>1, <1>2, <2>4, <2>5 DEF AInv, TypeOK
  <2>7. Standing'
    BY <1>2, <2>2, <2>4, <2>5 DEF Standing, AInv, TypeOK
  <2> QED
    BY <1>1, <2>5, <2>6, <2>7 DEF AInv, NothingToLose, ConsumedInTime
<1>5. CASE ~(fits /\ Armable(x.reg, q))
  <2>1. reg' = x.reg /\ disk' = x.disk /\ UNCHANGED told
    BY <1>5 DEF Arm, Becomes
  <2> HIDE DEF x, q
  <2>2. TypeOK'
    BY <1>1, <1>3, <2>1 DEF AInv, TypeOK
  <2>3. OneArmed' /\ NothingToLose' /\ Standing'
    BY <1>1, <1>3, <2>1 DEF AInv, OneArmed, OneArmedIn, Coherent, NothingToLose, Standing
  <2> QED
    BY <1>1, <2>2, <2>3 DEF AInv, ConsumedInTime
<1> QED
  BY <1>4, <1>5

LEMMA ConsumeStep ==
  ASSUME AInv, NEW c \in Thread, NEW fits \in BOOLEAN, NEW p \in Persist, NEW s \in Persist,
         Consume(c, fits, p, s)
  PROVE  AInv'
<1> DEFINE q == req[c]
           x == ExpiredAt(q.t, p)
           r == [Marked(x.reg, q.lease, "CONSUMED") EXCEPT !.nonces = RememberNonce(@, q.lease)]
<1>1. q \in Request /\ req' \in [Thread -> Request \cup {None}] /\ up /\ UNCHANGED <<up, now>>
  BY AnswerType DEF Consume, Asks, AInv, TypeOK
<1>2. q.lease \in Lease /\ q.t \in Nat
  BY <1>1 DEF Request
<1>3. /\ x.reg \in Registry /\ x.disk \in Disk /\ OneArmedIn(x.reg)
      /\ x.disk.file = "ok" => OneArmedIn(x.disk)
      /\ x.reg.armed # None => x.reg = reg /\ x.disk = disk /\ Expires[reg.armed] > q.t
      /\ x.reg.healthy => reg.healthy
      /\ x.reg.healthy /\ up /\ x.disk.file = "ok" => x.disk = Image(x.reg, x.disk.marker)
  BY <1>2, AfterExpiry
<1>4. CASE fits /\ MayConsume(x.reg, q)
  <2>1. x.reg.armed = q.lease /\ q.lease # None
    BY <1>2, <1>4, AdmissionAssumption DEF MayConsume
  <2>2. /\ r \in Registry
        /\ r.armed = q.lease /\ r.recent = [x.reg.recent EXCEPT ![q.lease] = "CONSUMED"]
    <3>1. RememberNonce(x.reg.nonces, q.lease) \in Seq(Lease)
      BY <1>2, <1>3, RememberType, AdmissionAssumption DEF Registry
    <3>2. /\ Marked(x.reg, q.lease, "CONSUMED") \in Registry
          /\ Marked(x.reg, q.lease, "CONSUMED").nonces = x.reg.nonces
          /\ Marked(x.reg, q.lease, "CONSUMED").armed = x.reg.armed
          /\ Marked(x.reg, q.lease, "CONSUMED").recent
               = [x.reg.recent EXCEPT ![q.lease] = "CONSUMED"]
      BY <1>2, <1>3, MarkedType DEF Status
    <3> HIDE DEF x, q
    <3> QED
      BY <2>1, <3>1, <3>2 DEF Registry
  <2>3. OneArmedIn(r)
    BY <1>2, <1>3, <2>1, <2>2, AdmissionAssumption, ZenonT(60) DEF OneArmedIn, Registry
  <2>4. /\ Becomes(Persisted(r, x.disk, s))
        /\ told' = IF s = "ok" THEN [told EXCEPT ![q.lease] = "used"] ELSE told
        /\ log' = Append(log, [lease |-> q.lease, granted |-> s = "ok", at |-> q.t])
    BY <1>4 DEF Consume
  <2>5. q.t < Expires[q.lease] /\ x.reg.recent \in [Lease -> Status]
    BY <1>2, <1>3, <2>1, AdmissionAssumption DEF Registry
  <2> HIDE DEF r, x, q
  <2>6. /\ reg' \in Registry /\ disk' \in Disk /\ OneArmed'
        /\ reg'.healthy => disk' = Image(reg', disk'.marker)
        /\ reg'.armed = r.armed /\ reg'.recent = r.recent
    BY <1>3, <2>2, <2>3, <2>4, WrittenFacts
  <2>7. log' \in Seq([lease: Lease, granted: BOOLEAN, at: Nat]) /\ ConsumedInTime'
    <3> DEFINE e == [lease |-> q.lease, granted |-> s = "ok", at |-> q.t]
    <3>1. e \in [lease: Lease, granted: BOOLEAN, at: Nat]
      BY <1>2
    <3>2. log \in Seq([lease: Lease, granted: BOOLEAN, at: Nat]) /\ ConsumedInTime
      BY DEF AInv, TypeOK
    <3>3. e.at < Expires[e.lease]
      BY <2>5
    <3>4. log' = Append(log, e)
      BY <2>4
    <3> HIDE DEF e
    <3> QED
      BY <3>1, <3>2, <3>3, <3>4 DEF ConsumedInTime
  <2>8. TypeOK'
    BY <1>1, <1>2, <2>4, <2>6, <2>7 DEF AInv, TypeOK
  <2>9. Standing'
    BY <1>2, <2>2, <2>5, <2>6 DEF Standing
  <2> QED
    BY <1>1, <2>6, <2>7, <2>8, <2>9 DEF AInv, NothingToLose
<1>5. CASE ~(fits /\ MayConsume(x.reg, q))
  <2>1. reg' = x.reg /\ disk' = x.disk /\ UNCHANGED <<told, log>>
    BY <1>5 DEF Consume, Becomes
  <2> HIDE DEF x, q
  <2>2. TypeOK'
    BY <1>1, <1>3, <2>1 DEF AInv, TypeOK
  <2>3. OneArmed' /\ NothingToLose' /\ Standing'
    BY <1>1, <1>3, <2>1 DEF AInv, OneArmed, OneArmedIn, Coherent, NothingToLose, Standing
  <2> QED
    BY <1>1, <2>1, <2>2, <2>3 DEF AInv, ConsumedInTime
<1> QED
  BY <1>4, <1>5

LEMMA RevokeStep ==
  ASSUME AInv, NEW c \in Thread, NEW s \in Persist, Revoke(c, s)
  PROVE  AInv'
<1> DEFINE q == req[c]
           r == [Marked(reg, q.lease, "REVOKED") EXCEPT !.armed = None]
<1>1. q \in Request /\ req' \in [Thread -> Request \cup {None}] /\ up /\ UNCHANGED <<up, now, log>>
  BY AnswerType DEF Revoke, Asks, AInv, TypeOK
<1>2. q.lease \in Lease
  BY <1>1 DEF Request
<1>3. told' \in [Lease -> {"armed", "used", "stopped"}]
  BY <1>2 DEF Revoke, AInv, TypeOK
<1>4. CASE reg.armed = q.lease
  <2>1. Becomes(Persisted(r, disk, s))
    BY <1>4 DEF Revoke
  <2>2. reg \in Registry /\ OneArmedIn(reg) /\ (disk.file = "ok" => OneArmedIn(disk)) /\ disk \in Disk
    BY DEF AInv, TypeOK, OneArmed, OneArmedIn, Coherent
  <2>3. r \in Registry /\ r.armed = None /\ r.recent = [reg.recent EXCEPT ![q.lease] = "REVOKED"]
    BY <1>2, <2>2 DEF Marked, Registry, Status
  <2>4. OneArmedIn(r)
    BY <1>2, <1>4, <2>2, <2>3 DEF OneArmedIn, Registry
  <2> HIDE DEF r, q
  <2>5. /\ reg' \in Registry /\ disk' \in Disk /\ OneArmed'
        /\ reg'.healthy => disk' = Image(reg', disk'.marker)
        /\ reg'.armed = r.armed
    BY <2>1, <2>2, <2>3, <2>4, WrittenFacts
  <2> QED
    BY <1>1, <1>3, <2>3, <2>5 DEF AInv, TypeOK, NothingToLose, ConsumedInTime, Standing
<1>5. CASE reg.armed # q.lease
  <2>1. UNCHANGED <<reg, disk>> /\ (told' = told \/ told' = [told EXCEPT ![q.lease] = "stopped"])
    BY <1>5 DEF Revoke
  <2>2. Standing'
    BY <1>2, <1>5, <2>1 DEF AInv, TypeOK, Registry, Standing
  <2> QED
    BY <1>1, <1>3, <2>1, <2>2
    DEF AInv, TypeOK, OneArmed, Coherent, NothingToLose, ConsumedInTime
<1> QED
  BY <1>4, <1>5

LEMMA BootStep ==
  ASSUME AInv, NEW p \in Persist, Boot(p)
  PROVE  AInv'
<1>1. /\ told' \in [Lease -> {"armed", "used", "stopped"}]
      /\ UNCHANGED <<now, req, log>>
      /\ up' = TRUE
  BY DEF Boot, AInv, TypeOK
<1>2. disk \in Disk /\ (disk.file = "ok" => OneArmedIn(disk))
  BY DEF AInv, TypeOK, OneArmed, OneArmedIn, Coherent
<1>3. ASSUME NEW r \in Registry, NEW d \in Disk, OneArmedIn(r), r.armed = None,
             d.file = "ok" => OneArmedIn(d), Becomes(Persisted(r, d, p))
      PROVE  AInv'
  <2>1. /\ reg' \in Registry /\ disk' \in Disk /\ OneArmed'
        /\ reg'.healthy => disk' = Image(reg', disk'.marker)
        /\ reg'.armed = None
    BY <1>3, WrittenFacts
  <2> QED
    BY <1>1, <2>1 DEF AInv, TypeOK, NothingToLose, ConsumedInTime, Standing
<1>4. CASE disk.file = "absent" /\ ~disk.marker
  <2> DEFINE fresh == [EmptyRegistry EXCEPT !.healthy = TRUE]
  <2>1. fresh \in Registry /\ OneArmedIn(fresh) /\ fresh.armed = None
    BY EmptyType DEF Registry, OneArmedIn
  <2>2. PICK marker \in BOOLEAN : Becomes(Persisted(fresh, [disk EXCEPT !.marker = marker], p))
    BY <1>4 DEF Boot, Becomes
  <2>3. [disk EXCEPT !.marker = marker] \in Disk /\ [disk EXCEPT !.marker = marker].file = "absent"
    BY <1>2, <1>4 DEF Disk
  <2> HIDE DEF fresh
  <2> QED
    BY <1>3, <2>1, <2>2, <2>3
<1>5. CASE reg' = EmptyRegistry /\ UNCHANGED disk
  <2>1. reg' \in Registry /\ ~reg'.healthy /\ \A l \in Lease : reg'.recent[l] # "ARMED"
    BY <1>5, EmptyType DEF EmptyRegistry
  <2> QED
    BY <1>1, <1>5, <2>1 DEF AInv, TypeOK, OneArmed, Coherent, NothingToLose, ConsumedInTime, Standing
<1>6. CASE disk.file = "ok" /\ Becomes(Persisted(Recovered, disk, p))
  <2>1. Recovered \in Registry /\ Recovered.armed = None /\ OneArmedIn(Recovered)
    BY <1>2 DEF Recovered, Registry, Disk, Status, OneArmedIn
  <2> QED
    BY <1>2, <1>3, <1>6, <2>1
<1> QED
  BY <1>4, <1>5, <1>6 DEF Boot, Becomes

LEMMA QuietStep ==
  ASSUME AInv,
         \/ Tick \/ Crash
         \/ \E f \in Faults : Damage(f)
         \/ \E p \in Persist : Look(p)
         \/ \E c \in Thread : RefuseUnhealthy(c)
         \/ \E c \in Thread, l \in Lease, op \in {"arm", "consume", "revoke"} : Receive(c, op, l)
  PROVE  AInv'
<1>1. CASE Tick
  BY <1>1 DEF Tick, AInv, TypeOK, OneArmed, Coherent, NothingToLose, ConsumedInTime, Standing
<1>2. CASE \E f \in Faults : Damage(f)
  <2>1. PICK f \in {"bad", "absent"} : disk' = [disk EXCEPT !.file = f]
    BY <1>2, AdmissionAssumption DEF Damage
  <2>2. UNCHANGED <<up, reg, now, req, log, told>>
    BY <1>2 DEF Damage
  <2>3. disk' \in Disk /\ disk'.file # "ok"
    BY <2>1 DEF AInv, TypeOK, Disk
  <2> QED
    BY <2>2, <2>3 DEF AInv, TypeOK, OneArmed, NothingToLose, ConsumedInTime, Standing
<1>3. CASE Crash
  <2>1. reg' \in Registry /\ ~reg'.healthy /\ \A l \in Lease : reg'.recent[l] # "ARMED"
    BY <1>3, EmptyType DEF Crash, EmptyRegistry
  <2> QED
    BY <1>3, <2>1
    DEF Crash, AInv, TypeOK, OneArmed, Coherent, NothingToLose, ConsumedInTime, Standing
<1>4. ASSUME NEW p \in Persist, Look(p) PROVE AInv'
  <2> DEFINE x == ExpiredAt(now, p)
  <2>1. reg' = x.reg /\ disk' = x.disk /\ UNCHANGED <<up, now, req, log, told>> /\ up
    BY <1>4 DEF Look, Becomes
  <2>2. /\ x.reg \in Registry /\ x.disk \in Disk /\ OneArmedIn(x.reg)
        /\ x.disk.file = "ok" => OneArmedIn(x.disk)
        /\ x.reg.armed # None => x.reg = reg /\ x.disk = disk
        /\ x.reg.healthy => reg.healthy
        /\ x.reg.healthy /\ up /\ x.disk.file = "ok" => x.disk = Image(x.reg, x.disk.marker)
    BY AfterExpiry DEF AInv, TypeOK
  <2> HIDE DEF x
  <2>3. TypeOK'
    BY <2>1, <2>2 DEF AInv, TypeOK
  <2>4. OneArmed' /\ NothingToLose' /\ Standing'
    BY <2>1, <2>2 DEF AInv, OneArmed, OneArmedIn, Coherent, NothingToLose, Standing
  <2> QED
    BY <2>1, <2>3, <2>4 DEF AInv, ConsumedInTime
<1>5. ASSUME NEW c \in Thread, RefuseUnhealthy(c) PROVE AInv'
  <2>1. req' \in [Thread -> Request \cup {None}]
    BY <1>5, AnswerType DEF RefuseUnhealthy, AInv
  <2> QED
    BY <1>5, <2>1
    DEF RefuseUnhealthy, AInv, TypeOK, OneArmed, Coherent, NothingToLose, ConsumedInTime, Standing
<1>6. ASSUME NEW c \in Thread, NEW l \in Lease, NEW op \in {"arm", "consume", "revoke"},
             Receive(c, op, l)
      PROVE  AInv'
  <2>1. req' \in [Thread -> Request \cup {None}]
    BY <1>6 DEF Receive, AInv, TypeOK, Request
  <2> QED
    BY <1>6, <2>1
    DEF Receive, AInv, TypeOK, OneArmed, Coherent, NothingToLose, ConsumedInTime, Standing
<1> QED
  BY <1>1, <1>2, <1>3, <1>4, <1>5, <1>6

LEMMA InitAInv == RegistryInit => AInv
<1> SUFFICES ASSUME RegistryInit PROVE AInv
  OBVIOUS
<1>1. reg = EmptyRegistry /\ reg \in Registry /\ ~reg.healthy
  BY EmptyType DEF RegistryInit, EmptyRegistry
<1>2. disk \in Disk /\ disk.file = "absent" /\ \A l \in Lease : reg.recent[l] # "ARMED"
  BY <1>1 DEF RegistryInit, Disk, EmptyRegistry, Status
<1>3. TypeOK
  <2>1. req \in [Thread -> Request \cup {None}] /\ told \in [Lease -> {"armed", "used", "stopped"}]
    BY DEF RegistryInit
  <2>2. log \in Seq([lease: Lease, granted: BOOLEAN, at: Nat])
    <3> DEFINE E == [lease: Lease, granted: BOOLEAN, at: Nat]
    <3> HIDE DEF E
    <3>1. log \in Seq(E)
      BY DEF RegistryInit
    <3> QED
      BY <3>1 DEF E
  <2>3. up \in BOOLEAN /\ now \in Nat
    BY DEF RegistryInit
  <2> QED
    BY <1>1, <1>2, <2>1, <2>2, <2>3 DEF TypeOK
<1>4. OneArmed /\ NothingToLose /\ Standing
  BY <1>1, <1>2 DEF OneArmed, NothingToLose, Standing
<1>5. ConsumedInTime
  BY DEF RegistryInit, ConsumedInTime
<1> QED
  BY <1>1, <1>3, <1>4, <1>5 DEF AInv

LEMMA NextAInv == AInv /\ [RegistryNext]_registryVars => AInv'
<1> SUFFICES ASSUME AInv, [RegistryNext]_registryVars PROVE AInv'
  OBVIOUS
<1>1. CASE UNCHANGED registryVars
  BY <1>1 DEF registryVars, AInv, TypeOK, OneArmed, Coherent, NothingToLose, ConsumedInTime, Standing
<1>2. CASE RegistryNext
  BY <1>2, ArmStep, ConsumeStep, RevokeStep, BootStep, QuietStep DEF RegistryNext
<1> QED
  BY <1>1, <1>2

(* Type correctness, whatever crashes and whatever the volume suffers. *)
THEOREM AdmissionTyped == RegistrySpec => []TypeOK
<1>1. AInv => TypeOK
  BY DEF AInv
<1> QED
  BY <1>1, InitAInv, NextAInv, PTL DEF RegistrySpec

(* No file the registry itself wrote is ever refused as incoherent. *)
THEOREM AtMostOneArmed == RegistrySpec => []OneArmed
<1>1. AInv => OneArmed
  BY DEF AInv
<1> QED
  BY <1>1, InitAInv, NextAInv, PTL DEF RegistrySpec

(* A crash of a healthy registry forgets nothing. *)
THEOREM HealthyIsDurable == RegistrySpec => []NothingToLose
<1>1. AInv => NothingToLose
  BY DEF AInv
<1> QED
  BY <1>1, InitAInv, NextAInv, PTL DEF RegistrySpec

(* Nothing is consumed at or past its expiry. *)
THEOREM NeverConsumedLate == RegistrySpec => []ConsumedInTime
<1>1. AInv => ConsumedInTime
  BY DEF AInv
<1> QED
  BY <1>1, InitAInv, NextAInv, PTL DEF RegistrySpec

(* A consumption is granted only while the last answer about that lease is  *)
(* that it is armed: no crash, revocation or expiry has come between.       *)
THEOREM GrantedOnlyWhileArmed == RegistrySpec => GrantOnlyWhileArmed
<1>1. ASSUME AInv, RegistryNext, NEW k \in Len(log)+1..Len(log'), log'[k].granted
      PROVE  told[log'[k].lease] = "armed"
  <2>1. ~UNCHANGED log
    BY <1>1 DEF AInv, TypeOK
  <2>2. PICK c \in Thread, fits \in BOOLEAN, p \in Persist, s \in Persist : Consume(c, fits, p, s)
    BY <1>1, <2>1, ZenonT(60)
    DEF RegistryNext, Tick, Damage, Crash, Boot, Look, Receive, RefuseUnhealthy, Arm, Revoke
  <2> DEFINE q == req[c]
             x == ExpiredAt(q.t, p)
  <2>3. /\ MayConsume(x.reg, q) /\ reg.healthy /\ q \in Request
        /\ log' = Append(log, [lease |-> q.lease, granted |-> s = "ok", at |-> q.t])
    BY <1>1, <2>1, <2>2 DEF Consume, Asks, AInv, TypeOK
  <2>4. q.lease \in Lease /\ q.t \in Nat
    BY <2>3 DEF Request
  <2>5. log'[k].lease = q.lease
    BY <1>1, <2>3, <2>4 DEF AInv, TypeOK
  <2>6. x.reg.armed = q.lease /\ x.reg.recent[q.lease] = "ARMED"
    BY <2>3 DEF MayConsume
  <2>7. x.reg = reg
    BY <1>1, <2>4, <2>6, AfterExpiry, AdmissionAssumption
  <2> QED
    BY <1>1, <2>3, <2>4, <2>5, <2>6, <2>7, AdmissionAssumption DEF AInv, Standing
<1>2. AInv /\ [RegistryNext]_registryVars =>
        [\A k \in Len(log)+1..Len(log') : log'[k].granted => told[log'[k].lease] = "armed"]_registryVars
  BY <1>1
<1> QED
  BY <1>2, InitAInv, NextAInv, PTL DEF RegistrySpec, GrantOnlyWhileArmed

-----------------------------------------------------------------------------
(* Replay.  A granted nonce is in every memory that matters, the live one   *)
(* and the one on the volume, at a place that lets it survive as many later *)
(* consumptions as the log shows are still allowed to it.                   *)

Holds(lg, ns, i) == \E k \in 1..Len(ns) : ns[k] = lg[i].lease /\ Len(ns) - k <= Len(lg) - i

Remembers(lg, ns) ==
  /\ Len(ns) <= NonceMemory
  /\ \A i \in 1..Len(lg) :
       lg[i].granted /\ Len(lg) - i < NonceMemory => Holds(lg, ns, i)

(* A registry that may still write, or admit, something. *)
Serving(r) == r.healthy \/ r.armed # None

NInv ==
  /\ Serving(reg) => Remembers(log, reg.nonces) /\ disk.file # "absent"
  /\ disk.file = "ok" => Remembers(log, disk.nonces)
  /\ disk.file = "absent" => log = <<>>
  /\ SingleUse

(* One more consumption: the memory it is added to, and one it is not.      *)
LEMMA RemembersOneMore ==
  ASSUME TypeOK, NEW ns \in Seq(Lease), Remembers(log, ns), NEW l \in Lease, NEW g \in BOOLEAN,
         NEW t \in Nat, log' = Append(log, [lease |-> l, granted |-> g, at |-> t])
  PROVE  /\ Remembers(log', RememberNonce(ns, l))
         /\ ~g => Remembers(log', ns)
<1> DEFINE n == Len(log)
           m == Len(ns)
           e == [lease |-> l, granted |-> g, at |-> t]
           ms == RememberNonce(ns, l)
<1>1. /\ n \in Nat /\ m \in Nat /\ Len(log') = n + 1 /\ log'[n + 1] = e
      /\ \A i \in 1..n : log'[i] = log[i]
      /\ NonceMemory \in Nat \ {0}
  BY AdmissionAssumption DEF TypeOK
<1>2. /\ Len(ms) \in 1..NonceMemory /\ ms[Len(ms)] = l
      /\ \A k \in 1..m : Len(ms) - (k + Len(ms) - m - 1) = m + 1 - k
      /\ \A k \in 1..m : k + Len(ms) - m - 1 \in 1..Len(ms) => ms[k + Len(ms) - m - 1] = ns[k]
  <2>1. CASE m < NonceMemory
    <3>1. ms = Append(ns, l)
      BY <2>1 DEF RememberNonce
    <3> HIDE DEF ms
    <3> QED
      BY <1>1, <2>1, <3>1
  <2>2. CASE m = NonceMemory
    <3>1. ms = Tail(Append(ns, l))
      BY <2>2 DEF RememberNonce
    <3>2. /\ Len(Append(ns, l)) = m + 1 /\ Append(ns, l)[m + 1] = l
          /\ \A k \in 1..m : Append(ns, l)[k] = ns[k]
      BY <1>1
    <3>3. /\ Len(ms) = m
          /\ \A k \in 1..m : ms[k] = Append(ns, l)[k + 1]
      BY <1>1, <3>1, <3>2
    <3> HIDE DEF ms
    <3>4. Len(ms) \in 1..NonceMemory /\ ms[Len(ms)] = l
      BY <1>1, <2>2, <3>2, <3>3
    <3>5. \A k \in 1..m : Len(ms) - (k + Len(ms) - m - 1) = m + 1 - k
      BY <1>1, <3>3
    <3>6. \A k \in 1..m : k + Len(ms) - m - 1 \in 1..Len(ms) => ms[k + Len(ms) - m - 1] = ns[k]
      BY <1>1, <3>2, <3>3
    <3> QED
      BY <3>4, <3>5, <3>6
  <2> QED
    BY <1>1, <2>1, <2>2 DEF Remembers
<1> HIDE DEF ms
<1>3. ASSUME NEW i \in 1..n, log'[i].granted, n + 1 - i < NonceMemory
      PROVE  \E k \in 1..m : ns[k] = log'[i].lease /\ m - k <= n - i
  BY <1>1, <1>3 DEF Remembers, Holds
<1>4. ASSUME NEW i \in 1..n+1, log'[i].granted, n + 1 - i < NonceMemory
      PROVE  \E k \in 1..Len(ms) : ms[k] = log'[i].lease /\ Len(ms) - k <= n + 1 - i
  <2>1. CASE i = n + 1
    BY <1>1, <1>2, <2>1
  <2>2. CASE i \in 1..n
    <3>1. PICK k \in 1..m : ns[k] = log'[i].lease /\ m - k <= n - i
      BY <1>3, <1>4, <2>2
    <3> DEFINE j == k + Len(ms) - m - 1
    <3>2. j \in 1..Len(ms)
      <4>1. CASE m < NonceMemory
        <5>1. Len(ms) = m + 1
          BY <1>1, <4>1 DEF ms, RememberNonce
        <5> QED
          BY <1>1, <5>1
      <4>2. CASE ~(m < NonceMemory)
        <5>1. m = NonceMemory /\ Len(ms) = m
          BY <1>1, <4>2 DEF ms, RememberNonce, Remembers
        <5>2. m - k < m - 1
          BY <1>1, <1>4, <3>1, <5>1
        <5> QED
          BY <1>1, <5>1, <5>2
      <4> QED
        BY <4>1, <4>2
    <3>3. ms[j] = ns[k] /\ Len(ms) - j = m + 1 - k
      BY <1>2, <3>2
    <3> HIDE DEF j
    <3> QED
      BY <1>1, <1>2, <3>1, <3>2, <3>3
  <2> QED
    BY <1>1, <2>1, <2>2
<1>5. Remembers(log', ms)
  BY <1>1, <1>2, <1>4 DEF Remembers, Holds, ms
<1>6. ASSUME ~g PROVE Remembers(log', ns)
  <2>1. ASSUME NEW i \in 1..n+1, log'[i].granted, n + 1 - i < NonceMemory
        PROVE  \E k \in 1..m : ns[k] = log'[i].lease /\ m - k <= n + 1 - i
    <3>1. i \in 1..n
      BY <1>1, <1>6, <2>1
    <3>2. PICK k \in 1..m : ns[k] = log'[i].lease /\ m - k <= n - i
      BY <1>3, <2>1, <3>1
    <3> QED
      BY <1>1, <3>2
  <2> QED
    BY <1>1, <2>1 DEF Remembers, Holds
<1> QED
  BY <1>5, <1>6 DEF ms

(* Whatever a step does to the nonces of the volume, it writes those of a   *)
(* live registry there, and a registry never comes to life on its own.      *)
NonceStep(r, d) ==
  /\ Serving(reg') => r.nonces = reg'.nonces /\ Serving(r)
  /\ disk' = d \/ (Serving(r) /\ disk'.file = "ok" /\ disk'.nonces = r.nonces)

LEMMA NonceKeep ==
  ASSUME NInv, UNCHANGED log, NonceStep(reg, disk) PROVE NInv'
  BY DEF NInv, NonceStep, SingleUse

LEMMA NonceWrite ==
  ASSUME NEW r \in Registry, NEW d \in Disk, NEW p \in Persist, Becomes(Persisted(r, d, p))
  PROVE  /\ reg'.nonces = r.nonces /\ reg'.armed = r.armed /\ (reg'.healthy => p = "ok" /\ r.healthy)
         /\ disk' = IF p = "old" THEN d ELSE Image(r, d.marker)
  BY PersistedFacts DEF Becomes

LEMMA ExpiryNonces ==
  ASSUME AInv, NEW t \in Nat, NEW p \in Persist
  PROVE  LET x == ExpiredAt(t, p)
         IN /\ x.reg.nonces = reg.nonces
            /\ Serving(x.reg) => Serving(reg)
            /\ \/ x.disk = disk
               \/ Serving(reg) /\ x.disk.file = "ok" /\ x.disk.nonces = reg.nonces
<1> DEFINE x == ExpiredAt(t, p)
<1>1. /\ x.reg.nonces = reg.nonces
      /\ x.reg.healthy => reg.healthy
      /\ \/ /\ x.reg = reg /\ x.disk = disk
            /\ reg.armed = None \/ Expires[reg.armed] > t
         \/ /\ reg.armed \in Lease
            /\ x.reg.armed = None
            /\ x.reg.recent = [reg.recent EXCEPT ![reg.armed] = "EXPIRED"]
            /\ x.reg.healthy => x.disk = Image(x.reg, disk.marker)
            /\ \/ x.disk = disk
               \/ \E r \in Registry : /\ x.disk = Image(r, disk.marker)
                                      /\ r.armed = None
                                      /\ r.recent = x.reg.recent
                                      /\ r.nonces = reg.nonces
  BY ExpiredFacts, AdmissionAssumption DEF AInv, TypeOK
<1> HIDE DEF x
<1>2. /\ Serving(x.reg) => Serving(reg)
      /\ \/ x.disk = disk
         \/ Serving(reg) /\ x.disk.file = "ok" /\ x.disk.nonces = reg.nonces
  <2>1. CASE x.reg = reg /\ x.disk = disk
    BY <2>1
  <2>2. ASSUME reg.armed \in Lease, x.reg.armed = None,
               \/ x.disk = disk
               \/ \E r \in Registry : x.disk = Image(r, disk.marker) /\ r.nonces = reg.nonces
        PROVE  /\ Serving(reg)
               /\ \/ x.disk = disk
                  \/ x.disk.file = "ok" /\ x.disk.nonces = reg.nonces
    <3>1. Serving(reg)
      BY <2>2, AdmissionAssumption DEF Serving
    <3>2. ASSUME NEW r \in Registry, x.disk = Image(r, disk.marker), r.nonces = reg.nonces
          PROVE  x.disk.file = "ok" /\ x.disk.nonces = reg.nonces
      BY <3>2 DEF Image
    <3> QED
      BY <2>2, <3>1, <3>2
  <2> QED
    BY <1>1, <2>1, <2>2
<1> USE DEF x
<1> QED
  BY <1>1, <1>2, Zenon

LEMMA NArm ==
  ASSUME AInv, NInv, NEW c \in Thread, NEW fits \in BOOLEAN, NEW p \in Persist, NEW s \in Persist,
         Arm(c, fits, p, s)
  PROVE  NInv'
<1> DEFINE q == req[c]
           x == ExpiredAt(q.t, p)
           r == [Marked(x.reg, q.lease, "ARMED") EXCEPT !.armed = q.lease]
<1>1. q \in Request /\ reg.healthy /\ UNCHANGED log
  BY DEF Arm, Asks, AInv, TypeOK
<1>2. q.lease \in Lease /\ q.t \in Nat /\ Serving(reg)
  BY <1>1 DEF Request, Serving
<1>3. /\ x.reg \in Registry /\ x.disk \in Disk
      /\ x.reg.nonces = reg.nonces
      /\ \/ x.disk = disk
         \/ x.disk.file = "ok" /\ x.disk.nonces = reg.nonces
  BY <1>2, AfterExpiry, ExpiryNonces
<1>4. CASE Becomes(Persisted(r, x.disk, s))
  <2>1. r \in Registry /\ r.nonces = x.reg.nonces
    BY <1>2, <1>3 DEF Marked, Registry, Status
  <2> HIDE DEF r, x, q
  <2>2. /\ reg'.nonces = r.nonces
        /\ disk' = x.disk \/ disk' = Image(r, x.disk.marker)
    BY <1>3, <1>4, <2>1, NonceWrite
  <2>3. NonceStep(reg, disk)
    BY <1>2, <1>3, <2>1, <2>2 DEF NonceStep, Image
  <2> QED
    BY <1>1, <2>3, NonceKeep
<1>5. CASE Becomes(x)
  <2>1. NonceStep(reg, disk)
    BY <1>2, <1>3, <1>5 DEF NonceStep, Becomes
  <2> QED
    BY <1>1, <2>1, NonceKeep
<1> QED
  BY <1>4, <1>5 DEF Arm

LEMMA NConsume ==
  ASSUME AInv, NInv, NEW c \in Thread, NEW fits \in BOOLEAN, NEW p \in Persist, NEW s \in Persist,
         Consume(c, fits, p, s)
  PROVE  NInv'
<1> DEFINE q == req[c]
           x == ExpiredAt(q.t, p)
           r == [Marked(x.reg, q.lease, "CONSUMED") EXCEPT !.nonces = RememberNonce(@, q.lease)]
<1>1. q \in Request /\ reg.healthy
  BY DEF Consume, Asks, AInv, TypeOK
<1>2. q.lease \in Lease /\ q.t \in Nat /\ Serving(reg)
  BY <1>1 DEF Request, Serving
<1>3. /\ x.reg \in Registry /\ x.disk \in Disk
      /\ x.reg.nonces = reg.nonces
      /\ \/ x.disk = disk
         \/ x.disk.file = "ok" /\ x.disk.nonces = reg.nonces
  BY <1>2, AfterExpiry, ExpiryNonces
<1>4. CASE ~(fits /\ MayConsume(x.reg, q))
  <2>1. Becomes(x) /\ UNCHANGED log
    BY <1>4 DEF Consume
  <2>2. NonceStep(reg, disk)
    BY <1>2, <1>3, <2>1 DEF NonceStep, Becomes
  <2> QED
    BY <2>1, <2>2, NonceKeep
<1>5. CASE fits /\ MayConsume(x.reg, q)
  <2> DEFINE g == s = "ok"
             n == Len(log)
             e == [lease |-> q.lease, granted |-> g, at |-> q.t]
             ns == reg.nonces
  <2>1. Becomes(Persisted(r, x.disk, s)) /\ log' = Append(log, e)
    BY <1>5 DEF Consume
  <2>2. r \in Registry /\ r.nonces = RememberNonce(ns, q.lease)
    <3>1. RememberNonce(x.reg.nonces, q.lease) \in Seq(Lease)
      BY <1>2, <1>3, RememberType, AdmissionAssumption DEF Registry
    <3>2. /\ Marked(x.reg, q.lease, "CONSUMED") \in Registry
          /\ Marked(x.reg, q.lease, "CONSUMED").nonces = x.reg.nonces
      BY <1>2, <1>3, MarkedType DEF Status
    <3> HIDE DEF x, q
    <3> QED
      BY <1>3, <3>1, <3>2 DEF Registry
  <2>3. ~Known(reg, q.lease)
    BY <1>3, <1>5 DEF MayConsume, Known
  <2>4. TypeOK /\ ns \in Seq(Lease) /\ Remembers(log, ns) /\ disk.file # "absent"
    BY <1>2 DEF AInv, TypeOK, Registry, NInv
  <2> HIDE DEF r, x, q
  <2>5. /\ reg'.nonces = r.nonces /\ (reg'.healthy => s = "ok")
        /\ disk' = IF s = "old" THEN x.disk ELSE Image(r, x.disk.marker)
    BY <1>3, <2>1, <2>2, NonceWrite
  <2>6. Remembers(log', RememberNonce(ns, q.lease)) /\ (~g => Remembers(log', ns))
    BY <1>2, <2>1, <2>4, RemembersOneMore
  <2>7. disk.file = "ok" /\ ~g => Remembers(log', disk.nonces)
    <3>1. disk.file = "ok" => disk.nonces \in Seq(Lease) /\ Remembers(log, disk.nonces)
      BY DEF AInv, TypeOK, Disk, NInv
    <3> QED
      BY <1>2, <2>1, <2>4, <3>1, RemembersOneMore
  <2>8. Serving(reg') => Remembers(log', reg'.nonces) /\ disk'.file # "absent"
    <3>1. Remembers(log', reg'.nonces)
      BY <2>2, <2>5, <2>6
    <3>2. disk'.file # "absent"
      BY <1>3, <2>4, <2>5 DEF Image
    <3> QED
      BY <3>1, <3>2
  <2>9. disk'.file = "ok" => Remembers(log', disk'.nonces)
    <3>1. CASE s = "old"
      <4>1. disk' = x.disk /\ ~g
        BY <2>5, <3>1
      <4> QED
        BY <1>3, <2>6, <2>7, <4>1
    <3>2. CASE s # "old"
      <4>1. disk'.nonces = RememberNonce(ns, q.lease)
        BY <2>2, <2>5, <3>2 DEF Image
      <4> QED
        BY <2>6, <4>1
    <3> QED
      BY <3>1, <3>2
  <2>10. SingleUse'
    <3>1. /\ n \in Nat /\ Len(log') = n + 1 /\ log'[n + 1] = e
          /\ \A i \in 1..n : log'[i] = log[i]
          /\ NonceMemory \in Nat
      BY <2>1, <2>4, AdmissionAssumption DEF TypeOK
    <3>2. ASSUME NEW i \in 1..n, log[i].granted, log[i].lease = q.lease
          PROVE  n - i >= NonceMemory
      BY <2>3, <2>4, <3>1, <3>2 DEF Remembers, Holds, Known
    <3>3. ASSUME NEW i \in 1..n+1, NEW j \in 1..n+1, i < j, log'[i].granted,
                 log'[i].lease = log'[j].lease
          PROVE  j - i > NonceMemory
      <4>1. i \in 1..n /\ log'[i] = log[i]
        BY <3>1, <3>3
      <4>2. CASE j = n + 1
        <5>1. log[i].lease = q.lease
          BY <3>1, <3>3, <4>1, <4>2
        <5> QED
          BY <3>1, <3>2, <3>3, <4>1, <4>2, <5>1
      <4>3. CASE j \in 1..n
        BY <3>1, <3>3, <4>1, <4>3 DEF NInv, SingleUse
      <4> QED
        BY <3>1, <4>2, <4>3
    <3> QED
      BY <3>1, <3>3 DEF SingleUse
  <2>11. disk'.file # "absent"
    BY <1>3, <2>4, <2>5 DEF Image
  <2> QED
    BY <2>8, <2>9, <2>10, <2>11 DEF NInv, Serving
<1> QED
  BY <1>4, <1>5

LEMMA NBoot ==
  ASSUME AInv, NInv, NEW p \in Persist, Boot(p) PROVE NInv'
<1>1. UNCHANGED log /\ disk \in Disk /\ NonceMemory \in Nat
  BY AdmissionAssumption DEF Boot, AInv, TypeOK
<1>2. log' = log
  BY <1>1
<1>3. CASE disk.file = "absent" /\ ~disk.marker
  <2> DEFINE fresh == [EmptyRegistry EXCEPT !.healthy = TRUE]
  <2>1. fresh \in Registry /\ fresh.armed = None /\ fresh.nonces = <<>>
    <3>1. EmptyRegistry.nonces = <<>>
      BY DEF EmptyRegistry
    <3> QED
      BY <3>1, EmptyType DEF Registry
  <2>2. PICK marker \in BOOLEAN : Becomes(Persisted(fresh, [disk EXCEPT !.marker = marker], p))
    BY <1>3 DEF Boot, Becomes
  <2> DEFINE d == [disk EXCEPT !.marker = marker]
  <2>3. d \in Disk /\ d.file = "absent"
    BY <1>1, <1>3 DEF Disk
  <2> HIDE DEF fresh, d
  <2>4. /\ reg'.nonces = <<>> /\ reg'.armed = None /\ (reg'.healthy => p = "ok")
        /\ disk' = IF p = "old" THEN d ELSE Image(fresh, d.marker)
    BY <2>1, <2>2, <2>3, NonceWrite DEF d
  <2>5. log = <<>> /\ Remembers(log, <<>>)
    BY <1>1, <1>3 DEF NInv, Remembers
  <2>6. disk'.file = "ok" => disk'.nonces = <<>>
    BY <2>1, <2>3, <2>4 DEF Image
  <2>7. Serving(reg') => disk'.file # "absent"
    BY <2>4 DEF Serving, Image
  <2>8. (disk'.file = "ok" => Remembers(log', disk'.nonces)) /\ Remembers(log', reg'.nonces)
    BY <1>2, <2>4, <2>5, <2>6
  <2> QED
    BY <1>1, <2>5, <2>7, <2>8 DEF NInv, SingleUse, Serving
<1>4. CASE reg' = EmptyRegistry /\ UNCHANGED disk
  <2>1. NonceStep(reg, disk)
    BY <1>4, EmptyType DEF NonceStep, Serving
  <2> QED
    BY <1>1, <2>1, NonceKeep
<1>5. CASE disk.file = "ok" /\ Becomes(Persisted(Recovered, disk, p))
  <2>1. Recovered \in Registry /\ Recovered.nonces = disk.nonces
    BY <1>1 DEF Recovered, Registry, Disk, Status
  <2>2. /\ reg'.nonces = disk.nonces
        /\ disk' = disk \/ (disk'.file = "ok" /\ disk'.nonces = disk.nonces)
    BY <1>1, <1>5, <2>1, NonceWrite DEF Image
  <2>3. Remembers(log', disk.nonces) /\ disk'.file = "ok" /\ disk'.nonces = disk.nonces
    BY <1>2, <1>5, <2>2 DEF NInv
  <2> QED
    BY <1>1, <2>2, <2>3 DEF NInv, SingleUse
<1> QED
  BY <1>3, <1>4, <1>5 DEF Boot, Becomes

LEMMA NQuiet ==
  ASSUME AInv, NInv, "absent" \notin Faults,
         \/ Tick \/ Crash
         \/ \E f \in Faults : Damage(f)
         \/ \E p \in Persist : Look(p)
         \/ \E c \in Thread : RefuseUnhealthy(c)
         \/ \E c \in Thread, l \in Lease, op \in {"arm", "consume", "revoke"} : Receive(c, op, l)
         \/ \E c \in Thread, s \in Persist : Revoke(c, s)
  PROVE  NInv'
<1>1. CASE UNCHANGED <<reg, disk, log>>
  BY <1>1, NonceKeep DEF NonceStep
<1>2. CASE \E f \in Faults : Damage(f)
  <2>1. disk'.file = "bad" /\ UNCHANGED <<reg, log>>
    BY <1>2, AdmissionAssumption DEF Damage, AInv, TypeOK, Disk
  <2> QED
    BY <2>1 DEF NInv, SingleUse, Serving
<1>3. CASE Crash
  BY <1>3, EmptyType, NonceKeep DEF Crash, NonceStep, Serving
<1>4. ASSUME NEW p \in Persist, Look(p) PROVE NInv'
  <2>1. now \in Nat /\ UNCHANGED log
    BY <1>4 DEF AInv, TypeOK, Look
  <2>2. NonceStep(reg, disk)
    BY <1>4, <2>1, ExpiryNonces DEF Look, Becomes, NonceStep
  <2> QED
    BY <2>1, <2>2, NonceKeep
<1>5. ASSUME NEW c \in Thread, NEW s \in Persist, Revoke(c, s) PROVE NInv'
  <2> DEFINE q == req[c]
             r == [Marked(reg, q.lease, "REVOKED") EXCEPT !.armed = None]
  <2>1. q.lease \in Lease /\ reg \in Registry /\ disk \in Disk /\ Serving(reg) /\ UNCHANGED log
    BY <1>5 DEF Revoke, Asks, AInv, TypeOK, Request, Serving
  <2>2. CASE UNCHANGED <<reg, disk>>
    BY <1>1, <2>1, <2>2
  <2>3. CASE Becomes(Persisted(r, disk, s))
    <3>1. r \in Registry /\ r.nonces = reg.nonces
      BY <2>1 DEF Marked, Registry, Status
    <3> HIDE DEF r, q
    <3>2. reg'.nonces = r.nonces /\ (disk' = disk \/ disk' = Image(r, disk.marker))
      BY <2>1, <2>3, <3>1, NonceWrite
    <3>3. NonceStep(reg, disk)
      BY <2>1, <3>1, <3>2 DEF NonceStep, Image
    <3> QED
      BY <2>1, <3>3, NonceKeep
  <2> QED
    BY <1>5, <2>2, <2>3 DEF Revoke
<1> QED
  BY <1>1, <1>2, <1>3, <1>4, <1>5 DEF Tick, RefuseUnhealthy, Receive

LEMMA InitNInv == RegistryInit => NInv
  BY EmptyType DEF RegistryInit, NInv, SingleUse, Serving

LEMMA NextNInv ==
  ASSUME "absent" \notin Faults PROVE AInv /\ NInv /\ [RegistryNext]_registryVars => NInv'
<1> SUFFICES ASSUME AInv, NInv, [RegistryNext]_registryVars PROVE NInv'
  OBVIOUS
<1>1. CASE UNCHANGED registryVars
  BY <1>1, NonceKeep DEF registryVars, NonceStep
<1>2. CASE RegistryNext
  BY <1>2, NArm, NConsume, NBoot, NQuiet DEF RegistryNext
<1> QED
  BY <1>1, <1>2

(* On a volume that keeps its file, or loses no more than its integrity, no *)
(* granted lease is consumed again before NonceMemory others have been.     *)
THEOREM LeaseUsedOnce ==
  ASSUME "absent" \notin Faults PROVE RegistrySpec => []SingleUse
<1>1. NInv => SingleUse
  BY DEF NInv
<1> QED
  BY <1>1, InitNInv, NextNInv, InitAInv, NextAInv, PTL DEF RegistrySpec

-----------------------------------------------------------------------------
(* The registry implements the slot of LeaseSlot, on a volume that does not   *)
(* lose its file and with no more consumptions than the nonce memory holds.   *)

(* The log is bounded by the guard of Consume. *)
InBound == Len(log) <= MaxLog

LEMMA BoundStep == AInv /\ InBound /\ [RegistryNext]_registryVars => InBound'
<1> SUFFICES ASSUME AInv, InBound, [RegistryNext]_registryVars PROVE InBound'
  OBVIOUS
<1>1. CASE UNCHANGED log
  BY <1>1 DEF InBound
<1>2. ASSUME NEW c \in Thread, NEW fits \in BOOLEAN, NEW p \in Persist, NEW s \in Persist,
             Consume(c, fits, p, s)
      PROVE  InBound'
  <2>1. CASE UNCHANGED log
    BY <2>1, <1>1
  <2>2. CASE ~UNCHANGED log
    <3>1. PICK e : Len(log) < MaxLog /\ log' = Append(log, e)
      BY <1>2, <2>2 DEF Consume
    <3>2. Len(log') = Len(log) + 1 /\ Len(log) \in Nat /\ MaxLog \in Nat
      BY <3>1, AdmissionAssumption DEF AInv, TypeOK
    <3> QED
      BY <3>1, <3>2 DEF InBound
  <2> QED
    BY <2>1, <2>2
<1>3. CASE UNCHANGED registryVars
  BY <1>1, <1>3 DEF registryVars
<1> QED
  BY <1>1, <1>2, <1>3, ZenonT(60)
  DEF RegistryNext, Tick, Damage, Crash, Boot, Look, Receive, RefuseUnhealthy, Arm, Revoke

(* Every spent lease is known to a registry that answers. *)
LEMMA SpentIsKnown ==
  ASSUME AInv, NInv, InBound, MaxLog <= NonceMemory, reg.healthy, NEW l \in Spent
  PROVE  Known(reg, l)
<1>1. PICK i \in 1..Len(log) : log[i].granted /\ log[i].lease = l
  BY DEF Spent
<1>2. Len(log) \in Nat /\ MaxLog \in Nat /\ NonceMemory \in Nat
  BY AdmissionAssumption DEF AInv, TypeOK
<1>3. Len(log) - i < NonceMemory
  BY <1>2 DEF InBound
<1>4. Remembers(log, reg.nonces)
  BY DEF NInv, Serving
<1> QED
  BY <1>1, <1>3, <1>4 DEF Remembers, Holds, Known

LEMMA UsedSlot ==
  ASSUME NEW l, NEW u \in BOOLEAN, NEW f \in [lease: {l}, used: BOOLEAN]
  PROVE  [f EXCEPT !.used = u] = [lease |-> l, used |-> u]
  OBVIOUS

LEMMA ToFree == ASSUME reg'.armed = None, UNCHANGED log PROVE Slot!Free
  BY DEF Slot!Free, Slot!EmptySlot, SlotOf, Spent

LEMMA ToStutter == ASSUME UNCHANGED <<reg, log>> PROVE UNCHANGED Slot!slotVars
  BY DEF Slot!slotVars, SlotOf, Spent

(* An expiry found on the way leaves the slot alone or frees it. *)
LEMMA ExpiryToSlot ==
  ASSUME AInv, UNCHANGED log, NEW t \in Nat, NEW p \in Persist, reg' = ExpiredAt(t, p).reg
  PROVE  Slot!Free \/ UNCHANGED Slot!slotVars
<1> DEFINE x == ExpiredAt(t, p)
<1>1. x.reg = reg \/ x.reg.armed = None
  BY AfterExpiry
<1> HIDE DEF x
<1>2. reg' = x.reg
  BY DEF x
<1> QED
  BY <1>1, <1>2, ToFree, ToStutter

LEMMA ArmToSlot ==
  ASSUME AInv, NInv, InBound, MaxLog <= NonceMemory,
         NEW c \in Thread, NEW fits \in BOOLEAN, NEW p \in Persist, NEW s \in Persist,
         Arm(c, fits, p, s)
  PROVE  [Slot!SlotNext]_(Slot!slotVars)
<1> DEFINE q == req[c]
           x == ExpiredAt(q.t, p)
           r == [Marked(x.reg, q.lease, "ARMED") EXCEPT !.armed = q.lease]
<1>1. q.lease \in Lease /\ q.t \in Nat /\ reg.healthy /\ UNCHANGED log
  BY DEF Arm, Asks, AInv, TypeOK, Request
<1>2. CASE ~(fits /\ Armable(x.reg, q))
  <2>1. reg' = x.reg
    BY <1>2 DEF Arm, Becomes
  <2> QED
    BY <1>1, <2>1, ExpiryToSlot DEF Slot!SlotNext
<1>3. CASE fits /\ Armable(x.reg, q)
  <2>1. Becomes(Persisted(r, x.disk, s)) /\ ~Known(x.reg, q.lease)
    BY <1>3 DEF Arm, Armable
  <2>2. x.reg \in Registry /\ x.disk \in Disk /\ x.reg.nonces = reg.nonces
    BY <1>1, AfterExpiry
  <2>3. r \in Registry /\ r.armed = q.lease /\ r.recent[q.lease] = "ARMED"
    BY <1>1, <2>2 DEF Marked, Registry, Status
  <2> HIDE DEF r, x, q
  <2>4. reg'.armed = q.lease /\ reg'.recent = r.recent
    BY <2>1, <2>2, <2>3, PersistedFacts DEF Becomes
  <2>5. SlotOf' = [lease |-> q.lease, used |-> FALSE] /\ Spent' = Spent
    BY <1>1, <2>3, <2>4 DEF SlotOf, Spent
  <2>6. q.lease \notin Spent
    BY <1>1, <2>1, <2>2, SpentIsKnown DEF Known
  <2>7. Slot!Admit(q.lease)
    BY <2>5, <2>6 DEF Slot!Admit
  <2> QED
    BY <1>1, <2>7 DEF Slot!SlotNext
<1> QED
  BY <1>2, <1>3

LEMMA ConsumeToSlot ==
  ASSUME AInv, NInv, InBound, MaxLog <= NonceMemory,
         NEW c \in Thread, NEW fits \in BOOLEAN, NEW p \in Persist, NEW s \in Persist,
         Consume(c, fits, p, s)
  PROVE  [Slot!SlotNext]_(Slot!slotVars)
<1> DEFINE q == req[c]
           x == ExpiredAt(q.t, p)
           r == [Marked(x.reg, q.lease, "CONSUMED")
                   EXCEPT !.nonces = RememberNonce(@, q.lease)]
           e == [lease |-> q.lease, granted |-> s = "ok", at |-> q.t]
<1>1. q.lease \in Lease /\ q.t \in Nat /\ reg.healthy
  BY DEF Consume, Asks, AInv, TypeOK, Request
<1>2. CASE ~(fits /\ MayConsume(x.reg, q))
  <2>1. reg' = x.reg /\ UNCHANGED log
    BY <1>2 DEF Consume, Becomes
  <2> QED
    BY <1>1, <2>1, ExpiryToSlot DEF Slot!SlotNext
<1>3. CASE fits /\ MayConsume(x.reg, q)
  <2>1. /\ Becomes(Persisted(r, x.disk, s)) /\ log' = Append(log, e)
        /\ ~Known(x.reg, q.lease) /\ x.reg.armed = q.lease /\ x.reg.recent[q.lease] = "ARMED"
    BY <1>3 DEF Consume, MayConsume
  <2>2. x.reg \in Registry /\ x.disk \in Disk /\ x.reg = reg
    BY <1>1, <2>1, AfterExpiry, AdmissionAssumption
  <2>3. RememberNonce(Marked(x.reg, q.lease, "CONSUMED").nonces, q.lease) \in Seq(Lease)
    BY <1>1, <2>2, RememberType, AdmissionAssumption DEF Marked, Registry
  <2>4. r \in Registry /\ r.armed = q.lease /\ r.recent[q.lease] = "CONSUMED"
    BY <1>1, <2>1, <2>2, <2>3 DEF Marked, Registry, Status
  <2>5. e.lease = q.lease /\ (e.granted <=> s = "ok")
    OBVIOUS
  <2> HIDE DEF r, x, q, e
  <2>6. reg'.armed = q.lease /\ reg'.recent = r.recent
    BY <2>1, <2>2, <2>4, PersistedFacts DEF Becomes
  <2>7. /\ SlotOf = [lease |-> q.lease, used |-> FALSE]
        /\ SlotOf' = [lease |-> q.lease, used |-> TRUE]
    BY <1>1, <2>1, <2>2, <2>4, <2>6, AdmissionAssumption DEF SlotOf
  <2>8. q.lease \notin Spent
    BY <1>1, <2>1, <2>2, SpentIsKnown
  <2>9. Spent' = IF s = "ok" THEN Spent \cup {q.lease} ELSE Spent
    <3>1. /\ Len(log) \in Nat /\ Len(log') = Len(log) + 1 /\ log'[Len(log) + 1] = e
          /\ \A k \in 1..Len(log) : log'[k] = log[k]
      BY <2>1 DEF AInv, TypeOK
    <3>2. \A k \in 1..Len(log') : k \in 1..Len(log) \/ k = Len(log) + 1
      BY <3>1
    <3>3. \A k \in 1..Len(log) : k \in 1..Len(log')
      BY <3>1
    <3>4. Len(log) + 1 \in 1..Len(log')
      BY <3>1
    <3>5. ASSUME NEW l \in Lease
          PROVE  l \in Spent' <=> l \in Spent \/ (s = "ok" /\ l = q.lease)
      <4>1. l \in Spent' <=> \E k \in 1..Len(log') : log'[k].granted /\ log'[k].lease = l
        BY DEF Spent
      <4>2. l \in Spent <=> \E k \in 1..Len(log) : log[k].granted /\ log[k].lease = l
        BY DEF Spent
      <4> QED
        BY <4>1, <4>2, <2>5, <3>1, <3>2, <3>3, <3>4
    <3>6. Spent' \subseteq Lease /\ Spent \subseteq Lease
      BY DEF Spent
    <3> QED
      BY <1>1, <3>5, <3>6
  <2>10. Slot!Grant(q.lease) \/ Slot!Burn(q.lease)
    <3>0. SlotOf' = [SlotOf EXCEPT !.used = TRUE]
      <4>1. SlotOf \in [lease: {q.lease}, used: BOOLEAN] /\ TRUE \in BOOLEAN
        BY <2>7
      <4>2. [SlotOf EXCEPT !.used = TRUE] = [lease |-> q.lease, used |-> TRUE]
        BY <4>1, UsedSlot, Zenon
      <4> QED
        BY <4>2, <2>7, Zenon
    <3>1. CASE s = "ok"
      BY <3>0, <3>1, <2>7, <2>8, <2>9, Zenon DEF Slot!Grant
    <3>2. CASE s # "ok"
      BY <3>0, <3>2, <2>7, <2>9, Zenon DEF Slot!Burn
    <3> QED
      BY <3>1, <3>2
  <2> QED
    BY <1>1, <2>10 DEF Slot!SlotNext
<1> QED
  BY <1>2, <1>3

LEMMA QuietToSlot ==
  ASSUME AInv,
         \/ Tick \/ Crash
         \/ \E f \in Faults : Damage(f)
         \/ \E p \in Persist : Boot(p) \/ Look(p)
         \/ \E c \in Thread : RefuseUnhealthy(c)
         \/ \E c \in Thread, l \in Lease, op \in {"arm", "consume", "revoke"} : Receive(c, op, l)
         \/ \E c \in Thread, s \in Persist : Revoke(c, s)
  PROVE  [Slot!SlotNext]_(Slot!slotVars)
<1>1. CASE UNCHANGED <<reg, log>>
  BY <1>1, ToStutter
<1>2. CASE reg'.armed = None /\ UNCHANGED log
  BY <1>2, ToFree DEF Slot!SlotNext
<1>3. CASE Crash
  BY <1>2, <1>3, EmptyType DEF Crash
<1>4. ASSUME NEW p \in Persist, Boot(p) PROVE [Slot!SlotNext]_(Slot!slotVars)
  <2>1. disk \in Disk /\ UNCHANGED log
    BY <1>4 DEF Boot, AInv, TypeOK
  <2>2. CASE reg' = EmptyRegistry
    BY <1>2, <2>1, <2>2, EmptyType
  <2>3. ASSUME NEW r, NEW d, reg' = Persisted(r, d, p).reg, r.armed = None, r \in Registry
        PROVE  reg'.armed = None
    BY <2>3 DEF Persisted, Registry
  <2>4. Recovered \in Registry /\ Recovered.armed = None
    BY <2>1 DEF Recovered, Registry, Disk, Status
  <2>5. /\ [EmptyRegistry EXCEPT !.healthy = TRUE] \in Registry
        /\ [EmptyRegistry EXCEPT !.healthy = TRUE].armed = None
    BY EmptyType DEF Registry
  <2>6. CASE \E d : reg' = Persisted([EmptyRegistry EXCEPT !.healthy = TRUE], d, p).reg
    BY <1>2, <2>1, <2>3, <2>5, <2>6
  <2>7. CASE reg' = Persisted(Recovered, disk, p).reg
    BY <1>2, <2>1, <2>3, <2>4, <2>7
  <2>8. \/ \E d : reg' = Persisted([EmptyRegistry EXCEPT !.healthy = TRUE], d, p).reg
        \/ reg' = EmptyRegistry
        \/ reg' = Persisted(Recovered, disk, p).reg
    BY <1>4 DEF Boot
  <2> QED
    BY <2>2, <2>6, <2>7, <2>8
<1>5. ASSUME NEW p \in Persist, Look(p) PROVE [Slot!SlotNext]_(Slot!slotVars)
  <2>1. now \in Nat /\ UNCHANGED log /\ reg' = ExpiredAt(now, p).reg
    BY <1>5 DEF AInv, TypeOK, Look, Becomes
  <2> QED
    BY <2>1, ExpiryToSlot DEF Slot!SlotNext
<1>6. ASSUME NEW c \in Thread, NEW s \in Persist, Revoke(c, s)
      PROVE  [Slot!SlotNext]_(Slot!slotVars)
  <2> DEFINE q == req[c]
             r == [Marked(reg, q.lease, "REVOKED") EXCEPT !.armed = None]
  <2>1. q.lease \in Lease /\ reg \in Registry /\ disk \in Disk /\ UNCHANGED log
    BY <1>6 DEF Revoke, Asks, AInv, TypeOK, Request
  <2>2. CASE UNCHANGED <<reg, disk>>
    BY <1>1, <2>1, <2>2
  <2>3. CASE Becomes(Persisted(r, disk, s))
    <3>1. r \in Registry /\ r.armed = None
      BY <2>1 DEF Marked, Registry, Status
    <3> HIDE DEF r, q
    <3>2. reg'.armed = None
      BY <2>1, <2>3, <3>1, PersistedFacts DEF Becomes
    <3> QED
      BY <1>2, <2>1, <3>2
  <2> QED
    BY <1>6, <2>2, <2>3 DEF Revoke
<1> QED
  BY <1>1, <1>3, <1>4, <1>5, <1>6 DEF Tick, Damage, RefuseUnhealthy, Receive

(* As long as no more leases are consumed than the nonce memory holds, and  *)
(* the volume does not lose its file, every behaviour of the registry is,   *)
(* seen through SlotOf and Spent, one of the abstract slot: no lease is     *)
(* granted twice and none that does not stand there unused.                 *)
THEOREM RegistryImplementsSlot ==
  ASSUME "absent" \notin Faults, MaxLog <= NonceMemory PROVE RegistrySpec => Implements
<1>1. RegistryInit => Slot!SlotInit /\ InBound
  <2> SUFFICES ASSUME RegistryInit PROVE Slot!SlotInit /\ InBound
    OBVIOUS
  <2>1. reg.armed = None /\ log = <<>> /\ Len(log) = 0
    BY EmptyType DEF RegistryInit
  <2>2. SlotOf = Slot!EmptySlot
    BY <2>1 DEF SlotOf, Slot!EmptySlot
  <2>3. Spent = {}
    BY <2>1 DEF Spent
  <2> QED
    BY <2>1, <2>2, <2>3, AdmissionAssumption DEF Slot!SlotInit, InBound
<1>2. AInv /\ NInv /\ InBound /\ [RegistryNext]_registryVars => [Slot!SlotNext]_(Slot!slotVars)
  <2> SUFFICES ASSUME AInv, NInv, InBound, [RegistryNext]_registryVars
               PROVE  [Slot!SlotNext]_(Slot!slotVars)
    OBVIOUS
  <2>1. CASE UNCHANGED registryVars
    BY <2>1, ToStutter DEF registryVars
  <2>2. CASE RegistryNext
    BY <2>2, ArmToSlot, ConsumeToSlot, QuietToSlot DEF RegistryNext
  <2> QED
    BY <2>1, <2>2
<1> QED
  BY <1>1, <1>2, BoundStep, InitNInv, NextNInv, InitAInv, NextAInv, PTL
     DEF RegistrySpec, Implements, Slot!SlotSpec

-----------------------------------------------------------------------------
(* The scan.                                                               *)

(* Every value the parts may have.                                         *)
Lease0 == Session \cup {0}
Task   == [pc : {"idle", "starting", "running", "closing", "finishing", "ended"}, lease : Lease0,
           result : {"NONE", "FAILED", "STOPPED", "COMPLETED"}]
CallThread == [pc : {"idle", "sent", "ended"} \cup Locked, engine : {"none", "alive", "clean", "dead"},
           traffic : {"none", "some", "refused", "cut"},
           out : {"NONE", "REJECTED", "FAILED", "STOPPED", "COMPLETED"}]
Kill   == [pc : {"idle", "sent", "waiting", "revoked", "guarded", "ended"}, lease : Lease0,
           process : Lease0, quiet : BOOLEAN]
States == {"IDLE", "NONE", "ARMED", "RUNNING", "FAILED", "STOPPED", "COMPLETED", "GONE"}

(* The type invariant. *)
WellTyped ==
  /\ world \in Worlds /\ scenario \in [Session -> Scenario]
  /\ late \in SUBSET Session /\ leased \in SUBSET Session /\ spent \in SUBSET Session
  /\ cur \in Lease0 /\ arming \in Lease0 /\ flag \in BOOLEAN
  /\ sess \in [Lease0 -> States]
  /\ store \in [lease : Lease0, state : {"NONE", "ISSUED", "CONSUMED", "EXPIRED", "REVOKED", "COMPLETED"}]
  /\ task \in [Session -> Task] /\ run \in [Session -> CallThread] /\ kill \in [Stop -> Kill]
  /\ stop \in [Stop -> [pc : {"idle", "stopping", "revoking", "ended"}, session : Lease0]]
  /\ armCall \in [Session -> {"idle", "sent", "armed", "refused"}]
  /\ revoke \in [Session \cup Stop -> {"idle", "sent", "half", "ended"}]
  /\ guard \in [run : Lease0, lease : Lease0, revoked : BOOLEAN]
  /\ slot \in [lease : Lease0, used : BOOLEAN]

(* A lease has one task, and the one that is on offer has none yet.        *)
Issued ==
  /\ OneEngine /\ LeaseRunsOnce
  /\ store.lease <= cur /\ \A s \in Session : task[s].lease <= cur
  /\ store.state = "ISSUED" =>
       store.lease # 0 /\ \A s \in Session : task[s].lease # store.lease

(* A session is executed once, and its call to the runner is made once.    *)
Once ==
  /\ \A s \in Session :
       /\ s > cur => sess[s] = "NONE" /\ task[s].pc = "idle"
       /\ arming = s => sess[s] # "ARMED"
       /\ arming = s \/ sess[s] = "ARMED" => task[s].pc = "idle"
       /\ task[s].pc \in {"idle", "starting"} => run[s].pc = "idle"
       /\ run[s].pc # "idle" => task[s].lease # 0
  /\ \A k \in Stop : stop[k].session <= cur /\ (stop[k].pc = "idle" => kill[k].pc = "idle")
  /\ arming <= cur

(* What a thread under the lock has of the registry and the guard.         *)
Held ==
  \A s \in Session :
    /\ run[s].pc \in Locked \ {"begun"} => task[s].lease \in spent
    /\ run[s].pc \in {"armed", "spawned"} => guard.run = s /\ guard.lease = task[s].lease

(* What a kill switch has found in flight, and what it keeps from it.      *)
Found == (Locked \ {"begun", "granted"}) \cup {"ended"}
Killed(k) ==
  /\ kill[k].quiet => kill[k].lease # 0 /\ kill[k].pc \in {"guarded", "ended"}
  /\ kill[k].pc \in {"revoked", "guarded"} => kill[k].lease # 0
  /\ kill[k].lease # 0 =>
       \E s \in Session : task[s].lease = kill[k].lease /\ run[s].pc \in Found
  /\ \A s \in Session : kill[k].lease # 0 /\ kill[k].lease = task[s].lease =>
       /\ kill[k].pc = "ended" /\ run[s].pc \in Locked => flag
       /\ kill[k].quiet /\ run[s].pc = "spawned" => ~GuardOpen

IInv == WellTyped /\ Issued /\ Once /\ Held /\ \A k \in Stop : Killed(k)

-----------------------------------------------------------------------------
(* What the proofs keep needing.                                           *)

LEMMA Numbers ==
  /\ Session \subseteq Nat /\ Lease0 \subseteq Nat /\ Lease0 = 0..MaxSession /\ 0 \notin Session
  /\ 0 \in Lease0 /\ Session \subseteq Lease0 /\ \A s \in Session : 1 <= s
<1>1. MaxSession \in Nat
  BY ActiveScanAssumption
<1> QED
  BY <1>1 DEF Session, Lease0

LEMMA Typed ==
  ASSUME IInv
  PROVE  /\ \A s \in Session : run[s] \in CallThread /\ task[s] \in Task
         /\ \A k \in Stop : kill[k] \in Kill
         /\ store \in [lease : Lease0, state : {"NONE", "ISSUED", "CONSUMED", "EXPIRED", "REVOKED", "COMPLETED"}]
         /\ guard \in [run : Lease0, lease : Lease0, revoked : BOOLEAN]
         /\ slot \in [lease : Lease0, used : BOOLEAN] /\ spent \in SUBSET Session
         /\ cur \in Lease0 /\ cur \in Nat /\ late \in SUBSET Session
  BY Numbers DEF IInv, WellTyped

LEMMA LockIsOne ==
  ASSUME IInv, NEW r \in Session, NEW s \in Session, run[r].pc \in Locked, run[s].pc \in Locked
  PROVE  r = s
  BY DEF IInv, Issued, OneEngine

LEMMA LeaseIsOne ==
  ASSUME IInv, NEW r \in Session, NEW s \in Session, task[r].lease = task[s].lease, task[r].lease # 0
  PROVE  r = s
  BY DEF IInv, Issued, LeaseRunsOnce

SlotGrows ==
  slot' \in [lease : Lease0, used : BOOLEAN] /\ spent' \in SUBSET Session /\ spent \subseteq spent'
LEMMA SlotTyped ==
  ASSUME IInv, NEW l \in Lease0
  PROVE  /\ Admit(l) \/ Burn(l) \/ Free \/ Release(l) \/ UNCHANGED <<slot, spent>> => SlotGrows
         /\ Grant(l) /\ l # 0 => SlotGrows /\ l \in spent'
<1>1. slot \in [lease : Lease0, used : BOOLEAN] /\ spent \in SUBSET Session /\ 0 \in Lease0
  BY Typed, Numbers
<1>2. l # 0 => l \in Session
  BY DEF Lease0
<1> DEFINE Slots == [lease : Lease0, used : BOOLEAN]
<1>3. /\ [lease |-> l, used |-> FALSE] \in Slots /\ [lease |-> 0, used |-> FALSE] \in Slots
      /\ [slot EXCEPT !.used = TRUE] \in Slots
  BY <1>1
<1>4. /\ Admit(l) => slot' \in Slots /\ spent' = spent
      /\ Burn(l) => slot' \in Slots /\ spent' = spent
      /\ Free => slot' \in Slots /\ spent' = spent
      /\ UNCHANGED <<slot, spent>> => slot' \in Slots /\ spent' = spent
      /\ Grant(l) => slot' \in Slots /\ spent' = spent \cup {l}
  <2> HIDE DEF Slots
  <2> QED
    BY <1>1, <1>3 DEF Admit, Burn, Free, Grant, EmptySlot, Slots
<1>5. slot' \in Slots /\ spent' = spent => SlotGrows
  BY <1>1 DEF SlotGrows
<1>6. slot' \in Slots /\ spent' = spent \cup {l} /\ l # 0 => SlotGrows /\ l \in spent'
  BY <1>1, <1>2 DEF SlotGrows
<1> HIDE DEF Slots
<1> QED
  BY <1>4, <1>5, <1>6 DEF Release

LEMMA GuardTyped ==
  ASSUME IInv, NEW l, NEW s
  PROVE  /\ GuardRevoked(l) \in [run : Lease0, lease : Lease0, revoked : BOOLEAN]
         /\ Disarmed(s) \in [run : Lease0, lease : Lease0, revoked : BOOLEAN]
         /\ GuardRevoked(l).run = guard.run /\ GuardRevoked(l).lease = guard.lease
         /\ guard.revoked => GuardRevoked(l).revoked
         /\ guard.lease = l => GuardRevoked(l).revoked
<1>1. guard \in [run : Lease0, lease : Lease0, revoked : BOOLEAN] /\ 0 \in Lease0
  BY Typed, Numbers
<1> QED
  BY <1>1 DEF GuardRevoked, Disarmed

LEMMA StoreTyped ==
  ASSUME IInv, NEW l, NEW st \in {"REVOKED", "COMPLETED"}
  PROVE  LET S == [lease : Lease0, state : {"NONE", "ISSUED", "CONSUMED", "EXPIRED", "REVOKED", "COMPLETED"}]
         IN /\ Fresh \in S /\ Fresh.lease = store.lease /\ (Fresh.state = "ISSUED" => store.state = "ISSUED")
            /\ Terminated(l, st) \in S /\ Terminated(l, st).lease = store.lease
            /\ Terminated(l, st).state = "ISSUED" => store.state = "ISSUED"
<1>1. store \in [lease : Lease0, state : {"NONE", "ISSUED", "CONSUMED", "EXPIRED", "REVOKED", "COMPLETED"}]
  BY Typed
<1> QED
  BY <1>1 DEF Fresh, Terminated

LEMMA Touched ==
  ASSUME IInv, NEW s \in Lease0, NEW st \in States, Touch(s, st)
  PROVE  /\ sess' \in [Lease0 -> States]
         /\ \A r \in Lease0 \ {s} : sess'[r] = sess[r]
         /\ sess'[s] \in {"STOPPED", st}
  BY DEF IInv, WellTyped, Touch

-----------------------------------------------------------------------------
(* Parts of the invariant that a step leaves alone.                        *)

LEMMA IssuedKept ==
  ASSUME IInv, UNCHANGED <<run, cur>>, store'.lease = store.lease,
         store'.state = "ISSUED" => store.state = "ISSUED",
         \A s \in Session : task'[s].lease = task[s].lease
  PROVE  Issued'
  BY DEF IInv, Issued, OneEngine, LeaseRunsOnce, Engines

LEMMA OnceKept ==
  ASSUME IInv, UNCHANGED <<cur, sess, arming, task, stop>>,
         \A s \in Session : run'[s].pc = "idle" <=> run[s].pc = "idle",
         \A k \in Stop : kill[k].pc = "idle" => kill'[k].pc = "idle"
  PROVE  Once'
  BY DEF IInv, Once

LEMMA HeldKept ==
  ASSUME IInv, \A s \in Session : run'[s].pc = run[s].pc /\ task'[s].lease = task[s].lease,
         spent \subseteq spent', guard'.run = guard.run, guard'.lease = guard.lease
  PROVE  Held'
  BY DEF IInv, Held, Locked

LEMMA KilledKept ==
  ASSUME IInv, NEW k \in Stop, kill'[k] = kill[k],
         \A s \in Session : run'[s].pc = run[s].pc /\ task'[s].lease = task[s].lease,
         flag => flag', GuardOpen' => GuardOpen
  PROVE  Killed(k)'
  BY DEF IInv, Killed

(* The thread of s, which holds the lock, goes on.                         *)
LEMMA ThreadMoves ==
  ASSUME IInv, NEW s \in Session, NEW x \in CallThread, run' = [run EXCEPT ![s] = x],
         run[s].pc \in Locked, UNCHANGED <<given, late, control, armCall, kill, revoke, flag>>,
         guard' \in [run : Lease0, lease : Lease0, revoked : BOOLEAN],
         SlotGrows,
         x.engine = "alive" => x.pc = "spawned", x.pc \in Locked \cup {"ended"},
         run[s].pc \in Found => x.pc \in Found,
         x.pc \in Locked \ {"begun"} => task[s].lease \in spent',
         x.pc \in {"armed", "spawned"} => guard'.run = s /\ guard'.lease = task[s].lease,
         x.pc = "spawned" => (run[s].pc = "spawned" /\ guard' = guard) \/ (~flag /\ ~StopLock)
  PROVE  IInv'
<1>1. /\ run'[s] = x /\ \A r \in Session \ {s} : run'[r] = run[r] /\ run[r].pc \notin Locked
      /\ UNCHANGED <<task, store, cur, sess, arming, stop, kill, flag, late>>
  BY LockIsOne DEF IInv, WellTyped, control
<1>2. WellTyped'
  BY DEF IInv, WellTyped, given, control, SlotGrows
<1>3. Issued'
  <2>1. OneEngine'
    BY <1>1 DEF IInv, Issued, OneEngine, Engines
  <2> QED
    BY <1>1, <2>1 DEF IInv, Issued, LeaseRunsOnce
<1>4. Once'
  BY <1>1 DEF IInv, Once, Locked
<1>5. Held'
  BY <1>1 DEF IInv, Held, Locked, SlotGrows
<1>6. ASSUME NEW k \in Stop PROVE Killed(k)'
  <2>1. Killed(k)
    BY DEF IInv
  <2>2. \A r \in Session : run[r].pc \in Found => run'[r].pc \in Found
    BY <1>1
  <2>3. ASSUME NEW r \in Session, kill[k].lease # 0, kill[k].lease = task[r].lease
        PROVE  /\ kill[k].pc = "ended" /\ run'[r].pc \in Locked => flag
               /\ kill[k].quiet /\ run'[r].pc = "spawned" => ~GuardOpen'
    <3>1. CASE r # s
      BY <1>1, <3>1 DEF Locked
    <3>2. CASE r = s
      <4>1. kill[k].pc = "ended" => flag
        BY <2>1, <2>3, <3>2 DEF Killed
      <4>2. ASSUME kill[k].quiet, x.pc = "spawned" PROVE ~GuardOpen'
        <5>1. kill[k].pc \in {"guarded", "ended"}
          BY <2>1, <4>2 DEF Killed
        <5>2. ~(~flag /\ ~StopLock)
          BY <4>1, <5>1 DEF StopLock
        <5>3. run[s].pc = "spawned" /\ guard' = guard
          BY <4>2, <5>2
        <5> QED
          BY <1>1, <2>1, <2>3, <3>2, <4>2, <5>3 DEF Killed, GuardOpen
      <4> QED
        BY <1>1, <3>2, <4>1, <4>2
    <3> QED
      BY <3>1, <3>2
  <2> QED
    BY <1>1, <2>1, <2>2, <2>3 DEF Killed
<1> QED
  BY <1>2, <1>3, <1>4, <1>5, <1>6 DEF IInv

-----------------------------------------------------------------------------
(* The runner's threads.                                                   *)

LEMMA RunBeginStep ==
  ASSUME IInv, NEW s \in Session, RunBegin(s) PROVE IInv'
<1>1. run[s] \in CallThread /\ run[s].pc = "sent" /\ run[s].engine # "alive" /\ task[s].lease # 0
  BY Typed DEF RunBegin, IInv, Issued, OneEngine, Engines, Once
<1>2. UNCHANGED <<given, late, control, armCall, kill, revoke, guard, slot, spent>>
  BY DEF RunBegin
<1>3. PICK x : /\ run' = [run EXCEPT ![s] = x] /\ x \in CallThread /\ x.pc \in {"begun", "ended"}
               /\ x.engine = run[s].engine
               /\ \/ x.pc = "ended" /\ flag' = flag
                  \/ ~Busy /\ flag' = FALSE
  <2>1. CASE Ended(s, "REJECTED") /\ UNCHANGED flag
    <3> DEFINE x == [run[s] EXCEPT !.pc = "ended", !.out = "REJECTED"]
    <3>1. x \in CallThread /\ x.pc = "ended" /\ x.engine = run[s].engine
      BY <1>1 DEF CallThread
    <3>2. run' = [run EXCEPT ![s] = x]
      BY <2>1 DEF Ended
    <3> QED
      BY <2>1, <3>1, <3>2
  <2>2. CASE ~Busy /\ At(s, "begun") /\ flag' = FALSE
    <3> DEFINE x == [run[s] EXCEPT !.pc = "begun"]
    <3>1. x \in CallThread /\ x.pc = "begun" /\ x.engine = run[s].engine
      BY <1>1 DEF CallThread, Locked
    <3>2. run' = [run EXCEPT ![s] = x]
      BY <2>2 DEF At
    <3> QED
      BY <2>2, <3>1, <3>2
  <2> QED
    BY <2>1, <2>2 DEF RunBegin
<1>4. /\ run'[s] = x /\ \A r \in Session \ {s} : run'[r] = run[r]
      /\ UNCHANGED <<task, store, cur, sess, arming, stop, kill, late, guard, spent>>
  BY <1>2, <1>3 DEF IInv, WellTyped, control
<1>5. x.pc = "begun" => \A r \in Session : run[r].pc \notin Locked
  BY <1>3 DEF Busy
<1>6. WellTyped'
  BY <1>2, <1>3 DEF IInv, WellTyped, given, control
<1>7. Issued'
  <2>1. OneEngine'
    BY <1>1, <1>3, <1>4, <1>5 DEF IInv, Issued, OneEngine, Engines, Locked
  <2> QED
    BY <1>4, <2>1 DEF IInv, Issued, LeaseRunsOnce
<1>8. Once'
  BY <1>1, <1>3, <1>4 DEF IInv, Once
<1>9. Held'
  BY <1>3, <1>4 DEF IInv, Held, Locked
<1>10. ASSUME NEW k \in Stop PROVE Killed(k)'
  <2>1. Killed(k) /\ (kill[k].lease # 0 /\ kill[k].lease = task[s].lease => FALSE)
    <3>1. Killed(k)
      BY DEF IInv
    <3>2. ASSUME kill[k].lease # 0, kill[k].lease = task[s].lease PROVE FALSE
      <4>1. PICK r \in Session : task[r].lease = kill[k].lease /\ run[r].pc \in Found
        BY <3>1, <3>2 DEF Killed
      <4>2. r = s
        BY <3>2, <4>1, LeaseIsOne
      <4> QED
        BY <1>1, <4>1, <4>2 DEF Found, Locked
    <3> QED
      BY <3>1, <3>2
  <2>2. \A r \in Session : run[r].pc \in Found => run'[r].pc \in Found
    BY <1>1, <1>4 DEF Found, Locked
  <2>3. \A r \in Session : kill[k].lease # 0 /\ kill[k].lease = task[r].lease =>
          r # s /\ run'[r] = run[r] /\ (run[r].pc \in Locked => flag' = flag)
    BY <1>3, <1>4, <1>5, <2>1 DEF Busy
  <2> QED
    BY <1>4, <2>1, <2>2, <2>3 DEF Killed, GuardOpen
<1> QED
  BY <1>6, <1>7, <1>8, <1>9, <1>10 DEF IInv

(* The thread of s holds the lock: what that says of it.                   *)
LEMMA Holder ==
  ASSUME IInv, NEW s \in Session, run[s].pc \in Locked
  PROVE  /\ run[s] \in CallThread /\ task[s].lease \in Session /\ task[s].lease # 0
         /\ run[s].engine = "alive" => run[s].pc = "spawned"
         /\ run[s].pc # "begun" => task[s].lease \in spent
         /\ run[s].pc \in {"armed", "spawned"} => guard.run = s /\ guard.lease = task[s].lease
         /\ guard \in [run : Lease0, lease : Lease0, revoked : BOOLEAN]
<1>1. task[s].lease # 0 /\ task[s].lease \in Lease0 /\ run[s] \in CallThread
  BY Typed DEF IInv, Once, Locked, Task
<1> QED
  BY <1>1, Typed DEF Lease0, IInv, Issued, OneEngine, Engines, Held

LEMMA RunConsumeStep ==
  ASSUME IInv, NEW s \in Session, RunConsume(s) PROVE IInv'
<1>1. run[s].pc = "begun" /\ run[s].pc \in Locked
  BY DEF RunConsume, Locked
<1>2. UNCHANGED <<given, late, control, armCall, kill, revoke, flag, guard>>
  BY DEF RunConsume
<1>3. /\ run[s] \in CallThread /\ task[s].lease \in Lease0 /\ task[s].lease # 0
      /\ run[s].engine # "alive" /\ guard \in [run : Lease0, lease : Lease0, revoked : BOOLEAN]
  BY <1>1, Holder DEF Lease0
<1>4. CASE Grant(task[s].lease) /\ At(s, "granted")
  <2> DEFINE x == [run[s] EXCEPT !.pc = "granted"]
  <2>1. x \in CallThread /\ x.pc = "granted" /\ x.engine = run[s].engine
    BY <1>3 DEF CallThread, Locked
  <2>2. run' = [run EXCEPT ![s] = x]
    BY <1>4 DEF At
  <2>3. SlotGrows /\ task[s].lease \in spent'
    BY <1>3, <1>4, SlotTyped
  <2> QED
    BY <1>1, <1>2, <1>3, <2>1, <2>2, <2>3, ThreadMoves DEF Locked, Found
<1>5. CASE Ended(s, "REJECTED") /\ (Burn(task[s].lease) \/ UNCHANGED <<slot, spent>>)
  <2> DEFINE x == [run[s] EXCEPT !.pc = "ended", !.out = "REJECTED"]
  <2>1. x \in CallThread /\ x.pc = "ended" /\ x.engine = run[s].engine
    BY <1>3 DEF CallThread
  <2>2. run' = [run EXCEPT ![s] = x]
    BY <1>5 DEF Ended
  <2>3. SlotGrows
    BY <1>3, <1>5, SlotTyped
  <2> QED
    BY <1>1, <1>2, <1>3, <2>1, <2>2, <2>3, ThreadMoves DEF Locked, Found
<1> QED
  BY <1>4, <1>5 DEF RunConsume

LEMMA RunTrackStep ==
  ASSUME IInv, NEW s \in Session, RunTrack(s) PROVE IInv'
<1>1. run[s].pc = "granted" /\ run[s].pc \in Locked
  BY DEF RunTrack, Locked
<1>2. UNCHANGED <<given, late, control, armCall, kill, revoke, flag, guard, slot, spent>>
  BY DEF RunTrack
<1>3. /\ run[s] \in CallThread /\ run[s].engine # "alive" /\ task[s].lease \in spent
      /\ guard \in [run : Lease0, lease : Lease0, revoked : BOOLEAN] /\ SlotGrows
  BY <1>1, <1>2, Holder, Typed DEF SlotGrows
<1> DEFINE x == [run[s] EXCEPT !.pc = "tracked"]
<1>4. x \in CallThread /\ x.pc = "tracked" /\ x.engine = run[s].engine
  BY <1>3 DEF CallThread, Locked
<1>5. run' = [run EXCEPT ![s] = x]
  BY DEF RunTrack, At
<1> QED
  BY <1>1, <1>2, <1>3, <1>4, <1>5, ThreadMoves DEF Locked, Found

LEMMA RunArmGuardStep ==
  ASSUME IInv, NEW s \in Session, RunArmGuard(s) PROVE IInv'
<1>1. run[s].pc = "tracked" /\ run[s].pc \in Locked /\ run[s].pc \in Found
  BY DEF RunArmGuard, Locked, Found
<1>2. UNCHANGED <<given, late, control, armCall, kill, revoke, flag, slot, spent>>
  BY DEF RunArmGuard
<1>3. /\ run[s] \in CallThread /\ run[s].engine # "alive" /\ task[s].lease \in spent
      /\ task[s].lease \in Lease0 /\ s \in Lease0
      /\ guard \in [run : Lease0, lease : Lease0, revoked : BOOLEAN] /\ SlotGrows
  BY <1>1, <1>2, Holder, Typed DEF SlotGrows, Lease0
<1>4. CASE guard' = [run |-> s, lease |-> task[s].lease, revoked |-> FALSE] /\ At(s, "armed")
  <2> DEFINE x == [run[s] EXCEPT !.pc = "armed"]
  <2>1. x \in CallThread /\ x.pc = "armed" /\ x.engine = run[s].engine
    BY <1>3 DEF CallThread, Locked
  <2>2. run' = [run EXCEPT ![s] = x]
    BY <1>4 DEF At
  <2>3. guard' \in [run : Lease0, lease : Lease0, revoked : BOOLEAN]
        /\ guard'.run = s /\ guard'.lease = task[s].lease
    BY <1>3, <1>4
  <2> QED
    BY <1>1, <1>2, <1>3, <2>1, <2>2, <2>3, ThreadMoves DEF Locked, Found
<1>5. CASE /\ run' = [run EXCEPT ![s].pc = "revoking", ![s].out = "FAILED"]
           /\ guard' \in {guard, [run |-> s, lease |-> task[s].lease, revoked |-> FALSE]}
  <2> DEFINE x == [run[s] EXCEPT !.pc = "revoking", !.out = "FAILED"]
  <2>1. x \in CallThread /\ x.pc = "revoking" /\ x.engine = run[s].engine
    BY <1>3 DEF CallThread, Locked
  <2>2. run' = [run EXCEPT ![s] = x]
    BY <1>5
  <2>3. guard' \in [run : Lease0, lease : Lease0, revoked : BOOLEAN]
    <3>1. [run |-> s, lease |-> task[s].lease, revoked |-> FALSE]
            \in [run : Lease0, lease : Lease0, revoked : BOOLEAN]
      BY <1>3
    <3> QED
      BY <1>3, <1>5, <3>1
  <2> QED
    BY <1>1, <1>2, <1>3, <2>1, <2>2, <2>3, ThreadMoves DEF Locked, Found
<1> QED
  BY <1>4, <1>5 DEF RunArmGuard

LEMMA RunSpawnStep ==
  ASSUME IInv, NEW s \in Session, RunSpawn(s) PROVE IInv'
<1>1. run[s].pc = "armed" /\ run[s].pc \in Locked /\ run[s].pc \in Found /\ ~StopLock
  BY DEF RunSpawn, Locked, Found
<1>2. UNCHANGED <<given, late, control, armCall, kill, revoke, flag, guard, slot, spent>>
  BY DEF RunSpawn
<1>3. /\ run[s] \in CallThread /\ run[s].engine # "alive" /\ task[s].lease \in spent
      /\ guard.run = s /\ guard.lease = task[s].lease
      /\ guard \in [run : Lease0, lease : Lease0, revoked : BOOLEAN] /\ SlotGrows
  BY <1>1, <1>2, Holder, Typed DEF SlotGrows, Lease0
<1>4. CASE \E out \in {"STOPPED", "FAILED"} : run' = [run EXCEPT ![s].pc = "closing", ![s].out = out]
  <2>1. PICK out \in {"STOPPED", "FAILED"} : run' = [run EXCEPT ![s].pc = "closing", ![s].out = out]
    BY <1>4
  <2> DEFINE x == [run[s] EXCEPT !.pc = "closing", !.out = out]
  <2>2. x \in CallThread /\ x.pc = "closing" /\ x.engine = run[s].engine
    <3>1. out \in {"NONE", "REJECTED", "FAILED", "STOPPED", "COMPLETED"}
      BY <2>1
    <3>2. "closing" \in {"idle", "sent", "ended"} \cup Locked
      BY DEF Locked
    <3> QED
      BY <1>3, <3>1, <3>2 DEF CallThread
  <2>3. run' = [run EXCEPT ![s] = x]
    BY <2>1
  <2> QED
    BY <1>1, <1>2, <1>3, <2>2, <2>3, ThreadMoves DEF Locked, Found
<1>5. CASE ~flag /\ run' = [run EXCEPT ![s].pc = "spawned", ![s].engine = "alive"]
  <2> DEFINE x == [run[s] EXCEPT !.pc = "spawned", !.engine = "alive"]
  <2>1. x \in CallThread /\ x.pc = "spawned" /\ x.engine = "alive"
    BY <1>3, ZenonT(60) DEF CallThread, Locked
  <2>2. run' = [run EXCEPT ![s] = x]
    BY <1>5
  <2> QED
    BY <1>1, <1>2, <1>3, <1>5, <2>1, <2>2, ThreadMoves, ZenonT(60) DEF Locked, Found
<1> QED
  BY <1>4, <1>5 DEF RunSpawn

LEMMA EngineStep ==
  ASSUME IInv, NEW s \in Session, EngineRequest(s) \/ EngineEnds(s) PROVE IInv'
<1>1. run[s].engine = "alive" /\ run[s].pc = "spawned" /\ run[s].pc \in Locked
  BY DEF EngineRequest, EngineEnds, IInv, Issued, OneEngine, Engines, Locked
<1>2. UNCHANGED <<given, late, control, armCall, kill, revoke, flag, guard, slot, spent>>
  BY DEF EngineRequest, EngineEnds
<1>3. /\ run[s] \in CallThread /\ task[s].lease \in spent
      /\ guard.run = s /\ guard.lease = task[s].lease
      /\ guard \in [run : Lease0, lease : Lease0, revoked : BOOLEAN] /\ SlotGrows
  BY <1>1, <1>2, Holder, Typed DEF SlotGrows, Lease0
<1>4. PICK x \in CallThread : run' = [run EXCEPT ![s] = x] /\ x.pc = "spawned"
  <2>1. CASE EngineRequest(s)
    <3>1. PICK t \in {"some", "refused", "cut"} : run' = [run EXCEPT ![s].traffic = t]
      BY <2>1 DEF EngineRequest
    <3>2. [run[s] EXCEPT !.traffic = t] \in CallThread /\ [run[s] EXCEPT !.traffic = t].pc = "spawned"
      BY <1>1, <1>3 DEF CallThread
    <3> QED
      BY <3>1, <3>2
  <2>2. CASE EngineEnds(s)
    <3>1. PICK e \in {"clean", "dead"} : run' = [run EXCEPT ![s].engine = e]
      BY <2>2 DEF EngineEnds
    <3>2. [run[s] EXCEPT !.engine = e] \in CallThread /\ [run[s] EXCEPT !.engine = e].pc = "spawned"
      BY <1>1, <1>3 DEF CallThread
    <3> QED
      BY <3>1, <3>2
  <2> QED
    BY <2>1, <2>2
<1> QED
  BY <1>1, <1>2, <1>3, <1>4, ThreadMoves DEF Locked, Found

LEMMA RunDisarmStep ==
  ASSUME IInv, NEW s \in Session, RunDisarm(s) PROVE IInv'
<1>1. run[s].pc = "spawned" /\ run[s].pc \in Locked /\ run[s].engine # "alive"
  BY DEF RunDisarm, Locked
<1>2. UNCHANGED <<given, late, control, armCall, kill, revoke, flag, slot, spent>>
  BY DEF RunDisarm
<1>3. /\ run[s] \in CallThread /\ task[s].lease \in spent /\ SlotGrows
      /\ guard' \in [run : Lease0, lease : Lease0, revoked : BOOLEAN]
  BY <1>1, <1>2, Holder, Typed, GuardTyped DEF SlotGrows, RunDisarm
<1>4. PICK x \in CallThread : run' = [run EXCEPT ![s] = x] /\ x.pc = "disarmed" /\ x.engine # "alive"
  <2> DEFINE x1 == [run[s] EXCEPT !.pc = "disarmed"]
             x2 == [run[s] EXCEPT !.pc = "disarmed", !.engine = "dead"]
  <2>1. /\ x1 \in CallThread /\ x1.pc = "disarmed" /\ x1.engine # "alive"
        /\ x2 \in CallThread /\ x2.pc = "disarmed" /\ x2.engine # "alive"
    BY <1>1, <1>3 DEF CallThread, Locked
  <2>2. run' = [run EXCEPT ![s] = x1] \/ run' = [run EXCEPT ![s] = x2]
    BY DEF RunDisarm, At
  <2> QED
    BY <2>1, <2>2
<1> QED
  BY <1>1, <1>2, <1>3, <1>4, ThreadMoves DEF Locked, Found

LEMMA RunClassifyStep ==
  ASSUME IInv, NEW s \in Session, RunClassify(s) PROVE IInv'
<1>1. run[s].pc = "disarmed" /\ run[s].pc \in Locked
  BY DEF RunClassify, Locked
<1>2. UNCHANGED <<given, late, control, armCall, kill, revoke, flag, guard, slot, spent>>
  BY DEF RunClassify
<1>3. /\ run[s] \in CallThread /\ run[s].engine # "alive" /\ task[s].lease \in spent /\ SlotGrows
      /\ guard \in [run : Lease0, lease : Lease0, revoked : BOOLEAN]
  BY <1>1, <1>2, Holder, Typed DEF SlotGrows
<1>4. PICK out \in {"STOPPED", "FAILED", "COMPLETED"} :
        run' = [run EXCEPT ![s].pc = "closing", ![s].out = out]
  BY DEF RunClassify
<1> DEFINE x == [run[s] EXCEPT !.pc = "closing", !.out = out]
<1>5. x \in CallThread /\ x.pc = "closing" /\ x.engine = run[s].engine
  <2>1. out \in {"NONE", "REJECTED", "FAILED", "STOPPED", "COMPLETED"}
    BY <1>4
  <2>2. "closing" \in {"idle", "sent", "ended"} \cup Locked
    BY DEF Locked
  <2> QED
    BY <1>3, <2>1, <2>2 DEF CallThread
<1>6. run' = [run EXCEPT ![s] = x]
  BY <1>4
<1> QED
  BY <1>1, <1>2, <1>3, <1>5, <1>6, ThreadMoves DEF Locked, Found

LEMMA RunCloseStep ==
  ASSUME IInv, NEW s \in Session, RunClose(s) PROVE IInv'
<1>1. run[s].pc = "closing" /\ run[s].pc \in Locked
  BY DEF RunClose, Locked
<1>2. UNCHANGED <<given, late, control, armCall, kill, revoke, flag, slot, spent>>
  BY DEF RunClose
<1>3. /\ run[s] \in CallThread /\ run[s].engine # "alive" /\ task[s].lease \in spent /\ SlotGrows
      /\ guard' \in [run : Lease0, lease : Lease0, revoked : BOOLEAN]
  BY <1>1, <1>2, Holder, Typed, GuardTyped DEF SlotGrows, RunClose
<1> DEFINE x == [run[s] EXCEPT !.pc = "revoking"]
<1>4. x \in CallThread /\ x.pc = "revoking" /\ x.engine = run[s].engine
  BY <1>3 DEF CallThread, Locked
<1>5. run' = [run EXCEPT ![s] = x]
  BY DEF RunClose, At
<1> QED
  BY <1>1, <1>2, <1>3, <1>4, <1>5, ThreadMoves DEF Locked, Found

LEMMA RunEndStep ==
  ASSUME IInv, NEW s \in Session, RunEnd(s) PROVE IInv'
<1>1. run[s].pc = "revoking" /\ run[s].pc \in Locked
  BY DEF RunEnd, Locked
<1>2. UNCHANGED <<given, late, control, armCall, kill, revoke, flag, guard>>
  BY DEF RunEnd
<1>3. /\ run[s] \in CallThread /\ run[s].engine # "alive" /\ task[s].lease \in Lease0
      /\ guard \in [run : Lease0, lease : Lease0, revoked : BOOLEAN]
  BY <1>1, Holder DEF Lease0
<1>4. SlotGrows
  BY <1>3, SlotTyped DEF RunEnd
<1> DEFINE x == [run[s] EXCEPT !.pc = "ended"]
<1>5. x \in CallThread /\ x.pc = "ended" /\ x.engine = run[s].engine
  BY <1>3 DEF CallThread
<1>6. run' = [run EXCEPT ![s] = x]
  BY DEF RunEnd, At
<1> QED
  BY <1>1, <1>2, <1>3, <1>4, <1>5, <1>6, ThreadMoves DEF Locked, Found

-----------------------------------------------------------------------------
(* The controller.                                                         *)

LEMMA ControlMoves ==
  ASSUME IInv, UNCHANGED <<given, late, run, kill, flag, guard>>, SlotGrows,
         \A s \in Session : task'[s].lease = task[s].lease,
         WellTyped', Issued', Once'
  PROVE  IInv'
<1>1. Held'
  BY HeldKept DEF SlotGrows
<1>2. GuardOpen' => GuardOpen
  BY DEF GuardOpen
<1>3. ASSUME NEW k \in Stop PROVE Killed(k)'
  BY <1>2, KilledKept
<1> QED
  BY <1>1, <1>3 DEF IInv

(* What stays of the slot.                                                 *)
LEMMA SlotStays == ASSUME IInv, UNCHANGED <<slot, spent>> PROVE SlotGrows
  BY Typed DEF SlotGrows

LEMMA ActivateStep ==
  ASSUME IInv, NEW s \in Session, Activate(s) PROVE IInv'
<1>1. /\ s = cur + 1 /\ cur' = s /\ arming = 0 /\ cur \in Nat /\ s \in Lease0 /\ s # 0
      /\ UNCHANGED <<given, late, task, stop, run, kill, revoke, flag, guard, slot, spent>>
  BY Typed, Numbers DEF Activate
<1>2. PICK st \in {"FAILED", "IDLE"} : Touch(s, st)
  BY DEF Activate
<1>3. /\ sess' \in [Lease0 -> States] /\ \A r \in Lease0 \ {s} : sess'[r] = sess[r]
      /\ sess'[s] \in {"STOPPED", "FAILED", "IDLE"}
  BY <1>1, <1>2, Touched DEF States
<1>4. \/ UNCHANGED <<leased, store, arming, armCall>>
      \/ /\ store' = [lease |-> s, state |-> "ISSUED"] /\ leased' = leased \cup {s}
         /\ arming' = s /\ armCall' = [armCall EXCEPT ![s] = "sent"]
  BY DEF Activate
<1>5. WellTyped'
  <2>1. store' \in [lease : Lease0, state : {"NONE", "ISSUED", "CONSUMED", "EXPIRED", "REVOKED", "COMPLETED"}]
    BY <1>1, <1>4 DEF IInv, WellTyped
  <2>2. leased' \in SUBSET Session /\ arming' \in Lease0
    BY <1>1, <1>4 DEF IInv, WellTyped
  <2>3. armCall' \in [Session -> {"idle", "sent", "armed", "refused"}]
    BY <1>4 DEF IInv, WellTyped
  <2> QED
    BY <1>1, <1>3, <2>1, <2>2, <2>3 DEF IInv, WellTyped, given
<1>6. Issued'
  <2>1. \A r \in Session : task[r].lease <= s /\ task[r].lease # s
    <3> TAKE r \in Session
    <3>1. task[r].lease \in Lease0 /\ task[r].lease <= cur
      BY Typed DEF IInv, Issued, Task
    <3>2. task[r].lease \in Nat
      BY <3>1, Numbers
    <3> QED
      BY <1>1, <3>1, <3>2
  <2>2. store.lease \in Nat /\ store'.lease <= s
    BY <1>1, <1>4, Typed, Numbers DEF IInv, Issued
  <2>3. store'.state = "ISSUED" =>
          store'.lease # 0 /\ \A r \in Session : task[r].lease # store'.lease
    BY <1>1, <1>4, <2>1 DEF IInv, Issued
  <2>4. \A r \in Session : task[r].lease <= s
    BY <2>1
  <2>5. OneEngine' /\ LeaseRunsOnce'
    BY <1>1 DEF IInv, Issued, OneEngine, LeaseRunsOnce, Engines
  <2> QED
    BY <1>1, <2>2, <2>3, <2>4, <2>5 DEF Issued
<1>7. Once'
  <2>1. arming' \in {0, s}
    BY <1>1, <1>4
  <2>2. \A r \in Session : r \in Nat /\ (r > s => r > cur /\ r # s) /\ (r # s => r \in Lease0 \ {s})
    BY <1>1, Numbers
  <2>3. sess[s] = "NONE" /\ task[s].pc = "idle"
    BY <1>1 DEF IInv, Once
  <2>4. \A k \in Stop : stop[k].session \in Nat /\ stop[k].session <= s
    <3>1. \A k \in Stop : stop[k].session \in Lease0
      BY DEF IInv, WellTyped
    <3> QED
      BY <1>1, <3>1, Numbers DEF IInv, Once
  <2>5. \A r \in Session :
          /\ r > s => sess'[r] = "NONE" /\ task'[r].pc = "idle"
          /\ arming' = r => sess'[r] # "ARMED"
          /\ arming' = r \/ sess'[r] = "ARMED" => task'[r].pc = "idle"
    <3> TAKE r \in Session
    <3>1. CASE r = s
      BY <1>1, <1>3, <2>3, <3>1
    <3>2. CASE r # s
      BY <1>1, <1>3, <2>1, <2>2, <3>2, Numbers DEF IInv, Once
    <3> QED
      BY <3>1, <3>2
  <2>6. \A r \in Session :
          /\ task'[r].pc \in {"idle", "starting"} => run'[r].pc = "idle"
          /\ run'[r].pc # "idle" => task'[r].lease # 0
    BY <1>1 DEF IInv, Once
  <2>7. arming' <= s
    BY <1>1, <2>1
  <2> QED
    BY <1>1, <2>4, <2>5, <2>6, <2>7 DEF IInv, Once
<1>8. SlotGrows
  BY <1>1, SlotStays
<1> QED
  BY <1>1, <1>5, <1>6, <1>7, <1>8, ControlMoves

LEMMA ArmAtRegistryStep ==
  ASSUME IInv, NEW s \in Session, ArmAtRegistry(s) PROVE IInv'
<1>1. UNCHANGED <<given, late, control, run, kill, revoke, flag, guard>>
  BY DEF ArmAtRegistry
<1>2. armCall' \in [Session -> {"idle", "sent", "armed", "refused"}]
  BY DEF ArmAtRegistry, IInv, WellTyped
<1>3. SlotGrows
  BY SlotTyped, Numbers DEF ArmAtRegistry
<1>4. WellTyped'
  BY <1>1, <1>2, <1>3 DEF IInv, WellTyped, given, control, SlotGrows
<1>5. Issued'
  BY <1>1, IssuedKept DEF control
<1>6. Once'
  BY <1>1, OnceKept DEF control
<1> QED
  BY <1>1, <1>3, <1>4, <1>5, <1>6, ControlMoves DEF control

LEMMA ArmedStep ==
  ASSUME IInv, NEW s \in Session, Armed(s) PROVE IInv'
<1>1. /\ arming = s /\ arming' = 0 /\ Touch(s, "ARMED") /\ s \in Lease0 /\ s # 0
      /\ UNCHANGED <<given, late, cur, leased, store, task, stop, threads, guard, slot, spent>>
  BY Numbers DEF Armed
<1>2. /\ sess' \in [Lease0 -> States] /\ \A r \in Lease0 \ {s} : sess'[r] = sess[r]
  BY <1>1, Touched DEF States
<1>3. WellTyped'
  BY <1>1, <1>2, Numbers DEF IInv, WellTyped, given, threads
<1>4. Issued'
  BY <1>1, IssuedKept DEF threads
<1>5. Once'
  <2>1. \A r \in Session : r # s => r \in Lease0 \ {s}
    BY Numbers
  <2>2. s <= cur /\ s \in Nat /\ cur \in Nat /\ task[s].pc = "idle"
    BY <1>1, Typed, Numbers DEF IInv, Once
  <2>3. 0 <= cur /\ \A r \in Session : r > cur => r # s
    BY <2>2
  <2> QED
    BY <1>1, <1>2, <2>1, <2>2, <2>3, Numbers DEF IInv, Once, threads
<1>6. SlotGrows
  BY <1>1, SlotStays
<1> QED
  BY <1>1, <1>3, <1>4, <1>5, <1>6, ControlMoves DEF threads

LEMMA ArmFailedStep ==
  ASSUME IInv, NEW s \in Session, ArmFailed(s) PROVE IInv'
<1>1. /\ arming = s /\ arming' = 0 /\ Touch(s, "FAILED") /\ s \in Lease0 /\ s # 0
      /\ store' = Terminated(s, "REVOKED")
      /\ UNCHANGED <<given, late, cur, leased, task, stop, threads, guard, slot, spent>>
  BY Numbers DEF ArmFailed
<1>2. /\ sess' \in [Lease0 -> States] /\ \A r \in Lease0 \ {s} : sess'[r] = sess[r]
      /\ sess'[s] # "ARMED"
  BY <1>1, Touched DEF States
<1>3. /\ store' \in [lease : Lease0, state : {"NONE", "ISSUED", "CONSUMED", "EXPIRED", "REVOKED", "COMPLETED"}]
      /\ store'.lease = store.lease /\ (store'.state = "ISSUED" => store.state = "ISSUED")
  BY <1>1, StoreTyped
<1>4. WellTyped'
  BY <1>1, <1>2, <1>3, Numbers DEF IInv, WellTyped, given, threads
<1>5. Issued'
  BY <1>1, <1>3, IssuedKept DEF threads
<1>6. Once'
  <2>1. \A r \in Session : r # s => r \in Lease0 \ {s}
    BY Numbers
  <2>2. s <= cur /\ s \in Nat /\ cur \in Nat
    BY <1>1, Typed, Numbers DEF IInv, Once
  <2>3. 0 <= cur /\ \A r \in Session : r > cur => r # s
    BY <2>2
  <2> QED
    BY <1>1, <1>2, <2>1, <2>2, <2>3, Numbers DEF IInv, Once, threads
<1>7. SlotGrows
  BY <1>1, SlotStays
<1> QED
  BY <1>1, <1>4, <1>5, <1>6, <1>7, ControlMoves DEF threads


LEMMA ExecuteStep ==
  ASSUME IInv, NEW s \in Session, Execute(s) PROVE IInv'
<1>1. /\ s = cur /\ sess[s] = "ARMED" /\ Touch(s, "RUNNING") /\ s \in Lease0
      /\ task' = [task EXCEPT ![s].pc = "starting"]
      /\ UNCHANGED <<given, late, cur, leased, store, arming, stop, threads, guard, slot, spent>>
  BY Numbers DEF Execute
<1>2. /\ sess' \in [Lease0 -> States] /\ \A r \in Lease0 \ {s} : sess'[r] = sess[r]
      /\ sess'[s] # "ARMED"
  BY <1>1, Touched DEF States
<1>3. task[s].pc = "idle" /\ arming # s /\ run[s].pc = "idle"
  BY <1>1 DEF IInv, Once
<1>4. /\ task' \in [Session -> Task] /\ task'[s].pc = "starting" /\ task'[s].lease = task[s].lease
      /\ \A r \in Session \ {s} : task'[r] = task[r]
  <2>1. [task[s] EXCEPT !.pc = "starting"] \in Task
    BY Typed DEF Task
  <2> QED
    BY <1>1, <2>1, Typed DEF IInv, WellTyped, Task
<1>5. WellTyped'
  BY <1>1, <1>2, <1>4 DEF IInv, WellTyped, given, threads
<1>6. Issued'
  BY <1>1, <1>4, IssuedKept DEF threads
<1>7. Once'
  <2>1. \A r \in Session : r # s => r \in Lease0 \ {s}
    BY Numbers
  <2>2. ~(s > cur)
    BY <1>1, Typed
  <2> QED
    BY <1>1, <1>2, <1>3, <1>4, <2>1, <2>2 DEF IInv, Once, threads
<1>8. SlotGrows
  BY <1>1, SlotStays
<1> QED
  BY <1>1, <1>4, <1>5, <1>6, <1>7, <1>8, ControlMoves DEF threads

(* The task of s goes on without a lease or a call to the runner.          *)
LEMMA TaskMoves ==
  ASSUME IInv, NEW s \in Session, NEW x \in Task, task' = [task EXCEPT ![s] = x],
         x.lease = task[s].lease, x.pc \in {"closing", "finishing", "ended"},
         task[s].pc # "idle",
         UNCHANGED <<given, late, cur, leased, arming, stop, armCall, run, kill, flag, guard,
                     slot, spent>>,
         revoke' \in [Session \cup Stop -> {"idle", "sent", "half", "ended"}],
         store' \in [lease : Lease0, state : {"NONE", "ISSUED", "CONSUMED", "EXPIRED", "REVOKED", "COMPLETED"}],
         store'.lease = store.lease, store'.state = "ISSUED" => store.state = "ISSUED",
         sess' \in [Lease0 -> States], \A r \in Lease0 \ {s} : sess'[r] = sess[r],
         sess'[s] = "ARMED" => sess[s] = "ARMED"
  PROVE  IInv'
<1>1. task'[s] = x /\ \A r \in Session \ {s} : task'[r] = task[r]
  BY DEF IInv, WellTyped
<1>2. WellTyped'
  BY DEF IInv, WellTyped, given
<1>3. Issued'
  BY <1>1, IssuedKept
<1>4. Once'
  <2>1. \A r \in Session : r # s => r \in Lease0 \ {s}
    BY Numbers
  <2>2. ~(s > cur) /\ arming # s /\ sess[s] # "ARMED"
    BY DEF IInv, Once
  <2> QED
    BY <1>1, <2>1, <2>2 DEF IInv, Once
<1>5. SlotGrows
  BY SlotStays
<1> QED
  BY <1>1, <1>2, <1>3, <1>4, <1>5, ControlMoves

LEMMA StartStep ==
  ASSUME IInv, NEW s \in Session, Start(s) PROVE IInv'
<1>1. /\ task[s].pc = "starting" /\ run[s].pc = "idle" /\ task[s] \in Task /\ run[s] \in CallThread
      /\ UNCHANGED <<given, late, cur, sess, leased, arming, stop, armCall, kill, revoke, flag,
                     guard, slot, spent>>
  BY Typed DEF Start, IInv, Once
<1>2. CASE /\ task' = [task EXCEPT ![s].pc = "finishing", ![s].result = "FAILED"]
           /\ store' \in {store, Fresh} /\ UNCHANGED run
  <2> DEFINE x == [task[s] EXCEPT !.pc = "finishing", !.result = "FAILED"]
  <2>1. x \in Task /\ x.pc = "finishing" /\ x.lease = task[s].lease
    BY <1>1 DEF Task
  <2>2. task' = [task EXCEPT ![s] = x]
    BY <1>2
  <2>3. /\ store' \in [lease : Lease0, state : {"NONE", "ISSUED", "CONSUMED", "EXPIRED", "REVOKED", "COMPLETED"}]
        /\ store'.lease = store.lease /\ (store'.state = "ISSUED" => store.state = "ISSUED")
    BY <1>2, Typed, StoreTyped
  <2>4. /\ revoke' \in [Session \cup Stop -> {"idle", "sent", "half", "ended"}]
        /\ sess' \in [Lease0 -> States] /\ UNCHANGED <<sess, run>>
    BY <1>1, <1>2 DEF IInv, WellTyped
  <2> HIDE DEF x
  <2> QED
    BY <1>1, <2>1, <2>2, <2>3, <2>4, TaskMoves
<1>3. CASE /\ Consumable(Fresh, s) /\ store' = [Fresh EXCEPT !.state = "CONSUMED"]
           /\ task' = [task EXCEPT ![s].pc = "running", ![s].lease = store.lease]
           /\ At(s, "sent")
  <2>1. /\ store.state = "ISSUED" /\ store.lease # 0 /\ store.lease \in Lease0 /\ store.lease <= cur
        /\ \A r \in Session : task[r].lease # store.lease
    BY <1>3, Typed, StoreTyped DEF Consumable, IInv, Issued
  <2> DEFINE x == [task[s] EXCEPT !.pc = "running", !.lease = store.lease]
             y == [run[s] EXCEPT !.pc = "sent"]
  <2>2. x \in Task /\ x.pc = "running" /\ x.lease = store.lease
    BY <1>1, <2>1 DEF Task
  <2>3. y \in CallThread /\ y.pc = "sent" /\ y.engine = run[s].engine
    BY <1>1 DEF CallThread
  <2>4. task' = [task EXCEPT ![s] = x] /\ run' = [run EXCEPT ![s] = y]
    BY <1>3 DEF At
  <2> HIDE DEF x, y
  <2>5. /\ task'[s] = x /\ \A r \in Session \ {s} : task'[r] = task[r]
        /\ run'[s] = y /\ \A r \in Session \ {s} : run'[r] = run[r]
        /\ task' \in [Session -> Task] /\ run' \in [Session -> CallThread]
    BY <2>2, <2>3, <2>4 DEF IInv, WellTyped
  <2>6. /\ store' \in [lease : Lease0, state : {"NONE", "ISSUED", "CONSUMED", "EXPIRED", "REVOKED", "COMPLETED"}]
        /\ store'.lease = store.lease /\ store'.state = "CONSUMED"
    <3>1. Fresh \in [lease : Lease0, state : {"NONE", "ISSUED", "CONSUMED", "EXPIRED", "REVOKED", "COMPLETED"}]
          /\ Fresh.lease = store.lease
      BY StoreTyped
    <3> QED
      BY <1>3, <3>1
  <2>7. WellTyped'
    BY <1>1, <2>5, <2>6 DEF IInv, WellTyped, given
  <2>8. Issued'
    <3>1. run[s].engine # "alive"
      BY <1>1 DEF IInv, Issued, OneEngine, Engines
    <3>2. OneEngine'
      BY <1>1, <2>3, <2>5, <3>1 DEF IInv, Issued, OneEngine, Engines, Locked
    <3>3. LeaseRunsOnce'
      BY <2>1, <2>2, <2>5 DEF IInv, Issued, LeaseRunsOnce
    <3> QED
      BY <1>1, <2>1, <2>2, <2>5, <2>6, <3>2, <3>3 DEF IInv, Issued
  <2>9. Once'
    BY <1>1, <2>1, <2>2, <2>3, <2>5 DEF IInv, Once
  <2>10. Held'
    BY <1>1, <2>3, <2>5 DEF IInv, Held, Locked
  <2>11. ASSUME NEW k \in Stop PROVE Killed(k)'
    <3>1. Killed(k) /\ kill'[k] = kill[k]
      BY <1>1 DEF IInv
    <3>2. kill[k].lease # 0 => \E r \in Session \ {s} : task[r].lease = kill[k].lease /\ run[r].pc \in Found
      BY <1>1, <3>1 DEF Killed, Found, Locked
    <3>3. kill[k].lease # 0 => kill[k].lease # store.lease
      BY <2>1, <3>2
    <3> QED
      BY <1>1, <2>2, <2>5, <3>1, <3>2, <3>3 DEF Killed, GuardOpen
  <2> QED
    BY <2>7, <2>8, <2>9, <2>10, <2>11 DEF IInv
<1> QED
  BY <1>2, <1>3 DEF Start

LEMMA RunAnsweredStep ==
  ASSUME IInv, NEW s \in Session, RunAnswered(s) PROVE IInv'
<1>1. /\ task[s].pc = "running" /\ task[s] \in Task
      /\ UNCHANGED <<given, late, cur, sess, leased, arming, stop, armCall, run, kill, flag,
                     guard, slot, spent>>
  BY Typed DEF RunAnswered
<1>2. /\ store' \in [lease : Lease0, state : {"NONE", "ISSUED", "CONSUMED", "EXPIRED", "REVOKED", "COMPLETED"}]
      /\ store'.lease = store.lease /\ (store'.state = "ISSUED" => store.state = "ISSUED")
  <2>1. PICK st \in {"REVOKED", "COMPLETED"} : store' = Terminated(task[s].lease, st)
    BY DEF RunAnswered
  <2> QED
    BY <2>1, StoreTyped
<1>3. revoke' \in [Session \cup Stop -> {"idle", "sent", "half", "ended"}]
  BY DEF RunAnswered, IInv, WellTyped
<1>4. PICK pc \in {"closing", "finishing"}, res \in {"FAILED", "STOPPED", "COMPLETED"} :
        task' = [task EXCEPT ![s].pc = pc, ![s].result = res]
  <2>1. run[s].out \in {"STOPPED", "COMPLETED"} => run[s].out \in {"FAILED", "STOPPED", "COMPLETED"}
    OBVIOUS
  <2> QED
    BY <2>1 DEF RunAnswered
<1> DEFINE x == [task[s] EXCEPT !.pc = pc, !.result = res]
<1>5. x \in Task /\ x.pc \in {"closing", "finishing"} /\ x.lease = task[s].lease
  <2>1. pc \in {"idle", "starting", "running", "closing", "finishing", "ended"}
        /\ res \in {"NONE", "FAILED", "STOPPED", "COMPLETED"}
    BY <1>4
  <2> QED
    BY <1>1, <1>4, <2>1 DEF Task
<1>6. task' = [task EXCEPT ![s] = x]
  BY <1>4
<1> HIDE DEF x
<1> QED
  BY <1>1, <1>2, <1>3, <1>5, <1>6, TaskMoves DEF IInv, WellTyped

LEMMA ClosedStep ==
  ASSUME IInv, NEW s \in Session, Closed(s) PROVE IInv'
<1>1. /\ task[s].pc = "closing" /\ task[s] \in Task
      /\ UNCHANGED <<given, late, cur, sess, leased, store, arming, stop, threads, guard, slot, spent>>
  BY Typed DEF Closed
<1> DEFINE x == [task[s] EXCEPT !.pc = "finishing"]
<1>2. x \in Task /\ x.pc = "finishing" /\ x.lease = task[s].lease
  BY <1>1 DEF Task
<1>3. task' = [task EXCEPT ![s] = x]
  BY DEF Closed
<1> HIDE DEF x
<1> QED
  BY <1>1, <1>2, <1>3, TaskMoves DEF IInv, WellTyped, threads

LEMMA FinishStep ==
  ASSUME IInv, NEW s \in Session, Finish(s) PROVE IInv'
<1>1. /\ task[s].pc = "finishing" /\ task[s] \in Task /\ Touch(s, task[s].result) /\ s \in Lease0
      /\ UNCHANGED <<given, late, cur, leased, store, arming, stop, threads, guard, slot, spent>>
  BY Typed, Numbers DEF Finish
<1>2. task[s].result \in States \ {"ARMED"}
  BY <1>1 DEF Task, States
<1>3. /\ sess' \in [Lease0 -> States] /\ \A r \in Lease0 \ {s} : sess'[r] = sess[r]
      /\ sess'[s] # "ARMED"
  BY <1>1, <1>2, Touched
<1> DEFINE x == [task[s] EXCEPT !.pc = "ended"]
<1>4. x \in Task /\ x.pc = "ended" /\ x.lease = task[s].lease
  BY <1>1 DEF Task
<1>5. task' = [task EXCEPT ![s] = x]
  BY DEF Finish
<1> HIDE DEF x
<1> QED
  BY <1>1, <1>3, <1>4, <1>5, TaskMoves DEF IInv, WellTyped, threads


(* Only the presses and the sessions they end move.                        *)
LEMMA StopMoves ==
  ASSUME IInv,
         UNCHANGED <<given, late, cur, leased, arming, task, armCall, run, kill, flag, guard,
                     slot, spent>>,
         stop' \in [Stop -> [pc : {"idle", "stopping", "revoking", "ended"}, session : Lease0]],
         \A k \in Stop : stop'[k].session = stop[k].session /\ (stop'[k].pc = "idle" => stop[k].pc = "idle"),
         revoke' \in [Session \cup Stop -> {"idle", "sent", "half", "ended"}],
         store' \in [lease : Lease0, state : {"NONE", "ISSUED", "CONSUMED", "EXPIRED", "REVOKED", "COMPLETED"}],
         store'.lease = store.lease, store'.state = "ISSUED" => store.state = "ISSUED",
         sess' \in [Lease0 -> States],
         \A r \in Lease0 : sess'[r] = sess[r] \/ (r <= cur /\ sess'[r] = "STOPPED")
  PROVE  IInv'
<1>1. WellTyped'
  BY DEF IInv, WellTyped, given
<1>2. Issued'
  BY IssuedKept
<1>3. Once'
  <2>1. \A r \in Session : r \in Lease0 /\ r \in Nat /\ cur \in Nat
    BY Numbers, Typed
  <2>2. \A r \in Session : r > cur => sess'[r] = sess[r]
    BY <2>1
  <2> QED
    BY <2>1, <2>2 DEF IInv, Once
<1>4. SlotGrows
  BY SlotStays
<1> QED
  BY <1>1, <1>2, <1>3, <1>4, ControlMoves

LEMMA RunnerStoppedStep ==
  ASSUME IInv, NEW k \in Stop, RunnerStopped(k) PROVE IInv'
<1>1. /\ UNCHANGED <<given, late, cur, leased, arming, task, armCall, run, kill, flag, guard,
                     slot, spent>>
      /\ stop[k].pc = "stopping"
      /\ stop[k] \in [pc : {"idle", "stopping", "revoking", "ended"}, session : Lease0]
      /\ stop[k].session <= cur
  BY DEF RunnerStopped, IInv, WellTyped, Once
<1>2. PICK pc \in {"revoking", "ended"} : stop' = [stop EXCEPT ![k].pc = pc]
  BY DEF RunnerStopped
<1>3. /\ stop' \in [Stop -> [pc : {"idle", "stopping", "revoking", "ended"}, session : Lease0]]
      /\ \A q \in Stop : stop'[q].session = stop[q].session /\ (stop'[q].pc = "idle" => stop[q].pc = "idle")
  <2> DEFINE x == [stop[k] EXCEPT !.pc = pc]
  <2>1. pc \in {"idle", "stopping", "revoking", "ended"}
    BY <1>2
  <2>2. x \in [pc : {"idle", "stopping", "revoking", "ended"}, session : Lease0]
        /\ x.pc # "idle" /\ x.session = stop[k].session
    BY <1>1, <1>2, <2>1
  <2>3. stop' = [stop EXCEPT ![k] = x]
    BY <1>2
  <2> HIDE DEF x
  <2> QED
    BY <2>2, <2>3 DEF IInv, WellTyped
<1>4. CASE UNCHANGED sess /\ store' = Terminated(store.lease, "REVOKED")
           /\ revoke' = [revoke EXCEPT ![k] = "sent"]
  <2>1. /\ revoke' \in [Session \cup Stop -> {"idle", "sent", "half", "ended"}]
        /\ sess' \in [Lease0 -> States]
    BY <1>4 DEF IInv, WellTyped
  <2>2. /\ store' \in [lease : Lease0, state : {"NONE", "ISSUED", "CONSUMED", "EXPIRED", "REVOKED", "COMPLETED"}]
        /\ store'.lease = store.lease /\ (store'.state = "ISSUED" => store.state = "ISSUED")
    BY <1>4, StoreTyped
  <2> QED
    BY <1>1, <1>3, <1>4, <2>1, <2>2, StopMoves
<1>5. CASE Touch(stop[k].session, "STOPPED") /\ UNCHANGED <<store, revoke>>
  <2>1. /\ sess' \in [Lease0 -> States]
        /\ \A r \in Lease0 : sess'[r] = sess[r] \/ (r <= cur /\ sess'[r] = "STOPPED")
    BY <1>1, <1>5, Touched DEF States
  <2> QED
    BY <1>1, <1>3, <1>5, <2>1, StopMoves DEF IInv, WellTyped
<1> QED
  BY <1>4, <1>5 DEF RunnerStopped

LEMMA StoppedStep ==
  ASSUME IInv, NEW k \in Stop, Stopped(k) PROVE IInv'
<1>1. /\ UNCHANGED <<given, late, cur, leased, store, arming, task, threads, guard, slot, spent>>
      /\ stop[k].pc = "revoking" /\ Touch(stop[k].session, "STOPPED")
      /\ stop[k] \in [pc : {"idle", "stopping", "revoking", "ended"}, session : Lease0]
      /\ stop[k].session <= cur /\ stop' = [stop EXCEPT ![k].pc = "ended"]
  BY DEF Stopped, IInv, WellTyped, Once
<1>2. /\ stop' \in [Stop -> [pc : {"idle", "stopping", "revoking", "ended"}, session : Lease0]]
      /\ \A q \in Stop : stop'[q].session = stop[q].session /\ (stop'[q].pc = "idle" => stop[q].pc = "idle")
  BY <1>1 DEF IInv, WellTyped
<1>3. /\ sess' \in [Lease0 -> States]
      /\ \A r \in Lease0 : sess'[r] = sess[r] \/ (r <= cur /\ sess'[r] = "STOPPED")
  BY <1>1, Touched DEF States
<1> QED
  BY <1>1, <1>2, <1>3, StopMoves DEF IInv, WellTyped, threads

LEMMA ControllerRestartStep ==
  ASSUME IInv, ControllerRestart PROVE IInv'
<1>1. /\ sess' = [s \in 0..MaxSession |-> IF s \in 1..cur THEN "GONE" ELSE sess[s]]
      /\ store' = [lease |-> 0, state |-> "NONE"] /\ leased' = {} /\ arming' = 0
      /\ task' = [s \in Session |-> IF task[s].pc = "idle" THEN task[s]
                                    ELSE [task[s] EXCEPT !.pc = "ended"]]
      /\ stop' = [k \in Stop |-> IF stop[k].pc = "idle" THEN stop[k]
                                 ELSE [stop[k] EXCEPT !.pc = "ended"]]
      /\ UNCHANGED <<given, late, cur, threads, guard, slot, spent>>
  BY DEF ControllerRestart
<1>2. sess' \in [Lease0 -> States] /\ \A r \in Session : r \in 1..cur \/ (r > cur /\ sess'[r] = sess[r])
  <2>1. \A r \in Session : r \in Nat /\ 1 <= r /\ cur \in Nat /\ r \in Lease0
    BY Numbers, Typed
  <2>2. \A r \in Lease0 : sess'[r] \in States
    BY <1>1, Numbers DEF IInv, WellTyped, States
  <2> QED
    BY <1>1, <2>1, <2>2, Numbers
<1>3. /\ task' \in [Session -> Task]
      /\ \A r \in Session : /\ task'[r].lease = task[r].lease
                            /\ task'[r].pc \in {"idle", "starting"} => task[r].pc = "idle"
                            /\ task[r].pc = "idle" => task'[r].pc = "idle"
  <2>1. \A r \in Session : [task[r] EXCEPT !.pc = "ended"] \in Task
          /\ [task[r] EXCEPT !.pc = "ended"].lease = task[r].lease
          /\ [task[r] EXCEPT !.pc = "ended"].pc = "ended"
    BY Typed DEF Task
  <2>2. \A r \in Session : task[r] \in Task
    BY Typed
  <2> HIDE DEF Task
  <2> QED
    BY <1>1, <2>1, <2>2
<1>4. /\ stop' \in [Stop -> [pc : {"idle", "stopping", "revoking", "ended"}, session : Lease0]]
      /\ \A k \in Stop : stop'[k].session = stop[k].session /\ (stop'[k].pc = "idle" => stop[k].pc = "idle")
  <2>1. \A k \in Stop : /\ stop[k] \in [pc : {"idle", "stopping", "revoking", "ended"}, session : Lease0]
                        /\ [stop[k] EXCEPT !.pc = "ended"] \in [pc : {"idle", "stopping", "revoking", "ended"}, session : Lease0]
                        /\ [stop[k] EXCEPT !.pc = "ended"].session = stop[k].session
                        /\ [stop[k] EXCEPT !.pc = "ended"].pc = "ended"
    BY DEF IInv, WellTyped
  <2> QED
    BY <1>1, <2>1
<1>5. /\ store' \in [lease : Lease0, state : {"NONE", "ISSUED", "CONSUMED", "EXPIRED", "REVOKED", "COMPLETED"}]
      /\ store'.lease = 0 /\ store'.state # "ISSUED"
  BY <1>1, Numbers
<1>6. WellTyped'
  BY <1>1, <1>2, <1>3, <1>4, <1>5, Numbers DEF IInv, WellTyped, given, threads
<1>7. Issued'
  <2>1. OneEngine' /\ LeaseRunsOnce'
    BY <1>1, <1>3 DEF IInv, Issued, OneEngine, LeaseRunsOnce, Engines, threads
  <2>2. 0 <= cur
    BY Typed
  <2> QED
    BY <1>1, <1>3, <1>5, <2>1, <2>2 DEF IInv, Issued
<1>8. Once'
  <2>1. \A r \in Session : r > cur => r \notin 1..cur
    BY Numbers, Typed
  <2>2. \A r \in Session : sess'[r] = "ARMED" => FALSE
    <3> SUFFICES ASSUME NEW r \in Session, sess'[r] = "ARMED" PROVE FALSE
      OBVIOUS
    <3>1. r \in 1..cur => sess'[r] = "GONE"
      BY <1>1, Numbers
    <3>2. r > cur /\ sess'[r] = sess[r]
      BY <1>2, <3>1
    <3> QED
      BY <3>2 DEF IInv, Once
  <2>3. 0 <= cur /\ \A r \in Session : 0 # r
    BY Typed, Numbers
  <2> QED
    BY <1>1, <1>2, <1>3, <1>4, <2>1, <2>2, <2>3 DEF IInv, Once, threads
<1>9. SlotGrows
  BY <1>1, SlotStays
<1> QED
  BY <1>1, <1>3, <1>6, <1>7, <1>8, <1>9, ControlMoves DEF threads

-----------------------------------------------------------------------------
(* The kill switch.                                                        *)

(* The kill of k goes on; of the executions, an engine may be dead since.  *)
LEMMA KillMoves ==
  ASSUME IInv, NEW k \in Stop, NEW x \in Kill, kill' = [kill EXCEPT ![k] = x],
         stop'[k].pc = "idle" => x.pc = "idle",
         UNCHANGED <<given, late, cur, sess, leased, store, arming, task, armCall, revoke>>,
         stop' \in [Stop -> [pc : {"idle", "stopping", "revoking", "ended"}, session : Lease0]],
         \A q \in Stop : stop'[q].session <= cur /\ (q # k => stop'[q] = stop[q]),
         run' \in [Session -> CallThread],
         \A s \in Session : run'[s].pc = run[s].pc
                            /\ (run'[s].engine = "alive" => run[s].engine = "alive"),
         SlotGrows, flag' \in BOOLEAN, flag => flag',
         guard' \in [run : Lease0, lease : Lease0, revoked : BOOLEAN],
         guard'.run = guard.run, guard'.lease = guard.lease, guard.revoked => guard'.revoked,
         x.quiet => x.lease # 0 /\ x.pc \in {"guarded", "ended"},
         x.pc \in {"revoked", "guarded"} => x.lease # 0,
         x.lease # 0 => \E s \in Session : task[s].lease = x.lease /\ run[s].pc \in Found,
         x.lease # 0 /\ x.pc = "ended" => flag',
         x.quiet => \A s \in Session : task[s].lease = x.lease /\ run[s].pc = "spawned" => ~GuardOpen'
  PROVE  IInv'
<1>1. kill' \in [Stop -> Kill] /\ kill'[k] = x /\ \A q \in Stop \ {k} : kill'[q] = kill[q]
  BY DEF IInv, WellTyped
<1>3. WellTyped'
  BY <1>1 DEF IInv, WellTyped, given, SlotGrows
<1>4. Issued'
  BY DEF IInv, Issued, OneEngine, LeaseRunsOnce, Engines
<1>5. Once'
  <2>1. \A q \in Stop : stop'[q].session <= cur /\ (stop'[q].pc = "idle" => kill'[q].pc = "idle")
    BY <1>1 DEF IInv, Once
  <2> QED
    BY <2>1 DEF IInv, Once
<1>6. Held'
  BY HeldKept DEF SlotGrows
<1>7. GuardOpen' => GuardOpen
  BY Typed DEF GuardOpen
<1>8. ASSUME NEW q \in Stop PROVE Killed(q)'
  <2>1. CASE q = k
    BY <1>1, <2>1 DEF Killed
  <2>2. CASE q # k
    <3>1. kill'[q] = kill[q]
      BY <1>1, <2>2
    <3> QED
      BY <1>7, <3>1, KilledKept
  <2> QED
    BY <2>1, <2>2
<1> QED
  BY <1>3, <1>4, <1>5, <1>6, <1>8 DEF IInv

(* What the kill of k is known to have found.                              *)
LEMMA KillHas ==
  ASSUME IInv, NEW k \in Stop
  PROVE  /\ kill[k] \in Kill /\ stop[k].session <= cur
         /\ kill[k].quiet => kill[k].lease # 0 /\ kill[k].pc \in {"guarded", "ended"}
         /\ kill[k].pc \in {"revoked", "guarded"} => kill[k].lease # 0
         /\ kill[k].lease # 0 =>
              \E s \in Session : task[s].lease = kill[k].lease /\ run[s].pc \in Found
         /\ kill[k].quiet =>
              \A s \in Session : task[s].lease = kill[k].lease /\ run[s].pc = "spawned" => ~GuardOpen
         /\ run \in [Session -> CallThread] /\ kill[k].quiet \in BOOLEAN /\ flag \in BOOLEAN
         /\ stop[k].pc = "idle" => kill[k].pc = "idle"
         /\ stop \in [Stop -> [pc : {"idle", "stopping", "revoking", "ended"}, session : Lease0]]
         /\ \A q \in Stop : stop[q].session <= cur
         /\ guard \in [run : Lease0, lease : Lease0, revoked : BOOLEAN]
<1>1. Killed(k) /\ kill[k] \in Kill
  BY Typed DEF IInv
<1> QED
  BY <1>1, Typed DEF IInv, WellTyped, Once, Killed, Kill

LEMMA PressStep ==
  ASSUME IInv, NEW k \in Stop, Press(k) PROVE IInv'
<1>1. /\ UNCHANGED <<given, late, cur, sess, leased, store, arming, task, armCall, run, revoke,
                     flag, guard, slot, spent>>
      /\ kill[k].pc = "idle" /\ kill[k] \in Kill /\ cur \in Lease0 /\ cur <= cur
      /\ stop' = [stop EXCEPT ![k].pc = "stopping", ![k].session = cur]
  BY Typed DEF Press, IInv, Once
<1>2. /\ stop' \in [Stop -> [pc : {"idle", "stopping", "revoking", "ended"}, session : Lease0]]
      /\ \A q \in Stop : stop'[q].session <= cur /\ (q # k => stop'[q] = stop[q])
  <2> DEFINE y == [stop[k] EXCEPT !.pc = "stopping", !.session = cur]
  <2>1. y \in [pc : {"idle", "stopping", "revoking", "ended"}, session : Lease0] /\ y.session = cur
    BY <1>1 DEF IInv, WellTyped
  <2>2. stop' = [stop EXCEPT ![k] = y]
    BY <1>1
  <2> HIDE DEF y
  <2>3. stop'[k] = y /\ \A q \in Stop \ {k} : stop'[q] = stop[q]
    BY <2>2 DEF IInv, WellTyped
  <2>4. y.session <= cur
    BY <1>1, <2>1
  <2> QED
    BY <2>1, <2>2, <2>3, <2>4 DEF IInv, WellTyped, Once
<1> DEFINE x == [kill[k] EXCEPT !.pc = "sent"]
<1>3. /\ x \in Kill /\ x.pc = "sent" /\ x.lease = kill[k].lease /\ ~x.quiet
  BY <1>1, KillHas DEF Kill
<1>4. kill' = [kill EXCEPT ![k] = x]
  BY DEF Press
<1>5. SlotGrows
  BY <1>1, SlotStays
<1> HIDE DEF x
<1> QED
  BY <1>1, <1>2, <1>3, <1>4, <1>5, KillHas, KillMoves, ZenonT(60)

LEMMA KillBeginStep ==
  ASSUME IInv, NEW k \in Stop, KillBegin(k) PROVE IInv'
<1>1. /\ UNCHANGED <<given, late, control, armCall, run, revoke, flag, guard, slot, spent>>
      /\ kill[k].pc = "sent" /\ kill[k] \in Kill
  BY Typed DEF KillBegin
<1>2. PICK l \in Lease0, p \in Lease0 :
        /\ kill' = [kill EXCEPT ![k].pc = "waiting", ![k].lease = l, ![k].process = p]
        /\ l # 0 => \E s \in Session : task[s].lease = l /\ run[s].pc \in Found
  <2>1. PICK s \in InFlight \cup {0} :
          kill' = [kill EXCEPT ![k].pc = "waiting",
                               ![k].lease = IF s = 0 THEN 0 ELSE task[s].lease,
                               ![k].process = IF s \in Engines THEN s ELSE 0]
    BY DEF KillBegin
  <2>2. s # 0 => s \in Session /\ run[s].pc \in Found /\ task[s].lease \in Lease0
    BY <2>1, Typed DEF InFlight, Found, Task
  <2> DEFINE l == IF s = 0 THEN 0 ELSE task[s].lease
             p == IF s \in Engines THEN s ELSE 0
  <2>3. l \in Lease0 /\ p \in Lease0
    BY <2>2, Numbers DEF Engines
  <2>4. l # 0 => \E r \in Session : task[r].lease = l /\ run[r].pc \in Found
    BY <2>2
  <2> QED
    BY <2>1, <2>3, <2>4
<1> DEFINE x == [kill[k] EXCEPT !.pc = "waiting", !.lease = l, !.process = p]
<1>3. x \in Kill /\ x.pc = "waiting" /\ x.lease = l /\ ~x.quiet
  BY <1>1, KillHas DEF Kill
<1>4. kill' = [kill EXCEPT ![k] = x]
  BY <1>2
<1>5. SlotGrows
  BY <1>1, SlotStays
<1> HIDE DEF x
<1>6. /\ UNCHANGED <<given, late, cur, sess, leased, store, arming, task, armCall, revoke>>
      /\ stop' \in [Stop -> [pc : {"idle", "stopping", "revoking", "ended"}, session : Lease0]]
      /\ stop'[k].pc # "idle" /\ \A q \in Stop : stop'[q].session <= cur /\ stop'[q] = stop[q]
      /\ guard' = guard /\ guard \in [run : Lease0, lease : Lease0, revoked : BOOLEAN]
      /\ run' = run /\ run \in [Session -> CallThread]
      /\ flag' \in BOOLEAN /\ (flag => flag')
  BY <1>1, KillHas DEF control
<1>7. x.lease # 0 => \E s \in Session : task[s].lease = x.lease /\ run[s].pc \in Found
  BY <1>2, <1>3
<1>8. \A s \in Session : run'[s].pc = run[s].pc /\ (run'[s].engine = "alive" => run[s].engine = "alive")
  BY <1>6
<1> QED
  BY <1>3, <1>4, <1>5, <1>6, <1>7, <1>8, KillMoves

LEMMA KillLookStep ==
  ASSUME IInv, NEW k \in Stop, KillLook(k) PROVE IInv'
<1>1. /\ UNCHANGED <<given, late, control, armCall, run, revoke, flag, guard, slot, spent>>
      /\ kill[k].pc = "waiting" /\ kill[k] \in Kill
  BY Typed DEF KillLook
<1>2. PICK p \in Session : kill' = [kill EXCEPT ![k].process = p]
  BY DEF KillLook, Engines
<1> DEFINE x == [kill[k] EXCEPT !.process = p]
<1>3. x \in Kill /\ x.pc = "waiting" /\ x.lease = kill[k].lease /\ ~x.quiet
  BY <1>1, <1>2, KillHas, Numbers DEF Kill
<1>4. kill' = [kill EXCEPT ![k] = x]
  BY <1>2
<1>5. SlotGrows
  BY <1>1, SlotStays
<1> HIDE DEF x
<1> QED
  BY <1>1, <1>3, <1>4, <1>5, KillHas, KillMoves DEF control

LEMMA KillRevokeStep ==
  ASSUME IInv, NEW k \in Stop, KillRevoke(k) PROVE IInv'
<1>1. /\ UNCHANGED <<given, late, control, armCall, run, revoke, guard>>
      /\ kill[k].pc = "waiting" /\ kill[k] \in Kill /\ kill[k].lease \in Lease0
  BY Typed DEF KillRevoke, Kill
<1>2. CASE kill[k].lease = 0 /\ kill' = [kill EXCEPT ![k].pc = "ended"] /\ flag' = TRUE
           /\ UNCHANGED <<slot, spent>>
  <2> DEFINE x == [kill[k] EXCEPT !.pc = "ended"]
  <2>1. x \in Kill /\ x.pc = "ended" /\ x.lease = 0 /\ ~x.quiet
    BY <1>1, <1>2, KillHas DEF Kill
  <2>2. kill' = [kill EXCEPT ![k] = x]
    BY <1>2
  <2>3. SlotGrows
    BY <1>2, SlotStays
  <2> HIDE DEF x
  <2>4. /\ UNCHANGED <<given, late, cur, sess, leased, store, arming, task, armCall, revoke>>
        /\ stop' \in [Stop -> [pc : {"idle", "stopping", "revoking", "ended"}, session : Lease0]]
        /\ stop'[k].pc # "idle" /\ \A q \in Stop : stop'[q].session <= cur /\ stop'[q] = stop[q]
        /\ guard' = guard /\ guard \in [run : Lease0, lease : Lease0, revoked : BOOLEAN]
        /\ run' = run /\ run \in [Session -> CallThread]
        /\ flag' \in BOOLEAN /\ (flag => flag')
    BY <1>1, <1>2, KillHas DEF control
  <2>5. \A s \in Session : run'[s].pc = run[s].pc /\ (run'[s].engine = "alive" => run[s].engine = "alive")
    BY <2>4
  <2> QED
    BY <2>1, <2>2, <2>3, <2>4, <2>5, KillMoves
<1>3. CASE /\ kill[k].lease # 0 /\ kill' = [kill EXCEPT ![k].pc = "revoked"] /\ UNCHANGED flag
           /\ Release(kill[k].lease) \/ UNCHANGED <<slot, spent>>
  <2> DEFINE x == [kill[k] EXCEPT !.pc = "revoked"]
  <2>1. x \in Kill /\ x.pc = "revoked" /\ x.lease = kill[k].lease /\ ~x.quiet
    BY <1>1, <1>3, KillHas DEF Kill
  <2>2. kill' = [kill EXCEPT ![k] = x]
    BY <1>3
  <2>3. SlotGrows
    BY <1>1, <1>3, SlotTyped
  <2> HIDE DEF x
  <2>4. /\ UNCHANGED <<given, late, cur, sess, leased, store, arming, task, armCall, revoke>>
        /\ stop' \in [Stop -> [pc : {"idle", "stopping", "revoking", "ended"}, session : Lease0]]
        /\ stop'[k].pc # "idle" /\ \A q \in Stop : stop'[q].session <= cur /\ stop'[q] = stop[q]
        /\ guard' = guard /\ guard \in [run : Lease0, lease : Lease0, revoked : BOOLEAN]
        /\ run' = run /\ run \in [Session -> CallThread]
        /\ flag' \in BOOLEAN /\ (flag => flag')
    BY <1>1, <1>3, KillHas DEF control
  <2>5. \E s \in Session : task[s].lease = kill[k].lease /\ run[s].pc \in Found
    BY <1>3, KillHas
  <2>6. \A s \in Session : run'[s].pc = run[s].pc /\ (run'[s].engine = "alive" => run[s].engine = "alive")
    BY <2>4
  <2>7. x.lease # 0
    BY <1>3, <2>1
  <2> QED
    BY <2>1, <2>2, <2>3, <2>4, <2>5, <2>6, <2>7, KillMoves
<1> QED
  BY <1>2, <1>3 DEF KillRevoke

LEMMA KillGuardStep ==
  ASSUME IInv, NEW k \in Stop, KillGuard(k) PROVE IInv'
<1>1. /\ UNCHANGED <<given, late, control, armCall, run, revoke, flag, slot, spent>>
      /\ kill[k].pc = "revoked" /\ kill[k] \in Kill /\ kill[k].lease # 0 /\ ~kill[k].quiet
  BY KillHas DEF KillGuard
<1>2. /\ guard' \in [run : Lease0, lease : Lease0, revoked : BOOLEAN]
      /\ guard'.run = guard.run /\ guard'.lease = guard.lease /\ (guard.revoked => guard'.revoked)
  <2>1. guard' \in {guard, GuardRevoked(kill[k].lease)}
    BY DEF KillGuard
  <2>2. CASE guard' = guard
    BY <2>2, KillHas
  <2>3. CASE guard' = GuardRevoked(kill[k].lease)
    BY <2>3, GuardTyped
  <2> QED
    BY <2>1, <2>2, <2>3
<1>3. PICK q \in BOOLEAN : /\ kill' = [kill EXCEPT ![k].pc = "guarded", ![k].quiet = q]
                           /\ q => ~GuardOpen'
  <2>1. CASE /\ guard' = GuardRevoked(kill[k].lease)
             /\ kill' = [kill EXCEPT ![k].pc = "guarded",
                                     ![k].quiet = guard.lease = kill[k].lease \/ ~GuardOpen]
    <3> DEFINE q == guard.lease = kill[k].lease \/ ~GuardOpen
    <3>1. q \in BOOLEAN
      OBVIOUS
    <3>2. ASSUME q PROVE ~GuardOpen'
      <4>1. CASE guard.lease = kill[k].lease
        BY <2>1, <4>1, GuardTyped DEF GuardOpen
      <4>2. CASE ~GuardOpen
        BY <1>1, <1>2, <4>2 DEF GuardOpen
      <4> QED
        BY <3>2, <4>1, <4>2
    <3> HIDE DEF q
    <3>3. kill' = [kill EXCEPT ![k].pc = "guarded", ![k].quiet = q]
      BY <2>1 DEF q
    <3> QED
      BY <3>1, <3>2, <3>3
  <2>2. CASE kill' = [kill EXCEPT ![k].pc = "guarded"]
    <3>1. kill' = [kill EXCEPT ![k].pc = "guarded", ![k].quiet = FALSE]
      <4>1. [kill[k] EXCEPT !.pc = "guarded"] = [kill[k] EXCEPT !.pc = "guarded", !.quiet = FALSE]
        BY <1>1 DEF Kill
      <4>2. kill' = [kill EXCEPT ![k] = [kill[k] EXCEPT !.pc = "guarded"]]
        BY <2>2
      <4>3. kill' = [kill EXCEPT ![k] = [kill[k] EXCEPT !.pc = "guarded", !.quiet = FALSE]]
        BY <4>1, <4>2
      <4> QED
        BY <4>3
    <3> QED
      BY <3>1
  <2> QED
    BY <2>1, <2>2 DEF KillGuard
<1> DEFINE x == [kill[k] EXCEPT !.pc = "guarded", !.quiet = q]
<1>4. x \in Kill /\ x.pc = "guarded" /\ x.lease = kill[k].lease /\ (x.quiet => ~GuardOpen')
  BY <1>1, <1>3 DEF Kill
<1>5. kill' = [kill EXCEPT ![k] = x]
  BY <1>3
<1>6. SlotGrows
  BY <1>1, SlotStays
<1> HIDE DEF x
<1> QED
  BY <1>1, <1>2, <1>4, <1>5, <1>6, KillHas, KillMoves DEF control

LEMMA KillEndStep ==
  ASSUME IInv, NEW k \in Stop, KillEnd(k) PROVE IInv'
<1>1. /\ UNCHANGED <<given, late, control, armCall, revoke, guard, slot, spent>>
      /\ kill[k].pc = "guarded" /\ kill[k] \in Kill /\ flag' = TRUE
      /\ run' = [s \in Session |-> IF s = kill[k].process /\ run[s].engine = "alive"
                                   THEN [run[s] EXCEPT !.engine = "dead"] ELSE run[s]]
  BY KillHas DEF KillEnd
<1>2. /\ run' \in [Session -> CallThread]
      /\ \A s \in Session : run'[s].pc = run[s].pc
                            /\ (run'[s].engine = "alive" => run[s].engine = "alive")
  <2>1. \A s \in Session : /\ run[s] \in CallThread
                           /\ [run[s] EXCEPT !.engine = "dead"] \in CallThread
                           /\ [run[s] EXCEPT !.engine = "dead"].pc = run[s].pc
                           /\ [run[s] EXCEPT !.engine = "dead"].engine = "dead"
    BY Typed DEF CallThread
  <2> HIDE DEF CallThread
  <2> QED
    BY <1>1, <2>1
<1> DEFINE x == [kill[k] EXCEPT !.pc = "ended"]
<1>3. x \in Kill /\ x.pc = "ended" /\ x.lease = kill[k].lease /\ x.quiet = kill[k].quiet
  BY <1>1 DEF Kill
<1>4. kill' = [kill EXCEPT ![k] = x]
  BY DEF KillEnd
<1>5. SlotGrows
  BY <1>1, SlotStays
<1>6. GuardOpen' => GuardOpen
  BY <1>1 DEF GuardOpen
<1> HIDE DEF x
<1>7. /\ UNCHANGED <<given, late, cur, sess, leased, store, arming, task, armCall, revoke>>
      /\ stop' \in [Stop -> [pc : {"idle", "stopping", "revoking", "ended"}, session : Lease0]]
      /\ stop'[k].pc # "idle" /\ \A q \in Stop : stop'[q].session <= cur /\ stop'[q] = stop[q]
      /\ guard' = guard /\ guard \in [run : Lease0, lease : Lease0, revoked : BOOLEAN]
      /\ flag' \in BOOLEAN /\ (flag => flag')
  BY <1>1, KillHas DEF control
<1>8. /\ x.quiet => x.lease # 0
      /\ x.lease # 0 => \E s \in Session : task[s].lease = x.lease /\ run[s].pc \in Found
      /\ x.quiet => \A s \in Session : task[s].lease = x.lease /\ run[s].pc = "spawned" => ~GuardOpen'
  BY <1>3, <1>6, KillHas
<1> QED
  BY <1>1, <1>2, <1>3, <1>4, <1>5, <1>7, <1>8, KillMoves

-----------------------------------------------------------------------------
(* Revocation, time, and the registry on its own.                          *)

LEMMA GuardOrSlotMoves ==
  ASSUME IInv, UNCHANGED <<given, control, armCall, run, kill, flag>>, SlotGrows,
         late \subseteq late', late' \in SUBSET Session,
         revoke' \in [Session \cup Stop -> {"idle", "sent", "half", "ended"}],
         guard' \in [run : Lease0, lease : Lease0, revoked : BOOLEAN],
         guard'.run = guard.run, guard'.lease = guard.lease, guard.revoked => guard'.revoked
  PROVE  IInv'
<1>1. WellTyped'
  BY DEF IInv, WellTyped, given, control, SlotGrows
<1>2. Issued'
  BY IssuedKept DEF control
<1>3. Once'
  BY OnceKept DEF control
<1>4. Held'
  BY HeldKept DEF control, SlotGrows
<1>5. GuardOpen' => GuardOpen
  BY Typed DEF GuardOpen
<1>6. ASSUME NEW k \in Stop PROVE Killed(k)'
  BY <1>5, KilledKept DEF control
<1> QED
  BY <1>1, <1>2, <1>3, <1>4, <1>6 DEF IInv

LEMMA RevokeAtGuardStep ==
  ASSUME IInv, NEW c \in Session \cup Stop, RevokeAtGuard(c) PROVE IInv'
<1>1. /\ UNCHANGED <<given, late, control, armCall, run, kill, flag, slot, spent>>
      /\ guard' \in {guard, GuardRevoked(RevokedLease(c))}
      /\ revoke' = [revoke EXCEPT ![c] = "half"]
  BY DEF RevokeAtGuard
<1>2. revoke' \in [Session \cup Stop -> {"idle", "sent", "half", "ended"}] /\ late \in SUBSET Session
  BY <1>1 DEF IInv, WellTyped
<1>3. SlotGrows
  BY <1>1, SlotStays
<1>4. CASE guard' = guard
  BY <1>1, <1>2, <1>3, <1>4, Typed, GuardOrSlotMoves
<1>5. CASE guard' = GuardRevoked(RevokedLease(c))
  BY <1>1, <1>2, <1>3, <1>5, GuardTyped, GuardOrSlotMoves
<1> QED
  BY <1>1, <1>4, <1>5

LEMMA RevokeAtRegistryStep ==
  ASSUME IInv, NEW c \in Session \cup Stop, RevokeAtRegistry(c) PROVE IInv'
<1>1. /\ UNCHANGED <<given, late, control, armCall, run, kill, flag, guard>>
      /\ revoke' = [revoke EXCEPT ![c] = "ended"]
      /\ Release(RevokedLease(c)) \/ UNCHANGED <<slot, spent>>
  BY DEF RevokeAtRegistry
<1>2. revoke' \in [Session \cup Stop -> {"idle", "sent", "half", "ended"}] /\ late \in SUBSET Session
  BY <1>1 DEF IInv, WellTyped
<1>3. RevokedLease(c) \in Lease0
  BY DEF RevokedLease, IInv, WellTyped, Task
<1>4. SlotGrows
  BY <1>1, <1>3, SlotTyped
<1> QED
  BY <1>1, <1>2, <1>4, Typed, GuardOrSlotMoves

LEMMA ExpireStep ==
  ASSUME IInv, NEW l \in Session, Expire(l) PROVE IInv'
<1>1. /\ UNCHANGED <<given, control, threads, guard, slot, spent>> /\ late' = late \cup {l}
      /\ late \in SUBSET Session
  BY DEF Expire, IInv, WellTyped
<1>2. SlotGrows
  BY <1>1, SlotStays
<1>3. revoke' \in [Session \cup Stop -> {"idle", "sent", "half", "ended"}]
  BY <1>1 DEF IInv, WellTyped, threads
<1> QED
  BY <1>1, <1>2, <1>3, Typed, GuardOrSlotMoves DEF threads

LEMMA SlotFreedStep ==
  ASSUME IInv, SlotFreed PROVE IInv'
<1>1. UNCHANGED <<given, late, control, threads, guard>> /\ late \in SUBSET Session
  BY DEF SlotFreed, IInv, WellTyped
<1>2. SlotGrows
  BY SlotTyped, Numbers DEF SlotFreed
<1>3. revoke' \in [Session \cup Stop -> {"idle", "sent", "half", "ended"}]
  BY <1>1 DEF IInv, WellTyped, threads
<1> QED
  BY <1>1, <1>2, <1>3, Typed, GuardOrSlotMoves DEF threads

LEMMA StutterStep ==
  ASSUME IInv, UNCHANGED vars PROVE IInv'
<1>1. SlotGrows
  BY SlotStays DEF vars
<1>2. revoke' \in [Session \cup Stop -> {"idle", "sent", "half", "ended"}] /\ late \in SUBSET Session
  BY DEF IInv, WellTyped, vars, threads
<1> QED
  BY <1>1, <1>2, Typed, GuardOrSlotMoves DEF vars, threads

-----------------------------------------------------------------------------
(* The inductive invariant.                                                *)

LEMMA InitIInv == Init => IInv
<1> SUFFICES ASSUME Init PROVE IInv
  OBVIOUS
<1>1. /\ cur = 0 /\ arming = 0 /\ flag = FALSE /\ spent = {} /\ late = {} /\ leased = {}
      /\ sess \in [Lease0 -> States] /\ \A s \in Session : sess[s] = "NONE"
      /\ world \in Worlds /\ scenario \in [Session -> Scenario]
      /\ armCall \in [Session -> {"idle", "sent", "armed", "refused"}]
      /\ revoke \in [Session \cup Stop -> {"idle", "sent", "half", "ended"}]
  BY Numbers DEF Init, SlotInit, States
<1>2. /\ store \in [lease : Lease0, state : {"NONE", "ISSUED", "CONSUMED", "EXPIRED", "REVOKED", "COMPLETED"}]
      /\ store.lease = 0 /\ store.state = "NONE"
  BY Numbers DEF Init
<1>3. /\ task \in [Session -> Task] /\ \A s \in Session : task[s].pc = "idle" /\ task[s].lease = 0
  <2>1. [pc |-> "idle", lease |-> 0, result |-> "NONE"] \in Task
    BY Numbers DEF Task
  <2> QED
    BY <2>1 DEF Init
<1>4. /\ run \in [Session -> CallThread]
      /\ \A s \in Session : run[s].pc = "idle" /\ run[s].engine = "none"
  <2>1. [pc |-> "idle", engine |-> "none", traffic |-> "none", out |-> "NONE"] \in CallThread
    BY DEF CallThread
  <2> QED
    BY <2>1 DEF Init
<1>5. /\ kill \in [Stop -> Kill]
      /\ \A k \in Stop : kill[k].pc = "idle" /\ kill[k].lease = 0 /\ ~kill[k].quiet
  <2>1. [pc |-> "idle", lease |-> 0, process |-> 0, quiet |-> FALSE] \in Kill
    BY Numbers DEF Kill
  <2> QED
    BY <2>1 DEF Init
<1>6. /\ stop \in [Stop -> [pc : {"idle", "stopping", "revoking", "ended"}, session : Lease0]]
      /\ \A k \in Stop : stop[k].session = 0
  BY Numbers DEF Init
<1>7. guard \in [run : Lease0, lease : Lease0, revoked : BOOLEAN]
  BY Numbers DEF Init
<1>8. slot \in [lease : Lease0, used : BOOLEAN]
  BY Numbers DEF Init, SlotInit, EmptySlot
<1>9. WellTyped
  BY <1>1, <1>2, <1>3, <1>4, <1>5, <1>6, <1>7, <1>8, Numbers DEF WellTyped
<1>10. Issued
  BY <1>1, <1>2, <1>3, <1>4 DEF Issued, OneEngine, LeaseRunsOnce, Engines, Locked
<1>11. Once
  BY <1>1, <1>3, <1>4, <1>5, <1>6, Numbers DEF Once
<1>12. Held
  BY <1>4 DEF Held, Locked
<1>13. \A k \in Stop : Killed(k)
  BY <1>5 DEF Killed
<1> QED
  BY <1>9, <1>10, <1>11, <1>12, <1>13 DEF IInv

LEMMA NextIInv == IInv /\ [Next]_vars => IInv'
<1> SUFFICES ASSUME IInv, [Next]_vars PROVE IInv'
  OBVIOUS
<1>1. ASSUME NEW s \in Session, Activate(s) \/ Execute(s) PROVE IInv'
  BY <1>1, ActivateStep, ExecuteStep
<1>2. ASSUME NEW k \in Stop, Press(k) PROVE IInv'
  BY <1>2, PressStep
<1>3. ASSUME NEW s \in Session, SessionTask(s) PROVE IInv'
  BY <1>3, ArmedStep, ArmFailedStep, StartStep, RunAnsweredStep, ClosedStep, FinishStep
     DEF SessionTask
<1>4. ASSUME NEW k \in Stop, StopTask(k) PROVE IInv'
  BY <1>4, RunnerStoppedStep, StoppedStep DEF StopTask
<1>5. ASSUME NEW s \in Session, RunThread(s) PROVE IInv'
  BY <1>5, RunBeginStep, RunConsumeStep, RunTrackStep, RunArmGuardStep, RunSpawnStep,
     RunDisarmStep, RunClassifyStep, RunCloseStep, RunEndStep DEF RunThread
<1>6. ASSUME NEW s \in Session, ArmAtRegistry(s) \/ EngineRequest(s) \/ EngineEnds(s) PROVE IInv'
  BY <1>6, ArmAtRegistryStep, EngineStep
<1>7. ASSUME NEW k \in Stop, KillThread(k) \/ KillLook(k) PROVE IInv'
  BY <1>7, KillBeginStep, KillRevokeStep, KillGuardStep, KillEndStep, KillLookStep DEF KillThread
<1>8. ASSUME NEW c \in Session \cup Stop, RevokeThread(c) PROVE IInv'
  BY <1>8, RevokeAtGuardStep, RevokeAtRegistryStep DEF RevokeThread
<1>9. CASE World
  BY <1>9, ControllerRestartStep, SlotFreedStep, ExpireStep DEF World
<1>10. CASE UNCHANGED vars
  BY <1>10, StutterStep
<1> QED
  BY <1>1, <1>2, <1>3, <1>4, <1>5, <1>6, <1>7, <1>8, <1>9, <1>10
     DEF Next, Operator, Controller, Runner

LEMMA Inductive == Spec => []IInv
  BY InitIInv, NextIInv, PTL DEF Spec

-----------------------------------------------------------------------------
(* Every part of the system only ever holds values of its kind.            *)
THEOREM TypeCorrect == Spec => []WellTyped
<1>1. IInv => WellTyped
  BY DEF IInv
<1> QED
  BY <1>1, Inductive, PTL

(* Executor._run_lock holds for the whole of run(), over controllers that  *)
(* gave up or restarted: one engine at a time, under the thread that holds *)
(* the lock.                                                               *)
THEOREM EngineIsOne == Spec => []OneEngine
<1>1. IInv => OneEngine
  BY DEF IInv, Issued
<1> QED
  BY <1>1, Inductive, PTL

(* What the scope guard lets through belongs to the execution that armed   *)
(* it, under a lease the registry granted.                                 *)
THEOREM TrafficBelongs == Spec => []TrafficIsOwn
<1>1. IInv => TrafficIsOwn
  <2> SUFFICES ASSUME IInv, NEW s \in Session, Reaches(s)
               PROVE  guard.run = s /\ guard.lease = task[s].lease /\ guard.lease \in spent
    BY DEF TrafficIsOwn
  <2>1. run[s].pc = "spawned"
    BY DEF Reaches, IInv, Issued, OneEngine, Engines
  <2> QED
    BY <2>1 DEF IInv, Held, Locked
<1> QED
  BY <1>1, Inductive, PTL

(* The controller's store gives a lease to one execution, whatever is lost *)
(* and whichever of the parts restarts.                                    *)
THEOREM LeaseIsSingleUse == Spec => []LeaseRunsOnce
<1>1. IInv => LeaseRunsOnce
  BY DEF IInv, Issued
<1> QED
  BY <1>1, Inductive, PTL

(* emergency_stop: what its answer says of the guard stays true of the     *)
(* execution it found in flight.                                           *)
THEOREM StopIsQuiet == Spec => []StopSilences
<1>1. IInv => StopSilences
  <2> SUFFICES ASSUME IInv, NEW k \in Stop, NEW s \in Session, kill[k].pc = "ended", kill[k].quiet,
                      kill[k].lease = task[s].lease, Reaches(s)
               PROVE  FALSE
    BY DEF StopSilences
  <2>1. run[s].pc = "spawned"
    BY DEF Reaches, IInv, Issued, OneEngine, Engines
  <2> QED
    BY <2>1, KillHas DEF Reaches
<1> QED
  BY <1>1, Inductive, PTL

-----------------------------------------------------------------------------
(* An execution is classified as completed by its own thread, which holds  *)
(* the lock and has found the stop flag down.                              *)
LEMMA CompletedByClassify ==
  ASSUME IInv, [Next]_vars, NEW s \in Session, run[s].out = "NONE", run'[s].out = "COMPLETED"
  PROVE  run[s].pc \in Locked /\ ~flag
<1>1. \A r \in Session : run[r] \in CallThread
  BY Typed
<1>2. run \in [Session -> CallThread]
  BY DEF IInv, WellTyped
<1>3. run' # run
  OBVIOUS
<1>4. PICK r \in Session : Start(r) \/ RunThread(r) \/ EngineRequest(r) \/ EngineEnds(r)
                           \/ \E k \in Stop : KillEnd(k)
  BY <1>3 DEF Next, Operator, Controller, Runner, World, SessionTask, StopTask, KillThread,
     RevokeThread, Activate, Execute, Press, Armed, ArmFailed, RunAnswered, Closed, Finish,
     RunnerStopped, Stopped, ArmAtRegistry, KillBegin, KillLook, KillRevoke, KillGuard,
     RevokeAtGuard, RevokeAtRegistry, ControllerRestart, SlotFreed, Expire, vars, threads, control
<1>5. CASE Start(r) \/ EngineRequest(r) \/ EngineEnds(r) \/ RunBegin(r) \/ RunConsume(r)
           \/ RunTrack(r) \/ RunArmGuard(r) \/ RunSpawn(r) \/ RunDisarm(r) \/ RunClose(r)
           \/ RunEnd(r) \/ \E k \in Stop : KillEnd(k)
  BY <1>1, <1>2, <1>5 DEF CallThread, Start, EngineRequest, EngineEnds, RunBegin, RunConsume, RunTrack,
     RunArmGuard, RunSpawn, RunDisarm, RunClose, RunEnd, KillEnd, At, Ended
<1>6. CASE RunClassify(r)
  <2>1. PICK out \in {"STOPPED", "FAILED", "COMPLETED"} :
          /\ flag <=> out = "STOPPED"
          /\ run' = [run EXCEPT ![r].pc = "closing", ![r].out = out]
    BY <1>6 DEF RunClassify
  <2>2. r = s /\ out = "COMPLETED"
    BY <1>1, <1>2, <2>1 DEF CallThread
  <2> QED
    BY <1>6, <2>1, <2>2 DEF RunClassify, Locked
<1> QED
  BY <1>4, <1>5, <1>6 DEF RunThread

(* Executor.run looks at the stop flag when it classifies: an execution    *)
(* that a finished kill switch found in flight is never called completed.  *)
THEOREM StopIsNotOvertaken == Spec => StopNotOvertaken
<1> DEFINE P == \A k \in Stop, s \in Session :
                  kill[k].pc = "ended" /\ kill[k].lease # 0 /\ kill[k].lease = task[s].lease
                    => ~(run[s].out = "NONE" /\ run'[s].out = "COMPLETED")
<1>1. IInv /\ [Next]_vars => P
  <2> SUFFICES ASSUME IInv, [Next]_vars, NEW k \in Stop, NEW s \in Session, kill[k].pc = "ended",
                      kill[k].lease # 0, kill[k].lease = task[s].lease, run[s].out = "NONE",
                      run'[s].out = "COMPLETED"
               PROVE  FALSE
    OBVIOUS
  <2>1. run[s].pc \in Locked /\ ~flag
    BY CompletedByClassify
  <2> QED
    BY <2>1 DEF IInv, Killed
<1>2. IInv /\ [Next]_vars => [P]_vars
  BY <1>1
<1>3. Spec => [][P]_vars
  <2> HIDE DEF P
  <2> QED
    BY <1>2, Inductive, PTL DEF Spec
<1> QED
  BY <1>3 DEF StopNotOvertaken
=============================================================================
