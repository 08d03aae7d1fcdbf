------------------------ MODULE LiveCampaignProofs -------------------------
(***************************************************************************)
(* Theorems about LiveCampaign, for any number of resets, switches and     *)
(* restarts of the range by somebody else.                                 *)
(*                                                                         *)
(* A campaign is a list of calls that grows shorter.  The invariant says   *)
(* of every state which calls may still be made, and of every row, record  *)
(* and total what they are to be closed, overwritten or condemned by: a    *)
(* job that is open has its closing call ahead, a chain without a decision *)
(* has one ahead, an uncounted model call has spoilt the verdict or has an *)
(* early return of its arm still to come.                                  *)
(***************************************************************************)
EXTENDS LiveCampaign, TLAPS

(* The calls that remain, as a set. *)
Elements(s) == {s[i] : i \in 1 .. Len(s)}
Rest == Elements(todo)

(* How far into its part each call stands: a part goes through them in this order. *)
Stage(call) ==
    CASE call \in {"enqueue_agent", "claim_agent"} -> 2
      [] call \in {"plan", "broker", "control_A", "boundary"} -> 3
      [] call \in {"baseline", "alternate", "control", "burst", "post", "causal", "control_B", "service"} -> 4
      [] call \in {"worker_ends", "adjudicate", "verify"} -> 5
      [] call \in {"rotate", "accounts", "link_A"} -> 6
      [] call \in {"LINK_CONFIRMED", "select_B", "verify_B"} -> 7
      [] call = "interpret" -> IF campaign = "chain" THEN 7 ELSE 5
      [] call = "link_B" -> 8
      [] call = "explain" -> 9
      [] call \in {"final", "BLOCKED_BY_PATCH", "FAILED"} -> 10
      [] call \in {"close_lead", "close_agent", "settle_lead", "settle_agent"} -> 11
      [] OTHER -> 1

(* The calls of each part, as sets. *)
SetupCalls == {"build_ds", "build_range", "up_ds", "up_range", "health"}
TeardownCalls == {"down_ds", "down_range", "list"}
HandoffCalls == {"reset", "select", "enqueue_lead", "claim_lead", "delegate", "delegation",
                 "enqueue_agent", "claim_agent", "plan", "broker"}
AdversaryCalls == HandoffCalls \cup
    {"baseline", "alternate", "worker_ends", "adjudicate", "rotate", "settle_agent", "settle_lead"}
AuthenticationCalls == HandoffCalls \cup
    {"control", "burst", "post", "worker_ends", "interpret", "verify", "accounts",
     "settle_agent", "settle_lead"}
StageACalls == {"reset", "select", "enqueue_lead", "claim_lead", "RUNNING", "plan_chain", "plan",
                "broker", "control_A", "boundary"}
VulnerableCalls == StageACalls \cup
    {"causal", "control_B", "service", "worker_ends", "verify", "link_A", "LINK_CONFIRMED",
     "interpret", "select_B", "verify_B", "link_B", "explain", "final", "close_lead"}
PatchedCalls == StageACalls \cup
    {"worker_ends", "verify", "link_A", "BLOCKED_BY_PATCH", "close_lead"}
BoundaryCalls == {"reset", "select", "enqueue_agent", "claim_agent", "plan", "broker", "control_A",
                  "boundary", "worker_ends", "interpret", "verify", "close_agent"}
(* And of the ways out of an arm. *)
Ways == {"FAILED", "close_lead", "close_agent", "settle_agent", "settle_lead"}
OutCalls ==
    CASE campaign = "chain"    -> {"FAILED", "close_lead"}
      [] campaign = "boundary" -> {"close_agent"}
      [] OTHER                 -> {"close_lead", "settle_agent", "settle_lead"}

CallsOf(p) ==
    CASE campaign = "adversary"                    -> AdversaryCalls
      [] campaign = "authentication"               -> AuthenticationCalls
      [] campaign = "chain" /\ p = "vulnerable"    -> VulnerableCalls
      [] campaign = "chain" /\ p = "patched"       -> PatchedCalls
      [] campaign = "boundary"                     -> BoundaryCalls

(* What can be ahead at each part. *)
Due == CASE part = "setup"    -> SetupCalls
         [] part = "teardown" -> TeardownCalls
         [] part \in Arm      -> CallsOf(part) \cup OutCalls
         [] OTHER             -> {}

Call == SetupCalls \cup TeardownCalls \cup AdversaryCalls \cup AuthenticationCalls
        \cup VulnerableCalls \cup PatchedCalls \cup BoundaryCalls \cup Ways

(* No call twice, and each in its place. *)
Tidy(s) ==
    /\ s \in Seq(Call)
    /\ \A i, j \in 1 .. Len(s) : i < j => s[i] # s[j] /\ Stage(s[i]) <= Stage(s[j])

(* The calls that open a job, that close it; that leave a chain undecided, that decide it. *)
Openers == [lead |-> {"enqueue_lead", "claim_lead"}, agent |-> {"enqueue_agent", "claim_agent"}]
Closers == [lead |-> {"close_lead", "settle_lead"}, agent |-> {"close_agent", "settle_agent"}]
Undecided == {"RUNNING", "LINK_CONFIRMED"}
Decisive == {"final", "BLOCKED_BY_PATCH", "FAILED"}
Planning == {"RUNNING", "plan_chain", "plan", "broker", "boundary"}

Meets(s, t) == s \cap t # {}

(* Wherever the list has come to: a job that is yet to be opened is yet to be closed,   *)
(* a chain yet to be begun is yet to be decided, the way out of a failed chain has      *)
(* nothing else before it, and Stage B is never left without its own decision.         *)
Ahead ==
    /\ \A who \in {"lead", "agent"} : Meets(Openers[who], Rest) => Meets(Closers[who], Rest)
    /\ Meets(Undecided, Rest) => Meets(Decisive, Rest)
    /\ "FAILED" \in Rest => Rest \subseteq {"FAILED", "close_lead"}
    /\ "link_B" \in Rest => {"explain", "final", "close_lead"} \subseteq Rest
    /\ campaign = "chain" /\ Meets(Planning, Rest) => "link_A" \in Rest
    /\ campaign = "chain" /\ part = "vulnerable" /\ Meets({"link_A", "LINK_CONFIRMED", "select_B"}, Rest)
       => "link_B" \in Rest
    /\ "link_A" \notin Rest /\ "link_B" \in Rest => "verify" \notin Rest
    /\ "link_B" \notin Rest /\ "final" \in Rest => ~Meets({"verify", "link_A", "verify_B"}, Rest)

Status == {None, "QUEUED", "CLAIMED", "CLOSED"}

RecordType == [up : BOOLEAN, good : BOOLEAN, stopped : BOOLEAN,
               errors : SUBSET (Arm \X {"lead", "agent"}), down : {None, "ok", "failed"},
               listed : SUBSET {"ds", "range", "network"}]

(* The type of every variable but the lists of calls. *)
Types ==
    /\ None \notin Said /\ campaign \in Campaign
    /\ record \in [up : BOOLEAN, good : BOOLEAN, stopped : BOOLEAN,
                   errors : SUBSET (Arm \X {"lead", "agent"}), down : {None, "ok", "failed"},
                   listed : SUBSET {"ds", "range", "network"}]
    /\ job \in [Arm -> [lead : Status, agent : Status, handoff : BOOLEAN]]
    /\ chain \in [Arm -> [state : {None, "RUNNING", "LINK_CONFIRMED", "CHAIN_CONFIRMED",
                                   "BLOCKED_BY_PATCH", "FAILED"},
                          links : Seq({"CONFIRMED", "PASS", "INCOMPLETE"})]]
    /\ DOMAIN facts = Arm /\ facts = [a \in Arm |-> facts[a]]
    /\ usage \in [calls : Nat, tokens : Nat, fit : BOOLEAN]
    /\ range \in [vulnerable : SUBSET {"ops", "login", "entry", "meta", "service"},
                  generation : Nat, sentinel : Seq(Nat), failures : Nat]
    /\ left \subseteq {"ds", "range", "network", "worker"}
    /\ written \in {None, "GO", "PARTIAL"}

(* Where the script is, and that what it has ahead belongs there. *)
Control ==
    /\ campaign \in Campaign
    /\ part \in {"setup", "vulnerable", "patched", "teardown", "verdict", "over"}
    /\ raised \in BOOLEAN /\ (raised => part \in {"teardown", "over"})
    /\ Tidy(todo) /\ Rest \subseteq Due
    /\ Ahead

(* An arm that has not begun has nothing: no fact, no job, no chain. *)
Untouched(a) ==
    /\ facts[a] = <<>>
    /\ job[a] = [lead |-> None, agent |-> None, handoff |-> FALSE]
    /\ chain[a] = [state |-> None, links |-> <<>>]

Pristine ==
    /\ part = "setup" => Untouched("vulnerable") /\ hidden = {}
    /\ part \in {"setup", "vulnerable"} => Untouched("patched")

(* A job that is open was recorded as such, or is about to be closed, or the script is  *)
(* being torn down by an exception.                                                 *)
Open(a, who) == job[a][who] \in {"QUEUED", "CLAIMED"}

Jobs ==
    /\ \A a \in Arm, who \in {"lead", "agent"} :
          Open(a, who) => \/ <<a, who>> \in record.errors \/ raised
                          \/ part = a /\ Meets(Closers[who], Rest)
    /\ part \in Arm /\ "delegate" \in Rest => ~Open(part, "agent")
    /\ campaign = "chain" => \A a \in Arm : ~Open(a, "agent")
    /\ campaign = "boundary" => \A a \in Arm : ~Open(a, "lead")

(* The chain: an undecided one has its decision ahead; its links are the verifications *)
(* of this arm, in order; and it says it is confirmed just when both of them were.     *)
Both == <<"CONFIRMED", "CONFIRMED">>

Chains ==
    \A a \in Arm :
          /\ chain[a].state \in Undecided => raised \/ (part = a /\ Meets(Decisive, Rest))
          /\ part = a =>
                /\ Meets(Undecided \cup {"FAILED", "BLOCKED_BY_PATCH"}, Rest) => chain[a].links # Both
                /\ "link_A" \in Rest => chain[a].links = <<>>
                /\ "link_A" \notin Rest /\ "link_B" \in Rest => chain[a].links = <<Link("verify")>>
                /\ "link_B" \notin Rest /\ "final" \in Rest
                   => chain[a].links = <<Link("verify"), Link("verify_B")>>
                /\ "final" \in Rest => chain[a].state # "CHAIN_CONFIRMED"
                /\ chain[a].state = "BLOCKED_BY_PATCH" => Rest \subseteq {"close_lead"}
          /\ ~raised /\ ~(part = a /\ "final" \in Rest) =>
                (chain[a].state = "CHAIN_CONFIRMED" <=> chain[a].links = Both)

(* What a campaign has in its record of a step. *)
Seen(a, step) == step \in DOMAIN facts[a]

(* What a step saw was there on the range it was seen on. *)
Sound(step, r) ==
    /\ step = "alternate" => /\ r.saw = "reached" => "ops" \in r.in
                             /\ r.saw = "denied" => "ops" \notin r.in
    /\ step = "burst" => /\ r.mark \in BOOLEAN
                         /\ r.saw = "open" /\ r.mark => "login" \in r.in
                         /\ r.saw = "throttled" => "login" \notin r.in
    /\ step = "post" => (r.saw = "throttled" => "login" \notin r.in)
    /\ step = "verify" /\ campaign = "authentication" =>
          /\ r.saw = "CONFIRMED" => "login" \in r.in
          /\ r.saw = "PASS" => "login" \notin r.in
    /\ step = "verify" /\ campaign # "authentication" =>
          /\ r.saw = "CONFIRMED" => {"entry", "meta"} \subseteq r.in
          /\ r.saw = "PASS" => "entry" \in r.in /\ "meta" \notin r.in
    /\ step = "verify_B" => (r.saw = "CONFIRMED" => {"entry", "meta", "service"} \subseteq r.in)

(* Every step of an arm saw what was there, and a service was reached with the        *)
(* credential of the generation the boundary was seen on.                           *)
Facts(a) ==
    /\ \A step \in DOMAIN facts[a] : Sound(step, facts[a][step])
    /\ Seen(a, "service") /\ Seen(a, "boundary") /\ facts[a]["service"].saw = "effect"
       => facts[a]["boundary"].mark = facts[a]["service"].mark
    /\ part = a /\ Seen(a, "service") => "boundary" \notin Rest

Record == \A a \in Arm : Facts(a)

(* Why a call that no total has cannot be part of a GO. *)
Doomed ==
    \/ raised \/ ~usage.fit \/ ~record.good
    \/ /\ campaign = "chain" /\ part \notin {"setup", "vulnerable"}
       /\ chain["patched"].state # "BLOCKED_BY_PATCH"
       /\ part = "patched" => "BLOCKED_BY_PATCH" \notin Rest

(* A call that is in no total has condemned the verdict, but for an explanation that was lost. *)
Usage ==
    hidden \subseteq {<<"explain", "lost">>} \/ Doomed

(* What is left of the stacks when their removal was not reported as failed. *)
Containers ==
    /\ "worker" \in left => raised
    /\ part \in {"setup"} \cup Arm => record.down = None
    /\ part = "teardown" /\ record.down # "failed" /\ ~raised =>
          /\ "down_ds" \notin Rest => "ds" \notin left
          /\ "down_range" \notin Rest => ~Meets({"range", "network"}, left)
    /\ part \in {"verdict", "over"} /\ record.down = "ok" /\ ~raised => left = {}

(* A GO is still what the record says when it is read. *)
Accepted ==
    /\ written # None => part = "over" /\ ~raised
    /\ written = "GO" => Go

(* The invariant. *)
IInv == /\ Types /\ Control /\ Pristine /\ Jobs /\ Chains /\ Record /\ Usage /\ Containers /\ Accepted

LEMMA StageNat == ASSUME NEW c PROVE Stage(c) \in 1 .. 11
BY DEF Stage

LEMMA TidyTail ==
    ASSUME NEW s, Tidy(s), s # <<>>
    PROVE  /\ Tidy(Tail(s)) /\ Head(s) \in Elements(s)
           /\ Elements(Tail(s)) = Elements(s) \ {Head(s)}
           /\ \A c \in Elements(s) : Stage(Head(s)) <= Stage(c)
<1>1. /\ Head(s) = s[1] /\ Len(s) \in Nat /\ Len(s) >= 1
      /\ Len(Tail(s)) = Len(s) - 1
      /\ \A i \in 1 .. Len(s) - 1 : Tail(s)[i] = s[i + 1]
      /\ Tail(s) \in Seq(Call)
  BY DEF Tidy
<1>2. Tidy(Tail(s))
  <2>1. \A i \in 1 .. Len(s) - 1 : i + 1 \in 1 .. Len(s)
    BY <1>1
  <2>2. QED
    BY <1>1, <2>1 DEF Tidy
<1>3. Head(s) \in Elements(s)
  BY <1>1 DEF Elements
<1>4. Elements(Tail(s)) = Elements(s) \ {Head(s)}
  <2>1. ASSUME NEW c \in Elements(Tail(s)) PROVE c \in Elements(s) \ {Head(s)}
    <3>1. PICK i \in 1 .. Len(s) - 1 : c = s[i + 1]
      BY <1>1, <2>1 DEF Elements
    <3>2. i + 1 \in 1 .. Len(s) /\ 1 \in 1 .. Len(s) /\ 1 < i + 1
      BY <1>1
    <3>3. s[1] # s[i + 1]
      BY <3>2 DEF Tidy
    <3>4. QED
      BY <1>1, <3>1, <3>2, <3>3 DEF Elements
  <2>2. ASSUME NEW c \in Elements(s), c # Head(s) PROVE c \in Elements(Tail(s))
    <3>1. PICK i \in 1 .. Len(s) : c = s[i]
      BY DEF Elements
    <3>2. i # 1
      BY <1>1, <2>2, <3>1
    <3>3. i - 1 \in 1 .. Len(s) - 1 /\ (i - 1) + 1 = i
      BY <1>1, <3>2
    <3>4. Tail(s)[i - 1] = c
      BY <1>1, <3>1, <3>3
    <3>5. QED
      BY <1>1, <3>3, <3>4 DEF Elements
  <2>3. QED
    BY <2>1, <2>2
<1>5. ASSUME NEW c \in Elements(s) PROVE Stage(Head(s)) <= Stage(c)
  <2>1. PICK i \in 1 .. Len(s) : c = s[i]
    BY DEF Elements
  <2>2. CASE i = 1
    BY <1>1, <2>1, <2>2, StageNat
  <2>3. CASE i > 1
    <3>1. 1 \in 1 .. Len(s)
      BY <1>1
    <3>2. QED
      BY <1>1, <2>1, <2>3, <3>1 DEF Tidy
  <2>4. QED
    BY <1>1, <2>1, <2>2, <2>3
<1>6. QED
  BY <1>2, <1>3, <1>4, <1>5

LEMMA TidyConcat ==
    ASSUME NEW s, NEW t, Tidy(s), Tidy(t),
           \A a \in Elements(s), b \in Elements(t) : a # b /\ Stage(a) <= Stage(b)
    PROVE  Tidy(s \o t) /\ Elements(s \o t) = Elements(s) \cup Elements(t)
<1>1. /\ s \in Seq(Call) /\ t \in Seq(Call) /\ Len(s) \in Nat /\ Len(t) \in Nat
      /\ s \o t \in Seq(Call) /\ Len(s \o t) = Len(s) + Len(t)
      /\ \A i \in 1 .. Len(s) : (s \o t)[i] = s[i]
      /\ \A i \in 1 .. Len(s) + Len(t) : i > Len(s) => (s \o t)[i] = t[i - Len(s)]
  BY DEF Tidy
<1> DEFINE st == s \o t
<1> HIDE DEF st
<1>2. /\ Len(st) = Len(s) + Len(t)
      /\ \A i \in 1 .. Len(s) : st[i] = s[i] /\ s[i] \in Elements(s) /\ i \in 1 .. Len(st)
      /\ \A i \in 1 .. Len(st) : i > Len(s) =>
            /\ st[i] = t[i - Len(s)] /\ i - Len(s) \in 1 .. Len(t) /\ t[i - Len(s)] \in Elements(t)
  BY <1>1 DEF st, Elements
<1>3. ASSUME NEW i \in 1 .. Len(st), NEW j \in 1 .. Len(st), i < j
      PROVE  st[i] # st[j] /\ Stage(st[i]) <= Stage(st[j])
  <2>1. CASE j <= Len(s)
    BY <1>1, <1>2, <1>3, <2>1 DEF Tidy
  <2>2. CASE i <= Len(s) /\ j > Len(s)
    BY <1>1, <1>2, <1>3, <2>2
  <2>3. CASE i > Len(s)
    <3> DEFINE m == i - Len(s)
               n == j - Len(s)
    <3>1. m < n /\ m \in 1 .. Len(t) /\ n \in 1 .. Len(t)
      BY <1>1, <1>2, <1>3, <2>3
    <3>2. st[i] = t[m] /\ st[j] = t[n]
      BY <1>1, <1>2, <1>3, <2>3
    <3> HIDE DEF m, n
    <3>3. QED
      BY <3>1, <3>2 DEF Tidy
  <2>4. QED
    BY <1>1, <1>2, <2>1, <2>2, <2>3
<1>4. Elements(st) = Elements(s) \cup Elements(t)
  <2>1. ASSUME NEW c \in Elements(st) PROVE c \in Elements(s) \cup Elements(t)
    BY <1>1, <1>2 DEF Elements
  <2>2. ASSUME NEW c \in Elements(s) PROVE c \in Elements(st)
    BY <1>1, <1>2 DEF Elements
  <2>3. ASSUME NEW c \in Elements(t) PROVE c \in Elements(st)
    <3>1. PICK i \in 1 .. Len(t) : c = t[i]
      BY DEF Elements
    <3>2. i + Len(s) \in 1 .. Len(st) /\ i + Len(s) > Len(s) /\ (i + Len(s)) - Len(s) = i
      BY <1>1, <1>2
    <3>3. QED
      BY <1>2, <3>1, <3>2 DEF Elements
  <2>4. QED
    BY <2>1, <2>2, <2>3
<1>5. QED
  BY <1>1, <1>3, <1>4 DEF st, Tidy

LEMMA CallSet ==
    /\ SetupCalls \subseteq Call /\ TeardownCalls \subseteq Call /\ AdversaryCalls \subseteq Call
    /\ AuthenticationCalls \subseteq Call /\ VulnerableCalls \subseteq Call /\ PatchedCalls \subseteq Call
    /\ BoundaryCalls \subseteq Call /\ Ways \subseteq Call
BY DEF Call

LEMMA SetupList == Tidy(Setup) /\ Elements(Setup) = SetupCalls
<1> DEFINE s == Setup
<1>1. s \in Seq(Call)
  <2>1. SetupCalls \subseteq Call
    BY CallSet DEF SetupCalls
  <2>2. QED
    BY <2>1 DEF Setup, SetupCalls
<1>2. Len(s) = 5
  BY DEF Setup
<1>3. Elements(s) = SetupCalls
  BY <1>2 DEF Elements, Setup, SetupCalls
<1>4. \A i, j \in 1 .. 5 : i < j => s[i] # s[j]
  BY DEF Setup
<1>5. \A i, j \in 1 .. 5 : i < j => Stage(s[i]) <= Stage(s[j])
  BY DEF Setup, Stage
<1>6. QED
  BY <1>1, <1>2, <1>3, <1>4, <1>5 DEF Tidy

LEMMA TeardownList == Tidy(Teardown) /\ Elements(Teardown) = TeardownCalls
<1> DEFINE s == Teardown
<1>1. s \in Seq(Call)
  <2>1. TeardownCalls \subseteq Call
    BY CallSet DEF TeardownCalls
  <2>2. QED
    BY <2>1 DEF Teardown, TeardownCalls
<1>2. Len(s) = 3
  BY DEF Teardown
<1>3. Elements(s) = TeardownCalls
  BY <1>2 DEF Elements, Teardown, TeardownCalls
<1>4. \A i, j \in 1 .. 3 : i < j => s[i] # s[j]
  BY DEF Teardown
<1>5. \A i, j \in 1 .. 3 : i < j => Stage(s[i]) <= Stage(s[j])
  BY DEF Teardown, Stage
<1>6. QED
  BY <1>1, <1>2, <1>3, <1>4, <1>5 DEF Tidy

LEMMA HandoffList == Tidy(Handoff) /\ Elements(Handoff) = HandoffCalls
<1> DEFINE s == Handoff
<1>1. s \in Seq(Call)
  <2>1. HandoffCalls \subseteq Call
    BY CallSet DEF AdversaryCalls
  <2>2. QED
    BY <2>1 DEF Handoff, HandoffCalls
<1>2. Len(s) = 10
  BY DEF Handoff
<1>3. Elements(s) = HandoffCalls
  BY <1>2 DEF Elements, Handoff, HandoffCalls
<1>4. \A i, j \in 1 .. 10 : i < j => s[i] # s[j]
  BY DEF Handoff
<1>5. \A i, j \in 1 .. 10 : i < j => Stage(s[i]) <= Stage(s[j])
  BY DEF Handoff, Stage
<1>6. QED
  BY <1>1, <1>2, <1>3, <1>4, <1>5 DEF Tidy

LEMMA CloseList == Tidy(Close) /\ Elements(Close) = {"settle_agent", "settle_lead"}
<1> DEFINE s == Close
<1>1. s \in Seq(Call)
  <2>1. {"settle_agent", "settle_lead"} \subseteq Call
    BY CallSet DEF Ways
  <2>2. QED
    BY <2>1 DEF Close, Call
<1>2. Len(s) = 2
  BY DEF Close
<1>3. Elements(s) = {"settle_agent", "settle_lead"}
  BY <1>2 DEF Elements, Close
<1>4. \A i, j \in 1 .. 2 : i < j => s[i] # s[j]
  BY DEF Close
<1>5. \A i, j \in 1 .. 2 : i < j => Stage(s[i]) <= Stage(s[j])
  BY DEF Close, Stage
<1>6. QED
  BY <1>1, <1>2, <1>3, <1>4, <1>5 DEF Tidy

LEMMA DetectionList ==
    /\ Tidy(<<"baseline", "alternate", "worker_ends", "adjudicate", "rotate">>)
    /\ Elements(<<"baseline", "alternate", "worker_ends", "adjudicate", "rotate">>)
       = {"baseline", "alternate", "worker_ends", "adjudicate", "rotate"}
<1> DEFINE s == <<"baseline", "alternate", "worker_ends", "adjudicate", "rotate">>
<1>1. s \in Seq(Call)
  <2>1. {"baseline", "alternate", "worker_ends", "adjudicate", "rotate"} \subseteq Call
    BY CallSet DEF AdversaryCalls
  <2>2. QED
    BY <2>1 DEF Call
<1>2. Len(s) = 5
  BY DEF Call
<1>3. Elements(s) = {"baseline", "alternate", "worker_ends", "adjudicate", "rotate"}
  BY <1>2 DEF Elements, Call
<1>4. \A i, j \in 1 .. 5 : i < j => s[i] # s[j]
  BY DEF Call
<1>5. \A i, j \in 1 .. 5 : i < j => Stage(s[i]) <= Stage(s[j])
  BY DEF Stage
<1>6. QED
  BY <1>1, <1>2, <1>3, <1>4, <1>5 DEF Tidy

LEMMA LoginList ==
    ASSUME campaign # "chain"
    PROVE  /\ Tidy(<<"control", "burst", "post", "worker_ends", "interpret", "verify", "accounts">>)
           /\ Elements(<<"control", "burst", "post", "worker_ends", "interpret", "verify", "accounts">>)
              = {"control", "burst", "post", "worker_ends", "interpret", "verify", "accounts"}
<1> DEFINE s == <<"control", "burst", "post", "worker_ends", "interpret", "verify", "accounts">>
<1>1. s \in Seq(Call)
  <2>1. {"control", "burst", "post", "worker_ends", "interpret", "verify", "accounts"} \subseteq Call
    BY CallSet DEF AuthenticationCalls
  <2>2. QED
    BY <2>1 DEF Call
<1>2. Len(s) = 7
  BY DEF Call
<1>3. Elements(s) = {"control", "burst", "post", "worker_ends", "interpret", "verify", "accounts"}
  BY <1>2 DEF Elements, Call
<1>4. \A i, j \in 1 .. 7 : i < j => s[i] # s[j]
  BY DEF Call
<1>5. \A i, j \in 1 .. 7 : i < j => Stage(s[i]) <= Stage(s[j])
  BY DEF Stage
<1>6. QED
  BY <1>1, <1>2, <1>3, <1>4, <1>5 DEF Tidy

LEMMA LinkList ==
    /\ Tidy(<<"worker_ends", "verify", "link_A">>)
    /\ Elements(<<"worker_ends", "verify", "link_A">>) = {"worker_ends", "verify", "link_A"}
<1> DEFINE s == <<"worker_ends", "verify", "link_A">>
<1>1. s \in Seq(Call)
  <2>1. {"worker_ends", "verify", "link_A"} \subseteq Call
    BY CallSet DEF VulnerableCalls
  <2>2. QED
    BY <2>1 DEF Call
<1>2. Len(s) = 3
  BY DEF Call
<1>3. Elements(s) = {"worker_ends", "verify", "link_A"}
  BY <1>2 DEF Elements, Call
<1>4. \A i, j \in 1 .. 3 : i < j => s[i] # s[j]
  BY DEF Call
<1>5. \A i, j \in 1 .. 3 : i < j => Stage(s[i]) <= Stage(s[j])
  BY DEF Stage
<1>6. QED
  BY <1>1, <1>2, <1>3, <1>4, <1>5 DEF Tidy

LEMMA BlockedList ==
    /\ Tidy(<<"worker_ends", "verify", "link_A", "BLOCKED_BY_PATCH", "close_lead">>)
    /\ Elements(<<"worker_ends", "verify", "link_A", "BLOCKED_BY_PATCH", "close_lead">>)
       = {"worker_ends", "verify", "link_A", "BLOCKED_BY_PATCH", "close_lead"}
<1> DEFINE s == <<"worker_ends", "verify", "link_A", "BLOCKED_BY_PATCH", "close_lead">>
<1>1. s \in Seq(Call)
  <2>1. {"worker_ends", "verify", "link_A", "BLOCKED_BY_PATCH", "close_lead"} \subseteq Call
    BY CallSet DEF PatchedCalls
  <2>2. QED
    BY <2>1 DEF Call
<1>2. Len(s) = 5
  BY DEF Call
<1>3. Elements(s) = {"worker_ends", "verify", "link_A", "BLOCKED_BY_PATCH", "close_lead"}
  BY <1>2 DEF Elements, Call
<1>4. \A i, j \in 1 .. 5 : i < j => s[i] # s[j]
  BY DEF Call
<1>5. \A i, j \in 1 .. 5 : i < j => Stage(s[i]) <= Stage(s[j])
  BY DEF Stage
<1>6. QED
  BY <1>1, <1>2, <1>3, <1>4, <1>5 DEF Tidy

LEMMA FailedList == Tidy(<<"FAILED", "close_lead">>) /\ Elements(<<"FAILED", "close_lead">>) = {"FAILED", "close_lead"}
<1> DEFINE s == <<"FAILED", "close_lead">>
<1>1. s \in Seq(Call)
  <2>1. {"FAILED", "close_lead"} \subseteq Call
    BY CallSet DEF Ways
  <2>2. QED
    BY <2>1 DEF Call
<1>2. Len(s) = 2
  BY DEF Call
<1>3. Elements(s) = {"FAILED", "close_lead"}
  BY <1>2 DEF Elements, Call
<1>4. \A i, j \in 1 .. 2 : i < j => s[i] # s[j]
  BY DEF Call
<1>5. \A i, j \in 1 .. 2 : i < j => Stage(s[i]) <= Stage(s[j])
  BY DEF Stage
<1>6. QED
  BY <1>1, <1>2, <1>3, <1>4, <1>5 DEF Tidy

LEMMA CloseAgentList == Tidy(<<"close_agent">>) /\ Elements(<<"close_agent">>) = {"close_agent"}
<1> DEFINE s == <<"close_agent">>
<1>1. s \in Seq(Call)
  <2>1. {"close_agent"} \subseteq Call
    BY CallSet DEF Ways
  <2>2. QED
    BY <2>1 DEF Call
<1>2. Len(s) = 1
  BY DEF Call
<1>3. Elements(s) = {"close_agent"}
  BY <1>2 DEF Elements, Call
<1>4. \A i, j \in 1 .. 1 : i < j => s[i] # s[j]
  BY DEF Call
<1>5. \A i, j \in 1 .. 1 : i < j => Stage(s[i]) <= Stage(s[j])
  BY DEF Stage
<1>6. QED
  BY <1>1, <1>2, <1>3, <1>4, <1>5 DEF Tidy

LEMMA CloseLeadList == Tidy(<<"close_lead">>) /\ Elements(<<"close_lead">>) = {"close_lead"}
<1> DEFINE s == <<"close_lead">>
<1>1. s \in Seq(Call)
  <2>1. {"close_lead"} \subseteq Call
    BY CallSet DEF Ways
  <2>2. QED
    BY <2>1 DEF Call
<1>2. Len(s) = 1
  BY DEF Call
<1>3. Elements(s) = {"close_lead"}
  BY <1>2 DEF Elements, Call
<1>4. \A i, j \in 1 .. 1 : i < j => s[i] # s[j]
  BY DEF Call
<1>5. \A i, j \in 1 .. 1 : i < j => Stage(s[i]) <= Stage(s[j])
  BY DEF Stage
<1>6. QED
  BY <1>1, <1>2, <1>3, <1>4, <1>5 DEF Tidy

LEMMA StageAList == Tidy(StageA) /\ Elements(StageA) = StageACalls
<1> DEFINE s == StageA
<1>1. s \in Seq(Call)
  <2>1. StageACalls \subseteq Call
    BY CallSet DEF VulnerableCalls
  <2>2. QED
    BY <2>1 DEF StageA, StageACalls
<1>2. Len(s) = 10
  BY DEF StageA
<1>3. Elements(s) = StageACalls
  BY <1>2 DEF Elements, StageA, StageACalls
<1>4. \A i, j \in 1 .. 10 : i < j => s[i] # s[j]
  BY DEF StageA
<1>5. \A i, j \in 1 .. 10 : i < j => Stage(s[i]) <= Stage(s[j])
  BY DEF StageA, Stage
<1>6. QED
  BY <1>1, <1>2, <1>3, <1>4, <1>5 DEF Tidy

LEMMA StageBList == Tidy(StageB) /\ Elements(StageB) = {"causal", "control_B", "service"}
<1> DEFINE s == StageB
<1>1. s \in Seq(Call)
  <2>1. {"causal", "control_B", "service"} \subseteq Call
    BY CallSet DEF VulnerableCalls
  <2>2. QED
    BY <2>1 DEF StageB, Call
<1>2. Len(s) = 3
  BY DEF StageB
<1>3. Elements(s) = {"causal", "control_B", "service"}
  BY <1>2 DEF Elements, StageB
<1>4. \A i, j \in 1 .. 3 : i < j => s[i] # s[j]
  BY DEF StageB
<1>5. \A i, j \in 1 .. 3 : i < j => Stage(s[i]) <= Stage(s[j])
  BY DEF StageB, Stage
<1>6. QED
  BY <1>1, <1>2, <1>3, <1>4, <1>5 DEF Tidy

LEMMA FinishList ==
    ASSUME campaign = "chain"
    PROVE  /\ Tidy(Finish)
           /\ Elements(Finish)
              = {"LINK_CONFIRMED", "interpret", "select_B", "verify_B", "link_B", "explain", "final", "close_lead"}
<1> DEFINE s == Finish
<1>1. s \in Seq(Call)
  <2>1. {"LINK_CONFIRMED", "interpret", "select_B", "verify_B", "link_B", "explain", "final", "close_lead"} \subseteq Call
    BY CallSet DEF VulnerableCalls
  <2>2. QED
    BY <2>1 DEF Finish, Call
<1>2. Len(s) = 8
  BY DEF Finish
<1>3. Elements(s) = {"LINK_CONFIRMED", "interpret", "select_B", "verify_B", "link_B", "explain", "final", "close_lead"}
  BY <1>2 DEF Elements, Finish
<1>4. \A i, j \in 1 .. 8 : i < j => s[i] # s[j]
  BY DEF Finish
<1>5. \A i, j \in 1 .. 8 : i < j => Stage(s[i]) <= Stage(s[j])
  BY DEF Finish, Stage
<1>6. QED
  BY <1>1, <1>2, <1>3, <1>4, <1>5 DEF Tidy

LEMMA BoundaryList == ASSUME campaign # "chain" PROVE Tidy(BoundaryArm) /\ Elements(BoundaryArm) = BoundaryCalls
<1> DEFINE s == BoundaryArm
<1>1. s \in Seq(Call)
  <2>1. BoundaryCalls \subseteq Call
    BY CallSet DEF BoundaryCalls
  <2>2. QED
    BY <2>1 DEF BoundaryArm, BoundaryCalls
<1>2. Len(s) = 12
  BY DEF BoundaryArm
<1>3. Elements(s) = BoundaryCalls
  BY <1>2 DEF Elements, BoundaryArm, BoundaryCalls
<1>4. \A i, j \in 1 .. 12 : i < j => s[i] # s[j]
  BY DEF BoundaryArm
<1>5. \A i, j \in 1 .. 12 : i < j => Stage(s[i]) <= Stage(s[j])
  BY DEF BoundaryArm, Stage
<1>6. QED
  BY <1>1, <1>2, <1>3, <1>4, <1>5 DEF Tidy

(* The arms, put together. *)
LEMMA AdversaryList == Tidy(AdversaryArm) /\ Elements(AdversaryArm) = AdversaryCalls
<1> DEFINE mid == <<"baseline", "alternate", "worker_ends", "adjudicate", "rotate">>
           half == Handoff \o mid
<1>1. Tidy(mid) /\ Elements(mid) = {"baseline", "alternate", "worker_ends", "adjudicate", "rotate"}
  BY DetectionList
<1> HIDE DEF mid
<1>2. \A a \in Elements(Handoff), b \in Elements(mid) : a # b /\ Stage(a) <= Stage(b)
  BY <1>1, HandoffList DEF HandoffCalls, Stage
<1>3. Tidy(half) /\ Elements(half) = Elements(Handoff) \cup Elements(mid)
  BY <1>1, <1>2, HandoffList, TidyConcat
<1> HIDE DEF half
<1>4. \A a \in Elements(half), b \in Elements(Close) : a # b /\ Stage(a) <= Stage(b)
  BY <1>1, <1>3, HandoffList, CloseList DEF HandoffCalls, Stage
<1>5. Tidy(half \o Close) /\ Elements(half \o Close) = Elements(half) \cup Elements(Close)
  BY <1>3, <1>4, CloseList, TidyConcat
<1>6. AdversaryArm = half \o Close
  BY DEF AdversaryArm, half, mid
<1>7. QED
  BY <1>1, <1>3, <1>5, <1>6, HandoffList, CloseList DEF AdversaryCalls

LEMMA AuthenticationList ==
    ASSUME campaign # "chain"
    PROVE  Tidy(AuthenticationArm) /\ Elements(AuthenticationArm) = AuthenticationCalls
<1> DEFINE mid == <<"control", "burst", "post", "worker_ends", "interpret", "verify", "accounts">>
           half == Handoff \o mid
<1>1. /\ Tidy(mid)
      /\ Elements(mid) = {"control", "burst", "post", "worker_ends", "interpret", "verify", "accounts"}
  BY LoginList
<1> HIDE DEF mid
<1>2. \A a \in Elements(Handoff), b \in Elements(mid) : a # b /\ Stage(a) <= Stage(b)
  BY <1>1, HandoffList DEF HandoffCalls, Stage
<1>3. Tidy(half) /\ Elements(half) = Elements(Handoff) \cup Elements(mid)
  BY <1>1, <1>2, HandoffList, TidyConcat
<1> HIDE DEF half
<1>4. \A a \in Elements(half), b \in Elements(Close) : a # b /\ Stage(a) <= Stage(b)
  BY <1>1, <1>3, HandoffList, CloseList DEF HandoffCalls, Stage
<1>5. Tidy(half \o Close) /\ Elements(half \o Close) = Elements(half) \cup Elements(Close)
  BY <1>3, <1>4, CloseList, TidyConcat
<1>6. AuthenticationArm = half \o Close
  BY DEF AuthenticationArm, half, mid
<1>7. QED
  BY <1>1, <1>3, <1>5, <1>6, HandoffList, CloseList DEF AuthenticationCalls

(* What follows the boundary where there is no Stage B, and the rest of a chain. *)
NoStageB == <<"worker_ends", "verify", "link_A">> \o Finish
NoStageBCalls == {"worker_ends", "verify", "link_A", "LINK_CONFIRMED", "interpret", "select_B",
                  "verify_B", "link_B", "explain", "final", "close_lead"}

LEMMA NoStageBList ==
    ASSUME campaign = "chain"
    PROVE  Tidy(NoStageB) /\ Elements(NoStageB) = NoStageBCalls
<1> DEFINE links == <<"worker_ends", "verify", "link_A">>
<1>1. Tidy(links) /\ Elements(links) = {"worker_ends", "verify", "link_A"}
  BY LinkList
<1> HIDE DEF links
<1>2. \A a \in Elements(links), b \in Elements(Finish) : a # b /\ Stage(a) <= Stage(b)
  BY <1>1, FinishList DEF Stage
<1>3. Tidy(links \o Finish) /\ Elements(links \o Finish) = Elements(links) \cup Elements(Finish)
  BY <1>1, <1>2, FinishList, TidyConcat
<1>4. NoStageB = links \o Finish
  BY DEF NoStageB, links
<1>5. QED
  BY <1>1, <1>3, <1>4, FinishList DEF NoStageBCalls

LEMMA VulnerableList ==
    ASSUME campaign = "chain"
    PROVE  Tidy(ChainArm("vulnerable")) /\ Elements(ChainArm("vulnerable")) = VulnerableCalls
<1> DEFINE links == <<"worker_ends", "verify", "link_A">>
           stages == StageA \o StageB
           most == stages \o links
<1>1. Tidy(links) /\ Elements(links) = {"worker_ends", "verify", "link_A"}
  BY LinkList
<1> HIDE DEF links
<1>2. \A a \in Elements(StageA), b \in Elements(StageB) : a # b /\ Stage(a) <= Stage(b)
  BY StageAList, StageBList DEF StageACalls, Stage
<1>3. Tidy(stages) /\ Elements(stages) = Elements(StageA) \cup Elements(StageB)
  BY <1>2, StageAList, StageBList, TidyConcat
<1> HIDE DEF stages
<1>4. \A a \in Elements(stages), b \in Elements(links) : a # b /\ Stage(a) <= Stage(b)
  BY <1>1, <1>3, StageAList, StageBList DEF StageACalls, Stage
<1>5. Tidy(most) /\ Elements(most) = Elements(stages) \cup Elements(links)
  BY <1>1, <1>3, <1>4, TidyConcat
<1> HIDE DEF most
<1>6. \A a \in Elements(most), b \in Elements(Finish) : a # b /\ Stage(a) <= Stage(b)
  BY <1>1, <1>3, <1>5, StageAList, StageBList, FinishList DEF StageACalls, Stage
<1>7. Tidy(most \o Finish) /\ Elements(most \o Finish) = Elements(most) \cup Elements(Finish)
  BY <1>5, <1>6, FinishList, TidyConcat
<1>8. ChainArm("vulnerable") = most \o Finish
  BY DEF ChainArm, most, stages, links
<1>9. QED
  BY <1>1, <1>3, <1>5, <1>7, <1>8, StageAList, StageBList, FinishList DEF VulnerableCalls

LEMMA PatchedList ==
    Tidy(ChainArm("patched")) /\ Elements(ChainArm("patched")) = PatchedCalls
<1> DEFINE tail == <<"worker_ends", "verify", "link_A", "BLOCKED_BY_PATCH", "close_lead">>
<1>1. /\ Tidy(tail)
      /\ Elements(tail) = {"worker_ends", "verify", "link_A", "BLOCKED_BY_PATCH", "close_lead"}
  BY BlockedList
<1> HIDE DEF tail
<1>2. \A a \in Elements(StageA), b \in Elements(tail) : a # b /\ Stage(a) <= Stage(b)
  BY <1>1, StageAList DEF StageACalls, Stage
<1>3. Tidy(StageA \o tail) /\ Elements(StageA \o tail) = Elements(StageA) \cup Elements(tail)
  BY <1>1, <1>2, StageAList, TidyConcat
<1>4. ChainArm("patched") = StageA \o tail
  BY DEF ChainArm, tail
<1>5. QED
  BY <1>1, <1>3, <1>4, StageAList DEF PatchedCalls

LEMMA EmptyList == Tidy(<<>>) /\ Elements(<<>>) = {}
BY DEF Tidy, Elements

Begin(p) == CASE p = "setup"    -> SetupCalls
              [] p = "teardown" -> TeardownCalls
              [] p \in Arm      -> CallsOf(p)
              [] OTHER          -> {}

(* What a part calls is what stands here. *)
LEMMA PartCalls ==
    ASSUME campaign \in Campaign, NEW p
    PROVE  Tidy(Calls(p)) /\ Elements(Calls(p)) = Begin(p)
<1>1. CASE p = "setup"
  BY <1>1, SetupList DEF Calls, Begin, Arm
<1>2. CASE p = "teardown"
  BY <1>2, TeardownList DEF Calls, Begin, Arm
<1>3. CASE p \in Arm
  <2>1. Calls(p) = ArmCalls(p) /\ Begin(p) = CallsOf(p)
    BY <1>3 DEF Calls, Begin, Arm
  <2>2. CASE campaign = "adversary"
    BY <2>1, <2>2, AdversaryList DEF ArmCalls, CallsOf
  <2>3. CASE campaign = "authentication"
    BY <2>1, <2>3, AuthenticationList DEF ArmCalls, CallsOf
  <2>4. CASE campaign = "boundary"
    BY <2>1, <2>4, BoundaryList DEF ArmCalls, CallsOf
  <2>5. CASE campaign = "chain"
    BY <1>3, <2>1, <2>5, VulnerableList, PatchedList DEF ArmCalls, CallsOf, Arm
  <2>6. QED
    BY <2>2, <2>3, <2>4, <2>5 DEF Campaign
<1>4. CASE p \notin Arm \cup {"setup", "teardown"}
  BY <1>4, EmptyList DEF Calls, Begin, Arm
<1>5. QED
  BY <1>1, <1>2, <1>3, <1>4

-----------------------------------------------------------------------------
(* How a step moves the campaign on: what it is at comes first of what remains.     *)

First(call) == call \in Rest /\ \A c \in Rest : Stage(call) <= Stage(c)

GoesOn(call) ==
    /\ raised' = raised
    /\ \/ part' = part /\ Rest' = Rest \ {call}
       \/ Rest = {call} /\ part' = After(part) /\ Rest' = Begin(part')

Quits == raised' = TRUE /\ part' \in {"teardown", "over"} /\ Rest' = Begin(part')

Leaves == part = "setup" /\ part' \in {"teardown", "verdict"} /\ Rest' = Begin(part') /\ raised' = raised

Out(call) ==
    CASE campaign = "chain"    -> {"FAILED", "close_lead"}
      [] campaign = "boundary" -> {"close_agent"}
      [] OTHER                 -> IF call = "delegate" THEN {"close_lead"}
                                  ELSE {"settle_agent", "settle_lead"}

Stops == {"delegate", "plan", "plan_chain", "select_B", "broker", "link_A"}

WaysOut(call) == call \in Stops /\ part \in Arm /\ part' = part /\ raised' = raised /\ Rest' = Out(call)

Leaps(call) ==
    /\ campaign = "chain" /\ part = "vulnerable" /\ call = "boundary"
    /\ part' = part /\ raised' = raised /\ Rest' = NoStageBCalls

Skips(call) ==
    /\ call = "link_B" /\ part' = part /\ raised' = raised
    /\ Rest' \subseteq Rest \ {"link_B"} /\ {"final", "close_lead"} \subseteq Rest'

Moves(call) == campaign' = campaign /\ First(call) /\ Tidy(todo')

LEMMA AtFirst ==
    ASSUME Control, NEW call, At(call)
    PROVE  /\ First(call) /\ todo # <<>> /\ call = Head(todo)
           /\ Tidy(Tail(todo)) /\ Elements(Tail(todo)) = Rest \ {call}
           /\ Rest \subseteq Due /\ Due # {} /\ part \in {"setup", "teardown"} \cup Arm
<1>1. Tidy(todo) /\ todo # <<>> /\ call = Head(todo)
  BY DEF Control, At
<1>2. First(call) /\ Tidy(Tail(todo)) /\ Elements(Tail(todo)) = Rest \ {call}
  BY <1>1, TidyTail DEF First, Rest
<1>3. Rest \subseteq Due /\ Due # {}
  BY <1>2 DEF Control, First
<1>4. QED
  BY <1>1, <1>2, <1>3 DEF Due

LEMMA EmptyElements ==
    ASSUME NEW s, Tidy(s)
    PROVE  s = <<>> <=> Elements(s) = {}
<1>1. s \in Seq(Call)
  BY DEF Tidy
<1>2. CASE s = <<>>
  BY <1>2, EmptyList
<1>3. CASE s # <<>>
  <2>1. Len(s) \in Nat /\ Len(s) >= 1
    BY <1>1, <1>3
  <2>2. s[1] \in Elements(s)
    BY <2>1 DEF Elements
  <2>3. QED
    BY <1>3, <2>2
<1>4. QED
  BY <1>2, <1>3

LEMMA EnterMoves ==
    ASSUME campaign \in Campaign, NEW p, Enter(p)
    PROVE  part' = p /\ raised' = raised /\ Tidy(todo') /\ Rest' = Begin(part')
<1>1. part' = p /\ todo' = Calls(p) /\ raised' = raised
  BY DEF Enter
<1>2. Rest' = Elements(todo')
  BY DEF Rest, Elements
<1>3. QED
  BY <1>1, <1>2, PartCalls

LEMMA GoOnMoves ==
    ASSUME Control, NEW call, At(call), GoOn, campaign' = campaign
    PROVE  Moves(call) /\ GoesOn(call)
<1>1. /\ First(call) /\ Tidy(Tail(todo)) /\ Elements(Tail(todo)) = Rest \ {call}
      /\ campaign \in Campaign
  BY AtFirst DEF Control
<1>2. Rest' = Elements(todo')
  BY DEF Rest, Elements
<1>3. CASE Tail(todo) # <<>>
  <2>1. todo' = Tail(todo) /\ part' = part /\ raised' = raised
    BY <1>3 DEF GoOn, Do
  <2>2. QED
    BY <1>1, <1>2, <2>1 DEF Moves, GoesOn
<1>4. CASE Tail(todo) = <<>>
  <2>1. Enter(After(part))
    BY <1>4 DEF GoOn, Do
  <2>2. part' = After(part) /\ raised' = raised /\ Tidy(todo') /\ Rest' = Begin(part')
    BY <1>1, <2>1, EnterMoves
  <2>3. Rest = {call}
    BY <1>1, <1>4, EmptyList DEF First
  <2>4. QED
    BY <1>1, <2>2, <2>3 DEF Moves, GoesOn
<1>5. QED
  BY <1>3, <1>4

LEMMA RaiseMoves ==
    ASSUME Control, NEW call, At(call), Raise, campaign' = campaign
    PROVE  Moves(call) /\ Quits
<1>1. First(call) /\ campaign \in Campaign
  BY AtFirst DEF Control
<1>2. Rest' = Elements(todo') /\ raised' = TRUE
  BY DEF Rest, Elements, Raise
<1>3. CASE part \in Arm \/ At("health")
  <2>1. part' = "teardown" /\ todo' = Teardown
    BY <1>3 DEF Raise
  <2>2. QED
    BY <1>1, <1>2, <2>1, TeardownList DEF Moves, Quits, Begin, Arm
<1>4. CASE ~(part \in Arm \/ At("health"))
  <2>1. part' = "over" /\ todo' = <<>>
    BY <1>4 DEF Raise
  <2>2. QED
    BY <1>1, <1>2, <2>1, EmptyList DEF Moves, Quits, Begin, Arm
<1>5. QED
  BY <1>3, <1>4

LEMMA LeaveMoves ==
    ASSUME Control, NEW call, At(call), NEW p \in {"teardown", "verdict"}, Enter(p), part = "setup",
           campaign' = campaign
    PROVE  Moves(call) /\ Leaves
<1>1. First(call) /\ campaign \in Campaign
  BY AtFirst DEF Control
<1>2. QED
  BY <1>1, EnterMoves DEF Moves, Leaves

LEMMA OutList ==
    ASSUME campaign \in Campaign, NEW call
    PROVE  Tidy(WayOutOf(call)) /\ Elements(WayOutOf(call)) = Out(call) /\ WayOutOf(call) # <<>>
<1>1. Tidy(WayOutOf(call)) /\ Elements(WayOutOf(call)) = Out(call)
  BY FailedList, CloseAgentList, CloseLeadList, CloseList DEF WayOutOf, Out
<1>2. Out(call) # {}
  BY DEF Out
<1>3. QED
  BY <1>1, <1>2, EmptyElements

LEMMA OutMoves ==
    ASSUME Control, NEW call \in Stops, At(call), part \in Arm,
           \/ Do(WayOutOf(call))
           \/ todo' = WayOutOf(call) /\ UNCHANGED <<part, raised>>,
           campaign' = campaign
    PROVE  Moves(call) /\ WaysOut(call)
<1>1. First(call) /\ campaign \in Campaign
  BY AtFirst DEF Control
<1>2. Rest' = Elements(todo')
  BY DEF Rest, Elements
<1>3. todo' = WayOutOf(call) /\ part' = part /\ raised' = raised
  BY <1>1, OutList DEF Do
<1>4. QED
  BY <1>1, <1>2, <1>3, OutList DEF Moves, WaysOut

LEMMA LeapMoves ==
    ASSUME Control, At("boundary"), Do(NoStageB), campaign = "chain", part = "vulnerable",
           campaign' = campaign
    PROVE  Moves("boundary") /\ Leaps("boundary")
<1>1. First("boundary")
  BY AtFirst
<1>2. Rest' = Elements(todo')
  BY DEF Rest, Elements
<1>3. NoStageB # <<>> /\ Tidy(NoStageB) /\ Elements(NoStageB) = NoStageBCalls
  BY NoStageBList, EmptyElements DEF NoStageBCalls
<1>4. todo' = NoStageB /\ part' = part /\ raised' = raised
  BY <1>3 DEF Do
<1>5. QED
  BY <1>1, <1>2, <1>3, <1>4 DEF Moves, Leaps

LEMMA SkipMoves ==
    ASSUME Control, At("link_B"), Do(Tail(Tail(todo))), campaign' = campaign
    PROVE  Moves("link_B") /\ Skips("link_B")
<1>1. /\ First("link_B") /\ Tidy(Tail(todo)) /\ Elements(Tail(todo)) = Rest \ {"link_B"}
      /\ {"explain", "final", "close_lead"} \subseteq Rest
  BY AtFirst DEF Control, Ahead, First
<1> DEFINE t == Tail(todo)
<1>2. t # <<>>
  <2>1. "explain" \in Elements(t)
    BY <1>1
  <2>2. QED
    BY <1>1, <2>1, EmptyElements
<1>3. /\ Tidy(Tail(t)) /\ Elements(Tail(t)) = Elements(t) \ {Head(t)}
      /\ Stage(Head(t)) <= Stage("explain")
  <2>1. "explain" \in Elements(t)
    BY <1>1
  <2>2. QED
    BY <1>1, <1>2, <2>1, TidyTail
<1> HIDE DEF t
<1>4. Stage("explain") = 9 /\ Stage("final") = 10 /\ Stage("close_lead") = 11
  BY DEF Stage
<1>5. Head(t) # "final" /\ Head(t) # "close_lead"
  <2>1. ~(Stage("final") <= Stage("explain")) /\ ~(Stage("close_lead") <= Stage("explain"))
    BY <1>4
  <2>2. QED
    BY <1>3, <2>1
<1>6. Tail(t) # <<>>
  <2>1. "final" \in Elements(Tail(t))
    BY <1>1, <1>3, <1>5 DEF t
  <2>2. QED
    BY <1>3, <2>1, EmptyElements
<1>7. todo' = Tail(t) /\ part' = part /\ raised' = raised
  BY <1>6 DEF Do, t
<1>8. Rest' = Elements(todo')
  BY DEF Rest, Elements
<1>9. QED
  BY <1>1, <1>3, <1>5, <1>7, <1>8 DEF Moves, Skips, t

Kinds(call) == \/ GoesOn(call) \/ Quits \/ Leaves \/ WaysOut(call) \/ Leaps(call) \/ Skips(call)

(* The part a step leads to, and what of it is due. *)
LEMMA DueKept ==
    ASSUME Control, NEW call, Moves(call), Kinds(call)
    PROVE  /\ part' \in {"setup", "vulnerable", "patched", "teardown", "verdict", "over"}
           /\ raised' \in BOOLEAN /\ (raised' => part' \in {"teardown", "over"})
           /\ Rest' \subseteq Due'
<1>1. /\ part \in {"setup", "teardown"} \cup Arm /\ call \in Rest
      /\ Rest \subseteq Due /\ campaign' = campaign /\ campaign \in Campaign
      /\ raised \in BOOLEAN /\ (raised => part \in {"teardown", "over"})
  BY DEF Moves, First, Control, Due
<1>2. ASSUME Rest' = Begin(part') PROVE Rest' \subseteq Due'
  <2>2. CASE part' = "setup"
    BY <1>2, <2>2 DEF Begin, Due, Arm
  <2>3. CASE part' = "teardown"
    BY <1>2, <2>3 DEF Begin, Due, Arm
  <2>4. CASE part' \in Arm
    <3>1. Due' = CallsOf(part') \cup OutCalls
      <4>1. OutCalls' = OutCalls /\ CallsOf(part)' = CallsOf(part')
        BY <1>1 DEF OutCalls, CallsOf
      <4>2. Due' = CallsOf(part)' \cup OutCalls'
        BY <2>4 DEF Due, Arm
      <4>3. QED
        BY <4>1, <4>2
    <3>2. QED
      BY <1>2, <2>4, <3>1 DEF Begin, Arm
  <2>5. CASE part' \notin Arm \cup {"setup", "teardown"}
    BY <1>2, <2>5 DEF Begin
  <2>6. QED
    BY <2>2, <2>3, <2>4, <2>5
<1>3. ASSUME Rest' \subseteq Rest, part' = part PROVE Rest' \subseteq Due'
  <2>1. Due' = Due
    BY <1>1, <1>3 DEF Due, CallsOf, OutCalls
  <2>2. QED
    BY <1>1, <1>3, <2>1
<1>4. CASE GoesOn(call)
  <2>1. part' = part \/ part' = After(part)
    BY <1>4 DEF GoesOn
  <2>2. After(part) \in {"vulnerable", "patched", "teardown", "verdict", "over"}
    BY <1>1 DEF After, Arm
  <2>3. raised' => part' \in {"teardown", "over"}
    BY <1>1, <1>4 DEF GoesOn, After, Arm
  <2>4. Rest' \subseteq Due'
    BY <1>2, <1>3, <1>4 DEF GoesOn
  <2>5. QED
    BY <1>1, <1>4, <2>1, <2>2, <2>3, <2>4 DEF GoesOn, Arm
<1>5. CASE Quits \/ Leaves
  <2>1. Rest' \subseteq Due'
    BY <1>2, <1>5 DEF Quits, Leaves
  <2>2. CASE Quits
    BY <2>1, <2>2 DEF Quits
  <2>3. CASE Leaves
    <3>1. ~raised /\ raised' = raised /\ part' \in {"teardown", "verdict"}
      BY <1>1, <2>3 DEF Leaves
    <3>2. QED
      BY <1>1, <2>1, <3>1
  <2>4. QED
    BY <1>5, <2>2, <2>3
<1>6. CASE WaysOut(call)
  <2>1. Out(call) \subseteq OutCalls
    BY DEF Out, OutCalls
  <2>2. OutCalls' = OutCalls
    BY <1>1 DEF OutCalls
  <2>3. Due' = CallsOf(part)' \cup OutCalls'
    BY <1>6 DEF WaysOut, Due, Arm
  <2>4. QED
    BY <1>1, <1>6, <2>1, <2>2, <2>3 DEF WaysOut, Arm
<1>7. CASE Leaps(call)
  BY <1>1, <1>7 DEF Leaps, Due, Arm, CallsOf, VulnerableCalls, NoStageBCalls
<1>8. CASE Skips(call)
  BY <1>1, <1>3, <1>8 DEF Skips, Arm
<1>9. QED
  BY <1>4, <1>5, <1>6, <1>7, <1>8 DEF Kinds

(* Of what an arm begins with everything is ahead. *)
LEMMA AheadBegins ==
    ASSUME campaign \in Campaign, campaign' = campaign, Rest' = Begin(part')
    PROVE  Ahead'
<1>1. CASE part' = "setup"
  BY <1>1 DEF Ahead, Begin, Arm, SetupCalls, Openers, Closers, Undecided, Decisive, Planning, Meets
<1>2. CASE part' = "teardown"
  BY <1>2 DEF Ahead, Begin, Arm, TeardownCalls, Openers, Closers, Undecided, Decisive, Planning, Meets
<1>3. CASE part' \in Arm
  <2>1. Rest' = CallsOf(part')
    BY <1>3 DEF Begin, Arm
  <2>2. CASE campaign = "adversary"
    BY <2>1, <2>2 DEF Ahead, CallsOf, AdversaryCalls, HandoffCalls, Openers, Closers, Undecided, Decisive, Planning, Meets
  <2>3. CASE campaign = "authentication"
    BY <2>1, <2>3 DEF Ahead, CallsOf, AuthenticationCalls, HandoffCalls, Openers, Closers, Undecided, Decisive,
                      Planning, Meets
  <2>4. CASE campaign = "boundary"
    BY <2>1, <2>4 DEF Ahead, CallsOf, BoundaryCalls, Openers, Closers, Undecided, Decisive, Planning, Meets
  <2>5. CASE campaign = "chain" /\ part' = "vulnerable"
    BY <2>1, <2>5 DEF Ahead, CallsOf, VulnerableCalls, StageACalls, Openers, Closers, Undecided, Decisive,
                      Planning, Meets
  <2>6. CASE campaign = "chain" /\ part' = "patched"
    BY <2>1, <2>6 DEF Ahead, CallsOf, PatchedCalls, StageACalls, Openers, Closers, Undecided, Decisive,
                      Planning, Meets
  <2>7. QED
    BY <1>3, <2>2, <2>3, <2>4, <2>5, <2>6 DEF Campaign, Arm
<1>4. CASE part' \notin Arm \cup {"setup", "teardown"}
  <2>1. Rest' = {}
    BY <1>4 DEF Begin, Arm
  <2>2. QED
    BY <2>1 DEF Ahead, Meets
<1>5. QED
  BY <1>1, <1>2, <1>3, <1>4

LEMMA AheadKept ==
    ASSUME Control, NEW call, Moves(call), Kinds(call)
    PROVE  Ahead'
<1>1. /\ First(call) /\ campaign' = campaign /\ campaign \in Campaign /\ Ahead
  BY DEF Moves, Control
<1>2. CASE Rest' = Begin(part')
  BY <1>1, <1>2, AheadBegins
<1>3. CASE part' = part /\ Rest' = Rest \ {call}
  <2>1. \A who \in {"lead", "agent"} : Meets(Openers[who], Rest') => Meets(Closers[who], Rest')
    <3>1. CASE call \in Closers["lead"] \cup Closers["agent"]
      <4>1. Stage(call) = 11
        BY <3>1 DEF Closers, Stage
      <4>2. \A c \in Openers["lead"] \cup Openers["agent"] : ~(11 <= Stage(c))
        BY DEF Openers, Stage
      <4>3. \A who \in {"lead", "agent"} : ~Meets(Openers[who], Rest')
        BY <1>1, <1>3, <4>1, <4>2 DEF First, Meets
      <4>4. QED
        BY <4>3
    <3>2. CASE call \notin Closers["lead"] \cup Closers["agent"]
      BY <1>1, <1>3, <3>2 DEF Ahead, Meets
    <3>3. QED
      BY <3>1, <3>2
  <2>2. Meets(Undecided, Rest') => Meets(Decisive, Rest')
    <3>1. CASE call \in Decisive
      <4>1. Stage(call) = 10 /\ \A c \in Undecided : ~(10 <= Stage(c))
        BY <3>1 DEF Decisive, Undecided, Stage
      <4>2. QED
        BY <1>1, <1>3, <4>1 DEF First, Meets
    <3>2. CASE call \notin Decisive
      BY <1>1, <1>3, <3>2 DEF Ahead, Meets
    <3>3. QED
      BY <3>1, <3>2
  <2>3. "FAILED" \in Rest' => Rest' \subseteq {"FAILED", "close_lead"}
    BY <1>1, <1>3 DEF Ahead
  <2>4. "link_B" \in Rest' => {"explain", "final", "close_lead"} \subseteq Rest'
    <3>1. CASE call \in {"explain", "final", "close_lead"}
      <4>1. ~(Stage(call) <= Stage("link_B"))
        BY <3>1 DEF Stage
      <4>2. QED
        BY <1>1, <1>3, <4>1 DEF First
    <3>2. CASE call \notin {"explain", "final", "close_lead"}
      BY <1>1, <1>3, <3>2 DEF Ahead
    <3>3. QED
      BY <3>1, <3>2
  <2>5. campaign = "chain" /\ Meets(Planning, Rest') => "link_A" \in Rest'
    <3>1. CASE call = "link_A"
      <4>1. \A c \in Planning : ~(Stage(call) <= Stage(c))
        BY <3>1 DEF Planning, Stage
      <4>2. QED
        BY <1>1, <1>3, <4>1 DEF First, Meets
    <3>2. CASE call # "link_A"
      BY <1>1, <1>3, <3>2 DEF Ahead, Meets
    <3>3. QED
      BY <3>1, <3>2
  <2>6. campaign = "chain" /\ part' = "vulnerable" /\ Meets({"link_A", "LINK_CONFIRMED", "select_B"}, Rest')
        => "link_B" \in Rest'
    <3>1. CASE call = "link_B"
      <4>1. \A c \in {"link_A", "LINK_CONFIRMED", "select_B"} : ~(Stage(call) <= Stage(c))
        BY <3>1 DEF Stage
      <4>2. QED
        BY <1>1, <1>3, <4>1 DEF First, Meets
    <3>2. CASE call # "link_B"
      BY <1>1, <1>3, <3>2 DEF Ahead, Meets
    <3>3. QED
      BY <3>1, <3>2
  <2>7. "link_A" \notin Rest' /\ "link_B" \in Rest' => "verify" \notin Rest'
    <3>1. CASE call = "link_A"
      <4>1. ~(Stage(call) <= Stage("verify"))
        BY <3>1 DEF Stage
      <4>2. QED
        BY <1>1, <1>3, <4>1 DEF First
    <3>2. CASE call # "link_A"
      BY <1>1, <1>3, <3>2 DEF Ahead
    <3>3. QED
      BY <3>1, <3>2
  <2>8. "link_B" \notin Rest' /\ "final" \in Rest' => ~Meets({"verify", "link_A", "verify_B"}, Rest')
    <3>1. CASE call = "link_B"
      <4>1. \A c \in {"verify", "link_A", "verify_B"} : ~(Stage(call) <= Stage(c))
        BY <3>1 DEF Stage
      <4>2. QED
        BY <1>1, <1>3, <4>1 DEF First, Meets
    <3>2. CASE call # "link_B"
      BY <1>1, <1>3, <3>2 DEF Ahead, Meets
    <3>3. QED
      BY <3>1, <3>2
  <2>9. QED
    BY <1>1, <2>1, <2>2, <2>3, <2>4, <2>5, <2>6, <2>7, <2>8 DEF Ahead
<1>4. CASE WaysOut(call)
  <2>1. Rest' = Out(call)
    BY <1>4 DEF WaysOut
  <2>2. CASE campaign = "chain"
    <3>1. Rest' = {"FAILED", "close_lead"}
      BY <2>1, <2>2 DEF Out
    <3>2. QED
      BY <3>1 DEF Ahead, Openers, Closers, Undecided, Decisive, Planning, Meets
  <2>3. CASE campaign = "boundary"
    <3>1. Rest' = {"close_agent"}
      BY <2>1, <2>3 DEF Out
    <3>2. QED
      BY <3>1 DEF Ahead, Openers, Closers, Undecided, Decisive, Planning, Meets
  <2>4. CASE campaign \notin {"chain", "boundary"}
    <3>1. Rest' = {"close_lead"} \/ Rest' = {"settle_agent", "settle_lead"}
      BY <2>1, <2>4 DEF Out
    <3>2. QED
      BY <3>1 DEF Ahead, Openers, Closers, Undecided, Decisive, Planning, Meets
  <2>5. QED
    BY <2>2, <2>3, <2>4
<1>5. CASE Leaps(call)
  <2>1. Rest' = NoStageBCalls /\ part' = "vulnerable"
    BY <1>5 DEF Leaps
  <2>2. QED
    BY <2>1 DEF Ahead, NoStageBCalls, Openers, Closers, Undecided, Decisive, Planning, Meets
<1>6. CASE Skips(call)
  <2>1. \A c \in Rest' : c # "link_B" /\ c \in Rest /\ 8 <= Stage(c)
    BY <1>1, <1>6 DEF Skips, First, Stage
  <2>2. /\ \A c \in Openers["lead"] \cup Openers["agent"] \cup Undecided \cup Planning
                   \cup {"link_A", "select_B", "LINK_CONFIRMED", "verify", "verify_B"} : ~(8 <= Stage(c))
    BY DEF Openers, Undecided, Planning, Stage
  <2>3. "FAILED" \notin Rest'
    BY <1>1, <1>6 DEF Skips, Ahead, First
  <2>4. QED
    BY <2>1, <2>2, <2>3 DEF Ahead, Meets
<1>7. QED
  BY <1>2, <1>3, <1>4, <1>5, <1>6 DEF Kinds, GoesOn, Quits, Leaves

LEMMA ControlKept ==
    ASSUME Control, NEW call, Moves(call), Kinds(call)
    PROVE  Control'
<1>1. Tidy(todo)'
  BY DEF Moves, Tidy, Stage
<1>2. QED
  BY <1>1, DueKept, AheadKept DEF Control, Moves

(* Where a step may lead. *)
LEMMA PartKept ==
    ASSUME Control, NEW call, Moves(call), Kinds(call)
    PROVE  /\ part \in {"setup", "teardown"} \cup Arm /\ call \in Rest /\ campaign' = campaign
           /\ part' = "setup" => part = "setup"
           /\ part' = "vulnerable" => part \in {"setup", "vulnerable"}
           /\ part' = "patched" => part \in {"vulnerable", "patched"}
           /\ raised => raised'
           /\ part' = part \/ ~raised' =>
                 \/ part' = part \/ Leaves \/ (GoesOn(call) /\ Rest = {call} /\ Rest' = Begin(part'))
           /\ part \in Arm /\ part' \notin Arm => part' \in {"teardown", "verdict", "over"}
<1>1. /\ part \in {"setup", "teardown"} \cup Arm /\ call \in Rest /\ campaign' = campaign
      /\ campaign \in Campaign /\ raised \in BOOLEAN
  BY DEF Moves, First, Control, Due
<1>2. After(part) \in {"vulnerable", "patched", "teardown", "verdict", "over"}
      /\ (After(part) = "vulnerable" => part = "setup")
      /\ (After(part) = "patched" => part = "vulnerable")
  BY <1>1 DEF After, Arm
<1>3. CASE GoesOn(call)
  BY <1>1, <1>2, <1>3 DEF GoesOn, Arm
<1>4. CASE Quits
  BY <1>1, <1>4 DEF Quits, Arm
<1>5. CASE Leaves
  BY <1>1, <1>5 DEF Leaves, Arm
<1>6. CASE WaysOut(call) \/ Leaps(call) \/ Skips(call)
  <2>1. part' = part /\ raised' = raised
    BY <1>6 DEF WaysOut, Leaps, Skips
  <2>2. QED
    BY <1>1, <2>1, <1>6 DEF Arm
<1>7. QED
  BY <1>3, <1>4, <1>5, <1>6 DEF Kinds

-----------------------------------------------------------------------------
(* What a step does to the rest, by the call it makes.                         *)

PristineStep ==
    /\ \A a \in Arm \ {part} : facts'[a] = facts[a] /\ job'[a] = job[a] /\ chain'[a] = chain[a]
    /\ part = "setup" => hidden' = hidden

LEMMA PristineKept ==
    ASSUME Control, Pristine, NEW call, Moves(call), Kinds(call), PristineStep
    PROVE  Pristine'
<1>1. /\ part' = "setup" => part = "setup"
      /\ part' = "vulnerable" => part \in {"setup", "vulnerable"}
  BY PartKept
<1>2. ASSUME part' = "setup" PROVE Untouched("vulnerable")' /\ hidden' = {}
  BY <1>1, <1>2 DEF Pristine, PristineStep, Untouched, Arm
<1>3. ASSUME part' \in {"setup", "vulnerable"} PROVE Untouched("patched")'
  BY <1>1, <1>3 DEF Pristine, PristineStep, Untouched, Arm
<1>4. QED
  BY <1>2, <1>3 DEF Pristine

Holds(jobs, who) == jobs[part][who] \in {"QUEUED", "CLAIMED"}

JobStep(call) ==
    /\ record.errors \subseteq record'.errors
    /\ \A a \in Arm \ {part} : job'[a] = job[a]
    /\ part \in Arm => \A who \in {"lead", "agent"} :
          /\ call \in Closers[who] /\ ~raised' => ~Holds(job', who) \/ <<part, who>> \in record'.errors
          /\ Holds(job', who) => Holds(job, who) \/ call \in Openers[who]

LEMMA JobsKept ==
    ASSUME Types, Control, Pristine, Jobs, NEW call, Moves(call), Kinds(call), JobStep(call)
    PROVE  Jobs'
<1>1. /\ part \in {"setup", "teardown"} \cup Arm /\ call \in Rest /\ campaign' = campaign
      /\ campaign \in Campaign /\ (raised => raised') /\ raised \in BOOLEAN /\ Rest \subseteq Due
      /\ First(call)
  BY PartKept DEF Control, Moves
<1>2. ASSUME part \in Arm
      PROVE  /\ campaign = "chain" => Rest \cap {"enqueue_agent", "claim_agent", "delegate"} = {}
             /\ campaign = "boundary" => Rest \cap {"enqueue_lead", "claim_lead", "delegate"} = {}
             /\ "link_B" \in Rest => campaign = "chain"
  <2>1. Due = CallsOf(part) \cup OutCalls
    BY <1>2 DEF Due, Arm
  <2>2. QED
    BY <1>1, <1>2, <2>1 DEF CallsOf, OutCalls, VulnerableCalls, PatchedCalls, BoundaryCalls, StageACalls, Arm,
       Campaign, AdversaryCalls, AuthenticationCalls, HandoffCalls
<1>3. ASSUME campaign = "chain", NEW a \in Arm PROVE ~Open(a, "agent")'
  BY <1>1, <1>2, <1>3 DEF Jobs, Open, JobStep, Holds, Openers
<1>4. ASSUME campaign = "boundary", NEW a \in Arm PROVE ~Open(a, "lead")'
  BY <1>1, <1>2, <1>4 DEF Jobs, Open, JobStep, Holds, Openers
<1>5. ASSUME NEW a \in Arm, NEW who \in {"lead", "agent"}, Open(a, who)',
             <<a, who>> \notin record'.errors, ~raised'
      PROVE  part' = a /\ Meets(Closers[who], Rest')
  <2>1. <<a, who>> \notin record.errors /\ ~raised
    BY <1>1, <1>5 DEF JobStep
  <2>2. CASE a # part
    <3>1. Open(a, who)
      BY <1>5, <2>2 DEF JobStep, Open
    <3>2. QED
      BY <2>1, <2>2, <3>1 DEF Jobs
  <2>3. CASE a = part
    <3>1. Holds(job', who) /\ call \notin Closers[who] /\ (Open(part, who) \/ call \in Openers[who])
      BY <1>5, <2>3 DEF JobStep, Open, Holds
    <3>2. Meets(Closers[who], Rest)
      <4>1. CASE Open(part, who)
        BY <2>1, <2>3, <4>1 DEF Jobs
      <4>2. CASE call \in Openers[who]
        BY <1>1, <4>2 DEF Control, Ahead, Meets
      <4>3. QED
        BY <3>1, <4>1, <4>2
    <3>3. CASE GoesOn(call)
      BY <2>3, <3>1, <3>2, <3>3 DEF GoesOn, Meets
    <3>4. CASE Quits \/ Leaves
      BY <1>5, <2>3, <3>4 DEF Quits, Leaves, Arm
    <3>5. CASE WaysOut(call)
      <4>1. call \notin Openers["lead"] \cup Openers["agent"] /\ part' = part /\ Rest' = Out(call)
        BY <3>5 DEF WaysOut, Stops, Openers
      <4>2. Open(part, who)
        BY <3>1, <4>1
      <4>3. CASE campaign = "chain"
        <5>1. who = "lead"
          BY <1>5, <2>3, <4>2, <4>3 DEF Jobs
        <5>2. QED
          BY <2>3, <4>1, <4>3, <5>1 DEF Out, Closers, Meets
      <4>4. CASE campaign = "boundary"
        <5>1. who = "agent"
          BY <1>5, <2>3, <4>2, <4>4 DEF Jobs
        <5>2. QED
          BY <2>3, <4>1, <4>4, <5>1 DEF Out, Closers, Meets
      <4>5. CASE campaign \notin {"chain", "boundary"} /\ call = "delegate"
        <5>1. who = "lead"
          BY <1>1, <1>5, <2>3, <4>2, <4>5 DEF Jobs
        <5>2. QED
          BY <2>3, <4>1, <4>5, <5>1 DEF Out, Closers, Meets
      <4>6. CASE campaign \notin {"chain", "boundary"} /\ call # "delegate"
        <5>1. Rest' = {"settle_agent", "settle_lead"}
          BY <4>1, <4>6 DEF Out
        <5>2. QED
          BY <2>3, <4>1, <5>1 DEF Closers, Meets
      <4>7. QED
        BY <4>3, <4>4, <4>5, <4>6
    <3>6. CASE Leaps(call) \/ Skips(call)
      <4>1. campaign = "chain" /\ part' = part /\ "close_lead" \in Rest' /\ call \in {"boundary", "link_B"}
        BY <1>1, <1>2, <2>3, <3>6 DEF Leaps, Skips, NoStageBCalls
      <4>2. Open(part, who)
        BY <3>1, <4>1 DEF Openers
      <4>3. who = "lead"
        BY <1>5, <2>3, <4>1, <4>2 DEF Jobs
      <4>4. QED
        BY <2>3, <4>1, <4>3 DEF Closers, Meets
    <3>7. QED
      BY <3>3, <3>4, <3>5, <3>6 DEF Kinds
  <2>4. QED
    BY <2>2, <2>3
<1>6. ASSUME part' \in Arm, "delegate" \in Rest', Open(part, "agent")' PROVE FALSE
  <2>1. CASE part' # part
    <3>1. job[part'] = [lead |-> None, agent |-> None, handoff |-> FALSE]
      BY <1>1, <1>6, <2>1, PartKept DEF Pristine, Untouched, Arm
    <3>2. job'[part'] = job[part']
      BY <1>6, <2>1 DEF JobStep
    <3>3. QED
      BY <1>6, <3>1, <3>2 DEF Open, Types, Said
  <2>2. CASE part' = part
    <3>1. "delegate" \in Rest
      <4>1. After(part) # part
        BY <1>1 DEF After, Arm
      <4>2. QED
        BY <1>6, <2>2, <4>1 DEF Kinds, GoesOn, Quits, Leaves, WaysOut, Out, Leaps, Skips, NoStageBCalls, Arm
    <3>2. ~Open(part, "agent") /\ call \in Openers["agent"]
      BY <1>6, <2>2, <3>1 DEF Jobs, JobStep, Open, Holds
    <3>3. Stage(call) = 2 /\ Stage("delegate") = 1
      BY <3>2 DEF Openers, Stage
    <3>4. QED
      BY <1>1, <3>1, <3>3 DEF First
  <2>3. QED
    BY <2>1, <2>2
<1>7. QED
  BY <1>1, <1>3, <1>4, <1>5, <1>6 DEF Jobs

-----------------------------------------------------------------------------

ChainStep(call) ==
    \/ Quits /\ \A a \in Arm \ {part} : chain'[a] = chain[a]
    \/ /\ call \notin {"RUNNING", "LINK_CONFIRMED", "BLOCKED_BY_PATCH", "FAILED", "link_A", "link_B", "final"}
       /\ chain' = chain
    \/ /\ call \in {"RUNNING", "LINK_CONFIRMED", "BLOCKED_BY_PATCH", "FAILED"} /\ GoesOn(call)
       /\ chain' = State(call)
    \/ call = "link_A" /\ chain' = Linked("verify") /\ (GoesOn(call) \/ WaysOut(call))
    \/ call = "link_B" /\ chain' = Linked("verify_B") /\ (GoesOn(call) \/ Skips(call))
    \/ /\ call = "final" /\ GoesOn(call)
       /\ chain' = State(IF BothConfirmed THEN "CHAIN_CONFIRMED" ELSE "FAILED")

LinksSeen(call) ==
    part \in Arm => \A step \in {"verify", "verify_B"} \ {call} :
        /\ step \in DOMAIN facts'[part] <=> step \in DOMAIN facts[part]
        /\ step \in DOMAIN facts[part] => facts'[part][step] = facts[part][step]

LEMMA LinkKept ==
    ASSUME Control, NEW call, Moves(call), Kinds(call), LinksSeen(call), part \in Arm, part' = part
    PROVE  \A step \in {"verify", "verify_B"} \ {call} : Link(step)' = Link(step)
<1>1. ASSUME NEW step \in {"verify", "verify_B"} \ {call} PROVE Link(step)' = Link(step)
  <2>1. /\ step \in DOMAIN facts'[part] <=> step \in DOMAIN facts[part]
        /\ step \in DOMAIN facts[part] => facts'[part][step] = facts[part][step]
    BY <1>1 DEF LinksSeen
  <2>2. Saw(part, step)' = Saw(part, step)
    BY <2>1 DEF Saw
  <2>3. QED
    BY <2>2 DEF Link
<1>2. QED
  BY <1>1

(* The parts of Chains, for one arm. *)
Ends(a) == chain[a].state \in Undecided => raised \/ (part = a /\ Meets(Decisive, Rest))
Follows(a) ==
    part = a =>
        /\ Meets(Undecided \cup {"FAILED", "BLOCKED_BY_PATCH"}, Rest) => chain[a].links # Both
        /\ "link_A" \in Rest => chain[a].links = <<>>
        /\ "link_A" \notin Rest /\ "link_B" \in Rest => chain[a].links = <<Link("verify")>>
        /\ "link_B" \notin Rest /\ "final" \in Rest
           => chain[a].links = <<Link("verify"), Link("verify_B")>>
        /\ "final" \in Rest => chain[a].state # "CHAIN_CONFIRMED"
        /\ chain[a].state = "BLOCKED_BY_PATCH" => Rest \subseteq {"close_lead"}
Agrees(a) ==
    ~raised /\ ~(part = a /\ "final" \in Rest) =>
        (chain[a].state = "CHAIN_CONFIRMED" <=> chain[a].links = Both)

LEMMA ChainsParts == Chains <=> \A a \in Arm : Ends(a) /\ Follows(a) /\ Agrees(a)
BY DEF Chains, Ends, Follows, Agrees

LEMMA BothIs == Both # <<>> /\ \A x : <<x>> # Both /\ \A y : (<<x, y>> = Both <=> x = "CONFIRMED" /\ y = "CONFIRMED")
BY DEF Both

(* An arm the campaign is not in. *)
LEMMA ChainsElsewhere ==
    ASSUME Types, Control, Pristine, Chains, NEW call, Moves(call), Kinds(call), ChainStep(call),
           NEW a \in Arm, a # part
    PROVE  Ends(a)' /\ Follows(a)' /\ Agrees(a)'
<1>1. /\ chain'[a] = chain[a]
  BY DEF ChainStep, State, Linked, Types, Arm
<1>2. (raised => raised') /\ campaign' = campaign /\ campaign \in Campaign
  BY PartKept DEF Control
<1>3. Ends(a) /\ Agrees(a)
  BY ChainsParts
<1>4. Ends(a)'
  BY <1>1, <1>2, <1>3 DEF Ends
<1>5. CASE part' # a
  BY <1>1, <1>2, <1>3, <1>4, <1>5 DEF Follows, Agrees, Ends
<1>6. CASE part' = a
  <2>1. chain[a] = [state |-> None, links |-> <<>>]
    BY <1>6, PartKept DEF Pristine, Untouched, Arm
  <2>2. GoesOn(call) /\ Rest' = Begin(part')
    BY <1>6, PartKept DEF Leaves, Quits, Kinds, GoesOn, WaysOut, Leaps, Skips, Arm
  <2>3. chain'[a].links = <<>> /\ chain'[a].state = None /\ None \notin Said
    BY <1>1, <2>1 DEF Types
  <2>4. "link_B" \in Rest' \/ "final" \in Rest' => "link_A" \in Rest' /\ "link_B" \in Rest'
    BY <1>2, <1>6, <2>2 DEF Begin, CallsOf, Arm, Campaign, AdversaryCalls, AuthenticationCalls, HandoffCalls,
       VulnerableCalls, PatchedCalls, StageACalls, BoundaryCalls
  <2>5. Follows(a)'
    BY <2>3, <2>4, BothIs DEF Follows, Said
  <2>6. Agrees(a)'
    BY <2>3, BothIs DEF Agrees, Said
  <2>7. QED
    BY <1>4, <2>5, <2>6
<1>7. QED
  BY <1>5, <1>6

(* The arm the campaign is in. *)
LEMMA ChainDue ==
    ASSUME Control, part \in Arm
    PROVE  /\ Meets({"link_A", "link_B", "final", "RUNNING", "LINK_CONFIRMED", "FAILED", "BLOCKED_BY_PATCH"}, Rest)
              => campaign = "chain"
           /\ Meets({"link_B", "final", "select_B"}, Rest) => part = "vulnerable"
           /\ "BLOCKED_BY_PATCH" \in Rest => part = "patched"
           /\ campaign = "chain" => /\ "delegate" \notin Rest
                                   /\ Rest \subseteq VulnerableCalls \cup PatchedCalls \cup {"FAILED"}
<1>1. Rest \subseteq CallsOf(part) \cup OutCalls /\ campaign \in Campaign
  BY DEF Control, Due, Arm
<1>2. QED
  BY <1>1 DEF CallsOf, OutCalls, Arm, Campaign, Meets, AdversaryCalls, AuthenticationCalls, HandoffCalls,
     VulnerableCalls, PatchedCalls, StageACalls, BoundaryCalls

(* What a step does to the row of the arm it is in. *)
Marks == {"RUNNING", "LINK_CONFIRMED", "BLOCKED_BY_PATCH", "FAILED"}

Told(call, a) ==
    \/ /\ call \notin Marks \cup {"link_A", "link_B", "final"}
       /\ chain'[a] = chain[a]
    \/ /\ call \in Marks /\ GoesOn(call)
       /\ chain'[a].state = call /\ chain'[a].links = chain[a].links
    \/ /\ call = "link_A" /\ (GoesOn(call) \/ WaysOut(call))
       /\ chain'[a].state = chain[a].state /\ chain'[a].links = <<Link("verify")>>
    \/ /\ call = "link_B" /\ (GoesOn(call) \/ Skips(call))
       /\ chain'[a].state = chain[a].state /\ chain'[a].links = <<Link("verify"), Link("verify_B")>>
    \/ /\ call = "final" /\ GoesOn(call) /\ chain'[a].links = chain[a].links
       /\ chain'[a].state = IF chain[a].links = Both THEN "CHAIN_CONFIRMED" ELSE "FAILED"

LEMMA ChainTold ==
    ASSUME Types, Control, Chains, NEW call, Moves(call), ChainStep(call), ~Quits,
           part \in Arm, NEW a, a = part
    PROVE  Told(call, a)
<1>1. /\ Follows(a) /\ chain[a].links \in Seq({"CONFIRMED", "PASS", "INCOMPLETE"})
      /\ First(call) /\ Ahead
  BY ChainsParts DEF Types, Moves, Control
<1> DEFINE X == {None, "RUNNING", "LINK_CONFIRMED", "CHAIN_CONFIRMED", "BLOCKED_BY_PATCH", "FAILED"}
           Y == Seq({"CONFIRMED", "PASS", "INCOMPLETE"})
<1>0. chain \in [Arm -> [state : X, links : Y]]
  BY DEF Types
<1> HIDE DEF X, Y
<1>2. CASE call \notin Marks \cup {"link_A", "link_B", "final"} /\ chain' = chain
  BY <1>2 DEF Told
<1>3. CASE call \in Marks /\ GoesOn(call) /\ chain' = State(call)
  BY <1>0, <1>1, <1>3 DEF Told, State
<1>4. CASE call = "link_A" /\ chain' = Linked("verify") /\ (GoesOn(call) \/ WaysOut(call))
  <2>1. chain[a].links = <<>>
    BY <1>1, <1>4 DEF Follows, First
  <2>2. chain'[a].state = chain[a].state /\ chain'[a].links = Append(chain[a].links, Link("verify"))
    BY <1>0, <1>1, <1>4 DEF Linked
  <2>3. QED
    BY <1>4, <2>1, <2>2 DEF Told
<1>5. CASE call = "link_B" /\ chain' = Linked("verify_B") /\ (GoesOn(call) \/ Skips(call))
  <2>1. "link_A" \notin Rest
    <3>1. ~(Stage("link_B") <= Stage("link_A"))
      BY DEF Stage
    <3>2. QED
      BY <1>1, <1>5, <3>1 DEF First
  <2>2. chain[a].links = <<Link("verify")>>
    BY <1>1, <1>5, <2>1 DEF Follows, First
  <2>3. chain'[a].state = chain[a].state /\ chain'[a].links = Append(chain[a].links, Link("verify_B"))
    BY <1>0, <1>1, <1>5 DEF Linked
  <2>4. QED
    BY <1>5, <2>2, <2>3 DEF Told
<1>6. CASE /\ call = "final" /\ GoesOn(call)
           /\ chain' = State(IF BothConfirmed THEN "CHAIN_CONFIRMED" ELSE "FAILED")
  <2>1. "link_B" \notin Rest
    <3>1. ~(Stage("final") <= Stage("link_B"))
      BY DEF Stage
    <3>2. QED
      BY <1>1, <1>6, <3>1 DEF First
  <2>2. chain[a].links = <<Link("verify"), Link("verify_B")>>
    BY <1>1, <1>6, <2>1 DEF Follows, First
  <2>3. BothConfirmed <=> Link("verify") = "CONFIRMED" /\ Link("verify_B") = "CONFIRMED"
    BY DEF BothConfirmed, Confirmed, Link
  <2>4. BothConfirmed <=> chain[a].links = Both
    BY <2>2, <2>3, BothIs
  <2>5. /\ chain'[a].state = IF BothConfirmed THEN "CHAIN_CONFIRMED" ELSE "FAILED"
        /\ chain'[a].links = chain[a].links
    BY <1>0, <1>1, <1>6 DEF State
  <2>6. QED
    BY <1>6, <2>4, <2>5 DEF Told
<1>7. QED
  BY <1>2, <1>3, <1>4, <1>5, <1>6 DEF ChainStep, Marks

(* An arm the campaign goes on from: its chain is decided. *)
LEMMA ChainsLeft ==
    ASSUME Types, Control, Chains, NEW call, Moves(call), Kinds(call), ChainStep(call),
           part \in Arm, part' # part, NEW a, a = part
    PROVE  Ends(a)' /\ Follows(a)' /\ Agrees(a)'
<1>1. CASE Quits
  BY <1>1 DEF Quits, Ends, Follows, Agrees
<1>2. CASE ~Quits
  <2>1. /\ Rest = {call} /\ Told(call, a) /\ Ends(a) /\ Follows(a) /\ Agrees(a) /\ Ahead /\ ~raised
    BY <1>2, ChainTold, ChainsParts DEF Kinds, GoesOn, Leaves, WaysOut, Leaps, Skips, Control, Arm
  <2>2. call \notin Undecided \cup {"link_B"}
    BY <2>1 DEF Ahead, Meets, Undecided, Decisive
  <2>3. chain'[a].state \notin Undecided
    <3>1. CASE call \in Decisive
      BY <2>1, <3>1 DEF Told, Decisive, Undecided, Marks
    <3>2. CASE call \notin Decisive
      BY <2>1, <2>2, <3>2 DEF Told, Ends, Meets, Undecided, Decisive, Marks
    <3>3. QED
      BY <3>1, <3>2
  <2>4. chain'[a].state = "CHAIN_CONFIRMED" <=> chain'[a].links = Both
    <3>1. CASE call = "final"
      BY <2>1, <3>1 DEF Told, Marks
    <3>2. CASE call = "link_A"
      <4>1. chain[a].links = <<>> /\ chain[a].state # "CHAIN_CONFIRMED"
        BY <2>1, <3>2, BothIs DEF Follows, Agrees
      <4>2. QED
        BY <2>1, <3>2, <4>1, BothIs DEF Told, Marks
    <3>3. CASE call \in Marks
      <4>1. chain[a].links # Both
        BY <2>1, <3>3 DEF Follows, Meets, Undecided, Marks
      <4>2. QED
        BY <2>1, <3>3, <4>1 DEF Told, Marks
    <3>4. CASE call \notin Marks \cup {"final", "link_A"}
      BY <2>1, <2>2, <3>4 DEF Told, Agrees
    <3>5. QED
      BY <3>1, <3>2, <3>3, <3>4
  <2>5. QED
    BY <2>3, <2>4 DEF Ends, Follows, Agrees
<1>3. QED
  BY <1>1, <1>2

(* The arm the campaign stays in. *)
LEMMA ChainsHere ==
    ASSUME Types, Control, Chains, NEW call, Moves(call), Kinds(call), ChainStep(call),
           LinksSeen(call), part \in Arm, part' = part, NEW a, a = part
    PROVE  Ends(a)' /\ Follows(a)' /\ Agrees(a)'
<1>1. ~Quits /\ ~Leaves /\ ~raised /\ ~raised' /\ (GoesOn(call) => Rest' = Rest \ {call})
  <2>1. After(part) # part
    BY DEF After, Arm
  <2>2. ~raised /\ ~Quits /\ ~Leaves
    BY DEF Control, Quits, Leaves, Arm
  <2>3. QED
    BY <2>1, <2>2 DEF Kinds, GoesOn, WaysOut, Leaps, Skips
<1>2. /\ Told(call, a) /\ Ends(a) /\ Follows(a) /\ Agrees(a) /\ Ahead /\ First(call) /\ call \in Rest
      /\ \A step \in {"verify", "verify_B"} \ {call} : Link(step)' = Link(step)
  BY <1>1, ChainTold, ChainsParts, LinkKept DEF Moves, Control, First
<1>3. GoesOn(call) \/ WaysOut(call) \/ Leaps(call) \/ Skips(call)
  BY <1>1 DEF Kinds
<1> DEFINE old == chain[a].links
           new == chain'[a].links
           was == chain[a].state
           is == chain'[a].state
<1>4. /\ Meets(Undecided \cup {"FAILED", "BLOCKED_BY_PATCH"}, Rest) => old # Both
      /\ "link_A" \in Rest => old = <<>>
      /\ "link_A" \notin Rest /\ "link_B" \in Rest => old = <<Link("verify")>>
      /\ "link_B" \notin Rest /\ "final" \in Rest => old = <<Link("verify"), Link("verify_B")>>
      /\ "final" \in Rest => was # "CHAIN_CONFIRMED"
      /\ was = "BLOCKED_BY_PATCH" => Rest \subseteq {"close_lead"}
  BY <1>2 DEF Follows
<1>5. was \in Undecided => Meets(Decisive, Rest)
  BY <1>1, <1>2 DEF Ends
<1>6. "final" \notin Rest => (was = "CHAIN_CONFIRMED" <=> old = Both)
  BY <1>1, <1>2 DEF Agrees
<1>7. /\ Meets({"link_A", "link_B", "final", "RUNNING", "LINK_CONFIRMED", "FAILED", "BLOCKED_BY_PATCH"}, Rest)
         => campaign = "chain"
      /\ Meets({"link_B", "final", "select_B"}, Rest) => part = "vulnerable"
      /\ "BLOCKED_BY_PATCH" \in Rest => part = "patched"
      /\ campaign = "chain" => /\ "delegate" \notin Rest
                              /\ Rest \subseteq VulnerableCalls \cup PatchedCalls \cup {"FAILED"}
  BY ChainDue
<1>8. /\ "FAILED" \in Rest => Rest \subseteq {"FAILED", "close_lead"}
      /\ "link_B" \in Rest => {"explain", "final", "close_lead"} \subseteq Rest
      /\ campaign = "chain" /\ Meets(Planning, Rest) => "link_A" \in Rest
      /\ campaign = "chain" /\ part = "vulnerable" /\ Meets({"link_A", "LINK_CONFIRMED", "select_B"}, Rest)
         => "link_B" \in Rest
      /\ "link_A" \notin Rest /\ "link_B" \in Rest => "verify" \notin Rest
      /\ "link_B" \notin Rest /\ "final" \in Rest => ~Meets({"verify", "link_A", "verify_B"}, Rest)
      /\ Meets(Undecided, Rest) => Meets(Decisive, Rest)
  BY <1>2 DEF Ahead
<1>9. ASSUME call = "link_B"
      PROVE  /\ "link_A" \notin Rest /\ "FAILED" \notin Rest
             /\ ~Meets(Undecided \cup {"FAILED", "BLOCKED_BY_PATCH"}, Rest)
  <2>1. ~(Stage("link_B") <= Stage("link_A")) /\ \A c \in Undecided : ~(Stage("link_B") <= Stage(c))
    BY DEF Stage, Undecided
  <2>2. "FAILED" \notin Rest /\ "BLOCKED_BY_PATCH" \notin Rest
    BY <1>2, <1>7, <1>8, <1>9 DEF Meets
  <2>3. QED
    BY <1>2, <1>9, <2>1, <2>2 DEF First, Meets
<1>10. ASSUME WaysOut(call)
       PROVE  /\ Rest' = Out(call) /\ call \in Stops
              /\ campaign = "chain" => old = <<>> \/ old = <<Link("verify")>> \/ call = "link_A"
  <2>1. Rest' = Out(call) /\ call \in Stops
    BY <1>10 DEF WaysOut
  <2>2. ASSUME campaign = "chain", call # "link_A" PROVE old = <<>> \/ old = <<Link("verify")>>
    <3>1. CASE call = "select_B"
      <4>1. "link_B" \in Rest
        BY <1>2, <1>7, <1>8, <2>2, <3>1 DEF Meets
      <4>2. QED
        BY <1>4, <4>1
    <3>2. CASE call # "select_B"
      <4>1. call \in Planning
        BY <1>2, <1>7, <2>1, <2>2, <3>2 DEF Planning, Stops
      <4>2. QED
        BY <1>2, <1>4, <1>8, <2>2, <4>1 DEF Meets
    <3>3. QED
      BY <3>1, <3>2
  <2>3. QED
    BY <2>1, <2>2
<1>11. ASSUME Leaps(call)
       PROVE  /\ Rest' = NoStageBCalls /\ chain'[a] = chain[a] /\ campaign = "chain"
              /\ old = <<>> /\ {"link_B", "final"} \subseteq Rest
  <2>1. call = "boundary" /\ campaign = "chain" /\ part = "vulnerable" /\ Rest' = NoStageBCalls
    BY <1>11 DEF Leaps
  <2>2. "link_A" \in Rest
    BY <1>2, <1>8, <2>1 DEF Meets, Planning
  <2>3. "link_B" \in Rest
    BY <1>8, <2>1, <2>2 DEF Meets
  <2>4. chain'[a] = chain[a]
    BY <1>2, <2>1 DEF Told, Marks
  <2>5. QED
    BY <1>4, <1>8, <2>1, <2>2, <2>3, <2>4
<1>12. ASSUME Skips(call)
       PROVE  /\ call = "link_B" /\ Rest' \subseteq Rest \ {"link_B"} /\ {"final", "close_lead"} \subseteq Rest'
              /\ is = was /\ new = <<Link("verify"), Link("verify_B")>>
  <2>1. call = "link_B" /\ Rest' \subseteq Rest \ {"link_B"} /\ {"final", "close_lead"} \subseteq Rest'
    BY <1>12 DEF Skips
  <2>2. QED
    BY <1>2, <2>1 DEF Told, Marks
<1> HIDE DEF old, new, was, is
<1>13. /\ call \notin Marks \cup {"final"} => is = was
       /\ call \notin {"link_A", "link_B"} => new = old
       /\ call \in Marks => is = call /\ GoesOn(call)
       /\ call = "link_A" => new = <<Link("verify")>> /\ (GoesOn(call) \/ WaysOut(call))
       /\ call = "link_B" => new = <<Link("verify"), Link("verify_B")>>
       /\ call = "final" => GoesOn(call) /\ is = IF old = Both THEN "CHAIN_CONFIRMED" ELSE "FAILED"
  BY <1>2 DEF Told, Marks, old, new, was, is
<1>14. /\ new # <<>> /\ (new = <<Link("verify")>>) => new # Both
       /\ (old = <<>> \/ old = <<Link("verify")>>) => old # Both
  BY BothIs
<1>15. is \in Undecided => Meets(Decisive, Rest')
  <2>1. CASE GoesOn(call)
    <3>1. CASE call \in Decisive
      BY <1>13, <2>1, <3>1 DEF Decisive, Undecided, Marks
    <3>2. CASE call \in Undecided
      BY <1>1, <1>2, <1>8, <2>1, <3>2 DEF Meets, Decisive, Undecided
    <3>3. CASE call \notin Decisive \cup Undecided
      <4>1. is = was
        BY <1>13, <3>3 DEF Marks, Undecided, Decisive
      <4>2. QED
        BY <1>1, <1>5, <2>1, <3>3, <4>1 DEF Meets
    <3>4. QED
      BY <3>1, <3>2, <3>3
  <2>2. CASE WaysOut(call)
    <3>1. is = was
      BY <1>10, <1>13, <2>2 DEF Stops, Marks
    <3>2. Meets(Decisive, Rest) => campaign = "chain"
      BY <1>7 DEF Meets, Decisive
    <3>3. QED
      BY <1>5, <1>10, <2>2, <3>1, <3>2 DEF Out, Meets, Decisive
  <2>3. CASE Leaps(call)
    BY <1>11, <2>3 DEF Meets, Decisive, NoStageBCalls
  <2>4. CASE Skips(call)
    BY <1>12, <2>4 DEF Meets, Decisive
  <2>5. QED
    BY <1>3, <2>1, <2>2, <2>3, <2>4
<1>16. Meets(Undecided \cup {"FAILED", "BLOCKED_BY_PATCH"}, Rest') => new # Both
  <2>1. CASE GoesOn(call) \/ Skips(call)
    <3>1. Rest' \subseteq Rest
      BY <1>1, <1>12, <2>1
    <3>2. CASE call = "link_B"
      BY <1>9, <3>1, <3>2 DEF Meets
    <3>3. CASE call = "link_A"
      BY <1>13, <1>14, <3>3
    <3>4. CASE call \notin {"link_A", "link_B"}
      BY <1>4, <1>13, <3>1, <3>4 DEF Meets
    <3>5. QED
      BY <3>2, <3>3, <3>4
  <2>2. CASE WaysOut(call)
    <3>1. CASE campaign = "chain"
      <4>1. CASE call = "link_A"
        BY <1>13, <1>14, <4>1
      <4>2. CASE call # "link_A"
        BY <1>10, <1>13, <1>14, <2>2, <3>1, <4>2 DEF Stops
      <4>3. QED
        BY <4>1, <4>2
    <3>2. CASE campaign # "chain"
      BY <1>10, <2>2, <3>2 DEF Out, Meets, Undecided
    <3>3. QED
      BY <3>1, <3>2
  <2>3. CASE Leaps(call)
    BY <1>11, <1>14, <2>3 DEF old, new
  <2>4. QED
    BY <1>3, <2>1, <2>2, <2>3
<1>17. "link_A" \in Rest' => new = <<>>
  <2>1. CASE GoesOn(call) \/ Skips(call)
    <3>1. Rest' \subseteq Rest \ {call}
      BY <1>1, <1>12, <2>1
    <3>2. CASE call = "link_B"
      BY <1>9, <3>1, <3>2
    <3>3. CASE call # "link_B"
      BY <1>4, <1>13, <3>1, <3>3
    <3>4. QED
      BY <3>2, <3>3
  <2>2. CASE WaysOut(call)
    BY <1>10, <2>2 DEF Out
  <2>3. CASE Leaps(call)
    BY <1>11, <2>3 DEF old, new
  <2>4. QED
    BY <1>3, <2>1, <2>2, <2>3
<1>18. "link_A" \notin Rest' /\ "link_B" \in Rest' => new = <<Link("verify")'>>
  <2>1. CASE GoesOn(call)
    <3>1. Rest' = Rest \ {call}
      BY <1>1, <2>1
    <3>2. CASE call = "link_A"
      BY <1>2, <1>13, <3>2
    <3>3. CASE call # "link_A"
      BY <1>2, <1>4, <1>8, <1>13, <3>1, <3>3
    <3>4. QED
      BY <3>2, <3>3
  <2>2. CASE WaysOut(call)
    BY <1>10, <2>2 DEF Out
  <2>3. CASE Leaps(call)
    BY <1>11, <2>3 DEF NoStageBCalls
  <2>4. CASE Skips(call)
    BY <1>12, <2>4
  <2>5. QED
    BY <1>3, <2>1, <2>2, <2>3, <2>4
<1>19. "link_B" \notin Rest' /\ "final" \in Rest' => new = <<Link("verify")', Link("verify_B")'>>
  <2>1. CASE call = "link_B"
    BY <1>2, <1>13, <2>1
  <2>2. CASE call # "link_B"
    <3>1. CASE GoesOn(call)
      <4>1. Rest' = Rest \ {call}
        BY <1>1, <3>1
      <4>2. ASSUME "link_B" \notin Rest', "final" \in Rest'
            PROVE  /\ call \notin {"verify", "verify_B", "link_A"}
                   /\ old = <<Link("verify"), Link("verify_B")>>
        BY <1>2, <1>4, <1>8, <2>2, <4>1, <4>2 DEF Meets
      <4>3. QED
        BY <1>2, <1>13, <2>2, <4>2
    <3>2. CASE WaysOut(call)
      BY <1>10, <3>2 DEF Out
    <3>3. CASE Leaps(call)
      BY <1>11, <3>3 DEF NoStageBCalls
    <3>4. QED
      BY <1>3, <1>12, <2>2, <3>1, <3>2, <3>3
  <2>3. QED
    BY <2>1, <2>2
<1>20. "final" \in Rest' => is # "CHAIN_CONFIRMED"
  <2>1. CASE GoesOn(call)
    <3>1. CASE call = "final"
      BY <1>1, <2>1, <3>1
    <3>2. CASE call # "final"
      BY <1>1, <1>4, <1>13, <2>1, <3>2 DEF Marks
    <3>3. QED
      BY <3>1, <3>2
  <2>2. CASE WaysOut(call)
    BY <1>10, <2>2 DEF Out
  <2>3. CASE Leaps(call)
    BY <1>4, <1>11, <2>3 DEF was, is
  <2>4. CASE Skips(call)
    BY <1>4, <1>12, <2>4
  <2>5. QED
    BY <1>3, <2>1, <2>2, <2>3, <2>4
<1>21. is = "BLOCKED_BY_PATCH" => Rest' \subseteq {"close_lead"}
  <2>1. CASE call = "BLOCKED_BY_PATCH"
    <3>1. campaign = "chain" /\ part = "patched"
      BY <1>2, <1>7, <2>1 DEF Meets
    <3>2. Rest \subseteq PatchedCalls \cup {"FAILED", "close_lead"} /\ "FAILED" \notin Rest
      BY <1>2, <1>8, <2>1, <3>1 DEF Control, Due, CallsOf, OutCalls, Arm
    <3>3. \A c \in StageACalls \cup {"worker_ends", "verify", "link_A"} : ~(Stage("BLOCKED_BY_PATCH") <= Stage(c))
      BY <3>1 DEF Stage, StageACalls
    <3>4. Rest \subseteq {"BLOCKED_BY_PATCH", "close_lead"}
      BY <1>2, <2>1, <3>2, <3>3 DEF First, PatchedCalls
    <3>5. QED
      BY <1>1, <1>13, <2>1, <3>4 DEF Marks
  <2>2. CASE call # "BLOCKED_BY_PATCH"
    <3>1. is = "BLOCKED_BY_PATCH" => was = "BLOCKED_BY_PATCH" /\ call = "close_lead"
      BY <1>2, <1>4, <1>13, <2>2 DEF Marks
    <3>2. CASE GoesOn(call)
      BY <1>1, <1>4, <3>1, <3>2
    <3>3. CASE ~GoesOn(call)
      BY <1>3, <3>1, <3>3 DEF WaysOut, Leaps, Skips, Stops
    <3>4. QED
      BY <3>2, <3>3
  <2>3. QED
    BY <2>1, <2>2
<1>22. "final" \notin Rest' => (is = "CHAIN_CONFIRMED" <=> new = Both)
  <2>1. CASE "final" \notin Rest
    <3>1. CASE call \in Marks
      <4>1. old # Both
        BY <1>2, <1>4, <3>1 DEF Meets, Undecided, Marks
      <4>2. QED
        BY <1>13, <3>1, <4>1 DEF Marks
    <3>2. CASE call = "link_A"
      <4>1. old = <<>> /\ was # "CHAIN_CONFIRMED"
        BY <1>2, <1>4, <1>6, <1>14, <2>1, <3>2
      <4>2. QED
        BY <1>13, <1>14, <3>2, <4>1 DEF Marks
    <3>3. CASE call = "link_B"
      BY <1>2, <1>8, <2>1, <3>3
    <3>4. CASE call \notin Marks \cup {"link_A", "link_B"}
      BY <1>2, <1>6, <1>13, <2>1, <3>4
    <3>5. QED
      BY <3>1, <3>2, <3>3, <3>4
  <2>2. CASE "final" \in Rest
    <3>1. was # "CHAIN_CONFIRMED" /\ campaign = "chain"
      BY <1>4, <1>7, <2>2 DEF Meets
    <3>2. CASE GoesOn(call)
      <4>1. CASE call = "final"
        BY <1>13, <4>1
      <4>2. CASE call # "final"
        BY <1>1, <2>2, <3>2, <4>2
      <4>3. QED
        BY <4>1, <4>2
    <3>3. CASE WaysOut(call)
      <4>1. is = was
        BY <1>10, <1>13, <3>3 DEF Stops, Marks
      <4>2. "FAILED" \in Rest'
        BY <1>10, <3>1, <3>3 DEF Out
      <4>3. QED
        BY <1>16, <3>1, <4>1, <4>2 DEF Meets
    <3>4. CASE Leaps(call)
      BY <1>11, <3>4 DEF NoStageBCalls
    <3>5. CASE Skips(call)
      BY <1>12, <3>5
    <3>6. QED
      BY <1>3, <3>2, <3>3, <3>4, <3>5
  <2>3. QED
    BY <2>1, <2>2
<1>23. QED
  <2>1. Ends(a)'
    BY <1>15 DEF Ends, is
  <2>2. Follows(a)'
    BY <1>16, <1>17, <1>18, <1>19, <1>20, <1>21 DEF Follows, is, new
  <2>3. Agrees(a)'
    BY <1>22 DEF Agrees, is, new
  <2>4. QED
    BY <2>1, <2>2, <2>3

LEMMA ChainsKept ==
    ASSUME Types, Control, Pristine, Chains, NEW call, Moves(call), Kinds(call), ChainStep(call),
           LinksSeen(call)
    PROVE  Chains'
<1>1. ASSUME NEW a \in Arm PROVE Ends(a)' /\ Follows(a)' /\ Agrees(a)'
  <2>1. CASE a # part
    BY <2>1, ChainsElsewhere
  <2>2. CASE a = part /\ part' # part
    BY <2>2, ChainsLeft
  <2>3. CASE a = part /\ part' = part
    BY <2>3, ChainsHere
  <2>4. QED
    BY <2>1, <2>2, <2>3
<1>2. QED
  BY <1>1 DEF Chains, Ends, Follows, Agrees

-----------------------------------------------------------------------------
(* What a step sees. *)

FactStep(call) ==
    /\ DOMAIN facts' = Arm
    /\ \A a \in Arm \ {part} : facts'[a] = facts[a]
    /\ part \in Arm => \A step \in DOMAIN facts'[part] :
          \/ step \in DOMAIN facts[part] /\ facts'[part][step] = facts[part][step]
          \/ /\ step = call /\ Sound(call, facts'[part][call])
             /\ call = "service" /\ facts'[part]["service"].saw = "effect" /\ Seen(part, "boundary")
                => facts[part]["boundary"].mark = facts'[part]["service"].mark

(* What does not come back while an arm goes on. *)
LEMMA NothingBack ==
    ASSUME Control, NEW call, Moves(call), Kinds(call), part \in Arm, part' = part
    PROVE  /\ \A c \in {"boundary", "BLOCKED_BY_PATCH"} : c \in Rest' => c \in Rest
           /\ ~Quits /\ ~Leaves
<1>1. After(part) # part
  BY DEF After, Arm
<1>2. ~Quits /\ ~Leaves
  BY DEF Quits, Leaves, Arm
<1>3. CASE GoesOn(call) \/ Skips(call)
  BY <1>1, <1>2, <1>3 DEF GoesOn, Skips
<1>4. CASE WaysOut(call) \/ Leaps(call)
  BY <1>2, <1>4 DEF WaysOut, Out, Leaps, NoStageBCalls
<1>5. QED
  BY <1>2, <1>3, <1>4 DEF Kinds

LEMMA RecordKept ==
    ASSUME Control, Pristine, Record, NEW call, Moves(call), Kinds(call), FactStep(call)
    PROVE  Record'
<1>1. campaign' = campaign /\ call \in Rest /\ First(call)
  BY DEF Moves, First
<1>2. ASSUME NEW a \in Arm, a # part PROVE Facts(a)'
  <2>1. facts'[a] = facts[a] /\ Facts(a)
    BY <1>2 DEF FactStep, Record
  <2>2. (\A step \in DOMAIN facts[a] : Sound(step, facts[a][step]))'
    BY <1>1, <2>1 DEF Facts, Sound
  <2>3. part' = a => ~Seen(a, "service")'
    <3>1. CASE part' = a
      <4>1. facts[a] = <<>>
        BY <1>2, <3>1, PartKept DEF Pristine, Untouched, Arm
      <4>2. QED
        BY <2>1, <4>1 DEF Seen
    <3>2. QED
      BY <3>1
  <2>4. QED
    BY <2>1, <2>2, <2>3 DEF Facts, Seen
<1>3. ASSUME part \in Arm PROVE Facts(part)
  BY <1>3 DEF Record
<1>4. ASSUME NEW a \in Arm, a = part PROVE Facts(a)'
  <2>1. \A step \in DOMAIN facts'[a] :
          \/ step \in DOMAIN facts[a] /\ facts'[a][step] = facts[a][step]
          \/ /\ step = call /\ Sound(call, facts'[a][call])
             /\ call = "service" /\ facts'[a]["service"].saw = "effect" /\ Seen(a, "boundary")
                => facts[a]["boundary"].mark = facts'[a]["service"].mark
    BY <1>4 DEF FactStep
  <2>2. /\ \A step \in DOMAIN facts[a] : Sound(step, facts[a][step])
        /\ Seen(a, "service") /\ Seen(a, "boundary") /\ facts[a]["service"].saw = "effect"
           => facts[a]["boundary"].mark = facts[a]["service"].mark
        /\ Seen(a, "service") => "boundary" \notin Rest
    BY <1>3, <1>4 DEF Facts
  <2>3. \A step \in DOMAIN facts'[a] : Sound(step, facts'[a][step])
    BY <2>1, <2>2
  <2>4. (\A step \in DOMAIN facts[a] : Sound(step, facts[a][step]))'
    BY <1>1, <2>3 DEF Sound
  <2>5. "service" \in DOMAIN facts'[a] => "boundary" \notin Rest \/ call = "service"
    BY <2>1, <2>2 DEF Seen
  <2>6. call = "service" => "boundary" \notin Rest
    <3>1. ~(Stage("service") <= Stage("boundary"))
      BY DEF Stage
    <3>2. QED
      BY <1>1, <3>1 DEF First
  <2>7. Seen(a, "service")' => "boundary" \notin Rest
    BY <2>5, <2>6 DEF Seen
  <2>8. ASSUME Seen(a, "service")', Seen(a, "boundary")', facts'[a]["service"].saw = "effect"
        PROVE  facts'[a]["boundary"].mark = facts'[a]["service"].mark
    <3>1. call # "boundary"
      BY <1>1, <2>7, <2>8
    <3>2. Seen(a, "boundary") /\ facts'[a]["boundary"] = facts[a]["boundary"]
      BY <2>1, <2>8, <3>1 DEF Seen
    <3>3. CASE Seen(a, "service") /\ facts'[a]["service"] = facts[a]["service"]
      BY <2>2, <2>8, <3>2, <3>3
    <3>4. CASE ~(Seen(a, "service") /\ facts'[a]["service"] = facts[a]["service"])
      BY <2>1, <2>8, <3>2, <3>4 DEF Seen
    <3>5. QED
      BY <3>3, <3>4
  <2>9. part' = a /\ Seen(a, "service")' => "boundary" \notin Rest'
    BY <1>4, <2>7, NothingBack
  <2>10. QED
    BY <2>4, <2>8, <2>9 DEF Facts, Seen
<1>5. QED
  BY <1>2, <1>4 DEF Record

-----------------------------------------------------------------------------
(* What a step pays. *)

UsageStep(call) ==
    /\ ~usage.fit => ~usage'.fit
    /\ ~record.good /\ part # "setup" => ~record'.good
    /\ \/ hidden' \subseteq hidden \cup {<<"explain", "lost">>}
       \/ raised' \/ ~usage'.fit \/ ~record'.good
       \/ campaign = "chain" /\ part = "patched" /\ WaysOut(call) /\ chain' = chain

LEMMA UsageKept ==
    ASSUME Types, Control, Pristine, Chains, Usage, NEW call, Moves(call), Kinds(call),
           ChainStep(call), UsageStep(call)
    PROVE  Usage'
<1>1. /\ campaign' = campaign /\ call \in Rest /\ (raised => raised')
      /\ part \in {"setup", "teardown"} \cup Arm
      /\ part' \in {"setup", "vulnerable"} => part \in {"setup", "vulnerable"}
      /\ part' = "patched" => part \in {"vulnerable", "patched"}
  BY PartKept
<1>2. CASE hidden \subseteq {<<"explain", "lost">>}
  <2>1. CASE hidden' \subseteq hidden \cup {<<"explain", "lost">>}
    BY <1>2, <2>1 DEF Usage
  <2>2. CASE raised' \/ ~usage'.fit \/ ~record'.good
    BY <2>2 DEF Usage, Doomed
  <2>3. CASE campaign = "chain" /\ part = "patched" /\ WaysOut(call) /\ chain' = chain
    <3>1. call \in Stops /\ part' = part /\ Rest' = {"FAILED", "close_lead"}
      BY <2>3 DEF WaysOut, Out
    <3>2. chain["patched"].state # "BLOCKED_BY_PATCH"
      BY <1>1, <2>3, <3>1 DEF Chains, Arm, Stops
    <3>3. QED
      BY <1>1, <2>3, <3>1, <3>2 DEF Usage, Doomed
  <2>4. QED
    BY <2>1, <2>2, <2>3 DEF UsageStep
<1>3. CASE ~(hidden \subseteq {<<"explain", "lost">>})
  <2>1. Doomed /\ part # "setup"
    BY <1>3 DEF Usage, Pristine
  <2>2. CASE raised \/ ~usage.fit \/ ~record.good
    BY <1>1, <2>1, <2>2 DEF Usage, Doomed, UsageStep
  <2>3. CASE /\ campaign = "chain" /\ part \notin {"setup", "vulnerable"}
             /\ chain["patched"].state # "BLOCKED_BY_PATCH"
             /\ part = "patched" => "BLOCKED_BY_PATCH" \notin Rest
    <3>1. CASE Quits
      BY <3>1 DEF Quits, Usage, Doomed
    <3>2. CASE ~Quits
      <4>1. chain'["patched"].state # "BLOCKED_BY_PATCH"
        <5>1. CASE part = "patched"
          <6>1. Told(call, "patched")
            BY <3>2, <5>1, ChainTold DEF Arm
          <6>2. QED
            BY <1>1, <2>3, <5>1, <6>1 DEF Told
        <5>2. CASE part # "patched"
          <6>1. chain'["patched"] = chain["patched"]
            BY <3>2, <5>2 DEF ChainStep, State, Linked, Types, Arm
          <6>2. QED
            BY <2>3, <6>1
        <5>3. QED
          BY <5>1, <5>2
      <4>2. part' = "patched" => "BLOCKED_BY_PATCH" \notin Rest'
        BY <1>1, <2>3, NothingBack DEF Arm
      <4>3. QED
        BY <1>1, <2>3, <4>1, <4>2 DEF Usage, Doomed
    <3>3. QED
      BY <3>1, <3>2
  <2>4. QED
    BY <2>1, <2>2, <2>3 DEF Doomed
<1>4. QED
  BY <1>2, <1>3

-----------------------------------------------------------------------------
(* What a step leaves behind. *)

ContainerStep(call) ==
    /\ "worker" \in left' => "worker" \in left \/ raised'
    /\ call \notin {"down_ds", "down_range"} => record'.down = record.down
    /\ call \notin {"up_ds", "up_range"} => left' \subseteq left \cup {"worker"}
    /\ call \in {"down_ds", "down_range"} /\ ~raised' =>
          \/ record'.down = "failed"
          \/ /\ record'.down = IF record.down = None THEN "ok" ELSE record.down
             /\ call = "down_ds" => "ds" \notin left'
             /\ call = "down_range" /\ "worker" \notin left => ~Meets({"range", "network"}, left')

LEMMA ContainersKept ==
    ASSUME Types, Types', Control, Containers, NEW call, Moves(call), Kinds(call), ContainerStep(call)
    PROVE  Containers'
<1>1. /\ part \in {"setup", "teardown"} \cup Arm /\ call \in Rest /\ raised \in BOOLEAN
      /\ (raised => raised') /\ Rest \subseteq Due
      /\ part' = "setup" => part = "setup"
      /\ part' \in Arm => part \in {"setup"} \cup Arm
  BY PartKept DEF Control, Arm
<1>2. /\ part = "setup" => call \in SetupCalls
      /\ part = "teardown" => call \in TeardownCalls
      /\ part \in Arm => call \notin {"up_ds", "up_range", "down_ds", "down_range"}
  BY <1>1 DEF Control, Due, Arm, CallsOf, OutCalls, Campaign, AdversaryCalls, AuthenticationCalls,
     HandoffCalls, VulnerableCalls, PatchedCalls, StageACalls, BoundaryCalls
<1>3. "worker" \in left' => raised'
  BY <1>1 DEF ContainerStep, Containers
<1>4. part \in {"setup"} \cup Arm => record'.down = None
  BY <1>2 DEF ContainerStep, Containers, SetupCalls, Arm
<1>5. CASE raised'
  BY <1>1, <1>3, <1>4, <1>5 DEF Containers
<1>6. CASE ~raised'
  <2>1. ~raised /\ "worker" \notin left /\ ~Quits
    BY <1>1, <1>6 DEF Containers, Quits
  <2>2. CASE part \in {"setup"} \cup Arm
    <3>1. None \notin {"ok", "failed"}
      BY DEF Types, Said
    <3>2. part' = "teardown" => {"down_ds", "down_range"} \subseteq Rest'
      <4>1. part' = "teardown" => Rest' = Begin(part')
        BY <1>6, <2>2, PartKept DEF Leaves, Arm
      <4>2. QED
        BY <4>1 DEF Begin, TeardownCalls, Arm
    <3>3. QED
      BY <1>3, <1>4, <2>2, <3>1, <3>2 DEF Containers
  <2>3. CASE part = "teardown"
    <3>1. GoesOn(call) /\ call \in TeardownCalls
      BY <1>2, <2>1, <2>3 DEF Kinds, Leaves, WaysOut, Leaps, Skips, TeardownCalls, Arm
    <3>2. \/ part' = "teardown" /\ Rest' = Rest \ {call}
          \/ part' = "verdict" /\ Rest = {call}
      BY <2>1, <2>3, <3>1 DEF GoesOn, After, Arm
    <3>3. left' \subseteq left /\ left \subseteq {"ds", "range", "network"}
      <4>1. left' \subseteq left \cup {"worker"} /\ "worker" \notin left'
        BY <1>3, <1>6, <3>1 DEF ContainerStep, TeardownCalls
      <4>2. QED
        BY <2>1, <4>1 DEF Types
    <3>4. ASSUME record'.down # "failed"
          PROVE  /\ "down_ds" \notin Rest \/ call = "down_ds" => "ds" \notin left'
                 /\ "down_range" \notin Rest \/ call = "down_range" => ~Meets({"range", "network"}, left')
      <4>1. record.down # "failed"
        BY <1>6, <3>4 DEF ContainerStep, Types, Said
      <4>2. /\ "down_ds" \notin Rest => "ds" \notin left
            /\ "down_range" \notin Rest => ~Meets({"range", "network"}, left)
        BY <2>1, <2>3, <4>1 DEF Containers
      <4>3. /\ call = "down_ds" => "ds" \notin left'
            /\ call = "down_range" => ~Meets({"range", "network"}, left')
        BY <1>6, <2>1, <3>4 DEF ContainerStep
      <4>4. QED
        BY <3>3, <4>2, <4>3 DEF Meets
    <3>5. CASE part' = "teardown" /\ Rest' = Rest \ {call}
      BY <1>3, <3>4, <3>5 DEF Containers, Arm
    <3>6. CASE part' = "verdict" /\ Rest = {call}
      <4>1. record'.down = "ok" => left' = {}
        <5>1. ASSUME record'.down = "ok"
              PROVE  "ds" \notin left' /\ "range" \notin left' /\ "network" \notin left'
          BY <3>4, <3>6, <5>1 DEF Meets
        <5>2. QED
          BY <3>3, <5>1
      <4>2. QED
        BY <1>3, <3>6, <4>1 DEF Containers, Arm
    <3>7. QED
      BY <3>2, <3>5, <3>6
  <2>4. QED
    BY <1>1, <2>2, <2>3
<1>7. QED
  BY <1>5, <1>6

-----------------------------------------------------------------------------
(* A step of the script. *)

Step(call) ==
    /\ Moves(call) /\ Kinds(call) /\ PristineStep /\ JobStep(call) /\ ChainStep(call) /\ LinksSeen(call)
    /\ FactStep(call) /\ UsageStep(call) /\ ContainerStep(call) /\ written' = written

LEMMA AcceptedKept ==
    ASSUME Control, Accepted, NEW call, Moves(call), written' = written, None \notin Said
    PROVE  Accepted'
<1>1. part # "over"
  BY DEF Moves, First, Control, Due, Arm
<1>2. written' = None
  BY <1>1 DEF Accepted
<1>3. QED
  BY <1>2 DEF Accepted, Said

LEMMA StepKept ==
    ASSUME IInv, Types', NEW call, Step(call)
    PROVE  IInv'
<1>1. /\ Types /\ Control /\ Pristine /\ Jobs /\ Chains /\ Record /\ Usage /\ Containers /\ Accepted
      /\ None \notin Said
  BY DEF IInv, Types
<1>2. /\ Moves(call) /\ Kinds(call) /\ PristineStep /\ JobStep(call) /\ ChainStep(call) /\ LinksSeen(call)
      /\ FactStep(call) /\ UsageStep(call) /\ ContainerStep(call) /\ written' = written
  BY DEF Step
<1>3. Control'
  BY <1>1, <1>2, ControlKept
<1>4. Pristine'
  BY <1>1, <1>2, PristineKept
<1>5. Jobs'
  BY <1>1, <1>2, JobsKept
<1>6. Chains'
  BY <1>1, <1>2, ChainsKept
<1>7. Record'
  BY <1>1, <1>2, RecordKept
<1>8. Usage'
  BY <1>1, <1>2, UsageKept
<1>9. Containers'
  BY <1>1, <1>2, ContainersKept
<1>10. Accepted'
  BY <1>1, <1>2, AcceptedKept
<1>11. QED
  BY <1>3, <1>4, <1>5, <1>6, <1>7, <1>8, <1>9, <1>10 DEF IInv

-----------------------------------------------------------------------------
(* What most calls leave alone. *)

Silent == Call \ ({"close_lead", "close_agent", "settle_lead", "settle_agent", "link_A", "link_B", "final"}
                  \cup Marks)

LEMMA Where ==
    ASSUME Control, NEW call, At(call)
    PROVE  /\ call \in SetupCalls => part = "setup"
           /\ call \in TeardownCalls => part = "teardown"
           /\ call \notin SetupCalls \cup TeardownCalls =>
                 part \in Arm /\ call \in CallsOf(part) \cup OutCalls
           /\ call \in Call /\ campaign \in Campaign
<1>1. call \in Rest /\ Rest \subseteq Due /\ part \in {"setup", "teardown"} \cup Arm /\ campaign \in Campaign
  BY AtFirst DEF First, Control
<1>2. ASSUME part \in Arm
      PROVE  /\ Due = CallsOf(part) \cup OutCalls /\ Due \subseteq Call
             /\ Due \cap (SetupCalls \cup TeardownCalls) = {}
  <2>1. Due = CallsOf(part) \cup OutCalls
    BY <1>2 DEF Due, Arm
  <2>2. OutCalls \subseteq Ways
    BY DEF OutCalls, Ways
  <2>3. CallsOf(part) \in {AdversaryCalls, AuthenticationCalls, VulnerableCalls, PatchedCalls, BoundaryCalls}
    BY <1>1, <1>2 DEF CallsOf, Campaign, Arm
  <2>4. \A s \in {AdversaryCalls, AuthenticationCalls, VulnerableCalls, PatchedCalls, BoundaryCalls, Ways} :
          s \subseteq Call /\ s \cap (SetupCalls \cup TeardownCalls) = {}
    BY CallSet DEF AdversaryCalls, AuthenticationCalls, VulnerableCalls, PatchedCalls, BoundaryCalls, Ways,
       HandoffCalls, StageACalls, SetupCalls, TeardownCalls
  <2>5. QED
    BY <2>1, <2>2, <2>3, <2>4
<1>3. part = "setup" => Due = SetupCalls
  BY DEF Due, Arm
<1>4. part = "teardown" => Due = TeardownCalls
  BY DEF Due, Arm
<1>5. SetupCalls \cap TeardownCalls = {} /\ SetupCalls \subseteq Call /\ TeardownCalls \subseteq Call
  BY CallSet DEF SetupCalls, TeardownCalls
<1>6. QED
  BY <1>1, <1>2, <1>3, <1>4, <1>5 DEF Arm

LEMMA QuietFacts ==
    ASSUME Types, NEW call, facts' = facts
    PROVE  FactStep(call) /\ LinksSeen(call)
BY DEF Types, FactStep, LinksSeen

LEMMA QuietRows ==
    ASSUME NEW call, job' = job, chain' = chain, record.errors \subseteq record'.errors, Quits \/ call \in Silent
    PROVE  JobStep(call) /\ ChainStep(call)
<1>1. JobStep(call)
  <2>1. \A who \in {"lead", "agent"} : call \notin Closers[who] \/ raised'
    BY DEF Silent, Quits, Closers
  <2>2. \A who \in {"lead", "agent"} : Holds(job', who) <=> Holds(job, who)
    BY DEF Holds
  <2>3. QED
    BY <2>1, <2>2 DEF JobStep
<1>2. ChainStep(call)
  <2>1. CASE Quits
    BY <2>1 DEF ChainStep
  <2>2. CASE call \in Silent
    BY <2>2 DEF ChainStep, Silent, Marks
  <2>3. QED
    BY <2>1, <2>2
<1>3. QED
  BY <1>1, <1>2

LEMMA QuietPaid ==
    ASSUME NEW call, usage' = usage, hidden' = hidden, ~record.good => ~record'.good \/ part = "setup"
    PROVE  UsageStep(call)
BY DEF UsageStep

LEMMA QuietStacks ==
    ASSUME NEW call, left' = left, record'.down = record.down, raised' \/ call \notin {"down_ds", "down_range"}
    PROVE  ContainerStep(call)
BY DEF ContainerStep

(* A call that touches neither facts nor rows. *)
LEMMA Quiet ==
    ASSUME Types, NEW call, Moves(call), Kinds(call), facts' = facts, job' = job, chain' = chain,
           record.errors \subseteq record'.errors, Quits \/ call \in Silent,
           part = "setup" => hidden' = hidden, UsageStep(call), ContainerStep(call), written' = written
    PROVE  Step(call)
<1>1. PristineStep
  BY DEF PristineStep
<1>2. QED
  BY <1>1, QuietFacts, QuietRows DEF Step

LEMMA SilentCalls ==
    /\ SetupCalls \subseteq Silent /\ TeardownCalls \subseteq Silent
    /\ HandoffCalls \subseteq Silent /\ WorkerSteps \subseteq Silent
    /\ {"worker_ends", "adjudicate", "rotate", "interpret", "verify", "accounts", "plan_chain", "select_B",
        "verify_B", "explain"} \subseteq Silent
<1>1. /\ SetupCalls \subseteq Call /\ TeardownCalls \subseteq Call /\ HandoffCalls \subseteq Call
      /\ WorkerSteps \subseteq Call
      /\ {"worker_ends", "adjudicate", "rotate", "interpret", "verify", "accounts", "plan_chain", "select_B",
          "verify_B", "explain"} \subseteq Call
  BY CallSet DEF AdversaryCalls, AuthenticationCalls, VulnerableCalls, StageACalls, WorkerSteps
<1>2. QED
  BY <1>1 DEF Silent, Marks, SetupCalls, TeardownCalls, HandoffCalls, WorkerSteps

-----------------------------------------------------------------------------
(* The stacks. *)

LEMMA BuildStep ==
    ASSUME Types, Control, NEW call \in {"build_ds", "build_range"}, Build(call)
    PROVE  Step(call) /\ Types'
<1>1. /\ At(call) /\ call \in SetupCalls /\ call \in Silent /\ part = "setup" /\ call \notin {"down_ds", "down_range"}
      /\ UNCHANGED <<outside, record, facts, paid, rows, range, left>>
  BY Where, SilentCalls DEF Build, SetupCalls
<1>2. Moves(call) /\ Kinds(call)
  <2>1. CASE GoOn
    BY <1>1, <2>1, GoOnMoves DEF outside, Kinds
  <2>2. CASE Enter("verdict")
    BY <1>1, <2>2, LeaveMoves DEF outside, Kinds
  <2>3. CASE Raise
    BY <1>1, <2>3, RaiseMoves DEF outside, Kinds
  <2>4. QED
    BY <2>1, <2>2, <2>3 DEF Build
<1>3. UsageStep(call) /\ ContainerStep(call)
  BY <1>1, QuietPaid, QuietStacks DEF paid
<1>4. Types'
  BY <1>1 DEF Types, outside, paid, rows
<1>5. QED
  BY <1>1, <1>2, <1>3, <1>4, Quiet DEF outside, paid, rows

LEMMA UpStep ==
    ASSUME Types, Control,
           NEW call, NEW what,
           \/ call = "up_ds" /\ what = {"ds"}
           \/ call = "up_range" /\ what = {"range", "network"},
           Up(call, what)
    PROVE  Step(call) /\ Types'
<1>1. /\ At(call) /\ call \in SetupCalls /\ call \in Silent /\ part = "setup" /\ call \in {"up_ds", "up_range"}
      /\ UNCHANGED <<outside, facts, paid, rows, range>>
      /\ what \subseteq {"ds", "range", "network"}
  BY Where, SilentCalls DEF Up, SetupCalls
<1>2. Moves(call) /\ Kinds(call)
  <2>1. CASE GoOn
    BY <1>1, <2>1, GoOnMoves DEF outside, Kinds
  <2>2. CASE Enter("teardown")
    BY <1>1, <2>2, LeaveMoves DEF outside, Kinds
  <2>3. CASE Raise
    BY <1>1, <2>3, RaiseMoves DEF outside, Kinds
  <2>4. QED
    BY <2>1, <2>2, <2>3 DEF Up
<1>3. /\ left' \subseteq left \cup what
      /\ record' = record \/ record' = [record EXCEPT !.up = FALSE]
  BY DEF Up
<1>4. record'.down = record.down /\ record'.good = record.good /\ record'.errors = record.errors
  BY <1>3 DEF Types
<1>5. UsageStep(call)
  BY <1>1, <1>4, QuietPaid DEF paid
<1>6. ContainerStep(call)
  BY <1>1, <1>3, <1>4 DEF ContainerStep
<1>7. Types'
  <2>1. left' \subseteq {"ds", "range", "network", "worker"}
    BY <1>1, <1>3 DEF Types
  <2>2. record' \in RecordType
    BY <1>3, ZenonT(60) DEF Types, RecordType
  <2>3. QED
    BY <1>1, <2>1, <2>2 DEF Types, RecordType, outside, paid, rows
<1>8. QED
  BY <1>1, <1>2, <1>4, <1>5, <1>6, <1>7, Quiet DEF outside, paid, rows

LEMMA HealthStep ==
    ASSUME Types, Control, Health
    PROVE  Step("health") /\ Types'
<1> DEFINE call == "health"
<1>1. /\ At(call) /\ call \in SetupCalls /\ call \in Silent /\ part = "setup"
      /\ UNCHANGED <<outside, facts, paid, rows, range, left>>
  BY Where, SilentCalls DEF Health, SetupCalls
<1>2. Moves(call) /\ Kinds(call)
  <2>1. CASE GoOn
    BY <1>1, <2>1, GoOnMoves DEF outside, Kinds
  <2>2. CASE Enter("teardown")
    BY <1>1, <2>2, LeaveMoves DEF outside, Kinds
  <2>3. CASE Raise
    BY <1>1, <2>3, RaiseMoves DEF outside, Kinds
  <2>4. QED
    BY <2>1, <2>2, <2>3 DEF Health
<1>3. PICK sound \in BOOLEAN : record' = [record EXCEPT !.good = sound]
  BY DEF Health
<1>4. record'.down = record.down /\ record'.errors = record.errors
  BY <1>3 DEF Types
<1>5. UsageStep(call) /\ ContainerStep(call)
  BY <1>1, <1>4, QuietPaid, QuietStacks DEF paid
<1>6. Types'
  BY <1>1, <1>3, ZenonT(60) DEF Types, outside, paid, rows
<1>7. QED
  BY <1>1, <1>2, <1>4, <1>5, <1>6, Quiet DEF outside, paid, rows

LEMMA DownStep ==
    ASSUME Types, Control,
           NEW call, NEW what,
           \/ call = "down_ds" /\ what = {"ds"}
           \/ call = "down_range" /\ what = {"range", "network"},
           Down(call, what)
    PROVE  Step(call) /\ Types'
<1>1. /\ At(call) /\ call \in TeardownCalls /\ call \in Silent /\ part = "teardown"
      /\ UNCHANGED <<outside, facts, paid, rows, range>>
      /\ call \notin {"up_ds", "up_range"} /\ call \in {"down_ds", "down_range"}
  BY Where, SilentCalls DEF Down, TeardownCalls
<1>2. \/ /\ left' = left \ (IF "worker" \in left THEN what \ {"network"} ELSE what)
         /\ record' = [record EXCEPT !.down = IF record.down = None THEN "ok" ELSE record.down]
         /\ GoOn
      \/ /\ left' \subseteq left
         /\ \/ record' = [record EXCEPT !.down = "failed"] /\ GoOn
            \/ record' = record /\ Raise
  BY DEF Down
<1>3. Moves(call) /\ Kinds(call)
  <2>1. CASE GoOn
    BY <1>1, <2>1, GoOnMoves DEF outside, Kinds
  <2>2. CASE Raise
    BY <1>1, <2>2, RaiseMoves DEF outside, Kinds
  <2>3. QED
    BY <1>2, <2>1, <2>2
<1>4. record'.good = record.good /\ record'.errors = record.errors
  BY <1>2 DEF Types
<1>5. UsageStep(call)
  BY <1>1, <1>4, QuietPaid DEF paid
<1>6. ContainerStep(call)
  <2>1. left' \subseteq left
    BY <1>2
  <2>2. ASSUME ~raised'
        PROVE  \/ record'.down = "failed"
               \/ /\ record'.down = IF record.down = None THEN "ok" ELSE record.down
                  /\ call = "down_ds" => "ds" \notin left'
                  /\ call = "down_range" /\ "worker" \notin left => ~Meets({"range", "network"}, left')
    <3>1. ~Raise
      BY <2>2 DEF Raise
    <3>2. CASE record' = [record EXCEPT !.down = "failed"]
      BY <3>2 DEF Types
    <3>3. CASE /\ left' = left \ (IF "worker" \in left THEN what \ {"network"} ELSE what)
               /\ record' = [record EXCEPT !.down = IF record.down = None THEN "ok" ELSE record.down]
      <4>1. record'.down = IF record.down = None THEN "ok" ELSE record.down
        BY <3>3 DEF Types
      <4>2. CASE call = "down_ds"
        BY <3>3, <4>1, <4>2
      <4>3. CASE call = "down_range"
        BY <3>3, <4>1, <4>3 DEF Meets
      <4>4. QED
        BY <1>1, <4>2, <4>3
    <3>4. QED
      BY <1>2, <3>1, <3>2, <3>3
  <2>3. QED
    BY <1>1, <2>1, <2>2 DEF ContainerStep
<1>7. Types'
  <2>1. left' \subseteq {"ds", "range", "network", "worker"}
    BY <1>2 DEF Types
  <2>2. record' \in RecordType
    <3>1. record \in RecordType
      BY DEF Types, RecordType
    <3>2. \/ record' = record
          \/ \E down \in {"ok", "failed", record.down} : record' = [record EXCEPT !.down = down]
      BY <1>2
    <3>3. QED
      BY <3>1, <3>2 DEF RecordType
  <2>3. QED
    BY <1>1, <2>1, <2>2 DEF Types, RecordType, outside, paid, rows
<1>8. QED
  BY <1>1, <1>3, <1>4, <1>5, <1>6, <1>7, Quiet DEF outside, paid, rows

LEMMA ListStep ==
    ASSUME Types, Control, List
    PROVE  Step("list") /\ Types'
<1> DEFINE call == "list"
<1>1. /\ At(call) /\ call \in TeardownCalls /\ call \in Silent /\ part = "teardown"
      /\ UNCHANGED <<outside, facts, paid, rows, range, left>>
  BY Where, SilentCalls DEF List, TeardownCalls
<1>2. Moves(call) /\ Kinds(call)
  <2>1. CASE GoOn
    BY <1>1, <2>1, GoOnMoves DEF outside, Kinds
  <2>2. CASE Raise
    BY <1>1, <2>2, RaiseMoves DEF outside, Kinds
  <2>3. QED
    BY <2>1, <2>2 DEF List
<1>3. record' = record \/ \E shown \in SUBSET (left \ {"worker"}) : record' = [record EXCEPT !.listed = shown]
  BY DEF List
<1>4. record'.down = record.down /\ record'.errors = record.errors /\ record'.good = record.good
  BY <1>3 DEF Types
<1>5. UsageStep(call) /\ ContainerStep(call)
  BY <1>1, <1>4, QuietPaid, QuietStacks DEF paid
<1>6. Types'
  <2>1. \A shown \in SUBSET (left \ {"worker"}) : shown \subseteq {"ds", "range", "network"}
    BY DEF Types
  <2>2. record' \in [up : BOOLEAN, good : BOOLEAN, stopped : BOOLEAN,
                     errors : SUBSET (Arm \X {"lead", "agent"}), down : {None, "ok", "failed"},
                     listed : SUBSET {"ds", "range", "network"}]
    <3>1. CASE record' = record
      BY <3>1 DEF Types
    <3>2. ASSUME NEW shown \in SUBSET (left \ {"worker"}), record' = [record EXCEPT !.listed = shown]
          PROVE  record' \in [up : BOOLEAN, good : BOOLEAN, stopped : BOOLEAN,
                              errors : SUBSET (Arm \X {"lead", "agent"}), down : {None, "ok", "failed"},
                              listed : SUBSET {"ds", "range", "network"}]
      BY <2>1, <3>2 DEF Types
    <3>3. QED
      BY <1>3, <3>1, <3>2
  <2>3. QED
    BY <1>1, <2>2 DEF Types, outside, paid, rows
<1>7. QED
  BY <1>1, <1>2, <1>4, <1>5, <1>6, Quiet DEF outside, paid, rows

-----------------------------------------------------------------------------
(* The range. *)

RangeType == [vulnerable : SUBSET {"ops", "login", "entry", "meta", "service"},
              generation : Nat, sentinel : Seq(Nat), failures : Nat]

LEMMA PutsType ==
    ASSUME NEW arm
    PROVE  /\ Len(Puts(arm)) \in Nat
           /\ \A i \in 1 .. Len(Puts(arm)) : Puts(arm)[i] \in {"ops", "login", "entry", "meta", "service"}
<1>1. \/ Puts(arm) = <<"ops">> \/ Puts(arm) = <<"login">>
      \/ Puts(arm) = <<"entry", "meta", "service">> \/ Puts(arm) = <<"entry", "meta">>
  BY DEF Puts
<1>2. CASE Puts(arm) = <<"ops">> \/ Puts(arm) = <<"login">>
  BY <1>2
<1>3. CASE Puts(arm) = <<"entry", "meta", "service">>
  BY <1>3
<1>4. CASE Puts(arm) = <<"entry", "meta">>
  BY <1>4
<1>5. QED
  BY <1>1, <1>2, <1>3, <1>4

LEMMA RangeTypes ==
    ASSUME range \in RangeType
    PROVE  /\ Fresh \in RangeType /\ ResetRange \in RangeType
           /\ \A arm : \A n \in 0 .. Len(Puts(arm)) : Selected(arm, n) \in RangeType
           /\ \A arm : \A i \in 1 .. Len(Puts(arm)) : \A on \in BOOLEAN :
                 [range EXCEPT !.generation = Generation,
                    !.vulnerable = IF on THEN @ \cup {Puts(arm)[i]} ELSE @ \ {Puts(arm)[i]}] \in RangeType
           /\ [range EXCEPT !.sentinel = Append(@, range.generation)] \in RangeType
           /\ \A n \in Nat : [range EXCEPT !.failures = n] \in RangeType
<1> DEFINE S == {"ops", "login", "entry", "meta", "service"}
<1>1. Generation \in Nat
  BY DEF Generation, RangeType
<1>2. Fresh \in RangeType /\ ResetRange \in RangeType
  <2>1. <<1>> \in Seq(Nat) /\ <<Generation>> \in Seq(Nat) /\ {} \subseteq S
    BY <1>1
  <2> HIDE DEF S
  <2>2. Fresh \in [vulnerable : SUBSET S, generation : Nat, sentinel : Seq(Nat), failures : Nat]
    BY <2>1 DEF Fresh
  <2>3. ResetRange \in [vulnerable : SUBSET S, generation : Nat, sentinel : Seq(Nat), failures : Nat]
    BY <1>1, <2>1, <2>2 DEF ResetRange
  <2>4. QED
    BY <2>2, <2>3 DEF RangeType, S
<1>3. ASSUME NEW arm, NEW n \in 0 .. Len(Puts(arm)) PROVE Selected(arm, n) \in RangeType
  <2> DEFINE some == {Puts(arm)[i] : i \in 1 .. n}
             vul == IF arm = "patched" /\ n = Len(Puts(arm))
                    THEN (range.vulnerable \cup some) \ {Puts(arm)[n]} ELSE range.vulnerable \cup some
  <2>1. some \subseteq S
    BY PutsType
  <2>2. vul \subseteq S
    BY <2>1 DEF RangeType
  <2>3. Selected(arm, n) = [range EXCEPT !.generation = range.generation + n, !.vulnerable = vul]
    BY DEF Selected
  <2>4. range.generation + n \in Nat
    BY PutsType DEF RangeType
  <2> HIDE DEF vul
  <2>5. QED
    BY <2>2, <2>3, <2>4 DEF RangeType
<1>4. ASSUME NEW arm, NEW i \in 1 .. Len(Puts(arm)), NEW on \in BOOLEAN
      PROVE  [range EXCEPT !.generation = Generation,
                !.vulnerable = IF on THEN @ \cup {Puts(arm)[i]} ELSE @ \ {Puts(arm)[i]}] \in RangeType
  <2>1. Puts(arm)[i] \in S
    BY PutsType
  <2>2. QED
    BY <1>1, <2>1 DEF RangeType
<1>5. [range EXCEPT !.sentinel = Append(@, range.generation)] \in RangeType
  <2>1. Append(range.sentinel, range.generation) \in Seq(Nat)
    BY DEF RangeType
  <2>2. QED
    BY <2>1 DEF RangeType
<1>6. \A n \in Nat : [range EXCEPT !.failures = n] \in RangeType
  BY DEF RangeType
<1>7. QED
  BY <1>2, <1>3, <1>4, <1>5, <1>6

FactsType == DOMAIN facts = Arm /\ facts = [a \in Arm |-> facts[a]]

(* A call on the range: the stacks, the rows and the totals stay as they are. *)
LEMMA Looks ==
    ASSUME Types, NEW call \in Silent \ (SetupCalls \cup TeardownCalls), Moves(call), Kinds(call),
           FactStep(call), LinksSeen(call), FactsType', range' \in RangeType,
           UNCHANGED <<outside, record, paid, rows, left>>
    PROVE  Step(call) /\ Types'
<1>1. PristineStep
  BY DEF PristineStep, FactStep, rows, paid
<1>2. JobStep(call) /\ ChainStep(call)
  BY QuietRows DEF rows
<1>3. UsageStep(call)
  BY QuietPaid DEF paid
<1>4. ContainerStep(call)
  BY QuietStacks DEF TeardownCalls
<1>5. Types'
  BY DEF Types, FactsType, RangeType, outside, paid, rows
<1>6. QED
  BY <1>1, <1>2, <1>3, <1>4, <1>5 DEF Step, outside

LEMMA SameFacts ==
    ASSUME Types, NEW call, facts' = facts
    PROVE  FactStep(call) /\ LinksSeen(call) /\ FactsType'
BY QuietFacts DEF Types, FactsType

LEMMA Sees ==
    ASSUME Types, part \in Arm, NEW call, NEW saw, NEW mark, See(call, saw, mark),
           Sound(call, [saw |-> saw, in |-> range.vulnerable, mark |-> mark]),
           call = "service" /\ saw = "effect" => facts[part]["boundary"].mark = mark
    PROVE  FactStep(call) /\ LinksSeen(call) /\ FactsType'
<1> DEFINE r == [saw |-> saw, in |-> range.vulnerable, mark |-> mark]
           f == [s \in DOMAIN facts[part] \cup {call} |-> IF s = call THEN r ELSE facts[part][s]]
<1>1. r.saw = saw /\ r.mark = mark /\ Sound(call, r)
  OBVIOUS
<1> HIDE DEF r
<1>2. facts' = [facts EXCEPT ![part] = f]
  BY DEF See, r
<1>3. /\ DOMAIN f = DOMAIN facts[part] \cup {call} /\ f[call] = r
      /\ \A s \in DOMAIN facts[part] : s # call => f[s] = facts[part][s]
  OBVIOUS
<1> HIDE DEF f
<1>4. DOMAIN facts = Arm /\ facts = [a \in Arm |-> facts[a]]
  BY DEF Types
<1>5. /\ facts'[part] = f /\ DOMAIN facts' = Arm
      /\ \A a \in Arm \ {part} : facts'[a] = facts[a]
      /\ facts' = [a \in Arm |-> facts'[a]]
  BY <1>2, <1>4
<1>6. FactStep(call)
  BY <1>1, <1>3, <1>5 DEF FactStep
<1>7. LinksSeen(call)
  <2>1. ASSUME NEW step \in {"verify", "verify_B"} \ {call}
        PROVE  /\ step \in DOMAIN f <=> step \in DOMAIN facts[part]
               /\ step \in DOMAIN facts[part] => f[step] = facts[part][step]
    BY <1>3, <2>1
  <2>2. QED
    BY <1>5, <2>1 DEF LinksSeen
<1>8. QED
  BY <1>5, <1>6, <1>7 DEF FactsType

LEMMA SwitchStep ==
    ASSUME Types, Control, Switch
    PROVE  \E call : Step(call) /\ Types'
<1>1. PICK call \in {"reset", "select"} : At(call)
  BY DEF Switch
<1>2. /\ call \in Silent \ (SetupCalls \cup TeardownCalls)
      /\ UNCHANGED <<outside, record, facts, paid, rows, left>>
  BY SilentCalls DEF Switch, SetupCalls, TeardownCalls, HandoffCalls
<1>3. Moves(call) /\ Kinds(call)
  BY <1>1, <1>2, GoOnMoves, RaiseMoves DEF Switch, outside, Kinds
<1>4. range' \in RangeType
  <2>1. range \in RangeType
    BY DEF Types, RangeType
  <2>2. \/ range' \in {range, ResetRange}
        \/ \E n \in 0 .. Len(Puts(part)) : range' = Selected(part, n)
    BY DEF Switch
  <2>3. QED
    BY <2>1, <2>2, RangeTypes, ZenonT(60)
<1>5. FactStep(call) /\ LinksSeen(call) /\ FactsType'
  BY <1>2, SameFacts
<1>6. Step(call) /\ Types'
  BY <1>2, <1>3, <1>4, <1>5, Looks
<1>7. QED
  BY <1>6

LEMMA ClearStep ==
    ASSUME Types, Control, Clear
    PROVE  \E call : Step(call) /\ Types'
<1>1. PICK call \in {"rotate", "accounts"}, new \in RangeType : Cleared(call, new)
  <2>1. range \in RangeType /\ 0 \in Nat
    BY DEF Types, RangeType
  <2>2. QED
    BY <2>1, RangeTypes DEF Clear
<1>2. /\ At(call) /\ call \in Silent \ (SetupCalls \cup TeardownCalls) /\ part \in Arm
      /\ UNCHANGED <<outside, record, paid, rows, left>>
  BY <1>1, SilentCalls, Where DEF Cleared, SetupCalls, TeardownCalls
<1>3. Moves(call) /\ Kinds(call)
  BY <1>1, <1>2, GoOnMoves, RaiseMoves DEF Cleared, outside, Kinds
<1>4. range' \in RangeType
  BY <1>1 DEF Cleared, Types, RangeType
<1>5. FactStep(call) /\ LinksSeen(call) /\ FactsType'
  <2>1. CASE See(call, "done", None)
    <3>1. Sound(call, [saw |-> "done", in |-> range.vulnerable, mark |-> None])
      BY <1>1 DEF Sound
    <3>2. QED
      BY <1>1, <1>2, <2>1, <3>1, Sees
  <2>2. CASE facts' = facts
    BY <2>2, SameFacts
  <2>3. QED
    BY <1>1, <2>1, <2>2 DEF Cleared
<1>6. Step(call) /\ Types'
  BY <1>2, <1>3, <1>4, <1>5, Looks
<1>7. QED
  BY <1>6

-----------------------------------------------------------------------------
(* The worker and the verifier. *)

LEMMA WorkerCalls ==
    ASSUME Types, Control, NEW call \in WorkerSteps \cup {"worker_ends", "adjudicate", "verify", "verify_B"}, At(call)
    PROVE  /\ call \in Silent \ (SetupCalls \cup TeardownCalls) /\ part \in Arm /\ range \in RangeType
           /\ range.vulnerable \subseteq {"ops", "login", "entry", "meta", "service"}
<1>1. call \in Silent /\ call \notin SetupCalls \cup TeardownCalls
  BY SilentCalls DEF WorkerSteps, SetupCalls, TeardownCalls
<1>2. QED
  BY <1>1, Where DEF Types, RangeType

LEMMA ProbeStep ==
    ASSUME Types, Control, NEW call \in WorkerSteps, NEW saw, NEW mark, NEW rest, Probe(call, saw, mark, rest),
           Sound(call, [saw |-> saw, in |-> range.vulnerable, mark |-> mark]),
           call = "service" /\ saw = "effect" => facts[part]["boundary"].mark = mark,
           \/ rest = Tail(todo)
           \/ rest = NoStageB /\ call = "boundary" /\ campaign = "chain" /\ part = "vulnerable"
    PROVE  Step(call) /\ Types'
<1>1. /\ At(call) /\ See(call, saw, mark) /\ Do(rest)
      /\ UNCHANGED <<outside, record, paid, rows, range, left>>
  BY DEF Probe
<1>2. /\ call \in Silent \ (SetupCalls \cup TeardownCalls) /\ part \in Arm /\ range \in RangeType
  BY <1>1, WorkerCalls
<1>3. Moves(call) /\ Kinds(call)
  <2>1. CASE rest = Tail(todo)
    BY <1>1, <2>1, GoOnMoves DEF GoOn, outside, Kinds
  <2>2. CASE rest = NoStageB /\ call = "boundary" /\ campaign = "chain" /\ part = "vulnerable"
    BY <1>1, <2>2, LeapMoves DEF outside, Kinds
  <2>3. QED
    BY <2>1, <2>2
<1>4. FactStep(call) /\ LinksSeen(call) /\ FactsType'
  BY <1>1, <1>2, Sees
<1>5. QED
  BY <1>1, <1>2, <1>3, <1>4, Looks

LEMMA AttemptStep ==
    ASSUME Types, Control, NEW call \in WorkerSteps \ {"burst"}, NEW saw, NEW mark, Attempt(call, saw, mark),
           Sound(call, [saw |-> saw, in |-> range.vulnerable, mark |-> mark]),
           call = "service" /\ saw = "effect" => facts[part]["boundary"].mark = mark
    PROVE  Step(call) /\ Types'
<1>1. Sound(call, [saw |-> "lost", in |-> range.vulnerable, mark |-> None])
  BY DEF Sound, WorkerSteps
<1>2. CASE Probe(call, saw, mark, Tail(todo))
  BY <1>2, ProbeStep
<1>3. CASE Probe(call, "lost", None, Tail(todo))
  BY <1>1, <1>3, ProbeStep
<1>4. QED
  BY <1>2, <1>3 DEF Attempt

LEMMA DetectionStep ==
    ASSUME Types, Control, Detection
    PROVE  \E call : Step(call) /\ Types'
<1>1. CASE Attempt("baseline", "denied", None)
  <2>1. Sound("baseline", [saw |-> "denied", in |-> range.vulnerable, mark |-> None])
    BY DEF Sound
  <2>2. Step("baseline") /\ Types'
    BY <1>1, <2>1, AttemptStep DEF WorkerSteps
  <2>3. QED
    BY <2>2
<1>2. CASE Attempt("alternate", IF Vulnerable({"ops"}) THEN "reached" ELSE "denied", range.sentinel)
  <2> DEFINE saw == IF Vulnerable({"ops"}) THEN "reached" ELSE "denied"
  <2>1. (saw = "reached" => "ops" \in range.vulnerable) /\ (saw = "denied" => "ops" \notin range.vulnerable)
    BY DEF Vulnerable
  <2> HIDE DEF saw
  <2>2. Sound("alternate", [saw |-> saw, in |-> range.vulnerable, mark |-> range.sentinel])
    BY <2>1 DEF Sound
  <2>3. Attempt("alternate", saw, range.sentinel)
    BY <1>2 DEF saw
  <2>4. Step("alternate") /\ Types'
    BY <2>2, <2>3, AttemptStep DEF WorkerSteps
  <2>5. QED
    BY <2>4
<1>3. QED
  BY <1>1, <1>2 DEF Detection

LEMMA BurstStep ==
    ASSUME Types, Control, InvalidBurst
    PROVE  Step("burst") /\ Types'
<1>1. At("burst") /\ GoOn /\ UNCHANGED <<outside, record, paid, rows, left>>
  BY DEF InvalidBurst
<1>2. /\ "burst" \in Silent \ (SetupCalls \cup TeardownCalls) /\ part \in Arm /\ range \in RangeType
  BY <1>1, WorkerCalls DEF WorkerSteps
<1>3. PICK n \in 0 .. Burst :
          /\ See("burst", IF ~Vulnerable({"login"}) /\ n > 0 /\ range.failures + n > Threshold
                          THEN "throttled" ELSE "open", n = Burst)
          /\ range' = [range EXCEPT !.failures = Failed(n)]
  BY DEF InvalidBurst
<1> DEFINE saw == IF ~Vulnerable({"login"}) /\ n > 0 /\ range.failures + n > Threshold
                  THEN "throttled" ELSE "open"
           mark == n = Burst
<1>4. /\ mark \in BOOLEAN
      /\ saw = "throttled" => "login" \notin range.vulnerable
      /\ saw = "open" /\ mark => "login" \in range.vulnerable
  BY <1>2 DEF Vulnerable, Burst, Threshold, RangeType
<1>5. See("burst", saw, mark)
  BY <1>3
<1> HIDE DEF saw, mark
<1>6. Sound("burst", [saw |-> saw, in |-> range.vulnerable, mark |-> mark])
  BY <1>4 DEF Sound
<1>7. FactStep("burst") /\ LinksSeen("burst") /\ FactsType'
  BY <1>2, <1>5, <1>6, Sees
<1>8. range' \in RangeType
  <2>1. Failed(n) \in Nat
    BY <1>2 DEF Failed, Burst, Threshold, RangeType
  <2>2. QED
    BY <1>2, <1>3, <2>1, RangeTypes
<1>9. Moves("burst") /\ Kinds("burst")
  BY <1>1, GoOnMoves DEF outside, Kinds
<1>10. QED
  BY <1>1, <1>2, <1>7, <1>8, <1>9, Looks

LEMMA LoginsStep ==
    ASSUME Types, Control, Logins
    PROVE  \E call : Step(call) /\ Types'
<1>1. Login = "throttled" => "login" \notin range.vulnerable
  BY DEF Login, Vulnerable
<1>2. CASE Attempt("control", Login, None)
  <2>1. Sound("control", [saw |-> Login, in |-> range.vulnerable, mark |-> None])
    BY DEF Sound
  <2>2. Step("control") /\ Types'
    BY <1>2, <2>1, AttemptStep DEF WorkerSteps
  <2>3. QED
    BY <2>2
<1>3. CASE Attempt("post", Login, None)
  <2>1. Sound("post", [saw |-> Login, in |-> range.vulnerable, mark |-> None])
    BY <1>1 DEF Sound
  <2>2. Step("post") /\ Types'
    BY <1>3, <2>1, AttemptStep DEF WorkerSteps
  <2>3. QED
    BY <2>2
<1>4. CASE InvalidBurst
  BY <1>4, BurstStep
<1>5. QED
  BY <1>2, <1>3, <1>4 DEF Logins

LEMMA ChainProbeStep ==
    ASSUME Types, Control, ChainProbe
    PROVE  \E call : Step(call) /\ Types'
<1>1. ASSUME NEW call \in {"control_A", "boundary", "causal", "control_B", "service"}, NEW saw, NEW mark
      PROVE  Sound(call, [saw |-> saw, in |-> range.vulnerable, mark |-> mark]) /\ call \in WorkerSteps \ {"burst"}
  BY DEF Sound, WorkerSteps
<1>2. ASSUME NEW call \in {"control_A", "control_B"}, Attempt(call, "answered", None)
      PROVE  Step(call) /\ Types'
  BY <1>1, <1>2, AttemptStep
<1>3. ASSUME NEW saw, Probe("boundary", saw, range.generation, AfterBoundary(saw))
      PROVE  Step("boundary") /\ Types'
  <2>1. \/ AfterBoundary(saw) = Tail(todo)
        \/ AfterBoundary(saw) = NoStageB /\ campaign = "chain" /\ part = "vulnerable"
    BY DEF AfterBoundary, NoStageB
  <2>2. QED
    BY <1>1, <1>3, <2>1, ProbeStep
<1>4. ASSUME Probe("causal", "held", None, Tail(todo))
      PROVE  Step("causal") /\ Types'
  BY <1>1, <1>4, ProbeStep
<1>5. ASSUME Attempt("service", IF /\ Vulnerable({"service"})
                                   /\ facts[part]["boundary"].mark = range.generation
                                THEN "effect" ELSE "refused", range.generation)
      PROVE  Step("service") /\ Types'
  <2> DEFINE saw == IF Vulnerable({"service"}) /\ facts[part]["boundary"].mark = range.generation
                    THEN "effect" ELSE "refused"
  <2>1. saw = "effect" => facts[part]["boundary"].mark = range.generation
    OBVIOUS
  <2>2. Attempt("service", saw, range.generation)
    BY <1>5
  <2> HIDE DEF saw
  <2>3. QED
    BY <1>1, <2>1, <2>2, AttemptStep
<1>6. QED
  BY <1>2, <1>3, <1>4, <1>5 DEF ChainProbe

LEMMA WorkerTimeoutStep ==
    ASSUME Types, Control, WorkerTimeout
    PROVE  \E call : Step(call) /\ Types'
<1>1. PICK call \in WorkerSteps : At(call)
  BY DEF WorkerTimeout
<1>2. /\ call \in Silent \ (SetupCalls \cup TeardownCalls) /\ Raise /\ left' = left \cup {"worker"}
      /\ UNCHANGED <<outside, record, facts, paid, rows, range>>
  BY <1>1, WorkerCalls DEF WorkerTimeout
<1>3. Moves(call) /\ Kinds(call) /\ raised'
  BY <1>1, <1>2, RaiseMoves DEF outside, Kinds, Quits
<1>4. UsageStep(call)
  BY <1>2, QuietPaid DEF paid
<1>5. ContainerStep(call)
  BY <1>2, <1>3 DEF ContainerStep, TeardownCalls
<1>6. Types'
  BY <1>2 DEF Types, outside, paid, rows
<1>7. Step(call)
  BY <1>2, <1>3, <1>4, <1>5, Quiet DEF outside, paid, rows
<1>8. QED
  BY <1>6, <1>7

LEMMA WorkerOutputStep ==
    ASSUME Types, Control, WorkerOutput
    PROVE  Step("worker_ends") /\ Types'
<1> DEFINE call == "worker_ends"
           f == [s \in DOMAIN facts[part] \ WorkerSteps |-> facts[part][s]]
<1>1. /\ At(call) /\ GoOn /\ UNCHANGED <<outside, record, paid, rows, range, left>>
      /\ facts' = facts \/ facts' = [facts EXCEPT ![part] = f]
  BY DEF WorkerOutput
<1>2. call \in Silent \ (SetupCalls \cup TeardownCalls) /\ part \in Arm /\ range \in RangeType
  BY <1>1, WorkerCalls
<1>3. Moves(call) /\ Kinds(call)
  BY <1>1, GoOnMoves DEF outside, Kinds
<1>4. FactStep(call) /\ LinksSeen(call) /\ FactsType'
  <2>1. CASE facts' = facts
    BY <2>1, SameFacts
  <2>2. CASE facts' = [facts EXCEPT ![part] = f]
    <3>1. DOMAIN f = DOMAIN facts[part] \ WorkerSteps /\ \A s \in DOMAIN f : f[s] = facts[part][s]
      OBVIOUS
    <3>2. {"verify", "verify_B"} \cap WorkerSteps = {}
      BY DEF WorkerSteps
    <3> HIDE DEF f
    <3>3. DOMAIN facts = Arm /\ facts = [a \in Arm |-> facts[a]]
      BY DEF Types
    <3>4. /\ facts'[part] = f /\ DOMAIN facts' = Arm
          /\ \A a \in Arm \ {part} : facts'[a] = facts[a]
          /\ facts' = [a \in Arm |-> facts'[a]]
      BY <1>2, <2>2, <3>3
    <3>5. FactStep(call)
      BY <3>1, <3>4 DEF FactStep
    <3>6. LinksSeen(call)
      BY <3>1, <3>2, <3>4 DEF LinksSeen
    <3>7. QED
      BY <3>4, <3>5, <3>6 DEF FactsType
  <2>3. QED
    BY <1>1, <2>1, <2>2
<1>5. QED
  BY <1>1, <1>2, <1>3, <1>4, Looks

LEMMA VerifyStep ==
    ASSUME Types, Control, NEW call \in {"adjudicate", "verify", "verify_B"}, NEW decision, NEW new \in RangeType,
           Verify(call, decision, new), Sound(call, [saw |-> decision, in |-> range.vulnerable, mark |-> None])
    PROVE  Step(call) /\ Types'
<1>1. /\ At(call) /\ UNCHANGED <<outside, record, paid, rows, left>> /\ range' \in {range, new}
      /\ GoOn \/ Raise
      /\ See(call, decision, None) \/ facts' = facts
  BY DEF Verify
<1>2. call \in Silent \ (SetupCalls \cup TeardownCalls) /\ part \in Arm /\ range' \in RangeType
  BY <1>1, WorkerCalls
<1>3. Moves(call) /\ Kinds(call)
  BY <1>1, GoOnMoves, RaiseMoves DEF outside, Kinds
<1>4. FactStep(call) /\ LinksSeen(call) /\ FactsType'
  <2>1. CASE See(call, decision, None)
    BY <1>2, <2>1, Sees
  <2>2. CASE facts' = facts
    BY <2>2, SameFacts
  <2>3. QED
    BY <1>1, <2>1, <2>2
<1>5. QED
  BY <1>1, <1>2, <1>3, <1>4, Looks

LEMMA VerifierStep ==
    ASSUME Types, Control, Verifier
    PROVE  \E call : Step(call) /\ Types'
<1>1. /\ range \in RangeType
      /\ AfterVerifier \in RangeType
  <2>1. range \in RangeType
    BY DEF Types, RangeType
  <2>2. 0 \in Nat /\ Threshold \in Nat
    BY DEF Threshold
  <2>3. QED
    BY <2>1, <2>2, RangeTypes DEF AfterVerifier
<1>2. ASSUME Verify("adjudicate", Adjudicated, range) PROVE Step("adjudicate") /\ Types'
  <2>1. Sound("adjudicate", [saw |-> Adjudicated, in |-> range.vulnerable, mark |-> None])
    BY DEF Sound
  <2>2. QED
    BY <1>1, <1>2, <2>1, VerifyStep
<1>3. ASSUME campaign = "authentication", Verify("verify", LoginVerified, AfterVerifier)
      PROVE  Step("verify") /\ Types'
  <2>1. Sound("verify", [saw |-> LoginVerified, in |-> range.vulnerable, mark |-> None])
    BY <1>3 DEF Sound, LoginVerified, Decision, Vulnerable
  <2>2. QED
    BY <1>1, <1>3, <2>1, VerifyStep
<1>4. ASSUME campaign \in {"chain", "boundary"}, Verify("verify", MetadataVerified, range)
      PROVE  Step("verify") /\ Types'
  <2>1. Sound("verify", [saw |-> MetadataVerified, in |-> range.vulnerable, mark |-> None])
    BY <1>4 DEF Sound, MetadataVerified, Decision, Vulnerable
  <2>2. QED
    BY <1>1, <1>4, <2>1, VerifyStep
<1>5. ASSUME Verify("verify_B", ServiceVerified, range) PROVE Step("verify_B") /\ Types'
  <2>1. Sound("verify_B", [saw |-> ServiceVerified, in |-> range.vulnerable, mark |-> None])
    BY DEF Sound, ServiceVerified, Decision, Vulnerable
  <2>2. QED
    BY <1>1, <1>5, <2>1, VerifyStep
<1>6. QED
  BY <1>2, <1>3, <1>4, <1>5 DEF Verifier

-----------------------------------------------------------------------------
(* The models. *)

LEMMA ModelCalls ==
    ASSUME Types, Control, NEW call \in Asks[campaign], At(call)
    PROVE  /\ call \in Silent \ (SetupCalls \cup TeardownCalls) /\ part \in Arm
           /\ Essential(call) => call \in Stops
           /\ campaign = "chain" /\ part = "patched" => Essential(call)
           /\ call = "explain" => campaign = "chain"
           /\ call \in {"delegate", "plan", "interpret", "plan_chain", "select_B", "explain"}
<1>1. campaign \in Campaign
  BY DEF Control
<1>2. call \in {"delegate", "plan", "interpret", "plan_chain", "select_B", "explain"}
      /\ (call = "explain" => campaign = "chain")
  BY <1>1 DEF Campaign, Asks, AdversaryAsks, AuthenticationAsks, ChainAsks, BoundaryAsks
<1>3. call \in Silent /\ call \notin SetupCalls \cup TeardownCalls
  BY <1>2, SilentCalls DEF HandoffCalls, SetupCalls, TeardownCalls
<1>4. part \in Arm /\ call \in CallsOf(part) \cup OutCalls
  BY <1>3, Where
<1>5. campaign = "chain" /\ part = "patched" => call \in PatchedCalls \cup {"FAILED", "close_lead"}
  BY <1>4 DEF CallsOf, OutCalls
<1>6. QED
  BY <1>2, <1>3, <1>4, <1>5 DEF Essential, Stops, PatchedCalls, StageACalls

LEMMA ChargeType ==
    ASSUME Types, NEW call, NEW n \in Nat
    PROVE  /\ Charge(call, n) \in [calls : Nat, tokens : Nat, fit : BOOLEAN]
           /\ Charge(call, n).fit = usage.fit
<1> DEFINE m == IF campaign # "chain" /\ call = "interpret" THEN 2 ELSE 1
<1>1. usage \in [calls : Nat, tokens : Nat, fit : BOOLEAN] /\ m \in Nat
  BY DEF Types
<1>2. Charge(call, n) = [usage EXCEPT !.calls = usage.calls + m, !.tokens = usage.tokens + n]
  BY DEF Charge
<1> HIDE DEF m
<1>3. usage.calls + m \in Nat /\ usage.tokens + n \in Nat
  BY <1>1
<1>4. QED
  BY <1>1, <1>2, <1>3

(* A call of a model: facts, rows and stacks stay as they are. *)
LEMMA Asked ==
    ASSUME Types, NEW call \in Silent \ (SetupCalls \cup TeardownCalls), part \in Arm,
           Moves(call), Kinds(call), UsageStep(call),
           record' \in RecordType, record'.errors = record.errors, record'.down = record.down,
           usage' \in [calls : Nat, tokens : Nat, fit : BOOLEAN],
           UNCHANGED <<outside, facts, rows, range, left>>
    PROVE  Step(call) /\ Types'
<1>1. ContainerStep(call)
  BY QuietStacks DEF TeardownCalls
<1>2. Types'
  BY DEF Types, RecordType, outside, rows
<1>3. part # "setup"
  BY DEF Arm
<1>4. QED
  BY <1>1, <1>2, <1>3, Quiet DEF outside, rows

LEMMA BudgetStopStep ==
    ASSUME Types, Control, NEW call \in Asks[campaign], BudgetStop(call)
    PROVE  Step(call) /\ Types'
<1>1. /\ At(call) /\ call \in {"delegate", "plan"}
      /\ record' = [record EXCEPT !.stopped = TRUE, !.good = FALSE]
      /\ todo' = WayOutOf(call) /\ UNCHANGED <<part, raised>>
      /\ UNCHANGED <<outside, facts, paid, rows, range, left>>
  BY DEF BudgetStop, Refused
<1>2. call \in Silent \ (SetupCalls \cup TeardownCalls) /\ part \in Arm
  BY <1>1, ModelCalls
<1>3. Moves(call) /\ Kinds(call)
  BY <1>1, <1>2, OutMoves DEF outside, Kinds, Stops
<1>4. record' \in RecordType /\ record'.errors = record.errors /\ record'.down = record.down /\ ~record'.good
  BY <1>1 DEF Types, RecordType
<1>5. UsageStep(call)
  BY <1>1, <1>4, QuietPaid DEF paid
<1>6. usage' \in [calls : Nat, tokens : Nat, fit : BOOLEAN]
  BY <1>1 DEF paid, Types
<1>7. QED
  BY <1>1, <1>2, <1>3, <1>4, <1>5, <1>6, Asked

LEMMA AnswerStep ==
    ASSUME Types, Control, NEW call \in Asks[campaign], Answer(call)
    PROVE  Step(call) /\ Types'
<1>1. /\ At(call) /\ GoOn /\ hidden' = hidden
      /\ record' = record \/ record' = [record EXCEPT !.good = FALSE]
      /\ \E size \in Nat : usage' = Charge(call, size)
      /\ UNCHANGED <<outside, facts, rows, range, left>>
  BY DEF Answer, Sizes
<1>2. call \in Silent \ (SetupCalls \cup TeardownCalls) /\ part \in Arm
  BY <1>1, ModelCalls
<1>3. Moves(call) /\ Kinds(call)
  BY <1>1, GoOnMoves DEF outside, Kinds
<1>4. /\ record' \in RecordType /\ record'.errors = record.errors /\ record'.down = record.down
      /\ ~record.good => ~record'.good
  BY <1>1, ZenonT(60) DEF Types, RecordType
<1>5. usage' \in [calls : Nat, tokens : Nat, fit : BOOLEAN] /\ usage'.fit = usage.fit
  BY <1>1, ChargeType
<1>6. UsageStep(call)
  BY <1>1, <1>4, <1>5 DEF UsageStep
<1>7. QED
  BY <1>1, <1>2, <1>3, <1>4, <1>5, <1>6, Asked

LEMMA NoAnswerStep ==
    ASSUME Types, Control, NEW call \in Asks[campaign], NoAnswer(call)
    PROVE  Step(call) /\ Types'
<1>1. /\ At(call) /\ record' = [record EXCEPT !.good = record.good /\ ~Relevant(call)]
      /\ \/ usage' = Charge(call, 1) /\ hidden' = hidden
         \/ usage' = UnknownTotal(call) /\ hidden' = hidden \cup {<<call, "unknown">>}
         \/ hidden' = hidden \cup {<<call, "lost">>} /\ usage' = usage
      /\ Do(IF Essential(call) THEN WayOutOf(call) ELSE Tail(todo))
      /\ UNCHANGED <<outside, facts, rows, range, left>>
  BY DEF NoAnswer
<1>2. /\ call \in Silent \ (SetupCalls \cup TeardownCalls) /\ part \in Arm
      /\ Essential(call) => call \in Stops
      /\ campaign = "chain" /\ part = "patched" => Essential(call)
      /\ campaign' = campaign
  BY <1>1, ModelCalls DEF outside
<1>3. /\ Moves(call) /\ Kinds(call)
      /\ Essential(call) => WaysOut(call)
  <2>1. CASE Essential(call)
    BY <1>1, <1>2, <2>1, OutMoves DEF Kinds
  <2>2. CASE ~Essential(call)
    BY <1>1, <1>2, <2>2, GoOnMoves DEF GoOn, Kinds
  <2>3. QED
    BY <2>1, <2>2
<1>4. Relevant(call) \in BOOLEAN
  BY DEF Relevant
<1>5. /\ record' \in RecordType /\ record'.errors = record.errors /\ record'.down = record.down
      /\ record'.good = (record.good /\ ~Relevant(call))
  BY <1>1, <1>4 DEF Types, RecordType
<1>6. /\ UnknownTotal(call) \in [calls : Nat, tokens : Nat, fit : BOOLEAN]
      /\ UnknownTotal(call).fit = FALSE
  <2>1. Charge(call, 0) \in [calls : Nat, tokens : Nat, fit : BOOLEAN]
    BY ChargeType
  <2>2. QED
    BY <2>1 DEF UnknownTotal
<1>7. /\ Charge(call, 1) \in [calls : Nat, tokens : Nat, fit : BOOLEAN]
      /\ Charge(call, 1).fit = usage.fit
      /\ usage \in [calls : Nat, tokens : Nat, fit : BOOLEAN]
  BY ChargeType DEF Types
<1>8. usage' \in [calls : Nat, tokens : Nat, fit : BOOLEAN] /\ (~usage.fit => ~usage'.fit)
  BY <1>1, <1>6, <1>7
<1>9. UsageStep(call)
  <2>1. ~record.good => ~record'.good
    BY <1>5
  <2>2. CASE hidden' = hidden \/ ~usage'.fit
    BY <1>8, <2>1, <2>2 DEF UsageStep
  <2>3. CASE hidden' = hidden \cup {<<call, "lost">>}
    <3>1. CASE call = "explain"
      BY <1>8, <2>1, <2>3, <3>1 DEF UsageStep
    <3>2. CASE Relevant(call)
      BY <1>5, <1>8, <2>1, <3>2 DEF UsageStep
    <3>3. CASE campaign = "chain" /\ part = "patched"
      BY <1>1, <1>2, <1>3, <1>8, <2>1, <3>3 DEF UsageStep, rows
    <3>4. QED
      BY <1>2, <3>1, <3>2, <3>3 DEF Relevant, Arm
  <2>4. QED
    BY <1>1, <1>6, <2>2, <2>3
<1>10. QED
  BY <1>1, <1>2, <1>3, <1>5, <1>8, <1>9, Asked

LEMMA TimedOutStep ==
    ASSUME Types, Control, NEW call \in Asks[campaign], TimedOutCall(call)
    PROVE  Step(call) /\ Types'
<1>1. /\ At(call) /\ Raise /\ UNCHANGED <<outside, record, facts, usage, rows, range, left>>
  BY DEF TimedOutCall
<1>2. call \in Silent \ (SetupCalls \cup TeardownCalls) /\ part \in Arm
  BY <1>1, ModelCalls
<1>3. Moves(call) /\ Kinds(call) /\ raised'
  BY <1>1, RaiseMoves DEF outside, Kinds, Quits
<1>4. UsageStep(call)
  BY <1>1, <1>3 DEF UsageStep
<1>5. record' \in RecordType /\ usage' \in [calls : Nat, tokens : Nat, fit : BOOLEAN]
  BY <1>1 DEF Types, RecordType
<1>6. QED
  BY <1>1, <1>2, <1>3, <1>4, <1>5, Asked

LEMMA BrokerStep ==
    ASSUME Types, Control, Broker
    PROVE  Step("broker") /\ Types'
<1>1. /\ At("broker") /\ UNCHANGED <<outside, facts, paid, rows, range, left>>
      /\ \/ GoOn /\ record' = record
         \/ record' = [record EXCEPT !.good = FALSE] /\ Do(WayOutOf("broker"))
  BY DEF Broker
<1>2. "broker" \in Silent \ (SetupCalls \cup TeardownCalls) /\ part \in Arm
  BY <1>1, SilentCalls, Where DEF HandoffCalls, SetupCalls, TeardownCalls
<1>3. Moves("broker") /\ Kinds("broker")
  BY <1>1, <1>2, GoOnMoves, OutMoves DEF outside, Kinds, Stops
<1>4. /\ record' \in RecordType /\ record'.errors = record.errors /\ record'.down = record.down
      /\ ~record.good => ~record'.good
  BY <1>1, ZenonT(60) DEF Types, RecordType
<1>5. UsageStep("broker") /\ usage' \in [calls : Nat, tokens : Nat, fit : BOOLEAN]
  BY <1>1, <1>4, QuietPaid DEF paid, Types
<1>6. QED
  BY <1>1, <1>2, <1>3, <1>4, <1>5, Asked

LEMMA ModelsStep ==
    ASSUME Types, Control, Models
    PROVE  \E call : Step(call) /\ Types'
BY BudgetStopStep, AnswerStep, NoAnswerStep, TimedOutStep, BrokerStep DEF Models

-----------------------------------------------------------------------------
(* The rows. *)

JobType == [Arm -> [lead : Status, agent : Status, handoff : BOOLEAN]]
ChainType == [Arm -> [state : {None, "RUNNING", "LINK_CONFIRMED", "CHAIN_CONFIRMED", "BLOCKED_BY_PATCH", "FAILED"},
                      links : Seq({"CONFIRMED", "PASS", "INCOMPLETE"})]]

LEMMA RowMoves ==
    ASSUME Control, NEW call, At(call), part \in Arm, Do(Following(call)), campaign' = campaign
    PROVE  /\ Moves(call) /\ Kinds(call)
           /\ \/ GoesOn(call)
              \/ call = "link_A" /\ WaysOut(call)
              \/ call = "link_B" /\ Skips(call)
<1>1. CASE Following(call) = Tail(todo)
  BY <1>1, GoOnMoves DEF GoOn, Kinds
<1>2. CASE Following(call) = WayOutOf(call) /\ call = "link_A"
  BY <1>2, OutMoves DEF Kinds, Stops
<1>3. CASE Following(call) = Tail(Tail(todo)) /\ call = "link_B"
  BY <1>3, SkipMoves DEF Kinds
<1>4. QED
  BY <1>1, <1>2, <1>3 DEF Following

(* What a row that was written must be like. *)
JobRow(call, jobs) ==
    /\ jobs \in JobType
    /\ \A a \in Arm \ {part} : jobs[a] = job[a]
    /\ \A who \in {"lead", "agent"} :
          /\ call \in Closers[who] => ~Holds(jobs, who)
          /\ Holds(jobs, who) => Holds(job, who) \/ call \in Openers[who]

ChainRow(call, chains) ==
    /\ chains \in ChainType
    /\ \A a \in Arm \ {part} : chains[a] = chain[a]
    /\ \/ call \notin Marks \cup {"link_A", "link_B", "final"} /\ chains = chain
       \/ call \in Marks /\ chains = State(call)
       \/ call = "link_A" /\ chains = Linked("verify")
       \/ call = "link_B" /\ chains = Linked("verify_B")
       \/ call = "final" /\ chains = State(IF BothConfirmed THEN "CHAIN_CONFIRMED" ELSE "FAILED")

LEMMA RowStep ==
    ASSUME Types, Control, NEW call \in Call \ (SetupCalls \cup TeardownCalls), NEW jobs, NEW chains,
           Row(call, jobs, chains), JobRow(call, jobs), ChainRow(call, chains)
    PROVE  Step(call) /\ Types'
<1>1. At(call) /\ part \in Arm /\ UNCHANGED <<outside, record, facts, paid, range, left>>
  BY Where DEF Row
<1>2. UsageStep(call) /\ ContainerStep(call) /\ FactStep(call) /\ LinksSeen(call)
  BY <1>1, QuietPaid, QuietStacks, QuietFacts DEF paid, TeardownCalls
<1>3. CASE job' = jobs /\ chain' = chains /\ Do(Following(call))
  <2>1. /\ Moves(call) /\ Kinds(call)
        /\ \/ GoesOn(call)
           \/ call = "link_A" /\ WaysOut(call)
           \/ call = "link_B" /\ Skips(call)
    BY <1>1, <1>3, RowMoves DEF outside
  <2>2. JobStep(call)
    BY <1>1, <1>3 DEF JobStep, JobRow
  <2>3. ChainStep(call)
    BY <1>3, <2>1 DEF ChainStep, ChainRow, Marks
  <2>4. PristineStep
    BY <1>1, <1>3 DEF PristineStep, JobRow, ChainRow, paid
  <2>5. Types'
    BY <1>1, <1>3 DEF Types, JobRow, JobType, ChainRow, ChainType, outside, paid
  <2>6. QED
    BY <1>1, <1>2, <2>1, <2>2, <2>3, <2>4, <2>5 DEF Step, outside
<1>4. CASE Raise /\ UNCHANGED rows
  <2>1. Moves(call) /\ Kinds(call) /\ Quits
    BY <1>1, <1>4, RaiseMoves DEF outside, Kinds
  <2>2. Types'
    BY <1>1, <1>4 DEF Types, outside, paid, rows
  <2>3. QED
    BY <1>1, <1>2, <1>4, <2>1, <2>2, Quiet DEF outside, paid, rows
<1>5. QED
  BY <1>3, <1>4 DEF Row

LEMMA StatusHeld ==
    ASSUME Types
    PROVE  /\ {None, "QUEUED", "CLAIMED", "CLOSED"} = Status
           /\ "CLOSED" \notin {"QUEUED", "CLAIMED"} /\ None \notin {"QUEUED", "CLAIMED"}
           /\ job \in JobType /\ chain \in ChainType
BY DEF Types, Status, Said, JobType, ChainType

LEMMA LeadRow ==
    ASSUME Types, part \in Arm, NEW status \in {"QUEUED", "CLAIMED", "CLOSED"}
    PROVE  /\ Job("lead", status) \in JobType
           /\ \A a \in Arm \ {part} : Job("lead", status)[a] = job[a]
           /\ Job("lead", status)[part].lead = status
           /\ Job("lead", status)[part].agent = job[part].agent
<1>1. status \in Status /\ job \in JobType
  BY StatusHeld
<1>2. Job("lead", status) = [job EXCEPT ![part] = [job[part] EXCEPT !.lead = status]]
  BY DEF Job
<1>3. job[part] \in [lead : Status, agent : Status, handoff : BOOLEAN]
  BY <1>1 DEF JobType
<1> DEFINE r == [job[part] EXCEPT !.lead = status]
<1>4. r \in [lead : Status, agent : Status, handoff : BOOLEAN] /\ r.lead = status /\ r.agent = job[part].agent
  BY <1>1, <1>3
<1> HIDE DEF r
<1>5. Job("lead", status) = [job EXCEPT ![part] = r]
  BY <1>2 DEF r
<1>6. QED
  BY <1>1, <1>4, <1>5 DEF JobType

LEMMA AgentRow ==
    ASSUME Types, part \in Arm, NEW status \in {"QUEUED", "CLAIMED", "CLOSED"}
    PROVE  /\ Job("agent", status) \in JobType
           /\ \A a \in Arm \ {part} : Job("agent", status)[a] = job[a]
           /\ Job("agent", status)[part].agent = status
           /\ Job("agent", status)[part].lead = job[part].lead
<1>1. status \in Status /\ job \in JobType
  BY StatusHeld
<1>2. Job("agent", status) = [job EXCEPT ![part] = [job[part] EXCEPT !.agent = status]]
  BY DEF Job
<1>3. job[part] \in [lead : Status, agent : Status, handoff : BOOLEAN]
  BY <1>1 DEF JobType
<1> DEFINE r == [job[part] EXCEPT !.agent = status]
<1>4. r \in [lead : Status, agent : Status, handoff : BOOLEAN] /\ r.agent = status /\ r.lead = job[part].lead
  BY <1>1, <1>3
<1> HIDE DEF r
<1>5. Job("agent", status) = [job EXCEPT ![part] = r]
  BY <1>2 DEF r
<1>6. QED
  BY <1>1, <1>4, <1>5 DEF JobType

(* The rows by name, of both kinds. *)
LEMMA HoldsIs ==
    ASSUME NEW jobs
    PROVE  /\ Holds(jobs, "lead") <=> jobs[part].lead \in {"QUEUED", "CLAIMED"}
           /\ Holds(jobs, "agent") <=> jobs[part].agent \in {"QUEUED", "CLAIMED"}
BY DEF Holds

LEMMA ClosersAre ==
    /\ Openers["lead"] = {"enqueue_lead", "claim_lead"} /\ Openers["agent"] = {"enqueue_agent", "claim_agent"}
    /\ Closers["lead"] = {"close_lead", "settle_lead"} /\ Closers["agent"] = {"close_agent", "settle_agent"}
BY DEF Openers, Closers

LEMMA LeadRows ==
    ASSUME Types, part \in Arm, NEW call, NEW status,
           \/ call \in {"enqueue_lead", "claim_lead"} /\ status \in {"QUEUED", "CLAIMED"}
           \/ call \in {"close_lead", "settle_lead"} /\ status = "CLOSED"
    PROVE  JobRow(call, Job("lead", status))
<1>1. status \in {"QUEUED", "CLAIMED", "CLOSED"}
  OBVIOUS
<1> DEFINE jobs == Job("lead", status)
<1>2. /\ jobs \in JobType /\ \A a \in Arm \ {part} : jobs[a] = job[a]
      /\ jobs[part].lead = status /\ jobs[part].agent = job[part].agent
  BY <1>1, LeadRow
<1> HIDE DEF jobs
<1>3. /\ call \in Closers["lead"] => ~Holds(jobs, "lead")
      /\ Holds(jobs, "lead") => call \in Openers["lead"]
  BY <1>2, HoldsIs, ClosersAre
<1>4. /\ call \notin Closers["agent"]
      /\ Holds(jobs, "agent") => Holds(job, "agent")
  BY <1>2, HoldsIs, ClosersAre
<1>5. QED
  BY <1>2, <1>3, <1>4 DEF JobRow, jobs

LEMMA AgentRows ==
    ASSUME Types, part \in Arm, NEW call, NEW status,
           \/ call \in {"enqueue_agent", "claim_agent"} /\ status \in {"QUEUED", "CLAIMED"}
           \/ call \in {"close_agent", "settle_agent"} /\ status = "CLOSED"
    PROVE  JobRow(call, Job("agent", status))
<1>1. status \in {"QUEUED", "CLAIMED", "CLOSED"}
  OBVIOUS
<1> DEFINE jobs == Job("agent", status)
<1>2. /\ jobs \in JobType /\ \A a \in Arm \ {part} : jobs[a] = job[a]
      /\ jobs[part].agent = status /\ jobs[part].lead = job[part].lead
  BY <1>1, AgentRow
<1> HIDE DEF jobs
<1>3. /\ call \in Closers["agent"] => ~Holds(jobs, "agent")
      /\ Holds(jobs, "agent") => call \in Openers["agent"]
  BY <1>2, HoldsIs, ClosersAre
<1>4. /\ call \notin Closers["lead"]
      /\ Holds(jobs, "lead") => Holds(job, "lead")
  BY <1>2, HoldsIs, ClosersAre
<1>5. QED
  BY <1>2, <1>3, <1>4 DEF JobRow, jobs

LEMMA SameJob ==
    ASSUME Types, NEW call, \A who \in {"lead", "agent"} : call \notin Closers[who]
    PROVE  JobRow(call, job)
BY StatusHeld DEF JobRow

LEMMA SameChain ==
    ASSUME Types, NEW call, call \notin Marks \cup {"link_A", "link_B", "final"}
    PROVE  ChainRow(call, chain)
BY StatusHeld DEF ChainRow

LEMMA StateRow ==
    ASSUME Types, part \in Arm, NEW state \in Marks \cup {"CHAIN_CONFIRMED"}
    PROVE  State(state) \in ChainType /\ \A a \in Arm \ {part} : State(state)[a] = chain[a]
<1>1. chain \in ChainType
  BY StatusHeld
<1>2. QED
  BY <1>1 DEF State, ChainType, Marks

LEMMA LinkRow ==
    ASSUME Types, part \in Arm, NEW step
    PROVE  Linked(step) \in ChainType /\ \A a \in Arm \ {part} : Linked(step)[a] = chain[a]
<1> DEFINE L == {"CONFIRMED", "PASS", "INCOMPLETE"}
<1>1. chain \in ChainType
  BY StatusHeld
<1>2. Link(step) \in L
  BY DEF Link
<1>3. chain[part].links \in Seq(L)
  BY <1>1 DEF ChainType
<1> DEFINE new == Append(chain[part].links, Link(step))
<1>4. new \in Seq(L)
  BY <1>2, <1>3
<1>5. Linked(step) = [chain EXCEPT ![part].links = new]
  BY DEF Linked
<1> HIDE DEF new
<1>6. QED
  BY <1>1, <1>4, <1>5 DEF ChainType

LEMMA RowCalls ==
    ASSUME Types, Control,
           NEW call \in {"enqueue_lead", "claim_lead", "close_lead", "delegation", "enqueue_agent", "claim_agent",
                         "close_agent", "link_A", "link_B", "final", "settle_agent", "settle_lead"} \cup Marks,
           At(call)
    PROVE  call \in Call \ (SetupCalls \cup TeardownCalls) /\ part \in Arm
<1>1. call \notin SetupCalls \cup TeardownCalls
  BY DEF Marks, SetupCalls, TeardownCalls
<1>2. QED
  BY <1>1, Where

LEMMA SettleStep ==
    ASSUME Types, Control, NEW who, NEW call,
           \/ who = "agent" /\ call = "settle_agent"
           \/ who = "lead" /\ call = "settle_lead",
           Settle(who, call)
    PROVE  Step(call) /\ Types'
<1>1. /\ At(call) /\ GoOn /\ UNCHANGED <<outside, facts, paid, chain, range, left>>
      /\ \/ job' = Job(who, "CLOSED") /\ record' = record
         \/ record' = [record EXCEPT !.errors = record.errors \cup {<<part, who>>}] /\ job' = job
  BY DEF Settle
<1>2. call \in Call \ (SetupCalls \cup TeardownCalls) /\ part \in Arm /\ who \in {"lead", "agent"}
  BY <1>1, RowCalls
<1>3. Moves(call) /\ Kinds(call) /\ GoesOn(call)
  BY <1>1, GoOnMoves DEF outside, Kinds
<1>4. /\ record' \in RecordType /\ record'.down = record.down /\ record'.good = record.good
      /\ record.errors \subseteq record'.errors
  <2>1. <<part, who>> \in Arm \X {"lead", "agent"}
    BY <1>2
  <2>2. record \in RecordType
    BY DEF Types, RecordType
  <2>3. record.errors \cup {<<part, who>>} \subseteq Arm \X {"lead", "agent"}
    BY <2>1, <2>2 DEF RecordType
  <2>4. QED
    BY <1>1, <2>2, <2>3 DEF RecordType
<1>5. CASE job' = Job(who, "CLOSED") /\ record' = record
  <2>1. JobRow(call, job')
    BY <1>2, <1>5, LeadRows, AgentRows
  <2>2. JobStep(call)
    BY <1>5, <2>1 DEF JobStep, JobRow
  <2>3. QED
    <3>1. Types'
      BY <1>1, <1>5, <2>1 DEF Types, JobRow, JobType, outside, paid
    <3>2. PristineStep
      BY <1>1, <2>1 DEF PristineStep, JobRow, paid
    <3>3. ChainStep(call)
      BY <1>1 DEF ChainStep
    <3>4. UsageStep(call) /\ ContainerStep(call) /\ FactStep(call) /\ LinksSeen(call)
      BY <1>1, <1>2, <1>4, QuietPaid, QuietStacks, QuietFacts DEF paid, TeardownCalls
    <3>5. QED
      BY <1>1, <1>3, <2>2, <3>1, <3>2, <3>3, <3>4 DEF Step, outside
<1>6. CASE record' = [record EXCEPT !.errors = record.errors \cup {<<part, who>>}] /\ job' = job
  <2>1. <<part, who>> \in record'.errors
    BY <1>6 DEF Types
  <2>2. JobStep(call)
    <3>1. \A w \in {"lead", "agent"} : call \in Closers[w] => w = who
      BY <1>2, ClosersAre
    <3>2. \A w \in {"lead", "agent"} : Holds(job', w) <=> Holds(job, w)
      BY <1>6 DEF Holds
    <3>3. QED
      BY <1>4, <1>6, <2>1, <3>1, <3>2 DEF JobStep
  <2>3. QED
    <3>1. Types'
      BY <1>1, <1>4, <1>6, ZenonT(60) DEF Types, RecordType, outside, paid
    <3>2. PristineStep
      BY <1>1, <1>6 DEF PristineStep, paid
    <3>3. ChainStep(call)
      BY <1>1 DEF ChainStep
    <3>4. UsageStep(call) /\ ContainerStep(call) /\ FactStep(call) /\ LinksSeen(call)
      BY <1>1, <1>2, <1>4, QuietPaid, QuietStacks, QuietFacts DEF paid, TeardownCalls
    <3>5. QED
      BY <1>1, <1>3, <2>2, <3>1, <3>2, <3>3, <3>4 DEF Step, outside
<1>7. QED
  BY <1>1, <1>5, <1>6

LEMMA JobRowsStep ==
    ASSUME Types, Control, NEW call, NEW who, NEW status,
           \/ who = "lead" /\ call \in {"enqueue_lead", "claim_lead"} /\ status \in {"QUEUED", "CLAIMED"}
           \/ who = "lead" /\ call = "close_lead" /\ status = "CLOSED"
           \/ who = "agent" /\ call \in {"enqueue_agent", "claim_agent"} /\ status \in {"QUEUED", "CLAIMED"}
           \/ who = "agent" /\ call = "close_agent" /\ status = "CLOSED",
           Row(call, Job(who, status), chain)
    PROVE  Step(call) /\ Types'
<1>1. At(call)
  BY DEF Row
<1>2. call \in Call \ (SetupCalls \cup TeardownCalls) /\ part \in Arm
  BY <1>1, RowCalls
<1>3. JobRow(call, Job(who, status))
  BY <1>2, LeadRows, AgentRows
<1>4. ChainRow(call, chain)
  <2>1. call \notin Marks \cup {"link_A", "link_B", "final"}
    BY DEF Marks
  <2>2. QED
    BY <2>1, SameChain
<1>5. QED
  BY <1>2, <1>3, <1>4, RowStep

LEMMA DelegationStep ==
    ASSUME Types, Control, Row("delegation", [job EXCEPT ![part].handoff = TRUE], chain)
    PROVE  Step("delegation") /\ Types'
<1>1. At("delegation")
  BY DEF Row
<1>2. "delegation" \in Call \ (SetupCalls \cup TeardownCalls) /\ part \in Arm
  BY <1>1, RowCalls
<1> DEFINE jobs == [job EXCEPT ![part].handoff = TRUE]
<1>3. /\ jobs \in JobType /\ \A a \in Arm \ {part} : jobs[a] = job[a]
      /\ jobs[part].lead = job[part].lead /\ jobs[part].agent = job[part].agent
  <2>1. job \in JobType
    BY StatusHeld
  <2> DEFINE r == [job[part] EXCEPT !.handoff = TRUE]
  <2>2. /\ r \in [lead : Status, agent : Status, handoff : BOOLEAN]
        /\ r.lead = job[part].lead /\ r.agent = job[part].agent
    BY <1>2, <2>1 DEF JobType
  <2>3. jobs = [job EXCEPT ![part] = r]
    OBVIOUS
  <2> HIDE DEF r, jobs
  <2>4. QED
    BY <1>2, <2>1, <2>2, <2>3 DEF JobType
<1> HIDE DEF jobs
<1>4. JobRow("delegation", jobs)
  <2>1. \A who \in {"lead", "agent"} : "delegation" \notin Closers[who]
    BY ClosersAre
  <2>2. \A who \in {"lead", "agent"} : Holds(jobs, who) => Holds(job, who)
    BY <1>3, HoldsIs
  <2>3. QED
    BY <1>3, <2>1, <2>2 DEF JobRow
<1>5. ChainRow("delegation", chain)
  <2>1. "delegation" \notin Marks \cup {"link_A", "link_B", "final"}
    BY DEF Marks
  <2>2. QED
    BY <2>1, SameChain
<1>6. Row("delegation", jobs, chain)
  BY DEF jobs
<1>7. QED
  BY <1>2, <1>4, <1>5, <1>6, RowStep

LEMMA ChainRowsStep ==
    ASSUME Types, Control, NEW call, NEW chains,
           \/ call \in Marks /\ chains = State(call)
           \/ call = "link_A" /\ chains = Linked("verify")
           \/ call = "link_B" /\ chains = Linked("verify_B")
           \/ call = "final" /\ chains = State(IF BothConfirmed THEN "CHAIN_CONFIRMED" ELSE "FAILED"),
           Row(call, job, chains)
    PROVE  Step(call) /\ Types'
<1>1. At(call)
  BY DEF Row
<1>2. call \in Call \ (SetupCalls \cup TeardownCalls) /\ part \in Arm
  BY <1>1, RowCalls
<1>3. JobRow(call, job)
  <2>1. \A who \in {"lead", "agent"} : call \notin Closers[who]
    BY ClosersAre DEF Marks
  <2>2. QED
    BY <2>1, SameJob
<1>4. chains \in ChainType /\ \A a \in Arm \ {part} : chains[a] = chain[a]
  <2>1. CASE \E state \in Marks \cup {"CHAIN_CONFIRMED"} : chains = State(state)
    BY <1>2, <2>1, StateRow
  <2>2. CASE \E step : chains = Linked(step)
    BY <1>2, <2>2, LinkRow
  <2>3. QED
    <3>1. (IF BothConfirmed THEN "CHAIN_CONFIRMED" ELSE "FAILED") \in Marks \cup {"CHAIN_CONFIRMED"}
      BY DEF Marks
    <3>2. QED
      BY <2>1, <2>2, <3>1
<1>5. ChainRow(call, chains)
  BY <1>4 DEF ChainRow
<1>6. QED
  BY <1>2, <1>3, <1>5, RowStep

LEMMA RowsStep ==
    ASSUME Types, Control, Rows
    PROVE  \E call : Step(call) /\ Types'
<1>1. CASE \/ Row("enqueue_lead", Job("lead", "QUEUED"), chain)
           \/ Row("claim_lead", Job("lead", "CLAIMED"), chain)
           \/ Row("close_lead", Job("lead", "CLOSED"), chain)
           \/ Row("enqueue_agent", Job("agent", "QUEUED"), chain)
           \/ Row("claim_agent", Job("agent", "CLAIMED"), chain)
           \/ Row("close_agent", Job("agent", "CLOSED"), chain)
  BY <1>1, JobRowsStep
<1>2. CASE Row("delegation", [job EXCEPT ![part].handoff = TRUE], chain)
  BY <1>2, DelegationStep
<1>3. CASE \/ \E state \in {"RUNNING", "LINK_CONFIRMED", "BLOCKED_BY_PATCH", "FAILED"} :
                 Row(state, job, State(state))
           \/ Row("link_A", job, Linked("verify"))
           \/ Row("link_B", job, Linked("verify_B"))
           \/ Row("final", job, State(IF BothConfirmed THEN "CHAIN_CONFIRMED" ELSE "FAILED"))
  BY <1>3, ChainRowsStep DEF Marks
<1>4. CASE Settle("agent", "settle_agent") \/ Settle("lead", "settle_lead")
  <2>1. CASE Settle("agent", "settle_agent")
    <3>1. Step("settle_agent") /\ Types'
      BY <2>1, SettleStep
    <3>2. QED
      BY <3>1
  <2>2. CASE Settle("lead", "settle_lead")
    <3>1. Step("settle_lead") /\ Types'
      BY <2>2, SettleStep
    <3>2. QED
      BY <3>1
  <2>3. QED
    BY <1>4, <2>1, <2>2
<1>5. QED
  BY <1>1, <1>2, <1>3, <1>4 DEF Rows, CloseAgent

LEMMA StacksStep ==
    ASSUME Types, Control, Stacks, ~WorkerEnds
    PROVE  \E call : Step(call) /\ Types'
<1>1. CASE \E call \in {"build_ds", "build_range"} : Build(call)
  BY <1>1, BuildStep
<1>2. CASE Up("up_ds", {"ds"})
  <2>1. Step("up_ds") /\ Types'
    BY <1>2, UpStep
  <2>2. QED
    BY <2>1
<1>3. CASE Up("up_range", {"range", "network"})
  <2>1. Step("up_range") /\ Types'
    BY <1>3, UpStep
  <2>2. QED
    BY <2>1
<1>4. CASE Health
  BY <1>4, HealthStep
<1>5. CASE Down("down_ds", {"ds"})
  <2>1. Step("down_ds") /\ Types'
    BY <1>5, DownStep
  <2>2. QED
    BY <2>1
<1>6. CASE Down("down_range", {"range", "network"})
  <2>1. Step("down_range") /\ Types'
    BY <1>6, DownStep
  <2>2. QED
    BY <2>1
<1>7. CASE List
  BY <1>7, ListStep
<1>8. QED
  BY <1>1, <1>2, <1>3, <1>4, <1>5, <1>6, <1>7 DEF Stacks

LEMMA WorkerStep ==
    ASSUME Types, Control, Worker
    PROVE  \E call : Step(call) /\ Types'
BY DetectionStep, LoginsStep, ChainProbeStep, WorkerTimeoutStep, WorkerOutputStep DEF Worker

-----------------------------------------------------------------------------
(* What is no step of the script. *)

(* A worker's end, somebody else's reset or switch, a restart of the range, a stutter. *)
LEMMA AsideKept ==
    ASSUME IInv, WorkerEnds \/ Operate \/ RangeRestart \/ UNCHANGED vars
    PROVE  IInv'
<1>1. /\ Types /\ Control /\ Pristine /\ Jobs /\ Chains /\ Record /\ Usage /\ Containers /\ Accepted
  BY DEF IInv
<1>2. /\ campaign' = campaign /\ part' = part /\ todo' = todo /\ raised' = raised /\ record' = record
      /\ facts' = facts /\ usage' = usage /\ job' = job /\ chain' = chain /\ hidden' = hidden
      /\ written' = written /\ left' \subseteq left
  BY DEF WorkerEnds, Operate, RangeRestart, vars, outside, paid, rows
<1>3. range' \in RangeType
  <2>1. range \in RangeType
    BY <1>1 DEF Types, RangeType
  <2>2. CASE WorkerEnds
    BY <2>1, <2>2 DEF WorkerEnds
  <2>3. CASE Operate
    <3>1. CASE range' = ResetRange
      BY <2>1, <3>1, RangeTypes
    <3>2. ASSUME NEW a \in Arm, NEW i \in 1 .. Len(Puts(a)), NEW on \in BOOLEAN,
                 range' = [range EXCEPT !.generation = Generation,
                              !.vulnerable = IF on THEN @ \cup {Puts(a)[i]} ELSE @ \ {Puts(a)[i]}]
          PROVE  range' \in RangeType
      BY <2>1, <3>2, RangeTypes
    <3>3. QED
      BY <2>3, <3>1, <3>2 DEF Operate
  <2>4. CASE RangeRestart
    BY <2>1, <2>4, RangeTypes DEF RangeRestart
  <2>5. CASE UNCHANGED vars
    BY <2>1, <2>5 DEF vars
  <2>6. QED
    BY <2>2, <2>3, <2>4, <2>5
<1>4. Types'
  BY <1>1, <1>2, <1>3 DEF Types, RangeType
<1>5. Rest' = Rest
  BY <1>2 DEF Rest, Elements
<1>6. Control'
  <2>1. Tidy(todo)'
    BY <1>1, <1>2 DEF Control, Tidy, Stage
  <2>2. Due' = Due
    BY <1>2 DEF Due, CallsOf, OutCalls
  <2>3. Ahead'
    BY <1>1, <1>2, <1>5 DEF Control, Ahead, Meets
  <2>4. QED
    BY <1>1, <1>2, <1>5, <2>1, <2>2, <2>3 DEF Control
<1>7. Pristine'
  BY <1>1, <1>2 DEF Pristine, Untouched
<1>8. Jobs'
  BY <1>1, <1>2, <1>5 DEF Jobs, Open
<1>9. Chains'
  BY <1>1, <1>2, <1>5 DEF Chains, Link, Saw
<1>10. Record'
  BY <1>1, <1>2, <1>5 DEF Record, Facts, Sound, Seen
<1>11. Usage'
  BY <1>1, <1>2, <1>5 DEF Usage, Doomed
<1>12. Containers'
  BY <1>1, <1>2, <1>5 DEF Containers, Meets
<1>13. Accepted'
  <2>1. Go' <=> Go
    BY <1>2 DEF Go, Paid, ArmVerdict, AdversaryVerdict, AuthenticationVerdict, ChainVerdict, BoundaryVerdict,
       Saw, Credential, Confirmed
  <2>2. QED
    BY <1>1, <1>2, <2>1 DEF Accepted
<1>14. QED
  BY <1>4, <1>6, <1>7, <1>8, <1>9, <1>10, <1>11, <1>12, <1>13 DEF IInv

LEMMA VerdictKept ==
    ASSUME IInv, Verdict
    PROVE  IInv'
<1>1. /\ Types /\ Control /\ Pristine /\ Jobs /\ Chains /\ Record /\ Usage /\ Containers /\ Accepted
  BY DEF IInv
<1>2. /\ part = "verdict" /\ part' = "over" /\ campaign' = campaign /\ todo' = todo /\ raised' = raised
      /\ record' = record /\ facts' = facts /\ usage' = usage /\ job' = job /\ chain' = chain
      /\ hidden' = hidden /\ left' = left /\ range' = range
      /\ written' = IF Go THEN "GO" ELSE "PARTIAL"
  BY DEF Verdict, paid, rows
<1>3. Rest = {} /\ Rest' = {} /\ ~raised /\ raised \in BOOLEAN
  <2>1. Rest = {}
    BY <1>1, <1>2 DEF Control, Due, Arm
  <2>2. Rest' = Rest
    BY <1>2 DEF Rest, Elements
  <2>3. QED
    BY <1>1, <1>2, <2>1, <2>2 DEF Control
<1>4. Types'
  BY <1>1, <1>2 DEF Types
<1>5. Control'
  <2>1. Tidy(todo)'
    BY <1>1, <1>2 DEF Control, Tidy, Stage
  <2>2. Ahead'
    BY <1>3 DEF Ahead, Meets
  <2>3. QED
    BY <1>1, <1>2, <1>3, <2>1, <2>2 DEF Control
<1>6. Pristine'
  BY <1>2 DEF Pristine
<1>7. Jobs'
  BY <1>1, <1>2, <1>3 DEF Jobs, Open, Meets, Arm
<1>8. Chains'
  BY <1>1, <1>2, <1>3 DEF Chains, Meets, Arm
<1>9. Record'
  BY <1>1, <1>2, <1>3 DEF Record, Facts, Sound, Seen
<1>10. Usage'
  BY <1>1, <1>2 DEF Usage, Doomed
<1>11. Containers'
  BY <1>1, <1>2, <1>3 DEF Containers, Arm
<1>12. Accepted'
  <2>1. Go' <=> Go
    BY <1>2 DEF Go, Paid, ArmVerdict, AdversaryVerdict, AuthenticationVerdict, ChainVerdict, BoundaryVerdict,
       Saw, Credential, Confirmed
  <2>2. QED
    BY <1>2, <1>3, <2>1 DEF Accepted
<1>13. QED
  BY <1>4, <1>5, <1>6, <1>7, <1>8, <1>9, <1>10, <1>11, <1>12 DEF IInv

LEMMA Begins ==
    ASSUME None \notin Said, Init
    PROVE  IInv
<1>1. /\ campaign \in Campaign
      /\ part = "setup" /\ todo = Setup /\ raised = FALSE
      /\ record = [up |-> TRUE, good |-> TRUE, stopped |-> FALSE, errors |-> {}, down |-> None, listed |-> {}]
      /\ facts = [a \in Arm |-> <<>>]
      /\ usage = [calls |-> 0, tokens |-> 0, fit |-> TRUE]
      /\ job = [a \in Arm |-> [lead |-> None, agent |-> None, handoff |-> FALSE]]
      /\ chain = [a \in Arm |-> [state |-> None, links |-> <<>>]]
      /\ range = Fresh /\ left = {} /\ hidden = {} /\ written = None
  BY DEF Init
<1>2. /\ Tidy(todo) /\ Rest = SetupCalls /\ Due = SetupCalls
  BY <1>1, SetupList DEF Rest, Due, Arm
<1>3. Types
  <2>1. range \in RangeType
    <3>1. <<1>> \in Seq(Nat)
      OBVIOUS
    <3>2. QED
      BY <1>1, <3>1 DEF Fresh, RangeType
  <2>2. chain \in ChainType
    <3>1. <<>> \in Seq({"CONFIRMED", "PASS", "INCOMPLETE"})
      OBVIOUS
    <3>2. QED
      BY <1>1, <3>1 DEF ChainType
  <2>3. job \in [Arm -> [lead : Status, agent : Status, handoff : BOOLEAN]]
    BY <1>1 DEF Status
  <2>4. record \in RecordType
    BY <1>1 DEF RecordType
  <2>5. DOMAIN facts = Arm /\ facts = [a \in Arm |-> facts[a]]
    BY <1>1
  <2>6. usage \in [calls : Nat, tokens : Nat, fit : BOOLEAN]
    BY <1>1
  <2>7. QED
    BY <1>1, <2>1, <2>2, <2>3, <2>4, <2>5, <2>6 DEF Types, RangeType, ChainType, RecordType
<1>4. Control
  <2>1. Ahead
    BY <1>1, <1>2 DEF Ahead, SetupCalls, Openers, Closers, Undecided, Decisive, Planning, Meets
  <2>2. QED
    BY <1>1, <1>2, <2>1 DEF Control
<1>5. Pristine
  BY <1>1 DEF Pristine, Untouched, Arm
<1>6. Jobs
  <2>1. \A a \in Arm : job[a].lead = None /\ job[a].agent = None
    BY <1>1
  <2>2. \A a \in Arm, who \in {"lead", "agent"} : ~Open(a, who)
    BY <2>1 DEF Open, Said
  <2>3. QED
    BY <1>1, <2>2 DEF Jobs, Arm
<1>7. Chains
  <2>1. \A a \in Arm : chain[a].state = None /\ chain[a].links = <<>> /\ a # part
    BY <1>1 DEF Arm
  <2>2. QED
    BY <2>1, BothIs DEF Chains, Said, Undecided
<1>8. Record
  BY <1>1 DEF Record, Facts, Seen, Arm
<1>9. Usage
  BY <1>1 DEF Usage
<1>10. Containers
  BY <1>1 DEF Containers, Arm
<1>11. Accepted
  BY <1>1 DEF Accepted, Said
<1>12. QED
  BY <1>3, <1>4, <1>5, <1>6, <1>7, <1>8, <1>9, <1>10, <1>11 DEF IInv

LEMMA Keeps ==
    ASSUME IInv, [Next]_vars
    PROVE  IInv'
<1>1. Types /\ Control
  BY DEF IInv
<1>2. CASE \E call : Step(call) /\ Types'
  BY <1>2, StepKept
<1>3. CASE WorkerEnds \/ Operate \/ RangeRestart \/ UNCHANGED vars
  BY <1>3, AsideKept
<1>4. CASE Verdict
  BY <1>4, VerdictKept
<1>5. QED
  BY <1>1, <1>2, <1>3, <1>4, StacksStep, RowsStep, ModelsStep, SwitchStep, ClearStep, WorkerStep, VerifierStep
     DEF Next

(* The invariant of the four scripts, with their types.                       *)
THEOREM Invariant == Spec => []IInv
<1>1. Init => IInv
  BY Begins, CampaignAssumption
<1>2. IInv /\ [Next]_vars => IInv'
  BY Keeps
<1>3. QED
  BY <1>1, <1>2, PTL DEF Spec

(* What a GO rests on: what a step is recorded to have seen, it saw.            *)
LEMMA AtGo ==
    ASSUME IInv, written = "GO"
    PROVE  /\ Go /\ ~raised /\ part = "over" /\ None \notin Said /\ campaign \in Campaign
           /\ \A a \in Arm, word \in Said : \A step :
                 Saw(a, step) = word => step \in DOMAIN facts[a] /\ facts[a][step].saw = word
           /\ \A a \in Arm : \A step : Saw(a, step) \in Said => Sound(step, facts[a][step])
<1>1. None \notin Said /\ campaign \in Campaign /\ Record /\ Accepted
  BY DEF IInv, Types
<1>2. Go /\ ~raised /\ part = "over"
  BY <1>1 DEF Accepted, Said
<1>3. ASSUME NEW a \in Arm, NEW step, Saw(a, step) \in Said
      PROVE  step \in DOMAIN facts[a] /\ facts[a][step].saw = Saw(a, step) /\ Sound(step, facts[a][step])
  BY <1>1, <1>3 DEF Record, Facts, Saw
<1>4. QED
  BY <1>1, <1>2, <1>3

(* The adversary campaign: the alternate probe of either arm.                   *)
LEMMA AdversaryEarned ==
    ASSUME IInv, written = "GO", campaign = "adversary"
    PROVE  "ops" \in In("vulnerable", "alternate") /\ "ops" \notin In("patched", "alternate")
<1>1. AdversaryVerdict("vulnerable") /\ AdversaryVerdict("patched")
  BY AtGo DEF Go, ArmVerdict, Arm
<1>2. Saw("vulnerable", "alternate") = "reached" /\ Saw("patched", "alternate") = "denied"
  BY <1>1 DEF AdversaryVerdict
<1>3. {"reached", "denied"} \subseteq Said /\ {"vulnerable", "patched"} = Arm
  BY DEF Said, Arm
<1>4. /\ Sound("alternate", facts["vulnerable"]["alternate"]) /\ facts["vulnerable"]["alternate"].saw = "reached"
      /\ Sound("alternate", facts["patched"]["alternate"]) /\ facts["patched"]["alternate"].saw = "denied"
  BY <1>2, <1>3, AtGo
<1>5. QED
  BY <1>4 DEF Sound, In

(* The authentication campaign: the verification, the burst and the login after it. *)
LEMMA AuthenticationEarned ==
    ASSUME IInv, written = "GO", campaign = "authentication"
    PROVE  /\ "login" \in In("vulnerable", "verify") /\ "login" \notin In("patched", "verify")
           /\ facts["vulnerable"]["burst"].mark => "login" \in In("vulnerable", "burst")
           /\ "login" \notin In("patched", "burst") \/ "login" \notin In("patched", "post")
<1>1. AuthenticationVerdict("vulnerable") /\ AuthenticationVerdict("patched")
  BY AtGo DEF Go, ArmVerdict, Arm
<1>2. /\ Saw("vulnerable", "verify") = "CONFIRMED" /\ Saw("patched", "verify") = "PASS"
      /\ Saw("vulnerable", "burst") = "open"
      /\ Saw("patched", "burst") = "throttled" \/ Saw("patched", "post") = "throttled"
  BY <1>1 DEF AuthenticationVerdict, Expected
<1>3. {"CONFIRMED", "PASS", "open", "throttled"} \subseteq Said /\ {"vulnerable", "patched"} = Arm
  BY DEF Said, Arm
<1>4. "login" \in In("vulnerable", "verify")
  <2>1. Sound("verify", facts["vulnerable"]["verify"]) /\ facts["vulnerable"]["verify"].saw = "CONFIRMED"
    BY <1>2, <1>3, AtGo
  <2>2. QED
    BY <2>1 DEF Sound, In
<1>5. "login" \notin In("patched", "verify")
  <2>1. Sound("verify", facts["patched"]["verify"]) /\ facts["patched"]["verify"].saw = "PASS"
    BY <1>2, <1>3, AtGo
  <2>2. QED
    BY <2>1 DEF Sound, In
<1>6. facts["vulnerable"]["burst"].mark => "login" \in In("vulnerable", "burst")
  <2>1. Sound("burst", facts["vulnerable"]["burst"]) /\ facts["vulnerable"]["burst"].saw = "open"
    BY <1>2, <1>3, AtGo
  <2>2. QED
    BY <2>1 DEF Sound, In
<1>7. "login" \notin In("patched", "burst") \/ "login" \notin In("patched", "post")
  <2>1. CASE Saw("patched", "burst") = "throttled"
    <3>1. Sound("burst", facts["patched"]["burst"]) /\ facts["patched"]["burst"].saw = "throttled"
      BY <2>1, <1>3, AtGo
    <3>2. QED
      BY <3>1 DEF Sound, In
  <2>2. CASE Saw("patched", "post") = "throttled"
    <3>1. Sound("post", facts["patched"]["post"]) /\ facts["patched"]["post"].saw = "throttled"
      BY <2>2, <1>3, AtGo
    <3>2. QED
      BY <3>1 DEF Sound, In
  <2>3. QED
    BY <1>2, <2>1, <2>2
<1>8. QED
  BY <1>4, <1>5, <1>6, <1>7

(* Chain and boundary: what the verification of Stage A says in either arm.      *)
LEMMA MetadataEarned ==
    ASSUME IInv, written = "GO", campaign # "authentication",
           Saw("vulnerable", "verify") = "CONFIRMED", Saw("patched", "verify") = "PASS"
    PROVE  /\ {"entry", "meta"} \subseteq In("vulnerable", "verify")
           /\ "entry" \in In("patched", "verify") /\ "meta" \notin In("patched", "verify")
<1>1. {"CONFIRMED", "PASS"} \subseteq Said /\ {"vulnerable", "patched"} = Arm
  BY DEF Said, Arm
<1>2. Sound("verify", facts["vulnerable"]["verify"]) /\ facts["vulnerable"]["verify"].saw = "CONFIRMED"
  BY <1>1, AtGo
<1>3. Sound("verify", facts["patched"]["verify"]) /\ facts["patched"]["verify"].saw = "PASS"
  BY <1>1, AtGo
<1>4. QED
  BY <1>2, <1>3 DEF Sound, In

(* The chain: both of its links, and a service reached with the credential seen.  *)
LEMMA ChainEarned ==
    ASSUME IInv, written = "GO", campaign = "chain"
    PROVE  /\ {"entry", "meta"} \subseteq In("vulnerable", "verify")
           /\ {"entry", "meta", "service"} \subseteq In("vulnerable", "verify_B")
           /\ facts["vulnerable"]["boundary"].mark = facts["vulnerable"]["service"].mark
           /\ "entry" \in In("patched", "verify") /\ "meta" \notin In("patched", "verify")
<1>1. ChainVerdict("vulnerable") /\ ChainVerdict("patched")
  BY AtGo DEF Go, ArmVerdict, Arm
<1>2. /\ Saw("vulnerable", "verify") = "CONFIRMED" /\ Saw("patched", "verify") = "PASS"
      /\ Saw("vulnerable", "boundary") = "credential" /\ Saw("vulnerable", "service") = "effect"
      /\ Saw("vulnerable", "verify_B") = "CONFIRMED"
  BY <1>1 DEF ChainVerdict, Expected, Credential, Confirmed
<1>3. {"CONFIRMED", "credential", "effect"} \subseteq Said /\ {"vulnerable", "patched"} = Arm
  BY DEF Said, Arm
<1>4. {"entry", "meta", "service"} \subseteq In("vulnerable", "verify_B")
  <2>1. Sound("verify_B", facts["vulnerable"]["verify_B"]) /\ facts["vulnerable"]["verify_B"].saw = "CONFIRMED"
    BY <1>2, <1>3, AtGo
  <2>2. QED
    BY <2>1 DEF Sound, In
<1>5. facts["vulnerable"]["boundary"].mark = facts["vulnerable"]["service"].mark
  <2>1. /\ "boundary" \in DOMAIN facts["vulnerable"] /\ "service" \in DOMAIN facts["vulnerable"]
        /\ facts["vulnerable"]["service"].saw = "effect"
    BY <1>2, <1>3, AtGo
  <2>2. Facts("vulnerable")
    BY <1>3 DEF IInv, Record
  <2>3. QED
    BY <2>1, <2>2 DEF Facts, Seen
<1>6. QED
  BY <1>2, <1>4, <1>5, MetadataEarned

(* GO means both arms saw what they claim on a range that was in the state of that *)
(* arm, whoever switched it meanwhile.                                         *)
THEOREM Earned == Spec => []GoEarned
<1>1. ASSUME IInv
      PROVE  GoEarned
  <2>1. SUFFICES ASSUME written = "GO"
                 PROVE  GoEarned
    BY DEF GoEarned
  <2>2. campaign \in {"adversary", "authentication", "chain", "boundary"}
    BY <1>1, <2>1, AtGo DEF Campaign
  <2>3. CASE campaign = "adversary"
    BY <1>1, <2>1, <2>3, AdversaryEarned DEF GoEarned
  <2>4. CASE campaign = "authentication"
    BY <1>1, <2>1, <2>4, AuthenticationEarned DEF GoEarned
  <2>5. CASE campaign = "chain"
    BY <1>1, <2>1, <2>5, ChainEarned DEF GoEarned
  <2>6. CASE campaign = "boundary"
    <3>1. BoundaryVerdict("vulnerable") /\ BoundaryVerdict("patched")
      BY <1>1, <2>1, <2>6, AtGo DEF Go, ArmVerdict, Arm
    <3>2. Saw("vulnerable", "verify") = "CONFIRMED" /\ Saw("patched", "verify") = "PASS"
      BY <3>1 DEF BoundaryVerdict, Expected
    <3>3. /\ {"entry", "meta"} \subseteq In("vulnerable", "verify")
          /\ "entry" \in In("patched", "verify") /\ "meta" \notin In("patched", "verify")
      BY <1>1, <2>1, <2>6, <3>2, MetadataEarned
    <3>4. QED
      BY <2>6, <3>3 DEF GoEarned
  <2>7. QED
    BY <2>2, <2>3, <2>4, <2>5, <2>6
<1>2. QED
  BY <1>1, Invariant, PTL

(* A GO is within the ceilings, and its totals miss no call but the explanation of *)
(* the chain when that has no result.                                          *)
THEOREM Counted == Spec => []UsageCounted
<1>1. ASSUME IInv, written = "GO"
      PROVE  hidden \subseteq {<<"explain", "lost">>} /\ Paid
  <2>1. Go /\ ~raised /\ Usage /\ raised \in BOOLEAN
    BY <1>1, AtGo DEF IInv, Control
  <2>2. record.good /\ usage.fit /\ Paid
    BY <2>1 DEF Go, Paid
  <2>3. campaign = "chain" => chain["patched"].state = "BLOCKED_BY_PATCH"
    BY <2>1 DEF Go, ArmVerdict, ChainVerdict, Arm
  <2>4. ~Doomed
    BY <2>1, <2>2, <2>3 DEF Doomed
  <2>5. QED
    BY <2>1, <2>2, <2>4 DEF Usage
<1>2. IInv => UsageCounted
  BY <1>1 DEF UsageCounted
<1>3. QED
  BY <1>2, Invariant, PTL

(* Where an acceptance is written every row of an arm is final but for a recorded  *)
(* error, a chain is confirmed just when its links are, and a GO leaves nothing   *)
(* running.                                                                   *)
THEOREM Settled == Spec => []WayOut
<1>1. ASSUME IInv, written # None
      PROVE  /\ \A a \in Arm, who \in {"lead", "agent"} :
                   job[a][who] \in {None, "CLOSED"} \/ <<a, who>> \in record.errors
             /\ \A a \in Arm :
                   /\ chain[a].state \notin {"RUNNING", "LINK_CONFIRMED"}
                   /\ (chain[a].state = "CHAIN_CONFIRMED") <=> (chain[a].links = <<"CONFIRMED", "CONFIRMED">>)
             /\ written = "GO" => left = {}
  <2>1. /\ Types /\ Jobs /\ Chains /\ Containers /\ Accepted
        /\ part = "over" /\ ~raised /\ \A a \in Arm : part # a
    BY <1>1 DEF IInv, Accepted, Arm
  <2>2. ASSUME NEW a \in Arm, NEW who \in {"lead", "agent"}
        PROVE  job[a][who] \in {None, "CLOSED"} \/ <<a, who>> \in record.errors
    <3>1. job[a][who] \in Status
      BY <2>1 DEF Types
    <3>2. ~Open(a, who) \/ <<a, who>> \in record.errors
      BY <2>1 DEF Jobs
    <3>3. QED
      BY <3>1, <3>2 DEF Status, Open
  <2>3. ASSUME NEW a \in Arm
        PROVE  /\ chain[a].state \notin {"RUNNING", "LINK_CONFIRMED"}
               /\ (chain[a].state = "CHAIN_CONFIRMED") <=> (chain[a].links = <<"CONFIRMED", "CONFIRMED">>)
    BY <2>1 DEF Chains, Undecided, Both
  <2>4. ASSUME written = "GO"
        PROVE  left = {}
    <3>1. Go
      BY <1>1, <2>4, AtGo
    <3>2. QED
      BY <2>1, <3>1 DEF Containers, Go
  <2>5. QED
    BY <2>2, <2>3, <2>4
<1>2. IInv => WayOut
  BY <1>1 DEF WayOut
<1>3. QED
  BY <1>2, Invariant, PTL
=============================================================================
