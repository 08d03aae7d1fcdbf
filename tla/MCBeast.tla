------------------------------ MODULE MCBeast ------------------------------
(* Instances of Beast for TLC: its configurations give values to every constant. *)
EXTENDS Beast, TLC

At(a) == Cardinality({i \in Request : request[i].at = a})

(* Bound: open requests and a pressed stop are not looked at together. *)
StopOrRequests == (\A s \in Stop : stop[s].run = 0) \/ At("free") = Cardinality(Request)

(* States are told apart by what the future and the invariants depend on.  Of a    *)
(* run that is over neither the task's copy nor its calls' answers are read again; *)
(* the end of a lease only matters until it is revoked, a blocked target as long   *)
(* as a lease may be issued, a run's `clean' once it is VERIFIED (before, it is    *)
(* written over), the total of the gateway until it is armed again; open requests  *)
(* are alike.                                                                      *)
Over(r)       == task[r].at \in {"none", "done"}
Seen(c)       == <<c.state, c.stopped, c.state = "VERIFIED" => c.clean>>
Told(answer)  == IF answer \in {"ok", "failed"} THEN "none" ELSE answer
Nobody(c)     == IF c \in Run THEN Over(c) ELSE ~stop[c].waiting

Relevant ==
  <<lease, {r \in late : lease[r] \in {"ACTIVE", "CONSUMED"}}, target,
    [r \in Run |-> Seen(runs[r])], serving, stop,
    IF \E r \in Run : lease[r] = "NONE" THEN <<blocked, restoring>> ELSE <<>>,
    [r \in Run |-> IF Over(r) THEN <<task[r].at>>
                   ELSE <<task[r].at, task[r].session, task[r].commands, Seen(task[r].copy)>>],
    session, process, alive, create,
    [r \in Run |-> IF Over(r) THEN Told(execute[r]) ELSE execute[r]],
    [c \in Caller |-> IF Nobody(c) THEN Told(destroy[c]) ELSE destroy[c]],
    armed, active, IF armed = 0 /\ At("body") = 0 THEN 0 ELSE connections,
    At("body"), At("forwarding")>>
=============================================================================
