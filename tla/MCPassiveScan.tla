--------------------------- MODULE MCPassiveScan ---------------------------
(* Instances of PassiveScan for TLC. *)
EXTENDS PassiveScan, TLC

\* First a scan of any target, with room for its probes or without; then one that must
\* take nothing from it, of the same target or of another.
AnyThenPatched == <<
  {<<"zap", "vulnerable", 4>>, <<"zap", "patched", 3>>, <<"zap", "unsteady", 4>>,
   <<"zap", "writing", 4>>, <<"nuclei", "vulnerable", 3>>},
  {<<"zap", "patched", 4>>, <<"nuclei", "patched", 3>>}>>

\* States are told apart by what the future and the properties depend on: a scan that is
\* over is known as long as something still acts for it, of a response that was found valid
\* it matters what it reports, of one that cannot be valid that it came, and what the guard
\* counted and ZAP got matters while the execution it is about may still be complete.
Acts(s) ==
  \/ s \in calls \/ process[s].alive \/ <<"arm", s>> \in late
  \/ \E e \in Engine : runner[e].job = s

Task(s) ==
  CASE scan[s].at = "done"   -> IF Acts(s) THEN <<scan[s].engine, scan[s].target>> ELSE <<"over">>
    [] scan[s].at = "verify" -> <<scan[s].engine, scan[s].target, scan[s].response.complete,
                                  scan[s].response.found>>
    [] OTHER                 -> scan[s]

Came(s) ==
  CASE answer[s] = NoAnswer           -> "nothing"
    [] answer[s].status = "COMPLETED" -> answer[s]
    [] OTHER                          -> "failure"

MayComplete(s) ==
  /\ runner["zap"].job = s /\ runner["zap"].at # "net" /\ runner["zap"].exit # "other"
  /\ guard.token = s /\ ~guard.blocked /\ ~guard.unsteady

Record ==
  IF \E s \in Scan : MayComplete(s) THEN guard
  ELSE IF guard.armed THEN <<guard.token, guard.allow, guard.forwarded>> ELSE <<>>

Seen(s) == IF MayComplete(s) THEN process[s] ELSE [process[s] EXCEPT !.got = {}]

Remembered ==
  <<[s \in Scan |-> Task(s)], [s \in Scan |-> Came(s)], [s \in Scan |-> Seen(s)], VerdictEarned,
    Record, calls, runner, drifted, network, faults>>
=============================================================================
