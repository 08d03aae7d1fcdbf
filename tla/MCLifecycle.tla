---------------------------- MODULE MCLifecycle ----------------------------
(* Constants for model-checking Lifecycle.                                  *)
EXTENDS Lifecycle

Ok(fresh, u) == [ok |-> TRUE, fresh |-> fresh, usage |-> u]
Failed(u)    == [ok |-> FALSE, fresh |-> TRUE, usage |-> u]

(* every way a response can be refused, and three sizes of a good one *)
AllOutcomes == {Ok(TRUE, 0), Ok(TRUE, 2), Ok(TRUE, 3), Ok(FALSE, 1), Ok(TRUE, UNKNOWN), Failed(1)}

(* a resume with a broker to ask but without a decision, with a decision but      *)
(* without a broker, and a paid call with the operator's                          *)
Plain    == [paid |-> FALSE, reconcilable |-> FALSE, auth |-> FALSE, operator |-> FALSE]
Askable  == [Plain EXCEPT !.reconcilable = TRUE]
Decided  == [Plain EXCEPT !.auth = TRUE]
Paid     == [Decided EXCEPT !.paid = TRUE, !.operator = TRUE]
AllCalls == {Askable, Decided, Paid}

LoopInternal == {"VERIFY", "REMEDIATE", "REPORT"}
LoopExternal == {"EXECUTE", "RETEST"}
Required     == Stage \ {"REMEDIATE", "RETEST"}

(* Bound: a stage gets its second attempt on the way to the verification, and   *)
(* then neither remediation nor report follows.                                 *)
ReissuesEarly ==
  /\ Len(attempts["RETEST"]) <= 1
  /\ Len(attempts["EXECUTE"]) = 2 =>
       \A s \in {"REMEDIATE", "REPORT"} : rec[s].status = "none" /\ ctl.stage # s

(* States are told apart by what the future and the properties depend on: the   *)
(* arguments of an attempt are read while its outcome may be unknown, those of  *)
(* the call until it has prepared its attempt; a verdict is handed out and, but *)
(* for the state it ends in, read by no later step; obligations are alike.      *)
Gist(a) == IF a.status \in {"PREPARED", "DISPATCHED"} THEN a ELSE [a EXCEPT !.call = NoCall]

Cleaned == [st \in {"none", "compensated", "failed"} |->
             LET these == {o \in Obligations : cleanup[o] = st}
             IN  <<Cardinality(these), Cardinality(these \cap ctl.todo)>>]

Ledger == <<state, cancel, expired, rec, Cleaned, [s \in External |->
             [i \in 1 .. Len(attempts[s]) |-> Gist(attempts[s][i])]]>>

Progress == [ctl EXCEPT !.verdict = ctl.verdict.final, !.todo = {},
                        !.call = IF ctl.pc \in {"open", "reconcile"} THEN ctl.call ELSE NoCall]

Relevant == <<Ledger, Progress, effects>>
=============================================================================
