--------------------------- MODULE DecisionWrite ---------------------------
(***************************************************************************)
(* What the journal promises for the decisions of one request: each write  *)
(* to payroll takes effect once or not at all.  It is begun while no other *)
(* is unresolved; it may take effect at any time until it is given up, and *)
(* is never given up after that; it is recorded as accepted only when it   *)
(* has taken effect, and closed only when recorded.  The leave in payroll  *)
(* moves by these writes alone, in the order of the decisions.             *)
(***************************************************************************)
CONSTANT Decisions   \* the decisions that are written to payroll

VARIABLES
  write,  \* the state of the write of each decision
  leave   \* the state of the request's leave in payroll

writeVars == <<write, leave>>

Unresolved == {"pending", "effective", "accepted"}

\* The states of the leave in which payroll takes a decision, and the state it
\* leaves behind.
Before == [approve  |-> {"absent", "requested"},
           decline  |-> {"requested"},
           withdraw |-> {"requested", "scheduled"}]

After == [approve |-> "scheduled", decline |-> "rejected", withdraw |-> "rejected"]

Init ==
  /\ write = [d \in Decisions |-> "none"]
  /\ leave \in {"absent", "requested"}

Begin(d) ==
  /\ write[d] = "none"
  /\ \A e \in Decisions : write[e] \notin Unresolved
  /\ write' = [write EXCEPT ![d] = "pending"]
  /\ UNCHANGED leave

\* Payroll processes the write, whoever sent it and however often.
TakeEffect(d) ==
  /\ write[d] = "pending"
  /\ leave \in Before[d]
  /\ write' = [write EXCEPT ![d] = "effective"]
  /\ leave' = After[d]

\* A write is given up for good only if it has not taken effect; it can then be
\* begun anew, and the old one never takes effect.
GiveUp(d) ==
  /\ write[d] = "pending"
  /\ write' = [write EXCEPT ![d] = "none"]
  /\ UNCHANGED leave

Accept(d) ==
  /\ write[d] = "effective"
  /\ write' = [write EXCEPT ![d] = "accepted"]
  /\ UNCHANGED leave

Complete(d) ==
  /\ write[d] = "accepted"
  /\ write' = [write EXCEPT ![d] = "completed"]
  /\ UNCHANGED leave

Next ==
  \E d \in Decisions :
    Begin(d) \/ TakeEffect(d) \/ GiveUp(d) \/ Accept(d) \/ Complete(d)

Spec == Init /\ [][Next]_writeVars
=============================================================================
