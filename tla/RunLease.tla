------------------------------ MODULE RunLease ------------------------------
(***************************************************************************)
(* What the sync-run rows promise: for each run type of a connection, a    *)
(* lease.  One run at most holds it; another run takes it from a holder    *)
(* only when the lease has run out; and what the type's syncs advance (a   *)
(* cursor, a page, a sync time) is moved only by the run that holds the    *)
(* lease at that moment, however late the others wake up.                  *)
(***************************************************************************)
CONSTANTS
  Types,   \* the run types, each with a lease of its own
  Runs,    \* identities of runs
  NoRun    \* the holder of a free lease

VARIABLES
  holder,  \* the run that holds each type's lease
  current, \* whether the holder's lease is still running
  moved    \* the runs at work that have advanced their type's state

leaseVars == <<holder, current, moved>>

Init ==
  /\ holder = [t \in Types |-> NoRun]
  /\ current = [t \in Types |-> FALSE]
  /\ moved = [t \in Types |-> {}]

\* A run takes a lease that is free or has run out.
Acquire(t, r) ==
  /\ holder[t] = NoRun \/ ~current[t]
  /\ r # holder[t]
  /\ holder' = [holder EXCEPT ![t] = r]
  /\ current' = [current EXCEPT ![t] = TRUE]
  /\ UNCHANGED moved

\* Time passes the end of the lease; the holder does not notice.
RunOut(t) ==
  /\ current[t]
  /\ current' = [current EXCEPT ![t] = FALSE]
  /\ UNCHANGED <<holder, moved>>

\* A holder that nobody replaced extends its lease.
Renew(t) ==
  /\ holder[t] # NoRun
  /\ current' = [current EXCEPT ![t] = TRUE]
  /\ UNCHANGED <<holder, moved>>

\* The holder, and nobody else, advances what the lease protects.
Advance(t) ==
  /\ holder[t] # NoRun
  /\ moved' = [moved EXCEPT ![t] = @ \cup {holder[t]}]
  /\ UNCHANGED <<holder, current>>

\* The holder ends and gives the lease back.
Release(t) ==
  /\ holder[t] # NoRun
  /\ holder' = [holder EXCEPT ![t] = NoRun]
  /\ current' = [current EXCEPT ![t] = FALSE]
  /\ moved' = [moved EXCEPT ![t] = @ \ {holder[t]}]

\* A run stops working, with or without the lease.
Stop(t, r) ==
  /\ moved' = [moved EXCEPT ![t] = @ \ {r}]
  /\ UNCHANGED <<holder, current>>

Next ==
  \E t \in Types :
    \/ \E r \in Runs : Acquire(t, r) \/ Stop(t, r)
    \/ RunOut(t)
    \/ Renew(t)
    \/ Advance(t)
    \/ Release(t)

Spec == Init /\ [][Next]_leaseVars
=============================================================================
