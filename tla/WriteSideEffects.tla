-------------------------- MODULE WriteSideEffects --------------------------
(***************************************************************************)
(* What follows the commit of a decision Xero has accepted: the calendar   *)
(* publication, the notification and its realtime event, then the          *)
(* completion of the journal row.                                          *)
(*                                                                         *)
(* The handler that committed the decision and every administrator who     *)
(* attaches the operation again run the same steps (`Finishers'), one      *)
(* action per transaction or call, under a lease on the journal row that   *)
(* is cleared by a failure and outlived by a slow or dead holder.          *)
(*                                                                         *)
(* In LeaveWrite all of this is CompleteEffects and AdminEffects: this     *)
(* module says why they may run twice, stop halfway and be repeated.       *)
(*                                                                         *)
(* Abstractions.                                                           *)
(*   - The row is in its attempt's generation throughout: a row is         *)
(*     replayed only while its record awaits a decision, which it no       *)
(*     longer does.                                                        *)
(*   - The five-minute lease ends when ExpireLease says so, at any time.  *)
(*   - The database runs transactions READ COMMITTED, so the notification  *)
(*     transaction is three actions and `lock' is the row lock the fence,  *)
(*     an update, takes.  The other transactions here are one statement.   *)
(***************************************************************************)
EXTENDS Naturals

CONSTANTS
  Finishers,  \* the requests that may finish the operation
  Nobody      \* no holder: of the lease, of the row lock

ASSUME FinisherAssumption == Nobody \notin Finishers

VARIABLES
  status,     \* status of the journal row
  holder,     \* side_effect_claimed_at: the finisher whose timestamp it is
  lease,      \* whether that timestamp is within the lease
  lock,       \* the finisher whose open transaction has locked the row
  recipient,  \* whether anybody is to be told of the decision
  published,  \* whether the publication shows the decision
  marks,      \* checkpoint audit rows of the operation
  notices,    \* notifications created, up to 2
  told,       \* whether a stored notification went out in real time
  pc          \* where each finisher is

vars == <<status, holder, lease, lock, recipient, published, marks, notices,
          told, pc>>
claimVars  == <<status, holder, lease>>
effectVars == <<published, marks, notices, told>>

PCs == {"idle", "acquired", "publishing", "published", "telling", "fenced",
        "creating", "sending", "completing", "releasing"}

\* The notification checkpoint carries the notification's id, if one is stored:
\* a recipient may want e-mail only.
Marks == {"publication", "stored_notice", "mailed_notice"}

TypeOK ==
  /\ status \in {"provider_accepted", "completed"}
  /\ holder \in Finishers \cup {Nobody}
  /\ lease \in {"none", "live", "expired"}
  /\ lock \in Finishers \cup {Nobody}
  /\ recipient \in {"nobody", "somebody"}
  /\ published \in {"before", "decision"}
  /\ marks \subseteq Marks
  /\ notices \in 0 .. 2
  /\ told \in {"no", "yes"}
  /\ pc \in [Finishers -> PCs]

Init ==
  /\ status = "provider_accepted"
  /\ holder = Nobody
  /\ lease = "none"
  /\ lock = Nobody
  /\ recipient \in {"nobody", "somebody"}
  /\ published = "before"
  /\ marks = {}
  /\ notices = 0
  /\ told = "no"
  /\ pc = [f \in Finishers |-> "idle"]

-----------------------------------------------------------------------------
Go(f, to) == pc' = [pc EXCEPT ![f] = to]

Noted == marks \cap {"stored_notice", "mailed_notice"} # {}

Claimable_OnlyOnce == lease = "none"

Claimable == lease # "live"

\* acquireSubmitRecoverySideEffects.
Acquire(f) ==
  /\ pc[f] = "idle"
  /\ lock = Nobody
  /\ status = "provider_accepted"
  /\ Claimable
  /\ holder' = f
  /\ lease' = "live"
  /\ Go(f, "acquired")
  /\ UNCHANGED <<status, lock, recipient, effectVars>>

\* The publication checkpoint is read outside any transaction of the steps.
ReadCheckpoint(f) ==
  /\ pc[f] = "acquired"
  /\ Go(f, IF "publication" \in marks THEN "telling" ELSE "publishing")
  /\ UNCHANGED <<claimVars, lock, recipient, effectVars>>

\* materialiseAvailabilityPublication is an upsert: twice is as good as once.
Publish(f) ==
  /\ pc[f] = "publishing"
  /\ published' = "decision"
  /\ Go(f, "published")
  /\ UNCHANGED <<claimVars, lock, recipient, marks, notices, told>>

MarkPublished(f) ==
  /\ pc[f] = "published"
  /\ marks' = marks \cup {"publication"}
  /\ Go(f, "telling")
  /\ UNCHANGED <<claimVars, lock, recipient, published, notices, told>>

TellNobody(f) ==
  /\ pc[f] = "telling"
  /\ recipient = "nobody"
  /\ Go(f, "completing")
  /\ UNCHANGED <<claimVars, lock, recipient, effectVars>>

Fenced_AnyHolder(f) == status = "provider_accepted"

\* What fenceSubmitRecoverySideEffectClaim tests.
Fenced(f) == status = "provider_accepted" /\ holder = f

LockFor_ReadOnlyFence(f) == lock

\* The fence is an update: it keeps the row locked to the end of its transaction.
LockFor(f) == f

Fence(f) ==
  /\ pc[f] = "telling"
  /\ recipient = "somebody"
  /\ lock = Nobody
  /\ IF Fenced(f) THEN lock' = LockFor(f) /\ Go(f, "fenced")
     ELSE lock' = lock /\ Go(f, "releasing")
  /\ UNCHANGED <<claimVars, recipient, effectVars>>

\* A checkpoint ends the transaction and says what there is to send.
ReadNotice(f) ==
  /\ pc[f] = "fenced"
  /\ lock' = IF Noted THEN Nobody ELSE lock
  /\ Go(f, CASE "stored_notice" \in marks -> "sending"
             [] "mailed_notice" \in marks -> "completing"
             [] OTHER -> "creating")
  /\ UNCHANGED <<claimVars, recipient, effectVars>>

\* The notification, its e-mail and the checkpoint are committed together.
CreateNotice(f, kind) ==
  /\ pc[f] = "creating"
  /\ notices' = IF notices < 2 THEN notices + 1 ELSE notices
  /\ marks' = marks \cup {kind}
  /\ lock' = Nobody
  /\ Go(f, IF kind = "stored_notice" THEN "sending" ELSE "completing")
  /\ UNCHANGED <<claimVars, recipient, published, told>>

Send(f) ==
  /\ pc[f] = "sending"
  /\ told' = "yes"
  /\ Go(f, "completing")
  /\ UNCHANGED <<claimVars, lock, recipient, published, marks, notices>>

AfterFailure_Completes == "completing"

AfterFailure == "releasing"

\* A publication, a notification or a realtime event that fails in an orderly
\* way: the transaction is rolled back and the lease given back.
Fail(f) ==
  /\ pc[f] \in {"publishing", "fenced", "creating", "sending"}
  /\ lock' = IF pc[f] \in {"fenced", "creating"} THEN Nobody ELSE lock
  /\ Go(f, AfterFailure)
  /\ UNCHANGED <<claimVars, recipient, effectVars>>

\* markSubmitCompleted asks for the status, not for the lease.
Complete(f) ==
  /\ pc[f] = "completing"
  /\ lock = Nobody
  /\ status' = "completed"
  /\ Go(f, "idle")
  /\ UNCHANGED <<holder, lease, lock, recipient, effectVars>>

\* releaseSubmitRecoverySideEffects.
Release(f) ==
  /\ pc[f] = "releasing"
  /\ lock = Nobody
  /\ IF Fenced(f) THEN holder' = Nobody /\ lease' = "none"
     ELSE UNCHANGED <<holder, lease>>
  /\ Go(f, "idle")
  /\ UNCHANGED <<status, lock, recipient, effectVars>>

\* An exception or the death of the process: an open transaction is rolled
\* back, the lease stays.
Stop(f) ==
  /\ pc[f] # "idle"
  /\ lock' = IF pc[f] \in {"fenced", "creating"} /\ lock = f THEN Nobody ELSE lock
  /\ Go(f, "idle")
  /\ UNCHANGED <<claimVars, recipient, effectVars>>

ExpireLease ==
  /\ lease = "live"
  /\ lease' = "expired"
  /\ UNCHANGED <<status, holder, lock, recipient, effectVars, pc>>

Progress(f) ==
  \/ ReadCheckpoint(f)
  \/ Publish(f)
  \/ MarkPublished(f)
  \/ TellNobody(f)
  \/ Fence(f)
  \/ ReadNotice(f)
  \/ CreateNotice(f, "stored_notice")
  \/ CreateNotice(f, "mailed_notice")
  \/ Send(f)
  \/ Complete(f)
  \/ Release(f)

Next ==
  \/ \E f \in Finishers : Acquire(f) \/ Progress(f) \/ Fail(f) \/ Stop(f)
  \/ ExpireLease

Spec == Init /\ [][Next]_vars

(* What goes wrong: a failure, an exception, a lease that ends while its       *)
(* holder is at work.                                                          *)
Disturbance ==
  \/ \E f \in Finishers : Fail(f) \/ Stop(f)
  \/ ExpireLease /\ pc[holder] # "idle"

(* Requests do not stall (each transaction has a timeout), leases run out, an  *)
(* administrator attaches an operation that is left, and there is an end to    *)
(* the disturbances: the steps of one request take a small part of its lease.  *)
Fairness ==
  /\ \A f \in Finishers : WF_vars(Progress(f))
  /\ WF_vars(ExpireLease)
  /\ WF_vars(\E f \in Finishers : Acquire(f))
  /\ <>[][~Disturbance]_vars

FairSpec == Spec /\ Fairness

-----------------------------------------------------------------------------
(* Properties *)

\* However often the work is taken over and repeated, nobody is told of the
\* decision twice.
NotifiedOnce == notices <= 1

\* A finisher whose lease was taken over never creates the notification: the
\* holder at the moment of creation is the one that creates it.
OnlyHolderNotifies ==
  [][\A f \in Finishers :
       pc[f] = "creating" /\ pc'[f] \in {"sending", "completing"} => holder = f]_vars

\* An operation is completed only when the calendar shows the decision and the
\* person concerned was told, in real time too if the notification is stored,
\* whichever finishers did which part.
CompletedIsFinished ==
  status = "completed" =>
    /\ published = "decision"
    /\ recipient = "somebody" => notices >= 1
    /\ "stored_notice" \in marks => told = "yes"

\* The work is finished in the end, whatever failed or died on the way.
EffectsComplete == status = "provider_accepted" ~> status = "completed"

=============================================================================
