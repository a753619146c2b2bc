------------------------------ MODULE LeaveSync ------------------------------
(***************************************************************************)
(* One leave application in Xero and the record Team Calendar keeps of it, *)
(* with everything that writes the record: the leave-record syncs (AU:     *)
(* one list of the whole organisation), the approval-state reconciliation, *)
(* and the decision a request handler takes.                               *)
(*                                                                         *)
(* Every transaction and every call to Xero is one action.  `clock' is the *)
(* time the servers read; it goes on with each call to Xero, so that what  *)
(* is written after a call is later than what was written before it, and   *)
(* writes between two calls may fall in the same millisecond.  Xero stamps *)
(* applications with a clock of its own, Skew behind.                      *)
(*                                                                         *)
(* A run's lease of thirty minutes may be over at any moment, and the run  *)
(* that lost it goes on: it applies records and is stopped at the end.     *)
(* A decision is the outbound write of LeaveWrite seen from here: it holds *)
(* the record from its claim to its commit.                                *)
(***************************************************************************)
EXTENDS Integers

CONSTANTS
  Runs,          \* leave-record syncs that may be at work at one time
  NoRun,         \* the holder of a free lease
  Sources,       \* the source_type values the record may have
  Offered,       \* the decisions people take
  Slack,         \* how far before the cursor a delta reaches (120 s)
  Skew,          \* how far Xero's clock is behind the servers'
  MaxStarts,     \* bound: syncs started
  MaxEvents      \* bound: changes made in Xero, decisions, reconciliations
                 \* and disconnections together

ASSUME RunAssumption == NoRun \notin Runs
ASSUME SourceAssumption == Sources \subseteq {"team_calendar_leave", "xero_leave"}
ASSUME OfferedAssumption == Offered \subseteq {"approve", "decline", "withdraw"}
ASSUME BoundAssumption ==
  /\ Slack \in Nat /\ Skew \in 0 .. Slack
  /\ MaxStarts \in Nat /\ MaxEvents \in Nat

VARIABLES
  app,     \* the application in Xero
  clock,   \* the servers' time
  rec,     \* the AvailabilityRecord row
  known,   \* the moment in Xero's life of the application the row reflects
  cursor,  \* modified_since of the leave_records cursor
  lease,   \* the run that holds the leave_records lease
  run,     \* the syncs at work
  dec,     \* the decision under way
  check,   \* the reconciliation's handling of the record
  linked,  \* the connection is active
  purged,  \* a disconnection has archived the company's leave
  used     \* what has been used of each bound

vars == <<app, clock, rec, known, cursor, lease, run, dec, check,
          linked, purged, used>>
linkVars == <<linked, purged>>
xeroVars == <<app, clock>>

Actions      == {"approve", "decline", "withdraw"}
NoneOrAction == Actions \cup {"none"}
Statuses     == {"submitted", "approved", "declined", "withdrawn", "cancelled",
                 "xero_sync_failed"}
\* A deleted application is listed as such, or no longer listed at all.
AppStatuses  == {"requested", "scheduled", "rejected", "withdrawn", "deleted",
                 "absent"}
Never        == -1  \* a column that is NULL

\* mapApprovalStatus, after the adapters' normaliseStatus.
Reported == [requested |-> "submitted", scheduled |-> "approved",
             rejected |-> "declined", withdrawn |-> "withdrawn",
             deleted |-> "cancelled"]

Began == 1 + Slack  \* early enough for a stamp of Xero's slow clock
Times == Nat

\* An application as Xero shows it: `mod' is Xero's own time of its last
\* change, `at' the servers' time of the same moment.
Snapshots == [status : AppStatuses, mod : Times, at : Times]

\* The record: src and hash are source_last_modified_at and source_remote_hash
\* (the whole payload, so equal only for one version), upd is updated_at.
Rows ==
  [held : BOOLEAN, source : Sources \cup {"xero_leave"}, status : Statuses,
   failed : NoneOrAction, seq : Nat,
   src : Times \cup {Never}, hash : Times \cup {Never}, upd : Times,
   archived : BOOLEAN]

Nothing == [status |-> "absent", mod |-> 0, at |-> 0]
NoRow == [held |-> FALSE, source |-> "xero_leave", status |-> "submitted",
          failed |-> "none", seq |-> 0, src |-> Never, hash |-> Never,
          upd |-> 0, archived |-> FALSE]

\* What a reader keeps of the row until it writes.
Loaded(r) == [held |-> r.held, status |-> r.status, failed |-> r.failed,
              seq |-> r.seq, src |-> r.src, hash |-> r.hash, upd |-> r.upd]
LoadedRows ==
  [held : BOOLEAN, status : Statuses, failed : NoneOrAction,
   seq : Nat, src : Times \cup {Never},
   hash : Times \cup {Never}, upd : Times]
Checked(r) == [status |-> r.status, failed |-> r.failed, seq |-> r.seq]
CheckedRows == [status : Statuses, failed : NoneOrAction, seq : Nat]

IdleRun == [pc |-> "idle", mode |-> "full", started |-> 0, since |-> Never,
            listed |-> FALSE, got |-> Nothing, row |-> Loaded(NoRow),
            succeeds |-> TRUE]
IdleDecision == [pc |-> "idle", act |-> "none", was |-> "submitted", at |-> 0]
IdleCheck == [pc |-> "idle", row |-> Checked(NoRow), got |-> Nothing]

Present == app.status # "absent"
Gone    == app.status \in {"deleted", "absent"}

\* A live claim or an unresolved operation, which every writer respects.
Busy == dec.pc # "idle"

\* The failed action stays with a failure, and with a leave whose withdrawal
\* Xero refused; every other outcome clears it.
FailureExplained ==
  \/ rec.status = "xero_sync_failed" /\ rec.failed # "none"
  \/ rec.status = "approved" /\ rec.failed \in {"none", "withdraw"}
  \/ rec.status \notin {"xero_sync_failed", "approved"} /\ rec.failed = "none"

TypeOK ==
  /\ app \in Snapshots /\ clock \in Times
  /\ rec \in Rows /\ FailureExplained
  /\ known \in Times
  /\ cursor \in Times \cup {Never}
  /\ lease \in Runs \cup {NoRun}
  /\ run \in [Runs ->
       [pc : {"idle", "started", "reading", "fetched", "loaded", "finalising"},
        mode : {"full", "incremental"}, started : Times,
        since : Times \cup {Never}, listed : BOOLEAN, got : Snapshots,
        row : LoadedRows, succeeds : BOOLEAN]]
  /\ dec \in [pc : {"idle", "sent", "done", "refused"}, act : NoneOrAction,
              was : Statuses, at : Times]
  /\ check \in [pc : {"idle", "loaded", "fetched"}, got : Snapshots,
                row : CheckedRows]
  /\ linked \in BOOLEAN /\ purged \in BOOLEAN
  /\ used \in [starts : 0 .. MaxStarts, events : 0 .. MaxEvents]

\* An application nobody has requested yet; one just requested in Xero, where no
\* sync has seen it; or one requested through Team Calendar, whose record has its
\* id and no snapshot of it yet.
Init ==
  /\ clock = Began
  /\ \E s \in Sources :
       /\ rec = [NoRow EXCEPT !.held = (s = "team_calendar_leave"), !.source = s,
                              !.upd = IF s = "xero_leave" THEN 0 ELSE Began]
       /\ app \in {[status |-> "requested", mod |-> Began - Skew, at |-> Began]}
                 \cup (IF s = "xero_leave" THEN {Nothing} ELSE {})
  /\ known = app.at
  /\ cursor = Never
  /\ lease = NoRun
  /\ run = [r \in Runs |-> IdleRun]
  /\ dec = IdleDecision
  /\ check = IdleCheck
  /\ linked = TRUE /\ purged = FALSE
  /\ used = [starts |-> 0, events |-> 0]

Event == used.events < MaxEvents /\ used' = [used EXCEPT !.events = @ + 1]

-----------------------------------------------------------------------------
(* Xero *)

\* What follows a status when payroll staff or the employee act in Xero.
NextStatuses ==
  CASE app.status = "requested" ->
         {"scheduled", "rejected", "withdrawn", "deleted", "absent"}
    [] app.status = "scheduled" -> {"rejected", "deleted", "absent"}
    [] app.status \in {"rejected", "withdrawn"} -> {"deleted", "absent"}
    [] app.status = "deleted" -> {"absent"}
    [] app = Nothing -> {"requested"}
    [] OTHER -> {}

\* Xero processes a change: time passes, and the application is stamped.
Changed(status) ==
  /\ clock' = clock + 1
  /\ app' = [status |-> status, mod |-> clock + 1 - Skew, at |-> clock + 1]

EditInXero ==
  /\ Event
  /\ \E s \in NextStatuses : Changed(s)
  /\ UNCHANGED <<linkVars, rec, known, cursor, lease, run, dec, check>>

-----------------------------------------------------------------------------
(* A decision in Team Calendar *)

Decided == [approve |-> "approved", decline |-> "declined",
            withdraw |-> "withdrawn"]

Awaits(a) ==
  \/ rec.status = "submitted" /\ (a = "withdraw" => rec.source = "team_calendar_leave")
  \/ rec.status = "xero_sync_failed" /\ rec.failed = a
  \/ /\ a = "withdraw" /\ rec.status = "approved"
     /\ rec.source = "team_calendar_leave"

\* The claim: from here no other writer touches the record.
Decide(a) ==
  /\ Event
  /\ linked /\ ~Busy
  /\ rec.held /\ ~rec.archived
  /\ Awaits(a)
  /\ dec' = [pc |-> "sent", act |-> a, was |-> rec.status, at |-> 0]
  /\ UNCHANGED <<linkVars, xeroVars, rec, known, cursor, lease, run, check>>

Applicable(a) ==
  \/ app.status = "requested"
  \/ a = "withdraw" /\ app.status = "scheduled"

XeroAccepts ==
  /\ dec.pc = "sent"
  /\ Applicable(dec.act)
  /\ Changed(IF dec.act = "approve" THEN "scheduled" ELSE "rejected")
  /\ dec' = [dec EXCEPT !.pc = "done", !.at = clock + 1]
  /\ UNCHANGED <<linkVars, rec, known, cursor, lease, run, check, used>>

XeroRefuses ==
  /\ dec.pc = "sent"
  /\ dec' = [dec EXCEPT !.pc = "refused"]
  /\ UNCHANGED <<linkVars, xeroVars, rec, known, cursor, lease, run, check, used>>

CommitDecision ==
  /\ dec.pc = "done"
  /\ rec' = [rec EXCEPT !.status = Decided[dec.act], !.failed = "none",
                        !.seq = @ + 1, !.upd = clock]
  /\ known' = dec.at
  /\ dec' = IdleDecision
  /\ UNCHANGED <<linkVars, xeroVars, cursor, lease, run, check, used>>

\* persistXeroFailure: the sequence stays.
PersistRefusal ==
  /\ dec.pc = "refused"
  /\ rec' = [rec EXCEPT
       !.status = IF dec.act = "withdraw" /\ dec.was = "approved" THEN "approved"
                  ELSE "xero_sync_failed",
       !.failed = dec.act, !.upd = clock]
  /\ dec' = IdleDecision
  /\ UNCHANGED <<linkVars, xeroVars, known, cursor, lease, run, check, used>>

RevertApprovalAttempt ==
  /\ ~Busy
  /\ rec.status = "xero_sync_failed"
  /\ rec.failed \in {"approve", "decline"}
  /\ rec' = [rec EXCEPT !.status = "submitted", !.failed = "none", !.upd = clock]
  /\ UNCHANGED <<linkVars, xeroVars, known, cursor, lease, run, dec, check, used>>

-----------------------------------------------------------------------------
(* The connection *)

\* disconnectXeroOAuthConnection with `destructive', refused during a write: the
\* leave that came from Xero is archived, cursors and run rows are deleted.
DisconnectAndPurge ==
  /\ Event
  /\ linked /\ ~Busy
  /\ linked' = FALSE
  /\ rec' = IF rec.held /\ rec.source = "xero_leave" /\ ~rec.archived
              THEN [rec EXCEPT !.archived = TRUE, !.seq = @ + 1, !.upd = clock]
              ELSE rec
  /\ purged' = TRUE
  /\ cursor' = Never
  /\ lease' = NoRun
  /\ UNCHANGED <<xeroVars, known, run, dec, check>>

\* The same payroll file is connected again.
Reconnect ==
  /\ ~linked
  /\ linked' = TRUE
  /\ UNCHANGED <<xeroVars, rec, known, cursor, lease, run, dec, check, purged, used>>

-----------------------------------------------------------------------------
(* A leave-record sync *)

At(r, pc) == run[r].pc = pc

Idle(r) == run' = [run EXCEPT ![r] = IdleRun]

\* startedAt is taken before anything is read.
Start(r) ==
  /\ At(r, "idle")
  /\ linked
  /\ used.starts < MaxStarts
  /\ \E m \in {"full", "incremental"} :
       run' = [run EXCEPT ![r] = [IdleRun EXCEPT
                 !.pc = "started", !.mode = m, !.started = clock]]
  /\ used' = [used EXCEPT !.starts = @ + 1]
  /\ UNCHANGED <<linkVars, xeroVars, rec, known, cursor, lease, dec, check>>

\* acquireSyncRun: a free lease, or one that has run out (at any moment).
Acquire(r) ==
  /\ At(r, "started")
  /\ lease' = r
  /\ run' = [run EXCEPT ![r].pc = "reading"]
  /\ UNCHANGED <<linkVars, xeroVars, rec, known, cursor, dec, check, used>>

\* Mutant: the delta begins at the cursor.
InDelta_NoSlack(since) == app.mod > since

\* If-Modified-Since, for a delta that has a cursor to start from.
InDelta(since) == app.mod > since - Slack
Included(mode, since) == Present /\ (mode = "incremental" /\ since # Never => InDelta(since))

\* The cursor is read and the list fetched; `whole' is a traversal that reached
\* its end with every page and every record readable.
Fetch(r) ==
  /\ At(r, "reading")
  /\ linked
  /\ \E whole \in BOOLEAN, got \in {Nothing, app} :
       /\ got # Nothing => Included(run[r].mode, cursor)
       /\ whole => (got # Nothing) = Included(run[r].mode, cursor)
       /\ run' = [run EXCEPT ![r].since = cursor, ![r].got = got,
                             ![r].listed = (got # Nothing),
                             ![r].succeeds = whole,
                             ![r].pc = IF got = Nothing THEN "finalising"
                                       ELSE "fetched"]
  /\ clock' = clock + 1
  /\ UNCHANGED <<linkVars, app, rec, known, cursor, lease, dec, check, used>>

\* loadExistingRecordsBySourceRemoteId
LoadExisting(r) ==
  /\ At(r, "fetched")
  /\ run' = [run EXCEPT ![r].row = Loaded(rec), ![r].pc = "loaded"]
  /\ UNCHANGED <<linkVars, xeroVars, rec, known, cursor, lease, dec, check, used>>

\* Mutant: a record written during the run is not left alone.
ChangedSinceStart_Ignored(row, started) == FALSE

\* decideRemoteSnapshot
ChangedSinceStart(row, started) == row.upd > started
Older(row, got) == row.src # Never /\ got.mod < row.src
Duplicate(row, got) == got.mod = row.src /\ got.at = row.hash

\* The row is still the one that was loaded, and nobody holds it.
Unchanged(row) ==
  /\ rec.status = row.status /\ rec.seq = row.seq
  /\ rec.src = row.src /\ rec.hash = row.hash /\ rec.upd = row.upd
  /\ ~Busy

\* A completed withdrawal is Xero's rejection, and a withdrawal that failed is
\* not undone by the approval it was to withdraw.
Persisted(row, got) ==
  CASE row.status = "withdrawn" /\ Reported[got.status] = "declined" -> "withdrawn"
    [] /\ row.status = "xero_sync_failed" /\ row.failed = "withdraw"
       /\ Reported[got.status] = "approved" -> "xero_sync_failed"
    [] OTHER -> Reported[got.status]

\* The application is dealt with.  A deferred one, or a failure, leaves nothing
\* for the end of the run but to say so.
Processed(r, succeeds) ==
  IF run[r].succeeds /\ succeeds
    THEN [run EXCEPT ![r].pc = "finalising", ![r].got = Nothing,
                     ![r].row = Loaded(NoRow)]
    ELSE [run EXCEPT ![r] = [IdleRun EXCEPT !.pc = "finalising",
                                            !.succeeds = FALSE]]

\* Mutant: the failure of an earlier decision is left on the record.
Written_KeepsFailure(row, got) ==
  [rec EXCEPT !.held = TRUE, !.status = Persisted(row, got), !.src = got.mod,
              !.hash = got.at, !.upd = clock,
              !.archived = (got.status = "deleted")]

\* What the sync writes of an application, over the record or as a new one: leave
\* that is cancelled is archived, any other is published (again).
Written(row, got) ==
  LET status == Persisted(row, got) IN
  [rec EXCEPT !.held = TRUE, !.status = status,
              !.failed = IF status = "xero_sync_failed" THEN @ ELSE "none",
              !.src = got.mod, !.hash = got.at, !.upd = clock,
              !.archived = (status = "cancelled")]

Applies(r) ==
  /\ rec' = Written(run[r].row, run[r].got)
  /\ known' = run[r].got.at
  /\ run' = Processed(r, TRUE)

\* The record stays as it is.
Skips(r, succeeds) ==
  /\ run' = Processed(r, succeeds)
  /\ UNCHANGED <<rec, known>>

\* processLeaveRecord.  A record somebody else created meanwhile fails on its
\* unique key.
ProcessLeaveRecord(r) ==
  LET row == run[r].row
      got == run[r].got
  IN
  /\ At(r, "loaded")
  /\ linked
  /\ CASE ~row.held -> IF rec.held THEN Skips(r, FALSE) ELSE Applies(r)
       [] row.held /\ ChangedSinceStart(row, run[r].started) -> Skips(r, FALSE)
       [] OTHER ->
            IF Older(row, got) \/ Duplicate(row, got) THEN Skips(r, TRUE)
            ELSE IF Unchanged(row) THEN Applies(r) ELSE Skips(r, FALSE)
  /\ UNCHANGED <<linkVars, xeroVars, cursor, lease, dec, check, used>>

\* A record of the list that cannot be used: no such person, bad dates.
RecordFailure(r) ==
  /\ At(r, "loaded")
  /\ Skips(r, FALSE)
  /\ UNCHANGED <<linkVars, xeroVars, cursor, lease, dec, check, used>>

\* advanceXeroSyncCursor's comparison with the cursor the run read.
CursorMoves(r) == run[r].since = cursor /\ (cursor = Never \/ run[r].started > cursor)

\* Mutant: a record is archived although it was written during the run.
Stale_AnyAge(r) ==
  /\ rec.held /\ rec.source = "xero_leave" /\ ~rec.archived
  /\ ~run[r].listed
  /\ ~Busy

\* archiveStaleRecords' predicate.
Stale(r) ==
  /\ rec.held /\ rec.source = "xero_leave" /\ ~rec.archived
  /\ ~run[r].listed
  /\ rec.upd <= run[r].started
  /\ ~Busy

\* The closing transaction of a run that still holds the lease; then the run's
\* row is completed, which frees it.
Finalise(r) ==
  /\ At(r, "finalising")
  /\ linked
  /\ lease = r
  /\ run[r].succeeds => CursorMoves(r)
  /\ cursor' = IF run[r].succeeds THEN run[r].started ELSE cursor
  /\ rec' = IF run[r].succeeds /\ run[r].mode = "full" /\ Stale(r)
              THEN [rec EXCEPT !.archived = TRUE, !.upd = clock] ELSE rec
  /\ lease' = NoRun
  /\ Idle(r)
  /\ UNCHANGED <<linkVars, xeroVars, known, dec, check, used>>

\* XeroSyncRunFencedError, a failed fetch, a cancellation, a crash: the run ends
\* where it is.  A lease a crash leaves behind runs out.
Stop(r) ==
  /\ run[r].pc # "idle"
  /\ lease' = IF lease = r THEN NoRun ELSE lease
  /\ Idle(r)
  /\ UNCHANGED <<linkVars, xeroVars, rec, known, cursor, dec, check, used>>

-----------------------------------------------------------------------------
(* The approval-state reconciliation *)

LoadForCheck ==
  /\ check.pc = "idle"
  /\ linked
  /\ Event
  /\ rec.held /\ ~rec.archived /\ rec.status \notin {"withdrawn", "cancelled"}
  /\ ~Busy
  /\ check' = [IdleCheck EXCEPT !.pc = "loaded", !.row = Checked(rec)]
  /\ UNCHANGED <<linkVars, xeroVars, rec, known, cursor, lease, run, dec>>

FetchStatus ==
  /\ check.pc = "loaded"
  /\ linked
  /\ check' = [check EXCEPT !.pc = "fetched", !.got = app]
  /\ UNCHANGED <<linkVars, xeroVars, rec, known, cursor, lease, run, dec, used>>

\* reconcileRecord: the status a divergence moves the record to, or its own.
Reconciled(row, got) ==
  LET awaits(a) == \/ row.status = "submitted"
                   \/ row.status = "xero_sync_failed" /\ row.failed = a
  IN CASE got.status = "scheduled" /\ awaits("approve") -> "approved"
       [] got.status = "rejected" /\ awaits("decline") -> "declined"
       [] /\ got.status \in {"rejected", "withdrawn", "deleted"}
          /\ row.status = "xero_sync_failed" /\ row.failed = "withdraw" -> "withdrawn"
       [] got.status \in {"withdrawn", "deleted"} /\ row.status # "xero_sync_failed" ->
            "withdrawn"
       [] OTHER -> row.status

\* The compare-and-set of transitionRecord and archiveMissing.
StillAsLoaded == rec.status = check.row.status /\ rec.seq = check.row.seq /\ ~Busy

\* transitionRecord, archiveMissing, or the check's time alone.
Reconcile ==
  LET status == Reconciled(check.row, check.got)
      moves  == check.got.status # "absent" /\ status # check.row.status
  IN
  /\ check.pc = "fetched"
  /\ linked
  /\ rec' = CASE StillAsLoaded /\ check.got.status = "absent" ->
                   [rec EXCEPT !.archived = TRUE, !.upd = clock]
              [] StillAsLoaded /\ moves ->
                   [rec EXCEPT !.status = status, !.failed = "none",
                               !.seq = @ + 1, !.upd = clock]
              [] OTHER -> IF Busy THEN rec ELSE [rec EXCEPT !.upd = clock]
  /\ known' = IF StillAsLoaded /\ moves THEN check.got.at ELSE known
  /\ check' = IdleCheck
  /\ UNCHANGED <<linkVars, xeroVars, cursor, lease, run, dec, used>>

\* A failed request or a crash.
AbandonCheck ==
  /\ check.pc # "idle"
  /\ check' = IdleCheck
  /\ UNCHANGED <<linkVars, xeroVars, rec, known, cursor, lease, run, dec, used>>

-----------------------------------------------------------------------------
Sync(r) ==
  \/ Start(r)
  \/ Acquire(r)
  \/ Fetch(r)
  \/ LoadExisting(r)
  \/ ProcessLeaveRecord(r)
  \/ RecordFailure(r)
  \/ Finalise(r)
  \/ Stop(r)

Decision ==
  \/ \E a \in Offered : Decide(a)
  \/ XeroAccepts
  \/ XeroRefuses
  \/ CommitDecision
  \/ PersistRefusal
  \/ RevertApprovalAttempt

Reconciliation ==
  \/ LoadForCheck
  \/ FetchStatus
  \/ Reconcile
  \/ AbandonCheck

Next ==
  \/ EditInXero
  \/ DisconnectAndPurge
  \/ Reconnect
  \/ Decision
  \/ \E r \in Runs : Sync(r)
  \/ Reconciliation

Spec == Init /\ [][Next]_vars

(***************************************************************************)
(* Properties.                                                             *)
(***************************************************************************)

\* The record says of the application what Xero says, or that a decision on it
\* failed and waits for somebody.
Agrees ==
  CASE app.status = "requested" ->
         rec.status = "submitted" \/ rec.status = "xero_sync_failed"
    [] app.status = "scheduled" ->
         rec.status = "approved" \/ (rec.status = "xero_sync_failed" /\ rec.failed = "withdraw")
    [] app.status = "rejected" -> rec.status \in {"declined", "withdrawn"}
    [] app.status = "withdrawn" -> rec.status = "withdrawn"
    [] app.status = "deleted" -> rec.status \in {"cancelled", "withdrawn"}

\* The cursor passes no application by: one the calendar does not show as Xero
\* has it is still in the next delta, although Xero stamps it with its own
\* clock and syncs, decisions and reconciliations overlap.
NothingMissed ==
  Present /\ ~Busy /\ ~(rec.held /\ Agrees) =>
    cursor = Never \/ app.mod > cursor - Slack

\* A record never goes back to an earlier state of its application: a list
\* fetched before a decision, or by a run that lost its lease, is not applied
\* over what is newer.
NeverOlder == [][known' >= known]_vars

\* Leave is archived only when its application is deleted in Xero or no longer
\* listed there.
ArchivedIsGone == rec.archived /\ ~purged => Gone

\* A full sync that succeeds shows the leave it found in Xero again, also after
\* a purge and a reconnection.
FullSyncShows ==
  [][\A r \in Runs :
       /\ At(r, "finalising") /\ run[r].succeeds
       /\ run[r].mode = "full" /\ run[r].listed /\ ~Gone
       /\ cursor' # cursor
       /\ run'[r] = IdleRun
       => ~rec'.archived]_vars
=============================================================================
