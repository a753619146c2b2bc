--------------------------- MODULE LeaveSyncProofs ---------------------------
(***************************************************************************)
(* Theorems about LeaveSync for every set of runs, every slack no smaller  *)
(* than the skew of Xero's clock, and every bound.                         *)
(***************************************************************************)
EXTENDS LeaveSync, TLAPS

\* Time, and the application's own clock.
ClockInv ==
  /\ clock >= Began
  /\ app.at <= clock /\ known <= app.at
  /\ Present => app.mod = app.at - Skew
  /\ cursor <= clock /\ rec.upd <= clock

\* The row: what nobody has written is empty, what it holds of Xero is a
\* version of the application that was.
RecordInv ==
  /\ ~rec.held => /\ rec.status = "submitted" /\ rec.upd = 0
                  /\ rec.hash = Never /\ ~rec.archived
  /\ rec.held => app # Nothing
  /\ IF rec.hash = Never THEN rec.src = Never
     ELSE rec.src = rec.hash - Skew /\ rec.hash <= app.at
  /\ rec.archived /\ ~purged => Gone

\* A decision holds the record as it found it until it is committed.
Decides(a) == IF a = "approve" THEN "scheduled" ELSE "rejected"

DecisionInv ==
  /\ dec.pc # "idle" =>
       /\ rec.held /\ dec.act # "none" /\ dec.was = rec.status
       /\ \/ rec.status = "submitted"
          \/ rec.status = "xero_sync_failed" /\ rec.failed = dec.act
          \/ rec.status = "approved" /\ dec.act = "withdraw"
  /\ dec.pc = "done" =>
       /\ known <= dec.at /\ dec.at <= app.at
       /\ app.at = dec.at => app.status = Decides(dec.act)

\* The states Xero may move an application to.
Later == [requested |-> {"scheduled", "rejected", "withdrawn", "deleted", "absent"},
          scheduled |-> {"rejected", "deleted", "absent"},
          rejected  |-> {"deleted", "absent"},
          withdrawn |-> {"deleted", "absent"},
          deleted   |-> {"absent"},
          absent    |-> AppStatuses]

\* What was read of the application is a state it has been in.
Past(s) ==
  /\ s.at <= app.at
  /\ IF s.at = app.at THEN s = app ELSE app.status \in Later[s.status]

\* The handler has an application of a list it fetched after it started.
AtWork(r) == run[r].pc \in {"fetched", "loaded"}

SnapshotInv == \A r \in Runs :
  /\ run[r].pc # "idle" => run[r].started <= clock
  /\ run[r].pc \in {"fetched", "loaded", "finalising"} => run[r].started < clock
  /\ AtWork(r) =>
       /\ run[r].listed /\ run[r].got.status # "absent"
       /\ run[r].got.mod = run[r].got.at - Skew
       /\ Past(run[r].got)
       /\ Present /\ app.at <= run[r].started => run[r].got = app

\* A record nobody has written since the run started reflects nothing newer
\* than the run's list, and is the row the run has loaded.
LoadInv == \A r \in Runs :
  /\ AtWork(r) /\ rec.upd <= run[r].started => known <= run[r].got.at
  /\ run[r].pc = "loaded" =>
       /\ rec.upd <= run[r].started => run[r].row = Loaded(rec)
       /\ ~run[r].row.held => run[r].row.status = "submitted"
       /\ IF run[r].row.hash = Never THEN run[r].row.src = Never
          ELSE /\ run[r].row.src = run[r].row.hash - Skew
               /\ run[r].row.hash <= app.at
       /\ Present /\ run[r].row.hash = app.at => rec.hash = app.at

\* A record with the present version of the application agrees with it, and no
\* list with an older one can be applied to it.
VersionInv ==
  Present /\ rec.hash = app.at =>
    /\ rec.held /\ Agrees /\ dec.pc # "done"
    /\ \A r \in Runs :
         AtWork(r) /\ run[r].got.at < app.at => rec.upd > run[r].started

\* A run that has succeeded so far has dealt with the application, unless it
\* has changed since the run started.
DealtWith(r) ==
  IF run[r].listed THEN rec.hash = app.at
  ELSE run[r].mode = "incremental" /\ run[r].since # Never /\ app.at <= run[r].since

CursorInv ==
  /\ Present /\ cursor # Never /\ app.at <= cursor => rec.hash = app.at
  /\ \A r \in Runs :
       /\ run[r].pc = "finalising" /\ run[r].succeeds
       /\ Present /\ app.at <= run[r].started
       => DealtWith(r)

\* Leave that is missing from the whole list is gone.
MissingInv == \A r \in Runs :
  /\ run[r].pc = "finalising" /\ run[r].succeeds
  /\ run[r].mode = "full" /\ ~run[r].listed
  /\ rec.held /\ rec.upd <= run[r].started
  => ~Present

\* The reconciliation's reading, against what the record has become meanwhile.
Overtaken ==
  \/ rec.seq > check.row.seq
  \/ check.got.status \notin {"scheduled", "rejected", "withdrawn", "deleted"}
  \/ rec.status = "cancelled"
  \/ check.got.status = "scheduled" /\ rec.status \in {"declined", "withdrawn"}

CheckInv ==
  /\ check.pc # "idle" => /\ rec.held /\ check.row.seq <= rec.seq
                          /\ check.row.status \notin {"withdrawn", "cancelled"}
  /\ check.pc = "fetched" =>
       /\ Past(check.got)
       /\ check.got.status = "absent" => ~Present
       /\ known > check.got.at => Overtaken
       /\ \A r \in Runs :
            AtWork(r) /\ check.got.at < run[r].got.at =>
              run[r].got.status \in Later[check.got.status]

Inv == /\ TypeOK /\ ClockInv /\ RecordInv /\ DecisionInv /\ SnapshotInv
       /\ LoadInv /\ VersionInv /\ CursorInv /\ MissingInv /\ CheckInv

-----------------------------------------------------------------------------
(* Types *)

Pcs == {"idle", "started", "reading", "fetched", "loaded", "finalising"}

Locals == [pc : Pcs, mode : {"full", "incremental"}, started : Nat,
           since : Nat \cup {Never}, listed : BOOLEAN, got : Snapshots,
           row : LoadedRows, succeeds : BOOLEAN]

Decisions == [pc : {"idle", "sent", "done", "refused"}, act : NoneOrAction,
              was : Statuses, at : Nat]

Checks == [pc : {"idle", "loaded", "fetched"}, got : Snapshots,
           row : CheckedRows]

XeroTyped == app \in Snapshots /\ clock \in Nat /\ known \in Nat
SyncTyped == /\ cursor \in Nat \cup {Never} /\ lease \in Runs \cup {NoRun}
             /\ run \in [Runs -> Locals]
LinkTyped == /\ linked \in BOOLEAN /\ purged \in BOOLEAN
             /\ used \in [starts : 0 .. MaxStarts, events : 0 .. MaxEvents]

LEMMA TypeParts ==
  TypeOK <=> /\ XeroTyped /\ SyncTyped /\ LinkTyped
             /\ rec \in Rows /\ FailureExplained
             /\ dec \in Decisions /\ check \in Checks
BY DEF TypeOK, XeroTyped, SyncTyped, LinkTyped, Locals, Decisions, Checks, Pcs, Times

LEMMA ConstantFacts ==
  /\ Skew \in Nat /\ Slack \in Nat /\ Skew <= Slack
  /\ Began \in Nat /\ Began - Skew \in Nat /\ Began > 0
  /\ Never \notin Nat /\ \A n \in Nat : Never <= n
BY BoundAssumption DEF Began, Never

LEMMA RowTyped ==
  ASSUME rec \in Rows
  PROVE  Loaded(rec) \in LoadedRows /\ Checked(rec) \in CheckedRows
BY DEF Rows, Loaded, LoadedRows, Checked, CheckedRows, Times

LEMMA IdleTyped ==
  /\ Nothing \in Snapshots /\ NoRow \in Rows
  /\ IdleRun \in Locals /\ IdleDecision \in Decisions /\ IdleCheck \in Checks
BY ConstantFacts
DEF Nothing, NoRow, IdleRun, IdleDecision, IdleCheck, Loaded, Checked, Snapshots, Rows,
    Locals, Pcs, Decisions, Checks, LoadedRows, CheckedRows, AppStatuses, Statuses,
    NoneOrAction, Times, Never

\* The values the invariants compare.
LEMMA Values ==
  ASSUME TypeOK
  PROVE  /\ app.status \in AppStatuses /\ app.mod \in Nat /\ app.at \in Nat
         /\ clock \in Nat /\ known \in Nat
         /\ cursor \in Nat \/ cursor = Never
         /\ rec.upd \in Nat /\ rec.seq \in Nat /\ rec.status \in Statuses
         /\ rec.failed \in NoneOrAction /\ rec.held \in BOOLEAN
         /\ rec.src \in Nat \/ rec.src = Never
         /\ rec.hash \in Nat \/ rec.hash = Never
         /\ dec.at \in Nat /\ dec.act \in NoneOrAction
         /\ check.row.seq \in Nat /\ check.row.status \in Statuses
         /\ check.got.at \in Nat /\ check.got.status \in AppStatuses
         /\ run \in [Runs -> Locals]
BY TypeParts
DEF XeroTyped, SyncTyped, Snapshots, Rows, Decisions, Checks, CheckedRows, Times

LEMMA RunValues ==
  ASSUME TypeOK, NEW r \in Runs
  PROVE  /\ run[r] \in Locals /\ run[r].started \in Nat
         /\ run[r].since \in Nat \/ run[r].since = Never
         /\ run[r].got \in Snapshots /\ run[r].got.at \in Nat
         /\ run[r].got.mod \in Nat /\ run[r].got.status \in AppStatuses
         /\ run[r].row.upd \in Nat /\ run[r].row.status \in Statuses
         /\ run[r].row.failed \in NoneOrAction /\ run[r].row.held \in BOOLEAN
         /\ run[r].row.src \in Nat \/ run[r].row.src = Never
         /\ run[r].row.hash \in Nat \/ run[r].row.hash = Never
         /\ run[r].listed \in BOOLEAN /\ run[r].succeeds \in BOOLEAN
BY Values DEF Locals, LoadedRows, Snapshots, Times

-----------------------------------------------------------------------------
(* What the steps of a run do. *)

\* The step is the run's.
Moves(r) ==
  /\ run' \in [Runs -> Locals]
  /\ \A q \in Runs : q # r => run'[q] = run[q]

Keeps(r) ==
  /\ run'[r].started = run[r].started /\ run'[r].mode = run[r].mode

LEMMA StartEffect ==
  ASSUME TypeOK, NEW r \in Runs, Start(r)
  PROVE  /\ Moves(r) /\ run'[r].pc = "started" /\ run'[r].started = clock
         /\ UNCHANGED <<app, clock, rec, known, cursor, lease, dec, check, purged, linked>>
PROOF
<1>1. PICK m \in {"full", "incremental"} :
        run' = [run EXCEPT ![r] = [IdleRun EXCEPT
                  !.pc = "started", !.mode = m, !.started = clock]]
  BY DEF Start
<1> DEFINE new == [IdleRun EXCEPT !.pc = "started", !.mode = m, !.started = clock]
<1>2. new \in Locals /\ new.pc = "started" /\ new.started = clock
  BY IdleTyped, Values DEF Locals, Pcs
<1>3. run' = [run EXCEPT ![r] = new]
  BY <1>1
<1> HIDE DEF new
<1>4. Moves(r) /\ run'[r] = new
  BY <1>2, <1>3, Values DEF Moves
<1> QED
  BY <1>2, <1>4 DEF Start, linkVars, xeroVars

LEMMA AcquireEffect ==
  ASSUME TypeOK, NEW r \in Runs, Acquire(r)
  PROVE  /\ Moves(r) /\ run[r].pc = "started" /\ run'[r].pc = "reading"
         /\ Keeps(r)
         /\ UNCHANGED <<app, clock, rec, known, cursor, dec, check, purged, linked>>
PROOF
<1> DEFINE new == [run[r] EXCEPT !.pc = "reading"]
<1>1. run' = [run EXCEPT ![r] = new]
  BY Values DEF Acquire
<1>2. new \in Locals /\ new.pc = "reading" /\ new.started = run[r].started
      /\ new.mode = run[r].mode
  BY RunValues DEF Locals, Pcs
<1> HIDE DEF new
<1>3. Moves(r) /\ run'[r] = new
  BY <1>1, <1>2, Values DEF Moves
<1> QED
  BY <1>2, <1>3 DEF Acquire, At, Keeps, linkVars, xeroVars

\* The list did not have the application, or it had it as it is.
LEMMA FetchEffect ==
  ASSUME TypeOK, NEW r \in Runs, Fetch(r)
  PROVE  /\ Moves(r) /\ run[r].pc = "reading" /\ Keeps(r)
         /\ run'[r].since = cursor
         /\ \/ /\ run'[r].pc = "finalising" /\ ~run'[r].listed
               /\ run'[r].succeeds => ~Included(run[r].mode, cursor)
            \/ /\ run'[r].pc = "fetched" /\ run'[r].listed
               /\ run'[r].got = app /\ Present
         /\ clock' = clock + 1
         /\ UNCHANGED <<app, rec, known, cursor, lease, dec, check, purged, linked>>
PROOF
<1>1. PICK whole \in BOOLEAN, got \in {Nothing, app} :
       /\ got # Nothing => Included(run[r].mode, cursor)
       /\ whole => (got # Nothing) = Included(run[r].mode, cursor)
       /\ run' = [run EXCEPT ![r].since = cursor, ![r].got = got,
                             ![r].listed = (got # Nothing),
                             ![r].succeeds = whole,
                             ![r].pc = IF got = Nothing THEN "finalising"
                                       ELSE "fetched"]
  BY DEF Fetch
<1> DEFINE pc  == IF got = Nothing THEN "finalising" ELSE "fetched"
           has == got # Nothing
           new == [run[r] EXCEPT !.since = cursor, !.got = got, !.listed = has,
                                 !.succeeds = whole, !.pc = pc]
<1>2. run' = [run EXCEPT ![r] = new]
  BY <1>1, Values
<1>3. got \in Snapshots /\ pc \in Pcs /\ has \in BOOLEAN
      /\ cursor \in Nat \cup {Never}
  BY IdleTyped, TypeParts DEF XeroTyped, SyncTyped, Pcs
<1> HIDE DEF has, pc
<1>4. /\ new \in Locals /\ new.pc = pc /\ new.started = run[r].started
      /\ new.mode = run[r].mode /\ new.since = cursor /\ new.got = got
      /\ new.listed = has /\ new.succeeds = whole
  BY <1>3, RunValues DEF Locals
<1> HIDE DEF new
<1>5. Moves(r) /\ run'[r] = new
  BY <1>2, <1>4, Values DEF Moves
<1>6. run[r].pc = "reading" /\ Keeps(r) /\ run'[r].since = cursor
  BY <1>4, <1>5 DEF Fetch, At, Keeps
<1>7. /\ clock' = clock + 1
      /\ UNCHANGED <<app, rec, known, cursor, lease, dec, check, purged, linked>>
  BY DEF Fetch, linkVars
<1>8. CASE got = Nothing
  BY <1>1, <1>4, <1>5, <1>6, <1>7, <1>8 DEF pc, has
<1>9. CASE got # Nothing
  <2>1. got = app /\ Present
    BY <1>1, <1>9 DEF Included
  <2> QED
    BY <1>4, <1>5, <1>6, <1>7, <1>9, <2>1 DEF pc, has
<1> QED
  BY <1>8, <1>9

LEMMA LoadEffect ==
  ASSUME TypeOK, NEW r \in Runs, LoadExisting(r)
  PROVE  /\ Moves(r) /\ run[r].pc = "fetched" /\ run'[r].pc = "loaded" /\ Keeps(r)
         /\ run'[r].got = run[r].got /\ run'[r].listed = run[r].listed
         /\ run'[r].row = Loaded(rec)
         /\ UNCHANGED <<app, clock, rec, known, cursor, lease, dec, check, purged, linked>>
PROOF
<1> DEFINE row == Loaded(rec)
           new == [run[r] EXCEPT !.row = row, !.pc = "loaded"]
<1>1. run' = [run EXCEPT ![r] = new]
  BY Values DEF LoadExisting
<1>2. row \in LoadedRows
  BY RowTyped, TypeParts
<1> HIDE DEF row
<1>3. /\ new \in Locals /\ new.pc = "loaded" /\ new.started = run[r].started
      /\ new.mode = run[r].mode /\ new.got = run[r].got
      /\ new.listed = run[r].listed /\ new.row = row
  BY <1>2, RunValues DEF Locals, Pcs
<1> HIDE DEF new
<1>4. Moves(r) /\ run'[r] = new
  BY <1>1, <1>3, Values DEF Moves
<1> QED
  BY <1>3, <1>4 DEF LoadExisting, At, Keeps, row, linkVars, xeroVars

\* A run that has dealt with the application, or has failed to.
Deals(r, succeeds) ==
  /\ Moves(r) /\ run'[r].pc = "finalising"
  /\ run'[r].started = run[r].started \/ run'[r].started = 0
  /\ run'[r].succeeds =>
       /\ succeeds /\ run[r].succeeds /\ Keeps(r)
       /\ run'[r].since = run[r].since /\ run'[r].listed = run[r].listed

LEMMA ProcessedEffect ==
  ASSUME TypeOK, NEW r \in Runs, NEW succeeds \in BOOLEAN,
         run' = Processed(r, succeeds)
  PROVE  Deals(r, succeeds)
PROOF
<1>1. CASE run[r].succeeds /\ succeeds
  <2> DEFINE row == Loaded(NoRow)
             new == [run[r] EXCEPT !.pc = "finalising", !.got = Nothing, !.row = row]
  <2>1. run' = [run EXCEPT ![r] = new]
    BY <1>1, Values DEF Processed
  <2>2. row \in LoadedRows
    BY IdleTyped DEF IdleRun, Locals
  <2> HIDE DEF row
  <2>3. /\ new \in Locals /\ new.pc = "finalising" /\ new.started = run[r].started
        /\ new.mode = run[r].mode /\ new.since = run[r].since
        /\ new.listed = run[r].listed
    BY <2>2, IdleTyped, RunValues DEF Locals, Pcs
  <2> HIDE DEF new
  <2>4. Moves(r) /\ run'[r] = new
    BY <2>1, <2>3, Values DEF Moves
  <2> QED
    BY <1>1, <2>3, <2>4 DEF Deals, Keeps
<1>2. CASE ~(run[r].succeeds /\ succeeds)
  <2> DEFINE new == [IdleRun EXCEPT !.pc = "finalising", !.succeeds = FALSE]
  <2>1. run' = [run EXCEPT ![r] = new]
    BY <1>2 DEF Processed
  <2>2. new \in Locals /\ new.pc = "finalising" /\ new.started = 0
        /\ new.succeeds = FALSE
    BY IdleTyped DEF Locals, Pcs, IdleRun
  <2> HIDE DEF new
  <2>3. Moves(r) /\ run'[r] = new
    BY <2>1, <2>2, Values DEF Moves
  <2> QED
    BY <2>2, <2>3 DEF Deals
<1> QED
  BY <1>1, <1>2

LEMMA IdleEffect ==
  ASSUME TypeOK, NEW r \in Runs, Idle(r)
  PROVE  Moves(r) /\ run'[r].pc = "idle"
BY Values, IdleTyped DEF Idle, Moves, IdleRun

\* The application is written to the record.
Applied(r) ==
  /\ \/ ~run[r].row.held /\ ~rec.held
     \/ /\ run[r].row.held /\ run[r].row.upd <= run[r].started
        /\ Unchanged(run[r].row)
  /\ Deals(r, TRUE)
  /\ rec' = Written(run[r].row, run[r].got) /\ known' = run[r].got.at

\* The record has this version of the application already, or a later one.
Known(r) ==
  /\ run[r].row.held
  /\ Older(run[r].row, run[r].got) \/ Duplicate(run[r].row, run[r].got)
  /\ Deals(r, TRUE) /\ UNCHANGED <<rec, known>>

LEMMA ProcessEffect ==
  ASSUME TypeOK, NEW r \in Runs, ProcessLeaveRecord(r) \/ RecordFailure(r)
  PROVE  /\ run[r].pc = "loaded"
         /\ Applied(r) \/ Known(r) \/ (Deals(r, FALSE) /\ UNCHANGED <<rec, known>>)
         /\ UNCHANGED <<app, clock, cursor, lease, dec, check, purged, linked>>
PROOF
<1>1. /\ run[r].pc = "loaded"
      /\ UNCHANGED <<app, clock, cursor, lease, dec, check>>
      /\ UNCHANGED <<purged, linked>>
  BY DEF ProcessLeaveRecord, RecordFailure, At, xeroVars, linkVars
<1>2. ASSUME Skips(r, FALSE) PROVE Deals(r, FALSE) /\ UNCHANGED <<rec, known>>
  BY <1>2, ProcessedEffect DEF Skips
<1>3. ASSUME Skips(r, TRUE) PROVE Deals(r, TRUE) /\ UNCHANGED <<rec, known>>
  BY <1>3, ProcessedEffect DEF Skips
<1>4. ASSUME Applies(r)
      PROVE  /\ Deals(r, TRUE) /\ rec' = Written(run[r].row, run[r].got)
             /\ known' = run[r].got.at
  BY <1>4, ProcessedEffect DEF Applies
<1>5. CASE RecordFailure(r)
  BY <1>1, <1>2, <1>5 DEF RecordFailure
<1>6. CASE ProcessLeaveRecord(r)
  <2> DEFINE row == run[r].row
             got == run[r].got
  <2>1. row.held \in BOOLEAN /\ row.upd \in Nat /\ run[r].started \in Nat
    BY RunValues
  <2>2. CASE ~row.held
    <3>1. IF rec.held THEN Skips(r, FALSE) ELSE Applies(r)
      BY <1>6, <2>2 DEF ProcessLeaveRecord
    <3> QED
      BY <1>1, <1>2, <1>4, <2>2, <3>1 DEF Applied
  <2>3. CASE row.held /\ row.upd > run[r].started
    <3>1. Skips(r, FALSE)
      BY <1>6, <2>3 DEF ProcessLeaveRecord, ChangedSinceStart
    <3> QED
      BY <1>1, <1>2, <3>1
  <2>4. CASE row.held /\ row.upd <= run[r].started
    <3>1. IF Older(row, got) \/ Duplicate(row, got) THEN Skips(r, TRUE)
          ELSE IF Unchanged(row) THEN Applies(r) ELSE Skips(r, FALSE)
      <4>1. ~(row.upd > run[r].started)
        BY <2>1, <2>4
      <4> QED
        BY <1>6, <2>4, <4>1 DEF ProcessLeaveRecord, ChangedSinceStart
    <3> QED
      BY <1>1, <1>2, <1>3, <1>4, <2>4, <3>1 DEF Applied, Known
  <2>5. row.upd > run[r].started \/ row.upd <= run[r].started
    BY <2>1
  <2> QED
    BY <2>2, <2>3, <2>4, <2>5
<1> QED
  BY <1>5, <1>6

LEMMA StopEffect ==
  ASSUME TypeOK, NEW r \in Runs, Stop(r)
  PROVE  /\ Moves(r) /\ run'[r].pc = "idle"
         /\ UNCHANGED <<app, clock, rec, known, cursor, dec, check, purged, linked>>
BY IdleEffect DEF Stop, linkVars, xeroVars

\* What a row may become.
LEMMA WrittenTyped ==
  ASSUME TypeOK, NEW row \in LoadedRows, NEW got \in Snapshots,
         got.status # "absent"
  PROVE  /\ Written(row, got) \in Rows
         /\ Written(row, got).held /\ Written(row, got).status = Persisted(row, got)
         /\ Written(row, got).failed =
              IF Persisted(row, got) = "xero_sync_failed" THEN rec.failed ELSE "none"
         /\ Written(row, got).src = got.mod /\ Written(row, got).hash = got.at
         /\ Written(row, got).upd = clock
         /\ Written(row, got).archived => got.status = "deleted"
         /\ Written(row, got).seq = rec.seq
PROOF
<1>1. /\ rec \in Rows /\ got.mod \in Nat /\ got.at \in Nat /\ clock \in Nat
      /\ got.status \in AppStatuses
  BY TypeParts DEF XeroTyped, Snapshots, Times
<1> DEFINE status == Persisted(row, got)
           failed == IF status = "xero_sync_failed" THEN rec.failed ELSE "none"
           archived == status = "cancelled"
<1>2. Reported[got.status] \in Statuses
  BY <1>1 DEF AppStatuses, Reported, Statuses
<1>3. status \in Statuses
  BY <1>2 DEF Persisted, Statuses
<1>4. failed \in NoneOrAction
  BY <1>1 DEF Rows, NoneOrAction
<1>5. archived \in BOOLEAN /\ (archived => got.status = "deleted")
  BY <1>1 DEF Persisted, Reported, AppStatuses
<1>6. Written(row, got) =
        [rec EXCEPT !.held = TRUE, !.status = status, !.failed = failed,
                    !.src = got.mod, !.hash = got.at, !.upd = clock,
                    !.archived = archived]
  BY <1>1 DEF Written, Rows
<1> HIDE DEF status, failed, archived
<1>7. [rec EXCEPT !.held = TRUE, !.status = status, !.failed = failed,
                  !.src = got.mod, !.hash = got.at, !.upd = clock,
                  !.archived = archived] \in Rows
  BY <1>1, <1>3, <1>4, <1>5 DEF Rows, Times
<1>8. /\ Written(row, got).held /\ Written(row, got).status = status
      /\ Written(row, got).failed = failed
      /\ Written(row, got).src = got.mod /\ Written(row, got).hash = got.at
      /\ Written(row, got).upd = clock /\ Written(row, got).archived = archived
      /\ Written(row, got).seq = rec.seq
  BY <1>1, <1>6 DEF Rows
<1> QED
  BY <1>5, <1>6, <1>7, <1>8 DEF status, failed

-----------------------------------------------------------------------------
(* What Team Calendar's own writes do to the row. *)

\* The row, or the row written now; what it holds of Xero stays.
LocalWrite ==
  /\ rec' \in Rows
  /\ rec'.held = rec.held /\ rec'.src = rec.src /\ rec'.hash = rec.hash
  /\ rec'.seq \in {rec.seq, rec.seq + 1}
  /\ rec' = rec \/ (rec.held /\ rec'.upd = clock)

LEMMA CommitEffect ==
  ASSUME Inv, CommitDecision
  PROVE  /\ dec.pc = "done" /\ dec.act \in Actions
         /\ LocalWrite /\ rec'.status = Decided[dec.act] /\ rec'.failed = "none"
         /\ rec'.seq = rec.seq + 1 /\ rec'.archived = rec.archived
         /\ rec'.upd = clock
         /\ known' = dec.at /\ dec' = IdleDecision
         /\ UNCHANGED <<app, clock, cursor, lease, run, check, purged, linked>>
PROOF
<1>1. dec.pc = "done" /\ rec.held /\ dec.act \in Actions
  BY Values DEF Inv, CommitDecision, DecisionInv, NoneOrAction
<1>2. rec \in Rows /\ clock \in Nat /\ rec.seq \in Nat
  BY TypeParts, Values DEF Inv
<1> DEFINE status == Decided[dec.act]
           seq == rec.seq + 1
<1>3. status \in Statuses /\ seq \in Nat
  BY <1>1, <1>2 DEF Decided, Actions, Statuses
<1>4. rec' = [rec EXCEPT !.status = status, !.failed = "none", !.seq = seq,
                         !.upd = clock]
  BY <1>2 DEF CommitDecision, Rows
<1> HIDE DEF status, seq
<1>5. /\ rec' \in Rows /\ rec'.held = rec.held /\ rec'.src = rec.src
      /\ rec'.hash = rec.hash /\ rec'.status = status /\ rec'.failed = "none"
      /\ rec'.seq = seq /\ rec'.archived = rec.archived /\ rec'.upd = clock
  BY <1>2, <1>3, <1>4 DEF Rows, NoneOrAction, Times
<1> QED
  BY <1>1, <1>5 DEF CommitDecision, LocalWrite, status, seq, linkVars, xeroVars

LEMMA RefusalEffect ==
  ASSUME Inv, PersistRefusal
  PROVE  /\ dec.pc = "refused" /\ dec.act \in Actions
         /\ LocalWrite
         /\ rec'.status = IF rec.status = "approved" THEN "approved"
                          ELSE "xero_sync_failed"
         /\ rec'.failed = dec.act
         /\ rec'.seq = rec.seq /\ rec'.archived = rec.archived
         /\ rec'.upd = clock
         /\ dec' = IdleDecision
         /\ UNCHANGED <<app, clock, known, cursor, lease, run, check, purged, linked>>
PROOF
<1>1. /\ dec.pc = "refused" /\ rec.held /\ dec.act \in Actions
      /\ dec.was = rec.status
      /\ rec.status = "approved" => dec.act = "withdraw"
  BY Values DEF Inv, PersistRefusal, DecisionInv, NoneOrAction
<1>2. rec \in Rows /\ clock \in Nat
  BY TypeParts, Values DEF Inv
<1> DEFINE status == IF rec.status = "approved" THEN "approved"
                     ELSE "xero_sync_failed"
<1>3. status \in Statuses /\ dec.act \in NoneOrAction
  BY <1>1 DEF Statuses, NoneOrAction
<1>4. rec' = [rec EXCEPT !.status = status, !.failed = dec.act, !.upd = clock]
  BY <1>1 DEF PersistRefusal
<1> HIDE DEF status
<1>5. /\ rec' \in Rows /\ rec'.held = rec.held /\ rec'.src = rec.src
      /\ rec'.hash = rec.hash /\ rec'.status = status /\ rec'.failed = dec.act
      /\ rec'.seq = rec.seq /\ rec'.archived = rec.archived /\ rec'.upd = clock
  BY <1>2, <1>3, <1>4 DEF Rows, Times
<1> QED
  BY <1>1, <1>5 DEF PersistRefusal, LocalWrite, status, linkVars, xeroVars

LEMMA RevertEffect ==
  ASSUME Inv, RevertApprovalAttempt
  PROVE  /\ ~Busy /\ rec.status = "xero_sync_failed"
         /\ rec.failed \in {"approve", "decline"}
         /\ LocalWrite /\ rec'.status = "submitted" /\ rec'.failed = "none"
         /\ rec'.seq = rec.seq /\ rec'.archived = rec.archived
         /\ rec'.upd = clock
         /\ UNCHANGED <<app, clock, known, cursor, lease, run, dec, check, purged, linked>>
PROOF
<1>1. rec.held
  BY DEF Inv, RevertApprovalAttempt, RecordInv
<1>2. rec \in Rows /\ clock \in Nat
  BY TypeParts, Values DEF Inv
<1>3. /\ rec' \in Rows /\ rec'.held = rec.held /\ rec'.src = rec.src
      /\ rec'.hash = rec.hash /\ rec'.status = "submitted" /\ rec'.failed = "none"
      /\ rec'.seq = rec.seq /\ rec'.archived = rec.archived /\ rec'.upd = clock
  BY <1>2 DEF RevertApprovalAttempt, Rows, NoneOrAction, Statuses, Times
<1> QED
  BY <1>1, <1>3 DEF RevertApprovalAttempt, LocalWrite, linkVars, xeroVars

LEMMA PurgeEffect ==
  ASSUME Inv, DisconnectAndPurge
  PROVE  /\ ~Busy /\ LocalWrite /\ rec'.status = rec.status
         /\ rec'.failed = rec.failed
         /\ cursor' = Never /\ purged'
         /\ rec'.archived => rec'.held
         /\ UNCHANGED <<app, clock, known, run, dec, check>>
PROOF
<1>1. rec \in Rows /\ clock \in Nat /\ rec.seq \in Nat
  BY TypeParts, Values DEF Inv
<1>2. rec.archived => rec.held
  BY <1>1 DEF Inv, RecordInv, Rows
<1> DEFINE seq == rec.seq + 1
           new == [rec EXCEPT !.archived = TRUE, !.seq = seq, !.upd = clock]
<1>3. rec' = rec \/ (rec.held /\ rec' = new)
  BY <1>1 DEF DisconnectAndPurge, Rows
<1>4. seq \in Nat
  BY <1>1
<1> HIDE DEF seq
<1>5. /\ new \in Rows /\ new.held = rec.held /\ new.src = rec.src
      /\ new.hash = rec.hash /\ new.status = rec.status /\ new.failed = rec.failed
      /\ new.seq = seq /\ new.upd = clock
  BY <1>1, <1>4 DEF Rows, Times
<1> QED
  BY <1>1, <1>2, <1>3, <1>5 DEF DisconnectAndPurge, LocalWrite, seq, xeroVars

\* Finalise keeps the row, or archives one nobody has written since the start.
LEMMA FinaliseEffect ==
  ASSUME Inv, NEW r \in Runs, Finalise(r)
  PROVE  /\ run[r].pc = "finalising" /\ Moves(r) /\ run'[r].pc = "idle"
         /\ \/ ~run[r].succeeds /\ cursor' = cursor
            \/ /\ run[r].succeeds /\ run[r].since = cursor
               /\ cursor' = run[r].started
         /\ LocalWrite /\ rec'.status = rec.status /\ rec'.failed = rec.failed
         /\ rec'.archived =>
              \/ rec.archived
              \/ /\ run[r].succeeds /\ run[r].mode = "full" /\ ~run[r].listed
                 /\ rec.held /\ rec.upd <= run[r].started
         /\ rec' = rec \/ ~Busy
         /\ UNCHANGED <<app, clock, known, dec, check, purged, linked>>
PROOF
<1>1. rec \in Rows /\ clock \in Nat /\ rec.seq \in Nat
  BY TypeParts, Values DEF Inv
<1> DEFINE new == [rec EXCEPT !.archived = TRUE, !.upd = clock]
<1>2. /\ new \in Rows /\ new.held = rec.held /\ new.src = rec.src
      /\ new.hash = rec.hash /\ new.status = rec.status /\ new.failed = rec.failed
      /\ new.seq = rec.seq /\ new.upd = clock
  BY <1>1 DEF Rows, Times
<1>3. \/ rec' = rec
      \/ /\ rec' = new /\ run[r].succeeds /\ run[r].mode = "full" /\ Stale(r)
  BY DEF Finalise
<1>4. Moves(r) /\ run'[r].pc = "idle"
  BY IdleEffect DEF Inv, Finalise
<1> HIDE DEF new
<1>5. /\ LocalWrite /\ rec'.status = rec.status /\ rec'.failed = rec.failed
      /\ rec'.archived =>
           \/ rec.archived
           \/ /\ run[r].succeeds /\ run[r].mode = "full" /\ ~run[r].listed
              /\ rec.held /\ rec.upd <= run[r].started
      /\ rec' = rec \/ ~Busy
  BY <1>1, <1>2, <1>3 DEF LocalWrite, Stale
<1> QED
  BY <1>4, <1>5 DEF Finalise, At, CursorMoves, linkVars, xeroVars

\* Where the reconciliation moves a record.
LEMMA ReconciledTo ==
  ASSUME NEW row \in CheckedRows, NEW got \in Snapshots, got.status # "absent",
         Reconciled(row, got) # row.status
  PROVE  \/ /\ got.status = "scheduled" /\ Reconciled(row, got) = "approved"
            /\ row.status \in {"submitted", "xero_sync_failed"}
         \/ /\ got.status = "rejected"
            /\ Reconciled(row, got) \in {"declined", "withdrawn"}
         \/ /\ got.status \in {"withdrawn", "deleted"}
            /\ Reconciled(row, got) = "withdrawn"
PROOF
<1>1. got.status \in {"requested", "scheduled", "rejected", "withdrawn", "deleted"}
  BY DEF Snapshots, AppStatuses
<1>2. CASE got.status = "requested"
  <2>1. Reconciled(row, got) = row.status
    BY <1>2 DEF Reconciled
  <2> QED
    BY <2>1
<1>3. CASE got.status = "scheduled"
  <2>1. CASE row.status = "submitted"
             \/ (row.status = "xero_sync_failed" /\ row.failed = "approve")
    BY <1>3, <2>1 DEF Reconciled
  <2>2. CASE ~(row.status = "submitted"
               \/ (row.status = "xero_sync_failed" /\ row.failed = "approve"))
    <3>1. Reconciled(row, got) = row.status
      BY <1>3, <2>2 DEF Reconciled
    <3> QED
      BY <3>1
  <2> QED
    BY <2>1, <2>2
<1>4. CASE got.status = "rejected"
  <2>1. CASE row.status = "submitted"
             \/ (row.status = "xero_sync_failed" /\ row.failed = "decline")
    BY <1>4, <2>1 DEF Reconciled
  <2>2. CASE row.status = "xero_sync_failed" /\ row.failed = "withdraw"
    BY <1>4, <2>2 DEF Reconciled
  <2>3. CASE /\ ~(row.status = "submitted"
                  \/ (row.status = "xero_sync_failed" /\ row.failed = "decline"))
             /\ ~(row.status = "xero_sync_failed" /\ row.failed = "withdraw")
    <3>1. Reconciled(row, got) = row.status
      BY <1>4, <2>3 DEF Reconciled
    <3> QED
      BY <3>1
  <2> QED
    BY <2>1, <2>2, <2>3
<1>5. CASE got.status \in {"withdrawn", "deleted"}
  <2>1. CASE row.status # "xero_sync_failed" \/ row.failed = "withdraw"
    BY <1>5, <2>1 DEF Reconciled
  <2>2. CASE ~(row.status # "xero_sync_failed" \/ row.failed = "withdraw")
    <3>1. Reconciled(row, got) = row.status
      BY <1>5, <2>2 DEF Reconciled
    <3> QED
      BY <3>1
  <2> QED
    BY <2>1, <2>2
<1> QED
  BY <1>1, <1>2, <1>3, <1>4, <1>5

\* The record is moved to the status the reading of Xero says.
Transitions ==
  /\ StillAsLoaded /\ check.got.status # "absent"
  /\ Reconciled(check.row, check.got) # check.row.status
  /\ rec'.status = Reconciled(check.row, check.got) /\ rec'.failed = "none"
  /\ rec'.archived = rec.archived /\ known' = check.got.at

LEMMA ReconcileEffect ==
  ASSUME Inv, Reconcile
  PROVE  /\ check.pc = "fetched" /\ check' = IdleCheck
         /\ LocalWrite /\ (rec' = rec \/ ~Busy)
         /\ \/ Transitions
            \/ /\ rec'.status = rec.status /\ rec'.failed = rec.failed
               /\ known' = known
               /\ rec'.archived => rec.archived \/ check.got.status = "absent"
         /\ UNCHANGED <<app, clock, cursor, run, dec, purged, linked>>
PROOF
<1> DEFINE status == Reconciled(check.row, check.got)
           moves  == check.got.status # "absent" /\ status # check.row.status
           seq    == rec.seq + 1
<1>1. /\ check.pc = "fetched" /\ check' = IdleCheck
      /\ UNCHANGED <<app, clock, cursor, run, dec, purged, linked>>
  BY DEF Reconcile, linkVars, xeroVars
<1>2. /\ rec \in Rows /\ clock \in Nat /\ rec.seq \in Nat
      /\ check.row \in CheckedRows /\ check.got \in Snapshots
  BY TypeParts, Values DEF Inv, Checks
<1>3. rec.held
  BY <1>1 DEF Inv, CheckInv
<1>4. CASE StillAsLoaded /\ check.got.status = "absent"
  <2>1. rec' = [rec EXCEPT !.archived = TRUE, !.upd = clock] /\ known' = known
    BY <1>4 DEF Reconcile
  <2>2. /\ rec' \in Rows /\ rec'.held = rec.held /\ rec'.src = rec.src
        /\ rec'.hash = rec.hash /\ rec'.status = rec.status
        /\ rec'.failed = rec.failed /\ rec'.seq = rec.seq /\ rec'.upd = clock
    BY <1>2, <2>1 DEF Rows, Times
  <2> QED
    BY <1>1, <1>3, <1>4, <2>1, <2>2 DEF LocalWrite, StillAsLoaded
<1>5. CASE StillAsLoaded /\ moves
  <2>1. /\ rec' = [rec EXCEPT !.status = status, !.failed = "none", !.seq = seq,
                              !.upd = clock]
        /\ known' = check.got.at
    BY <1>2, <1>5 DEF Reconcile, Rows
  <2>2. status \in Statuses /\ seq \in Nat
    BY <1>2, <1>5, ReconciledTo DEF Statuses
  <2> HIDE DEF status, seq
  <2>3. /\ rec' \in Rows /\ rec'.held = rec.held /\ rec'.src = rec.src
        /\ rec'.hash = rec.hash /\ rec'.status = status
        /\ rec'.failed = "none" /\ rec'.seq = seq /\ rec'.upd = clock
        /\ rec'.archived = rec.archived
    BY <1>2, <2>1, <2>2 DEF Rows, NoneOrAction, Times
  <2>4. LocalWrite
    BY <1>3, <2>3 DEF LocalWrite, seq
  <2> QED
    BY <1>1, <1>5, <2>1, <2>3, <2>4 DEF Transitions, StillAsLoaded, status
<1>6. CASE ~StillAsLoaded \/ (~moves /\ check.got.status # "absent")
  <2>1. /\ rec' = IF Busy THEN rec ELSE [rec EXCEPT !.upd = clock]
        /\ known' = known
    BY <1>6 DEF Reconcile
  <2>2. /\ rec' \in Rows /\ rec'.held = rec.held /\ rec'.src = rec.src
        /\ rec'.hash = rec.hash /\ rec'.status = rec.status
        /\ rec'.failed = rec.failed /\ rec'.seq = rec.seq
        /\ rec'.archived = rec.archived
        /\ rec' = rec \/ rec'.upd = clock
        /\ rec' = rec \/ ~Busy
    BY <1>2, <2>1 DEF Rows, Times
  <2> QED
    BY <1>1, <1>3, <2>1, <2>2 DEF LocalWrite
<1> QED
  BY <1>4, <1>5, <1>6

-----------------------------------------------------------------------------
(* What a change in Xero does. *)

\* The application moves on, and is stamped.
XeroMoves ==
  /\ app' \in Snapshots /\ app'.at = clock + 1 /\ app'.mod = clock + 1 - Skew
  /\ clock' = clock + 1
  /\ app'.status \in Later[app.status]
  /\ app = Nothing \/ Present
  /\ UNCHANGED <<rec, known, cursor, lease, run, check, purged, linked>>

LEMMA ChangedEffect ==
  ASSUME Inv, NEW s \in AppStatuses, Changed(s)
  PROVE  /\ app' \in Snapshots /\ app'.at = clock + 1 /\ app'.status = s
         /\ app'.mod = clock + 1 - Skew /\ clock' = clock + 1
PROOF
<1>1. clock \in Nat /\ clock >= Began
  BY Values DEF Inv, ClockInv
<1>2. clock + 1 \in Nat /\ clock + 1 - Skew \in Nat
  BY <1>1, ConstantFacts
<1> QED
  BY <1>2 DEF Changed, Snapshots, Times

LEMMA EditEffect ==
  ASSUME Inv, EditInXero
  PROVE  XeroMoves /\ dec' = dec
PROOF
<1>1. PICK s \in NextStatuses : Changed(s)
  BY DEF EditInXero
<1>2. app.status \in AppStatuses
  BY Values DEF Inv
<1>3. s \in AppStatuses /\ s \in Later[app.status] /\ (app = Nothing \/ Present)
  <2>1. CASE app.status = "requested"
    BY <1>1, <2>1 DEF NextStatuses, Nothing, AppStatuses, Later, Present
  <2>2. CASE app.status = "scheduled"
    BY <1>1, <2>2 DEF NextStatuses, Nothing, AppStatuses, Later, Present
  <2>3. CASE app.status \in {"rejected", "withdrawn", "deleted"}
    BY <1>1, <2>3 DEF NextStatuses, Nothing, AppStatuses, Later, Present
  <2>4. CASE app.status = "absent" /\ app = Nothing
    BY <1>1, <2>4 DEF NextStatuses, Nothing, AppStatuses, Later, Present
  <2>5. CASE app.status = "absent" /\ app # Nothing
    BY <1>1, <2>5 DEF NextStatuses
  <2> QED
    BY <1>2, <2>1, <2>2, <2>3, <2>4, <2>5 DEF AppStatuses
<1> QED
  BY <1>1, <1>3, ChangedEffect DEF EditInXero, XeroMoves, linkVars

LEMMA AcceptEffect ==
  ASSUME Inv, XeroAccepts
  PROVE  /\ XeroMoves /\ dec.pc = "sent" /\ dec'.pc = "done"
         /\ dec'.at = clock + 1 /\ dec'.act = dec.act /\ dec'.was = dec.was
         /\ dec' \in Decisions /\ app'.status = Decides(dec.act)
PROOF
<1>1. dec \in Decisions /\ clock \in Nat /\ dec.pc = "sent"
  BY TypeParts, Values DEF Inv, XeroAccepts
<1>2. Changed(Decides(dec.act)) /\ Decides(dec.act) \in AppStatuses
  BY DEF XeroAccepts, Decides, AppStatuses
<1>3. Decides(dec.act) \in Later[app.status] /\ Present
  BY DEF XeroAccepts, Applicable, Decides, Later, Present
<1> DEFINE now == clock + 1
<1>4. now \in Nat
  BY <1>1
<1>5. dec' = [dec EXCEPT !.pc = "done", !.at = now]
  BY DEF XeroAccepts
<1> HIDE DEF now
<1>6. /\ dec' \in Decisions /\ dec'.pc = "done" /\ dec'.at = now
      /\ dec'.act = dec.act /\ dec'.was = dec.was
  BY <1>1, <1>4, <1>5 DEF Decisions
<1> QED
  BY <1>1, <1>2, <1>3, <1>6, ChangedEffect DEF XeroAccepts, XeroMoves, linkVars, now

LEMMA SendEffect ==
  ASSUME Inv, NEW a \in Offered, Decide(a)
  PROVE  /\ ~Busy /\ Awaits(a) /\ rec.held
         /\ dec' \in Decisions /\ dec'.pc = "sent" /\ dec'.act = a
         /\ dec'.was = rec.status /\ a \in Actions
         /\ UNCHANGED <<app, clock, rec, known, cursor, lease, run, check, purged, linked>>
PROOF
<1>1. rec.status \in Statuses /\ a \in Actions
  BY Values, OfferedAssumption DEF Inv, Actions
<1> QED
  BY <1>1 DEF Decide, Decisions, NoneOrAction, linkVars, xeroVars

LEMMA RefuseEffect ==
  ASSUME Inv, XeroRefuses
  PROVE  /\ dec.pc = "sent" /\ dec' \in Decisions /\ dec'.pc = "refused"
         /\ dec'.act = dec.act /\ dec'.was = dec.was
         /\ UNCHANGED <<app, clock, rec, known, cursor, lease, run, check, purged, linked>>
PROOF
<1>1. dec \in Decisions
  BY TypeParts DEF Inv
<1> QED
  BY <1>1 DEF XeroRefuses, Decisions, linkVars, xeroVars

LEMMA CheckEffect ==
  ASSUME Inv, LoadForCheck \/ FetchStatus \/ AbandonCheck
  PROVE  /\ check' \in Checks
         /\ \/ /\ check'.pc = "loaded" /\ rec.held /\ check'.row.seq = rec.seq
               /\ check'.row.status \notin {"withdrawn", "cancelled"}
            \/ /\ check.pc = "loaded" /\ check'.pc = "fetched" /\ check'.got = app
               /\ check'.row = check.row
            \/ check'.pc = "idle"
         /\ UNCHANGED <<app, clock, rec, known, cursor, lease, run, dec, purged>>
PROOF
<1>1. check \in Checks /\ app \in Snapshots
  BY TypeParts DEF Inv, XeroTyped
<1>2. CASE LoadForCheck
  <2> DEFINE row == Checked(rec)
  <2>1. row \in CheckedRows /\ row.seq = rec.seq /\ row.status = rec.status
    BY RowTyped, TypeParts DEF Inv, Checked
  <2>2. check' = [IdleCheck EXCEPT !.pc = "loaded", !.row = row]
    BY <1>2 DEF LoadForCheck
  <2> HIDE DEF row
  <2>3. check' \in Checks /\ check'.pc = "loaded" /\ check'.row = row
    BY <2>1, <2>2, IdleTyped DEF Checks
  <2> QED
    BY <1>2, <2>1, <2>3 DEF LoadForCheck, linkVars, xeroVars
<1>3. CASE FetchStatus
  BY <1>1, <1>3 DEF FetchStatus, Checks, linkVars, xeroVars
<1>4. CASE AbandonCheck
  BY <1>4, IdleTyped DEF AbandonCheck, IdleCheck, linkVars, xeroVars
<1> QED
  BY <1>2, <1>3, <1>4

-----------------------------------------------------------------------------
(* The kinds of steps. *)

\* Nothing of what the application, the row and the runs are changes.
Quiet == UNCHANGED <<app, clock, rec, known, cursor, run, purged>>

\* The decision, the reconciliation, the disconnection write the row.
Local == \/ CommitDecision \/ PersistRefusal \/ RevertApprovalAttempt
         \/ DisconnectAndPurge \/ Reconcile

LEMMA StepKinds ==
  ASSUME Inv, Next
  PROVE  \/ XeroMoves
         \/ Quiet
         \/ Local
         \/ \E r \in Runs :
              \/ Start(r) \/ Acquire(r) \/ Fetch(r) \/ LoadExisting(r)
              \/ ProcessLeaveRecord(r) \/ RecordFailure(r)
              \/ Finalise(r) \/ Stop(r)
PROOF
<1>1. CASE EditInXero
  BY <1>1, EditEffect
<1>2. CASE DisconnectAndPurge
  BY <1>2 DEF Local
<1>3. CASE Reconnect
  BY <1>3 DEF Reconnect, Quiet, xeroVars
<1>4. CASE Decision
  BY <1>4, AcceptEffect, SendEffect, RefuseEffect DEF Decision, Local, Quiet
<1>5. CASE \E r \in Runs : Sync(r)
  BY <1>5 DEF Sync
<1>6. CASE Reconciliation
  BY <1>6, CheckEffect DEF Reconciliation, Local, Quiet
<1> QED
  BY <1>1, <1>2, <1>3, <1>4, <1>5, <1>6 DEF Next

LEMMA LocalEffect ==
  ASSUME Inv, Local
  PROVE  /\ LocalWrite /\ UNCHANGED <<app, clock, run>>
         /\ cursor' = cursor \/ cursor' = Never
         /\ (rec' = rec /\ known' = known) \/ (rec.held /\ rec'.upd = clock)
         /\ \/ known' = known
            \/ dec.pc = "done" /\ known' = dec.at
            \/ check.pc = "fetched" /\ known' = check.got.at
PROOF
<1>1. CASE CommitDecision
  BY <1>1, CommitEffect DEF Inv, DecisionInv
<1>2. CASE PersistRefusal
  BY <1>2, RefusalEffect DEF LocalWrite
<1>3. CASE RevertApprovalAttempt
  BY <1>3, RevertEffect DEF LocalWrite
<1>4. CASE DisconnectAndPurge
  BY <1>4, PurgeEffect DEF LocalWrite
<1>5. CASE Reconcile
  <2>1. /\ LocalWrite /\ check.pc = "fetched"
        /\ UNCHANGED <<app, clock, cursor, run>>
    BY <1>5, ReconcileEffect
  <2>2. CASE Transitions
    <3>1. rec'.status # rec.status
      BY <2>2 DEF Transitions, StillAsLoaded
    <3> QED
      BY <2>1, <2>2, <3>1 DEF LocalWrite, Transitions
  <2>3. CASE known' = known
    BY <2>1, <2>3 DEF LocalWrite
  <2> QED
    BY <1>5, <2>1, <2>2, <2>3, ReconcileEffect
<1> QED
  BY <1>1, <1>2, <1>3, <1>4, <1>5 DEF Local

\* The effect of a sync's step on the row and on its own run.
LEMMA AppliedEffect ==
  ASSUME Inv, NEW r \in Runs, run[r].pc = "loaded", Applied(r)
  PROVE  /\ rec' \in Rows /\ rec'.held /\ rec'.hash = run[r].got.at
         /\ rec'.src = run[r].got.mod /\ rec'.upd = clock
         /\ rec'.archived => run[r].got.status = "deleted"
         /\ rec'.seq = rec.seq /\ known' = run[r].got.at
         /\ rec'.status = Persisted(run[r].row, run[r].got)
         /\ rec'.failed = IF rec'.status = "xero_sync_failed" THEN rec.failed
                                                              ELSE "none"
         /\ run[r].got.status # "absent"
         /\ rec.upd <= run[r].started /\ (rec.held => ~Busy)
         /\ Loaded(rec) = run[r].row
PROOF
<1>1. /\ run[r].got \in Snapshots /\ run[r].row \in LoadedRows
      /\ run[r].started \in Nat /\ run[r].got.status # "absent"
  BY RunValues DEF Inv, Locals, SnapshotInv, AtWork
<1>2. /\ rec' \in Rows /\ rec'.held /\ rec'.hash = run[r].got.at
      /\ rec'.src = run[r].got.mod /\ rec'.upd = clock
      /\ rec'.archived => run[r].got.status = "deleted"
      /\ rec'.seq = rec.seq /\ known' = run[r].got.at
      /\ rec'.status = Persisted(run[r].row, run[r].got)
      /\ rec'.failed = IF rec'.status = "xero_sync_failed" THEN rec.failed
                                                           ELSE "none"
  BY <1>1, WrittenTyped DEF Inv, Applied
<1>3. rec.upd <= run[r].started /\ (rec.held => ~Busy)
  <2>1. CASE ~rec.held
    BY <1>1, <2>1 DEF Inv, RecordInv
  <2>2. CASE rec.held
    BY <2>2 DEF Applied, Unchanged
  <2> QED
    BY <2>1, <2>2
<1>4. Loaded(rec) = run[r].row
  BY <1>3 DEF Inv, LoadInv
<1> QED
  BY <1>1, <1>2, <1>3, <1>4

-----------------------------------------------------------------------------
(* Types *)

LEMMA UsedStep == ASSUME TypeOK, Next PROVE LinkTyped'
PROOF
<1>1. LinkTyped
  BY TypeParts
<1>2. ASSUME Event
      PROVE  used' \in [starts : 0 .. MaxStarts, events : 0 .. MaxEvents]
  BY <1>1, <1>2, BoundAssumption DEF Event, LinkTyped
<1>3. ASSUME NEW r \in Runs, Start(r)
      PROVE  used' \in [starts : 0 .. MaxStarts, events : 0 .. MaxEvents]
  BY <1>1, <1>3, BoundAssumption DEF Start, LinkTyped
<1>4. CASE EditInXero \/ DisconnectAndPurge \/ Reconnect
  BY <1>1, <1>2, <1>4 DEF EditInXero, DisconnectAndPurge, Reconnect, LinkTyped, linkVars
<1>5. CASE Decision
  BY <1>1, <1>2, <1>5 DEF Decision, Decide, XeroAccepts, XeroRefuses, CommitDecision,
     PersistRefusal, RevertApprovalAttempt, LinkTyped, linkVars
<1>6. CASE \E r \in Runs : Sync(r)
  BY <1>1, <1>3, <1>6 DEF Sync, Start, Acquire, Fetch, LoadExisting,
     ProcessLeaveRecord, RecordFailure, Finalise, Stop, LinkTyped, linkVars
<1>7. CASE Reconciliation
  BY <1>1, <1>2, <1>7 DEF Reconciliation, LoadForCheck, FetchStatus, Reconcile,
     AbandonCheck, LinkTyped, linkVars
<1> QED
  BY <1>4, <1>5, <1>6, <1>7 DEF Next

LEMMA LeaseStep == ASSUME TypeOK, Next PROVE lease' \in Runs \cup {NoRun}
PROOF
<1>1. lease \in Runs \cup {NoRun}
  BY TypeParts DEF SyncTyped
<1>2. CASE EditInXero \/ DisconnectAndPurge \/ Reconnect
  BY <1>1, <1>2 DEF EditInXero, DisconnectAndPurge, Reconnect
<1>3. CASE Decision
  BY <1>1, <1>3 DEF Decision, Decide, XeroAccepts, XeroRefuses, CommitDecision,
     PersistRefusal, RevertApprovalAttempt
<1>4. CASE \E r \in Runs : Sync(r)
  BY <1>1, <1>4 DEF Sync, Start, Acquire, Fetch, LoadExisting, ProcessLeaveRecord,
     RecordFailure, Finalise, Stop
<1>5. CASE Reconciliation
  BY <1>1, <1>5 DEF Reconciliation, LoadForCheck, FetchStatus, Reconcile, AbandonCheck
<1> QED
  BY <1>2, <1>3, <1>4, <1>5 DEF Next

LEMMA DecisionTyped == ASSUME Inv, Next PROVE dec' \in Decisions
PROOF
<1>1. dec \in Decisions /\ TypeOK
  BY TypeParts DEF Inv
<1>2. CASE EditInXero \/ DisconnectAndPurge \/ Reconnect
  BY <1>1, <1>2 DEF EditInXero, DisconnectAndPurge, Reconnect
<1>3. CASE Decision
  BY <1>1, <1>3, AcceptEffect, SendEffect, RefuseEffect, CommitEffect, RefusalEffect,
     RevertEffect, IdleTyped DEF Decision
<1>4. CASE \E r \in Runs : Sync(r)
  BY <1>1, <1>4 DEF Sync, Start, Acquire, Fetch, LoadExisting, ProcessLeaveRecord,
     RecordFailure, Finalise, Stop
<1>5. CASE Reconciliation
  BY <1>1, <1>5 DEF Reconciliation, LoadForCheck, FetchStatus, Reconcile, AbandonCheck
<1> QED
  BY <1>2, <1>3, <1>4, <1>5 DEF Next

LEMMA CheckTyped == ASSUME Inv, Next PROVE check' \in Checks
PROOF
<1>1. check \in Checks /\ TypeOK
  BY TypeParts DEF Inv
<1>2. CASE EditInXero \/ DisconnectAndPurge \/ Reconnect
  BY <1>1, <1>2 DEF EditInXero, DisconnectAndPurge, Reconnect
<1>3. CASE Decision
  BY <1>1, <1>3 DEF Decision, Decide, XeroAccepts, XeroRefuses, CommitDecision,
     PersistRefusal, RevertApprovalAttempt
<1>4. CASE \E r \in Runs : Sync(r)
  BY <1>1, <1>4 DEF Sync, Start, Acquire, Fetch, LoadExisting, ProcessLeaveRecord,
     RecordFailure, Finalise, Stop
<1>5. CASE Reconciliation
  BY <1>1, <1>5, CheckEffect, ReconcileEffect, IdleTyped DEF Reconciliation
<1> QED
  BY <1>2, <1>3, <1>4, <1>5 DEF Next

LEMMA XeroSyncTyped ==
  ASSUME Inv, Next
  PROVE  /\ app' \in Snapshots /\ clock' \in Nat /\ known' \in Nat
         /\ cursor' \in Nat \cup {Never} /\ run' \in [Runs -> Locals]
PROOF
<1>1. /\ app \in Snapshots /\ clock \in Nat /\ known \in Nat
      /\ cursor \in Nat \cup {Never} /\ run \in [Runs -> Locals] /\ TypeOK
      /\ clock + 1 \in Nat /\ dec.at \in Nat /\ check.got.at \in Nat
  BY TypeParts, Values DEF Inv, XeroTyped, SyncTyped
<1>2. CASE XeroMoves
  BY <1>1, <1>2 DEF XeroMoves
<1>3. CASE Quiet
  BY <1>1, <1>3 DEF Quiet
<1>4. CASE Local
  BY <1>1, <1>4, LocalEffect
<1>5. ASSUME NEW r \in Runs, Start(r) \/ Acquire(r) \/ LoadExisting(r) \/ Stop(r)
      PROVE  /\ app' \in Snapshots /\ clock' \in Nat /\ known' \in Nat
             /\ cursor' \in Nat \cup {Never} /\ run' \in [Runs -> Locals]
  BY <1>1, <1>5, StartEffect, AcquireEffect, LoadEffect, StopEffect DEF Moves
<1>6. ASSUME NEW r \in Runs, Fetch(r)
      PROVE  /\ app' \in Snapshots /\ clock' \in Nat /\ known' \in Nat
             /\ cursor' \in Nat \cup {Never} /\ run' \in [Runs -> Locals]
  BY <1>1, <1>6, FetchEffect DEF Moves
<1>7. ASSUME NEW r \in Runs, ProcessLeaveRecord(r) \/ RecordFailure(r)
      PROVE  /\ app' \in Snapshots /\ clock' \in Nat /\ known' \in Nat
             /\ cursor' \in Nat \cup {Never} /\ run' \in [Runs -> Locals]
  BY <1>1, <1>7, ProcessEffect, RunValues DEF Applied, Known, Deals, Moves
<1>8. ASSUME NEW r \in Runs, Finalise(r)
      PROVE  /\ app' \in Snapshots /\ clock' \in Nat /\ known' \in Nat
             /\ cursor' \in Nat \cup {Never} /\ run' \in [Runs -> Locals]
  BY <1>1, <1>8, FinaliseEffect, RunValues DEF Moves
<1> QED
  BY <1>2, <1>3, <1>4, <1>5, <1>6, <1>7, <1>8, StepKinds

\* A failure keeps the decision that failed.
LEMMA RowStep == ASSUME Inv, Next PROVE rec' \in Rows /\ FailureExplained'
PROOF
<1>1. rec \in Rows /\ FailureExplained /\ TypeOK
  BY TypeParts DEF Inv
<1>2. ASSUME rec' = rec PROVE rec' \in Rows /\ FailureExplained'
  BY <1>1, <1>2 DEF FailureExplained
<1>3. ASSUME rec' \in Rows, rec'.status = rec.status, rec'.failed = rec.failed
      PROVE  rec' \in Rows /\ FailureExplained'
  BY <1>1, <1>3 DEF FailureExplained
<1>4. CASE XeroMoves \/ Quiet
  BY <1>2, <1>4 DEF XeroMoves, Quiet
<1>5. CASE CommitDecision
  BY <1>5, CommitEffect DEF LocalWrite, FailureExplained, Decided, Actions
<1>6. CASE PersistRefusal
  <2>1. rec.status = "approved" => dec.act = "withdraw"
    BY <1>6, RefusalEffect DEF Inv, DecisionInv
  <2> QED
    BY <1>6, <2>1, RefusalEffect DEF LocalWrite, FailureExplained, Actions
<1>7. CASE RevertApprovalAttempt
  BY <1>7, RevertEffect DEF LocalWrite, FailureExplained
<1>8. CASE DisconnectAndPurge
  BY <1>3, <1>8, PurgeEffect DEF LocalWrite
<1>9. CASE Reconcile
  <2>1. CASE Transitions
    <3>1. check.row \in CheckedRows /\ check.got \in Snapshots
      BY TypeParts DEF Inv, Checks
    <3>2. rec'.status \in {"approved", "declined", "withdrawn"}
      BY <2>1, <3>1, ReconciledTo DEF Transitions
    <3> QED
      BY <1>9, <2>1, <3>2, ReconcileEffect DEF Transitions, LocalWrite, FailureExplained
  <2>2. CASE ~Transitions
    BY <1>3, <1>9, <2>2, ReconcileEffect DEF LocalWrite
  <2> QED
    BY <2>1, <2>2
<1>10. ASSUME NEW r \in Runs,
              Start(r) \/ Acquire(r) \/ Fetch(r) \/ LoadExisting(r) \/ Stop(r)
       PROVE  rec' \in Rows /\ FailureExplained'
  BY <1>1, <1>2, <1>10, StartEffect, AcquireEffect, FetchEffect, LoadEffect, StopEffect
<1>11. ASSUME NEW r \in Runs, Finalise(r) PROVE rec' \in Rows /\ FailureExplained'
  BY <1>3, <1>11, FinaliseEffect DEF LocalWrite
<1>12. ASSUME NEW r \in Runs, ProcessLeaveRecord(r) \/ RecordFailure(r)
       PROVE  rec' \in Rows /\ FailureExplained'
  <2>1. CASE Applied(r)
    <3>1. run[r].pc = "loaded"
      BY <1>1, <1>12, ProcessEffect
    <3>2. /\ rec' \in Rows
          /\ rec'.status = Persisted(run[r].row, run[r].got)
          /\ rec'.failed = IF rec'.status = "xero_sync_failed" THEN rec.failed
                                                               ELSE "none"
          /\ run[r].got.status # "absent" /\ Loaded(rec) = run[r].row
      BY <2>1, <3>1, AppliedEffect
    <3>3. run[r].got.status \in AppStatuses \ {"absent"}
      BY <1>1, <3>2, RunValues
    <3>4. CASE rec'.status = "xero_sync_failed"
      <4>1. run[r].row.status = "xero_sync_failed"
        BY <3>2, <3>3, <3>4 DEF Persisted, Reported, AppStatuses
      <4>2. rec.status = "xero_sync_failed"
        BY <3>2, <4>1 DEF Loaded
      <4> QED
        BY <1>1, <3>2, <3>4, <4>2 DEF FailureExplained
    <3>5. CASE rec'.status # "xero_sync_failed"
      BY <3>2, <3>5 DEF FailureExplained
    <3> QED
      BY <3>4, <3>5
  <2>2. CASE rec' = rec
    BY <1>2, <2>2
  <2> QED
    BY <1>1, <1>12, <2>1, <2>2, ProcessEffect DEF Known
<1> QED
  BY <1>4, <1>5, <1>6, <1>7, <1>8, <1>9, <1>10, <1>11, <1>12, StepKinds DEF Local

LEMMA TypeStep == ASSUME Inv, Next PROVE TypeOK'
PROOF
<1>1. TypeOK' <=> /\ XeroTyped' /\ SyncTyped' /\ LinkTyped'
                  /\ rec' \in Rows /\ FailureExplained'
                  /\ dec' \in Decisions /\ check' \in Checks
  BY DEF TypeOK, XeroTyped, SyncTyped, LinkTyped, Locals, Decisions, Checks, Pcs, Times
<1>2. XeroTyped' /\ SyncTyped'
  BY XeroSyncTyped, LeaseStep DEF Inv, XeroTyped, SyncTyped
<1> QED
  BY <1>1, <1>2, UsedStep, RowStep, DecisionTyped, CheckTyped DEF Inv

-----------------------------------------------------------------------------
(* The clocks and the row *)

LEMMA ClockStep == ASSUME Inv, Next PROVE ClockInv'
PROOF
<1>1. /\ TypeOK /\ ClockInv
      /\ app.at \in Nat /\ clock \in Nat /\ known \in Nat
      /\ cursor \in Nat \/ cursor = Never
      /\ rec.upd \in Nat /\ Skew \in Nat /\ Never <= clock
  BY Values, ConstantFacts DEF Inv
<1>2. CASE XeroMoves
  <2>1. /\ app'.at = clock + 1 /\ app'.mod = clock + 1 - Skew
        /\ clock' = clock + 1 /\ UNCHANGED <<rec, known, cursor>>
    BY <1>2 DEF XeroMoves
  <2>2. /\ clock >= Began /\ known <= app.at /\ app.at <= clock
        /\ cursor <= clock /\ rec.upd <= clock
    BY <1>1 DEF ClockInv
  <2>3. cursor <= clock + 1
    BY <1>1, <2>2 DEF Never
  <2>4. /\ clock' >= Began /\ known' <= app'.at /\ app'.at <= clock'
        /\ app'.mod = app'.at - Skew
    BY <1>1, <2>1, <2>2, ConstantFacts
  <2>5. cursor' <= clock' /\ rec'.upd <= clock'
    BY <1>1, <2>1, <2>2, <2>3
  <2> QED
    BY <2>4, <2>5 DEF ClockInv
<1>3. ASSUME UNCHANGED <<app, rec, known, cursor>>, clock' \in {clock, clock + 1}
      PROVE  ClockInv'
  BY <1>1, <1>3, ConstantFacts DEF ClockInv, Present, Never
<1>4. CASE Local
  <2>1. known' <= app.at
    BY <1>1, <1>4, LocalEffect DEF ClockInv, Inv, DecisionInv, CheckInv, Past
  <2>2. rec'.upd <= clock
    BY <1>1, <1>4, LocalEffect DEF ClockInv
  <2> QED
    BY <1>1, <1>4, <2>1, <2>2, LocalEffect DEF ClockInv, Present
<1>5. ASSUME NEW r \in Runs,
             Start(r) \/ Acquire(r) \/ Fetch(r) \/ LoadExisting(r) \/ Stop(r)
      PROVE  UNCHANGED <<app, rec, known, cursor>> /\ clock' \in {clock, clock + 1}
  BY <1>1, <1>5, StartEffect, AcquireEffect, FetchEffect, LoadEffect, StopEffect
<1>6. ASSUME NEW r \in Runs, ProcessLeaveRecord(r) \/ RecordFailure(r)
      PROVE  ClockInv'
  <2>1. run[r].pc = "loaded" /\ UNCHANGED <<app, clock, cursor>>
    BY <1>1, <1>6, ProcessEffect
  <2>2. CASE Applied(r)
    <3>1. rec'.upd = clock /\ known' = run[r].got.at
      BY <2>1, <2>2, AppliedEffect
    <3>2. known' <= app.at
      BY <2>1, <3>1 DEF Inv, SnapshotInv, AtWork, Past
    <3> QED
      BY <1>1, <2>1, <3>1, <3>2 DEF ClockInv, Present
  <2> QED
    BY <1>1, <1>3, <1>6, <2>1, <2>2, ProcessEffect DEF Known
<1>7. ASSUME NEW r \in Runs, Finalise(r) PROVE ClockInv'
  <2>1. /\ UNCHANGED <<app, clock, known>> /\ LocalWrite
        /\ cursor' = cursor \/ (run[r].pc = "finalising" /\ cursor' = run[r].started)
    BY <1>7, FinaliseEffect
  <2>2. cursor' <= clock /\ rec'.upd <= clock
    BY <1>1, <2>1, RunValues DEF ClockInv, LocalWrite, Inv, SnapshotInv
  <2> QED
    BY <1>1, <2>1, <2>2 DEF ClockInv, Present
<1>8. CASE Quiet
  BY <1>3, <1>8 DEF Quiet
<1> QED
  BY <1>2, <1>3, <1>4, <1>5, <1>6, <1>7, <1>8, StepKinds

LEMMA RecordStep == ASSUME Inv, Next PROVE RecordInv'
PROOF
<1>1. /\ TypeOK /\ ClockInv /\ RecordInv
      /\ app.at \in Nat /\ clock \in Nat /\ rec.upd \in Nat
      /\ rec.hash \in Nat \/ rec.hash = Never
      /\ app.at <= clock
  BY Values DEF Inv, ClockInv
<1>2. ASSUME UNCHANGED <<app, rec, purged>> PROVE RecordInv'
  BY <1>1, <1>2 DEF RecordInv, Gone
<1>3. CASE XeroMoves
  <2>1. app'.at = clock + 1 /\ UNCHANGED <<rec, purged>> /\ (app = Nothing \/ Present)
    BY <1>3 DEF XeroMoves
  <2>2. app' # Nothing
    BY <1>1, <2>1 DEF Nothing
  <2>3. rec.archived /\ ~purged => Gone'
    BY <1>1, <1>3 DEF RecordInv, XeroMoves, Gone, Later, Present
  <2>4. rec.hash # Never => rec.hash <= app'.at
    BY <1>1, <2>1 DEF RecordInv
  <2> QED
    BY <1>1, <2>1, <2>2, <2>3, <2>4 DEF RecordInv
<1>4. ASSUME LocalWrite, app' = app,
             rec'.archived /\ ~purged' => Gone
      PROVE  RecordInv'
  <2>1. CASE rec' = rec
    BY <1>1, <1>4, <2>1 DEF RecordInv, Gone
  <2>2. CASE rec.held
    BY <1>1, <1>4, <2>2 DEF RecordInv, LocalWrite, Gone
  <2> QED
    BY <1>4, <2>1, <2>2 DEF LocalWrite
<1>5. CASE Local
  <2>1. CASE CommitDecision \/ PersistRefusal \/ RevertApprovalAttempt
    <3>1. rec'.archived = rec.archived /\ purged' = purged /\ app' = app /\ LocalWrite
      BY <2>1, CommitEffect, RefusalEffect, RevertEffect
    <3> QED
      BY <1>1, <1>4, <3>1 DEF RecordInv
  <2>2. CASE DisconnectAndPurge
    BY <1>4, <2>2, PurgeEffect
  <2>3. CASE Reconcile
    <3>1. /\ purged' = purged /\ app' = app /\ LocalWrite
          /\ rec'.archived => \/ rec.archived
                              \/ check.pc = "fetched" /\ check.got.status = "absent"
      BY <2>3, ReconcileEffect DEF Transitions
    <3>2. rec'.archived /\ ~purged' => Gone
      BY <1>1, <3>1 DEF RecordInv, Inv, CheckInv, Present, Gone
    <3> QED
      BY <1>4, <3>1, <3>2
  <2> QED
    BY <1>5, <2>1, <2>2, <2>3 DEF Local
<1>6. ASSUME NEW r \in Runs, Finalise(r) PROVE RecordInv'
  <2>1. rec'.archived /\ ~purged' => Gone
    BY <1>1, <1>6, FinaliseEffect DEF RecordInv, Inv, MissingInv, Present, Gone
  <2> QED
    BY <1>4, <1>6, <2>1, FinaliseEffect
<1>7. ASSUME NEW r \in Runs, ProcessLeaveRecord(r) \/ RecordFailure(r)
      PROVE  RecordInv'
  <2>1. run[r].pc = "loaded" /\ UNCHANGED <<app, purged>>
    BY <1>1, <1>7, ProcessEffect
  <2>2. CASE Applied(r)
    <3>1. /\ rec'.held /\ rec'.hash = run[r].got.at /\ rec'.src = run[r].got.mod
          /\ rec'.archived => run[r].got.status = "deleted"
      BY <2>1, <2>2, AppliedEffect
    <3>2. /\ run[r].got.at \in Nat /\ run[r].got.status # "absent"
          /\ run[r].got.mod = run[r].got.at - Skew
          /\ run[r].got.at <= app.at
          /\ run[r].got.at = app.at => run[r].got = app
      BY <1>1, <2>1, RunValues DEF Inv, SnapshotInv, AtWork, Past
    <3>3. app # Nothing
      BY <1>1, <3>2 DEF Nothing
    <3>4. run[r].got.at # Never
      BY <3>2, ConstantFacts
    <3>5. run[r].got.status = "deleted" => Gone
      BY <2>1 DEF Inv, SnapshotInv, AtWork, Past, Later, Gone
    <3> QED
      BY <2>1, <3>1, <3>2, <3>3, <3>4, <3>5 DEF RecordInv, Gone
  <2>3. CASE rec' = rec
    BY <1>2, <2>1, <2>3
  <2> QED
    BY <1>1, <1>7, <2>2, <2>3, ProcessEffect DEF Known
<1>8. ASSUME NEW r \in Runs,
             Start(r) \/ Acquire(r) \/ Fetch(r) \/ LoadExisting(r) \/ Stop(r)
      PROVE  RecordInv'
  BY <1>1, <1>2, <1>8, StartEffect, AcquireEffect, FetchEffect, LoadEffect, StopEffect
<1> QED
  BY <1>2, <1>3, <1>5, <1>6, <1>7, <1>8, StepKinds DEF Quiet

-----------------------------------------------------------------------------
(* The decision *)

LEMMA DecisionKinds ==
  ASSUME Inv, Next
  PROVE  \/ dec' = dec
         \/ XeroAccepts \/ XeroRefuses \/ CommitDecision \/ PersistRefusal
         \/ \E a \in Offered : Decide(a)
PROOF
<1>1. CASE EditInXero \/ DisconnectAndPurge \/ Reconnect
  BY <1>1 DEF EditInXero, DisconnectAndPurge, Reconnect
<1>2. CASE Decision
  BY <1>2 DEF Decision, RevertApprovalAttempt
<1>3. CASE \E r \in Runs : Sync(r)
  BY <1>3 DEF Sync, Start, Acquire, Fetch, LoadExisting, ProcessLeaveRecord,
     RecordFailure, Finalise, Stop
<1>4. CASE Reconciliation
  BY <1>4 DEF Reconciliation, LoadForCheck, FetchStatus, Reconcile, AbandonCheck
<1> QED
  BY <1>1, <1>2, <1>3, <1>4 DEF Next

\* Nothing but the decision itself writes a record it holds.
LEMMA HeldWhileBusy ==
  ASSUME Inv, Next, Busy, dec' = dec
  PROVE  rec' = rec /\ known' = known
PROOF
<1>1. TypeOK /\ rec.held /\ dec.pc # "idle" /\ IdleDecision.pc = "idle"
  BY DEF Inv, DecisionInv, Busy, IdleDecision
<1>2. CASE XeroMoves \/ Quiet
  BY <1>2 DEF XeroMoves, Quiet
<1>3. CASE Local
  <2>1. ~CommitDecision /\ ~PersistRefusal
    BY <1>1, CommitEffect, RefusalEffect
  <2>2. ~RevertApprovalAttempt /\ ~DisconnectAndPurge
    BY DEF RevertApprovalAttempt, DisconnectAndPurge
  <2>3. Reconcile
    BY <1>3, <2>1, <2>2 DEF Local
  <2> QED
    BY <2>3, ReconcileEffect DEF Transitions, StillAsLoaded
<1>4. ASSUME NEW r \in Runs, Finalise(r) PROVE rec' = rec /\ known' = known
  BY <1>4, FinaliseEffect
<1>5. ASSUME NEW r \in Runs, ProcessLeaveRecord(r) \/ RecordFailure(r)
      PROVE  rec' = rec /\ known' = known
  BY <1>1, <1>5, ProcessEffect, AppliedEffect DEF Known
<1>6. ASSUME NEW r \in Runs,
             Start(r) \/ Acquire(r) \/ Fetch(r) \/ LoadExisting(r) \/ Stop(r)
      PROVE  rec' = rec /\ known' = known
  BY <1>1, <1>6, StartEffect, AcquireEffect, FetchEffect, LoadEffect, StopEffect
<1> QED
  BY <1>2, <1>3, <1>4, <1>5, <1>6, StepKinds

\* The application only moves on.
LEMMA AppKinds ==
  ASSUME Inv, Next
  PROVE  XeroMoves \/ (app' = app /\ clock' \in {clock, clock + 1})
PROOF
<1>1. TypeOK
  BY DEF Inv
<1>2. ASSUME NEW r \in Runs,
             \/ Start(r) \/ Acquire(r) \/ Fetch(r) \/ LoadExisting(r)
             \/ ProcessLeaveRecord(r) \/ RecordFailure(r)
             \/ Finalise(r) \/ Stop(r)
      PROVE  app' = app /\ clock' \in {clock, clock + 1}
  BY <1>1, <1>2, StartEffect, AcquireEffect, FetchEffect, LoadEffect, ProcessEffect,
     FinaliseEffect, StopEffect
<1> QED
  BY <1>2, StepKinds, LocalEffect DEF Quiet

LEMMA DecisionStep == ASSUME Inv, Next PROVE DecisionInv'
PROOF
<1>1. /\ TypeOK /\ DecisionInv /\ app.at \in Nat /\ clock \in Nat /\ known \in Nat
      /\ dec.at \in Nat /\ known <= app.at /\ app.at <= clock
      /\ IdleDecision.pc = "idle"
  BY Values DEF Inv, ClockInv, IdleDecision
<1>2. CASE dec' = dec
  <2>1. CASE ~Busy
    BY <1>2, <2>1 DEF Busy, DecisionInv
  <2>2. CASE Busy
    <3>1. rec' = rec /\ known' = known
      BY <1>2, <2>2, HeldWhileBusy
    <3>2. \/ app' = app
          \/ app'.at = clock + 1
      BY AppKinds DEF XeroMoves
    <3>3. dec.pc = "done" => /\ dec.at <= app'.at
                             /\ app'.at = dec.at => app'.status = Decides(dec.act)
      BY <1>1, <3>2 DEF DecisionInv
    <3> QED
      BY <1>1, <1>2, <3>1, <3>3 DEF DecisionInv, Decides
  <2> QED
    BY <2>1, <2>2
<1>3. CASE XeroAccepts
  <2>1. /\ dec.pc = "sent" /\ dec'.pc = "done"
        /\ dec'.at = clock + 1 /\ dec'.act = dec.act /\ dec'.was = dec.was
        /\ app'.status = Decides(dec.act)
        /\ app'.at = clock + 1 /\ UNCHANGED <<rec, known>>
    BY <1>3, AcceptEffect DEF XeroMoves
  <2>2. known' <= dec'.at /\ dec'.at <= app'.at
    BY <1>1, <2>1
  <2> QED
    BY <1>1, <2>1, <2>2 DEF DecisionInv, Decides
<1>4. CASE XeroRefuses
  BY <1>1, <1>4, RefuseEffect DEF DecisionInv
<1>5. CASE CommitDecision \/ PersistRefusal
  BY <1>1, <1>5, CommitEffect, RefusalEffect DEF DecisionInv
<1>6. ASSUME NEW a \in Offered, Decide(a) PROVE DecisionInv'
  BY <1>6, SendEffect DEF DecisionInv, Awaits, Actions
<1> QED
  BY <1>2, <1>3, <1>4, <1>5, <1>6, DecisionKinds

-----------------------------------------------------------------------------
(* What is read, against what it was read of *)

LEMMA RunKinds ==
  ASSUME Inv, Next, NEW r \in Runs
  PROVE  \/ run'[r] = run[r]
         \/ run'[r].pc = "idle"
         \/ Start(r) \/ Acquire(r) \/ Fetch(r) \/ LoadExisting(r)
         \/ ProcessLeaveRecord(r) \/ RecordFailure(r)
PROOF
<1>1. TypeOK
  BY DEF Inv
<1>2. ASSUME NEW q \in Runs, Moves(q), q # r PROVE run'[r] = run[r]
  BY <1>2 DEF Moves
<1>3. ASSUME NEW q \in Runs, Finalise(q) \/ Stop(q)
      PROVE  run'[r] = run[r] \/ run'[r].pc = "idle"
  BY <1>1, <1>2, <1>3, FinaliseEffect, StopEffect
<1>4. ASSUME NEW q \in Runs, q # r,
             \/ Start(q) \/ Acquire(q) \/ Fetch(q) \/ LoadExisting(q)
             \/ ProcessLeaveRecord(q) \/ RecordFailure(q)
      PROVE  run'[r] = run[r]
  <2>1. Moves(q)
    BY <1>1, <1>4, StartEffect, AcquireEffect, FetchEffect, LoadEffect, ProcessEffect
       DEF Applied, Known, Deals
  <2> QED
    BY <1>2, <1>4, <2>1
<1> QED
  BY <1>3, <1>4, StepKinds, LocalEffect DEF XeroMoves, Quiet

\* The row is left as it is, written by Team Calendar, or written by a sync.
LEMMA RowKinds ==
  ASSUME Inv, Next
  PROVE  \/ rec' = rec /\ known' = known
         \/ /\ rec.held /\ rec'.held /\ rec'.upd = clock /\ rec'.hash = rec.hash
            /\ UNCHANGED <<app, clock>>
         \/ \E q \in Runs : /\ run[q].pc = "loaded" /\ Applied(q)
                            /\ UNCHANGED <<app, clock, check, dec, cursor>>
PROOF
<1>1. TypeOK
  BY DEF Inv
<1>2. CASE Local
  BY <1>2, LocalEffect DEF LocalWrite
<1>3. ASSUME NEW q \in Runs, Finalise(q)
      PROVE  \/ rec' = rec /\ known' = known
             \/ /\ rec.held /\ rec'.held /\ rec'.upd = clock /\ rec'.hash = rec.hash
                /\ UNCHANGED <<app, clock>>
  BY <1>3, FinaliseEffect DEF LocalWrite
<1>4. ASSUME NEW q \in Runs, ProcessLeaveRecord(q) \/ RecordFailure(q)
      PROVE  \/ rec' = rec /\ known' = known
             \/ /\ run[q].pc = "loaded" /\ Applied(q)
                /\ UNCHANGED <<app, clock, check, dec, cursor>>
  BY <1>1, <1>4, ProcessEffect DEF Known
<1>5. ASSUME NEW q \in Runs,
             Start(q) \/ Acquire(q) \/ Fetch(q) \/ LoadExisting(q) \/ Stop(q)
      PROVE  rec' = rec /\ known' = known
  BY <1>1, <1>5, StartEffect, AcquireEffect, FetchEffect, LoadEffect, StopEffect
<1> QED
  BY <1>2, <1>3, <1>4, <1>5, StepKinds DEF XeroMoves, Quiet

LEMMA PastMoves ==
  ASSUME Inv, Next, NEW s \in Snapshots, Past(s)
  PROVE  /\ s.at <= app'.at
         /\ IF s.at = app'.at THEN s = app' ELSE app'.status \in Later[s.status]
PROOF
<1>1. /\ app \in Snapshots /\ app.at \in Nat /\ clock \in Nat /\ s.at \in Nat
      /\ app.at <= clock /\ s.status \in AppStatuses
  BY Values, TypeParts DEF Inv, ClockInv, XeroTyped, Snapshots, Times
<1>2. CASE app' = app
  BY <1>2 DEF Past
<1>3. CASE XeroMoves
  <2>1. /\ app'.at = clock + 1 /\ app'.status \in Later[app.status]
        /\ app = Nothing \/ Present
    BY <1>3 DEF XeroMoves
  <2>2. s.at <= app'.at /\ s.at # app'.at
    BY <1>1, <2>1 DEF Past
  <2>3. CASE s = app
    BY <2>1, <2>2, <2>3
  <2>4. CASE s # app
    <3>1. app.status \in Later[s.status]
      BY <2>4 DEF Past
    <3>2. app # Nothing
      BY <1>1, <2>4 DEF Past, Nothing
    <3>3. app.status \in AppStatuses \ {"absent"}
      BY <1>1, <2>1, <3>2 DEF Present, Snapshots
    <3>4. app'.status \in Later[s.status]
      <4>1. CASE s.status = "absent"
        BY <2>1, <3>3, <4>1 DEF Later, AppStatuses
      <4>2. CASE s.status = "requested"
        BY <2>1, <3>1, <3>3, <4>2 DEF Later, AppStatuses
      <4>3. CASE s.status = "scheduled"
        BY <2>1, <3>1, <3>3, <4>3 DEF Later, AppStatuses
      <4>4. CASE s.status \in {"rejected", "withdrawn", "deleted"}
        BY <2>1, <3>1, <3>3, <4>4 DEF Later, AppStatuses
      <4> QED
        BY <1>1, <4>1, <4>2, <4>3, <4>4 DEF AppStatuses
    <3> QED
      BY <2>2, <3>4
  <2> QED
    BY <2>3, <2>4
<1> QED
  BY <1>2, <1>3, AppKinds

LEMMA SnapshotStep == ASSUME Inv, Next PROVE SnapshotInv'
PROOF
<1>1. /\ TypeOK /\ SnapshotInv /\ clock \in Nat /\ app.at \in Nat /\ clock > 0
      /\ app.at <= clock /\ app \in Snapshots
  BY Values, TypeParts, ConstantFacts DEF Inv, ClockInv, XeroTyped
<1>2. clock' \in {clock, clock + 1}
  BY AppKinds DEF XeroMoves
<1> SUFFICES ASSUME NEW r \in Runs
             PROVE  /\ run'[r].pc # "idle" => run'[r].started <= clock'
                    /\ run'[r].pc \in {"fetched", "loaded", "finalising"} =>
                         run'[r].started < clock'
                    /\ AtWork(r)' =>
                         /\ run'[r].listed /\ run'[r].got.status # "absent"
                         /\ run'[r].got.mod = run'[r].got.at - Skew
                         /\ Past(run[r].got)'
                         /\ Present' /\ app'.at <= run'[r].started =>
                              run'[r].got = app'
  BY DEF SnapshotInv
<1>3. /\ run[r].started \in Nat /\ run[r].got \in Snapshots
  BY <1>1, RunValues
<1>4. ASSUME run'[r].got = run[r].got, run'[r].started = run[r].started,
             run'[r].listed = run[r].listed, AtWork(r)
      PROVE  /\ run'[r].listed /\ run'[r].got.status # "absent"
             /\ run'[r].got.mod = run'[r].got.at - Skew
             /\ Past(run[r].got)'
             /\ Present' /\ app'.at <= run'[r].started => run'[r].got = app'
             /\ run'[r].started < clock'
  <2>1. Past(run[r].got)'
    BY <1>3, <1>4, PastMoves DEF SnapshotInv, Inv, Past
  <2>2. run[r].started < clock /\ (Present /\ app.at <= run[r].started => run[r].got = app)
    BY <1>1, <1>4 DEF SnapshotInv, AtWork
  <2>3. Present' /\ app'.at <= run'[r].started => run'[r].got = app'
    <3>1. CASE app' = app
      BY <1>4, <2>2, <3>1 DEF Present
    <3>2. CASE XeroMoves
      <4>1. app'.at = clock + 1
        BY <3>2 DEF XeroMoves
      <4> QED
        BY <1>1, <1>3, <1>4, <2>2, <4>1
    <3> QED
      BY <3>1, <3>2, AppKinds
  <2>4. run'[r].started < clock'
    BY <1>1, <1>2, <1>3, <1>4, <2>2
  <2> QED
    BY <1>1, <1>4, <2>1, <2>3, <2>4 DEF SnapshotInv
<1>5. CASE run'[r] = run[r]
  <2>1. run[r].pc # "idle" => run'[r].started <= clock'
    BY <1>1, <1>2, <1>3, <1>5 DEF SnapshotInv
  <2>2. run[r].pc \in {"fetched", "loaded", "finalising"} =>
          run'[r].started < clock'
    BY <1>1, <1>2, <1>3, <1>5 DEF SnapshotInv
  <2> QED
    BY <1>4, <1>5, <2>1, <2>2 DEF AtWork
<1>6. CASE run'[r].pc = "idle"
  BY <1>6 DEF AtWork
<1>7. CASE Start(r)
  BY <1>1, <1>7, StartEffect DEF AtWork
<1>8. CASE Acquire(r)
  <2>1. run'[r].pc = "reading" /\ run'[r].started <= clock'
    BY <1>1, <1>8, AcquireEffect DEF Keeps, SnapshotInv
  <2> QED
    BY <2>1 DEF AtWork
<1>9. CASE Fetch(r)
  <2>1. /\ run[r].pc = "reading" /\ run'[r].started = run[r].started
        /\ clock' = clock + 1 /\ app' = app
        /\ \/ run'[r].pc = "finalising"
           \/ /\ run'[r].pc = "fetched" /\ run'[r].listed
              /\ run'[r].got = app /\ Present
    BY <1>1, <1>9, FetchEffect DEF Keeps
  <2>2. run'[r].started < clock' /\ run'[r].started <= clock'
    BY <1>1, <1>3, <2>1 DEF SnapshotInv
  <2>3. CASE run'[r].pc = "fetched"
    <3>1. app.mod = app.at - Skew /\ app.status # "absent"
      BY <2>1, <2>3 DEF Inv, ClockInv, Present
    <3>2. Past(run[r].got)'
      BY <1>1, <2>1, <2>3 DEF Past
    <3> QED
      BY <2>1, <2>2, <2>3, <3>1, <3>2 DEF AtWork
  <2> QED
    BY <2>1, <2>2, <2>3 DEF AtWork
<1>10. CASE LoadExisting(r)
  <2>1. /\ run[r].pc = "fetched" /\ run'[r].pc = "loaded"
        /\ run'[r].started = run[r].started /\ run'[r].got = run[r].got
        /\ run'[r].listed = run[r].listed
    BY <1>1, <1>10, LoadEffect DEF Keeps
  <2>2. run'[r].started < clock' /\ run'[r].started <= clock'
    BY <1>1, <1>2, <1>3, <2>1 DEF SnapshotInv
  <2> QED
    BY <1>4, <2>1, <2>2 DEF AtWork
<1>11. CASE ProcessLeaveRecord(r) \/ RecordFailure(r)
  <2>1. /\ run[r].pc = "loaded" /\ run'[r].pc = "finalising"
        /\ run'[r].started = run[r].started \/ run'[r].started = 0
    BY <1>1, <1>11, ProcessEffect DEF Applied, Known, Deals
  <2>2. run'[r].started < clock' /\ run'[r].started <= clock'
    BY <1>1, <1>2, <1>3, <2>1 DEF SnapshotInv
  <2> QED
    BY <2>1, <2>2 DEF AtWork
<1> QED
  BY <1>5, <1>6, <1>7, <1>8, <1>9, <1>10, <1>11, RunKinds

\* What a run that applies its snapshot has: the application's last version, if
\* the record has that already.
LEMMA AppliedIsLast ==
  ASSUME Inv, NEW q \in Runs, run[q].pc = "loaded", Applied(q), Present,
         rec.hash = app.at
  PROVE  run[q].got = app
PROOF
<1>1. /\ rec.upd <= run[q].started /\ AtWork(q) /\ Past(run[q].got)
      /\ run[q].got.at \in Nat /\ app.at \in Nat /\ rec.upd \in Nat
      /\ run[q].started \in Nat
  BY AppliedEffect, RunValues, Values DEF Inv, AtWork, SnapshotInv
<1>2. ~(run[q].got.at < app.at)
  BY <1>1 DEF Inv, VersionInv
<1> QED
  BY <1>1, <1>2 DEF Past

\* A version the record has stays until the application changes.
LEMMA HashKept ==
  ASSUME Inv, Next, Present, rec.hash = app.at, app' = app
  PROVE  rec'.hash = app.at
PROOF
<1>1. ASSUME NEW q \in Runs, run[q].pc = "loaded", Applied(q)
      PROVE  rec'.hash = app.at
  BY <1>1, AppliedIsLast, AppliedEffect
<1> QED
  BY <1>1, RowKinds

\* The application that changes gets a stamp nothing has.
LEMMA NewStamp ==
  ASSUME Inv, Next
  PROVE  \/ app' = app
         \/ /\ XeroMoves /\ app'.at = clock + 1 /\ rec'.hash # app'.at
            /\ cursor' = cursor /\ (cursor # Never => ~(app'.at <= cursor))
            /\ \A r \in Runs :
                 /\ run'[r] = run[r]
                 /\ run[r].pc # "idle" => ~(app'.at <= run[r].started)
PROOF
<1>1. /\ TypeOK /\ clock \in Nat /\ app.at \in Nat /\ app.at <= clock
      /\ cursor <= clock
      /\ cursor \in Nat \/ cursor = Never
      /\ rec.hash \in Nat \/ rec.hash = Never
      /\ rec.hash # Never => rec.hash <= app.at
  BY Values DEF Inv, ClockInv, RecordInv
<1>2. CASE XeroMoves
  <2>1. /\ app'.at = clock + 1 /\ UNCHANGED <<rec, cursor, run>>
    BY <1>2 DEF XeroMoves
  <2>2. rec'.hash # app'.at
    BY <1>1, <2>1, ConstantFacts
  <2>3. cursor # Never => ~(app'.at <= cursor)
    BY <1>1, <2>1
  <2>4. ASSUME NEW r \in Runs, run[r].pc # "idle"
        PROVE  ~(app'.at <= run[r].started)
    <3>1. run[r].started \in Nat /\ run[r].started <= clock
      BY <1>1, <2>4, RunValues DEF Inv, SnapshotInv
    <3> QED
      BY <1>1, <2>1, <3>1
  <2> QED
    BY <1>2, <2>1, <2>2, <2>3, <2>4
<1> QED
  BY <1>2, AppKinds

LEMMA LoadStep == ASSUME Inv, Next PROVE LoadInv'
PROOF
<1>1. /\ TypeOK /\ LoadInv /\ SnapshotInv /\ clock \in Nat /\ app.at \in Nat
      /\ known <= app.at /\ known \in Nat
      /\ rec.hash \in Nat \/ rec.hash = Never
  BY Values DEF Inv, ClockInv
<1> DEFINE First(r) ==
             AtWork(r) /\ rec.upd <= run[r].started => known <= run[r].got.at
           Second(r) ==
             run[r].pc = "loaded" =>
               /\ rec.upd <= run[r].started => run[r].row = Loaded(rec)
               /\ ~run[r].row.held => run[r].row.status = "submitted"
               /\ IF run[r].row.hash = Never THEN run[r].row.src = Never
                  ELSE /\ run[r].row.src = run[r].row.hash - Skew
                       /\ run[r].row.hash <= app.at
               /\ Present /\ run[r].row.hash = app.at => rec.hash = app.at
<1> SUFFICES ASSUME NEW r \in Runs PROVE First(r)' /\ Second(r)'
  BY DEF LoadInv
<1>2. First(r) /\ Second(r)
  BY <1>1 DEF LoadInv
<1>3. /\ run[r].started \in Nat
      /\ run[r].row.hash \in Nat \/ run[r].row.hash = Never
      /\ AtWork(r) => run[r].started < clock
  BY <1>1, RunValues DEF SnapshotInv, AtWork
<1>4. CASE run'[r] = run[r]
  <2>1. CASE rec' = rec /\ known' = known
    <3>1. First(r)'
      BY <1>2, <1>4, <2>1 DEF AtWork
    <3>2. run[r].pc = "loaded" =>
            /\ run[r].row.hash # Never => run[r].row.hash <= app'.at
            /\ Present' /\ run[r].row.hash = app'.at => rec.hash = app'.at
      <4>1. CASE app' = app
        BY <1>2, <4>1 DEF Present
      <4>2. CASE app'.at = clock + 1
        <5>1. app.at <= clock
          BY DEF Inv, ClockInv
        <5> QED
          BY <1>1, <1>2, <1>3, <4>2, <5>1, ConstantFacts
      <4> QED
        BY <4>1, <4>2, NewStamp
    <3> QED
      BY <1>2, <1>4, <2>1, <3>1, <3>2
  <2>2. CASE app' = app /\ rec'.upd = clock
    <3>1. AtWork(r) => ~(rec'.upd <= run'[r].started)
      BY <1>1, <1>3, <1>4, <2>2
    <3>2. First(r)'
      BY <1>4, <3>1 DEF AtWork
    <3>3. run[r].pc = "loaded" /\ Present' /\ run[r].row.hash = app'.at
            => rec'.hash = app'.at
      BY <1>2, <2>2, HashKept DEF Present
    <3> QED
      BY <1>2, <1>4, <2>2, <3>1, <3>2, <3>3 DEF AtWork
  <2> QED
    BY <2>1, <2>2, RowKinds, AppliedEffect
<1>5. CASE Fetch(r)
  <2>1. /\ known' = known
        /\ \/ run'[r].pc = "finalising"
           \/ run'[r].pc = "fetched" /\ run'[r].got = app
    BY <1>1, <1>5, FetchEffect
  <2> QED
    BY <1>1, <2>1 DEF AtWork
<1>6. CASE LoadExisting(r)
  <2>1. /\ run[r].pc = "fetched" /\ run'[r].pc = "loaded"
        /\ run'[r].started = run[r].started /\ run'[r].got = run[r].got
        /\ run'[r].row = Loaded(rec) /\ UNCHANGED <<app, rec, known>>
    BY <1>1, <1>6, LoadEffect DEF Keeps
  <2>2. First(r)'
    BY <1>2, <2>1 DEF AtWork
  <2>3. /\ run'[r].row.held = rec.held /\ run'[r].row.status = rec.status
        /\ run'[r].row.src = rec.src /\ run'[r].row.hash = rec.hash
    BY <2>1 DEF Loaded
  <2> QED
    BY <2>1, <2>2, <2>3 DEF Inv, RecordInv
<1>7. CASE run'[r].pc \in {"idle", "started", "reading", "finalising"}
  BY <1>7 DEF AtWork
<1> QED
  BY <1>1, <1>4, <1>5, <1>6, <1>7, RunKinds, StartEffect, AcquireEffect, ProcessEffect
     DEF Applied, Known, Deals

-----------------------------------------------------------------------------
(* A record with the last version agrees *)

LEMMA AgreesKept ==
  ASSUME Inv, Local, Present, rec.hash = app.at
  PROVE  Agrees'
PROOF
<1>1. /\ Agrees /\ dec.pc # "done" /\ app' = app
      /\ app.status \in AppStatuses \ {"absent"}
  BY Values, LocalEffect DEF Inv, VersionInv, Present
<1>2. CASE CommitDecision
  BY <1>1, <1>2, CommitEffect
<1>3. CASE PersistRefusal
  <2>1. /\ rec'.status = IF rec.status = "approved" THEN "approved"
                         ELSE "xero_sync_failed"
        /\ rec'.failed = dec.act
        /\ \/ rec.status = "submitted"
           \/ rec.status = "xero_sync_failed" /\ rec.failed = dec.act
           \/ rec.status = "approved" /\ dec.act = "withdraw"
    BY <1>3, RefusalEffect DEF Inv, DecisionInv
  <2>2. CASE app.status = "requested"
    BY <1>1, <2>1, <2>2 DEF Agrees
  <2>3. CASE app.status = "scheduled"
    BY <1>1, <2>1, <2>3 DEF Agrees
  <2>4. CASE app.status \in {"rejected", "withdrawn", "deleted"}
    BY <1>1, <2>1, <2>4 DEF Agrees
  <2> QED
    BY <1>1, <2>2, <2>3, <2>4 DEF AppStatuses
<1>4. CASE RevertApprovalAttempt
  <2>1. /\ rec.status = "xero_sync_failed" /\ rec.failed \in {"approve", "decline"}
        /\ rec'.status = "submitted"
    BY <1>4, RevertEffect
  <2>2. app.status = "requested"
    BY <1>1, <2>1 DEF Agrees, AppStatuses
  <2> QED
    BY <1>1, <2>1, <2>2 DEF Agrees
<1>5. ASSUME rec'.status = rec.status, rec'.failed = rec.failed PROVE Agrees'
  BY <1>1, <1>5 DEF Agrees
<1>6. CASE DisconnectAndPurge
  BY <1>5, <1>6, PurgeEffect
<1>7. CASE Reconcile
  <2>1. CASE Transitions
    <3>1. /\ check.pc = "fetched" /\ check.row \in CheckedRows
          /\ check.got \in Snapshots /\ check.got.status # "absent"
      BY <1>7, <2>1, TypeParts DEF Inv, Checks, Transitions, Reconcile
    <3>2. \/ /\ check.got.status = "scheduled" /\ rec'.status = "approved"
             /\ rec.status \in {"submitted", "xero_sync_failed"}
          \/ /\ check.got.status = "rejected"
             /\ rec'.status \in {"declined", "withdrawn"}
          \/ /\ check.got.status \in {"withdrawn", "deleted"}
             /\ rec'.status = "withdrawn"
      BY <2>1, <3>1, ReconciledTo DEF Transitions, StillAsLoaded
    <3>3. check.got = app \/ app.status \in Later[check.got.status]
      BY <3>1 DEF Inv, CheckInv, Past
    <3>4. CASE check.got = app
      BY <1>1, <3>2, <3>4 DEF Agrees
    <3>5. CASE app.status \in Later[check.got.status]
      <4>1. \/ check.got.status = "scheduled" /\ app.status = "rejected"
            \/ app.status = "deleted"
        BY <1>1, <3>2, <3>5 DEF Later
      <4>2. rec.status \notin {"withdrawn", "cancelled"}
        BY <2>1, <3>1 DEF Inv, CheckInv, Transitions, StillAsLoaded
      <4>3. CASE app.status = "deleted"
        BY <1>1, <4>2, <4>3 DEF Agrees
      <4>4. CASE check.got.status = "scheduled" /\ app.status = "rejected"
        BY <1>1, <3>2, <4>2, <4>4 DEF Agrees
      <4> QED
        BY <4>1, <4>3, <4>4
    <3> QED
      BY <3>3, <3>4, <3>5
  <2> QED
    BY <1>5, <1>7, <2>1, ReconcileEffect
<1> QED
  BY <1>2, <1>3, <1>4, <1>6, <1>7 DEF Local

\* A sync that applies the application as it is makes the record agree.
LEMMA AppliedAgrees ==
  ASSUME Inv, Present, app' = app, NEW row, Loaded(rec) = row,
         rec'.status = Persisted(row, app),
         rec'.failed = IF rec'.status = "xero_sync_failed" THEN rec.failed ELSE "none"
  PROVE  Agrees'
PROOF
<1>1. app.status \in {"requested", "scheduled", "rejected", "withdrawn", "deleted"}
  BY Values DEF Inv, Present, AppStatuses
<1>2. row.failed = rec.failed
  BY DEF Loaded
<1>3. CASE app.status = "requested"
  <2>1. rec'.status = "submitted"
    BY <1>3 DEF Persisted, Reported
  <2> QED
    BY <1>3, <2>1 DEF Agrees
<1>4. CASE app.status = "scheduled"
  <2>1. \/ rec'.status = "approved"
        \/ rec'.status = "xero_sync_failed" /\ row.failed = "withdraw"
    BY <1>4 DEF Persisted, Reported
  <2> QED
    BY <1>2, <1>4, <2>1 DEF Agrees
<1>5. CASE app.status = "rejected"
  <2>1. rec'.status \in {"declined", "withdrawn"}
    BY <1>5 DEF Persisted, Reported
  <2> QED
    BY <1>5, <2>1 DEF Agrees
<1>6. CASE app.status = "withdrawn"
  <2>1. rec'.status = "withdrawn"
    BY <1>6 DEF Persisted, Reported
  <2> QED
    BY <1>6, <2>1 DEF Agrees
<1>7. CASE app.status = "deleted"
  <2>1. rec'.status = "cancelled"
    BY <1>7 DEF Persisted, Reported
  <2> QED
    BY <1>7, <2>1 DEF Agrees
<1> QED
  BY <1>1, <1>3, <1>4, <1>5, <1>6, <1>7

LEMMA VersionStep == ASSUME Inv, Next PROVE VersionInv'
PROOF
<1> SUFFICES ASSUME Present', rec'.hash = app'.at
             PROVE  /\ rec'.held /\ Agrees' /\ dec'.pc # "done"
                    /\ \A r \in Runs :
                         AtWork(r)' /\ run'[r].got.at < app'.at =>
                           rec'.upd > run'[r].started
  BY DEF VersionInv
<1>1. TypeOK /\ app' = app /\ Present /\ rec'.hash = app.at
  BY NewStamp DEF Present, Inv
<1>2. ASSUME dec.pc # "done" PROVE dec'.pc # "done"
  <2>1. ~XeroMoves
    <3>1. app'.at = clock + 1 /\ app.at <= clock /\ clock \in Nat /\ app.at \in Nat
          => app' # app
      OBVIOUS
    <3> QED
      BY <1>1, <3>1, Values DEF XeroMoves, Inv, ClockInv
  <2> QED
    BY <1>2, <2>1, DecisionKinds, AcceptEffect, RefuseEffect, SendEffect, CommitEffect,
       RefusalEffect DEF IdleDecision
<1>3. ASSUME NEW r \in Runs, AtWork(r)', ~(run'[r].got = app)
      PROVE  /\ AtWork(r) /\ run'[r].got = run[r].got
             /\ run'[r].started = run[r].started /\ run[r].started < clock
  <2>1. AtWork(r) /\ run'[r].got = run[r].got /\ run'[r].started = run[r].started
    BY <1>1, <1>3, RunKinds, StartEffect, AcquireEffect, FetchEffect, LoadEffect,
       ProcessEffect DEF AtWork, Keeps, Applied, Known, Deals
  <2> QED
    BY <2>1 DEF Inv, SnapshotInv, AtWork
<1>4. ASSUME rec'.upd = clock, NEW r \in Runs, AtWork(r)', run'[r].got.at < app'.at
      PROVE  rec'.upd > run'[r].started
  <2>1. app.at \in Nat /\ clock \in Nat /\ run[r].started \in Nat
    BY <1>1, Values, RunValues
  <2>2. ~(run'[r].got = app)
    BY <1>1, <1>4, <2>1
  <2> QED
    BY <1>3, <1>4, <2>1, <2>2
<1>5. CASE rec' = rec
  <2>1. /\ rec.held /\ Agrees /\ dec.pc # "done"
        /\ \A r \in Runs : AtWork(r) /\ run[r].got.at < app.at =>
                             rec.upd > run[r].started
    BY <1>1, <1>5 DEF Inv, VersionInv
  <2>2. Agrees'
    BY <1>1, <1>5, <2>1 DEF Agrees
  <2>3. ASSUME NEW r \in Runs, AtWork(r)', run'[r].got.at < app'.at
        PROVE  rec'.upd > run'[r].started
    <3>1. ~(run'[r].got = app)
      BY <1>1, <2>3, Values
    <3> QED
      BY <1>1, <1>3, <1>5, <2>1, <2>3, <3>1
  <2> QED
    BY <1>2, <1>5, <2>1, <2>2, <2>3
<1>6. CASE /\ rec.held /\ rec'.held /\ rec'.upd = clock /\ rec'.hash = rec.hash
           /\ UNCHANGED <<app, clock>>
  <2>1. Agrees /\ dec.pc # "done"
    BY <1>1, <1>6 DEF Inv, VersionInv
  <2>2. Agrees'
    <3>1. CASE Local
      BY <1>1, <1>6, <3>1, AgreesKept
    <3>2. ASSUME NEW r \in Runs, Finalise(r) PROVE Agrees'
      BY <1>1, <2>1, <3>2, FinaliseEffect DEF Agrees
    <3>3. CASE rec' = rec
      BY <1>1, <2>1, <3>3 DEF Agrees
    <3>4. ASSUME NEW q \in Runs, ProcessLeaveRecord(q) \/ RecordFailure(q)
          PROVE  Agrees'
      <4>1. CASE Applied(q)
        <5>1. run[q].pc = "loaded"
          BY <1>1, <3>4, ProcessEffect
        <5>2. /\ run[q].got = app
              /\ rec'.status = Persisted(run[q].row, run[q].got)
              /\ rec'.failed = IF rec'.status = "xero_sync_failed" THEN rec.failed
                                                                   ELSE "none"
              /\ Loaded(rec) = run[q].row
          BY <1>1, <1>6, <4>1, <5>1, AppliedIsLast, AppliedEffect
        <5> QED
          BY <1>1, <5>2, AppliedAgrees
      <4> QED
        BY <1>1, <3>3, <3>4, <4>1, ProcessEffect DEF Known
    <3>5. ASSUME NEW r \in Runs,
                 Start(r) \/ Acquire(r) \/ Fetch(r) \/ LoadExisting(r) \/ Stop(r)
          PROVE  rec' = rec
      BY <1>1, <3>5, StartEffect, AcquireEffect, FetchEffect, LoadEffect, StopEffect
    <3> QED
      BY <3>1, <3>2, <3>3, <3>4, <3>5, StepKinds DEF XeroMoves, Quiet
  <2> QED
    BY <1>2, <1>4, <1>6, <2>1, <2>2
<1>7. ASSUME NEW q \in Runs, run[q].pc = "loaded", Applied(q), dec' = dec
      PROVE  /\ rec'.held /\ Agrees' /\ dec'.pc # "done"
             /\ \A r \in Runs :
                  AtWork(r)' /\ run'[r].got.at < app'.at =>
                    rec'.upd > run'[r].started
  <2>1. /\ rec'.held /\ rec'.hash = run[q].got.at /\ rec'.upd = clock
        /\ rec'.status = Persisted(run[q].row, run[q].got)
        /\ rec'.failed = IF rec'.status = "xero_sync_failed" THEN rec.failed
                                                             ELSE "none"
        /\ (rec.held => ~Busy) /\ Loaded(rec) = run[q].row
    BY <1>7, AppliedEffect
  <2>2. run[q].got = app
    BY <1>1, <1>7, <2>1 DEF Inv, SnapshotInv, AtWork, Past
  <2>3. Agrees'
    BY <1>1, <2>1, <2>2, AppliedAgrees
  <2>4. dec'.pc # "done"
    BY <1>7, <2>1 DEF Inv, DecisionInv, Busy
  <2> QED
    BY <1>4, <2>1, <2>3, <2>4
<1> QED
  BY <1>5, <1>6, <1>7, RowKinds

-----------------------------------------------------------------------------
(* The cursor *)

\* A run whose list the application has not outrun has found it as it is.
LEMMA DealtWithStep ==
  ASSUME Inv, Next, NEW r \in Runs, run'[r].pc = "finalising", run'[r].succeeds,
         Present, app' = app, app.at <= run'[r].started
  PROVE  DealtWith(r)'
PROOF
<1>1. /\ TypeOK /\ app.at \in Nat /\ app.mod = app.at - Skew
      /\ cursor \in Nat \/ cursor = Never
  BY Values DEF Inv, ClockInv
<1>2. CASE run'[r] = run[r]
  <2>1. DealtWith(r)
    BY <1>2 DEF Inv, CursorInv
  <2> QED
    BY <1>2, <2>1, HashKept DEF DealtWith
<1>3. CASE Fetch(r)
  <2>1. /\ ~run'[r].listed /\ ~Included(run[r].mode, cursor)
        /\ run'[r].mode = run[r].mode /\ run'[r].since = cursor
    BY <1>1, <1>3, FetchEffect DEF Keeps
  <2>2. run[r].mode = "incremental" /\ cursor # Never /\ ~InDelta(cursor)
    BY <2>1 DEF Included
  <2>3. app.at <= cursor
    BY <1>1, <2>2, ConstantFacts DEF InDelta
  <2> QED
    BY <2>1, <2>2, <2>3 DEF DealtWith
<1>4. CASE ProcessLeaveRecord(r) \/ RecordFailure(r)
  <2>1. /\ run[r].pc = "loaded"
        /\ Applied(r) \/ Known(r)
        /\ run'[r].started = run[r].started /\ run'[r].listed = run[r].listed
    BY <1>1, <1>4, ProcessEffect DEF Applied, Known, Deals, Keeps
  <2>2. run[r].listed /\ run[r].got = app
    BY <2>1 DEF Inv, SnapshotInv, AtWork
  <2>3. CASE Applied(r)
    BY <2>1, <2>2, <2>3, AppliedEffect DEF DealtWith
  <2>4. CASE Known(r)
    <3>1. /\ rec' = rec
          /\ Older(run[r].row, run[r].got) \/ Duplicate(run[r].row, run[r].got)
      BY <2>4 DEF Known
    <3>2. /\ IF run[r].row.hash = Never THEN run[r].row.src = Never
             ELSE /\ run[r].row.src = run[r].row.hash - Skew
                  /\ run[r].row.hash <= app.at
          /\ run[r].row.hash = app.at => rec.hash = app.at
          /\ run[r].row.hash \in Nat \/ run[r].row.hash = Never
      BY <1>1, <2>1, RunValues DEF Inv, LoadInv
    <3>3. ~Older(run[r].row, run[r].got)
      <4>1. CASE run[r].row.hash = Never
        BY <3>2, <4>1 DEF Older
      <4>2. CASE run[r].row.hash \in Nat
        <5>1. /\ run[r].row.src = run[r].row.hash - Skew
              /\ run[r].row.hash <= app.at
          BY <3>2, <4>2, ConstantFacts
        <5>2. ~(app.mod < run[r].row.src)
          BY <1>1, <4>2, <5>1, ConstantFacts
        <5> QED
          BY <2>2, <5>2 DEF Older
      <4> QED
        BY <3>2, <4>1, <4>2
    <3>4. rec.hash = app.at
      BY <2>2, <3>1, <3>2, <3>3 DEF Duplicate
    <3> QED
      BY <2>1, <2>2, <3>1, <3>4 DEF DealtWith
  <2> QED
    BY <2>1, <2>3, <2>4
<1> QED
  BY <1>1, <1>2, <1>3, <1>4, RunKinds, StartEffect, AcquireEffect, LoadEffect

LEMMA CursorStep == ASSUME Inv, Next PROVE CursorInv'
PROOF
<1>1. TypeOK
  BY DEF Inv
<1>2. ASSUME NEW r \in Runs, run'[r].pc = "finalising", run'[r].succeeds,
             Present', app'.at <= run'[r].started
      PROVE  DealtWith(r)'
  <2>1. CASE app' = app
    BY <1>2, <2>1, DealtWithStep DEF Present
  <2>2. CASE run'[r] = run[r] /\ (run[r].pc # "idle" => ~(app'.at <= run[r].started))
    BY <1>2, <2>2
  <2> QED
    BY <2>1, <2>2, NewStamp
<1>3. ASSUME Present', cursor' # Never, app'.at <= cursor' PROVE rec'.hash = app'.at
  <2>1. app' = app /\ Present
    <3>1. app' = app
      BY <1>3, NewStamp
    <3> QED
      BY <1>3, <3>1 DEF Present
  <2>2. CASE cursor' = cursor
    <3>1. rec.hash = app.at
      BY <1>3, <2>1, <2>2 DEF Inv, CursorInv
    <3> QED
      BY <2>1, <3>1, HashKept
  <2>3. ASSUME NEW r \in Runs, run[r].pc = "finalising", run[r].succeeds,
               run[r].since = cursor, cursor' = run[r].started
        PROVE  rec'.hash = app'.at
    <3>1. DealtWith(r)
      BY <1>3, <2>1, <2>3 DEF Inv, CursorInv
    <3>2. rec.hash = app.at
      BY <2>1, <2>3, <3>1 DEF Inv, CursorInv, DealtWith
    <3> QED
      BY <2>1, <3>2, HashKept
  <2>4. \/ cursor' = cursor \/ cursor' = Never
        \/ \E r \in Runs : /\ run[r].pc = "finalising" /\ run[r].succeeds
                           /\ run[r].since = cursor /\ cursor' = run[r].started
    BY <1>1, StepKinds, LocalEffect, StartEffect, AcquireEffect, FetchEffect, LoadEffect,
       ProcessEffect, StopEffect, FinaliseEffect DEF XeroMoves, Quiet
  <2> QED
    BY <1>3, <2>2, <2>3, <2>4
<1> QED
  BY <1>2, <1>3 DEF CursorInv

-----------------------------------------------------------------------------
(* Missing leave *)

\* An application that is gone stays gone.
LEMMA GoneStays ==
  ASSUME Inv, Next, rec.held, ~Present
  PROVE  ~Present'
PROOF
<1>1. app # Nothing
  BY DEF Inv, RecordInv
<1> QED
  BY <1>1, AppKinds DEF XeroMoves, Present

LEMMA MissingStep == ASSUME Inv, Next PROVE MissingInv'
PROOF
<1>1. TypeOK /\ clock \in Nat
  BY Values DEF Inv
<1> SUFFICES ASSUME NEW r \in Runs, run'[r].pc = "finalising", run'[r].succeeds,
                    run'[r].mode = "full", ~run'[r].listed,
                    rec'.held, rec'.upd <= run'[r].started
             PROVE  ~Present'
  BY DEF MissingInv
<1>2. CASE run'[r] = run[r]
  <2>1. run[r].started \in Nat /\ run[r].started < clock
    BY <1>1, <1>2, RunValues DEF Inv, SnapshotInv
  <2>2. rec'.upd # clock
    BY <1>1, <1>2, <2>1
  <2>3. rec' = rec
    BY <2>2, RowKinds, AppliedEffect
  <2>4. ~Present
    BY <1>2, <2>3 DEF Inv, MissingInv
  <2> QED
    BY <2>3, <2>4, GoneStays
<1>3. CASE Fetch(r)
  <2>1. /\ app' = app /\ run'[r].mode = run[r].mode
        /\ ~Included(run[r].mode, cursor)
    BY <1>1, <1>3, FetchEffect DEF Keeps
  <2> QED
    BY <2>1 DEF Included, Present
<1>4. CASE ProcessLeaveRecord(r) \/ RecordFailure(r)
  <2>1. run[r].pc = "loaded" /\ run'[r].listed = run[r].listed
    BY <1>1, <1>4, ProcessEffect DEF Applied, Known, Deals
  <2> QED
    BY <2>1 DEF Inv, SnapshotInv, AtWork
<1> QED
  BY <1>1, <1>2, <1>3, <1>4, RunKinds, StartEffect, AcquireEffect, LoadEffect

-----------------------------------------------------------------------------
(* The reconciliation *)

LEMMA CheckKinds ==
  ASSUME Inv, Next
  PROVE  \/ check' = check /\ ~Reconcile
         \/ LoadForCheck \/ FetchStatus \/ AbandonCheck
         \/ check'.pc = "idle"
PROOF
<1>1. CASE Reconcile
  BY <1>1, ReconcileEffect DEF IdleCheck
<1>2. CASE EditInXero \/ DisconnectAndPurge \/ Reconnect
  BY <1>1, <1>2 DEF EditInXero, DisconnectAndPurge, Reconnect
<1>3. CASE Decision
  BY <1>1, <1>3 DEF Decision, Decide, XeroAccepts, XeroRefuses, CommitDecision,
     PersistRefusal, RevertApprovalAttempt
<1>4. CASE \E r \in Runs : Sync(r)
  BY <1>1, <1>4 DEF Sync, Start, Acquire, Fetch, LoadExisting, ProcessLeaveRecord,
     RecordFailure, Finalise, Stop
<1> QED
  BY <1>1, <1>2, <1>3, <1>4 DEF Next, Reconciliation

\* The sequence never goes back, and a record does not cease to be held.
LEMMA SequenceKept ==
  ASSUME Inv, Next, rec.held
  PROVE  rec'.held /\ rec'.seq \in {rec.seq, rec.seq + 1}
PROOF
<1>1. TypeOK
  BY DEF Inv
<1>2. CASE Local
  BY <1>2, LocalEffect DEF LocalWrite
<1>3. ASSUME NEW r \in Runs, Finalise(r)
      PROVE  rec'.held /\ rec'.seq \in {rec.seq, rec.seq + 1}
  BY <1>3, FinaliseEffect DEF LocalWrite
<1>4. ASSUME NEW r \in Runs, ProcessLeaveRecord(r) \/ RecordFailure(r)
      PROVE  rec'.held /\ rec'.seq \in {rec.seq, rec.seq + 1}
  BY <1>1, <1>4, ProcessEffect, AppliedEffect DEF Known
<1>5. ASSUME NEW r \in Runs,
             Start(r) \/ Acquire(r) \/ Fetch(r) \/ LoadExisting(r) \/ Stop(r)
      PROVE  rec'.held /\ rec'.seq \in {rec.seq, rec.seq + 1}
  BY <1>1, <1>5, StartEffect, AcquireEffect, FetchEffect, LoadEffect, StopEffect
<1> QED
  BY <1>2, <1>3, <1>4, <1>5, StepKinds DEF XeroMoves, Quiet

\* A reading that is overtaken stays overtaken, and a row that gets newer than
\* the reading overtakes it.
LEMMA OvertakenKept ==
  ASSUME Inv, Next, check' = check, ~Reconcile, check.pc = "fetched",
         known' > check.got.at
  PROVE  Overtaken'
PROOF
<1>1. /\ TypeOK /\ rec.held /\ check.row.seq <= rec.seq
      /\ rec.seq \in Nat /\ check.row.seq \in Nat
      /\ known > check.got.at => Overtaken
  BY Values DEF Inv, CheckInv
<1>2. rec'.seq \in {rec.seq, rec.seq + 1}
  BY <1>1, SequenceKept
<1>3. ASSUME Overtaken,
             \/ rec'.status = rec.status
             \/ rec.status \notin {"declined", "withdrawn", "cancelled"}
      PROVE  Overtaken'
  BY <1>1, <1>2, <1>3 DEF Overtaken
<1>4. CASE rec' = rec /\ known' = known
  BY <1>1, <1>3, <1>4
<1>5. CASE CommitDecision
  <2>1. rec'.seq > check.row.seq
    BY <1>1, <1>5, CommitEffect
  <2> QED
    BY <2>1 DEF Overtaken
<1>6. CASE PersistRefusal
  BY <1>1, <1>3, <1>6, RefusalEffect DEF Inv, DecisionInv
<1>7. CASE RevertApprovalAttempt
  BY <1>1, <1>3, <1>7, RevertEffect
<1>8. CASE DisconnectAndPurge
  BY <1>1, <1>3, <1>8, PurgeEffect
<1>9. ASSUME NEW r \in Runs, Finalise(r) PROVE Overtaken'
  BY <1>1, <1>3, <1>9, FinaliseEffect
<1>10. ASSUME NEW q \in Runs, run[q].pc = "loaded", Applied(q) PROVE Overtaken'
  <2>1. /\ rec'.status = Persisted(run[q].row, run[q].got)
        /\ run[q].got.status # "absent" /\ known' = run[q].got.at
    BY <1>10, AppliedEffect
  <2>2. run[q].got.status \in Later[check.got.status]
    BY <1>10, <2>1 DEF Inv, CheckInv, AtWork
  <2>3. check.got.status \in AppStatuses
    BY <1>1, Values
  <2>4. CASE check.got.status \in {"rejected", "withdrawn", "deleted"}
    <3>1. run[q].got.status = "deleted"
      BY <2>1, <2>2, <2>4 DEF Later
    <3> QED
      BY <2>1, <3>1 DEF Persisted, Reported, Overtaken
  <2>5. CASE check.got.status = "scheduled"
    <3>1. run[q].got.status \in {"rejected", "deleted"}
      BY <2>1, <2>2, <2>5 DEF Later
    <3>2. rec'.status \in {"declined", "withdrawn", "cancelled"}
      BY <2>1, <3>1 DEF Persisted, Reported
    <3> QED
      BY <2>5, <3>2 DEF Overtaken
  <2>6. CASE check.got.status \in {"requested", "absent"}
    BY <2>6 DEF Overtaken
  <2> QED
    BY <2>3, <2>4, <2>5, <2>6 DEF AppStatuses
<1>11. ASSUME NEW q \in Runs, ProcessLeaveRecord(q) \/ RecordFailure(q)
       PROVE  Overtaken'
  BY <1>1, <1>4, <1>10, <1>11, ProcessEffect DEF Known
<1>12. ASSUME NEW r \in Runs,
              Start(r) \/ Acquire(r) \/ Fetch(r) \/ LoadExisting(r) \/ Stop(r)
       PROVE  rec' = rec /\ known' = known
  BY <1>1, <1>12, StartEffect, AcquireEffect, FetchEffect, LoadEffect, StopEffect
<1> QED
  BY <1>4, <1>5, <1>6, <1>7, <1>8, <1>9, <1>11, <1>12, StepKinds
     DEF XeroMoves, Quiet, Local

LEMMA CheckStep == ASSUME Inv, Next PROVE CheckInv'
PROOF
<1>1. /\ TypeOK /\ CheckInv /\ app.at \in Nat /\ app \in Snapshots
      /\ rec.seq \in Nat /\ check.row.seq \in Nat /\ check.got \in Snapshots
      /\ known \in Nat /\ known <= app.at
  BY Values, TypeParts DEF Inv, ClockInv, XeroTyped, Checks
<1>2. CASE check'.pc = "idle"
  BY <1>2 DEF CheckInv
<1>3. CASE LoadForCheck \/ FetchStatus \/ AbandonCheck
  <2>1. /\ \/ /\ check'.pc = "loaded" /\ rec.held /\ check'.row.seq = rec.seq
              /\ check'.row.status \notin {"withdrawn", "cancelled"}
           \/ /\ check.pc = "loaded" /\ check'.pc = "fetched" /\ check'.got = app
              /\ check'.row = check.row
           \/ check'.pc = "idle"
        /\ UNCHANGED <<app, rec, known, run>>
    BY <1>3, CheckEffect
  <2>2. CASE /\ check'.pc = "loaded" /\ rec.held /\ check'.row.seq = rec.seq
             /\ check'.row.status \notin {"withdrawn", "cancelled"}
    BY <1>1, <2>1, <2>2 DEF CheckInv
  <2>3. CASE /\ check.pc = "loaded" /\ check'.pc = "fetched" /\ check'.got = app
             /\ check'.row = check.row
    <3>1. /\ rec'.held /\ check'.row.seq <= rec'.seq
          /\ check'.row.status \notin {"withdrawn", "cancelled"}
      BY <1>1, <2>1, <2>3 DEF CheckInv
    <3>2. Past(check.got)' /\ (check'.got.status = "absent" => ~Present')
      BY <1>1, <2>1, <2>3 DEF Past, Present
    <3>3. ~(known' > check'.got.at)
      BY <1>1, <2>1, <2>3
    <3>4. \A r \in Runs : AtWork(r)' => ~(check'.got.at < run'[r].got.at)
      <4> SUFFICES ASSUME NEW r \in Runs, AtWork(r)
                   PROVE  ~(app.at < run[r].got.at)
        BY <2>1, <2>3 DEF AtWork
      <4>1. run[r].got.at \in Nat /\ run[r].got.at <= app.at
        BY <1>1, RunValues DEF Inv, SnapshotInv, Past
      <4> QED
        BY <1>1, <4>1
    <3> QED
      BY <2>3, <3>1, <3>2, <3>3, <3>4 DEF CheckInv
  <2> QED
    BY <1>2, <2>1, <2>2, <2>3
<1>4. CASE check' = check /\ ~Reconcile
  <2>1. check.pc # "idle" => /\ rec'.held /\ check'.row.seq <= rec'.seq
                             /\ check'.row.status \notin {"withdrawn", "cancelled"}
    BY <1>1, <1>4, SequenceKept DEF CheckInv
  <2>2. ASSUME check.pc = "fetched"
        PROVE  /\ Past(check.got)'
               /\ check'.got.status = "absent" => ~Present'
               /\ known' > check'.got.at => Overtaken'
    <3>1. rec.held /\ Past(check.got) /\ (check.got.status = "absent" => ~Present)
      BY <1>1, <2>2 DEF CheckInv
    <3>2. Past(check.got)'
      BY <1>1, <1>4, <3>1, PastMoves DEF Past
    <3> QED
      BY <1>4, <2>2, <3>1, <3>2, GoneStays, OvertakenKept
  <2>3. ASSUME check.pc = "fetched", NEW r \in Runs, AtWork(r)',
               check'.got.at < run'[r].got.at
        PROVE  run'[r].got.status \in Later[check'.got.status]
    <3>1. \/ AtWork(r) /\ run'[r].got = run[r].got
          \/ run'[r].got = app
      BY <1>1, <2>3, RunKinds, StartEffect, AcquireEffect, FetchEffect, LoadEffect,
         ProcessEffect DEF AtWork, Applied, Known, Deals
    <3>2. CASE AtWork(r) /\ run'[r].got = run[r].got
      BY <1>1, <1>4, <2>3, <3>2 DEF CheckInv
    <3>3. CASE run'[r].got = app
      <4>1. check.got.at < app.at /\ Past(check.got)
        BY <1>1, <1>4, <2>3, <3>3 DEF CheckInv
      <4>2. check.got.at # app.at
        BY <1>1, <4>1
      <4> QED
        BY <1>4, <3>3, <4>1, <4>2 DEF Past
    <3> QED
      BY <3>1, <3>2, <3>3
  <2> QED
    BY <1>4, <2>1, <2>2, <2>3 DEF CheckInv
<1> QED
  BY <1>2, <1>3, <1>4, CheckKinds

-----------------------------------------------------------------------------
(* The theorems *)

LEMMA InitInv == Init => Inv
PROOF
<1> SUFFICES ASSUME Init PROVE Inv
  OBVIOUS
<1>1. PICK s \in Sources :
        /\ rec = [NoRow EXCEPT !.held = (s = "team_calendar_leave"), !.source = s,
                               !.upd = IF s = "xero_leave" THEN 0 ELSE Began]
        /\ app \in {[status |-> "requested", mod |-> Began - Skew, at |-> Began]}
                  \cup (IF s = "xero_leave" THEN {Nothing} ELSE {})
  BY DEF Init
<1>2. s \in {"team_calendar_leave", "xero_leave"}
  BY SourceAssumption
<1>3. /\ clock = Began /\ known = app.at /\ cursor = Never /\ lease = NoRun
      /\ run = [r \in Runs |-> IdleRun] /\ dec = IdleDecision
      /\ check = IdleCheck /\ linked = TRUE /\ purged = FALSE
      /\ used = [starts |-> 0, events |-> 0]
  BY DEF Init
<1> DEFINE held == s = "team_calendar_leave"
           upd  == IF s = "xero_leave" THEN 0 ELSE Began
<1>4. /\ rec \in Rows /\ rec.held = held /\ rec.upd = upd
      /\ rec.status = "submitted" /\ rec.failed = "none" /\ rec.src = Never
      /\ rec.hash = Never /\ rec.archived = FALSE
  <2>1. /\ held \in BOOLEAN /\ upd \in Nat /\ s \in Sources \cup {"xero_leave"}
    BY ConstantFacts
  <2>2. rec = [NoRow EXCEPT !.held = held, !.source = s, !.upd = upd]
    BY <1>1
  <2> HIDE DEF held, upd
  <2> QED
    BY <2>1, <2>2, IdleTyped DEF NoRow, Rows, Times
<1>5. /\ app \in Snapshots /\ app.at \in Nat /\ app.at <= Began
      /\ Present => app.mod = app.at - Skew
      /\ rec.held => app # Nothing
  <2>1. CASE app = Nothing
    <3>1. ~held
      BY <1>1, <2>1, ConstantFacts DEF Nothing
    <3>2. ~rec.held
      BY <1>4, <3>1
    <3>3. app.status = "absent" /\ app.at = 0 /\ app \in Snapshots
      BY <2>1, IdleTyped DEF Nothing
    <3>4. app.at \in Nat /\ app.at <= Began
      BY <3>3, ConstantFacts
    <3> QED
      BY <3>2, <3>3, <3>4 DEF Present
  <2>2. CASE app = [status |-> "requested", mod |-> Began - Skew, at |-> Began]
    BY <2>2, ConstantFacts DEF Snapshots, AppStatuses, Times, Present, Nothing
  <2> QED
    BY <1>1, <2>1, <2>2
<1>6. \A r \in Runs : run[r].pc = "idle"
  BY <1>3 DEF IdleRun
<1>7. dec.pc = "idle" /\ check.pc = "idle"
  BY <1>3 DEF IdleDecision, IdleCheck
<1>8. TypeOK
  <2>1. XeroTyped
    BY <1>3, <1>5, ConstantFacts DEF XeroTyped
  <2>2. SyncTyped
    <3>1. run \in [Runs -> Locals]
      BY <1>3, IdleTyped
    <3>2. cursor \in Nat \cup {Never} /\ lease \in Runs \cup {NoRun}
      BY <1>3
    <3> QED
      BY <3>1, <3>2 DEF SyncTyped
  <2>3. LinkTyped
    <3>1. linked = TRUE /\ purged = FALSE /\ used = [starts |-> 0, events |-> 0]
      BY <1>3
    <3>2. 0 \in 0 .. MaxStarts /\ 0 \in 0 .. MaxEvents
      BY BoundAssumption
    <3>3. used \in [starts : 0 .. MaxStarts, events : 0 .. MaxEvents]
      BY <3>1, <3>2
    <3> QED
      BY <3>1, <3>3 DEF LinkTyped
  <2>4. FailureExplained
    BY <1>4 DEF FailureExplained
  <2> QED
    BY <1>3, <1>4, <2>1, <2>2, <2>3, <2>4, IdleTyped, TypeParts
<1>9. ClockInv
  <2>1. cursor <= clock
    BY <1>3, ConstantFacts
  <2>2. rec.upd <= clock
    BY <1>3, <1>4, ConstantFacts
  <2>3. clock >= Began /\ known <= app.at /\ app.at <= clock
    BY <1>3, <1>5, ConstantFacts
  <2> QED
    BY <1>5, <2>1, <2>2, <2>3 DEF ClockInv
<1>10. RecordInv
  <2>1. ~held => upd = 0
    BY <1>2
  <2> QED
    BY <1>4, <1>5, <2>1 DEF RecordInv
<1>11. DecisionInv /\ CheckInv
  BY <1>7 DEF DecisionInv, CheckInv
<1>12. SnapshotInv /\ LoadInv /\ MissingInv
  BY <1>6 DEF SnapshotInv, LoadInv, MissingInv, AtWork
<1>13. VersionInv
  BY <1>4, <1>5, ConstantFacts DEF VersionInv
<1>14. CursorInv
  BY <1>3, <1>6 DEF CursorInv
<1> QED
  BY <1>8, <1>9, <1>10, <1>11, <1>12, <1>13, <1>14 DEF Inv

LEMMA StepInv == Inv /\ [Next]_vars => Inv'
PROOF
<1>1. ASSUME Inv, Next PROVE Inv'
  BY <1>1, TypeStep, ClockStep, RecordStep, DecisionStep, SnapshotStep, LoadStep,
     VersionStep, CursorStep, MissingStep, CheckStep DEF Inv
<1>2. ASSUME Inv, UNCHANGED vars PROVE Inv'
  <2>1. /\ app' = app /\ clock' = clock /\ rec' = rec /\ known' = known
        /\ cursor' = cursor /\ lease' = lease /\ run' = run /\ dec' = dec
        /\ check' = check /\ linked' = linked /\ purged' = purged /\ used' = used
    BY <1>2 DEF vars
  <2>2. TypeOK' /\ ClockInv' /\ RecordInv' /\ DecisionInv'
    BY <1>2, <2>1 DEF Inv, TypeOK, FailureExplained, ClockInv, RecordInv, DecisionInv,
       Present, Gone, Decides
  <2>3. SnapshotInv' /\ LoadInv'
    BY <1>2, <2>1 DEF Inv, SnapshotInv, LoadInv, AtWork, Past, Present, Loaded
  <2>4. VersionInv' /\ CursorInv' /\ MissingInv'
    BY <1>2, <2>1 DEF Inv, VersionInv, CursorInv, MissingInv, DealtWith, AtWork,
       Present, Agrees
  <2>5. CheckInv'
    BY <1>2, <2>1 DEF Inv, CheckInv, Past, Overtaken, AtWork, Present
  <2> QED
    BY <2>2, <2>3, <2>4, <2>5 DEF Inv
<1> QED
  BY <1>1, <1>2

LEMMA Invariant == Spec => []Inv
BY InitInv, StepInv, PTL DEF Spec

\* Every reachable state is well typed, and a failure names the decision that
\* failed.
THEOREM TypeCorrect == Spec => []TypeOK
BY Invariant, PTL DEF Inv

\* The leave-records cursor passes no application by (sync-xero-leave-records).
THEOREM NothingMissedHolds == Spec => []NothingMissed
PROOF
<1>1. Inv => NothingMissed
  <2> SUFFICES ASSUME Inv, Present, ~Busy, cursor # Never,
                      ~(app.mod > cursor - Slack)
               PROVE  rec.held /\ Agrees
    BY DEF NothingMissed
  <2>1. app.at <= cursor
    <3>1. /\ app.mod = app.at - Skew /\ app.at \in Nat /\ cursor \in Nat
      BY Values DEF Inv, ClockInv
    <3> QED
      BY <3>1, ConstantFacts
  <2>2. rec.hash = app.at
    BY <2>1 DEF Inv, CursorInv
  <2> QED
    BY <2>2 DEF Inv, VersionInv
<1> QED
  BY <1>1, Invariant, PTL

\* Leave is archived only when its application is deleted in Xero or no longer
\* listed there, until a destructive disconnection.
THEOREM ArchivedIsGoneHolds == Spec => []ArchivedIsGone
PROOF
<1>1. Inv => ArchivedIsGone
  BY DEF Inv, RecordInv, ArchivedIsGone
<1> QED
  BY <1>1, Invariant, PTL

\* No sync, decision or reconciliation takes a record back to an earlier state
\* of its application.
THEOREM NeverOlderHolds == Spec => NeverOlder
PROOF
<1>1. ASSUME Inv, Next PROVE known' >= known
  <2>1. TypeOK /\ known \in Nat
    BY <1>1, Values DEF Inv
  <2>2. CASE known' = known
    BY <2>1, <2>2
  <2>3. CASE dec.pc = "done" /\ known' = dec.at
    BY <1>1, <2>1, <2>3, Values DEF Inv, DecisionInv
  <2>4. CASE Reconcile
    <3>1. CASE Transitions
      <4>1. /\ check.pc = "fetched" /\ check.row \in CheckedRows
            /\ check.got \in Snapshots /\ check.got.status # "absent"
            /\ check.row.seq \in Nat /\ check.got.at \in Nat
        BY <1>1, <2>1, <2>4, <3>1, TypeParts, Values DEF Checks, Transitions, Reconcile
      <4>2. \/ /\ check.got.status = "scheduled"
               /\ rec.status \in {"submitted", "xero_sync_failed"}
            \/ check.got.status \in {"rejected", "withdrawn", "deleted"}
        BY <3>1, <4>1, ReconciledTo DEF Transitions, StillAsLoaded
      <4>3. rec.seq = check.row.seq /\ rec.status # "cancelled"
        BY <1>1, <3>1, <4>1 DEF Inv, CheckInv, Transitions, StillAsLoaded
      <4>4. ~(known > check.got.at)
        <5>1. ASSUME known > check.got.at PROVE FALSE
          <6>1. Overtaken
            BY <1>1, <4>1, <5>1 DEF Inv, CheckInv
          <6>2. check.got.status = "scheduled" /\ rec.status \in {"declined", "withdrawn"}
            BY <4>1, <4>2, <4>3, <6>1 DEF Overtaken
          <6> QED
            BY <4>2, <6>2
        <5> QED
          BY <5>1
      <4> QED
        BY <2>1, <3>1, <4>1, <4>4 DEF Transitions
    <3> QED
      BY <1>1, <2>2, <2>4, <3>1, ReconcileEffect
  <2>5. ASSUME NEW q \in Runs, run[q].pc = "loaded", Applied(q)
        PROVE  known' >= known
    <3>1. rec.upd <= run[q].started /\ known' = run[q].got.at
      BY <1>1, <2>5, AppliedEffect
    <3>2. known <= run[q].got.at /\ run[q].got.at \in Nat
      BY <1>1, <2>1, <2>5, <3>1, RunValues DEF Inv, LoadInv, AtWork
    <3> QED
      BY <2>1, <3>1, <3>2
  <2>6. ASSUME Local, ~Reconcile PROVE known' = known \/ (dec.pc = "done" /\ known' = dec.at)
    BY <1>1, <2>6, CommitEffect, RefusalEffect, RevertEffect, PurgeEffect DEF Local
  <2>7. ASSUME NEW q \in Runs, ProcessLeaveRecord(q) \/ RecordFailure(q)
        PROVE  known' = known \/ (run[q].pc = "loaded" /\ Applied(q))
    BY <2>1, <2>7, ProcessEffect DEF Known
  <2>8. ASSUME NEW r \in Runs,
               \/ Start(r) \/ Acquire(r) \/ Fetch(r) \/ LoadExisting(r)
               \/ Finalise(r) \/ Stop(r)
        PROVE  known' = known
    BY <1>1, <2>1, <2>8, StartEffect, AcquireEffect, FetchEffect, LoadEffect, StopEffect,
       FinaliseEffect
  <2> QED
    BY <1>1, <2>2, <2>3, <2>4, <2>5, <2>6, <2>7, <2>8, StepKinds DEF XeroMoves, Quiet
<1>2. Inv /\ [Next]_vars => [known' >= known]_vars
  BY <1>1
<1> QED
  BY <1>2, Invariant, PTL DEF Spec, NeverOlder
=============================================================================
