------------------------------ MODULE SyncRuns ------------------------------
(***************************************************************************)
(* The sync runs of one Xero connection and the initial import built from  *)
(* them.                                                                   *)
(*                                                                         *)
(* A run is a SyncRun row; the handlers of people, leave_records and       *)
(* leave_balances acquire one, fetch, advance the connection in a fenced   *)
(* transaction and complete the row.  The initial import is one Inngest    *)
(* function (`job') that calls the three handlers in order, each attempt   *)
(* under a run of its own, until the balance roster has been traversed,    *)
(* and then completes the request the connection was saved with.           *)
(*                                                                         *)
(* Each transaction of the code is one action.  Row by row upserts of what *)
(* was fetched are left to LeaveSync; here a handler's commit is its last  *)
(* transaction, the one that moves the connection.                         *)
(*                                                                         *)
(* Abstractions.                                                           *)
(*   - The 30 minute lease ends when Expire says so, healthy run or not.   *)
(*   - The roster is Pages pages of people; page 0 is the null cursor.     *)
(*   - Inngest: an attempt that throws or dies is retried Attempts times;  *)
(*     an event whose id it has seen is dropped until it forgets the id.   *)
(*   - A terminal row is deleted when no handler names it any more, and    *)
(*     its identity stands for a later run.                                *)
(***************************************************************************)
EXTENDS Integers, FiniteSets

CONSTANTS
  Manual,        \* executors of manual and scheduled sync events
  Importer,      \* the executor of the initial import's phases
  RunIds,        \* identities of sync runs
  NoRun,         \* no run
  Pages,         \* pages of people in the balance roster
  Attempts,      \* attempts Inngest gives a step or an event
  MaxConnects,   \* bound: connections and reconnections
  MaxManual,     \* bound: manual syncs
  MaxFaults,     \* bound: failed fetches, crashes, cancellations, disconnects
  ManualTypes,   \* the run types synced by hand or on schedule
  CrashIn        \* the run types whose handlers may die

Types == {"people", "leave_records", "leave_balances"}

\* What an import consists of: people, leave and every page of balances.
Roster == {"people", "leave_records"} \X {0}
            \cup {"leave_balances"} \X (0 .. Pages - 1)

Handlers == Manual \cup {Importer}

ASSUME HandlerAssumption == Importer \notin Manual /\ NoRun \notin RunIds
ASSUME PageAssumption == Pages \in Nat \ {0}
ASSUME BoundAssumption ==
  /\ Attempts \in Nat \ {0}
  /\ MaxConnects \in Nat /\ MaxManual \in Nat /\ MaxFaults \in Nat
ASSUME TypesAssumption == CrashIn \subseteq Types /\ ManualTypes \subseteq Types

VARIABLES
  conn,      \* the XeroConnection row: active, the import request (0: none),
             \* whether it is completed, the balance page and its failure flag
  runs,      \* the SyncRun rows
  hd,        \* handlers: what each keeps in local variables
  job,       \* the initial-xero-sync function run
  queue,     \* import requests whose event waits for the function
  sent,      \* whether Inngest remembers the event id of the present request
  connects, manuals, faults,   \* counters of the bounded inputs
  covered    \* history: what was imported under the current request

vars == <<conn, runs, hd, job, queue, sent, connects, manuals, faults,
          covered>>
inputVars == <<connects, manuals, faults>>
jobVars   == <<job, queue, sent>>

Statuses == {"none", "running", "succeeded", "partial_success", "failed",
             "cancelled"}
Terminal == Statuses \ {"none", "running"}

NoRow == [type |-> "people", status |-> "none", live |-> FALSE, cancel |-> FALSE]

Row(t, status) ==
  [type |-> t, status |-> status, live |-> status = "running", cancel |-> FALSE]

Idle == [pc |-> "idle", type |-> "people", run |-> NoRun, page |-> 0, flag |-> FALSE, outcome |-> "ok", tries |-> 0]

NoJob == [pc |-> "idle", request |-> 0, tries |-> 0]

Phases == {"people", "leave_records", "leave_balances", "complete"}

TypeOK ==
  /\ conn \in [live : BOOLEAN, request : 0 .. MaxConnects, completed : BOOLEAN,
               page : 0 .. Pages - 1, failed : BOOLEAN]
  /\ runs \in [RunIds -> [type : Types, status : Statuses, live : BOOLEAN,
                          cancel : BOOLEAN]]
  /\ hd \in [Handlers ->
       [pc : {"idle", "begin", "acquired", "fetched", "failing", "committed",
              "fenced", "done", "crashed"},
        type : Types, run : RunIds \cup {NoRun}, page : 0 .. Pages - 1, flag : BOOLEAN,
        outcome : {"ok", "partial"} \cup Terminal, tries : 0 .. Attempts]]
  /\ job \in [pc : Phases \cup {"idle"}, request : 0 .. MaxConnects,
              tries : 0 .. Attempts]
  /\ queue \subseteq 1 .. MaxConnects
  /\ sent \in BOOLEAN
  /\ connects \in 0 .. MaxConnects
  /\ manuals \in 0 .. MaxManual
  /\ faults \in 0 .. MaxFaults
  /\ covered \subseteq Roster

Init ==
  /\ conn = [live |-> FALSE, request |-> 0, completed |-> FALSE, page |-> 0,
             failed |-> FALSE]
  /\ runs = [r \in RunIds |-> NoRow]
  /\ hd = [h \in Handlers |-> Idle]
  /\ job = NoJob
  /\ queue = {} /\ sent = FALSE
  /\ connects = 0 /\ manuals = 0 /\ faults = 0
  /\ covered = {}

Named(r) == \E h \in Handlers : hd[h].run = r

Free(r) == runs[r].status = "none" /\ ~Named(r)

Running(t) == {r \in RunIds : runs[r].status = "running" /\ runs[r].type = t}

\* withXeroBinding: the connection is active and, for the phases of an import,
\* still has the request they were started for.
Bound(h) ==
  conn.live /\ (h = Importer => conn.request = job.request)

Fault == faults < MaxFaults /\ faults' = faults + 1

(***************************************************************************)
(* Acquisition, in one transaction under the connection's lock.            *)
(***************************************************************************)

Goes(h, pc) == hd' = [hd EXCEPT ![h].pc = pc]

Ends(h, outcome) ==
  hd' = [hd EXCEPT ![h].pc = "done", ![h].outcome = outcome]

\* A duplicate delivery finds its run: terminal runs keep their outcome, a
\* running one is resumed.
Resume(h) ==
  LET row == runs[hd[h].run] IN
  /\ hd[h].pc = "begin"
  /\ \/ row.status \in Terminal /\ Ends(h, row.status)
     \/ row.status = "running" /\ Goes(h, "acquired")
  /\ UNCHANGED <<conn, runs, jobVars, inputVars, covered>>

\* (Mutant: a running row blocks whatever its age.)
Competing_AnyAge(t) == Running(t)

\* checkCompetingRun and reclaimExpiredRuns split the running rows by age.
Competing(t) == {r \in Running(t) : runs[r].live}

\* (Mutant: expired rows are ignored rather than ended.)
Expired_Ignored(t) == {r \in Running(t) : r = NoRun}

Expired(t) == {r \in Running(t) : ~runs[r].live}

\* Another run is in progress: this one is recorded as cancelled.
Yield(h) ==
  LET t == hd[h].type IN
  /\ hd[h].pc = "begin"
  /\ runs[hd[h].run].status = "none"
  /\ Competing(t) # {}
  /\ runs' = [runs EXCEPT ![hd[h].run] = Row(t, "cancelled")]
  /\ Ends(h, "cancelled")
  /\ UNCHANGED <<conn, jobVars, inputVars, covered>>

\* Expired runs of the type are marked failed and the new run is created.
Acquire(h) ==
  LET t == hd[h].type IN
  /\ hd[h].pc = "begin"
  /\ runs[hd[h].run].status = "none"
  /\ Competing(t) = {}
  /\ runs' = [r \in RunIds |->
                CASE r = hd[h].run    -> Row(t, "running")
                  [] r \in Expired(t) -> IF Named(r) THEN Row(t, "failed") ELSE NoRow
                  [] OTHER            -> runs[r]]
  /\ Goes(h, "acquired")
  /\ UNCHANGED <<conn, jobVars, inputVars, covered>>

(***************************************************************************)
(* The body of a handler.                                                  *)
(***************************************************************************)

\* The tenant is resolved, the balance page and its flag are read, Xero is
\* asked.  A connection that is no longer active ends the run as cancelled.
Fetch(h) ==
  /\ hd[h].pc = "acquired"
  /\ \/ /\ ~conn.live
        /\ Goes(h, "fenced")
        /\ UNCHANGED faults
     \/ /\ conn.live
        /\ \E outcome \in {"ok", "partial", "failed"} :
             /\ IF outcome = "ok" THEN UNCHANGED faults ELSE Fault
             /\ hd' = [hd EXCEPT
                  ![h].pc = IF outcome = "failed" THEN "failing" ELSE "fetched",
                  ![h].outcome = outcome,
                  ![h].page = IF hd[h].type = "leave_balances" THEN conn.page ELSE 0,
                  ![h].flag = hd[h].type = "leave_balances" /\ conn.failed]
  /\ UNCHANGED <<conn, runs, jobVars, connects, manuals, covered>>

\* The fetch loop of the balances renews its heartbeat.
Heartbeat(h) ==
  /\ hd[h].pc = "fetched"
  /\ hd[h].type = "leave_balances"
  /\ runs[hd[h].run].status = "running"
  /\ runs' = [runs EXCEPT ![hd[h].run].live = TRUE]
  /\ UNCHANGED <<conn, hd, jobVars, inputVars, covered>>

\* (Mutant: the fence looks at the cancellation request alone.)
RunActive_CancelOnly(h) == ~runs[hd[h].run].cancel

\* assertRunActive, inside the transaction that advances the connection.
RunActive(h) ==
  /\ runs[hd[h].run].status = "running"
  /\ ~runs[hd[h].run].cancel

Part(h) == <<hd[h].type, hd[h].page>>

\* (Mutant: the failures of earlier pages are forgotten.)
SweepFailed_ThisPage(h) == hd[h].outcome = "partial"

\* The page's own failures, and those of the pages before it in the sweep.
SweepFailed(h) ==
  hd[h].outcome = "partial" \/ (hd[h].page # 0 /\ hd[h].flag)

LastPage(h) == hd[h].page = Pages - 1

\* (Mutant: the page after the last is not the first.)
NextPage_NoWrap(h) == hd[h].page + 1

NextPage(h) == IF LastPage(h) THEN 0 ELSE hd[h].page + 1

Commit(h) ==
  /\ hd[h].pc = "fetched"
  /\ Bound(h) /\ RunActive(h)
  /\ hd[h].type # "leave_balances"
  /\ covered' = IF hd[h].outcome = "ok" THEN covered \cup {Part(h)} ELSE covered
  /\ Goes(h, "committed")
  /\ UNCHANGED <<conn, runs, jobVars, inputVars>>

\* The balance page moves by compare-and-swap on the page that was read.
CommitPage(h) ==
  /\ hd[h].pc = "fetched"
  /\ Bound(h) /\ RunActive(h)
  /\ hd[h].type = "leave_balances"
  /\ conn.page = hd[h].page
  /\ conn' = [conn EXCEPT !.page = NextPage(h), !.failed = SweepFailed(h)]
  /\ covered' = IF hd[h].outcome = "ok" THEN covered \cup {Part(h)}
                                        ELSE covered \ {Part(h)}
  /\ hd' = [hd EXCEPT ![h].pc = "committed",
                      ![h].outcome = IF hd[h].outcome = "partial"
                                       \/ (LastPage(h) /\ SweepFailed(h))
                                     THEN "partial" ELSE "ok"]
  /\ UNCHANGED <<runs, jobVars, inputVars>>

\* The binding changed, the run was cancelled or superseded, or the page moved.
Fenced(h) ==
  /\ hd[h].pc = "fetched"
  /\ \/ ~Bound(h) \/ ~RunActive(h)
     \/ hd[h].type = "leave_balances" /\ conn.page # hd[h].page
  /\ Goes(h, "fenced")
  /\ UNCHANGED <<conn, runs, jobVars, inputVars, covered>>

\* completeRun: only a running row changes.
Completed(h, status) ==
  IF runs[hd[h].run].status = "running"
  THEN runs' = [runs EXCEPT ![hd[h].run] = Row(hd[h].type, status)]
  ELSE UNCHANGED runs

\* A success is recorded under the binding, for a run that is still running;
\* anything else is the binding error of the handler.
Succeed(h) ==
  LET status == IF hd[h].outcome = "ok" THEN "succeeded" ELSE "partial_success" IN
  /\ hd[h].pc = "committed"
  /\ IF Bound(h) /\ runs[hd[h].run].status = "running"
     THEN Completed(h, status) /\ Ends(h, status)
     ELSE UNCHANGED runs /\ Goes(h, "fenced")
  /\ UNCHANGED <<conn, jobVars, inputVars, covered>>

GiveUp(h) ==
  /\ \/ hd[h].pc = "fenced"  /\ Completed(h, "cancelled") /\ Ends(h, "cancelled")
     \/ hd[h].pc = "failing" /\ Completed(h, "failed")    /\ Ends(h, "failed")
  /\ UNCHANGED <<conn, jobVars, inputVars, covered>>

\* The process dies; the row stays as it is.
Crash(h) ==
  /\ hd[h].pc \in {"acquired", "fetched", "failing", "committed", "fenced"}
  /\ hd[h].type \in CrashIn
  /\ Fault
  /\ Goes(h, "crashed")
  /\ UNCHANGED <<conn, runs, jobVars, connects, manuals, covered>>

(***************************************************************************)
(* Manual and scheduled events: Inngest retries with the event's run id.   *)
(***************************************************************************)

FreshRun == CHOOSE r \in RunIds : Free(r)

Begin(h, t, tries) ==
  /\ \E r \in RunIds : Free(r)
  /\ hd' = [hd EXCEPT ![h] = [Idle EXCEPT !.pc = "begin", !.type = t,
                                          !.run = FreshRun, !.tries = tries]]

\* A finished row is forgotten with its last reader.
Left(h) ==
  runs' = IF runs[hd[h].run].status = "running"
          THEN runs ELSE [runs EXCEPT ![hd[h].run] = NoRow]

ManualSync(h, t) ==
  /\ hd[h].pc = "idle"
  /\ conn.live
  /\ manuals < MaxManual
  /\ manuals' = manuals + 1
  /\ Begin(h, t, Attempts)
  /\ UNCHANGED <<conn, runs, jobVars, connects, faults, covered>>

RetryEvent(h) ==
  /\ \/ hd[h].pc = "crashed"
     \/ hd[h].pc = "done" /\ hd[h].outcome = "failed"
  /\ \/ /\ hd[h].tries > 1
        /\ hd' = [hd EXCEPT ![h].pc = "begin", ![h].tries = @ - 1]
        /\ UNCHANGED runs
     \/ /\ hd[h].tries = 1
        /\ hd' = [hd EXCEPT ![h] = Idle]
        /\ Left(h)
  /\ UNCHANGED <<conn, jobVars, inputVars, covered>>

EventDone(h) ==
  /\ hd[h].pc = "done"
  /\ hd[h].outcome # "failed"
  /\ hd' = [hd EXCEPT ![h] = Idle]
  /\ Left(h)
  /\ UNCHANGED <<conn, jobVars, inputVars, covered>>

(***************************************************************************)
(* The initial import.                                                     *)
(***************************************************************************)

\* The function takes an event; one at a time runs for a connection.
StartJob ==
  /\ job.pc = "idle"
  /\ \E n \in queue :
       /\ job' = [pc |-> "people", request |-> n, tries |-> Attempts]
       /\ queue' = queue \ {n}
  /\ UNCHANGED <<conn, runs, hd, sent, inputVars, covered>>

\* Every attempt of a phase is a run of its own.
StartPhase ==
  /\ job.pc \in Types
  /\ hd[Importer].pc = "idle"
  /\ Begin(Importer, job.pc, 1)
  /\ UNCHANGED <<conn, runs, jobVars, inputVars, covered>>

AfterPhase ==
  IF job.pc = "people" THEN "leave_records"
  ELSE IF job.pc = "leave_records" \/ ~LastPage(Importer) THEN "leave_balances"
  ELSE "complete"

FailedAttempt ==
  job' = IF job.tries > 1 THEN [job EXCEPT !.tries = @ - 1] ELSE NoJob

\* A phase that did not end `succeeded' throws, and Inngest tries it again.
EndPhase ==
  /\ hd[Importer].pc \in {"done", "crashed"}
  /\ IF hd[Importer].pc = "done" /\ hd[Importer].outcome = "succeeded"
     THEN job' = [job EXCEPT !.pc = AfterPhase, !.tries = Attempts]
     ELSE FailedAttempt
  /\ hd' = [hd EXCEPT ![Importer] = Idle]
  /\ Left(Importer)
  /\ UNCHANGED <<conn, queue, sent, inputVars, covered>>

\* completeXeroInitialSync: by compare-and-swap on the request, once the roster
\* has been traversed without failures.
CompleteImport ==
  /\ job.pc = "complete"
  /\ conn.live /\ conn.request = job.request
  /\ ~conn.completed /\ conn.page = 0 /\ ~conn.failed
  /\ conn' = [conn EXCEPT !.completed = TRUE]
  /\ job' = NoJob
  /\ UNCHANGED <<runs, hd, queue, sent, inputVars, covered>>

\* Otherwise the stored completion is returned, or the step throws.
CompletionRefused ==
  /\ job.pc = "complete"
  /\ ~(conn.live /\ conn.request = job.request
        /\ ~conn.completed /\ conn.page = 0 /\ ~conn.failed)
  /\ IF conn.live /\ conn.request = job.request /\ conn.completed
     THEN job' = NoJob
     ELSE FailedAttempt
  /\ UNCHANGED <<conn, runs, hd, queue, sent, inputVars, covered>>

\* dispatchInitialXeroSync, for an event id that is not remembered; with a
\* remembered one Inngest starts nothing.
Dispatched(n) ==
  /\ queue' = queue \cup {n}
  /\ sent' = TRUE

\* A company is connected, or connected again: a new request, a new sweep.  The
\* dispatch after the commit may be lost.
Connect ==
  /\ connects < MaxConnects
  /\ connects' = connects + 1
  /\ conn' = [live |-> TRUE, request |-> connects + 1, completed |-> FALSE,
              page |-> 0, failed |-> FALSE]
  /\ covered' = {}
  /\ \/ Dispatched(connects + 1)
     \/ sent' = FALSE /\ UNCHANGED queue
  /\ UNCHANGED <<runs, hd, job, manuals, faults>>

Disconnect ==
  /\ conn.live
  /\ Fault
  /\ conn' = [conn EXCEPT !.live = FALSE, !.request = 0, !.completed = FALSE,
                          !.page = 0]
  /\ UNCHANGED <<runs, hd, jobVars, connects, manuals, covered>>

\* recoverXeroImportDispatch, on the scheduler's cron: a people run that is
\* running, of whatever age, means the import is under way.
RecoverImport ==
  /\ conn.live /\ ~conn.completed
  /\ Running("people") = {}
  /\ ~sent
  /\ Dispatched(conn.request)
  /\ UNCHANGED <<conn, runs, hd, job, inputVars, covered>>

\* Inngest keeps an event id for a day.
ForgetEvent ==
  /\ sent /\ conn.request \notin queue
  /\ sent' = FALSE
  /\ UNCHANGED <<conn, runs, hd, job, queue, inputVars, covered>>

(***************************************************************************)
(* Administrators and time.                                                *)
(***************************************************************************)

RequestCancel(r) ==
  /\ runs[r].status = "running" /\ ~runs[r].cancel
  /\ Fault
  /\ runs' = [runs EXCEPT ![r].cancel = TRUE]
  /\ UNCHANGED <<conn, hd, jobVars, connects, manuals, covered>>

Expire(r) ==
  /\ runs[r].live
  /\ runs' = [runs EXCEPT ![r].live = FALSE]
  /\ UNCHANGED <<conn, hd, jobVars, inputVars, covered>>

HandlerStep(h) ==
  \/ Resume(h) \/ Yield(h) \/ Acquire(h)
  \/ Fetch(h)
  \/ Commit(h) \/ CommitPage(h) \/ Fenced(h)
  \/ Succeed(h) \/ GiveUp(h)

EventStep(h) == RetryEvent(h) \/ EventDone(h)

JobStep == StartJob \/ StartPhase \/ EndPhase \/ CompleteImport \/ CompletionRefused

Next ==
  \/ \E h \in Handlers : HandlerStep(h) \/ Heartbeat(h) \/ Crash(h)
  \/ \E h \in Manual : EventStep(h) \/ \E t \in ManualTypes : ManualSync(h, t)
  \/ JobStep
  \/ Connect \/ Disconnect \/ RecoverImport \/ ForgetEvent
  \/ \E r \in RunIds : RequestCancel(r) \/ Expire(r)

Spec == Init /\ [][Next]_vars

\* Processes that are not killed go on, Inngest delivers and retries, the
\* scheduler's cron comes round, event ids are forgotten and time passes.
Fairness ==
  /\ \A h \in Handlers : WF_vars(HandlerStep(h))
  /\ \A h \in Manual : WF_vars(EventStep(h))
  /\ WF_vars(JobStep)
  /\ WF_vars(RecoverImport)
  /\ WF_vars(ForgetEvent)
  /\ \A r \in RunIds : WF_vars(Expire(r))

FairSpec == Spec /\ Fairness

(***************************************************************************)
(* Properties.                                                             *)
(***************************************************************************)

\* The run rows are a lease for each type, and the transactions of the handlers
\* respect it: the detailed system implements RunLease.  A late handler whose
\* run was reclaimed, cancelled or completed never moves a cursor or a page.
Holder(t) == IF Running(t) = {} THEN NoRun ELSE CHOOSE r \in Running(t) : TRUE

Lease == INSTANCE RunLease WITH
  Runs    <- RunIds,
  holder  <- [t \in Types |-> Holder(t)],
  current <- [t \in Types |-> \E r \in Running(t) : runs[r].live],
  moved   <- [t \in Types |-> {hd[h].run : h \in {g \in Handlers :
                                hd[g].pc = "committed" /\ hd[g].type = t}}]

LeaseSpec == Lease!Spec

\* At most one run of a type is running, although rows are left behind by dead
\* handlers and taken over by later ones.
OneRunPerType == \A t \in Types : Cardinality(Running(t)) <= 1

\* An import is completed only at a moment when people, leave and every page of
\* the balance roster have been imported without a failure since the request
\* it completes; a reconnection, a manual sync or a failed page in between
\* does not let an older sweep count.
CompletionCoversRoster ==
  [][conn'.completed /\ ~conn.completed
       => Roster \subseteq covered]_vars

\* A saved connection that stays connected is imported in the end: a lost
\* dispatch, a failed phase or a worker that died is made good by the retries
\* and by the scheduler's recovery.
ImportCompletes ==
  \A n \in 1 .. MaxConnects :
    (conn.live /\ conn.request = n) ~>
      (conn.completed \/ ~conn.live \/ conn.request # n)
=============================================================================
