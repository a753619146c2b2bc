# Team Calendar: verification project

TLA+ models of Team Calendar's server-side logic, the TLC configurations that check
them, and TLAPS proofs about them. Paths are relative to the repository root.

Team Calendar keeps a company's leave and availability, writes leave decisions back to
Xero payroll, imports what payroll knows, and publishes the result as calendar feeds.
Its hard part is that one decision lives in two systems that share no transaction: the
PostgreSQL record and the Xero leave application. That is what is modelled first.

```
tlasany LeaveWrite.tla
tlc -workers 2 -config approval_race.cfg MCLeaveWrite
tlapm LeaveWriteProofs.tla
```

## 1. Inventory

| Component | State it keeps | Operations | What makes it correct |
|---|---|---|---|
| Outbound write journal and record claim (`packages/database/src/queries/outbound-operations.ts`, `packages/availability/src/xero-write-claim.ts`) | `OutboundOperation` row per record and action: status, attempt generation, idempotency key, known remote id, side-effect lease. `xero_write_claimed_at` on the record | claim, dispatch started, accepted, outcome unknown, definitive failure, completed, lease acquire, release, fence | one unresolved row; one attempt matches the row; a key is minted only when the previous one is resolved |
| Leave decisions (`approvals/approval-service.ts`, `plans/submit-service.ts`, `plans/write-operation.ts`) | `AvailabilityRecord`: approval status, `derived_sequence`, `source_remote_id`, failed action | submit, approve, decline, withdraw, revert a failed attempt, retry | record and payroll agree once nothing is unresolved; no duplicate and no lost leave |
| Administrator recovery (`plans/submit-recovery-service.ts`) | none of its own | attach a Xero application, resolve as not created | every uncertain operation can be resolved, as payroll has it |
| Side effects (`plans/submit-side-effects.ts`) | checkpoint audit rows, lease on the journal row | publish, notify, send in real time, complete | told once, completed only when done, done in the end |
| Xero HTTP call (`packages/xero/src/rate-limit/xero-fetch.ts`, `au/write.ts`, `write/dispatch.ts`) | none; retries with one key inside a deadline | send, retry, classify | an ambiguous attempt is never reported as a definitive failure |
| Xero admission (`packages/xero/src/rate-limit/`) | Redis windows, concurrency leases, daily budget | reserve, release, observe headers | limits hold under lost answers and late releases |
| Inbound leave sync (`packages/jobs/src/handlers/sync-xero-leave-records.ts`) | imported records, source snapshots | load, create, update, archive stale | no stale overwrite, no second card, no live leave archived |
| Approval reconciliation (`reconcile-xero-approval-state.ts`) | checked-at stamps | read Xero, transition | no transition over a newer decision |
| Sync runs, cursors, initial import (`sync-run-lifecycle.ts`, `queries/xero-sync-cursors.ts`, `initial-xero-sync.ts`) | `SyncRun`, `XeroSyncCursor` | acquire, reclaim, assert active, finalise, advance | one run owns a connection's type; a cursor skips nothing |
| Xero connection (`packages/xero/src/oauth/`, `database/src/xero-locks.ts`) | connection, grant, encrypted tokens | connect, refresh, disconnect, remove | one refresh at a time; no orphaned uncertain operation |
| Publication and feeds (`packages/feeds/src/`) | `AvailabilityPublication`, feed representation ledger, etag, cache | materialise, rebuild, render, invalidate | sequences never go back; an etag names what was served |
| Feed tokens (`tokens/token-service.ts`) | token hashes | issue, rotate, revoke | at most one active token |
| Notifications (`packages/notifications/src/`) | notification, e-mail queue, Redis stream | dispatch, drain, stream | at most once per decision |
| Plans, manual records, calendar | records that never go to Xero | create, edit, archive, restore | refused while a write is claimed or unresolved |
| People and access | people, links to Clerk users and Xero employees | edit, match, invite | unique links |
| Billing (`apps/api/lib/stripe-event-delivery.ts`) | Stripe event claims, subscription state | deliver, retry, recount | an older event does not win |
| API routes, request limits | counters per window | thin | - |
| Web applications, design system, e-mail templates, marketing | user interface | - | - |

How they meet. The web application calls the decision services; those journal the write,
call the Xero package, commit the record, and run the side effects, which call the
publication and notification packages. Scheduled jobs sync and reconcile the same
records. A second path, the administrator's recovery, finishes operations the first left
behind. They share PostgreSQL (READ COMMITTED by default, row locks and compare-and-set
updates as the only guards) and no in-process state, so every hazard is an interleaving
of transactions and calls. The behaviours that are hard: a lost answer of a create, an
idempotency key that expires while a retry is under way, a claim that times out while its
holder still works, a process that dies between Xero's answer and the local commit, and
two people acting on one request. `PROJECT.json` lists each with its line.

## 2. Plan

The order follows what an error costs: first what payroll and the calendar may disagree
about, then what keeps the calendar current, then what subscribers see.

1. **Done.** `LeaveWrite` (journal, decisions, recovery, Xero call, the import race), which
   implements the abstract `DecisionWrite`, and `WriteSideEffects`. Proofs in
   `LeaveWriteProofs` (types, one unresolved row, fenced attempts), `LeaveWriteCommitProofs`
   (record and journal), `LeaveWritePayrollProofs` (journal and payroll, the refinement) and
   `WriteSideEffectsProofs`.
2. **Done.** The systems around the record:
   - `SyncRuns`: run rows, reclaim, cancellation, fenced completion, the balance sweep, the
     initial import with its retries and recovery, connect and disconnect. It implements the
     abstract lease `RunLease`, which is proved in `SyncRunsProofs`; that a completed import
     covers the roster is proved in `ImportCoverageProofs`.
   - `LeaveSync`: one leave in Xero and its record, under two syncs, a reconciliation, a
     decision, edits in Xero and a destructive disconnect. It relies on two promises made
     elsewhere: that a run which lost its lease is stopped by its last transaction
     (`SyncRuns`), and that a decision holds the record until its outcome is known
     (`LeaveWrite`). Its properties are proved in `LeaveSyncProofs`.
   - `Feeds`: the feed ledger, rendering, etag and body cache, life cycle and tokens, with
     `FeedsProofs`.
3. **Left.** Every safety property of the runs has its theorem (section 10); two hypotheses
   remain to be examined there: what survives of the payroll theorems when payroll staff edit
   leave in Xero, and an abstract specification for `Feeds` and `LeaveSync` as there is one
   for `LeaveWrite` and `SyncRuns`. Then the components of section 11 that no module has:
   admission of Xero calls, token rotation, billing events, the e-mail queue.

## 3. LeaveWrite

One record, its journal rows, the handlers that work on it, the administrator, the leave
sync, and Xero. One transaction of the code is one action; what a handler read before a
transaction stays in its own record, as in the code's local variables.

| Variable | In the code |
|---|---|
| `rec` | the `AvailabilityRecord` row: `approval_status`, `failed_action`, `derived_sequence`, `source_remote_id`, `source_type`, and `xero_write_claimed_at` as `claim` (who) and `lease` (how old) |
| `op` | the `OutboundOperation` row of each action; `none` before its first attempt |
| `open` | keys whose five-minute replay window runs (`idempotency_first_dispatched_at`, `idempotency_replay_before`) |
| `wrk` | handlers of `approve`, `decline`, `withdrawSubmission`; `pc` says between which two transactions |
| `adm` | one request of the recovery screen |
| `net`, `app`, `done`, `posted` | external: requests under way, applications, processed keys, number of creates that took effect |
| `sync`, `imported` | the leave sync between its load and its create, and the records it created |

| Actions | Code |
|---|---|
| `Load`, `Conflict`, `AcquireLocalClaim`, `PrepareAndClaim` | reads and checks, then `acquireXeroWriteClaim` (local) or `claimSubmitOperation` (journal row, record claim and generation in one transaction) |
| `DispatchStarted`, `DispatchRefused` | `markSubmitDispatchStarted`: the outcome is unknown before the request leaves |
| `Send`, `NotSent`, `LoseAnswer`, `XeroAccepts`, `XeroRefuses` | the attempts of `xeroFetch` and the provider |
| `RecordAccepted`, `RecordFailure`, `PersistFailure`, `Commit` | `markSubmitProviderAccepted`, `recordXeroWriteOutcome`, `persistXeroFailure` / `persistApprovalFailure`, the commit transactions |
| `CompleteEffects`, `AdminEffects` | `completeXeroWriteSideEffects` seen from outside: completes or is left; `WriteSideEffects` has the inside |
| `Throw`, `Crash` | the catch blocks that release the claim; the death of the process |
| `AdminOpen`, `AdminMarkAccepted`, `AdminMerge`, `AdminVerify`, `AdminNotCreated`, `AdminCrash` | `attachSubmitRecoveryCandidate`, `resolveSubmitAsNotCreated` |
| `Submit`, `RevertApprovalAttempt` | `transitionLocalSubmission`, `revertApprovalAttempt` |
| `SyncLoad`, `SyncApply` | `loadExistingRecordsBySourceRemoteId` and the create of `processLeaveRecord` |
| `ExpireClaim`, `CloseWindow`, `EditInXero` | time, and payroll staff in Xero's own screens |

Abstractions. Timestamps become "live", "expired", "open" and "closed", ended at any
moment, so every ordering of the two five-minute clocks is checked. A key is the number
of the generation that minted it. Checks that write nothing (authorisation, descriptor,
mapping, connection) are one refusal. Bounds: `MaxGeneration` attempts per action, and
`posted` counts to two.

Assumptions about what is outside the code:

- Xero answers a key it processed inside the replay window from memory, also when the
  request arrives somewhat after the window (time of flight). A request that *leaves*
  after the window gets no such promise; the code's window is chosen for that.
- Xero takes a request only in the states of `Applicable`. Any request may be refused,
  lost or answered late.
- `EvidenceWaits`: an administrator declares an operation not created after looking into
  Xero when no request of it is under way and its window is closed. The code asks only
  for `outcome_unknown`; with the assumption off, `OneLeavePerRequest` fails (the create
  may arrive after a new key was allowed). It is a rule of operation the recovery screen
  relies on, and is listed under the hazards as one that no property covers: no run can
  show what the assumption keeps out.

### Properties

| Property | Meaning |
|---|---|
| `TypeOK` | the type invariant |
| `SingleUnresolved` | at most one journal row of the record is unresolved |
| `FencedAttempts` | two handlers never hold the same attempt |
| `OneLeavePerRequest` | payroll holds one leave, whatever was resent, replayed or resolved |
| `NoLostLeave` | a leave in payroll is on the record or still recoverable under its key |
| `NoLateLeave` | a request declined or withdrawn before Xero saw it stays out of payroll |
| `DecisionMatchesPayroll` | when nothing is unresolved, record and application agree |
| `CompletedIsCommitted` | a completed operation has its decision on the record |
| `WriteSpec` | the decisions implement `DecisionWrite` |
| `RecoveryCompletes` | an operation Xero may have processed is resolved in the end |
| `OneCardPerLeave` | one live record shows an application (violated, see findings) |

`DecisionWrite` is the promise in seventy lines: each decision's write is begun while no other
is unresolved (`Begin`), takes effect at any time but once (`TakeEffect`), is given up only if
it has not (`GiveUp`, after which it may be begun anew), is recorded as accepted only when it
has (`Accept`), and is closed only when recorded (`Complete`); the leave moves by these effects
alone. `LeaveWrite` maps `write` to the status of the journal row together with Xero's memory
of its key (`WriteState`: an uncertain row is "pending" or "effective" according to whether
Xero has processed the key the row has now) and `leave` to the request's application
(`LeaveState`). Handlers, claims, generations, windows, replays and the administrator do not
appear: all their steps are steps of these five or change nothing. The refinement says that
payroll is not edited by others, so the runs that check it have `PayrollEdits` off.

## 4. WriteSideEffects

The work after the commit, run by the handler and by every administrator who attaches the
operation again (`Finishers`). Its lease (`side_effect_claimed_at`) is given back by a
failure and outlived by a slow or dead holder; the notification transaction is three
actions because READ COMMITTED lets others in, and `lock` is the row lock its fence
takes. Publication is an upsert and may happen twice. The journal row stays in one
generation: a row is replayed only while its record awaits a decision, which a committed
record no longer does.

Properties: `NotifiedOnce`, `OnlyHolderNotifies` (action property: the creator of the
notification holds the lease at that step), `CompletedIsFinished`, `EffectsComplete`.

The module justifies two things in `LeaveWrite`: that `CompleteEffects` and
`AdminEffects` are single steps that may be abandoned and repeated, and the fairness of
`AdminEffects`.

## 5. SyncRuns and RunLease

The `SyncRun` rows of one connection, the handlers that acquire them, and the import built
from them. One transaction is one action; what a handler read stays in `hd`.

| Variable | In the code |
|---|---|
| `conn` | the `XeroConnection` row: active, `initial_sync_requested_at` (as a number), completed, the balance cursor and `balance_sweep_failed` |
| `runs` | the `SyncRun` rows: type, status, `cancel_requested_at`; `live` is "younger than thirty minutes" by start or heartbeat |
| `hd` | the handlers of people, leave records and balances: page and flag as read, outcome so far |
| `job`, `queue`, `sent` | the Inngest function `initial-xero-sync`, its events, and Inngest's memory of event ids |
| `covered` | history: what was imported without failure since the present request |

| Actions | Code |
|---|---|
| `Resume`, `Yield`, `Acquire` | `acquireSyncRunLocked`: a duplicate delivery, a competing run, reclaim and create |
| `Fetch`, `Heartbeat` | the tenant and the page are read, Xero is asked |
| `Commit`, `CommitPage`, `Fenced` | the last transaction of a handler, under `withXeroBinding` and `assertRunActive`; for balances the page moves by compare-and-set (`advanceCursor`) |
| `Succeed`, `GiveUp` | `completeRun` with success, cancellation or failure |
| `ManualSync`, `RetryEvent`, `EventDone` | events, with the run id in the event |
| `StartJob`, `StartPhase`, `EndPhase`, `CompleteImport`, `CompletionRefused` | `executeInitialSync` and `completeXeroInitialSync` |
| `Connect`, `Disconnect`, `RecoverImport` | the connection's row on connecting and disconnecting; the cron `recoverXeroImportDispatch` |
| `RequestCancel`, `Expire`, `Crash`, `ForgetEvent` | an administrator, time, death of a process, Inngest |

`RunLease` says in thirty lines what the rows promise: for each type a lease, taken only
when free or run out, and what it protects moved only by its holder. `SyncRuns` maps the
running row to the holder, its age to `current`, and the handlers that have committed to
`moved`.

Not in the module: the run type `approval_state_reconciliation` (it is acquired by the same
function and commits record by record, as in `LeaveSync`), the times of the periodic schedule,
and the rows a handler upserts before its last transaction.

Properties: `TypeOK`; `OneRunPerType`; `CompletionCoversRoster` (the step that completes an
import is taken only when every part of the roster was imported without a failure under this
request); `LeaseSpec`; `ImportCompletes`.

## 6. LeaveSync

One application in Xero (`app`) and its record (`rec`). Times are numbers: `clock` is the
servers', Xero's lags by `Skew`; `src`, `hash` and `upd` are `source_last_modified_at`,
`source_remote_hash` and `updated_at`. `known` is a history variable: the moment in the
application's life the record reflects.

| Actions | Code |
|---|---|
| `Start`, `Acquire`, `Fetch` | start time taken, run acquired, cursor read and list fetched (full, or modified since the cursor less two minutes) |
| `LoadExisting`, `ProcessLeaveRecord`, `RecordFailure` | `loadExistingRecordsBySourceRemoteId`, `processLeaveRecord` with `decideRemoteSnapshot` and its compare-and-set, a failed record |
| `Finalise`, `Stop` | the last transaction: `archiveStaleRecords`, `advanceXeroSyncCursor`, under the lease; or the end where it is |
| `LoadForCheck`, `FetchStatus`, `Reconcile`, `AbandonCheck` | `reconcileOne`: the record, the request to Xero, `transitionRecord` / `archiveMissing` or the check's time alone |
| `Decide`, `XeroAccepts`, `XeroRefuses`, `CommitDecision`, `PersistRefusal`, `RevertApprovalAttempt` | a write of `LeaveWrite` seen from here: it holds the record from claim to commit |
| `DisconnectAndPurge`, `Reconnect` | destructive disconnect, and the same payroll file connected again |
| `EditInXero` | payroll staff and employees, in Xero's own screens |

A run's lease may be taken over at any moment, so a run that lost it goes on beside its
successor; only `Finalise` asks for it. A fetch is one step: applications do not move
between pages while it lasts (see the hazard at `sync-xero-leave-records.ts:1290`), and a
404 means the application is gone.

An application goes in two ways. It may no longer be there at all: a full sync then finds it
missing from its list, and the reconciliation gets a 404. Or Xero lists it with the status
DELETED: a sync maps that to the record's status "cancelled" and archives the record in the
same write (`mapApprovalStatus`, `processLeaveRecord`), and the reconciliation, which passes
over cancelled records, treats it as a withdrawal. `Gone` is either of the two, and
`ArchivedIsGone` says that only leave that is gone is archived.

Properties: `TypeOK` (with the rule which failures a status may carry); `NothingMissed` (an
application the calendar does not show as Xero has it is still in the next delta);
`ArchivedIsGone`; `NeverOlder` (a record never goes back to an earlier state of its
application); `FullSyncShows` (violated, see findings). `NothingMissed` says "in the next
delta", not "applied by the next run": a run may defer it again.

## 7. Feeds

One feed and the one event it projects.

| Variable | In the code |
|---|---|
| `feed` | the `Feed` row: status, `archived_at`, name, `representation_generation`, `representation_hash`, `last_etag` |
| `tokens`, `lock` | the `FeedToken` rows; the feed's row lock taken by `lockFeedForTokenChange` |
| `ledger` | the `FeedEventPublication` row: known, present, sequence, content |
| `cache` | bodies in Redis, by etag |
| `rdr`, `adm` | renderers (subscribers and the rebuild job) and administrators between two transactions |
| `event` | what the projection says now |
| `shown` | history: what a subscriber got last |

| Actions | Code |
|---|---|
| `Snapshot`, `Confirm` | `establishFeedRepresentation`: one SERIALIZABLE transaction reconciles the ledger and starts a new generation if the representation changed |
| `Open`, `Body`, `Persist`, `Store`, `Serve`, `NotFound` | `renderFeedAttempt`, `bodyForRepresentation`, `persistRenderedMetadata`, the rebuild job's update of the etag, the cache, the last check of the token |
| `Read`, `Write` | pause, resume, archive, restore: read without a lock, update by id |
| `Read`, `Rename` | `updateFeed` with a new name: read without a lock, update by id, nothing invalidated |
| `LockAndCheck`, `Insert`, `Revoke` | `issueToken`, `rotateToken`, `revokeToken` |
| `Edit`, `Evict` | whatever changes the projection (scopes, privacy, availability); expiry in Redis |

A digest is the thing it digests, so an etag is equal for equal name, content and sequence and
for nothing else. The feed's name is in the digest of the representation and not in that of the
event, as in the code (`feed-representation.ts:175-184` and `:241-253`): a new name begins a
new generation and leaves the event's sequence as it is. A renderer that finds another
representation at its confirmation starts again or gives up (the code does at the third time).

Properties: `TypeOK`; `ArchivedHasNoToken`; `EtagIsCurrent` (a stored etag is that of the
current representation); `ServedIsCurrent` (what a subscriber gets, name and event together,
was the feed at some moment of its request); `SequenceRises` (an event a subscriber sees
differently has a higher sequence).

## 8. Runs

| Run | Instance | Shows |
|---|---|---|
| `approval_race` | 2 handlers (symmetric), approve and decline, local request, 3 generations, administrator, payroll edits | `OneLeavePerRequest`, `FencedAttempts`, `NoLostLeave`, `NoLateLeave` |
| `handler_race` | 2 handlers, all three actions, local and imported, 2 generations, no administrator | `TypeOK`, `SingleUnresolved`, `DecisionMatchesPayroll`, `WriteSpec` |
| `recovery` | 1 handler, all actions, both origins, 1 generation, administrator, leave sync, fairness | `NoLostLeave`, `DecisionMatchesPayroll`, `CompletedIsCommitted`, `WriteSpec`, `RecoveryCompletes` |
| `side_effects` | 3 finishers, fairness | the four properties of `WriteSideEffects` |
| `duplicate_import` | 1 handler, approve, leave sync | `OneCardPerLeave` is violated |
| `edited_in_xero` | 1 handler, approve, administrator, payroll edits, fairness | `RecoveryCompletes` is violated |
| `import` | the import and one manual balance sync, 3 runs, 2 pages, 2 attempts, 2 connects, 1 fault of any kind in any phase | `TypeOK`, `OneRunPerType`, `CompletionCoversRoster`, `LeaseSpec` |
| `import_completes` | the same, one connect, manual people and balance syncs, workers of leave and balances may die, fairness | `ImportCompletes` |
| `import_recovery` | the import alone, the worker of people may die, fairness | `ImportCompletes` is violated |
| `leave_sync` | 2 syncs (symmetric), 2 starts, slack 2, skew 2, 2 events among edits, decisions, checks and disconnects, both origins | `TypeOK`, `NothingMissed`, `ArchivedIsGone`, `NeverOlder` |
| `purge_reconnect` | the same with an imported leave and one event | `FullSyncShows` is violated |
| `feeds` | 1 subscriber, 1 job, 2 administrators, 2 tokens, 2 contents, 2 names, 2 edits (of the event or the name), 2 operations, 2 requests | `TypeOK`, `ArchivedHasNoToken`, `EtagIsCurrent`, `ServedIsCurrent`, `SequenceRises` |

Bounds. A race for one claim and one key needs two handlers: the one that lost its lease
and the one that took over. Three generations let an attempt be lost, replayed and
followed by a new key (which needs the replay's failure to be resolved by the
administrator). With two generations all three actions fit, including a withdrawal after
an approval. For liveness one handler is enough, because handlers have no fairness there:
it may stop at every step, and the administrator must finish from whatever is left. Three
finishers let a second take over from the first and a third from the second while the
first wakes up again. Handlers are interchangeable and the properties of the safety runs
are invariants, action properties or a refinement that does not name a handler, so symmetry is
sound; the runs with liveness use none.

`import`: three run rows are the worker of the import, the manual one and a row left behind
by a dead worker; two pages are the fewest a sweep can fail half way through; two connects
let work of the first request arrive under the second. `leave_sync`: two runs are a slow one
and its successor; two events are a change after a fetch and one more before it is applied
(three pass as well, in three minutes). Slack equal to skew is the tightest case the code
allows for; with a smaller slack `NothingMissed` fails, as it must. `feeds`: with two edits
an event can change, vanish and come back; two requests are a slow writer and a fast one.
Symmetry is over runs, contents, names and administrators.

`CHECK_DEADLOCK FALSE`: a decision may be final, and bounds on generations, events and
requests end the attempts.

Why the runs separate payroll edits, import and the administrator: `DecisionMatchesPayroll`
is a statement about the program's own writes, and payroll staff may change a leave
afterwards until the next sync or reconciliation (`LeaveSync`). `RecoveryCompletes` holds
without payroll edits and fails with them (a finding).

Fairness. `LeaveWrite`: none for handlers, which may die for good. Weak fairness for the
end of a window, for the arrival or loss of a request, and for the administrator
beginning with an operation that waits; strong fairness for the administrator's later
steps, because each attempt may fail and be begun anew (an administrator who keeps
attaching an operation succeeds once no failure intervenes). `WriteSideEffects`: weak
fairness for the steps of a request (each transaction has a timeout), for the end of a
lease, and for somebody taking the operation up; and eventually no more failures. Without
that last assumption a notification that always fails would keep the operation open for
ever, rightly.

`SyncRuns`: weak fairness for the next step of a handler
that has not died, for the retries and the delivery of events by Inngest, for the steps of the
import's function, for the recovery cron, for Inngest forgetting an event id after a day, and
for the end of a lease. None for manual syncs, heartbeats, connects or faults, and the number
of faults is bounded: an import whose every fetch fails never completes, rightly.

Every property of a passing run has a mutant in `PROJECT.json`: a plausible bug in one
mapped definition, written beside it (`NoOtherUnresolved_Dropped`,
`Candidate_ById`, `LockFor_ReadOnlyFence`, ...), under which TLC finds the property
violated.

## 9. Findings

1. **A leave gets a second card** (`duplicate_import`). The leave sync looks up the
   records of a batch, then creates one for every application without one. An approval
   writes the application's identifier to its own record only in the transaction after
   Xero's answer, and the unique key distinguishes `source_type`. An application fetched
   in between is imported as a second live record. The recovery screen archives such a
   duplicate; the ordinary commit does not.
2. **An accepted operation that cannot be recovered** (`edited_in_xero`). An approval is
   committed, its side effects fail, and payroll staff reject the leave in Xero. The
   attach now computes the target "declined", so the record is not taken as already
   attached, and the merge asks for a record without a remote identifier, which it has.
   Resolving it as not created asks for another status. The operation stays
   `provider_accepted` and blocks the record.
3. **An import nobody takes up again** (`import_recovery`). The recovery job skips a connection
   whose people run is marked running, of whatever age; a run is reclaimed only by another
   acquisition of its type; the retries of the import use fresh runs and are cancelled as
   competing while the dead run is young; and the schedule takes only completed connections.
   A worker that dies in the people phase, with the retries over within thirty minutes, leaves
   the import requested for good, although `PRODUCT.md:588` says the scheduler's recovery
   redispatches it. A worker that dies later does not (`import_completes`).
4. **A purged leave that a full sync does not bring back** (`purge_reconnect`). A destructive
   disconnect archives imported leave and keeps its snapshot's time and hash; after the
   reconnect the full sync takes the same snapshot as a duplicate without looking at
   `archived_at`. `PRODUCT.md:588` promises a new full reconciliation.

Observed while reading, and not a run of their own:

- Pause and resume check that a feed is not archived and then update it by id
  (`feed-service.ts:1070-1087`). With an archive in between, the feed is active or paused with
  `archived_at` set: restore asks for status archived, everything else refuses `archived_at`,
  and no operation leads out. The state is reachable in `Feeds`.
- The comment at `rebuild-feed-cache.ts:92` says the cached body is dropped. The keys deleted
  (`feed-cache.ts:81-104`) are `feed:<id>:<privacy mode>`, the keys written `feed:<id>:<etag>`:
  nothing is dropped. It does no harm, since a body is only reached through the current etag.
- An application missed by a list whose pages shifted, or by a passing 404 in the
  reconciliation, is archived and then, unchanged, a duplicate for every later sync.
- Inngest retries a failed manual sync with the run id of its event, so the retry finds the
  failed run, takes its outcome and does nothing.
- A disconnect does not reset `balance_sweep_failed` (a connect does), so nothing depends on it.

## 10. Proofs

For any set of handlers or finishers, any bound and any combination of switches, from the
constants' assumptions (`WorkerAssumption` says the empty claim is no handler,
`GenerationAssumption` that at least one attempt is allowed, and so on) and nothing else,
except in `LeaveWritePayrollProofs`, whose two hypotheses are stated in its theorems:

`LeaveWriteProofs`

- `TypeCorrect`: `[]TypeOK`. `TypeOK` is not inductive: an action stores a handler's
  action, key or application in the journal or in a request, and the types alone allow a
  working handler to have none. `TypeInv` adds `HandlerInv` (a handler at work has an
  action; one with an attempt has a key and an application), `JournalInv` (an unresolved
  row has a key) and `ImportInv`. There is one lemma for each part of `Next`.
- `OneUnresolvedRow`: `[]SingleUnresolved`. `NextKeepsOrPrepares` says that each step but
  `PrepareAndClaim` only resolves rows and ends attempts (`RowsKept`, `AttemptsKept`), and
  `PrepareOpens` that the claim opens a row only when no other is open.
- `AttemptsFenced`: `[]FencedAttempts`. Strengthened by `NoAttemptAhead`: no attempt's
  generation is above its row's. The claim raises the row's, so it hands out a generation
  nobody has.

`LeaveWriteCommitProofs`, with no hypothesis

- `DecisionInvariant`: `[]DecisionInv`, which ties the record to the journal, one conjunct for
  each place where the tie could break. `RecordInv`: what a record of each source can look like.
  `WorkInv`: what a handler loaded, as far as it stays true when others commit (`LoadInv`),
  that the row of a handler's generation has the handler's key and outcome (`AttemptInv`), and
  what it may persist (`PersistInv`). `RowInv`, `PayrollInv`: keys, identifiers and
  requests under way belong to the record. `AdminInv`: the same for the administrator, whose
  merge trusts reads made two transactions before. `CommitInv`: a row is completed, and a
  handler or administrator is at its side effects, only when the decision is on the record.
- `ClosedOnCommit`: `[]CompletedIsCommitted`, its corollary. The property alone is not inductive: a
  completion looks at the row's generation and status and not at the record, so it is
  right only because of what everybody who can complete it has already committed. The hard
  cases are the administrator, who commits without holding the claim, and a withdrawal after a
  completed approval, the one pair of rows where a closed row's record may still change.

`LeaveWritePayrollProofs`, under `CarefulRecovery` (`Recovery => EvidenceWaits`: the administrator
declares an operation not created only when it is at rest; see section 3. Without it TLC
finds `OneLeavePerRequest` violated, so it cannot be left out. The code does not enforce it.)

- `LeaveInvariant`: `[]LeaveInv`, the life of an idempotency key. `KeyInv`: only the key the row
  has now can have been processed or be under way, and only while the row says it may have
  been; a handler that can still send has that key. `SoleInv`: a handler that holds the attempt and did not replay
  knows all there is to know of its key, so its refusal is definitive. `EvidenceInv`: the
  administrator's evidence stays true until it is used or the row has moved on. `RequestInv`,
  `CreateInv`: which leave requests and rows name. `UnsentInv`: a local decision leaves no
  approval to come.
- `OneLeaveHolds`, `NoLostLeaveHolds`, `NoLateLeaveHolds`: `[]OneLeavePerRequest`,
  `[]NoLostLeave`, `[]NoLateLeave`. Payroll staff may edit applications meanwhile.
- `PayrollInvariant`, `DecisionMatchesHolds`, `WriteSpecHolds`, with `~PayrollEdits` as well, since
  what payroll staff decide in Xero is not on the record until a sync (`LeaveSync`). `AppInv`: the
  state of an application is a function of the requests processed for it. `DoneInv`: an
  accepted or completed row's key was processed. `[]DecisionMatchesPayroll` follows from both
  and `DecisionInv`; the refinement of `DecisionWrite` step by step. `EffectRefines` is its
  heart: Xero's processing of a request finds the row uncertain under that very key, so
  it is the one `TakeEffect` of that write. `RowRefines` says what each change of a row is.

`WriteSideEffectsProofs`

- `NoticesAtMostOnce` and `NoticesFenced`, from `LockInv` (the row lock is held exactly by
  the finisher in its notification transaction, which is then the lease's holder, since
  nobody can take the lease over while the row is locked) and `NoteInv` (whoever creates
  has seen no checkpoint; without a checkpoint nothing was created).
- `CompletionSound`, from `WorkInv`: what each finisher may rely on where it is.

`SyncRunsProofs`, for any number of handlers, runs, pages and any bounds

- `TypeCorrect` and `OneRunPerTypeHolds`, from `Inv`: `LeaseInv` (two rows of a type are
  never both running, only a running row is young, and handlers at work have rows of their own
  of their own type), `PageInv` (only balances have pages) and `RequestInv` (a connected company
  has a request). The steps are first classified by what they do to the rows (`Acquire`, `Advances`,
  `Finishes`, `Begins`, `Leaves`, ...), and the invariant is proved for each class.
- `LeaseSpecHolds`: every step is a step of `RunLease` or changes none of its variables, under
  the mapping above. The work is in the acquisition, where expired rows give up the lease and
  the new row takes it in one step, and in the commits, where the fence makes the handler's row
  the holder's.

`ImportCoverageProofs`, on the same assumptions

- `CompletionCoversRosterHolds`: the step that completes an import finds people, leave and every
  page of balances covered under its request. The invariant `CoverInv` adds to `Inv`:
  `SweptInv` (while no page of the sweep has failed, every page behind the cursor is covered),
  `FlagInv` (a sync that may still commit its page read the sweep's flag as it still is, which
  holds because no other run of the type can commit between, by `OneRunPerType`), `AgeInv`
  (requests are numbered as they are made, so an old request is never the connection's again),
  `PhaseInv` (the import's executor works for the job's phase, on a run of its own) and
  `ImportInv` (if the job's request is the connection's, the phases behind the job are
  covered). A reconnect clears the coverage and gives the connection a request no job has,
  so it makes `ImportInv` hold emptily; that is the case the request's fence exists for.

`LeaveSyncProofs`, for any runs, origins, decisions and bounds, and any `Skew` up to the two
minutes (`Slack`) that an incremental list reaches behind the cursor

- `TypeCorrect`, `NothingMissedHolds`, `ArchivedIsGoneHolds` and `NeverOlderHolds`, from one
  invariant. `ClockInv` and `RecordInv` tie the times in the row to the application's;
  `DecisionInv` says that a decision finds the record as it left it, since everything else
  passes over a record that is held; `SnapshotInv` that what a run or a reconciliation read is
  a past state of the application (`Later` is the order of its states).
- The cursor: `LoadInv` says that a record not written since a run started is the row the run
  loaded and reflects nothing newer than its list; `VersionInv` that a record with the last
  version of the application agrees with it and no older list can be applied over it.
  `CursorInv` then follows: a run that has succeeded so far has dealt with the application
  unless it changed after the run started, so the cursor, which becomes the start, passes
  nothing by. `Skew <= Slack` is what the overlap of two minutes is for.
- Archiving: `MissingInv`, leave that is not on a whole list and has not been written since is
  gone. Order: `CheckInv`, a reading that the record has overtaken is one that `Reconcile`
  does not apply: the row's sequence has moved on, or its status leads nowhere from there.

`FeedsProofs`, for any number of renderers, administrators and tokens

- `ArchivedHasNoTokenHolds`, from `LockInv`: an administrator between the check and the insert
  of a token holds the row's lock, so the feed is still not archived.
- `EtagIsCurrentHolds`, from `RenderInv`: a renderer whose generation is the feed's has the
  feed's representation, and its body, once chosen, is that representation.

- `TypeCorrect`, `ServedIsCurrentHolds`, `SequenceRisesHolds`, from a second invariant, `Aux`.
  `TypeOK` bounds the sequence and the generation by the number of edits and new names, so it
  needs `LedgerInv`: ledger and feed move at most once for each of them, and while they lag
  behind they have a step less than there were of them. `Held` says that what a renderer
  holds was the feed at a moment it has seen, and that it is a published version no older
  than what its subscriber was shown before; `ShownInv` that a version shown is the ledger's or
  has a lower sequence.

Model-checked only: liveness (`RecoveryCompletes`, `EffectsComplete`, `ImportCompletes`), which
rests on fairness and is out of the prover's reach. The two properties that are violated
(`OneCardPerLeave`, `FullSyncShows`) are findings.

## 11. Not modelled

- Admission of Xero calls: one atomic script decides on windows and slots;
  a slot's lease outlives the deadline of its request by five seconds.
- Sign-in with Xero, the choice of a company and token rotation: what a rotation lost after the
  exchange leads to is up to Xero. Disconnect of a company that cannot be reached, against
  uncertain operations.
- Billing events: one transaction per event; ties are settled by asking Stripe.
- The e-mail queue, which has no claim and relies on the provider's idempotency key.
- Generated database clients, which are most of the lines of the repository.
- Of the modelled part: requests for more information, bulk approval (a loop over single
  ones), the approver's authorisation, audit rows, the queue's queries, backoff times, the
  classification of status codes, and drift of a prepared request.
- For good: NZ and UK payroll (the product refuses them), user interface, templates,
  e-mail delivery itself, analytics and observability.
