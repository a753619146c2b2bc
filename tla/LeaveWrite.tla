----------------------------- MODULE LeaveWrite -----------------------------
(***************************************************************************)
(* The write-back of one leave decision to Xero payroll.                   *)
(*                                                                         *)
(* One availability record, the journal row it has for each action         *)
(* (OutboundOperation), the request handlers that work on it (`wrk'), the  *)
(* administrator's recovery screen (`adm'), the inbound leave sync         *)
(* (`sync'), and Xero itself with the requests under way to it.            *)
(*                                                                         *)
(* Every transaction of the code is one action.  What a handler read       *)
(* before a transaction it keeps in its own record, as the code keeps it   *)
(* in a local variable.                                                    *)
(*                                                                         *)
(* Abstractions.                                                           *)
(*   - Clocks.  The five-minute lease of a claim ends when ExpireClaim     *)
(*     says so, at any moment; the five-minute replay window of an         *)
(*     idempotency key is membership of `open', which CloseWindow ends at  *)
(*     any moment.  Every ordering of the two clocks is a behaviour.       *)
(*   - The claim token (a timestamp) is the worker that wrote it.          *)
(*   - An idempotency key is named by the attempt generation it was minted *)
(*     for, and the leave application Xero creates for it has its number.  *)
(*   - Descriptor, mapping and connection checks, which write nothing, are *)
(*     one refusal (Conflict).  Authorisation, audit rows and wording are  *)
(*     left out.                                                           *)
(***************************************************************************)
EXTENDS Integers, FiniteSets

CONSTANTS
  Workers,        \* request handlers that may act on the record at one time
  NoWorker,       \* the claim of an unclaimed record
  Origins,        \* the source_type values the record may have
  Offered,        \* the actions people take on the record
  MaxGeneration,  \* bound: attempts journalled per action
  Recovery,       \* administrators resolve uncertain operations
  EvidenceWaits,  \* administrators look into Xero only once no request of the
                  \* operation is under way and its replay window is over
  InboundSync,    \* the leave sync imports applications while this runs
  PayrollEdits    \* payroll staff decide applications in Xero itself

ASSUME WorkerAssumption == NoWorker \notin Workers
ASSUME OriginAssumption == Origins \subseteq {"team_calendar_leave", "xero_leave"}
ASSUME OfferedAssumption == Offered \subseteq {"approve", "decline", "withdraw"}
ASSUME GenerationAssumption == MaxGeneration \in Nat \ {0}
ASSUME SwitchAssumption ==
  /\ Recovery \in BOOLEAN
  /\ EvidenceWaits \in BOOLEAN
  /\ InboundSync \in BOOLEAN
  /\ PayrollEdits \in BOOLEAN

Actions     == {"approve", "decline", "withdraw"}
Statuses    == {"draft", "submitted", "approved", "declined", "withdrawn",
                "xero_sync_failed"}
Generations == 1 .. MaxGeneration
AppIds      == 0 .. MaxGeneration
NoApp       == -1
NoneOrAction == Actions \cup {"none"}

\* The statuses noUnresolvedSubmitOperationWhere excludes.
Unresolved == {"prepared", "outcome_unknown", "provider_accepted"}

OpStatuses == Unresolved \cup {"none", "definitive_failure", "completed"}

\* The status a decision leaves on the record.
Decided == [approve |-> "approved", decline |-> "declined",
            withdraw |-> "withdrawn"]

VARIABLES
  rec,       \* the AvailabilityRecord row
  op,        \* its OutboundOperation rows, "none" where there is no row
  open,      \* <<action, key>> pairs whose replay window is open
  wrk,       \* request handlers
  adm,       \* the administrator's recovery request
  net,       \* requests under way to Xero
  app,       \* leave applications in Xero
  done,      \* <<action, key>> pairs Xero has processed with success
  posted,    \* how many leave applications Xero created for the record, up to 2
  sync,      \* the leave sync's handling of one fetched application
  imported   \* applications that have a live xero_leave record of their own

vars == <<rec, op, open, wrk, adm, net, app, done, posted, sync, imported>>
journalVars  == <<op, open>>
providerVars == <<net, app, done, posted>>
importVars   == <<sync, imported>>

\* A request knows whether it left inside the replay window of its key.
Requests == [act : Actions, key : Generations, app : AppIds,
             sent : {"in_window", "late"}, from : Workers]

PCs == {"idle", "loaded", "local", "prepared", "ready", "waiting", "ok",
        "refused", "unsure", "accepted", "persist_refusal", "persist_doubt",
        "effects"}

\* Why an earlier copy of a handler's request may have been processed: the
\* attempt replays a key, or resent it after a lost answer.
Doubts == {"replayed", "resent"}

IdleWorker == [pc |-> "idle", act |-> "none", status |-> "draft",
               failed |-> "none", seq |-> 0, remote |-> NoApp, gen |-> 0,
               key |-> 0, app |-> NoApp, doubts |-> {}]

IdleAdmin == [pc |-> "idle", act |-> "none", gen |-> 0, was |-> "none",
              app |-> NoApp, target |-> "draft", remote |-> NoApp,
              next |-> "merging"]

IdleSync == [pc |-> "idle", app |-> NoApp]

\* A leave that came from Xero has its application from the start.
Imported == rec.source = "xero_leave"

RecordRows ==
  [source : Origins, status : Statuses, failed : NoneOrAction, seq : Nat,
   remote : AppIds \cup {NoApp}, claim : Workers \cup {NoWorker},
   lease : {"none", "live", "expired"}]

JournalRows ==
  [status : OpStatuses, gen : 0 .. MaxGeneration, key : 0 .. MaxGeneration,
   known : AppIds \cup {NoApp}]

Handlers ==
  [pc : PCs, act : NoneOrAction, status : Statuses, failed : NoneOrAction,
   seq : Nat, remote : AppIds \cup {NoApp}, gen : 0 .. MaxGeneration,
   key : 0 .. MaxGeneration, app : AppIds \cup {NoApp}, doubts : SUBSET Doubts]

Recoveries ==
  [pc : {"idle", "attaching", "merging", "effects", "verified"},
   act : NoneOrAction, gen : 0 .. MaxGeneration, was : OpStatuses,
   app : AppIds \cup {NoApp}, target : Statuses,
   remote : AppIds \cup {NoApp}, next : {"merging", "effects"}]

Imports == [pc : {"idle", "matched", "unmatched"}, app : AppIds \cup {NoApp}]

AppStates == {"absent", "requested", "scheduled", "rejected"}

TypeOK ==
  /\ rec \in RecordRows
  /\ op \in [Actions -> JournalRows]
  /\ open \subseteq Actions \X Generations
  /\ wrk \in [Workers -> Handlers]
  /\ adm \in Recoveries
  /\ net \subseteq Requests
  /\ app \in [AppIds -> AppStates]
  /\ done \subseteq Actions \X Generations
  /\ posted \in 0 .. 2
  /\ sync \in Imports
  /\ imported \subseteq AppIds

Init ==
  /\ rec \in [source : Origins, status : {"draft", "submitted"},
              failed : {"none"}, seq : {0}, remote : {0, NoApp},
              claim : {NoWorker}, lease : {"none"}]
  /\ rec.status = IF Imported THEN "submitted" ELSE "draft"
  /\ rec.remote = IF Imported THEN 0 ELSE NoApp
  /\ op = [a \in Actions |->
             [status |-> "none", gen |-> 0, key |-> 0, known |-> NoApp]]
  /\ open = {}
  /\ wrk = [w \in Workers |-> IdleWorker]
  /\ adm = IdleAdmin
  /\ net = {}
  /\ app = [x \in AppIds |->
              IF Imported /\ x = 0 THEN "requested" ELSE "absent"]
  /\ done = {}
  /\ posted = 0
  /\ sync = IdleSync
  /\ imported = {}

-----------------------------------------------------------------------------
(* Reading the rows *)

\* xero_write_claimed_at is null or older than the lease.
Unclaimed == rec.lease # "live"

NoUnresolved_IgnoresPrepared == \A a \in Actions : op[a].status # "outcome_unknown"

NoUnresolved == \A a \in Actions : op[a].status \notin Unresolved

Replayable(a) ==
  \/ op[a].status = "prepared"
  \/ op[a].status = "outcome_unknown" /\ <<a, op[a].key>> \in open

\* What releaseXeroWriteClaim leaves: only the claim's own token is cleared.
Released(w) ==
  IF rec.claim = w THEN [rec EXCEPT !.claim = NoWorker, !.lease = "none"]
  ELSE rec

Idle(w) == [wrk EXCEPT ![w] = IdleWorker]

At(w, pc) == wrk[w].pc = pc

\* The compare-and-set every handler's record update carries: the status and
\* sequence it loaded and the claim it holds.
HoldsRecord(w) ==
  /\ rec.status = wrk[w].status
  /\ rec.seq = wrk[w].seq
  /\ rec.claim = w

\* The compare-and-set of an attempt on its journal row.
HoldsAttempt(w, statuses) ==
  /\ op[wrk[w].act].gen = wrk[w].gen
  /\ op[wrk[w].act].status \in statuses

Creates(w) == wrk[w].act = "approve" /\ wrk[w].remote = NoApp

\* Decline and withdraw of a request Xero has never seen are local.
Journalled(w) == wrk[w].act = "approve" \/ wrk[w].remote # NoApp

-----------------------------------------------------------------------------
(* Local transitions outside a write *)

\* transitionLocalSubmission: the owner hands a draft to the manager.
Submit ==
  /\ rec.status = "draft"
  /\ rec.failed = "none"
  /\ rec.remote = NoApp
  /\ Unclaimed
  /\ NoUnresolved
  /\ rec' = [rec EXCEPT !.status = "submitted", !.seq = @ + 1]
  /\ UNCHANGED <<journalVars, wrk, adm, providerVars, importVars>>

\* revertApprovalAttempt: a failed decision goes back to the manager.  The
\* sequence stays as it was.
RevertApprovalAttempt ==
  /\ rec.status = "xero_sync_failed"
  /\ rec.failed \in {"approve", "decline"}
  /\ Unclaimed
  /\ NoUnresolved
  /\ rec' = [rec EXCEPT !.status = "submitted", !.failed = "none"]
  /\ UNCHANGED <<journalVars, wrk, adm, providerVars, importVars>>

ExpireClaim ==
  /\ rec.lease = "live"
  /\ rec' = [rec EXCEPT !.lease = "expired"]
  /\ UNCHANGED <<journalVars, wrk, adm, providerVars, importVars>>

CloseWindow(a, k) ==
  /\ <<a, k>> \in open
  /\ open' = open \ {<<a, k>>}
  /\ UNCHANGED <<rec, op, wrk, adm, providerVars, importVars>>

-----------------------------------------------------------------------------
(* A request handler: load, claim, dispatch *)

AwaitsDecision(a) ==
  \/ rec.status = "submitted"
  \/ rec.status = "xero_sync_failed" /\ rec.failed = a

\* A local request with an uncertain create may only be approved again while
\* its key can be replayed.
CanResumeJournaledApproval ==
  /\ \A a \in Actions \ {"approve"} : op[a].status \notin Unresolved
  /\ Replayable("approve")
  /\ Unclaimed

MayLoad(a) ==
  CASE a = "approve" ->
         /\ AwaitsDecision("approve")
         /\ rec.remote = NoApp => NoUnresolved \/ CanResumeJournaledApproval
    [] a = "decline" ->
         /\ AwaitsDecision("decline")
         /\ rec.remote = NoApp => NoUnresolved
    [] a = "withdraw" ->
         /\ ~Imported
         /\ \/ rec.status = "submitted"
            \/ /\ rec.remote # NoApp
               /\ \/ rec.status = "approved"
                  \/ rec.status = "xero_sync_failed" /\ rec.failed = "withdraw"
         /\ rec.remote = NoApp => NoUnresolved

Load(w, a) ==
  /\ At(w, "idle")
  /\ MayLoad(a)
  /\ wrk' = [wrk EXCEPT ![w] = [IdleWorker EXCEPT
               !.pc = "loaded", !.act = a, !.status = rec.status,
               !.failed = IF rec.failed = a THEN a ELSE "none",
               !.seq = rec.seq, !.remote = rec.remote]]
  /\ UNCHANGED <<rec, journalVars, adm, providerVars, importVars>>

\* A refusal before anything is written: an unusable connection or mapping, a
\* journal row that cannot be claimed, a record that moved on.
Conflict(w) ==
  /\ At(w, "loaded")
  /\ wrk' = Idle(w)
  /\ UNCHANGED <<rec, journalVars, adm, providerVars, importVars>>

\* The record half of both claims.
Claimable(w) ==
  /\ rec.status = wrk[w].status
  /\ rec.seq = wrk[w].seq
  /\ rec.failed = wrk[w].failed
  /\ rec.remote = wrk[w].remote
  /\ Unclaimed

\* acquireXeroWriteClaim with a localAction.
AcquireLocalClaim(w) ==
  /\ At(w, "loaded")
  /\ ~Journalled(w)
  /\ ~Imported
  /\ Claimable(w)
  /\ NoUnresolved
  /\ rec' = [rec EXCEPT !.claim = w, !.lease = "live"]
  /\ wrk' = [wrk EXCEPT ![w].pc = "local"]
  /\ UNCHANGED <<journalVars, adm, providerVars, importVars>>

NoOtherUnresolved_Dropped(a) == TRUE

NoOtherUnresolved(a) ==
  \A b \in Actions \ {a} : op[b].status \notin Unresolved

\* The journal rows a new attempt may take over with the key they have.
Replays(a) == Replayable(a) \/ op[a].status = "provider_accepted"

\* The journal rows that let a new key be minted.
Mints(a) == op[a].status \in {"none", "definitive_failure"}

NextGeneration_KeptOnReplay(a) ==
  IF Replays(a) THEN op[a].gen ELSE op[a].gen + 1

NextGeneration(a) == op[a].gen + 1

\* claimSubmitOperation: the journal row is created, reset or replayed and the
\* record claimed in one transaction.
PrepareAndClaim(w) ==
  LET a   == wrk[w].act
      row == op[a]
      gen == NextGeneration(a)
      key == IF Replays(a) THEN row.key ELSE gen
  IN
  /\ At(w, "loaded")
  /\ Journalled(w)
  /\ gen \in Generations
  /\ Replays(a) \/ Mints(a)
  /\ Claimable(w)
  /\ NoOtherUnresolved(a)
  /\ op' = [op EXCEPT ![a] =
              IF Replays(a) THEN [row EXCEPT !.gen = gen]
              ELSE [status |-> "prepared", gen |-> gen, key |-> gen,
                    known |-> wrk[w].remote]]
  /\ rec' = [rec EXCEPT !.claim = w, !.lease = "live"]
  /\ wrk' = [wrk EXCEPT ![w] = [@ EXCEPT
               !.pc = IF row.status = "provider_accepted" THEN "accepted"
                      ELSE "prepared",
               !.failed = "none", !.gen = gen, !.key = key,
               !.app = IF row.status = "provider_accepted" THEN row.known
                       ELSE IF Creates(w) THEN key ELSE wrk[w].remote,
               !.doubts = IF row.status = "outcome_unknown" THEN {"replayed"}
                          ELSE {}]]
  /\ UNCHANGED <<open, adm, providerVars, importVars>>

MayDispatch(w) ==
  /\ HoldsAttempt(w, {"prepared", "outcome_unknown"})
  /\ Replayable(wrk[w].act)

\* markSubmitDispatchStarted: the outcome is unknown from before the request
\* leaves.  The first dispatch of a key starts its replay window.
DispatchStarted(w) ==
  LET a == wrk[w].act IN
  /\ At(w, "prepared")
  /\ MayDispatch(w)
  /\ open' = IF op[a].status = "prepared" THEN open \cup {<<a, wrk[w].key>>}
             ELSE open
  /\ op' = [op EXCEPT ![a].status = "outcome_unknown"]
  /\ wrk' = [wrk EXCEPT ![w].pc = "ready"]
  /\ UNCHANGED <<rec, adm, providerVars, importVars>>

DispatchRefused(w) ==
  /\ At(w, "prepared")
  /\ ~MayDispatch(w)
  /\ rec' = Released(w)
  /\ wrk' = Idle(w)
  /\ UNCHANGED <<journalVars, adm, providerVars, importVars>>

-----------------------------------------------------------------------------
(* The provider call *)

MaySend_AfterWindow(w) == TRUE

\* performAttempt: nothing leaves once the replay window is over.
MaySend(w) == <<wrk[w].act, wrk[w].key>> \in open

Send(w) ==
  /\ At(w, "ready")
  /\ MaySend(w)
  /\ net' = net \cup {[act |-> wrk[w].act, key |-> wrk[w].key,
                       app |-> wrk[w].app, from |-> w,
                       sent |-> IF <<wrk[w].act, wrk[w].key>> \in open
                                THEN "in_window" ELSE "late"]}
  /\ wrk' = [wrk EXCEPT ![w].pc = "waiting"]
  /\ UNCHANGED <<rec, journalVars, adm, app, done, posted, importVars>>

AfterRefusal_ForgetsDoubt(w) == "refused"

\* A refusal after an attempt in doubt leaves the doubt.
AfterRefusal(w) == IF "resent" \in wrk[w].doubts THEN "unsure" ELSE "refused"

\* Admission, access or the deadline stops the request, or the attempts are
\* used up.  It is definitive only while no earlier attempt is in doubt.
NotSent(w) ==
  /\ At(w, "ready")
  /\ wrk' = [wrk EXCEPT ![w].pc = AfterRefusal(w)]
  /\ UNCHANGED <<rec, journalVars, adm, providerVars, importVars>>

\* A timeout, reset or 5xx: the request may still be processed.
LoseAnswer(w) ==
  /\ At(w, "waiting")
  /\ wrk' = [wrk EXCEPT ![w].pc = "ready", ![w].doubts = @ \cup {"resent"}]
  /\ UNCHANGED <<rec, journalVars, adm, providerVars, importVars>>

IsCreate(m) == m.act = "approve" /\ m.key = m.app

\* The states of an application in which Xero takes each request.
Applicable(m) ==
  IF IsCreate(m) THEN TRUE
  ELSE CASE m.act = "approve"  -> app[m.app] = "requested"
         [] m.act = "decline"  -> app[m.app] = "requested"
         [] m.act = "withdraw" -> app[m.app] \in {"requested", "scheduled"}

Effect_RecordStatus(m) == IF m.act = "approve" THEN "approved" ELSE "declined"

Effect(m) == IF m.act = "approve" THEN "scheduled" ELSE "rejected"

\* Xero answers a key it has processed within its retention from memory.
Remembered(m) == m.sent = "in_window" /\ <<m.act, m.key>> \in done

\* The handler that still waits for the answer hears it, or it is lost.
Answers(m, pc) ==
  \/ wrk' = wrk
  \/ /\ wrk[m.from].pc = "waiting"
     /\ wrk[m.from].act = m.act
     /\ wrk[m.from].key = m.key
     /\ wrk' = [wrk EXCEPT ![m.from].pc = pc]

XeroAccepts(m) ==
  /\ m \in net
  /\ net' = net \ {m}
  /\ IF Remembered(m) THEN UNCHANGED <<app, done, posted>>
     ELSE /\ Applicable(m)
          /\ app' = [app EXCEPT ![m.app] = Effect(m)]
          /\ done' = done \cup {<<m.act, m.key>>}
          /\ posted' = IF IsCreate(m) /\ posted < 2 THEN posted + 1 ELSE posted
  /\ Answers(m, "ok")
  /\ UNCHANGED <<rec, journalVars, adm, importVars>>

\* A refusal (bad token, rate limit, validation) or the loss of the request.
\* It says nothing of what an earlier copy of the request did.
XeroRefuses(m) ==
  /\ m \in net
  /\ net' = net \ {m}
  /\ Answers(m, AfterRefusal(m.from))
  /\ UNCHANGED <<rec, journalVars, adm, app, done, posted, importVars>>

\* Somebody approves or rejects an application in Xero's own screens.
EditInXero(x) ==
  /\ PayrollEdits
  /\ app[x] \in {"requested", "scheduled"}
  /\ app' = [app EXCEPT ![x] = IF @ = "requested" THEN "scheduled" ELSE "rejected"]
  /\ UNCHANGED <<rec, journalVars, wrk, adm, net, done, posted, importVars>>

-----------------------------------------------------------------------------
(* A request handler: outcome, commit, side effects *)

\* markSubmitProviderAccepted.  When the row has moved on, the create path
\* returns and keeps its claim; the transitions throw and release it.
RecordAccepted(w) ==
  LET holds == HoldsAttempt(w, {"outcome_unknown"}) IN
  /\ At(w, "ok")
  /\ op' = IF holds
             THEN [op EXCEPT ![wrk[w].act].status = "provider_accepted",
                             ![wrk[w].act].known = wrk[w].app]
             ELSE op
  /\ wrk' = IF holds
              THEN [wrk EXCEPT ![w] = [@ EXCEPT
                      !.pc = "accepted", !.doubts = {}]]
              ELSE Idle(w)
  /\ rec' = IF holds \/ Creates(w) THEN rec ELSE Released(w)
  /\ UNCHANGED <<open, adm, providerVars, importVars>>

Definitive_ForgetsReplay(w) == At(w, "refused")

\* A refusal resolves the operation unless an earlier attempt at the same key
\* is in doubt.
Definitive(w) == At(w, "refused") /\ "replayed" \notin wrk[w].doubts

\* recordXeroWriteOutcome with a failed result.  The create path ignores a
\* lost compare-and-set, the transitions throw and release the claim.
RecordFailure(w) ==
  LET holds == HoldsAttempt(w, {"prepared", "outcome_unknown"}) IN
  /\ At(w, "refused") \/ At(w, "unsure")
  /\ op' = IF holds /\ Definitive(w)
             THEN [op EXCEPT ![wrk[w].act].status = "definitive_failure"]
             ELSE op
  /\ wrk' = IF holds \/ Creates(w)
              THEN [wrk EXCEPT ![w] = [IdleWorker EXCEPT
                      !.pc = IF Definitive(w) THEN "persist_refusal"
                             ELSE "persist_doubt",
                      !.act = wrk[w].act, !.status = wrk[w].status,
                      !.seq = wrk[w].seq]]
              ELSE Idle(w)
  /\ rec' = IF holds \/ Creates(w) THEN rec ELSE Released(w)
  /\ UNCHANGED <<open, adm, providerVars, importVars>>

\* persistXeroFailure and persistApprovalFailure: the sequence stays, and a
\* withdrawal Xero refused for certain leaves the leave approved.
PersistFailure(w) ==
  /\ At(w, "persist_refusal") \/ At(w, "persist_doubt")
  /\ rec' = IF HoldsRecord(w)
              THEN [rec EXCEPT
                      !.status = IF /\ wrk[w].act = "withdraw"
                                    /\ wrk[w].status = "approved"
                                    /\ At(w, "persist_refusal")
                                   THEN "approved" ELSE "xero_sync_failed",
                      !.failed = wrk[w].act,
                      !.claim = NoWorker, !.lease = "none"]
              ELSE Released(w)
  /\ wrk' = Idle(w)
  /\ UNCHANGED <<journalVars, adm, providerVars, importVars>>

\* The commit of a decision, payroll's or local.
Commit(w) ==
  /\ At(w, "accepted") \/ At(w, "local")
  /\ rec' = IF HoldsRecord(w)
              THEN [rec EXCEPT
                      !.status = Decided[wrk[w].act], !.failed = "none",
                      !.seq = @ + 1,
                      !.remote = IF Creates(w) THEN wrk[w].app ELSE @,
                      !.claim = NoWorker, !.lease = "none"]
              ELSE Released(w)
  /\ wrk' = IF HoldsRecord(w) /\ At(w, "accepted")
              THEN [wrk EXCEPT ![w] = [IdleWorker EXCEPT
                      !.pc = "effects", !.act = wrk[w].act, !.gen = wrk[w].gen]]
              ELSE Idle(w)
  /\ UNCHANGED <<journalVars, adm, providerVars, importVars>>

\* completeXeroWriteSideEffects ends with markSubmitCompleted.
CompleteEffects(w) ==
  /\ At(w, "effects")
  /\ op' = IF HoldsAttempt(w, {"provider_accepted"})
             THEN [op EXCEPT ![wrk[w].act].status = "completed"] ELSE op
  /\ wrk' = Idle(w)
  /\ UNCHANGED <<rec, open, adm, providerVars, importVars>>

\* An exception (a failed transaction, a failed side effect): the catch block
\* releases the claim it holds.
Throw(w) ==
  /\ wrk[w].pc \notin {"idle", "loaded"}
  /\ rec' = Released(w)
  /\ wrk' = Idle(w)
  /\ UNCHANGED <<journalVars, adm, providerVars, importVars>>

\* The process dies: the claim and the journal row stay as they are.
Crash(w) ==
  /\ wrk[w].pc \notin {"idle", "loaded"}
  /\ wrk' = Idle(w)
  /\ UNCHANGED <<rec, journalVars, adm, providerVars, importVars>>

-----------------------------------------------------------------------------
(* Administrator recovery *)

Recoverable == {"outcome_unknown", "provider_accepted"}

RecoveryOperation_OnlyUnknown(a) == Recovery /\ op[a].status = "outcome_unknown"

\* getRecoveryOperation: exactly one operation awaits recovery.
RecoveryOperation(a) ==
  /\ Recovery
  /\ op[a].status \in Recoverable
  /\ \A b \in Actions \ {a} : op[b].status \notin Recoverable

Transition(a) == op[a].known # NoApp /\ (a # "approve" \/ Imported)

Candidate_ById(a, x) ==
  IF Transition(a) THEN x = op[a].known ELSE app[x] \in {"scheduled", "rejected"}

\* candidateMatches, with the accepted identifier when there is one.
Candidate(a, x) ==
  /\ IF Transition(a)
       THEN /\ x = op[a].known
            /\ app[x] = IF a = "approve" THEN "scheduled" ELSE "rejected"
       ELSE app[x] \in {"scheduled", "rejected"}
  /\ op[a].status = "provider_accepted" => x = op[a].known

\* What the code calls targetStatus.
Target(a, x) ==
  IF a = "withdraw" THEN "withdrawn"
  ELSE IF app[x] = "scheduled" THEN "approved" ELSE "declined"

AlreadyAttached_ById(a, x) == rec.remote = x

AlreadyAttached(a, x) == rec.remote = x /\ rec.status = Target(a, x)

\* attachSubmitRecoveryCandidate reads the record, the operation and Xero.
AdminOpen(a, x) ==
  /\ adm.pc = "idle"
  /\ RecoveryOperation(a)
  /\ Candidate(a, x)
  /\ adm' = [pc |-> "attaching", act |-> a, gen |-> op[a].gen,
             was |-> op[a].status, app |-> x, target |-> Target(a, x),
             remote |-> IF Transition(a) THEN x ELSE NoApp,
             next |-> IF AlreadyAttached(a, x) THEN "effects" ELSE "merging"]
  /\ UNCHANGED <<rec, journalVars, wrk, providerVars, importVars>>

AdminHolds(statuses) ==
  op[adm.act].gen = adm.gen /\ op[adm.act].status \in statuses

AdminMarkAccepted ==
  LET holds == AdminHolds({"outcome_unknown"}) IN
  /\ adm.pc = "attaching"
  /\ op' = IF holds THEN [op EXCEPT ![adm.act].status = "provider_accepted",
                                    ![adm.act].known = adm.app]
           ELSE op
  /\ adm' = IF holds \/ adm.was = "provider_accepted"
              THEN [adm EXCEPT !.pc = adm.next]
              ELSE IdleAdmin
  /\ UNCHANGED <<rec, open, wrk, providerVars, importVars>>

\* The attach transaction: it archives the imported duplicate and writes the
\* record whatever its status, sequence or claim, then fences on the journal.
AdminMerge ==
  LET merges == rec.remote = adm.remote /\ AdminHolds({"provider_accepted"}) IN
  /\ adm.pc = "merging"
  /\ rec' = IF merges
              THEN [source |-> rec.source, status |-> adm.target,
                    failed |-> "none", seq |-> rec.seq + 1, remote |-> adm.app,
                    claim |-> NoWorker, lease |-> "none"]
              ELSE rec
  /\ imported' = IF merges THEN imported \ {adm.app} ELSE imported
  /\ adm' = IF merges THEN [adm EXCEPT !.pc = "effects"] ELSE IdleAdmin
  /\ UNCHANGED <<journalVars, wrk, providerVars, sync>>

AdminEffects ==
  /\ adm.pc = "effects"
  /\ op' = IF AdminHolds({"provider_accepted"})
             THEN [op EXCEPT ![adm.act].status = "completed"] ELSE op
  /\ adm' = IdleAdmin
  /\ UNCHANGED <<rec, open, wrk, providerVars, importVars>>

\* The evidence an administrator gives that Xero did not process the operation.
Evidence(a) ==
  /\ <<a, op[a].key>> \notin done
  /\ EvidenceWaits =>
       /\ <<a, op[a].key>> \notin open
       /\ \A m \in net : <<m.act, m.key>> # <<a, op[a].key>>

AdminVerify(a) ==
  /\ adm.pc = "idle"
  /\ RecoveryOperation(a)
  /\ op[a].status = "outcome_unknown"
  /\ Evidence(a)
  /\ adm' = [IdleAdmin EXCEPT !.pc = "verified", !.act = a, !.gen = op[a].gen]
  /\ UNCHANGED <<rec, journalVars, wrk, providerVars, importVars>>

\* resolveSubmitAsNotCreated.
AdminNotCreated ==
  /\ adm.pc = "verified"
  /\ op' = IF AdminHolds({"prepared", "outcome_unknown"})
             THEN [op EXCEPT ![adm.act].status = "definitive_failure"] ELSE op
  /\ adm' = IdleAdmin
  /\ UNCHANGED <<rec, open, wrk, providerVars, importVars>>

\* The recovery request fails or its process dies between two transactions.
AdminCrash ==
  /\ adm.pc # "idle"
  /\ adm' = IdleAdmin
  /\ UNCHANGED <<rec, journalVars, wrk, providerVars, importVars>>

-----------------------------------------------------------------------------
(* The inbound leave sync, as far as it touches this record *)

\* loadExistingRecordsBySourceRemoteId, for one fetched application.
SyncLoad(x) ==
  /\ InboundSync
  /\ sync.pc = "idle"
  /\ app[x] # "absent"
  /\ sync' = [pc |-> IF rec.remote = x \/ x \in imported THEN "matched"
                     ELSE "unmatched",
              app |-> x]
  /\ UNCHANGED <<rec, journalVars, wrk, adm, providerVars, imported>>

\* processLeaveRecord: an application no record had is created as one.
SyncApply ==
  /\ sync.pc # "idle"
  /\ imported' = IF sync.pc = "matched" THEN imported
                 ELSE imported \cup {sync.app}
  /\ sync' = IdleSync
  /\ UNCHANGED <<rec, journalVars, wrk, adm, providerVars>>

-----------------------------------------------------------------------------
Handler(w) ==
  \/ \E a \in Offered : Load(w, a)
  \/ Conflict(w)
  \/ AcquireLocalClaim(w)
  \/ PrepareAndClaim(w)
  \/ DispatchStarted(w)
  \/ DispatchRefused(w)
  \/ Send(w)
  \/ NotSent(w)
  \/ LoseAnswer(w)
  \/ RecordAccepted(w)
  \/ RecordFailure(w)
  \/ PersistFailure(w)
  \/ Commit(w)
  \/ CompleteEffects(w)
  \/ Throw(w)
  \/ Crash(w)

Xero ==
  \E m \in net : XeroAccepts(m) \/ XeroRefuses(m)

Administrator ==
  \/ \E a \in Actions, x \in AppIds : AdminOpen(a, x)
  \/ AdminMarkAccepted
  \/ AdminMerge
  \/ AdminEffects
  \/ \E a \in Actions : AdminVerify(a)
  \/ AdminNotCreated
  \/ AdminCrash

PayrollStaff == \E x \in AppIds : EditInXero(x)

Sync == (\E x \in AppIds : SyncLoad(x)) \/ SyncApply

Clock == ExpireClaim \/ \E a \in Actions, k \in Generations : CloseWindow(a, k)

Next ==
  \/ Submit
  \/ RevertApprovalAttempt
  \/ Clock
  \/ \E w \in Workers : Handler(w)
  \/ Xero
  \/ PayrollStaff
  \/ Administrator
  \/ Sync

Spec == Init /\ [][Next]_vars

-----------------------------------------------------------------------------
(* Fairness.  Request handlers get none: they may stop anywhere and for good. *)
(* Windows run out, requests under way arrive or are lost, and an             *)
(* administrator who keeps finding an operation to recover gets through it.   *)

Fairness ==
  /\ WF_vars(\E a \in Actions, k \in Generations : CloseWindow(a, k))
  /\ WF_vars(Xero)
  /\ WF_vars(\E a \in Actions : AdminVerify(a) \/ \E x \in AppIds : AdminOpen(a, x))
  /\ SF_vars(AdminMarkAccepted)
  /\ SF_vars(AdminMerge)
  /\ SF_vars(AdminEffects)
  /\ SF_vars(AdminNotCreated)

FairSpec == Spec /\ Fairness

-----------------------------------------------------------------------------
(* Properties *)

\* At most one journal row of the record is unresolved, whatever handlers,
\* replays and administrators do: recovery refuses to act on two
\* (getRecoveryOperation), so two would leave the record stuck for good.
SingleUnresolved ==
  \A a, b \in Actions :
    op[a].status \in Unresolved /\ op[b].status \in Unresolved => a = b

InAttempt(w) ==
  wrk[w].pc \in {"prepared", "ready", "waiting", "ok", "refused", "unsure",
                "accepted", "effects"}

\* Of the handlers with an attempt at one action, at most one still matches the
\* journal row: a handler that lost its lease cannot write the outcome of the
\* attempt that took over from it.
FencedAttempts ==
  \A v, w \in Workers :
    /\ InAttempt(v) /\ InAttempt(w)
    /\ wrk[v].act = wrk[w].act
    /\ wrk[v].gen = wrk[w].gen
    => v = w

\* However often an approval is sent, retried, replayed after a lost lease or
\* resolved by an administrator, payroll holds one leave for the request.
OneLeavePerRequest == posted <= 1

\* A leave that exists in payroll is on the record, or the approval journal
\* still says it is unresolved under the key that created it.
NoLostLeave ==
  \A k \in Generations :
    app[k] # "absent" =>
      \/ rec.remote = k
      \/ /\ op["approve"].key = k
         /\ op["approve"].status \in Recoverable

\* A request declined or withdrawn without ever having reached Xero stays out
\* of payroll: no approval under way can still create it.
NoLateLeave ==
  rec.status \in {"declined", "withdrawn"} /\ rec.remote = NoApp =>
    /\ posted = 0
    /\ \A m \in net : ~IsCreate(m)
    /\ op["approve"].status \notin Unresolved

\* Once nothing is unresolved, the record and payroll agree on the decision.
DecisionMatchesPayroll ==
  NoUnresolved /\ rec.remote # NoApp =>
    CASE rec.status = "approved" -> app[rec.remote] = "scheduled"
      [] rec.status \in {"declined", "withdrawn"} -> app[rec.remote] = "rejected"
      [] OTHER -> app[rec.remote] = IF Imported THEN "requested" ELSE "scheduled"

\* A completed operation has its decision on the record: the journal is never
\* closed before the record, whichever of the handler and the administrator
\* finishes the work.
CompletedIsCommitted ==
  /\ op["decline"].status = "completed" => rec.status = "declined"
  /\ op["withdraw"].status = "completed" => rec.status = "withdrawn"
  /\ op["approve"].status = "completed" =>
       /\ rec.remote = op["approve"].known
       /\ \/ rec.status \in {"approved", "withdrawn"}
          \/ rec.status = "xero_sync_failed" /\ rec.failed = "withdraw"
          \/ rec.status = "declined" /\ app[rec.remote] = "rejected"

\* The write of a decision, as its journal row and Xero's memory of its key have
\* it; a key that was given up is not looked at again.
WriteState(a) ==
  CASE op[a].status \in {"none", "definitive_failure"} -> "none"
    [] op[a].status \in {"prepared", "outcome_unknown"} ->
         IF <<a, op[a].key>> \in done THEN "effective" ELSE "pending"
    [] op[a].status = "provider_accepted" -> "accepted"
    [] op[a].status = "completed" -> "completed"

\* The request's leave: application 0, or the one under the approval's key.
LeaveState ==
  IF Imported THEN app[0]
  ELSE IF op["approve"].key \in Generations THEN app[op["approve"].key]
  ELSE "absent"

Write == INSTANCE DecisionWrite WITH
  Decisions <- Actions,
  write     <- [a \in Actions |-> WriteState(a)],
  leave     <- LeaveState

\* However handlers, replays, lost answers and administrators interleave, every
\* decision is written to payroll once or not at all: the journal, the claims
\* and the keys implement DecisionWrite.
WriteSpec == Write!Spec

\* An operation Xero may have processed does not stay uncertain: recovery can
\* always attach the leave it finds or record that there is none.
RecoveryCompletes ==
  \A a \in Actions : op[a].status \in Recoverable
                        ~> op[a].status \in {"definitive_failure", "completed"}

\* An application is shown by one live record.  The integration test "updates
\* a matching Team Calendar leave instead of creating a duplicate Xero leave"
\* says the sync keeps it so.
OneCardPerLeave == rec.remote \notin imported

=============================================================================
