------------------------- MODULE LeaveWriteCommitProofs -------------------------
(***************************************************************************)
(* The journal of a decision is closed only on a record that has the       *)
(* decision, for every set of handlers, every bound on the attempts and    *)
(* every combination of the switches.                                      *)
(*                                                                         *)
(* DecisionInv relates the record, its journal rows, what each handler and *)
(* the administrator have read of them, and what is under way to Xero.  It *)
(* has a conjunct per part of the state, preserved by a lemma of its own   *)
(* (RecordStep, WorkStep, RowStep, PayrollStep, AdminStep, CommitStep).    *)
(***************************************************************************)
EXTENDS LeaveWriteProofs

(* What the record of each source can look like.  A leave that came from Xero
   keeps application 0; a request of the calendar has no application until it
   is approved, and is approved, declined or withdrawn once it has one. *)
RecordInv ==
  /\ rec.status = "xero_sync_failed" => rec.failed # "none"
  /\ Imported =>
       /\ rec.remote = 0
       /\ rec.status \in {"submitted", "approved", "declined", "xero_sync_failed"}
       /\ rec.failed \in {"none", "approve", "decline"}
  /\ ~Imported => rec.remote # 0
  /\ ~Imported /\ rec.remote = NoApp =>
       rec.status # "approved" /\ rec.failed \in {"none", "approve"}
  /\ ~Imported /\ rec.remote # NoApp =>
       \/ rec.status \in {"approved", "declined", "withdrawn"}
       \/ rec.status = "xero_sync_failed" /\ rec.failed = "withdraw"

(* Declines that reach the journal are of imported leave, withdrawals of the
   calendar's own. *)
AllowedAction(a) ==
  /\ a = "decline" => Imported
  /\ a = "withdraw" => ~Imported

Trying      == {"prepared", "ready", "waiting", "ok", "refused", "unsure"}
Journalling == Trying \cup {"accepted"}
Deciding    == {"loaded", "local"} \cup Journalling
Persisting  == {"persist_refusal", "persist_doubt"}

(* What a handler loaded, as far as later steps of others leave it true. *)
LoadInv(w) == wrk[w].pc \in Deciding =>
  /\ wrk[w].act = "withdraw" =>
       /\ ~Imported
       /\ wrk[w].status \in {"submitted", "approved", "xero_sync_failed"}
       /\ wrk[w].status = "submitted" <=> wrk[w].remote = NoApp
  /\ wrk[w].act # "withdraw" =>
       /\ wrk[w].status \in {"submitted", "xero_sync_failed"}
       /\ ~Imported => wrk[w].remote = NoApp
  /\ wrk[w].seq <= rec.seq
  /\ wrk[w].seq = rec.seq \/ wrk[w].remote # NoApp => wrk[w].remote = rec.remote
  /\ Imported <=> wrk[w].remote = 0
  /\ wrk[w].pc = "loaded" /\ wrk[w].status = "xero_sync_failed" =>
       wrk[w].failed = wrk[w].act
  /\ wrk[w].pc = "local" =>
       ~Imported /\ wrk[w].act # "approve" /\ wrk[w].remote = NoApp

(* A handler's attempt and the journal row: the row of its generation has its
   key, and its outcome once the handler has recorded it. *)
AttemptInv(w) == wrk[w].pc \in Journalling \cup {"effects"} =>
  LET row == op[wrk[w].act] IN
  /\ wrk[w].gen <= row.gen
  /\ wrk[w].gen = row.gen => row.status # "none"
  /\ wrk[w].pc \in {"accepted", "effects"} /\ wrk[w].gen = row.gen =>
       row.status \in {"provider_accepted", "completed"}
  /\ wrk[w].pc = "accepted" /\ wrk[w].gen = row.gen => row.known = wrk[w].app
  /\ wrk[w].pc \in Journalling =>
       /\ wrk[w].act = "withdraw" => wrk[w].remote # NoApp
       /\ wrk[w].key <= wrk[w].gen
       /\ wrk[w].gen = row.gen => wrk[w].key = row.key
       /\ rec.claim = w => wrk[w].gen = row.gen
       /\ wrk[w].pc \in Trying =>
            wrk[w].app = IF Creates(w) THEN wrk[w].key ELSE wrk[w].remote

(* What a handler with an outcome to persist knows of the record it claimed. *)
PersistInv(w) ==
  /\ wrk[w].pc \in Journalling \cup Persisting \cup {"effects"} =>
       AllowedAction(wrk[w].act)
  /\ wrk[w].pc \in Persisting =>
       wrk[w].status \in {IF wrk[w].act = "withdraw" THEN "approved" ELSE "submitted",
                          "xero_sync_failed"}
  /\ wrk[w].pc \in Journalling \cup Persisting =>
       (rec.claim = w /\ rec.status = "xero_sync_failed"
          /\ wrk[w].status = "xero_sync_failed" => rec.failed = wrk[w].act)

WorkInv(w) == LoadInv(w) /\ AttemptInv(w) /\ PersistInv(w)

(* The journal rows. *)
RowInv == \A a \in Actions :
  /\ op[a].status = "none" => op[a].gen = 0
  /\ op[a].key <= op[a].gen
  /\ op[a].status # "none" =>
     /\ op[a].key # 0
     /\ AllowedAction(a)
     /\ Imported => op[a].known = 0
     /\ a = "withdraw" => op[a].known = rec.remote /\ rec.remote # NoApp
     /\ ~Imported /\ a = "approve" /\ op[a].status \in {"provider_accepted", "completed"} =>
          op[a].known \in Generations

(* What Xero holds and what is under way to it. *)
PayrollInv ==
  /\ \A k \in Generations : app[k] # "absent" => ~Imported /\ <<"approve", k>> \in done
  /\ ~Imported => app[0] = "absent"
  /\ \A m \in net :
       /\ m.sent = "in_window"
       /\ AllowedAction(m.act)
       /\ Imported => m.app = 0
       /\ ~Imported /\ m.act = "approve" => m.app = m.key
       /\ ~Imported => m.app \in Generations

(* The decision an operation stands for is on the record, or a later decision
   that starts from it. *)
CommittedAs(a, x) ==
  /\ a = "decline" => rec.status = "declined"
  /\ a = "withdraw" => rec.status = "withdrawn"
  /\ a = "approve" =>
       /\ rec.remote = x
       /\ \/ rec.status \in {"approved", "withdrawn"}
          \/ rec.status = "xero_sync_failed" /\ rec.failed = "withdraw"
          \/ rec.status = "declined" /\ app[rec.remote] = "rejected"

(* What the administrator's request read, and what it has recorded. *)
AdminInv == adm.pc # "idle" =>
  LET row == op[adm.act] IN
  /\ adm.act \in Actions
  /\ AllowedAction(adm.act)
  /\ adm.gen <= row.gen
  /\ adm.gen = row.gen => row.status # "none"
  /\ adm.pc \in {"attaching", "merging"} =>
       /\ adm.was \in Recoverable
       /\ adm.remote # NoApp => rec.remote = adm.remote
       /\ Imported => adm.app = 0
       /\ ~Imported => adm.app \in Generations
       /\ Imported \/ adm.act = "withdraw" =>
            adm.app = adm.remote /\ adm.target = Decided[adm.act]
       /\ ~Imported /\ adm.act = "approve" =>
            /\ adm.remote = NoApp
            /\ \/ adm.target = "approved"
               \/ adm.target = "declined" /\ app[adm.app] = "rejected"
  /\ \/ adm.pc = "attaching" /\ adm.was = "provider_accepted"
     \/ adm.pc \in {"merging", "effects"}
     => (adm.gen = row.gen =>
           row.status \in {"provider_accepted", "completed"} /\ row.known = adm.app)
  /\ \/ adm.pc = "attaching" /\ adm.next = "effects"
     \/ adm.pc = "effects"
     => adm.app \in AppIds /\ CommittedAs(adm.act, adm.app)

(* The journal is closed only on a decision the record has, and while a row is
   unresolved only the approval a withdrawal starts from is closed. *)
CommitInv ==
  /\ \A a \in Actions : op[a].status = "completed" => CommittedAs(a, op[a].known)
  /\ \A w \in Workers :
       wrk[w].pc = "effects" /\ wrk[w].gen = op[wrk[w].act].gen =>
         CommittedAs(wrk[w].act, op[wrk[w].act].known)
  /\ \A a, b \in Actions : op[a].status \in Unresolved /\ op[b].status = "completed" =>
       a = "withdraw" /\ b = "approve"

-----------------------------------------------------------------------------
(* What a step may do to each row, whoever takes it *)

SameDecision ==
  /\ rec'.source = rec.source
  /\ rec'.status = rec.status
  /\ rec'.failed = rec.failed
  /\ rec'.seq = rec.seq
  /\ rec'.remote = rec.remote

(* The administrator's merge finds the record and the journal as it read them. *)
Merges == rec.remote = adm.remote /\ AdminHolds({"provider_accepted"})

(* The steps that change more of the record than its claim. *)
LEMMA RecordSteps ==
  ASSUME TypeInv, [Next]_vars
  PROVE  \/ SameDecision
         \/ Submit
         \/ RevertApprovalAttempt
         \/ \E w \in Workers : HoldsRecord(w) /\ PersistFailure(w)
         \/ \E w \in Workers : HoldsRecord(w) /\ Commit(w)
         \/ AdminMerge /\ Merges
PROOF
<1>rec. rec \in RecordRows
  BY DEF TypeInv, TypeOK
<1>same. ASSUME rec' = rec PROVE SameDecision
  BY <1>same DEF SameDecision
<1>released. ASSUME NEW w \in Workers, rec' = Released(w) PROVE SameDecision
  BY <1>rec, <1>released DEF SameDecision, Released, RecordRows
<1>1. CASE UNCHANGED vars
  BY <1>1, <1>same DEF vars
<1>2. CASE Clock
  BY <1>2, <1>rec DEF Clock, ExpireClaim, CloseWindow, SameDecision, RecordRows
<1>3. CASE Xero \/ PayrollStaff \/ Sync
  BY <1>3, <1>same DEF Xero, XeroAccepts, XeroRefuses, PayrollStaff, EditInXero, Sync,
     SyncLoad, SyncApply
<1>4. CASE Administrator /\ ~(AdminMerge /\ Merges)
  BY <1>4, <1>same DEF Administrator, AdminOpen, AdminMarkAccepted, AdminMerge, Merges,
     AdminEffects, AdminVerify, AdminNotCreated, AdminCrash
<1>5. ASSUME NEW w \in Workers, Handler(w),
             ~(HoldsRecord(w) /\ PersistFailure(w)), ~(HoldsRecord(w) /\ Commit(w))
      PROVE  SameDecision
  <2>1. CASE AcquireLocalClaim(w) \/ PrepareAndClaim(w)
    <3>1. rec' = [rec EXCEPT !.claim = w, !.lease = "live"]
      BY <2>1 DEF AcquireLocalClaim, PrepareAndClaim
    <3> QED
      BY <3>1, <1>rec DEF SameDecision, RecordRows
  <2>2. CASE ~(AcquireLocalClaim(w) \/ PrepareAndClaim(w))
    <3>1. rec' = rec \/ rec' = Released(w)
      BY <1>5, <2>2 DEF Handler, Load, Conflict, DispatchStarted, DispatchRefused, Send,
         NotSent, LoseAnswer, RecordAccepted, RecordFailure, PersistFailure, Commit,
         CompleteEffects, Throw, Crash
    <3> QED
      BY <3>1, <1>same, <1>released
  <2> QED
    BY <2>1, <2>2
<1> QED
  BY <1>1, <1>2, <1>3, <1>4, <1>5 DEF Next

(* A handler holds the record only by a claim of its own. *)
LEMMA ClaimTaken ==
  ASSUME TypeInv, [Next]_vars, NEW v \in Workers, rec'.claim = v
  PROVE  \/ rec.claim = v
         \/ AcquireLocalClaim(v)
         \/ PrepareAndClaim(v)
PROOF
<1>rec. rec \in RecordRows /\ v # NoWorker
  BY WorkerAssumption DEF TypeInv, TypeOK
<1>1. CASE rec' = rec
  BY <1>1
<1>2. CASE Submit \/ RevertApprovalAttempt \/ ExpireClaim
  BY <1>2, <1>rec DEF Submit, RevertApprovalAttempt, ExpireClaim, RecordRows
<1>3. CASE AdminMerge
  BY <1>3, <1>rec DEF AdminMerge
<1>4. ASSUME NEW w \in Workers, rec' = Released(w) PROVE rec.claim = v
  BY <1>4, <1>rec DEF Released, RecordRows
<1>5. ASSUME NEW w \in Workers, HoldsRecord(w), PersistFailure(w) \/ Commit(w)
      PROVE  FALSE
  <2>1. rec'.claim = NoWorker
    BY <1>5, <1>rec DEF PersistFailure, Commit, RecordRows
  <2> QED
    BY <2>1, <1>rec
<1>6. ASSUME NEW w \in Workers, AcquireLocalClaim(w) \/ PrepareAndClaim(w)
      PROVE  v = w
  BY <1>6, <1>rec DEF AcquireLocalClaim, PrepareAndClaim, RecordRows
<1>7. ASSUME NEW w \in Workers, Handler(w)
      PROVE  \/ rec' = rec
             \/ rec' = Released(w)
             \/ AcquireLocalClaim(w) \/ PrepareAndClaim(w)
             \/ HoldsRecord(w) /\ (PersistFailure(w) \/ Commit(w))
  BY <1>7 DEF Handler, Load, Conflict, DispatchStarted, DispatchRefused, Send,
     NotSent, LoseAnswer, RecordAccepted, RecordFailure, PersistFailure, Commit,
     CompleteEffects, Throw, Crash
<1>8. CASE Xero \/ PayrollStaff \/ Sync \/ (Administrator /\ ~AdminMerge)
           \/ UNCHANGED vars
  <2>1. rec' = rec
    BY <1>8 DEF Xero, XeroAccepts, XeroRefuses, PayrollStaff, EditInXero, Sync,
       SyncLoad, SyncApply, vars, Administrator, AdminOpen, AdminMarkAccepted,
       AdminEffects, AdminVerify, AdminNotCreated, AdminCrash
  <2> QED
    BY <1>1, <2>1
<1>9. ASSUME NEW a \in Actions, NEW k \in Generations, CloseWindow(a, k)
      PROVE  rec' = rec
  BY <1>9 DEF CloseWindow
<1> QED
  BY <1>1, <1>2, <1>3, <1>4, <1>5, <1>6, <1>7, <1>8, <1>9 DEF Next, Clock

(* One row's status changes, and with it at most the application it knows. *)
RowMoves(a, s, x) ==
  /\ op'[a].status = s
  /\ op'[a].known = x
  /\ op'[a].gen = op[a].gen
  /\ op'[a].key = op[a].key
  /\ \A b \in Actions \ {a} : op'[b] = op[b]

LEMMA RowMove ==
  ASSUME TypeInv, NEW a \in Actions, NEW s, NEW x
  PROVE  /\ op' = [op EXCEPT ![a].status = s] => RowMoves(a, s, op[a].known)
         /\ op' = [op EXCEPT ![a].status = s, ![a].known = x] => RowMoves(a, s, x)
PROOF
<1>1. op \in [Actions -> JournalRows]
  BY DEF TypeInv, TypeOK
<1>2. ASSUME op' = [op EXCEPT ![a].status = s] PROVE RowMoves(a, s, op[a].known)
  BY <1>1, <1>2 DEF RowMoves, JournalRows
<1>3. ASSUME op' = [op EXCEPT ![a].status = s, ![a].known = x] PROVE RowMoves(a, s, x)
  <2>1. op' = [op EXCEPT ![a] = [op[a] EXCEPT !.status = s, !.known = x]]
    BY <1>1, <1>3
  <2>2. op'[a] = [op[a] EXCEPT !.status = s, !.known = x]
    BY <1>1, <2>1
  <2>3. \A b \in Actions \ {a} : op'[b] = op[b]
    BY <1>1, <2>1
  <2> QED
    BY <1>1, <2>2, <2>3 DEF RowMoves, JournalRows
<1> QED
  BY <1>2, <1>3

(* Who moves a row to a status, and from which. *)
Dispatches(a) == \E w \in Workers :
  /\ DispatchStarted(w)
  /\ wrk[w].act = a
  /\ HoldsAttempt(w, {"prepared", "outcome_unknown"})

Accepts(a, x) ==
  \/ \E w \in Workers : /\ RecordAccepted(w)
                        /\ HoldsAttempt(w, {"outcome_unknown"})
                        /\ wrk[w].act = a /\ wrk[w].app = x
  \/ /\ AdminMarkAccepted
     /\ AdminHolds({"outcome_unknown"})
     /\ adm.act = a /\ adm.app = x

Refutes(a) ==
  \/ \E w \in Workers : /\ RecordFailure(w)
                        /\ HoldsAttempt(w, {"prepared", "outcome_unknown"})
                        /\ Definitive(w)
                        /\ wrk[w].act = a
  \/ /\ AdminNotCreated
     /\ AdminHolds({"prepared", "outcome_unknown"})
     /\ adm.act = a

Completes(a) ==
  \/ \E w \in Workers : /\ CompleteEffects(w)
                        /\ HoldsAttempt(w, {"provider_accepted"})
                        /\ wrk[w].act = a
  \/ /\ AdminEffects
     /\ AdminHolds({"provider_accepted"})
     /\ adm.act = a

LEMMA RowSteps ==
  ASSUME TypeInv, adm.pc # "idle" => adm.act \in Actions, [Next]_vars
  PROVE  \/ op' = op
         \/ \E w \in Workers : PrepareAndClaim(w)
         \/ \E a \in Actions :
              \/ Dispatches(a) /\ RowMoves(a, "outcome_unknown", op[a].known)
              \/ \E x : Accepts(a, x) /\ RowMoves(a, "provider_accepted", x)
              \/ Refutes(a) /\ RowMoves(a, "definitive_failure", op[a].known)
              \/ Completes(a) /\ RowMoves(a, "completed", op[a].known)
PROOF
<1> DEFINE Goal ==
         \/ op' = op
         \/ \E w \in Workers : PrepareAndClaim(w)
         \/ \E a \in Actions :
              \/ Dispatches(a) /\ RowMoves(a, "outcome_unknown", op[a].known)
              \/ \E x : Accepts(a, x) /\ RowMoves(a, "provider_accepted", x)
              \/ Refutes(a) /\ RowMoves(a, "definitive_failure", op[a].known)
              \/ Completes(a) /\ RowMoves(a, "completed", op[a].known)
<1>act. \A w \in Workers : wrk[w].pc # "idle" => wrk[w].act \in Actions
  BY DEF TypeInv, HandlerInv
<1>1. CASE UNCHANGED vars \/ Submit \/ RevertApprovalAttempt \/ Clock \/ Xero \/ PayrollStaff
           \/ Sync
  BY <1>1 DEF vars, Submit, RevertApprovalAttempt, Clock, ExpireClaim, CloseWindow, Xero,
     XeroAccepts, XeroRefuses, PayrollStaff, EditInXero, Sync, SyncLoad, SyncApply,
     journalVars
<1>2. ASSUME NEW w \in Workers, Handler(w) PROVE Goal
  <2> DEFINE a == wrk[w].act
  <2>1. CASE DispatchStarted(w)
    <3>1. a \in Actions /\ op' = [op EXCEPT ![a].status = "outcome_unknown"]
          /\ Dispatches(a)
      BY <1>act, <2>1 DEF DispatchStarted, At, Dispatches, MayDispatch
    <3> QED
      BY <3>1, RowMove
  <2>2. CASE RecordAccepted(w) /\ HoldsAttempt(w, {"outcome_unknown"})
    <3>1. a \in Actions /\ Accepts(a, wrk[w].app)
          /\ op' = [op EXCEPT ![a].status = "provider_accepted", ![a].known = wrk[w].app]
      BY <1>act, <2>2 DEF RecordAccepted, At, Accepts
    <3> QED
      BY <3>1, RowMove
  <2>3. CASE RecordFailure(w) /\ HoldsAttempt(w, {"prepared", "outcome_unknown"})
             /\ Definitive(w)
    <3>1. a \in Actions /\ Refutes(a) /\ op' = [op EXCEPT ![a].status = "definitive_failure"]
      BY <1>act, <2>3 DEF RecordFailure, At, Refutes
    <3> QED
      BY <3>1, RowMove
  <2>4. CASE CompleteEffects(w) /\ HoldsAttempt(w, {"provider_accepted"})
    <3>1. a \in Actions /\ Completes(a) /\ op' = [op EXCEPT ![a].status = "completed"]
      BY <1>act, <2>4 DEF CompleteEffects, At, Completes
    <3> QED
      BY <3>1, RowMove
  <2> QED
    BY <1>2, <2>1, <2>2, <2>3, <2>4 DEF Handler, Load, Conflict, AcquireLocalClaim,
       DispatchRefused, Send, NotSent, LoseAnswer, RecordAccepted, RecordFailure,
       PersistFailure, Commit, CompleteEffects, Throw, Crash, journalVars
<1>3. CASE Administrator
  <2> DEFINE a == adm.act
  <2>1. CASE AdminMarkAccepted /\ AdminHolds({"outcome_unknown"})
    <3>1. a \in Actions /\ Accepts(a, adm.app)
          /\ op' = [op EXCEPT ![a].status = "provider_accepted", ![a].known = adm.app]
      BY <2>1 DEF AdminMarkAccepted, Accepts
    <3> QED
      BY <3>1, RowMove
  <2>2. CASE AdminNotCreated /\ AdminHolds({"prepared", "outcome_unknown"})
    <3>1. a \in Actions /\ Refutes(a) /\ op' = [op EXCEPT ![a].status = "definitive_failure"]
      BY <2>2 DEF AdminNotCreated, Refutes
    <3> QED
      BY <3>1, RowMove
  <2>3. CASE AdminEffects /\ AdminHolds({"provider_accepted"})
    <3>1. a \in Actions /\ Completes(a) /\ op' = [op EXCEPT ![a].status = "completed"]
      BY <2>3 DEF AdminEffects, Completes
    <3> QED
      BY <3>1, RowMove
  <2> QED
    BY <1>3, <2>1, <2>2, <2>3 DEF Administrator, AdminOpen, AdminMarkAccepted, AdminMerge,
       AdminEffects, AdminVerify, AdminNotCreated, AdminCrash, journalVars
<1> QED
  BY <1>1, <1>2, <1>3 DEF Next

(* A handler between its claim and its outcome moves on with what it has. *)
Advances(v) ==
  /\ wrk[v].pc \in Trying
  /\ wrk'[v].pc \in Trying
  /\ wrk'[v].act = wrk[v].act
  /\ wrk'[v].status = wrk[v].status
  /\ wrk'[v].seq = wrk[v].seq
  /\ wrk'[v].remote = wrk[v].remote
  /\ wrk'[v].gen = wrk[v].gen
  /\ wrk'[v].key = wrk[v].key
  /\ wrk'[v].app = wrk[v].app

LEMMA AnswersAdvance ==
  ASSUME TypeInv, NEW m \in Requests, NEW pc \in {"ok", "refused", "unsure"},
         Answers(m, pc), NEW v \in Workers
  PROVE  wrk'[v] = wrk[v] \/ Advances(v)
PROOF
<1>1. wrk \in [Workers -> Handlers]
  BY DEF TypeInv, TypeOK
<1>2. CASE wrk' = wrk
  BY <1>2
<1>3. CASE /\ wrk[m.from].pc = "waiting"
           /\ wrk' = [wrk EXCEPT ![m.from].pc = pc]
  <2>1. CASE v # m.from
    BY <1>1, <1>3, <2>1
  <2>2. CASE v = m.from
    <3>1. wrk'[v] = [wrk[v] EXCEPT !.pc = pc]
      BY <1>1, <1>3, <2>2
    <3> QED
      BY <1>1, <1>3, <2>2, <3>1 DEF Advances, Trying, Handlers
  <2> QED
    BY <2>1, <2>2
<1> QED
  BY <1>2, <1>3 DEF Answers

LEMMA HandlerSteps ==
  ASSUME TypeInv, [Next]_vars, NEW v \in Workers
  PROVE  \/ wrk'[v] = wrk[v]
         \/ wrk'[v] = IdleWorker
         \/ \E a \in Offered : Load(v, a)
         \/ AcquireLocalClaim(v)
         \/ PrepareAndClaim(v)
         \/ Advances(v)
         \/ RecordAccepted(v) /\ HoldsAttempt(v, {"outcome_unknown"})
         \/ RecordFailure(v) /\ (HoldsAttempt(v, {"prepared", "outcome_unknown"}) \/ Creates(v))
         \/ Commit(v) /\ HoldsRecord(v) /\ At(v, "accepted")
PROOF
<1> DEFINE Goal ==
         \/ wrk'[v] = wrk[v]
         \/ wrk'[v] = IdleWorker
         \/ \E a \in Offered : Load(v, a)
         \/ AcquireLocalClaim(v)
         \/ PrepareAndClaim(v)
         \/ Advances(v)
         \/ RecordAccepted(v) /\ HoldsAttempt(v, {"outcome_unknown"})
         \/ RecordFailure(v) /\ (HoldsAttempt(v, {"prepared", "outcome_unknown"}) \/ Creates(v))
         \/ Commit(v) /\ HoldsRecord(v) /\ At(v, "accepted")
<1>wrk. wrk \in [Workers -> Handlers]
  BY DEF TypeInv, TypeOK
<1>1. CASE wrk' = wrk
  BY <1>1
<1>2. ASSUME NEW m \in net, XeroAccepts(m) \/ XeroRefuses(m) PROVE Goal
  <2>1. m \in Requests
    BY DEF TypeInv, TypeOK
  <2>2. PICK pc \in {"ok", "refused", "unsure"} : Answers(m, pc)
    BY <1>2 DEF XeroAccepts, XeroRefuses, AfterRefusal
  <2> QED
    BY <2>1, <2>2, AnswersAdvance
<1>3. CASE UNCHANGED vars \/ Submit \/ RevertApprovalAttempt \/ Clock \/ PayrollStaff
           \/ Administrator \/ Sync
  <2>1. wrk' = wrk
    BY <1>3 DEF vars, Submit, RevertApprovalAttempt, Clock, ExpireClaim, CloseWindow,
       PayrollStaff, EditInXero, Sync, SyncLoad, SyncApply, Administrator, AdminOpen,
       AdminMarkAccepted, AdminMerge, AdminEffects, AdminVerify, AdminNotCreated, AdminCrash
  <2> QED
    BY <2>1, <1>1
<1>4. ASSUME NEW w \in Workers, Handler(w), w # v PROVE wrk'[v] = wrk[v]
  BY <1>wrk, <1>4 DEF Handler, Load, Conflict, AcquireLocalClaim, PrepareAndClaim,
     DispatchStarted, DispatchRefused, Send, NotSent, LoseAnswer, RecordAccepted,
     RecordFailure, PersistFailure, Commit, CompleteEffects, Throw, Crash, Idle
<1>5. CASE Handler(v)
  <2>0. ASSUME wrk' = Idle(v) PROVE wrk'[v] = IdleWorker
    BY <1>wrk, <2>0 DEF Idle
  <2>1. CASE DispatchStarted(v)
    BY <1>wrk, <2>1 DEF DispatchStarted, At, Advances, Trying, Handlers
  <2>2. CASE Send(v)
    BY <1>wrk, <2>2 DEF Send, At, Advances, Trying, Handlers
  <2>3. CASE NotSent(v)
    BY <1>wrk, <2>3 DEF NotSent, At, Advances, Trying, Handlers, AfterRefusal
  <2>4. CASE LoseAnswer(v)
    <3>1. wrk'[v] = [wrk[v] EXCEPT !.pc = "ready", !.doubts = wrk[v].doubts \cup {"resent"}]
      BY <1>wrk, <2>4 DEF LoseAnswer
    <3> QED
      BY <1>wrk, <2>4, <3>1 DEF LoseAnswer, At, Advances, Trying, Handlers
  <2>5. CASE Conflict(v) \/ DispatchRefused(v) \/ PersistFailure(v) \/ CompleteEffects(v)
             \/ Throw(v) \/ Crash(v)
    BY <2>0, <2>5 DEF Conflict, DispatchRefused, PersistFailure, CompleteEffects, Throw, Crash
  <2>6. CASE RecordAccepted(v)
    BY <2>0, <2>6 DEF RecordAccepted
  <2>7. CASE RecordFailure(v)
    BY <2>0, <2>7 DEF RecordFailure
  <2>8. CASE Commit(v)
    BY <2>0, <2>8 DEF Commit
  <2> QED
    BY <1>5, <2>1, <2>2, <2>3, <2>4, <2>5, <2>6, <2>7, <2>8 DEF Handler
<1> QED
  BY <1>2, <1>3, <1>4, <1>5 DEF Next, Xero

-----------------------------------------------------------------------------
(* The invariant *)

DecisionInv ==
  /\ RecordInv
  /\ \A w \in Workers : WorkInv(w)
  /\ RowInv
  /\ PayrollInv
  /\ AdminInv
  /\ CommitInv

(* The types of the fields the arguments compare. *)
LEMMA Fields ==
  ASSUME TypeInv
  PROVE  /\ rec.status \in Statuses /\ rec.failed \in NoneOrAction /\ rec.seq \in Nat
         /\ rec.remote \in AppIds \cup {NoApp}
         /\ \A a \in Actions : /\ op[a].gen \in Nat /\ op[a].key \in Nat
                               /\ op[a].known \in AppIds \cup {NoApp}
                               /\ op[a].status \in OpStatuses
         /\ \A w \in Workers : /\ wrk[w].gen \in Nat /\ wrk[w].key \in Nat
                               /\ wrk[w].seq \in Nat
                               /\ wrk[w].remote \in AppIds \cup {NoApp}
                               /\ wrk[w].app \in AppIds \cup {NoApp}
                               /\ wrk[w].pc \in PCs
                               /\ wrk[w].pc # "idle" => wrk[w].act \in Actions
         /\ adm.gen \in Nat
         /\ adm.app \in AppIds \cup {NoApp}
BY DEF TypeInv, TypeOK, RecordRows, JournalRows, Handlers, Recoveries, HandlerInv

(* A record keeps the source it has, and the application once it has one.  What
   a handler loaded is dated by the sequence. *)
RecordKept ==
  /\ rec'.source = rec.source
  /\ rec.remote # NoApp => rec'.remote = rec.remote
  /\ \/ rec'.seq = rec.seq /\ rec'.remote = rec.remote
     \/ rec'.seq = rec.seq + 1

LEMMA CommitEffect ==
  ASSUME TypeInv, NEW w \in Workers, HoldsRecord(w), Commit(w)
  PROVE  /\ wrk[w].pc \in {"accepted", "local"}
         /\ wrk[w].act \in Actions
         /\ rec'.source = rec.source
         /\ rec'.status = Decided[wrk[w].act]
         /\ rec'.failed = "none"
         /\ rec'.seq = rec.seq + 1
         /\ rec'.remote = IF Creates(w) THEN wrk[w].app ELSE rec.remote
         /\ rec'.claim = NoWorker
PROOF
<1>1. rec \in RecordRows
  BY DEF TypeInv, TypeOK
<1>2. rec' = [rec EXCEPT !.status = Decided[wrk[w].act], !.failed = "none",
                !.seq = rec.seq + 1,
                !.remote = IF Creates(w) THEN wrk[w].app ELSE rec.remote,
                !.claim = NoWorker, !.lease = "none"]
  BY DEF Commit
<1>3. wrk[w].pc \in {"accepted", "local"} /\ wrk[w].act \in Actions
  BY DEF Commit, At, TypeInv, HandlerInv
<1> DEFINE remote == IF Creates(w) THEN wrk[w].app ELSE rec.remote
           status == Decided[wrk[w].act]
<1> HIDE DEF remote, status
<1>4. rec' = [rec EXCEPT !.status = status, !.failed = "none", !.seq = rec.seq + 1,
                !.remote = remote, !.claim = NoWorker, !.lease = "none"]
  BY <1>2 DEF remote, status
<1>5. /\ rec'.source = rec.source
      /\ rec'.status = status
      /\ rec'.failed = "none"
      /\ rec'.seq = rec.seq + 1
      /\ rec'.remote = remote
      /\ rec'.claim = NoWorker
  BY <1>1, <1>4 DEF RecordRows
<1> QED
  BY <1>3, <1>5 DEF remote, status

LEMMA PersistEffect ==
  ASSUME TypeInv, NEW w \in Workers, HoldsRecord(w), PersistFailure(w)
  PROVE  /\ wrk[w].pc \in Persisting
         /\ wrk[w].act \in Actions
         /\ rec'.source = rec.source
         /\ rec'.status \in {"approved", "xero_sync_failed"}
         /\ rec'.status = "approved" => wrk[w].act = "withdraw" /\ rec.status = "approved"
         /\ rec'.failed = wrk[w].act
         /\ rec'.seq = rec.seq
         /\ rec'.remote = rec.remote
         /\ rec'.claim = NoWorker
PROOF
<1>1. rec \in RecordRows
  BY DEF TypeInv, TypeOK
<1>2. wrk[w].pc \in Persisting /\ wrk[w].act \in Actions
  BY DEF PersistFailure, Persisting, At, TypeInv, HandlerInv
<1> DEFINE status == IF /\ wrk[w].act = "withdraw"
                        /\ wrk[w].status = "approved"
                        /\ At(w, "persist_refusal")
                     THEN "approved" ELSE "xero_sync_failed"
<1>3. rec' = [rec EXCEPT !.status = status, !.failed = wrk[w].act,
                         !.claim = NoWorker, !.lease = "none"]
  BY DEF PersistFailure
<1>4. /\ status \in {"approved", "xero_sync_failed"}
      /\ status = "approved" => wrk[w].act = "withdraw" /\ rec.status = "approved"
  BY DEF HoldsRecord
<1> HIDE DEF status
<1>5. /\ rec'.source = rec.source
      /\ rec'.status = status
      /\ rec'.failed = wrk[w].act
      /\ rec'.seq = rec.seq
      /\ rec'.remote = rec.remote
      /\ rec'.claim = NoWorker
  BY <1>1, <1>3 DEF RecordRows
<1> QED
  BY <1>2, <1>4, <1>5

LEMMA LocalEffect ==
  ASSUME TypeInv
  PROVE  /\ Submit =>
              /\ rec.status = "draft" /\ rec'.status = "submitted"
              /\ rec'.source = rec.source /\ rec'.failed = rec.failed
              /\ rec'.remote = rec.remote /\ rec'.seq = rec.seq + 1
         /\ RevertApprovalAttempt =>
              /\ rec.status = "xero_sync_failed" /\ rec.failed \in {"approve", "decline"}
              /\ rec'.status = "submitted" /\ rec'.failed = "none"
              /\ rec'.source = rec.source
              /\ rec'.remote = rec.remote /\ rec'.seq = rec.seq
         /\ AdminMerge /\ Merges =>
              /\ rec'.source = rec.source /\ rec'.status = adm.target
              /\ rec'.failed = "none" /\ rec'.seq = rec.seq + 1
              /\ rec'.remote = adm.app /\ rec'.claim = NoWorker
PROOF
<1>1. rec \in RecordRows
  BY DEF TypeInv, TypeOK
<1>2. ASSUME Submit
      PROVE  /\ rec.status = "draft" /\ rec'.status = "submitted"
             /\ rec'.source = rec.source /\ rec'.failed = rec.failed
             /\ rec'.remote = rec.remote /\ rec'.seq = rec.seq + 1
  <2>1. rec' = [rec EXCEPT !.status = "submitted", !.seq = rec.seq + 1]
    BY <1>2 DEF Submit
  <2>2. rec.status = "draft"
    BY <1>2 DEF Submit
  <2> QED
    BY <1>1, <2>1, <2>2 DEF RecordRows
<1>3. ASSUME RevertApprovalAttempt
      PROVE  /\ rec.status = "xero_sync_failed" /\ rec.failed \in {"approve", "decline"}
             /\ rec'.status = "submitted" /\ rec'.failed = "none"
             /\ rec'.source = rec.source
             /\ rec'.remote = rec.remote /\ rec'.seq = rec.seq
  BY <1>1, <1>3 DEF RevertApprovalAttempt, RecordRows
<1>4. ASSUME AdminMerge, Merges
      PROVE  /\ rec'.source = rec.source /\ rec'.status = adm.target
             /\ rec'.failed = "none" /\ rec'.seq = rec.seq + 1
             /\ rec'.remote = adm.app /\ rec'.claim = NoWorker
  BY <1>4 DEF AdminMerge, Merges
<1> QED
  BY <1>2, <1>3, <1>4

LEMMA RecordKeptStep ==
  ASSUME TypeInv, DecisionInv, [Next]_vars
  PROVE  RecordKept
PROOF
<1>1. CASE SameDecision
  BY <1>1 DEF SameDecision, RecordKept
<1>2. CASE Submit \/ RevertApprovalAttempt
  BY <1>2, LocalEffect, Fields DEF RecordKept
<1>3. ASSUME NEW w \in Workers, HoldsRecord(w), PersistFailure(w) PROVE RecordKept
  BY <1>3, PersistEffect DEF RecordKept
<1>4. ASSUME NEW w \in Workers, HoldsRecord(w), Commit(w) PROVE RecordKept
  <2>1. LoadInv(w) /\ wrk[w].seq = rec.seq
    BY <1>4 DEF DecisionInv, WorkInv, HoldsRecord
  <2>2. Creates(w) => rec.remote = NoApp
    BY <1>4, <2>1, CommitEffect DEF LoadInv, Deciding, Journalling, Creates
  <2> QED
    BY <1>4, <2>2, CommitEffect DEF RecordKept
<1>5. CASE AdminMerge /\ Merges
  <2>1. adm.pc = "merging" /\ rec.remote = adm.remote
    BY <1>5 DEF AdminMerge, Merges
  <2>2. adm.remote # NoApp => adm.app = adm.remote
    BY <2>1 DEF DecisionInv, AdminInv, AllowedAction, Actions
  <2> QED
    BY <1>5, <2>1, <2>2, LocalEffect DEF RecordKept
<1> QED
  BY <1>1, <1>2, <1>3, <1>4, <1>5, RecordSteps

(* The row of a generation keeps its key, and its outcome once it has one. *)
RowsKeep ==
  \A a \in Actions :
    /\ op[a].gen <= op'[a].gen
    /\ op'[a].gen = op[a].gen =>
         /\ op'[a].key = op[a].key
         /\ op[a].status # "none" => op'[a].status # "none"
         /\ op[a].status \in {"provider_accepted", "completed"} =>
              /\ op'[a].status \in {"provider_accepted", "completed"}
              /\ op'[a].known = op[a].known

LEMMA AdminActs ==
  ASSUME DecisionInv PROVE adm.pc # "idle" => adm.act \in Actions
BY DEF DecisionInv, AdminInv

LEMMA RowsKeepStep ==
  ASSUME TypeInv, DecisionInv, [Next]_vars
  PROVE  RowsKeep
PROOF
<1>1. CASE op' = op
  BY <1>1, Fields DEF RowsKeep
<1>2. ASSUME NEW w \in Workers, PrepareAndClaim(w) PROVE RowsKeep
  <2>1. /\ wrk[w].act \in Actions
        /\ op'[wrk[w].act].gen = op[wrk[w].act].gen + 1
        /\ \A b \in Actions \ {wrk[w].act} : op'[b] = op[b]
    BY <1>2, PrepareOpens
  <2> QED
    BY <2>1, Fields DEF RowsKeep
<1>3. ASSUME NEW a \in Actions, NEW s, NEW x, RowMoves(a, s, x),
             s # "none",
             op[a].status \in {"provider_accepted", "completed"} =>
               s \in {"provider_accepted", "completed"} /\ x = op[a].known
      PROVE  RowsKeep
  BY <1>3, Fields DEF RowsKeep, RowMoves
<1>4. ASSUME NEW a \in Actions, Dispatches(a) PROVE op[a].status \in {"prepared", "outcome_unknown"}
  BY <1>4 DEF Dispatches, HoldsAttempt
<1>5. ASSUME NEW a \in Actions, NEW x, Accepts(a, x) PROVE op[a].status = "outcome_unknown"
  BY <1>5 DEF Accepts, HoldsAttempt, AdminHolds
<1>6. ASSUME NEW a \in Actions, Refutes(a) PROVE op[a].status \in {"prepared", "outcome_unknown"}
  BY <1>6 DEF Refutes, HoldsAttempt, AdminHolds
<1>7. ASSUME NEW a \in Actions, Completes(a) PROVE op[a].status = "provider_accepted"
  BY <1>7 DEF Completes, HoldsAttempt, AdminHolds
<1> QED
  BY <1>1, <1>2, <1>3, <1>4, <1>5, <1>6, <1>7, RowSteps, AdminActs

-----------------------------------------------------------------------------
(* Handlers *)

LEMMA ClaimKept ==
  ASSUME TypeInv, DecisionInv, [Next]_vars, NEW v \in Workers,
         wrk'[v] = wrk[v] \/ Advances(v), rec'.claim = v
  PROVE  /\ rec.claim = v
         /\ rec'.status = "xero_sync_failed" =>
              rec.status = "xero_sync_failed" /\ rec'.failed = rec.failed
         /\ \A a \in Actions : op'[a].gen = op[a].gen
PROOF
<1>wrk. wrk \in [Workers -> Handlers] /\ v # NoWorker
  BY WorkerAssumption DEF TypeInv, TypeOK
<1>1. ~AcquireLocalClaim(v) /\ ~PrepareAndClaim(v)
  <2>1. AcquireLocalClaim(v) => wrk[v].pc = "loaded" /\ wrk'[v].pc = "local"
    BY <1>wrk DEF AcquireLocalClaim, At, Handlers
  <2>2. PrepareAndClaim(v) => wrk[v].pc = "loaded" /\ wrk'[v].pc \in {"prepared", "accepted"}
    BY <1>wrk DEF PrepareAndClaim, At, Handlers
  <2> QED
    BY <2>1, <2>2 DEF Advances, Trying
<1>2. rec.claim = v
  BY <1>1, ClaimTaken
<1>3. rec'.status = "xero_sync_failed" =>
        rec.status = "xero_sync_failed" /\ rec'.failed = rec.failed
  <2>1. CASE SameDecision
    BY <2>1 DEF SameDecision
  <2>2. CASE Submit \/ RevertApprovalAttempt
    BY <2>2, LocalEffect
  <2>3. ASSUME NEW w \in Workers, HoldsRecord(w), PersistFailure(w) \/ Commit(w)
        PROVE  FALSE
    BY <1>wrk, <2>3, CommitEffect, PersistEffect
  <2>4. ~(AdminMerge /\ Merges)
    BY <1>wrk, LocalEffect
  <2> QED
    BY <2>1, <2>2, <2>3, <2>4, RecordSteps
<1>4. \A a \in Actions : op'[a].gen = op[a].gen
  <2>1. \A w \in Workers : ~PrepareAndClaim(w)
    <3> SUFFICES ASSUME NEW w \in Workers, PrepareAndClaim(w) PROVE FALSE
      OBVIOUS
    <3>1. rec'.claim = w
      <4>1. rec \in RecordRows /\ rec' = [rec EXCEPT !.claim = w, !.lease = "live"]
        BY DEF PrepareAndClaim, TypeInv, TypeOK
      <4> QED
        BY <4>1 DEF RecordRows
    <3> QED
      BY <1>1, <3>1
  <2>2. RowsKept
    BY <2>1, NextKeepsOrPrepares
  <2> QED
    BY <2>2 DEF RowsKept
<1> QED
  BY <1>2, <1>3, <1>4

LEMMA WorkKept ==
  ASSUME TypeInv, DecisionInv, [Next]_vars, NEW v \in Workers,
         wrk'[v] = wrk[v] \/ Advances(v)
  PROVE  WorkInv(v)'
PROOF
<1>1. LoadInv(v) /\ AttemptInv(v) /\ PersistInv(v)
  BY DEF DecisionInv, WorkInv
<1>2. RecordKept /\ RowsKeep
  BY RecordKeptStep, RowsKeepStep
<1>3. rec'.claim = v => /\ rec.claim = v
                        /\ rec'.status = "xero_sync_failed" =>
                             rec.status = "xero_sync_failed" /\ rec'.failed = rec.failed
                        /\ \A a \in Actions : op'[a].gen = op[a].gen
  BY ClaimKept
<1>4. /\ wrk'[v].act = wrk[v].act /\ wrk'[v].status = wrk[v].status
      /\ wrk'[v].seq = wrk[v].seq /\ wrk'[v].remote = wrk[v].remote
      /\ wrk'[v].gen = wrk[v].gen /\ wrk'[v].key = wrk[v].key
      /\ wrk'[v].app = wrk[v].app
  BY DEF Advances
<1>5. \/ wrk'[v].pc = wrk[v].pc /\ wrk'[v].failed = wrk[v].failed
      \/ wrk[v].pc \in Trying /\ wrk'[v].pc \in Trying
  BY DEF Advances
<1>6. wrk[v].pc # "idle" => wrk[v].act \in Actions
  BY Fields
<1>7. LoadInv(v)'
  <2>1. wrk'[v].pc \in Deciding => wrk[v].pc \in Deciding
    BY <1>5 DEF Deciding, Journalling
  <2>2. /\ wrk'[v].pc = "loaded" => wrk[v].pc = "loaded" /\ wrk'[v].failed = wrk[v].failed
        /\ wrk'[v].pc = "local" => wrk[v].pc = "local"
    BY <1>5 DEF Trying
  <2>3. rec.seq \in Nat /\ wrk[v].seq \in Nat /\ (Imported' <=> Imported)
    BY <1>2, Fields DEF RecordKept, Imported
  <2>4. ASSUME wrk[v].pc \in Deciding
        PROVE  /\ wrk[v].seq <= rec'.seq
               /\ wrk[v].seq = rec'.seq \/ wrk[v].remote # NoApp =>
                    wrk[v].remote = rec'.remote
    BY <1>1, <1>2, <2>3, <2>4 DEF LoadInv, RecordKept
  <2> QED
    BY <1>1, <1>4, <2>1, <2>2, <2>3, <2>4 DEF LoadInv
<1>8. AttemptInv(v)'
  <2> SUFFICES ASSUME wrk'[v].pc \in Journalling \cup {"effects"} PROVE AttemptInv(v)'
    BY DEF AttemptInv
  <2> DEFINE a == wrk[v].act
  <2>1. wrk[v].pc \in Journalling \cup {"effects"} /\ a \in Actions
    BY <1>5, <1>6 DEF Journalling, Trying
  <2>2. /\ wrk[v].gen \in Nat /\ op[a].gen \in Nat /\ op'[a].gen \in Nat
    <3>1. TypeInv'
      BY TypeStep
    <3> QED
      BY <2>1, <3>1, Fields DEF TypeInv, TypeOK, JournalRows
  <2>3. /\ op[a].gen <= op'[a].gen
        /\ wrk[v].gen <= op[a].gen
        /\ wrk[v].gen = op'[a].gen => wrk[v].gen = op[a].gen /\ op'[a].gen = op[a].gen
    BY <1>1, <1>2, <2>1, <2>2 DEF AttemptInv, RowsKeep
  <2>4. wrk[v].gen <= op'[a].gen
    BY <2>2, <2>3
  <2>5. wrk[v].gen = op'[a].gen =>
          /\ op'[a].key = op[a].key
          /\ op'[a].status # "none"
          /\ op[a].status \in {"provider_accepted", "completed"} =>
               /\ op'[a].status \in {"provider_accepted", "completed"}
               /\ op'[a].known = op[a].known
    BY <1>1, <1>2, <2>1, <2>3 DEF AttemptInv, RowsKeep
  <2>6. /\ wrk'[v].pc \in {"accepted", "effects"} => wrk[v].pc = wrk'[v].pc
        /\ wrk'[v].pc \in Journalling => wrk[v].pc \in Journalling
        /\ wrk'[v].pc \in Trying => wrk[v].pc \in Trying
    BY <1>5 DEF Trying, Journalling
  <2>7. Creates(v)' <=> Creates(v)
    BY <1>4 DEF Creates
  <2> QED
    BY <1>1, <1>3, <1>4, <2>1, <2>3, <2>4, <2>5, <2>6, <2>7 DEF AttemptInv
<1>9. PersistInv(v)'
  <2>1. /\ wrk'[v].pc \in Journalling \cup Persisting \cup {"effects"} =>
             wrk[v].pc \in Journalling \cup Persisting \cup {"effects"}
        /\ wrk'[v].pc \in Persisting => wrk[v].pc \in Persisting
        /\ wrk'[v].pc \in Journalling \cup Persisting =>
             wrk[v].pc \in Journalling \cup Persisting
    BY <1>5 DEF Trying, Journalling, Persisting
  <2>2. AllowedAction(wrk[v].act)' <=> AllowedAction(wrk[v].act)
    BY <1>2, <1>4 DEF AllowedAction, RecordKept, Imported
  <2> QED
    BY <1>1, <1>3, <1>4, <2>1, <2>2 DEF PersistInv
<1> QED
  BY <1>7, <1>8, <1>9 DEF WorkInv

LEMMA LoadWork ==
  ASSUME TypeInv, DecisionInv, [Next]_vars, NEW w \in Workers, NEW a \in Offered, Load(w, a)
  PROVE  WorkInv(w)'
PROOF
<1> DEFINE failed == IF rec.failed = a THEN a ELSE "none"
<1>1. rec' = rec /\ MayLoad(a) /\ a \in Actions
  BY Constants DEF Load
<1>2. /\ wrk'[w].pc = "loaded" /\ wrk'[w].act = a /\ wrk'[w].status = rec.status
      /\ wrk'[w].failed = failed /\ wrk'[w].seq = rec.seq /\ wrk'[w].remote = rec.remote
  <2>1. w \in DOMAIN wrk
    BY DEF TypeInv, TypeOK
  <2>2. wrk'[w] = [IdleWorker EXCEPT
               !.pc = "loaded", !.act = a, !.status = rec.status,
               !.failed = failed, !.seq = rec.seq, !.remote = rec.remote]
    BY <2>1 DEF Load
  <2> HIDE DEF failed
  <2> QED
    BY <2>2 DEF IdleWorker
<1>3. rec.seq \in Nat
  BY Fields
<1>4. RecordInv
  BY DEF DecisionInv
<1>5. LoadInv(w)'
  <2>1. CASE a = "withdraw"
    <3>1. /\ ~Imported
          /\ rec.status \in {"submitted", "approved", "xero_sync_failed"}
          /\ rec.status # "submitted" => rec.remote # NoApp
          /\ rec.status = "xero_sync_failed" => rec.failed = a
      BY <1>1, <2>1 DEF MayLoad
    <3>2. rec.status = "submitted" => rec.remote = NoApp
      BY <1>4, <3>1 DEF RecordInv
    <3>3. rec.remote # 0
      BY <1>4, <3>1 DEF RecordInv
    <3> QED
      BY <1>1, <1>2, <1>3, <2>1, <3>1, <3>2, <3>3 DEF LoadInv, Imported
  <2>2. CASE a # "withdraw"
    <3>1. /\ rec.status \in {"submitted", "xero_sync_failed"}
          /\ rec.status = "xero_sync_failed" => rec.failed = a
      BY <1>1, <2>2 DEF MayLoad, AwaitsDecision, Actions
    <3>2. ~Imported => rec.remote = NoApp
      BY <1>1, <1>4, <2>2, <3>1 DEF RecordInv, Actions
    <3>3. Imported <=> rec.remote = 0
      BY <1>4 DEF RecordInv
    <3> QED
      BY <1>1, <1>2, <1>3, <2>2, <3>1, <3>2, <3>3 DEF LoadInv, Imported
  <2> QED
    BY <2>1, <2>2
<1>6. AttemptInv(w)' /\ PersistInv(w)'
  BY <1>2 DEF AttemptInv, PersistInv, Journalling, Trying, Persisting
<1> QED
  BY <1>5, <1>6 DEF WorkInv

LEMMA AcquireWork ==
  ASSUME TypeInv, DecisionInv, [Next]_vars, NEW w \in Workers, AcquireLocalClaim(w)
  PROVE  WorkInv(w)'
PROOF
<1>1. /\ wrk[w].pc = "loaded"
      /\ wrk'[w].pc = "local" /\ wrk'[w].act = wrk[w].act /\ wrk'[w].status = wrk[w].status
      /\ wrk'[w].failed = wrk[w].failed /\ wrk'[w].seq = wrk[w].seq
      /\ wrk'[w].remote = wrk[w].remote
  BY DEF AcquireLocalClaim, At, TypeInv, TypeOK, Handlers
<1>2. /\ rec'.source = rec.source /\ rec'.seq = rec.seq /\ rec'.remote = rec.remote
  BY DEF AcquireLocalClaim, TypeInv, TypeOK, RecordRows
<1>3. LoadInv(w)
  BY DEF DecisionInv, WorkInv
<1>4. ~Imported /\ wrk[w].act # "approve" /\ wrk[w].remote = NoApp
  BY DEF AcquireLocalClaim, Journalled
<1>5. LoadInv(w)'
  BY <1>1, <1>2, <1>3, <1>4 DEF LoadInv, Deciding, Imported
<1>6. AttemptInv(w)' /\ PersistInv(w)'
  BY <1>1 DEF AttemptInv, PersistInv, Journalling, Trying, Persisting
<1> QED
  BY <1>5, <1>6 DEF WorkInv

(* The attempt a claim starts, and the row it takes over. *)
LEMMA PrepareEffect ==
  ASSUME TypeInv, NEW w \in Workers, PrepareAndClaim(w)
  PROVE  LET a == wrk[w].act
             row == op[a]
             gen == row.gen + 1
         IN
         /\ a \in Actions
         /\ gen \in Generations
         /\ Replays(a) \/ Mints(a)
         /\ Claimable(w) /\ Journalled(w) /\ NoOtherUnresolved(a)
         /\ \A b \in Actions \ {a} : op'[b] = op[b]
         /\ op'[a].gen = gen
         /\ Replays(a) => /\ op'[a].status = row.status /\ op'[a].key = row.key
                          /\ op'[a].known = row.known
         /\ ~Replays(a) => /\ op'[a].status = "prepared" /\ op'[a].key = gen
                           /\ op'[a].known = wrk[w].remote
         /\ rec'.source = rec.source /\ rec'.status = rec.status
         /\ rec'.failed = rec.failed /\ rec'.seq = rec.seq
         /\ rec'.remote = rec.remote /\ rec'.claim = w
         /\ wrk[w].pc = "loaded"
         /\ wrk'[w].pc = IF row.status = "provider_accepted" THEN "accepted" ELSE "prepared"
         /\ wrk'[w].act = a /\ wrk'[w].status = wrk[w].status
         /\ wrk'[w].seq = wrk[w].seq /\ wrk'[w].remote = wrk[w].remote
         /\ wrk'[w].gen = gen /\ wrk'[w].key = op'[a].key
         /\ wrk'[w].app = IF row.status = "provider_accepted" THEN row.known
                          ELSE IF Creates(w) THEN op'[a].key ELSE wrk[w].remote
         /\ wrk'[w].doubts = IF row.status = "outcome_unknown" THEN {"replayed"} ELSE {}
         /\ \A v \in Workers \ {w} : wrk'[v] = wrk[v]
PROOF
<1> DEFINE a == wrk[w].act
           row == op[a]
           gen == NextGeneration(a)
           key == IF Replays(a) THEN row.key ELSE gen
           new == IF Replays(a) THEN [row EXCEPT !.gen = gen]
                  ELSE [status |-> "prepared", gen |-> gen, key |-> gen,
                        known |-> wrk[w].remote]
           pc == IF row.status = "provider_accepted" THEN "accepted" ELSE "prepared"
           appl == IF row.status = "provider_accepted" THEN row.known
                   ELSE IF Creates(w) THEN key ELSE wrk[w].remote
           doubts == IF row.status = "outcome_unknown" THEN {"replayed"} ELSE {}
<1>1. /\ a \in Actions /\ row \in JournalRows /\ wrk[w] \in Handlers /\ rec \in RecordRows
      /\ op \in [Actions -> JournalRows] /\ wrk \in [Workers -> Handlers]
  BY DEF PrepareAndClaim, At, TypeInv, TypeOK, HandlerInv
<1>2. gen = row.gen + 1 /\ gen \in Generations
  BY DEF PrepareAndClaim, NextGeneration
<1>3. op'[a] = new /\ \A b \in Actions \ {a} : op'[b] = op[b]
  <2>1. op' = [op EXCEPT ![a] = new]
    BY DEF PrepareAndClaim
  <2> HIDE DEF new
  <2> QED
    BY <1>1, <2>1
<1>4. /\ new.gen = gen
      /\ new.key = key
      /\ Replays(a) => new.status = row.status /\ new.known = row.known
      /\ ~Replays(a) => new.status = "prepared" /\ new.known = wrk[w].remote
  <2>1. CASE Replays(a)
    <3>1. new = [row EXCEPT !.gen = gen]
      BY <2>1
    <3> HIDE DEF new, gen, row
    <3> QED
      BY <1>1, <2>1, <3>1 DEF JournalRows
  <2>2. CASE ~Replays(a)
    BY <2>2
  <2> QED
    BY <2>1, <2>2
<1>5. wrk'[w] = [wrk[w] EXCEPT !.pc = pc, !.failed = "none", !.gen = gen, !.key = key,
                               !.app = appl, !.doubts = doubts]
      /\ \A v \in Workers \ {w} : wrk'[v] = wrk[v]
  BY <1>1 DEF PrepareAndClaim
<1>6. /\ wrk'[w].pc = pc /\ wrk'[w].act = a /\ wrk'[w].status = wrk[w].status
      /\ wrk'[w].seq = wrk[w].seq /\ wrk'[w].remote = wrk[w].remote
      /\ wrk'[w].gen = gen /\ wrk'[w].key = key /\ wrk'[w].app = appl
      /\ wrk'[w].doubts = doubts
  <2> HIDE DEF pc, gen, key, appl, doubts
  <2> QED
    BY <1>1, <1>5 DEF Handlers
<1>7. /\ rec'.source = rec.source /\ rec'.status = rec.status
      /\ rec'.failed = rec.failed /\ rec'.seq = rec.seq
      /\ rec'.remote = rec.remote /\ rec'.claim = w
  <2>1. rec' = [rec EXCEPT !.claim = w, !.lease = "live"]
    BY DEF PrepareAndClaim
  <2> QED
    BY <1>1, <2>1 DEF RecordRows
<1>8. /\ Replays(a) \/ Mints(a)
      /\ Claimable(w) /\ Journalled(w) /\ NoOtherUnresolved(a)
      /\ wrk[w].pc = "loaded"
  BY DEF PrepareAndClaim, At
<1> HIDE DEF new
<1>9. op'[a].gen = gen /\ op'[a].key = key
  BY <1>3, <1>4
<1> QED
  BY <1>1, <1>2, <1>3, <1>4, <1>5, <1>6, <1>7, <1>8, <1>9

LEMMA PrepareWork ==
  ASSUME TypeInv, DecisionInv, [Next]_vars, NEW w \in Workers, PrepareAndClaim(w)
  PROVE  WorkInv(w)'
PROOF
<1> DEFINE a == wrk[w].act
<1>1. /\ a \in Actions /\ Journalled(w) /\ Claimable(w) /\ wrk[w].pc = "loaded"
      /\ rec'.source = rec.source /\ rec'.status = rec.status
      /\ rec'.failed = rec.failed /\ rec'.seq = rec.seq /\ rec'.remote = rec.remote
      /\ op'[a].gen = op[a].gen + 1
      /\ wrk'[w].act = a /\ wrk'[w].status = wrk[w].status
      /\ wrk'[w].seq = wrk[w].seq /\ wrk'[w].remote = wrk[w].remote
      /\ wrk'[w].gen = op'[a].gen /\ wrk'[w].key = op'[a].key
  BY PrepareEffect
<1>2. /\ wrk'[w].pc = IF op[a].status = "provider_accepted" THEN "accepted" ELSE "prepared"
      /\ wrk'[w].app = IF op[a].status = "provider_accepted" THEN op[a].known
                       ELSE IF Creates(w) THEN op'[a].key ELSE wrk[w].remote
      /\ Replays(a) => /\ op'[a].status = op[a].status /\ op'[a].key = op[a].key
                       /\ op'[a].known = op[a].known
      /\ ~Replays(a) => /\ op'[a].status = "prepared" /\ op'[a].key = op[a].gen + 1
      /\ Replays(a) \/ Mints(a)
  BY PrepareEffect
<1>3. LoadInv(w) /\ RowInv
  BY DEF DecisionInv, WorkInv
<1>4. op[a].gen \in Nat /\ op[a].key \in Nat /\ (Imported' <=> Imported)
  BY <1>1, Fields DEF Imported
<1>5. LoadInv(w)'
  BY <1>1, <1>2, <1>3, <1>4 DEF LoadInv, Deciding, Journalling, Trying
<1>6. AllowedAction(a)
  BY <1>1, <1>3 DEF LoadInv, Deciding, Journalled, AllowedAction
<1>7. op[a].status = "provider_accepted" => Replays(a)
  BY DEF Replays
<1>8. op'[a].status # "none"
  BY <1>2 DEF Replays, Replayable
<1>9. op'[a].key <= op'[a].gen
  BY <1>1, <1>2, <1>3, <1>4 DEF RowInv
<1>10. AttemptInv(w)'
  <2>1. Creates(w)' <=> Creates(w)
    BY <1>1 DEF Creates
  <2>2. op[a].status = "provider_accepted" =>
          op'[a].status = "provider_accepted" /\ wrk'[w].app = op'[a].known
    BY <1>2, <1>7
  <2>3. wrk'[w].pc \in Trying =>
          wrk'[w].app = IF Creates(w)' THEN wrk'[w].key ELSE wrk'[w].remote
    BY <1>1, <1>2, <2>1 DEF Trying
  <2>4. wrk'[w].act = "withdraw" => wrk'[w].remote # NoApp
    BY <1>1 DEF Journalled
  <2>5. wrk'[w].gen <= op'[a].gen
    BY <1>1, <1>4
  <2> QED
    BY <1>1, <1>2, <1>8, <1>9, <2>2, <2>3, <2>4, <2>5 DEF AttemptInv
<1>11. PersistInv(w)'
  <2>1. AllowedAction(wrk[w].act)'
    BY <1>1, <1>4, <1>6 DEF AllowedAction
  <2>2. wrk[w].status = "xero_sync_failed" => rec.failed = a
    BY <1>1, <1>3 DEF LoadInv, Deciding, Claimable
  <2>3. wrk'[w].pc \notin Persisting
    BY <1>2 DEF Persisting
  <2> QED
    BY <1>1, <2>1, <2>2, <2>3 DEF PersistInv
<1> QED
  BY <1>5, <1>10, <1>11 DEF WorkInv

LEMMA AcceptEffect ==
  ASSUME TypeInv, NEW w \in Workers, RecordAccepted(w), HoldsAttempt(w, {"outcome_unknown"})
  PROVE  LET a == wrk[w].act IN
         /\ a \in Actions
         /\ wrk[w].pc = "ok" /\ wrk[w].gen = op[a].gen /\ op[a].status = "outcome_unknown"
         /\ RowMoves(a, "provider_accepted", wrk[w].app)
         /\ rec' = rec
         /\ wrk'[w].pc = "accepted" /\ wrk'[w].act = a
         /\ wrk'[w].status = wrk[w].status /\ wrk'[w].seq = wrk[w].seq
         /\ wrk'[w].remote = wrk[w].remote /\ wrk'[w].gen = wrk[w].gen
         /\ wrk'[w].key = wrk[w].key /\ wrk'[w].app = wrk[w].app
         /\ \A v \in Workers \ {w} : wrk'[v] = wrk[v]
PROOF
<1> DEFINE a == wrk[w].act
<1>1. a \in Actions /\ wrk[w].pc = "ok" /\ wrk \in [Workers -> Handlers]
  BY DEF RecordAccepted, At, TypeInv, TypeOK, HandlerInv
<1>2. op' = [op EXCEPT ![a].status = "provider_accepted", ![a].known = wrk[w].app]
  BY DEF RecordAccepted
<1>3. RowMoves(a, "provider_accepted", wrk[w].app)
  BY <1>1, <1>2, RowMove
<1>4. wrk' = [wrk EXCEPT ![w] = [wrk[w] EXCEPT !.pc = "accepted", !.doubts = {}]]
  BY DEF RecordAccepted
<1>5. wrk'[w] = [wrk[w] EXCEPT !.pc = "accepted", !.doubts = {}]
      /\ \A v \in Workers \ {w} : wrk'[v] = wrk[v]
  BY <1>1, <1>4
<1>6. /\ wrk'[w].pc = "accepted" /\ wrk'[w].act = a
      /\ wrk'[w].status = wrk[w].status /\ wrk'[w].seq = wrk[w].seq
      /\ wrk'[w].remote = wrk[w].remote /\ wrk'[w].gen = wrk[w].gen
      /\ wrk'[w].key = wrk[w].key /\ wrk'[w].app = wrk[w].app
  BY <1>1, <1>5 DEF Handlers
<1>7. rec' = rec /\ wrk[w].gen = op[a].gen /\ op[a].status = "outcome_unknown"
  BY DEF RecordAccepted, HoldsAttempt
<1> QED
  BY <1>1, <1>3, <1>5, <1>6, <1>7

LEMMA AcceptWork ==
  ASSUME TypeInv, DecisionInv, [Next]_vars, NEW w \in Workers, RecordAccepted(w),
         HoldsAttempt(w, {"outcome_unknown"})
  PROVE  WorkInv(w)'
PROOF
<1> DEFINE a == wrk[w].act
<1>1. /\ a \in Actions
      /\ wrk[w].pc = "ok" /\ wrk[w].gen = op[a].gen
      /\ op'[a].status = "provider_accepted" /\ op'[a].known = wrk[w].app
      /\ op'[a].gen = op[a].gen /\ op'[a].key = op[a].key
      /\ rec' = rec
      /\ wrk'[w].pc = "accepted" /\ wrk'[w].act = a
      /\ wrk'[w].status = wrk[w].status /\ wrk'[w].seq = wrk[w].seq
      /\ wrk'[w].remote = wrk[w].remote /\ wrk'[w].gen = wrk[w].gen
      /\ wrk'[w].key = wrk[w].key /\ wrk'[w].app = wrk[w].app
  BY AcceptEffect DEF RowMoves
<1>2. LoadInv(w) /\ AttemptInv(w) /\ PersistInv(w)
  BY DEF DecisionInv, WorkInv
<1>3. LoadInv(w)'
  BY <1>1, <1>2 DEF LoadInv, Deciding, Journalling, Trying, Imported
<1>4. AttemptInv(w)'
  BY <1>1, <1>2 DEF AttemptInv, Journalling, Trying
<1>5. PersistInv(w)'
  BY <1>1, <1>2 DEF PersistInv, Journalling, Trying, Persisting, AllowedAction, Imported
<1> QED
  BY <1>3, <1>4, <1>5 DEF WorkInv

LEMMA FailEffect ==
  ASSUME TypeInv, NEW w \in Workers, RecordFailure(w),
         HoldsAttempt(w, {"prepared", "outcome_unknown"}) \/ Creates(w)
  PROVE  /\ wrk[w].pc \in {"refused", "unsure"}
         /\ rec' = rec
         /\ wrk'[w].pc \in Persisting /\ wrk'[w].act = wrk[w].act
         /\ wrk'[w].status = wrk[w].status
PROOF
<1> DEFINE pc == IF Definitive(w) THEN "persist_refusal" ELSE "persist_doubt"
<1>1. wrk \in [Workers -> Handlers] /\ wrk[w].pc \in {"refused", "unsure"} /\ rec' = rec
  BY DEF RecordFailure, At, TypeInv, TypeOK
<1>2. wrk'[w] = [IdleWorker EXCEPT !.pc = pc, !.act = wrk[w].act, !.status = wrk[w].status,
                                   !.seq = wrk[w].seq]
  BY <1>1 DEF RecordFailure
<1>3. pc \in Persisting
  BY DEF Persisting
<1> HIDE DEF pc
<1> QED
  BY <1>1, <1>2, <1>3 DEF IdleWorker

LEMMA FailWork ==
  ASSUME TypeInv, DecisionInv, [Next]_vars, NEW w \in Workers, RecordFailure(w),
         HoldsAttempt(w, {"prepared", "outcome_unknown"}) \/ Creates(w)
  PROVE  WorkInv(w)'
PROOF
<1>1. /\ wrk[w].pc \in Journalling
      /\ rec' = rec
      /\ wrk'[w].pc \in Persisting /\ wrk'[w].act = wrk[w].act
      /\ wrk'[w].status = wrk[w].status
  BY FailEffect DEF Journalling, Trying
<1>2. LoadInv(w) /\ AttemptInv(w) /\ PersistInv(w) /\ wrk[w].act \in Actions
  BY <1>1, Fields DEF DecisionInv, WorkInv, Journalling, Trying
<1>3. LoadInv(w)' /\ AttemptInv(w)'
  BY <1>1 DEF LoadInv, AttemptInv, Deciding, Journalling, Trying, Persisting
<1>4. wrk[w].status \in {IF wrk[w].act = "withdraw" THEN "approved" ELSE "submitted",
                         "xero_sync_failed"}
  BY <1>1, <1>2 DEF LoadInv, AttemptInv, Deciding
<1>5. PersistInv(w)'
  BY <1>1, <1>2, <1>4 DEF PersistInv, AllowedAction, Imported
<1> QED
  BY <1>3, <1>5 DEF WorkInv

LEMMA CommitWork ==
  ASSUME TypeInv, DecisionInv, [Next]_vars, NEW w \in Workers, Commit(w), HoldsRecord(w),
         At(w, "accepted")
  PROVE  WorkInv(w)'
PROOF
<1>1. /\ wrk'[w].pc = "effects" /\ wrk'[w].act = wrk[w].act /\ wrk'[w].gen = wrk[w].gen
      /\ op' = op /\ wrk[w].pc = "accepted"
  <2>1. wrk'[w] = [IdleWorker EXCEPT !.pc = "effects", !.act = wrk[w].act, !.gen = wrk[w].gen]
    BY DEF Commit, TypeInv, TypeOK
  <2>2. wrk'[w].pc = "effects" /\ wrk'[w].act = wrk[w].act /\ wrk'[w].gen = wrk[w].gen
    BY <2>1 DEF IdleWorker
  <2> QED
    BY <2>2 DEF Commit, At, journalVars
<1>2. AttemptInv(w) /\ PersistInv(w)
  BY DEF DecisionInv, WorkInv
<1>3. LoadInv(w)'
  BY <1>1 DEF LoadInv, Deciding, Journalling, Trying
<1>4. AttemptInv(w)'
  BY <1>1, <1>2 DEF AttemptInv, Journalling, Trying
<1>5. rec'.source = rec.source
  BY CommitEffect
<1>6. PersistInv(w)'
  BY <1>1, <1>2, <1>5 DEF PersistInv, Journalling, Trying, Persisting, AllowedAction, Imported
<1> QED
  BY <1>3, <1>4, <1>6 DEF WorkInv

LEMMA WorkStep ==
  ASSUME TypeInv, DecisionInv, [Next]_vars
  PROVE  (\A w \in Workers : WorkInv(w))'
PROOF
<1> SUFFICES ASSUME NEW w \in Workers PROVE WorkInv(w)'
  OBVIOUS
<1>1. ASSUME wrk'[w] = IdleWorker PROVE WorkInv(w)'
  <2>1. wrk'[w].pc = "idle"
    BY <1>1 DEF IdleWorker
  <2> QED
    BY <2>1 DEF WorkInv, LoadInv, AttemptInv, PersistInv, Deciding, Journalling, Trying,
       Persisting
<1> QED
  BY <1>1, HandlerSteps, WorkKept, LoadWork, AcquireWork, PrepareWork, AcceptWork,
     FailWork, CommitWork

-----------------------------------------------------------------------------
(* The record *)

(* A handler that commits holds the record as it loaded it: nothing has been
   decided since. *)
LEMMA CommitFacts ==
  ASSUME TypeInv, DecisionInv, NEW w \in Workers, HoldsRecord(w), Commit(w)
  PROVE  /\ rec.remote = wrk[w].remote /\ rec.status = wrk[w].status
         /\ wrk[w].act = "withdraw" =>
              /\ ~Imported
              /\ rec.remote = NoApp => rec.status = "submitted"
              /\ rec.remote # NoApp =>
                   \/ rec.status = "approved"
                   \/ rec.status = "xero_sync_failed" /\ rec.failed = "withdraw"
         /\ wrk[w].act # "withdraw" =>
              /\ ~Imported => rec.remote = NoApp
              /\ \/ rec.status = "submitted"
                 \/ rec.status = "xero_sync_failed" /\ rec.failed # "withdraw"
         /\ wrk[w].act = "decline" /\ wrk[w].pc = "accepted" => Imported
         /\ wrk[w].pc = "local" => ~Imported /\ wrk[w].act # "approve" /\ rec.remote = NoApp
         /\ wrk[w].pc = "accepted" =>
              /\ wrk[w].gen = op[wrk[w].act].gen
              /\ op[wrk[w].act].status \in {"provider_accepted", "completed"}
              /\ op[wrk[w].act].known = wrk[w].app
              /\ Creates(w) => wrk[w].app \in Generations
PROOF
<1>1. LoadInv(w) /\ AttemptInv(w) /\ PersistInv(w) /\ RecordInv /\ RowInv
  BY DEF DecisionInv, WorkInv
<1>2. /\ wrk[w].pc \in {"accepted", "local"} /\ wrk[w].act \in Actions
      /\ rec.status = wrk[w].status /\ rec.seq = wrk[w].seq /\ rec.claim = w
  BY CommitEffect DEF HoldsRecord
<1>3. /\ rec.remote = wrk[w].remote
      /\ Imported <=> wrk[w].remote = 0
      /\ wrk[w].act = "withdraw" =>
           /\ ~Imported
           /\ wrk[w].status \in {"submitted", "approved", "xero_sync_failed"}
           /\ wrk[w].status = "submitted" <=> wrk[w].remote = NoApp
      /\ wrk[w].act # "withdraw" =>
           /\ wrk[w].status \in {"submitted", "xero_sync_failed"}
           /\ ~Imported => wrk[w].remote = NoApp
      /\ wrk[w].pc = "local" => ~Imported /\ wrk[w].act # "approve" /\ wrk[w].remote = NoApp
  BY <1>1, <1>2 DEF LoadInv, Deciding, Journalling
<1>4. ASSUME wrk[w].act = "withdraw", rec.remote # NoApp
      PROVE  \/ rec.status = "approved"
             \/ rec.status = "xero_sync_failed" /\ rec.failed = "withdraw"
  BY <1>1, <1>2, <1>3, <1>4 DEF RecordInv
<1>5. ASSUME wrk[w].act # "withdraw"
      PROVE  \/ rec.status = "submitted"
             \/ rec.status = "xero_sync_failed" /\ rec.failed # "withdraw"
  BY <1>1, <1>2, <1>3, <1>5 DEF RecordInv
<1>6. wrk[w].act = "decline" /\ wrk[w].pc = "accepted" => Imported
  BY <1>1 DEF PersistInv, Journalling, AllowedAction
<1>7. ASSUME wrk[w].pc = "accepted"
      PROVE  /\ wrk[w].gen = op[wrk[w].act].gen
             /\ op[wrk[w].act].status \in {"provider_accepted", "completed"}
             /\ op[wrk[w].act].known = wrk[w].app
  BY <1>1, <1>2, <1>7 DEF AttemptInv, Journalling
<1>8. wrk[w].pc = "accepted" /\ Creates(w) => wrk[w].app \in Generations
  BY <1>1, <1>2, <1>3, <1>7 DEF RowInv, Creates, NoApp
<1> QED
  BY <1>2, <1>3, <1>4, <1>5, <1>6, <1>7, <1>8

LEMMA PersistFacts ==
  ASSUME TypeInv, DecisionInv, NEW w \in Workers, HoldsRecord(w), PersistFailure(w)
  PROVE  /\ AllowedAction(wrk[w].act)
         /\ wrk[w].act = "withdraw" =>
              \/ rec.status = "approved"
              \/ rec.status = "xero_sync_failed" /\ rec.failed = "withdraw"
         /\ wrk[w].act # "withdraw" =>
              \/ rec.status = "submitted"
              \/ rec.status = "xero_sync_failed" /\ rec.failed # "withdraw"
PROOF
<1>1. PersistInv(w)
  BY DEF DecisionInv, WorkInv
<1>2. wrk[w].pc \in Persisting /\ rec.status = wrk[w].status /\ rec.claim = w
  BY PersistEffect DEF HoldsRecord
<1> QED
  BY <1>1, <1>2 DEF PersistInv

LEMMA RecordStep ==
  ASSUME TypeInv, DecisionInv, [Next]_vars
  PROVE  RecordInv'
PROOF
<1>1. RecordInv
  BY DEF DecisionInv
<1>2. CASE SameDecision
  BY <1>1, <1>2 DEF SameDecision, RecordInv, Imported
<1>3. CASE Submit \/ RevertApprovalAttempt
  <2>1. /\ rec'.source = rec.source /\ rec'.remote = rec.remote /\ rec'.status = "submitted"
        /\ rec'.failed \in {rec.failed, "none"}
        /\ \/ rec.status = "draft"
           \/ rec.status = "xero_sync_failed" /\ rec.failed \in {"approve", "decline"}
    BY <1>3, LocalEffect
  <2>2. CASE Imported
    BY <1>1, <2>1, <2>2 DEF RecordInv, Imported
  <2>3. CASE ~Imported
    BY <1>1, <2>1, <2>3 DEF RecordInv, Imported
  <2> QED
    BY <2>2, <2>3
<1>4. ASSUME NEW w \in Workers, HoldsRecord(w), PersistFailure(w) PROVE RecordInv'
  <2>1. /\ wrk[w].act \in Actions
        /\ rec'.source = rec.source /\ rec'.remote = rec.remote
        /\ rec'.status \in {"approved", "xero_sync_failed"}
        /\ rec'.status = "approved" => wrk[w].act = "withdraw" /\ rec.status = "approved"
        /\ rec'.failed = wrk[w].act
    BY <1>4, PersistEffect
  <2>2. /\ AllowedAction(wrk[w].act)
        /\ wrk[w].act = "withdraw" =>
              \/ rec.status = "approved"
              \/ rec.status = "xero_sync_failed" /\ rec.failed = "withdraw"
        /\ wrk[w].act # "withdraw" =>
              \/ rec.status = "submitted"
              \/ rec.status = "xero_sync_failed" /\ rec.failed # "withdraw"
    BY <1>4, PersistFacts
  <2> QED
    BY <1>1, <2>1, <2>2 DEF RecordInv, Imported, AllowedAction, Actions
<1>5. ASSUME NEW w \in Workers, HoldsRecord(w), Commit(w) PROVE RecordInv'
  <2> DEFINE a == wrk[w].act
  <2>1. /\ a \in Actions
        /\ wrk[w].pc \in {"accepted", "local"}
        /\ rec'.source = rec.source
        /\ rec'.status = Decided[a]
        /\ rec'.failed = "none"
        /\ rec'.remote = IF Creates(w) THEN wrk[w].app ELSE rec.remote
    BY <1>5, CommitEffect
  <2>2. /\ rec.remote = wrk[w].remote
        /\ a = "withdraw" => ~Imported
        /\ a = "decline" /\ wrk[w].pc = "accepted" => Imported
        /\ wrk[w].pc = "local" => ~Imported /\ a # "approve" /\ rec.remote = NoApp
        /\ wrk[w].pc = "accepted" /\ Creates(w) => wrk[w].app \in Generations
        /\ a # "withdraw" /\ ~Imported => rec.remote = NoApp
    BY <1>5, CommitFacts
  <2>3. rec'.status \in {"approved", "declined", "withdrawn"}
        /\ (a = "approve" <=> rec'.status = "approved")
        /\ (a = "withdraw" <=> rec'.status = "withdrawn")
    BY <2>1 DEF Decided, Actions
  <2>4. (Imported' <=> Imported) /\ NoApp # 0
    BY <2>1 DEF Imported, NoApp
  <2>5. CASE Creates(w)
    <3>1. ~Imported /\ a = "approve" /\ rec.remote = NoApp /\ wrk[w].pc = "accepted"
      BY <1>1, <2>1, <2>2, <2>4, <2>5 DEF Creates, RecordInv
    <3>2. rec'.remote \in Generations /\ rec'.remote # 0 /\ rec'.remote # NoApp
      BY <2>1, <2>2, <2>5, <3>1 DEF Generations, NoApp
    <3> QED
      BY <2>1, <2>3, <2>4, <3>1, <3>2 DEF RecordInv
  <2>6. CASE ~Creates(w)
    <3>1. rec'.remote = rec.remote /\ (a = "approve" => rec.remote # NoApp)
      BY <2>1, <2>2, <2>6 DEF Creates
    <3> QED
      BY <1>1, <2>1, <2>2, <2>3, <2>4, <3>1 DEF RecordInv
  <2> QED
    BY <2>5, <2>6
<1>6. CASE AdminMerge /\ Merges
  <2>1. adm.pc = "merging"
    BY <1>6 DEF AdminMerge
  <2>2. /\ adm.act \in Actions
        /\ AllowedAction(adm.act)
        /\ Imported => adm.app = 0 /\ adm.target = Decided[adm.act]
        /\ ~Imported => adm.app \in Generations
                        /\ adm.target \in {"approved", "declined", "withdrawn"}
    BY <2>1 DEF DecisionInv, AdminInv, AllowedAction, Actions, Decided
  <2>3. /\ rec'.source = rec.source /\ rec'.status = adm.target
        /\ rec'.failed = "none" /\ rec'.remote = adm.app
    BY <1>6, LocalEffect
  <2>4. Imported => adm.target \in {"approved", "declined"}
    BY <2>2 DEF AllowedAction, Actions, Decided
  <2>5. ~Imported => rec'.remote # 0 /\ rec'.remote # NoApp
    BY <2>2, <2>3 DEF Generations, NoApp
  <2> QED
    BY <2>2, <2>3, <2>4, <2>5 DEF RecordInv, Imported
<1> QED
  BY <1>2, <1>3, <1>4, <1>5, <1>6, RecordSteps

-----------------------------------------------------------------------------
(* Xero *)

LEMMA PayrollSteps ==
  ASSUME [Next]_vars
  PROVE  \/ app' = app /\ done' = done /\ net' = net /\ posted' = posted
         \/ \E w \in Workers : Send(w)
         \/ \E m \in net : XeroAccepts(m)
         \/ \E m \in net : XeroRefuses(m)
         \/ \E x \in AppIds : EditInXero(x)
PROOF
<1>1. CASE UNCHANGED vars \/ Submit \/ RevertApprovalAttempt \/ Clock \/ Administrator \/ Sync
  BY <1>1 DEF vars, Submit, RevertApprovalAttempt, Clock, ExpireClaim, CloseWindow,
     Sync, SyncLoad, SyncApply, Administrator, AdminOpen, AdminMarkAccepted, AdminMerge,
     AdminEffects, AdminVerify, AdminNotCreated, AdminCrash, providerVars
<1>2. ASSUME NEW w \in Workers, Handler(w), ~Send(w)
      PROVE  app' = app /\ done' = done /\ net' = net /\ posted' = posted
  BY <1>2 DEF Handler, Load, Conflict, AcquireLocalClaim, PrepareAndClaim,
     DispatchStarted, DispatchRefused, NotSent, LoseAnswer, RecordAccepted,
     RecordFailure, PersistFailure, Commit, CompleteEffects, Throw, Crash, providerVars
<1> QED
  BY <1>1, <1>2 DEF Next, Xero, PayrollStaff

(* The application a handler's request is about. *)
LEMMA Addressee ==
  ASSUME TypeInv, DecisionInv, NEW w \in Workers, wrk[w].pc \in Trying
  PROVE  /\ wrk[w].act \in Actions /\ AllowedAction(wrk[w].act)
         /\ wrk[w].key \in Generations
         /\ Creates(w) <=> ~Imported /\ wrk[w].act = "approve"
         /\ Imported => wrk[w].app = 0
         /\ Creates(w) => wrk[w].app = wrk[w].key
         /\ ~Imported /\ ~Creates(w) => /\ wrk[w].act = "withdraw"
                                        /\ wrk[w].app = rec.remote
                                        /\ wrk[w].app \in Generations
PROOF
<1>1. LoadInv(w) /\ AttemptInv(w) /\ PersistInv(w)
  BY DEF DecisionInv, WorkInv
<1>2. /\ wrk[w].key \in Generations /\ wrk[w].act \in Actions
      /\ wrk[w].app \in AppIds
  BY DEF Trying, TypeInv, HandlerInv
<1>3. /\ wrk[w].act = "withdraw" => wrk[w].remote # NoApp
      /\ wrk[w].app = IF Creates(w) THEN wrk[w].key ELSE wrk[w].remote
      /\ AllowedAction(wrk[w].act)
  BY <1>1 DEF AttemptInv, PersistInv, Journalling
<1>4. /\ wrk[w].act # "withdraw" /\ ~Imported => wrk[w].remote = NoApp
      /\ wrk[w].remote # NoApp => wrk[w].remote = rec.remote
      /\ Imported <=> wrk[w].remote = 0
  BY <1>1 DEF LoadInv, Deciding, Journalling
<1>5. Creates(w) <=> ~Imported /\ wrk[w].act = "approve"
  <2>1. NoApp # 0
    BY DEF NoApp
  <2> QED
    BY <1>3, <1>4, <2>1 DEF Creates, AllowedAction
<1>6. ASSUME ~Imported, ~Creates(w)
      PROVE  /\ wrk[w].act = "withdraw"
             /\ wrk[w].app = rec.remote
             /\ wrk[w].app \in Generations
  <2>1. wrk[w].act = "withdraw"
    BY <1>2, <1>3, <1>5, <1>6 DEF AllowedAction, Actions
  <2>2. wrk[w].app = wrk[w].remote /\ wrk[w].remote # 0
    BY <1>3, <1>4, <1>6
  <2> QED
    BY <1>2, <1>3, <1>4, <2>1, <2>2 DEF AppIds, Generations
<1> QED
  BY <1>2, <1>3, <1>4, <1>5, <1>6 DEF Creates

LEMMA SendEffect ==
  ASSUME NEW w \in Workers, Send(w)
  PROVE  /\ wrk[w].pc = "ready"
         /\ <<wrk[w].act, wrk[w].key>> \in open
         /\ net' = net \cup {[act |-> wrk[w].act, key |-> wrk[w].key, app |-> wrk[w].app,
                              from |-> w, sent |-> "in_window"]}
         /\ app' = app /\ done' = done /\ posted' = posted
BY DEF Send, At, MaySend

LEMMA PayrollStep ==
  ASSUME TypeInv, DecisionInv, [Next]_vars
  PROVE  PayrollInv'
PROOF
<1>1. PayrollInv /\ rec'.source = rec.source
  BY RecordKeptStep DEF DecisionInv, RecordKept
<1>2. Imported' <=> Imported
  BY <1>1 DEF Imported
<1>3. \A a : AllowedAction(a)' <=> AllowedAction(a)
  BY <1>2 DEF AllowedAction
<1>4. app \in [AppIds -> AppStates] /\ Generations \subseteq AppIds /\ 0 \in AppIds
      /\ 0 \notin Generations
  BY GenerationAssumption DEF TypeInv, TypeOK, Generations, AppIds
<1>5. CASE app' = app /\ done' = done /\ net' = net
  BY <1>1, <1>2, <1>3, <1>5 DEF PayrollInv
<1>6. ASSUME NEW w \in Workers, Send(w) PROVE PayrollInv'
  <2> DEFINE m == [act |-> wrk[w].act, key |-> wrk[w].key, app |-> wrk[w].app,
                   from |-> w, sent |-> "in_window"]
  <2>1. app' = app /\ done' = done /\ net' = net \cup {m} /\ wrk[w].pc \in Trying
    BY <1>6, SendEffect DEF Trying
  <2>2. /\ m.sent = "in_window"
        /\ AllowedAction(m.act)
        /\ Imported => m.app = 0
        /\ ~Imported /\ m.act = "approve" => m.app = m.key
        /\ ~Imported => m.app \in Generations
    BY <2>1, Addressee
  <2> HIDE DEF m
  <2> QED
    BY <1>1, <1>2, <1>3, <2>1, <2>2 DEF PayrollInv
<1>7. ASSUME NEW m \in net, XeroRefuses(m) PROVE PayrollInv'
  BY <1>1, <1>2, <1>3, <1>7 DEF XeroRefuses, PayrollInv
<1>8. ASSUME NEW x \in AppIds, EditInXero(x) PROVE PayrollInv'
  <2>1. done' = done /\ net' = net /\ app[x] # "absent"
        /\ \A y \in AppIds \ {x} : app'[y] = app[y]
    BY <1>4, <1>8 DEF EditInXero
  <2>2. \A y \in AppIds : app[y] = "absent" => app'[y] = "absent"
    BY <2>1
  <2> QED
    BY <1>1, <1>2, <1>3, <1>4, <2>1, <2>2 DEF PayrollInv
<1>9. ASSUME NEW m \in net, XeroAccepts(m) PROVE PayrollInv'
  <2>1. m \in Requests /\ net' \subseteq net
    BY <1>9 DEF TypeInv, TypeOK, XeroAccepts
  <2>2. CASE Remembered(m)
    BY <1>1, <1>2, <1>3, <1>9, <2>1, <2>2 DEF XeroAccepts, PayrollInv
  <2>3. CASE ~Remembered(m)
    <3>1. /\ Applicable(m)
          /\ done' = done \cup {<<m.act, m.key>>}
          /\ \A y \in AppIds \ {m.app} : app'[y] = app[y]
      BY <1>4, <1>9, <2>3 DEF XeroAccepts
    <3>2. ~Imported => m.app # 0 /\ m.app \in Generations
      BY <1>1, <1>4 DEF PayrollInv
    <3>3. ASSUME ~Imported, m.act = "approve" PROVE <<"approve", m.app>> \in done'
      BY <1>1, <3>1, <3>3 DEF PayrollInv
    <3>4. ASSUME ~Imported, m.act # "approve" PROVE app[m.app] # "absent"
      BY <1>1, <2>1, <3>1, <3>4
      DEF PayrollInv, AllowedAction, Applicable, IsCreate, Requests, Actions
    <3>5. ASSUME NEW k \in Generations, app'[k] # "absent"
          PROVE  ~Imported /\ <<"approve", k>> \in done'
      <4>1. CASE k = m.app
        <5>1. ~Imported
          BY <1>1, <1>4, <4>1 DEF PayrollInv
        <5> QED
          BY <1>1, <3>1, <3>3, <3>4, <4>1, <5>1 DEF PayrollInv
      <4>2. CASE k # m.app
        BY <1>1, <1>4, <3>1, <3>5, <4>2 DEF PayrollInv
      <4> QED
        BY <4>1, <4>2
    <3>6. ~Imported => app'[0] = "absent"
      BY <1>1, <1>4, <3>1, <3>2 DEF PayrollInv
    <3> QED
      BY <1>1, <1>2, <1>3, <2>1, <3>5, <3>6 DEF PayrollInv
  <2> QED
    BY <2>2, <2>3
<1> QED
  BY <1>5, <1>6, <1>7, <1>8, <1>9, PayrollSteps

(* A create that Xero has not processed finds no application of its key. *)
LEMMA RejectedStays ==
  ASSUME TypeInv, DecisionInv, [Next]_vars, NEW x \in AppIds, app[x] = "rejected"
  PROVE  app'[x] = "rejected"
PROOF
<1>1. app \in [AppIds -> AppStates]
  BY DEF TypeInv, TypeOK
<1>2. ASSUME NEW y \in AppIds, EditInXero(y) PROVE app'[x] = "rejected"
  BY <1>1, <1>2 DEF EditInXero
<1>3. ASSUME NEW m \in net, XeroAccepts(m) PROVE app'[x] = "rejected"
  <2>1. CASE Remembered(m)
    BY <1>3, <2>1 DEF XeroAccepts
  <2>2. CASE ~Remembered(m)
    <3>1. m \in Requests /\ m.key \in Generations /\ m.sent = "in_window"
      BY DEF TypeInv, TypeOK, Requests, DecisionInv, PayrollInv
    <3>2. app' = [app EXCEPT ![m.app] = Effect(m)] /\ Applicable(m)
      BY <1>3, <2>2 DEF XeroAccepts
    <3>3. IsCreate(m) => app[m.app] = "absent"
      BY <2>2, <3>1 DEF IsCreate, Remembered, DecisionInv, PayrollInv
    <3>4. m.app # x
      BY <3>1, <3>2, <3>3 DEF Applicable, Requests, Actions
    <3> QED
      BY <1>1, <3>2, <3>4
  <2> QED
    BY <2>1, <2>2
<1>4. ASSUME NEW m \in net, XeroRefuses(m) PROVE app' = app
  BY <1>4 DEF XeroRefuses
<1> QED
  BY <1>2, <1>3, <1>4, PayrollSteps, SendEffect

-----------------------------------------------------------------------------
(* Rows *)

LEMMA AcceptedApplication ==
  ASSUME TypeInv, DecisionInv, NEW a \in Actions, NEW x, Accepts(a, x)
  PROVE  /\ op[a].status = "outcome_unknown"
         /\ Imported => x = 0
         /\ a = "withdraw" => x = rec.remote
         /\ ~Imported /\ a = "approve" => x \in Generations
PROOF
<1>1. ASSUME NEW w \in Workers, RecordAccepted(w), HoldsAttempt(w, {"outcome_unknown"}),
             wrk[w].act = a, wrk[w].app = x
      PROVE  /\ op[a].status = "outcome_unknown"
             /\ Imported => x = 0
             /\ a = "withdraw" => x = rec.remote
             /\ ~Imported /\ a = "approve" => x \in Generations
  <2>1. wrk[w].pc \in Trying
    BY <1>1 DEF RecordAccepted, At, Trying
  <2>2. a = "withdraw" => ~Imported
    BY <1>1, <2>1, Addressee DEF AllowedAction
  <2> QED
    BY <1>1, <2>1, <2>2, Addressee DEF HoldsAttempt
<1>2. ASSUME AdminMarkAccepted, AdminHolds({"outcome_unknown"}), adm.act = a, adm.app = x
      PROVE  /\ op[a].status = "outcome_unknown"
             /\ Imported => x = 0
             /\ a = "withdraw" => x = rec.remote
             /\ ~Imported /\ a = "approve" => x \in Generations
  <2>1. adm.pc = "attaching"
    BY <1>2 DEF AdminMarkAccepted
  <2>2. NoApp \notin Generations
    BY DEF NoApp, Generations
  <2>3. AdminInv
    BY DEF DecisionInv
  <2>4. a = "withdraw" => x = rec.remote
    BY <1>2, <2>1, <2>2, <2>3 DEF AdminInv, AllowedAction
  <2> QED
    BY <1>2, <2>1, <2>3, <2>4 DEF AdminInv, AdminHolds
<1> QED
  BY <1>1, <1>2 DEF Accepts

LEMMA RowStep ==
  ASSUME TypeInv, DecisionInv, [Next]_vars
  PROVE  RowInv'
PROOF
<1>1. RowInv /\ RecordKept
  BY RecordKeptStep DEF DecisionInv
<1>2. (Imported' <=> Imported) /\ \A a : AllowedAction(a)' <=> AllowedAction(a)
  BY <1>1 DEF Imported, RecordKept, AllowedAction
<1>3. rec.remote # NoApp => rec'.remote = rec.remote
  BY <1>1 DEF RecordKept
<1> DEFINE Good(b) ==
      /\ op'[b].status = "none" => op'[b].gen = 0
      /\ op'[b].key <= op'[b].gen
      /\ op'[b].status # "none" =>
         /\ op'[b].key # 0
         /\ AllowedAction(b)
         /\ Imported => op'[b].known = 0
         /\ b = "withdraw" => op'[b].known = rec'.remote /\ rec'.remote # NoApp
         /\ ~Imported /\ b = "approve" /\ op'[b].status \in {"provider_accepted", "completed"}
              => op'[b].known \in Generations
<1>4. (\A b \in Actions : Good(b)) => RowInv'
  BY <1>2 DEF RowInv
<1>5. ASSUME NEW b \in Actions, op'[b] = op[b] PROVE Good(b)
  BY <1>1, <1>3, <1>5 DEF RowInv
<1>6. ASSUME NEW w \in Workers, PrepareAndClaim(w) PROVE RowInv'
  <2> DEFINE a == wrk[w].act
  <2>1. /\ a \in Actions
        /\ Journalled(w) /\ Claimable(w) /\ wrk[w].pc = "loaded"
        /\ \A b \in Actions \ {a} : op'[b] = op[b]
        /\ op'[a].gen = op[a].gen + 1
        /\ Replays(a) => /\ op'[a].status = op[a].status /\ op'[a].key = op[a].key
                         /\ op'[a].known = op[a].known
        /\ ~Replays(a) => /\ op'[a].status = "prepared" /\ op'[a].key = op[a].gen + 1
                          /\ op'[a].known = wrk[w].remote
    BY <1>6, PrepareEffect
  <2>2. op[a].gen \in Nat /\ op[a].key \in Nat
    BY <2>1, Fields
  <2>3. LoadInv(w)
    BY DEF DecisionInv, WorkInv
  <2>4. CASE Replays(a)
    <3>1. op[a].status # "none"
      BY <2>4 DEF Replays, Replayable
    <3>2. Good(a)
      BY <1>1, <1>3, <2>1, <2>2, <2>4, <3>1 DEF RowInv
    <3> QED
      BY <1>4, <1>5, <2>1, <3>2
  <2>5. CASE ~Replays(a)
    <3>1. /\ Imported => wrk[w].remote = 0
          /\ a = "withdraw" => wrk[w].remote = rec.remote /\ rec.remote # NoApp
          /\ AllowedAction(a)
      BY <2>1, <2>3 DEF LoadInv, Deciding, Claimable, Journalled, AllowedAction
    <3>2. Good(a)
      BY <1>3, <2>1, <2>2, <2>5, <3>1
    <3> QED
      BY <1>4, <1>5, <2>1, <3>2
  <2> QED
    BY <2>4, <2>5
<1>7. ASSUME NEW a \in Actions, NEW s, NEW x, RowMoves(a, s, x), s # "none",
             op[a].status # "none",
             \/ /\ x = op[a].known
                /\ s \in {"provider_accepted", "completed"} =>
                     op[a].status \in {"provider_accepted", "completed"}
             \/ Accepts(a, x)
      PROVE  RowInv'
  <2>1. /\ op'[a].status = s /\ op'[a].known = x
        /\ op'[a].gen = op[a].gen /\ op'[a].key = op[a].key
        /\ \A b \in Actions \ {a} : op'[b] = op[b]
    BY <1>7 DEF RowMoves
  <2>2. Good(a)
    <3>1. CASE Accepts(a, x)
      BY <1>1, <1>3, <1>7, <2>1, <3>1, AcceptedApplication DEF RowInv
    <3>2. CASE ~Accepts(a, x)
      BY <1>1, <1>3, <1>7, <2>1, <3>2 DEF RowInv
    <3> QED
      BY <3>1, <3>2
  <2> QED
    BY <1>4, <1>5, <2>1, <2>2
<1>8. ASSUME op' = op PROVE RowInv'
  BY <1>4, <1>5, <1>8
<1>9. \A a \in Actions :
        /\ Dispatches(a) => op[a].status \in {"prepared", "outcome_unknown"}
        /\ Refutes(a) => op[a].status \in {"prepared", "outcome_unknown"}
        /\ Completes(a) => op[a].status = "provider_accepted"
        /\ \A x : Accepts(a, x) => op[a].status = "outcome_unknown"
  BY DEF Dispatches, Refutes, Completes, Accepts, HoldsAttempt, AdminHolds
<1> HIDE DEF Good
<1> QED
  BY <1>6, <1>7, <1>8, <1>9, RowSteps, AdminActs

-----------------------------------------------------------------------------
(* Decisions on the record *)

(* A decision on the record stays there, or a later one starts from it, unless
   the administrator writes the record. *)
LEMMA CommittedStays ==
  ASSUME TypeInv, DecisionInv, [Next]_vars, ~(AdminMerge /\ Merges),
         NEW a \in Actions, NEW x \in AppIds, CommittedAs(a, x)
  PROVE  CommittedAs(a, x)'
PROOF
<1>1. RecordKept /\ x # NoApp
  BY RecordKeptStep DEF AppIds, NoApp
<1>2. a = "approve" => rec.remote = x /\ rec'.remote = x
  BY <1>1 DEF CommittedAs, RecordKept
<1>3. a = "approve" /\ app[x] = "rejected" => app'[x] = "rejected"
  BY RejectedStays
<1>4. CASE SameDecision
  BY <1>2, <1>3, <1>4 DEF SameDecision, CommittedAs
<1>5. ~Submit /\ ~RevertApprovalAttempt
  BY LocalEffect DEF CommittedAs, Actions
<1>6. ASSUME NEW w \in Workers, HoldsRecord(w), PersistFailure(w) PROVE CommittedAs(a, x)'
  <2>1. /\ rec'.status \in {"approved", "xero_sync_failed"}
        /\ rec'.failed = wrk[w].act
        /\ wrk[w].act = "withdraw" =>
              \/ rec.status = "approved"
              \/ rec.status = "xero_sync_failed" /\ rec.failed = "withdraw"
        /\ wrk[w].act # "withdraw" =>
              \/ rec.status = "submitted"
              \/ rec.status = "xero_sync_failed" /\ rec.failed # "withdraw"
    BY <1>6, PersistEffect, PersistFacts
  <2>2. a = "approve" /\ wrk[w].act = "withdraw"
    BY <2>1 DEF CommittedAs, Actions
  <2> QED
    BY <1>2, <2>1, <2>2 DEF CommittedAs
<1>7. ASSUME NEW w \in Workers, HoldsRecord(w), Commit(w) PROVE CommittedAs(a, x)'
  <2>1. /\ rec'.status = Decided[wrk[w].act]
        /\ wrk[w].act = "withdraw" =>
             /\ rec.remote = NoApp => rec.status = "submitted"
             /\ rec.remote # NoApp =>
                  \/ rec.status = "approved"
                  \/ rec.status = "xero_sync_failed" /\ rec.failed = "withdraw"
        /\ wrk[w].act # "withdraw" =>
             \/ rec.status = "submitted"
             \/ rec.status = "xero_sync_failed" /\ rec.failed # "withdraw"
    BY <1>7, CommitEffect, CommitFacts
  <2>2. a = "approve" /\ wrk[w].act = "withdraw"
    BY <2>1 DEF CommittedAs, Actions
  <2>3. rec'.status = "withdrawn"
    BY <2>1, <2>2 DEF Decided
  <2> QED
    BY <1>2, <2>2, <2>3 DEF CommittedAs
<1> QED
  BY <1>4, <1>5, <1>6, <1>7, RecordSteps

LEMMA CommitCommits ==
  ASSUME TypeInv, DecisionInv, NEW w \in Workers, HoldsRecord(w), Commit(w),
         At(w, "accepted")
  PROVE  CommittedAs(wrk[w].act, op[wrk[w].act].known)'
PROOF
<1> DEFINE a == wrk[w].act
<1>1. /\ a \in Actions
      /\ rec'.status = Decided[a]
      /\ rec'.remote = IF Creates(w) THEN wrk[w].app ELSE rec.remote
      /\ rec'.source = rec.source
  BY CommitEffect
<1>2. /\ op[a].status \in {"provider_accepted", "completed"}
      /\ op[a].known = wrk[w].app
      /\ rec.remote = wrk[w].remote
      /\ a # "withdraw" /\ ~Imported => rec.remote = NoApp
  BY CommitFacts DEF At
<1>3. op' = op /\ wrk'[w].act = a
  <2>1. op' = op /\ wrk'[w] = [IdleWorker EXCEPT !.pc = "effects", !.act = a,
                                                 !.gen = wrk[w].gen]
    BY DEF Commit, TypeInv, TypeOK, journalVars
  <2> QED
    BY <2>1 DEF IdleWorker
<1>4. a = "approve" => rec'.remote = op[a].known
  <2>1. CASE Imported
    <3>1. rec.remote = 0 /\ op[a].known = 0
      BY <1>1, <1>2, <2>1 DEF DecisionInv, RecordInv, RowInv
    <3> QED
      BY <1>1, <1>2, <3>1 DEF Creates, NoApp
  <2>2. CASE ~Imported
    BY <1>1, <1>2, <2>2 DEF Creates
  <2> QED
    BY <2>1, <2>2
<1>5. /\ a = "decline" => rec'.status = "declined"
      /\ a = "withdraw" => rec'.status = "withdrawn"
      /\ a = "approve" => rec'.status = "approved"
  BY <1>1 DEF Decided
<1> QED
  BY <1>1, <1>3, <1>4, <1>5 DEF CommittedAs

(* The administrator's merge puts the recovered decision on the record, and
   keeps the approval a recovered withdrawal starts from. *)
LEMMA MergeCommits ==
  ASSUME TypeInv, DecisionInv, AdminMerge, Merges
  PROVE  /\ adm.act \in Actions /\ adm.app \in AppIds
         /\ op[adm.act].status = "provider_accepted" /\ op[adm.act].known = adm.app
         /\ CommittedAs(adm.act, adm.app)'
         /\ \A b \in Actions : op[b].status = "completed" => CommittedAs(b, op[b].known)'
PROOF
<1> DEFINE a == adm.act
<1>1. AdminInv /\ CommitInv /\ adm.pc = "merging" /\ rec.remote = adm.remote
      /\ adm.gen = op[a].gen /\ op[a].status = "provider_accepted"
  BY DEF DecisionInv, AdminMerge, Merges, AdminHolds
<1>2. /\ a \in Actions /\ op[a].known = adm.app /\ AllowedAction(a)
      /\ Imported => adm.app = 0
      /\ ~Imported => adm.app \in Generations
      /\ Imported \/ a = "withdraw" => adm.app = adm.remote /\ adm.target = Decided[a]
      /\ ~Imported /\ a = "approve" =>
           \/ adm.target = "approved"
           \/ adm.target = "declined" /\ app[adm.app] = "rejected"
  BY <1>1 DEF AdminInv
<1>3. adm.app \in AppIds
  BY <1>2, GenerationAssumption DEF Generations, AppIds
<1>4. rec'.status = adm.target /\ rec'.remote = adm.app /\ app' = app /\ op' = op
      /\ rec'.source = rec.source
  BY LocalEffect DEF AdminMerge, providerVars, journalVars
<1>6. adm' = [adm EXCEPT !.pc = "effects"]
  BY DEF AdminMerge, Merges
<1>7. adm'.act = a /\ adm'.app = adm.app
  BY <1>6 DEF TypeInv, TypeOK, Recoveries
<1>8. CommittedAs(a, adm.app)'
  <2>1. CASE a = "approve"
    <3>1. adm.target = "approved" \/ (adm.target = "declined" /\ app[adm.app] = "rejected")
      BY <1>2, <2>1 DEF Decided
    <3> QED
      BY <1>4, <1>7, <2>1, <3>1 DEF CommittedAs
  <2>2. CASE a # "approve"
    <3>1. adm.target = Decided[a]
      BY <1>2, <2>2 DEF AllowedAction, Actions
    <3> QED
      BY <1>2, <1>4, <1>7, <2>2, <3>1 DEF CommittedAs, Decided, Actions
  <2> QED
    BY <2>1, <2>2
<1>9. ASSUME NEW b \in Actions, op[b].status = "completed"
      PROVE  CommittedAs(b, op[b].known)'
  <2>1. a = "withdraw" /\ b = "approve"
    BY <1>1, <1>2, <1>9 DEF CommitInv, Unresolved
  <2>2. rec.remote = op[b].known
    BY <1>1, <1>9, <2>1 DEF CommitInv, CommittedAs
  <2>3. rec'.remote = op[b].known /\ rec'.status = "withdrawn"
    BY <1>1, <1>2, <1>4, <2>1, <2>2 DEF Decided
  <2> QED
    BY <1>4, <2>1, <2>3 DEF CommittedAs
<1> QED
  BY <1>1, <1>2, <1>3, <1>8, <1>9

-----------------------------------------------------------------------------
(* The administrator *)

LEMMA RecoverySteps ==
  ASSUME [Next]_vars
  PROVE  \/ adm' = adm
         \/ adm' = IdleAdmin
         \/ \E a \in Actions, x \in AppIds : AdminOpen(a, x)
         \/ AdminMarkAccepted /\ adm' = [adm EXCEPT !.pc = adm.next]
         \/ AdminMerge /\ Merges
         \/ \E a \in Actions : AdminVerify(a)
PROOF
<1>1. CASE UNCHANGED vars \/ Submit \/ RevertApprovalAttempt \/ Clock \/ Xero \/ PayrollStaff
           \/ Sync
  BY <1>1 DEF vars, Submit, RevertApprovalAttempt, Clock, ExpireClaim, CloseWindow, Xero,
     XeroAccepts, XeroRefuses, PayrollStaff, EditInXero, Sync, SyncLoad, SyncApply
<1>2. ASSUME NEW w \in Workers, Handler(w) PROVE adm' = adm
  BY <1>2 DEF Handler, Load, Conflict, AcquireLocalClaim, PrepareAndClaim,
     DispatchStarted, DispatchRefused, Send, NotSent, LoseAnswer, RecordAccepted,
     RecordFailure, PersistFailure, Commit, CompleteEffects, Throw, Crash
<1>3. CASE Administrator
  BY <1>3 DEF Administrator, AdminMarkAccepted, AdminMerge, Merges, AdminEffects,
     AdminNotCreated, AdminCrash
<1> QED
  BY <1>1, <1>2, <1>3 DEF Next

LEMMA AdminKept ==
  ASSUME TypeInv, DecisionInv, [Next]_vars, adm' = adm
  PROVE  AdminInv'
PROOF
<1> SUFFICES ASSUME adm.pc # "idle" PROVE AdminInv'
  BY DEF AdminInv
<1> DEFINE a == adm.act
<1>1. AdminInv /\ a \in Actions
  BY DEF DecisionInv, AdminInv
<1>2. ~(AdminMerge /\ Merges)
  <2>1. adm \in Recoveries
    BY DEF TypeInv, TypeOK
  <2>2. AdminMerge /\ Merges => adm.pc = "merging" /\ adm' = [adm EXCEPT !.pc = "effects"]
    BY DEF AdminMerge, Merges
  <2> QED
    BY <2>1, <2>2 DEF Recoveries
<1>3. RecordKept /\ RowsKeep /\ adm.gen \in Nat /\ op[a].gen \in Nat
  BY <1>1, RecordKeptStep, RowsKeepStep, Fields
<1>4. /\ Imported' <=> Imported
      /\ \A b : AllowedAction(b)' <=> AllowedAction(b)
  BY <1>3 DEF RecordKept, Imported, AllowedAction
<1>5. op'[a].gen \in Nat /\ op[a].gen <= op'[a].gen /\ adm.gen <= op[a].gen
  <2>1. TypeInv'
    BY TypeStep
  <2> QED
    BY <1>1, <1>3, <2>1 DEF RowsKeep, AdminInv, TypeInv, TypeOK, JournalRows
<1>6. /\ adm.gen <= op'[a].gen
      /\ adm.gen = op'[a].gen => adm.gen = op[a].gen /\ op'[a].gen = op[a].gen
  BY <1>3, <1>5
<1>7. adm.gen = op'[a].gen => op'[a].status # "none"
  BY <1>1, <1>3, <1>6 DEF RowsKeep, AdminInv
<1>8. ASSUME \/ adm.pc = "attaching" /\ adm.was = "provider_accepted"
             \/ adm.pc \in {"merging", "effects"},
             adm.gen = op'[a].gen
      PROVE  op'[a].status \in {"provider_accepted", "completed"} /\ op'[a].known = adm.app
  BY <1>1, <1>3, <1>6, <1>8 DEF RowsKeep, AdminInv
<1>9. ASSUME adm.pc \in {"attaching", "merging"}
      PROVE  /\ adm.was \in Recoverable
             /\ adm.remote # NoApp => rec'.remote = adm.remote
             /\ Imported => adm.app = 0
             /\ ~Imported => adm.app \in Generations
             /\ Imported \/ a = "withdraw" => adm.app = adm.remote /\ adm.target = Decided[a]
             /\ ~Imported /\ a = "approve" =>
                  /\ adm.remote = NoApp
                  /\ \/ adm.target = "approved"
                     \/ adm.target = "declined" /\ app'[adm.app] = "rejected"
  <2>1. app[adm.app] = "rejected" /\ adm.app \in Generations => app'[adm.app] = "rejected"
    BY RejectedStays, Constants
  <2>2. adm.remote # NoApp => rec'.remote = adm.remote
    BY <1>1, <1>3, <1>9 DEF AdminInv, RecordKept
  <2> QED
    BY <1>1, <1>9, <2>1, <2>2 DEF AdminInv
<1>10. ASSUME \/ adm.pc = "attaching" /\ adm.next = "effects"
              \/ adm.pc = "effects"
       PROVE  adm.app \in AppIds /\ CommittedAs(adm.act, adm.app)'
  <2>1. adm.app \in AppIds /\ CommittedAs(adm.act, adm.app)
    BY <1>1, <1>10 DEF AdminInv
  <2>2. ASSUME NEW b \in Actions, NEW x \in AppIds, CommittedAs(b, x), b = adm'.act,
               x = adm'.app
        PROVE  CommittedAs(adm.act, adm.app)'
    <3>1. CommittedAs(b, x)'
      BY <1>2, <2>2, CommittedStays
    <3> QED
      BY <2>2, <3>1 DEF CommittedAs
  <2> QED
    BY <1>1, <2>1, <2>2
<1> QED
  BY <1>1, <1>4, <1>6, <1>7, <1>8, <1>9, <1>10 DEF AdminInv

LEMMA OpenEffect ==
  ASSUME NEW a \in Actions, NEW x \in AppIds, AdminOpen(a, x)
  PROVE  /\ rec' = rec /\ op' = op /\ app' = app
         /\ RecoveryOperation(a) /\ Candidate(a, x)
         /\ adm'.pc = "attaching" /\ adm'.act = a /\ adm'.gen = op[a].gen
         /\ adm'.was = op[a].status /\ adm'.app = x /\ adm'.target = Target(a, x)
         /\ adm'.remote = IF Transition(a) THEN x ELSE NoApp
         /\ adm'.next = IF AlreadyAttached(a, x) THEN "effects" ELSE "merging"
BY DEF AdminOpen, journalVars, providerVars

LEMMA AdminOpened ==
  ASSUME TypeInv, DecisionInv, NEW a \in Actions, NEW x \in AppIds, AdminOpen(a, x)
  PROVE  AdminInv'
PROOF
<1>1. /\ rec' = rec /\ op' = op /\ app' = app
      /\ RecoveryOperation(a) /\ Candidate(a, x)
      /\ adm'.pc = "attaching" /\ adm'.act = a /\ adm'.gen = op[a].gen
      /\ adm'.was = op[a].status /\ adm'.app = x /\ adm'.target = Target(a, x)
      /\ adm'.remote = IF Transition(a) THEN x ELSE NoApp
      /\ adm'.next = IF AlreadyAttached(a, x) THEN "effects" ELSE "merging"
  BY OpenEffect
<1>2. op[a].status \in Recoverable /\ op[a].status # "none"
  BY <1>1 DEF RecoveryOperation, Recoverable
<1>3. /\ AllowedAction(a)
      /\ Imported => op[a].known = 0
      /\ a = "withdraw" => op[a].known = rec.remote /\ rec.remote # NoApp
      /\ Imported => rec.remote = 0
      /\ ~Imported => rec.remote # 0
      /\ ~Imported => app[0] = "absent"
  BY <1>2 DEF DecisionInv, RowInv, RecordInv, PayrollInv
<1>4. /\ NoApp # 0 /\ x # NoApp
      /\ x # 0 => x \in Generations
  BY DEF NoApp, AppIds, Generations
<1>5. Transition(a) <=> Imported \/ a = "withdraw"
  BY <1>3, <1>4 DEF Transition, AllowedAction, Actions
<1>6. CASE Imported
  <2>1. x = 0 /\ op[a].known = x /\ rec.remote = x
    BY <1>1, <1>3, <1>5, <1>6 DEF Candidate
  <2>2. Target(a, x) = Decided[a]
    BY <1>1, <1>3, <1>5, <1>6 DEF Target, Candidate, Decided, AllowedAction, Actions
  <2>3. AlreadyAttached(a, x) => CommittedAs(a, x)
    BY <2>2, <2>1, <1>3, <1>6 DEF AlreadyAttached, CommittedAs, Decided, AllowedAction, Actions
  <2>4. CommittedAs(a, x) => CommittedAs(adm.act, adm.app)'
    BY <1>1 DEF CommittedAs
  <2> QED
    BY <1>1, <1>2, <1>3, <1>5, <1>6, <2>1, <2>2, <2>3, <2>4, Fields
    DEF AdminInv, AllowedAction, Imported
<1>7. CASE ~Imported /\ a = "withdraw"
  <2>1. op[a].known = x /\ rec.remote = x /\ x # 0 /\ Target(a, x) = "withdrawn"
    BY <1>1, <1>3, <1>5, <1>7 DEF Candidate, Target
  <2>2. AlreadyAttached(a, x) => CommittedAs(a, x)
    BY <2>1, <1>7 DEF AlreadyAttached, CommittedAs
  <2>3. CommittedAs(a, x) => CommittedAs(adm.act, adm.app)'
    BY <1>1 DEF CommittedAs
  <2> QED
    BY <1>1, <1>2, <1>3, <1>4, <1>5, <1>7, <2>1, <2>2, <2>3, Fields
    DEF AdminInv, AllowedAction, Imported, Decided
<1>8. CASE ~Imported /\ a # "withdraw"
  <2>1. a = "approve" /\ x # 0 /\ app[x] \in {"scheduled", "rejected"}
    BY <1>1, <1>3, <1>5, <1>8 DEF Candidate, AllowedAction, Actions
  <2>2. \/ Target(a, x) = "approved"
        \/ Target(a, x) = "declined" /\ app[x] = "rejected"
    BY <2>1 DEF Target
  <2>3. AlreadyAttached(a, x) => CommittedAs(a, x)
    BY <2>1, <2>2 DEF AlreadyAttached, CommittedAs
  <2>4. CommittedAs(a, x) => CommittedAs(adm.act, adm.app)'
    BY <1>1 DEF CommittedAs
  <2>5. op[a].status = "provider_accepted" => op[a].known = x
    BY <1>1 DEF Candidate
  <2> QED
    BY <1>1, <1>2, <1>3, <1>4, <1>5, <1>8, <2>1, <2>2, <2>3, <2>4, <2>5, Fields
    DEF AdminInv, AllowedAction, Imported
<1> QED
  BY <1>6, <1>7, <1>8

LEMMA AdminMarked ==
  ASSUME TypeInv, DecisionInv, [Next]_vars, AdminMarkAccepted,
         adm' = [adm EXCEPT !.pc = adm.next]
  PROVE  AdminInv'
PROOF
<1> DEFINE a == adm.act
<1>1. /\ AdminInv /\ adm.pc = "attaching" /\ rec' = rec /\ app' = app
      /\ adm \in Recoveries
  BY DEF DecisionInv, AdminMarkAccepted, providerVars, TypeInv, TypeOK
<1>2. /\ adm'.pc = adm.next /\ adm'.act = a /\ adm'.gen = adm.gen /\ adm'.was = adm.was
      /\ adm'.app = adm.app /\ adm'.target = adm.target /\ adm'.remote = adm.remote
      /\ adm.next \in {"merging", "effects"}
  BY <1>1 DEF Recoveries
<1>3. a \in Actions /\ op[a].gen \in Nat /\ op \in [Actions -> JournalRows]
  BY <1>1, Fields DEF AdminInv, TypeInv, TypeOK
<1>4. /\ op'[a].gen = op[a].gen
      /\ op[a].status # "none" => op'[a].status # "none"
      /\ adm.gen = op[a].gen =>
           op'[a].status \in {"provider_accepted", "completed"} /\ op'[a].known = adm.app
  <2>1. CASE AdminHolds({"outcome_unknown"})
    <3>1. op' = [op EXCEPT ![a].status = "provider_accepted", ![a].known = adm.app]
      BY <2>1 DEF AdminMarkAccepted
    <3>2. RowMoves(a, "provider_accepted", adm.app)
      BY <1>3, <3>1, RowMove
    <3> QED
      BY <3>2 DEF RowMoves
  <2>2. CASE ~AdminHolds({"outcome_unknown"})
    <3>1. op' = op /\ (adm.was = "provider_accepted" \/ adm' = IdleAdmin)
      BY <2>2 DEF AdminMarkAccepted
    <3>2. IdleAdmin.pc = "idle"
      BY DEF IdleAdmin
    <3>3. adm.was = "provider_accepted"
      BY <1>2, <3>1, <3>2
    <3> QED
      BY <1>1, <3>1, <3>3 DEF AdminInv
  <2> QED
    BY <2>1, <2>2
<1>5. adm.next = "effects" => adm.app \in AppIds /\ CommittedAs(adm.act, adm.app)'
  <2>1. adm.next = "effects" => adm.app \in AppIds /\ CommittedAs(adm.act, adm.app)
    BY <1>1 DEF AdminInv
  <2> QED
    BY <1>1, <1>2, <2>1 DEF CommittedAs
<1>6. adm'.pc # "attaching"
  BY <1>2
<1>7. (Imported' <=> Imported) /\ (AllowedAction(adm.act)' <=> AllowedAction(adm.act))
  BY <1>1, <1>2 DEF Imported, AllowedAction
<1> QED
  BY <1>1, <1>2, <1>3, <1>4, <1>5, <1>6, <1>7 DEF AdminInv

LEMMA AdminMerged ==
  ASSUME TypeInv, DecisionInv, AdminMerge, Merges
  PROVE  AdminInv'
PROOF
<1>1. /\ AdminInv /\ adm.pc = "merging" /\ op' = op /\ rec'.source = rec.source
      /\ adm' = [adm EXCEPT !.pc = "effects"] /\ adm \in Recoveries
  BY LocalEffect DEF DecisionInv, AdminMerge, Merges, journalVars, TypeInv, TypeOK
<1>2. /\ adm'.pc = "effects" /\ adm'.act = adm.act /\ adm'.gen = adm.gen
      /\ adm'.app = adm.app
  BY <1>1 DEF Recoveries
<1>3. adm.app \in AppIds /\ CommittedAs(adm.act, adm.app)'
  BY MergeCommits
<1>4. AllowedAction(adm.act)' <=> AllowedAction(adm.act)
  BY <1>1, <1>2 DEF Imported, AllowedAction
<1> QED
  BY <1>1, <1>2, <1>3, <1>4 DEF AdminInv

LEMMA AdminStep ==
  ASSUME TypeInv, DecisionInv, [Next]_vars
  PROVE  AdminInv'
PROOF
<1>1. CASE adm' = IdleAdmin
  BY <1>1 DEF AdminInv, IdleAdmin
<1>2. ASSUME NEW a \in Actions, AdminVerify(a) PROVE AdminInv'
  <2>1. /\ rec' = rec /\ op' = op
        /\ adm'.pc = "verified" /\ adm'.act = a /\ adm'.gen = op[a].gen
        /\ op[a].status = "outcome_unknown"
    BY <1>2 DEF AdminVerify, journalVars, IdleAdmin
  <2>2. AllowedAction(a)
    BY <2>1 DEF DecisionInv, RowInv
  <2> QED
    BY <2>1, <2>2, Fields DEF AdminInv, AllowedAction, Imported
<1> QED
  BY <1>1, <1>2, RecoverySteps, AdminKept, AdminOpened, AdminMarked, AdminMerged

-----------------------------------------------------------------------------
(* Closing the journal *)

(* A row that is closed, or that its handler is about to close, has its
   decision on the record after every step. *)
LEMMA ClosedRow ==
  ASSUME TypeInv, DecisionInv, SingleUnresolved, [Next]_vars, NEW a \in Actions,
         NEW x \in AppIds, x = op[a].known,
         op[a].status \in {"provider_accepted", "completed"}, CommittedAs(a, x)
  PROVE  CommittedAs(a, x)'
PROOF
<1>1. CASE ~(AdminMerge /\ Merges)
  BY <1>1, CommittedStays
<1>2. CASE AdminMerge /\ Merges
  <2>1. /\ adm.act \in Actions
        /\ op[adm.act].status = "provider_accepted" /\ op[adm.act].known = adm.app
        /\ CommittedAs(adm.act, adm.app)'
        /\ op[a].status = "completed" => CommittedAs(a, op[a].known)'
    BY <1>2, MergeCommits
  <2>2. op' = op /\ adm'.act = adm.act /\ adm'.app = adm.app
    BY <1>2 DEF AdminMerge, Merges, journalVars, TypeInv, TypeOK, Recoveries
  <2>3. CASE op[a].status = "completed"
    BY <2>1, <2>2, <2>3 DEF CommittedAs
  <2>4. CASE op[a].status = "provider_accepted"
    <3>1. a = adm.act
      BY <2>1, <2>4 DEF SingleUnresolved, Unresolved
    <3> QED
      BY <2>1, <2>2, <3>1 DEF CommittedAs
  <2> QED
    BY <2>3, <2>4
<1> QED
  BY <1>1, <1>2

LEMMA KnownApplication ==
  ASSUME TypeInv, DecisionInv, NEW a \in Actions,
         op[a].status \in {"provider_accepted", "completed"}
  PROVE  op[a].known \in AppIds
PROOF
<1>1. /\ Imported => op[a].known = 0
      /\ AllowedAction(a)
      /\ a = "withdraw" => op[a].known = rec.remote /\ rec.remote # NoApp
      /\ ~Imported /\ a = "approve" => op[a].known \in Generations
  BY DEF DecisionInv, RowInv
<1>2. rec.remote \in AppIds \cup {NoApp} /\ 0 \in AppIds /\ Generations \subseteq AppIds
  BY Fields, Constants, GenerationAssumption DEF AppIds
<1> QED
  BY <1>1, <1>2 DEF AllowedAction, Actions

LEMMA CommitStep ==
  ASSUME TypeInv, DecisionInv, SingleUnresolved, [Next]_vars
  PROVE  CommitInv'
PROOF
<1>1. CommitInv /\ RowsKeep
  BY RowsKeepStep DEF DecisionInv
<1>2. ASSUME NEW a \in Actions, op'[a].status = "completed"
      PROVE  CommittedAs(a, op[a].known)'
  <2>1. /\ op[a].status \in {"provider_accepted", "completed"}
        /\ op'[a].known = op[a].known
        /\ CommittedAs(a, op[a].known)
    <3>1. CASE op'[a] = op[a]
      BY <1>1, <1>2, <3>1 DEF CommitInv
    <3>2. ASSUME NEW w \in Workers, PrepareAndClaim(w) PROVE op'[a] = op[a]
      <4>1. /\ \A b \in Actions \ {wrk[w].act} : op'[b] = op[b]
            /\ Replays(wrk[w].act) => op'[wrk[w].act].status = op[wrk[w].act].status
            /\ ~Replays(wrk[w].act) => op'[wrk[w].act].status = "prepared"
        BY <3>2, PrepareEffect
      <4>2. a # wrk[w].act
        BY <1>2, <4>1 DEF Replays, Replayable
      <4> QED
        BY <4>1, <4>2
    <3>3. ASSUME NEW b \in Actions, NEW s, NEW x, RowMoves(b, s, x), s # "completed"
          PROVE  op'[a] = op[a]
      BY <1>2, <3>3 DEF RowMoves
    <3>4. ASSUME NEW b \in Actions, Completes(b), RowMoves(b, "completed", op[b].known), b # a
          PROVE  op'[a] = op[a]
      BY <3>4 DEF RowMoves
    <3>5. ASSUME Completes(a), RowMoves(a, "completed", op[a].known)
          PROVE  /\ op[a].status \in {"provider_accepted", "completed"}
                 /\ op'[a].known = op[a].known
                 /\ CommittedAs(a, op[a].known)
      <4>1. op'[a].known = op[a].known /\ op[a].status = "provider_accepted"
        BY <3>5 DEF RowMoves, Completes, HoldsAttempt, AdminHolds
      <4>2. ASSUME NEW w \in Workers, CompleteEffects(w),
                   HoldsAttempt(w, {"provider_accepted"}), wrk[w].act = a
            PROVE  CommittedAs(a, op[a].known)
        BY <1>1, <4>2 DEF CommitInv, CompleteEffects, At, HoldsAttempt
      <4>3. ASSUME AdminEffects, AdminHolds({"provider_accepted"}), adm.act = a
            PROVE  CommittedAs(a, op[a].known)
        BY <4>3 DEF DecisionInv, AdminInv, AdminEffects, AdminHolds
      <4> QED
        BY <3>5, <4>1, <4>2, <4>3 DEF Completes
    <3> QED
      BY <3>1, <3>2, <3>3, <3>4, <3>5, RowSteps, AdminActs
  <2>2. op[a].known \in AppIds
    BY <2>1, KnownApplication
  <2>3. ASSUME NEW x \in AppIds, x = op[a].known PROVE CommittedAs(a, op[a].known)'
    <3>1. CommittedAs(a, x)'
      BY <2>1, <2>3, ClosedRow
    <3> QED
      BY <2>1, <2>3, <3>1 DEF CommittedAs
  <2> QED
    BY <2>2, <2>3
<1>3. ASSUME NEW w \in Workers, wrk'[w].pc = "effects",
             wrk'[w].gen = op'[wrk'[w].act].gen
      PROVE  CommittedAs(wrk[w].act, op[wrk[w].act].known)'
  <2>1. CASE Commit(w) /\ HoldsRecord(w) /\ At(w, "accepted")
    BY <2>1, CommitCommits
  <2>2. CASE wrk'[w] = wrk[w]
    <3> DEFINE a == wrk[w].act
    <3>1. /\ wrk[w].pc = "effects" /\ wrk[w].gen = op'[a].gen /\ a \in Actions
          /\ wrk[w].gen <= op[a].gen /\ op[a].gen <= op'[a].gen
          /\ wrk[w].gen \in Nat /\ op[a].gen \in Nat
      <4>1. wrk[w].pc = "effects" /\ wrk[w].gen = op'[a].gen
        BY <1>3, <2>2
      <4>2. a \in Actions /\ wrk[w].gen \in Nat
        BY <4>1, Fields
      <4> QED
        BY <1>1, <4>1, <4>2, Fields DEF RowsKeep, DecisionInv, WorkInv, AttemptInv
    <3>2. op'[a].gen = op[a].gen /\ wrk[w].gen = op[a].gen
      BY <3>1
    <3>3. op[a].status \in {"provider_accepted", "completed"} /\ CommittedAs(a, op[a].known)
      BY <1>1, <3>1, <3>2 DEF CommitInv, DecisionInv, WorkInv, AttemptInv
    <3>4. op'[a].known = op[a].known /\ op[a].known \in AppIds
      BY <1>1, <3>1, <3>2, <3>3, KnownApplication DEF RowsKeep
    <3>5. ASSUME NEW b \in Actions, NEW x \in AppIds, b = a, x = op[a].known
          PROVE  CommittedAs(wrk[w].act, op[wrk[w].act].known)'
      <4>1. CommittedAs(b, x)'
        BY <3>3, <3>5, ClosedRow
      <4>2. wrk'[w].act = b /\ op'[wrk'[w].act].known = x
        BY <2>2, <3>4, <3>5
      <4> QED
        BY <4>1, <4>2 DEF CommittedAs
    <3> QED
      BY <3>1, <3>4, <3>5
  <2>3. wrk'[w].pc # "effects" \/ wrk'[w] = wrk[w]
        \/ (Commit(w) /\ HoldsRecord(w) /\ At(w, "accepted"))
    <3>1. Advances(w) => wrk'[w].pc # "effects"
      BY DEF Advances, Trying
    <3>2. IdleWorker.pc # "effects"
      BY DEF IdleWorker
    <3>3. ASSUME NEW b \in Offered, Load(w, b) PROVE wrk'[w].pc # "effects"
      <4>1. wrk'[w] = [IdleWorker EXCEPT
               !.pc = "loaded", !.act = b, !.status = rec.status,
               !.failed = IF rec.failed = b THEN b ELSE "none",
               !.seq = rec.seq, !.remote = rec.remote]
        BY <3>3 DEF Load, TypeInv, TypeOK
      <4> QED
        BY <4>1 DEF IdleWorker
    <3>4. AcquireLocalClaim(w) => wrk'[w].pc # "effects"
      BY DEF AcquireLocalClaim, TypeInv, TypeOK, Handlers
    <3>5. PrepareAndClaim(w) => wrk'[w].pc # "effects"
      BY PrepareEffect
    <3>6. RecordAccepted(w) /\ HoldsAttempt(w, {"outcome_unknown"}) => wrk'[w].pc # "effects"
      BY AcceptEffect
    <3>7. RecordFailure(w) /\ (HoldsAttempt(w, {"prepared", "outcome_unknown"}) \/ Creates(w))
            => wrk'[w].pc # "effects"
      BY FailEffect DEF Persisting
    <3> QED
      BY <3>1, <3>2, <3>3, <3>4, <3>5, <3>6, <3>7, HandlerSteps
  <2> QED
    BY <1>3, <2>1, <2>2, <2>3
<1>4. ASSUME NEW a \in Actions, NEW b \in Actions, op'[a].status \in Unresolved,
             op'[b].status = "completed"
      PROVE  a = "withdraw" /\ b = "approve"
  <2>1. CASE op' = op
    BY <1>1, <1>4, <2>1 DEF CommitInv
  <2>2. ASSUME NEW w \in Workers, PrepareAndClaim(w) PROVE a = "withdraw" /\ b = "approve"
    <3> DEFINE c == wrk[w].act
    <3>1. /\ c \in Actions /\ wrk[w].pc = "loaded" /\ Claimable(w)
          /\ NoOtherUnresolved(c)
          /\ \A d \in Actions \ {c} : op'[d] = op[d]
          /\ Replays(c) => op'[c].status = op[c].status
          /\ ~Replays(c) => op'[c].status = "prepared"
      BY <2>2, PrepareEffect
    <3>2. a = c /\ b # c /\ op[b].status = "completed"
      BY <1>4, <3>1 DEF NoOtherUnresolved, Replays, Replayable
    <3>3. CommittedAs(b, op[b].known)
      BY <1>1, <3>2 DEF CommitInv
    <3>4. LoadInv(w)
      BY DEF DecisionInv, WorkInv
    <3>5. /\ c # "withdraw" => \/ rec.status = "submitted"
                               \/ rec.status = "xero_sync_failed" /\ rec.failed = c
          /\ c = "withdraw" => \/ rec.status \in {"submitted", "approved"}
                               \/ rec.status = "xero_sync_failed"
      BY <3>1, <3>4 DEF LoadInv, Deciding, Claimable
    <3> QED
      BY <3>2, <3>3, <3>5 DEF CommittedAs, Actions
  <2>3. ASSUME NEW c \in Actions, NEW s, NEW x, RowMoves(c, s, x), s # "completed",
               s \in Unresolved => op[c].status \in Unresolved
        PROVE  a = "withdraw" /\ b = "approve"
    <3>1. op[a].status \in Unresolved /\ op[b].status = "completed"
      BY <1>4, <2>3 DEF RowMoves
    <3> QED
      BY <1>1, <3>1 DEF CommitInv
  <2>4. ASSUME NEW c \in Actions, Completes(c), RowMoves(c, "completed", op[c].known)
        PROVE  FALSE
    <3>1. op[c].status \in Unresolved
      BY <2>4 DEF Completes, HoldsAttempt, AdminHolds, Unresolved
    <3>2. a # c /\ op[a].status \in Unresolved
      BY <1>4, <2>4 DEF RowMoves, Unresolved
    <3> QED
      BY <3>1, <3>2 DEF SingleUnresolved
  <2>5. \A c \in Actions : /\ Dispatches(c) => op[c].status \in Unresolved
                           /\ \A x : Accepts(c, x) => op[c].status \in Unresolved
    BY DEF Dispatches, Accepts, HoldsAttempt, AdminHolds, Unresolved
  <2>6. "definitive_failure" \notin Unresolved
    BY DEF Unresolved
  <2> QED
    BY <2>1, <2>2, <2>3, <2>4, <2>5, <2>6, RowSteps, AdminActs
<1> QED
  BY <1>2, <1>3, <1>4 DEF CommitInv

-----------------------------------------------------------------------------
(* The theorem *)

LEMMA InitDecisionInv == Init => DecisionInv
PROOF
<1> SUFFICES ASSUME Init PROVE DecisionInv
  OBVIOUS
<1>1. /\ rec.status = IF Imported THEN "submitted" ELSE "draft"
      /\ rec.remote = IF Imported THEN 0 ELSE NoApp
      /\ rec.failed = "none"
      /\ \A a \in Actions : /\ op[a].status = "none" /\ op[a].gen = 0 /\ op[a].key = 0
      /\ \A w \in Workers : wrk[w].pc = "idle"
      /\ adm.pc = "idle" /\ net = {}
      /\ app = [x \in AppIds |-> IF Imported /\ x = 0 THEN "requested" ELSE "absent"]
  BY DEF Init, IdleWorker, IdleAdmin
<1>2. RecordInv
  BY <1>1 DEF RecordInv, NoApp
<1>3. \A w \in Workers : WorkInv(w)
  BY <1>1 DEF WorkInv, LoadInv, AttemptInv, PersistInv, Deciding, Journalling, Trying,
     Persisting
<1>4. RowInv
  BY <1>1 DEF RowInv
<1>5. PayrollInv
  <2>1. Generations \subseteq AppIds /\ 0 \in AppIds /\ 0 \notin Generations
    BY GenerationAssumption DEF AppIds, Generations
  <2> QED
    BY <1>1, <2>1 DEF PayrollInv
<1>6. AdminInv
  BY <1>1 DEF AdminInv
<1>7. CommitInv
  BY <1>1 DEF CommitInv, Unresolved
<1> QED
  BY <1>2, <1>3, <1>4, <1>5, <1>6, <1>7 DEF DecisionInv

(* What the handlers, the journal, the record, payroll and the administrator's
   request say of one another is never contradicted by a step of any of them. *)
THEOREM DecisionInvariant == Spec => []DecisionInv
PROOF
<1>1. TypeInv /\ SingleUnresolved /\ DecisionInv /\ [Next]_vars => DecisionInv'
  <2> SUFFICES ASSUME TypeInv, SingleUnresolved, DecisionInv, [Next]_vars
               PROVE  DecisionInv'
    OBVIOUS
  <2> QED
    BY RecordStep, WorkStep, RowStep, PayrollStep, AdminStep, CommitStep DEF DecisionInv
<1> QED
  BY <1>1, InitDecisionInv, InitTypeInv, TypeStep, OneUnresolvedRow, PTL DEF Spec

(* The journal is never closed before the record: a completed operation has its
   decision on the record, whoever finished the work and in whatever order. *)
THEOREM ClosedOnCommit == Spec => []CompletedIsCommitted
PROOF
<1>1. DecisionInv => CompletedIsCommitted
  BY DEF DecisionInv, CommitInv, CommittedAs, CompletedIsCommitted, Actions
<1> QED
  BY <1>1, DecisionInvariant, PTL

=============================================================================
