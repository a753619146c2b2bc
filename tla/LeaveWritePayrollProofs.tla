------------------------ MODULE LeaveWritePayrollProofs ------------------------
(***************************************************************************)
(* What the requests of a decision leave in payroll: one leave for one     *)
(* request, none lost, none too late, and a decision that agrees with the  *)
(* application.                                                            *)
(*                                                                         *)
(* LeaveInv follows each idempotency key through its life: minted with the *)
(* row, sent by the handlers that hold it, processed by Xero, given up or  *)
(* closed.  It rests on one hypothesis, CarefulRecovery: an administrator  *)
(* gives evidence that an operation was not processed only once none of    *)
(* its requests is under way and its replay window is over.  The last part *)
(* also supposes that nobody decides an application in Xero itself.        *)
(***************************************************************************)
EXTENDS LeaveWriteCommitProofs

-----------------------------------------------------------------------------
(* Keys and attempts *)

(* An administrator resolves an operation as not created only on evidence that
   has waited for its requests and its window. *)
CarefulRecovery == Recovery => EvidenceWaits

Dispatched == {"ready", "waiting", "ok", "refused", "unsure"}
Requesting == {"prepared"} \cup Dispatched

(* A request of the key is under way. *)
Under(a, k) == \E m \in net : m.act = a /\ m.key = k

Processed == {"outcome_unknown", "provider_accepted", "completed"}

(* Xero has processed, or has under way, no key but the one the row has, and
   only while the row says so: a key given up is dead. *)
UsedInv == \A a \in Actions, k \in Generations :
  /\ <<a, k>> \in done \/ Under(a, k) => k = op[a].key /\ op[a].status \in Processed
  /\ <<a, k>> \in open => k <= op[a].key

(* A handler's key is at most the row's, and one that may still send has the
   row's. *)
CallInv(w) == wrk[w].pc \in Dispatched =>
  LET row == op[wrk[w].act] IN
  /\ wrk[w].key <= row.key
  /\ wrk[w].key = row.key => row.status \notin {"none", "prepared"}
  /\ wrk[w].pc \in {"ready", "waiting"} /\ <<wrk[w].act, wrk[w].key>> \in open =>
       wrk[w].key = row.key /\ row.status # "definitive_failure"
  /\ wrk[w].pc = "ok" => <<wrk[w].act, wrk[w].key>> \in done
  /\ wrk[w].pc = "refused" => "resent" \notin wrk[w].doubts

KeyInv == UsedInv /\ \A w \in Workers : CallInv(w)

(* The handler of the current attempt, when no earlier attempt had the key. *)
Alone(w) ==
  /\ wrk[w].pc \in Requesting
  /\ HoldsAttempt(w, {"prepared", "outcome_unknown"})
  /\ "replayed" \notin wrk[w].doubts

(* Such a handler knows all there is to know of its key: nobody else sends it,
   and until it has sent twice its own request is the only one. *)
SoleKnows(w) ==
  LET a == wrk[w].act
      k == wrk[w].key
  IN
  /\ \A v \in Workers \ {w} :
       wrk[v].pc \in Dispatched /\ wrk[v].act = a => wrk[v].key # k
  /\ \A m \in net : m.act = a /\ m.key = k => m.from = w
  /\ wrk[w].pc = "prepared" => ~Under(a, k) /\ <<a, k>> \notin done
  /\ "resent" \notin wrk[w].doubts =>
       /\ wrk[w].pc \in {"ready", "refused"} => ~Under(a, k) /\ <<a, k>> \notin done
       /\ wrk[w].pc = "waiting" /\ Under(a, k) => <<a, k>> \notin done

SoleInv == \A w \in Workers : Alone(w) => SoleKnows(w)

(* Evidence given stays true until it is used or the row has moved on. *)
EvidenceInv ==
  adm.pc = "verified" /\ AdminHolds({"prepared", "outcome_unknown"}) =>
    LET a == adm.act
        k == op[a].key
    IN
    /\ op[a].status = "outcome_unknown"
    /\ <<a, k>> \notin open /\ <<a, k>> \notin done /\ ~Under(a, k)

(* Requests under way to end a leave name the leave of the record. *)
RequestInv == \A m \in net : m.act = "withdraw" => m.app = rec.remote

(* Leaves Xero created are the ones processed approvals name. *)
CreateInv ==
  /\ ~Imported =>
       /\ op["approve"].status \in {"provider_accepted", "completed"} =>
            /\ op["approve"].known = op["approve"].key
            /\ <<"approve", op["approve"].key>> \in done
       /\ adm.pc \in {"attaching", "merging"} /\ adm.act = "approve" =>
            <<"approve", adm.app>> \in done
       /\ rec.remote # NoApp => <<"approve", rec.remote>> \in done
  /\ posted = IF ~Imported /\ <<"approve", op["approve"].key>> \in done THEN 1 ELSE 0

(* A request decided without Xero leaves no approval to come. *)
UnsentInv ==
  /\ \A w \in Workers : wrk[w].pc = "local" /\ rec.claim = w => NoUnresolved
  /\ rec.status \in {"declined", "withdrawn"} /\ rec.remote = NoApp =>
       op["approve"].status \notin Unresolved

(* The invariants proved before, and those of the payroll side. *)
Proved == TypeInv /\ DecisionInv /\ SingleUnresolved /\ FencedAttempts

CallsInv == KeyInv /\ SoleInv /\ EvidenceInv /\ RequestInv

LeaveInv == CallsInv /\ CreateInv /\ UnsentInv

-----------------------------------------------------------------------------
(* The steps that touch keys, requests and attempts *)

NetSame == net' = net /\ done' = done /\ posted' = posted

LEMMA DispatchEffect ==
  ASSUME TypeInv, NEW w \in Workers, DispatchStarted(w)
  PROVE  LET a == wrk[w].act IN
         /\ a \in Actions /\ wrk[w].key \in Generations
         /\ wrk[w].pc = "prepared"
         /\ HoldsAttempt(w, {"prepared", "outcome_unknown"})
         /\ Replayable(a)
         /\ open' \subseteq open \cup {<<a, wrk[w].key>>}
         /\ op[a].status # "prepared" => open' = open
         /\ RowMoves(a, "outcome_unknown", op[a].known)
         /\ wrk'[w].pc = "ready" /\ wrk'[w].act = a /\ wrk'[w].key = wrk[w].key
         /\ wrk'[w].gen = wrk[w].gen /\ wrk'[w].doubts = wrk[w].doubts
         /\ \A v \in Workers \ {w} : wrk'[v] = wrk[v]
         /\ NetSame /\ rec' = rec /\ adm' = adm
PROOF
<1> DEFINE a == wrk[w].act
<1>1. /\ a \in Actions /\ wrk[w].key \in Generations /\ wrk[w].pc = "prepared"
      /\ wrk \in [Workers -> Handlers]
  BY DEF DispatchStarted, At, TypeInv, TypeOK, HandlerInv
<1>2. /\ HoldsAttempt(w, {"prepared", "outcome_unknown"}) /\ Replayable(a)
      /\ rec' = rec /\ adm' = adm /\ NetSame
  BY DEF DispatchStarted, MayDispatch, providerVars, NetSame
<1>3. /\ open' \subseteq open \cup {<<a, wrk[w].key>>}
      /\ op[a].status # "prepared" => open' = open
  BY DEF DispatchStarted
<1>4. RowMoves(a, "outcome_unknown", op[a].known)
  <2>1. op' = [op EXCEPT ![a].status = "outcome_unknown"]
    BY DEF DispatchStarted
  <2> QED
    BY <1>1, <2>1, RowMove
<1>5. wrk'[w] = [wrk[w] EXCEPT !.pc = "ready"] /\ \A v \in Workers \ {w} : wrk'[v] = wrk[v]
  BY <1>1 DEF DispatchStarted
<1>6. /\ wrk'[w].pc = "ready" /\ wrk'[w].act = a /\ wrk'[w].key = wrk[w].key
      /\ wrk'[w].gen = wrk[w].gen /\ wrk'[w].doubts = wrk[w].doubts
  BY <1>1, <1>5 DEF Handlers
<1> QED
  BY <1>1, <1>2, <1>3, <1>4, <1>5, <1>6

(* A handler that moves on between its requests keeps its attempt. *)
SameAttempt(w) ==
  /\ wrk'[w].act = wrk[w].act
  /\ wrk'[w].key = wrk[w].key
  /\ wrk'[w].gen = wrk[w].gen
  /\ wrk'[w].app = wrk[w].app

LEMMA SendMoves ==
  ASSUME TypeInv, NEW w \in Workers, Send(w)
  PROVE  /\ wrk[w].pc = "ready" /\ wrk'[w].pc = "waiting"
         /\ SameAttempt(w) /\ wrk'[w].doubts = wrk[w].doubts
         /\ <<wrk[w].act, wrk[w].key>> \in open
         /\ wrk[w].act \in Actions /\ wrk[w].key \in Generations
         /\ net' = net \cup {[act |-> wrk[w].act, key |-> wrk[w].key, app |-> wrk[w].app,
                              from |-> w, sent |-> "in_window"]}
         /\ done' = done /\ posted' = posted /\ op' = op /\ open' = open /\ adm' = adm
         /\ rec' = rec /\ app' = app
         /\ \A v \in Workers \ {w} : wrk'[v] = wrk[v]
PROOF
<1>1. wrk \in [Workers -> Handlers]
  BY DEF TypeInv, TypeOK
<1>2. wrk'[w] = [wrk[w] EXCEPT !.pc = "waiting"] /\ \A v \in Workers \ {w} : wrk'[v] = wrk[v]
  BY <1>1 DEF Send
<1>3. wrk'[w].pc = "waiting" /\ SameAttempt(w) /\ wrk'[w].doubts = wrk[w].doubts
  BY <1>1, <1>2 DEF SameAttempt, Handlers
<1>4. op' = op /\ open' = open /\ adm' = adm /\ rec' = rec /\ wrk[w].pc = "ready"
  BY DEF Send, At, journalVars
<1>5. wrk[w].act \in Actions /\ wrk[w].key \in Generations
  BY <1>4 DEF TypeInv, HandlerInv
<1> QED
  BY <1>2, <1>3, <1>4, <1>5, SendEffect

LEMMA RetryMoves ==
  ASSUME TypeInv, NEW w \in Workers, NotSent(w) \/ LoseAnswer(w)
  PROVE  /\ SameAttempt(w)
         /\ \/ /\ wrk[w].pc = "ready" /\ wrk'[w].pc = AfterRefusal(w)
               /\ wrk'[w].doubts = wrk[w].doubts
            \/ /\ wrk[w].pc = "waiting" /\ wrk'[w].pc = "ready"
               /\ wrk'[w].doubts = wrk[w].doubts \cup {"resent"}
         /\ NetSame /\ op' = op /\ open' = open /\ adm' = adm /\ rec' = rec /\ app' = app
         /\ \A v \in Workers \ {w} : wrk'[v] = wrk[v]
PROOF
<1>1. wrk \in [Workers -> Handlers]
  BY DEF TypeInv, TypeOK
<1>2. CASE NotSent(w)
  <2>1. wrk'[w] = [wrk[w] EXCEPT !.pc = AfterRefusal(w)]
        /\ \A v \in Workers \ {w} : wrk'[v] = wrk[v]
    BY <1>1, <1>2 DEF NotSent
  <2>2. wrk'[w].pc = AfterRefusal(w) /\ SameAttempt(w) /\ wrk'[w].doubts = wrk[w].doubts
    BY <1>1, <2>1 DEF SameAttempt, Handlers
  <2> QED
    BY <1>2, <2>1, <2>2 DEF NotSent, At, NetSame, providerVars, journalVars
<1>3. CASE LoseAnswer(w)
  <2> DEFINE doubts == wrk[w].doubts \cup {"resent"}
  <2>1. wrk'[w] = [wrk[w] EXCEPT !.pc = "ready", !.doubts = doubts]
        /\ \A v \in Workers \ {w} : wrk'[v] = wrk[v]
    BY <1>1, <1>3 DEF LoseAnswer
  <2> HIDE DEF doubts
  <2>2. wrk'[w].pc = "ready" /\ SameAttempt(w) /\ wrk'[w].doubts = doubts
    BY <1>1, <2>1 DEF SameAttempt, Handlers
  <2> QED
    BY <1>3, <2>1, <2>2 DEF LoseAnswer, At, NetSame, providerVars, journalVars, doubts
<1> QED
  BY <1>2, <1>3

(* What an answer does to a handler: nothing, unless it waits for it. *)
Hears(v, m, pc) ==
  /\ v = m.from /\ wrk[v].pc = "waiting"
  /\ wrk[v].act = m.act /\ wrk[v].key = m.key
  /\ wrk'[v].pc = pc
  /\ SameAttempt(v)
  /\ wrk'[v].doubts = wrk[v].doubts

LEMMA AnswerMoves ==
  ASSUME TypeInv, NEW m \in Requests, NEW pc \in PCs, Answers(m, pc), NEW v \in Workers
  PROVE  wrk'[v] = wrk[v] \/ Hears(v, m, pc)
PROOF
<1>1. wrk \in [Workers -> Handlers]
  BY DEF TypeInv, TypeOK
<1>2. CASE wrk' = wrk
  BY <1>2
<1>3. CASE /\ wrk[m.from].pc = "waiting"
           /\ wrk[m.from].act = m.act /\ wrk[m.from].key = m.key
           /\ wrk' = [wrk EXCEPT ![m.from].pc = pc]
  <2>1. CASE v # m.from
    BY <1>1, <1>3, <2>1
  <2>2. CASE v = m.from
    <3>1. wrk'[v] = [wrk[v] EXCEPT !.pc = pc]
      BY <1>1, <1>3, <2>2
    <3> QED
      BY <1>1, <1>3, <2>2, <3>1 DEF Hears, SameAttempt, Handlers
  <2> QED
    BY <2>1, <2>2
<1> QED
  BY <1>2, <1>3 DEF Answers

LEMMA AcceptMoves ==
  ASSUME TypeInv, NEW m \in net, XeroAccepts(m)
  PROVE  /\ m \in Requests
         /\ net' = net \ {m}
         /\ done' = done \cup {<<m.act, m.key>>}
         /\ \A v \in Workers : wrk'[v] = wrk[v] \/ Hears(v, m, "ok")
         /\ op' = op /\ open' = open /\ adm' = adm /\ rec' = rec
PROOF
<1>1. m \in Requests /\ "ok" \in PCs
  BY DEF TypeInv, TypeOK, PCs
<1>2. Answers(m, "ok") /\ net' = net \ {m} /\ op' = op /\ open' = open /\ adm' = adm
      /\ rec' = rec
  BY DEF XeroAccepts, journalVars
<1>3. done' = done \cup {<<m.act, m.key>>}
  BY DEF XeroAccepts, Remembered
<1> QED
  BY <1>1, <1>2, <1>3, AnswerMoves

LEMMA RefuseMoves ==
  ASSUME TypeInv, NEW m \in net, XeroRefuses(m)
  PROVE  /\ m \in Requests
         /\ net' = net \ {m}
         /\ done' = done /\ posted' = posted /\ app' = app
         /\ \A v \in Workers : wrk'[v] = wrk[v] \/ Hears(v, m, AfterRefusal(v))
         /\ op' = op /\ open' = open /\ adm' = adm /\ rec' = rec
PROOF
<1>1. m \in Requests /\ AfterRefusal(m.from) \in PCs
  BY DEF TypeInv, TypeOK, PCs, AfterRefusal
<1>2. /\ Answers(m, AfterRefusal(m.from)) /\ net' = net \ {m}
      /\ done' = done /\ posted' = posted /\ app' = app
      /\ op' = op /\ open' = open /\ adm' = adm /\ rec' = rec
  BY DEF XeroRefuses, journalVars
<1>3. \A v \in Workers : wrk'[v] = wrk[v] \/ Hears(v, m, AfterRefusal(m.from))
  BY <1>1, <1>2, AnswerMoves
<1> QED
  BY <1>1, <1>2, <1>3 DEF Hears

(* Every other step: rows are settled, windows close, handlers come and go. *)
Settles ==
  /\ NetSame /\ open' \subseteq open
  /\ \A v \in Workers : wrk'[v] = wrk[v] \/ wrk'[v].pc \notin Requesting
  /\ \/ op' = op
     \/ \E a \in Actions :
          \/ \E x : Accepts(a, x) /\ RowMoves(a, "provider_accepted", x)
          \/ Refutes(a) /\ RowMoves(a, "definitive_failure", op[a].known)
          \/ Completes(a) /\ RowMoves(a, "completed", op[a].known)

LEMMA KeySteps ==
  ASSUME TypeInv, DecisionInv, [Next]_vars
  PROVE  \/ \E w \in Workers : PrepareAndClaim(w)
         \/ \E w \in Workers : DispatchStarted(w)
         \/ \E w \in Workers : Send(w)
         \/ \E w \in Workers : NotSent(w) \/ LoseAnswer(w)
         \/ \E m \in net : XeroAccepts(m)
         \/ \E m \in net : XeroRefuses(m)
         \/ Settles
PROOF
<1> DEFINE Loud ==
         \/ \E w \in Workers : PrepareAndClaim(w)
         \/ \E w \in Workers : DispatchStarted(w)
         \/ \E w \in Workers : Send(w)
         \/ \E w \in Workers : NotSent(w) \/ LoseAnswer(w)
         \/ \E m \in net : XeroAccepts(m)
         \/ \E m \in net : XeroRefuses(m)
<1> SUFFICES ASSUME ~Loud PROVE Settles
  OBVIOUS
<1>1. NetSame
  BY PayrollSteps DEF NetSame, EditInXero
<1>2. open' \subseteq open
  <2>1. CASE UNCHANGED vars \/ Submit \/ RevertApprovalAttempt \/ Clock \/ PayrollStaff
             \/ Administrator \/ Sync
    BY <2>1 DEF vars, Submit, RevertApprovalAttempt, Clock, ExpireClaim, CloseWindow,
       PayrollStaff, EditInXero, Sync, SyncLoad, SyncApply, Administrator, AdminOpen,
       AdminMarkAccepted, AdminMerge, AdminEffects, AdminVerify, AdminNotCreated,
       AdminCrash, journalVars
  <2>2. ASSUME NEW w \in Workers, Handler(w) PROVE open' = open
    BY <2>2 DEF Handler, Load, Conflict, AcquireLocalClaim,
       DispatchRefused, RecordAccepted, RecordFailure, PersistFailure, Commit,
       CompleteEffects, Throw, Crash, journalVars
  <2> QED
    BY <2>1, <2>2 DEF Next, Xero
<1>3. ASSUME NEW v \in Workers PROVE wrk'[v] = wrk[v] \/ wrk'[v].pc \notin Requesting
  <2>1. wrk \in [Workers -> Handlers]
    BY DEF TypeInv, TypeOK
  <2>2. ASSUME NEW b \in Offered, Load(v, b) PROVE wrk'[v].pc = "loaded"
    <3>1. wrk'[v] = [IdleWorker EXCEPT
             !.pc = "loaded", !.act = b, !.status = rec.status,
             !.failed = IF rec.failed = b THEN b ELSE "none",
             !.seq = rec.seq, !.remote = rec.remote]
      BY <2>1, <2>2 DEF Load
    <3> QED
      BY <3>1 DEF IdleWorker
  <2>3. AcquireLocalClaim(v) => wrk'[v].pc = "local"
    BY <2>1 DEF AcquireLocalClaim, Handlers
  <2>4. RecordAccepted(v) /\ HoldsAttempt(v, {"outcome_unknown"}) => wrk'[v].pc = "accepted"
    BY AcceptEffect
  <2>5. RecordFailure(v) /\ (HoldsAttempt(v, {"prepared", "outcome_unknown"}) \/ Creates(v))
          => wrk'[v].pc \in Persisting
    BY FailEffect
  <2>6. ASSUME Commit(v), HoldsRecord(v), At(v, "accepted") PROVE wrk'[v].pc = "effects"
    <3>1. wrk'[v] = [IdleWorker EXCEPT !.pc = "effects", !.act = wrk[v].act,
                                       !.gen = wrk[v].gen]
      BY <2>1, <2>6 DEF Commit
    <3> QED
      BY <3>1 DEF IdleWorker
  <2>7. wrk'[v] = IdleWorker => wrk'[v].pc \notin Requesting
    BY DEF IdleWorker, Requesting, Dispatched
  <2>8. wrk' = Idle(v) => wrk'[v].pc \notin Requesting
    BY <2>1, <2>7 DEF Idle
  <2>9. ASSUME Handler(v) PROVE wrk'[v].pc \notin Requesting
    <3>1. CASE \E b \in Offered : Load(v, b)
      BY <3>1, <2>2 DEF Requesting, Dispatched
    <3>2. CASE AcquireLocalClaim(v)
      BY <3>2, <2>3 DEF Requesting, Dispatched
    <3>3. CASE RecordAccepted(v)
      <4>1. CASE HoldsAttempt(v, {"outcome_unknown"})
        BY <3>3, <4>1, <2>4 DEF Requesting, Dispatched
      <4> QED
        BY <3>3, <4>1, <2>8 DEF RecordAccepted
    <3>4. CASE RecordFailure(v)
      <4>1. CASE HoldsAttempt(v, {"prepared", "outcome_unknown"}) \/ Creates(v)
        BY <3>4, <4>1, <2>5 DEF Requesting, Dispatched, Persisting
      <4> QED
        BY <3>4, <4>1, <2>8 DEF RecordFailure
    <3>5. CASE Commit(v)
      <4>1. CASE HoldsRecord(v) /\ At(v, "accepted")
        BY <3>5, <4>1, <2>6 DEF Requesting, Dispatched
      <4> QED
        BY <3>5, <4>1, <2>8 DEF Commit
    <3>6. CASE Conflict(v) \/ DispatchRefused(v) \/ PersistFailure(v) \/ CompleteEffects(v)
               \/ Throw(v) \/ Crash(v)
      BY <3>6, <2>8 DEF Conflict, DispatchRefused, PersistFailure, CompleteEffects, Throw,
         Crash
    <3> QED
      BY <2>9, <3>1, <3>2, <3>3, <3>4, <3>5, <3>6 DEF Handler
  <2>10. ASSUME NEW w \in Workers \ {v}, Handler(w) PROVE wrk'[v] = wrk[v]
    BY <2>1, <2>10 DEF Handler, Load, Conflict, AcquireLocalClaim,
       DispatchRefused, RecordAccepted, RecordFailure, PersistFailure, Commit,
       CompleteEffects, Throw, Crash, Idle
  <2>11. CASE UNCHANGED vars \/ Submit \/ RevertApprovalAttempt \/ Clock \/ PayrollStaff
             \/ Administrator \/ Sync
    BY <2>11 DEF vars, Submit, RevertApprovalAttempt, Clock, ExpireClaim, CloseWindow,
       PayrollStaff, EditInXero, Sync, SyncLoad, SyncApply, Administrator, AdminOpen,
       AdminMarkAccepted, AdminMerge, AdminEffects, AdminVerify, AdminNotCreated,
       AdminCrash
  <2> QED
    BY <2>9, <2>10, <2>11 DEF Next, Xero
<1>4. \/ op' = op
      \/ \E a \in Actions :
           \/ \E x : Accepts(a, x) /\ RowMoves(a, "provider_accepted", x)
           \/ Refutes(a) /\ RowMoves(a, "definitive_failure", op[a].known)
           \/ Completes(a) /\ RowMoves(a, "completed", op[a].known)
  <2>1. \A a : ~Dispatches(a)
    BY DEF Dispatches
  <2> QED
    BY <2>1, RowSteps, AdminActs
<1> QED
  BY <1>1, <1>2, <1>3, <1>4 DEF Settles

-----------------------------------------------------------------------------
(* Keys *)

(* The handler that holds a row's attempt has the row's key. *)
LEMMA HeldKey ==
  ASSUME Proved, NEW w \in Workers, wrk[w].pc \in Requesting,
         wrk[w].gen = op[wrk[w].act].gen
  PROVE  wrk[w].act \in Actions /\ wrk[w].key = op[wrk[w].act].key
BY DEF Proved, DecisionInv, WorkInv, AttemptInv, Journalling, Trying, Requesting,
   Dispatched, TypeInv, HandlerInv

(* A key is given up only when Xero has not processed it, has it nowhere under
   way, and no handler may still send it. *)
LEMMA RefutedKey ==
  ASSUME Proved, KeyInv, SoleInv, EvidenceInv, NEW a \in Actions, Refutes(a)
  PROVE  /\ op[a].status \in {"prepared", "outcome_unknown"}
         /\ ~Under(a, op[a].key) /\ <<a, op[a].key>> \notin done
         /\ \A v \in Workers :
              wrk[v].pc \in {"ready", "waiting"} /\ wrk[v].act = a
                /\ <<a, wrk[v].key>> \in open => wrk[v].key # op[a].key
PROOF
<1>1. ASSUME NEW w \in Workers, RecordFailure(w), Definitive(w), wrk[w].act = a,
             HoldsAttempt(w, {"prepared", "outcome_unknown"})
      PROVE  /\ op[a].status \in {"prepared", "outcome_unknown"}
             /\ ~Under(a, op[a].key) /\ <<a, op[a].key>> \notin done
             /\ \A v \in Workers :
                  wrk[v].pc \in {"ready", "waiting"} /\ wrk[v].act = a => wrk[v].key # op[a].key
  <2>1. wrk[w].pc = "refused" /\ "replayed" \notin wrk[w].doubts
    BY <1>1 DEF Definitive, At
  <2>2. Alone(w) /\ wrk[w].pc \in Requesting /\ wrk[w].pc \in Dispatched
    BY <1>1, <2>1 DEF Alone, Requesting, Dispatched
  <2>3. wrk[w].key = op[a].key
    BY <1>1, <2>2, HeldKey DEF HoldsAttempt
  <2>4. "resent" \notin wrk[w].doubts
    BY <2>1, <2>2 DEF KeyInv, CallInv
  <2>5. SoleKnows(w)
    BY <2>2 DEF SoleInv
  <2>6. ~Under(a, op[a].key) /\ <<a, op[a].key>> \notin done
    BY <1>1, <2>1, <2>3, <2>4, <2>5 DEF SoleKnows
  <2>7. ASSUME NEW v \in Workers, wrk[v].pc \in {"ready", "waiting"}, wrk[v].act = a
        PROVE  wrk[v].key # op[a].key
    <3>1. v # w /\ wrk[v].pc \in Dispatched
      BY <2>1, <2>7 DEF Dispatched
    <3> QED
      BY <1>1, <2>3, <2>5, <2>7, <3>1 DEF SoleKnows
  <2> QED
    BY <1>1, <2>6, <2>7 DEF HoldsAttempt
<1>2. ASSUME AdminNotCreated, AdminHolds({"prepared", "outcome_unknown"}), adm.act = a
      PROVE  /\ op[a].status \in {"prepared", "outcome_unknown"}
             /\ ~Under(a, op[a].key) /\ <<a, op[a].key>> \notin done
             /\ <<a, op[a].key>> \notin open
  BY <1>2 DEF EvidenceInv, AdminNotCreated, AdminHolds
<1> QED
  BY <1>1, <1>2 DEF Refutes

LEMMA UsedStep ==
  ASSUME Proved, CallsInv, [Next]_vars
  PROVE  UsedInv'
PROOF
<1> USE DEF Proved, CallsInv, KeyInv
<1>f. \A a \in Actions : op[a].gen \in Nat /\ op[a].key \in Nat /\ op[a].status \in OpStatuses
                         /\ op[a].key <= op[a].gen
  BY Fields DEF DecisionInv, RowInv
<1> SUFFICES ASSUME NEW a \in Actions, NEW k \in Generations
             PROVE  /\ (<<a, k>> \in done \/ Under(a, k))' =>
                         k = op'[a].key /\ op'[a].status \in Processed
                    /\ <<a, k>> \in open' => k <= op'[a].key
  BY DEF UsedInv
<1>i. /\ <<a, k>> \in done \/ Under(a, k) => k = op[a].key /\ op[a].status \in Processed
      /\ <<a, k>> \in open => k <= op[a].key
      /\ k \in Nat
  BY DEF UsedInv, Generations
<1>same. ASSUME NetSame PROVE (<<a, k>> \in done \/ Under(a, k))' => <<a, k>> \in done \/ Under(a, k)
  BY <1>same DEF NetSame, Under
<1>1. ASSUME NEW w \in Workers, PrepareAndClaim(w)
      PROVE  /\ (<<a, k>> \in done \/ Under(a, k))' =>
                  k = op'[a].key /\ op'[a].status \in Processed
             /\ <<a, k>> \in open' => k <= op'[a].key
  <2>1. NetSame /\ open' = open
    BY <1>1 DEF PrepareAndClaim, NetSame, providerVars
  <2>2. CASE op'[a].key = op[a].key /\ op'[a].status = op[a].status
    BY <1>i, <1>same, <2>1, <2>2
  <2>3. CASE wrk[w].act = a /\ ~Replays(a)
    <3>1. op[a].status \notin Processed /\ op'[a].key = op[a].gen + 1
      BY <1>1, <2>3, PrepareEffect DEF Mints, Processed
    <3> QED
      BY <1>f, <1>i, <1>same, <2>1, <3>1
  <2> QED
    BY <1>1, <2>2, <2>3, PrepareEffect
<1>2. ASSUME NEW w \in Workers, DispatchStarted(w)
      PROVE  /\ (<<a, k>> \in done \/ Under(a, k))' =>
                  k = op'[a].key /\ op'[a].status \in Processed
             /\ <<a, k>> \in open' => k <= op'[a].key
  <2>1. wrk[w].key = op[wrk[w].act].key
    BY <1>2, DispatchEffect, HeldKey DEF HoldsAttempt, Requesting
  <2>2. NetSame /\ open' \subseteq open \cup {<<wrk[w].act, wrk[w].key>>}
        /\ RowMoves(wrk[w].act, "outcome_unknown", op[wrk[w].act].known)
    BY <1>2, DispatchEffect
  <2>3. op'[a].key = op[a].key /\ (op'[a] = op[a] \/ op'[a].status = "outcome_unknown")
    BY <2>2 DEF RowMoves
  <2> QED
    BY <1>f, <1>i, <1>same, <2>1, <2>2, <2>3 DEF Processed
<1>3. ASSUME NEW w \in Workers, Send(w)
      PROVE  /\ (<<a, k>> \in done \/ Under(a, k))' =>
                  k = op'[a].key /\ op'[a].status \in Processed
             /\ <<a, k>> \in open' => k <= op'[a].key
  <2>1. /\ wrk[w].pc = "ready" /\ <<wrk[w].act, wrk[w].key>> \in open
        /\ wrk[w].act \in Actions /\ op' = op /\ open' = open /\ done' = done
        /\ net' = net \cup {[act |-> wrk[w].act, key |-> wrk[w].key, app |-> wrk[w].app,
                              from |-> w, sent |-> "in_window"]}
    BY <1>3, SendMoves
  <2>2. wrk[w].key = op[wrk[w].act].key /\ op[wrk[w].act].status \in Processed
    BY <1>f, <2>1 DEF CallInv, Dispatched, Processed, OpStatuses, Unresolved
  <2>3. (<<a, k>> \in done \/ Under(a, k))' =>
          <<a, k>> \in done \/ Under(a, k) \/ (wrk[w].act = a /\ wrk[w].key = k)
    BY <2>1 DEF Under
  <2> QED
    BY <1>i, <2>1, <2>2, <2>3
<1>4. ASSUME NEW w \in Workers, NotSent(w) \/ LoseAnswer(w)
      PROVE  /\ (<<a, k>> \in done \/ Under(a, k))' =>
                  k = op'[a].key /\ op'[a].status \in Processed
             /\ <<a, k>> \in open' => k <= op'[a].key
  BY <1>4, <1>i, <1>same, RetryMoves
<1>5. ASSUME NEW m \in net, XeroAccepts(m)
      PROVE  /\ (<<a, k>> \in done \/ Under(a, k))' =>
                  k = op'[a].key /\ op'[a].status \in Processed
             /\ <<a, k>> \in open' => k <= op'[a].key
  <2>1. (<<a, k>> \in done \/ Under(a, k))' => <<a, k>> \in done \/ Under(a, k)
    BY <1>5, AcceptMoves DEF Under
  <2> QED
    BY <1>5, <1>i, <2>1, AcceptMoves
<1>6. ASSUME NEW m \in net, XeroRefuses(m)
      PROVE  /\ (<<a, k>> \in done \/ Under(a, k))' =>
                  k = op'[a].key /\ op'[a].status \in Processed
             /\ <<a, k>> \in open' => k <= op'[a].key
  <2>1. (<<a, k>> \in done \/ Under(a, k))' => <<a, k>> \in done \/ Under(a, k)
    BY <1>6, RefuseMoves DEF Under
  <2> QED
    BY <1>6, <1>i, <2>1, RefuseMoves
<1>7. ASSUME Settles
      PROVE  /\ (<<a, k>> \in done \/ Under(a, k))' =>
                  k = op'[a].key /\ op'[a].status \in Processed
             /\ <<a, k>> \in open' => k <= op'[a].key
  <2>1. NetSame /\ open' \subseteq open
    BY <1>7 DEF Settles
  <2>2. CASE op'[a].key = op[a].key /\ op'[a].status \in {op[a].status} \cup Processed
    BY <1>i, <1>same, <2>1, <2>2
  <2>3. ASSUME NEW b \in Actions, Refutes(b), RowMoves(b, "definitive_failure", op[b].known)
        PROVE  /\ op'[a].key = op[a].key
               /\ \/ op'[a].status = op[a].status
                  \/ <<a, k>> \notin done /\ ~Under(a, k)
    <3>1. CASE a = b
      BY <1>i, <2>3, <3>1, RefutedKey DEF RowMoves
    <3> QED
      BY <2>3, <3>1 DEF RowMoves
  <2> QED
    BY <1>7, <1>i, <1>same, <2>1, <2>2, <2>3 DEF Settles, RowMoves, Processed
<1> QED
  BY <1>1, <1>2, <1>3, <1>4, <1>5, <1>6, <1>7, KeySteps

(* What a handler knows of its key stays true, whoever takes the step. *)
LEMMA CallStep ==
  ASSUME Proved, CallsInv, [Next]_vars, NEW v \in Workers
  PROVE  CallInv(v)'
PROOF
<1> USE DEF Proved, CallsInv, KeyInv
<1>f. /\ \A a \in Actions : op[a].gen \in Nat /\ op[a].key \in Nat /\ op[a].key <= op[a].gen
      /\ wrk[v].key \in Nat
      /\ wrk[v].pc # "idle" => wrk[v].act \in Actions
  BY Fields DEF DecisionInv, RowInv
<1> DEFINE a == wrk[v].act
           k == wrk[v].key
           row == op[a]
<1>i. ASSUME wrk[v].pc \in Dispatched
      PROVE  /\ a \in Actions
             /\ k <= row.key
             /\ k = row.key => row.status \notin {"none", "prepared"}
             /\ wrk[v].pc \in {"ready", "waiting"} /\ <<a, k>> \in open =>
                  k = row.key /\ row.status # "definitive_failure"
             /\ wrk[v].pc = "ok" => <<a, k>> \in done
             /\ wrk[v].pc = "refused" => "resent" \notin wrk[v].doubts
  BY <1>f, <1>i DEF CallInv, Dispatched
<1>same. ASSUME wrk'[v] = wrk[v], wrk[v].pc \in Dispatched => op'[a] = row,
                open' \subseteq open, done \subseteq done'
         PROVE  CallInv(v)'
  BY <1>i, <1>same DEF CallInv
<1>1. ASSUME NEW w \in Workers, PrepareAndClaim(w) PROVE CallInv(v)'
  <2>1. done' = done /\ open' = open
    BY <1>1 DEF PrepareAndClaim, providerVars
  <2>2. CASE v = w
    <3>1. wrk'[v].pc \notin Dispatched
      BY <1>1, <2>2, PrepareEffect DEF Dispatched
    <3> QED
      BY <3>1 DEF CallInv
  <2>3. CASE v # w /\ (a # wrk[w].act \/ wrk[v].pc \notin Dispatched)
    <3>1. wrk'[v] = wrk[v] /\ (wrk[v].pc \in Dispatched => op'[a] = row)
      BY <1>1, <1>i, <2>3, PrepareEffect
    <3> QED
      BY <1>same, <2>1, <3>1
  <2>4. CASE v # w /\ a = wrk[w].act /\ wrk[v].pc \in Dispatched /\ Replays(a)
    <3>1. wrk'[v] = wrk[v] /\ op'[a].status = row.status /\ op'[a].key = row.key
      BY <1>1, <2>4, PrepareEffect
    <3> QED
      BY <1>i, <2>1, <2>4, <3>1 DEF CallInv
  <2>5. CASE v # w /\ a = wrk[w].act /\ wrk[v].pc \in Dispatched /\ ~Replays(a)
    <3>1. wrk'[v] = wrk[v] /\ op'[a].key = row.gen + 1
          /\ row.status \in {"none", "definitive_failure"}
      BY <1>1, <2>5, PrepareEffect DEF Mints
    <3>2. k < op'[a].key
      BY <1>f, <1>i, <2>5, <3>1
    <3>3. ~(wrk[v].pc \in {"ready", "waiting"} /\ <<a, k>> \in open)
      BY <1>i, <2>5, <3>1
    <3>4. k # op'[a].key /\ k <= op'[a].key
      BY <1>f, <1>i, <2>5, <3>1, <3>2
    <3> QED
      BY <1>i, <2>1, <2>5, <3>1, <3>3, <3>4 DEF CallInv
  <2> QED
    BY <2>2, <2>3, <2>4, <2>5
<1>2. ASSUME NEW w \in Workers, DispatchStarted(w) PROVE CallInv(v)'
  <2> DEFINE b == wrk[w].act
  <2>1. /\ b \in Actions /\ wrk[w].key = op[b].key /\ wrk[w].pc = "prepared"
        /\ done' = done /\ open' \subseteq open \cup {<<b, op[b].key>>}
        /\ RowMoves(b, "outcome_unknown", op[b].known)
    BY <1>2, DispatchEffect, HeldKey DEF HoldsAttempt, Requesting, NetSame
  <2>2. \A c \in Actions : op'[c].key = op[c].key
                           /\ op'[c].status \in {op[c].status, "outcome_unknown"}
    BY <2>1 DEF RowMoves
  <2>3. CASE v = w
    <3>1. wrk'[v].pc = "ready" /\ wrk'[v].act = b /\ wrk'[v].key = op[b].key
          /\ op'[b].status = "outcome_unknown"
      BY <1>2, <2>1, <2>3, DispatchEffect DEF RowMoves
    <3> HIDE DEF b
    <3> QED
      BY <1>f, <2>1, <2>2, <3>1 DEF CallInv
  <2>4. CASE v # w
    <3>1. wrk'[v] = wrk[v]
      BY <1>2, <2>4, DispatchEffect
    <3>2. CASE wrk[v].pc \in Dispatched
      <4>1. op'[a].key = row.key /\ op'[a].status \in {row.status, "outcome_unknown"}
        BY <1>i, <2>2, <3>2
      <4>2. <<a, k>> \in open' => <<a, k>> \in open \/ k = row.key
        BY <2>1
      <4>3. wrk[v].pc \in {"ready", "waiting"} /\ <<a, k>> \in open' =>
              k = row.key /\ op'[a].status # "definitive_failure"
        BY <1>i, <2>1, <2>2, <3>2, <4>1, <4>2 DEF RowMoves
      <4> QED
        BY <1>i, <2>1, <3>1, <3>2, <4>1, <4>3 DEF CallInv
    <3> QED
      BY <3>1, <3>2 DEF CallInv
  <2> QED
    BY <2>3, <2>4
<1>3. ASSUME NEW w \in Workers, Send(w) PROVE CallInv(v)'
  <2>1. done' = done /\ op' = op /\ open' = open
    BY <1>3, SendMoves
  <2>2. CASE v # w
    BY <1>3, <1>same, <2>1, <2>2, SendMoves
  <2>3. CASE v = w
    <3>1. wrk[v].pc = "ready" /\ wrk'[v].pc = "waiting" /\ wrk'[v].act = a /\ wrk'[v].key = k
      BY <1>3, <2>3, SendMoves DEF SameAttempt
    <3> QED
      BY <1>i, <2>1, <3>1 DEF CallInv, Dispatched
  <2> QED
    BY <2>2, <2>3
<1>4. ASSUME NEW w \in Workers, NotSent(w) \/ LoseAnswer(w) PROVE CallInv(v)'
  <2>1. done' = done /\ op' = op /\ open' = open
    BY <1>4, RetryMoves DEF NetSame
  <2>2. CASE v # w
    BY <1>4, <1>same, <2>1, <2>2, RetryMoves
  <2>3. CASE v = w
    <3>1. /\ wrk[v].pc \in {"ready", "waiting"} /\ wrk'[v].act = a /\ wrk'[v].key = k
          /\ \/ wrk[v].pc = "ready" /\ wrk'[v].pc = AfterRefusal(v)
                /\ wrk'[v].doubts = wrk[v].doubts
             \/ wrk'[v].pc = "ready"
      BY <1>4, <2>3, RetryMoves DEF SameAttempt
    <3>2. wrk'[v].pc \in {"ready", "refused", "unsure"}
          /\ (wrk'[v].pc = "refused" => "resent" \notin wrk'[v].doubts)
      BY <3>1 DEF AfterRefusal
    <3> QED
      BY <1>i, <2>1, <3>1, <3>2 DEF CallInv, Dispatched
  <2> QED
    BY <2>2, <2>3
<1>5. ASSUME NEW m \in net, XeroAccepts(m) PROVE CallInv(v)'
  <2>1. done' = done \cup {<<m.act, m.key>>} /\ op' = op /\ open' = open
    BY <1>5, AcceptMoves
  <2>2. CASE wrk'[v] = wrk[v]
    BY <1>same, <2>1, <2>2
  <2>3. CASE Hears(v, m, "ok")
    <3>1. wrk[v].pc = "waiting" /\ wrk'[v].pc = "ok" /\ wrk'[v].act = a /\ wrk'[v].key = k
          /\ a = m.act /\ k = m.key
      BY <2>3 DEF Hears, SameAttempt
    <3> QED
      BY <1>i, <2>1, <3>1 DEF CallInv, Dispatched
  <2> QED
    BY <1>5, <2>2, <2>3, AcceptMoves
<1>6. ASSUME NEW m \in net, XeroRefuses(m) PROVE CallInv(v)'
  <2>1. done' = done /\ op' = op /\ open' = open
    BY <1>6, RefuseMoves
  <2>2. CASE wrk'[v] = wrk[v]
    BY <1>same, <2>1, <2>2
  <2>3. CASE Hears(v, m, AfterRefusal(v))
    <3>1. wrk[v].pc = "waiting" /\ wrk'[v].pc \in {"refused", "unsure"}
          /\ wrk'[v].act = a /\ wrk'[v].key = k
          /\ (wrk'[v].pc = "refused" => "resent" \notin wrk'[v].doubts)
      BY <2>3 DEF Hears, SameAttempt, AfterRefusal
    <3> QED
      BY <1>i, <2>1, <3>1 DEF CallInv, Dispatched
  <2> QED
    BY <1>6, <2>2, <2>3, RefuseMoves
<1>7. ASSUME Settles PROVE CallInv(v)'
  <2>1. done' = done /\ open' \subseteq open
        /\ (wrk'[v] = wrk[v] \/ wrk'[v].pc \notin Requesting)
    BY <1>7 DEF Settles, NetSame
  <2>2. CASE wrk'[v].pc \notin Requesting
    BY <2>2 DEF CallInv, Requesting
  <2>3. CASE wrk'[v] = wrk[v] /\ op' = op
    BY <1>same, <2>1, <2>3
  <2>4. ASSUME wrk'[v] = wrk[v], NEW b \in Actions, NEW x,
               \/ RowMoves(b, "provider_accepted", x)
               \/ RowMoves(b, "completed", x)
               \/ Refutes(b) /\ RowMoves(b, "definitive_failure", x)
        PROVE  CallInv(v)'
    <3>1. CASE a # b \/ wrk[v].pc \notin Dispatched
      BY <1>i, <1>same, <2>1, <2>4, <3>1 DEF RowMoves
    <3>2. CASE a = b /\ wrk[v].pc \in Dispatched
      <4>1. op'[a].key = row.key
            /\ op'[a].status \in {"provider_accepted", "completed", "definitive_failure"}
        BY <2>4, <3>2 DEF RowMoves
      <4>2. wrk[v].pc \in {"ready", "waiting"} /\ <<a, k>> \in open =>
              op'[a].status # "definitive_failure"
        <5>1. CASE op'[a].status = "definitive_failure"
          <6>1. Refutes(a)
            BY <2>4, <3>2, <5>1 DEF RowMoves
          <6> QED
            BY <1>i, <3>2, <6>1, RefutedKey
        <5> QED
          BY <5>1
      <4> HIDE DEF a, k, row
      <4> QED
        BY <1>i, <2>1, <2>4, <3>2, <4>1, <4>2 DEF CallInv, a, k, row
    <3> QED
      BY <3>1, <3>2
  <2> QED
    BY <1>7, <2>1, <2>2, <2>3, <2>4 DEF Settles
<1> QED
  BY <1>1, <1>2, <1>3, <1>4, <1>5, <1>6, <1>7, KeySteps

LEMMA KeyStep ==
  ASSUME Proved, CallsInv, [Next]_vars
  PROVE  KeyInv'
BY UsedStep, CallStep DEF KeyInv

-----------------------------------------------------------------------------
(* The handler that knows all there is to know of its key *)

(* A lone handler's row is the row it has an attempt at. *)
LEMMA AloneKey ==
  ASSUME Proved, NEW w \in Workers, Alone(w)
  PROVE  /\ wrk[w].act \in Actions /\ wrk[w].key \in Generations
         /\ wrk[w].key = op[wrk[w].act].key
         /\ InAttempt(w)
  <1>1. wrk[w].pc \in Requesting /\ wrk[w].gen = op[wrk[w].act].gen
    BY DEF Alone, HoldsAttempt
  <1> QED
    BY <1>1, HeldKey DEF InAttempt, Requesting, Dispatched, Proved, TypeInv, HandlerInv

(* Requests of one key from one handler are one request. *)
LEMMA OneRequest ==
  ASSUME Proved, CallsInv, NEW l \in net, NEW m \in net,
         l.act = m.act, l.key = m.key, l.from = m.from
  PROVE  l = m
PROOF
<1>1. l \in Requests /\ m \in Requests
  BY DEF Proved, TypeInv, TypeOK
<1>2. l.sent = m.sent /\ AllowedAction(m.act)
  BY DEF Proved, DecisionInv, PayrollInv
<1>3. l.app = m.app
  <2>1. CASE Imported
    BY <2>1 DEF Proved, DecisionInv, PayrollInv
  <2>2. CASE ~Imported /\ m.act = "approve"
    BY <2>2 DEF Proved, DecisionInv, PayrollInv
  <2>3. CASE m.act = "withdraw"
    BY <2>3 DEF CallsInv, RequestInv
  <2> QED
    BY <1>1, <1>2, <2>1, <2>2, <2>3 DEF AllowedAction, Requests, Actions
<1> QED
  BY <1>1, <1>2, <1>3 DEF Requests

(* Nothing of a lone handler's knowledge is lost when its own state and its row
   stay, no new call to its key starts and Xero hears nothing of the key. *)
LEMMA SoleKept ==
  ASSUME NEW w \in Workers, SoleKnows(w), wrk'[w] = wrk[w],
         \A v \in Workers \ {w} : wrk'[v].pc \in Dispatched /\ wrk'[v].act = wrk[w].act =>
            \/ wrk'[v].key # wrk[w].key
            \/ wrk[v].pc \in Dispatched /\ wrk[v].act = wrk'[v].act /\ wrk[v].key = wrk'[v].key,
         \A m \in net' : m.act = wrk[w].act /\ m.key = wrk[w].key => m \in net,
         <<wrk[w].act, wrk[w].key>> \in done' => <<wrk[w].act, wrk[w].key>> \in done
  PROVE  SoleKnows(w)'
PROOF
<1> DEFINE a == wrk[w].act
           k == wrk[w].key
<1>1. \A v \in Workers \ {w} :
        wrk'[v].pc \in Dispatched /\ wrk'[v].act = a => wrk'[v].key # k
  BY DEF SoleKnows
<1>2. \A m \in net' : m.act = a /\ m.key = k => m.from = w
  BY DEF SoleKnows
<1>3. Under(a, k)' => Under(a, k)
  BY DEF Under
<1> QED
  BY <1>1, <1>2, <1>3 DEF SoleKnows

LEMMA SolePrepare ==
  ASSUME Proved, CallsInv, NEW u \in Workers, PrepareAndClaim(u), NEW w \in Workers, Alone(w)'
  PROVE  SoleKnows(w)'
PROOF
<1> USE DEF Proved, CallsInv, KeyInv
<1>1. NetSame
  BY DEF PrepareAndClaim, NetSame, providerVars
<1>f. /\ \A a \in Actions : op[a].gen \in Nat /\ op[a].key \in Nat /\ op[a].key <= op[a].gen
      /\ \A v \in Workers : wrk[v].key \in Nat /\ wrk[v].gen \in Nat
  BY Fields DEF DecisionInv, RowInv
<1>2. CASE w = u
  <2> DEFINE a == wrk[u].act
             k == wrk'[u].key
             row == op[a]
  <2>1. /\ a \in Actions /\ wrk'[u].act = a /\ k = op'[a].key
        /\ row.gen + 1 \in Generations
        /\ Replays(a) \/ Mints(a)
        /\ Replays(a) => k = row.key
        /\ ~Replays(a) => k = row.gen + 1
        /\ wrk'[u].pc = IF row.status = "provider_accepted" THEN "accepted" ELSE "prepared"
        /\ wrk'[u].doubts = IF row.status = "outcome_unknown" THEN {"replayed"} ELSE {}
        /\ \A v \in Workers \ {u} : wrk'[v] = wrk[v]
    BY PrepareEffect
  <2>2. row.status \in {"prepared", "none", "definitive_failure"} /\ wrk'[u].pc = "prepared"
    BY <1>2, <2>1 DEF Alone, Requesting, Dispatched, Replays, Replayable, Mints
  <2>3. row.status # "prepared" => ~Replays(a)
    BY <2>2 DEF Replays, Replayable
  <2>4. k \in Generations /\ k \in Nat
    BY <1>f, <2>1, <2>2, <2>3 DEF TypeInv, JournalInv, Unresolved, Generations, Replays,
       Replayable
  <2>5. ~Under(a, k) /\ <<a, k>> \notin done
    <3>1. row.status \notin Processed
      BY <2>2 DEF Processed
    <3> HIDE DEF a, k
    <3> QED
      BY <2>1, <2>4, <3>1 DEF UsedInv
  <2>6. ASSUME NEW v \in Workers \ {u}, wrk[v].pc \in Dispatched, wrk[v].act = a
        PROVE  wrk[v].key # k
    <3>1. wrk[v].key <= row.key /\ (wrk[v].key = row.key => row.status \notin {"none", "prepared"})
      BY <2>6 DEF CallInv
    <3>2. CASE row.status = "prepared"
      BY <2>1, <3>1, <3>2 DEF Replays, Replayable
    <3>3. CASE row.status # "prepared"
      BY <1>f, <2>1, <2>3, <3>1, <3>3
    <3> QED
      BY <3>2, <3>3
  <2>7. <<a, k>> \notin done' /\ \A m \in net' : ~(m.act = a /\ m.key = k)
    BY <1>1, <2>5 DEF NetSame, Under
  <2>8. \A v \in Workers \ {u} :
          wrk'[v].pc \in Dispatched /\ wrk'[v].act = a => wrk'[v].key # k
    BY <2>1, <2>6
  <2> QED
    BY <1>2, <2>1, <2>2, <2>7, <2>8 DEF SoleKnows, Under
<1>3. CASE w # u
  <2>1. /\ wrk'[w] = wrk[w] /\ wrk'[u].pc \in {"accepted", "prepared"}
        /\ op'[wrk[u].act].gen = op[wrk[u].act].gen + 1
        /\ \A b \in Actions \ {wrk[u].act} : op'[b] = op[b]
        /\ \A v \in Workers \ {u} : wrk'[v] = wrk[v]
    BY <1>3, PrepareEffect
  <2>2. wrk[w].pc \in Requesting /\ wrk[w].act \in Actions
    BY <2>1 DEF Alone, Requesting, Dispatched, TypeInv, HandlerInv
  <2>3. wrk[w].gen <= op[wrk[w].act].gen
    BY <2>2 DEF DecisionInv, WorkInv, AttemptInv, Journalling, Trying, Requesting, Dispatched
  <2>4. wrk[w].act # wrk[u].act
    BY <1>f, <2>1, <2>2, <2>3 DEF Alone, HoldsAttempt
  <2>5. Alone(w)
    BY <2>1, <2>2, <2>4 DEF Alone, HoldsAttempt
  <2> QED
    BY <1>1, <2>1, <2>5, SoleKept DEF NetSame, SoleInv, Dispatched
<1> QED
  BY <1>2, <1>3

LEMMA SoleDispatch ==
  ASSUME Proved, CallsInv, NEW u \in Workers, DispatchStarted(u), NEW w \in Workers, Alone(w)'
  PROVE  SoleKnows(w)'
PROOF
<1> USE DEF Proved, CallsInv
<1> DEFINE a == wrk[u].act
<1>1. /\ a \in Actions /\ wrk[u].pc = "prepared"
      /\ HoldsAttempt(u, {"prepared", "outcome_unknown"})
      /\ RowMoves(a, "outcome_unknown", op[a].known)
      /\ wrk'[u].pc = "ready" /\ wrk'[u].act = a /\ wrk'[u].key = wrk[u].key
      /\ wrk'[u].gen = wrk[u].gen /\ wrk'[u].doubts = wrk[u].doubts
      /\ \A v \in Workers \ {u} : wrk'[v] = wrk[v]
      /\ NetSame
  BY DispatchEffect
<1>2. CASE w = u
  <2>1. Alone(u)
    BY <1>1, <1>2 DEF Alone, Requesting
  <2>2. SoleKnows(u)
    BY <2>1 DEF SoleInv
  <2> HIDE DEF a
  <2> QED
    BY <1>1, <1>2, <2>2 DEF SoleKnows, NetSame, Under, a
<1>3. CASE w # u
  <2>1. wrk'[w] = wrk[w] /\ wrk[w].pc \in Requesting /\ wrk[w].act \in Actions
    BY <1>1, <1>3 DEF Alone, Requesting, Dispatched, TypeInv, HandlerInv
  <2>2. op'[wrk[w].act].gen = op[wrk[w].act].gen
    BY <1>1, <2>1 DEF RowMoves
  <2>3. wrk[w].act # a
    BY <1>1, <1>3, <2>1, <2>2 DEF FencedAttempts, InAttempt, Alone, HoldsAttempt, Requesting,
       Dispatched
  <2>4. Alone(w)
    BY <1>1, <2>1, <2>3 DEF Alone, HoldsAttempt, RowMoves
  <2> QED
    BY <1>1, <2>1, <2>3, <2>4, SoleKept DEF NetSame, SoleInv
<1> QED
  BY <1>2, <1>3

LEMMA SoleSend ==
  ASSUME Proved, CallsInv, NEW u \in Workers, Send(u), NEW w \in Workers, Alone(w)'
  PROVE  SoleKnows(w)'
PROOF
<1> USE DEF Proved, CallsInv
<1>1. /\ wrk[u].pc = "ready" /\ wrk'[u].pc = "waiting"
      /\ wrk'[u].act = wrk[u].act /\ wrk'[u].key = wrk[u].key /\ wrk'[u].gen = wrk[u].gen
      /\ wrk'[u].doubts = wrk[u].doubts
      /\ net' = net \cup {[act |-> wrk[u].act, key |-> wrk[u].key, app |-> wrk[u].app,
                           from |-> u, sent |-> "in_window"]}
      /\ done' = done /\ op' = op
      /\ \A v \in Workers \ {u} : wrk'[v] = wrk[v]
  BY SendMoves DEF SameAttempt
<1>2. Alone(w)
  <2>1. wrk'[w].act = wrk[w].act /\ wrk'[w].gen = wrk[w].gen /\ wrk'[w].doubts = wrk[w].doubts
        /\ (wrk'[w].pc = wrk[w].pc \/ wrk[w].pc = "ready")
    BY <1>1
  <2> QED
    BY <1>1, <2>1 DEF Alone, HoldsAttempt, Requesting, Dispatched
<1>3. SoleKnows(w)
  BY <1>2 DEF SoleInv
<1>4. CASE w = u
  <2>1. \A v \in Workers \ {u} :
          wrk'[v].pc \in Dispatched /\ wrk'[v].act = wrk[u].act => wrk'[v].key # wrk[u].key
    BY <1>1, <1>3, <1>4 DEF SoleKnows
  <2>2. \A m \in net' : m.act = wrk[u].act /\ m.key = wrk[u].key => m.from = u
    BY <1>1, <1>3, <1>4 DEF SoleKnows
  <2>3. "resent" \notin wrk[u].doubts => <<wrk[u].act, wrk[u].key>> \notin done
    BY <1>1, <1>3, <1>4 DEF SoleKnows
  <2> QED
    BY <1>1, <1>4, <2>1, <2>2, <2>3 DEF SoleKnows
<1>5. CASE w # u
  <2>1. wrk[u].act = wrk[w].act => wrk[u].key # wrk[w].key
    BY <1>1, <1>3, <1>5 DEF SoleKnows, Dispatched
  <2>2. \A m \in net' : m.act = wrk[w].act /\ m.key = wrk[w].key => m \in net
    BY <1>1, <2>1
  <2> QED
    BY <1>1, <1>3, <1>5, <2>2, SoleKept DEF Dispatched
<1> QED
  BY <1>4, <1>5

LEMMA SoleRetry ==
  ASSUME Proved, CallsInv, NEW u \in Workers, NotSent(u) \/ LoseAnswer(u),
         NEW w \in Workers, Alone(w)'
  PROVE  SoleKnows(w)'
PROOF
<1> USE DEF Proved, CallsInv
<1>1. /\ wrk'[u].act = wrk[u].act /\ wrk'[u].key = wrk[u].key /\ wrk'[u].gen = wrk[u].gen
      /\ \/ /\ wrk[u].pc = "ready" /\ wrk'[u].pc = AfterRefusal(u)
            /\ wrk'[u].doubts = wrk[u].doubts
         \/ /\ wrk[u].pc = "waiting" /\ wrk'[u].pc = "ready"
            /\ wrk'[u].doubts = wrk[u].doubts \cup {"resent"}
      /\ NetSame /\ op' = op
      /\ \A v \in Workers \ {u} : wrk'[v] = wrk[v]
  BY RetryMoves DEF SameAttempt
<1>2. Alone(w)
  <2>1. wrk'[w].act = wrk[w].act /\ wrk'[w].gen = wrk[w].gen
        /\ ("replayed" \in wrk[w].doubts => "replayed" \in wrk'[w].doubts)
        /\ (wrk'[w].pc = wrk[w].pc \/ wrk[w].pc \in {"ready", "waiting"})
    BY <1>1
  <2> QED
    BY <1>1, <2>1 DEF Alone, HoldsAttempt, Requesting, Dispatched
<1>3. SoleKnows(w)
  BY <1>2 DEF SoleInv
<1>4. CASE w = u
  <2>1. \A v \in Workers \ {u} :
          wrk'[v].pc \in Dispatched /\ wrk'[v].act = wrk[u].act => wrk'[v].key # wrk[u].key
    BY <1>1, <1>3, <1>4 DEF SoleKnows
  <2>2. \A m \in net' : m.act = wrk[u].act /\ m.key = wrk[u].key => m.from = u
    BY <1>1, <1>3, <1>4 DEF SoleKnows, NetSame
  <2>3. "resent" \notin wrk'[u].doubts =>
          /\ wrk'[u].pc # "waiting"
          /\ ~Under(wrk[u].act, wrk[u].key) /\ <<wrk[u].act, wrk[u].key>> \notin done
    BY <1>1, <1>3, <1>4 DEF SoleKnows, AfterRefusal
  <2>4. wrk'[u].pc # "prepared"
    BY <1>1 DEF AfterRefusal
  <2>5. Under(wrk[u].act, wrk[u].key)' <=> Under(wrk[u].act, wrk[u].key)
    BY <1>1 DEF Under, NetSame
  <2> QED
    BY <1>1, <1>4, <2>1, <2>2, <2>3, <2>4, <2>5 DEF SoleKnows, NetSame
<1>5. CASE w # u
  <2>1. \A v \in Workers \ {w} : wrk'[v].pc \in Dispatched =>
          wrk[v].pc \in Dispatched /\ wrk[v].act = wrk'[v].act /\ wrk[v].key = wrk'[v].key
    BY <1>1 DEF Dispatched
  <2> QED
    BY <1>1, <1>3, <1>5, <2>1, SoleKept DEF NetSame
<1> QED
  BY <1>4, <1>5

(* An answer to a request, or its loss, when it was processed or refused. *)
LEMMA SoleAnswer ==
  ASSUME Proved, CallsInv, NEW m \in net, XeroAccepts(m) \/ XeroRefuses(m),
         NEW w \in Workers, Alone(w)'
  PROVE  SoleKnows(w)'
PROOF
<1> USE DEF Proved, CallsInv
<1> DEFINE a == wrk[w].act
           k == wrk[w].key
<1>1. /\ net' = net \ {m} /\ op' = op
      /\ XeroAccepts(m) => done' = done \cup {<<m.act, m.key>>}
      /\ ~XeroAccepts(m) => done' = done
  BY AcceptMoves, RefuseMoves
<1>2. \A v \in Workers :
        \/ wrk'[v] = wrk[v]
        \/ XeroAccepts(m) /\ Hears(v, m, "ok")
        \/ XeroRefuses(m) /\ done' = done /\ Hears(v, m, AfterRefusal(v))
  BY AcceptMoves, RefuseMoves
<1>3. \A v \in Workers :
        /\ wrk'[v].act = wrk[v].act /\ wrk'[v].key = wrk[v].key
        /\ wrk'[v].gen = wrk[v].gen /\ wrk'[v].doubts = wrk[v].doubts
        /\ wrk'[v].pc = wrk[v].pc \/ wrk[v].pc = "waiting"
  BY <1>2 DEF Hears, SameAttempt
<1>4. Alone(w) /\ SoleKnows(w)
  BY <1>1, <1>3 DEF Alone, HoldsAttempt, Requesting, Dispatched, SoleInv
<1>5. \A v \in Workers \ {w} :
        wrk'[v].pc \in Dispatched /\ wrk'[v].act = a => wrk'[v].key # k
  BY <1>3, <1>4 DEF SoleKnows, Dispatched
<1>6. \A l \in net' : l.act = a /\ l.key = k => l.from = w
  BY <1>1, <1>4 DEF SoleKnows
<1>7. m.act = a /\ m.key = k => ~Under(a, k)'
  <2> SUFFICES ASSUME m.act = a, m.key = k, NEW l \in net', l.act = a, l.key = k PROVE FALSE
    BY <1>3 DEF Under
  <2>1. l \in net /\ l # m
    BY <1>1
  <2>2. l.from = m.from
    BY <1>4, <2>1 DEF SoleKnows
  <2> QED
    BY <2>1, <2>2, OneRequest
<1>8. Under(a, k)' => Under(a, k)
  BY <1>1, <1>3 DEF Under
<1>9. m.act = a /\ m.key = k => Under(a, k)
  BY DEF Under
<1>10. CASE wrk'[w] = wrk[w]
  <2>1. <<a, k>> \in done' => <<a, k>> \in done \/ (m.act = a /\ m.key = k)
    BY <1>1
  <2> QED
    BY <1>4, <1>5, <1>6, <1>7, <1>8, <1>9, <1>10, <2>1 DEF SoleKnows
<1>11. CASE Hears(w, m, "ok")
  <2>1. wrk'[w].pc = "ok"
    BY <1>11 DEF Hears
  <2> QED
    BY <1>3, <1>5, <1>6, <2>1 DEF SoleKnows
<1>12. CASE done' = done /\ Hears(w, m, AfterRefusal(w))
  <2>1. wrk[w].pc = "waiting" /\ a = m.act /\ k = m.key /\ wrk'[w].pc \in {"refused", "unsure"}
    BY <1>12 DEF Hears, AfterRefusal
  <2>2. ~Under(a, k)' /\ Under(a, k)
    BY <1>7, <1>9, <2>1
  <2>3. "resent" \notin wrk[w].doubts => <<a, k>> \notin done
    BY <1>4, <2>1, <2>2 DEF SoleKnows
  <2> QED
    BY <1>3, <1>5, <1>6, <1>12, <2>1, <2>2, <2>3 DEF SoleKnows
<1> QED
  BY <1>2, <1>10, <1>11, <1>12

LEMMA SoleSettles ==
  ASSUME Proved, CallsInv, Settles, NEW w \in Workers, Alone(w)'
  PROVE  SoleKnows(w)'
PROOF
<1> USE DEF Proved, CallsInv
<1>1. NetSame /\ \A v \in Workers : wrk'[v] = wrk[v] \/ wrk'[v].pc \notin Requesting
  BY DEF Settles
<1>2. wrk'[w] = wrk[w] /\ wrk[w].act \in Actions
  BY <1>1 DEF Alone, Requesting, Dispatched, TypeInv, HandlerInv
<1>3. op'[wrk[w].act] = op[wrk[w].act]
        \/ op'[wrk[w].act].status \in {"provider_accepted", "definitive_failure", "completed"}
  BY <1>2 DEF Settles, RowMoves
<1>4. Alone(w)
  BY <1>2, <1>3 DEF Alone, HoldsAttempt
<1> QED
  BY <1>1, <1>2, <1>4, SoleKept DEF NetSame, SoleInv, Requesting

LEMMA SoleStep ==
  ASSUME Proved, CallsInv, [Next]_vars
  PROVE  SoleInv'
PROOF
<1> SUFFICES ASSUME NEW w \in Workers, Alone(w)' PROVE SoleKnows(w)'
  BY DEF SoleInv
<1>1. Proved => TypeInv /\ DecisionInv
  BY DEF Proved
<1> QED
  BY <1>1, KeySteps, SolePrepare, SoleDispatch, SoleSend, SoleRetry, SoleAnswer, SoleSettles

-----------------------------------------------------------------------------
(* Evidence *)

(* Only a check that there was no such request makes evidence. *)
LEMMA VerifiedSteps ==
  ASSUME TypeInv, [Next]_vars, adm'.pc = "verified"
  PROVE  adm' = adm \/ \E a \in Actions : AdminVerify(a)
PROOF
<1>1. ASSUME NEW a \in Actions, NEW x \in AppIds, AdminOpen(a, x) PROVE FALSE
  BY <1>1 DEF AdminOpen
<1>2. adm' # IdleAdmin
  BY DEF IdleAdmin
<1>3. ASSUME AdminMarkAccepted, adm' = [adm EXCEPT !.pc = adm.next] PROVE FALSE
  BY <1>3 DEF TypeInv, TypeOK, Recoveries
<1>4. ASSUME AdminMerge, Merges PROVE FALSE
  BY <1>4 DEF AdminMerge, Merges
<1> QED
  BY <1>1, <1>2, <1>3, <1>4, RecoverySteps

LEMMA EvidenceStep ==
  ASSUME CarefulRecovery, Proved, CallsInv, [Next]_vars
  PROVE  EvidenceInv'
PROOF
<1> USE DEF Proved, CallsInv
<1> SUFFICES ASSUME adm'.pc = "verified",
                    AdminHolds({"prepared", "outcome_unknown"})'
             PROVE  LET a == adm'.act
                        k == op'[a].key
                    IN  /\ op'[a].status = "outcome_unknown"
                        /\ <<a, k>> \notin open' /\ <<a, k>> \notin done'
                        /\ \A m \in net' : ~(m.act = a /\ m.key = k)
  BY DEF EvidenceInv, Under
<1>1. ASSUME NEW a \in Actions, AdminVerify(a)
      PROVE  LET b == adm'.act
                 k == op'[b].key
             IN  /\ op'[b].status = "outcome_unknown"
                 /\ <<b, k>> \notin open' /\ <<b, k>> \notin done'
                 /\ \A m \in net' : ~(m.act = b /\ m.key = k)
  <2>1. EvidenceWaits
    BY <1>1 DEF AdminVerify, RecoveryOperation, CarefulRecovery
  <2>2. adm'.act = a /\ op' = op /\ open' = open /\ done' = done /\ net' = net
    BY <1>1 DEF AdminVerify, IdleAdmin, journalVars, providerVars
  <2>3. op[a].status = "outcome_unknown" /\ Evidence(a)
    BY <1>1 DEF AdminVerify
  <2> QED
    BY <2>1, <2>2, <2>3 DEF Evidence
<1>2. CASE adm' = adm
  <2> DEFINE a == adm.act
             k == op[a].key
  <2>1. a \in Actions /\ adm.pc = "verified" /\ adm.gen \in Nat /\ adm.gen <= op[a].gen
    BY <1>2, AdminActs, Fields DEF DecisionInv, AdminInv
  <2>2. ASSUME AdminHolds({"prepared", "outcome_unknown"})
        PROVE  /\ op[a].status = "outcome_unknown"
               /\ <<a, k>> \notin open /\ <<a, k>> \notin done
               /\ \A m \in net : ~(m.act = a /\ m.key = k)
    BY <2>1, <2>2 DEF EvidenceInv, Under
  <2>3. ASSUME op'[a] = op[a],
               <<a, k>> \in open' => <<a, k>> \in open,
               <<a, k>> \in done' => <<a, k>> \in done \/ \E m \in net : m.act = a /\ m.key = k,
               \A m \in net' : m.act = a /\ m.key = k => m \in net \/ <<a, k>> \in open
        PROVE  /\ op'[a].status = "outcome_unknown"
               /\ <<a, k>> \notin open' /\ <<a, k>> \notin done'
               /\ \A m \in net' : ~(m.act = a /\ m.key = k)
    <3>1. AdminHolds({"prepared", "outcome_unknown"})
      BY <1>2, <2>3 DEF AdminHolds
    <3> QED
      BY <2>2, <2>3, <3>1
  <2>4. ASSUME NEW u \in Workers, PrepareAndClaim(u)
        PROVE  op'[a] = op[a] /\ NetSame /\ open' = open
    <3>1. NetSame /\ open' = open
      BY <2>4 DEF PrepareAndClaim, NetSame, providerVars
    <3>2. op'[wrk[u].act].gen = op[wrk[u].act].gen + 1
          /\ \A b \in Actions \ {wrk[u].act} : op'[b] = op[b]
      BY <2>4, PrepareEffect
    <3>3. op[a].gen \in Nat
      BY <2>1, Fields
    <3>4. a # wrk[u].act
      BY <1>2, <2>1, <3>2, <3>3 DEF AdminHolds
    <3> QED
      BY <2>1, <3>1, <3>2, <3>4
  <2>5. ASSUME NEW u \in Workers, DispatchStarted(u)
        PROVE  op'[a] = op[a] /\ NetSame /\ (<<a, k>> \in open' => <<a, k>> \in open)
    <3> DEFINE b == wrk[u].act
    <3>1. /\ b \in Actions /\ Replayable(b) /\ HoldsAttempt(u, {"prepared", "outcome_unknown"})
          /\ open' \subseteq open \cup {<<b, wrk[u].key>>}
          /\ RowMoves(b, "outcome_unknown", op[b].known) /\ NetSame
      BY <2>5, DispatchEffect
    <3>2. a # b
      <4>1. CASE a = b
        <5>1. AdminHolds({"prepared", "outcome_unknown"})
          BY <1>2, <3>1, <4>1 DEF AdminHolds, RowMoves, HoldsAttempt
        <5> QED
          BY <2>2, <3>1, <4>1, <5>1 DEF Replayable
      <4> QED
        BY <4>1
    <3> QED
      BY <2>1, <3>1, <3>2 DEF RowMoves
  <2>6. ASSUME Settles
        PROVE  op'[a] = op[a] /\ NetSame /\ open' \subseteq open
    <3>1. NetSame /\ open' \subseteq open
      BY <2>6 DEF Settles
    <3>2. op'[a].status \in {"prepared", "outcome_unknown"}
      BY <1>2 DEF AdminHolds
    <3> QED
      BY <2>1, <2>6, <3>1, <3>2 DEF Settles, RowMoves
  <2>7. /\ \A u \in Workers : PrepareAndClaim(u) \/ DispatchStarted(u) =>
             op'[a] = op[a] /\ NetSame /\ (<<a, k>> \in open' => <<a, k>> \in open)
        /\ \A u \in Workers : NotSent(u) \/ LoseAnswer(u) =>
             op'[a] = op[a] /\ NetSame /\ open' = open
    BY <2>4, <2>5, RetryMoves
  <2>8. ASSUME NEW u \in Workers, Send(u)
        PROVE  /\ op'[a] = op[a] /\ open' = open /\ done' = done
               /\ \A m \in net' : m.act = a /\ m.key = k => m \in net \/ <<a, k>> \in open
    <3>1. /\ op' = op /\ open' = open /\ done' = done
          /\ <<wrk[u].act, wrk[u].key>> \in open
          /\ net' = net \cup {[act |-> wrk[u].act, key |-> wrk[u].key, app |-> wrk[u].app,
                               from |-> u, sent |-> "in_window"]}
      BY <2>8, SendMoves
    <3> QED
      BY <3>1
  <2>9. ASSUME NEW m \in net, XeroAccepts(m) \/ XeroRefuses(m)
        PROVE  /\ op'[a] = op[a] /\ open' = open /\ net' \subseteq net
               /\ <<a, k>> \in done' => <<a, k>> \in done \/ (m.act = a /\ m.key = k)
    BY <2>9, AcceptMoves, RefuseMoves
  <2>10. /\ op'[a] = op[a]
         /\ <<a, k>> \in open' => <<a, k>> \in open
         /\ <<a, k>> \in done' => <<a, k>> \in done \/ \E m \in net : m.act = a /\ m.key = k
         /\ \A m \in net' : m.act = a /\ m.key = k => m \in net \/ <<a, k>> \in open
    BY <2>6, <2>7, <2>8, <2>9, KeySteps DEF NetSame
  <2> QED
    BY <1>2, <2>3, <2>10
<1> QED
  BY <1>1, <1>2, VerifiedSteps

LEMMA RequestStep ==
  ASSUME Proved, CallsInv, [Next]_vars
  PROVE  RequestInv'
PROOF
<1> USE DEF Proved, CallsInv
<1> SUFFICES ASSUME NEW m \in net', m.act = "withdraw" PROVE m.app = rec'.remote
  BY DEF RequestInv
<1>1. CASE m \in net
  <2>1. m.app = rec.remote /\ m.app \in AppIds /\ m \in Requests
    BY <1>1 DEF RequestInv, TypeInv, TypeOK, Requests
  <2>2. rec.remote # NoApp
    BY <2>1 DEF AppIds, NoApp
  <2> QED
    BY <2>1, <2>2, RecordKeptStep DEF RecordKept
<1>2. ASSUME NEW w \in Workers, Send(w), m \notin net
      PROVE  m.app = rec'.remote
  <2>1. /\ wrk[w].pc \in Trying /\ rec' = rec
        /\ m.act = wrk[w].act /\ m.app = wrk[w].app
    <3>1. /\ wrk[w].pc = "ready" /\ rec' = rec
          /\ net' = net \cup {[act |-> wrk[w].act, key |-> wrk[w].key, app |-> wrk[w].app,
                               from |-> w, sent |-> "in_window"]}
      BY <1>2, SendMoves
    <3> QED
      BY <1>2, <3>1 DEF Trying
  <2>2. ~Imported /\ ~Creates(w)
    BY <2>1, Addressee DEF AllowedAction, Creates
  <2> QED
    BY <2>1, <2>2, Addressee
<1>3. m \in net \/ \E w \in Workers : Send(w)
  BY PayrollSteps, AcceptMoves, RefuseMoves DEF EditInXero
<1> QED
  BY <1>1, <1>2, <1>3

-----------------------------------------------------------------------------
(* Leaves Xero created *)

LEMMA DoneStays ==
  ASSUME Proved, [Next]_vars
  PROVE  done \subseteq done' /\ (~Imported)' = ~Imported
PROOF
<1>1. done \subseteq done'
  BY PayrollSteps, SendMoves, AcceptMoves, RefuseMoves DEF Proved, EditInXero
<1>2. rec'.source = rec.source
  BY RecordKeptStep DEF Proved, RecordKept
<1> QED
  BY <1>1, <1>2 DEF Imported

(* Nothing of an approval is done or under way while its row is open to a new
   key. *)
LEMMA NothingDone ==
  ASSUME Proved, KeyInv, NEW a \in Actions, op[a].status \notin Processed,
         NEW k, <<a, k>> \in done
  PROVE  FALSE
PROOF
<1>1. k \in Generations
  BY DEF Proved, TypeInv, TypeOK
<1> QED
  BY <1>1 DEF KeyInv, UsedInv

(* An approval recorded as accepted knows the leave its key created. *)
LEMMA AcceptedCreate ==
  ASSUME Proved, CallsInv, CreateInv, ~Imported, NEW x, Accepts("approve", x)
  PROVE  x = op["approve"].key /\ <<"approve", x>> \in done
PROOF
<1> USE DEF Proved, CallsInv, KeyInv
<1>1. ASSUME NEW w \in Workers, RecordAccepted(w), HoldsAttempt(w, {"outcome_unknown"}),
             wrk[w].act = "approve", wrk[w].app = x
      PROVE  x = op["approve"].key /\ <<"approve", x>> \in done
  <2>1. wrk[w].pc = "ok" /\ wrk[w].gen = op["approve"].gen
    BY <1>1, AcceptEffect
  <2>2. wrk[w].key = op["approve"].key
    BY <1>1, <2>1, HeldKey DEF Requesting, Dispatched
  <2>3. wrk[w].app = wrk[w].key
    BY <1>1, <2>1, Addressee DEF Trying
  <2> QED
    BY <1>1, <2>1, <2>2, <2>3 DEF CallInv, Dispatched
<1>2. ASSUME AdminMarkAccepted, adm.act = "approve", adm.app = x
      PROVE  x = op["approve"].key /\ <<"approve", x>> \in done
  <2>1. <<"approve", x>> \in done
    BY <1>2 DEF CreateInv, AdminMarkAccepted
  <2>2. x \in Generations
    BY <2>1 DEF TypeInv, TypeOK
  <2> QED
    BY <2>1, <2>2 DEF UsedInv, Actions
<1> QED
  BY <1>1, <1>2 DEF Accepts

LEMMA ApprovalStep ==
  ASSUME Proved, CallsInv, CreateInv, [Next]_vars, ~Imported,
         op'["approve"].status \in {"provider_accepted", "completed"}
  PROVE  /\ op'["approve"].known = op'["approve"].key
         /\ <<"approve", op'["approve"].key>> \in done'
PROOF
<1> DEFINE row == op["approve"]
<1>1. "approve" \in Actions /\ TypeInv /\ (adm.pc # "idle" => adm.act \in Actions)
  BY AdminActs DEF Actions, Proved
<1>2. done \subseteq done'
  BY DoneStays
<1>3. row.status \in {"provider_accepted", "completed"} =>
        row.known = row.key /\ <<"approve", row.key>> \in done
  BY DEF CreateInv
<1>4. CASE /\ op'["approve"].key = row.key
           /\ op'["approve"].known = row.known
           /\ row.status \in {"provider_accepted", "completed"}
  BY <1>2, <1>3, <1>4
<1>5. ASSUME NEW w \in Workers, PrepareAndClaim(w)
      PROVE  /\ op'["approve"].key = row.key
             /\ op'["approve"].known = row.known
             /\ row.status \in {"provider_accepted", "completed"}
  BY <1>1, <1>5, PrepareEffect
<1>6. ASSUME NEW a \in Actions, NEW x, Accepts(a, x) /\ RowMoves(a, "provider_accepted", x)
      PROVE  /\ op'["approve"].known = op'["approve"].key
             /\ <<"approve", op'["approve"].key>> \in done'
  <2>1. CASE a = "approve"
    BY <1>2, <1>6, <2>1, AcceptedCreate DEF RowMoves
  <2>2. CASE a # "approve"
    BY <1>1, <1>4, <1>6, <2>2 DEF RowMoves
  <2> QED
    BY <2>1, <2>2
<1>7. ASSUME NEW a \in Actions, Completes(a) /\ RowMoves(a, "completed", op[a].known)
      PROVE  /\ op'["approve"].key = row.key
             /\ op'["approve"].known = row.known
             /\ row.status \in {"provider_accepted", "completed"}
  <2>1. op[a].status = "provider_accepted"
    BY <1>7 DEF Completes, HoldsAttempt, AdminHolds
  <2> QED
    BY <1>1, <1>7, <2>1 DEF RowMoves
<1>8. ASSUME NEW a \in Actions,
             \/ RowMoves(a, "outcome_unknown", op[a].known)
             \/ RowMoves(a, "definitive_failure", op[a].known)
      PROVE  /\ op'["approve"].key = row.key
             /\ op'["approve"].known = row.known
             /\ row.status \in {"provider_accepted", "completed"}
  BY <1>1, <1>8 DEF RowMoves
<1> QED
  BY <1>1, <1>4, <1>5, <1>6, <1>7, <1>8, RowSteps

LEMMA AttachStep ==
  ASSUME Proved, CallsInv, CreateInv, [Next]_vars, ~Imported,
         adm'.pc \in {"attaching", "merging"}, adm'.act = "approve"
  PROVE  <<"approve", adm'.app>> \in done'
PROOF
<1> USE DEF Proved
<1>1. done \subseteq done'
  BY DoneStays
<1>2. ASSUME adm.pc \in {"attaching", "merging"}, adm'.act = adm.act, adm'.app = adm.app
      PROVE  <<"approve", adm'.app>> \in done'
  BY <1>1, <1>2 DEF CreateInv
<1>3. CASE adm' = adm
  BY <1>2, <1>3
<1>4. adm' # IdleAdmin
  BY DEF IdleAdmin
<1>5. ASSUME NEW a \in Actions, NEW x \in AppIds, AdminOpen(a, x)
      PROVE  <<"approve", adm'.app>> \in done'
  <2>1. a = "approve" /\ adm'.app = x
    BY <1>5, OpenEffect
  <2>2. app[x] # "absent"
    BY <1>5, <2>1 DEF AdminOpen, Candidate, Transition
  <2>3. x # 0
    BY <2>2 DEF DecisionInv, PayrollInv
  <2>4. x \in Generations
    BY <1>5, <2>3 DEF AppIds, Generations
  <2> QED
    BY <1>1, <2>1, <2>2, <2>4 DEF DecisionInv, PayrollInv
<1>6. ASSUME AdminMarkAccepted, adm' = [adm EXCEPT !.pc = adm.next]
      PROVE  <<"approve", adm'.app>> \in done'
  <2>1. adm.pc = "attaching"
    BY <1>6 DEF AdminMarkAccepted
  <2>2. adm'.act = adm.act /\ adm'.app = adm.app
    BY <1>6 DEF TypeInv, TypeOK, Recoveries
  <2> QED
    BY <1>2, <2>1, <2>2
<1>7. ASSUME AdminMerge, Merges PROVE FALSE
  BY <1>7 DEF AdminMerge, Merges, TypeInv, TypeOK, Recoveries
<1>8. ASSUME NEW a \in Actions, AdminVerify(a) PROVE FALSE
  BY <1>8 DEF AdminVerify, IdleAdmin
<1> QED
  BY <1>3, <1>4, <1>5, <1>6, <1>7, <1>8, RecoverySteps

LEMMA RemoteStep ==
  ASSUME Proved, CallsInv, CreateInv, [Next]_vars, ~Imported, rec'.remote # NoApp
  PROVE  <<"approve", rec'.remote>> \in done'
PROOF
<1> USE DEF Proved
<1>1. done \subseteq done'
  BY DoneStays
<1>2. CASE rec'.remote = rec.remote
  BY <1>1, <1>2 DEF CreateInv
<1>3. ASSUME NEW w \in Workers, HoldsRecord(w), Commit(w)
      PROVE  <<"approve", rec'.remote>> \in done'
  <2>1. CASE Creates(w)
    <3>1. rec'.remote = wrk[w].app /\ wrk[w].act = "approve"
      BY <1>3, <2>1, CommitEffect DEF Creates
    <3>2. wrk[w].pc = "accepted"
      BY <1>3, <3>1, CommitEffect, CommitFacts
    <3>3. op["approve"].status \in {"provider_accepted", "completed"}
          /\ op["approve"].known = wrk[w].app
      BY <1>3, <3>1, <3>2, CommitFacts
    <3> QED
      BY <1>1, <3>1, <3>3 DEF CreateInv
  <2> QED
    BY <1>2, <1>3, <2>1, CommitEffect
<1>4. ASSUME AdminMerge, Merges PROVE <<"approve", rec'.remote>> \in done'
  <2>1. adm.act \in Actions /\ rec'.remote = adm.app /\ adm.pc = "merging"
        /\ rec.remote = adm.remote
    BY <1>4, MergeCommits, LocalEffect DEF AdminMerge, Merges
  <2>2. CASE adm.act = "approve"
    BY <1>1, <2>1, <2>2 DEF CreateInv
  <2>3. CASE adm.act = "withdraw"
    BY <1>2, <2>1, <2>3 DEF DecisionInv, AdminInv
  <2>4. adm.act # "decline"
    BY <2>1 DEF DecisionInv, AdminInv, AllowedAction
  <2> QED
    BY <2>1, <2>2, <2>3, <2>4 DEF Actions
<1> QED
  BY <1>2, <1>3, <1>4, RecordSteps, LocalEffect, PersistEffect DEF SameDecision

LEMMA PostedStep ==
  ASSUME Proved, CallsInv, CreateInv, [Next]_vars
  PROVE  posted' = IF ~Imported /\ <<"approve", op'["approve"].key>> \in done' THEN 1 ELSE 0
PROOF
<1> USE DEF Proved, CallsInv
<1>a. "approve" \in Actions
  BY DEF Actions
<1>i. posted = IF ~Imported /\ <<"approve", op["approve"].key>> \in done THEN 1 ELSE 0
  BY DEF CreateInv
<1>1. CASE \E m \in net : XeroAccepts(m)
  <2>1. PICK m \in net : XeroAccepts(m)
    BY <1>1
  <2>2. m \in Requests /\ op' = op /\ m.act \in Actions /\ m.key \in Generations
    BY <2>1, AcceptMoves DEF Requests
  <2>3. CASE Remembered(m)
    BY <1>i, <2>1, <2>2, <2>3 DEF XeroAccepts
  <2>4. CASE ~Remembered(m)
    <3>1. /\ <<m.act, m.key>> \notin done
          /\ done' = done \cup {<<m.act, m.key>>}
          /\ posted' = IF IsCreate(m) /\ posted < 2 THEN posted + 1 ELSE posted
      BY <2>1, <2>4 DEF XeroAccepts, Remembered, DecisionInv, PayrollInv
    <3>2. m.act = "approve" => (IsCreate(m) <=> ~Imported)
      BY <2>2 DEF IsCreate, DecisionInv, PayrollInv, Generations
    <3>3. m.act = "approve" => m.key = op["approve"].key
      BY <1>a, <2>2 DEF KeyInv, UsedInv, Under
    <3> QED
      BY <1>i, <2>2, <3>1, <3>2, <3>3 DEF IsCreate
  <2> QED
    BY <2>3, <2>4
<1>2. CASE ~\E m \in net : XeroAccepts(m)
  <2>1. done' = done /\ posted' = posted
    BY <1>2, PayrollSteps, SendMoves, RefuseMoves DEF EditInXero
  <2>2. CASE op'["approve"].key = op["approve"].key
    BY <1>i, <2>1, <2>2
  <2>3. CASE op'["approve"].key # op["approve"].key
    <3>1. PICK w \in Workers : PrepareAndClaim(w)
      BY <1>a, <2>3, RowSteps, AdminActs DEF RowMoves
    <3>2. wrk[w].act = "approve" /\ Mints("approve")
      BY <1>a, <2>3, <3>1, PrepareEffect
    <3>3. op["approve"].status \notin Processed
      BY <3>2 DEF Mints, Processed
    <3>4. \A k : <<"approve", k>> \notin done
      BY <1>a, <3>3, NothingDone
    <3> QED
      BY <1>i, <2>1, <3>4
  <2> QED
    BY <2>2, <2>3
<1> QED
  BY <1>1, <1>2

LEMMA CreateStep ==
  ASSUME Proved, CallsInv, CreateInv, [Next]_vars
  PROVE  CreateInv'
PROOF
<1>1. (~Imported)' = ~Imported
  BY DoneStays
<1> QED
  BY <1>1, ApprovalStep, AttachStep, RemoteStep, PostedStep DEF CreateInv

-----------------------------------------------------------------------------
(* Requests decided without Xero *)

(* A row becomes unresolved only under the claim of the handler that opens it. *)
LEMMA UnresolvedSteps ==
  ASSUME Proved, [Next]_vars
  PROVE  \/ \A a \in Actions : op'[a].status \in Unresolved => op[a].status \in Unresolved
         \/ \E w \in Workers : PrepareAndClaim(w)
BY NextKeepsOrPrepares DEF Proved, RowsKept

LEMMA UnsentStep ==
  ASSUME Proved, CallsInv, UnsentInv, [Next]_vars
  PROVE  UnsentInv'
PROOF
<1> USE DEF Proved
<1>1. ASSUME NEW v \in Workers, wrk'[v].pc = "local", rec'.claim = v
      PROVE  NoUnresolved'
  <2>1. CASE AcquireLocalClaim(v)
    BY <2>1 DEF AcquireLocalClaim, NoUnresolved, journalVars
  <2>2. CASE wrk'[v] = wrk[v]
    <3>1. rec.claim = v
      BY <1>1, <2>2, ClaimKept
    <3>2. NoUnresolved
      BY <1>1, <2>2, <3>1 DEF UnsentInv
    <3>3. ASSUME NEW w \in Workers, PrepareAndClaim(w) PROVE FALSE
      BY <1>1, <2>2, <3>3, PrepareEffect
    <3> QED
      BY <3>2, <3>3, UnresolvedSteps DEF NoUnresolved
  <2>3. wrk'[v] = wrk[v] \/ AcquireLocalClaim(v)
    <3>1. wrk'[v] # IdleWorker
      BY <1>1 DEF IdleWorker
    <3>2. ASSUME NEW a \in Offered, Load(v, a) PROVE FALSE
      <4>1. wrk'[v] = [IdleWorker EXCEPT
             !.pc = "loaded", !.act = a, !.status = rec.status,
             !.failed = IF rec.failed = a THEN a ELSE "none",
             !.seq = rec.seq, !.remote = rec.remote]
        BY <3>2 DEF Load, TypeInv, TypeOK
      <4> QED
        BY <1>1, <4>1 DEF IdleWorker
    <3>3. ~PrepareAndClaim(v)
      BY <1>1, PrepareEffect
    <3>4. ~Advances(v)
      BY <1>1 DEF Advances, Trying
    <3>5. ~(RecordAccepted(v) /\ HoldsAttempt(v, {"outcome_unknown"}))
      BY <1>1, AcceptEffect
    <3>6. ~(RecordFailure(v) /\ (HoldsAttempt(v, {"prepared", "outcome_unknown"}) \/ Creates(v)))
      BY <1>1, FailEffect DEF Persisting
    <3>7. ASSUME Commit(v), HoldsRecord(v), At(v, "accepted") PROVE FALSE
      <4>1. wrk'[v] = [IdleWorker EXCEPT !.pc = "effects", !.act = wrk[v].act,
                                         !.gen = wrk[v].gen]
        BY <3>7 DEF Commit, TypeInv, TypeOK
      <4> QED
        BY <1>1, <4>1 DEF IdleWorker
    <3> QED
      BY <3>1, <3>2, <3>3, <3>4, <3>5, <3>6, <3>7, HandlerSteps
  <2> QED
    BY <2>1, <2>2, <2>3
<1>2. ASSUME rec'.status \in {"declined", "withdrawn"}, rec'.remote = NoApp
      PROVE  op'["approve"].status \notin Unresolved
  <2>a. "approve" \in Actions
    BY DEF Actions
  <2>1. CASE SameDecision
    <3>1. rec.status \in {"declined", "withdrawn"} /\ op["approve"].status \notin Unresolved
      BY <1>2, <2>1 DEF SameDecision, UnsentInv
    <3>2. ASSUME NEW w \in Workers, PrepareAndClaim(w)
          PROVE  op'["approve"].status \notin Unresolved
      <4>1. wrk[w].act \in Actions /\ wrk[w].pc = "loaded" /\ rec.status = wrk[w].status
        BY <3>2, PrepareEffect DEF Claimable
      <4>2. wrk[w].act # "approve"
        BY <3>1, <4>1 DEF DecisionInv, WorkInv, LoadInv, Deciding
      <4> QED
        BY <2>a, <3>1, <3>2, <4>2, PrepareEffect
    <3> QED
      BY <2>a, <3>1, <3>2, UnresolvedSteps
  <2>2. ~(Submit \/ RevertApprovalAttempt)
    BY <1>2, LocalEffect
  <2>3. ASSUME NEW w \in Workers, HoldsRecord(w), PersistFailure(w) PROVE FALSE
    BY <1>2, <2>3, PersistEffect
  <2>4. ASSUME NEW w \in Workers, HoldsRecord(w), Commit(w)
        PROVE  op'["approve"].status \notin Unresolved
    <3>1. wrk[w].act \in {"decline", "withdraw"}
      BY <1>2, <2>4, CommitEffect DEF Decided, Actions
    <3>2. rec.remote = NoApp /\ rec.remote = wrk[w].remote
      BY <1>2, <2>4, <3>1, CommitEffect, CommitFacts DEF Creates
    <3>3. wrk[w].pc # "accepted"
      <4>1. CASE wrk[w].pc = "accepted" /\ wrk[w].act = "decline"
        <5>1. Imported
          BY <2>4, <4>1, CommitFacts
        <5> QED
          BY <3>2, <5>1 DEF DecisionInv, RecordInv, NoApp
      <4>2. CASE wrk[w].pc = "accepted" /\ wrk[w].act = "withdraw"
        BY <3>2, <4>2 DEF DecisionInv, WorkInv, AttemptInv, Journalling
      <4> QED
        BY <3>1, <4>1, <4>2
    <3>4. wrk[w].pc = "local" /\ rec.claim = w /\ op' = op
      BY <2>4, <3>3, CommitEffect DEF HoldsRecord, Commit, journalVars
    <3> QED
      BY <2>a, <3>4 DEF UnsentInv, NoUnresolved
  <2>5. ASSUME AdminMerge, Merges PROVE FALSE
    <3>1. rec'.remote = adm.app /\ adm.app \in AppIds
      BY <2>5, MergeCommits, LocalEffect
    <3> QED
      BY <1>2, <3>1 DEF AppIds, NoApp
  <2> QED
    BY <2>1, <2>2, <2>3, <2>4, <2>5, RecordSteps
<1> QED
  BY <1>1, <1>2 DEF UnsentInv

-----------------------------------------------------------------------------
LEMMA InitLeaveInv == Init => LeaveInv
PROOF
<1> SUFFICES ASSUME Init PROVE LeaveInv
  OBVIOUS
<1>1. /\ net = {} /\ done = {} /\ open = {} /\ posted = 0
      /\ \A w \in Workers : wrk[w].pc = "idle"
      /\ adm.pc = "idle"
      /\ \A a \in Actions : op[a].status = "none" /\ op[a].key = 0
      /\ rec.status \in {"draft", "submitted"}
      /\ ~Imported => rec.remote = NoApp
  BY DEF Init, IdleWorker, IdleAdmin
<1>2. "approve" \in Actions
  BY DEF Actions
<1>3. UsedInv
  BY <1>1 DEF UsedInv, Under
<1>4. (\A w \in Workers : CallInv(w)) /\ SoleInv
  BY <1>1 DEF CallInv, SoleInv, Alone, Requesting, Dispatched
<1>5. EvidenceInv /\ RequestInv
  BY <1>1 DEF EvidenceInv, RequestInv
<1>6. CreateInv
  BY <1>1, <1>2 DEF CreateInv
<1>7. UnsentInv
  BY <1>1 DEF UnsentInv
<1> QED
  BY <1>3, <1>4, <1>5, <1>6, <1>7 DEF LeaveInv, CallsInv, KeyInv

(* What the theorems before say of every behaviour. *)
LEMMA ProvedAlways == Spec => []Proved
PROOF
<1>1. Init /\ [][Next]_vars => []TypeInv
  <2>1. TypeInv /\ [Next]_vars => TypeInv'
    BY TypeStep
  <2> QED
    BY <2>1, InitTypeInv, PTL
<1> QED
  BY <1>1, DecisionInvariant, OneUnresolvedRow, AttemptsFenced, PTL DEF Spec, Proved

(* When administrators give evidence only after waiting, a key of an operation
   is processed, sent, given up and closed in step with its journal row, in
   every behaviour. *)
THEOREM LeaveInvariant ==
  ASSUME CarefulRecovery PROVE Spec => []LeaveInv
PROOF
<1>1. LeaveInv /\ Proved /\ [Next]_vars => LeaveInv'
  BY KeyStep, SoleStep, EvidenceStep, RequestStep, CreateStep, UnsentStep
     DEF LeaveInv, CallsInv
<1> QED
  BY <1>1, InitLeaveInv, ProvedAlways, PTL DEF Spec

(* What an approval Xero has processed says of its row and the record. *)
LEMMA ProcessedApproval ==
  ASSUME Proved, LeaveInv, ~Imported, NEW k \in Generations,
         <<"approve", k>> \in done \/ Under("approve", k)
  PROVE  /\ k = op["approve"].key /\ op["approve"].status \in Processed
         /\ op["approve"].status = "completed" => rec.remote = k
PROOF
<1>1. "approve" \in Actions
  BY DEF Actions
<1>2. k = op["approve"].key /\ op["approve"].status \in Processed
  BY <1>1 DEF LeaveInv, CallsInv, KeyInv, UsedInv
<1>3. op["approve"].status = "completed" => op["approve"].known = k
  BY <1>2 DEF LeaveInv, CreateInv
<1>4. op["approve"].status = "completed" => CommittedAs("approve", op["approve"].known)
  BY <1>1 DEF Proved, DecisionInv, CommitInv
<1> QED
  BY <1>2, <1>3, <1>4 DEF CommittedAs

LEMMA LeaveFacts ==
  ASSUME Proved, LeaveInv
  PROVE  OneLeavePerRequest /\ NoLostLeave /\ NoLateLeave
PROOF
<1>a. "approve" \in Actions
  BY DEF Actions
<1>1. OneLeavePerRequest
  BY DEF LeaveInv, CreateInv, OneLeavePerRequest
<1>2. NoLostLeave
  <2> SUFFICES ASSUME NEW k \in Generations, app[k] # "absent"
               PROVE  \/ rec.remote = k
                      \/ /\ op["approve"].key = k
                         /\ op["approve"].status \in Recoverable
    BY DEF NoLostLeave
  <2>1. ~Imported /\ <<"approve", k>> \in done
    BY DEF Proved, DecisionInv, PayrollInv
  <2> QED
    BY <2>1, ProcessedApproval DEF Processed, Recoverable
<1>3. NoLateLeave
  <2> SUFFICES ASSUME rec.status \in {"declined", "withdrawn"}, rec.remote = NoApp
               PROVE  /\ posted = 0
                      /\ \A m \in net : ~IsCreate(m)
                      /\ op["approve"].status \notin Unresolved
    BY DEF NoLateLeave
  <2>1. op["approve"].status \notin Unresolved
    BY DEF LeaveInv, UnsentInv
  <2>2. ~Imported
    BY DEF Proved, DecisionInv, RecordInv, NoApp
  <2>3. ASSUME NEW k \in Generations, <<"approve", k>> \in done \/ Under("approve", k)
        PROVE  FALSE
    <3>1. rec.remote = k
      BY <2>1, <2>2, <2>3, ProcessedApproval DEF Processed, Unresolved
    <3> QED
      BY <3>1 DEF Generations, NoApp
  <2>4. posted = 0
    <3>1. <<"approve", op["approve"].key>> \in done => op["approve"].key \in Generations
      BY DEF Proved, TypeInv, TypeOK
    <3> QED
      BY <2>3, <3>1 DEF LeaveInv, CreateInv
  <2>5. ASSUME NEW m \in net, IsCreate(m) PROVE FALSE
    <3>1. m.act = "approve" /\ m.key \in Generations
      BY <2>5 DEF IsCreate, Proved, TypeInv, TypeOK, Requests
    <3> QED
      BY <2>3, <3>1 DEF Under
  <2> QED
    BY <2>1, <2>4, <2>5
<1> QED
  BY <1>1, <1>2, <1>3

(* However often an approval is sent, retried, replayed after a lost lease or
   resolved by an administrator, payroll holds one leave for the request. *)
THEOREM OneLeaveHolds ==
  ASSUME CarefulRecovery PROVE Spec => []OneLeavePerRequest
BY LeaveInvariant, ProvedAlways, LeaveFacts, PTL

(* A leave that exists in payroll is on the record, or the approval journal
   still says it is unresolved under the key that created it. *)
THEOREM NoLostLeaveHolds ==
  ASSUME CarefulRecovery PROVE Spec => []NoLostLeave
BY LeaveInvariant, ProvedAlways, LeaveFacts, PTL

(* A request declined or withdrawn without ever having reached Xero stays out
   of payroll: no approval under way can still create it. *)
THEOREM NoLateLeaveHolds ==
  ASSUME CarefulRecovery PROVE Spec => []NoLateLeave
BY LeaveInvariant, ProvedAlways, LeaveFacts, PTL
-----------------------------------------------------------------------------
(* Decisions in payroll *)

Done(a) == \E k \in Generations : <<a, k>> \in done

(* While only the program decides in Xero, the state of an application follows
   from the requests Xero has processed. *)
AppInv ==
  /\ Imported =>
       /\ app[0] = IF Done("decline") THEN "rejected"
                   ELSE IF Done("approve") THEN "scheduled" ELSE "requested"
       /\ ~(Done("approve") /\ Done("decline"))
       /\ rec.status = "approved" => Done("approve")
       /\ rec.status = "declined" => Done("decline")
  /\ ~Imported =>
       /\ \A k \in Generations :
            app[k] = IF <<"approve", k>> \notin done THEN "absent"
                     ELSE IF Done("withdraw") THEN "rejected" ELSE "scheduled"
       /\ rec.remote # NoApp /\ rec.status \in {"declined", "withdrawn"} => Done("withdraw")

(* An operation recorded as accepted, or that the administrator is attaching,
   has been processed. *)
DoneInv ==
  /\ \A a \in Actions : op[a].status \in {"provider_accepted", "completed"} =>
       <<a, op[a].key>> \in done
  /\ adm.pc \in {"attaching", "merging"} => Done(adm.act)

(* Nobody decides an application in Xero's own screens. *)
LEMMA AppChanges ==
  ASSUME TypeInv, [Next]_vars, ~PayrollEdits
  PROVE  \/ app' = app /\ done' = done
         \/ \E m \in net :
              /\ XeroAccepts(m) /\ ~Remembered(m) /\ Applicable(m)
              /\ app' = [app EXCEPT ![m.app] = Effect(m)]
              /\ done' = done \cup {<<m.act, m.key>>}
PROOF
<1>1. ASSUME NEW m \in net, XeroAccepts(m), ~(app' = app /\ done' = done)
      PROVE  /\ ~Remembered(m) /\ Applicable(m)
             /\ app' = [app EXCEPT ![m.app] = Effect(m)]
             /\ done' = done \cup {<<m.act, m.key>>}
  BY <1>1 DEF XeroAccepts
<1> QED
  BY <1>1, PayrollSteps, SendMoves, RefuseMoves DEF EditInXero

(* A row Xero has processed a request of. *)
LEMMA DoneRow ==
  ASSUME Proved, LeaveInv, NEW a \in Actions, Done(a)
  PROVE  /\ op[a].status \in Processed
         /\ <<a, op[a].key>> \in done
         /\ op[a].status # "none"
BY DEF Done, LeaveInv, CallsInv, KeyInv, UsedInv, Processed

(* A withdrawal Xero has processed was of the leave the approval created. *)
LEMMA WithdrawnLeave ==
  ASSUME Proved, LeaveInv, Done("withdraw")
  PROVE  /\ ~Imported /\ rec.remote \in Generations
         /\ <<"approve", rec.remote>> \in done
         /\ rec.remote = op["approve"].key
PROOF
<1>1. "withdraw" \in Actions /\ "approve" \in Actions
  BY DEF Actions
<1>2. ~Imported /\ rec.remote # NoApp
  BY <1>1, DoneRow DEF Proved, DecisionInv, RowInv, AllowedAction
<1>3. <<"approve", rec.remote>> \in done
  BY <1>2 DEF LeaveInv, CreateInv
<1>4. rec.remote \in Generations
  BY <1>3 DEF Proved, TypeInv, TypeOK
<1> QED
  BY <1>1, <1>2, <1>3, <1>4 DEF LeaveInv, CallsInv, KeyInv, UsedInv

LEMMA DoneGrows ==
  ASSUME Proved, [Next]_vars, NEW a \in Actions, Done(a)
  PROVE  Done(a)'
BY DoneStays DEF Done

(* Rows recorded as accepted have been processed. *)
LEMMA RowDoneStep ==
  ASSUME Proved, LeaveInv, DoneInv, [Next]_vars, NEW a \in Actions,
         op'[a].status \in {"provider_accepted", "completed"}
  PROVE  <<a, op'[a].key>> \in done'
PROOF
<1> DEFINE row == op[a]
<1>1. TypeInv /\ (adm.pc # "idle" => adm.act \in Actions) /\ done \subseteq done'
  BY AdminActs, DoneStays DEF Proved
<1>2. row.status \in {"provider_accepted", "completed"} => <<a, row.key>> \in done
  BY DEF DoneInv
<1>3. CASE op'[a].key = row.key /\ row.status \in {"provider_accepted", "completed"}
  BY <1>1, <1>2, <1>3
<1>4. ASSUME NEW w \in Workers, PrepareAndClaim(w)
      PROVE  op'[a].key = row.key /\ row.status \in {"provider_accepted", "completed"}
  BY <1>1, <1>4, PrepareEffect
<1>5. ASSUME NEW b \in Actions, NEW x, Accepts(b, x) /\ RowMoves(b, "provider_accepted", x)
      PROVE  <<a, op'[a].key>> \in done'
  <2>1. CASE b = a
    <3>1. ASSUME NEW w \in Workers, RecordAccepted(w), HoldsAttempt(w, {"outcome_unknown"}),
                 wrk[w].act = a
          PROVE  <<a, row.key>> \in done
      <4>1. wrk[w].pc = "ok" /\ wrk[w].gen = row.gen
        BY <1>1, <3>1, AcceptEffect
      <4>2. wrk[w].key = row.key
        BY <3>1, <4>1, HeldKey DEF Requesting, Dispatched
      <4> QED
        BY <3>1, <4>1, <4>2 DEF LeaveInv, CallsInv, KeyInv, CallInv, Dispatched
    <3>2. ASSUME AdminMarkAccepted, adm.act = a PROVE <<a, row.key>> \in done
      <4>1. Done(a)
        BY <3>2 DEF DoneInv, AdminMarkAccepted
      <4> QED
        BY <4>1, DoneRow
    <3> QED
      BY <1>1, <1>5, <2>1, <3>1, <3>2 DEF Accepts, RowMoves
  <2>2. CASE b # a
    BY <1>3, <1>5, <2>2 DEF RowMoves
  <2> QED
    BY <2>1, <2>2
<1>6. ASSUME NEW b \in Actions, Completes(b) /\ RowMoves(b, "completed", op[b].known)
      PROVE  op'[a].key = row.key /\ row.status \in {"provider_accepted", "completed"}
  <2>1. op[b].status = "provider_accepted"
    BY <1>6 DEF Completes, HoldsAttempt, AdminHolds
  <2> QED
    BY <1>6, <2>1 DEF RowMoves
<1>7. ASSUME NEW b \in Actions,
             \/ RowMoves(b, "outcome_unknown", op[b].known)
             \/ RowMoves(b, "definitive_failure", op[b].known)
      PROVE  op'[a].key = row.key /\ row.status \in {"provider_accepted", "completed"}
  BY <1>7 DEF RowMoves
<1> QED
  BY <1>1, <1>3, <1>4, <1>5, <1>6, <1>7, RowSteps

(* The administrator attaches a candidate only when the state of its
   application shows that the operation was processed. *)
LEMMA CandidateDone ==
  ASSUME Proved, LeaveInv, AppInv, NEW a \in Actions, NEW x \in AppIds,
         RecoveryOperation(a), Candidate(a, x)
  PROVE  Done(a)
PROOF
<1>1. /\ op[a].status # "none"
      /\ AllowedAction(a)
      /\ Imported => op[a].known = 0
      /\ a = "withdraw" => op[a].known = rec.remote /\ rec.remote # NoApp
  BY DEF RecoveryOperation, Recoverable, Proved, DecisionInv, RowInv
<1>2. CASE Imported
  <2>1. a \in {"approve", "decline"} /\ Transition(a)
    BY <1>1, <1>2 DEF AllowedAction, Actions, Transition, NoApp
  <2>2. app[0] = IF a = "approve" THEN "scheduled" ELSE "rejected"
    BY <1>1, <1>2, <2>1 DEF Candidate
  <2>3. app[0] = IF Done("decline") THEN "rejected"
                 ELSE IF Done("approve") THEN "scheduled" ELSE "requested"
    BY <1>2 DEF AppInv
  <2> QED
    BY <2>1, <2>2, <2>3
<1>3. CASE ~Imported /\ a = "withdraw"
  <2>1. x = rec.remote /\ app[x] = "rejected"
    BY <1>1, <1>3 DEF Candidate, Transition
  <2>2. x \in Generations
    BY <1>1, <1>3, <2>1 DEF LeaveInv, CreateInv, Proved, TypeInv, TypeOK
  <2> QED
    BY <1>3, <2>1, <2>2 DEF AppInv
<1>4. CASE ~Imported /\ a = "approve"
  <2>1. app[x] # "absent"
    BY <1>4 DEF Candidate, Transition
  <2>2. x # 0
    BY <1>4, <2>1 DEF Proved, DecisionInv, PayrollInv
  <2>3. x \in Generations
    BY <2>2 DEF AppIds, Generations
  <2> QED
    BY <1>4, <2>1, <2>3 DEF Done, Proved, DecisionInv, PayrollInv
<1> QED
  BY <1>1, <1>2, <1>3, <1>4 DEF Actions, AllowedAction

LEMMA AdminDoneStep ==
  ASSUME Proved, LeaveInv, AppInv, DoneInv, [Next]_vars,
         adm'.pc \in {"attaching", "merging"}
  PROVE  Done(adm.act)'
PROOF
<1> USE DEF Proved
<1>1. ASSUME adm.pc \in {"attaching", "merging"}, adm'.act = adm.act
      PROVE  adm'.act \in Actions /\ \E k \in Generations : <<adm'.act, k>> \in done'
  <2>1. Done(adm.act) /\ adm.act \in Actions
    BY <1>1, AdminActs DEF DoneInv
  <2> QED
    BY <1>1, <2>1, DoneStays DEF Done
<1>2. adm' # IdleAdmin
  BY DEF IdleAdmin
<1>3. ASSUME NEW a \in Actions, NEW x \in AppIds, AdminOpen(a, x)
      PROVE  adm'.act \in Actions /\ \E k \in Generations : <<adm'.act, k>> \in done'
  <2>1. adm'.act = a /\ Done(a)
    BY <1>3, OpenEffect, CandidateDone
  <2> QED
    BY <2>1, DoneStays DEF Done
<1>4. ASSUME AdminMarkAccepted, adm' = [adm EXCEPT !.pc = adm.next]
      PROVE  adm'.act \in Actions /\ \E k \in Generations : <<adm'.act, k>> \in done'
  <2>1. adm.pc = "attaching"
    BY <1>4 DEF AdminMarkAccepted
  <2>2. adm'.act = adm.act
    BY <1>4 DEF TypeInv, TypeOK, Recoveries
  <2> QED
    BY <1>1, <2>1, <2>2
<1>5. ASSUME AdminMerge, Merges PROVE FALSE
  BY <1>5 DEF AdminMerge, Merges, TypeInv, TypeOK, Recoveries
<1>6. ASSUME NEW a \in Actions, AdminVerify(a) PROVE FALSE
  BY <1>6 DEF AdminVerify, IdleAdmin
<1>7. CASE adm' = adm
  BY <1>1, <1>7 DEF Done
<1> QED
  BY <1>2, <1>3, <1>4, <1>5, <1>6, <1>7, RecoverySteps DEF Done

LEMMA DoneStep ==
  ASSUME Proved, LeaveInv, AppInv, DoneInv, [Next]_vars
  PROVE  DoneInv'
BY RowDoneStep, AdminDoneStep DEF DoneInv

(* What a commit and a merge decide has been processed. *)
LEMMA CommittedDone ==
  ASSUME Proved, DoneInv, NEW w \in Workers, HoldsRecord(w), Commit(w)
  PROVE  \/ Done(wrk[w].act)
         \/ ~Imported /\ wrk[w].act # "approve" /\ rec.remote = NoApp
PROOF
<1>1. wrk[w].act \in Actions /\ wrk[w].pc \in {"accepted", "local"}
  BY CommitEffect DEF Proved
<1>2. CASE wrk[w].pc = "accepted"
  <2>1. op[wrk[w].act].status \in {"provider_accepted", "completed"}
    BY <1>2, CommitFacts DEF Proved
  <2>2. <<wrk[w].act, op[wrk[w].act].key>> \in done
    BY <1>1, <2>1 DEF DoneInv
  <2>3. op[wrk[w].act].key \in Generations
    BY <2>2 DEF Proved, TypeInv, TypeOK
  <2> QED
    BY <2>2, <2>3 DEF Done
<1>3. CASE wrk[w].pc = "local"
  BY <1>3, CommitFacts DEF Proved
<1> QED
  BY <1>1, <1>2, <1>3

LEMMA ImportedApp ==
  ASSUME Proved, LeaveInv, AppInv, DoneInv, [Next]_vars, ~PayrollEdits, Imported
  PROVE  /\ app'[0] = IF Done("decline")' THEN "rejected"
                      ELSE IF Done("approve")' THEN "scheduled" ELSE "requested"
         /\ ~(Done("approve")' /\ Done("decline")')
PROOF
<1> USE DEF Proved
<1>i. /\ app[0] = IF Done("decline") THEN "rejected"
                  ELSE IF Done("approve") THEN "scheduled" ELSE "requested"
      /\ ~(Done("approve") /\ Done("decline"))
  BY DEF AppInv
<1>1. CASE app' = app /\ done' = done
  BY <1>i, <1>1 DEF Done
<1>2. ASSUME NEW m \in net, ~Remembered(m), Applicable(m),
             app' = [app EXCEPT ![m.app] = Effect(m)],
             done' = done \cup {<<m.act, m.key>>}
      PROVE  /\ app'[0] = IF Done("decline")' THEN "rejected"
                          ELSE IF Done("approve")' THEN "scheduled" ELSE "requested"
             /\ ~(Done("approve")' /\ Done("decline")')
  <2>1. /\ m.app = 0 /\ m.act \in {"approve", "decline"} /\ m.key \in Generations
        /\ app \in [AppIds -> AppStates] /\ 0 \in AppIds
    BY GenerationAssumption DEF DecisionInv, PayrollInv, TypeInv, TypeOK, Requests, Actions,
       AllowedAction, AppIds
  <2>2. ~IsCreate(m)
    BY <2>1 DEF IsCreate, Generations
  <2>3. app[0] = "requested"
    BY <1>2, <2>1, <2>2 DEF Applicable
  <2>4. ~Done("approve") /\ ~Done("decline")
    BY <1>i, <2>3
  <2>5. app'[0] = IF m.act = "approve" THEN "scheduled" ELSE "rejected"
    BY <1>2, <2>1 DEF Effect
  <2>6. Done(m.act)' /\ \A a \in {"approve", "decline"} \ {m.act} : ~Done(a)'
    BY <1>2, <2>1, <2>4 DEF Done
  <2> QED
    BY <2>1, <2>5, <2>6
<1> QED
  BY <1>1, <1>2, AppChanges

LEMMA LocalApp ==
  ASSUME Proved, LeaveInv, AppInv, [Next]_vars, ~PayrollEdits, ~Imported,
         NEW k \in Generations
  PROVE  app'[k] = IF <<"approve", k>> \notin done' THEN "absent"
                   ELSE IF Done("withdraw")' THEN "rejected" ELSE "scheduled"
PROOF
<1> USE DEF Proved
<1>a. "approve" \in Actions /\ k \in AppIds
  BY DEF Actions, Generations, AppIds
<1>i. app[k] = IF <<"approve", k>> \notin done THEN "absent"
               ELSE IF Done("withdraw") THEN "rejected" ELSE "scheduled"
  BY DEF AppInv
<1>1. CASE app' = app /\ done' = done
  BY <1>i, <1>1 DEF Done
<1>2. ASSUME NEW m \in net, ~Remembered(m), Applicable(m),
             app' = [app EXCEPT ![m.app] = Effect(m)],
             done' = done \cup {<<m.act, m.key>>}
      PROVE  app'[k] = IF <<"approve", k>> \notin done' THEN "absent"
                       ELSE IF Done("withdraw")' THEN "rejected" ELSE "scheduled"
  <2>1. /\ m.app \in Generations /\ m.act \in {"approve", "withdraw"}
        /\ m.act = "approve" => m.app = m.key
        /\ m.key \in Generations /\ <<m.act, m.key>> \notin done
        /\ app \in [AppIds -> AppStates]
    BY <1>2 DEF DecisionInv, PayrollInv, TypeInv, TypeOK, Requests, Actions, AllowedAction,
       Remembered
  <2>2. Under(m.act, m.key)
    BY DEF Under
  <2>3. CASE m.act = "approve"
    <3>1. m.key = op["approve"].key
      BY <1>a, <2>1, <2>2, <2>3 DEF LeaveInv, CallsInv, KeyInv, UsedInv
    <3>2. ~Done("withdraw")
      BY <2>1, <2>3, <3>1, WithdrawnLeave
    <3>3. ~Done("withdraw")'
      BY <1>2, <2>3, <3>2 DEF Done
    <3>4. CASE k = m.key
      BY <1>2, <1>a, <2>1, <2>3, <3>3, <3>4 DEF Effect
    <3>5. CASE k # m.key
      BY <1>2, <1>a, <1>i, <2>1, <2>3, <3>2, <3>3, <3>5
    <3> QED
      BY <3>4, <3>5
  <2>4. CASE m.act = "withdraw"
    <3>1. app[m.app] # "absent"
      BY <1>2, <2>4 DEF Applicable, IsCreate
    <3>2. <<"approve", m.app>> \in done
      BY <2>1, <3>1 DEF DecisionInv, PayrollInv
    <3>3. m.app = op["approve"].key
      BY <1>a, <2>1, <3>2 DEF LeaveInv, CallsInv, KeyInv, UsedInv
    <3>4. <<"approve", k>> \in done => k = m.app
      BY <1>a, <3>3 DEF LeaveInv, CallsInv, KeyInv, UsedInv
    <3>5. Done("withdraw")' /\ (<<"approve", k>> \in done' <=> <<"approve", k>> \in done)
      BY <1>2, <2>1, <2>4 DEF Done
    <3>6. CASE k = m.app
      BY <1>2, <1>a, <2>1, <2>4, <3>2, <3>5, <3>6 DEF Effect
    <3>7. CASE k # m.app
      BY <1>2, <1>a, <1>i, <2>1, <3>4, <3>5, <3>7
    <3> QED
      BY <3>6, <3>7
  <2> QED
    BY <2>1, <2>3, <2>4
<1> QED
  BY <1>1, <1>2, AppChanges

(* A decision on the record that payroll has to know of has been processed. *)
LEMMA DecidedStep ==
  ASSUME Proved, LeaveInv, AppInv, DoneInv, [Next]_vars
  PROVE  /\ Imported =>
              /\ rec'.status = "approved" => Done("approve")
              /\ rec'.status = "declined" => Done("decline")
         /\ ~Imported /\ rec'.remote # NoApp /\ rec'.status \in {"declined", "withdrawn"} =>
              Done("withdraw")
PROOF
<1> USE DEF Proved
<1>i. /\ Imported =>
           /\ rec.status = "approved" => Done("approve")
           /\ rec.status = "declined" => Done("decline")
      /\ ~Imported /\ rec.remote # NoApp /\ rec.status \in {"declined", "withdrawn"} =>
           Done("withdraw")
  BY DEF AppInv
<1> DEFINE Goal ==
         /\ Imported =>
              /\ rec'.status = "approved" => Done("approve")
              /\ rec'.status = "declined" => Done("decline")
         /\ ~Imported /\ rec'.remote # NoApp /\ rec'.status \in {"declined", "withdrawn"} =>
              Done("withdraw")
<1>1. CASE SameDecision
  BY <1>i, <1>1 DEF SameDecision
<1>2. CASE Submit \/ RevertApprovalAttempt
  BY <1>2, LocalEffect
<1>3. ASSUME NEW w \in Workers, HoldsRecord(w), PersistFailure(w) PROVE Goal
  BY <1>3, PersistEffect, PersistFacts DEF AllowedAction
<1>4. ASSUME NEW w \in Workers, HoldsRecord(w), Commit(w) PROVE Goal
  <2>1. /\ wrk[w].act \in Actions /\ rec'.status = Decided[wrk[w].act]
        /\ rec'.remote = IF Creates(w) THEN wrk[w].app ELSE rec.remote
    BY <1>4, CommitEffect
  <2>2. CASE Done(wrk[w].act)
    <3>1. /\ wrk[w].act = "decline" /\ Imported => Done("decline")
          /\ wrk[w].act = "approve" => Done("approve")
          /\ wrk[w].act = "withdraw" => Done("withdraw") /\ ~Imported
      BY <1>4, <2>2, CommitFacts
    <3>2. wrk[w].act = "decline" => Imported
      BY <2>2, DoneRow, <2>1 DEF DecisionInv, RowInv, AllowedAction
    <3> QED
      BY <2>1, <3>1, <3>2 DEF Actions, Decided
  <2>3. CASE ~Imported /\ wrk[w].act # "approve" /\ rec.remote = NoApp
    BY <2>1, <2>3 DEF Creates
  <2> QED
    BY <1>4, <2>2, <2>3, CommittedDone
<1>5. ASSUME AdminMerge, Merges PROVE Goal
  <2>1. /\ adm.act \in Actions /\ adm.pc = "merging" /\ Done(adm.act)
        /\ rec'.status = adm.target
    BY <1>5, MergeCommits, LocalEffect DEF AdminMerge, DoneInv
  <2>2. /\ AllowedAction(adm.act)
        /\ ~Imported => adm.app \in Generations
        /\ Imported \/ adm.act = "withdraw" => adm.target = Decided[adm.act]
        /\ ~Imported /\ adm.act = "approve" =>
             adm.target = "approved" \/ (adm.target = "declined" /\ app[adm.app] = "rejected")
    BY <2>1 DEF DecisionInv, AdminInv
  <2>3. CASE Imported \/ adm.act = "withdraw"
    BY <2>1, <2>2, <2>3 DEF Decided, Actions, AllowedAction
  <2>4. CASE ~Imported /\ adm.act = "approve"
    BY <2>1, <2>2, <2>4 DEF AppInv
  <2> QED
    BY <2>1, <2>2, <2>3, <2>4 DEF Actions, AllowedAction
<1> QED
  BY <1>1, <1>2, <1>3, <1>4, <1>5, RecordSteps

LEMMA AppStep ==
  ASSUME Proved, LeaveInv, AppInv, DoneInv, [Next]_vars, ~PayrollEdits
  PROVE  AppInv'
PROOF
<1>1. Imported' <=> Imported
  BY DoneStays
<1>2. \A a \in {"approve", "decline", "withdraw"} : Done(a) => Done(a)'
  BY DoneGrows DEF Actions
<1>3. Imported =>
        /\ app'[0] = IF Done("decline")' THEN "rejected"
                     ELSE IF Done("approve")' THEN "scheduled" ELSE "requested"
        /\ ~(Done("approve")' /\ Done("decline")')
  BY ImportedApp
<1>4. ~Imported => \A k \in Generations :
        app'[k] = IF <<"approve", k>> \notin done' THEN "absent"
                  ELSE IF Done("withdraw")' THEN "rejected" ELSE "scheduled"
  BY LocalApp
<1>5. /\ Imported =>
           /\ rec'.status = "approved" => Done("approve")'
           /\ rec'.status = "declined" => Done("decline")'
      /\ ~Imported /\ rec'.remote # NoApp /\ rec'.status \in {"declined", "withdrawn"} =>
           Done("withdraw")'
  BY <1>2, DecidedStep
<1> QED
  BY <1>1, <1>3, <1>4, <1>5 DEF AppInv

LEMMA InitPayroll == Init => AppInv /\ DoneInv
PROOF
<1> SUFFICES ASSUME Init PROVE AppInv /\ DoneInv
  OBVIOUS
<1>1. /\ done = {} /\ adm.pc = "idle"
      /\ \A a \in Actions : op[a].status = "none"
      /\ rec.status \in {"draft", "submitted"}
  BY DEF Init, IdleAdmin
<1>2. /\ \A k \in Generations : app[k] = "absent"
      /\ Imported => app[0] = "requested"
  BY GenerationAssumption DEF Init, AppIds, Generations
<1>3. \A a \in Actions : ~Done(a)
  BY <1>1 DEF Done
<1>4. ~Done("approve") /\ ~Done("decline") /\ ~Done("withdraw")
  BY <1>3 DEF Actions
<1>5. AppInv
  BY <1>1, <1>2, <1>4 DEF AppInv
<1> QED
  BY <1>1, <1>5 DEF DoneInv

(* While only the program decides in Xero, the state of every application
   follows from the requests Xero has processed. *)
THEOREM PayrollInvariant ==
  ASSUME CarefulRecovery, ~PayrollEdits PROVE Spec => [](AppInv /\ DoneInv)
PROOF
<1>1. AppInv /\ DoneInv /\ LeaveInv /\ Proved /\ [Next]_vars => AppInv' /\ DoneInv'
  BY AppStep, DoneStep
<1> QED
  BY <1>1, InitPayroll, LeaveInvariant, ProvedAlways, PTL DEF Spec

LEMMA PayrollFacts ==
  ASSUME Proved, LeaveInv, AppInv
  PROVE  DecisionMatchesPayroll
PROOF
<1> USE DEF Proved
<1> SUFFICES ASSUME NoUnresolved, rec.remote # NoApp
             PROVE  CASE rec.status = "approved" -> app[rec.remote] = "scheduled"
                      [] rec.status \in {"declined", "withdrawn"} ->
                           app[rec.remote] = "rejected"
                      [] OTHER ->
                           app[rec.remote] = IF Imported THEN "requested" ELSE "scheduled"
  BY DEF DecisionMatchesPayroll
<1>1. ASSUME NEW a \in Actions, Done(a) PROVE CommittedAs(a, op[a].known)
  <2>1. op[a].status = "completed"
    BY <1>1, DoneRow DEF NoUnresolved, Processed, Unresolved
  <2> QED
    BY <2>1 DEF DecisionInv, CommitInv
<1>2. {"approve", "decline", "withdraw"} \subseteq Actions
  BY DEF Actions
<1>3. CASE Imported
  <2>1. /\ rec.remote = 0
        /\ rec.status \in {"submitted", "approved", "declined", "xero_sync_failed"}
        /\ rec.failed # "withdraw"
    BY <1>3 DEF DecisionInv, RecordInv
  <2>2. Done("decline") => rec.status = "declined"
    BY <1>1, <1>2 DEF CommittedAs
  <2>3. Done("approve") => rec.status \in {"approved", "declined"}
    BY <1>1, <1>2, <2>1 DEF CommittedAs
  <2> QED
    BY <1>3, <2>1, <2>2, <2>3 DEF AppInv
<1>4. CASE ~Imported
  <2>1. <<"approve", rec.remote>> \in done /\ rec.remote \in Generations
    BY <1>4 DEF LeaveInv, CreateInv, TypeInv, TypeOK
  <2>2. Done("withdraw") => rec.status = "withdrawn"
    BY <1>1, <1>2 DEF CommittedAs
  <2>3. rec.status \in {"declined", "withdrawn"} => Done("withdraw")
    BY <1>4 DEF AppInv
  <2>4. app[rec.remote] = IF Done("withdraw") THEN "rejected" ELSE "scheduled"
    BY <1>4, <2>1 DEF AppInv
  <2> QED
    BY <1>4, <2>2, <2>3, <2>4
<1> QED
  BY <1>3, <1>4

(* Once nothing is unresolved, the record and payroll agree on the decision, as
   long as payroll staff leave the applications to the program. *)
THEOREM DecisionMatchesHolds ==
  ASSUME CarefulRecovery, ~PayrollEdits PROVE Spec => []DecisionMatchesPayroll
BY PayrollInvariant, LeaveInvariant, ProvedAlways, PayrollFacts, PTL

-----------------------------------------------------------------------------
(* The decisions implement DecisionWrite *)

WriteMap == [a \in Actions |-> WriteState(a)]

(* What the state of a write says of its row. *)
LEMMA WriteStates ==
  ASSUME TypeInv, NEW a \in Actions
  PROVE  /\ op[a].status \in {"none", "definitive_failure"} <=> WriteState(a) = "none"
         /\ op[a].status \in {"prepared", "outcome_unknown"} =>
              WriteState(a) = IF <<a, op[a].key>> \in done THEN "effective" ELSE "pending"
         /\ op[a].status = "provider_accepted" <=> WriteState(a) = "accepted"
         /\ op[a].status = "completed" <=> WriteState(a) = "completed"
         /\ WriteState(a) \in {"pending", "effective"} =>
              op[a].status \in {"prepared", "outcome_unknown"}
BY Fields DEF WriteState, OpStatuses, Unresolved

(* A step that changes one write. *)
LEMMA OneWrite ==
  ASSUME NEW a \in Actions, NEW s, WriteState(a)' = s,
         \A b \in Actions \ {a} : WriteState(b)' = WriteState(b)
  PROVE  WriteMap' = [WriteMap EXCEPT ![a] = s]
BY DEF WriteMap

(* A step after which every row has the key it had, and Xero the requests. *)
LEMMA SameWrite ==
  ASSUME NEW b, op'[b].status = op[b].status, op'[b].key = op[b].key, done' = done
  PROVE  WriteState(b)' = WriteState(b)
BY DEF WriteState

(* The leave is that of the key of the approval, or there is none yet. *)
LEMMA LeaveKept ==
  ASSUME Proved, LeaveInv, AppInv, [Next]_vars, app' = app, done' = done
  PROVE  LeaveState' = LeaveState
PROOF
<1> USE DEF Proved
<1>1. Imported' <=> Imported
  BY DoneStays
<1>2. "approve" \in Actions
  BY DEF Actions
<1>3. CASE Imported \/ op'["approve"].key = op["approve"].key
  BY <1>1, <1>3 DEF LeaveState
<1>4. CASE ~Imported /\ op'["approve"].key # op["approve"].key
  <2>1. PICK w \in Workers : PrepareAndClaim(w)
    BY <1>2, <1>4, RowSteps, AdminActs DEF RowMoves
  <2>2. Mints("approve")
    BY <1>2, <1>4, <2>1, PrepareEffect
  <2>3. \A k : <<"approve", k>> \notin done
    BY <1>2, <2>2, NothingDone DEF LeaveInv, CallsInv, Mints, Processed
  <2>4. \A k \in Generations : app[k] = "absent"
    BY <1>4, <2>3 DEF AppInv
  <2> QED
    BY <1>1, <1>4, <2>4 DEF LeaveState
<1> QED
  BY <1>3, <1>4

(* Xero's processing of a request is the one moment a write takes effect. *)
LEMMA EffectRefines ==
  ASSUME Proved, LeaveInv, AppInv, DoneInv, [Next]_vars, NEW m \in net,
         XeroAccepts(m), ~Remembered(m), Applicable(m),
         app' = [app EXCEPT ![m.app] = Effect(m)],
         done' = done \cup {<<m.act, m.key>>}
  PROVE  Write!TakeEffect(m.act)
PROOF
<1> USE DEF Proved
<1> DEFINE a == m.act
           k == m.key
<1>1. /\ m \in Requests /\ a \in Actions /\ k \in Generations /\ op' = op
      /\ <<a, k>> \notin done /\ AllowedAction(a)
      /\ app \in [AppIds -> AppStates] /\ m.app \in AppIds
      /\ "approve" \in Actions
  BY AcceptMoves DEF DecisionInv, PayrollInv, Requests, Remembered, TypeInv, TypeOK, Actions
<1>2. k = op[a].key /\ op[a].status \in Processed
  BY <1>1 DEF LeaveInv, CallsInv, KeyInv, UsedInv, Under
<1>3. op[a].status = "outcome_unknown"
  BY <1>1, <1>2 DEF DoneInv, Processed
<1>4. WriteState(a) = "pending" /\ WriteState(a)' = "effective"
  BY <1>1, <1>2, <1>3 DEF WriteState
<1>5. \A b \in Actions \ {a} : WriteState(b)' = WriteState(b)
  BY <1>1 DEF WriteState
<1>6. WriteMap' = [WriteMap EXCEPT ![a] = "effective"]
  BY <1>1, <1>4, <1>5, OneWrite
<1>7. Imported' <=> Imported
  BY DoneStays
<1>8. /\ IF Imported THEN m.app = 0 ELSE m.app = op["approve"].key /\ m.app \in Generations
      /\ LeaveState = app[m.app] /\ LeaveState' = app'[m.app]
  <2>1. CASE Imported
    BY <1>7, <2>1 DEF LeaveState, DecisionInv, PayrollInv
  <2>2. CASE ~Imported /\ a = "approve"
    <3>1. m.app = k
      BY <2>2 DEF DecisionInv, PayrollInv
    <3> QED
      BY <1>1, <1>2, <1>7, <2>2, <3>1 DEF LeaveState
  <2>3. CASE ~Imported /\ a = "withdraw"
    <3>1. m.app \in Generations /\ app[m.app] # "absent"
      BY <2>3 DEF Applicable, IsCreate, DecisionInv, PayrollInv
    <3>2. <<"approve", m.app>> \in done
      BY <3>1 DEF DecisionInv, PayrollInv
    <3>3. m.app = op["approve"].key
      BY <1>1, <3>1, <3>2 DEF LeaveInv, CallsInv, KeyInv, UsedInv
    <3> QED
      BY <1>1, <1>7, <2>3, <3>1, <3>3 DEF LeaveState
  <2> QED
    BY <1>1, <2>1, <2>2, <2>3 DEF Actions, AllowedAction
<1>9. LeaveState' = Write!After[a]
  <2>1. LeaveState' = Effect(m)
    BY <1>1, <1>8
  <2> QED
    BY <1>1, <2>1 DEF Effect, Write!After, Actions
<1>10. LeaveState \in Write!Before[a]
  <2>1. CASE IsCreate(m)
    <3>1. ~Imported
      BY <1>1, <1>8, <2>1 DEF IsCreate, Generations
    <3>2. app[m.app] = "absent"
      BY <1>1, <1>8, <2>1, <3>1 DEF AppInv, IsCreate
    <3> QED
      BY <1>8, <2>1, <3>2 DEF IsCreate, Write!Before
  <2>2. CASE ~IsCreate(m)
    <3>1. CASE a = "approve"
      BY <1>8, <2>2, <3>1 DEF Applicable, Write!Before
    <3>2. CASE a = "decline"
      BY <1>8, <2>2, <3>2 DEF Applicable, Write!Before
    <3>3. CASE a = "withdraw"
      BY <1>8, <2>2, <3>3 DEF Applicable, Write!Before
    <3> QED
      BY <1>1, <3>1, <3>2, <3>3 DEF Actions
  <2> QED
    BY <2>1, <2>2
<1>11. WriteMap[a] = "pending"
  BY <1>1, <1>4 DEF WriteMap
<1> QED
  BY <1>6, <1>9, <1>10, <1>11 DEF Write!TakeEffect, WriteMap

(* The other steps, by what they do to the rows. *)
LEMMA RowRefines ==
  ASSUME Proved, LeaveInv, AppInv, DoneInv, [Next]_vars, app' = app, done' = done
  PROVE  [Write!Next]_(Write!writeVars)
PROOF
<1> USE DEF Proved
<1>t. TypeInv' /\ LeaveState' = LeaveState
  BY TypeStep, LeaveKept
<1>same. ASSUME \A b \in Actions : op'[b].status = op[b].status /\ op'[b].key = op[b].key
         PROVE  UNCHANGED Write!writeVars
  <2>1. WriteMap' = WriteMap
    BY <1>same, SameWrite DEF WriteMap
  <2> QED
    BY <1>t, <2>1 DEF Write!writeVars, WriteMap
<1>1. ASSUME NEW w \in Workers, PrepareAndClaim(w)
      PROVE  [Write!Next]_(Write!writeVars)
  <2>1. PICK a \in Actions :
          /\ Replays(a) \/ Mints(a)
          /\ NoOtherUnresolved(a)
          /\ \A b \in Actions \ {a} : op'[b] = op[b]
          /\ Replays(a) => op'[a].status = op[a].status /\ op'[a].key = op[a].key
          /\ ~Replays(a) => op'[a].status = "prepared"
    <3>1. wrk[w].act \in Actions
      BY <1>1, PrepareEffect
    <3> QED
      BY <1>1, <3>1, PrepareEffect
  <2>2. CASE Replays(a)
    BY <1>same, <2>1, <2>2
  <2>3. CASE ~Replays(a)
    <3>1. op[a].status \in {"none", "definitive_failure"}
      BY <2>1, <2>3 DEF Mints
    <3>2. <<a, op'[a].key>> \notin done
      BY <2>1, <3>1, NothingDone DEF LeaveInv, CallsInv, Processed
    <3>3. WriteState(a) = "none" /\ WriteState(a)' = "pending"
      BY <2>1, <2>3, <3>1, <3>2 DEF WriteState
    <3>4. \A b \in Actions \ {a} : WriteState(b)' = WriteState(b)
      BY <2>1, SameWrite
    <3>5. WriteMap' = [WriteMap EXCEPT ![a] = "pending"]
      BY <2>1, <3>3, <3>4, OneWrite
    <3>6. \A b \in Actions : WriteMap[b] \notin Write!Unresolved
      BY <2>1, <3>3, WriteStates DEF WriteMap, Write!Unresolved, NoOtherUnresolved, Unresolved
    <3>7. Write!Begin(a)
      BY <1>t, <2>1, <3>3, <3>5, <3>6 DEF Write!Begin, WriteMap
    <3> QED
      BY <2>1, <3>7 DEF Write!Next
  <2> QED
    BY <2>2, <2>3
<1>2. ASSUME NEW a \in Actions, NEW s, NEW x, RowMoves(a, s, x)
      PROVE  /\ op'[a].status = s /\ op'[a].key = op[a].key
             /\ \A b \in Actions \ {a} : op'[b] = op[b]
             /\ \A b \in Actions \ {a} : WriteState(b)' = WriteState(b)
  BY <1>2, SameWrite DEF RowMoves
<1>3. ASSUME NEW a \in Actions, Dispatches(a), RowMoves(a, "outcome_unknown", op[a].known)
      PROVE  [Write!Next]_(Write!writeVars)
  <2>1. op[a].status \in {"prepared", "outcome_unknown"}
    BY <1>3 DEF Dispatches, HoldsAttempt
  <2>2. WriteState(a)' = WriteState(a)
    BY <1>2, <1>3, <2>1 DEF WriteState
  <2>3. WriteMap' = WriteMap
    BY <1>2, <1>3, <2>2 DEF WriteMap
  <2> QED
    BY <1>t, <2>3 DEF Write!writeVars, WriteMap
<1>4. ASSUME NEW a \in Actions, NEW x, Accepts(a, x), RowMoves(a, "provider_accepted", x)
      PROVE  [Write!Next]_(Write!writeVars)
  <2>1. op[a].status = "outcome_unknown"
    BY <1>4, AcceptedApplication
  <2>2. <<a, op'[a].key>> \in done'
    BY <1>2, <1>4, RowDoneStep
  <2>3. WriteState(a) = "effective" /\ WriteState(a)' = "accepted"
    BY <1>2, <1>4, <2>1, <2>2 DEF WriteState
  <2>4. WriteMap' = [WriteMap EXCEPT ![a] = "accepted"]
    BY <1>2, <1>4, <2>3, OneWrite
  <2>5. Write!Accept(a)
    BY <1>t, <2>3, <2>4 DEF Write!Accept, WriteMap
  <2> QED
    BY <2>5 DEF Write!Next
<1>5. ASSUME NEW a \in Actions, Refutes(a), RowMoves(a, "definitive_failure", op[a].known)
      PROVE  [Write!Next]_(Write!writeVars)
  <2>1. op[a].status \in {"prepared", "outcome_unknown"} /\ <<a, op[a].key>> \notin done
    BY <1>5, RefutedKey DEF LeaveInv, CallsInv
  <2>2. WriteState(a) = "pending" /\ WriteState(a)' = "none"
    BY <1>2, <1>5, <2>1 DEF WriteState
  <2>3. WriteMap' = [WriteMap EXCEPT ![a] = "none"]
    BY <1>2, <1>5, <2>2, OneWrite
  <2>4. Write!GiveUp(a)
    BY <1>t, <2>2, <2>3 DEF Write!GiveUp, WriteMap
  <2> QED
    BY <2>4 DEF Write!Next
<1>6. ASSUME NEW a \in Actions, Completes(a), RowMoves(a, "completed", op[a].known)
      PROVE  [Write!Next]_(Write!writeVars)
  <2>1. op[a].status = "provider_accepted"
    BY <1>6 DEF Completes, HoldsAttempt, AdminHolds
  <2>2. WriteState(a) = "accepted" /\ WriteState(a)' = "completed"
    BY <1>2, <1>6, <2>1 DEF WriteState
  <2>3. WriteMap' = [WriteMap EXCEPT ![a] = "completed"]
    BY <1>2, <1>6, <2>2, OneWrite
  <2>4. Write!Complete(a)
    BY <1>t, <2>2, <2>3 DEF Write!Complete, WriteMap
  <2> QED
    BY <2>4 DEF Write!Next
<1>7. CASE op' = op
  BY <1>same, <1>7
<1> QED
  BY <1>1, <1>3, <1>4, <1>5, <1>6, <1>7, RowSteps, AdminActs

LEMMA InitWrites == Init => Write!Init
PROOF
<1> SUFFICES ASSUME Init PROVE Write!Init
  OBVIOUS
<1>1. \A a \in Actions : op[a].status = "none" /\ op[a].key = 0
  BY DEF Init
<1>2. WriteMap = [a \in Actions |-> "none"]
  BY <1>1 DEF WriteMap, WriteState
<1>3. LeaveState \in {"absent", "requested"}
  BY GenerationAssumption DEF Init, LeaveState, Imported, AppIds, Generations, Actions
<1> QED
  BY <1>2, <1>3 DEF Write!Init, WriteMap

(* Every decision is written to payroll once or not at all, as DecisionWrite
   has it, however handlers, replays, lost answers and administrators
   interleave. *)
THEOREM WriteSpecHolds ==
  ASSUME CarefulRecovery, ~PayrollEdits PROVE Spec => WriteSpec
PROOF
<1>1. AppInv /\ DoneInv /\ LeaveInv /\ Proved /\ [Next]_vars
        => [Write!Next]_(Write!writeVars)
  <2> SUFFICES ASSUME AppInv, DoneInv, LeaveInv, Proved, [Next]_vars
               PROVE  [Write!Next]_(Write!writeVars)
    OBVIOUS
  <2>1. CASE app' = app /\ done' = done
    BY <2>1, RowRefines
  <2>2. ASSUME NEW m \in net,
               XeroAccepts(m) /\ ~Remembered(m) /\ Applicable(m),
               app' = [app EXCEPT ![m.app] = Effect(m)],
               done' = done \cup {<<m.act, m.key>>}
        PROVE  [Write!Next]_(Write!writeVars)
    <3>1. Write!TakeEffect(m.act) /\ m.act \in Actions
      BY <2>2, EffectRefines, AcceptMoves DEF Proved, Requests
    <3> QED
      BY <3>1 DEF Write!Next
  <2> QED
    BY <2>1, <2>2, AppChanges DEF Proved
<1>2. Spec => Write!Init /\ [][Write!Next]_(Write!writeVars)
  BY <1>1, InitWrites, PayrollInvariant, LeaveInvariant, ProvedAlways, PTL DEF Spec
<1> QED
  BY <1>2 DEF WriteSpec, Write!Spec

=============================================================================
