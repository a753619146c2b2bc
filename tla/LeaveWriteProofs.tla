-------------------------- MODULE LeaveWriteProofs --------------------------
(***************************************************************************)
(* Theorems about LeaveWrite for every set of handlers, every bound on the *)
(* attempts and every combination of the switches.                         *)
(***************************************************************************)
EXTENDS LeaveWrite, TLAPS

(* What the type invariant needs of the handlers and the journal to be
   inductive: a handler that is doing something has an action, one with a
   journalled attempt has a key and an application, an unresolved journal row
   has a key, and a leave sync at work has an application in hand. *)
HandlerInv ==
  \A w \in Workers :
    /\ wrk[w].pc # "idle" => wrk[w].act \in Actions
    /\ wrk[w].pc \in {"prepared", "ready", "waiting", "ok", "refused", "unsure"} =>
         wrk[w].key \in Generations /\ wrk[w].app \in AppIds

JournalInv ==
  \A a \in Actions : op[a].status \in Unresolved => op[a].key \in Generations

ImportInv == sync.pc # "idle" => sync.app \in AppIds

TypeInv == TypeOK /\ HandlerInv /\ JournalInv /\ ImportInv

USE OriginAssumption, OfferedAssumption, GenerationAssumption

LEMMA InitTypeInv == Init => TypeInv
PROOF
<1> SUFFICES ASSUME Init PROVE TypeInv
  OBVIOUS
<1>1. rec \in RecordRows
  <2>1. rec \in [source : Origins, status : {"draft", "submitted"},
                  failed : {"none"}, seq : {0}, remote : {0, NoApp},
                  claim : {NoWorker}, lease : {"none"}]
    BY DEF Init
  <2>2. {0, NoApp} \subseteq AppIds \cup {NoApp}
    BY DEF AppIds
  <2> QED
    BY <2>1, <2>2 DEF RecordRows, Statuses, NoneOrAction
<1>2. op \in [Actions -> JournalRows]
  BY DEF Init, JournalRows, OpStatuses, AppIds, NoApp
<1>3. wrk \in [Workers -> Handlers]
  BY DEF Init, Handlers, IdleWorker, PCs, NoneOrAction, Statuses, AppIds, NoApp
<1>4. adm \in Recoveries /\ sync \in Imports
  BY DEF Init, Recoveries, Imports, IdleAdmin, IdleSync, NoneOrAction,
         OpStatuses, Statuses, AppIds, NoApp
<1>5. app \in [AppIds -> AppStates]
  BY DEF Init, AppStates
<1>6. HandlerInv /\ JournalInv /\ ImportInv
  BY DEF Init, HandlerInv, JournalInv, ImportInv, IdleWorker, IdleSync, Unresolved
<1> QED
  BY <1>1, <1>2, <1>3, <1>4, <1>5, <1>6 DEF Init, TypeInv, TypeOK

(* Sets the rows are built from, in the form the provers use. *)
LEMMA Constants ==
  /\ Offered \subseteq Actions
  /\ Generations \subseteq AppIds
  /\ Generations \subseteq 0 .. MaxGeneration
  /\ Unresolved \subseteq OpStatuses
BY DEF Actions, Generations, AppIds, Unresolved, OpStatuses

LEMMA LocalSteps ==
  TypeInv /\ (Submit \/ RevertApprovalAttempt \/ Clock) => TypeInv'
PROOF
<1> SUFFICES ASSUME TypeInv, Submit \/ RevertApprovalAttempt \/ Clock
             PROVE  TypeInv'
  OBVIOUS
<1> USE DEF TypeInv, TypeOK, HandlerInv, JournalInv, ImportInv, journalVars,
            providerVars, importVars
<1>1. CASE Submit
  <2>1. rec \in RecordRows
    OBVIOUS
  <2>2. rec' \in RecordRows
    <3>1. rec' = [rec EXCEPT !.status = "submitted", !.seq = rec.seq + 1]
      BY <1>1 DEF Submit
    <3>2. rec.seq + 1 \in Nat
      BY <2>1 DEF RecordRows
    <3> HIDE DEF TypeInv, TypeOK, HandlerInv, JournalInv, ImportInv
    <3> QED
      BY <2>1, <3>1, <3>2 DEF RecordRows, Statuses
  <2> QED
    BY <1>1, <2>2 DEF Submit
<1>2. CASE RevertApprovalAttempt
  <2>1. rec' \in RecordRows
    BY <1>2 DEF RevertApprovalAttempt, RecordRows, Statuses, NoneOrAction
  <2> QED
    BY <1>2, <2>1 DEF RevertApprovalAttempt
<1>3. CASE ExpireClaim
  BY <1>3 DEF ExpireClaim, RecordRows
<1>4. ASSUME NEW a \in Actions, NEW k \in Generations, CloseWindow(a, k)
      PROVE  TypeInv'
  BY <1>4 DEF CloseWindow
<1> QED
  BY <1>1, <1>2, <1>3, <1>4 DEF Clock

LEMMA ClaimSteps ==
  ASSUME TypeInv, NEW w \in Workers,
         \/ \E a \in Offered : Load(w, a)
         \/ Conflict(w)
         \/ AcquireLocalClaim(w)
         \/ PrepareAndClaim(w)
         \/ DispatchStarted(w)
         \/ DispatchRefused(w)
  PROVE  TypeInv'
PROOF
<1> USE DEF TypeInv, TypeOK, HandlerInv, JournalInv, ImportInv, journalVars,
            providerVars, importVars
<1>idle. IdleWorker \in Handlers /\ IdleWorker.pc = "idle"
  BY DEF IdleWorker, Handlers, PCs, NoneOrAction, Statuses, AppIds
<1>rel. Released(w) \in RecordRows
  BY DEF Released, RecordRows
<1>1. ASSUME NEW a \in Offered, Load(w, a) PROVE TypeInv'
  <2>1. a \in Actions
    BY Constants
  <2>2. wrk'[w] \in Handlers /\ wrk'[w].pc = "loaded" /\ wrk'[w].act = a
    <3>1. rec \in RecordRows
      OBVIOUS
    <3>2. wrk'[w] = [IdleWorker EXCEPT
             !.pc = "loaded", !.act = a, !.status = rec.status,
             !.failed = IF rec.failed = a THEN a ELSE "none",
             !.seq = rec.seq, !.remote = rec.remote]
      BY <1>1 DEF Load
    <3> DEFINE failed == IF rec.failed = a THEN a ELSE "none"
    <3>3. wrk'[w] = [pc |-> "loaded", act |-> a, status |-> rec.status,
                     failed |-> failed, seq |-> rec.seq, remote |-> rec.remote,
                     gen |-> 0, key |-> 0, app |-> NoApp, doubts |-> {}]
      BY <3>2 DEF IdleWorker
    <3>4. /\ failed \in NoneOrAction
          /\ rec.status \in Statuses
          /\ rec.seq \in Nat
          /\ rec.remote \in AppIds \cup {NoApp}
      BY <2>1, <3>1 DEF RecordRows, NoneOrAction
    <3> HIDE DEF TypeInv, TypeOK, HandlerInv, JournalInv, ImportInv, failed
    <3> QED
      BY <2>1, <3>3, <3>4 DEF Handlers, PCs, NoneOrAction
  <2>3. wrk' \in [Workers -> Handlers] /\ \A v \in Workers \ {w} : wrk'[v] = wrk[v]
    BY <1>1, <2>2 DEF Load
  <2> QED
    BY <1>1, <2>1, <2>2, <2>3 DEF Load
<1>2. CASE Conflict(w)
  BY <1>2, <1>idle DEF Conflict, Idle
<1>3. CASE AcquireLocalClaim(w)
  <2>1. rec' \in RecordRows
    BY <1>3 DEF AcquireLocalClaim, RecordRows
  <2>2. wrk'[w] \in Handlers /\ wrk'[w].pc = "local" /\ wrk'[w].act = wrk[w].act
    BY <1>3 DEF AcquireLocalClaim, Handlers, PCs
  <2>3. wrk' \in [Workers -> Handlers] /\ \A v \in Workers \ {w} : wrk'[v] = wrk[v]
    BY <1>3, <2>2 DEF AcquireLocalClaim
  <2> QED
    BY <1>3, <2>1, <2>2, <2>3 DEF AcquireLocalClaim, At
<1>4. CASE PrepareAndClaim(w)
  <2> DEFINE a == wrk[w].act
             gen == NextGeneration(a)
             key == IF Replays(a) THEN op[a].key ELSE gen
  <2>1. a \in Actions /\ gen \in Generations
    BY <1>4 DEF PrepareAndClaim, At
  <2>2. key \in Generations
    BY <2>1 DEF Replays, Replayable, Unresolved
  <2>3. rec' \in RecordRows
    BY <1>4 DEF PrepareAndClaim, RecordRows
  <2>4. /\ op'[a] \in JournalRows
        /\ op'[a].key \in Generations
    BY <1>4, <2>1, <2>2, Constants DEF PrepareAndClaim, JournalRows, Handlers, OpStatuses,
       Unresolved
  <2>5. op' \in [Actions -> JournalRows] /\ \A b \in Actions \ {a} : op'[b] = op[b]
    BY <1>4, <2>4 DEF PrepareAndClaim
  <2>6. wrk'[w] \in Handlers
    <3>1. op[a].known \in AppIds \cup {NoApp}
      BY <2>1 DEF JournalRows
    <3>2. wrk[w] \in Handlers
      OBVIOUS
    <3> QED
      BY <1>4, <2>1, <2>2, <3>1, <3>2, Constants
      DEF PrepareAndClaim, Handlers, PCs, NoneOrAction, Doubts, Creates
  <2>7. /\ wrk'[w].pc \in {"prepared", "accepted"}
        /\ wrk'[w].act = a
        /\ wrk'[w].key = key
        /\ wrk'[w].pc = "prepared" => wrk'[w].app \in AppIds
    <3>1. wrk[w] \in Handlers
      OBVIOUS
    <3> QED
      BY <1>4, <2>1, <2>2, <3>1, Constants
      DEF PrepareAndClaim, Handlers, Creates, Journalled
  <2>8. wrk' \in [Workers -> Handlers] /\ \A v \in Workers \ {w} : wrk'[v] = wrk[v]
    BY <1>4, <2>6 DEF PrepareAndClaim
  <2>9. HandlerInv'
    BY <2>1, <2>2, <2>7, <2>8
  <2>10. JournalInv'
    BY <2>1, <2>4, <2>5
  <2> QED
    BY <1>4, <2>3, <2>5, <2>8, <2>9, <2>10 DEF PrepareAndClaim
<1>5. CASE DispatchStarted(w)
  <2> DEFINE a == wrk[w].act
  <2>1. a \in Actions /\ wrk[w].key \in Generations
    BY <1>5 DEF DispatchStarted, At
  <2>2. open' \subseteq Actions \X Generations
    BY <1>5, <2>1 DEF DispatchStarted
  <2>3. op'[a] \in JournalRows /\ op'[a].key = op[a].key
    BY <1>5, <2>1 DEF DispatchStarted, JournalRows, OpStatuses, Unresolved
  <2>4. op' \in [Actions -> JournalRows] /\ \A b \in Actions \ {a} : op'[b] = op[b]
    BY <1>5, <2>3 DEF DispatchStarted
  <2>5. op[a].status \in Unresolved
    BY <1>5 DEF DispatchStarted, MayDispatch, HoldsAttempt, Unresolved
  <2>6. wrk'[w] \in Handlers /\ wrk'[w].pc = "ready" /\ wrk'[w].act = a
        /\ wrk'[w].key = wrk[w].key /\ wrk'[w].app = wrk[w].app
    <3>1. wrk[w] \in Handlers /\ wrk'[w] = [wrk[w] EXCEPT !.pc = "ready"]
      BY <1>5 DEF DispatchStarted
    <3> HIDE DEF TypeInv, TypeOK, HandlerInv, JournalInv, ImportInv
    <3> QED
      BY <3>1 DEF Handlers, PCs
  <2>7. wrk' \in [Workers -> Handlers] /\ \A v \in Workers \ {w} : wrk'[v] = wrk[v]
    BY <1>5, <2>6 DEF DispatchStarted
  <2> QED
    BY <1>5, <2>1, <2>2, <2>3, <2>4, <2>5, <2>6, <2>7 DEF DispatchStarted, At
<1>6. CASE DispatchRefused(w)
  BY <1>6, <1>idle, <1>rel DEF DispatchRefused, Idle
<1> QED
  BY <1>1, <1>2, <1>3, <1>4, <1>5, <1>6

LEMMA SendSteps ==
  ASSUME TypeInv, NEW w \in Workers, Send(w) \/ NotSent(w) \/ LoseAnswer(w)
  PROVE  TypeInv'
PROOF
<1> USE DEF TypeInv, TypeOK, HandlerInv, JournalInv, ImportInv, journalVars,
            providerVars, importVars
<1>1. CASE Send(w)
  <2>1. wrk[w] \in Handlers /\ wrk[w].act \in Actions
        /\ wrk[w].key \in Generations /\ wrk[w].app \in AppIds
    BY <1>1 DEF Send, At
  <2>2. net' \subseteq Requests
    BY <1>1, <2>1 DEF Send, Requests
  <2>3. /\ wrk'[w] \in Handlers
        /\ wrk'[w].pc = "waiting" /\ wrk'[w].act = wrk[w].act
        /\ wrk'[w].key = wrk[w].key /\ wrk'[w].app = wrk[w].app
    BY <1>1, <2>1 DEF Send, Handlers, PCs
  <2>4. wrk' \in [Workers -> Handlers] /\ \A v \in Workers \ {w} : wrk'[v] = wrk[v]
    BY <1>1, <2>3 DEF Send
  <2> QED
    BY <1>1, <2>1, <2>2, <2>3, <2>4 DEF Send
<1>2. CASE NotSent(w)
  <2>1. wrk[w] \in Handlers /\ wrk[w].act \in Actions
        /\ wrk[w].key \in Generations /\ wrk[w].app \in AppIds
    BY <1>2 DEF NotSent, At
  <2>2. /\ wrk'[w] \in Handlers
        /\ wrk'[w].pc \in {"refused", "unsure"} /\ wrk'[w].act = wrk[w].act
        /\ wrk'[w].key = wrk[w].key /\ wrk'[w].app = wrk[w].app
    BY <1>2, <2>1 DEF NotSent, AfterRefusal, Handlers, PCs
  <2>3. wrk' \in [Workers -> Handlers] /\ \A v \in Workers \ {w} : wrk'[v] = wrk[v]
    BY <1>2, <2>2 DEF NotSent
  <2> QED
    BY <1>2, <2>1, <2>2, <2>3 DEF NotSent
<1>3. CASE LoseAnswer(w)
  <2>1. wrk[w] \in Handlers /\ wrk[w].act \in Actions
        /\ wrk[w].key \in Generations /\ wrk[w].app \in AppIds
    BY <1>3 DEF LoseAnswer, At
  <2>2. /\ wrk'[w] \in Handlers
        /\ wrk'[w].pc = "ready" /\ wrk'[w].act = wrk[w].act
        /\ wrk'[w].key = wrk[w].key /\ wrk'[w].app = wrk[w].app
    <3>1. wrk'[w] = [wrk[w] EXCEPT !.pc = "ready",
                                   !.doubts = wrk[w].doubts \cup {"resent"}]
      BY <1>3 DEF LoseAnswer
    <3>2. wrk[w].doubts \cup {"resent"} \in SUBSET Doubts
      BY <2>1 DEF Handlers, Doubts
    <3> HIDE DEF TypeInv, TypeOK, HandlerInv, JournalInv, ImportInv
    <3> QED
      BY <2>1, <3>1, <3>2 DEF Handlers, PCs
  <2>3. wrk' \in [Workers -> Handlers] /\ \A v \in Workers \ {w} : wrk'[v] = wrk[v]
    BY <1>3, <2>2 DEF LoseAnswer
  <2> QED
    BY <1>3, <2>1, <2>2, <2>3 DEF LoseAnswer
<1> QED
  BY <1>1, <1>2, <1>3

(* An answer moves at most the handler that waits for it. *)
LEMMA AnswersType ==
  ASSUME TypeInv, NEW m \in Requests, NEW pc \in {"ok", "refused", "unsure"},
         Answers(m, pc)
  PROVE  /\ wrk' \in [Workers -> Handlers]
         /\ HandlerInv'
         /\ \A v \in Workers : wrk'[v].act = wrk[v].act /\ wrk'[v].gen = wrk[v].gen
PROOF
<1> USE DEF TypeInv, TypeOK, HandlerInv
<1>1. CASE wrk' = wrk
  BY <1>1
<1>2. CASE /\ wrk[m.from].pc = "waiting"
           /\ wrk' = [wrk EXCEPT ![m.from].pc = pc]
  <2>1. m.from \in Workers /\ wrk[m.from] \in Handlers
    BY DEF Requests
  <2>2. wrk[m.from].act \in Actions /\ wrk[m.from].key \in Generations
        /\ wrk[m.from].app \in AppIds
    BY <1>2, <2>1
  <2>3. /\ wrk'[m.from] \in Handlers
        /\ wrk'[m.from].pc = pc /\ wrk'[m.from].act = wrk[m.from].act
        /\ wrk'[m.from].gen = wrk[m.from].gen
        /\ wrk'[m.from].key = wrk[m.from].key
        /\ wrk'[m.from].app = wrk[m.from].app
    BY <1>2, <2>1 DEF Handlers, PCs
  <2>4. /\ wrk' \in [Workers -> Handlers]
        /\ \A v \in Workers \ {m.from} : wrk'[v] = wrk[v]
    BY <1>2, <2>1, <2>3
  <2> QED
    BY <2>1, <2>2, <2>3, <2>4
<1> QED
  BY <1>1, <1>2 DEF Answers

LEMMA XeroSteps ==
  TypeInv /\ (Xero \/ PayrollStaff) => TypeInv'
PROOF
<1> SUFFICES ASSUME TypeInv, Xero \/ PayrollStaff PROVE TypeInv'
  OBVIOUS
<1> USE DEF TypeInv, TypeOK, JournalInv, ImportInv, journalVars, importVars
<1>1. ASSUME NEW m \in net, XeroAccepts(m) PROVE TypeInv'
  <2>1. m \in Requests /\ m.app \in AppIds /\ m.key \in Generations
        /\ m.act \in Actions
    BY DEF Requests
  <2>2. wrk' \in [Workers -> Handlers] /\ HandlerInv'
    BY <1>1, <2>1, AnswersType DEF XeroAccepts
  <2>3. app' \in [AppIds -> AppStates]
    BY <1>1, <2>1 DEF XeroAccepts, Effect, AppStates
  <2>4. done' \subseteq Actions \X Generations /\ posted' \in 0 .. 2
    BY <1>1, <2>1 DEF XeroAccepts
  <2>5. net' \subseteq Requests
    BY <1>1 DEF XeroAccepts
  <2> QED
    BY <1>1, <2>2, <2>3, <2>4, <2>5 DEF XeroAccepts
<1>2. ASSUME NEW m \in net, XeroRefuses(m) PROVE TypeInv'
  <2>1. m \in Requests /\ AfterRefusal(m.from) \in {"ok", "refused", "unsure"}
    BY DEF AfterRefusal
  <2>2. wrk' \in [Workers -> Handlers] /\ HandlerInv'
    BY <1>2, <2>1, AnswersType DEF XeroRefuses
  <2> QED
    BY <1>2, <2>2 DEF XeroRefuses
<1>3. ASSUME NEW x \in AppIds, EditInXero(x) PROVE TypeInv'
  <2>1. app' \in [AppIds -> AppStates]
    BY <1>3 DEF EditInXero, AppStates
  <2> QED
    BY <1>3, <2>1 DEF EditInXero, HandlerInv
<1> QED
  BY <1>1, <1>2, <1>3 DEF Xero, PayrollStaff

LEMMA OutcomeSteps ==
  ASSUME TypeInv, NEW w \in Workers,
         \/ RecordAccepted(w)
         \/ RecordFailure(w)
         \/ PersistFailure(w)
         \/ Commit(w)
         \/ CompleteEffects(w)
         \/ Throw(w)
         \/ Crash(w)
  PROVE  TypeInv'
PROOF
<1> USE DEF TypeInv, TypeOK, HandlerInv, JournalInv, ImportInv, journalVars,
            providerVars, importVars
<1>idle. IdleWorker \in Handlers /\ IdleWorker.pc = "idle"
  BY DEF IdleWorker, Handlers, PCs, NoneOrAction, Statuses, AppIds
<1>idled. /\ Idle(w) \in [Workers -> Handlers]
          /\ Idle(w)[w].pc = "idle"
          /\ \A v \in Workers \ {w} : Idle(w)[v] = wrk[v]
  BY <1>idle DEF Idle
<1>rel. Released(w) \in RecordRows
  BY DEF Released, RecordRows
<1>1. CASE RecordAccepted(w)
  <2> DEFINE a == wrk[w].act
             holds == HoldsAttempt(w, {"outcome_unknown"})
  <2>1. wrk[w] \in Handlers /\ a \in Actions /\ wrk[w].app \in AppIds
    BY <1>1 DEF RecordAccepted, At
  <2>2. rec' \in RecordRows
    BY <1>1, <1>rel DEF RecordAccepted
  <2>3. CASE ~holds
    BY <1>1, <1>idled, <2>2, <2>3 DEF RecordAccepted
  <2>4. CASE holds
    <3>1. op[a] \in JournalRows /\ op[a].key \in Generations
      BY <2>1, <2>4 DEF HoldsAttempt, Unresolved
    <3>2. op' = [op EXCEPT ![a] = [@ EXCEPT !.status = "provider_accepted",
                                            !.known = wrk[w].app]]
      BY <1>1, <2>1, <2>4 DEF RecordAccepted
    <3>3. op'[a] = [op[a] EXCEPT !.status = "provider_accepted",
                                 !.known = wrk[w].app]
      BY <2>1, <3>2
    <3>4. op'[a] \in JournalRows /\ op'[a].key = op[a].key
      BY <2>1, <3>1, <3>3 DEF JournalRows, OpStatuses, Unresolved
    <3>5. op' \in [Actions -> JournalRows] /\ \A b \in Actions \ {a} : op'[b] = op[b]
      BY <2>1, <3>2, <3>4
    <3>6. wrk'[w] = [wrk[w] EXCEPT !.pc = "accepted", !.doubts = {}]
      BY <1>1, <2>4 DEF RecordAccepted
    <3>7. wrk'[w] \in Handlers /\ wrk'[w].pc = "accepted" /\ wrk'[w].act = a
      BY <2>1, <3>6 DEF Handlers, PCs
    <3>8. wrk' \in [Workers -> Handlers] /\ \A v \in Workers \ {w} : wrk'[v] = wrk[v]
      BY <1>1, <2>4, <3>7 DEF RecordAccepted
    <3> QED
      BY <1>1, <2>1, <2>2, <3>1, <3>4, <3>5, <3>7, <3>8 DEF RecordAccepted
  <2> QED
    BY <2>3, <2>4
<1>2. CASE RecordFailure(w)
  <2> DEFINE a == wrk[w].act
             persists == [IdleWorker EXCEPT
                            !.pc = IF Definitive(w) THEN "persist_refusal"
                                   ELSE "persist_doubt",
                            !.act = wrk[w].act, !.status = wrk[w].status,
                            !.seq = wrk[w].seq]
  <2>1. wrk[w] \in Handlers /\ a \in Actions
    BY <1>2 DEF RecordFailure, At
  <2>2. rec' \in RecordRows
    BY <1>2, <1>rel DEF RecordFailure
  <2>3. op' \in [Actions -> JournalRows] /\ JournalInv'
    BY <1>2, <2>1 DEF RecordFailure, JournalRows, OpStatuses, Unresolved
  <2>4. /\ persists \in Handlers
        /\ persists.pc \in {"persist_refusal", "persist_doubt"}
        /\ persists.act = a
    <3> DEFINE pc == IF Definitive(w) THEN "persist_refusal" ELSE "persist_doubt"
    <3>3. wrk[w].status \in Statuses /\ wrk[w].seq \in Nat
      BY <2>1 DEF Handlers
    <3>2. pc \in {"persist_refusal", "persist_doubt"}
      OBVIOUS
    <3> HIDE DEF TypeInv, TypeOK, HandlerInv, JournalInv, ImportInv, pc
    <3>0. persists = [IdleWorker EXCEPT !.pc = pc, !.act = a,
                        !.status = wrk[w].status, !.seq = wrk[w].seq]
      BY DEF pc
    <3> HIDE DEF persists
    <3>1. persists = [pc |-> pc, act |-> a, status |-> wrk[w].status,
                      failed |-> "none", seq |-> wrk[w].seq, remote |-> NoApp,
                      gen |-> 0, key |-> 0, app |-> NoApp, doubts |-> {}]
      BY <3>0 DEF IdleWorker
    <3> QED
      BY <2>1, <3>1, <3>2, <3>3 DEF Handlers, PCs, NoneOrAction
  <2>5. wrk' = [wrk EXCEPT ![w] = persists] \/ wrk' = Idle(w)
    BY <1>2 DEF RecordFailure
  <2> HIDE DEF persists
  <2>6. wrk' \in [Workers -> Handlers] /\ HandlerInv'
    BY <1>idled, <2>1, <2>4, <2>5
  <2> QED
    BY <1>2, <2>2, <2>3, <2>6 DEF RecordFailure
<1>3. CASE PersistFailure(w)
  <2>1. wrk[w] \in Handlers /\ wrk[w].act \in Actions
    BY <1>3 DEF PersistFailure, At
  <2>2. rec' \in RecordRows
    BY <1>3, <1>rel, <2>1 DEF PersistFailure, RecordRows, Statuses, NoneOrAction
  <2> QED
    BY <1>3, <1>idled, <2>2 DEF PersistFailure
<1>4. CASE Commit(w)
  <2> DEFINE resumes == [IdleWorker EXCEPT
                           !.pc = "effects", !.act = wrk[w].act,
                           !.gen = wrk[w].gen]
             decided == [rec EXCEPT
                           !.status = Decided[wrk[w].act], !.failed = "none",
                           !.seq = rec.seq + 1,
                           !.remote = IF Creates(w) THEN wrk[w].app ELSE rec.remote,
                           !.claim = NoWorker, !.lease = "none"]
  <2>1. rec \in RecordRows /\ wrk[w] \in Handlers /\ wrk[w].act \in Actions
    BY <1>4 DEF Commit, At
  <2>2. decided \in RecordRows
    <3>1. Decided[wrk[w].act] \in Statuses
      BY <2>1 DEF Decided, Actions, Statuses
    <3>2. rec.seq + 1 \in Nat
      BY <2>1 DEF RecordRows
    <3>3. wrk[w].app \in AppIds \cup {NoApp}
      BY <2>1 DEF Handlers
    <3> HIDE DEF TypeInv, TypeOK, HandlerInv, JournalInv, ImportInv
    <3> QED
      BY <2>1, <3>1, <3>2, <3>3 DEF RecordRows, NoneOrAction
  <2>3. resumes \in Handlers /\ resumes.pc = "effects" /\ resumes.act = wrk[w].act
    BY <1>idle, <2>1 DEF IdleWorker, Handlers, PCs, NoneOrAction
  <2>4. rec' = decided \/ rec' = Released(w)
    BY <1>4 DEF Commit
  <2>5. wrk' = [wrk EXCEPT ![w] = resumes] \/ wrk' = Idle(w)
    BY <1>4 DEF Commit
  <2> HIDE DEF resumes, decided
  <2>6. wrk' \in [Workers -> Handlers] /\ HandlerInv'
    BY <1>idled, <2>1, <2>3, <2>5
  <2>7. rec' \in RecordRows
    BY <1>rel, <2>2, <2>4
  <2> QED
    BY <1>4, <2>6, <2>7 DEF Commit
<1>5. CASE CompleteEffects(w)
  <2>1. wrk[w] \in Handlers /\ wrk[w].act \in Actions
    BY <1>5 DEF CompleteEffects, At
  <2>2. op' \in [Actions -> JournalRows] /\ JournalInv'
    BY <1>5, <2>1 DEF CompleteEffects, JournalRows, OpStatuses, Unresolved
  <2> QED
    BY <1>5, <1>idled, <2>2 DEF CompleteEffects
<1>6. CASE Throw(w)
  BY <1>6, <1>idled, <1>rel DEF Throw
<1>7. CASE Crash(w)
  BY <1>7, <1>idled DEF Crash
<1> QED
  BY <1>1, <1>2, <1>3, <1>4, <1>5, <1>6, <1>7

LEMMA AdminSteps ==
  TypeInv /\ (Administrator \/ Sync) => TypeInv'
PROOF
<1> SUFFICES ASSUME TypeInv, Administrator \/ Sync PROVE TypeInv'
  OBVIOUS
<1> USE DEF TypeInv, TypeOK, HandlerInv, JournalInv, ImportInv, journalVars,
            providerVars, importVars
<1>idle. IdleAdmin \in Recoveries /\ IdleSync \in Imports
  BY DEF IdleAdmin, Recoveries, IdleSync, Imports, NoneOrAction, OpStatuses,
         Statuses, AppIds, NoApp
<1>1. ASSUME NEW a \in Actions, NEW x \in AppIds, AdminOpen(a, x) PROVE TypeInv'
  <2>1. op[a] \in JournalRows
    OBVIOUS
  <2>2. Target(a, x) \in Statuses
    BY DEF Target, Statuses
  <2>3. adm' \in Recoveries
    BY <1>1, <2>1, <2>2 DEF AdminOpen, Recoveries, JournalRows, NoneOrAction
  <2> QED
    BY <1>1, <2>3 DEF AdminOpen
<1>2. CASE AdminMarkAccepted
  <2>1. adm \in Recoveries
    OBVIOUS
  <2>2. adm' \in Recoveries
    BY <1>2, <1>idle, <2>1 DEF AdminMarkAccepted, Recoveries
  <2>3. op' \in [Actions -> JournalRows] /\ JournalInv'
    <3>1. CASE ~AdminHolds({"outcome_unknown"})
      BY <1>2, <3>1 DEF AdminMarkAccepted
    <3>2. CASE AdminHolds({"outcome_unknown"}) /\ adm.act \in Actions
      <4>1. op[adm.act] \in JournalRows /\ op[adm.act].key \in Generations
        BY <3>2 DEF AdminHolds, Unresolved
      <4>2. op' = [op EXCEPT ![adm.act] = [@ EXCEPT !.status = "provider_accepted",
                                                    !.known = adm.app]]
        BY <1>2, <3>2 DEF AdminMarkAccepted
      <4>3. op'[adm.act] = [op[adm.act] EXCEPT !.status = "provider_accepted",
                                               !.known = adm.app]
        BY <3>2, <4>2
      <4>4. op'[adm.act] \in JournalRows /\ op'[adm.act].key = op[adm.act].key
        BY <2>1, <4>1, <4>3 DEF JournalRows, OpStatuses, Unresolved, Recoveries
      <4> QED
        BY <3>2, <4>1, <4>2, <4>4
    <3>3. CASE adm.act \notin Actions
      BY <1>2, <3>3 DEF AdminMarkAccepted
    <3> QED
      BY <3>1, <3>2, <3>3
  <2> QED
    BY <1>2, <2>2, <2>3 DEF AdminMarkAccepted
<1>3. CASE AdminMerge
  <2>1. adm \in Recoveries /\ rec \in RecordRows
    OBVIOUS
  <2>2. adm' \in Recoveries
    BY <1>3, <1>idle, <2>1 DEF AdminMerge, Recoveries
  <2>3. rec' \in RecordRows
    BY <1>3, <2>1 DEF AdminMerge, Recoveries, RecordRows, NoneOrAction
  <2> QED
    BY <1>3, <2>2, <2>3 DEF AdminMerge
<1>4. CASE AdminEffects
  <2>1. op' \in [Actions -> JournalRows] /\ JournalInv'
    <3>1. CASE AdminHolds({"provider_accepted"}) /\ adm.act \in Actions
      <4>1. op[adm.act] \in JournalRows
        BY <3>1
      <4>2. op' = [op EXCEPT ![adm.act].status = "completed"]
        BY <1>4, <3>1 DEF AdminEffects
      <4>3. op'[adm.act] = [op[adm.act] EXCEPT !.status = "completed"]
        BY <3>1, <4>2
      <4>4. op'[adm.act] \in JournalRows /\ op'[adm.act].status \notin Unresolved
        BY <4>1, <4>3 DEF JournalRows, OpStatuses, Unresolved
      <4> QED
        BY <3>1, <4>2, <4>4
    <3>2. CASE ~AdminHolds({"provider_accepted"})
      BY <1>4, <3>2 DEF AdminEffects
    <3>3. CASE adm.act \notin Actions
      BY <1>4, <3>3 DEF AdminEffects
    <3> QED
      BY <3>1, <3>2, <3>3
  <2> QED
    BY <1>4, <1>idle, <2>1 DEF AdminEffects
<1>5. ASSUME NEW a \in Actions, AdminVerify(a) PROVE TypeInv'
  <2>1. op[a] \in JournalRows
    OBVIOUS
  <2>2. adm' \in Recoveries
    BY <1>5, <1>idle, <2>1
    DEF AdminVerify, IdleAdmin, Recoveries, JournalRows, NoneOrAction
  <2> QED
    BY <1>5, <2>2 DEF AdminVerify
<1>6. CASE AdminNotCreated
  <2>1. op' \in [Actions -> JournalRows] /\ JournalInv'
    <3>1. CASE AdminHolds({"prepared", "outcome_unknown"}) /\ adm.act \in Actions
      <4>1. op[adm.act] \in JournalRows
        BY <3>1
      <4>2. op' = [op EXCEPT ![adm.act].status = "definitive_failure"]
        BY <1>6, <3>1 DEF AdminNotCreated
      <4>3. op'[adm.act] = [op[adm.act] EXCEPT !.status = "definitive_failure"]
        BY <3>1, <4>2
      <4>4. op'[adm.act] \in JournalRows /\ op'[adm.act].status \notin Unresolved
        BY <4>1, <4>3 DEF JournalRows, OpStatuses, Unresolved
      <4> QED
        BY <3>1, <4>2, <4>4
    <3>2. CASE ~AdminHolds({"prepared", "outcome_unknown"})
      BY <1>6, <3>2 DEF AdminNotCreated
    <3>3. CASE adm.act \notin Actions
      BY <1>6, <3>3 DEF AdminNotCreated
    <3> QED
      BY <3>1, <3>2, <3>3
  <2> QED
    BY <1>6, <1>idle, <2>1 DEF AdminNotCreated
<1>7. CASE AdminCrash
  BY <1>7, <1>idle DEF AdminCrash
<1>8. ASSUME NEW x \in AppIds, SyncLoad(x) PROVE TypeInv'
  <2>1. sync' \in Imports /\ sync'.app \in AppIds
    BY <1>8 DEF SyncLoad, Imports
  <2> QED
    BY <1>8, <2>1 DEF SyncLoad
<1>9. CASE SyncApply
  <2>1. imported' \subseteq AppIds
    BY <1>9 DEF SyncApply
  <2>2. ImportInv'
    BY <1>9 DEF SyncApply, IdleSync
  <2> QED
    BY <1>9, <1>idle, <2>1, <2>2 DEF SyncApply
<1> QED
  BY <1>1, <1>2, <1>3, <1>4, <1>5, <1>6, <1>7, <1>8, <1>9 DEF Administrator, Sync

LEMMA TypeStep == TypeInv /\ [Next]_vars => TypeInv'
PROOF
<1> SUFFICES ASSUME TypeInv, [Next]_vars PROVE TypeInv'
  OBVIOUS
<1>1. CASE UNCHANGED vars
  BY <1>1 DEF vars, TypeInv, TypeOK, HandlerInv, JournalInv, ImportInv
<1>2. ASSUME NEW w \in Workers, Handler(w) PROVE TypeInv'
  BY <1>2, ClaimSteps, SendSteps, OutcomeSteps DEF Handler
<1> QED
  BY <1>1, <1>2, LocalSteps, XeroSteps, AdminSteps DEF Next

(* Every variable keeps its type, whatever the handlers, Xero, payroll staff,
   the administrator and the sync do, in any order. *)
THEOREM TypeCorrect == Spec => []TypeOK
PROOF
<1>1. Spec => []TypeInv
  BY InitTypeInv, TypeStep, PTL DEF Spec
<1>2. TypeInv => TypeOK
  BY DEF TypeInv
<1> QED
  BY <1>1, <1>2, PTL

-----------------------------------------------------------------------------
(* Attempts.  Only claimSubmitOperation opens a journal row or starts an
   attempt; every other step leaves the generations alone, resolves rows and
   ends attempts. *)
RowsKept ==
  \A a \in Actions :
    /\ op'[a].gen = op[a].gen
    /\ op'[a].status \in Unresolved => op[a].status \in Unresolved

AttemptsKept ==
  \A v \in Workers :
    InAttempt(v)' => /\ InAttempt(v)
                     /\ wrk'[v].act = wrk[v].act
                     /\ wrk'[v].gen = wrk[v].gen

(* A change of one row's status within what the row may become. *)
LEMMA RowUpdate ==
  ASSUME op \in [Actions -> JournalRows], NEW a, NEW s, NEW x,
         \/ op' = [op EXCEPT ![a].status = s]
         \/ op' = [op EXCEPT ![a].status = s, ![a].known = x],
         a \in Actions /\ s \in Unresolved => op[a].status \in Unresolved
  PROVE  RowsKept
BY DEF RowsKept, JournalRows

LEMMA HandlerKeeps ==
  ASSUME TypeInv, NEW w \in Workers, Handler(w), ~PrepareAndClaim(w)
  PROVE  RowsKept /\ AttemptsKept
PROOF
<1> DEFINE a == wrk[w].act
<1>op. op \in [Actions -> JournalRows] /\ wrk \in [Workers -> Handlers]
  BY DEF TypeInv, TypeOK
<1>same. ASSUME op' = op PROVE RowsKept
  BY <1>same DEF RowsKept
<1>idle. ASSUME wrk' = Idle(w) PROVE AttemptsKept
  BY <1>op, <1>idle DEF AttemptsKept, InAttempt, Idle, IdleWorker
<1>move. ASSUME NEW row, wrk' = [wrk EXCEPT ![w] = row],
                \/ row.pc \in {"loaded", "local", "persist_refusal", "persist_doubt"}
                \/ InAttempt(w) /\ row.act = wrk[w].act /\ row.gen = wrk[w].gen
         PROVE  AttemptsKept
  BY <1>op, <1>move DEF AttemptsKept, InAttempt
<1>1. ASSUME NEW b \in Offered, Load(w, b) PROVE RowsKept /\ AttemptsKept
  <2> DEFINE row == [IdleWorker EXCEPT
                       !.pc = "loaded", !.act = b, !.status = rec.status,
                       !.failed = IF rec.failed = b THEN b ELSE "none",
                       !.seq = rec.seq, !.remote = rec.remote]
  <2>1. wrk' = [wrk EXCEPT ![w] = row] /\ op' = op
    BY <1>1 DEF Load, journalVars
  <2>2. row.pc = "loaded"
    BY DEF IdleWorker
  <2> HIDE DEF row
  <2> QED
    BY <1>same, <1>move, <2>1, <2>2
<1>2. CASE Conflict(w) \/ Throw(w) \/ Crash(w) \/ PersistFailure(w)
           \/ DispatchRefused(w)
  BY <1>2, <1>same, <1>idle
  DEF Conflict, Throw, Crash, PersistFailure, DispatchRefused, journalVars
<1>3. CASE AcquireLocalClaim(w)
  <2>1. wrk' = [wrk EXCEPT ![w] = [wrk[w] EXCEPT !.pc = "local"]]
    BY <1>3 DEF AcquireLocalClaim
  <2>2. [wrk[w] EXCEPT !.pc = "local"].pc = "local"
    BY <1>op DEF Handlers
  <2> QED
    BY <1>3, <1>same, <1>move, <2>1, <2>2 DEF AcquireLocalClaim, journalVars
<1>4. CASE DispatchStarted(w)
  <2>1. op' = [op EXCEPT ![a].status = "outcome_unknown"]
    BY <1>4 DEF DispatchStarted
  <2>2. op[a].status \in Unresolved
    BY <1>4 DEF DispatchStarted, MayDispatch, HoldsAttempt, Unresolved
  <2>3. RowsKept
    BY <1>op, <2>1, <2>2, RowUpdate
  <2>4. AttemptsKept
    BY <1>4, <1>op DEF DispatchStarted, At, AttemptsKept, InAttempt, Handlers
  <2> QED
    BY <2>3, <2>4
<1>5. CASE Send(w) \/ NotSent(w) \/ LoseAnswer(w)
  <2>1. op' = op
    BY <1>5 DEF Send, NotSent, LoseAnswer, journalVars
  <2>2. AttemptsKept
    BY <1>5, <1>op DEF Send, NotSent, LoseAnswer, At, AttemptsKept, InAttempt, Handlers
  <2> QED
    BY <1>same, <2>1, <2>2
<1>6. CASE RecordAccepted(w)
  <2>1. CASE HoldsAttempt(w, {"outcome_unknown"})
    <3>1. op' = [op EXCEPT ![a].status = "provider_accepted", ![a].known = wrk[w].app]
      BY <1>6, <2>1 DEF RecordAccepted
    <3>2. op[a].status \in Unresolved
      BY <2>1 DEF HoldsAttempt, Unresolved
    <3>3. RowsKept
      BY <1>op, <3>1, <3>2, RowUpdate
    <3> DEFINE row == [wrk[w] EXCEPT !.pc = "accepted", !.doubts = {}]
    <3>4. wrk' = [wrk EXCEPT ![w] = row]
      BY <1>6, <2>1 DEF RecordAccepted
    <3>5. InAttempt(w) /\ row.act = wrk[w].act /\ row.gen = wrk[w].gen
      BY <1>6, <1>op DEF RecordAccepted, At, InAttempt, Handlers
    <3> HIDE DEF row
    <3>6. AttemptsKept
      BY <1>move, <3>4, <3>5
    <3> QED
      BY <3>3, <3>6
  <2>2. CASE ~HoldsAttempt(w, {"outcome_unknown"})
    BY <1>6, <1>same, <1>idle, <2>2 DEF RecordAccepted
  <2> QED
    BY <2>1, <2>2
<1>7. CASE RecordFailure(w)
  <2>1. op' = op \/ op' = [op EXCEPT ![a].status = "definitive_failure"]
    BY <1>7 DEF RecordFailure
  <2>2. "definitive_failure" \notin Unresolved
    BY DEF Unresolved
  <2>3. RowsKept
    BY <1>op, <1>same, <2>1, <2>2, RowUpdate
  <2> DEFINE row == [IdleWorker EXCEPT
                       !.pc = IF Definitive(w) THEN "persist_refusal"
                              ELSE "persist_doubt",
                       !.act = wrk[w].act, !.status = wrk[w].status,
                       !.seq = wrk[w].seq]
  <2>4. row.pc \in {"persist_refusal", "persist_doubt"}
    BY DEF IdleWorker
  <2>5. wrk' = Idle(w) \/ wrk' = [wrk EXCEPT ![w] = row]
    BY <1>7 DEF RecordFailure
  <2> HIDE DEF row
  <2> QED
    BY <1>idle, <1>move, <2>3, <2>4, <2>5
<1>8. CASE Commit(w)
  <2> DEFINE row == [IdleWorker EXCEPT !.pc = "effects", !.act = wrk[w].act,
                                       !.gen = wrk[w].gen]
  <2>1. op' = op
    BY <1>8 DEF Commit, journalVars
  <2>2. CASE HoldsRecord(w) /\ At(w, "accepted")
    <3>1. wrk' = [wrk EXCEPT ![w] = row]
      BY <1>8, <2>2 DEF Commit
    <3>2. InAttempt(w) /\ row.act = wrk[w].act /\ row.gen = wrk[w].gen
      BY <2>2 DEF InAttempt, At, IdleWorker
    <3> HIDE DEF row
    <3> QED
      BY <1>same, <1>move, <2>1, <3>1, <3>2
  <2>3. CASE ~(HoldsRecord(w) /\ At(w, "accepted"))
    BY <1>8, <1>same, <1>idle, <2>1, <2>3 DEF Commit
  <2> QED
    BY <2>2, <2>3
<1>9. CASE CompleteEffects(w)
  <2>1. op' = op \/ op' = [op EXCEPT ![a].status = "completed"]
    BY <1>9 DEF CompleteEffects
  <2>2. "completed" \notin Unresolved
    BY DEF Unresolved
  <2>3. RowsKept
    BY <1>op, <1>same, <2>1, <2>2, RowUpdate
  <2> QED
    BY <1>9, <1>idle, <2>3 DEF CompleteEffects
<1> QED
  BY <1>1, <1>2, <1>3, <1>4, <1>5, <1>6, <1>7, <1>8, <1>9 DEF Handler

LEMMA OthersKeep ==
  ASSUME TypeInv,
         \/ Submit \/ RevertApprovalAttempt \/ Clock
         \/ Xero \/ PayrollStaff \/ Administrator \/ Sync
  PROVE  RowsKept /\ AttemptsKept
PROOF
<1>op. op \in [Actions -> JournalRows] /\ wrk \in [Workers -> Handlers]
  BY DEF TypeInv, TypeOK
<1>same. ASSUME op' = op PROVE RowsKept
  BY <1>same DEF RowsKept
<1>still. ASSUME wrk' = wrk PROVE AttemptsKept
  BY <1>still DEF AttemptsKept, InAttempt
<1>1. CASE Submit \/ RevertApprovalAttempt \/ Clock \/ PayrollStaff \/ Sync
  BY <1>1, <1>same, <1>still
  DEF Submit, RevertApprovalAttempt, Clock, ExpireClaim, CloseWindow,
      PayrollStaff, EditInXero, Sync, SyncLoad, SyncApply, journalVars
<1>2. ASSUME NEW m \in net, XeroAccepts(m) \/ XeroRefuses(m)
      PROVE  RowsKept /\ AttemptsKept
  <2>1. op' = op
    BY <1>2 DEF XeroAccepts, XeroRefuses, journalVars
  <2>2. PICK pc \in {"ok", "refused", "unsure"} : Answers(m, pc)
    BY <1>2 DEF XeroAccepts, XeroRefuses, AfterRefusal
  <2>3. AttemptsKept
    BY <1>op, <2>2 DEF Answers, AttemptsKept, InAttempt, Handlers
  <2> QED
    BY <1>same, <2>1, <2>3
<1>3. CASE Administrator
  <2>1. wrk' = wrk
    BY <1>3 DEF Administrator, AdminOpen, AdminMarkAccepted, AdminMerge,
                AdminEffects, AdminVerify, AdminNotCreated, AdminCrash
  <2>2. RowsKept
    <3>1. CASE AdminMarkAccepted
      <4>1. \/ op' = op
            \/ /\ op' = [op EXCEPT ![adm.act].status = "provider_accepted",
                                   ![adm.act].known = adm.app]
               /\ op[adm.act].status \in Unresolved
        BY <3>1 DEF AdminMarkAccepted, AdminHolds, Unresolved
      <4> QED
        BY <1>op, <1>same, <4>1, RowUpdate
    <3>2. CASE AdminEffects
      <4>1. op' = op \/ op' = [op EXCEPT ![adm.act].status = "completed"]
        BY <3>2 DEF AdminEffects
      <4>2. "completed" \notin Unresolved
        BY DEF Unresolved
      <4> QED
        BY <1>op, <1>same, <4>1, <4>2, RowUpdate
    <3>3. CASE AdminNotCreated
      <4>1. op' = op \/ op' = [op EXCEPT ![adm.act].status = "definitive_failure"]
        BY <3>3 DEF AdminNotCreated
      <4>2. "definitive_failure" \notin Unresolved
        BY DEF Unresolved
      <4> QED
        BY <1>op, <1>same, <4>1, <4>2, RowUpdate
    <3> QED
      BY <1>3, <1>same, <3>1, <3>2, <3>3
      DEF Administrator, AdminOpen, AdminMerge, AdminVerify, AdminCrash, journalVars
  <2> QED
    BY <1>still, <2>1, <2>2
<1> QED
  BY <1>1, <1>2, <1>3 DEF Xero

(* The one step that opens a row: it finds every other row resolved and gives
   the attempt a generation the row has not had. *)
LEMMA PrepareOpens ==
  ASSUME TypeInv, NEW w \in Workers, PrepareAndClaim(w)
  PROVE  LET a == wrk[w].act IN
         /\ a \in Actions
         /\ op'[a].gen = op[a].gen + 1
         /\ \A b \in Actions \ {a} : op'[b] = op[b] /\ op[b].status \notin Unresolved
         /\ wrk'[w].act = a /\ wrk'[w].gen = op'[a].gen
         /\ \A v \in Workers \ {w} : wrk'[v] = wrk[v]
PROOF
<1> DEFINE a == wrk[w].act
           row == IF Replays(a) THEN [op[a] EXCEPT !.gen = NextGeneration(a)]
                  ELSE [status |-> "prepared", gen |-> NextGeneration(a),
                        key |-> NextGeneration(a), known |-> wrk[w].remote]
<1>1. a \in Actions /\ op[a] \in JournalRows /\ wrk[w] \in Handlers
  BY DEF PrepareAndClaim, At, TypeInv, TypeOK, HandlerInv
<1>2. op' = [op EXCEPT ![a] = row]
  BY DEF PrepareAndClaim
<1>3. row.gen = op[a].gen + 1
  BY <1>1 DEF NextGeneration, JournalRows
<1> HIDE DEF row
<1>4. op'[a] = row /\ \A b \in Actions \ {a} : op'[b] = op[b]
  BY <1>1, <1>2 DEF TypeInv, TypeOK
<1>5. wrk'[w].act = a /\ wrk'[w].gen = op[a].gen + 1
  BY <1>1 DEF PrepareAndClaim, NextGeneration, Handlers, TypeInv, TypeOK
<1>6. \A v \in Workers \ {w} : wrk'[v] = wrk[v]
  BY DEF PrepareAndClaim, TypeInv, TypeOK
<1>7. \A b \in Actions \ {a} : op[b].status \notin Unresolved
  BY DEF PrepareAndClaim, NoOtherUnresolved
<1> QED
  BY <1>1, <1>3, <1>4, <1>5, <1>6, <1>7

LEMMA NextKeepsOrPrepares ==
  ASSUME TypeInv, [Next]_vars
  PROVE  (RowsKept /\ AttemptsKept) \/ \E w \in Workers : PrepareAndClaim(w)
PROOF
<1>1. CASE UNCHANGED vars
  BY <1>1 DEF vars, RowsKept, AttemptsKept, InAttempt
<1> QED
  BY <1>1, HandlerKeeps, OthersKeep DEF Next

(* The journal has at most one unresolved row of the record, so a recovery that
   refuses to act on two (getRecoveryOperation) always has one to act on. *)
THEOREM OneUnresolvedRow == Spec => []SingleUnresolved
PROOF
<1>1. Init => SingleUnresolved
  BY DEF Init, SingleUnresolved, Unresolved
<1>2. TypeInv /\ SingleUnresolved /\ [Next]_vars => SingleUnresolved'
  <2> SUFFICES ASSUME TypeInv, SingleUnresolved, [Next]_vars
               PROVE  SingleUnresolved'
    OBVIOUS
  <2>1. CASE RowsKept
    BY <2>1 DEF RowsKept, SingleUnresolved
  <2>2. ASSUME NEW w \in Workers, PrepareAndClaim(w) PROVE SingleUnresolved'
    <3>1. \A b \in Actions \ {wrk[w].act} : op'[b].status \notin Unresolved
      BY <2>2, PrepareOpens
    <3> QED
      BY <3>1 DEF SingleUnresolved
  <2> QED
    BY <2>1, <2>2, NextKeepsOrPrepares
<1> QED
  BY <1>1, <1>2, InitTypeInv, TypeStep, PTL DEF Spec

(* An attempt's generation is at most its row's: the row's is the newest. *)
NoAttemptAhead ==
  \A v \in Workers : InAttempt(v) => wrk[v].gen =< op[wrk[v].act].gen

(* Two handlers never both match the journal row of one action: whoever takes an
   attempt over gets a generation no handler has, so the compare-and-set of
   the one that lost its lease fails for ever. *)
THEOREM AttemptsFenced == Spec => []FencedAttempts
PROOF
<1> DEFINE FInv == NoAttemptAhead /\ FencedAttempts
<1>1. Init => FInv
  BY DEF Init, NoAttemptAhead, FencedAttempts, InAttempt, IdleWorker
<1>2. TypeInv /\ FInv /\ [Next]_vars => FInv'
  <2> SUFFICES ASSUME TypeInv, FInv, [Next]_vars PROVE FInv'
    OBVIOUS
  <2>1. CASE RowsKept /\ AttemptsKept
    <3>1. \A v \in Workers : InAttempt(v)' => wrk[v].act \in Actions
      BY <2>1 DEF AttemptsKept, InAttempt, TypeInv, HandlerInv
    <3>2. NoAttemptAhead'
      BY <2>1, <3>1 DEF RowsKept, AttemptsKept, NoAttemptAhead
    <3>3. FencedAttempts'
      BY <2>1 DEF AttemptsKept, FencedAttempts
    <3> QED
      BY <3>2, <3>3
  <2>2. ASSUME NEW w \in Workers, PrepareAndClaim(w) PROVE FInv'
    <3> DEFINE a == wrk[w].act
    <3>1. /\ a \in Actions
          /\ op'[a].gen = op[a].gen + 1
          /\ \A b \in Actions \ {a} : op'[b] = op[b]
          /\ wrk'[w].act = a /\ wrk'[w].gen = op'[a].gen
          /\ \A v \in Workers \ {w} : wrk'[v] = wrk[v]
      BY <2>2, PrepareOpens
    <3>2. \A v \in Workers : InAttempt(v) =>
            wrk[v].act \in Actions /\ wrk[v].gen \in Nat
      BY DEF InAttempt, TypeInv, TypeOK, HandlerInv, Handlers
    <3>3. op[a].gen \in Nat
      BY <3>1 DEF TypeInv, TypeOK, JournalRows
    <3>4. \A v \in Workers \ {w} : InAttempt(v)' =>
            /\ wrk'[v].gen =< op[wrk'[v].act].gen
            /\ wrk'[v].act = a => wrk'[v].gen < op'[a].gen
            /\ wrk'[v].gen =< op'[wrk'[v].act].gen
      <4> SUFFICES ASSUME NEW v \in Workers \ {w}, InAttempt(v)'
                   PROVE  /\ wrk'[v].gen =< op[wrk'[v].act].gen
                          /\ wrk'[v].act = a => wrk'[v].gen < op'[a].gen
                          /\ wrk'[v].gen =< op'[wrk'[v].act].gen
        OBVIOUS
      <4>1. InAttempt(v) /\ wrk'[v] = wrk[v]
        BY <3>1 DEF InAttempt
      <4>2. wrk[v].gen =< op[wrk[v].act].gen
        BY <4>1 DEF NoAttemptAhead
      <4>3. CASE wrk[v].act = a
        BY <3>1, <3>2, <3>3, <4>1, <4>2, <4>3
      <4>4. CASE wrk[v].act # a
        <5>1. op'[wrk[v].act] = op[wrk[v].act]
          BY <3>1, <3>2, <4>1, <4>4
        <5> QED
          BY <4>1, <4>2, <4>4, <5>1
      <4> QED
        BY <4>3, <4>4
    <3>5. NoAttemptAhead'
      <4>1. wrk'[w].gen =< op'[wrk'[w].act].gen
        BY <3>1, <3>3
      <4> QED
        BY <3>4, <4>1 DEF NoAttemptAhead
    <3>6. \A v \in Workers \ {w} : InAttempt(v)' /\ wrk'[v].act = a =>
            wrk'[v].gen # op'[a].gen
      <4> SUFFICES ASSUME NEW v \in Workers \ {w}, InAttempt(v)', wrk'[v].act = a
                   PROVE  wrk'[v].gen # op'[a].gen
        OBVIOUS
      <4>1. wrk'[v].gen \in Nat /\ op'[a].gen \in Nat
        BY <3>1, <3>2, <3>3 DEF InAttempt
      <4> QED
        BY <3>4, <4>1
    <3>7. \A u, v \in Workers \ {w} :
            /\ InAttempt(u)' /\ InAttempt(v)'
            /\ wrk'[u].act = wrk'[v].act /\ wrk'[u].gen = wrk'[v].gen
            => u = v
      BY <3>1 DEF FencedAttempts, InAttempt
    <3> QED
      BY <3>1, <3>5, <3>6, <3>7 DEF FencedAttempts
  <2> QED
    BY <2>1, <2>2, NextKeepsOrPrepares
<1>3. FInv => FencedAttempts
  OBVIOUS
<1> HIDE DEF FInv
<1> QED
  BY <1>1, <1>2, <1>3, InitTypeInv, TypeStep, PTL DEF Spec

=============================================================================
