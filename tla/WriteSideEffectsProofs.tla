----------------------- MODULE WriteSideEffectsProofs -----------------------
(***************************************************************************)
(* Theorems about WriteSideEffects for every set of finishers.             *)
(***************************************************************************)
EXTENDS WriteSideEffects, TLAPS

(* The row lock is held exactly by the finisher in its notification            *)
(* transaction, which is then the holder; while it creates, nobody has noted   *)
(* the notification; and whatever was created is noted.                        *)
InTransaction(f) == pc[f] \in {"fenced", "creating"}

LockInv ==
  \A f \in Finishers :
    /\ InTransaction(f) <=> lock = f
    /\ InTransaction(f) => holder = f

NoteInv ==
  /\ \A f \in Finishers : pc[f] = "creating" => ~Noted
  /\ ~Noted => notices = 0
  /\ notices =< 1

Inv == TypeOK /\ LockInv /\ NoteInv

LEMMA InitInv == Init => Inv
BY FinisherAssumption
DEF Init, Inv, TypeOK, LockInv, NoteInv, InTransaction, Noted, PCs, Marks

LEMMA TypeStep == TypeOK /\ [Next]_vars => TypeOK'
PROOF
<1> SUFFICES ASSUME TypeOK, [Next]_vars PROVE TypeOK'
  OBVIOUS
<1>1. CASE UNCHANGED vars
  BY <1>1 DEF vars, TypeOK
<1>2. CASE ExpireLease
  BY <1>2 DEF ExpireLease, TypeOK, effectVars
<1>3. ASSUME NEW f \in Finishers, Acquire(f) \/ Progress(f) \/ Fail(f) \/ Stop(f)
      PROVE  TypeOK'
  <2> USE DEF TypeOK, claimVars, effectVars, Go
  <2>1. CASE Acquire(f)
    BY <2>1 DEF Acquire, PCs
  <2>2. CASE ReadCheckpoint(f)
    BY <2>2 DEF ReadCheckpoint, PCs
  <2>3. CASE Publish(f) \/ MarkPublished(f)
    BY <2>3 DEF Publish, MarkPublished, PCs, Marks
  <2>4. CASE TellNobody(f) \/ Send(f)
    BY <2>4 DEF TellNobody, Send, PCs
  <2>5. CASE Fence(f)
    BY <2>5 DEF Fence, LockFor, PCs
  <2>6. CASE ReadNotice(f)
    <3>1. pc' \in [Finishers -> PCs]
      BY <2>6 DEF ReadNotice, PCs
    <3> QED
      BY <2>6, <3>1 DEF ReadNotice
  <2>7. ASSUME NEW kind \in {"stored_notice", "mailed_notice"}, CreateNotice(f, kind)
        PROVE  TypeOK'
    BY <2>7 DEF CreateNotice, PCs, Marks
  <2>8. CASE Complete(f)
    BY <2>8 DEF Complete, PCs
  <2>9. CASE Release(f)
    BY <2>9 DEF Release, PCs
  <2>10. CASE Fail(f) \/ Stop(f)
    BY <2>10 DEF Fail, Stop, AfterFailure, PCs
  <2> QED
    BY <1>3, <2>1, <2>2, <2>3, <2>4, <2>5, <2>6, <2>7, <2>8, <2>9, <2>10
    DEF Progress
<1> QED
  BY <1>1, <1>2, <1>3 DEF Next

LEMMA LockStep == TypeOK /\ LockInv /\ [Next]_vars => LockInv'
PROOF
<1> SUFFICES ASSUME TypeOK, LockInv, [Next]_vars PROVE LockInv'
  OBVIOUS
<1> USE FinisherAssumption DEF LockInv, InTransaction, claimVars, effectVars, Go
<1>0. pc \in [Finishers -> PCs]
  BY DEF TypeOK
<1>1. CASE UNCHANGED vars
  BY <1>1 DEF vars
<1>2. CASE ExpireLease
  BY <1>2 DEF ExpireLease
<1>3. ASSUME NEW f \in Finishers, Acquire(f) \/ Progress(f) \/ Fail(f) \/ Stop(f)
      PROVE  LockInv'
  <2>1. CASE Acquire(f)
    BY <1>0, <2>1 DEF Acquire
  <2>2. CASE ReadCheckpoint(f) \/ Publish(f) \/ MarkPublished(f) \/ TellNobody(f)
             \/ Send(f) \/ Complete(f)
    BY <1>0, <2>2
    DEF ReadCheckpoint, Publish, MarkPublished, TellNobody, Send, Complete
  <2>3. CASE Fence(f)
    BY <1>0, <2>3 DEF Fence, Fenced, LockFor
  <2>4. CASE ReadNotice(f)
    BY <1>0, <2>4 DEF ReadNotice, Noted
  <2>5. ASSUME NEW kind \in {"stored_notice", "mailed_notice"}, CreateNotice(f, kind)
        PROVE  LockInv'
    BY <1>0, <2>5 DEF CreateNotice
  <2>6. CASE Release(f)
    BY <1>0, <2>6 DEF Release, Fenced
  <2>7. CASE Fail(f) \/ Stop(f)
    BY <1>0, <2>7 DEF Fail, Stop, AfterFailure
  <2> QED
    BY <1>3, <2>1, <2>2, <2>3, <2>4, <2>5, <2>6, <2>7 DEF Progress
<1> QED
  BY <1>1, <1>2, <1>3 DEF Next

LEMMA NoteStep == TypeOK /\ LockInv /\ NoteInv /\ [Next]_vars => NoteInv'
PROOF
<1> SUFFICES ASSUME TypeOK, LockInv, NoteInv, [Next]_vars PROVE NoteInv'
  OBVIOUS
<1> USE DEF NoteInv, Noted, claimVars, effectVars, Go
<1>0. pc \in [Finishers -> PCs] /\ notices \in 0 .. 2
  BY DEF TypeOK
<1>1. CASE UNCHANGED vars
  BY <1>1 DEF vars
<1>2. CASE ExpireLease
  BY <1>2 DEF ExpireLease
<1>3. ASSUME NEW f \in Finishers, Acquire(f) \/ Progress(f) \/ Fail(f) \/ Stop(f)
      PROVE  NoteInv'
  <2>1. CASE Acquire(f) \/ ReadCheckpoint(f) \/ Publish(f) \/ TellNobody(f)
             \/ Fence(f) \/ Send(f) \/ Complete(f) \/ Release(f)
    BY <1>0, <2>1
    DEF Acquire, ReadCheckpoint, Publish, TellNobody, Fence, Send, Complete, Release
  <2>2. CASE MarkPublished(f)
    BY <1>0, <2>2 DEF MarkPublished
  <2>3. CASE ReadNotice(f)
    BY <1>0, <2>3 DEF ReadNotice
  <2>4. ASSUME NEW kind \in {"stored_notice", "mailed_notice"}, CreateNotice(f, kind)
        PROVE  NoteInv'
    <3>1. \A g \in Finishers : pc'[g] # "creating"
      BY <1>0, <2>4 DEF CreateNotice, LockInv, InTransaction
    <3>2. notices' = 1 /\ kind \in marks'
      BY <1>0, <2>4 DEF CreateNotice
    <3> QED
      BY <3>1, <3>2
  <2>5. CASE Fail(f) \/ Stop(f)
    BY <1>0, <2>5 DEF Fail, Stop, AfterFailure
  <2> QED
    BY <1>3, <2>1, <2>2, <2>3, <2>4, <2>5 DEF Progress
<1> QED
  BY <1>1, <1>2, <1>3 DEF Next

LEMMA InvAlways == Spec => []Inv
PROOF
<1>1. Inv /\ [Next]_vars => Inv'
  BY TypeStep, LockStep, NoteStep DEF Inv
<1> QED
  BY InitInv, <1>1, PTL DEF Spec

(* Nobody is told twice of one decision, however many requests finish the
   operation and wherever each of them fails, dies or loses its lease. *)
THEOREM NoticesAtMostOnce == Spec => []NotifiedOnce
PROOF
<1>1. Inv => NotifiedOnce
  BY DEF Inv, NoteInv, NotifiedOnce
<1> QED
  BY InvAlways, <1>1, PTL

(* Only the request that holds the lease creates the notification. *)
THEOREM NoticesFenced == Spec => OnlyHolderNotifies
PROOF
<1> DEFINE Fencing == \A f \in Finishers :
             pc[f] = "creating" /\ pc'[f] \in {"sending", "completing"} => holder = f
<1>1. Inv => Fencing
  BY DEF Inv, LockInv, InTransaction
<1>2. Spec => [][Fencing]_vars
  BY InvAlways, <1>1, PTL DEF Spec
<1> QED
  BY <1>2 DEF OnlyHolderNotifies

(* What each finisher may rely on by the time it is where it is: the parts of  *)
(* the work before it are done, by itself or by another, and recorded.         *)
Done ==
  /\ published = "decision"
  /\ recipient = "somebody" => Noted
  /\ "stored_notice" \in marks => told = "yes"

WorkInv ==
  /\ "publication" \in marks => published = "decision"
  /\ Noted => notices >= 1 /\ recipient = "somebody"
  /\ ~({"stored_notice", "mailed_notice"} \subseteq marks)
  /\ \A f \in Finishers :
       /\ pc[f] \in {"published", "telling", "fenced", "creating", "sending"} =>
            published = "decision"
       /\ pc[f] \in {"fenced", "creating", "sending"} => recipient = "somebody"
       /\ pc[f] = "sending" => "stored_notice" \in marks
       /\ pc[f] = "completing" => Done
  /\ status = "completed" => Done

LEMMA WorkStep == Inv /\ WorkInv /\ [Next]_vars => WorkInv'
PROOF
<1> SUFFICES ASSUME Inv, WorkInv, [Next]_vars PROVE WorkInv'
  OBVIOUS
<1> USE DEF WorkInv, Done, Noted, claimVars, effectVars, Go
<1>0. /\ pc \in [Finishers -> PCs] /\ notices \in 0 .. 2
      /\ \A g \in Finishers : pc[g] = "creating" => ~Noted
  BY DEF Inv, TypeOK, NoteInv
<1>1. CASE UNCHANGED vars
  BY <1>1 DEF vars
<1>2. CASE ExpireLease
  BY <1>2 DEF ExpireLease
<1>3. ASSUME NEW f \in Finishers, Acquire(f) \/ Progress(f) \/ Fail(f) \/ Stop(f)
      PROVE  WorkInv'
  <2>1. CASE Acquire(f) \/ ReadCheckpoint(f)
    BY <1>0, <2>1 DEF Acquire, ReadCheckpoint
  <2>2. CASE Publish(f)
    BY <1>0, <2>2 DEF Publish
  <2>3. CASE MarkPublished(f)
    BY <1>0, <2>3 DEF MarkPublished
  <2>4. CASE TellNobody(f) \/ Fence(f)
    BY <1>0, <2>4 DEF TellNobody, Fence
  <2>5. CASE ReadNotice(f)
    BY <1>0, <2>5 DEF ReadNotice
  <2>6. CASE Send(f)
    BY <1>0, <2>6 DEF Send
  <2>7. CASE Complete(f) \/ Release(f)
    BY <1>0, <2>7 DEF Complete, Release
  <2>8. CASE Fail(f) \/ Stop(f)
    BY <1>0, <2>8 DEF Fail, Stop, AfterFailure
  <2>9. ASSUME NEW kind \in {"stored_notice", "mailed_notice"}, CreateNotice(f, kind)
        PROVE  WorkInv'
    <3>1. /\ ~Noted /\ recipient = "somebody" /\ published = "decision"
          /\ marks' = marks \cup {kind} /\ notices' >= 1
      BY <1>0, <2>9 DEF CreateNotice
    <3>2. /\ status # "completed"
          /\ \A g \in Finishers : pc[g] \notin {"sending", "completing"}
      BY <3>1
    <3>3. /\ UNCHANGED <<status, recipient, published, told>>
          /\ pc'[f] = IF kind = "stored_notice" THEN "sending" ELSE "completing"
          /\ \A g \in Finishers \ {f} : pc'[g] = pc[g]
      BY <1>0, <2>9 DEF CreateNotice
    <3> QED
      BY <1>0, <3>1, <3>2, <3>3
  <2> QED
    BY <1>3, <2>1, <2>2, <2>3, <2>4, <2>5, <2>6, <2>7, <2>8, <2>9 DEF Progress
<1> QED
  BY <1>1, <1>2, <1>3 DEF Next

(* The journal row says completed only when all of the work is done, though
   completing it asks for no lease: a finisher that lost its lease and completes
   the row relies on work that is done whoever did it. *)
THEOREM CompletionSound == Spec => []CompletedIsFinished
PROOF
<1>1. Init => WorkInv
  BY DEF Init, WorkInv, Done, Noted
<1>2. Inv /\ WorkInv => CompletedIsFinished
  BY DEF WorkInv, Done, CompletedIsFinished, Noted
<1> QED
  BY InvAlways, <1>1, <1>2, WorkStep, PTL DEF Spec

=============================================================================
