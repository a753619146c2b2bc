---------------------------- MODULE SyncRunsProofs ----------------------------
(***************************************************************************)
(* Theorems about SyncRuns for every number of handlers, runs, pages,      *)
(* attempts and faults: its type invariant, one running row per run type,  *)
(* and that the rows and the handlers implement RunLease.                  *)
(***************************************************************************)
EXTENDS SyncRuns, FiniteSetTheorems, TLAPS

RunRows == [type : Types, status : Statuses, live : BOOLEAN, cancel : BOOLEAN]

Conns == [live : BOOLEAN, request : 0 .. MaxConnects, completed : BOOLEAN,
          page : 0 .. Pages - 1, failed : BOOLEAN]

\* What a handler keeps.
Locals == [pc : {"idle", "begin", "acquired", "fetched", "failing", "committed",
                 "fenced", "done", "crashed"},
           type : Types, run : RunIds \cup {NoRun}, page : 0 .. Pages - 1,
           flag : BOOLEAN, outcome : {"ok", "partial"} \cup Terminal,
           tries : 0 .. Attempts]

JobRows == [pc : Phases \cup {"idle"}, request : 0 .. MaxConnects,
            tries : 0 .. Attempts]

RowsTyped == conn \in Conns /\ runs \in [RunIds -> RunRows]
          /\ hd \in [Handlers -> Locals]

JobTyped  == job \in JobRows /\ queue \subseteq 1 .. MaxConnects
          /\ sent \in BOOLEAN /\ covered \subseteq Roster

InputsTyped ==
  /\ connects \in 0 .. MaxConnects
  /\ manuals \in 0 .. MaxManual
  /\ faults \in 0 .. MaxFaults

LEMMA TypeParts == TypeOK <=> RowsTyped /\ JobTyped /\ InputsTyped
BY DEF TypeOK, RowsTyped, JobTyped, InputsTyped, RunRows, Conns, Locals, JobRows

-----------------------------------------------------------------------------
(* Types *)

LEMMA RowFacts ==
  /\ NoRow \in RunRows /\ Idle \in Locals /\ NoJob \in JobRows
  /\ \A t \in Types, s \in Statuses : Row(t, s) \in RunRows
BY PageAssumption, BoundAssumption
DEF NoRow, Idle, NoJob, Row, RunRows, Locals, JobRows, Types, Statuses, Terminal

LEMMA InitTyped == Init => TypeOK
PROOF
<1> SUFFICES ASSUME Init PROVE TypeOK
  OBVIOUS
<1>1. RowsTyped
  BY RowFacts, PageAssumption, BoundAssumption DEF Init, RowsTyped, Conns
<1>2. JobTyped
  BY RowFacts DEF Init, JobTyped
<1>3. InputsTyped
  BY BoundAssumption DEF Init, InputsTyped
<1> QED
  BY <1>1, <1>2, <1>3, TypeParts

\* Moves of one handler.
LEMMA MoveTyped ==
  ASSUME TypeOK, NEW h \in Handlers, NEW new \in Locals,
         hd' = [hd EXCEPT ![h] = new]
  PROVE  hd' \in [Handlers -> Locals]
BY TypeParts DEF RowsTyped

LEMMA PcTyped ==
  ASSUME TypeOK, NEW h \in Handlers,
         NEW pc \in {"acquired", "failing", "committed", "fenced", "crashed"},
         Goes(h, pc)
  PROVE  /\ hd' \in [Handlers -> Locals]
         /\ hd'[h].pc = pc /\ hd'[h].run = hd[h].run
         /\ hd'[h].type = hd[h].type /\ hd'[h].page = hd[h].page
         /\ \A g \in Handlers : g # h => hd'[g] = hd[g]
BY TypeParts DEF RowsTyped, Goes, Locals

LEMMA EndsTyped ==
  ASSUME TypeOK, NEW h \in Handlers, NEW outcome \in Terminal, Ends(h, outcome)
  PROVE  /\ hd' \in [Handlers -> Locals]
         /\ hd'[h].pc = "done" /\ hd'[h].run = hd[h].run
         /\ hd'[h].type = hd[h].type /\ hd'[h].page = hd[h].page
         /\ \A g \in Handlers : g # h => hd'[g] = hd[g]
PROOF
<1> DEFINE new == [hd[h] EXCEPT !.pc = "done", !.outcome = outcome]
<1>1. hd \in [Handlers -> Locals] /\ hd[h] \in Locals
  BY TypeParts DEF RowsTyped
<1>2. new \in Locals
  BY <1>1 DEF Locals
<1>3. /\ new.pc = "done" /\ new.run = hd[h].run /\ new.type = hd[h].type
      /\ new.page = hd[h].page
  BY <1>1 DEF Locals
<1>4. hd' = [hd EXCEPT ![h] = new]
  BY <1>1 DEF Ends
<1> HIDE DEF new
<1> QED
  BY <1>1, <1>2, <1>3, <1>4

(* The effects of the steps on the rows and on the handlers' locals. *)

\* Handler h moves on, and keeps its run.
Moves(h) ==
  /\ hd' \in [Handlers -> Locals]
  /\ hd'[h].pc # "idle" /\ hd'[h].run = hd[h].run /\ hd'[h].type = hd[h].type
  /\ hd'[h].page \in {hd[h].page, 0} \/ hd[h].type = "leave_balances"
  /\ \A g \in Handlers : g # h => hd'[g] = hd[g]

\* Its row is written with a terminal status.
Closes(h) == \E status \in Terminal :
  runs' = [runs EXCEPT ![hd[h].run] = Row(hd[h].type, status)]

\* A step that reads rows and moves on.
Reads(h) ==
  /\ hd[h].pc # "idle" /\ Moves(h) /\ UNCHANGED runs
  /\ hd'[h].pc # "committed"

\* A step that advances the connection.
Advances(h) ==
  /\ hd[h].pc = "fetched" /\ Moves(h) /\ UNCHANGED runs
  /\ hd'[h].pc = "committed" /\ RunActive(h)

\* A step that ends a run, whose row may have been ended before.
Finishes(h) ==
  /\ hd[h].pc # "idle" /\ Moves(h) /\ hd'[h].pc = "done"
  /\ Closes(h) \/ UNCHANGED runs

\* A handler begins with a run that nobody names.
Begins(h) ==
  /\ hd[h].pc = "idle" /\ UNCHANGED runs
  /\ \E r \in RunIds, t \in Types, tries \in 1 .. Attempts :
       /\ Free(r)
       /\ hd' = [hd EXCEPT ![h] = [Idle EXCEPT !.pc = "begin", !.type = t,
                                               !.run = r, !.tries = tries]]

\* A handler forgets its run.
Leaves(h) ==
  /\ hd[h].pc \in {"done", "crashed"}
  /\ hd' = [hd EXCEPT ![h] = Idle]
  /\ Left(h)

\* A step of neither.
Elsewhere == UNCHANGED <<hd, runs>>

LEMMA HandlerEffect ==
  ASSUME TypeOK, NEW h \in Handlers, HandlerStep(h) \/ Crash(h)
  PROVE  Reads(h) \/ Advances(h) \/ Finishes(h) \/ (Acquire(h) /\ Moves(h))
PROOF
<1> USE DEF Goes, Ends
<1>1. hd \in [Handlers -> Locals] /\ hd[h] \in Locals
  BY TypeParts DEF RowsTyped
<1>2. ASSUME NEW pc \in {"acquired", "failing", "committed", "fenced", "crashed"},
             hd' = [hd EXCEPT ![h].pc = pc]
      PROVE  Moves(h) /\ hd'[h].pc = pc
  BY <1>2, PcTyped DEF Moves
<1>3. ASSUME NEW outcome \in Terminal,
             hd' = [hd EXCEPT ![h].pc = "done", ![h].outcome = outcome]
      PROVE  Moves(h) /\ hd'[h].pc = "done"
  BY <1>3, EndsTyped DEF Moves
<1>4. CASE Resume(h)
  BY <1>2, <1>3, <1>4 DEF Resume, Reads
<1>5. CASE Yield(h)
  <2>1. "cancelled" \in Terminal
    BY DEF Terminal, Statuses
  <2> QED
    BY <1>3, <1>5, <2>1 DEF Yield, Finishes, Closes
<1>6. CASE Acquire(h)
  BY <1>2, <1>6 DEF Acquire
<1>7. CASE Fetch(h)
  <2>1. CASE hd' = [hd EXCEPT ![h].pc = "fenced"] /\ UNCHANGED runs
    BY <1>2, <1>7, <2>1 DEF Fetch, Reads
  <2>2. ASSUME NEW pc \in {"failing", "fetched"},
               NEW outcome \in {"ok", "partial", "failed"},
               NEW page \in 0 .. Pages - 1, NEW flag \in BOOLEAN,
               page = 0 \/ hd[h].type = "leave_balances",
               hd' = [hd EXCEPT ![h].pc = pc, ![h].outcome = outcome,
                                ![h].page = page, ![h].flag = flag],
               UNCHANGED runs, hd[h].pc = "acquired"
        PROVE  Reads(h)
    <3> DEFINE new == [hd[h] EXCEPT !.pc = pc, !.outcome = outcome,
                                    !.page = page, !.flag = flag]
    <3>1. hd' = [hd EXCEPT ![h] = new]
      BY <1>1, <2>2
    <3>2. /\ new \in Locals /\ new.pc = pc /\ new.run = hd[h].run
          /\ new.type = hd[h].type /\ new.page = page
      BY <1>1 DEF Locals, Terminal, Statuses
    <3>3. /\ UNCHANGED runs /\ hd[h].pc = "acquired"
          /\ pc # "idle" /\ pc # "committed"
          /\ page = 0 \/ hd[h].type = "leave_balances"
      BY <2>2
    <3> HIDE DEF new
    <3> QED
      BY <1>1, <3>1, <3>2, <3>3 DEF Reads, Moves
  <2> DEFINE page == IF hd[h].type = "leave_balances" THEN conn.page ELSE 0
             flag == hd[h].type = "leave_balances" /\ conn.failed
  <2>3. /\ page \in 0 .. Pages - 1 /\ flag \in BOOLEAN
        /\ page = 0 \/ hd[h].type = "leave_balances"
    BY TypeParts, PageAssumption DEF RowsTyped, Conns
  <2>4. CASE /\ conn.live
             /\ \E outcome \in {"ok", "partial", "failed"} :
                  hd' = [hd EXCEPT
                    ![h].pc = IF outcome = "failed" THEN "failing" ELSE "fetched",
                    ![h].outcome = outcome, ![h].page = page, ![h].flag = flag]
    <3>1. UNCHANGED runs /\ hd[h].pc = "acquired"
      BY <1>7 DEF Fetch
    <3> HIDE DEF page, flag
    <3>2. PICK outcome \in {"ok", "partial", "failed"} :
             hd' = [hd EXCEPT
               ![h].pc = IF outcome = "failed" THEN "failing" ELSE "fetched",
               ![h].outcome = outcome, ![h].page = page, ![h].flag = flag]
      BY <2>4
    <3> DEFINE pc == IF outcome = "failed" THEN "failing" ELSE "fetched"
    <3>3. hd' = [hd EXCEPT ![h].pc = pc, ![h].outcome = outcome,
                           ![h].page = page, ![h].flag = flag]
      BY <3>2
    <3>4. pc \in {"failing", "fetched"}
      OBVIOUS
    <3> HIDE DEF pc
    <3> QED
      BY <2>2, <2>3, <3>1, <3>3, <3>4
  <2> QED
    BY <1>7, <2>1, <2>4 DEF Fetch
<1>8. CASE Commit(h)
  BY <1>2, <1>8 DEF Commit, Advances
<1>9. CASE CommitPage(h)
  <2> DEFINE outcome == IF hd[h].outcome = "partial"
                             \/ (LastPage(h) /\ SweepFailed(h))
                        THEN "partial" ELSE "ok"
             new == [hd[h] EXCEPT !.pc = "committed", !.outcome = outcome]
  <2>1. hd' = [hd EXCEPT ![h] = new] /\ outcome \in {"ok", "partial"}
    BY <1>1, <1>9 DEF CommitPage
  <2> HIDE DEF outcome
  <2>2. /\ new \in Locals /\ new.pc = "committed" /\ new.run = hd[h].run
        /\ new.type = hd[h].type /\ new.page = hd[h].page
    BY <1>1, <2>1 DEF Locals
  <2> HIDE DEF new
  <2> QED
    BY <1>1, <1>9, <2>1, <2>2 DEF CommitPage, Advances, Moves
<1>10. CASE Fenced(h)
  BY <1>2, <1>10 DEF Fenced, Reads
<1>11. CASE Succeed(h)
  <2>1. hd[h].pc = "committed"
    BY <1>11 DEF Succeed
  <2>2. CASE UNCHANGED runs /\ hd' = [hd EXCEPT ![h].pc = "fenced"]
    BY <1>2, <2>1, <2>2 DEF Reads
  <2>3. ASSUME NEW status \in {"succeeded", "partial_success"},
               runs[hd[h].run].status = "running",
               Completed(h, status), Ends(h, status)
        PROVE  Finishes(h)
    <3>1. status \in Terminal
      BY DEF Terminal, Statuses
    <3>2. Moves(h) /\ hd'[h].pc = "done"
      BY <1>3, <2>3, <3>1
    <3>3. Closes(h)
      BY <2>3, <3>1 DEF Closes, Completed
    <3> QED
      BY <2>1, <2>3, <3>2, <3>3 DEF Finishes
  <2> DEFINE status == IF hd[h].outcome = "ok" THEN "succeeded"
                                               ELSE "partial_success"
  <2>4. \/ UNCHANGED runs /\ hd' = [hd EXCEPT ![h].pc = "fenced"]
        \/ /\ runs[hd[h].run].status = "running"
           /\ Completed(h, status) /\ Ends(h, status)
    BY <1>11 DEF Succeed
  <2>5. status \in {"succeeded", "partial_success"}
    OBVIOUS
  <2> HIDE DEF status
  <2> QED
    BY <2>2, <2>3, <2>4, <2>5
<1>12. CASE GiveUp(h)
  <2>1. ASSUME NEW status \in {"cancelled", "failed"},
               hd[h].pc \in {"fenced", "failing"},
               Completed(h, status), Ends(h, status)
        PROVE  Finishes(h)
    <3>1. status \in Terminal
      BY DEF Terminal, Statuses
    <3>2. Moves(h) /\ hd'[h].pc = "done"
      BY <1>3, <2>1, <3>1
    <3>3. Closes(h) \/ UNCHANGED runs
      BY <2>1, <3>1 DEF Closes, Completed
    <3> QED
      BY <2>1, <3>2, <3>3 DEF Finishes
  <2>2. CASE /\ hd[h].pc = "fenced" /\ Completed(h, "cancelled")
             /\ Ends(h, "cancelled")
    BY <2>1, <2>2
  <2>3. CASE /\ hd[h].pc = "failing" /\ Completed(h, "failed")
             /\ Ends(h, "failed")
    BY <2>1, <2>3
  <2> QED
    BY <1>12, <2>2, <2>3 DEF GiveUp
<1>13. CASE Crash(h)
  BY <1>2, <1>13 DEF Crash, Reads
<1> QED
  BY <1>4, <1>5, <1>6, <1>7, <1>8, <1>9, <1>10, <1>11, <1>12, <1>13
  DEF HandlerStep

LEMMA BeginEffect ==
  ASSUME TypeOK, NEW h \in Handlers, NEW t \in Types, NEW tries \in 1 .. Attempts,
         hd[h].pc = "idle", UNCHANGED runs, Begin(h, t, tries)
  PROVE  Begins(h)
PROOF
<1>1. FreshRun \in RunIds /\ Free(FreshRun)
  <2>1. PICK r \in RunIds : Free(r)
    BY DEF Begin
  <2> QED
    BY <2>1 DEF FreshRun
<1> QED
  BY <1>1 DEF Begin, Begins

\* Every step of the system has one of the effects on rows and handlers, or is
\* a step of time or of an administrator on a row.
LEMMA StepEffect ==
  ASSUME TypeOK, Next
  PROVE  \/ \E h \in Handlers :
              \/ Reads(h) \/ Advances(h) \/ Finishes(h)
              \/ (Acquire(h) /\ Moves(h)) \/ Begins(h) \/ Leaves(h)
              \/ Heartbeat(h)
         \/ \E r \in RunIds : RequestCancel(r) \/ Expire(r)
         \/ Elsewhere
PROOF
<1>1. ASSUME NEW h \in Handlers, HandlerStep(h) \/ Crash(h)
      PROVE  Reads(h) \/ Advances(h) \/ Finishes(h) \/ (Acquire(h) /\ Moves(h))
  BY <1>1, HandlerEffect
<1>2. ASSUME NEW h \in Manual, NEW t \in ManualTypes, ManualSync(h, t)
      PROVE  Begins(h)
  <2>1. h \in Handlers /\ t \in Types /\ Attempts \in 1 .. Attempts
    BY TypesAssumption, BoundAssumption DEF Handlers
  <2> QED
    BY <1>2, <2>1, BeginEffect DEF ManualSync
<1>3. ASSUME NEW h \in Manual, EventStep(h)
      PROVE  Reads(h) \/ Leaves(h)
  <2>1. h \in Handlers
    BY DEF Handlers
  <2>2. CASE EventDone(h)
    BY <2>2 DEF EventDone, Leaves
  <2>3. CASE RetryEvent(h)
    <3>1. CASE hd' = [hd EXCEPT ![h] = Idle] /\ Left(h)
      BY <2>3, <3>1 DEF RetryEvent, Leaves
    <3>2. CASE /\ hd[h].tries > 1 /\ UNCHANGED runs
               /\ hd' = [hd EXCEPT ![h].pc = "begin", ![h].tries = @ - 1]
      <4> DEFINE new == [hd[h] EXCEPT !.pc = "begin", !.tries = @ - 1]
      <4>1. hd \in [Handlers -> Locals] /\ hd[h] \in Locals
        BY <2>1, TypeParts DEF RowsTyped
      <4>2. hd[h].tries - 1 \in 0 .. Attempts
        BY <3>2, <4>1, BoundAssumption DEF Locals
      <4>3. /\ new \in Locals /\ new.pc = "begin" /\ new.run = hd[h].run
            /\ new.type = hd[h].type /\ new.page = hd[h].page
        BY <4>1, <4>2 DEF Locals
      <4>4. hd' = [hd EXCEPT ![h] = new]
        BY <2>1, <3>2, <4>1
      <4> HIDE DEF new
      <4> QED
        BY <2>1, <2>3, <3>2, <4>1, <4>3, <4>4 DEF RetryEvent, Reads, Moves
    <3> QED
      BY <2>3, <3>1, <3>2 DEF RetryEvent
  <2> QED
    BY <1>3, <2>2, <2>3 DEF EventStep
<1>4. ASSUME StartPhase PROVE Begins(Importer)
  <2>1. Importer \in Handlers /\ job.pc \in Types /\ 1 \in 1 .. Attempts
    BY <1>4, BoundAssumption DEF StartPhase, Handlers
  <2> QED
    BY <1>4, <2>1, BeginEffect DEF StartPhase
<1>5. ASSUME EndPhase PROVE Leaves(Importer)
  BY <1>5 DEF EndPhase, Leaves
<1>6. ASSUME \/ StartJob \/ CompleteImport \/ CompletionRefused
             \/ Connect \/ Disconnect \/ RecoverImport \/ ForgetEvent
      PROVE  Elsewhere
  BY <1>6 DEF StartJob, CompleteImport, CompletionRefused, Connect, Disconnect,
     RecoverImport, ForgetEvent, Elsewhere
<1>7. Manual \subseteq Handlers /\ Importer \in Handlers
  BY DEF Handlers
<1> QED
  BY <1>1, <1>2, <1>3, <1>4, <1>5, <1>6, <1>7 DEF Next, JobStep

-----------------------------------------------------------------------------
(* The rows are a lease *)

\* A handler at work has a run that no other handler has, and its row, once
\* there is one, is of the handler's type; a type has one running row at most.
LeaseInv ==
  /\ \A r, s \in RunIds :
       runs[r].status = "running" /\ runs[s].status = "running"
         /\ runs[r].type = runs[s].type => r = s
  /\ \A r \in RunIds : runs[r].live => runs[r].status = "running"
  /\ \A h \in Handlers : hd[h].pc # "idle" =>
       /\ hd[h].run \in RunIds
       /\ runs[hd[h].run].status # "none" => runs[hd[h].run].type = hd[h].type
  /\ \A h, g \in Handlers :
       h # g /\ hd[h].pc # "idle" /\ hd[g].pc # "idle" => hd[h].run # hd[g].run

LEMMA TerminalRow ==
  \A t \in Types, status \in Terminal :
    /\ Row(t, status).type = t /\ Row(t, status).status \notin {"none", "running"}
    /\ ~Row(t, status).live
BY DEF Row, Terminal, Statuses

LEMMA HandlerKeepsLease ==
  ASSUME TypeOK, LeaseInv, NEW h \in Handlers,
         Reads(h) \/ Advances(h) \/ Finishes(h)
  PROVE  LeaseInv'
PROOF
<1>1. /\ runs \in [RunIds -> RunRows] /\ hd \in [Handlers -> Locals]
      /\ hd[h].pc # "idle" /\ Moves(h) /\ hd[h].run \in RunIds
      /\ hd[h].type \in Types
  BY TypeParts DEF RowsTyped, LeaseInv, Reads, Advances, Finishes, Locals
<1>2. CASE UNCHANGED runs
  BY <1>1, <1>2 DEF LeaseInv, Moves
<1>3. ASSUME NEW status \in Terminal,
             runs' = [runs EXCEPT ![hd[h].run] = Row(hd[h].type, status)]
      PROVE  LeaseInv'
  <2> DEFINE row == Row(hd[h].type, status)
  <2>1. row.type = hd[h].type /\ row.status \notin {"none", "running"} /\ ~row.live
    BY <1>1, TerminalRow
  <2>2. \A r \in RunIds : runs'[r] = IF r = hd[h].run THEN row ELSE runs[r]
    BY <1>1, <1>3
  <2> HIDE DEF row
  <2> QED
    BY <1>1, <2>1, <2>2 DEF LeaseInv, Moves
<1> QED
  BY <1>2, <1>3 DEF Reads, Advances, Finishes, Closes

LEMMA AcquireKeepsLease ==
  ASSUME TypeOK, LeaseInv, NEW h \in Handlers, Acquire(h), Moves(h)
  PROVE  LeaseInv'
PROOF
<1> DEFINE t == hd[h].type
<1>1. /\ runs \in [RunIds -> RunRows] /\ hd \in [Handlers -> Locals]
      /\ hd[h].pc = "begin" /\ hd[h].run \in RunIds /\ t \in Types
      /\ runs[hd[h].run].status = "none"
  BY TypeParts DEF RowsTyped, LeaseInv, Acquire, Locals
<1>2. /\ \A r \in RunIds : r # hd[h].run =>
           \/ runs'[r] = runs[r] /\ ~(runs[r].status = "running" /\ runs[r].type = t)
           \/ /\ runs'[r] = Row(t, "failed") /\ runs[r].type = t
              /\ runs[r].status # "none"
           \/ runs'[r] = NoRow /\ ~Named(r)
      /\ runs'[hd[h].run] = Row(t, "running")
  BY <1>1 DEF Acquire, Competing, Expired, Running
<1>3. /\ Row(t, "running").status = "running" /\ Row(t, "running").type = t
      /\ Row(t, "failed").status = "failed" /\ Row(t, "failed").type = t
      /\ ~Row(t, "failed").live /\ NoRow.status = "none" /\ ~NoRow.live
  BY DEF Row, NoRow
<1> HIDE DEF t
<1>4. /\ \A r, s \in RunIds :
           runs'[r].status = "running" /\ runs'[s].status = "running"
             /\ runs'[r].type = runs'[s].type => r = s
      /\ \A r \in RunIds : runs'[r].live => runs'[r].status = "running"
  BY <1>1, <1>2, <1>3 DEF LeaseInv
<1>5. ASSUME NEW g \in Handlers, hd'[g].pc # "idle"
      PROVE  /\ hd'[g].run \in RunIds
             /\ runs'[hd'[g].run].status # "none" =>
                  runs'[hd'[g].run].type = hd'[g].type
  <2>1. hd[g].pc # "idle" /\ hd'[g].run = hd[g].run /\ hd'[g].type = hd[g].type
    BY <1>1, <1>5 DEF Moves
  <2>2. Named(hd[g].run)
    BY DEF Named
  <2>3. CASE g = h
    BY <1>1, <1>2, <1>3, <2>1, <2>3 DEF t
  <2>4. CASE g # h
    <3>1. hd[g].run # hd[h].run /\ hd[g].run \in RunIds
      BY <1>1, <2>1, <2>4 DEF LeaseInv
    <3>2. runs[hd[g].run].status # "none" => runs[hd[g].run].type = hd[g].type
      BY <2>1 DEF LeaseInv
    <3>3. CASE runs'[hd[g].run] = runs[hd[g].run]
      BY <2>1, <3>1, <3>2, <3>3
    <3>4. CASE runs'[hd[g].run] = Row(t, "failed") /\ runs[hd[g].run].type = t
               /\ runs[hd[g].run].status # "none"
      BY <1>3, <2>1, <3>1, <3>2, <3>4
    <3> QED
      BY <1>2, <2>2, <3>1, <3>3, <3>4
  <2> QED
    BY <2>3, <2>4
<1>6. \A f, g \in Handlers :
        f # g /\ hd'[f].pc # "idle" /\ hd'[g].pc # "idle" => hd'[f].run # hd'[g].run
  BY <1>1 DEF LeaseInv, Moves
<1> QED
  BY <1>4, <1>5, <1>6 DEF LeaseInv

LEMMA BeginKeepsLease ==
  ASSUME TypeOK, LeaseInv, NEW h \in Handlers, Begins(h) \/ Leaves(h)
  PROVE  LeaseInv'
PROOF
<1>1. runs \in [RunIds -> RunRows] /\ hd \in [Handlers -> Locals]
  BY TypeParts DEF RowsTyped
<1>2. CASE Begins(h)
  <2>1. PICK r \in RunIds, t \in Types, tries \in 1 .. Attempts :
          /\ Free(r)
          /\ hd' = [hd EXCEPT ![h] = [Idle EXCEPT !.pc = "begin", !.type = t,
                                                  !.run = r, !.tries = tries]]
    BY <1>2 DEF Begins
  <2> DEFINE new == [Idle EXCEPT !.pc = "begin", !.type = t, !.run = r,
                                 !.tries = tries]
  <2>2. new.run = r
    BY DEF Idle
  <2>3. hd'[h] = new /\ \A g \in Handlers : g # h => hd'[g] = hd[g]
    BY <1>1, <2>1
  <2>4. runs[r].status = "none" /\ \A g \in Handlers : hd[g].run # r
    BY <2>1 DEF Free, Named
  <2>5. UNCHANGED runs
    BY <1>2 DEF Begins
  <2> HIDE DEF new
  <2> QED
    BY <2>2, <2>3, <2>4, <2>5 DEF LeaseInv
<1>3. CASE Leaves(h)
  <2>1. hd'[h] = Idle /\ Idle.pc = "idle"
    BY <1>1, <1>3 DEF Leaves, Idle
  <2>2. \A g \in Handlers : g # h => hd'[g] = hd[g]
    BY <1>1, <1>3 DEF Leaves
  <2>3. hd[h].pc # "idle" /\ hd[h].run \in RunIds
    BY <1>3 DEF Leaves, LeaseInv
  <2>4. NoRow.status = "none" /\ ~NoRow.live
    BY DEF NoRow
  <2>5. \A r \in RunIds : runs'[r] = runs[r] \/ (r = hd[h].run /\ runs'[r] = NoRow)
    BY <1>1, <1>3, <2>3 DEF Leaves, Left
  <2> QED
    BY <2>1, <2>2, <2>3, <2>4, <2>5 DEF LeaseInv
<1> QED
  BY <1>2, <1>3

LEMMA RowKeepsLease ==
  ASSUME TypeOK, LeaseInv,
         \/ \E h \in Handlers : Heartbeat(h)
         \/ \E r \in RunIds : RequestCancel(r) \/ Expire(r)
         \/ Elsewhere
  PROVE  LeaseInv'
PROOF
<1>1. runs \in [RunIds -> RunRows] /\ UNCHANGED hd
  BY TypeParts DEF RowsTyped, Heartbeat, RequestCancel, Expire, Elsewhere
<1>2. \A r \in RunIds :
        /\ runs'[r].type = runs[r].type /\ runs'[r].status = runs[r].status
        /\ runs'[r].live => runs[r].status = "running"
  <2>1. CASE \E h \in Handlers : Heartbeat(h)
    BY <1>1, <2>1 DEF Heartbeat, LeaseInv, RunRows
  <2>2. CASE \E r \in RunIds : RequestCancel(r)
    BY <1>1, <2>2 DEF RequestCancel, LeaseInv, RunRows
  <2>3. CASE \E r \in RunIds : Expire(r)
    BY <1>1, <2>3 DEF Expire, LeaseInv, RunRows
  <2>4. CASE Elsewhere
    BY <2>4 DEF Elsewhere, LeaseInv
  <2> QED
    BY <2>1, <2>2, <2>3, <2>4
<1> QED
  BY <1>1, <1>2 DEF LeaseInv

LEMMA InitLease == Init => LeaseInv
BY DEF Init, LeaseInv, NoRow, Idle

LEMMA StepLease == TypeOK /\ LeaseInv /\ [Next]_vars => LeaseInv'
PROOF
<1>1. ASSUME TypeOK, LeaseInv, Next PROVE LeaseInv'
  BY <1>1, StepEffect, HandlerKeepsLease, AcquireKeepsLease, BeginKeepsLease,
     RowKeepsLease
<1>2. ASSUME LeaseInv, UNCHANGED vars PROVE LeaseInv'
  BY <1>2 DEF LeaseInv, vars
<1> QED
  BY <1>1, <1>2

-----------------------------------------------------------------------------
(* The refinement of RunLease *)

Current(t) == \E r \in Running(t) : runs[r].live

Movers(t) == {hd[h].run : h \in {g \in Handlers :
                hd[g].pc = "committed" /\ hd[g].type = t}}

\* What the one running row of a type is.
LEMMA HolderIs ==
  ASSUME NEW S, NEW r \in S, \A s \in S : s = r
  PROVE  (IF S = {} THEN NoRun ELSE CHOOSE s \in S : TRUE) = r
OBVIOUS

LEMMA RunningIs ==
  ASSUME LeaseInv, NEW r \in RunIds, runs[r].status = "running"
  PROVE  /\ Running(runs[r].type) = {r}
         /\ Holder(runs[r].type) = r /\ r # NoRun
PROOF
<1>1. Running(runs[r].type) = {r}
  BY DEF Running, LeaseInv
<1> QED
  BY <1>1, HolderIs, HandlerAssumption DEF Holder

\* Rows that run as before leave the leases as they were.
LEMMA SameRows ==
  ASSUME \A r \in RunIds :
           \/ runs'[r] = runs[r]
           \/ runs[r].status # "running" /\ runs'[r].status # "running"
           \/ /\ runs[r].status = "running" /\ runs'[r].status = "running"
              /\ runs[r].type = runs'[r].type
              /\ runs[r].live = runs'[r].live,
         NEW t \in Types
  PROVE  /\ Running(t)' = Running(t) /\ Holder(t)' = Holder(t)
         /\ Current(t)' = Current(t)
PROOF
<1>1. Running(t)' = Running(t)
  BY DEF Running
<1>2. Current(t)' = Current(t)
  BY <1>1 DEF Current, Running
<1> QED
  BY <1>1, <1>2 DEF Holder

\* Handlers that neither advance nor leave what they advanced.
LEMMA SameMovers ==
  ASSUME \A h \in Handlers :
           \/ hd'[h] = hd[h]
           \/ hd[h].pc # "committed" /\ hd'[h].pc # "committed",
         NEW t \in Types
  PROVE  Movers(t)' = Movers(t)
BY DEF Movers

\* A handler that moves on is no longer among those that advanced.
LEMMA MoverGone ==
  ASSUME LeaseInv, NEW h \in Handlers, hd[h].pc # "idle", Moves(h),
         hd'[h].pc # "committed", NEW t \in Types
  PROVE  Movers(t)' = IF t = hd[h].type THEN Movers(t) \ {hd[h].run}
                                        ELSE Movers(t)
PROOF
<1>1. \A g \in Handlers : g # h => hd'[g] = hd[g]
  BY DEF Moves
<1>2. \A g \in Handlers :
        g # h /\ hd[g].pc = "committed" => hd[g].run # hd[h].run
  BY DEF LeaseInv
<1>3. ASSUME NEW r PROVE r \in Movers(t)' <=> r \in Movers(t)
                           /\ (t = hd[h].type => r # hd[h].run)
  BY <1>1, <1>2 DEF Movers
<1> QED
  BY <1>3

LEMMA MoverAdded ==
  ASSUME NEW h \in Handlers, Moves(h), hd'[h].pc = "committed",
         hd[h].pc = "fetched", NEW t \in Types
  PROVE  Movers(t)' = IF t = hd[h].type THEN Movers(t) \cup {hd[h].run}
                                        ELSE Movers(t)
PROOF
<1>1. \A g \in Handlers : g # h => hd'[g] = hd[g]
  BY DEF Moves
<1>2. ASSUME NEW r PROVE r \in Movers(t)' <=> r \in Movers(t)
                           \/ (t = hd[h].type /\ r = hd[h].run)
  BY <1>1 DEF Movers, Moves
<1> QED
  BY <1>2

-----------------------------------------------------------------------------
(* Every step is a step of RunLease or leaves its variables unchanged. *)

Holders == [t \in Types |-> Holder(t)]
Currents == [t \in Types |-> Current(t)]
Moved == [t \in Types |-> Movers(t)]

Step == Lease!Next \/ UNCHANGED <<Holders, Currents, Moved>>

LEMMA LeaseVars == Lease!leaseVars = <<Holders, Currents, Moved>>
BY DEF Lease!leaseVars, Holders, Currents, Moved, Current, Movers

LEMMA QuietStep ==
  ASSUME \A t \in Types : /\ Holder(t)' = Holder(t) /\ Current(t)' = Current(t)
                          /\ Movers(t)' = Movers(t)
  PROVE  Step
BY DEF Step, Holders, Currents, Moved

LEMMA StopStep ==
  ASSUME NEW ty \in Types, NEW r \in RunIds,
         \A t \in Types :
           /\ Holder(t)' = Holder(t) /\ Current(t)' = Current(t)
           /\ Movers(t)' = IF t = ty THEN Movers(t) \ {r} ELSE Movers(t)
  PROVE  Step
PROOF
<1>1. /\ Holders' = Holders /\ Currents' = Currents
      /\ Moved' = [Moved EXCEPT ![ty] = @ \ {r}]
  BY DEF Holders, Currents, Moved
<1>2. Lease!Stop(ty, r)
  BY <1>1 DEF Lease!Stop, Holders, Currents, Moved, Current, Movers
<1> QED
  BY <1>2 DEF Step, Lease!Next

LEMMA ReadsStep ==
  ASSUME TypeOK, LeaseInv, NEW h \in Handlers,
         Reads(h) \/ (Finishes(h) /\ UNCHANGED runs)
  PROVE  Step
PROOF
<1>1. /\ hd[h].pc # "idle" /\ Moves(h) /\ hd'[h].pc # "committed"
      /\ UNCHANGED runs
  BY DEF Reads, Finishes
<1>2. hd[h].run \in RunIds /\ hd[h].type \in Types
  BY <1>1, TypeParts DEF LeaseInv, RowsTyped, Locals
<1> QED
  BY <1>1, <1>2, MoverGone, SameRows, StopStep

LEMMA AdvancesStep ==
  ASSUME TypeOK, LeaseInv, NEW h \in Handlers, Advances(h)
  PROVE  Step
PROOF
<1>1. PICK ty \in Types, r \in RunIds : ty = hd[h].type /\ r = hd[h].run
  BY TypeParts DEF Advances, LeaseInv, RowsTyped, Locals
<1>2. runs[r].status = "running" /\ runs[r].type = ty
  BY <1>1 DEF Advances, RunActive, LeaseInv
<1>3. Holder(ty) = r /\ r # NoRun
  BY <1>1, <1>2, RunningIs
<1>4. \A t \in Types : Movers(t)' = IF t = ty THEN Movers(t) \cup {r} ELSE Movers(t)
  BY <1>1, MoverAdded DEF Advances
<1>5. \A t \in Types : Holder(t)' = Holder(t) /\ Current(t)' = Current(t)
  BY SameRows DEF Advances
<1>6. /\ Holders' = Holders /\ Currents' = Currents
      /\ Moved' = [Moved EXCEPT ![ty] = @ \cup {Holders[ty]}]
      /\ Holders[ty] # NoRun
  BY <1>1, <1>3, <1>4, <1>5 DEF Holders, Currents, Moved
<1>7. Lease!Advance(ty)
  BY <1>6 DEF Lease!Advance, Holders, Currents, Moved, Current, Movers
<1> QED
  BY <1>1, <1>7 DEF Step, Lease!Next

LEMMA FinishesStep ==
  ASSUME TypeOK, LeaseInv, NEW h \in Handlers, Finishes(h)
  PROVE  Step
PROOF
<1>0. PICK ty \in Types, r \in RunIds : ty = hd[h].type /\ r = hd[h].run
  BY TypeParts DEF Finishes, LeaseInv, RowsTyped, Locals
<1>1. runs \in [RunIds -> RunRows]
  BY TypeParts DEF RowsTyped
<1>2. /\ hd[h].pc # "idle" /\ Moves(h) /\ hd'[h].pc # "committed"
  BY DEF Finishes
<1>3. \A t \in Types : Movers(t)' = IF t = ty THEN Movers(t) \ {r} ELSE Movers(t)
  BY <1>0, <1>2, MoverGone
<1>4. CASE UNCHANGED runs
  BY <1>4, ReadsStep
<1>5. ASSUME NEW status \in Terminal, runs' = [runs EXCEPT ![r] = Row(ty, status)]
      PROVE  Step
  <2>1. /\ runs'[r].status # "running" /\ ~runs'[r].live
        /\ \A s \in RunIds : s # r => runs'[s] = runs[s]
    BY <1>1, <1>5, TerminalRow
  <2>2. CASE runs[r].status # "running"
    <3>1. \A t \in Types : Holder(t)' = Holder(t) /\ Current(t)' = Current(t)
      BY <2>1, <2>2, SameRows
    <3> QED
      BY <1>1, <1>3, <3>1, StopStep
  <2>3. CASE runs[r].status = "running"
    <3>1. runs[r].type = ty
      BY <1>0, <1>2, <2>3 DEF LeaseInv
    <3>2. Running(ty) = {r} /\ Holder(ty) = r /\ r # NoRun
      BY <1>1, <2>3, <3>1, RunningIs
    <3>3. Running(ty)' = {}
      BY <2>1, <3>2 DEF Running
    <3>4. Holder(ty)' = NoRun /\ Current(ty)' = FALSE
      BY <3>3 DEF Holder, Current
    <3>5. ASSUME NEW t \in Types, t # ty
          PROVE  Holder(t)' = Holder(t) /\ Current(t)' = Current(t)
      <4>1. Running(t)' = Running(t) /\ r \notin Running(t)
        BY <2>1, <3>1, <3>5 DEF Running
      <4>2. \A s \in Running(t) : runs'[s] = runs[s]
        BY <2>1, <4>1 DEF Running
      <4> QED
        BY <4>1, <4>2 DEF Holder, Current
    <3>6. /\ Holders' = [Holders EXCEPT ![ty] = NoRun]
          /\ Currents' = [Currents EXCEPT ![ty] = FALSE]
          /\ Moved' = [Moved EXCEPT ![ty] = @ \ {Holders[ty]}]
          /\ Holders[ty] # NoRun
      BY <1>1, <1>3, <3>2, <3>4, <3>5 DEF Holders, Currents, Moved
    <3>7. Lease!Release(ty)
      BY <3>6 DEF Lease!Release, Holders, Currents, Moved, Current, Movers
    <3> QED
      BY <1>1, <3>7 DEF Step, Lease!Next
  <2> QED
    BY <2>2, <2>3
<1> QED
  BY <1>0, <1>4, <1>5 DEF Finishes, Closes

\* A run is created when its type's lease is free or has run out.
LEMMA AcquireStep ==
  ASSUME TypeOK, LeaseInv, NEW h \in Handlers, Acquire(h), Moves(h)
  PROVE  Step
PROOF
<1>0. PICK ty \in Types, r \in RunIds : ty = hd[h].type /\ r = hd[h].run
  BY TypeParts DEF Acquire, LeaseInv, RowsTyped, Locals
<1>1. /\ runs \in [RunIds -> RunRows] /\ hd \in [Handlers -> Locals]
      /\ hd[h].pc = "begin" /\ runs[r].status = "none"
      /\ \A s \in RunIds :
           runs[s].status = "running" /\ runs[s].type = ty => ~runs[s].live
      /\ hd'[h].pc = "acquired"
  BY <1>0, TypeParts DEF RowsTyped, Acquire, Competing, Running, Goes, Locals
<1>2. /\ runs'[r] = Row(ty, "running")
      /\ \A s \in RunIds : s # r =>
           \/ /\ runs'[s] = runs[s]
              /\ ~(runs[s].status = "running" /\ runs[s].type = ty)
           \/ /\ runs[s].status = "running" /\ runs[s].type = ty
              /\ runs'[s] \in {Row(ty, "failed"), NoRow}
  BY <1>0, <1>1 DEF Acquire, Expired, Running
<1>3. /\ Row(ty, "running").status = "running" /\ Row(ty, "running").type = ty
      /\ Row(ty, "running").live /\ NoRow.status = "none"
      /\ Row(ty, "failed").status = "failed"
  BY DEF Row, NoRow
<1>4. \A t \in Types : Movers(t)' = Movers(t)
  BY <1>1, SameMovers DEF Moves
<1>5. Running(ty)' = {r}
  BY <1>2, <1>3 DEF Running
<1>6. Holder(ty)' = r /\ Current(ty)' = TRUE
  BY <1>2, <1>3, <1>5, HolderIs DEF Holder, Current
<1>7. ASSUME NEW t \in Types, t # ty
      PROVE  Holder(t)' = Holder(t) /\ Current(t)' = Current(t)
  <2>1. Running(t)' = Running(t)
    BY <1>1, <1>2, <1>3, <1>7 DEF Running
  <2>2. \A s \in Running(t) : runs'[s] = runs[s]
    BY <1>1, <1>2, <1>7 DEF Running
  <2> QED
    BY <2>1, <2>2 DEF Holder, Current
<1>8. ~Current(ty)
  BY <1>1 DEF Current, Running
<1>9. r # Holder(ty)
  <2>1. CASE Running(ty) = {}
    BY <2>1, HandlerAssumption DEF Holder
  <2>2. CASE Running(ty) # {}
    <3>1. Holder(ty) \in Running(ty)
      BY <2>2 DEF Holder
    <3> QED
      BY <1>1, <3>1 DEF Running
  <2> QED
    BY <2>1, <2>2
<1>10. /\ Holders' = [Holders EXCEPT ![ty] = r]
       /\ Currents' = [Currents EXCEPT ![ty] = TRUE]
       /\ Moved' = Moved
       /\ ~Currents[ty] /\ r # Holders[ty]
  BY <1>4, <1>6, <1>7, <1>8, <1>9 DEF Holders, Currents, Moved
<1>11. Lease!Acquire(ty, r)
  BY <1>10 DEF Lease!Acquire, Holders, Currents, Moved, Current, Movers
<1> QED
  BY <1>11 DEF Step, Lease!Next

LEMMA BeginsStep ==
  ASSUME TypeOK, LeaseInv, NEW h \in Handlers, Begins(h) \/ Leaves(h)
  PROVE  Step
PROOF
<1>0. hd \in [Handlers -> Locals] /\ runs \in [RunIds -> RunRows]
  BY TypeParts DEF RowsTyped
<1>1. /\ hd[h].pc # "committed" /\ hd'[h].pc # "committed"
      /\ \A g \in Handlers : g # h => hd'[g] = hd[g]
  <2>1. CASE Begins(h)
    <3>1. PICK r \in RunIds, t \in Types, tries \in 1 .. Attempts :
            hd' = [hd EXCEPT ![h] = [Idle EXCEPT !.pc = "begin", !.type = t,
                                                 !.run = r, !.tries = tries]]
      BY <2>1 DEF Begins
    <3> DEFINE new == [Idle EXCEPT !.pc = "begin", !.type = t, !.run = r,
                                   !.tries = tries]
    <3>2. new.pc = "begin"
      BY DEF Idle
    <3>3. hd' = [hd EXCEPT ![h] = new] /\ hd[h].pc = "idle"
      BY <2>1, <3>1 DEF Begins
    <3> HIDE DEF new
    <3> QED
      BY <1>0, <3>2, <3>3
  <2>2. CASE Leaves(h)
    BY <1>0, <2>2 DEF Leaves, Idle
  <2> QED
    BY <2>1, <2>2
<1>2. \A t \in Types : Movers(t)' = Movers(t)
  BY <1>1, SameMovers
<1>3. \A r \in RunIds :
        \/ runs'[r] = runs[r]
        \/ runs[r].status # "running" /\ runs'[r].status # "running"
  <2>1. CASE UNCHANGED runs
    BY <2>1
  <2>2. CASE /\ runs' = [runs EXCEPT ![hd[h].run] = NoRow]
             /\ runs[hd[h].run].status # "running"
    BY <1>0, <2>2 DEF NoRow
  <2> QED
    BY <2>1, <2>2 DEF Begins, Leaves, Left
<1> QED
  BY <1>2, <1>3, SameRows, QuietStep

\* A heartbeat renews the lease and time ends it; a request for cancellation
\* waits for the run to notice.
LEMMA RowStep ==
  ASSUME TypeOK, LeaseInv,
         \/ \E h \in Handlers : Heartbeat(h)
         \/ \E r \in RunIds : RequestCancel(r) \/ Expire(r)
         \/ Elsewhere
  PROVE  Step
PROOF
<1>1. runs \in [RunIds -> RunRows] /\ UNCHANGED hd
  BY TypeParts DEF RowsTyped, Heartbeat, RequestCancel, Expire, Elsewhere
<1>2. \A t \in Types : Movers(t)' = Movers(t)
  BY <1>1, SameMovers
<1>3. ASSUME NEW r \in RunIds, NEW live \in BOOLEAN,
             runs[r].status = "running",
             runs' = [runs EXCEPT ![r].live = live]
      PROVE  \E ty \in Types :
               /\ Holder(ty) = r /\ r # NoRun
               /\ Current(ty) = runs[r].live
               /\ Holders' = Holders
               /\ Currents' = [Currents EXCEPT ![ty] = live]
               /\ Moved' = Moved
  <2>1. PICK ty \in Types : ty = runs[r].type
    BY <1>1 DEF RunRows
  <2>2. Running(ty) = {r} /\ Holder(ty) = r /\ r # NoRun
    BY <1>3, <2>1, RunningIs
  <2>3. /\ runs'[r].status = "running" /\ runs'[r].type = ty
        /\ runs'[r].live = live
        /\ \A s \in RunIds : s # r => runs'[s] = runs[s]
    BY <1>1, <1>3, <2>1 DEF RunRows
  <2>4. \A t \in Types : Running(t)' = Running(t)
    BY <1>3, <2>1, <2>3 DEF Running
  <2>5. \A t \in Types : Holder(t)' = Holder(t)
    <3>1. ASSUME NEW t \in Types PROVE Holder(t)' = Holder(t)
      <4>1. Running(t)' = Running(t)
        BY <2>4
      <4> QED
        BY <4>1 DEF Holder
    <3> QED
      BY <3>1
  <2>6. Current(ty) = runs[r].live /\ Current(ty)' = live
    BY <1>1, <2>2, <2>3, <2>4 DEF Current, RunRows
  <2>7. \A t \in Types : t # ty => Current(t)' = Current(t)
    <3>1. \A t \in Types : t # ty => r \notin Running(t)
      BY <2>1 DEF Running
    <3> QED
      BY <2>3, <2>4, <3>1 DEF Current, Running
  <2>8. /\ Holders' = Holders
        /\ Currents' = [Currents EXCEPT ![ty] = live] /\ Moved' = Moved
    BY <1>2, <2>5, <2>6, <2>7 DEF Holders, Currents, Moved
  <2> QED
    BY <2>2, <2>6, <2>8
<1>4. ASSUME NEW h \in Handlers, Heartbeat(h) PROVE Step
  <2>1. /\ hd[h].run \in RunIds /\ runs[hd[h].run].status = "running"
        /\ runs' = [runs EXCEPT ![hd[h].run].live = TRUE]
    BY <1>4 DEF Heartbeat, LeaseInv
  <2>2. PICK ty \in Types :
          /\ Holder(ty) # NoRun /\ Holders' = Holders
          /\ Currents' = [Currents EXCEPT ![ty] = TRUE] /\ Moved' = Moved
    BY <1>3, <2>1
  <2>3. Lease!Renew(ty)
    BY <2>2 DEF Lease!Renew, Holders, Currents, Moved, Current, Movers
  <2> QED
    BY <2>3 DEF Step, Lease!Next
<1>5. ASSUME NEW r \in RunIds, Expire(r) PROVE Step
  <2>1. /\ runs[r].status = "running" /\ runs[r].live
        /\ runs' = [runs EXCEPT ![r].live = FALSE]
    BY <1>5 DEF Expire, LeaseInv
  <2>2. PICK ty \in Types :
          /\ Current(ty) /\ Holders' = Holders
          /\ Currents' = [Currents EXCEPT ![ty] = FALSE] /\ Moved' = Moved
    BY <1>3, <2>1
  <2>3. Lease!RunOut(ty)
    BY <2>2 DEF Lease!RunOut, Holders, Currents, Moved, Current, Movers
  <2> QED
    BY <2>3 DEF Step, Lease!Next
<1>6. ASSUME NEW r \in RunIds, RequestCancel(r) PROVE Step
  <2>1. \A s \in RunIds :
          /\ runs'[s].status = runs[s].status /\ runs'[s].type = runs[s].type
          /\ runs'[s].live = runs[s].live
    BY <1>1, <1>6 DEF RequestCancel, RunRows
  <2> QED
    BY <1>2, <2>1, SameRows, QuietStep
<1>7. CASE Elsewhere
  BY <1>2, <1>7, SameRows, QuietStep DEF Elsewhere
<1> QED
  BY <1>4, <1>5, <1>6, <1>7

LEMMA EveryStep == TypeOK /\ LeaseInv /\ [Next]_vars => [Lease!Next]_(Lease!leaseVars)
PROOF
<1>1. ASSUME TypeOK, LeaseInv, Next PROVE Step
  BY <1>1, StepEffect, ReadsStep, AdvancesStep, FinishesStep, AcquireStep,
     BeginsStep, RowStep
<1>2. ASSUME UNCHANGED vars PROVE Step
  <2>1. UNCHANGED <<hd, runs>>
    BY <1>2 DEF vars
  <2> QED
    BY <2>1, SameRows, SameMovers, QuietStep
<1>3. Step => [Lease!Next]_(Lease!leaseVars)
  BY DEF Step, Lease!leaseVars, Holders, Currents, Moved, Current, Movers
<1> QED
  BY <1>1, <1>2, <1>3

LEMMA InitRefines == Init => Lease!Init
PROOF
<1> SUFFICES ASSUME Init PROVE Lease!Init
  OBVIOUS
<1>1. \A t \in Types : Running(t) = {}
  BY DEF Init, Running, NoRow
<1>2. \A t \in Types : Movers(t) = {}
  BY DEF Init, Movers, Idle
<1> QED
  BY <1>1, <1>2 DEF Lease!Init, Holder, Movers

-----------------------------------------------------------------------------
(* Type correctness *)

LEMMA LocalsTyped ==
  ASSUME TypeOK, Next
  PROVE  hd' \in [Handlers -> Locals]
PROOF
<1>1. hd \in [Handlers -> Locals]
  BY TypeParts DEF RowsTyped
<1>2. ASSUME NEW h \in Handlers,
             Reads(h) \/ Advances(h) \/ Finishes(h) \/ Moves(h)
      PROVE  hd' \in [Handlers -> Locals]
  BY <1>2 DEF Reads, Advances, Finishes, Moves
<1>3. ASSUME NEW h \in Handlers, Begins(h)
      PROVE  hd' \in [Handlers -> Locals]
  <2>1. PICK r \in RunIds, t \in Types, tries \in 1 .. Attempts :
          hd' = [hd EXCEPT ![h] = [Idle EXCEPT !.pc = "begin", !.type = t,
                                               !.run = r, !.tries = tries]]
    BY <1>3 DEF Begins
  <2>2. tries \in 0 .. Attempts
    BY <2>1, BoundAssumption
  <2>3. [Idle EXCEPT !.pc = "begin", !.type = t, !.run = r, !.tries = tries]
          \in Locals
    BY <2>2, RowFacts DEF Locals
  <2> QED
    BY <1>1, <2>1, <2>3
<1>4. ASSUME NEW h \in Handlers, Leaves(h)
      PROVE  hd' \in [Handlers -> Locals]
  BY <1>1, <1>4, RowFacts DEF Leaves
<1>5. CASE UNCHANGED hd
  BY <1>1, <1>5
<1> QED
  BY <1>2, <1>3, <1>4, <1>5, StepEffect
  DEF Heartbeat, RequestCancel, Expire, Elsewhere

LEMMA RunsTyped ==
  ASSUME TypeOK, LeaseInv, Next
  PROVE  runs' \in [RunIds -> RunRows]
PROOF
<1>1. runs \in [RunIds -> RunRows] /\ hd \in [Handlers -> Locals]
  BY TypeParts DEF RowsTyped
<1>2. CASE UNCHANGED runs
  BY <1>1, <1>2
<1>3. ASSUME NEW h \in Handlers, Closes(h)
      PROVE  runs' \in [RunIds -> RunRows]
  <2>1. PICK status \in Terminal :
          runs' = [runs EXCEPT ![hd[h].run] = Row(hd[h].type, status)]
    BY <1>3 DEF Closes
  <2>2. hd[h].type \in Types /\ status \in Statuses
    BY <1>1 DEF Locals, Terminal
  <2> QED
    BY <1>1, <2>1, <2>2, RowFacts
<1>4. ASSUME NEW h \in Handlers, Acquire(h)
      PROVE  runs' \in [RunIds -> RunRows]
  <2>1. hd[h].type \in Types /\ {"running", "failed"} \subseteq Statuses
    BY <1>1 DEF Locals, Statuses
  <2>2. /\ Row(hd[h].type, "running") \in RunRows
        /\ Row(hd[h].type, "failed") \in RunRows /\ NoRow \in RunRows
    BY <2>1, RowFacts
  <2> QED
    BY <1>1, <1>4, <2>2 DEF Acquire
<1>5. ASSUME NEW h \in Handlers, Left(h)
      PROVE  runs' \in [RunIds -> RunRows]
  BY <1>1, <1>5, RowFacts DEF Left
<1>6. ASSUME \/ \E h \in Handlers : Heartbeat(h)
             \/ \E r \in RunIds : RequestCancel(r) \/ Expire(r)
      PROVE  runs' \in [RunIds -> RunRows]
  <2>1. ASSUME NEW r, NEW live \in BOOLEAN,
               runs' = [runs EXCEPT ![r].live = live]
        PROVE  runs' \in [RunIds -> RunRows]
    BY <1>1, <2>1 DEF RunRows
  <2>2. ASSUME NEW r, runs' = [runs EXCEPT ![r].cancel = TRUE]
        PROVE  runs' \in [RunIds -> RunRows]
    BY <1>1, <2>2 DEF RunRows
  <2>3. CASE \E h \in Handlers : Heartbeat(h)
    BY <2>1, <2>3 DEF Heartbeat
  <2>4. CASE \E r \in RunIds : RequestCancel(r)
    BY <2>2, <2>4 DEF RequestCancel
  <2>5. CASE \E r \in RunIds : Expire(r)
    BY <2>1, <2>5 DEF Expire
  <2> QED
    BY <1>6, <2>3, <2>4, <2>5
<1> QED
  BY <1>2, <1>3, <1>4, <1>5, <1>6, StepEffect
  DEF Reads, Advances, Finishes, Begins, Leaves, Elsewhere

\* What writes the connection.
LEMMA ConnEffect ==
  ASSUME Next
  PROVE  \/ \E h \in Handlers : CommitPage(h)
         \/ CompleteImport \/ Connect \/ Disconnect
         \/ UNCHANGED conn
PROOF
<1>1. ASSUME NEW h \in Handlers, HandlerStep(h) \/ Heartbeat(h) \/ Crash(h)
      PROVE  CommitPage(h) \/ UNCHANGED conn
  BY <1>1 DEF HandlerStep, Heartbeat, Crash, Resume, Yield, Acquire, Fetch,
     Commit, Fenced, Succeed, GiveUp
<1>2. ASSUME NEW h \in Manual,
             EventStep(h) \/ \E t \in ManualTypes : ManualSync(h, t)
      PROVE  UNCHANGED conn
  BY <1>2 DEF EventStep, RetryEvent, EventDone, ManualSync
<1>3. ASSUME JobStep PROVE CompleteImport \/ UNCHANGED conn
  BY <1>3 DEF JobStep, StartJob, StartPhase, EndPhase, CompletionRefused
<1>4. ASSUME \/ RecoverImport \/ ForgetEvent
              \/ \E r \in RunIds : RequestCancel(r) \/ Expire(r)
       PROVE  UNCHANGED conn
  BY <1>4 DEF RecoverImport, ForgetEvent, RequestCancel, Expire
<1> QED
  BY <1>1, <1>2, <1>3, <1>4 DEF Next

LEMMA ConnTyped ==
  ASSUME TypeOK, Next
  PROVE  conn' \in Conns
PROOF
<1>1. conn \in Conns /\ hd \in [Handlers -> Locals] /\ connects \in 0 .. MaxConnects
  BY TypeParts DEF RowsTyped, InputsTyped
<1>2. CASE UNCHANGED conn
  BY <1>1, <1>2
<1>3. ASSUME NEW h \in Handlers, CommitPage(h) PROVE conn' \in Conns
  <2>1. hd[h].page \in 0 .. Pages - 1 /\ hd[h].flag \in BOOLEAN
    BY <1>1 DEF Locals
  <2>2. NextPage(h) \in 0 .. Pages - 1
    BY <2>1, PageAssumption DEF NextPage, LastPage
  <2>3. SweepFailed(h) \in BOOLEAN
    BY <2>1 DEF SweepFailed
  <2> QED
    BY <1>1, <1>3, <2>2, <2>3 DEF CommitPage, Conns
<1>4. CASE CompleteImport
  BY <1>1, <1>4 DEF CompleteImport, Conns
<1>5. CASE Connect
  BY <1>1, <1>5, PageAssumption, BoundAssumption DEF Connect, Conns
<1>6. CASE Disconnect
  <2>1. 0 \in 0 .. MaxConnects /\ 0 \in 0 .. Pages - 1
    BY PageAssumption, BoundAssumption
  <2>2. [conn EXCEPT !.live = FALSE, !.request = 0, !.completed = FALSE,
                     !.page = 0] \in Conns
    BY <1>1, <2>1 DEF Conns
  <2> QED
    BY <1>6, <2>2 DEF Disconnect
<1> QED
  BY <1>2, <1>3, <1>4, <1>5, <1>6, ConnEffect

\* Only the roster of the balances has pages.
PageInv == \A h \in Handlers : hd[h].type # "leave_balances" => hd[h].page = 0

\* A connected company has a request.
RequestInv == conn.live => conn.request # 0

LEMMA StepRequest ==
  ASSUME TypeOK, RequestInv, Next
  PROVE  RequestInv'
PROOF
<1>1. conn \in Conns /\ connects \in 0 .. MaxConnects
  BY TypeParts DEF RowsTyped, InputsTyped
<1>2. CASE \E h \in Handlers : CommitPage(h)
  BY <1>1, <1>2 DEF CommitPage, RequestInv, Conns
<1>3. CASE CompleteImport
  BY <1>1, <1>3 DEF CompleteImport, RequestInv, Conns
<1>4. CASE Connect
  BY <1>1, <1>4 DEF Connect, RequestInv
<1>5. CASE Disconnect
  <2>1. ~conn'.live
    BY <1>1, <1>5 DEF Disconnect, Conns
  <2> QED
    BY <2>1 DEF RequestInv
<1>6. CASE UNCHANGED conn
  BY <1>6 DEF RequestInv
<1> QED
  BY <1>2, <1>3, <1>4, <1>5, <1>6, ConnEffect

LEMMA StepPage ==
  ASSUME TypeOK, PageInv, Next
  PROVE  PageInv'
PROOF
<1>1. hd \in [Handlers -> Locals]
  BY TypeParts DEF RowsTyped
<1>2. ASSUME NEW h \in Handlers, Moves(h) PROVE PageInv'
  BY <1>2 DEF Moves, PageInv
<1>3. ASSUME NEW h \in Handlers, Begins(h) PROVE PageInv'
  <2>1. PICK r \in RunIds, t \in Types, tries \in 1 .. Attempts :
          hd' = [hd EXCEPT ![h] = [Idle EXCEPT !.pc = "begin", !.type = t,
                                               !.run = r, !.tries = tries]]
    BY <1>3 DEF Begins
  <2> DEFINE new == [Idle EXCEPT !.pc = "begin", !.type = t, !.run = r,
                                 !.tries = tries]
  <2>2. new.page = 0
    BY DEF Idle
  <2>3. hd' = [hd EXCEPT ![h] = new]
    BY <2>1
  <2> HIDE DEF new
  <2> QED
    BY <1>1, <2>2, <2>3 DEF PageInv
<1>4. ASSUME NEW h \in Handlers, Leaves(h) PROVE PageInv'
  BY <1>1, <1>4 DEF Leaves, PageInv, Idle
<1>5. CASE UNCHANGED hd
  BY <1>5 DEF PageInv
<1> QED
  BY <1>2, <1>3, <1>4, <1>5, StepEffect
  DEF Reads, Advances, Finishes, Heartbeat, RequestCancel, Expire, Elsewhere

LEMMA JobStepTyped ==
  ASSUME TypeOK, PageInv, RequestInv, Next
  PROVE  JobTyped'
PROOF
<1>1. /\ job \in JobRows /\ queue \subseteq 1 .. MaxConnects /\ sent \in BOOLEAN
      /\ covered \subseteq Roster /\ hd \in [Handlers -> Locals]
      /\ conn \in Conns /\ connects \in 0 .. MaxConnects
  BY TypeParts DEF RowsTyped, JobTyped, InputsTyped
<1>2. CASE UNCHANGED <<jobVars, covered>>
  BY <1>1, <1>2 DEF JobTyped, jobVars
<1>3. ASSUME NEW h \in Handlers, Commit(h) \/ CommitPage(h) PROVE JobTyped'
  <2>1. Part(h) \in Roster
    BY <1>1, <1>3 DEF Commit, CommitPage, Part, Roster, PageInv, Locals, Types
  <2>2. covered' \subseteq Roster
    BY <1>1, <1>3, <2>1 DEF Commit, CommitPage
  <2> QED
    BY <1>1, <1>3, <2>2 DEF Commit, CommitPage, JobTyped, jobVars
<1>5. CASE StartJob
  <2>1. job' \in JobRows /\ queue' \subseteq 1 .. MaxConnects
    BY <1>1, <1>5, BoundAssumption DEF StartJob, JobRows, Phases
  <2> QED
    BY <1>1, <1>5, <2>1 DEF StartJob, JobTyped
<1>6. FailedAttempt => job' \in JobRows
  <2>1. ASSUME job.tries > 1 PROVE [job EXCEPT !.tries = @ - 1] \in JobRows
    BY <1>1, <2>1, BoundAssumption DEF JobRows
  <2> QED
    BY <1>1, <2>1, RowFacts DEF FailedAttempt
<1>7. CASE EndPhase
  <2>1. AfterPhase \in Phases
    BY DEF AfterPhase, Phases
  <2>2. [job EXCEPT !.pc = AfterPhase, !.tries = Attempts] \in JobRows
    <3>1. ASSUME NEW pc \in Phases, NEW tries \in 0 .. Attempts
          PROVE  [job EXCEPT !.pc = pc, !.tries = tries] \in JobRows
      BY <1>1 DEF JobRows
    <3>2. Attempts \in 0 .. Attempts
      BY BoundAssumption
    <3> QED
      BY <2>1, <3>1, <3>2
  <2> QED
    BY <1>1, <1>6, <1>7, <2>2 DEF EndPhase, JobTyped
<1>8. CASE CompleteImport
  BY <1>1, <1>8, RowFacts DEF CompleteImport, JobTyped
<1>9. CASE CompletionRefused
  BY <1>1, <1>6, <1>9, RowFacts DEF CompletionRefused, JobTyped
<1>10. CASE Connect
  <2>1. connects + 1 \in 1 .. MaxConnects
    BY <1>1, <1>10, BoundAssumption DEF Connect
  <2>2. queue' \subseteq 1 .. MaxConnects /\ sent' \in BOOLEAN
    BY <1>1, <1>10, <2>1 DEF Connect, Dispatched
  <2> QED
    BY <1>1, <1>10, <2>2 DEF Connect, JobTyped
<1>11. CASE RecoverImport
  <2>1. conn.request \in 1 .. MaxConnects
    BY <1>1, <1>11, BoundAssumption DEF RecoverImport, RequestInv, Conns
  <2> QED
    BY <1>1, <1>11, <2>1 DEF RecoverImport, Dispatched, JobTyped
<1>12. CASE ForgetEvent
  BY <1>1, <1>12 DEF ForgetEvent, JobTyped
<1>13. ASSUME NEW h \in Handlers, HandlerStep(h) \/ Heartbeat(h) \/ Crash(h)
       PROVE  Commit(h) \/ CommitPage(h) \/ UNCHANGED <<jobVars, covered>>
  BY <1>13 DEF HandlerStep, Heartbeat, Crash, Resume, Yield, Acquire, Fetch,
     Fenced, Succeed, GiveUp, jobVars
<1>14. ASSUME NEW h \in Manual,
              EventStep(h) \/ \E t \in ManualTypes : ManualSync(h, t)
       PROVE  UNCHANGED <<jobVars, covered>>
  BY <1>14 DEF EventStep, RetryEvent, EventDone, ManualSync, jobVars
<1>15. ASSUME \/ StartPhase \/ Disconnect
              \/ \E r \in RunIds : RequestCancel(r) \/ Expire(r)
       PROVE  UNCHANGED <<jobVars, covered>>
  BY <1>15 DEF StartPhase, Disconnect, RequestCancel, Expire, jobVars
<1> QED
  BY <1>2, <1>3, <1>5, <1>7, <1>8, <1>9, <1>10, <1>11, <1>12, <1>13, <1>14, <1>15
  DEF Next, JobStep

LEMMA InputsStepTyped ==
  ASSUME TypeOK, Next
  PROVE  InputsTyped'
PROOF
<1>1. InputsTyped
  BY TypeParts
<1>2. CASE UNCHANGED inputVars
  BY <1>1, <1>2 DEF InputsTyped, inputVars
<1>3. ASSUME Fault, UNCHANGED <<connects, manuals>>
      PROVE  InputsTyped'
  BY <1>1, <1>3, BoundAssumption DEF Fault, InputsTyped
<1>4. ASSUME NEW h \in Handlers, HandlerStep(h) \/ Heartbeat(h) \/ Crash(h)
      PROVE  \/ UNCHANGED inputVars
             \/ Fault /\ UNCHANGED <<connects, manuals>>
  <2>1. CASE Fetch(h)
    BY <2>1 DEF Fetch, inputVars
  <2> QED
    BY <1>4, <2>1 DEF HandlerStep, Heartbeat, Crash, Resume, Yield, Acquire,
       Commit, CommitPage, Fenced, Succeed, GiveUp, inputVars
<1>5. ASSUME NEW h \in Manual, NEW t \in ManualTypes, ManualSync(h, t)
      PROVE  InputsTyped'
  BY <1>1, <1>5, BoundAssumption DEF ManualSync, InputsTyped
<1>6. ASSUME NEW h \in Manual, EventStep(h)
      PROVE  UNCHANGED inputVars
  BY <1>6 DEF EventStep, RetryEvent, EventDone
<1>7. CASE Connect
  BY <1>1, <1>7, BoundAssumption DEF Connect, InputsTyped
<1>8. ASSUME Disconnect \/ \E r \in RunIds : RequestCancel(r)
      PROVE  Fault /\ UNCHANGED <<connects, manuals>>
  BY <1>8 DEF Disconnect, RequestCancel
<1>9. ASSUME \/ JobStep \/ RecoverImport \/ ForgetEvent
             \/ \E r \in RunIds : Expire(r)
      PROVE  UNCHANGED inputVars
  BY <1>9 DEF JobStep, StartJob, StartPhase, EndPhase, CompleteImport,
     CompletionRefused, RecoverImport, ForgetEvent, Expire
<1> QED
  BY <1>2, <1>3, <1>4, <1>5, <1>6, <1>7, <1>8, <1>9 DEF Next

Inv == TypeOK /\ LeaseInv /\ PageInv /\ RequestInv

LEMMA InitInv == Init => Inv
PROOF
<1>1. Init => PageInv /\ RequestInv
  BY DEF Init, PageInv, RequestInv, Idle
<1> QED
  BY <1>1, InitTyped, InitLease DEF Inv

LEMMA StepInv == Inv /\ [Next]_vars => Inv'
PROOF
<1>1. ASSUME Inv, Next PROVE Inv'
  <2>1. RowsTyped'
    BY <1>1, LocalsTyped, RunsTyped, ConnTyped DEF Inv, RowsTyped
  <2>2. JobTyped' /\ InputsTyped'
    BY <1>1, JobStepTyped, InputsStepTyped DEF Inv
  <2>3. TypeOK'
    BY <2>1, <2>2 DEF TypeOK, RowsTyped, JobTyped, InputsTyped, RunRows, Conns,
       Locals, JobRows
  <2> QED
    BY <1>1, <2>3, StepLease, StepPage, StepRequest DEF Inv
<1>2. ASSUME Inv, UNCHANGED vars PROVE Inv'
  <2>1. TypeOK' /\ PageInv' /\ RequestInv'
    BY <1>2 DEF Inv, vars, TypeOK, PageInv, RequestInv
  <2> QED
    BY <1>2, <2>1, StepLease DEF Inv
<1> QED
  BY <1>1, <1>2

-----------------------------------------------------------------------------
(* The theorems *)

LEMMA Invariant == Spec => []Inv
BY InitInv, StepInv, PTL DEF Spec

(* Every variable of SyncRuns keeps to its type.                               *)
THEOREM TypeCorrect == Spec => []TypeOK
BY Invariant, PTL DEF Inv

(* Two syncs of one type never have running rows at once, whoever died, was    *)
(* cancelled or was taken over.                                                *)
THEOREM OneRunPerTypeHolds == Spec => []OneRunPerType
PROOF
<1>1. ASSUME LeaseInv, NEW t \in Types PROVE Cardinality(Running(t)) <= 1
  <2>1. CASE Running(t) = {}
    BY <2>1, FS_EmptySet
  <2>2. ASSUME NEW r \in Running(t) PROVE Cardinality(Running(t)) <= 1
    <3>1. Running(t) = {r}
      BY <1>1, <2>2 DEF Running, LeaseInv
    <3> QED
      BY <3>1, FS_Singleton
  <2> QED
    BY <2>1, <2>2
<1>2. Inv => OneRunPerType
  BY <1>1 DEF Inv, OneRunPerType
<1> QED
  BY <1>2, Invariant, PTL

(* The sync rows, and the fences of the transactions that advance the          *)
(* connection, implement a lease for each run type.                            *)
THEOREM LeaseSpecHolds == Spec => LeaseSpec
PROOF
<1>1. Inv /\ [Next]_vars => [Lease!Next]_(Lease!leaseVars)
  BY EveryStep DEF Inv
<1>2. Spec => Lease!Init /\ [][Lease!Next]_(Lease!leaseVars)
  BY <1>1, InitRefines, Invariant, PTL DEF Spec
<1> QED
  BY <1>2 DEF LeaseSpec, Lease!Spec
=============================================================================
