------------------------- MODULE ImportCoverageProofs -------------------------
(***************************************************************************)
(* The theorem that a completed import has covered its roster, for every   *)
(* number of pages, handlers, runs and faults.                             *)
(*                                                                         *)
(* The balance page and its failure flag are all the connection remembers  *)
(* of a sweep; the argument is what the two say about the pages behind     *)
(* them, and that the phases of the import are traversed under the request *)
(* that is completed.                                                      *)
(***************************************************************************)
EXTENDS SyncRunsProofs

Sheet(p) == <<"leave_balances", p>>

\* Without a failure, the pages behind the balance cursor are covered.
SweptInv ==
  ~conn.failed => \A p \in 0 .. Pages - 1 : p < conn.page => Sheet(p) \in covered

\* A sync of balances that may still commit knows whether its sweep failed.
FlagInv ==
  \A h \in Handlers : hd[h].pc = "fetched" =>
    /\ hd[h].outcome \in {"ok", "partial"}
    /\ /\ hd[h].type = "leave_balances"
       /\ runs[hd[h].run].status = "running"
       /\ conn.page = hd[h].page /\ conn.page # 0
       /\ ~hd[h].flag
       => ~conn.failed

\* Requests are numbered in the order they are made.
AgeInv ==
  /\ conn.request \in 0 .. connects
  /\ queue \subseteq 1 .. connects
  /\ job.pc # "idle" => job.request \in 1 .. connects

\* The import's executor works for the phase, each time with a run of its own.
PhaseInv ==
  /\ hd[Importer].pc # "idle" => job.pc \in Types /\ hd[Importer].type = job.pc
  /\ hd[Importer].pc = "begin" => runs[hd[Importer].run].status = "none"

\* The sweep that ended here was whole.
Traversed ==
  conn.page = 0 /\ ~conn.failed => \A p \in 0 .. Pages - 1 : Sheet(p) \in covered

\* The present phase has advanced the connection without a failure.
Succeeded ==
  \/ hd[Importer].pc = "committed" /\ hd[Importer].outcome = "ok"
  \/ hd[Importer].pc = "done" /\ hd[Importer].outcome = "succeeded"

\* The job imports for the request the connection has.
Mine == job.pc # "idle" /\ conn.request = job.request

\* What the phases behind the job have covered.
Imported ==
  /\ job.pc \in {"leave_records", "leave_balances", "complete"} =>
       <<"people", 0>> \in covered
  /\ job.pc \in {"leave_balances", "complete"} => <<"leave_records", 0>> \in covered
  /\ job.pc = "complete" => Traversed

PhaseDone ==
  Succeeded =>
    /\ job.pc # "leave_balances" => <<job.pc, 0>> \in covered
    /\ job.pc = "leave_balances" /\ LastPage(Importer) => Traversed

ImportInv == Mine => Imported /\ PhaseDone

CoverInv == SweptInv /\ FlagInv /\ AgeInv /\ PhaseInv /\ ImportInv

-----------------------------------------------------------------------------
(* What the steps do to the handlers' locals and to the coverage. *)

LEMMA CoverTypes ==
  ASSUME TypeOK
  PROVE  /\ conn \in Conns /\ runs \in [RunIds -> RunRows]
         /\ hd \in [Handlers -> Locals] /\ job \in JobRows
         /\ connects \in 0 .. MaxConnects /\ queue \subseteq 1 .. MaxConnects
         /\ Importer \in Handlers /\ Manual \subseteq Handlers
         /\ Importer \notin Manual
BY TypeParts, HandlerAssumption
DEF RowsTyped, JobTyped, InputsTyped, Handlers

LEMMA FetchedBy ==
  ASSUME TypeOK, Next, NEW h \in Handlers, hd'[h].pc = "fetched"
  PROVE  hd'[h] = hd[h] \/ Fetch(h)
PROOF
<1>1. hd \in [Handlers -> Locals]
  BY CoverTypes
<1>2. ASSUME NEW g \in Handlers, NEW pc, Goes(g, pc), pc # "fetched"
      PROVE  hd'[h] = hd[h]
  <2>1. hd'[g].pc = pc /\ \A f \in Handlers : f # g => hd'[f] = hd[f]
    BY <1>1, <1>2 DEF Goes, Locals
  <2> QED
    BY <1>2, <2>1
<1>3. ASSUME NEW g \in Handlers, NEW local \in Locals, local.pc # "fetched",
             hd' = [hd EXCEPT ![g] = local]
      PROVE  hd'[h] = hd[h]
  BY <1>1, <1>3
<1>4. ASSUME NEW g \in Handlers, HandlerStep(g) \/ Crash(g)
      PROVE  hd'[h] = hd[h] \/ Fetch(h)
  <2>0. ASSUME NEW outcome \in Terminal \cup {"ok", "partial"},
               hd' = [hd EXCEPT ![g].pc = "done", ![g].outcome = outcome]
        PROVE  hd'[h] = hd[h]
    <3> DEFINE local == [hd[g] EXCEPT !.pc = "done", !.outcome = outcome]
    <3>1. local \in Locals /\ local.pc = "done"
      BY <1>1 DEF Locals
    <3> QED
      BY <1>1, <1>3, <2>0, <3>1
  <2>1. CASE Fetch(g)
    <3>1. CASE g = h
      BY <2>1, <3>1
    <3>2. CASE g # h
      <4>1. hd' = [hd EXCEPT ![g] = hd'[g]]
        BY <1>1, <2>1 DEF Fetch, Goes
      <4> QED
        BY <1>1, <3>2, <4>1
    <3> QED
      BY <3>1, <3>2
  <2>2. CASE Resume(g)
    BY <1>2, <2>0, <2>2 DEF Resume, Ends
  <2>3. CASE Yield(g)
    <3>1. Ends(g, "cancelled") /\ "cancelled" \in Terminal
      BY <2>3 DEF Yield, Terminal, Statuses
    <3> QED
      BY <2>0, <3>1 DEF Ends
  <2>4. CASE Acquire(g) \/ Crash(g) \/ Commit(g) \/ Fenced(g)
    BY <1>2, <2>4 DEF Acquire, Crash, Commit, Fenced
  <2>5. CASE CommitPage(g)
    <3>1. PICK outcome \in {"ok", "partial"} :
            hd' = [hd EXCEPT ![g].pc = "committed", ![g].outcome = outcome]
      BY <2>5 DEF CommitPage
    <3> DEFINE local == [hd[g] EXCEPT !.pc = "committed", !.outcome = outcome]
    <3>2. local \in Locals /\ local.pc = "committed"
      BY <1>1 DEF Locals
    <3> QED
      BY <1>1, <1>3, <3>1, <3>2
  <2>6. CASE Succeed(g)
    BY <1>2, <2>0, <2>6 DEF Succeed, Ends, Terminal, Statuses
  <2>7. CASE GiveUp(g)
    BY <2>0, <2>7 DEF GiveUp, Ends, Terminal, Statuses
  <2> QED
    BY <1>4, <2>1, <2>2, <2>3, <2>4, <2>5, <2>6, <2>7 DEF HandlerStep
<1>6. ASSUME NEW g \in Handlers, Begins(g) \/ Leaves(g) PROVE hd'[h] = hd[h]
  <2>1. CASE Leaves(g)
    BY <1>3, <2>1, RowFacts DEF Leaves, Idle
  <2>2. CASE Begins(g)
    <3>1. PICK r \in RunIds, t \in Types, tries \in 1 .. Attempts :
            hd' = [hd EXCEPT ![g] = [Idle EXCEPT !.pc = "begin", !.type = t,
                                                 !.run = r, !.tries = tries]]
      BY <2>2 DEF Begins
    <3> DEFINE local == [Idle EXCEPT !.pc = "begin", !.type = t, !.run = r,
                                     !.tries = tries]
    <3>2. local \in Locals /\ local.pc = "begin"
      <4>1. tries \in 0 .. Attempts
        BY BoundAssumption
      <4> QED
        BY <4>1, RowFacts DEF Locals, Idle
    <3> QED
      BY <1>3, <3>1, <3>2
  <2> QED
    BY <1>6, <2>1, <2>2
<1>7. ASSUME NEW g \in Manual, EventStep(g) \/ \E t \in ManualTypes : ManualSync(g, t)
      PROVE  hd'[h] = hd[h]
  <2>1. g \in Handlers
    BY CoverTypes
  <2>2. ASSUME NEW t \in ManualTypes, ManualSync(g, t) PROVE hd'[h] = hd[h]
    <3>1. t \in Types /\ Attempts \in 1 .. Attempts
      BY TypesAssumption, BoundAssumption
    <3> QED
      BY <1>6, <2>1, <2>2, <3>1, BeginEffect DEF ManualSync
  <2>3. CASE EventDone(g)
    BY <1>6, <2>1, <2>3 DEF EventDone, Leaves
  <2>4. CASE RetryEvent(g)
    <3>1. CASE hd' = [hd EXCEPT ![g] = Idle]
      BY <1>3, <2>1, <3>1, RowFacts DEF Idle
    <3>2. CASE hd[g].tries > 1 /\ hd' = [hd EXCEPT ![g].pc = "begin", ![g].tries = @ - 1]
      <4> DEFINE local == [hd[g] EXCEPT !.pc = "begin", !.tries = @ - 1]
      <4>1. local \in Locals /\ local.pc = "begin"
        BY <1>1, <2>1, <3>2, BoundAssumption DEF Locals
      <4> QED
        BY <1>1, <1>3, <2>1, <3>2, <4>1
    <3> QED
      BY <2>4, <3>1, <3>2 DEF RetryEvent
  <2> QED
    BY <1>7, <2>2, <2>3, <2>4 DEF EventStep
<1>8. ASSUME JobStep PROVE hd'[h] = hd[h]
  <2>1. CASE StartPhase
    <3>1. Importer \in Handlers /\ job.pc \in Types /\ 1 \in 1 .. Attempts
      BY <2>1, CoverTypes, BoundAssumption DEF StartPhase
    <3> QED
      BY <1>6, <2>1, <3>1, BeginEffect DEF StartPhase
  <2>2. CASE EndPhase
    BY <1>6, <2>2, CoverTypes DEF EndPhase, Leaves
  <2> QED
    BY <1>8, <2>1, <2>2 DEF JobStep, StartJob, CompleteImport, CompletionRefused
<1>5. ASSUME \/ \E g \in Handlers : Heartbeat(g)
             \/ Connect \/ Disconnect \/ RecoverImport \/ ForgetEvent
             \/ \E r \in RunIds : RequestCancel(r) \/ Expire(r)
      PROVE  hd'[h] = hd[h]
  BY <1>5 DEF Heartbeat, Connect, Disconnect, RecoverImport, ForgetEvent, RequestCancel, Expire
<1> QED
  BY <1>4, <1>5, <1>7, <1>8 DEF Next

\* A row starts to run only with the handler that acquires it.
LEMMA RunningBefore ==
  ASSUME TypeOK, LeaseInv, Next, NEW h \in Handlers, hd[h].pc = "fetched",
         runs'[hd[h].run].status = "running"
  PROVE  runs[hd[h].run].status = "running"
PROOF
<1>1. runs \in [RunIds -> RunRows] /\ hd \in [Handlers -> Locals] /\ hd[h].run \in RunIds
  BY CoverTypes DEF LeaseInv
<1>2. ASSUME NEW g \in Handlers, Finishes(g) PROVE runs[hd[h].run].status = "running"
  <2>1. CASE UNCHANGED runs
    BY <2>1
  <2>2. ASSUME NEW status \in Terminal,
               runs' = [runs EXCEPT ![hd[g].run] = Row(hd[g].type, status)]
        PROVE  runs[hd[h].run].status = "running"
    BY <1>1, <2>2 DEF Row, Terminal
  <2> QED
    BY <1>2, <2>1, <2>2 DEF Finishes, Closes
<1>3. ASSUME NEW g \in Handlers, Acquire(g) PROVE runs[hd[h].run].status = "running"
  <2>1. hd[g].run # hd[h].run
    BY <1>3 DEF Acquire, LeaseInv
  <2>2. runs'[hd[h].run] \in {Row(hd[g].type, "failed"), NoRow, runs[hd[h].run]}
    BY <1>1, <1>3, <2>1 DEF Acquire
  <2>3. Row(hd[g].type, "failed").status = "failed" /\ NoRow.status = "none"
    BY DEF Row, NoRow
  <2> QED
    BY <2>2, <2>3
<1>4. ASSUME NEW g \in Handlers, Leaves(g) PROVE runs[hd[h].run].status = "running"
  BY <1>1, <1>4 DEF Leaves, Left, NoRow
<1>5. ASSUME \/ \E g \in Handlers : Heartbeat(g)
             \/ \E r \in RunIds : RequestCancel(r) \/ Expire(r)
      PROVE  runs[hd[h].run].status = "running"
  <2>1. ASSUME NEW r \in RunIds, NEW b \in BOOLEAN,
               \/ runs' = [runs EXCEPT ![r].live = b]
               \/ runs' = [runs EXCEPT ![r].cancel = b]
        PROVE  runs[hd[h].run].status = "running"
    BY <1>1, <2>1 DEF RunRows
  <2>2. \A g \in Handlers : Heartbeat(g) => hd[g].run \in RunIds
    BY DEF Heartbeat, LeaseInv
  <2> QED
    BY <1>5, <2>1, <2>2 DEF Heartbeat, RequestCancel, Expire
<1> QED
  BY <1>2, <1>3, <1>4, <1>5, StepEffect DEF Reads, Advances, Begins, Elsewhere

LEMMA OutcomeOfFetch ==
  ASSUME TypeOK, NEW h \in Handlers, Fetch(h), hd'[h].pc = "fetched"
  PROVE  /\ hd'[h].outcome \in {"ok", "partial"}
         /\ hd'[h].type = hd[h].type /\ hd'[h].page \in {0, conn.page}
         /\ hd'[h].type = "leave_balances" => hd'[h].flag = conn.failed
         /\ UNCHANGED <<conn, runs>>
PROOF
<1>1. hd \in [Handlers -> Locals]
  BY CoverTypes
<1>2. CASE Goes(h, "fenced")
  BY <1>1, <1>2 DEF Goes, Locals
<1>3. ASSUME NEW outcome \in {"ok", "partial", "failed"},
             hd' = [hd EXCEPT
               ![h].pc = IF outcome = "failed" THEN "failing" ELSE "fetched",
               ![h].outcome = outcome,
               ![h].page = IF hd[h].type = "leave_balances" THEN conn.page ELSE 0,
               ![h].flag = hd[h].type = "leave_balances" /\ conn.failed]
      PROVE  /\ hd'[h].outcome \in {"ok", "partial"}
             /\ hd'[h].type = hd[h].type /\ hd'[h].page \in {0, conn.page}
             /\ hd'[h].type = "leave_balances" => hd'[h].flag = conn.failed
  <2>1. /\ hd'[h].pc = IF outcome = "failed" THEN "failing" ELSE "fetched"
        /\ hd'[h].outcome = outcome /\ hd'[h].type = hd[h].type
        /\ hd'[h].page = IF hd[h].type = "leave_balances" THEN conn.page ELSE 0
        /\ hd'[h].flag = (hd[h].type = "leave_balances" /\ conn.failed)
    BY <1>1, <1>3 DEF Locals
  <2>2. conn.failed \in BOOLEAN
    BY CoverTypes DEF Conns
  <2> QED
    BY <2>1, <2>2
<1> QED
  BY <1>2, <1>3 DEF Fetch

\* Two syncs of the balances are not both at a commit.
LEMMA OneSweeper ==
  ASSUME TypeOK, LeaseInv, NEW g \in Handlers, NEW h \in Handlers,
         CommitPage(g), hd[h].pc = "fetched", hd[h].type = "leave_balances",
         runs[hd[h].run].status = "running"
  PROVE  g = h
BY DEF CommitPage, RunActive, LeaseInv

-----------------------------------------------------------------------------
(* The sweep *)

\* What a page's commit leaves behind.
LEMMA PageStep ==
  ASSUME TypeOK, LeaseInv, SweptInv, FlagInv, NEW h \in Handlers, CommitPage(h)
  PROVE  /\ SweptInv' /\ Traversed'
         /\ UNCHANGED <<job, queue, connects>> /\ conn'.request = conn.request
         /\ \A t \in {"people", "leave_records"} : <<t, 0>> \in covered =>
              <<t, 0>> \in covered'
PROOF
<1>1. /\ conn \in Conns /\ hd[h] \in Locals
      /\ hd[h].pc = "fetched" /\ hd[h].type = "leave_balances"
      /\ runs[hd[h].run].status = "running" /\ conn.page = hd[h].page
  BY CoverTypes DEF CommitPage, RunActive
<1>2. conn' = [conn EXCEPT !.page = NextPage(h), !.failed = SweepFailed(h)]
  BY DEF CommitPage
<1>3. /\ conn'.page = NextPage(h) /\ conn'.failed = SweepFailed(h)
      /\ conn'.request = conn.request
  BY <1>1, <1>2 DEF Conns
<1>4. Part(h) = Sheet(hd[h].page)
  BY <1>1 DEF Part, Sheet
<1>5. /\ conn.page \in 0 .. Pages - 1 /\ Pages \in Nat \ {0}
      /\ conn.failed \in BOOLEAN /\ hd[h].flag \in BOOLEAN
  BY <1>1, PageAssumption DEF Conns, Locals
<1>6. ASSUME ~SweepFailed(h)
      PROVE  \A p \in 0 .. Pages - 1 : p =< conn.page => Sheet(p) \in covered'
  <2>1. hd[h].outcome = "ok"
    BY <1>1, <1>6 DEF SweepFailed, FlagInv
  <2>2. covered' = covered \cup {Sheet(conn.page)}
    BY <1>1, <1>4, <2>1 DEF CommitPage
  <2>3. conn.page # 0 => ~conn.failed
    BY <1>1, <1>5, <1>6 DEF SweepFailed, FlagInv
  <2>4. ASSUME NEW p \in 0 .. Pages - 1, p < conn.page PROVE Sheet(p) \in covered
    BY <1>5, <2>3, <2>4 DEF SweptInv
  <2>5. ASSUME NEW p \in 0 .. Pages - 1, p =< conn.page
        PROVE  p < conn.page \/ p = conn.page
    BY <1>5, <2>5
  <2> QED
    BY <2>2, <2>4, <2>5
<1>7. SweptInv'
  <2>1. ASSUME NEW p \in 0 .. Pages - 1, p < NextPage(h) PROVE p =< conn.page
    BY <1>1, <1>5, <2>1 DEF NextPage, LastPage
  <2> QED
    BY <1>3, <1>6, <2>1 DEF SweptInv
<1>8. Traversed'
  <2>1. ASSUME NextPage(h) = 0, NEW p \in 0 .. Pages - 1 PROVE p =< conn.page
    BY <1>1, <1>5, <2>1 DEF NextPage, LastPage
  <2> QED
    BY <1>3, <1>6, <2>1 DEF Traversed
<1>9. \A t \in {"people", "leave_records"} : <<t, 0>> # Part(h)
  BY <1>1 DEF Part
<1>10. covered \ {Part(h)} \subseteq covered'
  BY DEF CommitPage
<1> QED
  BY <1>3, <1>7, <1>8, <1>9, <1>10 DEF CommitPage, jobVars, inputVars

\* The coverage grows with the other commits, and starts anew with a request.
LEMMA CoveredEffect ==
  ASSUME Next
  PROVE  \/ \E h \in Handlers : CommitPage(h)
         \/ \E h \in Handlers : Commit(h)
         \/ Connect
         \/ UNCHANGED covered
PROOF
<1>1. ASSUME NEW h \in Handlers, HandlerStep(h) \/ Heartbeat(h) \/ Crash(h)
      PROVE  CommitPage(h) \/ Commit(h) \/ UNCHANGED covered
  BY <1>1 DEF HandlerStep, Heartbeat, Crash, Resume, Yield, Acquire, Fetch,
     Fenced, Succeed, GiveUp
<1>2. ASSUME NEW h \in Manual,
             EventStep(h) \/ \E t \in ManualTypes : ManualSync(h, t)
      PROVE  UNCHANGED covered
  BY <1>2 DEF EventStep, RetryEvent, EventDone, ManualSync
<1>3. ASSUME JobStep PROVE UNCHANGED covered
  BY <1>3 DEF JobStep, StartJob, StartPhase, EndPhase, CompleteImport,
     CompletionRefused
<1>4. ASSUME \/ Disconnect \/ RecoverImport \/ ForgetEvent
             \/ \E r \in RunIds : RequestCancel(r) \/ Expire(r)
      PROVE  UNCHANGED covered
  BY <1>4 DEF Disconnect, RecoverImport, ForgetEvent, RequestCancel, Expire
<1> QED
  BY <1>1, <1>2, <1>3, <1>4 DEF Next

\* Outside a page's commit, page and flag change with the connection alone.
LEMMA PageEffect ==
  ASSUME TypeOK, Next, \A h \in Handlers : ~CommitPage(h)
  PROVE  \/ conn'.page = 0 /\ (Connect \/ Disconnect)
         \/ /\ conn'.page = conn.page /\ conn'.failed = conn.failed
            /\ conn'.request = conn.request /\ covered \subseteq covered'
PROOF
<1>1. conn \in Conns
  BY CoverTypes
<1>2. CASE Connect
  BY <1>2 DEF Connect
<1>3. CASE Disconnect
  BY <1>1, <1>3 DEF Disconnect, Conns
<1>4. ASSUME ~Connect, ~Disconnect
      PROVE  /\ conn'.page = conn.page /\ conn'.failed = conn.failed
             /\ conn'.request = conn.request
  <2>1. CASE CompleteImport
    BY <1>1, <2>1 DEF CompleteImport, Conns
  <2> QED
    BY <1>4, <2>1, ConnEffect
<1>5. ASSUME ~Connect PROVE covered \subseteq covered'
  BY <1>5, CoveredEffect DEF Commit
<1> QED
  BY <1>2, <1>3, <1>4, <1>5

LEMMA SweptStep ==
  ASSUME TypeOK, LeaseInv, SweptInv, FlagInv, Next
  PROVE  SweptInv'
PROOF
<1>1. CASE \E h \in Handlers : CommitPage(h)
  BY <1>1, PageStep
<1>2. CASE conn'.page = 0
  <2>1. \A p \in 0 .. Pages - 1 : ~(p < 0)
    BY PageAssumption
  <2> QED
    BY <1>2, <2>1 DEF SweptInv
<1>3. CASE /\ conn'.page = conn.page /\ conn'.failed = conn.failed
           /\ covered \subseteq covered'
  BY <1>3 DEF SweptInv
<1> QED
  BY <1>1, <1>2, <1>3, PageEffect

LEMMA FlagStep ==
  ASSUME TypeOK, LeaseInv, FlagInv, Next
  PROVE  FlagInv'
PROOF
<1> SUFFICES ASSUME NEW h \in Handlers, hd'[h].pc = "fetched"
    PROVE  /\ hd'[h].outcome \in {"ok", "partial"}
           /\ /\ hd'[h].type = "leave_balances"
              /\ runs'[hd'[h].run].status = "running"
              /\ conn'.page = hd'[h].page /\ conn'.page # 0
              /\ ~hd'[h].flag
              => ~conn'.failed
  BY DEF FlagInv
<1>1. CASE Fetch(h)
  BY <1>1, OutcomeOfFetch
<1>2. CASE hd'[h] = hd[h]
  <2>1. hd'[h].outcome \in {"ok", "partial"}
    BY <1>2 DEF FlagInv
  <2>2. ASSUME hd'[h].type = "leave_balances", runs'[hd'[h].run].status = "running",
               conn'.page = hd'[h].page, conn'.page # 0, ~hd'[h].flag
        PROVE  ~conn'.failed
    <3>1. runs[hd[h].run].status = "running"
      BY <1>2, <2>2, RunningBefore
    <3>2. \A g \in Handlers : ~CommitPage(g)
      <4>1. ASSUME NEW g \in Handlers, CommitPage(g) PROVE FALSE
        <5>1. g = h
          BY <1>2, <2>2, <3>1, <4>1, OneSweeper
        <5>2. hd'[h].pc = "committed"
          BY <4>1, <5>1, CoverTypes DEF CommitPage, Locals
        <5> QED
          BY <5>2
      <4> QED
        BY <4>1
    <3>3. conn'.page = conn.page /\ conn'.failed = conn.failed
      BY <2>2, <3>2, PageEffect
    <3> QED
      BY <1>2, <2>2, <3>1, <3>3 DEF FlagInv
  <2> QED
    BY <2>1, <2>2
<1> QED
  BY <1>1, <1>2, FetchedBy

\* What a job becomes.
LEMMA JobEffect ==
  ASSUME TypeOK, Next
  PROVE  \/ StartJob
         \/ EndPhase \/ CompletionRefused \/ CompleteImport
         \/ Connect \/ RecoverImport
         \/ UNCHANGED <<job, queue>>
PROOF
<1>1. ASSUME NEW h \in Handlers, HandlerStep(h) \/ Heartbeat(h) \/ Crash(h)
      PROVE  UNCHANGED <<job, queue>>
  BY <1>1 DEF HandlerStep, Heartbeat, Crash, Resume, Yield, Acquire, Fetch,
     Commit, CommitPage, Fenced, Succeed, GiveUp, jobVars
<1>2. ASSUME NEW h \in Manual,
             EventStep(h) \/ \E t \in ManualTypes : ManualSync(h, t)
      PROVE  UNCHANGED <<job, queue>>
  BY <1>2 DEF EventStep, RetryEvent, EventDone, ManualSync, jobVars
<1>3. ASSUME \/ StartPhase \/ Disconnect \/ ForgetEvent
             \/ \E r \in RunIds : RequestCancel(r) \/ Expire(r)
      PROVE  UNCHANGED <<job, queue>>
  BY <1>3 DEF StartPhase, Disconnect, ForgetEvent, RequestCancel, Expire, jobVars
<1> QED
  BY <1>1, <1>2, <1>3 DEF Next, JobStep

LEMMA AttemptOver ==
  ASSUME TypeOK, FailedAttempt
  PROVE  \/ job'.pc = "idle"
         \/ job'.pc = job.pc /\ job'.request = job.request
BY CoverTypes DEF FailedAttempt, JobRows, NoJob

LEMMA NextPhase ==
  ASSUME TypeOK, NEW pc, job' = [job EXCEPT !.pc = pc, !.tries = Attempts]
  PROVE  job'.pc = pc /\ job'.request = job.request
BY CoverTypes DEF JobRows

\* An attempt ends: its job goes on, with the request it has, or is over.
LEMMA JobGoesOn ==
  ASSUME TypeOK, PhaseInv, EndPhase \/ CompletionRefused
  PROVE  /\ job.pc # "idle" /\ queue' = queue
         /\ job'.pc = "idle" \/ job'.request = job.request
PROOF
<1>1. CASE EndPhase
  <2>1. job.pc # "idle"
    BY <1>1 DEF EndPhase, PhaseInv, Types
  <2> QED
    BY <1>1, <2>1, AttemptOver, NextPhase DEF EndPhase
<1>2. CASE CompletionRefused
  BY <1>2, AttemptOver DEF CompletionRefused, NoJob
<1> QED
  BY <1>1, <1>2

LEMMA AgeStep ==
  ASSUME TypeOK, RequestInv, AgeInv, PhaseInv, Next
  PROVE  AgeInv'
PROOF
<1>1. /\ conn \in Conns /\ job \in JobRows /\ connects \in Nat
      /\ conn.request \in 0 .. connects /\ queue \subseteq 1 .. connects
      /\ job.pc # "idle" => job.request \in 1 .. connects
  BY CoverTypes, BoundAssumption DEF AgeInv
<1>2. CASE Connect
  <2>1. connects' = connects + 1 /\ conn'.request = connects + 1 /\ job' = job
    BY <1>2 DEF Connect
  <2>2. queue' \subseteq queue \cup {connects + 1}
    BY <1>2 DEF Connect, Dispatched
  <2>3. \A n \in 0 .. connects : n \in 0 .. connects + 1
    BY <1>1
  <2>4. \A n \in 1 .. connects : n \in 1 .. connects + 1
    BY <1>1
  <2>5. connects + 1 \in 0 .. connects + 1 /\ connects + 1 \in 1 .. connects + 1
    BY <1>1
  <2> QED
    BY <1>1, <2>1, <2>2, <2>3, <2>4, <2>5 DEF AgeInv
<1>3. ASSUME ~Connect PROVE connects' = connects /\ conn'.request \in 0 .. connects
  <2>1. connects' = connects
    BY <1>3 DEF Next, HandlerStep, Heartbeat, Crash, Resume, Yield, Acquire, Fetch,
       Commit, CommitPage, Fenced, Succeed, GiveUp, EventStep, RetryEvent, EventDone,
       ManualSync, JobStep, StartJob, StartPhase, EndPhase, CompleteImport,
       CompletionRefused, Disconnect, RecoverImport, ForgetEvent, RequestCancel,
       Expire, inputVars
  <2>2. conn'.request \in {conn.request, 0}
    BY <1>1, <1>3, ConnEffect DEF CommitPage, CompleteImport, Disconnect, Conns
  <2> QED
    BY <1>1, <2>1, <2>2
<1>4. CASE StartJob
  <2>1. PICK n \in queue : job' = [pc |-> "people", request |-> n, tries |-> Attempts]
    BY <1>4 DEF StartJob
  <2>2. job'.request \in 1 .. connects /\ queue' \subseteq queue /\ ~Connect
    BY <1>1, <1>4, <2>1 DEF StartJob, Connect
  <2> QED
    BY <1>1, <1>3, <2>2 DEF AgeInv
<1>5. CASE RecoverImport
  <2>1. conn.request \in 1 .. connects
    BY <1>1, <1>5 DEF RecoverImport, RequestInv
  <2> QED
    BY <1>1, <1>5, <2>1 DEF RecoverImport, Dispatched, AgeInv, inputVars
<1>6. ASSUME ~Connect, queue' = queue,
             job'.pc = "idle" \/ (job.pc # "idle" /\ job'.request = job.request)
      PROVE  AgeInv'
  BY <1>1, <1>3, <1>6 DEF AgeInv
<1>7. CASE (EndPhase \/ CompletionRefused) /\ ~Connect
  BY <1>6, <1>7, JobGoesOn
<1>8. CASE CompleteImport /\ ~Connect
  BY <1>6, <1>8 DEF CompleteImport, NoJob
<1>9. CASE UNCHANGED <<job, queue>> /\ ~Connect
  BY <1>6, <1>9
<1> QED
  BY <1>2, <1>4, <1>5, <1>7, <1>8, <1>9, JobEffect

\* A row becomes another only by its own handler, or from running.
LEMMA FreshRow ==
  ASSUME TypeOK, LeaseInv, Next, NEW h \in Handlers,
         hd[h].pc = "begin", hd'[h].pc = "begin", hd'[h].run = hd[h].run,
         runs[hd[h].run].status = "none"
  PROVE  runs'[hd[h].run].status = "none"
PROOF
<1>1. /\ runs \in [RunIds -> RunRows] /\ hd \in [Handlers -> Locals]
      /\ hd[h].run \in RunIds
  BY CoverTypes DEF LeaseInv
<1>2. \A g \in Handlers : g # h /\ hd[g].pc # "idle" => hd[g].run # hd[h].run
  BY DEF LeaseInv
<1>3. ASSUME NEW g \in Handlers, Finishes(g) PROVE runs'[hd[h].run] = runs[hd[h].run]
  <2>1. g # h /\ hd[g].pc # "idle"
    BY <1>3 DEF Finishes
  <2> QED
    BY <1>1, <1>2, <1>3, <2>1 DEF Finishes, Closes
<1>4. ASSUME NEW g \in Handlers, Acquire(g), Moves(g)
      PROVE  runs'[hd[h].run] = runs[hd[h].run]
  <2>1. CASE g = h
    <3>1. hd'[h].pc = "acquired"
      BY <1>1, <1>4, <2>1 DEF Acquire, Goes, Locals
    <3> QED
      BY <3>1
  <2>2. CASE g # h
    <3>1. hd[g].run # hd[h].run
      BY <1>2, <1>4, <2>2 DEF Acquire
    <3>2. hd[h].run \notin Expired(hd[g].type)
      BY DEF Expired, Running
    <3> QED
      BY <1>1, <1>4, <3>1, <3>2 DEF Acquire
  <2> QED
    BY <2>1, <2>2
<1>5. ASSUME NEW g \in Handlers, Leaves(g) PROVE runs'[hd[h].run] = runs[hd[h].run]
  <2>1. g # h /\ hd[g].run # hd[h].run
    BY <1>2, <1>5 DEF Leaves
  <2> QED
    BY <1>1, <1>5, <2>1 DEF Leaves, Left
<1>6. ASSUME NEW r \in RunIds, NEW b \in BOOLEAN,
             \/ runs' = [runs EXCEPT ![r].live = b]
             \/ runs' = [runs EXCEPT ![r].cancel = b]
      PROVE  runs'[hd[h].run].status = "none"
  BY <1>1, <1>6 DEF RunRows
<1>7. \A g \in Handlers : Heartbeat(g) => hd[g].run \in RunIds
  BY DEF Heartbeat, LeaseInv
<1>8. ASSUME \/ \E g \in Handlers : Heartbeat(g)
             \/ \E r \in RunIds : RequestCancel(r) \/ Expire(r)
      PROVE  runs'[hd[h].run].status = "none"
  BY <1>6, <1>7, <1>8 DEF Heartbeat, RequestCancel, Expire
<1> QED
  BY <1>3, <1>4, <1>5, <1>8, StepEffect DEF Reads, Advances, Begins, Elsewhere

-----------------------------------------------------------------------------
(* The phases *)

\* Who moves the import's executor.
LEMMA ImporterMoves ==
  ASSUME TypeOK, Next
  PROVE  \/ hd'[Importer] = hd[Importer]
         \/ HandlerStep(Importer) \/ Crash(Importer)
         \/ StartPhase \/ EndPhase
PROOF
<1>1. Importer \in Handlers /\ \A h \in Manual : h \in Handlers /\ h # Importer
  BY CoverTypes
<1>2. hd \in [Handlers -> Locals]
  BY CoverTypes
<1>3. ASSUME NEW h \in Handlers, h # Importer, HandlerStep(h) \/ Crash(h)
      PROVE  hd'[Importer] = hd[Importer]
  BY <1>1, <1>3, HandlerEffect DEF Reads, Advances, Finishes, Moves
<1>4. ASSUME NEW h \in Manual, NEW t \in ManualTypes, ManualSync(h, t)
      PROVE  hd'[Importer] = hd[Importer]
  BY <1>1, <1>2, <1>4 DEF ManualSync, Begin
<1>5. ASSUME NEW h \in Manual, EventStep(h) PROVE hd'[Importer] = hd[Importer]
  BY <1>1, <1>2, <1>5 DEF EventStep, RetryEvent, EventDone
<1>6. ASSUME \/ \E h \in Handlers : Heartbeat(h)
             \/ StartJob \/ CompleteImport \/ CompletionRefused
             \/ Connect \/ Disconnect \/ RecoverImport \/ ForgetEvent
             \/ \E r \in RunIds : RequestCancel(r) \/ Expire(r)
      PROVE  hd'[Importer] = hd[Importer]
  BY <1>6 DEF Heartbeat, StartJob, CompleteImport, CompletionRefused, Connect,
     Disconnect, RecoverImport, ForgetEvent, RequestCancel, Expire
<1> QED
  BY <1>3, <1>4, <1>5, <1>6 DEF Next, JobStep

\* The locals after a step of a handler.
LEMMA EndsAt ==
  ASSUME TypeOK, NEW h \in Handlers, NEW outcome \in Terminal, Ends(h, outcome)
  PROVE  hd'[h].pc = "done" /\ hd'[h].outcome = outcome
         /\ hd'[h].type = hd[h].type /\ hd'[h].page = hd[h].page
BY CoverTypes DEF Ends, Locals

LEMMA GoesTo ==
  ASSUME TypeOK, NEW h \in Handlers, NEW pc, Goes(h, pc)
  PROVE  hd'[h].pc = pc /\ hd'[h].outcome = hd[h].outcome
         /\ hd'[h].type = hd[h].type /\ hd'[h].page = hd[h].page
BY CoverTypes DEF Goes, Locals

LEMMA HandlerOutcome ==
  ASSUME TypeOK, NEW h \in Handlers, HandlerStep(h) \/ Crash(h)
  PROVE  /\ hd[h].pc # "idle" /\ hd'[h].pc \notin {"idle", "begin"}
         /\ hd'[h].type = hd[h].type
         /\ hd'[h].pc = "committed" => Commit(h) \/ CommitPage(h)
         /\ hd'[h].pc = "done" /\ hd'[h].outcome = "succeeded" =>
              \/ Succeed(h) /\ hd[h].pc = "committed" /\ hd[h].outcome = "ok"
                 /\ hd'[h].page = hd[h].page
              \/ hd[h].pc = "begin" /\ runs[hd[h].run].status # "none"
PROOF
<1> DEFINE Goal ==
      /\ hd[h].pc # "idle" /\ hd'[h].pc \notin {"idle", "begin"}
      /\ hd'[h].type = hd[h].type
      /\ hd'[h].pc = "committed" => Commit(h) \/ CommitPage(h)
      /\ hd'[h].pc = "done" /\ hd'[h].outcome = "succeeded" =>
           \/ Succeed(h) /\ hd[h].pc = "committed" /\ hd[h].outcome = "ok"
              /\ hd'[h].page = hd[h].page
           \/ hd[h].pc = "begin" /\ runs[hd[h].run].status # "none"
<1>1. hd \in [Handlers -> Locals]
  BY CoverTypes
<1>2. {"succeeded", "partial_success", "failed", "cancelled"} \subseteq Terminal
      /\ "none" \notin Terminal
  BY DEF Terminal, Statuses
<1>3. CASE Fetch(h)
  <2>1. hd[h].pc = "acquired"
    BY <1>3 DEF Fetch
  <2>2. CASE Goes(h, "fenced")
    BY <2>1, <2>2, GoesTo
  <2>3. CASE \E outcome \in {"ok", "partial", "failed"} :
             hd' = [hd EXCEPT
               ![h].pc = IF outcome = "failed" THEN "failing" ELSE "fetched",
               ![h].outcome = outcome,
               ![h].page = IF hd[h].type = "leave_balances" THEN conn.page ELSE 0,
               ![h].flag = hd[h].type = "leave_balances" /\ conn.failed]
    <3>1. hd'[h].pc \in {"failing", "fetched"} /\ hd'[h].type = hd[h].type
      BY <1>1, <2>3 DEF Locals
    <3> QED
      BY <2>1, <3>1
  <2> QED
    BY <1>3, <2>2, <2>3 DEF Fetch
<1>4. CASE Resume(h)
  <2>1. CASE Goes(h, "acquired")
    BY <1>4, <2>1, GoesTo DEF Resume
  <2>2. CASE runs[hd[h].run].status \in Terminal /\ Ends(h, runs[hd[h].run].status)
    BY <1>2, <1>4, <2>2, EndsAt DEF Resume
  <2> QED
    BY <1>4, <2>1, <2>2 DEF Resume
<1>5. CASE Yield(h)
  <2>1. hd[h].pc = "begin" /\ Ends(h, "cancelled")
    BY <1>5 DEF Yield
  <2> QED
    BY <1>2, <2>1, EndsAt
<1>6. CASE Acquire(h)
  BY <1>6, GoesTo DEF Acquire
<1>7. CASE Commit(h)
  BY <1>7, GoesTo DEF Commit
<1>8. CASE Fenced(h)
  BY <1>8, GoesTo DEF Fenced
<1>9. CASE Crash(h)
  BY <1>9, GoesTo DEF Crash
<1>10. CASE CommitPage(h)
  <2>1. hd'[h].pc = "committed" /\ hd'[h].type = hd[h].type /\ hd[h].pc = "fetched"
    BY <1>1, <1>10 DEF CommitPage, Locals
  <2> QED
    BY <1>10, <2>1
<1>11. CASE Succeed(h)
  <2>1. CASE Goes(h, "fenced")
    BY <1>11, <2>1, GoesTo DEF Succeed
  <2>2. CASE Ends(h, IF hd[h].outcome = "ok" THEN "succeeded" ELSE "partial_success")
    <3>1. hd[h].pc = "committed"
      BY <1>11 DEF Succeed
    <3> DEFINE status == IF hd[h].outcome = "ok" THEN "succeeded" ELSE "partial_success"
    <3>2. status \in Terminal /\ (status = "succeeded" <=> hd[h].outcome = "ok")
      BY <1>2
    <3>3. /\ hd'[h].pc = "done" /\ hd'[h].outcome = status
          /\ hd'[h].type = hd[h].type /\ hd'[h].page = hd[h].page
      BY <2>2, <3>2, EndsAt
    <3> HIDE DEF status
    <3> QED
      BY <1>11, <3>1, <3>2, <3>3
  <2> QED
    BY <1>11, <2>1, <2>2 DEF Succeed
<1>12. CASE GiveUp(h)
  <2>1. PICK outcome \in {"cancelled", "failed"} : Ends(h, outcome)
    BY <1>12 DEF GiveUp
  <2>2. hd[h].pc # "idle" /\ outcome \in Terminal /\ outcome # "succeeded"
    BY <1>2, <1>12 DEF GiveUp
  <2> QED
    BY <2>1, <2>2, EndsAt
<1> QED
  BY <1>3, <1>4, <1>5, <1>6, <1>7, <1>8, <1>9, <1>10, <1>11, <1>12 DEF HandlerStep

LEMMA StartPhaseIs ==
  ASSUME TypeOK, StartPhase
  PROVE  /\ job.pc \in Types /\ hd'[Importer].pc = "begin"
         /\ hd'[Importer].type = job.pc
         /\ runs[hd'[Importer].run].status = "none"
         /\ UNCHANGED <<conn, runs, job, queue, covered>>
PROOF
<1>1. FreshRun \in RunIds /\ Free(FreshRun)
  <2>1. PICK r \in RunIds : Free(r)
    BY DEF StartPhase, Begin
  <2> QED
    BY <2>1 DEF FreshRun
<1> DEFINE new == [Idle EXCEPT !.pc = "begin", !.type = job.pc, !.run = FreshRun,
                               !.tries = 1]
<1>2. new.pc = "begin" /\ new.type = job.pc /\ new.run = FreshRun
  BY DEF Idle
<1>3. hd' = [hd EXCEPT ![Importer] = new]
  BY DEF StartPhase, Begin
<1> HIDE DEF new
<1> QED
  BY <1>1, <1>2, <1>3, CoverTypes DEF StartPhase, Free, jobVars

LEMMA PhaseStep ==
  ASSUME TypeOK, LeaseInv, PhaseInv, Next
  PROVE  PhaseInv'
PROOF
<1>1. Importer \in Handlers
  BY CoverTypes
<1>2. CASE HandlerStep(Importer) \/ Crash(Importer)
  <2>1. UNCHANGED job
    BY <1>2 DEF HandlerStep, Crash, Resume, Yield, Acquire, Fetch, Commit, CommitPage,
       Fenced, Succeed, GiveUp, jobVars
  <2> QED
    BY <1>1, <1>2, <2>1, HandlerOutcome DEF PhaseInv
<1>3. CASE StartPhase
  BY <1>3, StartPhaseIs DEF PhaseInv
<1>4. CASE EndPhase
  <2>1. hd'[Importer] = Idle /\ Idle.pc = "idle"
    BY <1>1, <1>4, CoverTypes DEF EndPhase, Idle
  <2> QED
    BY <2>1 DEF PhaseInv
<1>5. CASE hd'[Importer] = hd[Importer]
  <2>1. hd[Importer].pc = "begin" => runs'[hd[Importer].run].status = "none"
    BY <1>1, <1>5, FreshRow DEF PhaseInv
  <2>2. ASSUME hd[Importer].pc # "idle" PROVE job' = job
    <3>1. job.pc \in Types
      BY <2>2 DEF PhaseInv
    <3>2. ~StartJob /\ ~CompleteImport /\ ~CompletionRefused
      BY <3>1 DEF StartJob, CompleteImport, CompletionRefused, Types
    <3>3. ~EndPhase
      <4>1. EndPhase => hd'[Importer].pc = "idle"
        BY <1>1, CoverTypes DEF EndPhase, Idle
      <4> QED
        BY <1>5, <2>2, <4>1
    <3> QED
      BY <3>2, <3>3, JobEffect DEF Connect, RecoverImport
  <2> QED
    BY <1>5, <2>1, <2>2 DEF PhaseInv
<1> QED
  BY <1>2, <1>3, <1>4, <1>5, ImporterMoves

\* What is covered, and the whole sweep behind the cursor, outlive every step
\* that keeps the request.
LEMMA CoverageKept ==
  ASSUME TypeOK, LeaseInv, SweptInv, FlagInv, Next, ~Connect, ~Disconnect
  PROVE  /\ \A t \in {"people", "leave_records"} : <<t, 0>> \in covered =>
              <<t, 0>> \in covered'
         /\ Traversed => Traversed'
PROOF
<1>1. CASE \E h \in Handlers : CommitPage(h)
  BY <1>1, PageStep
<1>2. CASE \A h \in Handlers : ~CommitPage(h)
  <2>1. /\ conn'.page = conn.page /\ conn'.failed = conn.failed
        /\ covered \subseteq covered'
    BY <1>2, PageEffect
  <2> QED
    BY <2>1 DEF Traversed
<1> QED
  BY <1>1, <1>2

\* A phase is done by the commit of its executor, and stays done.
LEMMA PhaseDoneStep ==
  ASSUME TypeOK, LeaseInv, PageInv, SweptInv, FlagInv, PhaseInv, Next,
         ~Connect, ~Disconnect, UNCHANGED job, PhaseDone
  PROVE  PhaseDone'
PROOF
<1> SUFFICES ASSUME Succeeded'
    PROVE  /\ job.pc # "leave_balances" => <<job.pc, 0>> \in covered'
           /\ job.pc = "leave_balances" /\ LastPage(Importer)' => Traversed'
  BY DEF PhaseDone
<1>1. Importer \in Handlers /\ hd \in [Handlers -> Locals]
  BY CoverTypes
<1>2. ASSUME Succeeded, hd'[Importer].page = hd[Importer].page,
             hd[Importer].pc # "idle"
      PROVE  /\ job.pc # "leave_balances" => <<job.pc, 0>> \in covered'
             /\ job.pc = "leave_balances" /\ LastPage(Importer)' => Traversed'
  <2>1. job.pc \in Types
    BY <1>2 DEF PhaseInv
  <2> QED
    BY <1>2, <2>1, CoverageKept DEF PhaseDone, LastPage, Types
<1>3. CASE hd'[Importer] = hd[Importer]
  BY <1>2, <1>3 DEF Succeeded
<1>4. CASE Commit(Importer)
  <2>1. /\ hd[Importer].type = job.pc /\ job.pc # "leave_balances"
        /\ hd[Importer].page = 0 /\ hd'[Importer].outcome = hd[Importer].outcome
        /\ hd'[Importer].pc = "committed"
    BY <1>1, <1>4, GoesTo DEF Commit, PhaseInv, PageInv
  <2>2. hd[Importer].outcome = "ok"
    BY <2>1 DEF Succeeded
  <2>3. <<job.pc, 0>> \in covered'
    BY <1>4, <2>1, <2>2 DEF Commit, Part
  <2> QED
    BY <2>1, <2>3
<1>5. CASE CommitPage(Importer)
  <2>1. Traversed'
    BY <1>1, <1>5, PageStep
  <2>2. job.pc = "leave_balances"
    BY <1>5 DEF CommitPage, PhaseInv
  <2> QED
    BY <2>1, <2>2
<1>6. CASE HandlerStep(Importer) \/ Crash(Importer)
  <2>1. CASE hd'[Importer].pc = "committed"
    BY <1>1, <1>4, <1>5, <1>6, <2>1, HandlerOutcome
  <2>2. CASE hd'[Importer].pc = "done" /\ hd'[Importer].outcome = "succeeded"
    <3>1. /\ hd[Importer].pc = "committed" /\ hd[Importer].outcome = "ok"
          /\ hd'[Importer].page = hd[Importer].page
      BY <1>1, <1>6, <2>2, HandlerOutcome DEF PhaseInv
    <3> QED
      BY <1>2, <3>1 DEF Succeeded
  <2> QED
    BY <2>1, <2>2 DEF Succeeded
<1>7. ~StartPhase
  BY StartPhaseIs DEF Succeeded
<1>8. ~EndPhase
  <2>1. EndPhase => hd'[Importer].pc = "idle"
    BY <1>1 DEF EndPhase, Idle
  <2> QED
    BY <2>1 DEF Succeeded
<1> QED
  BY <1>3, <1>6, <1>7, <1>8, ImporterMoves

\* Between two phases nothing else changes.
LEMMA EndPhaseStep ==
  ASSUME TypeOK, PhaseInv, ImportInv, EndPhase
  PROVE  ImportInv'
PROOF
<1>1. Importer \in Handlers /\ hd \in [Handlers -> Locals] /\ job \in JobRows
  BY CoverTypes
<1>2. UNCHANGED <<conn, covered>> /\ (Traversed => Traversed')
  BY DEF EndPhase, Traversed
<1>3. ~Succeeded' /\ PhaseDone'
  <2>1. hd'[Importer].pc = "idle"
    BY <1>1 DEF EndPhase, Idle
  <2> QED
    BY <2>1 DEF Succeeded, PhaseDone
<1>4. job.pc \in Types /\ job.pc # "idle" /\ job.pc # "complete"
  BY DEF EndPhase, PhaseInv, Types
<1>5. ASSUME job'.pc = job.pc, job'.request = job.request PROVE ImportInv'
  BY <1>2, <1>3, <1>4, <1>5 DEF ImportInv, Mine, Imported
<1>6. CASE FailedAttempt
  <2>1. CASE job'.pc = "idle"
    BY <2>1 DEF ImportInv, Mine
  <2> QED
    BY <1>5, <1>6, <2>1, AttemptOver
<1>7. CASE /\ hd[Importer].pc = "done" /\ hd[Importer].outcome = "succeeded"
           /\ job' = [job EXCEPT !.pc = AfterPhase, !.tries = Attempts]
  <2>1. job'.pc = AfterPhase /\ job'.request = job.request
    BY <1>7, NextPhase
  <2>2. ASSUME Mine' PROVE Imported /\ PhaseDone /\ Succeeded
    BY <1>2, <1>4, <1>7, <2>1, <2>2 DEF Mine, ImportInv, Succeeded
  <2>3. ASSUME Mine', job.pc = "people" PROVE Imported'
    <3>1. AfterPhase = "leave_records"
      BY <2>3 DEF AfterPhase
    <3>2. <<"people", 0>> \in covered
      BY <2>2, <2>3 DEF PhaseDone
    <3> QED
      BY <1>2, <2>1, <3>1, <3>2 DEF Imported
  <2>4. ASSUME Mine', job.pc = "leave_records" PROVE Imported'
    <3>1. AfterPhase = "leave_balances"
      BY <2>4 DEF AfterPhase
    <3>2. <<"people", 0>> \in covered /\ <<"leave_records", 0>> \in covered
      BY <2>2, <2>4 DEF Imported, PhaseDone
    <3> QED
      BY <1>2, <2>1, <3>1, <3>2 DEF Imported
  <2>5. ASSUME Mine', job.pc = "leave_balances" PROVE Imported'
    BY <1>2, <2>1, <2>2, <2>5 DEF AfterPhase, Imported, PhaseDone
  <2> QED
    BY <1>3, <1>4, <2>3, <2>4, <2>5 DEF ImportInv, Types
<1> QED
  BY <1>6, <1>7 DEF EndPhase

LEMMA ImportStep ==
  ASSUME TypeOK, LeaseInv, PageInv, RequestInv, CoverInv, Next
  PROVE  ImportInv'
PROOF
<1> USE DEF CoverInv
<1>1. conn \in Conns /\ job \in JobRows /\ connects \in Nat
  BY CoverTypes, BoundAssumption
<1>2. CASE Connect \/ Disconnect
  <2>1. job' = job /\ conn'.request \in {connects + 1, 0}
    <3>1. CASE Connect
      BY <3>1 DEF Connect
    <3>2. CASE Disconnect
      BY <1>1, <3>2 DEF Disconnect, jobVars, Conns
    <3> QED
      BY <1>2, <3>1, <3>2
  <2>2. ~Mine'
    BY <1>1, <2>1 DEF Mine, AgeInv
  <2> QED
    BY <2>2 DEF ImportInv
<1>3. CASE StartJob
  <2>1. hd' = hd /\ job'.pc = "people" /\ hd[Importer].pc = "idle"
    BY <1>3 DEF StartJob, PhaseInv, Types
  <2> QED
    BY <2>1 DEF ImportInv, Imported, PhaseDone, Succeeded
<1>4. CASE EndPhase
  BY <1>4, EndPhaseStep
<1>5. CASE CompleteImport
  BY <1>5 DEF CompleteImport, NoJob, ImportInv, Mine
<1>6. CASE CompletionRefused
  <2>1. CASE job'.pc = "idle"
    BY <2>1 DEF ImportInv, Mine
  <2>2. CASE job'.pc = job.pc /\ job'.request = job.request
    BY <1>6, <2>2 DEF CompletionRefused, ImportInv, Mine, Imported, PhaseDone,
       Succeeded, LastPage, Traversed
  <2> QED
    BY <1>6, <2>1, <2>2, AttemptOver DEF CompletionRefused, NoJob
<1>7. CASE UNCHANGED job /\ ~Connect /\ ~Disconnect
  <2> SUFFICES ASSUME Mine' PROVE Imported' /\ PhaseDone'
    BY DEF ImportInv
  <2>1. conn'.request = conn.request
    BY <1>1, <1>7, ConnEffect DEF CommitPage, CompleteImport, Conns
  <2>2. Imported /\ PhaseDone
    BY <1>7, <2>1 DEF ImportInv, Mine
  <2>3. Imported'
    BY <1>7, <2>2, CoverageKept DEF Imported
  <2> QED
    BY <1>7, <2>2, <2>3, PhaseDoneStep
<1>8. RecoverImport => UNCHANGED job /\ ~Connect /\ ~Disconnect
  <2>1. conn \in Conns /\ connects \in Nat
    BY <1>1, CoverTypes, BoundAssumption DEF Inv
  <2>2. SUFFICES ASSUME RecoverImport PROVE UNCHANGED job /\ ~Connect /\ ~Disconnect
    OBVIOUS
  <2>3. conn' = conn /\ conn.live /\ connects' = connects /\ job' = job
    BY <2>2 DEF RecoverImport, inputVars
  <2>4. ~Connect
    BY <2>1, <2>3 DEF Connect
  <2>5. ~Disconnect
    BY <2>1, <2>3 DEF Disconnect, Conns
  <2> QED
    BY <2>3, <2>4, <2>5
<1> QED
  BY <1>2, <1>3, <1>4, <1>5, <1>6, <1>7, <1>8, JobEffect

-----------------------------------------------------------------------------
(* The theorem *)

LEMMA InitCover == Init => CoverInv
PROOF
<1> SUFFICES ASSUME Init PROVE CoverInv
  OBVIOUS
<1>1. Importer \in Handlers
  BY DEF Handlers
<1>2. \A p \in 0 .. Pages - 1 : ~(p < 0)
  BY PageAssumption
<1>3. SweptInv
  BY <1>2 DEF Init, SweptInv
<1>4. FlagInv /\ PhaseInv /\ AgeInv
  <2>1. hd[Importer].pc = "idle" /\ \A h \in Handlers : hd[h].pc = "idle"
    BY <1>1 DEF Init, Idle
  <2>2. FlagInv /\ PhaseInv
    BY <2>1 DEF FlagInv, PhaseInv
  <2>3. conn.request = 0 /\ connects = 0 /\ queue = {} /\ job.pc = "idle"
    BY DEF Init, NoJob
  <2>4. AgeInv
    BY <2>3 DEF AgeInv
  <2> QED
    BY <2>2, <2>4
<1>5. ImportInv
  BY DEF Init, ImportInv, Mine, NoJob
<1> QED
  BY <1>3, <1>4, <1>5 DEF CoverInv

LEMMA StepCover == Inv /\ CoverInv /\ [Next]_vars => CoverInv'
PROOF
<1>1. ASSUME Inv, CoverInv, Next PROVE CoverInv'
  BY <1>1, SweptStep, FlagStep, AgeStep, PhaseStep, ImportStep DEF Inv, CoverInv
<1>2. ASSUME CoverInv, UNCHANGED vars PROVE CoverInv'
  BY <1>2 DEF vars, CoverInv, SweptInv, FlagInv, AgeInv, PhaseInv, ImportInv, Mine,
     Imported, PhaseDone, Succeeded, LastPage, Traversed
<1> QED
  BY <1>1, <1>2

(* An import is completed only when people, leave and every page of balances   *)
(* have been imported without a failure under its request.                     *)
THEOREM CompletionCoversRosterHolds == Spec => CompletionCoversRoster
PROOF
<1>1. ASSUME Inv, CoverInv, Next, conn'.completed, ~conn.completed
      PROVE  Roster \subseteq covered
  <2>1. conn \in Conns
    BY <1>1, CoverTypes DEF Inv
  <2>2. CompleteImport
    <3>1. ASSUME NEW h \in Handlers, CommitPage(h) PROVE FALSE
      BY <1>1, <2>1, <3>1 DEF CommitPage, Conns
    <3>2. ASSUME Connect PROVE FALSE
      <4>1. conn'.completed = FALSE
        BY <3>2 DEF Connect
      <4> QED
        BY <1>1, <4>1
    <3>3. ASSUME Disconnect PROVE FALSE
      <4>1. conn'.completed = FALSE
        BY <2>1, <3>3 DEF Disconnect, Conns
      <4> QED
        BY <1>1, <4>1
    <3> QED
      BY <1>1, <3>1, <3>2, <3>3, ConnEffect
  <2>3. Mine /\ job.pc = "complete" /\ conn.page = 0 /\ ~conn.failed
    BY <2>2 DEF CompleteImport, Mine
  <2>4. Imported
    BY <1>1, <2>3 DEF CoverInv, ImportInv
  <2> QED
    BY <2>3, <2>4 DEF Imported, Traversed, Roster, Sheet
<1>2. Inv /\ CoverInv /\ [Next]_vars =>
        [conn'.completed /\ ~conn.completed => Roster \subseteq covered]_vars
  BY <1>1
<1> QED
  BY <1>2, Invariant, InitCover, StepCover, PTL DEF Spec, CompletionCoversRoster
=============================================================================
