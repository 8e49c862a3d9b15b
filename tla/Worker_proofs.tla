----------------------------- MODULE Worker_proofs -----------------------------
(***************************************************************************)
(* The safety properties of Worker for every number of worker processes    *)
(* and of runs, whatever stages throw, its refinement of JobLifecycle, and *)
(* the safety properties of PriceTables for every number of tables,        *)
(* instruments and requests, and the soundness of Economics for every      *)
(* history, policy and list of price items.                                *)
(*                                                                         *)
(* The inductive invariant of Worker says what a process knows of the job  *)
(* it has (AppOK) and that no other process has it (Alone): a completion   *)
(* finds the run as the claim has left it, and a failure that follows a    *)
(* lost COMMIT finds it completed.  That of PriceTables says what a        *)
(* request knows under its locks (RequestOK): the row it will write is     *)
(* still as the trigger has seen it, and the instrument still free.        *)
(* That of Economics says that each artifact is what its action computes;  *)
(* totals, percentiles and the order of the candidates have lemmas of      *)
(* their own.                                                              *)
(***************************************************************************)
EXTENDS Worker, PriceTables, Economics, FiniteSetTheorems, NaturalsInduction, TLAPS

QueueOf(name) == IF name = "forecasts" THEN Forecasts
                 ELSE IF name = "backtests" THEN Backtests ELSE {}

\* What the process a knows of its job when the rows are st and the objects obj.
AppOK(a, st, obj) ==
    /\ a.pc = "claim" <=> a.job = NoJob
    /\ a.stage # 0 => a.state \in {"starting", "polling", "closing"}
    /\ a.job # NoJob => /\ a.stage # 0
                        /\ Stages[a.stage] \notin Broken
                        /\ a.job \in QueueOf(Stages[a.stage])
                        /\ st[a.job] \in {"running", "completed"}
    /\ a.pc \in {"work", "complete"} => st[a.job] = "running"
    /\ a.pc = "complete" => <<a.job, "output">> \in obj

Alone == \A v, w \in Workers : v # w /\ app[v].job # NoJob => app[w].job # app[v].job

IInv ==
    /\ TypeOK /\ CompletedHasEvidence /\ SnapshotBeforeQueue
    /\ \A w \in Workers : AppOK(app[w], status, objects)
    /\ Alone

-----------------------------------------------------------------------------
(* Stages and processes *)

LEMMA StageNames ==
    /\ Stages[1] = "forecasts" /\ Stages[2] = "optimizers" /\ Stages[3] = "approvals"
    /\ Stages[4] = "backtests" /\ Stages[5] = "adapters"
BY DEF Stages

LEMMA QueueIsQueueOf == \A w : Queue(w) = QueueOf(Stages[app[w].stage])
BY DEF Queue, QueueOf, StageOf

LEMMA QueuesOfJobs == \A name : QueueOf(name) \subseteq Jobs
BY DEF QueueOf, Jobs

LEMMA NoJobIsNoJob == NoJob \notin Jobs
BY WorkerAssumption DEF Jobs

\* A process without a job knows nothing that could become false.
LEMMA IdleIsOK ==
    ASSUME NEW a, a.job = NoJob, a.pc = "claim",
           a.stage # 0 => a.state \in {"starting", "polling", "closing"},
           NEW st, NEW obj
    PROVE  AppOK(a, st, obj)
BY DEF AppOK

\* What a process is when its job is done, or when its stage has thrown.
Thrown(a) == IF a.state = "starting" THEN Down
             ELSE [a EXCEPT !.stage = 0, !.pc = "claim", !.job = NoJob]

LEMMA DownIsIdle ==
    /\ Down \in App /\ Down.job = NoJob /\ Down.pc = "claim" /\ Down.stage = 0
    /\ Down.state = "down"
BY DEF Down, App

LEMMA AfterTheStage ==
    ASSUME NEW a \in App, a.stage # 0, a.state \in {"starting", "polling", "closing"},
           NEW b \in {Next1(a), Thrown(a)}
    PROVE  /\ b \in App /\ b.job = NoJob /\ b.pc = "claim"
           /\ b.stage # 0 => b.state \in {"starting", "polling", "closing"}
<1>1. CASE b = Next1(a) /\ a.stage < 5
  <2>1. /\ b = [state |-> a.state, stage |-> a.stage + 1, pc |-> "claim", job |-> NoJob]
        /\ a.stage + 1 \in 0 .. 5
    <3>1. a.stage \in 0 .. 5
      BY DEF App
    <3>2. a.stage + 1 \in 0 .. 5
      BY <1>1, <3>1
    <3>3. b = [a EXCEPT !.stage = a.stage + 1, !.pc = "claim", !.job = NoJob]
      BY <1>1 DEF Next1
    <3>4. QED
      BY <3>2, <3>3 DEF App
  <2>2. QED
    BY <2>1 DEF App
<1>2. CASE b = Next1(a) /\ ~(a.stage < 5)
  <2>1. b = [state |-> IF a.state = "starting" THEN "polling" ELSE a.state,
             stage |-> 0, pc |-> "claim", job |-> NoJob]
    BY <1>2 DEF Next1, App
  <2>2. QED
    BY <2>1 DEF App
<1>3. CASE b = Thrown(a) /\ a.state = "starting"
  BY <1>3, DownIsIdle DEF Thrown
<1>4. CASE b = Thrown(a) /\ a.state # "starting"
  <2>1. b = [state |-> a.state, stage |-> 0, pc |-> "claim", job |-> NoJob]
    BY <1>4 DEF Thrown, App
  <2>2. QED
    BY <2>1 DEF App
<1>5. QED
  BY <1>1, <1>2, <1>3, <1>4

-----------------------------------------------------------------------------
(* The invariant *)

LEMMA InitIInv == Init => IInv
<1> SUFFICES ASSUME Init PROVE IInv
  OBVIOUS
<1>1. TypeOK
  <2>1. modelActive \in BOOLEAN /\ objects \subseteq Jobs \X {"input", "output"}
    BY DEF Init
  <2>2. /\ status \in [Jobs -> {"absent", "queued", "running", "completed", "failed"}]
        /\ reports \in [Jobs -> 0 .. 1]
    BY DEF Init
  <2>3. app \in [Workers -> App]
    BY DownIsIdle DEF Init
  <2>4. QED
    BY <2>1, <2>2, <2>3 DEF TypeOK
<1>2. CompletedHasEvidence /\ SnapshotBeforeQueue
  BY DEF Init, CompletedHasEvidence, SnapshotBeforeQueue, Jobs
<1>3. \A w \in Workers : AppOK(app[w], status, objects)
  BY DownIsIdle, IdleIsOK DEF Init
<1>4. Alone
  BY DownIsIdle DEF Init, Alone
<1>5. QED
  BY <1>1, <1>2, <1>3, <1>4 DEF IInv

\* A step of one process, which becomes a.
LEMMA StepInv ==
    ASSUME IInv, NEW w \in Workers, NEW a \in App, app' = [app EXCEPT ![w] = a],
           modelActive' \in BOOLEAN,
           status' \in [Jobs -> {"absent", "queued", "running", "completed", "failed"}],
           objects \subseteq objects', objects' \subseteq Jobs \X {"input", "output"},
           reports' \in [Jobs -> 0 .. 1],
           CompletedHasEvidence', SnapshotBeforeQueue',
           AppOK(a, status', objects'),
           \A v \in Workers \ {w} : app[v].job # NoJob =>
              a.job # app[v].job /\ status'[app[v].job] = status[app[v].job]
    PROVE  IInv'
<1>1. app'[w] = a /\ \A v \in Workers \ {w} : app'[v] = app[v]
  BY DEF IInv, TypeOK
<1>2. TypeOK'
  BY DEF IInv, TypeOK
<1>3. ASSUME NEW v \in Workers PROVE AppOK(app'[v], status', objects')
  <2>1. CASE v = w
    BY <1>1, <2>1
  <2>2. CASE v # w
    <3>1. app'[v] = app[v] /\ AppOK(app[v], status, objects) /\ app[v] \in App
      BY <1>1, <2>2 DEF IInv, TypeOK
    <3>2. CASE app[v].job = NoJob
      BY <3>1, <3>2, IdleIsOK DEF AppOK
    <3>3. CASE app[v].job # NoJob
      <4>1. status'[app[v].job] = status[app[v].job]
        BY <2>2, <3>3
      <4>2. QED
        BY <3>1, <4>1 DEF AppOK
    <3>4. QED
      BY <3>2, <3>3
  <2>3. QED
    BY <2>1, <2>2
<1>4. Alone'
  <2> SUFFICES ASSUME NEW u \in Workers, NEW v \in Workers, u # v, app'[u].job # NoJob
               PROVE  app'[v].job # app'[u].job
    BY DEF Alone
  <2>1. CASE u = w
    BY <1>1, <2>1
  <2>2. CASE v = w
    BY <1>1, <2>2
  <2>3. CASE u # w /\ v # w
    BY <1>1, <2>3 DEF IInv, Alone
  <2>4. QED
    BY <2>1, <2>2, <2>3
<1>5. QED
  BY <1>2, <1>3, <1>4 DEF IInv

\* A step that changes nothing but the process, which keeps its job or drops it,
\* and may leave something in the object store.
LEMMA LocalInv ==
    ASSUME IInv, NEW w \in Workers, NEW a \in App, app' = [app EXCEPT ![w] = a],
           UNCHANGED <<modelActive, status, reports>>,
           objects \subseteq objects', objects' \subseteq Jobs \X {"input", "output"},
           a.job \in {NoJob, app[w].job}, AppOK(a, status, objects')
    PROVE  IInv'
<1>1. /\ modelActive' \in BOOLEAN /\ reports' \in [Jobs -> 0 .. 1]
      /\ status' \in [Jobs -> {"absent", "queued", "running", "completed", "failed"}]
  BY DEF IInv, TypeOK
<1>2. CompletedHasEvidence' /\ SnapshotBeforeQueue'
  BY DEF IInv, CompletedHasEvidence, SnapshotBeforeQueue
<1>3. \A v \in Workers \ {w} : app[v].job # NoJob =>
         a.job # app[v].job /\ status'[app[v].job] = status[app[v].job]
  BY DEF IInv, Alone
<1>4. QED
  BY <1>1, <1>2, <1>3, StepInv

\* The process has no job afterwards, and nothing else changes.
LEMMA IdleInv ==
    ASSUME IInv, NEW w \in Workers, NEW a \in App, app' = [app EXCEPT ![w] = a],
           UNCHANGED <<modelActive, status, objects, reports>>,
           a.job = NoJob, a.pc = "claim",
           a.stage # 0 => a.state \in {"starting", "polling", "closing"}
    PROVE  IInv'
<1>1. AppOK(a, status, objects')
  BY IdleIsOK
<1>2. objects' \subseteq Jobs \X {"input", "output"}
  BY DEF IInv, TypeOK
<1>3. QED
  BY <1>1, <1>2, LocalInv

\* What the invariant says of a process that has a job.
LEMMA BusyApp ==
    ASSUME IInv, NEW w \in Workers, app[w].pc # "claim"
    PROVE  /\ app[w] \in App /\ app[w].job \in Jobs /\ app[w].job # NoJob
           /\ app[w].stage # 0 /\ app[w].state \in {"starting", "polling", "closing"}
           /\ Stages[app[w].stage] \notin Broken
           /\ app[w].job \in QueueOf(Stages[app[w].stage])
           /\ status[app[w].job] \in {"running", "completed"}
           /\ app[w].pc \in {"work", "complete"} => status[app[w].job] = "running"
           /\ app[w].pc = "complete" => <<app[w].job, "output">> \in objects
<1>1. app[w] \in App /\ AppOK(app[w], status, objects)
  BY DEF IInv, TypeOK
<1>2. app[w].job # NoJob
  BY <1>1 DEF AppOK
<1>3. app[w].job \in Jobs
  BY <1>1, <1>2 DEF App
<1>4. QED
  BY <1>1, <1>2, <1>3 DEF AppOK

-----------------------------------------------------------------------------
(* The handlers *)

LEMMA ApiInv == IInv /\ Api => IInv'
<1> SUFFICES ASSUME IInv, Api PROVE IInv'
  OBVIOUS
<1>0. TypeOK /\ app' = app /\ reports' = reports
  BY DEF IInv, Api, CreateModel, CreateForecastRun, WriteInputSnapshot, CreateBacktest
<1>1. CASE CreateModel
  BY <1>0, <1>1 DEF CreateModel, IInv, TypeOK, CompletedHasEvidence, SnapshotBeforeQueue, Alone
<1>2. ASSUME NEW j \in Jobs, status[j] = "absent", status' = [status EXCEPT ![j] = "queued"],
             j \in Backtests => <<j, "input">> \in objects,
             UNCHANGED <<modelActive, objects>>
      PROVE  IInv'
  <2>1. status'[j] = "queued" /\ \A k \in Jobs \ {j} : status'[k] = status[k]
    BY <1>0, <1>2 DEF TypeOK
  <2>2. TypeOK'
    BY <1>0, <1>2 DEF TypeOK
  <2>3. CompletedHasEvidence'
    BY <1>0, <1>2, <2>1 DEF IInv, CompletedHasEvidence
  <2>4. SnapshotBeforeQueue'
    BY <1>2, <2>1 DEF IInv, SnapshotBeforeQueue, Jobs
  <2>5. ASSUME NEW w \in Workers PROVE AppOK(app'[w], status', objects')
    <3>1. AppOK(app[w], status, objects) /\ app[w] \in App
      BY <1>0 DEF IInv, TypeOK
    <3>2. app[w].job # NoJob => app[w].job \in Jobs \ {j}
      BY <1>2, <3>1 DEF AppOK, App
    <3>3. QED
      BY <1>0, <1>2, <2>1, <3>1, <3>2 DEF AppOK
  <2>6. Alone'
    BY <1>0 DEF IInv, Alone
  <2>7. QED
    BY <2>2, <2>3, <2>4, <2>5, <2>6 DEF IInv
<1>3. CASE \E j \in Forecasts : CreateForecastRun(j)
  <2>1. PICK j \in Forecasts : CreateForecastRun(j)
    BY <1>3
  <2>2. j \in Jobs /\ j \notin Backtests
    BY WorkerAssumption DEF Jobs
  <2>3. QED
    BY <1>2, <2>1, <2>2 DEF CreateForecastRun
<1>4. CASE \E j \in Backtests : CreateBacktest(j)
  BY <1>2, <1>4 DEF CreateBacktest, Jobs
<1>5. CASE \E j \in Backtests : WriteInputSnapshot(j)
  <2>1. PICK j \in Backtests : WriteInputSnapshot(j)
    BY <1>5
  <2>2. UNCHANGED <<modelActive, status>> /\ objects' = objects \cup {<<j, "input">>} /\ j \in Jobs
    BY <2>1 DEF WriteInputSnapshot, Jobs
  <2>3. TypeOK' /\ Alone'
    BY <1>0, <2>2 DEF IInv, TypeOK, Alone
  <2>4. CompletedHasEvidence' /\ SnapshotBeforeQueue'
    BY <1>0, <2>2 DEF IInv, CompletedHasEvidence, SnapshotBeforeQueue
  <2>5. \A w \in Workers : AppOK(app'[w], status', objects')
    BY <1>0, <2>2 DEF IInv, AppOK
  <2>6. QED
    BY <2>3, <2>4, <2>5 DEF IInv
<1>6. QED
  BY <1>1, <1>3, <1>4, <1>5 DEF Api

-----------------------------------------------------------------------------
(* The cycle *)

LEMMA StartInv ==
    ASSUME IInv, NEW w \in Workers, Start(w)
    PROVE  IInv'
<1> DEFINE a == [Down EXCEPT !.state = "starting", !.stage = 1]
<1>1. a \in App /\ a.job = NoJob /\ a.pc = "claim" /\ a.state = "starting"
  <2> DEFINE b == [Down EXCEPT !.state = "starting"]
  <2>1. b \in App /\ b.job = NoJob /\ b.pc = "claim" /\ b.state = "starting"
    BY DownIsIdle DEF App
  <2>2. a = [b EXCEPT !.stage = 1]
    BY DownIsIdle DEF App
  <2> HIDE DEF a, b
  <2>3. QED
    BY <2>1, <2>2 DEF App
<1>2. app' = [app EXCEPT ![w] = a] /\ UNCHANGED <<modelActive, status, objects, reports>>
  BY DEF Start
<1> HIDE DEF a
<1>3. QED
  BY <1>1, <1>2, IdleInv

\* A process between cycles has no job.
LEMMA BetweenCycles ==
    ASSUME IInv, NEW w \in Workers, app[w].stage = 0
    PROVE  app[w] \in App /\ app[w].job = NoJob /\ app[w].pc = "claim"
BY DEF IInv, TypeOK, AppOK

LEMMA TickInv ==
    ASSUME IInv, NEW w \in Workers, Tick(w)
    PROVE  IInv'
<1> DEFINE a == [app[w] EXCEPT !.stage = 1]
<1>1. app[w] \in App /\ app[w].job = NoJob /\ app[w].pc = "claim" /\ app[w].state = "polling"
  BY BetweenCycles DEF Tick
<1>2. a \in App /\ a.job = NoJob /\ a.pc = "claim" /\ a.state = "polling"
  BY <1>1 DEF App
<1>3. app' = [app EXCEPT ![w] = a] /\ UNCHANGED <<modelActive, status, objects, reports>>
  BY DEF Tick
<1> HIDE DEF a
<1>4. QED
  BY <1>2, <1>3, IdleInv

LEMMA CloseInv ==
    ASSUME IInv, NEW w \in Workers, Close(w)
    PROVE  IInv'
<1> DEFINE a == [app[w] EXCEPT !.state = "closing"]
<1>1. app[w] \in App /\ AppOK(app[w], status, objects)
  BY DEF IInv, TypeOK
<1>2. /\ a \in App /\ a.state = "closing" /\ a.stage = app[w].stage
      /\ a.pc = app[w].pc /\ a.job = app[w].job
  BY <1>1 DEF App
<1>3. app' = [app EXCEPT ![w] = a] /\ UNCHANGED <<modelActive, status, objects, reports>>
  BY DEF Close
<1> HIDE DEF a
<1>4. AppOK(a, status, objects')
  BY <1>1, <1>2, <1>3 DEF AppOK
<1>5. objects' \subseteq Jobs \X {"input", "output"}
  BY <1>3 DEF IInv, TypeOK
<1>6. QED
  BY <1>2, <1>3, <1>4, <1>5, LocalInv

LEMMA CloseResourcesInv ==
    ASSUME IInv, NEW w \in Workers, CloseResources(w)
    PROVE  IInv'
<1> DEFINE a == [app[w] EXCEPT !.state = "stopped"]
<1>1. app[w] \in App /\ app[w].job = NoJob /\ app[w].pc = "claim" /\ app[w].stage = 0
  BY BetweenCycles DEF CloseResources
<1>2. a \in App /\ a.job = NoJob /\ a.pc = "claim" /\ a.stage = 0
  BY <1>1 DEF App
<1>3. app' = [app EXCEPT ![w] = a] /\ UNCHANGED <<modelActive, status, objects, reports>>
  BY DEF CloseResources
<1> HIDE DEF a
<1>4. QED
  BY <1>2, <1>3, IdleInv

LEMMA CrashInv ==
    ASSUME IInv, NEW w \in Workers, Crash(w)
    PROVE  IInv'
BY DownIsIdle, IdleInv DEF Crash

\* The next stage, or the end of the cycle.
LEMMA StageEndsInv ==
    ASSUME IInv, NEW w \in Workers, app[w].stage # 0, Advance(w) \/ Throw(w),
           UNCHANGED <<modelActive, status, objects, reports>>
    PROVE  IInv'
<1>1. app[w] \in App /\ app[w].state \in {"starting", "polling", "closing"}
  BY DEF IInv, TypeOK, AppOK
<1>2. PICK b \in {Next1(app[w]), Thrown(app[w])} : app' = [app EXCEPT ![w] = b]
  <2>1. CASE Advance(w)
    BY <2>1 DEF Advance
  <2>2. CASE Throw(w)
    BY <2>2 DEF Throw, Thrown
  <2>3. QED
    BY <2>1, <2>2
<1>3. /\ b \in App /\ b.job = NoJob /\ b.pc = "claim"
      /\ b.stage # 0 => b.state \in {"starting", "polling", "closing"}
  BY <1>1, <1>2, AfterTheStage
<1>4. QED
  BY <1>2, <1>3, IdleInv

-----------------------------------------------------------------------------
(* A stage with a queue *)

LEMMA ClaimInv ==
    ASSUME IInv, NEW w \in Workers, NEW j \in Jobs, Claim(w, j)
    PROVE  IInv'
<1> DEFINE a == [app[w] EXCEPT !.pc = "work", !.job = j]
<1>1. app[w] \in App /\ AppOK(app[w], status, objects)
  BY DEF IInv, TypeOK
<1>2. /\ a \in App /\ a.state = app[w].state /\ a.stage = app[w].stage
      /\ a.pc = "work" /\ a.job = j
  BY <1>1 DEF App
<1>3. app' = [app EXCEPT ![w] = a] /\ UNCHANGED <<modelActive, objects, reports>>
  BY <1>1 DEF Claim, IInv, TypeOK
<1> HIDE DEF a
<1>4. /\ status[j] = "queued" /\ status'[j] = "running"
      /\ \A k \in Jobs \ {j} : status'[k] = status[k]
      /\ status' \in [Jobs -> {"absent", "queued", "running", "completed", "failed"}]
  BY DEF Claim, IInv, TypeOK
<1>5. app[w].stage # 0 /\ Stages[app[w].stage] \notin Broken /\ j \in QueueOf(Stages[app[w].stage])
  BY QueueIsQueueOf DEF Claim, StageOf
<1>6. j # NoJob
  BY NoJobIsNoJob
<1>7. AppOK(a, status', objects')
  BY <1>1, <1>2, <1>4, <1>5, <1>6 DEF AppOK
<1>8. CompletedHasEvidence' /\ SnapshotBeforeQueue'
  <2>1. CompletedHasEvidence'
    BY <1>3, <1>4 DEF IInv, CompletedHasEvidence
  <2>2. SnapshotBeforeQueue'
    BY <1>3, <1>4 DEF IInv, SnapshotBeforeQueue, Jobs
  <2>3. QED
    BY <2>1, <2>2
<1>9. ASSUME NEW v \in Workers \ {w}, app[v].job # NoJob
      PROVE  a.job # app[v].job /\ status'[app[v].job] = status[app[v].job]
  <2>1. app[v] \in App /\ AppOK(app[v], status, objects)
    BY DEF IInv, TypeOK
  <2>2. app[v].job \in Jobs /\ app[v].job # j
    BY <1>4, <1>9, <2>1 DEF AppOK, App
  <2>3. QED
    BY <1>2, <1>4, <2>2
<1>10. QED
  <2>1. /\ modelActive' \in BOOLEAN /\ objects \subseteq objects' /\ reports' \in [Jobs -> 0 .. 1]
        /\ objects' \subseteq Jobs \X {"input", "output"}
    BY <1>3 DEF IInv, TypeOK
  <2>2. QED
    BY <1>2, <1>3, <1>4, <1>7, <1>8, <1>9, <2>1, StepInv

\* The process goes on with its job, and may have put its artifact.
LEMMA GoesOnInv ==
    ASSUME IInv, NEW w \in Workers, app[w].pc \in {"work", "complete"},
           NEW pc \in {"complete", "fail"}, app' = [app EXCEPT ![w].pc = pc],
           objects' \in {objects, objects \cup {<<app[w].job, "output">>}},
           pc = "complete" => <<app[w].job, "output">> \in objects',
           UNCHANGED <<modelActive, status, reports>>
    PROVE  IInv'
<1> DEFINE a == [app[w] EXCEPT !.pc = pc]
<1>1. /\ app[w] \in App /\ AppOK(app[w], status, objects) /\ app[w].job \in Jobs
      /\ app[w].job # NoJob
  BY BusyApp DEF IInv
<1>2. /\ a \in App /\ a.state = app[w].state /\ a.stage = app[w].stage
      /\ a.pc = pc /\ a.job = app[w].job
  BY <1>1 DEF App
<1>3. app' = [app EXCEPT ![w] = a]
  BY DEF IInv, TypeOK
<1> HIDE DEF a
<1>4. objects \subseteq objects' /\ objects' \subseteq Jobs \X {"input", "output"}
  BY <1>1 DEF IInv, TypeOK
<1>5. AppOK(a, status, objects')
  BY <1>1, <1>2 DEF AppOK
<1>6. QED
  BY <1>2, <1>3, <1>4, <1>5, LocalInv

\* The terminal write of the process: what it has found running is ended, and
\* a backtest's report comes with its completion.
LEMMA EndInv ==
    ASSUME IInv, NEW w \in Workers, app[w].pc \in {"complete", "fail"},
           NEW outcome \in {"completed", "failed"},
           app[w].pc = IF outcome = "completed" THEN "complete" ELSE "fail",
           status' = IF status[app[w].job] = "running"
                     THEN [status EXCEPT ![app[w].job] = outcome] ELSE status,
           reports' = IF outcome = "completed" /\ app[w].job \in Backtests
                      THEN [reports EXCEPT ![app[w].job] = @ + 1] ELSE reports,
           Advance(w) \/ (outcome = "completed" /\ app' = [app EXCEPT ![w].pc = "fail"]),
           UNCHANGED <<modelActive, objects>>
    PROVE  IInv'
<1> DEFINE j == app[w].job
<1>1. /\ app[w] \in App /\ j \in Jobs /\ j # NoJob
      /\ app[w].stage # 0 /\ app[w].state \in {"starting", "polling", "closing"}
      /\ Stages[app[w].stage] \notin Broken /\ j \in QueueOf(Stages[app[w].stage])
      /\ status[j] \in {"running", "completed"}
      /\ app[w].pc = "complete" => status[j] = "running" /\ <<j, "output">> \in objects
  BY BusyApp
<1>2. /\ status'[j] = IF status[j] = "running" THEN outcome ELSE status[j]
      /\ \A k \in Jobs \ {j} : status'[k] = status[k]
      /\ status' \in [Jobs -> {"absent", "queued", "running", "completed", "failed"}]
  BY <1>1 DEF IInv, TypeOK
<1>3. /\ reports'[j] = IF outcome = "completed" /\ j \in Backtests THEN reports[j] + 1
                       ELSE reports[j]
      /\ \A k \in Jobs \ {j} : reports'[k] = reports[k]
  BY <1>1 DEF IInv, TypeOK
<1>4. /\ j \in Backtests => reports[j] = IF status[j] = "completed" THEN 1 ELSE 0
      /\ status[j] = "completed" => <<j, "output">> \in objects
  BY <1>1 DEF IInv, CompletedHasEvidence
<1>5. PICK a \in App : /\ app' = [app EXCEPT ![w] = a]
                       /\ \/ /\ a.job = NoJob /\ a.pc = "claim"
                             /\ a.stage # 0 => a.state \in {"starting", "polling", "closing"}
                          \/ /\ a.job = j /\ a.pc = "fail" /\ a.stage = app[w].stage
                             /\ a.state = app[w].state /\ outcome = "completed"
  <2>1. CASE Advance(w)
    BY <1>1, <2>1, AfterTheStage DEF Advance
  <2>2. CASE outcome = "completed" /\ app' = [app EXCEPT ![w].pc = "fail"]
    <3> DEFINE b == [app[w] EXCEPT !.pc = "fail"]
    <3>1. /\ b \in App /\ b.job = j /\ b.pc = "fail" /\ b.stage = app[w].stage
          /\ b.state = app[w].state
      BY <1>1 DEF App
    <3>2. app' = [app EXCEPT ![w] = b]
      BY <2>2 DEF IInv, TypeOK
    <3> HIDE DEF b
    <3>3. QED
      BY <2>2, <3>1, <3>2
  <2>3. QED
    BY <2>1, <2>2
<1>6. AppOK(a, status', objects')
  <2>1. CASE a.job = NoJob
    BY <1>5, <2>1, <1>1, IdleIsOK
  <2>2. CASE a.job = j
    <3>1. /\ a.pc = "fail" /\ a.stage = app[w].stage /\ a.state = app[w].state
          /\ outcome = "completed"
      BY <1>1, <1>5, <2>2
    <3>2. status'[j] = "completed"
      BY <1>1, <1>2, <3>1
    <3> HIDE DEF j
    <3>3. QED
      BY <1>1, <2>2, <3>1, <3>2 DEF AppOK
  <2>3. QED
    BY <1>5, <2>1, <2>2
<1>7. \A v \in Workers \ {w} : app[v].job # NoJob =>
         a.job # app[v].job /\ status'[app[v].job] = status[app[v].job]
  <2> SUFFICES ASSUME NEW v \in Workers \ {w}, app[v].job # NoJob
               PROVE  a.job # app[v].job /\ status'[app[v].job] = status[app[v].job]
    OBVIOUS
  <2>1. app[v].job # j /\ app[v].job \in Jobs
    BY <1>1 DEF IInv, Alone, TypeOK, App
  <2>2. QED
    BY <1>2, <1>5, <2>1
<1>8. CompletedHasEvidence' /\ SnapshotBeforeQueue' /\ reports' \in [Jobs -> 0 .. 1]
  <2> HIDE DEF j
  <2>1. /\ status'[j] = "completed" => <<j, "output">> \in objects'
        /\ j \in Backtests => reports'[j] = IF status'[j] = "completed" THEN 1 ELSE 0
    BY <1>1, <1>2, <1>3, <1>4
  <2>2. CompletedHasEvidence'
    <3>1. UNCHANGED objects /\ CompletedHasEvidence
      BY DEF IInv
    <3>2. ASSUME NEW k \in Jobs
          PROVE  /\ status'[k] = "completed" => <<k, "output">> \in objects'
                 /\ k \in Backtests => reports'[k] = IF status'[k] = "completed" THEN 1 ELSE 0
      <4>1. CASE k = j
        BY <2>1, <4>1
      <4>2. CASE k # j
        <5>1. status'[k] = status[k] /\ reports'[k] = reports[k]
          BY <1>2, <1>3, <4>2
        <5>2. QED
          BY <3>1, <5>1 DEF CompletedHasEvidence
      <4>3. QED
        BY <4>1, <4>2
    <3>3. QED
      BY <3>2 DEF CompletedHasEvidence
  <2>3. status[j] # "absent"
    BY <1>1
  <2>4. SnapshotBeforeQueue'
    BY <1>1, <1>2, <2>3 DEF IInv, SnapshotBeforeQueue, Jobs
  <2>5. reports' \in [Jobs -> 0 .. 1]
    <3>1. \A k \in Jobs : reports[k] \in 0 .. 1
      BY DEF IInv, TypeOK
    <3>2. \A k \in Jobs : reports'[k] \in 0 .. 1
      BY <1>1, <1>3, <1>4, <3>1
    <3>3. reports' = [k \in Jobs |-> reports'[k]]
      BY DEF IInv, TypeOK
    <3>4. QED
      BY <3>2, <3>3
  <2>6. QED
    BY <2>2, <2>4, <2>5
<1>9. QED
  <2>1. /\ modelActive' \in BOOLEAN /\ objects \subseteq objects'
        /\ objects' \subseteq Jobs \X {"input", "output"}
    BY DEF IInv, TypeOK
  <2>2. QED
    BY <1>2, <1>5, <1>6, <1>7, <1>8, <2>1, StepInv

LEMMA CompleteEnds ==
    ASSUME NEW w \in Workers, Complete(w)
    PROVE  /\ app[w].pc = "complete"
           /\ status' = IF status[app[w].job] = "running"
                        THEN [status EXCEPT ![app[w].job] = "completed"] ELSE status
           /\ reports' = IF app[w].job \in Backtests
                         THEN [reports EXCEPT ![app[w].job] = @ + 1] ELSE reports
           /\ Advance(w) \/ app' = [app EXCEPT ![w].pc = "fail"]
           /\ UNCHANGED <<modelActive, objects>>
BY WorkerAssumption DEF Complete, CompleteForecast, CompleteBacktest

LEMMA StepsInv ==
    ASSUME IInv, NEW w \in Workers, Step(w) \/ Close(w) \/ Crash(w)
    PROVE  IInv'
<1>1. CASE Start(w)
  BY <1>1, StartInv
<1>2. CASE Tick(w)
  BY <1>2, TickInv
<1>3. CASE Close(w)
  BY <1>3, CloseInv
<1>4. CASE CloseResources(w)
  BY <1>4, CloseResourcesInv
<1>5. CASE Crash(w)
  BY <1>5, CrashInv
<1>6. CASE OtherStage(w) \/ BrokenStage(w) \/ ClaimNothing(w) \/ ClaimFails(w)
  BY <1>6, StageEndsInv DEF OtherStage, BrokenStage, ClaimNothing, ClaimFails
<1>7. CASE FailRunFails(w)
  BY <1>7, BusyApp, StageEndsInv DEF FailRunFails
<1>8. CASE \E j \in Jobs : Claim(w, j)
  BY <1>8, ClaimInv
<1>9. CASE PutArtifact(w)
  <2>1. <<app[w].job, "output">> \in objects'
    BY <1>9 DEF PutArtifact
  <2>2. QED
    BY <1>9, <2>1, GoesOnInv DEF PutArtifact
<1>10. CASE WorkFails(w)
  BY <1>10, GoesOnInv DEF WorkFails
<1>11. CASE CompleteFails(w)
  BY <1>11, GoesOnInv DEF CompleteFails
<1>12. CASE Complete(w)
  <2> DEFINE outcome == "completed"
  <2>1. /\ app[w].pc = "complete"
        /\ status' = IF status[app[w].job] = "running"
                     THEN [status EXCEPT ![app[w].job] = outcome] ELSE status
        /\ Advance(w) \/ (outcome = "completed" /\ app' = [app EXCEPT ![w].pc = "fail"])
        /\ UNCHANGED <<modelActive, objects>>
    BY <1>12, CompleteEnds
  <2>2. reports' = IF outcome = "completed" /\ app[w].job \in Backtests
                   THEN [reports EXCEPT ![app[w].job] = @ + 1] ELSE reports
    BY <1>12, CompleteEnds
  <2>3. /\ outcome \in {"completed", "failed"}
        /\ app[w].pc = IF outcome = "completed" THEN "complete" ELSE "fail"
        /\ app[w].pc \in {"complete", "fail"}
    BY <2>1
  <2> HIDE DEF outcome
  <2>4. QED
    BY <2>1, <2>2, <2>3, EndInv
<1>13. CASE FailRun(w)
  <2> DEFINE outcome == "failed"
  <2>1. /\ app[w].pc = "fail"
        /\ status' = IF status[app[w].job] = "running"
                     THEN [status EXCEPT ![app[w].job] = outcome] ELSE status
        /\ Advance(w)
        /\ UNCHANGED <<modelActive, objects, reports>>
    BY <1>13 DEF FailRun
  <2>2. /\ outcome \in {"completed", "failed"}
        /\ app[w].pc = IF outcome = "completed" THEN "complete" ELSE "fail"
        /\ app[w].pc \in {"complete", "fail"}
        /\ outcome # "completed"
    BY <2>1
  <2> HIDE DEF outcome
  <2>3. QED
    BY <2>1, <2>2, EndInv
<1>14. QED
  BY <1>1, <1>2, <1>3, <1>4, <1>5, <1>6, <1>7, <1>8, <1>9, <1>10, <1>11, <1>12, <1>13 DEF Step

LEMMA NextIInv == IInv /\ [Next]_vars => IInv'
<1>1. CASE UNCHANGED vars
  BY <1>1 DEF vars, IInv, TypeOK, CompletedHasEvidence, SnapshotBeforeQueue, Alone
<1>2. CASE Api
  BY <1>2, ApiInv
<1>3. CASE \E w \in Workers : Step(w) \/ Close(w) \/ Crash(w)
  BY <1>3, StepsInv
<1>4. QED
  BY <1>1, <1>2, <1>3 DEF Next

\* Every process knows of its job what it needs, whatever fails in between.
THEOREM Invariant == Spec => []IInv
BY InitIInv, NextIInv, PTL DEF Spec

\* A completed run has its artifact and a completed backtest its one report, a
\* queued backtest has its snapshot, and nothing works on without a database.
THEOREM Soundness == Spec => []JobsAreSound
<1>1. IInv => JobsAreSound
  <2>1. IInv => CloseWaitsForCycle
    BY DEF IInv, AppOK, CloseWaitsForCycle
  <2>2. QED
    BY <2>1 DEF IInv, JobsAreSound
<1>2. QED
  BY <1>1, Invariant, PTL

-----------------------------------------------------------------------------
(* The refinement of JobLifecycle *)

Holds(w, j) == app[w].job = j /\ status[j] = "running"

\* The holder of a run is the process that works on it, if there is one.
HolderRight ==
    \A j \in Jobs :
        /\ \A w \in Workers : Holds(w, j) => Holder(j) = w
        /\ (\A w \in Workers : ~Holds(w, j)) => Holder(j) = NoJob
        /\ \A w \in Workers : Holder(j) = w => Holds(w, j)

LEMMA HolderIsRight == IInv => HolderRight
<1> SUFFICES ASSUME IInv, NEW j \in Jobs
             PROVE  /\ \A w \in Workers : Holds(w, j) => Holder(j) = w
                    /\ (\A w \in Workers : ~Holds(w, j)) => Holder(j) = NoJob
                    /\ \A w \in Workers : Holder(j) = w => Holds(w, j)
  BY DEF HolderRight
<1>1. \A v, w \in Workers : Holds(v, j) /\ Holds(w, j) => v = w
  BY NoJobIsNoJob DEF IInv, Alone, Holds
<1>2. Holder(j) = IF \E w \in Workers : Holds(w, j) THEN CHOOSE w \in Workers : app[w].job = j
                  ELSE NoJob
  BY DEF Holder, Holds
<1>3. CASE \E w \in Workers : Holds(w, j)
  <2>1. PICK w \in Workers : Holds(w, j)
    BY <1>3
  <2>2. \A v \in Workers : app[v].job = j => v = w
    BY <1>1, <2>1 DEF Holds
  <2>3. Holder(j) = w
    <3>1. \E v \in Workers : app[v].job = j
      BY <2>1 DEF Holds
    <3>2. (CHOOSE v \in Workers : app[v].job = j) = w
      BY <2>2, <3>1
    <3>3. QED
      BY <1>2, <1>3, <3>2
  <2>4. QED
    BY <1>1, <1>3, <2>1, <2>3
<1>4. CASE \A w \in Workers : ~Holds(w, j)
  <2>1. Holder(j) = NoJob /\ NoJob \notin Workers
    BY <1>2, <1>4, WorkerAssumption
  <2>2. QED
    BY <1>4, <2>1
<1>5. QED
  BY <1>3, <1>4

LEMMA HolderIsRightNext == IInv' => HolderRight'
BY HolderIsRight, PTL

\* Who holds a run that the same processes hold as before.
LEMMA SameHolder ==
    ASSUME HolderRight, HolderRight', NEW j \in Jobs,
           \A w \in Workers : Holds(w, j)' <=> Holds(w, j)
    PROVE  Holder(j)' = Holder(j)
<1>1. CASE \E w \in Workers : Holds(w, j)
  BY <1>1 DEF HolderRight
<1>2. CASE \A w \in Workers : ~Holds(w, j)
  BY <1>2 DEF HolderRight
<1>3. QED
  BY <1>1, <1>2

JobSame == UNCHANGED Lifecycle!jobVars

\* Nothing changes for the runs that keep their status and their holder.
LEMMA JobFrame ==
    ASSUME status' = status, \A j \in Jobs : Holder(j)' = Holder(j)
    PROVE  JobSame
BY DEF JobSame, Lifecycle!jobVars

\* What a step of one process changes for the runs it does not work on: nothing.
LEMMA OthersSame ==
    ASSUME IInv, IInv', HolderRight, HolderRight', NEW w \in Workers, NEW a \in App,
           app' = [app EXCEPT ![w] = a], NEW j \in Jobs,
           app[w].job # j, a.job # j, status'[j] = status[j]
    PROVE  Holder(j)' = Holder(j)
<1>1. \A v \in Workers : app'[v] = IF v = w THEN a ELSE app[v]
  BY DEF IInv, TypeOK
<1>2. \A v \in Workers : Holds(v, j)' <=> Holds(v, j)
  BY <1>1 DEF Holds
<1>3. QED
  BY <1>2, SameHolder

\* Holders as a function, for the steps that change one of them.
LEMMA HoldersExcept ==
    ASSUME NEW j \in Jobs, NEW h, Holder(j)' = h,
           \A k \in Jobs \ {j} : Holder(k)' = Holder(k)
    PROVE  [k \in Jobs |-> Holder(k)'] = [[k \in Jobs |-> Holder(k)] EXCEPT ![j] = h]
OBVIOUS

\* A job is created, or something that is no job.
LEMMA ApiImplements ==
    ASSUME IInv, HolderRight, HolderRight', Api
    PROVE  Lifecycle!JobNext \/ JobSame
<1>1. app' = app
  BY DEF Api, CreateModel, CreateForecastRun, WriteInputSnapshot, CreateBacktest
<1>2. CASE status' = status
  <2>1. \A j \in Jobs, w \in Workers : Holds(w, j)' <=> Holds(w, j)
    BY <1>1, <1>2 DEF Holds
  <2>2. QED
    BY <1>2, <2>1, SameHolder, JobFrame
<1>3. ASSUME NEW j \in Jobs, status[j] = "absent", status' = [status EXCEPT ![j] = "queued"]
      PROVE  Lifecycle!JobNext
  <2>1. status'[j] = "queued" /\ \A k \in Jobs \ {j} : status'[k] = status[k]
    BY <1>3 DEF IInv, TypeOK
  <2>2. \A k \in Jobs, w \in Workers : Holds(w, k)' <=> Holds(w, k)
    BY <1>1, <1>3, <2>1 DEF Holds
  <2>3. \A k \in Jobs : Holder(k)' = Holder(k)
    BY <2>2, SameHolder
  <2>4. Lifecycle!Submit(j)
    BY <1>3, <2>3 DEF Lifecycle!Submit
  <2>5. QED
    BY <2>4 DEF Lifecycle!JobNext
<1>4. QED
  BY <1>2, <1>3
     DEF Api, CreateModel, CreateForecastRun, WriteInputSnapshot, CreateBacktest, Jobs

\* A process keeps its job or drops it, and no row changes: a stutter or Abandon.
LEMMA LocalImplements ==
    ASSUME IInv, IInv', HolderRight, HolderRight', NEW w \in Workers, NEW a \in App,
           app' = [app EXCEPT ![w] = a], a.job \in {NoJob, app[w].job}, status' = status
    PROVE  Lifecycle!JobNext \/ JobSame
<1>1. app'[w] = a /\ \A v \in Workers \ {w} : app'[v] = app[v]
  BY DEF IInv, TypeOK
<1>2. CASE a.job = app[w].job
  <2>1. \A j \in Jobs, v \in Workers : Holds(v, j)' <=> Holds(v, j)
    BY <1>1, <1>2 DEF Holds
  <2>2. QED
    BY <2>1, SameHolder, JobFrame
<1>3. CASE a.job # app[w].job
  <2>1. a.job = NoJob /\ app[w].job # NoJob /\ app[w].job \in Jobs
    BY <1>3 DEF IInv, TypeOK, App
  <2>2. PICK j \in Jobs : app[w].job = j
    BY <2>1
  <2>3. \A k \in Jobs \ {j} : Holder(k)' = Holder(k)
    BY <2>1, <2>2, NoJobIsNoJob, OthersSame
  <2>4. CASE status[j] = "running"
    <3>1. Holder(j) = w /\ w # NoJob
      BY <2>2, <2>4, WorkerAssumption DEF HolderRight, Holds
    <3>2. \A v \in Workers : ~Holds(v, j)'
      BY <1>1, <2>1, <2>2 DEF IInv, Alone, Holds
    <3>3. Holder(j)' = NoJob
      BY <3>2 DEF HolderRight
    <3>4. [k \in Jobs |-> Holder(k)'] = [[k \in Jobs |-> Holder(k)] EXCEPT ![j] = NoJob]
      BY <2>3, <3>3, HoldersExcept
    <3>5. Lifecycle!Abandon(j)
      BY <3>1, <3>4 DEF Lifecycle!Abandon
    <3>6. QED
      BY <3>5 DEF Lifecycle!JobNext
  <2>5. CASE status[j] # "running"
    <3>1. \A v \in Workers : Holds(v, j)' <=> Holds(v, j)
      BY <2>5 DEF Holds
    <3>2. Holder(j)' = Holder(j)
      BY <3>1, SameHolder
    <3>3. QED
      BY <2>3, <3>2, JobFrame
  <2>6. QED
    BY <2>4, <2>5
<1>4. QED
  BY <1>2, <1>3

LEMMA ClaimImplements ==
    ASSUME IInv, IInv', HolderRight, HolderRight', NEW w \in Workers, NEW j \in Jobs, Claim(w, j)
    PROVE  Lifecycle!JobNext
<1> DEFINE a == [app[w] EXCEPT !.pc = "work", !.job = j]
<1>1. app[w] \in App /\ AppOK(app[w], status, objects) /\ app[w].pc = "claim"
  BY DEF IInv, TypeOK, Claim
<1>2. a \in App /\ a.job = j /\ app' = [app EXCEPT ![w] = a]
  <2>1. a \in App /\ a.job = j
    BY <1>1 DEF App
  <2>2. app' = [app EXCEPT ![w] = a]
    BY DEF Claim
  <2> QED  BY <2>1, <2>2
<1> HIDE DEF a
<1>3. /\ status[j] = "queued" /\ status' = [status EXCEPT ![j] = "running"]
      /\ status'[j] = "running"
      /\ \A k \in Jobs \ {j} : status'[k] = status[k]
  BY DEF Claim, IInv, TypeOK
<1>4. app[w].job = NoJob
  BY <1>1 DEF AppOK
<1>5. \A k \in Jobs \ {j} : Holder(k)' = Holder(k)
  BY <1>2, <1>3, <1>4, NoJobIsNoJob, OthersSame
<1>6. Holds(w, j)'
  BY <1>2, <1>3 DEF Holds, IInv, TypeOK
<1>7. Holder(j)' = w
  BY <1>6 DEF HolderRight
<1>8. \A k \in Jobs : Holder(k) # w
  BY <1>4, NoJobIsNoJob DEF HolderRight, Holds
<1>9. [k \in Jobs |-> Holder(k)'] = [[k \in Jobs |-> Holder(k)] EXCEPT ![j] = w]
  BY <1>5, <1>7, HoldersExcept
<1>10. Lifecycle!Take(j, w)
  BY <1>3, <1>8, <1>9 DEF Lifecycle!Take
<1>11. QED
  BY <1>10 DEF Lifecycle!JobNext

\* The terminal write ends a running run, and leaves a completed one alone.
LEMMA EndImplements ==
    ASSUME IInv, IInv', HolderRight, HolderRight', NEW w \in Workers,
           app[w].pc \in {"complete", "fail"}, NEW outcome \in {"completed", "failed"},
           status' = IF status[app[w].job] = "running"
                     THEN [status EXCEPT ![app[w].job] = outcome] ELSE status,
           NEW a \in App, app' = [app EXCEPT ![w] = a], a.job \in {NoJob, app[w].job}
    PROVE  Lifecycle!JobNext \/ JobSame
<1>1. PICK j \in Jobs : app[w].job = j
  BY BusyApp
<1>2. CASE status[j] # "running"
  BY <1>1, <1>2, LocalImplements
<1>3. CASE status[j] = "running"
  <2>1. /\ status' = [status EXCEPT ![j] = outcome] /\ status'[j] = outcome
        /\ \A k \in Jobs \ {j} : status'[k] = status[k]
    BY <1>1, <1>3 DEF IInv, TypeOK
  <2>2. ASSUME NEW k \in Jobs \ {j} PROVE Holder(k)' = Holder(k)
    <3>1. app[w].job # k /\ a.job # k /\ status'[k] = status[k]
      BY <1>1, <2>1, NoJobIsNoJob
    <3>2. QED
      BY <3>1, OthersSame
  <2>3. Holder(j) = w /\ w # NoJob
    BY <1>1, <1>3, WorkerAssumption DEF HolderRight, Holds
  <2>4. \A v \in Workers : ~Holds(v, j)'
    BY <2>1 DEF Holds
  <2>5. Holder(j)' = NoJob
    BY <2>4 DEF HolderRight
  <2>6. [k \in Jobs |-> Holder(k)'] = [[k \in Jobs |-> Holder(k)] EXCEPT ![j] = NoJob]
    BY <2>2, <2>5, HoldersExcept
  <2>7. Lifecycle!End(j, outcome)
    BY <1>3, <2>1, <2>3, <2>6 DEF Lifecycle!End
  <2>8. QED
    BY <2>7 DEF Lifecycle!JobNext
<1>4. QED
  BY <1>2, <1>3

LEMMA StepsImplement ==
    ASSUME IInv, IInv', HolderRight, HolderRight', NEW w \in Workers,
           Step(w) \/ Close(w) \/ Crash(w)
    PROVE  Lifecycle!JobNext \/ JobSame
<1>0. app[w] \in App
  BY DEF IInv, TypeOK
<1>2. app'[w] \in App
  BY DEF IInv, TypeOK
<1>3. CASE \E j \in Jobs : Claim(w, j)
  BY <1>3, ClaimImplements
<1>4. CASE Complete(w) \/ FailRun(w)
  <2>1. PICK outcome \in {"completed", "failed"} :
           status' = IF status[app[w].job] = "running"
                     THEN [status EXCEPT ![app[w].job] = outcome] ELSE status
    BY <1>4, CompleteEnds DEF FailRun
  <2>2. app[w].pc \in {"complete", "fail"}
    BY <1>4 DEF Complete, FailRun
  <2>3. PICK a \in App : app' = [app EXCEPT ![w] = a] /\ a.job \in {NoJob, app[w].job}
    <3>1. CASE Advance(w)
      BY <2>2, <3>1, BusyApp, AfterTheStage DEF Advance
    <3>2. CASE app' = [app EXCEPT ![w].pc = "fail"]
      <4>1. [app[w] EXCEPT !.pc = "fail"] \in App /\ [app[w] EXCEPT !.pc = "fail"].job = app[w].job
        BY <1>0 DEF App
      <4>2. QED
        BY <3>2, <4>1
    <3>3. QED
      BY <1>4, <3>1, <3>2, CompleteEnds DEF FailRun
  <2>4. QED
    BY <2>1, <2>2, <2>3, EndImplements
<1>5. ASSUME Start(w) \/ Tick(w) \/ Close(w) \/ CloseResources(w) \/ OtherStage(w) \/ BrokenStage(w)
             \/ ClaimNothing(w) \/ ClaimFails(w) \/ PutArtifact(w) \/ WorkFails(w)
             \/ CompleteFails(w) \/ FailRunFails(w) \/ Crash(w)
      PROVE  Lifecycle!JobNext \/ JobSame
  <2>1. status' = status
    BY <1>5 DEF Start, Tick, Close, CloseResources, OtherStage, BrokenStage, ClaimNothing,
         ClaimFails, PutArtifact, WorkFails, CompleteFails, FailRunFails, Crash
  <2>2. PICK a : app' = [app EXCEPT ![w] = a] /\ a.job \in {NoJob, app[w].job}
    <3>1. CASE Start(w)
      <4>1. [Down EXCEPT !.state = "starting", !.stage = 1].job = NoJob
        BY DEF Down
      <4>2. QED
        BY <3>1, <4>1 DEF Start
    <3>2. CASE Tick(w)
      <4>1. [app[w] EXCEPT !.stage = 1].job = app[w].job
        BY <1>0 DEF App
      <4>2. app' = [app EXCEPT ![w] = [app[w] EXCEPT !.stage = 1]]
        BY <3>2 DEF Tick
      <4>3. QED
        BY <4>1, <4>2
    <3>3. CASE Close(w) \/ CloseResources(w)
      <4>1. PICK s \in {"closing", "stopped"} :
               app' = [app EXCEPT ![w] = [app[w] EXCEPT !.state = s]]
        BY <3>3 DEF Close, CloseResources
      <4>2. [app[w] EXCEPT !.state = s].job = app[w].job
        BY <1>0 DEF App
      <4>3. QED
        BY <4>1, <4>2
    <3>4. CASE PutArtifact(w) \/ WorkFails(w) \/ CompleteFails(w)
      <4>1. PICK s \in {"complete", "fail"} : app' = [app EXCEPT ![w] = [app[w] EXCEPT !.pc = s]]
        BY <3>4 DEF PutArtifact, WorkFails, CompleteFails
      <4>2. [app[w] EXCEPT !.pc = s].job = app[w].job
        BY <1>0 DEF App
      <4>3. QED
        BY <4>1, <4>2
    <3>5. CASE Crash(w)
      BY <3>5, DownIsIdle DEF Crash
    <3>6. CASE Advance(w)
      <4>1. Next1(app[w]).job = NoJob
        BY <1>0 DEF Next1, App
      <4>2. QED
        BY <3>6, <4>1 DEF Advance
    <3>7. CASE Throw(w)
      <4>1. Thrown(app[w]).job = NoJob /\ app' = [app EXCEPT ![w] = Thrown(app[w])]
        BY <1>0, <3>7, DownIsIdle DEF Throw, Thrown, App
      <4>2. QED
        BY <4>1
    <3>8. QED
      BY <1>5, <3>1, <3>2, <3>3, <3>4, <3>5, <3>6, <3>7
         DEF OtherStage, BrokenStage, ClaimNothing, ClaimFails, FailRunFails
  <2>3. a \in App
    BY <1>2, <2>2 DEF IInv, TypeOK
  <2>4. QED
    BY <2>1, <2>2, <2>3, LocalImplements
<1>6. QED
  BY <1>3, <1>4, <1>5 DEF Step

LEMMA NextImplements == IInv /\ [Next]_vars => [Lifecycle!JobNext]_(Lifecycle!jobVars)
<1> SUFFICES ASSUME IInv, [Next]_vars PROVE Lifecycle!JobNext \/ JobSame
  BY DEF JobSame
<1>1. IInv'
  BY NextIInv
<1>2. HolderRight
  BY HolderIsRight
<1>3. HolderRight'
  BY <1>1, HolderIsRightNext
<1>4. CASE UNCHANGED vars
  <2>1. \A j \in Jobs, w \in Workers : Holds(w, j)' <=> Holds(w, j)
    BY <1>4 DEF Holds, vars
  <2>2. status' = status
    BY <1>4 DEF vars
  <2>3. QED
    BY <1>2, <1>3, <2>1, <2>2, SameHolder, JobFrame
<1>5. CASE Api
  BY <1>2, <1>3, <1>5, ApiImplements
<1>6. CASE \E w \in Workers : Step(w) \/ Close(w) \/ Crash(w)
  BY <1>1, <1>2, <1>3, <1>6, StepsImplement
<1>7. QED
  BY <1>4, <1>5, <1>6 DEF Next

\* The claims of both queues, their guarded terminal writes, also after a COMMIT
\* whose answer is lost, and every way a stage ends early implement the
\* lifecycle of a job: taken once, ended once by the process that took it.
THEOREM Implementation == Spec => ImplementsLifecycle
<1>1. Init => Lifecycle!JobInit
  <2> SUFFICES ASSUME Init PROVE Lifecycle!JobInit
    OBVIOUS
  <2>1. \A j \in Jobs : Holder(j) = NoJob
    BY DEF Init, Holder
  <2>2. QED
    BY <2>1 DEF Init, Lifecycle!JobInit
<1>2. QED
  BY <1>1, NextImplements, Invariant, PTL DEF Spec, ImplementsLifecycle, Lifecycle!JobSpec

-----------------------------------------------------------------------------
(* Price tables: what a request knows, and what it has done *)

RequestOK(q) ==
    LET r == request[q] IN
    /\ r.pc = "answered" <=> r.answer # "pending"
    /\ r.pc \in {"activate", "advisory"} => r.target = "active"
    /\ r.pc = "block" => r.target = "blocked"
    /\ r.pc = "advisory" => rowLock[r.table] = q /\ tables[r.table] = "draft"
    /\ r.pc = "commit" =>
          /\ rowLock[r.table] = q /\ Legal(tables[r.table], r.target)
          /\ r.target = "active" => advisory[Instrument[r.table]] = q /\ ~Taken(r.table)
    /\ (r.pc = "read" /\ r.target = "blocked") \/ r.answer = "stale" =>
          tables[r.table] = "blocked"
    /\ r.pc \in {"activate", "advisory", "commit"} /\ r.target = "active" => ~r.late
    /\ r.pc # "idle" /\ r.late => IsStale(r.table)

\* q has activated its table and says so, or is about to.
Activated(q) ==
    (request[q].pc = "read" /\ request[q].target = "active") \/ request[q].answer = "activated"

\* Whoever has activated a table is alone with it.
OneActivation ==
    \A q \in Requests : Activated(q) =>
        /\ tables[Table(q)] \notin {"none", "draft"}
        /\ \A p \in Requests \ {q} : ~(Table(p) = Table(q) /\ Activated(p))

PricesInv ==
    /\ PricesTypeOK /\ NoOverlap /\ OneActivation
    /\ \A q \in Requests : RequestOK(q)

LEMMA PricesInitInv == PricesInit => PricesInv
<1> SUFFICES ASSUME PricesInit PROVE PricesInv
  OBVIOUS
<1>1. PICK t \in Tables :
         request = [q \in Requests |-> [pc |-> "idle", table |-> t, target |-> "active",
                                        late |-> FALSE, answer |-> "pending"]]
  BY DEF PricesInit
<1>2. \A q \in Requests : request[q].pc = "idle" /\ request[q].answer = "pending"
  BY <1>1
<1>3. request \in [Requests -> Request]
  BY <1>1 DEF Request
<1>4. PricesTypeOK
  <2>1. day \in 0 .. LastDay
    <3>1. LastDay \in Nat /\ day = 0
      BY PriceTablesAssumption DEF PricesInit
    <3>2. QED
      BY <3>1
  <2>2. /\ tables \in [Tables -> Statuses]
        /\ rowLock \in [Tables -> Requests \cup {Nobody}]
        /\ advisory \in [Instruments -> Requests \cup {Nobody}]
    BY DEF PricesInit, Statuses
  <2>3. QED
    BY <1>3, <2>1, <2>2 DEF PricesTypeOK
<1>5. NoOverlap
  BY DEF NoOverlap, PricesInit
<1>6. OneActivation /\ \A q \in Requests : RequestOK(q)
  BY <1>2 DEF OneActivation, Activated, RequestOK
<1>7. QED
  BY <1>4, <1>5, <1>6 DEF PricesInv

\* What a request knows stays true when no row changes and its locks stay.
LEMMA RequestKnows ==
    ASSUME PricesInv, NEW p \in Requests, request'[p] = request[p], UNCHANGED <<tables, day>>,
           \A t \in Tables : rowLock[t] = p => rowLock'[t] = p,
           \A i \in Instruments : advisory[i] = p => advisory'[i] = p
    PROVE  RequestOK(p)'
<1>1. RequestOK(p) /\ request[p].table \in Tables
  BY DEF PricesInv, PricesTypeOK, Request
<1>2. Instrument[request[p].table] \in Instruments
  BY <1>1, PriceTablesAssumption
<1>3. QED
  BY <1>1, <1>2 DEF RequestOK, Taken, IsStale

\* A step of one request that writes no row.
LEMMA RequestStepInv ==
    ASSUME PricesInv, NEW q \in Requests, NEW r \in Request,
           request' = [request EXCEPT ![q] = r], UNCHANGED <<tables, day>>,
           rowLock' \in [Tables -> Requests \cup {Nobody}],
           advisory' \in [Instruments -> Requests \cup {Nobody}],
           \A p \in Requests \ {q}, t \in Tables : rowLock[t] = p => rowLock'[t] = p,
           \A p \in Requests \ {q}, i \in Instruments : advisory[i] = p => advisory'[i] = p,
           RequestOK(q)',
           Activated(q)' => Activated(q) /\ r.table = request[q].table
    PROVE  PricesInv'
<1>1. request'[q] = r /\ \A p \in Requests \ {q} : request'[p] = request[p]
  BY DEF PricesInv, PricesTypeOK
<1>2. PricesTypeOK'
  BY DEF PricesInv, PricesTypeOK
<1>3. NoOverlap'
  BY DEF PricesInv, NoOverlap
<1>4. \A p \in Requests : RequestOK(p)'
  BY <1>1, RequestKnows
<1>5. \A p \in Requests : Activated(p)' => Activated(p) /\ Table(p)' = Table(p)
  BY <1>1 DEF Activated, Table
<1>6. OneActivation'
  BY <1>5 DEF PricesInv, OneActivation
<1>7. QED
  BY <1>2, <1>3, <1>4, <1>6 DEF PricesInv

\* The request as it goes on, or is answered.
LEMMA GoesOn ==
    ASSUME PricesInv, NEW q \in Requests,
           NEW pc \in {"decide", "advisory", "commit", "read"},
           Go(q, pc)
    PROVE  \E r \in Request :
              /\ request' = [request EXCEPT ![q] = r] /\ request'[q] = r
              /\ r.pc = pc /\ r.table = request[q].table /\ r.target = request[q].target
              /\ r.late = request[q].late /\ r.answer = request[q].answer
<1> DEFINE r == [request[q] EXCEPT !.pc = pc]
<1>1. request[q] \in Request /\ request \in [Requests -> Request]
  BY DEF PricesInv, PricesTypeOK
<1>2. /\ r \in Request
      /\ r.pc = pc /\ r.table = request[q].table /\ r.target = request[q].target
      /\ r.late = request[q].late /\ r.answer = request[q].answer
  BY <1>1 DEF Request
<1>3. request' = [request EXCEPT ![q] = r]
  BY DEF Go
<1> HIDE DEF r
<1>4. QED
  BY <1>1, <1>2, <1>3

LEMMA IsAnswered ==
    ASSUME PricesInv, NEW q \in Requests,
           NEW answer \in {"activated", "not found", "stale", "unavailable"},
           Answer(q, answer)
    PROVE  \E r \in Request :
              /\ request' = [request EXCEPT ![q] = r] /\ request'[q] = r
              /\ r.pc = "answered" /\ r.table = request[q].table
              /\ r.target = request[q].target /\ r.late = request[q].late
              /\ r.answer = answer
<1> DEFINE r == [request[q] EXCEPT !.pc = "answered", !.answer = answer]
<1>1. request[q] \in Request /\ request \in [Requests -> Request]
  BY DEF PricesInv, PricesTypeOK
<1>2. /\ r \in Request
      /\ r.pc = "answered" /\ r.table = request[q].table /\ r.target = request[q].target
      /\ r.late = request[q].late /\ r.answer = answer
  BY <1>1 DEF Request
<1>3. request' = [request EXCEPT ![q] = r]
  BY DEF Answer
<1> HIDE DEF r
<1>4. QED
  BY <1>1, <1>2, <1>3

\* The locks of the other requests stay when q releases its own.
LEMMA Releases ==
    ASSUME PricesInv, NEW q \in Requests, Release(q)
    PROVE  /\ rowLock' \in [Tables -> Requests \cup {Nobody}]
           /\ advisory' \in [Instruments -> Requests \cup {Nobody}]
           /\ \A p \in Requests \ {q}, t \in Tables : rowLock[t] = p => rowLock'[t] = p
           /\ \A p \in Requests \ {q}, i \in Instruments : advisory[i] = p => advisory'[i] = p
BY DEF Release, PricesInv, PricesTypeOK

\* A request is refused, or lost: only its locks go.
LEMMA UnavailableInv ==
    ASSUME PricesInv, NEW q \in Requests, UNCHANGED <<tables, day>>,
           request[q].pc # "idle", request[q].answer = "pending", Answer(q, "unavailable"),
           Release(q) \/ UNCHANGED <<rowLock, advisory>>
    PROVE  PricesInv'
<1>1. PICK r \in Request :
         /\ request' = [request EXCEPT ![q] = r] /\ request'[q] = r
         /\ r.pc = "answered" /\ r.table = request[q].table /\ r.late = request[q].late
         /\ r.answer = "unavailable"
  BY IsAnswered
<1>2. /\ rowLock' \in [Tables -> Requests \cup {Nobody}]
      /\ advisory' \in [Instruments -> Requests \cup {Nobody}]
      /\ \A p \in Requests \ {q}, t \in Tables : rowLock[t] = p => rowLock'[t] = p
      /\ \A p \in Requests \ {q}, i \in Instruments : advisory[i] = p => advisory'[i] = p
  BY Releases DEF PricesInv, PricesTypeOK
<1>3. ~Activated(q)'
  BY <1>1 DEF Activated
<1>4. request[q].late => IsStale(request[q].table)
  BY DEF PricesInv, RequestOK
<1>5. RequestOK(q)'
  BY <1>1, <1>4 DEF RequestOK, IsStale
<1>6. QED
  BY <1>1, <1>2, <1>3, <1>5, RequestStepInv

LEMMA CreateTableInv ==
    ASSUME PricesInv, NEW t \in Tables, Create(t)
    PROVE  PricesInv'
<1>1. /\ tables[t] = "none" /\ tables'[t] = "draft"
      /\ \A u \in Tables \ {t} : tables'[u] = tables[u]
      /\ UNCHANGED <<day, rowLock, advisory, request>>
  BY DEF Create, PricesInv, PricesTypeOK
<1>2. PricesTypeOK'
  BY DEF Create, PricesInv, PricesTypeOK, Statuses
<1>3. NoOverlap'
  BY <1>1 DEF PricesInv, NoOverlap
<1>4. \A u \in Tables : Taken(u)' => Taken(u)
  BY <1>1 DEF Taken
<1>5. ASSUME NEW q \in Requests PROVE RequestOK(q)'
  <2>1. RequestOK(q) /\ request[q].table \in Tables /\ request'[q] = request[q]
    BY <1>1 DEF PricesInv, PricesTypeOK, Request
  <2>2. tables[request[q].table] # "none" => tables'[request[q].table] = tables[request[q].table]
    BY <1>1, <2>1
  <2>3. \A target : ~Legal("none", target)
    BY DEF Legal
  <2>4. QED
    BY <1>1, <1>4, <2>1, <2>2, <2>3 DEF RequestOK, IsStale
<1>6. \A q \in Requests : (Activated(q)' <=> Activated(q)) /\ Table(q)' = Table(q)
  BY <1>1 DEF Activated, Table
<1>7. OneActivation'
  <2>1. \A q \in Requests : Table(q) \in Tables
    BY DEF PricesInv, PricesTypeOK, Request, Table
  <2>2. QED
    BY <1>1, <1>6, <2>1 DEF PricesInv, OneActivation
<1>8. QED
  BY <1>2, <1>3, <1>5, <1>7 DEF PricesInv

LEMMA ReceiveInv ==
    ASSUME PricesInv, NEW q \in Requests, NEW t \in Tables, Receive(q, t)
    PROVE  PricesInv'
<1> DEFINE r == [request[q] EXCEPT !.pc = "get", !.table = t, !.late = IsStale(t)]
<1>1. request[q] \in Request /\ request \in [Requests -> Request] /\ IsStale(t) \in BOOLEAN
  BY DEF PricesInv, PricesTypeOK, IsStale
<1>2. /\ r \in Request /\ r.pc = "get" /\ r.table = t /\ r.late = IsStale(t)
      /\ r.answer = request[q].answer
  BY <1>1 DEF Request
<1>3. request' = [request EXCEPT ![q] = r] /\ request[q].pc = "idle"
      /\ UNCHANGED <<tables, day, rowLock, advisory>>
  BY DEF Receive
<1> HIDE DEF r
<1>4. request'[q] = r
  BY <1>1, <1>3
<1>5. r.answer = "pending"
  BY <1>2, <1>3 DEF PricesInv, RequestOK
<1>6. RequestOK(q)' /\ ~Activated(q)'
  BY <1>2, <1>3, <1>4, <1>5 DEF RequestOK, Activated, IsStale
<1>7. /\ rowLock' \in [Tables -> Requests \cup {Nobody}]
      /\ advisory' \in [Instruments -> Requests \cup {Nobody}]
  BY <1>3 DEF PricesInv, PricesTypeOK
<1>8. QED
  BY <1>2, <1>3, <1>6, <1>7, RequestStepInv

\* A request that goes on to pc with nothing but its own record changed.
LEMMA GoInv ==
    ASSUME PricesInv, NEW q \in Requests, NEW r \in Request,
           request' = [request EXCEPT ![q] = r], r.table = request[q].table,
           UNCHANGED <<tables, day, rowLock, advisory>>,
           RequestOK(q)', ~Activated(q)' \/ Activated(q)
    PROVE  PricesInv'
<1>1. /\ rowLock' \in [Tables -> Requests \cup {Nobody}]
      /\ advisory' \in [Instruments -> Requests \cup {Nobody}]
  BY DEF PricesInv, PricesTypeOK
<1>2. QED
  BY <1>1, RequestStepInv

\* What the steps that may be refused come to.
LEMMA Outcomes ==
    ASSUME NEW q \in Requests
    PROVE  /\ Get(q) =>
                /\ request[q].pc = "get" /\ UNCHANGED <<tables, day, rowLock, advisory>>
                /\ Answer(q, "not found") \/ Go(q, "decide")
           /\ UpdateRow(q) =>
                /\ request[q].pc \in {"block", "activate"} /\ rowLock[request[q].table] = Nobody
                /\ UNCHANGED <<tables, day, advisory>>
                /\ \/ Answer(q, "unavailable") /\ UNCHANGED rowLock
                   \/ /\ Legal(tables[request[q].table], request[q].target)
                      /\ rowLock' = [rowLock EXCEPT ![request[q].table] = q]
                      /\ Go(q, IF request[q].target = "active" THEN "advisory" ELSE "commit")
           /\ LockInstrument(q) =>
                /\ request[q].pc = "advisory" /\ advisory[Instrument[request[q].table]] = Nobody
                /\ UNCHANGED <<tables, day>>
                /\ \/ Answer(q, "unavailable") /\ Release(q)
                   \/ /\ ~Taken(request[q].table)
                      /\ advisory' = [advisory EXCEPT ![Instrument[request[q].table]] = q]
                      /\ Go(q, "commit") /\ UNCHANGED rowLock
<1>1. ASSUME Get(q)
      PROVE  /\ request[q].pc = "get" /\ UNCHANGED <<tables, day, rowLock, advisory>>
             /\ Answer(q, "not found") \/ Go(q, "decide")
  BY <1>1, Zenon DEF Get
<1>2. ASSUME UpdateRow(q)
      PROVE  /\ request[q].pc \in {"block", "activate"} /\ rowLock[request[q].table] = Nobody
             /\ UNCHANGED <<tables, day, advisory>>
             /\ \/ Answer(q, "unavailable") /\ UNCHANGED rowLock
                \/ /\ Legal(tables[request[q].table], request[q].target)
                   /\ rowLock' = [rowLock EXCEPT ![request[q].table] = q]
                   /\ Go(q, IF request[q].target = "active" THEN "advisory" ELSE "commit")
  BY <1>2, Zenon DEF UpdateRow, Table
<1>3. ASSUME LockInstrument(q)
      PROVE  /\ request[q].pc = "advisory" /\ advisory[Instrument[request[q].table]] = Nobody
             /\ UNCHANGED <<tables, day>>
             /\ \/ Answer(q, "unavailable") /\ Release(q)
                \/ /\ ~Taken(request[q].table)
                   /\ advisory' = [advisory EXCEPT ![Instrument[request[q].table]] = q]
                   /\ Go(q, "commit") /\ UNCHANGED rowLock
  BY <1>3, Zenon DEF LockInstrument, Table
<1>4. QED
  BY <1>1, <1>2, <1>3

LEMMA GetInv ==
    ASSUME PricesInv, NEW q \in Requests, Get(q)
    PROVE  PricesInv'
<1>1. PICK r \in Request :
         /\ request' = [request EXCEPT ![q] = r] /\ request'[q] = r
         /\ r.table = request[q].table /\ r.late = request[q].late
         /\ \/ r.pc = "decide" /\ r.answer = "pending"
            \/ r.pc = "answered" /\ r.answer = "not found"
  <2>1. request[q].answer = "pending"
    BY Outcomes DEF PricesInv, RequestOK
  <2>2. CASE Answer(q, "not found")
    BY <2>2, IsAnswered
  <2>3. CASE Go(q, "decide")
    <3>1. PICK r \in Request :
             /\ request' = [request EXCEPT ![q] = r] /\ request'[q] = r
             /\ r.pc = "decide" /\ r.table = request[q].table /\ r.target = request[q].target
             /\ r.late = request[q].late /\ r.answer = request[q].answer
      BY <2>3, GoesOn
    <3>2. QED
      BY <2>1, <3>1
  <2>4. QED
    BY <2>2, <2>3, Outcomes
<1>2. request[q].late => IsStale(request[q].table)
  BY Outcomes DEF PricesInv, RequestOK
<1>3. UNCHANGED <<tables, day, rowLock, advisory>>
  BY Outcomes
<1>4. RequestOK(q)' /\ ~Activated(q)'
  BY <1>1, <1>2, <1>3 DEF RequestOK, IsStale, Activated
<1>5. QED
  BY <1>1, <1>3, <1>4, GoInv

LEMMA DecideInv ==
    ASSUME PricesInv, NEW q \in Requests, Decide(q)
    PROVE  PricesInv'
<1>1. /\ request[q] \in Request /\ request \in [Requests -> Request]
      /\ request[q].answer = "pending"
      /\ request[q].late => IsStale(request[q].table)
  BY DEF PricesInv, PricesTypeOK, RequestOK, Decide
<1>2. PICK r \in Request :
         /\ request' = [request EXCEPT ![q] = r]
         /\ r.table = request[q].table /\ r.late = request[q].late /\ r.answer = "pending"
         /\ \/ IsStale(request[q].table) /\ r.pc = "block" /\ r.target = "blocked"
            \/ ~IsStale(request[q].table) /\ r.pc = "activate" /\ r.target = "active"
  <2> DEFINE b == [request[q] EXCEPT !.pc = "block", !.target = "blocked"]
             a == [request[q] EXCEPT !.pc = "activate", !.target = "active"]
  <2>1. /\ b \in Request /\ b.table = request[q].table /\ b.late = request[q].late
        /\ b.answer = "pending" /\ b.pc = "block" /\ b.target = "blocked"
    BY <1>1 DEF Request
  <2>2. /\ a \in Request /\ a.table = request[q].table /\ a.late = request[q].late
        /\ a.answer = "pending" /\ a.pc = "activate" /\ a.target = "active"
    BY <1>1 DEF Request
  <2>3. request' = IF IsStale(request[q].table) THEN [request EXCEPT ![q] = b]
                   ELSE [request EXCEPT ![q] = a]
    BY DEF Decide, Table
  <2> HIDE DEF a, b
  <2>4. QED
    BY <2>1, <2>2, <2>3
<1>3. request'[q] = r
  BY <1>1, <1>2
<1>4. RequestOK(q)' /\ ~Activated(q)'
  BY <1>1, <1>2, <1>3 DEF RequestOK, IsStale, Activated, Decide
<1>5. QED
  BY <1>2, <1>4, GoInv DEF Decide

LEMMA UpdateRowInv ==
    ASSUME PricesInv, NEW q \in Requests, UpdateRow(q)
    PROVE  PricesInv'
<1>1. /\ request[q].pc \in {"block", "activate"} /\ request[q].answer = "pending"
      /\ request[q].table \in Tables /\ rowLock[request[q].table] = Nobody
      /\ request[q].target = IF request[q].pc = "block" THEN "blocked" ELSE "active"
      /\ request[q].pc = "activate" => ~request[q].late
      /\ request[q].late => IsStale(request[q].table)
  <2>1. request[q].pc \in {"block", "activate"} /\ rowLock[request[q].table] = Nobody
    BY Outcomes
  <2>2. request[q] \in Request /\ RequestOK(q)
    BY DEF PricesInv, PricesTypeOK
  <2>3. request[q].table \in Tables /\ request[q].target \in {"active", "blocked"}
    BY <2>2 DEF Request
  <2> QED  BY <2>1, <2>2, <2>3 DEF RequestOK
<1>2. CASE Answer(q, "unavailable") /\ UNCHANGED rowLock
  BY <1>1, <1>2, Outcomes, UnavailableInv
<1>3. CASE /\ Legal(tables[request[q].table], request[q].target)
           /\ rowLock' = [rowLock EXCEPT ![request[q].table] = q]
           /\ Go(q, IF request[q].target = "active" THEN "advisory" ELSE "commit")
  <2>1. PICK r \in Request :
           /\ request' = [request EXCEPT ![q] = r] /\ request'[q] = r
           /\ r.pc = (IF request[q].target = "active" THEN "advisory" ELSE "commit")
           /\ r.table = request[q].table /\ r.target = request[q].target
           /\ r.late = request[q].late /\ r.answer = "pending"
    BY <1>1, <1>3, GoesOn
  <2>2. /\ rowLock'[request[q].table] = q
        /\ rowLock' \in [Tables -> Requests \cup {Nobody}]
        /\ \A p \in Requests \ {q}, t \in Tables : rowLock[t] = p => rowLock'[t] = p
    BY <1>1, <1>3, PriceTablesAssumption DEF PricesInv, PricesTypeOK
  <2>3. UNCHANGED <<tables, day, advisory>> /\ advisory' \in [Instruments -> Requests \cup {Nobody}]
    BY Outcomes DEF PricesInv, PricesTypeOK
  <2>4. request[q].target = "active" => tables[request[q].table] = "draft"
    BY <1>3 DEF Legal
  <2>5. RequestOK(q)'
    BY <1>1, <1>3, <2>1, <2>2, <2>3, <2>4 DEF RequestOK, IsStale
  <2>6. ~Activated(q)'
    BY <1>1, <2>1 DEF Activated
  <2>7. QED
    BY <2>1, <2>2, <2>3, <2>5, <2>6, RequestStepInv
<1>4. QED
  BY <1>2, <1>3, Outcomes

LEMMA LockInstrumentInv ==
    ASSUME PricesInv, NEW q \in Requests, LockInstrument(q)
    PROVE  PricesInv'
<1>1. /\ request[q].pc = "advisory" /\ request[q].answer = "pending" /\ request[q].target = "active"
      /\ request[q].table \in Tables /\ Instrument[request[q].table] \in Instruments
      /\ rowLock[request[q].table] = q /\ tables[request[q].table] = "draft"
      /\ advisory[Instrument[request[q].table]] = Nobody /\ ~request[q].late
  <2>1. /\ request[q].pc = "advisory" /\ RequestOK(q)
        /\ advisory[Instrument[request[q].table]] = Nobody
    BY Outcomes DEF PricesInv
  <2>2. request[q].table \in Tables
    BY DEF PricesInv, PricesTypeOK, Request
  <2>3. Instrument[request[q].table] \in Instruments
    BY <2>2, PriceTablesAssumption
  <2>4. QED
    BY <2>1, <2>2, <2>3 DEF RequestOK
<1>2. CASE Answer(q, "unavailable") /\ Release(q)
  BY <1>1, <1>2, Outcomes, UnavailableInv
<1>3. CASE /\ ~Taken(request[q].table)
           /\ advisory' = [advisory EXCEPT ![Instrument[request[q].table]] = q]
           /\ Go(q, "commit") /\ UNCHANGED rowLock
  <2>1. PICK r \in Request :
           /\ request' = [request EXCEPT ![q] = r] /\ request'[q] = r
           /\ r.pc = "commit" /\ r.table = request[q].table /\ r.target = "active"
           /\ r.late = request[q].late /\ r.answer = "pending"
    BY <1>1, <1>3, GoesOn
  <2>2. /\ advisory'[Instrument[request[q].table]] = q
        /\ advisory' \in [Instruments -> Requests \cup {Nobody}]
        /\ \A p \in Requests \ {q}, i \in Instruments : advisory[i] = p => advisory'[i] = p
    BY <1>1, <1>3, PriceTablesAssumption DEF PricesInv, PricesTypeOK
  <2>3. UNCHANGED <<tables, day, rowLock>> /\ rowLock' \in [Tables -> Requests \cup {Nobody}]
    BY <1>3, Outcomes DEF PricesInv, PricesTypeOK
  <2>4. Legal(tables[request[q].table], "active")
    BY <1>1 DEF Legal
  <2>5. RequestOK(q)'
    BY <1>1, <1>3, <2>1, <2>2, <2>3, <2>4 DEF RequestOK, Taken
  <2>6. ~Activated(q)'
    BY <2>1 DEF Activated
  <2>7. QED
    BY <2>1, <2>2, <2>3, <2>5, <2>6, RequestStepInv
<1>4. QED
  BY <1>2, <1>3, Outcomes

LEMMA ReadInv ==
    ASSUME PricesInv, NEW q \in Requests, Read(q)
    PROVE  PricesInv'
<1> DEFINE answer == IF request[q].target = "active" THEN "activated" ELSE "stale"
<1>1. /\ request[q].pc = "read" /\ request[q].target \in {"active", "blocked"}
      /\ request[q].target = "blocked" => tables[request[q].table] = "blocked"
      /\ request[q].late => IsStale(request[q].table)
      /\ request[q].table \in Tables
  <2>1. request[q].pc = "read"
    BY DEF Read
  <2>2. request[q] \in Request /\ RequestOK(q)
    BY DEF PricesInv, PricesTypeOK
  <2>3. request[q].table \in Tables /\ request[q].target \in {"active", "blocked"}
    BY <2>2 DEF Request
  <2> QED  BY <2>1, <2>2, <2>3 DEF RequestOK
<1>2. Answer(q, answer) /\ answer \in {"activated", "not found", "stale", "unavailable"}
  BY DEF Read
<1>3. PICK r \in Request :
         /\ request' = [request EXCEPT ![q] = r] /\ request'[q] = r
         /\ r.pc = "answered" /\ r.table = request[q].table
         /\ r.target = request[q].target /\ r.late = request[q].late
         /\ r.answer = answer
  <2> HIDE DEF answer
  <2> QED  BY <1>2, IsAnswered
<1>4. RequestOK(q)'
  BY <1>1, <1>3 DEF RequestOK, IsStale, Read
<1>5. ~Activated(q)' \/ Activated(q)
  BY <1>1, <1>3 DEF Activated
<1>6. QED
  BY <1>3, <1>4, <1>5, GoInv DEF Read

LEMMA FailInv ==
    ASSUME PricesInv, NEW q \in Requests, Fail(q)
    PROVE  PricesInv'
<1>1. request[q].pc # "idle" /\ request[q].answer = "pending"
  BY DEF Fail, PricesInv, RequestOK
<1>2. QED
  BY <1>1, UnavailableInv DEF Fail

\* The statement of q commits: its row, and nothing that another request knows.
LEMMA CommitInv ==
    ASSUME PricesInv, NEW q \in Requests, Commit(q)
    PROVE  PricesInv'
<1> DEFINE t == request[q].table
           target == request[q].target
<1>1. /\ t \in Tables /\ target \in {"active", "blocked"} /\ request[q].pc = "commit"
      /\ Instrument[t] \in Instruments
  BY PriceTablesAssumption DEF PricesInv, PricesTypeOK, Request, Commit
<1>2. /\ rowLock[t] = q /\ Legal(tables[t], target) /\ request[q].answer = "pending"
      /\ target = "active" => advisory[Instrument[t]] = q /\ ~Taken(t) /\ ~request[q].late
  BY <1>1 DEF PricesInv, RequestOK
<1>3. request[q].late => IsStale(t)
  BY <1>1 DEF PricesInv, RequestOK
<1>4. /\ tables'[t] = target /\ \A u \in Tables \ {t} : tables'[u] = tables[u]
      /\ tables' \in [Tables -> Statuses] /\ day' = day
  BY <1>1 DEF Commit, PricesInv, PricesTypeOK, Statuses, Table
<1>5. /\ rowLock' \in [Tables -> Requests \cup {Nobody}]
      /\ advisory' \in [Instruments -> Requests \cup {Nobody}]
      /\ \A p \in Requests \ {q}, u \in Tables : rowLock[u] = p => rowLock'[u] = p
      /\ \A p \in Requests \ {q}, i \in Instruments : advisory[i] = p => advisory'[i] = p
  BY Releases DEF Commit
<1>6. PICK r \in Request :
         /\ request' = [request EXCEPT ![q] = r] /\ request'[q] = r
         /\ r.table = t /\ r.target = target /\ r.late = request[q].late
         /\ \/ r.pc = "read" /\ r.answer = "pending"
            \/ r.pc = "answered" /\ r.answer = "unavailable"
  <2>1. CASE Go(q, "read")
    BY <1>2, <2>1, GoesOn
  <2>2. CASE Answer(q, "unavailable")
    BY <2>2, IsAnswered
  <2>3. QED
    BY <2>1, <2>2 DEF Commit
<1>7. \A p \in Requests \ {q} : request'[p] = request[p] /\ request[p].table \in Tables
  BY <1>6 DEF PricesInv, PricesTypeOK, Request
<1> HIDE DEF t, target
<1>8. PricesTypeOK'
  BY <1>4, <1>5, <1>6 DEF PricesInv, PricesTypeOK
<1>9. NoOverlap'
  <2>1. CASE target = "blocked"
    BY <1>1, <1>4, <2>1 DEF PricesInv, NoOverlap
  <2>2. CASE target = "active"
    <3>1. \A u \in Tables \ {t} : Instrument[u] = Instrument[t] /\ tables[u] = "active" =>
             ~(From[u] <= To[t] /\ From[t] <= To[u])
      BY <1>2, <2>2 DEF Taken, Overlap
    <3>2. QED
      BY <1>1, <1>4, <3>1 DEF PricesInv, NoOverlap
  <2>3. QED
    BY <1>1, <2>1, <2>2
<1>10. RequestOK(q)'
  BY <1>3, <1>4, <1>6 DEF RequestOK, IsStale
<1>11. ASSUME NEW p \in Requests \ {q} PROVE RequestOK(p)'
  <2>0. PICK u \in Tables : u = request[p].table
    BY <1>7
  <2>1. RequestOK(p) /\ request'[p] = request[p] /\ Instrument[u] \in Instruments
    BY <1>7, PriceTablesAssumption DEF PricesInv
  <2>2. CASE u # t
    <3>1. tables'[u] = tables[u] /\ (rowLock[u] = p => rowLock'[u] = p)
      BY <1>4, <1>5, <2>1, <2>2
    <3>2. advisory[Instrument[u]] = p /\ ~Taken(u) =>
             advisory'[Instrument[u]] = p /\ ~Taken(u)'
      <4> SUFFICES ASSUME advisory[Instrument[u]] = p, ~Taken(u)
                   PROVE  advisory'[Instrument[u]] = p /\ ~Taken(u)'
        OBVIOUS
      <4>1. advisory'[Instrument[u]] = p
        BY <1>5, <2>1
      <4>2. ~(target = "active" /\ Instrument[t] = Instrument[u])
        <5> SUFFICES ASSUME target = "active", Instrument[t] = Instrument[u] PROVE FALSE
          OBVIOUS
        <5>1. advisory[Instrument[t]] = q
          BY <1>2
        <5>2. QED
          BY <5>1
      <4>3. ~Taken(u)'
        BY <1>1, <1>4, <4>2 DEF Taken
      <4>4. QED
        BY <4>1, <4>3
    <3>3. QED
      BY <1>4, <2>0, <2>1, <3>1, <3>2 DEF RequestOK, IsStale
  <2>3. CASE u = t
    <3>1. request[p].pc \notin {"advisory", "commit"}
      BY <1>2, <2>0, <2>1, <2>3 DEF RequestOK
    <3>2. tables[u] # "blocked"
      BY <1>2, <2>3 DEF Legal
    <3>3. QED
      BY <1>4, <2>0, <2>1, <3>1, <3>2 DEF RequestOK, IsStale
  <2>4. QED
    BY <2>2, <2>3
<1>12. OneActivation'
  <2>1. \A p \in Requests \ {q} : (Activated(p)' <=> Activated(p)) /\ Table(p)' = Table(p)
    BY <1>7 DEF Activated, Table
  <2>2. Table(q) = t /\ Table(q)' = t /\ (Activated(q)' => target = "active")
    BY <1>6 DEF Activated, Table, t
  <2>3. tables[t] # "none" /\ (target = "active" => tables[t] = "draft")
    BY <1>1, <1>2 DEF Legal
  <2>4. \A p \in Requests \ {q} : Activated(p) /\ target = "active" => Table(p) # t
    BY <2>3 DEF PricesInv, OneActivation
  <2>5. \A p \in Requests : Table(p)' \in Tables
    BY <1>8 DEF PricesTypeOK, Request, Table
  <2>6. tables'[t] \notin {"none", "draft"}
    BY <1>1, <1>4
  <2>7. ASSUME NEW p \in Requests, Activated(p)'
        PROVE  tables'[Table(p)'] \notin {"none", "draft"}
    <3>1. CASE Table(p)' = t
      BY <2>6, <3>1
    <3>2. CASE Table(p)' # t
      <4>1. p # q /\ Activated(p) /\ Table(p)' = Table(p)
        BY <2>1, <2>2, <2>7, <3>2
      <4>2. tables[Table(p)] \notin {"none", "draft"}
        BY <4>1 DEF PricesInv, OneActivation
      <4>3. QED
        BY <1>4, <2>5, <3>2, <4>1, <4>2
    <3>3. QED
      BY <3>1, <3>2
  <2>8. ASSUME NEW p \in Requests, Activated(p)', NEW v \in Requests \ {p}, Activated(v)'
        PROVE  Table(v)' # Table(p)'
    <3>1. CASE p = q
      BY <2>1, <2>2, <2>4, <2>8, <3>1
    <3>2. CASE v = q
      BY <2>1, <2>2, <2>4, <2>8, <3>2
    <3>3. CASE p # q /\ v # q
      BY <2>1, <2>8, <3>3 DEF PricesInv, OneActivation
    <3>4. QED
      BY <3>1, <3>2, <3>3
  <2>9. QED
    BY <2>7, <2>8 DEF OneActivation
<1>13. QED
  BY <1>8, <1>9, <1>10, <1>11, <1>12 DEF PricesInv

\* A day passes: what was stale stays stale.
LEMMA NextDayInv ==
    ASSUME PricesInv, NextDay
    PROVE  PricesInv'
<1>1. /\ day \in Int /\ day' = day + 1 /\ day' \in 0 .. LastDay
      /\ UNCHANGED <<tables, rowLock, advisory, request>>
  BY PriceTablesAssumption DEF NextDay, PricesInv, PricesTypeOK
<1>2. PricesTypeOK' /\ NoOverlap' /\ OneActivation'
  BY <1>1 DEF PricesInv, PricesTypeOK, NoOverlap, OneActivation, Activated, Table
<1>3. \A t \in Tables : IsStale(t) => IsStale(t)'
  BY <1>1, PriceTablesAssumption DEF IsStale
<1>4. ASSUME NEW q \in Requests PROVE RequestOK(q)'
  <2>1. RequestOK(q) /\ request[q].table \in Tables
    BY DEF PricesInv, PricesTypeOK, Request
  <2>2. Taken(request[q].table)' <=> Taken(request[q].table)
    BY <1>1 DEF Taken
  <2>3. QED
    BY <1>1, <1>3, <2>1, <2>2 DEF RequestOK
<1>5. QED
  BY <1>2, <1>4 DEF PricesInv

LEMMA PricesNextInv == PricesInv /\ [PricesNext]_pricesVars => PricesInv'
<1> SUFFICES ASSUME PricesInv, [PricesNext]_pricesVars PROVE PricesInv'
  OBVIOUS
<1>1. CASE UNCHANGED pricesVars
  <2>1. PricesTypeOK' /\ NoOverlap' /\ OneActivation'
    BY <1>1 DEF pricesVars, PricesInv, PricesTypeOK, NoOverlap, OneActivation, Activated, Table
  <2>2. \A q \in Requests : RequestOK(q)'
    BY <1>1 DEF pricesVars, PricesInv, RequestOK, Taken, IsStale
  <2>3. QED
    BY <2>1, <2>2 DEF PricesInv
<1>2. CASE \E t \in Tables : Create(t)
  BY <1>2, CreateTableInv
<1>3. CASE \E q \in Requests : (\E t \in Tables : Receive(q, t)) \/ RequestStep(q) \/ Fail(q)
  BY <1>3, ReceiveInv, GetInv, DecideInv, UpdateRowInv, LockInstrumentInv, CommitInv, ReadInv,
     FailInv DEF RequestStep
<1>4. CASE NextDay
  BY <1>4, NextDayInv
<1>5. QED
  BY <1>1, <1>2, <1>3, <1>4 DEF PricesNext

\* What every request knows under its locks, and that whoever has activated a
\* table is alone with it.
THEOREM PricesInvariant == PricesSpec => []PricesInv
BY PricesInitInv, PricesNextInv, PTL DEF PricesSpec

\* No two active price tables of an instrument have a day in common, and an
\* activation is answered as such to one request only (trigger of migration 0012).
THEOREM UnambiguousPrices == PricesSpec => []PricesAreUnambiguous
<1>1. PricesInv => PricesAreUnambiguous
  BY DEF PricesInv, PricesAreUnambiguous, AnswersHold, OneActivation, Activated, RequestOK, Table
<1>2. QED
  BY <1>1, PricesInvariant, PTL

\* The clock is read before the locks are taken, however long they take: a table
\* that was stale when its activation was asked for is not activated.
THEOREM StaleTables == PricesSpec => StaleTablesStayOut
<1>1. ASSUME PricesInv, [PricesNext]_pricesVars, NEW q \in Requests,
             tables[Table(q)] # "active", tables'[Table(q)] = "active", rowLock[Table(q)] = q
      PROVE  ~request[q].late
  <2>1. Table(q) \in Tables
    BY <1>1 DEF PricesInv, PricesTypeOK, Request, Table
  <2>2. ~(\E t \in Tables : Create(t))
    BY <1>1, <2>1 DEF Create, PricesInv, PricesTypeOK
  <2>3. PICK p \in Requests : Commit(p)
    <3>1. tables' # tables
      BY <1>1
    <3>2. \A p \in Requests : (\E t \in Tables : Receive(p, t)) \/ Decide(p) \/ Read(p) \/ Fail(p)
             => UNCHANGED tables
      BY DEF Receive, Decide, Read, Fail
    <3>3. \A p \in Requests : Get(p) \/ UpdateRow(p) \/ LockInstrument(p) => UNCHANGED tables
      BY Outcomes
    <3>4. QED
      BY <1>1, <2>2, <3>1, <3>2, <3>3 DEF PricesNext, RequestStep, NextDay, pricesVars
  <2>4. request[p].table \in Tables /\ request[p].pc = "commit" /\ RequestOK(p)
    BY <1>1, <2>3 DEF Commit, PricesInv, PricesTypeOK, Request
  <2>5. Table(q) = request[p].table /\ request[p].target = "active"
    BY <1>1, <2>1, <2>3, <2>4 DEF Commit, PricesInv, PricesTypeOK, Table
  <2>6. rowLock[request[p].table] = p /\ ~request[p].late
    BY <2>4, <2>5 DEF RequestOK
  <2>7. QED
    BY <1>1, <2>5, <2>6
<1>2. PricesInv /\ [PricesNext]_pricesVars => StaleStaysOut
  BY <1>1 DEF StaleStaysOut
<1>3. QED
  BY <1>2, PricesInvariant, PTL DEF PricesSpec, StaleTablesStayOut
-----------------------------------------------------------------------------
(* Sums over finite sets, for the economics: what a fold is, one element at a time. *)

\* A set of naturals has a least one: the form of induction these proofs use.
LEMMA LeastNatural ==
  ASSUME NEW S, S \subseteq Nat, S # {}
  PROVE  \E n \in S : \A m \in S : n <= m
<1> DEFINE less == OpToRel(<, Nat)
<1>1. IsWellFoundedOn(less, Nat)
  BY NatLessThanWellFounded
<1>2. \A x, y \in Nat : x < y => <<x, y>> \in less
  BY DEF OpToRel
<1> HIDE DEF less
<1>3. PICK n \in S : \A m \in S : ~ (<<m, n>> \in less)
  BY <1>1, WFMin
<1>4. ASSUME NEW m \in S PROVE n <= m
  <2>1. m \in Nat /\ n \in Nat
    OBVIOUS
  <2>2. ~(m < n)
    BY <1>2, <1>3, <2>1
  <2> QED  BY <2>1, <2>2
<1> QED  BY <1>4

\* The element a fold takes next.
Pick(D) == CHOOSE x \in D : TRUE

LEMMA PickIs ==
  ASSUME NEW D, D # {}
  PROVE  Pick(D) \in D
  BY DEF Pick

\* s is the table of a fold's sums over the subsets of S that have at most n elements.
Sums(s, f, S, n) ==
  /\ s \in [SUBSET S -> Int] /\ s[{}] = 0
  /\ \A D \in SUBSET S : D # {} /\ Cardinality(D) <= n => s[D] = f[Pick(D)] + s[D \ {Pick(D)}]

\* How the fold defines it.
SumTable(s, f, S) ==
  s = [D \in SUBSET S |-> IF D = {} THEN 0 ELSE f[CHOOSE x \in D : TRUE] + s[D \ {CHOOSE x \in D : TRUE}]]

LEMMA SumsExist ==
  ASSUME NEW S, IsFiniteSet(S), NEW f \in [S -> Int], NEW n \in Nat
  PROVE  \E s : Sums(s, f, S, n)
<1> DEFINE M == {m \in Nat : ~ \E s : Sums(s, f, S, m)}
<1> SUFFICES ASSUME M # {} PROVE FALSE
  OBVIOUS
<1>0. PICK m \in M : \A l \in M : m <= l
  <2>1. M \subseteq Nat
    OBVIOUS
  <2> HIDE DEF M
  <2> QED  BY <2>1, LeastNatural
<1>1. \A D \in SUBSET S : /\ IsFiniteSet(D) /\ Cardinality(D) \in Nat
                          /\ D # {} => Pick(D) \in D /\ Cardinality(D \ {Pick(D)}) = Cardinality(D) - 1
                          /\ Cardinality(D) = 0 <=> D = {}
  <2> TAKE D \in SUBSET S
  <2>1. IsFiniteSet(D) /\ Cardinality(D) \in Nat
    BY FS_Subset, FS_CardinalityType
  <2> QED  BY <2>1, PickIs, FS_RemoveElement, FS_EmptySet
<1>2. CASE m = 0
  <2> DEFINE s == [D \in SUBSET S |-> 0]
  <2>1. s \in [SUBSET S -> Int] /\ s[{}] = 0
    OBVIOUS
  <2>2. ASSUME NEW D \in SUBSET S, Cardinality(D) <= 0 PROVE D = {}
    <3>1. IsFiniteSet(D) /\ Cardinality(D) \in Nat
      BY FS_Subset, FS_CardinalityType
    <3>2. Cardinality(D) = 0
      BY <2>2, <3>1
    <3> QED  BY <3>1, <3>2, FS_EmptySet
  <2> HIDE DEF s
  <2>3. Sums(s, f, S, 0)
    BY <2>1, <2>2 DEF Sums
  <2> QED  BY <1>0, <1>2, <2>3
<1>3. CASE m # 0
  <2>1. m - 1 \in Nat /\ m - 1 \notin M
    BY <1>0, <1>3
  <2>2. PICK s : Sums(s, f, S, m - 1)
    BY <2>1
  <2> DEFINE t == [D \in SUBSET S |-> IF D = {} \/ Cardinality(D) < m THEN s[D]
                                      ELSE f[Pick(D)] + s[D \ {Pick(D)}]]
  <2>3. s \in [SUBSET S -> Int] /\ s[{}] = 0
    BY <2>2 DEF Sums
  <2>4. ASSUME NEW D \in SUBSET S, D # {} PROVE f[Pick(D)] + s[D \ {Pick(D)}] \in Int
    <3>1. Pick(D) \in S /\ D \ {Pick(D)} \in SUBSET S
      BY <1>1, <2>4
    <3>2. f[Pick(D)] \in Int /\ s[D \ {Pick(D)}] \in Int
      BY <2>3, <3>1
    <3> QED  BY <3>2
  <2>5. t \in [SUBSET S -> Int] /\ t[{}] = 0
    BY <2>3, <2>4
  <2>6. ASSUME NEW D \in SUBSET S, D # {}, Cardinality(D) <= m
        PROVE  t[D] = f[Pick(D)] + t[D \ {Pick(D)}]
    <3>1. /\ Cardinality(D) \in Nat /\ Cardinality(D \ {Pick(D)}) = Cardinality(D) - 1
          /\ D \ {Pick(D)} \in SUBSET S
      BY <1>1, <2>6
    <3>2. t[D \ {Pick(D)}] = s[D \ {Pick(D)}]
      BY <2>6, <3>1
    <3>3. CASE Cardinality(D) < m
      <4>1. Cardinality(D) <= m - 1
        BY <3>1, <3>3
      <4>2. s[D] = f[Pick(D)] + s[D \ {Pick(D)}]
        BY <2>2, <2>6, <4>1 DEF Sums
      <4>3. t[D] = s[D]
        BY <3>3
      <4> QED  BY <3>2, <4>2, <4>3
    <3>4. CASE ~(Cardinality(D) < m)
      <4>1. t[D] = f[Pick(D)] + s[D \ {Pick(D)}]
        BY <2>6, <3>4
      <4> QED  BY <3>2, <4>1
    <3> QED  BY <3>3, <3>4
  <2> HIDE DEF t
  <2>7. Sums(t, f, S, m)
    BY <2>5, <2>6 DEF Sums
  <2> QED  BY <1>0, <2>7
<1> QED  BY <1>2, <1>3

\* A total is built up from the empty set, one element at a time.
BuiltUp(s, f, S) ==
  /\ s \in [SUBSET S -> Int] /\ s[{}] = 0 /\ Total(f) = s[S]
  /\ \A D \in SUBSET S : D # {} => s[D] = f[Pick(D)] + s[D \ {Pick(D)}]

LEMMA TotalIs ==
  ASSUME NEW S, IsFiniteSet(S), NEW f \in [S -> Int]
  PROVE  \E s : BuiltUp(s, f, S)
<1>1. PICK s : Sums(s, f, S, Cardinality(S))
  BY FS_CardinalityType, SumsExist
<1>2. ASSUME NEW D \in SUBSET S, D # {} PROVE s[D] = f[Pick(D)] + s[D \ {Pick(D)}]
  <2>1. Cardinality(D) <= Cardinality(S)
    BY FS_Subset
  <2> QED  BY <1>1, <1>2, <2>1 DEF Sums
<1>3. s \in [SUBSET S -> Int] /\ s[{}] = 0
  BY <1>1 DEF Sums
<1>4. SumTable(s, f, S)
  <2> DEFINE e(D) == IF D = {} THEN 0 ELSE f[Pick(D)] + s[D \ {Pick(D)}]
  <2>1. \A D \in SUBSET S : s[D] = e(D)
    BY <1>2, <1>3
  <2> HIDE DEF e
  <2>2. s = [D \in SUBSET S |-> e(D)]
    BY <1>3, <2>1
  <2> QED  BY <2>2 DEF e, SumTable, Pick
<1> DEFINE t == CHOOSE u : SumTable(u, f, S)
<1>5. SumTable(t, f, S)
  BY <1>4, Zenon
<1>6. Total(f) = t[S]
  <2>1. DOMAIN f = S
    OBVIOUS
  <2> QED  BY <2>1 DEF Total, FoldFunction, FoldFunctionOnSet, MapThenFoldSet, SumTable
<1> HIDE DEF t
<1>7. ASSUME NEW D \in SUBSET S
      PROVE  t[D] = IF D = {} THEN 0 ELSE f[Pick(D)] + t[D \ {Pick(D)}]
  <2> DEFINE e(E) == IF E = {} THEN 0 ELSE f[Pick(E)] + t[E \ {Pick(E)}]
  <2>1. t = [E \in SUBSET S |-> e(E)]
    BY <1>5 DEF SumTable, Pick
  <2> HIDE DEF e
  <2>2. t[D] = e(D)
    BY <2>1
  <2> QED  BY <2>2 DEF e
<1>8. ASSUME NEW n \in Nat, NEW D \in SUBSET S, Cardinality(D) = n PROVE t[D] = s[D]
  <2> DEFINE M == {m \in Nat : \E E \in SUBSET S : Cardinality(E) = m /\ t[E] # s[E]}
  <2>1. ASSUME M # {} PROVE FALSE
    <3>1. PICK m \in M : \A l \in M : m <= l
      <4>1. M \subseteq Nat
        OBVIOUS
      <4> HIDE DEF M
      <4> QED  BY <2>1, <4>1, LeastNatural
    <3>2. PICK E \in SUBSET S : Cardinality(E) = m /\ t[E] # s[E]
      OBVIOUS
    <3>3. E # {}
      BY <1>3, <1>7, <3>2
    <3>4. IsFiniteSet(E) /\ Pick(E) \in E
      BY <3>3, PickIs, FS_Subset
    <3>5. /\ Cardinality(E \ {Pick(E)}) = m - 1 /\ m \in Nat /\ Cardinality(E \ {Pick(E)}) \in Nat
      BY <3>2, <3>4, FS_RemoveElement, FS_CardinalityType
    <3>6. E \ {Pick(E)} \in SUBSET S /\ m - 1 \notin M
      BY <3>1, <3>5
    <3>7. t[E \ {Pick(E)}] = s[E \ {Pick(E)}]
      BY <3>5, <3>6
    <3> QED  BY <1>2, <1>7, <3>2, <3>3, <3>7
  <2> QED  BY <1>8, <2>1
<1>9. t[S] = s[S]
  BY <1>8, FS_CardinalityType
<1> QED  BY <1>2, <1>3, <1>6, <1>9 DEF BuiltUp
\* A linear inequality that holds of every element holds of the totals.
AtEachPoint(f, g, h, a, b, c, e, S) ==
  \A x \in S : a * f[x] + b * g[x] + c * h[x] + e >= 0

LEMMA LinearTotals ==
  ASSUME NEW S, IsFiniteSet(S), NEW f \in [S -> Int], NEW g \in [S -> Int], NEW h \in [S -> Int],
         NEW a \in Int, NEW b \in Int, NEW c \in Int, NEW e \in Int,
         AtEachPoint(f, g, h, a, b, c, e, S)
  PROVE  /\ Total(f) \in Int /\ Total(g) \in Int /\ Total(h) \in Int
         /\ a * Total(f) + b * Total(g) + c * Total(h) + e * Cardinality(S) >= 0
<1>1. PICK s : BuiltUp(s, f, S)
  BY TotalIs
<1>2. PICK t : BuiltUp(t, g, S)
  BY TotalIs
<1>3. PICK u : BuiltUp(u, h, S)
  BY TotalIs
<1> DEFINE value(D) == a * s[D] + b * t[D] + c * u[D] + e * Cardinality(D)
           M == {m \in Nat : \E D \in SUBSET S : Cardinality(D) = m /\ ~(value(D) >= 0)}
<1>4. ASSUME M # {} PROVE FALSE
  <2>1. PICK m \in M : \A l \in M : m <= l
    <3>1. M \subseteq Nat
      OBVIOUS
    <3> HIDE DEF M
    <3> QED  BY <1>4, <3>1, LeastNatural
  <2>2. PICK D \in SUBSET S : Cardinality(D) = m /\ ~(value(D) >= 0)
    OBVIOUS
  <2>3. D # {}
    <3>1. Cardinality({}) = 0
      BY FS_EmptySet
    <3>2. value({}) = 0
      BY <1>1, <1>2, <1>3, <3>1 DEF BuiltUp
    <3> HIDE DEF value
    <3> QED  BY <2>2, <3>2
  <2> DEFINE p == Pick(D)
             E == D \ {p}
  <2>4. /\ p \in S /\ E \in SUBSET S /\ Cardinality(E) \in Nat
        /\ Cardinality(D) = Cardinality(E) + 1
    <3>1. p \in D /\ IsFiniteSet(D)
      BY <2>3, PickIs, FS_Subset
    <3>2. IsFiniteSet(E) /\ Cardinality(E) = Cardinality(D) - 1
      BY <3>1, FS_RemoveElement
    <3>3. Cardinality(D) \in Nat /\ Cardinality(E) \in Nat
      BY <3>1, <3>2, FS_CardinalityType
    <3> QED  BY <3>1, <3>2, <3>3
  <2>5. /\ s[D] = f[p] + s[E] /\ t[D] = g[p] + t[E] /\ u[D] = h[p] + u[E]
    BY <1>1, <1>2, <1>3, <2>3 DEF BuiltUp
  <2>6. a * f[p] + b * g[p] + c * h[p] + e >= 0
    BY <2>4 DEF AtEachPoint
  <2>7. value(E) >= 0
    <3>1. Cardinality(E) \notin M
      <4>1. ~(m <= Cardinality(E))
        BY <2>2, <2>4
      <4> HIDE DEF M, E
      <4> QED  BY <2>1, <4>1
    <3> HIDE DEF value
    <3> QED  BY <2>4, <3>1
  <2>8. /\ f[p] \in Int /\ g[p] \in Int /\ h[p] \in Int
        /\ s[E] \in Int /\ t[E] \in Int /\ u[E] \in Int
    BY <1>1, <1>2, <1>3, <2>4 DEF BuiltUp
  <2> HIDE DEF p, E
  <2>9. \A F, G, H, FE, GE, HE, n \in Int :
           /\ a * F + b * G + c * H + e >= 0
           /\ a * FE + b * GE + c * HE + e * n >= 0
           => a * (F + FE) + b * (G + GE) + c * (H + HE) + e * (n + 1) >= 0
    OBVIOUS
  <2>10. a * (f[p] + s[E]) + b * (g[p] + t[E]) + c * (h[p] + u[E]) + e * (Cardinality(E) + 1) >= 0
    BY <2>4, <2>6, <2>7, <2>8, <2>9
  <2> QED  BY <2>2, <2>4, <2>5, <2>10
<1>5. value(S) >= 0
  BY <1>4, FS_CardinalityType
<1>6. /\ Total(f) = s[S] /\ Total(g) = t[S] /\ Total(h) = u[S]
      /\ s[S] \in Int /\ t[S] \in Int /\ u[S] \in Int
  BY <1>1, <1>2, <1>3 DEF BuiltUp
<1> QED  BY <1>5, <1>6

\* The k-th of the values splits them.
LEMMA RankedIs ==
  ASSUME NEW S, IsFiniteSet(S), NEW f \in [S -> Nat], NEW k \in 1 .. Cardinality(S)
  PROVE  LET v == Ranked(f, k) IN
         /\ v \in Nat /\ \E x \in S : v = f[x]
         /\ Cardinality({x \in S : f[x] < v}) < k
         /\ k <= Cardinality({x \in S : f[x] <= v})
<1> DEFINE upTo(w) == {x \in S : f[x] <= w}
           n == Cardinality(S)
<1>1. n \in Nat /\ 1 <= k /\ k <= n /\ k \in Nat
  BY FS_CardinalityType
<1>2. \A w : /\ IsFiniteSet(upTo(w)) /\ Cardinality(upTo(w)) \in Nat /\ Cardinality(upTo(w)) <= n
  <2> TAKE w
  <2>1. upTo(w) \in SUBSET S
    OBVIOUS
  <2> HIDE DEF upTo
  <2> QED  BY <2>1, FS_Subset, FS_CardinalityType
<1>3. PICK top \in S : \A y \in S : f[y] <= f[top]
  <2> DEFINE Left == {n - Cardinality(upTo(f[x])) : x \in S}
  <2>1. S # {}
    BY <1>1, FS_EmptySet
  <2>2. Left \subseteq Nat /\ Left # {}
    <3> HIDE DEF upTo, n
    <3> QED  BY <1>1, <1>2, <2>1
  <2>3. PICK l \in Left : \A m \in Left : l <= m
    <3> HIDE DEF Left
    <3> QED  BY <2>2, LeastNatural
  <2>4. PICK x \in S : l = n - Cardinality(upTo(f[x]))
    OBVIOUS
  <2>5. ASSUME NEW y \in S, ~(f[y] <= f[x]) PROVE FALSE
    <3>1. /\ upTo(f[x]) \subseteq upTo(f[y]) /\ y \in upTo(f[y]) /\ y \notin upTo(f[x])
      BY <2>5
    <3>2. Cardinality(upTo(f[x])) <= Cardinality(upTo(f[y]))
          /\ Cardinality(upTo(f[x])) # Cardinality(upTo(f[y]))
      <4> HIDE DEF upTo
      <4> QED  BY <1>2, <3>1, FS_Subset
    <3>3. l <= n - Cardinality(upTo(f[y]))
      BY <2>3
    <3> HIDE DEF upTo, n, Left
    <3> QED  BY <1>1, <1>2, <2>4, <3>2, <3>3
  <2> QED  BY <2>5
<1> DEFINE V == {v \in Nat : (\E x \in S : v = f[x]) /\ k <= Cardinality(upTo(v))}
<1>4. f[top] \in V
  <2>1. upTo(f[top]) = S
    BY <1>3
  <2> QED  BY <1>1, <2>1
<1>5. PICK v \in V : \A w \in V : v <= w
  <2>1. V \subseteq Nat
    OBVIOUS
  <2> HIDE DEF V
  <2> QED  BY <1>4, <2>1, LeastNatural
<1>6. Cardinality({x \in S : f[x] < v}) < k
  <2> DEFINE D == {x \in S : f[x] < v}
  <2>0. IsFiniteSet(D) /\ Cardinality(D) \in Nat
    <3>1. D \in SUBSET S
      OBVIOUS
    <3> HIDE DEF D
    <3> QED  BY <3>1, FS_Subset, FS_CardinalityType
  <2> SUFFICES ASSUME ~(Cardinality(D) < k) PROVE FALSE
    OBVIOUS
  <2>1. D # {}
    <3> HIDE DEF D
    <3> QED  BY <1>1, <2>0, FS_EmptySet
  <2> DEFINE Gap == {v - f[x] : x \in D}
  <2>2. v \in Nat
    OBVIOUS
  <2>3. Gap \subseteq Nat /\ Gap # {}
    BY <2>1, <2>2
  <2>4. PICK l \in Gap : \A m \in Gap : l <= m
    <3> HIDE DEF Gap
    <3> QED  BY <2>3, LeastNatural
  <2>5. PICK x \in D : l = v - f[x]
    OBVIOUS
  <2>6. D \subseteq upTo(f[x])
    <3> SUFFICES ASSUME NEW y \in D PROVE f[y] <= f[x]
      OBVIOUS
    <3>1. l <= v - f[y]
      BY <2>4
    <3>2. f[y] \in Nat /\ f[x] \in Nat
      OBVIOUS
    <3> QED  BY <2>2, <2>5, <3>1, <3>2
  <2>7. Cardinality(D) <= Cardinality(upTo(f[x]))
    <3> HIDE DEF D, upTo
    <3> QED  BY <1>2, <2>6, FS_Subset
  <2>8. f[x] \in V
    <3>1. x \in S /\ f[x] \in Nat
      OBVIOUS
    <3>2. k <= Cardinality(upTo(f[x]))
      <4> HIDE DEF D, upTo
      <4> QED  BY <1>1, <1>2, <2>0, <2>7
    <3> QED  BY <3>1, <3>2
  <2>9. f[x] < v /\ f[x] \in Nat
    OBVIOUS
  <2> HIDE DEF V, D
  <2> QED  BY <1>5, <2>2, <2>8, <2>9
<1> DEFINE P(w) == /\ Cardinality({x \in DOMAIN f : f[x] < w}) < k
                   /\ k <= Cardinality({x \in DOMAIN f : f[x] <= w})
<1>7. v \in Range(f) /\ P(v)
  <2>1. DOMAIN f = S
    OBVIOUS
  <2> QED  BY <1>6, <2>1 DEF Range
<1>8. Ranked(f, k) = CHOOSE w \in Range(f) : P(w)
  BY DEF Ranked
<1> HIDE DEF P
<1>9. Ranked(f, k) \in Range(f) /\ P(Ranked(f, k))
  BY <1>7, <1>8, Zenon
<1> QED  BY <1>9 DEF Range, P
LEMMA DivIs ==
  ASSUME NEW a \in Int, NEW n \in Nat \ {0}
  PROVE  a \div n \in Int /\ n * (a \div n) <= a /\ a < n * (a \div n) + n
  OBVIOUS

\* A rounded mean lies between the bounds of what it is the mean of.
LEMMA MeanIs ==
  ASSUME NEW t \in Int, NEW n \in Nat \ {0}, NEW lo \in Int, NEW hi \in Int,
         lo * n <= t, t <= hi * n
  PROVE  lo <= (t + n \div 2) \div n /\ (t + n \div 2) \div n <= hi
<1> DEFINE q == (t + n \div 2) \div n
<1>1. n \div 2 \in Int /\ 0 <= n \div 2 /\ n \div 2 < n
  OBVIOUS
<1>2. q \in Int /\ n * q <= t + n \div 2 /\ t + n \div 2 < n * q + n
  BY <1>1, DivIs
<1> HIDE DEF q
<1>3. n * q < hi * n + n /\ lo * n < n * q + n
  BY <1>1, <1>2
<1>4. \A x, y \in Int : n * x < n * y => x < y
  OBVIOUS
<1>5. n * q < n * (hi + 1) /\ n * lo < n * (q + 1)
  BY <1>2, <1>3
<1>6. q < hi + 1 /\ lo < q + 1
  BY <1>2, <1>4, <1>5
<1> QED  BY <1>2, <1>6 DEF q

\* Half a cent at most is lost by rounding, below zero as above.
LEMMA RoundedDivIs ==
  ASSUME NEW t \in Int, NEW n \in Nat \ {0}
  PROVE  /\ RoundedDiv(t, n) \in Int
         /\ t >= 0 => RoundedDiv(t, n) >= 0
         /\ -n <= 2 * (n * RoundedDiv(t, n) - t) /\ 2 * (n * RoundedDiv(t, n) - t) <= n
<1>1. ASSUME NEW a \in Int
      PROVE  LET q == (a + n \div 2) \div n
             IN q \in Int /\ -n <= 2 * (n * q - a) /\ 2 * (n * q - a) <= n
  <2> DEFINE q == (a + n \div 2) \div n
  <2>1. n \div 2 \in Int /\ 2 * (n \div 2) <= n /\ n <= 2 * (n \div 2) + 1
    OBVIOUS
  <2>2. q \in Int /\ n * q <= a + n \div 2 /\ a + n \div 2 < n * q + n
    BY <2>1, DivIs
  <2> DEFINE p == n * q
  <2>3. p \in Int
    BY <2>2
  <2> HIDE DEF q, p
  <2>4. p <= a + n \div 2 /\ a + n \div 2 + 1 <= p + n
    BY <2>1, <2>2, <2>3 DEF p
  <2>5. -n <= 2 * (p - a) /\ 2 * (p - a) <= n
    BY <2>1, <2>3, <2>4
  <2> QED  BY <2>2, <2>5 DEF p, q
<1>2. CASE t >= 0
  <2>1. (t + n \div 2) \div n >= 0
    BY <1>2, MeanIs
  <2> QED  BY <1>1, <1>2, <2>1 DEF RoundedDiv
<1>3. CASE ~(t >= 0)
  <2> DEFINE q == (-t + n \div 2) \div n
  <2>1. q \in Int /\ -n <= 2 * (n * q - (-t)) /\ 2 * (n * q - (-t)) <= n
    BY <1>1
  <2>2. RoundedDiv(t, n) = -q
    BY <1>3 DEF RoundedDiv
  <2> HIDE DEF q
  <2> DEFINE p == n * q
  <2>3. p \in Int /\ n * (-q) = -p
    BY <2>1
  <2>4. -n <= 2 * (p + t) /\ 2 * (p + t) <= n
    BY <2>1, <2>3
  <2> HIDE DEF p
  <2>5. -n <= 2 * ((-p) - t) /\ 2 * ((-p) - t) <= n
    BY <2>3, <2>4
  <2> QED  BY <1>3, <2>1, <2>2, <2>3, <2>5
<1> QED  BY <1>2, <1>3

\* The smallest and the largest value.
LEMMA Extremes ==
  ASSUME NEW S, IsFiniteSet(S), S # {}, NEW f \in [S -> Nat]
  PROVE  \E l, h \in S : \A x \in S : f[l] <= f[x] /\ f[x] <= f[h]
<1> DEFINE n == Cardinality(S)
<1>1. n \in Nat /\ n # 0 /\ 1 \in 1 .. n /\ n \in 1 .. n
  BY FS_CardinalityType, FS_EmptySet
<1> DEFINE v == Ranked(f, 1)
           w == Ranked(f, n)
<1>2. v \in Nat /\ (\E x \in S : v = f[x]) /\ Cardinality({x \in S : f[x] < v}) < 1
  <2>1. 1 \in 1 .. Cardinality(S)
    BY <1>1
  <2> QED  BY <2>1, RankedIs
<1>3. w \in Nat /\ (\E x \in S : w = f[x]) /\ n <= Cardinality({x \in S : f[x] <= w})
  <2>1. n \in 1 .. Cardinality(S)
    BY <1>1
  <2> QED  BY <2>1, RankedIs
<1> HIDE DEF v, w
<1>4. {x \in S : f[x] < v} = {}
  <2> DEFINE D == {x \in S : f[x] < v}
  <2>1. IsFiniteSet(D)
    <3>1. D \in SUBSET S
      OBVIOUS
    <3> HIDE DEF D
    <3> QED  BY <3>1, FS_Subset
  <2>2. Cardinality(D) < 1
    BY <1>2
  <2> HIDE DEF D
  <2>3. Cardinality(D) = 0
    BY <2>1, <2>2, FS_CardinalityType
  <2>4. D = {}
    BY <2>1, <2>3, FS_EmptySet
  <2> QED  BY <2>4 DEF D
<1>5. {x \in S : f[x] <= w} = S
  <2> DEFINE D == {x \in S : f[x] <= w}
  <2>1. D \in SUBSET S /\ n <= Cardinality(D)
    BY <1>3
  <2> HIDE DEF D
  <2>2. Cardinality(D) <= n /\ Cardinality(D) \in Nat
    BY <2>1, FS_Subset, FS_CardinalityType
  <2>3. Cardinality(S) = Cardinality(D)
    BY <1>1, <2>1, <2>2
  <2>4. D = S
    BY <2>1, <2>3, FS_Subset
  <2> QED  BY <2>4 DEF D
<1>6. PICK l, h \in S : v = f[l] /\ w = f[h]
  BY <1>2, <1>3
<1>7. ASSUME NEW x \in S PROVE f[l] <= f[x] /\ f[x] <= f[h]
  <2>1. f[x] \in Nat /\ ~(f[x] < v) /\ f[x] <= w
    BY <1>4, <1>5
  <2> QED  BY <1>2, <1>6, <2>1
<1> QED  BY <1>7

AllBetween(f, lo, hi, S) == \A x \in S : lo <= f[x] /\ f[x] <= hi

\* A total lies between the bounds of its terms, times their number.
LEMMA TotalBetween ==
  ASSUME NEW S, IsFiniteSet(S), NEW f \in [S -> Int], NEW lo \in Int, NEW hi \in Int,
         AllBetween(f, lo, hi, S)
  PROVE  /\ Total(f) \in Int
         /\ lo * Cardinality(S) <= Total(f) /\ Total(f) <= hi * Cardinality(S)
<1> DEFINE n == Cardinality(S)
           less == -lo
<1>0. n \in Nat /\ less \in Int
  BY FS_CardinalityType
<1>1. \A x \in S : f[x] \in Int /\ lo <= f[x] /\ f[x] <= hi
  BY DEF AllBetween
<1>2. \A y \in Int : /\ lo <= y => 1 * y + 0 * y + 0 * y + less >= 0
                     /\ y <= hi => -1 * y + 0 * y + 0 * y + hi >= 0
  OBVIOUS
<1> HIDE DEF less, n
<1>3. AtEachPoint(f, f, f, 1, 0, 0, less, S) /\ AtEachPoint(f, f, f, -1, 0, 0, hi, S)
  BY <1>1, <1>2 DEF AtEachPoint
<1>4. Total(f) \in Int /\ 1 * Total(f) + 0 * Total(f) + 0 * Total(f) + less * n >= 0
  BY <1>0, <1>3, LinearTotals DEF n
<1>5. -1 * Total(f) + 0 * Total(f) + 0 * Total(f) + hi * n >= 0
  BY <1>3, LinearTotals DEF n
<1>6. lo * n \in Int /\ hi * n \in Int /\ less * n = -(lo * n)
  BY <1>0 DEF less
<1> QED  BY <1>4, <1>5, <1>6 DEF n
-----------------------------------------------------------------------------
(* The evidence: history, policy and items are fixed from the start. *)

EvidenceOK == history \in Histories /\ policy \in Policies /\ items \in ItemLists

LEMMA EvidenceIs ==
  ASSUME EvidenceOK
  PROVE  /\ \A s \in Services : \A m \in Billed(s) : history[<<m, s>>] \in Nat
         /\ \A s \in Services : IsFiniteSet(Billed(s)) /\ Billed(s) \subseteq 1 .. Window
         /\ policy \in Policy /\ items \in Seq(Item)
<1>1. /\ history \in [(1 .. Window) \X Services -> Nat \cup {None}]
      /\ policy \in Policy /\ items \in Seq(Item) /\ Window \in Nat
  BY EconomicsAssumption DEF EvidenceOK
<1>2. ASSUME NEW s \in Services PROVE IsFiniteSet(Billed(s)) /\ Billed(s) \subseteq 1 .. Window
  <2>1. Billed(s) \in SUBSET (1 .. Window)
    BY DEF Billed
  <2>2. IsFiniteSet(1 .. Window)
    BY <1>1, FS_Interval
  <2> QED  BY <2>1, <2>2, FS_Subset
<1>3. ASSUME NEW s \in Services, NEW m \in Billed(s) PROVE history[<<m, s>>] \in Nat
  BY <1>1 DEF Billed
<1> QED  BY <1>1, <1>2, <1>3

\* An average is between the smallest and the largest of what is averaged.
LEMMA AverageIs ==
  ASSUME EvidenceOK, NEW s \in Services, NEW M \in SUBSET Billed(s), M # {}
  PROVE  /\ Average(M, s) \in Nat
         /\ \E l, h \in M : history[<<l, s>>] <= Average(M, s) /\ Average(M, s) <= history[<<h, s>>]
<1> DEFINE f == [m \in M |-> history[<<m, s>>]]
           n == Cardinality(M)
<1>1. f \in [M -> Nat] /\ IsFiniteSet(M)
  BY EvidenceIs, FS_Subset
<1>2. n \in Nat \ {0}
  BY <1>1, FS_CardinalityType, FS_EmptySet
<1>3. PICK l, h \in M : \A x \in M : f[l] <= f[x] /\ f[x] <= f[h]
  <2> HIDE DEF f
  <2> QED  BY <1>1, Extremes
<1> HIDE DEF f, n
<1>4. f[l] \in Nat /\ f[h] \in Nat /\ f \in [M -> Int]
  BY <1>1
<1>8. Total(f) \in Int /\ f[l] * n <= Total(f) /\ Total(f) <= f[h] * n
  <2>1. f[l] \in Int /\ f[h] \in Int
    BY <1>4
  <2>2. AllBetween(f, f[l], f[h], M)
    BY <1>3 DEF AllBetween
  <2> QED  BY <1>1, <1>4, <2>1, <2>2, TotalBetween DEF n
<1>9. Average(M, s) = (Total(f) + n \div 2) \div n
  BY DEF Average, f, n
<1>10. Average(M, s) \in Int
  <2>1. Total(f) + n \div 2 \in Int
    BY <1>2, <1>8
  <2> QED  BY <1>2, <1>9, <2>1, DivIs
<1>11. f[l] <= Average(M, s) /\ Average(M, s) <= f[h]
  BY <1>2, <1>4, <1>8, <1>9, MeanIs
<1>12. f[l] = history[<<l, s>>] /\ f[h] = history[<<h, s>>]
  BY DEF f
<1>13. /\ Average(M, s) \in Nat /\ history[<<l, s>>] <= Average(M, s)
       /\ Average(M, s) <= history[<<h, s>>]
  BY <1>4, <1>10, <1>11, <1>12
<1> QED  BY <1>13

ForecastOK == forecast # None => forecast = [points |-> ForecastPoints, warnings |-> Warnings]

LEMMA BasisIs ==
  ASSUME NEW s, NEW m, Billed(s) # {}
  PROVE  Basis(s, m) \in SUBSET Billed(s) /\ Basis(s, m) # {}
<1> DEFINE seasonal == {x \in Billed(s) : x % YearLength = m % YearLength}
<1>1. Basis(s, m) = IF seasonal # {} THEN seasonal ELSE Billed(s)
  BY DEF Basis
<1>2. seasonal \in SUBSET Billed(s)
  OBVIOUS
<1> HIDE DEF seasonal
<1> QED  BY <1>1, <1>2

\* What a point is.
LEMMA PointsAre ==
  ASSUME EvidenceOK
  PROVE  /\ \A p \in ForecastPoints :
              /\ p.service \in Services /\ Billed(p.service) # {} /\ p.month \in ForecastMonths
              /\ p.cost = Average(Basis(p.service, p.month), p.service) /\ p.cost \in Nat
              /\ p = [service |-> p.service, month |-> p.month, cost |-> p.cost]
              /\ \E l, h \in Billed(p.service) :
                   history[<<l, p.service>>] <= p.cost /\ p.cost <= history[<<h, p.service>>]
         /\ \A s \in Services, m \in ForecastMonths : Billed(s) # {} =>
              [service |-> s, month |-> m, cost |-> Average(Basis(s, m), s)] \in ForecastPoints
<1>1. ASSUME NEW p \in ForecastPoints
      PROVE  /\ p.service \in Services /\ Billed(p.service) # {} /\ p.month \in ForecastMonths
             /\ p.cost = Average(Basis(p.service, p.month), p.service)
             /\ p = [service |-> p.service, month |-> p.month, cost |-> p.cost]
  <2>1. PICK s \in {s \in Services : Billed(s) # {}}, m \in ForecastMonths :
          p = [service |-> s, month |-> m, cost |-> Average(Basis(s, m), s)]
    BY DEF ForecastPoints
  <2> DEFINE c == Average(Basis(s, m), s)
  <2>2. s \in Services /\ Billed(s) # {}
    OBVIOUS
  <2>3. c = Average(Basis(s, m), s)
    OBVIOUS
  <2> HIDE DEF c
  <2>4. p = [service |-> s, month |-> m, cost |-> c]
    BY <2>1, <2>3
  <2>5. p.service = s /\ p.month = m /\ p.cost = c
    BY <2>4
  <2> QED  BY <2>2, <2>3, <2>4, <2>5
<1>2. ASSUME NEW p \in ForecastPoints
      PROVE  p.cost \in Nat /\ \E l, h \in Billed(p.service) :
               history[<<l, p.service>>] <= p.cost /\ p.cost <= history[<<h, p.service>>]
  <2> DEFINE s == p.service
             M == Basis(p.service, p.month)
  <2>1. s \in Services /\ Billed(s) # {} /\ p.cost = Average(M, s)
    BY <1>1
  <2>2. M \in SUBSET Billed(s) /\ M # {}
    BY <2>1, BasisIs
  <2> HIDE DEF s, M
  <2>3. /\ Average(M, s) \in Nat
        /\ \E l, h \in M : history[<<l, s>>] <= Average(M, s) /\ Average(M, s) <= history[<<h, s>>]
    BY <2>1, <2>2, AverageIs
  <2>4. \E l, h \in Billed(s) : history[<<l, s>>] <= p.cost /\ p.cost <= history[<<h, s>>]
    BY <2>1, <2>2, <2>3
  <2> QED  BY <2>1, <2>3, <2>4 DEF s
<1>3. ASSUME NEW s \in Services, NEW m \in ForecastMonths, Billed(s) # {}
      PROVE  [service |-> s, month |-> m, cost |-> Average(Basis(s, m), s)] \in ForecastPoints
  BY <1>3 DEF ForecastPoints
<1> QED  BY <1>1, <1>2, <1>3

\* One point for each billed service and month.
LEMMA PointsAreCounted ==
  ASSUME EvidenceOK
  PROVE  LET D == {s \in Services : Billed(s) # {}} IN
         /\ IsFiniteSet(ForecastPoints)
         /\ {<<p.service, p.month>> : p \in ForecastPoints} = D \X ForecastMonths
         /\ Cardinality(ForecastPoints) = Horizon * Cardinality(D)
<1> DEFINE D == {s \in Services : Billed(s) # {}}
           at(s, m) == [service |-> s, month |-> m, cost |-> Average(Basis(s, m), s)]
           pair == [p \in ForecastPoints |-> <<p.service, p.month>>]
<1>1. IsFiniteSet(D) /\ Cardinality(D) \in Nat
  <2>1. D \in SUBSET Services
    OBVIOUS
  <2> HIDE DEF D
  <2> QED  BY <2>1, EconomicsAssumption, FS_Subset, FS_CardinalityType
<1>2. IsFiniteSet(ForecastMonths) /\ Cardinality(ForecastMonths) = Horizon /\ Horizon \in Nat
  <2>1. Window \in Nat /\ Horizon \in Nat
    BY EconomicsAssumption
  <2>2. /\ IsFiniteSet(Window + 1 .. Window + Horizon)
        /\ Cardinality(Window + 1 .. Window + Horizon)
             = IF Window + 1 > Window + Horizon THEN 0 ELSE Window + Horizon - (Window + 1) + 1
    BY <2>1, FS_Interval
  <2> QED  BY <2>1, <2>2 DEF ForecastMonths
<1>3. ASSUME NEW p \in ForecastPoints PROVE p.service \in D /\ p.month \in ForecastMonths
  BY PointsAre
<1>4. ASSUME NEW s \in D, NEW m \in ForecastMonths
      PROVE  \E p \in ForecastPoints : p.service = s /\ p.month = m
  <2> DEFINE c == Average(Basis(s, m), s)
  <2>1. [service |-> s, month |-> m, cost |-> c] \in ForecastPoints
    BY PointsAre
  <2> HIDE DEF c
  <2> QED  BY <2>1
<1>5. ASSUME NEW p \in ForecastPoints, NEW q \in ForecastPoints,
             p.service = q.service, p.month = q.month
      PROVE  p = q
  <2>1. p.cost = q.cost
    BY <1>5, PointsAre
  <2>2. /\ p = [service |-> p.service, month |-> p.month, cost |-> p.cost]
        /\ q = [service |-> q.service, month |-> q.month, cost |-> q.cost]
    BY PointsAre
  <2> QED  BY <1>5, <2>1, <2>2
<1> HIDE DEF D
<1>6. {<<p.service, p.month>> : p \in ForecastPoints} = D \X ForecastMonths
  BY <1>3, <1>4
<1>7. pair \in Bijection(ForecastPoints, D \X ForecastMonths)
  <2>1. pair \in [ForecastPoints -> D \X ForecastMonths]
    BY <1>3
  <2>2. \A p, q \in ForecastPoints : pair[p] = pair[q] => p = q
    BY <1>5
  <2>3. \A x \in D \X ForecastMonths : \E p \in ForecastPoints : pair[p] = x
    BY <1>4
  <2> HIDE DEF pair
  <2> QED  BY <2>1, <2>2, <2>3 DEF Bijection, Injection, Surjection, IsInjective
<1>8. IsFiniteSet(D \X ForecastMonths)
      /\ Cardinality(D \X ForecastMonths) = Cardinality(D) * Cardinality(ForecastMonths)
  BY <1>1, <1>2, FS_Product
<1>9. IsFiniteSet(ForecastPoints) /\ Cardinality(ForecastPoints) = Cardinality(D \X ForecastMonths)
  <2>1. IsFiniteSet(ForecastPoints)
    BY <1>7, <1>8, FS_Injection DEF Bijection
  <2> QED  BY <1>7, <2>1, FS_Bijection DEF ExistsBijection
<1>10. Cardinality(D) * Cardinality(ForecastMonths) = Horizon * Cardinality(D)
  BY <1>1, <1>2
<1> QED  BY <1>6, <1>8, <1>9, <1>10 DEF D

\* The forecast has a point for every billed service and month, within what was billed.
LEMMA ForecastIsFromHistory ==
  ASSUME EvidenceOK, ForecastOK
  PROVE  ForecastFromHistory
<1> SUFFICES ASSUME forecast # None PROVE ForecastFromHistory
  BY DEF ForecastFromHistory
<1>1. forecast.points = ForecastPoints
  BY DEF ForecastOK
<1> QED  BY <1>1, PointsAre, PointsAreCounted DEF ForecastFromHistory, ForecastMonths
-----------------------------------------------------------------------------
(* What is computed for an item. *)

\* The place of the percentile among n values in increasing order.
Place(pct, n) == Larger(1, (pct * n + 99) \div 100)

LEMMA PlaceIs ==
  ASSUME NEW n \in Nat \ {0}
  PROVE  /\ Place(50, n) \in 1 .. n /\ Place(95, n) \in 1 .. n
         /\ Place(50, n) <= Place(95, n) /\ 20 * (n - Place(95, n)) <= n
  BY DEF Place, Larger

\* Where f is below v, and where it is at most v.
Below(f, v) == {x \in DOMAIN f : f[x] < v}
UpTo(f, v) == {x \in DOMAIN f : f[x] <= v}

\* At least so many values are at most the percentile, and fewer are below it.
LEMMA PercentileIs ==
  ASSUME NEW S, IsFiniteSet(S), S # {}, NEW f \in [S -> Nat], NEW pct \in {50, 95}
  PROVE  LET v == Percentile(f, pct)
             k == Place(pct, Cardinality(S))
         IN /\ v \in Nat /\ \E x \in S : v = f[x]
            /\ k \in 1 .. Cardinality(S)
            /\ Cardinality(Below(f, v)) < k
            /\ k <= Cardinality(UpTo(f, v))
<1>1. Cardinality(S) \in Nat \ {0}
  BY FS_CardinalityType, FS_EmptySet
<1>2. Place(pct, Cardinality(S)) \in 1 .. Cardinality(S)
  BY <1>1, PlaceIs
<1>3. Percentile(f, pct) = Ranked(f, Place(pct, Cardinality(S)))
  BY DEF Percentile, Place
<1> DEFINE v == Percentile(f, pct)
<1>4. /\ v \in Nat /\ \E x \in S : v = f[x]
      /\ Cardinality({x \in S : f[x] < v}) < Place(pct, Cardinality(S))
      /\ Place(pct, Cardinality(S)) <= Cardinality({x \in S : f[x] <= v})
  BY <1>2, <1>3, RankedIs
<1> HIDE DEF v
<1>5. Below(f, v) = {x \in S : f[x] < v} /\ UpTo(f, v) = {x \in S : f[x] <= v}
  BY DEF Below, UpTo
<1>6. /\ Cardinality(Below(f, v)) < Place(pct, Cardinality(S))
      /\ Place(pct, Cardinality(S)) <= Cardinality(UpTo(f, v))
  BY <1>4, <1>5
<1> QED  BY <1>2, <1>4, <1>6 DEF v

\* A commitment that exceeds the cost is used in part, any other in full.
LEMMA UtilizationIs ==
  ASSUME NEW cost \in Nat, NEW c \in Nat
  PROVE  /\ Utilization(cost, c) \in 0 .. Bps
         /\ c = 0 => Utilization(cost, c) = 0
         /\ c # 0 /\ c <= cost => Utilization(cost, c) = Bps
         /\ c # 0 /\ cost < c => Utilization(cost, c) < Bps
<1>1. Bps \in Nat \ {0}
  BY EconomicsAssumption
<1>2. CASE c = 0
  BY <1>1, <1>2 DEF Utilization
<1>3. CASE c # 0
  <2> DEFINE m == Smaller(cost, c)
             q == (m * Bps) \div c
  <2>1. m \in Nat /\ m <= c /\ (c <= cost => m = c) /\ (cost < c => m < c)
    BY DEF Smaller
  <2>2. m * Bps \in Nat
    BY <1>1, <2>1
  <2>3. q \in Int /\ c * q <= m * Bps /\ m * Bps < c * q + c
    <3> DEFINE a == m * Bps
    <3>1. a \in Int /\ c \in Nat \ {0}
      BY <1>3, <2>2
    <3>2. q = a \div c
      OBVIOUS
    <3> HIDE DEF a, q
    <3>3. q \in Int /\ c * q <= a /\ a < c * q + c
      BY <3>1, <3>2, DivIs
    <3> QED  BY <3>3 DEF a
  <2>4. Utilization(cost, c) = q
    BY <1>3 DEF Utilization
  <2> HIDE DEF m, q
  <2>5. \A x, y \in Int : c * x < c * y => x < y
    BY <1>3
  <2>6. m * Bps <= c * Bps /\ (m < c => m * Bps < c * Bps)
    BY <1>1, <2>1
  <2>7. c * q < c * (Bps + 1) /\ c * (-1) < c * q
    <3>1. c * q \in Int /\ c * Bps \in Int /\ c * (Bps + 1) = c * Bps + c /\ c * (-1) = -c
      BY <1>1, <2>3
    <3> QED  BY <1>3, <2>2, <2>3, <2>6, <3>1
  <2>8. q < Bps + 1 /\ -1 < q
    BY <1>1, <2>3, <2>5, <2>7
  <2>9. CASE c <= cost
    <3>1. c * Bps < c * (q + 1)
      <4>1. c * (q + 1) = c * q + c
        BY <2>3
      <4> QED  BY <2>1, <2>3, <2>9, <4>1
    <3>2. Bps < q + 1
      BY <1>1, <2>3, <2>5, <3>1
    <3> QED  BY <1>1, <1>3, <2>3, <2>4, <2>8, <2>9, <3>2
  <2>10. CASE cost < c
    <3>1. c * q < c * Bps
      <4>1. c * q \in Int /\ c * Bps \in Int
        BY <1>1, <2>3
      <4> QED  BY <2>1, <2>2, <2>3, <2>6, <2>10, <4>1
    <3>2. q < Bps
      BY <1>1, <2>3, <2>5, <3>1
    <3> QED  BY <1>1, <1>3, <2>3, <2>4, <2>8, <2>10, <3>2
  <2> QED  BY <2>9, <2>10
<1> QED  BY <1>2, <1>3

LEMMA NetIs ==
  ASSUME EvidenceOK, NEW cost \in Nat, NEW c \in Nat, NEW item \in Item
  PROVE  Net(cost, c, item) \in Int
<1>1. /\ item.hourly \in Nat /\ item.term \in Nat \ {0} /\ item.upfront \in Nat
      /\ HoursPerMonth \in Nat /\ Bps \in Nat \ {0}
  BY EconomicsAssumption DEF Item
<1>2. policy.liquidity \in Nat
  BY EvidenceIs DEF Policy
<1>3. item.hourly * HoursPerMonth \in Int
  BY <1>1
<1>4. /\ RoundedDiv(item.upfront, item.term) \in Int
      /\ RoundedDiv(item.upfront * policy.liquidity, Bps) \in Int
  <2> DEFINE u == item.upfront * policy.liquidity
  <2>1. u \in Int /\ item.upfront \in Int
    BY <1>1, <1>2
  <2> HIDE DEF u
  <2>2. RoundedDiv(item.upfront, item.term) \in Int
    BY <1>1, <2>1, RoundedDivIs
  <2>3. RoundedDiv(u, Bps) \in Int
    BY <1>1, <2>1, RoundedDivIs
  <2> QED  BY <2>2, <2>3 DEF u
<1>5. Larger(0, c - cost) \in Int
  BY DEF Larger
<1> QED  BY <1>3, <1>4, <1>5 DEF Net

\* The parts of a candidate, as Evaluate has them.
Costs(item) == [p \in PointsForItem(item) |-> p.cost]
Nets(item) ==
  [p \in DOMAIN Costs(item) |-> Net(Costs(item)[p], Commitment(Costs(item)), item)]
Losses(item) == [p \in DOMAIN Nets(item) |-> Larger(0, -Nets(item)[p])]
Used(item) ==
  [p \in DOMAIN Costs(item) |-> Utilization(Costs(item)[p], Commitment(Costs(item)))]
Expected(item) == RoundedDiv(Total(Nets(item)), Cardinality(DOMAIN Nets(item)))

LEMMA EvaluateIs ==
  ASSUME NEW item
  PROVE  LET downside == Percentile(Losses(item), 95)
             used == Percentile(Used(item), 50)
         IN Evaluate(item) =
              [item |-> item, commitment |-> Commitment(Costs(item)),
               savings |-> Larger(0, Expected(item)), downside |-> downside,
               usedP50 |-> used, usedP95 |-> Percentile(Used(item), 95),
               band |-> RiskBand(downside),
               binding |-> BindingConstraints(Expected(item), downside, Bps - used)]
  BY DEF Evaluate, Costs, Nets, Losses, Used, Expected

LEMMA PartsAre ==
  ASSUME EvidenceOK, ForecastOK, forecast # None, NEW item \in Item, PointsForItem(item) # {}
  PROVE  LET P == PointsForItem(item)
             c == Commitment(Costs(item))
         IN /\ IsFiniteSet(P) /\ Cardinality(P) \in Nat \ {0}
            /\ \A p \in P : p.cost \in Nat
            /\ Costs(item) \in [P -> Nat] /\ \A p \in P : Costs(item)[p] = p.cost
            /\ c \in Nat
            /\ Nets(item) \in [P -> Int]
            /\ Nets(item) = [p \in P |-> Net(p.cost, c, item)]
            /\ Losses(item) \in [P -> Nat]
            /\ \A p \in P : Losses(item)[p] = Larger(0, -Nets(item)[p])
            /\ Used(item) \in [P -> 0 .. Bps]
            /\ \A p \in P : Used(item)[p] = Utilization(p.cost, c)
            /\ Expected(item) \in Int
<1> DEFINE P == PointsForItem(item)
           c == Commitment(Costs(item))
<1>1. IsFiniteSet(P) /\ \A p \in P : p.cost \in Nat
  <2>1. forecast.points = ForecastPoints
    BY DEF ForecastOK
  <2>2. P \in SUBSET ForecastPoints
    BY <2>1 DEF PointsForItem
  <2>3. IsFiniteSet(ForecastPoints)
    BY PointsAreCounted
  <2> QED  BY <2>2, <2>3, PointsAre, FS_Subset
<1>2. Cardinality(P) \in Nat \ {0}
  BY <1>1, FS_CardinalityType, FS_EmptySet
<1> HIDE DEF P
<1>3. Costs(item) \in [P -> Nat] /\ \A p \in P : Costs(item)[p] = p.cost
  BY <1>1 DEF Costs, P
<1>4. c \in Nat
  <2>1. P # {}
    BY DEF P
  <2>2. Percentile(Costs(item), 50) \in Nat
    BY <1>1, <1>3, <2>1, PercentileIs
  <2> QED  BY <2>2 DEF Commitment
<1> HIDE DEF c
<1>5. Nets(item) = [p \in P |-> Net(p.cost, c, item)]
  <2>1. Nets(item) = [p \in P |-> Net(Costs(item)[p], c, item)]
    BY <1>3 DEF Nets, c
  <2> QED  BY <1>3, <2>1
<1>6. Nets(item) \in [P -> Int]
  BY <1>1, <1>4, <1>5, NetIs
<1>7. Losses(item) = [p \in P |-> Larger(0, -Nets(item)[p])]
  BY <1>6 DEF Losses
<1>8. Losses(item) \in [P -> Nat]
  <2>1. \A x \in Int : Larger(0, -x) \in Nat
    BY DEF Larger
  <2> QED  BY <1>6, <1>7, <2>1
<1>9. Used(item) = [p \in P |-> Utilization(p.cost, c)]
  <2>1. Used(item) = [p \in P |-> Utilization(Costs(item)[p], c)]
    BY <1>3 DEF Used, c
  <2> QED  BY <1>3, <2>1
<1>10. Used(item) \in [P -> 0 .. Bps]
  BY <1>1, <1>4, <1>9, UtilizationIs
<1>11. Expected(item) \in Int
  <2>1. Total(Nets(item)) \in Int
    <3>1. PICK s : BuiltUp(s, Nets(item), P)
      BY <1>1, <1>6, TotalIs
    <3> QED  BY <3>1 DEF BuiltUp
  <2>2. DOMAIN Nets(item) = P
    BY <1>6
  <2> QED  BY <1>2, <2>1, <2>2, RoundedDivIs DEF Expected
<1> QED  BY <1>1, <1>2, <1>3, <1>4, <1>5, <1>6, <1>7, <1>8, <1>9, <1>10, <1>11 DEF P, c
-----------------------------------------------------------------------------
(* What a candidate is. *)

LEMMA BindingIs ==
  ASSUME NEW e \in Int, NEW d \in Int, NEW g \in Int, policy \in Policy
  PROVE  /\ BindingConstraints(e, d, g)
              \in SUBSET {"risk_budget", "minimum_expected_savings", "utilization_gap"}
         /\ BindingConstraints(e, d, g) = {} => d <= policy.maxDownside /\ e >= policy.minSavings
<1>1. policy.maxDownside \in Nat /\ policy.minSavings \in Nat
  BY DEF Policy
<1> DEFINE names == {"risk_budget", "minimum_expected_savings", "utilization_gap"}
           binds(c) == CASE c = "risk_budget" -> d > policy.maxDownside
                         [] c = "minimum_expected_savings" -> e < policy.minSavings
                         [] c = "utilization_gap" -> g > policy.maxGap
<1>2. BindingConstraints(e, d, g) = {c \in names : binds(c)}
  BY DEF BindingConstraints
<1>3. ASSUME d > policy.maxDownside PROVE BindingConstraints(e, d, g) # {}
  <2>1. binds("risk_budget")
    BY <1>3
  <2> HIDE DEF binds
  <2> QED  BY <1>2, <2>1
<1>4. ASSUME e < policy.minSavings PROVE BindingConstraints(e, d, g) # {}
  <2>1. binds("minimum_expected_savings")
    BY <1>4
  <2> HIDE DEF binds
  <2> QED  BY <1>2, <2>1
<1>5. BindingConstraints(e, d, g) \in SUBSET names
  BY <1>2
<1> QED  BY <1>1, <1>3, <1>4, <1>5

LEMMA RiskBandIs ==
  ASSUME NEW d
  PROVE  RiskBand(d) \in {"low", "medium", "high"}
<1>1. CASE d = 0
  BY <1>1 DEF RiskBand
<1>2. CASE d # 0 /\ d \in 1 .. policy.maxDownside
  BY <1>2 DEF RiskBand
<1>3. CASE d # 0 /\ d \notin 1 .. policy.maxDownside
  BY <1>3 DEF RiskBand
<1> QED  BY <1>1, <1>2, <1>3

\* The median of the utilizations is full, or none without a commitment.
LEMMA UtilizationsAre ==
  ASSUME EvidenceOK, ForecastOK, forecast # None, NEW item \in Item, PointsForItem(item) # {}
  PROVE  LET u == IF Commitment(Costs(item)) = 0 THEN 0 ELSE Bps
         IN Percentile(Used(item), 50) = u /\ Percentile(Used(item), 95) = u
<1> DEFINE P == PointsForItem(item)
           n == Cardinality(P)
           c == Commitment(Costs(item))
           u == IF c = 0 THEN 0 ELSE Bps
<1>1. /\ IsFiniteSet(P) /\ n \in Nat \ {0} /\ P # {} /\ c \in Nat
      /\ \A p \in P : p.cost \in Nat
      /\ Costs(item) \in [P -> Nat] /\ \A p \in P : Costs(item)[p] = p.cost
      /\ Used(item) \in [P -> 0 .. Bps]
      /\ \A p \in P : Used(item)[p] = Utilization(p.cost, c)
  BY PartsAre
<1>2. Bps \in Nat \ {0}
  BY EconomicsAssumption
<1>3. Place(50, n) \in 1 .. n /\ Place(95, n) \in 1 .. n /\ Place(50, n) <= Place(95, n)
  BY <1>1, PlaceIs
<1> HIDE DEF P, n
<1>4. Cardinality(Below(Costs(item), c)) < Place(50, n)
  <2>1. c = Percentile(Costs(item), 50)
    BY DEF Commitment
  <2> HIDE DEF c
  <2> QED  BY <1>1, <2>1, PercentileIs DEF n
<1> HIDE DEF c
<1>5. \A p \in P : /\ Used(item)[p] \in 0 .. Bps
                   /\ c = 0 => Used(item)[p] = 0
                   /\ c # 0 /\ c <= p.cost => Used(item)[p] = Bps
                   /\ c # 0 /\ p.cost < c => Used(item)[p] < Bps
  <2> TAKE p \in P
  <2>1. p.cost \in Nat /\ Used(item)[p] = Utilization(p.cost, c) /\ c \in Nat
    BY <1>1
  <2> QED  BY <2>1, UtilizationIs
<1>6. ASSUME NEW pct \in {50, 95} PROVE Percentile(Used(item), pct) = u
  <2> DEFINE v == Percentile(Used(item), pct)
  <2>1. Used(item) \in [P -> Nat]
    BY <1>1, <1>2
  <2>2. /\ v \in Nat /\ \E x \in P : v = Used(item)[x]
        /\ Place(pct, n) <= Cardinality(UpTo(Used(item), v))
    BY <1>1, <2>1, PercentileIs DEF n
  <2> HIDE DEF v
  <2>3. CASE c = 0
    BY <1>5, <2>2, <2>3 DEF v
  <2>4. CASE c # 0 /\ v < Bps
    <3>1. UpTo(Used(item), v) \in SUBSET Below(Costs(item), c)
      <4>1. \A p \in P : Used(item)[p] <= v => Costs(item)[p] < c
        BY <1>1, <1>2, <1>5, <2>2, <2>4
      <4> QED  BY <1>1, <4>1 DEF UpTo, Below
    <3>2. IsFiniteSet(Below(Costs(item), c))
      <4>1. Below(Costs(item), c) \in SUBSET P
        BY <1>1 DEF Below
      <4> QED  BY <1>1, <4>1, FS_Subset
    <3>3. Cardinality(UpTo(Used(item), v)) <= Cardinality(Below(Costs(item), c))
      BY <3>1, <3>2, FS_Subset
    <3>4. Cardinality(UpTo(Used(item), v)) \in Nat /\ Cardinality(Below(Costs(item), c)) \in Nat
      BY <3>1, <3>2, FS_Subset, FS_CardinalityType
    <3>5. Place(50, n) <= Place(pct, n) /\ Place(pct, n) \in Nat /\ Place(50, n) \in Nat /\ n \in Nat
      BY <1>1, <1>3
    <3> QED  BY <1>4, <2>2, <3>3, <3>4, <3>5
  <2>5. CASE c # 0 /\ ~(v < Bps)
    BY <1>2, <1>5, <2>2, <2>5 DEF v
  <2> QED  BY <2>3, <2>4, <2>5
<1> QED  BY <1>6 DEF c

\* What the runs ask of a candidate.
SoundCandidate(c) ==
  LET nets == [p \in PointsForItem(c.item) |-> Net(p.cost, c.commitment, c.item)]
      n == Cardinality(DOMAIN nets)
      bad == {p \in DOMAIN nets : -nets[p] > policy.maxDownside}
  IN /\ c \in Candidate
     /\ c.usedP50 = (IF c.commitment = 0 THEN 0 ELSE Bps) /\ c.usedP95 = c.usedP50
     /\ Feasible(c) => /\ 20 * Cardinality(bad) <= n
                       /\ 2 * (n * c.savings - Total(nets)) \in -n .. n
                       /\ c.savings >= policy.minSavings

\* The risk budget: what is not among the smallest losses is a twentieth of the draws.
LEMMA LossesAreWithin ==
  ASSUME EvidenceOK, ForecastOK, forecast # None, NEW item \in Item, PointsForItem(item) # {},
         NEW limit \in Nat, Percentile(Losses(item), 95) <= limit
  PROVE  20 * Cardinality({p \in PointsForItem(item) : -Nets(item)[p] > limit})
           <= Cardinality(PointsForItem(item))
<1> DEFINE P == PointsForItem(item)
           n == Cardinality(P)
           d == Percentile(Losses(item), 95)
           good == UpTo(Losses(item), d)
           bad == {p \in P : -Nets(item)[p] > limit}
<1>1. /\ IsFiniteSet(P) /\ n \in Nat \ {0} /\ P # {}
      /\ Nets(item) \in [P -> Int] /\ Losses(item) \in [P -> Nat]
      /\ \A p \in P : Losses(item)[p] = Larger(0, -Nets(item)[p])
  BY PartsAre
<1>2. Place(95, n) \in 1 .. n /\ 20 * (n - Place(95, n)) <= n
  BY <1>1, PlaceIs
<1> HIDE DEF P, n
<1>3. d \in Nat /\ Place(95, n) <= Cardinality(good)
  BY <1>1, PercentileIs DEF n
<1>4. d <= limit
  OBVIOUS
<1>10. good = {p \in P : Losses(item)[p] <= d}
  BY <1>1 DEF UpTo
<1> HIDE DEF d, good
<1>5. bad \in SUBSET (P \ good)
  <2>1. \A p \in P : -Nets(item)[p] > limit => ~(Losses(item)[p] <= d)
    BY <1>1, <1>3, <1>4 DEF Larger
  <2> QED  BY <1>10, <2>1
<1>6. IsFiniteSet(P \ good) /\ Cardinality(P \ good) = n - Cardinality(good)
  <2>1. good \in SUBSET P /\ IsFiniteSet(good) /\ Cardinality(good) \in Nat
    BY <1>1, <1>10, FS_Subset, FS_CardinalityType
  <2>2. P \cap good = good
    BY <2>1
  <2> QED  BY <1>1, <2>1, <2>2, FS_Difference DEF n
<1>7. Cardinality(bad) <= n - Cardinality(good) /\ Cardinality(bad) \in Nat
  BY <1>5, <1>6, FS_Subset, FS_CardinalityType
<1>8. Cardinality(good) \in Nat
  BY <1>1, <1>10, FS_Subset, FS_CardinalityType
<1> HIDE DEF bad
<1>9. 20 * Cardinality(bad) <= n
  BY <1>1, <1>2, <1>3, <1>7, <1>8
<1> QED  BY <1>9 DEF bad, P, n

\* Whatever is computed for an item is a sound candidate.
LEMMA CandidateIs ==
  ASSUME EvidenceOK, ForecastOK, forecast # None, NEW item \in Item, PointsForItem(item) # {}
  PROVE  SoundCandidate(Evaluate(item))
<1> DEFINE P == PointsForItem(item)
           c == Commitment(Costs(item))
           d == Percentile(Losses(item), 95)
           u == Percentile(Used(item), 50)
           v == Percentile(Used(item), 95)
           e == Expected(item)
           E == Evaluate(item)
           t == Total(Nets(item))
           n == Cardinality(P)
<1>1. /\ IsFiniteSet(P) /\ n \in Nat \ {0} /\ P # {} /\ c \in Nat
      /\ Nets(item) \in [P -> Int] /\ Nets(item) = [p \in P |-> Net(p.cost, c, item)]
      /\ Losses(item) \in [P -> Nat] /\ e \in Int
  BY PartsAre
<1>2. policy \in Policy
  BY EvidenceIs
<1>3. policy.maxDownside \in Nat /\ policy.minSavings \in Nat
  BY <1>2 DEF Policy
<1>4. Bps \in Nat \ {0}
  BY EconomicsAssumption
<1>5. d \in Nat
  <2> HIDE DEF P
  <2> QED  BY <1>1, PercentileIs
<1>6. u = (IF c = 0 THEN 0 ELSE Bps) /\ v = u
  BY UtilizationsAre
<1>7. /\ E = [item |-> item, commitment |-> c, savings |-> Larger(0, e), downside |-> d,
              usedP50 |-> u, usedP95 |-> v, band |-> RiskBand(d),
              binding |-> BindingConstraints(e, d, Bps - u)]
  BY EvaluateIs
<1> HIDE DEF E, c, d, u, v
<1>8. E \in Candidate
  <2>1. u \in 0 .. Bps /\ v \in 0 .. Bps
    BY <1>4, <1>6
  <2>2. Larger(0, e) \in Nat
    BY <1>1 DEF Larger
  <2>3. RiskBand(d) \in {"low", "medium", "high"}
    BY RiskBandIs
  <2>4. Bps - u \in Int
    BY <1>4, <2>1
  <2>5. BindingConstraints(e, d, Bps - u)
          \in SUBSET {"risk_budget", "minimum_expected_savings", "utilization_gap"}
    BY <1>1, <1>2, <1>5, <2>4, BindingIs
  <2> HIDE DEF e
  <2> QED  BY <1>1, <1>5, <1>7, <2>1, <2>2, <2>3, <2>5 DEF Candidate
<1>9. ASSUME Feasible(E) PROVE d <= policy.maxDownside /\ e >= policy.minSavings
  <2>1. Bps - u \in Int
    BY <1>4, <1>6
  <2>2. BindingConstraints(e, d, Bps - u) = {}
    BY <1>7, <1>9 DEF Feasible
  <2> DEFINE g == Bps - u
  <2> HIDE DEF e, g
  <2>3. e \in Int /\ d \in Int /\ g \in Int
    BY <1>1, <1>5, <2>1 DEF g
  <2>4. BindingConstraints(e, d, g) = {}
    BY <2>2 DEF g
  <2> QED  BY <1>2, <2>3, <2>4, BindingIs
<1>10. E.item = item /\ E.commitment = c /\ E.savings = Larger(0, e)
       /\ E.usedP50 = u /\ E.usedP95 = v
  BY <1>7
<1>11. t \in Int
  <2>1. PICK s : BuiltUp(s, Nets(item), P)
    BY <1>1, TotalIs
  <2> QED  BY <2>1 DEF BuiltUp
<1>12. -n <= 2 * (n * e - t) /\ 2 * (n * e - t) <= n
  <2>1. e = RoundedDiv(t, n)
    BY <1>1 DEF Expected
  <2> HIDE DEF t, n, e
  <2> QED  BY <1>1, <1>11, <2>1, RoundedDivIs
<1>13. Feasible(E) => E.savings = e /\ E.savings >= policy.minSavings
  <2> HIDE DEF e
  <2> QED  BY <1>1, <1>3, <1>9, <1>10 DEF Larger
<1>14. Feasible(E) => 20 * Cardinality({p \in P : -Nets(item)[p] > policy.maxDownside}) <= n
  BY <1>3, <1>9, LossesAreWithin DEF d
<1>15. Feasible(E) => 2 * (n * E.savings - t) \in -n .. n
  <2> DEFINE m == 2 * (n * e - t)
  <2>1. m \in Int
    <3> HIDE DEF n, t, e
    <3>1. n * e \in Int
      BY <1>1
    <3> QED  BY <1>11, <3>1
  <2>2. m \in -n .. n
    <3> HIDE DEF m, n
    <3> QED  BY <1>1, <1>12, <2>1 DEF m
  <2> HIDE DEF n, t, e
  <2> QED  BY <1>13, <2>2
<1> DEFINE N == [p \in PointsForItem(E.item) |-> Net(p.cost, E.commitment, E.item)]
<1>16. N = Nets(item) /\ DOMAIN N = P
  BY <1>1, <1>10
<1> HIDE DEF N
<1>17. /\ E.usedP50 = (IF E.commitment = 0 THEN 0 ELSE Bps) /\ E.usedP95 = E.usedP50
  BY <1>6, <1>10
<1>18. Feasible(E) =>
         /\ 20 * Cardinality({p \in DOMAIN N : -N[p] > policy.maxDownside}) <= Cardinality(DOMAIN N)
         /\ 2 * (Cardinality(DOMAIN N) * E.savings - Total(N)) \in -Cardinality(DOMAIN N) .. Cardinality(DOMAIN N)
         /\ E.savings >= policy.minSavings
  BY <1>13, <1>14, <1>15, <1>16
<1>19. SoundCandidate(E)
  BY <1>8, <1>17, <1>18 DEF SoundCandidate, N
<1> QED  BY <1>19 DEF E
-----------------------------------------------------------------------------
(* The order of the candidates. *)

\* Before is a strict weak order.
LEMMA BeforeIs ==
  ASSUME NEW c \in Candidate, NEW d \in Candidate, NEW e \in Candidate
  PROVE  /\ Before(c, d) => ~Before(d, c)
         /\ ~Before(c, d) /\ ~Before(d, e) => ~Before(c, e)
<1>1. /\ c.savings \in Nat /\ d.savings \in Nat /\ e.savings \in Nat
      /\ c.downside \in Nat /\ d.downside \in Nat /\ e.downside \in Nat
  BY DEF Candidate
<1>2. Feasible(c) \in BOOLEAN /\ Feasible(d) \in BOOLEAN /\ Feasible(e) \in BOOLEAN
  BY Zenon DEF Feasible
<1> QED  BY <1>1, <1>2 DEF Before

\* Who is ahead of whom is a strict total order on the places of the items.
LEMMA AheadIs ==
  ASSUME NEW S \in SUBSET Nat, NEW found \in [S -> Candidate]
  PROVE  /\ \A i \in S : Ahead(found, i) \in SUBSET S /\ i \notin Ahead(found, i)
         /\ \A i, j \in S : i = j \/ i \in Ahead(found, j) \/ j \in Ahead(found, i)
         /\ \A i, j \in S : j \in Ahead(found, i) => Ahead(found, j) \in SUBSET Ahead(found, i)
<1> DEFINE before(j, i) == \/ Before(found[j], found[i])
                           \/ ~Before(found[i], found[j]) /\ j < i
<1>1. \A i \in S : Ahead(found, i) = {j \in S : before(j, i)}
  BY DEF Ahead
<1>2. \A i \in S : found[i] \in Candidate /\ i \in Nat
  OBVIOUS
<1>3. \A i \in S : ~before(i, i)
  BY <1>2, BeforeIs
<1>4. \A i, j \in S : i = j \/ before(i, j) \/ before(j, i)
  BY <1>2, BeforeIs
<1>5. ASSUME NEW i \in S, NEW j \in S, NEW k \in S, before(k, j), before(j, i) PROVE before(k, i)
  <2> DEFINE c == found[i]
             d == found[j]
             e == found[k]
  <2>1. c \in Candidate /\ d \in Candidate /\ e \in Candidate /\ i \in Nat /\ j \in Nat /\ k \in Nat
    BY <1>2
  <2>2. Before(e, d) \/ (~Before(d, e) /\ k < j)
    BY <1>5
  <2>3. Before(d, c) \/ (~Before(c, d) /\ j < i)
    BY <1>5
  <2> HIDE DEF c, d, e
  <2>4. (Before(e, d) => ~Before(d, e)) /\ (Before(d, c) => ~Before(c, d))
    BY <2>1, BeforeIs
  <2>5. ~Before(c, d) /\ ~Before(d, e) => ~Before(c, e)
    BY <2>1, BeforeIs
  <2>6. /\ ~Before(d, c) /\ ~Before(c, e) => ~Before(d, e)
        /\ ~Before(e, c) /\ ~Before(c, d) => ~Before(e, d)
    BY <2>1, BeforeIs
  <2>7. Before(e, c) \/ (~Before(c, e) /\ k < i)
    <3>1. ~Before(c, d) /\ ~Before(d, e)
      BY <2>2, <2>3, <2>4, Zenon
    <3>2. ~Before(c, e)
      BY <2>5, <3>1, Zenon
    <3>3. CASE Before(e, c)
      BY <3>3
    <3>4. CASE ~Before(e, c)
      <4>1. ~Before(e, d)
        BY <2>6, <3>1, <3>4, Zenon
      <4>2. k < j
        BY <2>2, <4>1, Zenon
      <4>3. ~Before(d, c)
        <5>1. ASSUME Before(d, c) PROVE FALSE
          <6>1. ~Before(d, e) /\ ~Before(e, c) => ~Before(d, c)
            BY <2>1, BeforeIs
          <6> QED  BY <3>1, <3>4, <5>1, <6>1, Zenon
        <5> QED  BY <5>1
      <4>4. j < i
        BY <2>3, <4>3, Zenon
      <4> QED  BY <2>1, <3>2, <4>2, <4>4
    <3> QED  BY <3>3, <3>4
  <2> QED  BY <2>7 DEF c, e
<1> HIDE DEF before
<1>6. \A i \in S : Ahead(found, i) \in SUBSET S /\ i \notin Ahead(found, i)
  BY <1>1, <1>3
<1>7. \A i, j \in S : i = j \/ i \in Ahead(found, j) \/ j \in Ahead(found, i)
  BY <1>1, <1>4
<1>8. \A i, j \in S : j \in Ahead(found, i) => Ahead(found, j) \in SUBSET Ahead(found, i)
  BY <1>1, <1>5
<1> QED  BY <1>6, <1>7, <1>8

\* So each place of the frontier has one item, each item a place, and the first of them
\* has nobody ahead.
LEMMA SortedIs ==
  ASSUME NEW S \in SUBSET Nat, IsFiniteSet(S), NEW found \in [S -> Candidate]
  PROVE  LET sorted == Sorted(found) IN
         /\ sorted \in Seq(Candidate) /\ (sorted = <<>> <=> S = {})
         /\ \A m \in DOMAIN sorted : \E i \in S : sorted[m] = found[i]
         /\ \A i \in S : \E m \in DOMAIN sorted : sorted[m] = found[i]
         /\ S # {} => \A i \in S : ~Before(found[i], sorted[1])
<1> DEFINE n == Cardinality(S)
           rank(i) == Cardinality(Ahead(found, i))
           r == [i \in S |-> rank(i) + 1]
           at(m) == CHOOSE i \in S : rank(i) = m - 1
<1>1. n \in Nat /\ (n = 0 <=> S = {})
  BY FS_CardinalityType, FS_EmptySet
<1>2. \A i \in S : rank(i) \in Nat /\ rank(i) < n /\ IsFiniteSet(Ahead(found, i))
  <2> TAKE i \in S
  <2>1. Ahead(found, i) \in SUBSET S /\ i \notin Ahead(found, i)
    BY AheadIs
  <2>2. IsFiniteSet(Ahead(found, i)) /\ rank(i) <= n /\ (n = rank(i) => S = Ahead(found, i))
    BY <2>1, FS_Subset
  <2>3. rank(i) \in Nat
    BY <2>2, FS_CardinalityType
  <2> HIDE DEF rank, n
  <2> QED  BY <1>1, <2>1, <2>2, <2>3
<1>3. \A i, j \in S : j \in Ahead(found, i) => rank(j) < rank(i)
  <2> SUFFICES ASSUME NEW i \in S, NEW j \in S, j \in Ahead(found, i) PROVE rank(j) < rank(i)
    OBVIOUS
  <2>1. Ahead(found, j) \in SUBSET Ahead(found, i) /\ j \notin Ahead(found, j)
    BY AheadIs
  <2>2. rank(j) <= rank(i) /\ (rank(i) = rank(j) => Ahead(found, i) = Ahead(found, j))
    BY <1>2, <2>1, FS_Subset
  <2>3. rank(i) \in Nat /\ rank(j) \in Nat
    BY <1>2
  <2> HIDE DEF rank
  <2> QED  BY <2>1, <2>2, <2>3
<1>4. \A i, j \in S : rank(i) = rank(j) => i = j
  <2>1. \A i \in S : rank(i) \in Nat
    BY <1>2
  <2>2. \A i, j \in S : i = j \/ i \in Ahead(found, j) \/ j \in Ahead(found, i)
    BY AheadIs
  <2> HIDE DEF rank
  <2> QED  BY <1>3, <2>1, <2>2
<1>5. IsFiniteSet(1 .. n) /\ Cardinality(1 .. n) = n
  <2> HIDE DEF n
  <2> QED  BY <1>1, FS_Interval
<1>6. r \in Surjection(S, 1 .. n)
  <2> HIDE DEF rank
  <2>1. r \in [S -> 1 .. n]
    <3> HIDE DEF n
    <3> QED  BY <1>1, <1>2
  <2>2. \A i, j \in S : r[i] = r[j] => i = j
    BY <1>2, <1>4
  <2> HIDE DEF r
  <2>3. r \in Injection(S, 1 .. n)
    BY <2>1, <2>2, Zenon DEF Injection, IsInjective
  <2>4. Cardinality(S) = Cardinality(1 .. n)
    BY <1>5
  <2> HIDE DEF n
  <2> QED  BY <1>5, <2>3, <2>4, FS_Injection
<1>7. \A m \in 1 .. n : \E i \in S : rank(i) = m - 1
  <2> HIDE DEF rank, n
  <2>1. \A m \in 1 .. n : \E i \in S : r[i] = m
    <3> HIDE DEF r
    <3> QED  BY <1>6 DEF Surjection
  <2> TAKE m \in 1 .. n
  <2>2. PICK i \in S : r[i] = m
    BY <2>1
  <2>3. rank(i) + 1 = m /\ rank(i) \in Nat /\ m \in Nat
    BY <1>1, <1>2, <2>2
  <2>4. rank(i) = m - 1
    BY <2>3
  <2> QED  BY <2>4
<1>8. \A m \in 1 .. n : at(m) \in S /\ rank(at(m)) = m - 1
  <2> HIDE DEF rank, n
  <2> QED  BY <1>7
<1>9. Sorted(found) = [m \in 1 .. n |-> found[at(m)]]
  <2>1. DOMAIN found = S
    OBVIOUS
  <2> QED  BY <2>1 DEF Sorted
<1> HIDE DEF at, rank, n
<1>10. Sorted(found) \in Seq(Candidate) /\ DOMAIN Sorted(found) = 1 .. n
  <2>1. \A m \in 1 .. n : found[at(m)] \in Candidate
    BY <1>8
  <2> DEFINE g(m) == found[at(m)]
  <2>2. Sorted(found) = [m \in 1 .. n |-> g(m)] /\ \A m \in 1 .. n : g(m) \in Candidate
    BY <1>9, <2>1
  <2> HIDE DEF g
  <2> QED  BY <1>1, <2>2
<1>11. Sorted(found) = <<>> <=> S = {}
  BY <1>1, <1>10
<1>12. \A m \in DOMAIN Sorted(found) : \E i \in S : Sorted(found)[m] = found[i]
  BY <1>8, <1>9, <1>10
<1>13. \A i \in S : \E m \in DOMAIN Sorted(found) : Sorted(found)[m] = found[i]
  <2> TAKE i \in S
  <2>1. rank(i) + 1 \in 1 .. n
    BY <1>1, <1>2
  <2> DEFINE k == rank(i) + 1
  <2>2. k - 1 = rank(i)
    BY <1>2
  <2>3. k \in 1 .. n
    BY <2>1
  <2> HIDE DEF k
  <2>4. at(k) \in S /\ rank(at(k)) = rank(i)
    BY <1>8, <2>2, <2>3
  <2>5. at(k) = i
    BY <1>4, <2>4
  <2> QED  BY <1>9, <1>10, <2>3, <2>5
<1>14. ASSUME S # {}, NEW i \in S PROVE ~Before(found[i], Sorted(found)[1])
  <2>1. 1 \in 1 .. n
    BY <1>1, <1>14
  <2>2. at(1) \in S /\ rank(at(1)) = 0
    BY <1>8, <2>1
  <2>3. Ahead(found, at(1)) = {}
    BY <1>2, <2>2, FS_EmptySet DEF rank
  <2>4. ~Before(found[i], found[at(1)])
    BY <2>2, <2>3 DEF Ahead
  <2> QED  BY <1>9, <2>1, <2>4
<1> QED  BY <1>10, <1>11, <1>12, <1>13, <1>14
-----------------------------------------------------------------------------
(* The frontier and the recommendation. *)

\* What a run leaves: the sorted candidates, and what they recommend.
CandidatesOK ==
  /\ recommendation = Recommend(candidates)
  /\ candidates # <<>> => forecast # None /\ candidates = Sorted(Found)

LEMMA FoundIs ==
  ASSUME EvidenceOK, ForecastOK, forecast # None
  PROVE  LET S == DOMAIN Found IN
         /\ S \in SUBSET Nat /\ IsFiniteSet(S) /\ Found \in [S -> Candidate]
         /\ \A i \in S : SoundCandidate(Found[i])
<1> DEFINE S == {i \in DOMAIN items : PointsForItem(items[i]) # {}}
<1>1. items \in Seq(Item)
  BY EvidenceIs
<1>2. S \in SUBSET (1 .. Len(items)) /\ Len(items) \in Nat /\ \A i \in S : items[i] \in Item
  BY <1>1
<1>3. IsFiniteSet(S) /\ S \in SUBSET Nat
  <2>1. IsFiniteSet(1 .. Len(items))
    BY <1>2, FS_Interval
  <2>2. S \in SUBSET (1 .. Len(items)) /\ S \in SUBSET Nat
    BY <1>2
  <2> HIDE DEF S
  <2> QED  BY <2>1, <2>2, FS_Subset
<1>4. Found = [i \in S |-> Evaluate(items[i])]
  BY DEF Found
<1>5. ASSUME NEW i \in S PROVE SoundCandidate(Evaluate(items[i]))
  <2>1. items[i] \in Item /\ PointsForItem(items[i]) # {}
    BY <1>2
  <2> QED  BY <2>1, CandidateIs
<1>6. ASSUME NEW i \in S PROVE Evaluate(items[i]) \in Candidate
  BY <1>5, <1>6 DEF SoundCandidate
<1> HIDE DEF S
<1>7. DOMAIN Found = S /\ \A i \in S : Found[i] = Evaluate(items[i])
  BY <1>4
<1>8. Found \in [S -> Candidate]
  BY <1>4, <1>6
<1> QED  BY <1>3, <1>5, <1>7, <1>8

LEMMA CandidatesAre ==
  ASSUME EvidenceOK, ForecastOK, CandidatesOK, candidates # <<>>
  PROVE  /\ candidates \in Seq(Candidate) /\ 1 \in DOMAIN candidates
         /\ \A m \in DOMAIN candidates : SoundCandidate(candidates[m])
         /\ \A m \in DOMAIN candidates : ~Before(candidates[m], candidates[1])
<1> DEFINE S == DOMAIN Found
<1>1. forecast # None /\ candidates = Sorted(Found)
  BY DEF CandidatesOK
<1>2. /\ S \in SUBSET Nat /\ IsFiniteSet(S) /\ Found \in [S -> Candidate]
      /\ \A i \in S : SoundCandidate(Found[i])
  BY <1>1, FoundIs
<1> HIDE DEF S
<1>3. /\ candidates \in Seq(Candidate) /\ S # {}
      /\ \A m \in DOMAIN candidates : \E i \in S : candidates[m] = Found[i]
      /\ \A i \in S : ~Before(Found[i], candidates[1])
  <2> DEFINE f == Found
  <2>1. f \in [S -> Candidate] /\ candidates = Sorted(f) /\ Sorted(f) # <<>>
    BY <1>1, <1>2
  <2> HIDE DEF f
  <2>2. /\ Sorted(f) \in Seq(Candidate) /\ S # {}
        /\ \A m \in DOMAIN Sorted(f) : \E i \in S : Sorted(f)[m] = f[i]
    BY <1>2, <2>1, SortedIs
  <2>3. \A i \in S : ~Before(f[i], Sorted(f)[1])
    BY <1>2, <2>1, <2>2, SortedIs
  <2> QED  BY <2>1, <2>2, <2>3 DEF f
<1>4. 1 \in DOMAIN candidates
  BY <1>3
<1> QED  BY <1>2, <1>3, <1>4

\* The first candidate, when it is feasible, is what is recommended.
LEMMA RecommendedIs ==
  ASSUME EvidenceOK, ForecastOK, CandidatesOK
  PROVE  /\ recommendation \in Recommendation \cup {None}
         /\ recommendation # None =>
              /\ candidates # <<>> /\ Feasible(candidates[1])
              /\ recommendation.candidate = candidates[1]
         /\ candidates # <<>> /\ Feasible(candidates[1]) => recommendation # None
<1>1. CASE candidates = <<>> \/ ~Feasible(candidates[1])
  <2>1. recommendation = None
    BY <1>1 DEF CandidatesOK, Recommend
  <2> QED  BY <1>1, <2>1
<1>2. CASE candidates # <<>> /\ Feasible(candidates[1])
  <2> DEFINE c == candidates[1]
             st == IF Approval(c) THEN "pending_approval" ELSE "ready"
  <2>1. recommendation = [type |-> "buy", candidate |-> c, confidence |-> "0.9000", status |-> st]
    BY <1>2 DEF CandidatesOK, Recommend
  <2>2. c \in Candidate
    BY <1>2, CandidatesAre
  <2>3. st \in {"pending_approval", "ready"}
    OBVIOUS
  <2> HIDE DEF st, c
  <2>4. recommendation \in Recommendation /\ recommendation.candidate = c
    BY <2>1, <2>2, <2>3 DEF Recommendation
  <2>5. recommendation # None
    BY <2>4, EconomicsAssumption
  <2> QED  BY <1>2, <2>4, <2>5 DEF c
<1> QED  BY <1>1, <1>2

LEMMA RecommendedIsSound ==
  ASSUME EvidenceOK, ForecastOK, CandidatesOK
  PROVE  WithinRiskBudget /\ SavingIsReal
<1> SUFFICES ASSUME recommendation # None PROVE WithinRiskBudget /\ SavingIsReal
  BY DEF WithinRiskBudget, SavingIsReal
<1> DEFINE c == recommendation.candidate
<1>1. candidates # <<>> /\ Feasible(c) /\ c = candidates[1]
  BY RecommendedIs
<1>2. SoundCandidate(c)
  BY <1>1, CandidatesAre
<1> DEFINE N == RecommendedNets
<1>3. /\ 20 * Cardinality({p \in DOMAIN N : -N[p] > policy.maxDownside}) <= Cardinality(DOMAIN N)
      /\ 2 * (Cardinality(DOMAIN N) * c.savings - Total(N))
           \in -Cardinality(DOMAIN N) .. Cardinality(DOMAIN N)
      /\ c.savings >= policy.minSavings
  BY <1>1, <1>2 DEF SoundCandidate, RecommendedNets
<1> QED  BY <1>3 DEF WithinRiskBudget, SavingIsReal

\* Nothing feasible is before the first candidate.
LEMMA ChoiceIsBest ==
  ASSUME EvidenceOK, ForecastOK, CandidatesOK
  PROVE  NoBetterChoice
<1> SUFFICES ASSUME forecast # None, candidates # <<>> PROVE NoBetterChoice
  BY DEF NoBetterChoice
<1> DEFINE feasible == {c \in ToSet(candidates) : Feasible(c)}
           top == candidates[1]
<1>1. /\ candidates \in Seq(Candidate) /\ 1 \in DOMAIN candidates
      /\ \A m \in DOMAIN candidates : ~Before(candidates[m], top)
  BY CandidatesAre
<1>2. ToSet(candidates) = {candidates[m] : m \in DOMAIN candidates}
  BY DEF ToSet
<1>3. \A c \in ToSet(candidates) : c \in Candidate /\ ~Before(c, top)
  BY <1>1, <1>2
<1>4. top \in ToSet(candidates)
  BY <1>1, <1>2
<1>5. recommendation # None <=> Feasible(top)
  BY RecommendedIs
<1>6. recommendation = None <=> feasible = {}
  <2>1. ASSUME recommendation # None PROVE feasible # {}
    BY <1>4, <1>5, <2>1
  <2>2. ASSUME recommendation = None, NEW c \in feasible PROVE FALSE
    <3>1. Feasible(c) /\ ~Feasible(top) /\ ~Before(c, top)
      BY <1>3, <1>5, <2>2
    <3> QED  BY <3>1 DEF Before
  <2> QED  BY <2>1, <2>2
<1>7. ASSUME recommendation # None
      PROVE  /\ recommendation.candidate \in feasible
             /\ \A c \in feasible :
                  \/ c.savings < recommendation.candidate.savings
                  \/ /\ c.savings = recommendation.candidate.savings
                     /\ c.downside >= recommendation.candidate.downside
  <2>1. recommendation.candidate = top /\ Feasible(top)
    BY <1>7, RecommendedIs
  <2>2. ASSUME NEW c \in feasible
        PROVE  c.savings < top.savings \/ (c.savings = top.savings /\ c.downside >= top.downside)
    <3>1. Feasible(c) /\ ~Before(c, top) /\ c \in Candidate /\ top \in Candidate
      BY <1>3, <1>4
    <3>2. /\ c.savings \in Nat /\ top.savings \in Nat /\ c.downside \in Nat /\ top.downside \in Nat
      BY <3>1 DEF Candidate
    <3>3. Feasible(c) = Feasible(top)
      BY <2>1, <3>1 DEF Feasible
    <3> HIDE DEF top
    <3>4. /\ ~(c.savings > top.savings)
          /\ ~(c.savings = top.savings /\ c.downside < top.downside)
      BY <3>1, <3>3, Zenon DEF Before
    <3> QED  BY <3>2, <3>4
  <2> QED  BY <1>4, <2>1, <2>2
<1> HIDE DEF feasible, top
<1>8. (recommendation = None) = (feasible = {})
  BY <1>6
<1>9. /\ (recommendation = None) = (feasible = {})
      /\ recommendation # None =>
           /\ recommendation.candidate \in feasible
           /\ \A c \in feasible :
                \/ c.savings < recommendation.candidate.savings
                \/ /\ c.savings = recommendation.candidate.savings
                   /\ c.downside >= recommendation.candidate.downside
  BY <1>7, <1>8
<1> QED  BY <1>9 DEF NoBetterChoice, feasible

LEMMA RecommendationSound ==
  ASSUME EvidenceOK, ForecastOK, CandidatesOK
  PROVE  /\ RecommendationIsSound
         /\ candidates \in Seq(Candidate) /\ recommendation \in Recommendation \cup {None}
         /\ recommendation # None => candidates # <<>>
<1>1. candidates \in Seq(Candidate)
  <2>1. <<>> \in Seq(Candidate)
    OBVIOUS
  <2> QED  BY <2>1, CandidatesAre
<1>2. UtilizationIsAllOrNothing
  <2>1. ASSUME NEW c \in ToSet(candidates) PROVE SoundCandidate(c)
    <3>1. PICK m \in DOMAIN candidates : c = candidates[m]
      BY DEF ToSet
    <3>2. candidates # <<>>
      BY <3>1
    <3> QED  BY <3>1, <3>2, CandidatesAre
  <2> QED  BY <2>1 DEF UtilizationIsAllOrNothing, SoundCandidate
<1> QED  BY <1>1, <1>2, ForecastIsFromHistory, RecommendedIsSound, ChoiceIsBest, RecommendedIs
         DEF RecommendationIsSound
-----------------------------------------------------------------------------
(* The replay. *)

\* What a backtest leaves.
ReplayOK == replay # None => replay = [results |-> Results, best |-> Best(Results)]

LEMMA ReplayedIs ==
  ASSUME EvidenceOK
  PROVE  Replayed \in Seq(Nat)
<1> DEFINE M == UNION {Billed(s) : s \in Services}
           n == Cardinality(M)
           id == [m \in M |-> m]
           who(m) == {s \in Services : m \in Billed(s)}
           bills(m) == [s \in who(m) |-> history[<<m, s>>]]
           at(i) == Total(bills(Ranked(id, i)))
<1>1. M \in SUBSET (1 .. Window) /\ Window \in Nat
  BY EvidenceIs, EconomicsAssumption
<1>2. IsFiniteSet(M) /\ n \in Nat /\ id \in [M -> Nat]
  <2>1. IsFiniteSet(1 .. Window)
    BY <1>1, FS_Interval
  <2>2. id \in [M -> Nat]
    BY <1>1
  <2> HIDE DEF M, id
  <2> QED  BY <1>1, <2>1, <2>2, FS_Subset, FS_CardinalityType
<1>3. \A m \in M : Total(bills(m)) \in Nat
  <2> TAKE m \in M
  <2> DEFINE f == bills(m)
             S == who(m)
  <2>1. f \in [S -> Nat]
    BY EvidenceIs
  <2>2. IsFiniteSet(S)
    <3>1. S \in SUBSET Services /\ IsFiniteSet(Services)
      BY EconomicsAssumption
    <3> HIDE DEF S
    <3> QED  BY <3>1, FS_Subset
  <2> HIDE DEF f, S
  <2>3. AtEachPoint(f, f, f, 1, 0, 0, 0, S)
    BY <2>1 DEF AtEachPoint
  <2>4. f \in [S -> Int]
    BY <2>1
  <2>5. Total(f) \in Int /\ 1 * Total(f) + 0 * Total(f) + 0 * Total(f) + 0 * Cardinality(S) >= 0
    BY <2>2, <2>3, <2>4, LinearTotals
  <2>6. Cardinality(S) \in Nat
    BY <2>2, FS_CardinalityType
  <2>7. Total(f) \in Nat
    BY <2>5, <2>6
  <2> QED  BY <2>7 DEF f
<1>4. Replayed = [i \in 1 .. n |-> at(i)]
  BY DEF Replayed
<1> HIDE DEF M, n, id, bills
<1>5. \A i \in 1 .. n : Ranked(id, i) \in M
  <2> TAKE i \in 1 .. n
  <2>1. \E x \in M : Ranked(id, i) = id[x]
    BY <1>2, RankedIs DEF n
  <2> QED  BY <2>1 DEF id
<1>6. \A i \in 1 .. n : at(i) \in Nat
  BY <1>3, <1>5
<1> HIDE DEF at
<1> QED  BY <1>2, <1>4, <1>6

LEMMA SequenceTotal ==
  ASSUME NEW q \in Seq(Nat)
  PROVE  Total(q) \in Nat
<1> DEFINE S == 1 .. Len(q)
<1>1. q \in [S -> Int] /\ q \in [S -> Nat] /\ IsFiniteSet(S)
  BY FS_Interval
<1> HIDE DEF S
<1>2. AtEachPoint(q, q, q, 1, 0, 0, 0, S)
  BY <1>1 DEF AtEachPoint
<1>3. Total(q) \in Int /\ 1 * Total(q) + 0 * Total(q) + 0 * Total(q) + 0 * Cardinality(S) >= 0
  BY <1>1, <1>2, LinearTotals
<1>4. Cardinality(S) \in Nat
  BY <1>1, FS_CardinalityType
<1> QED  BY <1>3, <1>4

LEMMA CommitmentForIs ==
  ASSUME NEW b, NEW q \in Seq(Nat)
  PROVE  CommitmentFor(b, q) \in Nat /\ CommitmentFor("no_commitment", q) = 0
<1> DEFINE n == Len(q)
           a == Total(q) + n \div 2
           mean == a \div n
<1>1. CASE q = <<>>
  BY <1>1 DEF CommitmentFor
<1>2. CASE q # <<>>
  <2>1. n \in Nat \ {0} /\ q[n] \in Nat
    BY <1>2
  <2>2. Total(q) \in Nat
    BY SequenceTotal
  <2>3. a \in Nat
    <3> HIDE DEF n
    <3> QED  BY <2>1, <2>2
  <2> HIDE DEF n, a
  <2>4. mean \in Int /\ a < n * mean + n
    BY <2>1, <2>3, DivIs
  <2> HIDE DEF mean
  <2>5. n * (-1) < n * mean
    <3>1. n * mean \in Int /\ n * (-1) = -n
      BY <2>1, <2>4
    <3> QED  BY <2>1, <2>3, <2>4, <3>1
  <2>6. -1 < mean
    <3>1. \A x, y \in Int : n * x < n * y => x < y
      BY <2>1
    <3> QED  BY <2>4, <2>5, <3>1
  <2>7. (mean * 70) \div 100 \in Nat
    BY <2>4, <2>6
  <2>8. CommitmentFor(b, q) \in {0, q[n], (mean * 70) \div 100}
    BY DEF CommitmentFor, mean, a, n
  <2> QED  BY <2>1, <2>7, <2>8 DEF CommitmentFor
<1> QED  BY <1>1, <1>2

\* What a commitment costs in one month: never less than its discounted rate.
LEMMA SimulatedCostIs ==
  ASSUME EvidenceOK, NEW cost \in Nat, NEW c \in Nat
  PROVE  /\ SimulatedCost(cost, c) \in Int
         /\ c = 0 => SimulatedCost(cost, c) = cost
         /\ Bps * SimulatedCost(cost, c) + Bps \div 2 >= (Bps - policy.discount) * c
<1>1. Bps \in Nat \ {0}
  BY EconomicsAssumption
<1>2. Bps - policy.discount \in Int
  <2>1. policy.discount \in Nat
    BY EvidenceIs DEF Policy
  <2> QED  BY <1>1, <2>1
<1>3. CASE c = 0
  <2>1. SimulatedCost(cost, c) = cost
    BY <1>3 DEF SimulatedCost
  <2>2. Bps * cost \in Nat /\ (Bps - policy.discount) * 0 = 0 /\ Bps \div 2 \in Nat
    BY <1>1, <1>2
  <2> QED  BY <1>3, <2>1, <2>2
<1>4. CASE c # 0
  <2> DEFINE r == Bps - policy.discount
             u == c * r
             a == u + Bps \div 2
             q == a \div Bps
             rest == cost - Smaller(cost, c)
  <2>1. u \in Int /\ r * c = u
    <3> HIDE DEF r
    <3> QED  BY <1>2 DEF r
  <2> HIDE DEF u
  <2>2. a \in Int
    BY <1>1, <2>1
  <2> HIDE DEF a
  <2>3. q \in Int /\ a < Bps * q + Bps
    BY <1>1, <2>2, DivIs
  <2>4. rest \in Nat
    BY DEF Smaller
  <2>5. SimulatedCost(cost, c) = rest + q
    BY <1>4 DEF SimulatedCost, a, u
  <2> HIDE DEF q, rest
  <2>6. Bps * (rest + q) = Bps * rest + Bps * q /\ Bps * rest \in Nat /\ Bps * q \in Int
    BY <1>1, <2>3, <2>4
  <2>7. Bps * (rest + q) + Bps \div 2 >= u
    <3> DEFINE x == Bps * rest
               y == Bps * q
    <3>1. x \in Nat /\ y \in Int /\ Bps * (rest + q) = x + y /\ a < y + Bps
      BY <2>3, <2>6
    <3>2. a = u + Bps \div 2
      BY DEF a
    <3> HIDE DEF x, y
    <3> QED  BY <1>1, <2>1, <3>1, <3>2
  <2> QED  BY <1>4, <2>1, <2>3, <2>4, <2>5, <2>7
<1> QED  BY <1>3, <1>4

\* The same with the types at one place.
TypedAtEachPoint(f, g, h, a, b, c, e, S) ==
  /\ f \in [S -> Int] /\ g \in [S -> Int] /\ h \in [S -> Int]
  /\ a \in Int /\ b \in Int /\ c \in Int /\ e \in Int
  /\ AtEachPoint(f, g, h, a, b, c, e, S)

LEMMA TypedTotals ==
  ASSUME NEW S, IsFiniteSet(S), NEW f, NEW g, NEW h, NEW a, NEW b, NEW c, NEW e,
         TypedAtEachPoint(f, g, h, a, b, c, e, S)
  PROVE  /\ Total(f) \in Int /\ Total(g) \in Int /\ Total(h) \in Int
         /\ a * Total(f) + b * Total(g) + c * Total(h) + e * Cardinality(S) >= 0
<1>1. /\ f \in [S -> Int] /\ g \in [S -> Int] /\ h \in [S -> Int]
      /\ a \in Int /\ b \in Int /\ c \in Int /\ e \in Int
      /\ AtEachPoint(f, g, h, a, b, c, e, S)
  BY DEF TypedAtEachPoint
<1> QED  BY <1>1, LinearTotals

\* The accounts of one baseline.
LEMMA BaselineIs ==
  ASSUME EvidenceOK, NEW q \in Seq(Nat), NEW b
  PROVE  LET r == ReplayBaseline(b, q) IN
         /\ r.simulated \in Int /\ r.savings \in Int /\ r.regret \in Int
         /\ r.simulated + r.savings = Total(q)
         /\ r.regret >= 0 /\ r.savings + r.regret >= 0
         /\ Bps * r.simulated + Len(q) * (Bps \div 2) >= (Bps - policy.discount) * Total(r.commitments)
         /\ r.commitments = [i \in DOMAIN q |-> CommitmentFor(b, Visible(q, i))]
         /\ b = "no_commitment" => r.savings >= 0
<1> DEFINE S == DOMAIN q
           coms == [i \in S |-> CommitmentFor(b, Visible(q, i))]
           costs == [i \in S |-> SimulatedCost(q[i], coms[i])]
           savings == [i \in S |-> q[i] - costs[i]]
           losses == [i \in S |-> Larger(0, -savings[i])]
           r == ReplayBaseline(b, q)
           n == Cardinality(S)
           h == Bps \div 2
           rate == Bps - policy.discount
<1>1. r = [commitments |-> coms, simulated |-> Total(costs), savings |-> Total(savings),
           regret |-> Total(losses)]
  BY DEF ReplayBaseline
<1>2. r.commitments = coms /\ r.simulated = Total(costs) /\ r.savings = Total(savings)
      /\ r.regret = Total(losses)
  BY <1>1
<1>3. IsFiniteSet(S) /\ n = Len(q) /\ n \in Nat /\ S = 1 .. Len(q)
  <2>1. S = 1 .. Len(q) /\ Len(q) \in Nat
    OBVIOUS
  <2>2. \A k \in Nat : IsFiniteSet(1 .. k) /\ Cardinality(1 .. k) = k
    <3> TAKE k \in Nat
    <3>1. 1 \in Int /\ k \in Int /\ (1 > k => k = 0) /\ k - 1 + 1 = k
      OBVIOUS
    <3> QED  BY <3>1, FS_Interval
  <2>3. IsFiniteSet(1 .. Len(q)) /\ Cardinality(1 .. Len(q)) = Len(q)
    BY <2>1, <2>2
  <2> QED  BY <2>1, <2>3
<1>4. Bps \in Nat \ {0} /\ h \in Nat /\ rate \in Int
  <2>1. policy.discount \in Nat
    BY EvidenceIs DEF Policy
  <2> QED  BY <2>1, EconomicsAssumption
<1>5. \A i \in S : q[i] \in Nat /\ Visible(q, i) \in Seq(Nat)
  BY DEF Visible
<1>6. \A i \in S : coms[i] \in Nat /\ (b = "no_commitment" => coms[i] = 0)
  BY <1>5, CommitmentForIs
<1> HIDE DEF r, n, h, rate
<1>7. coms \in [S -> Int] /\ q \in [S -> Int]
  BY <1>5, <1>6
<1> HIDE DEF S
<1>17. IsFiniteSet(S) /\ n = Cardinality(S) /\ n \in Nat
  BY <1>3 DEF n
<1>8. ASSUME NEW i \in S
      PROVE  /\ costs[i] \in Int /\ (b = "no_commitment" => costs[i] = q[i])
             /\ Bps * costs[i] + h >= rate * coms[i]
  <2>1. q[i] \in Nat /\ coms[i] \in Nat
    BY <1>5, <1>6
  <2>2. costs[i] = SimulatedCost(q[i], coms[i])
    OBVIOUS
  <2> HIDE DEF coms, costs
  <2>3. /\ SimulatedCost(q[i], coms[i]) \in Int
        /\ coms[i] = 0 => SimulatedCost(q[i], coms[i]) = q[i]
        /\ Bps * SimulatedCost(q[i], coms[i]) + h >= rate * coms[i]
    BY <2>1, SimulatedCostIs DEF h, rate
  <2> QED  BY <1>6, <2>2, <2>3
<1> HIDE DEF coms
<1>9. costs \in [S -> Int]
  BY <1>8
<1> HIDE DEF costs
<1>10. savings \in [S -> Int] /\ \A i \in S : savings[i] = q[i] - costs[i]
  BY <1>7, <1>9
<1> HIDE DEF savings
<1>11. losses \in [S -> Int] /\ \A i \in S : losses[i] >= 0 /\ savings[i] + losses[i] >= 0
  BY <1>10 DEF Larger
<1> HIDE DEF losses
<1>12. Total(costs) + Total(savings) = Total(q) /\ Total(costs) \in Int /\ Total(savings) \in Int
  <2> DEFINE m == -1
  <2>1. m \in Int /\ \A x \in Int : m * x = -x /\ 1 * x = x /\ 0 * x = 0
    OBVIOUS
  <2> HIDE DEF m
  <2>2. ASSUME NEW i \in S
        PROVE  /\ 1 * costs[i] + 1 * savings[i] + m * q[i] + 0 >= 0
               /\ m * costs[i] + m * savings[i] + 1 * q[i] + 0 >= 0
    <3>1. costs[i] \in Int /\ savings[i] \in Int /\ q[i] \in Int /\ savings[i] = q[i] - costs[i]
      BY <1>7, <1>9, <1>10
    <3>2. /\ 1 * costs[i] = costs[i] /\ 1 * savings[i] = savings[i] /\ 1 * q[i] = q[i]
          /\ m * costs[i] = -costs[i] /\ m * savings[i] = -savings[i] /\ m * q[i] = -q[i]
      BY <2>1, <3>1
    <3>3. /\ costs[i] + savings[i] + (-q[i]) + 0 >= 0
          /\ (-costs[i]) + (-savings[i]) + q[i] + 0 >= 0
      BY <3>1
    <3> QED  BY <3>2, <3>3
  <2>3. TypedAtEachPoint(costs, savings, q, 1, 1, m, 0, S)
    BY <1>7, <1>9, <1>10, <2>1, <2>2 DEF AtEachPoint, TypedAtEachPoint
  <2>4. TypedAtEachPoint(costs, savings, q, m, m, 1, 0, S)
    BY <1>7, <1>9, <1>10, <2>1, <2>2 DEF AtEachPoint, TypedAtEachPoint
  <2> DEFINE x == Total(costs)
             y == Total(savings)
             z == Total(q)
             n0 == 0 * Cardinality(S)
  <2>5. x \in Int /\ y \in Int /\ z \in Int /\ 1 * x + 1 * y + m * z + n0 >= 0
    BY <1>17, <2>3, TypedTotals
  <2>6. m * x + m * y + 1 * z + n0 >= 0
    BY <1>17, <2>4, TypedTotals
  <2>7. n0 = 0
    BY <1>17
  <2> HIDE DEF x, y, z, n0
  <2>8. /\ 1 * x = x /\ 1 * y = y /\ 1 * z = z /\ m * x = -x /\ m * y = -y /\ m * z = -z
    BY <2>1, <2>5
  <2>9. x + y = z
    BY <2>5, <2>6, <2>7, <2>8
  <2> QED  BY <2>5, <2>9 DEF x, y, z
<1>13. Total(losses) \in Int /\ Total(losses) >= 0
  <2>1. AtEachPoint(losses, losses, losses, 1, 0, 0, 0, S)
    BY <1>11 DEF AtEachPoint
  <2>2. Total(losses) \in Int /\ 1 * Total(losses) + 0 * Total(losses) + 0 * Total(losses) + 0 * Cardinality(S) >= 0
    BY <1>17, <1>11, <2>1, LinearTotals
  <2> QED  BY <1>17, <2>2
<1>14. Total(savings) + Total(losses) >= 0
  <2>1. TypedAtEachPoint(savings, losses, losses, 1, 1, 0, 0, S)
    BY <1>10, <1>11 DEF AtEachPoint, TypedAtEachPoint
  <2>2. 1 * Total(savings) + 1 * Total(losses) + 0 * Total(losses) + 0 * Cardinality(S) >= 0
    BY <1>17, <2>1, TypedTotals
  <2> QED  BY <1>17, <1>12, <1>13, <2>2
<1>15. Bps * Total(costs) + Len(q) * h >= rate * Total(coms)
  <2> DEFINE minus == -rate
  <2>1. minus \in Int /\ \A x \in Int : minus * x = -(rate * x)
    BY <1>4
  <2>2. TypedAtEachPoint(costs, coms, coms, Bps, minus, 0, h, S)
    <3> SUFFICES ASSUME NEW i \in S
                 PROVE  Bps * costs[i] + minus * coms[i] + 0 * coms[i] + h >= 0
      BY <1>4, <1>7, <1>9, <2>1 DEF AtEachPoint, TypedAtEachPoint
    <3> DEFINE x == Bps * costs[i]
               y == rate * coms[i]
    <3>1. costs[i] \in Int /\ coms[i] \in Int
      BY <1>7, <1>9
    <3>2. x \in Int /\ y \in Int /\ minus * coms[i] = -y /\ 0 * coms[i] = 0
      BY <1>4, <2>1, <3>1
    <3>3. x + h >= y
      BY <1>8
    <3> HIDE DEF minus, x, y
    <3>4. x + (-y) + 0 + h >= 0
      BY <1>4, <3>2, <3>3
    <3> QED  BY <3>2, <3>4 DEF x
  <2> HIDE DEF minus
  <2>3. /\ Total(coms) \in Int
        /\ Bps * Total(costs) + minus * Total(coms) + 0 * Total(coms) + h * Cardinality(S) >= 0
    BY <1>17, <2>2, TypedTotals
  <2> DEFINE x == Bps * Total(costs)
             y == rate * Total(coms)
             z == Len(q) * h
  <2>4. x \in Int /\ y \in Int /\ z \in Int
    BY <1>3, <1>4, <1>12, <2>3
  <2>5. minus * Total(coms) = -y /\ 0 * Total(coms) = 0
    BY <2>1, <2>3
  <2>8. h * Cardinality(S) = z
    <3>1. Cardinality(S) = Len(q) /\ Len(q) \in Nat
      BY <1>3, <1>17
    <3> QED  BY <1>4, <3>1
  <2>6. x + (-y) + 0 + z >= 0
    BY <2>3, <2>5, <2>8
  <2> HIDE DEF x, y, z
  <2>7. x + z >= y
    BY <2>4, <2>6
  <2> QED  BY <2>7 DEF x, y, z
<1>16. b = "no_commitment" => Total(savings) >= 0
  <2> SUFFICES ASSUME b = "no_commitment" PROVE Total(savings) >= 0
    OBVIOUS
  <2>1. \A i \in S : savings[i] = 0
    BY <1>8, <1>10
  <2>2. AtEachPoint(savings, savings, savings, 1, 0, 0, 0, S)
    BY <1>10, <2>1 DEF AtEachPoint
  <2>3. 1 * Total(savings) + 0 * Total(savings) + 0 * Total(savings) + 0 * Cardinality(S) >= 0
    BY <1>17, <1>10, <2>2, LinearTotals
  <2> QED  BY <1>17, <1>12, <2>3
<1> QED  BY <1>2, <1>12, <1>13, <1>14, <1>15, <1>16 DEF r, h, rate, coms, S

\* The best of the three baselines saves at least as much as the others.
LEMMA BestIs ==
  ASSUME NEW results, \A b \in Baselines : results[b].savings \in Int
  PROVE  /\ Best(results) \in Baselines
         /\ \A b \in Baselines : results[b].savings <= results[Best(results)].savings
<1> DEFINE x == results["no_commitment"].savings
           y == results["last_month_steady_state"].savings
           z == results["seventy_percent_utilization"].savings
           best == {b \in Baselines : \A c \in Baselines : results[b].savings >= results[c].savings}
<1>1. x \in Int /\ y \in Int /\ z \in Int
  BY DEF Baselines
<1>2. /\ "no_commitment" \in best <=> x >= y /\ x >= z
      /\ "last_month_steady_state" \in best <=> y >= x /\ y >= z
      /\ "seventy_percent_utilization" \in best <=> z >= x /\ z >= y
  BY <1>1 DEF Baselines
<1>3. best # {}
  BY <1>1, <1>2
<1>4. best \in SUBSET Baselines
  OBVIOUS
<1>5. Best(results) \in best
  BY <1>3, <1>4 DEF Best, Baselines
<1> QED  BY <1>1, <1>5

\* The commitment of a month looks at the months before it only.
LEMMA CommitmentIsBlind ==
  ASSUME EvidenceOK, NEW q \in Seq(Nat), NEW b, NEW i \in DOMAIN q, NEW other \in Nat
  PROVE  ReplayBaseline(b, Append(SubSeq(q, 1, i - 1), other)).commitments[i]
           = ReplayBaseline(b, q).commitments[i]
<1> DEFINE past == SubSeq(q, 1, i - 1)
           p == Append(past, other)
<1>1. i \in 1 .. Len(q) /\ i - 1 \in Nat /\ i \in Nat \ {0}
  OBVIOUS
<1>2. past \in Seq(Nat) /\ Len(past) = i - 1 /\ \A k \in 1 .. i - 1 : past[k] = q[k]
  BY <1>1
<1>3. p \in Seq(Nat) /\ Len(p) = i /\ \A k \in 1 .. i - 1 : p[k] = q[k]
  <2> HIDE DEF past
  <2> QED  BY <1>1, <1>2
<1> HIDE DEF p
<1>4. Visible(p, i) = Visible(q, i)
  BY <1>1, <1>3 DEF Visible
<1>5. ReplayBaseline(b, p).commitments = [k \in DOMAIN p |-> CommitmentFor(b, Visible(p, k))]
  BY <1>3, BaselineIs
<1>6. ReplayBaseline(b, q).commitments = [k \in DOMAIN q |-> CommitmentFor(b, Visible(q, k))]
  BY BaselineIs
<1>7. i \in DOMAIN p
  BY <1>1, <1>3
<1> QED  BY <1>4, <1>5, <1>6, <1>7 DEF p

LEMMA ReplaySound ==
  ASSUME EvidenceOK, ReplayOK
  PROVE  ReplayIsSound /\ (replay # None => replay.best \in Baselines)
<1> SUFFICES ASSUME replay # None PROVE ReplayIsSound /\ replay.best \in Baselines
  BY DEF ReplayIsSound, NoFutureLeakage, ReplayBalances, CommitmentsArePaid
<1>1. /\ replay.results = Results /\ replay.best = Best(Results)
      /\ \A b \in Baselines : Results[b] = ReplayBaseline(b, Replayed)
  BY DEF ReplayOK, Results
<1>2. Replayed \in Seq(Nat)
  BY ReplayedIs
<1>3. \A b \in Baselines : Results[b].savings \in Int
  BY <1>1, <1>2, BaselineIs
<1>4. /\ Best(Results) \in Baselines
      /\ \A b \in Baselines : Results[b].savings <= Results[Best(Results)].savings
  BY <1>3, BestIs
<1>5. Results["no_commitment"].savings >= 0
  BY <1>1, <1>2, BaselineIs DEF Baselines
<1>6. "no_commitment" \in Baselines
  BY DEF Baselines
<1>7. Results[Best(Results)].savings >= 0
  BY <1>3, <1>4, <1>5, <1>6
<1>8. ReplayBalances
  <2>1. ASSUME NEW b \in Baselines
        PROVE  LET r == replay.results[b]
               IN /\ r.simulated + r.savings = Total(Replayed)
                  /\ r.regret >= 0 /\ r.savings + r.regret >= 0
                  /\ r.savings <= replay.results[replay.best].savings
    BY <1>1, <1>2, <1>4, BaselineIs
  <2> QED  BY <1>1, <1>7, <2>1 DEF ReplayBalances
<1>9. CommitmentsArePaid
  BY <1>1, <1>2, BaselineIs DEF CommitmentsArePaid
<1>10. NoFutureLeakage
  <2>1. Total(Replayed) \in Nat
    BY <1>2, SequenceTotal
  <2>2. {0, 1 + Total(Replayed)} \in SUBSET Nat
    BY <2>1
  <2> QED  BY <1>1, <1>2, <2>2, CommitmentIsBlind DEF NoFutureLeakage
<1> QED  BY <1>1, <1>4, <1>8, <1>9, <1>10 DEF ReplayIsSound
-----------------------------------------------------------------------------
(* The invariant of the economics. *)

\* Each artifact, once there is one, is what the evidence determines.
EconomicsInv == EvidenceOK /\ ForecastOK /\ CandidatesOK /\ ReplayOK

LEMMA EconomicsStarts ==
  ASSUME EconomicsInit
  PROVE  EconomicsInv
<1>1. Recommend(<<>>) = None
  BY DEF Recommend
<1> QED  BY <1>1 DEF EconomicsInit, EconomicsInv, EvidenceOK, ForecastOK, CandidatesOK, ReplayOK

\* What depends on the evidence alone is the same after every step.
LEMMA EvidenceStays ==
  ASSUME UNCHANGED <<history, policy, items>>
  PROVE  /\ EvidenceOK' <=> EvidenceOK
         /\ ForecastPoints' = ForecastPoints /\ Warnings' = Warnings
         /\ Results' = Results /\ Best(Results)' = Best(Results)
         /\ \A cs : Recommend(cs)' = Recommend(cs)
         /\ forecast' = forecast => Found' = Found
<1>1. EvidenceOK' <=> EvidenceOK
  BY DEF EvidenceOK
<1>2. ForecastPoints' = ForecastPoints
  BY DEF ForecastPoints, Basis, Average, Billed, ForecastMonths
<1>3. Warnings' = Warnings
  BY DEF Warnings, Billed
<1>4. Results' = Results /\ Best(Results)' = Best(Results)
  <2>1. Replayed' = Replayed
    BY DEF Replayed, Billed
  <2>2. \A b, q : ReplayBaseline(b, q)' = ReplayBaseline(b, q)
    BY DEF ReplayBaseline, SimulatedCost
  <2>3. Results' = [b \in Baselines |-> ReplayBaseline(b, Replayed)']
    BY DEF Results
  <2>4. \A b : ReplayBaseline(b, Replayed)' = ReplayBaseline(b, Replayed)
    BY <2>1, <2>2 DEF ReplayBaseline, SimulatedCost
  <2>5. Results' = Results
    BY <2>3, <2>4 DEF Results
  <2> QED  BY <2>5 DEF Best
<1>5. \A cs : Recommend(cs)' = Recommend(cs)
  BY DEF Recommend, Approval
<1>6. forecast' = forecast => Found' = Found
  BY DEF Found, Evaluate, PointsForItem, Net, BindingConstraints, RiskBand
<1> QED  BY <1>1, <1>2, <1>3, <1>4, <1>5, <1>6

LEMMA ForecastStep ==
  ASSUME EconomicsInv, Forecast
  PROVE  EconomicsInv'
<1>1. /\ forecast = None /\ forecast' = [points |-> ForecastPoints, warnings |-> Warnings]
      /\ UNCHANGED <<history, policy, items>>
      /\ candidates' = candidates /\ recommendation' = recommendation /\ replay' = replay
  BY DEF Forecast
<1>2. EvidenceOK' /\ ForecastOK'
  BY <1>1, EvidenceStays DEF EconomicsInv, ForecastOK
<1>3. CandidatesOK'
  <2>1. candidates = <<>> /\ recommendation = Recommend(candidates)
    BY <1>1 DEF EconomicsInv, CandidatesOK
  <2>2. recommendation' = Recommend(candidates)'
    BY <1>1, <2>1 DEF Recommend
  <2> QED  BY <1>1, <2>1, <2>2 DEF CandidatesOK
<1>4. ReplayOK'
  BY <1>1, EvidenceStays DEF EconomicsInv, ReplayOK
<1> QED  BY <1>2, <1>3, <1>4 DEF EconomicsInv

LEMMA OptimizeStep ==
  ASSUME EconomicsInv, Optimize
  PROVE  EconomicsInv'
<1>1. /\ forecast # None /\ candidates' = Sorted(Found)
      /\ recommendation' = Recommend(Sorted(Found))
      /\ UNCHANGED <<history, policy, items>> /\ forecast' = forecast /\ replay' = replay
  BY DEF Optimize
<1>2. EvidenceOK' /\ ForecastOK' /\ ReplayOK'
  BY <1>1, EvidenceStays DEF EconomicsInv, ForecastOK, ReplayOK
<1>3. CandidatesOK'
  <2>1. Found' = Found
    BY <1>1, EvidenceStays
  <2>2. Sorted(Found)' = Sorted(Found)
    BY <2>1 DEF Sorted, Ahead, Before, Feasible
  <2>3. Recommend(candidates)' = Recommend(Sorted(Found))
    BY <1>1 DEF Recommend, Approval
  <2> QED  BY <1>1, <2>2, <2>3 DEF CandidatesOK
<1> QED  BY <1>2, <1>3 DEF EconomicsInv

LEMMA BacktestStep ==
  ASSUME EconomicsInv, Backtest
  PROVE  EconomicsInv'
<1>1. /\ replay' = [results |-> Results, best |-> Best(Results)]
      /\ UNCHANGED <<history, policy, items>> /\ forecast' = forecast
      /\ candidates' = candidates /\ recommendation' = recommendation
  BY DEF Backtest
<1>2. EvidenceOK' /\ ForecastOK' /\ ReplayOK'
  BY <1>1, EvidenceStays DEF EconomicsInv, ForecastOK, ReplayOK
<1>3. CandidatesOK'
  <2>1. Found' = Found
    BY <1>1, EvidenceStays
  <2>2. Sorted(Found)' = Sorted(Found)
    BY <2>1 DEF Sorted, Ahead, Before, Feasible
  <2>3. Recommend(candidates)' = Recommend(candidates)
    BY <1>1 DEF Recommend, Approval
  <2> QED  BY <1>1, <2>2, <2>3 DEF EconomicsInv, CandidatesOK
<1> QED  BY <1>2, <1>3 DEF EconomicsInv

LEMMA EconomicsStutters ==
  ASSUME EconomicsInv, UNCHANGED economicVars
  PROVE  EconomicsInv'
<1>1. /\ UNCHANGED <<history, policy, items>> /\ forecast' = forecast /\ replay' = replay
      /\ candidates' = candidates /\ recommendation' = recommendation
  BY DEF economicVars
<1>2. EvidenceOK' /\ ForecastOK' /\ ReplayOK'
  BY <1>1, EvidenceStays DEF EconomicsInv, ForecastOK, ReplayOK
<1>3. CandidatesOK'
  <2>1. Found' = Found
    BY <1>1, EvidenceStays
  <2>2. Sorted(Found)' = Sorted(Found)
    BY <2>1 DEF Sorted, Ahead, Before, Feasible
  <2>3. Recommend(candidates)' = Recommend(candidates)
    BY <1>1 DEF Recommend, Approval
  <2> QED  BY <1>1, <2>2, <2>3 DEF EconomicsInv, CandidatesOK
<1> QED  BY <1>2, <1>3 DEF EconomicsInv

\* The invariant has every part of what the run checks.
LEMMA EconomicsInvIsEnough ==
  ASSUME EconomicsInv
  PROVE  MoneyIsRight
<1>1. RecommendationIsSound /\ ReplayIsSound
  BY RecommendationSound, ReplaySound DEF EconomicsInv
<1>2. EconomicsTypeOK
  BY RecommendationSound, ReplaySound DEF EconomicsInv, EconomicsTypeOK
<1> QED  BY <1>1, <1>2 DEF MoneyIsRight

\* Whatever was billed, and whatever the policy and the price items are: the forecast of
\* the worker, the candidate it recommends and the replay of a backtest are sound.
THEOREM MoneyIsAlwaysRight == EconomicsSpec => []MoneyIsRight
<1>1. EconomicsInit => EconomicsInv
  BY EconomicsStarts
<1>2. EconomicsInv /\ [EconomicsNext]_economicVars => EconomicsInv'
  BY ForecastStep, OptimizeStep, BacktestStep, EconomicsStutters DEF EconomicsNext
<1>3. EconomicsInv => MoneyIsRight
  BY EconomicsInvIsEnough
<1> QED  BY <1>1, <1>2, <1>3, PTL DEF EconomicsSpec
=============================================================================
