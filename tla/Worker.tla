-------------------------------- MODULE Worker --------------------------------
(***************************************************************************)
(* Worker processes (apps/worker) and the two queues they serve besides    *)
(* the optimizer's: forecast runs (core/forecasting) and backtest runs     *)
(* (core/backtests).  A process runs a cycle of five stages when it starts *)
(* and then at every tick of its poller; each stage takes at most one job. *)
(* A stage that throws ends the cycle, and the first cycle ends the        *)
(* process.  The stages modelled elsewhere only succeed or throw here.     *)
(***************************************************************************)
EXTENDS Naturals, FiniteSets, Sequences

CONSTANTS
    Workers,     \* worker processes
    Forecasts,   \* ids of forecast runs
    Backtests,   \* ids of backtest runs
    NoJob,       \* the job of a worker that has none
    Broken,      \* stages that throw in every cycle
    MayFail      \* whether processes die and calls fail

\* Fault: the adapters come before the queues.
StagesAdaptersEarly == <<"optimizers", "adapters", "forecasts", "approvals", "backtests">>

Stages == <<"forecasts", "optimizers", "approvals", "backtests", "adapters">>

ASSUME WorkerAssumption ==
    /\ Forecasts \cap Backtests = {}
    /\ NoJob \notin Forecasts \cup Backtests \cup Workers
    /\ Broken \subseteq {Stages[i] : i \in 2 .. 5}
    /\ MayFail \in BOOLEAN

Jobs == Forecasts \cup Backtests

VARIABLES
    modelActive,  \* the forecast model of the runs: its row and its status
    status,       \* status[j]: the status of the row of run j
    objects,      \* what the object store has: <<j, "input">>, <<j, "output">>
    reports,      \* reports[j]: report snapshots whose source is j
    app           \* app[w]: the process of worker w

vars == <<modelActive, status, objects, reports, app>>

-----------------------------------------------------------------------------
(* States *)

\* stage: the stage the cycle is at, 0 between cycles.  job: what the stage is
\* working on, and pc how far it is.
App == [state : {"down", "starting", "polling", "closing", "stopped"}, stage : 0 .. 5,
        pc : {"claim", "work", "complete", "fail"}, job : Jobs \cup {NoJob}]

Down == [state |-> "down", stage |-> 0, pc |-> "claim", job |-> NoJob]

TypeOK ==
    /\ modelActive \in BOOLEAN
    /\ status \in [Jobs -> {"absent", "queued", "running", "completed", "failed"}]
    /\ objects \subseteq Jobs \X {"input", "output"}
    /\ reports \in [Jobs -> 0 .. 1]
    /\ app \in [Workers -> App]

Init ==
    /\ modelActive = FALSE
    /\ status = [j \in Jobs |-> "absent"]
    /\ objects = {}
    /\ reports = [j \in Jobs |-> 0]
    /\ app = [w \in Workers |-> Down]

-----------------------------------------------------------------------------
(* API handlers *)

\* createModel: inserted as a draft and activated in one transaction.
CreateModel ==
    /\ ~modelActive
    /\ modelActive' = TRUE
    /\ UNCHANGED <<status, objects, reports, app>>

\* createRun: the trigger wants an active model.
CreateForecastRun(j) ==
    /\ status[j] = "absent"
    /\ modelActive
    /\ status' = [status EXCEPT ![j] = "queued"]
    /\ UNCHANGED <<modelActive, objects, reports, app>>

\* createRun of the backtests service puts the input snapshot, which takes a
\* policy that is active, and then inserts the row; it may die in between.
WriteInputSnapshot(j) ==
    /\ status[j] = "absent"
    /\ objects' = objects \cup {<<j, "input">>}
    /\ UNCHANGED <<modelActive, status, reports, app>>

CreateBacktest(j) ==
    /\ <<j, "input">> \in objects
    /\ status[j] = "absent"
    /\ status' = [status EXCEPT ![j] = "queued"]
    /\ UNCHANGED <<modelActive, objects, reports, app>>

-----------------------------------------------------------------------------
(* The cycle: start, the poller, runCycle, close *)

StageOf(w) == Stages[app[w].stage]
Queue(w) == IF StageOf(w) = "forecasts" THEN Forecasts
            ELSE IF StageOf(w) = "backtests" THEN Backtests ELSE {}

\* The job of w is done: the next stage, or the end of the cycle.
Next1(a) ==
    IF a.stage < 5 THEN [a EXCEPT !.stage = @ + 1, !.pc = "claim", !.job = NoJob]
    ELSE [a EXCEPT !.stage = 0, !.pc = "claim", !.job = NoJob,
                   !.state = IF @ = "starting" THEN "polling" ELSE @]

Advance(w) == app' = [app EXCEPT ![w] = Next1(app[w])]

\* A stage throws: runCycle rejects.  start() fails and bootstrapWorker closes
\* the resources; later cycles are logged, and the next tick begins anew.
Throw(w) ==
    app' = [app EXCEPT ![w] =
              IF @.state = "starting" THEN Down
              ELSE [@ EXCEPT !.stage = 0, !.pc = "claim", !.job = NoJob]]

\* start(): the process comes up and runs its first cycle.
Start(w) ==
    /\ app[w].state \in {"down", "stopped"}
    /\ app' = [app EXCEPT ![w] = [Down EXCEPT !.state = "starting", !.stage = 1]]
    /\ UNCHANGED <<modelActive, status, objects, reports>>

\* The timer fires; a tick during a cycle does nothing.
Tick(w) ==
    /\ app[w].state = "polling"
    /\ app[w].stage = 0
    /\ app' = [app EXCEPT ![w].stage = 1]
    /\ UNCHANGED <<modelActive, status, objects, reports>>

\* SIGTERM: close() stops the poller and waits for the cycle under way.  The handlers are
\* installed once start() is over; before, the signal ends the process (Crash).
Close(w) ==
    /\ app[w].state = "polling"
    /\ app' = [app EXCEPT ![w].state = "closing"]
    /\ UNCHANGED <<modelActive, status, objects, reports>>

CloseResources(w) ==
    /\ app[w].state = "closing"
    /\ app[w].stage = 0
    /\ app' = [app EXCEPT ![w].state = "stopped"]
    /\ UNCHANGED <<modelActive, status, objects, reports>>

\* The optimizer, the approvals and the adapters.
OtherStage(w) ==
    /\ app[w].stage # 0
    /\ Queue(w) = {}
    /\ StageOf(w) \notin Broken
    /\ Advance(w)
    /\ UNCHANGED <<modelActive, status, objects, reports>>

BrokenStage(w) ==
    /\ app[w].stage # 0
    /\ StageOf(w) \in Broken \/ (MayFail /\ Queue(w) = {})
    /\ Throw(w)
    /\ UNCHANGED <<modelActive, status, objects, reports>>

Crash(w) ==
    /\ MayFail
    /\ app[w].state # "down"
    /\ app' = [app EXCEPT ![w] = Down]
    /\ UNCHANGED <<modelActive, status, objects, reports>>

-----------------------------------------------------------------------------
(* A stage with a queue: claim, work, complete or fail *)

\* claimNextQueuedRun, claimNextQueuedBacktest: one transaction, SKIP LOCKED.
Claim(w, j) ==
    /\ app[w].stage # 0 /\ app[w].pc = "claim"
    /\ StageOf(w) \notin Broken
    /\ j \in Queue(w)
    /\ status[j] = "queued"
    /\ status' = [status EXCEPT ![j] = "running"]
    /\ app' = [app EXCEPT ![w].pc = "work", ![w].job = j]
    /\ UNCHANGED <<modelActive, objects, reports>>

ClaimNothing(w) ==
    /\ app[w].stage # 0 /\ app[w].pc = "claim"
    /\ StageOf(w) \notin Broken
    /\ Queue(w) # {}
    /\ \A j \in Queue(w) : status[j] # "queued"
    /\ Advance(w)
    /\ UNCHANGED <<modelActive, status, objects, reports>>

ClaimFails(w) ==
    /\ MayFail
    /\ app[w].stage # 0 /\ app[w].pc = "claim"
    /\ Queue(w) # {}
    /\ Throw(w)
    /\ UNCHANGED <<modelActive, status, objects, reports>>

\* Read the usage (and the input snapshot), compute, put the artifact.
PutArtifact(w) ==
    /\ app[w].pc = "work"
    /\ objects' = objects \cup {<<app[w].job, "output">>}
    /\ app' = [app EXCEPT ![w].pc = "complete"]
    /\ UNCHANGED <<modelActive, status, reports>>

\* Any of these throws, before the object is there or after.
WorkFails(w) ==
    /\ MayFail
    /\ app[w].pc = "work"
    /\ objects' \in {objects, objects \cup {<<app[w].job, "output">>}}
    /\ app' = [app EXCEPT ![w].pc = "fail"]
    /\ UNCHANGED <<modelActive, status, reports>>

\* completeRun: UPDATE ... WHERE status = 'running'.
CompleteForecast(w) ==
    /\ app[w].job \in Forecasts
    /\ status' = IF status[app[w].job] = "running"
                 THEN [status EXCEPT ![app[w].job] = "completed"] ELSE status
    /\ UNCHANGED reports

\* Fault: the two statements are not one transaction, and the second fails.
CompleteBacktestHalf(w) ==
    /\ app[w].job \in Backtests
    /\ status' = [status EXCEPT ![app[w].job] = "completed"]
    /\ UNCHANGED reports

\* completeBacktest: the same update and the report snapshot, one transaction.
CompleteBacktest(w) ==
    /\ app[w].job \in Backtests
    /\ status' = IF status[app[w].job] = "running"
                 THEN [status EXCEPT ![app[w].job] = "completed"] ELSE status
    /\ reports' = [reports EXCEPT ![app[w].job] = @ + 1]

\* COMMIT answers, or it does not and the worker takes it for a failure.
Complete(w) ==
    /\ app[w].pc = "complete"
    /\ CompleteForecast(w) \/ CompleteBacktest(w)
    /\ \/ Advance(w)
       \/ MayFail /\ app' = [app EXCEPT ![w].pc = "fail"]
    /\ UNCHANGED <<modelActive, objects>>

CompleteFails(w) ==
    /\ MayFail
    /\ app[w].pc = "complete"
    /\ app' = [app EXCEPT ![w].pc = "fail"]
    /\ UNCHANGED <<modelActive, status, objects, reports>>

\* Fault: the update does not look at the status.
FailRunAnyway(w) ==
    /\ app[w].pc = "fail"
    /\ status' = [status EXCEPT ![app[w].job] = "failed"]
    /\ Advance(w)
    /\ UNCHANGED <<modelActive, objects, reports>>

\* failRun, failBacktest: UPDATE ... WHERE status = 'running'.
FailRun(w) ==
    /\ app[w].pc = "fail"
    /\ status' = IF status[app[w].job] = "running"
                 THEN [status EXCEPT ![app[w].job] = "failed"] ELSE status
    /\ Advance(w)
    /\ UNCHANGED <<modelActive, objects, reports>>

\* The update fails: the run stays running, and nobody will take it again.
FailRunFails(w) ==
    /\ MayFail
    /\ app[w].pc = "fail"
    /\ Throw(w)
    /\ UNCHANGED <<modelActive, status, objects, reports>>

-----------------------------------------------------------------------------
(* Specification *)

Api ==
    \/ CreateModel
    \/ \E j \in Forecasts : CreateForecastRun(j)
    \/ \E j \in Backtests : WriteInputSnapshot(j) \/ CreateBacktest(j)

Step(w) ==
    \/ Start(w) \/ Tick(w) \/ CloseResources(w) \/ OtherStage(w) \/ BrokenStage(w)
    \/ ClaimNothing(w) \/ ClaimFails(w) \/ \E j \in Jobs : Claim(w, j)
    \/ PutArtifact(w) \/ WorkFails(w) \/ Complete(w) \/ CompleteFails(w)
    \/ FailRun(w) \/ FailRunFails(w)

Next == Api \/ \E w \in Workers : Step(w) \/ Close(w) \/ Crash(w)

Spec == Init /\ [][Next]_vars

\* The poller's timer fires again and again, calls return, and a process that
\* ended is started again (restart: unless-stopped).
FairSpec == Spec /\ \A w \in Workers : WF_vars(Step(w))

-----------------------------------------------------------------------------
(* Properties *)

\* Both queues keep the promise of JobLifecycle: a run is taken once, and ended
\* by the worker that took it, also when the answer of COMMIT is lost.
Holder(j) ==
    IF status[j] = "running" /\ \E w \in Workers : app[w].job = j
    THEN CHOOSE w \in Workers : app[w].job = j ELSE NoJob

Lifecycle == INSTANCE JobLifecycle WITH
    Outcomes <- {"completed", "failed"}, NoWorker <- NoJob,
    holder <- [j \in Jobs |-> Holder(j)]

ImplementsLifecycle == Lifecycle!JobSpec

\* A run is completed only when its artifact is in the store, and a backtest has its
\* report exactly when it is completed, whatever failed in between (the transaction of
\* completeBacktest; failBacktest after a COMMIT whose answer was lost).
CompletedHasEvidence ==
    \A j \in Jobs :
        /\ status[j] = "completed" => <<j, "output">> \in objects
        /\ j \in Backtests => reports[j] = (IF status[j] = "completed" THEN 1 ELSE 0)

\* A backtest that can be claimed has the snapshot the worker will read.
SnapshotBeforeQueue ==
    \A j \in Backtests : status[j] # "absent" => <<j, "input">> \in objects

\* The database and the object store are closed only when no stage is working:
\* a shutdown does not abandon a run (close awaits cycleOperation).
CloseWaitsForCycle == \A w \in Workers : app[w].state = "stopped" => app[w].job = NoJob

\* What a job's row says is stored, and nothing works on without a database.
JobsAreSound == TypeOK /\ CompletedHasEvidence /\ SnapshotBeforeQueue /\ CloseWaitsForCycle

\* A stage that throws in every cycle starves only the stages after it: a
\* queued run is taken although optimizers or adapters, behind it, are broken.
ForecastsAreTaken == \A j \in Forecasts : status[j] = "queued" ~> status[j] # "queued"
BacktestsAreTaken == \A j \in Backtests : status[j] = "queued" ~> status[j] # "queued"
=============================================================================
