---------------------------- MODULE OptimizerRuns ----------------------------
(***************************************************************************)
(* Optimizer runs from the API call that freezes their inputs to the       *)
(* terminal status the worker gives them (core/optimizer-runs and the      *)
(* triggers of db/migrations/0018).                                        *)
(*                                                                         *)
(* Three kinds of process share the database and the object store: API     *)
(* handlers that create runs, worker processes that claim and compute      *)
(* them, and the users who change the policies and price tables a run      *)
(* refers to.  Every statement of the code that commits on its own is a    *)
(* step of its own; the row locks a statement takes are explicit where     *)
(* another process can wait for them.  Any statement may fail before or    *)
(* after it took effect, and a worker may die between any two of them.     *)
(***************************************************************************)
EXTENDS Naturals, FiniteSets

CONSTANTS
    Handlers,   \* API requests in flight at once
    Workers,    \* worker processes
    Runs,       \* identifiers randomUUID may give a run
    Forecasts,  \* forecast runs
    Policies,   \* optimizer policies
    Prices,     \* price table versions of the one instrument modelled
    NoRun,      \* the run of a process that has none
    NoWorker,   \* the holder of a run nobody processes
    MayCrash    \* whether a worker may die, or lose its last write

ASSUME OptimizerRunsAssumption ==
    /\ NoRun \notin Runs
    /\ NoWorker \notin Workers
    /\ Forecasts # {} /\ Policies # {}
    /\ MayCrash \in BOOLEAN

VARIABLES
    forecasts,        \* forecasts[f]: status of a forecast run
    policies,         \* policies[p]: status of an optimizer policy
    prices,           \* prices[v]: status and age of a price table version
    rows,             \* rows[r]: the optimizer_runs row of r
    recommendations,  \* recommendations[r]: rows of recommendations for r
    objects,          \* <<run, artifact>> pairs in the object store
    stamp,            \* the next created_at
    request,          \* request[h]: what handler h is doing
    worker            \* worker[w]: what worker w is doing

catalogVars == <<forecasts, policies, prices>>
vars == <<catalogVars, rows, recommendations, objects, stamp, request, worker>>

-----------------------------------------------------------------------------
(* States *)

Artifacts == {"input", "frontier", "output"}
Outcomes == {"completed", "failed", "infeasible"}
RowStatuses == {"absent", "queued", "running"} \cup Outcomes

\* An optimizer_runs row; "absent" stands for no row.
Row == [status : RowStatuses, forecast : Forecasts, policy : Policies,
        prices : SUBSET Prices, createdAt : Nat]

\* The reads of resolveInputs that a request still has to make, and the row
\* it will insert.
Inputs == {"forecast", "policy", "prices"}
Request == [pc : {"idle", "resolve", "snapshot", "insert", "commit"},
            todo : SUBSET Inputs, explicit : BOOLEAN, run : Runs \cup {NoRun},
            row : Row]

Processing == {"read", "frontier", "infeasible", "output", "recommend",
               "complete", "fail"}
Worker == [pc : {"idle", "claim"} \cup Processing, run : Runs \cup {NoRun}]

NoRow == [status |-> "absent", forecast |-> CHOOSE f \in Forecasts : TRUE,
          policy |-> CHOOSE p \in Policies : TRUE, prices |-> {}, createdAt |-> 0]
IdleRequest == [pc |-> "idle", todo |-> {}, explicit |-> FALSE, run |-> NoRun,
                row |-> NoRow]
IdleWorker == [pc |-> "idle", run |-> NoRun]

Active(p) == prices[p].status = "active"

\* Fault: the trigger reads the policy without FOR SHARE.
NeverLocked(p) == FALSE

\* enforce_optimizer_run_lifecycle takes FOR SHARE locks on the forecast and
\* the policy of an inserted row and keeps them until the insert commits.
Locked(p) == \E h \in Handlers : request[h].pc = "commit" /\ request[h].row.policy = p

TypeOK ==
    /\ forecasts \in [Forecasts -> {"running", "completed", "failed"}]
    /\ policies \in [Policies -> {"draft", "active", "archived"}]
    /\ prices \in [Prices -> [status : {"draft", "active", "blocked"}, stale : BOOLEAN]]
    /\ rows \in [Runs -> Row]
    /\ recommendations \in [Runs -> Nat]
    /\ objects \subseteq Runs \X Artifacts
    /\ stamp \in Nat
    /\ request \in [Handlers -> Request]
    /\ worker \in [Workers -> Worker]

\* Before the first run: policies and price tables as their owners left them.
Init ==
    /\ forecasts \in [Forecasts -> {"running", "completed", "failed"}]
    /\ policies = [p \in Policies |-> "draft"]
    /\ prices = [p \in Prices |-> [status |-> "draft", stale |-> FALSE]]
    /\ rows = [r \in Runs |-> NoRow]
    /\ recommendations = [r \in Runs |-> 0]
    /\ objects = {}
    /\ stamp = 0
    /\ request = [h \in Handlers |-> IdleRequest]
    /\ worker = [w \in Workers |-> IdleWorker]

-----------------------------------------------------------------------------
(* The catalog: other users' calls and time *)

\* completeForecastRun and failForecastRun, one statement each.
EndForecast(f) ==
    /\ forecasts[f] = "running"
    /\ \E outcome \in {"completed", "failed"} :
           forecasts' = [forecasts EXCEPT ![f] = outcome]
    /\ UNCHANGED <<policies, prices, rows, recommendations, objects, stamp,
                   request, worker>>

\* PATCH of a policy's status: draft to active or archived, active to
\* archived, nothing after.  The UPDATE waits for the share lock of an insert.
PatchPolicy(p, to) ==
    /\ \/ policies[p] = "draft" /\ to \in {"active", "archived"}
       \/ policies[p] = "active" /\ to = "archived"
    /\ ~Locked(p)
    /\ policies' = [policies EXCEPT ![p] = to]
    /\ UNCHANGED <<forecasts, prices, rows, recommendations, objects, stamp,
                   request, worker>>

\* POST activate: a fresh draft becomes active, a stale draft or active
\* table becomes blocked.
ActivatePriceTable(p) ==
    /\ \/ /\ ~prices[p].stale /\ prices[p].status = "draft"
          /\ prices' = [prices EXCEPT ![p].status = "active"]
       \/ /\ prices[p].stale /\ prices[p].status \in {"draft", "active"}
          /\ prices' = [prices EXCEPT ![p].status = "blocked"]
    /\ UNCHANGED <<forecasts, policies, rows, recommendations, objects, stamp,
                   request, worker>>

\* effective_from falls behind the cutoff of isStale.
GoStale(p) ==
    /\ ~prices[p].stale
    /\ prices' = [prices EXCEPT ![p].stale = TRUE]
    /\ UNCHANGED <<forecasts, policies, rows, recommendations, objects, stamp,
                   request, worker>>

-----------------------------------------------------------------------------
(* API handlers: createRun *)

Begin(h) ==
    /\ request[h].pc = "idle"
    /\ \E f \in Forecasts, p \in Policies, explicit \in BOOLEAN :
         \E versions \in IF explicit THEN (SUBSET Prices) \ {{}} ELSE {{}} :
           request' = [request EXCEPT ![h] =
               [pc |-> "resolve", todo |-> Inputs, explicit |-> explicit, run |-> NoRun,
                row |-> [NoRow EXCEPT !.forecast = f, !.policy = p, !.prices = versions]]]
    /\ UNCHANGED <<catalogVars, rows, recommendations, objects, stamp, worker>>

\* The reads resolveInputs makes in parallel, in any order.
Resolve(h, input, found) ==
    /\ request[h].pc = "resolve"
    /\ input \in request[h].todo
    /\ request' = [request EXCEPT ![h] =
           [request[h] EXCEPT !.todo = @ \ {input},
                               !.row.prices = found,
                               !.pc = IF request[h].todo = {input} THEN "snapshot" ELSE "resolve"]]
    /\ UNCHANGED <<catalogVars, rows, recommendations, objects, stamp, worker>>

ResolveForecast(h) ==
    /\ forecasts[request[h].row.forecast] = "completed"
    /\ Resolve(h, "forecast", request[h].row.prices)

ResolvePolicy(h) ==
    /\ policies[request[h].row.policy] = "active"
    /\ Resolve(h, "policy", request[h].row.prices)

\* Versions named by the caller must all be active; otherwise every active
\* version is taken, and there must be one.
ResolvePrices(h) ==
    LET active == {p \in Prices : Active(p)}
    IN  IF request[h].explicit
        THEN /\ request[h].row.prices \subseteq active
             /\ Resolve(h, "prices", request[h].row.prices)
        ELSE /\ active # {}
             /\ Resolve(h, "prices", active)

\* The input snapshot is stored under a fresh id; the put may report an
\* error after it took effect.
WriteSnapshot(h) ==
    /\ request[h].pc = "snapshot"
    /\ \E r \in Runs :
         /\ <<r, "input">> \notin objects
         /\ objects' = objects \cup {<<r, "input">>}
         /\ \/ request' = [request EXCEPT ![h].pc = "insert", ![h].run = r]
            \/ request' = [request EXCEPT ![h] = IdleRequest]
    /\ UNCHANGED <<catalogVars, rows, recommendations, stamp, worker>>

\* The INSERT with its trigger: the forecast and the policy are checked under
\* share locks, the active price versions are counted without one.
InsertRow(h) ==
    /\ request[h].pc = "insert"
    /\ forecasts[request[h].row.forecast] = "completed"
    /\ policies[request[h].row.policy] = "active"
    /\ \A p \in request[h].row.prices : Active(p)
    /\ request' = [request EXCEPT ![h].pc = "commit", ![h].row.createdAt = stamp]
    /\ stamp' = stamp + 1
    /\ UNCHANGED <<catalogVars, rows, recommendations, objects, worker>>

CommitRow(h) ==
    /\ request[h].pc = "commit"
    /\ rows' = [rows EXCEPT ![request[h].run] = [request[h].row EXCEPT !.status = "queued"]]
    /\ request' = [request EXCEPT ![h] = IdleRequest]
    /\ UNCHANGED <<catalogVars, recommendations, objects, stamp, worker>>

\* A failed check, a failed statement or a dead API process ends the call.
\* The snapshot of a run that was not inserted stays in the store.
RequestFails(h) ==
    /\ request[h].pc # "idle"
    /\ request' = [request EXCEPT ![h] = IdleRequest]
    /\ UNCHANGED <<catalogVars, rows, recommendations, objects, stamp, worker>>

-----------------------------------------------------------------------------
(* Workers: processNext *)

Goto(w, pc) == worker' = [worker EXCEPT ![w].pc = pc]
Stop(w) == worker' = [worker EXCEPT ![w] = IdleWorker]
SetStatus(r, s) == rows' = [rows EXCEPT ![r].status = s]

\* SELECT ... FOR UPDATE SKIP LOCKED: the oldest queued row no other claim holds.
Claimable == {r \in Runs : /\ rows[r].status = "queued"
                           /\ \A w \in Workers : worker[w].pc = "claim" => worker[w].run # r}

LockOldest(w) ==
    /\ worker[w].pc = "idle"
    /\ \E r \in Claimable :
         /\ \A s \in Claimable : rows[r].createdAt <= rows[s].createdAt
         /\ worker' = [worker EXCEPT ![w] = [pc |-> "claim", run |-> r]]
    /\ UNCHANGED <<catalogVars, rows, recommendations, objects, stamp, request>>

\* UPDATE ... WHERE status = 'queued', and the commit.
CommitClaim(w) ==
    /\ worker[w].pc = "claim"
    /\ IF rows[worker[w].run].status = "queued"
       THEN SetStatus(worker[w].run, "running") /\ Goto(w, "read")
       ELSE UNCHANGED rows /\ Stop(w)
    /\ UNCHANGED <<catalogVars, recommendations, objects, stamp, request>>

\* A failed claim transaction rolls back and the cycle logs it.
AbortClaim(w) ==
    /\ worker[w].pc = "claim"
    /\ Stop(w)
    /\ UNCHANGED <<catalogVars, rows, recommendations, objects, stamp, request>>

\* The snapshot, the forecast artifact and the price items are read and the
\* candidates computed.
ReadInputs(w) ==
    /\ worker[w].pc = "read"
    /\ <<worker[w].run, "input">> \in objects
    /\ Goto(w, "frontier")
    /\ UNCHANGED <<catalogVars, rows, recommendations, objects, stamp, request>>

\* A put that succeeds, or takes effect and still reports an error.
Put(w, artifact, next) ==
    /\ objects' = objects \cup {<<worker[w].run, artifact>>}
    /\ \E pc \in next \cup {"fail"} : Goto(w, pc)
    /\ UNCHANGED <<catalogVars, rows, recommendations, stamp, request>>

\* The frontier is stored whether or not a candidate is feasible.
PutFrontier(w) ==
    /\ worker[w].pc = "frontier"
    /\ Put(w, "frontier", {"infeasible", "output"})

PutOutput(w) ==
    /\ worker[w].pc = "output"
    /\ Put(w, "output", {"recommend"})

\* insertRecommendation commits on its own.
InsertRecommendation(w) ==
    /\ worker[w].pc = "recommend"
    /\ recommendations' = [recommendations EXCEPT ![worker[w].run] = @ + 1]
    /\ \E pc \in {"complete", "fail"} : Goto(w, pc)
    /\ UNCHANGED <<catalogVars, rows, objects, stamp, request>>

\* Fault: the update is not restricted to running rows.
FinishUnguarded(w, outcome) ==
    /\ SetStatus(worker[w].run, outcome)
    /\ UNCHANGED <<catalogVars, recommendations, objects, stamp, request>>

\* UPDATE ... WHERE status = 'running'; the caller does not look at the count.
Finish(w, outcome) ==
    /\ IF rows[worker[w].run].status = "running"
       THEN SetStatus(worker[w].run, outcome)
       ELSE UNCHANGED rows
    /\ UNCHANGED <<catalogVars, recommendations, objects, stamp, request>>

CompleteOptimizerRun(w) ==
    /\ worker[w].pc = "complete"
    /\ Finish(w, "completed")
    /\ Stop(w) \/ Goto(w, "fail")

MarkOptimizerRunInfeasible(w) ==
    /\ worker[w].pc = "infeasible"
    /\ Finish(w, "infeasible")
    /\ Stop(w) \/ Goto(w, "fail")

\* Fault: a run that has failed is tried once more.
FailOptimizerRunAndRetry(w) ==
    /\ worker[w].pc = "fail"
    /\ Finish(w, "failed")
    /\ Stop(w) \/ Goto(w, "read")

\* The catch block, also after a write that took effect and reported an error.
FailOptimizerRun(w) ==
    /\ worker[w].pc = "fail"
    /\ Finish(w, "failed")
    /\ Stop(w)

\* Fault: the catch block only logs.
StepFailsSilently(w) ==
    /\ worker[w].pc \in Processing \ {"fail"}
    /\ Stop(w)
    /\ UNCHANGED <<catalogVars, rows, recommendations, objects, stamp, request>>

\* A statement that fails without effect is caught and leads to the fail write.
StepFails(w) ==
    /\ worker[w].pc \in Processing \ {"fail"}
    /\ Goto(w, "fail")
    /\ UNCHANGED <<catalogVars, rows, recommendations, objects, stamp, request>>

\* The process dies, or the fail write itself fails and its error propagates.
Crash(w) ==
    /\ MayCrash
    /\ worker[w].pc # "idle"
    /\ Stop(w)
    /\ UNCHANGED <<catalogVars, rows, recommendations, objects, stamp, request>>

-----------------------------------------------------------------------------

CatalogStep ==
    \/ \E f \in Forecasts : EndForecast(f)
    \/ \E p \in Policies, to \in {"active", "archived"} : PatchPolicy(p, to)
    \/ \E p \in Prices : ActivatePriceTable(p) \/ GoStale(p)

HandlerStep(h) ==
    \/ Begin(h) \/ ResolveForecast(h) \/ ResolvePolicy(h) \/ ResolvePrices(h)
    \/ WriteSnapshot(h) \/ InsertRow(h) \/ CommitRow(h) \/ RequestFails(h)

Process(w) ==
    \/ LockOldest(w) \/ CommitClaim(w) \/ ReadInputs(w) \/ PutFrontier(w)
    \/ PutOutput(w) \/ InsertRecommendation(w) \/ CompleteOptimizerRun(w)
    \/ MarkOptimizerRunInfeasible(w) \/ FailOptimizerRun(w)

WorkerFault(w) == AbortClaim(w) \/ StepFails(w) \/ Crash(w)

Next ==
    \/ CatalogStep
    \/ \E h \in Handlers : HandlerStep(h)
    \/ \E w \in Workers : Process(w) \/ WorkerFault(w)

Spec == Init /\ [][Next]_vars

\* The worker loop polls forever and each awaited statement settles, so every
\* worker keeps taking its own steps; a claim transaction tried again and again
\* commits at last.  Handlers and users owe nothing.
FairSpec ==
    /\ Spec
    /\ \A w \in Workers : WF_vars(Process(w)) /\ SF_vars(CommitClaim(w))

-----------------------------------------------------------------------------
(* Properties *)

\* A queued run can always be read back by the worker: createRun stores the
\* snapshot before it inserts the row, whatever fails in between.
SnapshotBeforeRow ==
    \A r \in Runs : rows[r].status # "absent" => <<r, "input">> \in objects

\* What a reader of the API sees is backed by what was stored: a completed run
\* has both artifacts and exactly one recommendation, an infeasible one its
\* frontier and none.
OutcomeMatchesEvidence ==
    \A r \in Runs :
        /\ rows[r].status = "completed" =>
               /\ {<<r, "frontier">>, <<r, "output">>} \subseteq objects
               /\ recommendations[r] = 1
        /\ rows[r].status = "infeasible" =>
               <<r, "frontier">> \in objects /\ recommendations[r] = 0

\* No run yields two recommendations, and one that exists (also of a run whose
\* completion failed) has the frontier its explanation links to.
RecommendationIsBacked ==
    \A r \in Runs :
        /\ recommendations[r] <= 1
        /\ recommendations[r] = 1 =>
               /\ {<<r, "frontier">>, <<r, "output">>} \subseteq objects
               /\ rows[r].status \in {"running", "completed", "failed"}

\* The claim gives a run to one worker: two workers never process the same run,
\* and a terminal run is never processed again except to record its failure.
SingleProcessor ==
    \A v, w \in Workers :
        /\ worker[w].pc \in Processing /\ worker[v].pc # "idle" /\ v # w =>
               worker[v].run # worker[w].run
        /\ worker[w].pc \in Processing \ {"fail"} => rows[worker[w].run].status = "running"

\* A run's row is backed by what is stored, and one worker has it.
RunsAreConsistent ==
    TypeOK /\ SnapshotBeforeRow /\ OutcomeMatchesEvidence /\ RecommendationIsBacked /\ SingleProcessor

\* A run enters the queue only while its policy is active and its forecast
\* completed: the share locks of the trigger hold until the insert commits.
InputsValidWhenQueued ==
    [][\A r \in Runs : rows[r].status = "absent" /\ rows'[r].status # "absent" =>
           /\ policies'[rows'[r].policy] = "active"
           /\ forecasts'[rows'[r].forecast] = "completed"]_vars

\* docs/price-fixtures.md: a stale active table blocks affected recommendations.
StalePricesBlockRecommendations ==
    [][\A r \in Runs : recommendations'[r] > recommendations[r] =>
           \A p \in rows[r].prices : ~prices[p].stale]_vars

\* Whatever becomes of API calls and other workers, a queued run is claimed.
QueuedRunIsClaimed ==
    \A r \in Runs : rows[r].status = "queued" ~> rows[r].status # "queued"

\* As long as no worker dies, a claimed run reaches a terminal status.
ClaimedRunEnds ==
    \A r \in Runs : rows[r].status = "running" ~> rows[r].status \in Outcomes

-----------------------------------------------------------------------------
(* The promise of JobLifecycle *)

Holds(w, r) ==
    worker[w].pc \in Processing /\ worker[w].run = r /\ rows[r].status = "running"

Holder == [r \in Runs |-> IF \E w \in Workers : Holds(w, r)
                          THEN CHOOSE w \in Workers : Holds(w, r)
                          ELSE NoWorker]

Lifecycle == INSTANCE JobLifecycle
    WITH Jobs <- Runs, status <- [r \in Runs |-> rows[r].status], holder <- Holder

\* Claims, crashes, lost replies and late failures included, a run's row goes
\* through the lifecycle of a job: taken once, ended once by its taker.
ImplementsJobLifecycle == Lifecycle!JobSpec
=============================================================================
