------------------------- MODULE OptimizerRuns_proofs -------------------------
(***************************************************************************)
(* The safety properties of OptimizerRuns for every number of handlers,    *)
(* workers, runs and catalog rows, and its refinement of JobLifecycle.     *)
(*                                                                         *)
(* The inductive invariant says what is stored for a run whose row has a   *)
(* status (RunOK), what a worker has already stored for the run it is at   *)
(* (WorkerOK), that no two workers are at one run (Apart), and that a      *)
(* handler about to insert holds the snapshot of a run that has no row yet *)
(* (RequestOK, FreshRuns).  Apart is inductive because a claim needs a     *)
(* queued row, which only a claim can change.                              *)
(*                                                                         *)
(* Of OptimizerPolicies (its part is at the end): what a run took into its *)
(* snapshot, and what an administrator is shown, is the policy's row but   *)
(* for its being archived (Frozen), and stays so under the trigger.        *)
(***************************************************************************)
EXTENDS OptimizerRuns, OptimizerPolicies, TLAPS

RunOK(r) ==
    /\ rows[r].status # "absent" => <<r, "input">> \in objects
    /\ recommendations[r] \in {0, 1}
    /\ rows[r].status \in {"absent", "queued", "infeasible"} => recommendations[r] = 0
    /\ recommendations[r] = 1 => {<<r, "frontier">>, <<r, "output">>} \subseteq objects
    /\ rows[r].status = "completed" => recommendations[r] = 1
    /\ rows[r].status = "infeasible" => <<r, "frontier">> \in objects

\* What worker w knows of run r when it is at pc.
At(pc, r) ==
    /\ r \in Runs
    /\ pc = "claim" => rows[r].status = "queued"
    /\ pc \in Processing \ {"fail"} => rows[r].status = "running"
    /\ pc = "fail" => rows[r].status \in {"running"} \cup Outcomes
    /\ pc \in {"read", "frontier", "infeasible", "output", "recommend"} =>
           recommendations[r] = 0
    /\ pc \in {"infeasible", "output", "recommend", "complete"} => <<r, "frontier">> \in objects
    /\ pc \in {"recommend", "complete"} => <<r, "output">> \in objects
    /\ pc = "complete" => recommendations[r] = 1

WorkerOK(w) == worker[w].pc # "idle" => At(worker[w].pc, worker[w].run)

Apart ==
    \A v, w \in Workers :
        worker[v].pc # "idle" /\ worker[w].pc # "idle" /\ v # w =>
            worker[v].run # worker[w].run

\* A request that has stored its snapshot.
Stored(h) == request[h].pc \in {"insert", "commit"}

RequestOK(h) ==
    /\ Stored(h) => /\ request[h].run \in Runs
                    /\ <<request[h].run, "input">> \in objects
                    /\ rows[request[h].run].status = "absent"
    /\ request[h].pc = "commit" => /\ forecasts[request[h].row.forecast] = "completed"
                                   /\ policies[request[h].row.policy] = "active"

FreshRuns ==
    \A g, h \in Handlers :
        Stored(g) /\ Stored(h) /\ g # h => request[g].run # request[h].run

IInv ==
    /\ TypeOK
    /\ \A r \in Runs : RunOK(r)
    /\ \A w \in Workers : WorkerOK(w)
    /\ Apart
    /\ \A h \in Handlers : RequestOK(h)
    /\ FreshRuns

-----------------------------------------------------------------------------
(* Initial states *)

LEMMA BlankRow == NoRow \in Row /\ NoRow.status = "absent" /\ NoRow.prices = {}
<1>1. (CHOOSE f \in Forecasts : TRUE) \in Forecasts
  BY OptimizerRunsAssumption
<1>2. (CHOOSE p \in Policies : TRUE) \in Policies
  BY OptimizerRunsAssumption
<1>3. QED
  BY <1>1, <1>2 DEF NoRow, Row, RowStatuses

LEMMA Idle == IdleRequest \in Request /\ IdleWorker \in Worker
BY BlankRow DEF IdleRequest, IdleWorker, Request, Worker

LEMMA InitIInv == Init => IInv
<1> SUFFICES ASSUME Init PROVE IInv
  OBVIOUS
<1>1. TypeOK
  BY Idle, BlankRow DEF Init, TypeOK
<1>2. \A r \in Runs : RunOK(r)
  BY BlankRow DEF Init, RunOK
<1>3. \A w \in Workers : worker[w].pc = "idle"
  BY DEF Init, IdleWorker
<1>4. \A h \in Handlers : request[h].pc = "idle"
  BY DEF Init, IdleRequest
<1>5. QED
  BY <1>1, <1>2, <1>3, <1>4 DEF IInv, WorkerOK, Apart, RequestOK, FreshRuns, Stored

-----------------------------------------------------------------------------
(* Users: catalog steps *)

\* A step of the catalog leaves runs alone, and what a commit relies on.
LEMMA CatalogFrame ==
    ASSUME IInv, TypeOK',
           UNCHANGED <<rows, recommendations, objects, request, worker>>,
           \A h \in Handlers : request[h].pc = "commit" =>
               /\ forecasts'[request[h].row.forecast] = "completed"
               /\ policies'[request[h].row.policy] = "active"
    PROVE  IInv'
<1>1. \A r \in Runs : RunOK(r)'
  BY DEF IInv, RunOK
<1>2. \A w \in Workers : WorkerOK(w)'
  BY DEF IInv, WorkerOK, At
<1>3. Apart' /\ FreshRuns'
  BY DEF IInv, Apart, FreshRuns, Stored
<1>4. \A h \in Handlers : RequestOK(h)'
  BY DEF IInv, RequestOK, Stored
<1>5. QED
  BY <1>1, <1>2, <1>3, <1>4 DEF IInv

LEMMA CatalogInv == IInv /\ CatalogStep => IInv'
<1> SUFFICES ASSUME IInv, CatalogStep PROVE IInv'
  OBVIOUS
<1>0. \A h \in Handlers : request[h].row \in Row
  BY DEF IInv, TypeOK, Request
<1>1. ASSUME NEW f \in Forecasts, EndForecast(f) PROVE IInv'
  <2>1. TypeOK'
    BY <1>1 DEF IInv, TypeOK, EndForecast
  <2>2. \A h \in Handlers : request[h].pc = "commit" =>
            /\ forecasts'[request[h].row.forecast] = "completed"
            /\ policies'[request[h].row.policy] = "active"
    <3> SUFFICES ASSUME NEW h \in Handlers, request[h].pc = "commit"
                 PROVE  /\ forecasts'[request[h].row.forecast] = "completed"
                        /\ policies'[request[h].row.policy] = "active"
      OBVIOUS
    <3>1. /\ forecasts[request[h].row.forecast] = "completed"
          /\ policies[request[h].row.policy] = "active"
          /\ request[h].row.forecast \in Forecasts
      BY <1>0 DEF IInv, RequestOK, Row
    <3>2. forecasts[f] = "running" /\ policies' = policies
          /\ \A g \in Forecasts \ {f} : forecasts'[g] = forecasts[g]
      BY <1>1 DEF IInv, TypeOK, EndForecast
    <3>3. QED
      BY <3>1, <3>2
  <2>3. QED
    BY <1>1, <2>1, <2>2, CatalogFrame DEF EndForecast
<1>2. ASSUME NEW p \in Policies, NEW to \in {"active", "archived"}, PatchPolicy(p, to)
      PROVE  IInv'
  <2>1. TypeOK'
    BY <1>2 DEF IInv, TypeOK, PatchPolicy
  <2>2. \A h \in Handlers : request[h].pc = "commit" =>
            /\ forecasts'[request[h].row.forecast] = "completed"
            /\ policies'[request[h].row.policy] = "active"
    BY <1>0, <1>2 DEF IInv, TypeOK, PatchPolicy, Locked, RequestOK, Row
  <2>3. QED
    BY <1>2, <2>1, <2>2, CatalogFrame DEF PatchPolicy
<1>3. ASSUME NEW p \in Prices, ActivatePriceTable(p) \/ GoStale(p) PROVE IInv'
  <2> DEFINE Table == [status : {"draft", "active", "blocked"}, stale : BOOLEAN]
  <2>1. /\ UNCHANGED <<rows, recommendations, objects, stamp, request, worker>>
        /\ UNCHANGED <<forecasts, policies>>
    BY <1>3 DEF ActivatePriceTable, GoStale
  <2>2. prices \in [Prices -> Table] /\ prices[p] \in Table
    BY DEF IInv, TypeOK
  <2>3. PICK t \in Table : prices' = [prices EXCEPT ![p] = t]
    <3>1. /\ [prices[p] EXCEPT !.status = "active"] \in Table
          /\ [prices[p] EXCEPT !.status = "blocked"] \in Table
          /\ [prices[p] EXCEPT !.stale = TRUE] \in Table
      BY <2>2
    <3> HIDE DEF Table
    <3>2. QED
      BY <1>3, <3>1 DEF ActivatePriceTable, GoStale
  <2>4. prices' \in [Prices -> Table]
    <3> HIDE DEF Table
    <3>1. QED
      BY <2>2, <2>3
  <2>5. TypeOK'
    BY <2>1, <2>4 DEF IInv, TypeOK
  <2>6. QED
    BY <2>1, <2>5, CatalogFrame DEF IInv, RequestOK
<1>4. QED
  BY <1>1, <1>2, <1>3 DEF CatalogStep

-----------------------------------------------------------------------------
(* Handlers *)

\* A step of handler h that changes no row.
LEMMA RequestFrame ==
    ASSUME IInv, NEW h \in Handlers, NEW q \in Request,
           request' = [request EXCEPT ![h] = q],
           UNCHANGED <<catalogVars, rows, recommendations, worker>>,
           stamp' \in Nat, objects' \subseteq Runs \X Artifacts, objects \subseteq objects',
           q.pc \in {"insert", "commit"} =>
               /\ q.run \in Runs
               /\ <<q.run, "input">> \in objects'
               /\ rows[q.run].status = "absent"
               /\ \A g \in Handlers : Stored(g) /\ g # h => request[g].run # q.run,
           q.pc = "commit" => /\ forecasts[q.row.forecast] = "completed"
                              /\ policies[q.row.policy] = "active"
    PROVE  IInv'
<1>1. TypeOK'
  BY DEF IInv, TypeOK, catalogVars
<1>2. \A r \in Runs : RunOK(r)'
  BY DEF IInv, RunOK
<1>3. \A w \in Workers : WorkerOK(w)'
  BY DEF IInv, WorkerOK, At
<1>4. Apart'
  BY DEF IInv, Apart
<1>5. request'[h] = q /\ \A g \in Handlers \ {h} : request'[g] = request[g]
  BY DEF IInv, TypeOK
<1>6. \A g \in Handlers : RequestOK(g)'
  <2> SUFFICES ASSUME NEW g \in Handlers PROVE RequestOK(g)'
    OBVIOUS
  <2>1. CASE g = h
    BY <1>5, <2>1 DEF RequestOK, Stored, catalogVars
  <2>2. CASE g # h
    BY <1>5, <2>2 DEF IInv, RequestOK, Stored, catalogVars
  <2>3. QED
    BY <2>1, <2>2
<1>7. FreshRuns'
  BY <1>5 DEF IInv, FreshRuns, Stored
<1>8. QED
  BY <1>1, <1>2, <1>3, <1>4, <1>6, <1>7 DEF IInv

LEMMA BeginInv == ASSUME IInv, NEW h \in Handlers, Begin(h) PROVE IInv'
<1>1. PICK f \in Forecasts, p \in Policies, explicit \in BOOLEAN :
        \E versions \in IF explicit THEN (SUBSET Prices) \ {{}} ELSE {{}} :
          request' = [request EXCEPT ![h] =
              [pc |-> "resolve", todo |-> Inputs, explicit |-> explicit, run |-> NoRun,
               row |-> [NoRow EXCEPT !.forecast = f, !.policy = p, !.prices = versions]]]
  BY Zenon DEF Begin
<1>0. (IF explicit THEN (SUBSET Prices) \ {{}} ELSE {{}}) \subseteq SUBSET Prices
  OBVIOUS
<1>2. PICK versions \in SUBSET Prices :
          request' = [request EXCEPT ![h] =
              [pc |-> "resolve", todo |-> Inputs, explicit |-> explicit, run |-> NoRun,
               row |-> [NoRow EXCEPT !.forecast = f, !.policy = p, !.prices = versions]]]
  BY <1>0, <1>1, Zenon
<1> DEFINE row == [NoRow EXCEPT !.forecast = f, !.policy = p, !.prices = versions]
           q == [pc |-> "resolve", todo |-> Inputs, explicit |-> explicit, run |-> NoRun,
                 row |-> row]
<1>3. row \in Row
  BY BlankRow DEF Row
<1> HIDE DEF row
<1>4. q \in Request /\ q.pc = "resolve"
  BY <1>3 DEF Request
<1>5. request' = [request EXCEPT ![h] = q]
  BY <1>2 DEF row
<1> HIDE DEF q
<1>6. QED
  BY <1>4, <1>5, RequestFrame DEF Begin, IInv, TypeOK

\* Whatever the request reads next, it has not stored anything yet.
LEMMA ResolveInv ==
    ASSUME IInv, NEW h \in Handlers, NEW input \in Inputs, NEW found \in SUBSET Prices,
           Resolve(h, input, found)
    PROVE  IInv'
<1> DEFINE q == [request[h] EXCEPT !.todo = @ \ {input}, !.row.prices = found,
                     !.pc = IF request[h].todo = {input} THEN "snapshot" ELSE "resolve"]
           row == [request[h].row EXCEPT !.prices = found]
<1>1. request[h] \in Request /\ request[h].row \in Row
  BY DEF IInv, TypeOK, Request
<1>2. row \in Row
  BY <1>1 DEF Row
<1>3. q = [request[h] EXCEPT !.todo = @ \ {input}, !.row = row,
               !.pc = IF request[h].todo = {input} THEN "snapshot" ELSE "resolve"]
  BY <1>1 DEF Request
<1> HIDE DEF row
<1>4. q \in Request /\ q.pc \in {"snapshot", "resolve"}
  BY <1>1, <1>2, <1>3 DEF Request
<1>5. request' = [request EXCEPT ![h] = q]
  BY DEF Resolve
<1> HIDE DEF q
<1>6. QED
  BY <1>4, <1>5, RequestFrame DEF Resolve, IInv, TypeOK

LEMMA ReadsInv ==
    ASSUME IInv, NEW h \in Handlers,
           ResolveForecast(h) \/ ResolvePolicy(h) \/ ResolvePrices(h)
    PROVE  IInv'
<1>1. request[h].row.prices \in SUBSET Prices
  BY DEF IInv, TypeOK, Request, Row
<1>2. CASE ResolveForecast(h)
  BY <1>1, <1>2, ResolveInv DEF ResolveForecast, Inputs
<1>3. CASE ResolvePolicy(h)
  BY <1>1, <1>3, ResolveInv DEF ResolvePolicy, Inputs
<1>4. CASE ResolvePrices(h)
  <2>1. "prices" \in Inputs /\ {p \in Prices : Active(p)} \in SUBSET Prices
    BY DEF Inputs
  <2>2. PICK found \in SUBSET Prices : Resolve(h, "prices", found)
    BY <1>1, <1>4, <2>1 DEF ResolvePrices
  <2>3. QED
    BY <2>1, <2>2, ResolveInv
<1>5. QED
  BY <1>2, <1>3, <1>4

\* A run without a snapshot has no row, and no other request holds it.
LEMMA WriteSnapshotInv == ASSUME IInv, NEW h \in Handlers, WriteSnapshot(h) PROVE IInv'
<1>1. PICK r \in Runs :
          /\ <<r, "input">> \notin objects
          /\ objects' = objects \cup {<<r, "input">>}
          /\ \/ request' = [request EXCEPT ![h].pc = "insert", ![h].run = r]
             \/ request' = [request EXCEPT ![h] = IdleRequest]
  BY DEF WriteSnapshot
<1>2. objects' \subseteq Runs \X Artifacts /\ objects \subseteq objects'
  BY <1>1 DEF IInv, TypeOK, Artifacts
<1>3. rows[r].status = "absent"
  BY <1>1 DEF IInv, RunOK
<1>4. \A g \in Handlers : Stored(g) => request[g].run # r
  BY <1>1 DEF IInv, RequestOK
<1> DEFINE q == [request[h] EXCEPT !.pc = "insert", !.run = r]
<1>5. q \in Request /\ q.pc = "insert" /\ q.run = r
  BY DEF IInv, TypeOK, Request
<1>6. CASE request' = [request EXCEPT ![h].pc = "insert", ![h].run = r]
  <2>1. request' = [request EXCEPT ![h] = q]
    BY <1>6 DEF IInv, TypeOK
  <2> HIDE DEF q
  <2>2. QED
    BY <1>1, <1>2, <1>3, <1>4, <1>5, <2>1, RequestFrame DEF WriteSnapshot, IInv, TypeOK
<1>7. CASE request' = [request EXCEPT ![h] = IdleRequest]
  BY <1>2, <1>7, Idle, RequestFrame DEF WriteSnapshot, IInv, TypeOK, IdleRequest
<1>8. QED
  BY <1>1, <1>6, <1>7

LEMMA InsertRowInv == ASSUME IInv, NEW h \in Handlers, InsertRow(h) PROVE IInv'
<1> DEFINE row == [request[h].row EXCEPT !.createdAt = stamp]
           q == [request[h] EXCEPT !.pc = "commit", !.row = row]
<1>1. request[h] \in Request /\ request[h].row \in Row /\ stamp \in Nat
  BY DEF IInv, TypeOK, Request
<1>2. /\ row \in Row
      /\ row.forecast = request[h].row.forecast /\ row.policy = request[h].row.policy
  BY <1>1 DEF Row
<1>3. request' = [request EXCEPT ![h] = q]
  BY <1>1 DEF InsertRow, IInv, TypeOK, Request
<1> HIDE DEF row
<1>4. /\ q \in Request
      /\ q.pc = "commit" /\ q.run = request[h].run /\ q.row = row
  BY <1>1, <1>2 DEF Request
<1>5. /\ q.run \in Runs /\ <<q.run, "input">> \in objects /\ rows[q.run].status = "absent"
      /\ \A g \in Handlers : Stored(g) /\ g # h => request[g].run # q.run
  BY <1>4 DEF IInv, InsertRow, RequestOK, FreshRuns, Stored
<1>6. forecasts[q.row.forecast] = "completed" /\ policies[q.row.policy] = "active"
  BY <1>2, <1>4 DEF InsertRow
<1>7. /\ UNCHANGED <<catalogVars, rows, recommendations, worker, objects>>
      /\ stamp' \in Nat
  BY <1>1 DEF InsertRow
<1>8. objects' \subseteq Runs \X Artifacts /\ objects \subseteq objects'
  BY <1>7 DEF IInv, TypeOK
<1> HIDE DEF q
<1>9. QED
  BY <1>3, <1>4, <1>5, <1>6, <1>7, <1>8, RequestFrame

LEMMA RequestFailsInv == ASSUME IInv, NEW h \in Handlers, RequestFails(h) PROVE IInv'
<1>1. UNCHANGED <<catalogVars, rows, recommendations, worker, objects, stamp>>
  BY DEF RequestFails
<1>2. request' = [request EXCEPT ![h] = IdleRequest]
  BY DEF RequestFails
<1>3. IdleRequest \in Request /\ IdleRequest.pc = "idle"
  BY Idle DEF IdleRequest
<1>4. stamp' \in Nat /\ objects' \subseteq Runs \X Artifacts /\ objects \subseteq objects'
  BY <1>1 DEF IInv, TypeOK
<1>5. QED
  BY <1>1, <1>2, <1>3, <1>4, RequestFrame

\* Nobody works on a run without a row, so its insertion disturbs no worker.
LEMMA CommitRowInv == ASSUME IInv, NEW h \in Handlers, CommitRow(h) PROVE IInv'
<1> DEFINE r == request[h].run
           row == [request[h].row EXCEPT !.status = "queued"]
<1>1. /\ request[h] \in Request /\ request[h].row \in Row
      /\ Stored(h) /\ r \in Runs /\ <<r, "input">> \in objects /\ rows[r].status = "absent"
  BY DEF IInv, TypeOK, Request, CommitRow, RequestOK, Stored
<1>2. row \in Row /\ row.status = "queued"
  BY <1>1 DEF Row, RowStatuses
<1>3. /\ rows' = [rows EXCEPT ![r] = row]
      /\ request' = [request EXCEPT ![h] = IdleRequest]
      /\ UNCHANGED <<catalogVars, recommendations, objects, stamp, worker>>
  BY DEF CommitRow
<1> HIDE DEF row
<1>4. /\ rows'[r] = row /\ \A q \in Runs \ {r} : rows'[q] = rows[q]
      /\ request'[h] = IdleRequest /\ \A g \in Handlers \ {h} : request'[g] = request[g]
  BY <1>1, <1>3 DEF IInv, TypeOK
<1>5. TypeOK'
  BY <1>1, <1>2, <1>3, Idle DEF IInv, TypeOK, catalogVars
<1>6. \A q \in Runs : RunOK(q)'
  BY <1>1, <1>2, <1>3, <1>4 DEF IInv, RunOK
<1>7. \A w \in Workers : WorkerOK(w)'
  <2> SUFFICES ASSUME NEW w \in Workers, worker[w].pc # "idle"
               PROVE  At(worker[w].pc, worker[w].run)'
    BY <1>3 DEF WorkerOK
  <2>1. At(worker[w].pc, worker[w].run)
    BY DEF IInv, WorkerOK
  <2>2. worker[w].pc \in {"claim", "fail"} \cup (Processing \ {"fail"})
    BY DEF IInv, TypeOK, Worker, Processing
  <2>3. worker[w].run # r /\ worker[w].run \in Runs
    BY <1>1, <2>1, <2>2 DEF At, Outcomes
  <2>4. QED
    BY <1>3, <1>4, <2>1, <2>3 DEF At
<1>8. Apart'
  BY <1>3 DEF IInv, Apart
<1>9. ~Stored(h)'
  BY <1>4 DEF Stored, IdleRequest
<1>10. \A g \in Handlers : RequestOK(g)'
  <2> SUFFICES ASSUME NEW g \in Handlers PROVE RequestOK(g)'
    OBVIOUS
  <2>1. CASE g = h
    BY <1>9, <2>1 DEF RequestOK, Stored
  <2>2. CASE g # h
    <3>1. Stored(g) => request[g].run # r
      BY <1>1, <2>2 DEF IInv, FreshRuns
    <3>2. QED
      BY <1>3, <1>4, <2>2, <3>1 DEF IInv, RequestOK, Stored, catalogVars
  <2>3. QED
    BY <2>1, <2>2
<1>11. FreshRuns'
  BY <1>4, <1>9 DEF IInv, FreshRuns, Stored
<1>12. QED
  BY <1>5, <1>6, <1>7, <1>8, <1>10, <1>11 DEF IInv

LEMMA HandlerInv == ASSUME IInv, NEW h \in Handlers, HandlerStep(h) PROVE IInv'
BY BeginInv, ReadsInv, WriteSnapshotInv, InsertRowInv, CommitRowInv, RequestFailsInv
   DEF HandlerStep

-----------------------------------------------------------------------------
(* Workers *)

\* A step of worker w that concerns run r, which has a row and no other worker.
LEMMA WorkerFrame ==
    ASSUME IInv, NEW w \in Workers, NEW r \in Runs, TypeOK',
           UNCHANGED <<forecasts, policies, request>>,
           \A q \in Runs \ {r} : rows'[q] = rows[q] /\ recommendations'[q] = recommendations[q],
           objects \subseteq objects',
           \A v \in Workers \ {w} : worker'[v] = worker[v],
           rows[r].status # "absent",
           \A v \in Workers \ {w} : worker[v].pc # "idle" => worker[v].run # r,
           RunOK(r)',
           (worker[w].pc # "idle" => worker[w].run = r /\ At(worker[w].pc, r))'
    PROVE  IInv'
<1>1. \A q \in Runs : RunOK(q)'
  <2>1. ASSUME NEW q \in Runs \ {r} PROVE RunOK(q)'
    <3>1. RunOK(q)
      BY DEF IInv
    <3>2. QED
      BY <2>1, <3>1 DEF RunOK
  <2>2. QED
    BY <2>1
<1>2. \A v \in Workers : WorkerOK(v)'
  <2> SUFFICES ASSUME NEW v \in Workers PROVE WorkerOK(v)'
    OBVIOUS
  <2>1. CASE v = w
    BY <2>1 DEF WorkerOK, At
  <2>2. CASE v # w
    <3> SUFFICES ASSUME worker[v].pc # "idle" PROVE At(worker[v].pc, worker[v].run)'
      BY <2>2 DEF WorkerOK
    <3>1. At(worker[v].pc, worker[v].run) /\ worker[v].run \in Runs \ {r}
      BY <2>2 DEF IInv, WorkerOK, At
    <3>2. QED
      BY <2>2, <3>1 DEF At
  <2>3. QED
    BY <2>1, <2>2
<1>3. Apart'
  BY DEF IInv, Apart
<1>4. \A h \in Handlers : RequestOK(h)'
  BY DEF IInv, RequestOK, Stored
<1>5. FreshRuns'
  BY DEF IInv, FreshRuns, Stored
<1>6. QED
  BY <1>1, <1>2, <1>3, <1>4, <1>5 DEF IInv

\* The run a busy worker is at.
LEMMA BusyRun ==
    ASSUME IInv, NEW w \in Workers, worker[w].pc # "idle"
    PROVE  /\ worker[w].run \in Runs
           /\ At(worker[w].pc, worker[w].run)
           /\ rows[worker[w].run] \in Row /\ rows[worker[w].run].status # "absent"
           /\ RunOK(worker[w].run)
           /\ \A v \in Workers \ {w} : worker[v].pc # "idle" => worker[v].run # worker[w].run
<1>1. At(worker[w].pc, worker[w].run)
  BY DEF IInv, WorkerOK
<1>2. worker[w].pc \in {"claim", "fail"} \cup (Processing \ {"fail"})
  BY DEF IInv, TypeOK, Worker, Processing
<1>3. worker[w].run \in Runs /\ rows[worker[w].run].status # "absent"
  BY <1>1, <1>2 DEF At, Outcomes
<1>4. \A v \in Workers \ {w} : worker[v].pc # "idle" => worker[v].run # worker[w].run
  BY DEF IInv, Apart
<1>5. QED
  BY <1>1, <1>3, <1>4 DEF IInv, TypeOK

LEMMA WorkerTypes ==
    ASSUME IInv, NEW w \in Workers
    PROVE  /\ worker[w] \in Worker
           /\ \A pc \in {"claim"} \cup Processing, r \in Runs : [pc |-> pc, run |-> r] \in Worker
           /\ \A pc \in {"claim"} \cup Processing : [worker[w] EXCEPT !.pc = pc] \in Worker
BY DEF IInv, TypeOK, Worker

\* The claimed row is queued and locked by nobody, so nobody else is at it.
LEMMA LockOldestInv == ASSUME IInv, NEW w \in Workers, LockOldest(w) PROVE IInv'
<1>1. PICK r \in Claimable : worker' = [worker EXCEPT ![w] = [pc |-> "claim", run |-> r]]
  BY DEF LockOldest
<1>2. /\ r \in Runs /\ rows[r].status = "queued"
      /\ UNCHANGED <<catalogVars, rows, recommendations, objects, stamp, request>>
  BY <1>1 DEF LockOldest, Claimable
<1>3. [pc |-> "claim", run |-> r] \in Worker
  BY <1>2, WorkerTypes
<1>4. TypeOK'
  BY <1>1, <1>2, <1>3 DEF IInv, TypeOK, catalogVars
<1>5. \A v \in Workers : worker[v].pc # "idle" => worker[v].run # r
  <2> SUFFICES ASSUME NEW v \in Workers, worker[v].pc # "idle", worker[v].run = r
               PROVE  FALSE
    OBVIOUS
  <2>1. worker[v].pc # "claim"
    BY <1>1 DEF Claimable
  <2>2. worker[v].pc \in {"fail"} \cup (Processing \ {"fail"})
    BY <2>1 DEF IInv, TypeOK, Worker, Processing
  <2>3. QED
    BY <1>2, <2>2 DEF IInv, WorkerOK, At, Outcomes
<1>6. /\ worker'[w] = [pc |-> "claim", run |-> r]
      /\ \A v \in Workers \ {w} : worker'[v] = worker[v]
  BY <1>1 DEF IInv, TypeOK
<1>7. At("claim", r)' /\ RunOK(r)'
  BY <1>2 DEF At, Processing, IInv, RunOK
<1>8. QED
  BY <1>2, <1>4, <1>5, <1>6, <1>7, WorkerFrame DEF catalogVars

\* A step of a busy worker: it keeps its run or lets it go.
LEMMA BusyStep ==
    ASSUME IInv, NEW w \in Workers, NEW r \in Runs,
           worker[w].pc # "idle", worker[w].run = r,
           UNCHANGED <<catalogVars, stamp, request>>,
           rows' = rows \/ \E s \in RowStatuses : SetStatus(r, s),
           \/ recommendations' = recommendations
           \/ recommendations' = [recommendations EXCEPT ![r] = @ + 1],
           objects' \subseteq Runs \X Artifacts, objects \subseteq objects',
           RunOK(r)',
           Stop(w) \/ \E pc \in Processing : Goto(w, pc) /\ At(pc, r)'
    PROVE  IInv'
<1>1. /\ rows[r] \in Row /\ rows[r].status # "absent"
      /\ \A v \in Workers \ {w} : worker[v].pc # "idle" => worker[v].run # r
  BY BusyRun
<1>2. rows' \in [Runs -> Row] /\ \A q \in Runs \ {r} : rows'[q] = rows[q]
  <2>1. \A s \in RowStatuses : [rows[r] EXCEPT !.status = s] \in Row
    BY <1>1 DEF Row
  <2>2. CASE rows' = rows
    BY <2>2 DEF IInv, TypeOK
  <2>3. ASSUME NEW s \in RowStatuses, SetStatus(r, s)
        PROVE  rows' \in [Runs -> Row] /\ \A q \in Runs \ {r} : rows'[q] = rows[q]
    <3>1. rows' = [rows EXCEPT ![r] = [rows[r] EXCEPT !.status = s]]
      BY <2>3 DEF SetStatus
    <3>2. QED
      BY <2>1, <3>1 DEF IInv, TypeOK
  <2>4. QED
    BY <2>2, <2>3
<1>3. /\ recommendations' \in [Runs -> Nat]
      /\ \A q \in Runs \ {r} : recommendations'[q] = recommendations[q]
  BY DEF IInv, TypeOK
<1>4. /\ worker' \in [Workers -> Worker]
      /\ \A v \in Workers \ {w} : worker'[v] = worker[v]
      /\ (worker[w].pc # "idle" => worker[w].run = r /\ At(worker[w].pc, r))'
  <2>1. CASE Stop(w)
    BY <2>1, Idle DEF Stop, IInv, TypeOK, IdleWorker
  <2>2. ASSUME NEW pc \in Processing, Goto(w, pc), At(pc, r)'
        PROVE  /\ worker' \in [Workers -> Worker]
               /\ \A v \in Workers \ {w} : worker'[v] = worker[v]
               /\ (worker[w].pc # "idle" => worker[w].run = r /\ At(worker[w].pc, r))'
    <3> DEFINE u == [worker[w] EXCEPT !.pc = pc]
    <3>1. worker' = [worker EXCEPT ![w] = u] /\ u \in Worker /\ u.pc = pc /\ u.run = r
      BY <2>2, WorkerTypes DEF Goto, Worker
    <3> HIDE DEF u
    <3>2. worker'[w] = u
      BY <3>1 DEF IInv, TypeOK
    <3>3. (worker[w].pc # "idle" => worker[w].run = r /\ At(worker[w].pc, r))'
      BY <2>2, <3>1, <3>2 DEF At
    <3>4. QED
      BY <3>1, <3>3 DEF IInv, TypeOK
  <2>3. QED
    BY <2>1, <2>2
<1>5. TypeOK'
  BY <1>2, <1>3, <1>4 DEF IInv, TypeOK, catalogVars
<1>6. QED
  BY <1>1, <1>2, <1>3, <1>4, <1>5, WorkerFrame DEF catalogVars

LEMMA CommitClaimInv == ASSUME IInv, NEW w \in Workers, CommitClaim(w) PROVE IInv'
<1>1. worker[w].pc = "claim"
  BY DEF CommitClaim
<1>2. PICK r \in Runs : worker[w].run = r
  BY <1>1, BusyRun
<1>3. /\ rows[r] \in Row /\ rows[r].status = "queued" /\ RunOK(r)
  BY <1>1, <1>2, BusyRun DEF At
<1>4. /\ SetStatus(r, "running") /\ Goto(w, "read")
      /\ UNCHANGED <<catalogVars, recommendations, objects, stamp, request>>
  BY <1>2, <1>3 DEF CommitClaim
<1>5. rows'[r].status = "running"
  BY <1>3, <1>4 DEF SetStatus, IInv, TypeOK, Row
<1>6. RunOK(r)' /\ At("read", r)'
  BY <1>3, <1>4, <1>5 DEF RunOK, At
<1>7. "running" \in RowStatuses /\ "read" \in Processing
  BY DEF RowStatuses, Processing
<1>8. objects' \subseteq Runs \X Artifacts
  BY <1>4 DEF IInv, TypeOK
<1>9. QED
  BY <1>1, <1>2, <1>4, <1>6, <1>7, <1>8, BusyStep

\* A worker that fails, dies or goes on without writing.
LEMMA SilentInv ==
    ASSUME IInv, NEW w \in Workers, worker[w].pc # "idle",
           UNCHANGED <<catalogVars, rows, recommendations, objects, stamp, request>>,
           \/ Stop(w)
           \/ worker[w].pc \in Processing /\ Goto(w, "fail")
           \/ worker[w].pc = "read" /\ Goto(w, "frontier")
    PROVE  IInv'
<1>1. PICK r \in Runs : worker[w].run = r
  BY BusyRun
<1>2. RunOK(r)'
  BY <1>1, BusyRun DEF RunOK
<1>3. objects' \subseteq Runs \X Artifacts
  BY DEF IInv, TypeOK
<1>4. worker[w].pc \in Processing => At("fail", r)'
  BY <1>1, BusyRun DEF At
<1>5. worker[w].pc = "read" => At("frontier", r)'
  BY <1>1, BusyRun DEF At, Processing
<1>6. "fail" \in Processing /\ "frontier" \in Processing
  BY DEF Processing
<1>7. QED
  BY <1>1, <1>2, <1>3, <1>4, <1>5, <1>6, BusyStep

\* The artifacts of a run being processed.
LEMMA PutInv ==
    ASSUME IInv, NEW w \in Workers, PutFrontier(w) \/ PutOutput(w)
    PROVE  IInv'
<1>1. worker[w].pc \in {"frontier", "output"} /\ worker[w].pc \in Processing \ {"fail"}
  BY DEF PutFrontier, PutOutput, Processing
<1>2. PICK r \in Runs : worker[w].run = r
  BY <1>1, BusyRun
<1>3. /\ RunOK(r) /\ At(worker[w].pc, r)
      /\ rows[r].status = "running" /\ recommendations[r] = 0
  BY <1>1, <1>2, BusyRun DEF At
<1>4. PICK artifact \in Artifacts : objects' = objects \cup {<<r, artifact>>}
  BY <1>2 DEF PutFrontier, PutOutput, Put, Artifacts
<1>5. UNCHANGED <<catalogVars, rows, recommendations, stamp, request>>
  BY DEF PutFrontier, PutOutput, Put
<1>6. RunOK(r)'
  BY <1>3, <1>4, <1>5 DEF RunOK
<1>7. \E pc \in Processing : Goto(w, pc) /\ At(pc, r)'
  <2>1. CASE PutFrontier(w)
    <3>1. PICK pc \in {"infeasible", "output", "fail"} : Goto(w, pc)
      BY <2>1 DEF PutFrontier, Put
    <3>2. <<r, "frontier">> \in objects'
      BY <1>2, <2>1 DEF PutFrontier, Put
    <3>3. At(pc, r)' /\ pc \in Processing
      BY <1>3, <1>5, <3>2 DEF At, Processing
    <3>4. QED
      BY <3>1, <3>3
  <2>2. CASE PutOutput(w)
    <3>1. PICK pc \in {"recommend", "fail"} : Goto(w, pc)
      BY <2>2 DEF PutOutput, Put
    <3>2. <<r, "output">> \in objects' /\ <<r, "frontier">> \in objects'
      BY <1>2, <1>3, <2>2 DEF PutOutput, Put, At
    <3>3. At(pc, r)' /\ pc \in Processing
      BY <1>3, <1>5, <3>2 DEF At, Processing
    <3>4. QED
      BY <3>1, <3>3
  <2>3. QED
    BY <2>1, <2>2
<1>8. objects' \subseteq Runs \X Artifacts /\ objects \subseteq objects'
  BY <1>4 DEF IInv, TypeOK
<1>9. QED
  BY <1>1, <1>2, <1>4, <1>5, <1>6, <1>7, <1>8, BusyStep

\* The one insertion of a run's recommendation: it had none before.
LEMMA InsertRecommendationInv ==
    ASSUME IInv, NEW w \in Workers, InsertRecommendation(w)
    PROVE  IInv'
<1>1. worker[w].pc = "recommend" /\ "recommend" \in Processing \ {"fail"}
  BY DEF InsertRecommendation, Processing
<1>2. PICK r \in Runs : worker[w].run = r
  BY <1>1, BusyRun
<1>3. /\ RunOK(r) /\ rows[r].status = "running" /\ recommendations[r] = 0
      /\ <<r, "frontier">> \in objects /\ <<r, "output">> \in objects
  BY <1>1, <1>2, BusyRun DEF At
<1>4. /\ recommendations' = [recommendations EXCEPT ![r] = @ + 1]
      /\ UNCHANGED <<catalogVars, rows, objects, stamp, request>>
  BY <1>2 DEF InsertRecommendation
<1>5. recommendations'[r] = 1
  BY <1>3, <1>4 DEF IInv, TypeOK
<1>6. RunOK(r)'
  BY <1>3, <1>4, <1>5 DEF RunOK
<1>7. \E pc \in Processing : Goto(w, pc) /\ At(pc, r)'
  <2>1. PICK pc \in {"complete", "fail"} : Goto(w, pc)
    BY DEF InsertRecommendation
  <2>2. At(pc, r)' /\ pc \in Processing
    BY <1>3, <1>4, <1>5 DEF At, Processing
  <2>3. QED
    BY <2>1, <2>2
<1>8. objects' \subseteq Runs \X Artifacts
  BY <1>4 DEF IInv, TypeOK
<1>9. QED
  BY <1>1, <1>2, <1>4, <1>6, <1>7, <1>8, BusyStep

\* The terminal writes: what the outcome promises is stored, and a row that has
\* an outcome keeps it.
LEMMA FinishInv ==
    ASSUME IInv, NEW w \in Workers, NEW outcome \in Outcomes,
           \/ worker[w].pc = "complete" /\ outcome = "completed"
           \/ worker[w].pc = "infeasible" /\ outcome = "infeasible"
           \/ worker[w].pc = "fail" /\ outcome = "failed",
           Finish(w, outcome), Stop(w) \/ Goto(w, "fail")
    PROVE  IInv'
<1>1. worker[w].pc # "idle" /\ worker[w].pc \in Processing
  BY DEF Processing
<1>2. PICK r \in Runs : worker[w].run = r
  BY <1>1, BusyRun
<1>3. RunOK(r) /\ At(worker[w].pc, r) /\ rows[r] \in Row
  BY <1>1, <1>2, BusyRun
<1>4. UNCHANGED <<catalogVars, recommendations, objects, stamp, request>>
  BY DEF Finish
<1>5. objects' \subseteq Runs \X Artifacts
  BY <1>4 DEF IInv, TypeOK
<1>6. outcome \in RowStatuses /\ "fail" \in Processing
  BY DEF RowStatuses, Processing
<1>7. CASE rows[r].status = "running"
  <2>1. SetStatus(r, outcome)
    BY <1>2, <1>7 DEF Finish
  <2>2. rows'[r].status = outcome
    BY <1>3, <2>1 DEF SetStatus, IInv, TypeOK, Row
  <2>3. RunOK(r)'
    BY <1>3, <1>4, <1>7, <2>2 DEF RunOK, At, Outcomes
  <2>4. At("fail", r)'
    BY <2>2 DEF At
  <2>5. QED
    BY <1>1, <1>2, <1>4, <1>5, <1>6, <2>1, <2>3, <2>4, BusyStep
<1>8. CASE rows[r].status # "running"
  <2>1. rows' = rows
    BY <1>2, <1>8 DEF Finish
  <2>2. RunOK(r)'
    BY <1>3, <1>4, <2>1 DEF RunOK
  <2>3. At("fail", r)'
    BY <1>1, <1>3, <1>8, <2>1 DEF At
  <2>4. QED
    BY <1>1, <1>2, <1>4, <1>5, <1>6, <2>1, <2>2, <2>3, BusyStep
<1>9. QED
  BY <1>7, <1>8

LEMMA WorkerInv ==
    ASSUME IInv, NEW w \in Workers, Process(w) \/ WorkerFault(w)
    PROVE  IInv'
<1>1. CASE LockOldest(w) \/ CommitClaim(w)
  BY <1>1, LockOldestInv, CommitClaimInv
<1>2. CASE ReadInputs(w) \/ AbortClaim(w) \/ StepFails(w) \/ Crash(w)
  BY <1>2, SilentInv DEF ReadInputs, AbortClaim, StepFails, Crash, Processing
<1>3. CASE PutFrontier(w) \/ PutOutput(w)
  BY <1>3, PutInv
<1>4. CASE InsertRecommendation(w)
  BY <1>4, InsertRecommendationInv
<1>5. CASE CompleteOptimizerRun(w)
  BY <1>5, FinishInv DEF CompleteOptimizerRun, Outcomes
<1>6. CASE MarkOptimizerRunInfeasible(w)
  BY <1>6, FinishInv DEF MarkOptimizerRunInfeasible, Outcomes
<1>7. CASE FailOptimizerRun(w)
  BY <1>7, FinishInv DEF FailOptimizerRun, Outcomes
<1>8. QED
  BY <1>1, <1>2, <1>3, <1>4, <1>5, <1>6, <1>7 DEF Process, WorkerFault

LEMMA NextIInv == IInv /\ [Next]_vars => IInv'
<1> SUFFICES ASSUME IInv, [Next]_vars PROVE IInv'
  OBVIOUS
<1>1. CASE UNCHANGED vars
  <2>1. UNCHANGED <<forecasts, policies, prices, rows, recommendations, objects, stamp,
                    request, worker>>
    BY <1>1 DEF vars, catalogVars
  <2>2. TypeOK'
    BY <2>1 DEF IInv, TypeOK
  <2>3. QED
    BY <2>1, <2>2, CatalogFrame DEF IInv, RequestOK
<1>2. CASE Next
  BY <1>2, CatalogInv, HandlerInv, WorkerInv DEF Next
<1>3. QED
  BY <1>1, <1>2

-----------------------------------------------------------------------------
(* Theorems *)

THEOREM Invariant == Spec => []IInv
BY InitIInv, NextIInv, PTL DEF Spec

LEMMA IInvImpliesConsistency == IInv => RunsAreConsistent
<1> SUFFICES ASSUME IInv PROVE RunsAreConsistent
  OBVIOUS
<1>1. TypeOK /\ SnapshotBeforeRow
  BY DEF IInv, RunOK, SnapshotBeforeRow
<1>2. OutcomeMatchesEvidence
  BY DEF IInv, RunOK, OutcomeMatchesEvidence
<1>3. RecommendationIsBacked
  <2> SUFFICES ASSUME NEW r \in Runs
               PROVE  /\ recommendations[r] <= 1
                      /\ recommendations[r] = 1 =>
                             /\ {<<r, "frontier">>, <<r, "output">>} \subseteq objects
                             /\ rows[r].status \in {"running", "completed", "failed"}
    BY DEF RecommendationIsBacked
  <2>1. RunOK(r) /\ rows[r].status \in RowStatuses
    BY DEF IInv, TypeOK, Row
  <2>2. QED
    BY <2>1 DEF RunOK, RowStatuses, Outcomes
<1>4. SingleProcessor
  <2>1. "idle" \notin Processing
    BY DEF Processing
  <2>2. QED
    BY <2>1 DEF IInv, Apart, WorkerOK, At, SingleProcessor
<1>5. QED
  BY <1>1, <1>2, <1>3, <1>4 DEF RunsAreConsistent

\* Whatever fails and whoever dies, what a row says is backed by what is stored,
\* a run has at most one recommendation, and one worker has it.
THEOREM Consistency == Spec => []RunsAreConsistent
BY Invariant, IInvImpliesConsistency, PTL

\* Only the insertion of a run gives it a row.
LEMMA RowsAppear ==
    ASSUME IInv, [Next]_vars, NEW r \in Runs, rows[r].status = "absent", rows'[r] # rows[r]
    PROVE  \E h \in Handlers : CommitRow(h) /\ request[h].run = r
<1>1. CASE UNCHANGED vars \/ CatalogStep
  BY <1>1 DEF vars, CatalogStep, EndForecast, PatchPolicy, ActivatePriceTable, GoStale
<1>2. ASSUME NEW w \in Workers, Process(w) \/ WorkerFault(w) PROVE FALSE
  <2>1. \/ UNCHANGED rows
        \/ worker[w].pc # "idle" /\ \E s \in RowStatuses : SetStatus(worker[w].run, s)
    BY <1>2 DEF Process, WorkerFault, LockOldest, CommitClaim, ReadInputs, PutFrontier,
         PutOutput, Put, InsertRecommendation, CompleteOptimizerRun,
         MarkOptimizerRunInfeasible, FailOptimizerRun, Finish, AbortClaim, StepFails, Crash,
         RowStatuses, Outcomes
  <2>2. worker[w].pc # "idle" => worker[w].run # r
    BY BusyRun
  <2>3. QED
    BY <2>1, <2>2 DEF SetStatus, IInv, TypeOK
<1>3. ASSUME NEW h \in Handlers, HandlerStep(h)
      PROVE  CommitRow(h) /\ request[h].run = r
  <2>1. CommitRow(h)
    BY <1>3 DEF HandlerStep, Begin, ResolveForecast, ResolvePolicy, ResolvePrices, Resolve,
         WriteSnapshot, InsertRow, RequestFails
  <2>2. QED
    BY <2>1 DEF CommitRow, IInv, TypeOK
<1>4. QED
  BY <1>1, <1>2, <1>3 DEF Next

\* A run enters the queue with an active policy and a completed forecast: nobody
\* archives a policy between the check of the trigger and the commit.
THEOREM QueuedWithValidInputs == Spec => InputsValidWhenQueued
<1> DEFINE Valid == \A r \in Runs :
                        rows[r].status = "absent" /\ rows'[r].status # "absent" =>
                            /\ policies'[rows'[r].policy] = "active"
                            /\ forecasts'[rows'[r].forecast] = "completed"
<1>1. ASSUME IInv, [Next]_vars, NEW r \in Runs,
             rows[r].status = "absent", rows'[r].status # "absent"
      PROVE  /\ policies'[rows'[r].policy] = "active"
             /\ forecasts'[rows'[r].forecast] = "completed"
  <2>1. PICK h \in Handlers : CommitRow(h) /\ request[h].run = r
    BY <1>1, RowsAppear
  <2>2. /\ request[h].row \in Row
        /\ rows'[r] = [request[h].row EXCEPT !.status = "queued"]
        /\ UNCHANGED <<forecasts, policies>>
    BY <1>1, <2>1 DEF CommitRow, IInv, TypeOK, Request, catalogVars
  <2>3. rows'[r].policy = request[h].row.policy /\ rows'[r].forecast = request[h].row.forecast
    BY <2>2 DEF Row
  <2>4. QED
    BY <1>1, <2>1, <2>2, <2>3 DEF CommitRow, IInv, RequestOK
<1>2. IInv /\ [Next]_vars => Valid
  BY <1>1
<1>3. QED
  BY <1>2, Invariant, PTL DEF Spec, InputsValidWhenQueued

-----------------------------------------------------------------------------
(* The refinement of JobLifecycle *)

\* The holder of a run is the worker that processes it, if there is one.
HolderRight ==
    \A r \in Runs :
        /\ \A w \in Workers : Holds(w, r) => Holder[r] = w
        /\ (\A w \in Workers : ~Holds(w, r)) => Holder[r] = NoWorker
        /\ \A w \in Workers : Holder[r] = w => Holds(w, r)

LEMMA HolderIsRight == IInv => HolderRight
<1> SUFFICES ASSUME IInv, NEW r \in Runs
             PROVE  /\ \A w \in Workers : Holds(w, r) => Holder[r] = w
                    /\ (\A w \in Workers : ~Holds(w, r)) => Holder[r] = NoWorker
                    /\ \A w \in Workers : Holder[r] = w => Holds(w, r)
  BY DEF HolderRight
<1>0. "idle" \notin Processing
  BY DEF Processing
<1>1. \A v, w \in Workers : Holds(v, r) /\ Holds(w, r) => v = w
  BY <1>0 DEF IInv, Apart, Holds
<1>2. Holder[r] = IF \E w \in Workers : Holds(w, r) THEN CHOOSE w \in Workers : Holds(w, r)
                  ELSE NoWorker
  BY DEF Holder
<1> HIDE DEF Holds, Holder
<1>3. QED
  BY <1>1, <1>2, OptimizerRunsAssumption

LEMMA HolderIsRightNext == IInv' => HolderRight'
BY HolderIsRight, PTL

\* Who holds a run that the same workers hold as before.
LEMMA SameHolder ==
    ASSUME HolderRight, HolderRight', NEW r \in Runs,
           \A w \in Workers : Holds(w, r)' <=> Holds(w, r)
    PROVE  Holder'[r] = Holder[r]
<1>1. CASE \E w \in Workers : Holds(w, r)
  BY <1>1 DEF HolderRight
<1>2. CASE \A w \in Workers : ~Holds(w, r)
  BY <1>2 DEF HolderRight
<1>3. QED
  BY <1>1, <1>2

JobSame == UNCHANGED Lifecycle!jobVars

\* Nothing changes for the runs that have their status and their holder.
LEMMA JobFrame ==
    ASSUME \A r \in Runs : rows'[r].status = rows[r].status /\ Holder'[r] = Holder[r]
    PROVE  JobSame
<1>1. Holder' = Holder
  <2>1. /\ Holder = [r \in Runs |-> Holder[r]]
        /\ Holder' = [r \in Runs |-> Holder'[r]]
    BY DEF Holder
  <2>2. QED
    BY <2>1
<1>2. QED
  BY <1>1 DEF JobSame, Lifecycle!jobVars

Statuses == [r \in Runs |-> rows[r].status]

LEMMA CommitRowImplements ==
    ASSUME IInv, HolderRight, HolderRight', NEW h \in Handlers, CommitRow(h)
    PROVE  Lifecycle!JobNext
<1>1. PICK r \in Runs : request[h].run = r
  BY DEF CommitRow, IInv, RequestOK, Stored
<1>2. /\ rows[r].status = "absent" /\ request[h].row \in Row
      /\ rows' = [rows EXCEPT ![r] = [request[h].row EXCEPT !.status = "queued"]]
      /\ worker' = worker
  BY <1>1 DEF CommitRow, IInv, TypeOK, Request, RequestOK, Stored
<1>3. rows'[r].status = "queued" /\ \A q \in Runs \ {r} : rows'[q] = rows[q]
  BY <1>2 DEF IInv, TypeOK, Row
<1>4. Statuses' = [Statuses EXCEPT ![r] = "queued"]
  BY <1>3 DEF Statuses
<1>5. \A q \in Runs, w \in Workers : Holds(w, q)' <=> Holds(w, q)
  BY <1>2, <1>3 DEF Holds
<1>6. Holder' = Holder
  <2>1. \A q \in Runs : Holder'[q] = Holder[q]
    BY <1>5, SameHolder
  <2>2. QED
    BY <2>1 DEF Holder
<1>7. Lifecycle!Submit(r)
  BY <1>2, <1>4, <1>6 DEF Lifecycle!Submit, Statuses
<1>8. QED
  BY <1>7 DEF Lifecycle!JobNext

\* What a step of a busy worker changes for the other runs: nothing.
LEMMA OtherRunsSame ==
    ASSUME IInv, HolderRight, HolderRight', NEW w \in Workers, NEW r \in Runs,
           worker[w].pc # "idle", worker[w].run = r,
           rows' = rows \/ \E s \in RowStatuses : SetStatus(r, s),
           Stop(w) \/ \E pc \in Processing : Goto(w, pc)
    PROVE  /\ \A q \in Runs \ {r} : rows'[q].status = rows[q].status /\ Holder'[q] = Holder[q]
           /\ \A v \in Workers \ {w} : ~Holds(v, r) /\ ~Holds(v, r)'
<1>1. \A q \in Runs \ {r} : rows'[q] = rows[q]
  BY DEF SetStatus, IInv, TypeOK
<1>2. \A v \in Workers \ {w} : worker'[v] = worker[v]
  BY DEF Stop, Goto, IInv, TypeOK
<1>3. worker'[w].pc \in Processing => worker'[w].run = r
  BY DEF Stop, Goto, IInv, TypeOK, IdleWorker, Worker, Processing
<1>4. "idle" \notin Processing
  BY DEF Processing
<1>5. \A v \in Workers \ {w} : ~Holds(v, r) /\ ~Holds(v, r)'
  BY <1>2, <1>4, BusyRun DEF Holds
<1>6. \A q \in Runs \ {r}, v \in Workers : Holds(v, q)' <=> Holds(v, q)
  BY <1>1, <1>2, <1>3 DEF Holds
<1>7. QED
  BY <1>1, <1>5, <1>6, SameHolder

LEMMA LockOldestImplements ==
    ASSUME IInv, HolderRight, HolderRight', NEW w \in Workers, LockOldest(w) \/ AbortClaim(w)
    PROVE  JobSame
<1>1. /\ rows' = rows /\ worker[w].pc \in {"idle", "claim"}
      /\ worker'[w].pc \in {"idle", "claim"}
      /\ \A v \in Workers \ {w} : worker'[v] = worker[v]
  BY DEF LockOldest, AbortClaim, Stop, IdleWorker, IInv, TypeOK
<1>2. \A q \in Runs, v \in Workers : Holds(v, q)' <=> Holds(v, q)
  BY <1>1 DEF Holds, Processing
<1>3. QED
  BY <1>1, <1>2, SameHolder, JobFrame

LEMMA CommitClaimImplements ==
    ASSUME IInv, HolderRight, HolderRight', NEW w \in Workers, CommitClaim(w)
    PROVE  Lifecycle!JobNext
<1>1. worker[w].pc = "claim" /\ worker[w].pc \notin Processing
  BY DEF CommitClaim, Processing
<1>2. PICK r \in Runs : worker[w].run = r
  BY <1>1, BusyRun
<1>3. rows[r].status = "queued" /\ rows[r] \in Row
  BY <1>1, <1>2, BusyRun DEF At
<1>4. SetStatus(r, "running") /\ Goto(w, "read") /\ "running" \in RowStatuses
  BY <1>2, <1>3 DEF CommitClaim, RowStatuses
<1>5. /\ \A q \in Runs \ {r} : rows'[q].status = rows[q].status /\ Holder'[q] = Holder[q]
      /\ \A v \in Workers \ {w} : ~Holds(v, r) /\ ~Holds(v, r)'
  BY <1>1, <1>2, <1>4, OtherRunsSame DEF Processing
<1>6. rows'[r].status = "running"
  BY <1>3, <1>4 DEF SetStatus, IInv, TypeOK, Row
<1>7. worker'[w].pc \in Processing /\ worker'[w].run = r
  BY <1>2, <1>4 DEF Goto, IInv, TypeOK, Worker, Processing
<1>8. Holder'[r] = w
  BY <1>6, <1>7 DEF HolderRight, Holds
<1>9. \A q \in Runs : Holder[q] # w
  BY <1>1 DEF HolderRight, Holds
<1>10. Holder' = [Holder EXCEPT ![r] = w]
  BY <1>5, <1>8 DEF Holder
<1>11. Statuses' = [Statuses EXCEPT ![r] = "running"]
  BY <1>5, <1>6 DEF Statuses
<1>12. Lifecycle!Take(r, w)
  BY <1>3, <1>9, <1>10, <1>11 DEF Lifecycle!Take, Statuses
<1>13. QED
  BY <1>12 DEF Lifecycle!JobNext

\* The worker goes on with its run.
LEMMA GoesOnImplements ==
    ASSUME IInv, HolderRight, HolderRight', NEW w \in Workers, worker[w].pc \in Processing,
           rows' = rows, NEW pc \in Processing, Goto(w, pc)
    PROVE  JobSame
<1>1. worker[w].pc # "idle"
  BY DEF Processing
<1>2. PICK r \in Runs : worker[w].run = r
  BY <1>1, BusyRun
<1>3. /\ \A q \in Runs \ {r} : rows'[q].status = rows[q].status /\ Holder'[q] = Holder[q]
      /\ \A v \in Workers \ {w} : ~Holds(v, r) /\ ~Holds(v, r)'
  BY <1>1, <1>2, OtherRunsSame
<1>4. worker'[w].pc \in Processing /\ worker'[w].run = r
  BY <1>2 DEF Goto, IInv, TypeOK, Worker
<1>5. Holds(w, r)' <=> Holds(w, r)
  BY <1>2, <1>4 DEF Holds
<1>6. Holder'[r] = Holder[r]
  BY <1>3, <1>5, SameHolder
<1>7. QED
  BY <1>3, <1>6, JobFrame

\* The terminal write ends the run, or finds that it has ended.
LEMMA FinishImplements ==
    ASSUME IInv, HolderRight, HolderRight', NEW w \in Workers, NEW outcome \in Outcomes,
           worker[w].pc \in Processing, Finish(w, outcome), Stop(w) \/ Goto(w, "fail")
    PROVE  Lifecycle!JobNext \/ JobSame
<1>1. worker[w].pc # "idle" /\ "fail" \in Processing /\ outcome \in RowStatuses
      /\ outcome # "running"
  BY DEF Processing, RowStatuses, Outcomes
<1>2. PICK r \in Runs : worker[w].run = r
  BY <1>1, BusyRun
<1>3. rows' = rows \/ \E s \in RowStatuses : SetStatus(r, s)
  BY <1>1, <1>2 DEF Finish
<1>4. /\ \A q \in Runs \ {r} : rows'[q].status = rows[q].status /\ Holder'[q] = Holder[q]
      /\ \A v \in Workers \ {w} : ~Holds(v, r) /\ ~Holds(v, r)'
  BY <1>1, <1>2, <1>3, OtherRunsSame
<1>5. CASE rows[r].status = "running"
  <2>1. Holds(w, r)
    BY <1>2, <1>5 DEF Holds
  <2>2. Holder[r] = w
    BY <2>1 DEF HolderRight
  <2>3. rows'[r].status = outcome
    BY <1>2, <1>5, BusyRun, <1>1 DEF Finish, SetStatus, IInv, TypeOK, Row
  <2>4. \A v \in Workers : ~Holds(v, r)'
    BY <1>1, <2>3 DEF Holds
  <2>5. Holder'[r] = NoWorker
    BY <2>4 DEF HolderRight
  <2>6. Holder' = [Holder EXCEPT ![r] = NoWorker]
    BY <1>4, <2>5 DEF Holder
  <2>7. Statuses' = [Statuses EXCEPT ![r] = outcome]
    BY <1>4, <2>3 DEF Statuses
  <2>8. Lifecycle!End(r, outcome)
    BY <1>5, <2>2, <2>6, <2>7, OptimizerRunsAssumption DEF Lifecycle!End, Statuses
  <2>9. QED
    BY <2>8 DEF Lifecycle!JobNext
<1>6. CASE rows[r].status # "running"
  <2>1. rows' = rows
    BY <1>2, <1>6 DEF Finish
  <2>2. \A v \in Workers : ~Holds(v, r) /\ ~Holds(v, r)'
    BY <1>6, <2>1 DEF Holds
  <2>3. Holder'[r] = Holder[r]
    BY <2>2, SameHolder
  <2>4. QED
    BY <1>4, <2>1, <2>3, JobFrame
<1>7. QED
  BY <1>5, <1>6

LEMMA CrashImplements ==
    ASSUME IInv, HolderRight, HolderRight', NEW w \in Workers, Crash(w)
    PROVE  Lifecycle!JobNext \/ JobSame
<1>1. worker[w].pc # "idle" /\ Stop(w) /\ rows' = rows
  BY DEF Crash
<1>2. PICK r \in Runs : worker[w].run = r
  BY <1>1, BusyRun
<1>3. /\ \A q \in Runs \ {r} : rows'[q].status = rows[q].status /\ Holder'[q] = Holder[q]
      /\ \A v \in Workers \ {w} : ~Holds(v, r) /\ ~Holds(v, r)'
  BY <1>1, <1>2, OtherRunsSame
<1>4. ~Holds(w, r)'
  BY <1>1 DEF Holds, Stop, IdleWorker, Processing, IInv, TypeOK
<1>5. Holder'[r] = NoWorker
  BY <1>3, <1>4 DEF HolderRight
<1>6. CASE Holds(w, r)
  <2>1. Holder[r] = w
    BY <1>6 DEF HolderRight
  <2>2. Holder' = [Holder EXCEPT ![r] = NoWorker]
    BY <1>3, <1>5 DEF Holder
  <2>3. Statuses' = Statuses
    BY <1>1 DEF Statuses
  <2>4. Lifecycle!Abandon(r)
    BY <2>1, <2>2, <2>3, OptimizerRunsAssumption DEF Lifecycle!Abandon, Statuses
  <2>5. QED
    BY <2>4 DEF Lifecycle!JobNext
<1>7. CASE ~Holds(w, r)
  <2>1. Holder'[r] = Holder[r]
    BY <1>3, <1>4, <1>7, SameHolder
  <2>2. QED
    BY <1>1, <1>3, <2>1, JobFrame
<1>8. QED
  BY <1>6, <1>7

LEMMA WorkerImplements ==
    ASSUME IInv, HolderRight, HolderRight', NEW w \in Workers, Process(w) \/ WorkerFault(w)
    PROVE  Lifecycle!JobNext \/ JobSame
<1>1. CASE LockOldest(w) \/ AbortClaim(w)
  BY <1>1, LockOldestImplements
<1>2. CASE CommitClaim(w)
  BY <1>2, CommitClaimImplements
<1>3. CASE ReadInputs(w) \/ PutFrontier(w) \/ PutOutput(w) \/ InsertRecommendation(w) \/ StepFails(w)
  <2>1. worker[w].pc \in Processing /\ rows' = rows /\ \E pc \in Processing : Goto(w, pc)
    BY <1>3 DEF ReadInputs, PutFrontier, PutOutput, Put, InsertRecommendation, StepFails,
         Processing
  <2>2. QED
    BY <2>1, GoesOnImplements
<1>4. CASE CompleteOptimizerRun(w)
  BY <1>4, FinishImplements DEF CompleteOptimizerRun, Outcomes, Processing
<1>5. CASE MarkOptimizerRunInfeasible(w)
  BY <1>5, FinishImplements DEF MarkOptimizerRunInfeasible, Outcomes, Processing
<1>6. CASE FailOptimizerRun(w)
  BY <1>6, FinishImplements DEF FailOptimizerRun, Outcomes, Processing
<1>7. CASE Crash(w)
  BY <1>7, CrashImplements
<1>8. QED
  BY <1>1, <1>2, <1>3, <1>4, <1>5, <1>6, <1>7 DEF Process, WorkerFault

\* Steps that touch neither rows nor workers.
LEMMA ElsewhereImplements ==
    ASSUME UNCHANGED <<rows, worker>>
    PROVE  JobSame
BY DEF JobSame, Lifecycle!jobVars, Holder, Holds

LEMMA NextImplements == IInv /\ [Next]_vars => [Lifecycle!JobNext]_(Lifecycle!jobVars)
<1> SUFFICES ASSUME IInv, [Next]_vars PROVE Lifecycle!JobNext \/ JobSame
  BY DEF JobSame
<1>1. IInv'
  BY NextIInv
<1>2. HolderRight
  BY HolderIsRight
<1>3. HolderRight'
  BY <1>1, HolderIsRightNext
<1>4. CASE UNCHANGED vars \/ CatalogStep
  BY <1>4, ElsewhereImplements
     DEF vars, CatalogStep, EndForecast, PatchPolicy, ActivatePriceTable, GoStale
<1>5. ASSUME NEW h \in Handlers, HandlerStep(h) PROVE Lifecycle!JobNext \/ JobSame
  <2>1. CASE CommitRow(h)
    BY <1>2, <1>3, <2>1, CommitRowImplements
  <2>2. CASE ~CommitRow(h)
    BY <1>5, <2>2, ElsewhereImplements
       DEF HandlerStep, Begin, ResolveForecast, ResolvePolicy, ResolvePrices, Resolve,
           WriteSnapshot, InsertRow, RequestFails
  <2>3. QED
    BY <2>1, <2>2
<1>6. ASSUME NEW w \in Workers, Process(w) \/ WorkerFault(w)
      PROVE  Lifecycle!JobNext \/ JobSame
  BY <1>2, <1>3, <1>6, WorkerImplements
<1>7. QED
  BY <1>4, <1>5, <1>6 DEF Next

\* The claims, the guarded terminal writes and the crashes of the worker loop
\* implement the lifecycle of a job: taken once, ended once by its taker.
THEOREM Implementation == Spec => ImplementsJobLifecycle
<1>1. Init => Lifecycle!JobInit
  <2> SUFFICES ASSUME Init PROVE Lifecycle!JobInit
    OBVIOUS
  <2>1. \A r \in Runs : rows[r].status = "absent"
    BY BlankRow DEF Init
  <2>2. \A r \in Runs, w \in Workers : ~Holds(w, r)
    BY <2>1 DEF Holds
  <2>3. Holder = [r \in Runs |-> NoWorker]
    BY <2>2 DEF Holder
  <2>4. QED
    BY <2>1, <2>3 DEF Lifecycle!JobInit
<1>2. QED
  BY <1>1, NextImplements, Invariant, PTL DEF Spec, ImplementsJobLifecycle, Lifecycle!JobSpec

-----------------------------------------------------------------------------
(* The policies of the runs *)

\* Row x is what policy p has been since its activation.
Frozen(p, x) ==
    /\ policy[p] \in Policy /\ policy[p].status \in {"active", "archived"}
    /\ [policy[p] EXCEPT !.status = "active"] = x

\* The answer of a patch shows a row, which is frozen when it is active.
PatchOK(q) ==
    /\ q.pc = "get" => policy[q.policy] # NoPolicy
    /\ q.answer = "patched" =>
          q.row \in Policy /\ (q.row.status = "active" => Frozen(q.policy, q.row))

PoliciesInv ==
    /\ PoliciesTypeOK
    /\ \A p \in PolicyIds : \A x \in snapshots[p] : Frozen(p, x)
    /\ \A a \in Admins : PatchOK(patch[a])

\* A policy is created, or changes as the trigger allows.
PoliciesMoveOn ==
    \A p \in PolicyIds :
        \/ policy'[p] = policy[p]
        \/ policy'[p] \in Policy /\ policy[p] = NoPolicy
        \/ policy'[p] \in Policy /\ policy[p] \in Policy /\ Allows(policy[p], policy'[p])

LEMMA NoPatchOK == NoPatch \in Patch /\ NoPatch.pc = "idle" /\ NoPatch.answer = "none"
<1>1. (CHOOSE p \in PolicyIds : TRUE) \in PolicyIds
  BY OptimizerPoliciesAssumption
<1>2. QED
  BY <1>1 DEF NoPatch, Patch

LEMMA PoliciesInitInv == PoliciesInit => PoliciesInv
BY NoPatchOK DEF PoliciesInit, PoliciesInv, PoliciesTypeOK, PatchOK

LEMMA FrozenStays ==
    ASSUME PoliciesMoveOn, NEW p \in PolicyIds, NEW x, Frozen(p, x)
    PROVE  Frozen(p, x)'
<1>1. CASE policy'[p] = policy[p]
  BY <1>1 DEF Frozen
<1>2. CASE policy'[p] # policy[p]
  <2>1. policy'[p] \in Policy /\ policy[p] \in Policy /\ Allows(policy[p], policy'[p])
    BY <1>2, OptimizerPoliciesAssumption DEF PoliciesMoveOn, Frozen
  <2>2. policy'[p] = [policy[p] EXCEPT !.status = "archived"]
    BY <2>1 DEF Frozen, Allows
  <2>3. policy'[p].status = "archived"
    BY <2>1, <2>2 DEF Policy
  <2>4. [policy'[p] EXCEPT !.status = "active"] = [policy[p] EXCEPT !.status = "active"]
    BY <2>1, <2>2 DEF Policy
  <2>5. QED
    BY <2>1, <2>3, <2>4 DEF Frozen
<1>3. QED
  BY <1>1, <1>2

\* What is frozen for snapshots and for answers stays so.
LEMMA PolicyKept == ASSUME UNCHANGED policy PROVE PoliciesMoveOn
BY DEF PoliciesMoveOn

LEMMA SnapshotsStay ==
    ASSUME PoliciesInv, PoliciesMoveOn, UNCHANGED snapshots
    PROVE  \A p \in PolicyIds : \A x \in snapshots'[p] : Frozen(p, x)'
BY FrozenStays DEF PoliciesInv

LEMMA PatchStays ==
    ASSUME PoliciesInv, PoliciesMoveOn, NEW a \in Admins, patch'[a] = patch[a]
    PROVE  PatchOK(patch[a])'
<1>1. patch[a] \in Patch /\ PatchOK(patch[a])
  BY DEF PoliciesInv, PoliciesTypeOK
<1>2. PICK q \in Patch : q = patch[a]
  BY <1>1
<1>3. PatchOK(q) /\ q.policy \in PolicyIds
  BY <1>1, <1>2 DEF Patch
<1>4. policy[q.policy] # NoPolicy => policy'[q.policy] # NoPolicy
  BY <1>3, OptimizerPoliciesAssumption DEF PoliciesMoveOn
<1>5. Frozen(q.policy, q.row) => Frozen(q.policy, q.row)'
  BY <1>3, FrozenStays
<1>6. PatchOK(q)'
  BY <1>3, <1>4, <1>5 DEF PatchOK
<1>7. patch'[a] = q
  BY <1>2
<1>8. QED
  BY <1>6, <1>7 DEF PatchOK

LEMMA PoliciesNextInv == PoliciesInv /\ [PoliciesNext]_policyVars => PoliciesInv'
<1> SUFFICES ASSUME PoliciesInv, [PoliciesNext]_policyVars PROVE PoliciesInv'
  OBVIOUS
<1> USE DEF PoliciesTypeOK
<1>1. ASSUME NEW p \in PolicyIds, NEW name \in Names, NEW terms \in Terms, Create(p, name, terms)
      PROVE  PoliciesInv'
  <2> DEFINE row == [name |-> name, terms |-> terms, status |-> "draft"]
  <2>1. row \in Policy
    BY DEF Policy
  <2>2. policy' = [policy EXCEPT ![p] = row] /\ policy[p] = NoPolicy
        /\ UNCHANGED <<patch, snapshots>>
    BY <1>1 DEF Create
  <2> HIDE DEF row
  <2>3. PoliciesTypeOK' /\ PoliciesMoveOn
    BY <2>1, <2>2 DEF PoliciesInv, PoliciesMoveOn
  <2>4. QED
    BY <2>2, <2>3, SnapshotsStay, PatchStays DEF PoliciesInv
<1>2. ASSUME NEW p \in PolicyIds, Snapshot(p)
      PROVE  PoliciesInv'
  <2>1. policy[p] \in Policy /\ policy[p].status = "active" /\ UNCHANGED <<policy, patch>>
    BY <1>2 DEF Snapshot, PoliciesInv
  <2>2. [policy[p] EXCEPT !.status = "active"] = policy[p]
    BY <2>1 DEF Policy
  <2>3. PoliciesTypeOK'
    BY <1>2, <2>1 DEF Snapshot, PoliciesInv
  <2>4. \A z \in PolicyIds : \A x \in snapshots'[z] : x \in snapshots[z] \/ (z = p /\ x = policy[p])
    BY <1>2 DEF Snapshot, PoliciesInv
  <2>5. \A z \in PolicyIds : \A x \in snapshots'[z] : Frozen(z, x)'
    BY <2>1, <2>2, <2>4 DEF Frozen, PoliciesInv
  <2>6. QED
    BY <2>1, <2>3, <2>5, PolicyKept, PatchStays DEF PoliciesInv
<1>3. ASSUME NEW a \in Admins, NEW p \in PolicyIds, NEW name \in Names \cup {Absent},
             NEW terms \in Terms \cup {Absent},
             NEW status \in {"draft", "active", "archived", Absent},
             Receive(a, p, name, terms, status)
      PROVE  PoliciesInv'
  <2> DEFINE q == [NoPatch EXCEPT !.pc = "update", !.policy = p, !.name = name,
                                  !.terms = terms, !.status = status]
  <2>1. q \in Patch /\ q.pc = "update" /\ q.answer = "none"
    BY NoPatchOK DEF Patch
  <2>2. patch' = [patch EXCEPT ![a] = q] /\ UNCHANGED <<policy, snapshots>>
    BY <1>3 DEF Receive
  <2> HIDE DEF q
  <2>3. PoliciesTypeOK'
    BY <2>1, <2>2 DEF PoliciesInv
  <2>4. PatchOK(patch[a])'
    BY <2>1, <2>2 DEF PoliciesInv, PatchOK
  <2>5. \A b \in Admins : b # a => patch'[b] = patch[b]
    BY <2>2 DEF PoliciesInv
  <2>6. QED
    BY <2>2, <2>3, <2>4, <2>5, PolicyKept, SnapshotsStay, PatchStays DEF PoliciesInv
<1>4. ASSUME NEW a \in Admins, NEW answer \in {"not found", "conflict", "frozen"},
             Answer(a, answer), UNCHANGED <<policy, snapshots>>
      PROVE  PoliciesInv'
  <2> DEFINE q == [NoPatch EXCEPT !.pc = "answered", !.answer = answer]
  <2>1. q \in Patch /\ q.pc = "answered" /\ q.answer = answer
    BY NoPatchOK DEF Patch
  <2>2. patch' = [patch EXCEPT ![a] = q]
    BY <1>4 DEF Answer
  <2> HIDE DEF q
  <2>3. PoliciesTypeOK'
    BY <1>4, <2>1, <2>2 DEF PoliciesInv
  <2>4. PatchOK(patch[a])'
    BY <2>1, <2>2 DEF PoliciesInv, PatchOK
  <2>5. \A b \in Admins : b # a => patch'[b] = patch[b]
    BY <2>2 DEF PoliciesInv
  <2>6. QED
    BY <1>4, <2>3, <2>4, <2>5, PolicyKept, SnapshotsStay, PatchStays DEF PoliciesInv
<1>5. ASSUME NEW a \in Admins, Update(a)
      PROVE  PoliciesInv'
  <2> DEFINE r == patch[a]
             p == r.policy
             new == Patched(policy[p], r)
  <2>1. CASE /\ policy[p] # NoPolicy /\ Allows(policy[p], new)
             /\ policy' = [policy EXCEPT ![p] = new]
             /\ patch' = [patch EXCEPT ![a].pc = "get"]
             /\ UNCHANGED snapshots
    <3> DEFINE q == [r EXCEPT !.pc = "get"]
    <3>1. r \in Patch /\ PatchOK(r) /\ p \in PolicyIds
      BY DEF PoliciesInv, Patch
    <3>2. policy[p] \in Policy
      BY <2>1, <3>1 DEF PoliciesInv
    <3>3. new \in Policy
      <4>1. Or(r.name, policy[p].name) \in Names /\ Or(r.terms, policy[p].terms) \in Terms
        BY <3>1, <3>2 DEF Patch, Policy, Or
      <4>2. Or(r.status, policy[p].status) \in {"draft", "active", "archived"}
        BY <3>1, <3>2 DEF Patch, Policy, Or
      <4>3. QED
        BY <4>1, <4>2 DEF Patched, Policy
    <3>4. q \in Patch /\ q.policy = p /\ q.answer = r.answer /\ q.row = r.row
      BY <3>1 DEF Patch
    <3> HIDE DEF new
    <3>5. patch' = [patch EXCEPT ![a] = q]
      BY <2>1
    <3>6. PoliciesMoveOn
      BY <2>1, <3>1, <3>2, <3>3 DEF PoliciesInv, PoliciesMoveOn
    <3>7. policy' \in [PolicyIds -> Policy \cup {NoPolicy}] /\ policy'[p] # NoPolicy
      BY <2>1, <3>1, <3>3, OptimizerPoliciesAssumption DEF PoliciesInv
    <3> HIDE DEF q
    <3>8. PoliciesTypeOK' /\ patch'[a] = q
      BY <2>1, <3>4, <3>5, <3>7 DEF PoliciesInv
    <3>9. PatchOK(patch[a])'
      BY <3>1, <3>4, <3>6, <3>7, <3>8, FrozenStays DEF PatchOK
    <3>10. \A b \in Admins : b # a => patch'[b] = patch[b]
      BY <3>5 DEF PoliciesInv
    <3>11. QED
      BY <2>1, <3>6, <3>8, <3>9, <3>10, SnapshotsStay, PatchStays DEF PoliciesInv
  <2>2. QED
    BY <1>4, <1>5, <2>1 DEF Update
<1>6. ASSUME NEW a \in Admins, Get(a)
      PROVE  PoliciesInv'
  <2> DEFINE p == patch[a].policy
             row == policy[p]
             q == [NoPatch EXCEPT !.pc = "answered", !.answer = "patched", !.policy = p, !.row = row]
  <2>1. p \in PolicyIds /\ row \in Policy
    BY <1>6 DEF Get, PoliciesInv, PatchOK, Patch
  <2>2. patch' = [patch EXCEPT ![a] = q] /\ UNCHANGED <<policy, snapshots>>
    BY <1>6 DEF Get
  <2>3. row.status = "active" => Frozen(p, row)
    BY <2>1 DEF Frozen, Policy
  <2>4. q \in Patch /\ q.pc = "answered" /\ q.policy = p /\ q.row = row
    BY <2>1, NoPatchOK DEF Patch
  <2> HIDE DEF q
  <2>5. PoliciesTypeOK' /\ patch'[a] = q
    BY <2>2, <2>4 DEF PoliciesInv
  <2>6. PatchOK(patch[a])'
    BY <2>1, <2>2, <2>3, <2>4, <2>5 DEF PatchOK, Frozen
  <2>7. \A b \in Admins : b # a => patch'[b] = patch[b]
    BY <2>2 DEF PoliciesInv
  <2>8. QED
    BY <2>2, <2>5, <2>6, <2>7, PolicyKept, SnapshotsStay, PatchStays DEF PoliciesInv
<1>7. CASE UNCHANGED policyVars
  BY <1>7, PolicyKept, SnapshotsStay, PatchStays DEF policyVars, PoliciesInv
<1>8. QED
  BY <1>1, <1>2, <1>3, <1>5, <1>6, <1>7 DEF PoliciesNext, Step

\* The runs of a policy were all made under the terms it has, and an administrator who
\* is answered with an active policy is shown what will be run, for any number of
\* policies and administrators whose patches are out of date: the trigger of migration
\* 0017 freezes a policy with its first activation, although PATCH names no version.
THEOREM FrozenPolicies == PoliciesSpec => []PoliciesAreFrozen
<1>1. PoliciesInv => PoliciesAreFrozen
  <2> SUFFICES ASSUME PoliciesInv PROVE PoliciesAreFrozen
    OBVIOUS
  <2>1. RunPolicyStays
    BY DEF RunPolicyStays, PoliciesInv, Frozen
  <2>2. ASSUME NEW a \in Admins, patch[a].answer = "patched", patch[a].row.status = "active"
        PROVE  \A x \in snapshots[patch[a].policy] : x = patch[a].row
    <3>1. Frozen(patch[a].policy, patch[a].row) /\ patch[a].policy \in PolicyIds
      BY <2>2 DEF PoliciesInv, PatchOK, PoliciesTypeOK, Patch
    <3>2. QED
      BY <3>1 DEF PoliciesInv, Frozen
  <2>3. QED
    BY <2>1, <2>2 DEF PoliciesAreFrozen, AnswerIsRun
<1>2. QED
  BY <1>1, PoliciesInitInv, PoliciesNextInv, PTL DEF PoliciesSpec
=============================================================================
