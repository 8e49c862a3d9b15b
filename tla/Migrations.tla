----------------------------- MODULE Migrations -----------------------------
(***************************************************************************)
(* The migration gate: several runners, of releases whose directories      *)
(* differ, discover their files, wait for the advisory lock, compare the   *)
(* ledger with their plan and apply what is missing, each file with its    *)
(* ledger row in one transaction.  Sessions break, files fail, replies of  *)
(* commits are lost and runners are started again.                         *)
(***************************************************************************)
EXTENDS FiniteSets, Naturals, Sequences

CONSTANTS
  Runners, None,
  Texts,               \* names and contents of SQL files
  Versions,
  MaxRuns              \* runs of a runner (bound)

ASSUME MigrationsAssumption == MaxRuns \in Nat \ {0} /\ Versions \subseteq Nat /\ None \notin Runners

File == [version : Versions, text : Texts]

VARIABLES
  directory,   \* directory[r]: the files of runner r's release
  pc, runs,
  plan,        \* its files by version
  known,       \* the files r read from the ledger
  lock,        \* who holds the advisory lock of the ledger
  ledger,      \* rows of _ccpo_schema_migrations
  schema       \* the files whose statements took effect, in their order

gateVars == <<directory, pc, runs, plan, known, lock, ledger, schema>>

GateInit ==
  /\ directory \in [Runners -> SUBSET File]
  /\ pc = [r \in Runners |-> "start"] /\ runs = [r \in Runners |-> 1]
  /\ plan = [r \in Runners |-> {}] /\ known = [r \in Runners |-> {}]
  /\ lock = None /\ ledger = {} /\ schema = <<>>

Goto(r, to) == pc' = [pc EXCEPT ![r] = to]

\* discoverSqlFiles: no file, or two of one version, end the run before it connects.
Plannable(files) ==
  files # {} /\ \A f, g \in files : f.version = g.version => f = g

Discover(r) ==
  /\ pc[r] = "start"
  /\ \/ Plannable(directory[r])
        /\ plan' = [plan EXCEPT ![r] = directory[r]] /\ Goto(r, "wait")
     \/ ~Plannable(directory[r]) /\ Goto(r, "failed") /\ UNCHANGED plan
  /\ UNCHANGED <<directory, runs, known, lock, ledger, schema>>

\* Fault: the ledger is read without the lock.
LockNothing(r) ==
  /\ pc[r] = "wait"
  /\ Goto(r, "read")
  /\ UNCHANGED <<directory, runs, plan, known, lock, ledger, schema>>

\* pg_advisory_lock
Lock(r) ==
  /\ pc[r] = "wait" /\ lock = None
  /\ lock' = r /\ Goto(r, "read")
  /\ UNCHANGED <<directory, runs, plan, known, ledger, schema>>

\* validateAppliedPlan: every row is a file as it was, and what is missing comes after it.
Valid(r) ==
  /\ ledger \subseteq plan[r]
  /\ \A f \in plan[r] \ ledger, a \in ledger : f.version > a.version

ReadLedger(r) ==
  /\ pc[r] = "read"
  /\ known' = [known EXCEPT ![r] = ledger]
  /\ Goto(r, IF Valid(r) THEN "apply" ELSE "unlockFailed")
  /\ UNCHANGED <<directory, runs, plan, lock, ledger, schema>>

\* The files that r has still to apply; the first of them in the order of its plan.
Missing(r) == plan[r] \ known[r]
First(files) == CHOOSE f \in files : \A g \in files : f.version <= g.version

\* The statements of the next file and its ledger row, in one transaction.
ApplyFile(r) ==
  /\ pc[r] = "apply" /\ Missing(r) # {}
  /\ Goto(r, "applied")
  /\ UNCHANGED <<directory, runs, plan, known, lock, ledger, schema>>

\* A statement of the file or its ledger row fails; the transaction is rolled back.
FileFails(r) ==
  /\ pc[r] = "apply" /\ Missing(r) # {}
  /\ Goto(r, "unlockFailed")
  /\ UNCHANGED <<directory, runs, plan, known, lock, ledger, schema>>

Committed(r) ==
  LET f == First(Missing(r))
  IN /\ \A a \in ledger : a.version # f.version   \* its primary key
     /\ ledger' = ledger \cup {f}
     /\ schema' = Append(schema, f)
     /\ known' = [known EXCEPT ![r] = @ \cup {f}]

Commit(r) ==
  /\ pc[r] = "applied" /\ Committed(r)
  /\ Goto(r, "apply")
  /\ UNCHANGED <<directory, runs, plan, lock>>

\* The commit takes effect, or does not, and r is told that it failed.
CommitFails(r) ==
  /\ pc[r] = "applied"
  /\ Committed(r) \/ UNCHANGED <<ledger, schema, known>>
  /\ Goto(r, "unlockFailed")
  /\ UNCHANGED <<directory, runs, plan, lock>>

NothingMissing(r) ==
  /\ pc[r] = "apply" /\ Missing(r) = {}
  /\ Goto(r, "unlock")
  /\ UNCHANGED <<directory, runs, plan, known, lock, ledger, schema>>

\* finalizeSqlClient: the lock is released and the session closed, on every path.
Unlock(r) ==
  /\ pc[r] \in {"unlock", "unlockFailed"}
  /\ lock' = IF lock = r THEN None ELSE lock
  /\ Goto(r, IF pc[r] = "unlock" THEN "done" ELSE "failed")
  /\ UNCHANGED <<directory, runs, plan, known, ledger, schema>>

\* The session breaks: PostgreSQL rolls back and releases its locks.
Break(r) ==
  /\ pc[r] \notin {"start", "done", "failed"}
  /\ lock' = IF lock = r THEN None ELSE lock
  /\ Goto(r, "failed")
  /\ UNCHANGED <<directory, runs, plan, known, ledger, schema>>

\* The gate is run again, perhaps of another release.
Restart(r) ==
  /\ pc[r] \in {"done", "failed"} /\ runs[r] < MaxRuns
  /\ runs' = [runs EXCEPT ![r] = @ + 1]
  /\ \E s \in Runners : directory' = [directory EXCEPT ![r] = directory[s]]
  /\ plan' = [plan EXCEPT ![r] = {}] /\ known' = [known EXCEPT ![r] = {}]
  /\ Goto(r, "start")
  /\ UNCHANGED <<lock, ledger, schema>>

Work(r) ==
  \/ Discover(r) \/ ReadLedger(r) \/ ApplyFile(r) \/ FileFails(r) \/ Commit(r) \/ CommitFails(r)
  \/ NothingMissing(r) \/ Unlock(r)

GateNext == \E r \in Runners : Work(r) \/ Lock(r) \/ Break(r) \/ Restart(r)

\* Statements are answered, and the waiters for a lock get it in turn.
GateSpec ==
  /\ GateInit /\ [][GateNext]_gateVars
  /\ \A r \in Runners : WF_gateVars(Work(r)) /\ SF_gateVars(Lock(r))
-----------------------------------------------------------------------------
GateTypeOK ==
  /\ lock \in Runners \cup {None} /\ ledger \subseteq File /\ schema \in Seq(File)
  /\ \A r \in Runners : pc[r] \in {"start", "wait", "read", "apply", "applied",
                                   "unlock", "unlockFailed", "done", "failed"}
  /\ \A r \in Runners : pc[r] = "applied" => Missing(r) # {}

\* "The migration runner applies each ordered file once" (deployment.md): whatever
\* releases run side by side, break and come again, no file takes effect twice, none
\* behind a higher version, and the ledger says which did.
OnceInOrder ==
  /\ {schema[i] : i \in DOMAIN schema} = ledger
  /\ \A i, j \in DOMAIN schema : i < j => schema[i].version < schema[j].version

\* A gate that let its release start: the schema is what the release's files make, and
\* later releases have only added to it.
DoneMeansUpToDate ==
  \A r \in Runners : pc[r] = "done" =>
    /\ plan[r] \subseteq ledger
    /\ \A a \in ledger \ plan[r], f \in plan[r] : a.version > f.version

\* Every run of the gate ends, whoever holds the lock and however its session ends.
RunsEnd == \A r \in Runners : (pc[r] = "start") ~> (pc[r] \in {"done", "failed"})
=============================================================================
