---------------------------- MODULE JobLifecycle ----------------------------
(***************************************************************************)
(* What the platform promises about a job of a worker queue (an optimizer  *)
(* run, a forecast run, a backtest run): it is submitted once, taken by    *)
(* one worker, and ended at most once, by the worker that took it.  A job  *)
(* whose worker died is abandoned: it stays running and nobody takes it    *)
(* again.  The queues of the repository are shown to implement this.       *)
(***************************************************************************)
CONSTANTS
    Jobs,       \* identifiers of the jobs
    Workers,    \* the worker processes
    Outcomes,   \* the terminal statuses a worker may give a job
    NoWorker    \* the holder of a job nobody works on

VARIABLES
    status,     \* status[j]: the status column of j's row, "absent" without a row
    holder      \* holder[j]: the worker that is processing j

jobVars == <<status, holder>>

JobInit ==
    /\ status = [j \in Jobs |-> "absent"]
    /\ holder = [j \in Jobs |-> NoWorker]

Submit(j) ==
    /\ status[j] = "absent"
    /\ status' = [status EXCEPT ![j] = "queued"]
    /\ UNCHANGED holder

Take(j, w) ==
    /\ status[j] = "queued"
    /\ \A k \in Jobs : holder[k] # w
    /\ status' = [status EXCEPT ![j] = "running"]
    /\ holder' = [holder EXCEPT ![j] = w]

End(j, outcome) ==
    /\ status[j] = "running"
    /\ holder[j] # NoWorker
    /\ status' = [status EXCEPT ![j] = outcome]
    /\ holder' = [holder EXCEPT ![j] = NoWorker]

Abandon(j) ==
    /\ holder[j] # NoWorker
    /\ holder' = [holder EXCEPT ![j] = NoWorker]
    /\ UNCHANGED status

JobNext ==
    \E j \in Jobs :
        \/ Submit(j)
        \/ \E w \in Workers : Take(j, w)
        \/ \E outcome \in Outcomes : End(j, outcome)
        \/ Abandon(j)

JobSpec == JobInit /\ [][JobNext]_jobVars
=============================================================================
