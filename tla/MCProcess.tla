----------------------------- MODULE MCProcess ------------------------------
(***************************************************************************)
(* What a process is made of, for TLC.  component says what moves in a     *)
(* behaviour: the executor of password hashes, a managed cache, the start  *)
(* and the shutdown of the API, the Redis queue or the migration gate.     *)
(* The others stay in one of their initial states.                         *)
(***************************************************************************)
EXTENDS ArgonExecutor, ManagedCache, ServerLifecycle, JobQueue, Migrations

VARIABLE component

allVars == <<component, vars, cacheVars, serverVars, queueVars, gateVars>>

MCInit ==
    /\ component \in {"executor", "cache", "server", "redis", "gate"}
    /\ Init /\ CacheInit /\ ServerInit /\ QueueInit /\ GateInit
    /\ component # "server" => selfRegistration
    /\ component # "redis" => key = [c \in Calls |-> CHOOSE k \in IdempotencyKeys : TRUE]
    /\ component # "gate" => directory = [r \in Runners |-> {}]

MCNext ==
    \/ component = "executor" /\ Next
       /\ UNCHANGED <<component, cacheVars, serverVars, queueVars, gateVars>>
    \/ component = "cache" /\ CacheNext
       /\ UNCHANGED <<component, vars, serverVars, queueVars, gateVars>>
    \/ component = "server" /\ ServerNext
       /\ UNCHANGED <<component, vars, cacheVars, queueVars, gateVars>>
    \/ component = "redis" /\ QueueNext
       /\ UNCHANGED <<component, vars, cacheVars, serverVars, gateVars>>
    \/ component = "gate" /\ GateNext
       /\ UNCHANGED <<component, vars, cacheVars, serverVars, queueVars>>

\* The fairness of the components.
MCFairness ==
    /\ \A o \in Operations : /\ WF_vars(component = "executor" /\ Settle(o))
                             /\ WF_vars(component = "executor" /\ Leave(o))
    /\ \A n \in CloseIds : WF_cacheVars(component = "cache" /\ CloseGeneration(n))
    /\ \A g \in Generations :
          WF_cacheVars(component = "cache" /\ (FactoryResolves(g) \/ FactoryRejects(g)))
    /\ WF_serverVars(component = "server" /\ Acquire)
    /\ WF_serverVars(component = "server" /\ CloseResource)
    /\ WF_serverVars(component = "server" /\ Exit)
    /\ \A q \in Requests : WF_serverVars(component = "server" /\ Finish(q))
    /\ \A r \in Runners : /\ WF_gateVars(component = "gate" /\ Work(r))
                          /\ SF_gateVars(component = "gate" /\ Lock(r))

MCSpec == MCInit /\ [][MCNext]_allVars /\ MCFairness
-----------------------------------------------------------------------------
(* Properties *)

\* No resource of a process is lost, opened twice, closed twice or used after it was
\* closed, whatever meets its making and its closing, and failures show in the exit code.
ResourcesAreSafe == CacheIsSafe /\ ServerIsSafe

\* What is to be done once is: an idempotency key stands for one job as long as it is
\* reserved, and a migration takes effect once, in order, whoever races, fails or comes again.
DoneOnce ==
    /\ QueueTypeOK /\ PushedOnce /\ OneAnswer /\ ListBounded
    /\ GateTypeOK /\ OnceInOrder /\ DoneMeansUpToDate

\* Everything ends: hashes are answered, a cache opens again after a failed close, a signal
\* ends the process, and every run of the migration gate is over some time.
EverythingEnds ==
    /\ component = "executor" => AllAnswered
    /\ component = "cache" => Reopens
    /\ component = "server" => SignalsEnd
    /\ component = "gate" => RunsEnd
=============================================================================
