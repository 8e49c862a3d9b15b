---------------------------- MODULE MCOptimizer ----------------------------
(***************************************************************************)
(* Optimizer runs and optimizer policies for TLC.  component says what     *)
(* moves in a behaviour: two workers that may die on two runs, one of them *)
(* on two runs, two that live on one run, or the requests of two           *)
(* administrators on one policy or of one on two policies.                 *)
(***************************************************************************)
EXTENDS OptimizerRuns, OptimizerPolicies

VARIABLE component

One(S) == {CHOOSE x \in S : TRUE}

\* Only workers W and runs R move.
Only(W, R) ==
    /\ \A w \in Workers \ W : worker'[w] = worker[w]
    /\ \A r \in Runs \ R : rows'[r] = rows[r]

\* A run gets the first identifier, the next one another: nothing else tells them apart.
InOrder ==
    (\E r \in Runs : <<r, "input">> \in objects') => \A r \in One(Runs) : <<r, "input">> \in objects'

Lasting == INSTANCE OptimizerRuns WITH MayCrash <- FALSE

\* Only administrators A, asking for policies P, and these policies move.
Patching(A, P) ==
    /\ \A a \in Admins \ A : patch'[a] = patch[a]
    /\ \A a \in A : patch'[a].policy \in P
    /\ \A p \in PolicyIds \ P : policy'[p] = policy[p] /\ snapshots'[p] = snapshots[p]

MCInit ==
    /\ component \in {"all", "crashing", "lasting", "freezing", "naming"}
    /\ Init /\ PoliciesInit
    /\ component \in {"freezing", "naming"} => forecasts = [f \in Forecasts |-> "running"]

MCNext ==
    \/ /\ UNCHANGED <<component, policyVars>>
       /\ \/ component = "all" /\ Next /\ InOrder
          \/ component = "crashing" /\ Next /\ Only(One(Workers), Runs) /\ InOrder
          \/ component = "lasting" /\ Lasting!Next /\ Only(Workers, One(Runs))
    \/ /\ UNCHANGED <<component, vars>>
       /\ PoliciesNext
       /\ \/ component = "freezing" /\ Patching(Admins, One(PolicyIds))
          \/ component = "naming" /\ Patching(One(Admins), PolicyIds)

\* The fairness of OptimizerRuns.
MCFairness ==
    /\ \A w \in One(Workers) : /\ WF_vars(component = "crashing" /\ Process(w))
                               /\ SF_vars(component = "crashing" /\ CommitClaim(w))
    /\ \A w \in Workers : /\ WF_vars(component = "lasting" /\ Lasting!Process(w))
                          /\ SF_vars(component = "lasting" /\ Lasting!CommitClaim(w))

MCSpec == MCInit /\ [][MCNext]_<<component, vars, policyVars>> /\ MCFairness
-----------------------------------------------------------------------------
(* Properties *)

\* Runs do not get stuck: a queued run is claimed, although workers die and claims
\* fail, and while no worker dies a claimed run ends.
RunsEnd ==
    /\ component = "crashing" => QueuedRunIsClaimed
    /\ component = "lasting" => ClaimedRunEnds
=============================================================================
