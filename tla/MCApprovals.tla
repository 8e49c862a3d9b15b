---------------------------- MODULE MCApprovals ----------------------------
(***************************************************************************)
(* The approval workflow for TLC.  component says what moves in a          *)
(* behaviour: two handlers and one worker on one recommendation, one       *)
(* handler and two workers with a batch of two on two recommendations, one *)
(* of each with a batch of one, for liveness, or the requests of           *)
(* DecisionEvents with what follows their commits.                         *)
(***************************************************************************)
EXTENDS Approvals, DecisionEvents

VARIABLE component

One(S) == {CHOOSE x \in S : TRUE}

\* Only processes P and recommendations R move.
Only(P, R) ==
    /\ \A p \in Processes \ P : tx'[p] = tx[p]
    /\ \A r \in Recommendations \ R : recommendations'[r] = recommendations[r]

Live == INSTANCE Approvals WITH Limit <- 1

MCInit ==
    /\ component \in {"race", "batch", "live", "events"}
    /\ Init
    /\ EventsInit
    /\ component # "events" => task = [r \in Requests |-> CHOOSE t \in Tasks : TRUE]

MCNext ==
    \/ /\ UNCHANGED <<component, eventVars>>
       /\ \/ /\ component = "race"
             /\ Next /\ Only(Handlers \cup One(Expirers), One(Recommendations))
          \/ /\ component = "batch"
             /\ Next /\ Only(One(Handlers) \cup Expirers, Recommendations)
          \/ /\ component = "live"
             /\ Live!Next /\ Only(One(Handlers) \cup One(Expirers), Recommendations)
    \/ component = "events" /\ EventsNext /\ UNCHANGED <<component, vars>>

\* The fairness of Approvals.
MCFairness ==
    /\ WF_vars(component = "live" /\ Tick)
    /\ \A h \in One(Handlers) : SF_vars(component = "live" /\ Live!HandlerAdvance(h))
    /\ \A w \in One(Expirers) :
          /\ SF_vars(component = "live" /\ Live!LockDue(w))
          /\ SF_vars(component = "live" /\ Live!ExpirerAdvance(w))
          /\ SF_vars(component = "live" /\ Live!Commit(w))

MCSpec == MCInit /\ [][MCNext]_<<component, vars, eventVars>> /\ MCFairness
-----------------------------------------------------------------------------
(* Properties *)

\* Every transaction ends, in whatever order requests, decisions and expiries take
\* their row locks; and a pending approval is decided or expired, although the expiry
\* skips the rows others have locked.
EverythingEnds == component = "live" => TransactionsEnd /\ PendingApprovalsAreClosed
=============================================================================
