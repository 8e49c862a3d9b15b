----------------------- MODULE RecommendationDecision -----------------------
(***************************************************************************)
(* What the approval workflow promises, seen from committed data only: a   *)
(* recommendation that needs approval is requested once, and its approval  *)
(* and the recommendation itself are decided or expired in one step, with  *)
(* the same status.  Module Approvals is shown to implement this with      *)
(* transactions of several statements.                                     *)
(***************************************************************************)
EXTENDS Naturals

CONSTANTS
    Recommendations,    \* identifiers of recommendations
    ApprovalIds,        \* identifiers of approvals
    NoRecommendation,   \* the recommendation of an approval that does not exist
    ExpiryTicks         \* APPROVAL_EXPIRY_HOURS in ticks of the clock

VARIABLES
    clock,              \* the time of the database and of the services
    recommendations,    \* recommendations[r]: committed status of r
    approvals           \* approvals[a]: committed row of a

decisionVars == <<clock, recommendations, approvals>>

Decisions == {"approved", "rejected"}

Blank == [status |-> "absent", recommendation |-> NoRecommendation,
          expiresAt |-> 0, decidedAt |-> 0]

DecisionInit ==
    /\ clock = 0
    /\ recommendations = [r \in Recommendations |-> "absent"]
    /\ approvals = [a \in ApprovalIds |-> Blank]

Advance ==
    /\ clock' = clock + 1
    /\ UNCHANGED <<recommendations, approvals>>

Publish(r) ==
    /\ recommendations[r] = "absent"
    /\ \E s \in {"ready", "pending_approval"} :
           recommendations' = [recommendations EXCEPT ![r] = s]
    /\ UNCHANGED <<clock, approvals>>

\* One approval per recommendation, ever.
Ask(a, r) ==
    /\ recommendations[r] = "pending_approval"
    /\ approvals[a] = Blank
    /\ \A b \in ApprovalIds : approvals[b].recommendation # r
    /\ \E asked \in 0 .. clock :
           approvals' = [approvals EXCEPT ![a] =
               [status |-> "pending", recommendation |-> r,
                expiresAt |-> asked + ExpiryTicks, decidedAt |-> 0]]
    /\ UNCHANGED <<clock, recommendations>>

\* The approvals in S and their recommendations end together, as of time at.
Close(S, to, at) ==
    /\ \A a \in S : /\ approvals[a].status = "pending"
                    /\ recommendations[approvals[a].recommendation] = "pending_approval"
    /\ approvals' = [a \in ApprovalIds |->
           IF a \in S THEN [approvals[a] EXCEPT !.status = to, !.decidedAt = at]
           ELSE approvals[a]]
    /\ recommendations' = [r \in Recommendations |->
           IF \E a \in S : approvals[a].recommendation = r THEN to ELSE recommendations[r]]
    /\ UNCHANGED clock

DecideOne(a, to) == \E at \in 0 .. clock : Close({a}, to, at)

ExpireSome(S) ==
    \E at \in 0 .. clock :
        /\ \A a \in S : approvals[a].expiresAt <= at
        /\ Close(S, "expired", at)

DecisionNext ==
    \/ Advance
    \/ \E r \in Recommendations :
           Publish(r) \/ \E a \in ApprovalIds : Ask(a, r)
    \/ \E a \in ApprovalIds, to \in Decisions : DecideOne(a, to)
    \/ \E S \in SUBSET ApprovalIds : ExpireSome(S)

DecisionSpec == DecisionInit /\ [][DecisionNext]_decisionVars
=============================================================================
