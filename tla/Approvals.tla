------------------------------ MODULE Approvals ------------------------------
(***************************************************************************)
(* The approval workflow as its transactions execute it                    *)
(* (core/approvals, the triggers of db/migrations/0019 and 0021).          *)
(*                                                                         *)
(* API handlers request and decide approvals, worker processes expire the  *)
(* due ones.  A transaction is a sequence of statements under READ         *)
(* COMMITTED: every process sees committed rows only, a row lock is held   *)
(* from the statement that takes it to the end of the transaction, and the *)
(* transaction's writes appear at its commit.  Any transaction may be      *)
(* rolled back by an error or a dying process at any point.                *)
(***************************************************************************)
EXTENDS Naturals, FiniteSets

CONSTANTS
    Handlers,           \* API requests in flight at once
    Expirers,           \* worker processes running the expiry
    Recommendations,    \* identifiers of recommendations
    ApprovalIds,        \* identifiers of approvals
    NoRecommendation,   \* the recommendation of an approval that does not exist
    NoApproval,         \* the approval of a transaction that has none
    ExpiryTicks,        \* APPROVAL_EXPIRY_HOURS in ticks of the clock
    Limit,              \* batch size of the expiry
    MaxTime             \* bound on the clock

ASSUME ApprovalsAssumption ==
    /\ Handlers \cap Expirers = {}
    /\ NoRecommendation \notin Recommendations
    /\ NoApproval \notin ApprovalIds
    /\ ExpiryTicks \in Nat \ {0}
    /\ Limit \in Nat \ {0}
    /\ MaxTime \in Nat

VARIABLES
    clock,              \* the time of the database and of the services
    recommendations,    \* recommendations[r]: committed status of r
    approvals,          \* approvals[a]: committed row of a
    tx                  \* tx[p]: the open transaction of process p

vars == <<clock, recommendations, approvals, tx>>

-----------------------------------------------------------------------------
(* States *)

Processes == Handlers \cup Expirers
Decisions == {"approved", "rejected"}
Closed == Decisions \cup {"expired"}
RecommendationStatuses == {"absent", "ready", "pending_approval"} \cup Closed
ApprovalStatuses == {"absent", "pending"} \cup Closed

Approval == [status : ApprovalStatuses,
             recommendation : Recommendations \cup {NoRecommendation},
             expiresAt : Nat, decidedAt : Nat]

\* A transaction: its statement, its target, its locks and what it wrote.
Transaction ==
    [pc : {"idle", "lockRecommendation", "readContext", "insertApproval",
           "lockApproval", "updateRecommendation", "updateApproval",
           "expireRecommendations", "commit"},
     start : Nat,
     recommendation : Recommendations \cup {NoRecommendation},
     approval : ApprovalIds \cup {NoApproval},
     to : ApprovalStatuses,
     todo : SUBSET ApprovalIds,
     approvalLocks : SUBSET ApprovalIds,
     recommendationLocks : SUBSET Recommendations,
     approvalWrites : SUBSET ApprovalIds,
     recommendationWrites : SUBSET Recommendations]

Blank == [status |-> "absent", recommendation |-> NoRecommendation,
          expiresAt |-> 0, decidedAt |-> 0]

NoTx == [pc |-> "idle", start |-> 0, recommendation |-> NoRecommendation,
         approval |-> NoApproval, to |-> "absent", todo |-> {},
         approvalLocks |-> {}, recommendationLocks |-> {},
         approvalWrites |-> {}, recommendationWrites |-> {}]

TypeOK ==
    /\ clock \in Nat
    /\ recommendations \in [Recommendations -> RecommendationStatuses]
    /\ approvals \in [ApprovalIds -> Approval]
    /\ tx \in [Processes -> Transaction]

Init ==
    /\ clock = 0
    /\ recommendations = [r \in Recommendations |-> "absent"]
    /\ approvals = [a \in ApprovalIds |-> Blank]
    /\ tx = [p \in Processes |-> NoTx]

RecommendationFree(r) == \A p \in Processes : r \notin tx[p].recommendationLocks
ApprovalFree(a) == \A p \in Processes : a \notin tx[p].approvalLocks

Pending(a) == approvals[a].status = "pending"
Open(r) == {a \in ApprovalIds : Pending(a) /\ approvals[a].recommendation = r}
\* Fault: the expiry forgets to compare expires_at.
DueAnytime(now) == {a \in ApprovalIds : Pending(a) /\ ApprovalFree(a)}

Due(now) == {a \in ApprovalIds : Pending(a) /\ approvals[a].expiresAt <= now /\ ApprovalFree(a)}

-----------------------------------------------------------------------------
(* Time, and the recommendations the optimizer worker inserts *)

Tick ==
    /\ clock < MaxTime
    /\ clock' = clock + 1
    /\ UNCHANGED <<recommendations, approvals, tx>>

\* pending_approval with approval_required, or ready without it.
InsertRecommendation(r) ==
    /\ recommendations[r] = "absent"
    /\ \E s \in {"ready", "pending_approval"} :
           recommendations' = [recommendations EXCEPT ![r] = s]
    /\ UNCHANGED <<clock, approvals, tx>>

-----------------------------------------------------------------------------
(* Transactions *)

Committed == UNCHANGED <<clock, recommendations, approvals>>

\* An error, a failed check (409 or 404) or a dying process.
Rollback(p) ==
    /\ tx[p].pc # "idle"
    /\ tx' = [tx EXCEPT ![p] = NoTx]
    /\ Committed

\* The writes become visible and the locks are released.  A created approval
\* expires ExpiryTicks after its request started; a closed one is decided at
\* the start of the transaction that closed it (now(), and expireDue's $1).
Commit(p) ==
    /\ tx[p].pc = "commit"
    /\ approvals' = [a \in ApprovalIds |->
           IF a \notin tx[p].approvalWrites THEN approvals[a]
           ELSE IF tx[p].to = "pending"
           THEN [status |-> "pending", recommendation |-> tx[p].recommendation,
                 expiresAt |-> tx[p].start + ExpiryTicks, decidedAt |-> 0]
           ELSE [approvals[a] EXCEPT !.status = tx[p].to, !.decidedAt = tx[p].start]]
    /\ recommendations' = [r \in Recommendations |->
           IF r \in tx[p].recommendationWrites THEN tx[p].to ELSE recommendations[r]]
    /\ tx' = [tx EXCEPT ![p] = NoTx]
    /\ UNCHANGED clock

-----------------------------------------------------------------------------
(* createPending *)

\* Fault: the approval is given the recommendation's status.
BeginRequestMixup(h, r) ==
    /\ tx[h].pc = "idle"
    /\ clock + ExpiryTicks <= MaxTime
    /\ recommendations[r] # "absent"
    /\ tx' = [tx EXCEPT ![h] =
           [NoTx EXCEPT !.pc = "lockRecommendation", !.start = clock,
                        !.recommendation = r, !.to = recommendations[r]]]
    /\ Committed

\* Requests are made while the bounded clock can still reach their expiry.
BeginRequest(h, r) ==
    /\ tx[h].pc = "idle"
    /\ clock + ExpiryTicks <= MaxTime
    /\ recommendations[r] # "absent"
    /\ tx' = [tx EXCEPT ![h] =
           [NoTx EXCEPT !.pc = "lockRecommendation", !.start = clock,
                        !.recommendation = r, !.to = "pending"]]
    /\ Committed

\* SELECT ... FOR UPDATE waits for the row, then the status is checked.
LockRecommendation(h) ==
    /\ tx[h].pc = "lockRecommendation"
    /\ RecommendationFree(tx[h].recommendation)
    /\ tx' = [tx EXCEPT ![h] =
           IF recommendations[tx[h].recommendation] = "pending_approval"
           THEN [@ EXCEPT !.pc = "readContext",
                          !.recommendationLocks = {tx[h].recommendation}]
           ELSE NoTx]
    /\ Committed

\* The tenant and, when one is named, an active approver as assignee; either
\* may be missing, which ends the transaction.
ReadContext(h) ==
    /\ tx[h].pc = "readContext"
    /\ \E found \in BOOLEAN :
           tx' = [tx EXCEPT ![h] = IF found THEN [@ EXCEPT !.pc = "insertApproval"] ELSE NoTx]
    /\ Committed

\* Fault: the open approval is looked for with FOR UPDATE, recommendation first.
InsertApprovalAfterLock(h) ==
    /\ tx[h].pc = "insertApproval"
    /\ \A a \in Open(tx[h].recommendation) : ApprovalFree(a)
    /\ IF Open(tx[h].recommendation) # {}
       THEN tx' = [tx EXCEPT ![h] = NoTx]
       ELSE \E a \in ApprovalIds :
              /\ approvals[a] = Blank
              /\ tx' = [tx EXCEPT ![h] =
                     [@ EXCEPT !.pc = "commit", !.approval = a, !.approvalWrites = {a}]]
    /\ Committed

\* The INSERT.  An uncommitted approval of the same recommendation makes it
\* wait, a committed open one makes it fail (approvals_recommendation_state_key).
InsertApproval(h) ==
    /\ tx[h].pc = "insertApproval"
    /\ \A p \in Processes \ {h} :
           ~(/\ tx[p].to = "pending" /\ tx[p].approvalWrites # {}
             /\ tx[p].recommendation = tx[h].recommendation)
    /\ IF Open(tx[h].recommendation) # {}
       THEN tx' = [tx EXCEPT ![h] = NoTx]
       ELSE \E a \in ApprovalIds :
              /\ approvals[a] = Blank
              /\ \A p \in Processes : a \notin tx[p].approvalWrites
              /\ tx' = [tx EXCEPT ![h] =
                     [@ EXCEPT !.pc = "commit", !.approval = a, !.approvalWrites = {a}]]
    /\ Committed

-----------------------------------------------------------------------------
(* decide *)

BeginDecision(h, a, to) ==
    /\ tx[h].pc = "idle"
    /\ approvals[a] # Blank
    /\ tx' = [tx EXCEPT ![h] =
           [NoTx EXCEPT !.pc = "lockApproval", !.start = clock, !.approval = a,
                        !.recommendation = approvals[a].recommendation, !.to = to]]
    /\ Committed

\* Fault: the status of the locked approval is not checked.
LockApprovalAnyway(h) ==
    /\ tx[h].pc = "lockApproval"
    /\ ApprovalFree(tx[h].approval)
    /\ tx' = [tx EXCEPT ![h] =
           [@ EXCEPT !.pc = "updateRecommendation", !.approvalLocks = {tx[h].approval}]]
    /\ Committed

\* SELECT ... FOR UPDATE waits for the row; a decision on a row that is no
\* longer pending is refused.  expires_at is not looked at.
LockApproval(h) ==
    /\ tx[h].pc = "lockApproval"
    /\ ApprovalFree(tx[h].approval)
    /\ tx' = [tx EXCEPT ![h] =
           IF Pending(tx[h].approval)
           THEN [@ EXCEPT !.pc = "updateRecommendation", !.approvalLocks = {tx[h].approval}]
           ELSE NoTx]
    /\ Committed

\* Fault: the update skips a recommendation that another transaction has locked.
UpdateRecommendationSkipLocked(h) ==
    LET r == tx[h].recommendation
    IN  /\ tx[h].pc = "updateRecommendation"
        /\ IF recommendations[r] = "pending_approval" /\ RecommendationFree(r)
           THEN tx' = [tx EXCEPT ![h] =
                    [@ EXCEPT !.pc = "updateApproval", !.recommendationLocks = {r},
                              !.recommendationWrites = {r}]]
           ELSE tx' = [tx EXCEPT ![h].pc = "updateApproval"]
        /\ Committed

\* UPDATE recommendations ... WHERE status = 'pending_approval': a row that
\* matches is waited for and written, one that does not is left alone and the
\* transaction goes on.
UpdateRecommendation(h) ==
    LET r == tx[h].recommendation
    IN  /\ tx[h].pc = "updateRecommendation"
        /\ \/ /\ recommendations[r] = "pending_approval"
              /\ RecommendationFree(r)
              /\ tx' = [tx EXCEPT ![h] =
                     [@ EXCEPT !.pc = "updateApproval", !.recommendationLocks = {r},
                               !.recommendationWrites = {r}]]
           \/ /\ recommendations[r] # "pending_approval"
              /\ tx' = [tx EXCEPT ![h].pc = "updateApproval"]
        /\ Committed

UpdateApproval(h) ==
    /\ tx[h].pc = "updateApproval"
    /\ tx' = [tx EXCEPT ![h] = [@ EXCEPT !.pc = "commit", !.approvalWrites = {tx[h].approval}]]
    /\ Committed

-----------------------------------------------------------------------------
(* expireDue: one statement of three parts *)

\* The due approvals nobody has locked, oldest first, at most Limit of them.
LockDue(w) ==
    /\ tx[w].pc = "idle"
    /\ \E S \in SUBSET Due(clock) :
         /\ S # {}
         /\ Cardinality(S) <= Limit
         /\ Cardinality(S) = Limit \/ S = Due(clock)
         /\ \A a \in S, b \in Due(clock) \ S : approvals[a].expiresAt <= approvals[b].expiresAt
         /\ tx' = [tx EXCEPT ![w] =
                [NoTx EXCEPT !.pc = "expireRecommendations", !.start = clock, !.to = "expired",
                             !.todo = S, !.approvalLocks = S]]
    /\ Committed

\* The recommendation of a due approval expires if it still awaits approval,
\* and with it the pending approval; otherwise the approval is left alone.
ExpireRecommendation(w, a) ==
    LET r == approvals[a].recommendation
        next == IF tx[w].todo = {a} THEN "commit" ELSE "expireRecommendations"
    IN  /\ tx[w].pc = "expireRecommendations"
        /\ a \in tx[w].todo
        /\ \/ /\ recommendations[r] = "pending_approval"
              /\ RecommendationFree(r)
              /\ tx' = [tx EXCEPT ![w] =
                     [tx[w] EXCEPT !.pc = next, !.todo = @ \ {a},
                                   !.recommendationLocks = @ \cup {r},
                                   !.recommendationWrites = @ \cup {r},
                                   !.approvalWrites = @ \cup Open(r)]]
           \/ /\ recommendations[r] # "pending_approval"
              /\ tx' = [tx EXCEPT ![w] = [tx[w] EXCEPT !.pc = next, !.todo = @ \ {a}]]
        /\ Committed

-----------------------------------------------------------------------------

\* The statements of an open transaction of a handler and of an expirer.
HandlerAdvance(h) ==
    \/ LockRecommendation(h) \/ ReadContext(h) \/ InsertApproval(h)
    \/ LockApproval(h) \/ UpdateRecommendation(h) \/ UpdateApproval(h) \/ Commit(h)

ExpirerAdvance(w) ==
    \/ \E a \in ApprovalIds : ExpireRecommendation(w, a)
    \/ Commit(w)

Next ==
    \/ Tick
    \/ \E r \in Recommendations : InsertRecommendation(r)
    \/ \E h \in Handlers :
         \/ \E r \in Recommendations : BeginRequest(h, r)
         \/ \E a \in ApprovalIds, to \in Decisions : BeginDecision(h, a, to)
         \/ HandlerAdvance(h)
    \/ \E w \in Expirers : LockDue(w) \/ ExpirerAdvance(w)
    \/ \E p \in Processes : Rollback(p)

Spec == Init /\ [][Next]_vars

\* PostgreSQL grants a row lock to its waiters in turn, and every awaited
\* statement settles: an open transaction that can advance again and again
\* does.  The worker loop keeps calling expireDue.  Rollbacks, requests and
\* decisions are nobody's duty; time passes.
FairSpec ==
    /\ Spec
    /\ WF_vars(Tick)
    /\ \A h \in Handlers : SF_vars(HandlerAdvance(h))
    /\ \A w \in Expirers : SF_vars(LockDue(w)) /\ SF_vars(ExpirerAdvance(w)) /\ SF_vars(Commit(w))

-----------------------------------------------------------------------------
(* Properties *)

\* A recommendation and its approval never disagree: a decided or expired
\* recommendation has an approval that ended the same way and the reverse, and
\* one with an open approval still awaits its decision.
ApprovalAgrees ==
    /\ \A a \in ApprovalIds :
           /\ approvals[a].status \in Closed =>
                  recommendations[approvals[a].recommendation] = approvals[a].status
           /\ Pending(a) => recommendations[approvals[a].recommendation] = "pending_approval"
    /\ \A r \in Recommendations : recommendations[r] \in Closed =>
           \E a \in ApprovalIds : /\ approvals[a].recommendation = r
                                  /\ approvals[a].status = recommendations[r]

\* A recommendation is never approved twice: the row lock, the status check and
\* the partial unique index leave room for one approval, closed ones included.
AtMostOneApproval ==
    \A a, b \in ApprovalIds :
        approvals[a] # Blank /\ approvals[a].recommendation = approvals[b].recommendation => a = b

\* An approval is expired at a time when its window has ended.
ExpiredWhenDue ==
    \A a \in ApprovalIds :
        approvals[a].status = "expired" => approvals[a].expiresAt <= approvals[a].decidedAt

\* The three together.
ApprovalsAreConsistent == ApprovalAgrees /\ AtMostOneApproval /\ ExpiredWhenDue

\* A decision is final: neither a second decision, nor an expiry that started
\* before it, nor a late request changes a closed approval or recommendation.
DecisionsAreFinal ==
    [][/\ \A a \in ApprovalIds : approvals[a].status \in Closed => approvals'[a] = approvals[a]
       /\ \A r \in Recommendations :
              recommendations[r] \in Closed => recommendations'[r] = recommendations[r]]_vars

\* No transaction waits for ever: the orders in which requests, decisions and
\* expiries take their row locks admit no deadlock.
TransactionsEnd == \A p \in Processes : tx[p].pc # "idle" ~> tx[p].pc = "idle"

\* A pending approval is decided or expired, although the expiry skips the rows
\* others have locked.
PendingApprovalsAreClosed ==
    \A a \in ApprovalIds : Pending(a) ~> approvals[a].status \in Closed

\* apps/web/approvals-page.ts: "Pending is actionable only while the expiry
\* window is open."  decide looks at the status alone.
DecisionInsideWindow ==
    \A a \in ApprovalIds :
        approvals[a].status \in Decisions => approvals[a].decidedAt < approvals[a].expiresAt

\* The transactions are atomic: what is committed changes as the decision
\* workflow promises.
Decision == INSTANCE RecommendationDecision
ImplementsDecision == Decision!DecisionSpec
=============================================================================
