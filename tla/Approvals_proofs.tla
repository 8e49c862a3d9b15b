-------------------------- MODULE Approvals_proofs --------------------------
(***************************************************************************)
(* The safety properties of Approvals for every number of handlers,        *)
(* expirers, recommendations and approvals, and those of DecisionEvents    *)
(* for every number of requests, approvals, batches and failures.          *)
(*                                                                         *)
(* The inductive invariant says what each open transaction may rely on at  *)
(* each of its statements: which row locks it holds and what the committed *)
(* rows under these locks look like.  Two transactions never hold a lock   *)
(* on the same row, so a commit cannot invalidate what another relies on.  *)
(***************************************************************************)
EXTENDS Approvals, DecisionEvents, TLAPS

-----------------------------------------------------------------------------
(* The inductive invariant *)

\* What is left of an approval that does not exist, and of one that does.
RowsOK ==
    \A a \in ApprovalIds :
        \/ approvals[a] = Blank
        \/ approvals[a].status # "absent" /\ approvals[a].recommendation \in Recommendations

\* createPending holds the recommendation, pending, from its first lock on;
\* the approval it inserts is the recommendation's only one.
RequestOK(t, recs, apps) ==
    /\ t.to = "pending"
    /\ t.pc \in {"lockRecommendation", "readContext", "insertApproval", "commit"}
    /\ t.recommendation \in Recommendations
    /\ t.approvalLocks = {} /\ t.recommendationWrites = {} /\ t.todo = {}
    /\ t.recommendationLocks =
           IF t.pc = "lockRecommendation" THEN {} ELSE {t.recommendation}
    /\ t.pc # "lockRecommendation" => recs[t.recommendation] = "pending_approval"
    /\ t.pc # "commit" => t.approvalWrites = {}
    /\ t.pc = "commit" =>
           /\ \E a \in ApprovalIds : t.approvalWrites = {a} /\ apps[a] = Blank
           /\ \A b \in ApprovalIds : apps[b].recommendation # t.recommendation

\* decide holds the pending approval from its first lock on, and its
\* recommendation from the first update on: the update never misses its row.
DecisionOK(t, apps) ==
    /\ t.to \in Decisions
    /\ t.pc \in {"lockApproval", "updateRecommendation", "updateApproval", "commit"}
    /\ t.approval \in ApprovalIds
    /\ t.recommendation \in Recommendations
    /\ apps[t.approval].recommendation = t.recommendation
    /\ t.todo = {}
    /\ t.approvalLocks = IF t.pc = "lockApproval" THEN {} ELSE {t.approval}
    /\ t.pc # "lockApproval" => apps[t.approval].status = "pending"
    /\ t.recommendationLocks =
           IF t.pc \in {"updateApproval", "commit"} THEN {t.recommendation} ELSE {}
    /\ t.recommendationWrites = t.recommendationLocks
    /\ t.approvalWrites = IF t.pc = "commit" THEN {t.approval} ELSE {}

\* expireDue holds its due approvals; it has written those it is through with
\* and their recommendations, no more and no less.
ExpiryOK(t, apps) ==
    /\ t.to = "expired"
    /\ t.pc \in {"expireRecommendations", "commit"}
    /\ t.todo \subseteq t.approvalLocks
    /\ t.pc = "commit" => t.todo = {}
    /\ \A a \in t.approvalLocks : apps[a].status = "pending" /\ apps[a].expiresAt <= t.start
    /\ t.approvalWrites = t.approvalLocks \ t.todo
    /\ t.recommendationLocks = {apps[a].recommendation : a \in t.approvalWrites}
    /\ t.recommendationWrites = t.recommendationLocks

TxOK(t, recs, apps, now) ==
    /\ t.start <= now
    /\ t = NoTx \/ RequestOK(t, recs, apps) \/ DecisionOK(t, apps) \/ ExpiryOK(t, apps)

Disjoint(t, u) ==
    /\ t.approvalLocks \cap u.approvalLocks = {}
    /\ t.recommendationLocks \cap u.recommendationLocks = {}
    /\ t.approvalWrites \cap u.approvalWrites = {}

IInv ==
    /\ TypeOK
    /\ RowsOK
    /\ ApprovalAgrees
    /\ AtMostOneApproval
    /\ ExpiredWhenDue
    /\ \A p \in Processes : TxOK(tx[p], recommendations, approvals, clock)
    /\ \A p, q \in Processes : p # q => Disjoint(tx[p], tx[q])

-----------------------------------------------------------------------------
(* A transaction stays one when a statement sets one of its fields *)

LEMMA SetPc ==
    ASSUME NEW t \in Transaction,
           NEW step \in {"idle", "lockRecommendation", "readContext", "insertApproval",
                      "lockApproval", "updateRecommendation", "updateApproval", "expireRecommendations",
                      "commit"}
    PROVE  [t EXCEPT !.pc = step] \in Transaction
BY DEF Transaction

LEMMA SetApproval ==
    ASSUME NEW t \in Transaction, NEW a \in ApprovalIds
    PROVE  [t EXCEPT !.approval = a] \in Transaction
BY DEF Transaction

LEMMA SetTodo ==
    ASSUME NEW t \in Transaction, NEW S \in SUBSET ApprovalIds
    PROVE  [t EXCEPT !.todo = S] \in Transaction
BY DEF Transaction

LEMMA SetApprovalLocks ==
    ASSUME NEW t \in Transaction, NEW S \in SUBSET ApprovalIds
    PROVE  [t EXCEPT !.approvalLocks = S] \in Transaction
BY DEF Transaction

LEMMA SetRecommendationLocks ==
    ASSUME NEW t \in Transaction, NEW S \in SUBSET Recommendations
    PROVE  [t EXCEPT !.recommendationLocks = S] \in Transaction
BY DEF Transaction

LEMMA SetApprovalWrites ==
    ASSUME NEW t \in Transaction, NEW S \in SUBSET ApprovalIds
    PROVE  [t EXCEPT !.approvalWrites = S] \in Transaction
BY DEF Transaction

LEMMA SetRecommendationWrites ==
    ASSUME NEW t \in Transaction, NEW S \in SUBSET Recommendations
    PROVE  [t EXCEPT !.recommendationWrites = S] \in Transaction
BY DEF Transaction

-----------------------------------------------------------------------------
(* Steps that leave the committed rows alone *)

\* A statement changes nothing but its own transaction: the invariant is kept
\* when the transaction it leads to is in order and takes no row of another's.
LEMMA LocalStep ==
    ASSUME IInv, NEW p \in Processes, NEW t \in Transaction,
           Committed, tx' = [tx EXCEPT ![p] = t],
           TxOK(t, recommendations, approvals, clock),
           \A q \in Processes \ {p} : Disjoint(t, tx[q])
    PROVE  IInv'
<1>1. tx \in [Processes -> Transaction]
  BY DEF IInv, TypeOK
<1>2. \A q \in Processes : tx'[q] = IF q = p THEN t ELSE tx[q]
  BY <1>1
<1>3. TypeOK'
  BY <1>1 DEF IInv, TypeOK, Committed
<1>4. RowsOK' /\ ApprovalAgrees' /\ AtMostOneApproval' /\ ExpiredWhenDue'
  BY DEF IInv, Committed, RowsOK, ApprovalAgrees, AtMostOneApproval, ExpiredWhenDue, Pending
<1>5. \A q \in Processes : TxOK(tx'[q], recommendations', approvals', clock')
  <2>1. recommendations' = recommendations /\ approvals' = approvals /\ clock' = clock
    BY DEF Committed
  <2>2. \A q \in Processes : TxOK(tx'[q], recommendations, approvals, clock)
    BY <1>2 DEF IInv
  <2>3. QED
    BY <2>1, <2>2
<1>6. \A q, r \in Processes : q # r => Disjoint(tx'[q], tx'[r])
  <2>1. \A q, r \in Processes : q # r => Disjoint(tx[q], tx[r])
    BY DEF IInv
  <2>2. \A q \in Processes \ {p} : Disjoint(tx[q], t)
    BY DEF Disjoint
  <2>3. QED
    BY <1>2, <2>1, <2>2
<1>7. QED
  BY <1>3, <1>4, <1>5, <1>6 DEF IInv

\* The idle transaction is always in order and holds nothing.
LEMMA IdleFits ==
    ASSUME IInv
    PROVE  /\ NoTx \in Transaction
           /\ TxOK(NoTx, recommendations, approvals, clock)
           /\ \A q \in Processes : Disjoint(NoTx, tx[q])
BY DEF IInv, TypeOK, NoTx, Transaction, TxOK, Disjoint, ApprovalStatuses

LEMMA RollbackStep ==
    ASSUME IInv, NEW p \in Processes, Rollback(p)
    PROVE  IInv'
BY LocalStep, IdleFits DEF Rollback

LEMMA BeginRequestStep ==
    ASSUME IInv, NEW h \in Handlers, NEW r \in Recommendations, BeginRequest(h, r)
    PROVE  IInv'
<1> DEFINE t == [NoTx EXCEPT !.pc = "lockRecommendation", !.start = clock,
                             !.recommendation = r, !.to = "pending"]
<1>1. t \in Transaction
  BY DEF IInv, TypeOK, NoTx, Transaction, ApprovalStatuses
<1>2. TxOK(t, recommendations, approvals, clock)
  BY DEF IInv, TypeOK, NoTx, TxOK, RequestOK
<1>3. \A q \in Processes : Disjoint(t, tx[q])
  BY DEF NoTx, Disjoint
<1>4. QED
  BY <1>1, <1>2, <1>3, LocalStep DEF BeginRequest, Processes

LEMMA BeginDecisionStep ==
    ASSUME IInv, NEW h \in Handlers, NEW a \in ApprovalIds, NEW to \in Decisions,
           BeginDecision(h, a, to)
    PROVE  IInv'
<1> DEFINE t == [NoTx EXCEPT !.pc = "lockApproval", !.start = clock, !.approval = a,
                             !.recommendation = approvals[a].recommendation, !.to = to]
<1>0. approvals[a].recommendation \in Recommendations
  BY DEF IInv, RowsOK, BeginDecision
<1>1. t \in Transaction
  BY <1>0 DEF IInv, TypeOK, NoTx, Transaction, ApprovalStatuses, Decisions, Closed
<1>2. TxOK(t, recommendations, approvals, clock)
  BY <1>0 DEF IInv, TypeOK, NoTx, TxOK, DecisionOK
<1>3. \A q \in Processes : Disjoint(t, tx[q])
  BY DEF NoTx, Disjoint
<1>4. QED
  BY <1>1, <1>2, <1>3, LocalStep DEF BeginDecision, Processes

\* What the invariant says of one transaction.
LEMMA OwnTransaction ==
    ASSUME IInv, NEW p \in Processes
    PROVE  /\ tx[p] \in Transaction
           /\ tx[p].start <= clock
           /\ \/ tx[p] = NoTx
              \/ RequestOK(tx[p], recommendations, approvals)
              \/ DecisionOK(tx[p], approvals)
              \/ ExpiryOK(tx[p], approvals)
           /\ \A q \in Processes \ {p} : Disjoint(tx[p], tx[q])
BY DEF IInv, TypeOK, TxOK

\* The statement a transaction is at tells which kind it is.
LEMMA KindOfTransaction ==
    ASSUME IInv, NEW p \in Processes
    PROVE  /\ tx[p].pc \in {"lockRecommendation", "readContext", "insertApproval"} =>
                  RequestOK(tx[p], recommendations, approvals)
           /\ tx[p].pc \in {"lockApproval", "updateRecommendation", "updateApproval"} =>
                  DecisionOK(tx[p], approvals)
           /\ tx[p].pc = "expireRecommendations" => ExpiryOK(tx[p], approvals)
<1>1. CASE tx[p] = NoTx
  BY <1>1 DEF NoTx
<1>2. CASE RequestOK(tx[p], recommendations, approvals)
  <2>1. tx[p].pc \in {"lockRecommendation", "readContext", "insertApproval", "commit"}
    BY <1>2 DEF RequestOK
  <2>2. QED
    BY <1>2, <2>1
<1>3. CASE DecisionOK(tx[p], approvals)
  <2>1. tx[p].pc \in {"lockApproval", "updateRecommendation", "updateApproval", "commit"}
    BY <1>3 DEF DecisionOK
  <2>2. QED
    BY <1>3, <2>1
<1>4. CASE ExpiryOK(tx[p], approvals)
  <2>1. tx[p].pc \in {"expireRecommendations", "commit"}
    BY <1>4 DEF ExpiryOK
  <2>2. QED
    BY <1>4, <2>1
<1>5. QED
  BY <1>1, <1>2, <1>3, <1>4, OwnTransaction

LEMMA LockRecommendationStep ==
    ASSUME IInv, NEW h \in Handlers, LockRecommendation(h)
    PROVE  IInv'
<1> DEFINE r == tx[h].recommendation
           t == [tx[h] EXCEPT !.pc = "readContext", !.recommendationLocks = {r}]
<1>0. h \in Processes
  BY DEF Processes
<1>1. CASE recommendations[r] = "pending_approval"
  <2>1. RequestOK(tx[h], recommendations, approvals) /\ tx[h].pc = "lockRecommendation"
    BY <1>0, KindOfTransaction DEF LockRecommendation
  <2>2. t \in Transaction
    <3>1. tx[h] \in Transaction /\ {r} \in SUBSET Recommendations
      BY <1>0, <2>1, OwnTransaction DEF RequestOK
    <3>2. [tx[h] EXCEPT !.pc = "readContext"] \in Transaction
      BY <3>1, SetPc
    <3> HIDE DEF r
    <3>3. QED
      BY <3>1, <3>2, SetRecommendationLocks
  <2>3. TxOK(t, recommendations, approvals, clock)
    BY <1>0, <1>1, <2>1, OwnTransaction DEF TxOK, RequestOK, Transaction
  <2>4. \A q \in Processes \ {h} : Disjoint(t, tx[q])
    BY <1>0, OwnTransaction DEF LockRecommendation, RecommendationFree, Disjoint, Transaction
  <2>5. tx' = [tx EXCEPT ![h] = t] /\ Committed
    BY <1>1 DEF LockRecommendation
  <2> HIDE DEF t
  <2>6. QED
    BY <1>0, <2>2, <2>3, <2>4, <2>5, LocalStep
<1>2. CASE recommendations[r] # "pending_approval"
  BY <1>0, <1>2, LocalStep, IdleFits DEF LockRecommendation
<1>3. QED
  BY <1>1, <1>2

LEMMA ReadContextStep ==
    ASSUME IInv, NEW h \in Handlers, ReadContext(h)
    PROVE  IInv'
<1> DEFINE t == [tx[h] EXCEPT !.pc = "insertApproval"]
<1>0. h \in Processes
  BY DEF Processes
<1>1. CASE tx' = [tx EXCEPT ![h] = t]
  <2>1. RequestOK(tx[h], recommendations, approvals) /\ tx[h].pc = "readContext"
    BY <1>0, KindOfTransaction DEF ReadContext
  <2>2. t \in Transaction
    BY <1>0, OwnTransaction, SetPc
  <2>3. TxOK(t, recommendations, approvals, clock)
    BY <1>0, <2>1, OwnTransaction DEF TxOK, RequestOK, Transaction
  <2>4. \A q \in Processes \ {h} : Disjoint(t, tx[q])
    BY <1>0, OwnTransaction DEF Disjoint, Transaction
  <2> HIDE DEF t
  <2>5. QED
    BY <1>0, <1>1, <2>2, <2>3, <2>4, LocalStep DEF ReadContext
<1>2. CASE tx' = [tx EXCEPT ![h] = NoTx]
  BY <1>0, <1>2, LocalStep, IdleFits DEF ReadContext
<1>3. QED
  BY <1>1, <1>2 DEF ReadContext

\* The recommendation is pending, so ApprovalAgrees leaves no closed approval of
\* it, and the index no open one.
LEMMA InsertApprovalStep ==
    ASSUME IInv, NEW h \in Handlers, InsertApproval(h)
    PROVE  IInv'
<1> DEFINE r == tx[h].recommendation
           t(a) == [tx[h] EXCEPT !.pc = "commit", !.approval = a, !.approvalWrites = {a}]
<1>0. h \in Processes
  BY DEF Processes
<1>1. CASE Open(r) = {}
  <2>1. PICK a \in ApprovalIds :
            /\ approvals[a] = Blank
            /\ \A p \in Processes : a \notin tx[p].approvalWrites
            /\ tx' = [tx EXCEPT ![h] = t(a)]
    BY <1>1 DEF InsertApproval
  <2>2. RequestOK(tx[h], recommendations, approvals) /\ tx[h].pc = "insertApproval"
    BY <1>0, KindOfTransaction DEF InsertApproval
  <2>3. t(a) \in Transaction
    <3>1. tx[h] \in Transaction
      BY <1>0, OwnTransaction
    <3>2. [tx[h] EXCEPT !.pc = "commit"] \in Transaction
      BY <3>1, SetPc
    <3>3. [tx[h] EXCEPT !.pc = "commit", !.approval = a] \in Transaction
      BY <3>2, SetApproval
    <3>4. QED
      BY <3>3, SetApprovalWrites
  <2>4. \A b \in ApprovalIds : approvals[b].recommendation # r
    <3> SUFFICES ASSUME NEW b \in ApprovalIds, approvals[b].recommendation = r
                 PROVE  FALSE
      OBVIOUS
    <3>1. r \in Recommendations /\ recommendations[r] = "pending_approval"
      BY <2>2 DEF RequestOK
    <3>2. approvals[b].status # "absent"
      BY <3>1, ApprovalsAssumption DEF IInv, RowsOK, Blank
    <3>3. approvals[b].status \notin Closed
      BY <3>1 DEF IInv, ApprovalAgrees, Closed, Decisions
    <3>4. approvals[b].status \in ApprovalStatuses
      BY DEF IInv, TypeOK, Approval
    <3>5. QED
      BY <1>1, <3>2, <3>3, <3>4 DEF ApprovalStatuses, Open, Pending
  <2>5. TxOK(t(a), recommendations, approvals, clock)
    BY <1>0, <2>1, <2>2, <2>4, OwnTransaction DEF TxOK, RequestOK, Transaction
  <2>6. \A q \in Processes \ {h} : Disjoint(t(a), tx[q])
    BY <1>0, <2>1, OwnTransaction DEF Disjoint, Transaction
  <2> HIDE DEF t
  <2>7. QED
    BY <1>0, <2>1, <2>3, <2>5, <2>6, LocalStep DEF InsertApproval
<1>2. CASE Open(r) # {}
  BY <1>0, <1>2, LocalStep, IdleFits DEF InsertApproval
<1>3. QED
  BY <1>1, <1>2

LEMMA LockApprovalStep ==
    ASSUME IInv, NEW h \in Handlers, LockApproval(h)
    PROVE  IInv'
<1> DEFINE a == tx[h].approval
           t == [tx[h] EXCEPT !.pc = "updateRecommendation", !.approvalLocks = {a}]
<1>0. h \in Processes
  BY DEF Processes
<1>1. CASE Pending(a)
  <2>1. DecisionOK(tx[h], approvals) /\ tx[h].pc = "lockApproval"
    BY <1>0, KindOfTransaction DEF LockApproval
  <2>2. t \in Transaction
    <3>1. tx[h] \in Transaction /\ a \in ApprovalIds
      BY <1>0, <2>1, OwnTransaction DEF DecisionOK
    <3>2. [tx[h] EXCEPT !.pc = "updateRecommendation"] \in Transaction
      BY <3>1, SetPc
    <3>3. {a} \in SUBSET ApprovalIds
      BY <3>1
    <3> HIDE DEF a
    <3>4. QED
      BY <3>2, <3>3, SetApprovalLocks
  <2>3. TxOK(t, recommendations, approvals, clock)
    BY <1>0, <1>1, <2>1, OwnTransaction DEF TxOK, DecisionOK, Transaction, Pending
  <2>4. \A q \in Processes \ {h} : Disjoint(t, tx[q])
    BY <1>0, OwnTransaction DEF LockApproval, ApprovalFree, Disjoint, Transaction
  <2>5. tx' = [tx EXCEPT ![h] = t] /\ Committed
    BY <1>1 DEF LockApproval
  <2> HIDE DEF t
  <2>6. QED
    BY <1>0, <2>2, <2>3, <2>4, <2>5, LocalStep
<1>2. CASE ~Pending(a)
  BY <1>0, <1>2, LocalStep, IdleFits DEF LockApproval
<1>3. QED
  BY <1>1, <1>2

\* The approval is pending and locked, so its recommendation is pending too:
\* the UPDATE finds its row.
LEMMA UpdateRecommendationStep ==
    ASSUME IInv, NEW h \in Handlers, UpdateRecommendation(h)
    PROVE  IInv'
<1> DEFINE r == tx[h].recommendation
           t == [tx[h] EXCEPT !.pc = "updateApproval", !.recommendationLocks = {r},
                              !.recommendationWrites = {r}]
<1>0. h \in Processes
  BY DEF Processes
<1>1. DecisionOK(tx[h], approvals) /\ tx[h].pc = "updateRecommendation"
  BY <1>0, KindOfTransaction DEF UpdateRecommendation
<1>2. recommendations[r] = "pending_approval"
  BY <1>1 DEF DecisionOK, IInv, ApprovalAgrees, Pending
<1>3. t \in Transaction
  <2>1. tx[h] \in Transaction /\ r \in Recommendations
    BY <1>0, <1>1, OwnTransaction DEF DecisionOK
  <2>2. {r} \in SUBSET Recommendations
    BY <2>1
  <2>3. [tx[h] EXCEPT !.pc = "updateApproval"] \in Transaction
    BY <2>1, SetPc
  <2> HIDE DEF r
  <2>4. [tx[h] EXCEPT !.pc = "updateApproval", !.recommendationLocks = {r}] \in Transaction
    BY <2>2, <2>3, SetRecommendationLocks
  <2>5. QED
    BY <2>2, <2>4, SetRecommendationWrites
<1>4. TxOK(t, recommendations, approvals, clock)
  BY <1>0, <1>1, OwnTransaction DEF TxOK, DecisionOK, Transaction
<1>5. \A q \in Processes \ {h} : Disjoint(t, tx[q])
  BY <1>0, <1>2, OwnTransaction
     DEF UpdateRecommendation, RecommendationFree, Disjoint, Transaction
<1>6. tx' = [tx EXCEPT ![h] = t] /\ Committed
  BY <1>2 DEF UpdateRecommendation
<1> HIDE DEF t
<1>7. QED
  BY <1>0, <1>3, <1>4, <1>5, <1>6, LocalStep

LEMMA UpdateApprovalStep ==
    ASSUME IInv, NEW h \in Handlers, UpdateApproval(h)
    PROVE  IInv'
<1> DEFINE a == tx[h].approval
           t == [tx[h] EXCEPT !.pc = "commit", !.approvalWrites = {a}]
<1>0. h \in Processes
  BY DEF Processes
<1>1. DecisionOK(tx[h], approvals) /\ tx[h].pc = "updateApproval"
  BY <1>0, KindOfTransaction DEF UpdateApproval
<1>2. t \in Transaction
  <2>1. tx[h] \in Transaction /\ a \in ApprovalIds
    BY <1>0, <1>1, OwnTransaction DEF DecisionOK
  <2>2. {a} \in SUBSET ApprovalIds
    BY <2>1
  <2>3. [tx[h] EXCEPT !.pc = "commit"] \in Transaction
    BY <2>1, SetPc
  <2> HIDE DEF a
  <2>4. QED
    BY <2>2, <2>3, SetApprovalWrites
<1>3. TxOK(t, recommendations, approvals, clock)
  BY <1>0, <1>1, OwnTransaction DEF TxOK, DecisionOK, Transaction
<1>4. \A q \in Processes \ {h} : Disjoint(t, tx[q])
  <2> SUFFICES ASSUME NEW q \in Processes \ {h} PROVE a \notin tx[q].approvalWrites
    BY <1>0, OwnTransaction DEF Disjoint, Transaction
  <2>1. a \notin tx[q].approvalLocks
    BY <1>0, <1>1, OwnTransaction DEF DecisionOK, Disjoint
  <2>2. approvals[a] # Blank
    BY <1>1 DEF DecisionOK, Blank
  <2>3. CASE RequestOK(tx[q], recommendations, approvals)
    BY <2>2, <2>3 DEF RequestOK
  <2>4. CASE DecisionOK(tx[q], approvals)
    BY <2>1, <2>4 DEF DecisionOK
  <2>5. CASE ExpiryOK(tx[q], approvals)
    BY <2>1, <2>5 DEF ExpiryOK
  <2>6. QED
    BY <2>3, <2>4, <2>5, OwnTransaction DEF NoTx
<1>5. tx' = [tx EXCEPT ![h] = t] /\ Committed
  BY DEF UpdateApproval
<1> HIDE DEF t
<1>6. QED
  BY <1>0, <1>2, <1>3, <1>4, <1>5, LocalStep

LEMMA LockDueStep ==
    ASSUME IInv, NEW w \in Expirers, LockDue(w)
    PROVE  IInv'
<1> DEFINE t(S) == [NoTx EXCEPT !.pc = "expireRecommendations", !.start = clock,
                                !.to = "expired", !.todo = S, !.approvalLocks = S]
<1>0. w \in Processes
  BY DEF Processes
<1>1. PICK S \in SUBSET Due(clock) : tx' = [tx EXCEPT ![w] = t(S)]
  BY DEF LockDue
<1>2. \A a \in S : /\ a \in ApprovalIds /\ approvals[a].status = "pending"
                   /\ approvals[a].expiresAt <= clock
                   /\ \A q \in Processes : a \notin tx[q].approvalLocks
  BY DEF Due, Pending, ApprovalFree
<1>3. t(S) \in Transaction
  BY <1>2 DEF IInv, TypeOK, NoTx, Transaction, ApprovalStatuses, Closed
<1>4. TxOK(t(S), recommendations, approvals, clock)
  BY <1>2 DEF IInv, TypeOK, NoTx, TxOK, ExpiryOK
<1>5. \A q \in Processes : Disjoint(t(S), tx[q])
  BY <1>2 DEF NoTx, Disjoint
<1> HIDE DEF t
<1>6. QED
  BY <1>0, <1>1, <1>3, <1>4, <1>5, LocalStep DEF LockDue

\* The due approval is locked and pending, so its recommendation is pending and
\* it is that recommendation's only approval.
LEMMA ExpireRecommendationStep ==
    ASSUME IInv, NEW w \in Expirers, NEW a \in ApprovalIds, ExpireRecommendation(w, a)
    PROVE  IInv'
<1> DEFINE r == approvals[a].recommendation
           next == IF tx[w].todo = {a} THEN "commit" ELSE "expireRecommendations"
           t(S) == [tx[w] EXCEPT !.pc = next, !.todo = @ \ {a},
                                 !.recommendationLocks = @ \cup {r},
                                 !.recommendationWrites = @ \cup {r},
                                 !.approvalWrites = @ \cup S]
<1>0. w \in Processes
  BY DEF Processes
<1>1. ExpiryOK(tx[w], approvals) /\ tx[w].pc = "expireRecommendations" /\ a \in tx[w].todo
  BY <1>0, KindOfTransaction DEF ExpireRecommendation
<1>2. a \in tx[w].approvalLocks /\ approvals[a].status = "pending"
  BY <1>1 DEF ExpiryOK
<1>3. r \in Recommendations /\ recommendations[r] = "pending_approval"
  BY <1>2 DEF IInv, ApprovalAgrees, RowsOK, Pending, Blank
<1>4. Open(r) = {a}
  BY <1>2, <1>3 DEF IInv, AtMostOneApproval, Open, Pending, Blank
<1>5. tx' = [tx EXCEPT ![w] = t(Open(r))] /\ Committed /\ RecommendationFree(r)
  BY <1>3 DEF ExpireRecommendation
<1> DEFINE u == t({a})
<1>6. tx' = [tx EXCEPT ![w] = u]
  BY <1>4, <1>5
<1>7. u \in Transaction
  <2>1. tx[w] \in Transaction
    BY <1>0, OwnTransaction
  <2>2. next \in {"commit", "expireRecommendations"}
    OBVIOUS
  <2>3. /\ tx[w].todo \ {a} \in SUBSET ApprovalIds
        /\ tx[w].recommendationLocks \cup {r} \in SUBSET Recommendations
        /\ tx[w].recommendationWrites \cup {r} \in SUBSET Recommendations
        /\ tx[w].approvalWrites \cup {a} \in SUBSET ApprovalIds
    BY <1>3, <2>1 DEF Transaction
  <2> HIDE DEF next, r
  <2>4. [tx[w] EXCEPT !.pc = next] \in Transaction
    BY <2>1, <2>2, SetPc
  <2>5. [tx[w] EXCEPT !.pc = next, !.todo = @ \ {a}] \in Transaction
    BY <2>3, <2>4, SetTodo
  <2>6. [tx[w] EXCEPT !.pc = next, !.todo = @ \ {a},
                      !.recommendationLocks = @ \cup {r}] \in Transaction
    BY <2>3, <2>5, SetRecommendationLocks
  <2>7. [tx[w] EXCEPT !.pc = next, !.todo = @ \ {a}, !.recommendationLocks = @ \cup {r},
                      !.recommendationWrites = @ \cup {r}] \in Transaction
    BY <2>3, <2>6, SetRecommendationWrites
  <2>8. QED
    BY <2>3, <2>7, SetApprovalWrites
<1>8. TxOK(u, recommendations, approvals, clock)
  <2>1. ExpiryOK(u, approvals)
    <3>1. u.approvalWrites = u.approvalLocks \ u.todo
      BY <1>1 DEF ExpiryOK
    <3>2. u.recommendationLocks = {approvals[b].recommendation : b \in u.approvalWrites}
      BY <1>1 DEF ExpiryOK
    <3>3. QED
      BY <1>1, <3>1, <3>2 DEF ExpiryOK
  <2>2. QED
    BY <1>0, <2>1, OwnTransaction DEF TxOK
<1>9. \A q \in Processes \ {w} : Disjoint(u, tx[q])
  <2> SUFFICES ASSUME NEW q \in Processes \ {w} PROVE a \notin tx[q].approvalWrites
    BY <1>0, <1>5, OwnTransaction DEF RecommendationFree, Disjoint
  <2>1. a \notin tx[q].approvalLocks
    BY <1>0, <1>2, OwnTransaction DEF Disjoint
  <2>2. approvals[a] # Blank
    BY <1>2 DEF Blank
  <2>3. CASE RequestOK(tx[q], recommendations, approvals)
    BY <2>2, <2>3 DEF RequestOK
  <2>4. CASE DecisionOK(tx[q], approvals)
    BY <2>1, <2>4 DEF DecisionOK
  <2>5. CASE ExpiryOK(tx[q], approvals)
    BY <2>1, <2>5 DEF ExpiryOK
  <2>6. QED
    BY <2>3, <2>4, <2>5, OwnTransaction DEF NoTx
<1> HIDE DEF t, u
<1>10. QED
  BY <1>0, <1>5, <1>6, <1>7, <1>8, <1>9, LocalStep

-----------------------------------------------------------------------------
(* Commits *)

\* A committing request inserts the first approval of a recommendation it
\* holds; any other committing transaction closes pending approvals it holds
\* together with their recommendations.
Inserting(t) ==
    /\ t.to = "pending"
    /\ RequestOK(t, recommendations, approvals)

Closing(t) ==
    /\ t.to \in Closed
    /\ t.approvalWrites \subseteq t.approvalLocks
    /\ \A a \in t.approvalWrites : approvals[a].status = "pending"
    /\ t.to = "expired" => \A a \in t.approvalWrites : approvals[a].expiresAt <= t.start
    /\ t.recommendationWrites = {approvals[a].recommendation : a \in t.approvalWrites}
    /\ t.recommendationWrites = t.recommendationLocks

LEMMA CommitKinds ==
    ASSUME IInv, NEW p \in Processes, tx[p].pc = "commit"
    PROVE  Inserting(tx[p]) \/ Closing(tx[p])
<1>1. CASE RequestOK(tx[p], recommendations, approvals)
  BY <1>1 DEF Inserting, RequestOK
<1>2. CASE DecisionOK(tx[p], approvals)
  BY <1>2 DEF Closing, DecisionOK, Closed, Decisions
<1>3. CASE ExpiryOK(tx[p], approvals)
  <2>1. tx[p].approvalWrites = tx[p].approvalLocks
    BY <1>3 DEF ExpiryOK
  <2>2. QED
    BY <1>3, <2>1 DEF Closing, ExpiryOK, Closed
<1>4. QED
  BY <1>1, <1>2, <1>3, OwnTransaction DEF NoTx

\* The commit of a request: approval a of recommendation r appears.
LEMMA InsertingCommit ==
    ASSUME IInv, NEW p \in Processes, Commit(p), Inserting(tx[p])
    PROVE  \E a \in ApprovalIds :
               /\ tx[p].approvalWrites = {a}
               /\ approvals[a] = Blank
               /\ approvals' = [approvals EXCEPT ![a] =
                      [status |-> "pending", recommendation |-> tx[p].recommendation,
                       expiresAt |-> tx[p].start + ExpiryTicks, decidedAt |-> 0]]
               /\ recommendations' = recommendations
<1>1. PICK a \in ApprovalIds : tx[p].approvalWrites = {a} /\ approvals[a] = Blank
  BY DEF Commit, Inserting, RequestOK
<1>2. tx[p].to = "pending" /\ tx[p].recommendationWrites = {}
  BY DEF Inserting, RequestOK
<1>3. approvals \in [ApprovalIds -> Approval]
      /\ recommendations \in [Recommendations -> RecommendationStatuses]
  BY DEF IInv, TypeOK
<1>4. approvals' = [approvals EXCEPT ![a] =
          [status |-> "pending", recommendation |-> tx[p].recommendation,
           expiresAt |-> tx[p].start + ExpiryTicks, decidedAt |-> 0]]
  BY <1>1, <1>2, <1>3 DEF Commit
<1>5. recommendations' = recommendations
  BY <1>2, <1>3 DEF Commit
<1>6. QED
  BY <1>1, <1>4, <1>5

\* The commit of a decision or an expiry, row by row.
LEMMA ClosingCommit ==
    ASSUME IInv, NEW p \in Processes, Commit(p), Closing(tx[p])
    PROVE  /\ \A a \in ApprovalIds :
                  approvals'[a] = IF a \in tx[p].approvalWrites
                                  THEN [approvals[a] EXCEPT !.status = tx[p].to,
                                                            !.decidedAt = tx[p].start]
                                  ELSE approvals[a]
           /\ \A a \in ApprovalIds :
                  /\ approvals'[a].recommendation = approvals[a].recommendation
                  /\ approvals'[a].expiresAt = approvals[a].expiresAt
                  /\ approvals'[a].status = IF a \in tx[p].approvalWrites THEN tx[p].to
                                            ELSE approvals[a].status
           /\ \A r \in Recommendations :
                  recommendations'[r] = IF r \in tx[p].recommendationWrites THEN tx[p].to
                                        ELSE recommendations[r]
<1>1. tx[p].to # "pending"
  BY DEF Closing, Closed, Decisions
<1>2. \A a \in ApprovalIds :
          approvals'[a] = IF a \in tx[p].approvalWrites
                          THEN [approvals[a] EXCEPT !.status = tx[p].to,
                                                    !.decidedAt = tx[p].start]
                          ELSE approvals[a]
  BY <1>1 DEF Commit
<1>3. \A a \in ApprovalIds : approvals[a] \in Approval
  BY DEF IInv, TypeOK
<1>4. \A r \in Recommendations :
          recommendations'[r] = IF r \in tx[p].recommendationWrites THEN tx[p].to
                                ELSE recommendations[r]
  BY DEF Commit
<1>5. \A a \in ApprovalIds :
          /\ approvals'[a].recommendation = approvals[a].recommendation
          /\ approvals'[a].expiresAt = approvals[a].expiresAt
          /\ approvals'[a].status = IF a \in tx[p].approvalWrites THEN tx[p].to
                                    ELSE approvals[a].status
  BY <1>2, <1>3 DEF Approval
<1>6. QED
  BY <1>2, <1>4, <1>5

\* The locks keep what other transactions rely on out of a commit's reach.
LEMMA CommitKeepsOthers ==
    ASSUME IInv, NEW p \in Processes, Commit(p), NEW q \in Processes \ {p}
    PROVE  TxOK(tx[q], recommendations', approvals', clock')
<1> DEFINE u == tx[q]
<1>0. clock' = clock /\ u.start <= clock
  BY OwnTransaction DEF Commit
<1>1. Disjoint(tx[p], u) /\ Disjoint(u, tx[p])
  BY OwnTransaction
<1>2. CASE Inserting(tx[p])
  <2>1. PICK a \in ApprovalIds :
            /\ tx[p].approvalWrites = {a}
            /\ approvals[a] = Blank
            /\ approvals' = [approvals EXCEPT ![a] =
                   [status |-> "pending", recommendation |-> tx[p].recommendation,
                    expiresAt |-> tx[p].start + ExpiryTicks, decidedAt |-> 0]]
            /\ recommendations' = recommendations
    BY <1>2, InsertingCommit
  <2>2. /\ \A b \in ApprovalIds \ {a} : approvals'[b] = approvals[b]
        /\ approvals'[a].recommendation = tx[p].recommendation
    BY <2>1 DEF IInv, TypeOK
  <2>3. CASE RequestOK(u, recommendations, approvals)
    <3>1. tx[p].recommendation \in tx[p].recommendationLocks
      BY <1>2 DEF Commit, Inserting, RequestOK
    <3>2. u.pc = "commit" => u.recommendation # tx[p].recommendation
      BY <1>1, <2>3, <3>1 DEF RequestOK, Disjoint
    <3>3. u.pc = "commit" => \E b \in ApprovalIds : u.approvalWrites = {b} /\ approvals'[b] = Blank
      BY <1>1, <2>1, <2>2, <2>3 DEF RequestOK, Disjoint
    <3>4. u.pc = "commit" => \A b \in ApprovalIds : approvals'[b].recommendation # u.recommendation
      BY <2>2, <2>3, <3>2 DEF RequestOK
    <3>5. RequestOK(u, recommendations', approvals')
      BY <2>1, <2>3, <3>3, <3>4 DEF RequestOK
    <3>6. QED
      BY <1>0, <3>5 DEF TxOK
  <2>4. CASE DecisionOK(u, approvals)
    <3>1. u.approval # a
      BY <2>1, <2>4, ApprovalsAssumption DEF DecisionOK, Blank
    <3>2. DecisionOK(u, approvals')
      BY <2>2, <2>4, <3>1 DEF DecisionOK
    <3>3. QED
      BY <1>0, <3>2 DEF TxOK
  <2>5. CASE ExpiryOK(u, approvals)
    <3>1. u.approvalLocks \subseteq ApprovalIds
      BY OwnTransaction DEF Transaction
    <3>2. a \notin u.approvalLocks
      BY <2>1, <2>5 DEF ExpiryOK, Blank
    <3>3. \A b \in u.approvalLocks : approvals'[b] = approvals[b]
      BY <2>2, <3>1, <3>2
    <3>4. ExpiryOK(u, approvals')
      BY <2>5, <3>3 DEF ExpiryOK
    <3>5. QED
      BY <1>0, <3>4 DEF TxOK
  <2>6. QED
    BY <1>0, <2>3, <2>4, <2>5, OwnTransaction DEF TxOK
<1>3. CASE Closing(tx[p])
  <2>1. /\ \A a \in ApprovalIds :
               /\ approvals'[a].recommendation = approvals[a].recommendation
               /\ approvals'[a].expiresAt = approvals[a].expiresAt
               /\ a \notin tx[p].approvalWrites => approvals'[a] = approvals[a]
        /\ \A r \in Recommendations \ tx[p].recommendationLocks :
               recommendations'[r] = recommendations[r]
    BY <1>3, ClosingCommit DEF Closing
  <2>2. \A a \in ApprovalIds \cap u.approvalLocks : approvals'[a] = approvals[a]
    BY <1>1, <1>3, <2>1 DEF Closing, Disjoint
  <2>3. CASE RequestOK(u, recommendations, approvals)
    <3>1. u.pc # "lockRecommendation" => recommendations'[u.recommendation] = "pending_approval"
      BY <1>1, <2>1, <2>3 DEF RequestOK, Disjoint
    <3>2. u.pc = "commit" => \E b \in ApprovalIds : u.approvalWrites = {b} /\ approvals'[b] = Blank
      BY <1>1, <2>1, <2>3 DEF RequestOK, Disjoint
    <3>3. RequestOK(u, recommendations', approvals')
      BY <2>1, <2>3, <3>1, <3>2 DEF RequestOK
    <3>4. QED
      BY <1>0, <3>3 DEF TxOK
  <2>4. CASE DecisionOK(u, approvals)
    <3>1. u.pc # "lockApproval" => approvals'[u.approval].status = "pending"
      BY <2>2, <2>4 DEF DecisionOK
    <3>2. DecisionOK(u, approvals')
      BY <2>1, <2>4, <3>1 DEF DecisionOK
    <3>3. QED
      BY <1>0, <3>2 DEF TxOK
  <2>5. CASE ExpiryOK(u, approvals)
    <3>1. u.approvalLocks \subseteq ApprovalIds
      BY OwnTransaction DEF Transaction
    <3>2. \A b \in u.approvalLocks : approvals'[b] = approvals[b]
      BY <2>2, <3>1
    <3>3. ExpiryOK(u, approvals')
      BY <2>5, <3>2 DEF ExpiryOK
    <3>4. QED
      BY <1>0, <3>3 DEF TxOK
  <2>6. QED
    BY <1>0, <2>3, <2>4, <2>5, OwnTransaction DEF TxOK
<1>4. QED
  BY <1>2, <1>3, CommitKinds DEF Commit

\* The committed rows stay consistent when a request commits.
LEMMA InsertingKeepsRows ==
    ASSUME IInv, NEW p \in Processes, Commit(p), Inserting(tx[p])
    PROVE  RowsOK' /\ ApprovalAgrees' /\ AtMostOneApproval' /\ ExpiredWhenDue'
<1> DEFINE r == tx[p].recommendation
<1>1. PICK a \in ApprovalIds :
          /\ tx[p].approvalWrites = {a}
          /\ approvals[a] = Blank
          /\ approvals' = [approvals EXCEPT ![a] =
                 [status |-> "pending", recommendation |-> tx[p].recommendation,
                  expiresAt |-> tx[p].start + ExpiryTicks, decidedAt |-> 0]]
          /\ recommendations' = recommendations
  BY InsertingCommit
<1>2. /\ r \in Recommendations /\ recommendations[r] = "pending_approval"
      /\ \A b \in ApprovalIds : approvals[b].recommendation # r
  BY DEF Commit, Inserting, RequestOK
<1>3. /\ \A b \in ApprovalIds \ {a} : approvals'[b] = approvals[b]
      /\ approvals'[a].recommendation = r
      /\ approvals'[a].status = "pending"
  BY <1>1 DEF IInv, TypeOK
<1>4. RowsOK'
  BY <1>2, <1>3 DEF IInv, RowsOK, Blank
<1>5. ApprovalAgrees'
  <2>1. \A b \in ApprovalIds :
            /\ approvals'[b].status \in Closed =>
                   recommendations'[approvals'[b].recommendation] = approvals'[b].status
            /\ approvals'[b].status = "pending" =>
                   recommendations'[approvals'[b].recommendation] = "pending_approval"
    <3>1. "pending" \notin Closed
      BY DEF Closed, Decisions
    <3>2. QED
      BY <1>1, <1>2, <1>3, <3>1 DEF IInv, ApprovalAgrees, Pending
  <2>2. \A s \in Recommendations : recommendations'[s] \in Closed =>
            \E b \in ApprovalIds : /\ approvals'[b].recommendation = s
                                   /\ approvals'[b].status = recommendations'[s]
    <3> SUFFICES ASSUME NEW s \in Recommendations, recommendations[s] \in Closed
                 PROVE  \E b \in ApprovalIds : /\ approvals'[b].recommendation = s
                                               /\ approvals'[b].status = recommendations[s]
      BY <1>1
    <3>1. PICK b \in ApprovalIds : /\ approvals[b].recommendation = s
                                   /\ approvals[b].status = recommendations[s]
      BY DEF IInv, ApprovalAgrees
    <3>2. b # a
      BY <1>1, <3>1, ApprovalsAssumption DEF Blank
    <3>3. QED
      BY <1>3, <3>1, <3>2
  <2>3. QED
    BY <2>1, <2>2 DEF ApprovalAgrees, Pending
<1>6. AtMostOneApproval'
  BY <1>1, <1>2, <1>3 DEF IInv, AtMostOneApproval
<1>7. ExpiredWhenDue'
  BY <1>3 DEF IInv, ExpiredWhenDue
<1>8. QED
  BY <1>4, <1>5, <1>6, <1>7

\* They stay consistent when approvals and their recommendations are closed:
\* each closed recommendation has its one approval among those written.
LEMMA ClosingKeepsRows ==
    ASSUME IInv, NEW p \in Processes, Commit(p), Closing(tx[p])
    PROVE  RowsOK' /\ ApprovalAgrees' /\ AtMostOneApproval' /\ ExpiredWhenDue'
<1> DEFINE S == tx[p].approvalWrites
           R == tx[p].recommendationWrites
           to == tx[p].to
<1>0. S \subseteq ApprovalIds /\ R \subseteq Recommendations /\ to \in Closed
      /\ tx[p].start \in Nat
  BY OwnTransaction DEF Transaction, Closing
<1>1. /\ \A a \in ApprovalIds :
             /\ approvals'[a].recommendation = approvals[a].recommendation
             /\ approvals'[a].expiresAt = approvals[a].expiresAt
             /\ approvals'[a].status = IF a \in S THEN to ELSE approvals[a].status
             /\ a \notin S => approvals'[a] = approvals[a]
      /\ \A r \in Recommendations :
             recommendations'[r] = IF r \in R THEN to ELSE recommendations[r]
  BY ClosingCommit
<1>2. /\ \A a \in S : approvals[a].status = "pending" /\ approvals[a] # Blank
                      /\ approvals[a].recommendation \in Recommendations
      /\ R = {approvals[a].recommendation : a \in S}
  BY <1>0 DEF Closing, Blank, IInv, RowsOK
<1>3. \A a \in ApprovalIds \ S :
          approvals[a] # Blank => approvals[a].recommendation \in Recommendations \ R
  BY <1>0, <1>2 DEF IInv, RowsOK, AtMostOneApproval
<1>4. RowsOK'
  <2> SUFFICES ASSUME NEW a \in ApprovalIds
               PROVE  \/ approvals'[a] = Blank
                      \/ /\ approvals'[a].status # "absent"
                         /\ approvals'[a].recommendation \in Recommendations
    BY DEF RowsOK
  <2>1. to # "absent"
    BY <1>0 DEF Closed, Decisions
  <2>2. CASE a \in S
    BY <1>1, <1>2, <2>1, <2>2
  <2>3. CASE a \notin S
    BY <1>1, <2>3 DEF IInv, RowsOK
  <2>4. QED
    BY <2>2, <2>3
<1>5. ApprovalAgrees'
  <2>1. ASSUME NEW a \in ApprovalIds
        PROVE  /\ approvals'[a].status \in Closed =>
                      recommendations'[approvals'[a].recommendation] = approvals'[a].status
               /\ approvals'[a].status = "pending" =>
                      recommendations'[approvals'[a].recommendation] = "pending_approval"
    <3>1. CASE a \in S
      <4>1. approvals[a].recommendation \in R
        BY <1>2, <3>1
      <4>2. "pending" \notin Closed
        BY DEF Closed, Decisions
      <4>3. QED
        BY <1>0, <1>1, <1>2, <3>1, <4>1, <4>2
    <3>2. CASE a \notin S /\ approvals[a] # Blank
      BY <1>1, <1>3, <3>2 DEF IInv, ApprovalAgrees, Pending
    <3>3. CASE a \notin S /\ approvals[a] = Blank
      <4>1. approvals'[a].status = "absent"
        BY <1>1, <3>3 DEF Blank
      <4>2. QED
        BY <4>1 DEF Closed, Decisions
    <3>4. QED
      BY <3>1, <3>2, <3>3
  <2>2. ASSUME NEW r \in Recommendations, recommendations'[r] \in Closed
        PROVE  \E a \in ApprovalIds : /\ approvals'[a].recommendation = r
                                      /\ approvals'[a].status = recommendations'[r]
    <3>1. CASE r \in R
      <4>1. PICK a \in S : approvals[a].recommendation = r
        BY <1>2, <3>1
      <4>2. QED
        BY <1>0, <1>1, <3>1, <4>1
    <3>2. CASE r \notin R
      <4>1. PICK a \in ApprovalIds : /\ approvals[a].recommendation = r
                                     /\ approvals[a].status = recommendations[r]
        BY <1>1, <2>2, <3>2 DEF IInv, ApprovalAgrees
      <4>2. a \notin S
        BY <1>2, <3>2, <4>1
      <4>3. QED
        BY <1>1, <3>2, <4>1, <4>2
    <3>3. QED
      BY <3>1, <3>2
  <2>3. QED
    BY <2>1, <2>2 DEF ApprovalAgrees, Pending
<1>6. AtMostOneApproval'
  <2>1. \A a \in ApprovalIds : approvals'[a] # Blank => approvals[a] # Blank
    BY <1>1, <1>2
  <2>2. QED
    BY <1>1, <2>1 DEF IInv, AtMostOneApproval
<1>7. ExpiredWhenDue'
  <2> SUFFICES ASSUME NEW a \in ApprovalIds, approvals'[a].status = "expired"
               PROVE  approvals'[a].expiresAt <= approvals'[a].decidedAt
    BY DEF ExpiredWhenDue
  <2>1. CASE a \in S
    <3>1. to = "expired"
      BY <1>1, <2>1
    <3>2. approvals[a].expiresAt <= tx[p].start
      BY <2>1, <3>1 DEF Closing
    <3>3. approvals[a] \in Approval
      BY DEF IInv, TypeOK
    <3>4. approvals'[a].decidedAt = tx[p].start
      BY <2>1, <3>3, ClosingCommit DEF Approval
    <3>5. QED
      BY <1>1, <3>2, <3>4
  <2>2. CASE a \notin S
    BY <1>1, <2>2 DEF IInv, ExpiredWhenDue
  <2>3. QED
    BY <2>1, <2>2
<1>8. QED
  BY <1>4, <1>5, <1>6, <1>7

LEMMA CommitStep ==
    ASSUME IInv, NEW p \in Processes, Commit(p)
    PROVE  IInv'
<1>1. tx[p] \in Transaction /\ tx[p].start \in Nat
  BY OwnTransaction DEF Transaction
<1>2. tx' = [tx EXCEPT ![p] = NoTx] /\ clock' = clock
  BY DEF Commit
<1>3. Inserting(tx[p]) \/ Closing(tx[p])
  BY CommitKinds DEF Commit
<1>4. TypeOK'
  <2>1. tx' \in [Processes -> Transaction] /\ clock' \in Nat
    BY <1>2, IdleFits DEF IInv, TypeOK
  <2>2. CASE Inserting(tx[p])
    <3>1. recommendations' \in [Recommendations -> RecommendationStatuses]
      BY <2>2, InsertingCommit DEF IInv, TypeOK
    <3>2. [status |-> "pending", recommendation |-> tx[p].recommendation,
           expiresAt |-> tx[p].start + ExpiryTicks, decidedAt |-> 0] \in Approval
      BY <1>1, ApprovalsAssumption DEF Transaction, Approval, ApprovalStatuses
    <3>3. approvals' \in [ApprovalIds -> Approval]
      BY <2>2, <3>2, InsertingCommit DEF IInv, TypeOK
    <3>4. QED
      BY <2>1, <3>1, <3>3 DEF TypeOK
  <2>3. CASE Closing(tx[p])
    <3>1. tx[p].to \in Closed
      BY <2>3 DEF Closing
    <3>2. recommendations' \in [Recommendations -> RecommendationStatuses]
      BY <3>1 DEF Commit, RecommendationStatuses, IInv, TypeOK
    <3>3. \A a \in ApprovalIds :
              [approvals[a] EXCEPT !.status = tx[p].to, !.decidedAt = tx[p].start] \in Approval
      BY <1>1, <3>1 DEF IInv, TypeOK, Approval, ApprovalStatuses
    <3>4. tx[p].to # "pending"
      BY <3>1 DEF Closed, Decisions
    <3>5. approvals' \in [ApprovalIds -> Approval]
      BY <3>3, <3>4 DEF Commit, IInv, TypeOK
    <3>6. QED
      BY <2>1, <3>2, <3>5 DEF TypeOK
  <2>4. QED
    BY <1>3, <2>2, <2>3
<1>5. RowsOK' /\ ApprovalAgrees' /\ AtMostOneApproval' /\ ExpiredWhenDue'
  BY <1>3, InsertingKeepsRows, ClosingKeepsRows
<1>6. \A q \in Processes : tx'[q] = IF q = p THEN NoTx ELSE tx[q]
  BY <1>2 DEF IInv, TypeOK
<1>7. \A q \in Processes : TxOK(tx'[q], recommendations', approvals', clock')
  <2>1. TxOK(NoTx, recommendations', approvals', clock')
    BY <1>2 DEF TxOK, NoTx, IInv, TypeOK
  <2>2. QED
    BY <1>6, <2>1, CommitKeepsOthers
<1>8. \A q, s \in Processes : q # s => Disjoint(tx'[q], tx'[s])
  BY <1>6 DEF IInv, Disjoint, NoTx
<1>9. QED
  BY <1>4, <1>5, <1>7, <1>8 DEF IInv

-----------------------------------------------------------------------------
(* The environment, the initial state and the invariant *)

LEMMA TickStep == ASSUME IInv, Tick PROVE IInv'
<1>1. TypeOK'
  BY DEF IInv, TypeOK, Tick
<1>2. RowsOK' /\ ApprovalAgrees' /\ AtMostOneApproval' /\ ExpiredWhenDue'
  BY DEF Tick, IInv, RowsOK, ApprovalAgrees, AtMostOneApproval, ExpiredWhenDue, Pending
<1>3. \A p \in Processes : TxOK(tx'[p], recommendations', approvals', clock')
  BY OwnTransaction DEF Tick, TxOK, Transaction, IInv, TypeOK
<1>4. QED
  BY <1>1, <1>2, <1>3 DEF IInv, Tick

\* A recommendation that appears is nobody's yet: no approval and no
\* transaction refers to it as pending or closed.
LEMMA InsertRecommendationStep ==
    ASSUME IInv, NEW r \in Recommendations, InsertRecommendation(r)
    PROVE  IInv'
<1>1. PICK s \in {"ready", "pending_approval"} :
          recommendations' = [recommendations EXCEPT ![r] = s]
  BY DEF InsertRecommendation
<1>2. recommendations[r] = "absent" /\ approvals' = approvals /\ tx' = tx /\ clock' = clock
  BY DEF InsertRecommendation
<1>3. \A q \in Recommendations : recommendations'[q] = IF q = r THEN s ELSE recommendations[q]
  BY <1>1 DEF IInv, TypeOK
<1>4. s \notin Closed /\ s # "absent" /\ "absent" \notin Closed
  BY DEF Closed, Decisions
<1>5. TypeOK'
  BY <1>1, <1>2 DEF IInv, TypeOK, RecommendationStatuses
<1>6. RowsOK' /\ AtMostOneApproval' /\ ExpiredWhenDue'
  BY <1>2 DEF IInv, RowsOK, AtMostOneApproval, ExpiredWhenDue
<1>7. ApprovalAgrees'
  <2>1. \A a \in ApprovalIds :
            approvals[a] = Blank \/ approvals[a].recommendation \in Recommendations \ {r}
    <3> SUFFICES ASSUME NEW a \in ApprovalIds, approvals[a] # Blank
                 PROVE  /\ approvals[a].recommendation \in Recommendations
                        /\ approvals[a].recommendation # r
      OBVIOUS
    <3>1. approvals[a].status \in {"pending"} \cup Closed
          /\ approvals[a].recommendation \in Recommendations
      BY DEF IInv, TypeOK, RowsOK, Approval, ApprovalStatuses
    <3>2. QED
      BY <1>2, <1>4, <3>1 DEF IInv, ApprovalAgrees, Pending
  <2>2. \A a \in ApprovalIds :
            /\ approvals[a].status \in Closed =>
                   recommendations'[approvals[a].recommendation] = approvals[a].status
            /\ approvals[a].status = "pending" =>
                   recommendations'[approvals[a].recommendation] = "pending_approval"
    BY <1>3, <1>4, <2>1 DEF IInv, ApprovalAgrees, Pending, Blank
  <2>3. \A q \in Recommendations : recommendations'[q] \in Closed =>
            recommendations'[q] = recommendations[q]
    BY <1>3, <1>4
  <2>4. QED
    BY <1>2, <2>2, <2>3 DEF IInv, ApprovalAgrees, Pending
<1>8. \A p \in Processes : TxOK(tx'[p], recommendations', approvals', clock')
  <2> SUFFICES ASSUME NEW p \in Processes
               PROVE  TxOK(tx[p], recommendations', approvals, clock)
    BY <1>2
  <2>1. CASE RequestOK(tx[p], recommendations, approvals)
    <3>1. tx[p].pc # "lockRecommendation" => tx[p].recommendation # r
      BY <1>2, <2>1 DEF RequestOK
    <3>2. RequestOK(tx[p], recommendations', approvals)
      BY <1>3, <2>1, <3>1 DEF RequestOK
    <3>3. QED
      BY <3>2, OwnTransaction DEF TxOK
  <2>2. QED
    BY <2>1, OwnTransaction DEF TxOK
<1>9. QED
  BY <1>2, <1>5, <1>6, <1>7, <1>8 DEF IInv

LEMMA InitInvariant == Init => IInv
<1> SUFFICES ASSUME Init PROVE IInv
  OBVIOUS
<1>1. TypeOK
  BY DEF Init, TypeOK, RecommendationStatuses, Approval, ApprovalStatuses, Blank, NoTx,
         Transaction
<1>2. RowsOK /\ ApprovalAgrees /\ AtMostOneApproval /\ ExpiredWhenDue
  BY ApprovalsAssumption
     DEF Init, RowsOK, ApprovalAgrees, AtMostOneApproval, ExpiredWhenDue, Pending, Closed,
         Decisions, Blank
<1>3. \A p \in Processes : TxOK(tx[p], recommendations, approvals, clock)
  BY DEF Init, TxOK, NoTx
<1>4. \A p, q \in Processes : p # q => Disjoint(tx[p], tx[q])
  BY DEF Init, Disjoint, NoTx
<1>5. QED
  BY <1>1, <1>2, <1>3, <1>4 DEF IInv

LEMMA NextInvariant == IInv /\ [Next]_vars => IInv'
<1> SUFFICES ASSUME IInv, [Next]_vars PROVE IInv'
  OBVIOUS
<1>1. CASE Tick
  BY <1>1, TickStep
<1>2. ASSUME NEW r \in Recommendations, InsertRecommendation(r) PROVE IInv'
  BY <1>2, InsertRecommendationStep
<1>3. ASSUME NEW h \in Handlers, NEW r \in Recommendations, BeginRequest(h, r) PROVE IInv'
  BY <1>3, BeginRequestStep
<1>4. ASSUME NEW h \in Handlers, NEW a \in ApprovalIds, NEW to \in Decisions,
             BeginDecision(h, a, to)
      PROVE  IInv'
  BY <1>4, BeginDecisionStep
<1>5. ASSUME NEW h \in Handlers, HandlerAdvance(h) PROVE IInv'
  <2>1. h \in Processes
    BY DEF Processes
  <2>2. CASE LockRecommendation(h)
    BY <2>2, LockRecommendationStep
  <2>3. CASE ReadContext(h)
    BY <2>3, ReadContextStep
  <2>4. CASE InsertApproval(h)
    BY <2>4, InsertApprovalStep
  <2>5. CASE LockApproval(h)
    BY <2>5, LockApprovalStep
  <2>6. CASE UpdateRecommendation(h)
    BY <2>6, UpdateRecommendationStep
  <2>7. CASE UpdateApproval(h)
    BY <2>7, UpdateApprovalStep
  <2>8. CASE Commit(h)
    BY <2>1, <2>8, CommitStep
  <2>9. QED
    BY <1>5, <2>2, <2>3, <2>4, <2>5, <2>6, <2>7, <2>8 DEF HandlerAdvance
<1>6. ASSUME NEW w \in Expirers, LockDue(w) PROVE IInv'
  BY <1>6, LockDueStep
<1>7. ASSUME NEW w \in Expirers, ExpirerAdvance(w) PROVE IInv'
  BY <1>7, ExpireRecommendationStep, CommitStep DEF ExpirerAdvance, Processes
<1>8. ASSUME NEW p \in Processes, Rollback(p) PROVE IInv'
  BY <1>8, RollbackStep
<1>9. CASE UNCHANGED vars
  <2>1. recommendations' = recommendations /\ approvals' = approvals /\ tx' = tx /\ clock' = clock
    BY <1>9 DEF vars
  <2>2. QED
    BY <2>1 DEF IInv, TypeOK, RowsOK, ApprovalAgrees, AtMostOneApproval, ExpiredWhenDue, Pending
<1>10. QED
  BY <1>1, <1>2, <1>3, <1>4, <1>5, <1>6, <1>7, <1>8, <1>9 DEF Next

\* Every reachable state satisfies the inductive invariant.
THEOREM Invariant == Spec => []IInv
BY InitInvariant, NextInvariant, PTL DEF Spec

\* Types hold for every number of processes and rows.
THEOREM TypesAreRight == Spec => []TypeOK
<1>1. IInv => TypeOK
  BY DEF IInv
<1>2. QED
  BY <1>1, Invariant, PTL

\* A recommendation and its approval never disagree (decide and expireDue write
\* both or neither, and nobody writes one alone).
THEOREM RecommendationsAgreeWithApprovals == Spec => []ApprovalAgrees
<1>1. IInv => ApprovalAgrees
  BY DEF IInv
<1>2. QED
  BY <1>1, Invariant, PTL

\* A recommendation gets at most one approval, open or closed, however many
\* requests for it are in flight.
THEOREM ApprovalsAreUnique == Spec => []AtMostOneApproval
<1>1. IInv => AtMostOneApproval
  BY DEF IInv
<1>2. QED
  BY <1>1, Invariant, PTL

\* No approval is expired before its window has ended.
THEOREM ExpiryIsDue == Spec => []ExpiredWhenDue
<1>1. IInv => ExpiredWhenDue
  BY DEF IInv
<1>2. QED
  BY <1>1, Invariant, PTL

\* A recommendation and its approval agree, it is the only one, and it is never
\* expired early: what createPending, decide and expireDue leave behind.
THEOREM Consistency == Spec => []ApprovalsAreConsistent
<1>1. ApprovalAgrees /\ AtMostOneApproval /\ ExpiredWhenDue => ApprovalsAreConsistent
  BY DEF ApprovalsAreConsistent
<1>2. QED
  BY <1>1, RecommendationsAgreeWithApprovals, ApprovalsAreUnique, ExpiryIsDue, PTL

-----------------------------------------------------------------------------
(* The transactions implement the decision workflow *)

LEMMA CommitRequestImplements ==
    ASSUME IInv, NEW p \in Processes, Commit(p), Inserting(tx[p])
    PROVE  \E r \in Recommendations, a \in ApprovalIds : Decision!Ask(a, r)
<1> DEFINE r == tx[p].recommendation
           at == tx[p].start
<1>1. /\ r \in Recommendations /\ recommendations[r] = "pending_approval"
      /\ \A b \in ApprovalIds : approvals[b].recommendation # r
  BY DEF Commit, Inserting, RequestOK
<1>2. at \in 0 .. clock
  BY OwnTransaction DEF Transaction, IInv, TypeOK
<1>3. PICK a \in ApprovalIds :
          /\ approvals[a] = Blank
          /\ approvals' = [approvals EXCEPT ![a] =
                 [status |-> "pending", recommendation |-> r,
                  expiresAt |-> at + ExpiryTicks, decidedAt |-> 0]]
          /\ recommendations' = recommendations
  BY InsertingCommit
<1>4. approvals[a] = Decision!Blank /\ clock' = clock
  BY <1>3 DEF Blank, Decision!Blank, Commit
<1>5. Decision!Ask(a, r)
  BY <1>1, <1>2, <1>3, <1>4 DEF Decision!Ask
<1>6. QED
  BY <1>1, <1>5

LEMMA CommitClosingImplements ==
    ASSUME IInv, NEW p \in Processes, Commit(p), Closing(tx[p])
    PROVE  Decision!Close(tx[p].approvalWrites, tx[p].to, tx[p].start)
<1> DEFINE S == tx[p].approvalWrites
<1>1. S \subseteq ApprovalIds /\ \A a \in S : approvals[a].status = "pending"
  BY OwnTransaction DEF Transaction, Closing
<1>2. \A a \in S : recommendations[approvals[a].recommendation] = "pending_approval"
  BY <1>1 DEF IInv, ApprovalAgrees, Pending
<1>3. approvals' = [a \in ApprovalIds |->
          IF a \in S THEN [approvals[a] EXCEPT !.status = tx[p].to, !.decidedAt = tx[p].start]
          ELSE approvals[a]]
  <2>1. tx[p].to # "pending"
    BY DEF Closing, Closed, Decisions
  <2>2. QED
    BY <2>1 DEF Commit
<1>4. recommendations' = [r \in Recommendations |->
          IF \E a \in S : approvals[a].recommendation = r THEN tx[p].to ELSE recommendations[r]]
  BY DEF Commit, Closing
<1>5. QED
  BY <1>1, <1>2, <1>3, <1>4 DEF Decision!Close, Commit

LEMMA CommitImplements ==
    ASSUME IInv, NEW p \in Processes, Commit(p)
    PROVE  Decision!DecisionNext
<1>1. tx[p].start \in 0 .. clock /\ tx[p].approvalWrites \in SUBSET ApprovalIds
  BY OwnTransaction DEF Transaction, IInv, TypeOK
<1>2. CASE Inserting(tx[p])
  BY <1>2, CommitRequestImplements DEF Decision!DecisionNext
<1>3. CASE DecisionOK(tx[p], approvals)
  <2>1. Closing(tx[p])
    BY <1>3 DEF Commit, DecisionOK, Closing, Closed, Decisions
  <2>2. /\ tx[p].approval \in ApprovalIds /\ tx[p].to \in Decisions
        /\ tx[p].approvalWrites = {tx[p].approval}
    BY <1>3 DEF Commit, DecisionOK
  <2>3. Decision!DecideOne(tx[p].approval, tx[p].to)
    BY <1>1, <2>1, <2>2, CommitClosingImplements DEF Decision!DecideOne
  <2>4. QED
    BY <2>2, <2>3 DEF Decision!DecisionNext, Decision!Decisions, Decisions
<1>4. CASE ExpiryOK(tx[p], approvals)
  <2>1. tx[p].to = "expired"
    BY <1>4 DEF ExpiryOK
  <2>2. Closing(tx[p])
    BY <2>1, CommitKinds DEF Commit, Inserting
  <2>3. \A a \in tx[p].approvalWrites : approvals[a].expiresAt <= tx[p].start
    BY <2>1, <2>2 DEF Closing
  <2>4. Decision!ExpireSome(tx[p].approvalWrites)
    BY <1>1, <2>1, <2>2, <2>3, CommitClosingImplements DEF Decision!ExpireSome
  <2>5. QED
    BY <1>1, <2>4 DEF Decision!DecisionNext
<1>5. QED
  <2>1. tx[p] # NoTx
    <3>1. tx[p].pc = "commit"
      BY DEF Commit
    <3>2. NoTx.pc = "idle"
      BY DEF NoTx
    <3>3. QED
      BY <3>1, <3>2
  <2>2. RequestOK(tx[p], recommendations, approvals) => Inserting(tx[p])
    BY DEF RequestOK, Inserting
  <2>3. QED
    BY <1>2, <1>3, <1>4, <2>1, <2>2, OwnTransaction

\* Each step of Approvals is a step of the decision workflow or changes no
\* committed row.
LEMMA NextImplements ==
    IInv /\ [Next]_vars => [Decision!DecisionNext]_(Decision!decisionVars)
<1> SUFFICES ASSUME IInv, [Next]_vars
             PROVE  Decision!DecisionNext \/ Committed
  BY DEF Decision!decisionVars, Committed
<1>1. CASE Tick
  BY <1>1 DEF Tick, Decision!DecisionNext, Decision!Advance
<1>2. ASSUME NEW r \in Recommendations, InsertRecommendation(r)
      PROVE  Decision!DecisionNext
  <2>1. Decision!Publish(r)
    BY <1>2 DEF InsertRecommendation, Decision!Publish
  <2>2. QED
    BY <2>1 DEF Decision!DecisionNext
<1>3. ASSUME NEW p \in Processes, Commit(p) PROVE Decision!DecisionNext
  BY <1>3, CommitImplements
<1>4. ASSUME NEW h \in Handlers,
             \/ \E r \in Recommendations : BeginRequest(h, r)
             \/ \E a \in ApprovalIds, to \in Decisions : BeginDecision(h, a, to)
             \/ LockRecommendation(h) \/ ReadContext(h) \/ InsertApproval(h)
             \/ LockApproval(h) \/ UpdateRecommendation(h) \/ UpdateApproval(h)
      PROVE  Committed
  BY <1>4 DEF BeginRequest, BeginDecision, LockRecommendation, ReadContext, InsertApproval,
              LockApproval, UpdateRecommendation, UpdateApproval
<1>5. ASSUME NEW w \in Expirers,
             LockDue(w) \/ \E a \in ApprovalIds : ExpireRecommendation(w, a)
      PROVE  Committed
  BY <1>5 DEF LockDue, ExpireRecommendation
<1>6. ASSUME NEW p \in Processes, Rollback(p) PROVE Committed
  BY <1>6 DEF Rollback
<1>7. CASE UNCHANGED vars
  BY <1>7 DEF vars, Committed
<1>8. QED
  BY <1>1, <1>2, <1>3, <1>4, <1>5, <1>6, <1>7
     DEF Next, HandlerAdvance, ExpirerAdvance, Processes

\* The multi-statement transactions of createPending, decide and expireDue
\* implement the atomic workflow of RecommendationDecision.
THEOREM Implementation == Spec => ImplementsDecision
<1>1. Init => Decision!DecisionInit
  BY DEF Init, Decision!DecisionInit, Blank, Decision!Blank
<1>2. IInv /\ [Next]_vars => [Decision!DecisionNext]_(Decision!decisionVars)
  BY NextImplements
<1>3. QED
  BY <1>1, <1>2, Invariant, PTL DEF Spec, ImplementsDecision, Decision!DecisionSpec

\* A closed approval and a closed recommendation never change again.
THEOREM Finality == Spec => DecisionsAreFinal
<1> DEFINE Final == /\ \A a \in ApprovalIds :
                           approvals[a].status \in Closed => approvals'[a] = approvals[a]
                    /\ \A r \in Recommendations :
                           recommendations[r] \in Closed => recommendations'[r] = recommendations[r]
<1>1. ASSUME IInv, Decision!DecisionNext PROVE Final
  <2>0. "absent" \notin Closed /\ "pending" \notin Closed /\ "pending_approval" \notin Closed
    BY DEF Closed, Decisions
  <2>1. CASE Decision!Advance
    BY <2>1 DEF Decision!Advance
  <2>2. ASSUME NEW r \in Recommendations, Decision!Publish(r) PROVE Final
    BY <1>1, <2>0, <2>2 DEF Decision!Publish, IInv, TypeOK
  <2>3. ASSUME NEW r \in Recommendations, NEW a \in ApprovalIds, Decision!Ask(a, r) PROVE Final
    BY <1>1, <2>0, <2>3 DEF Decision!Ask, Decision!Blank, IInv, TypeOK
  <2>4. ASSUME NEW S \in SUBSET ApprovalIds, NEW to, NEW at, Decision!Close(S, to, at)
        PROVE  Final
    BY <1>1, <2>0, <2>4 DEF Decision!Close, IInv, TypeOK
  <2>5. QED
    BY <1>1, <2>1, <2>2, <2>3, <2>4
       DEF Decision!DecisionNext, Decision!DecideOne, Decision!ExpireSome
<1>2. IInv /\ [Next]_vars => [Final]_vars
  <2>1. Committed => Final
    BY DEF Committed
  <2>2. QED
    BY <1>1, <2>1, NextImplements DEF Decision!decisionVars, Committed
<1>3. QED
  BY <1>2, Invariant, PTL DEF Spec, DecisionsAreFinal

-----------------------------------------------------------------------------
(* The hooks behind a commit *)

\* The status that what follows the commit of r reports.
Reported(r) == IF task[r].kind = "request" THEN "pending" ELSE status[task[r].on]

\* The row of r's task after its commit.
RowCommitted(r) ==
    /\ task[r].kind = "request" => status[task[r].on] # "none"
    /\ task[r].kind \in Verdicts => status[task[r].on] = task[r].kind
    /\ task[r].kind = "import" => status[task[r].on] \in Imported

Done(f) == \/ f[1] = "notice" /\ f[2] \in notices
           \/ f[1] = "event" /\ f[2] \in outbox

\* What follows a commit is under way, done or has failed.
HookOK(r) ==
    /\ pc[r] \in {"new", "reread", "error"} => failed[r] = {}
    /\ pc[r] # "hook" => pending[r] = {}
    /\ pc[r] \in {"reread", "hook", "answered"} => RowCommitted(r)
    /\ pc[r] = "reread" => task[r].kind \in Verdicts
    /\ pending[r] \subseteq FollowUps(r, Reported(r))
    /\ pc[r] \in {"hook", "answered"} =>
          \A f \in FollowUps(r, Reported(r)) : f \in pending[r] \/ f \in failed[r] \/ Done(f)

\* A fact about a decision or an import reports a status that stays.
FactOK(x) ==
    /\ x.on \in Approvals \cup Batches
    /\ x.what # "requested" => x.as \in Verdicts \cup Imported

EventsInv ==
    /\ EventsTypeOK /\ TellsWhatHappened
    /\ task \in [Requests -> Tasks]
    /\ pending = [r \in Requests |-> pending[r]]
    /\ failed = [r \in Requests |-> failed[r]]
    /\ status = [s \in Approvals \cup Batches |-> status[s]]
    /\ \A x \in notices \cup outbox : FactOK(x)
    /\ \A r \in Requests : HookOK(r)

\* A status is left only when it is "none" or "pending", and for a later one.
StatusMovesOn ==
    \A s \in Approvals \cup Batches :
        \/ status'[s] = status[s]
        \/ status[s] = "none" /\ status'[s] # "none"
        \/ status[s] = "pending" /\ status'[s] # "none"

LEMMA EventsInitInv == EventsInit => EventsInv
<1> SUFFICES ASSUME EventsInit PROVE EventsInv
    OBVIOUS
<1>1. EventsTypeOK
    BY DEF EventsInit, EventsTypeOK, Steps
<1>2. TellsWhatHappened /\ \A x \in notices \cup outbox : FactOK(x)
    BY DEF EventsInit, TellsWhatHappened
<1>3. \A r \in Requests : HookOK(r)
    BY DEF EventsInit, HookOK
<1> QED  BY <1>1, <1>2, <1>3 DEF EventsInit, EventsInv

\* What a request knows of its commit stays true while others move.
LEMMA HookStays ==
    ASSUME EventsInv, StatusMovesOn, NEW q \in Requests, UNCHANGED task,
           pc'[q] = pc[q], pending'[q] = pending[q], failed'[q] = failed[q],
           notices \subseteq notices', outbox \subseteq outbox'
    PROVE  HookOK(q)'
<1> DEFINE s == task[q].on
<1>1. HookOK(q) /\ task[q] \in Tasks
    BY DEF EventsInv
<1>2. s \in Approvals \cup Batches /\ task[q].kind \in Kinds
    BY <1>1 DEF Tasks
<1>3. status'[s] = status[s] \/ (status[s] \in {"none", "pending"} /\ status'[s] # "none")
    BY <1>2 DEF StatusMovesOn
<1>4. task'[q] = task[q]
    OBVIOUS
<1> HIDE DEF s
<1>5. RowCommitted(q) => RowCommitted(q)' /\ Reported(q)' = Reported(q)
    BY <1>2, <1>3, <1>4 DEF RowCommitted, Reported, Verdicts, Imported, Kinds, s
<1>6. \A as : FollowUps(q, as)' = FollowUps(q, as)
    BY <1>4 DEF FollowUps, Fact
<1>7. \A f : Done(f) => Done(f)'
    BY DEF Done
<1>8. CASE pc[q] \in {"hook", "answered"}
    <2>1. RowCommitted(q)
        BY <1>1, <1>8 DEF HookOK
    <2>2. FollowUps(q, Reported(q))' = FollowUps(q, Reported(q))
        BY <1>4, <1>5, <2>1 DEF FollowUps, Fact
    <2> QED  BY <1>1, <1>5, <1>7, <1>8, <2>1, <2>2 DEF HookOK
<1>9. CASE pc[q] \notin {"hook", "answered"}
    <2>1. pending[q] = {}
        BY <1>1, <1>9 DEF HookOK
    <2> QED  BY <1>1, <1>4, <1>5, <1>9, <2>1 DEF HookOK
<1> QED  BY <1>8, <1>9

\* What was told stays true while statuses move on.
LEMMA FactsStay ==
    ASSUME EventsInv, StatusMovesOn, NEW x \in notices \cup outbox
    PROVE  IF x.what = "requested" THEN status'[x.on] # "none" ELSE status'[x.on] = x.as
<1>1. FactOK(x) /\ IF x.what = "requested" THEN status[x.on] # "none" ELSE status[x.on] = x.as
    BY DEF EventsInv, TellsWhatHappened
<1> QED  BY <1>1 DEF FactOK, StatusMovesOn, Verdicts, Imported

\* A step of request r keeps the invariant when it keeps r's part of it.
OnlyRequest(r) ==
    /\ pc' = [pc EXCEPT ![r] = pc'[r]]
    /\ pending' = [pending EXCEPT ![r] = pending'[r]]
    /\ failed' = [failed EXCEPT ![r] = failed'[r]]
    /\ UNCHANGED task

LEMMA RequestInv ==
    ASSUME EventsInv, NEW r \in Requests, OnlyRequest(r), StatusMovesOn, EventsTypeOK',
           status' = [s \in Approvals \cup Batches |-> status'[s]],
           notices \subseteq notices', outbox \subseteq outbox', HookOK(r)',
           \A x \in (notices' \cup outbox') \ (notices \cup outbox) :
               FactOK(x) /\ IF x.what = "requested" THEN status'[x.on] # "none"
                                                    ELSE status'[x.on] = x.as
    PROVE  EventsInv'
<1>1. TellsWhatHappened'
    BY FactsStay DEF TellsWhatHappened
<1>2. \A x \in notices' \cup outbox' : FactOK(x)
    BY DEF EventsInv
<1>3. \A q \in Requests : HookOK(q)'
    <2> SUFFICES ASSUME NEW q \in Requests, q # r PROVE HookOK(q)'
        OBVIOUS
    <2>1. pc'[q] = pc[q] /\ pending'[q] = pending[q] /\ failed'[q] = failed[q] /\ UNCHANGED task
        BY DEF OnlyRequest, EventsInv, EventsTypeOK
    <2> QED  BY <2>1, HookStays
<1>4. /\ task' \in [Requests -> Tasks]
      /\ pending' = [q \in Requests |-> pending'[q]]
      /\ failed' = [q \in Requests |-> failed'[q]]
    BY DEF OnlyRequest, EventsInv
<1>5. \A x \in notices' \cup outbox' : FactOK(x)'
    BY <1>2 DEF FactOK
<1> QED  BY <1>1, <1>3, <1>4, <1>5 DEF EventsInv

\* What a task may be.
LEMMA TaskKind ==
    ASSUME EventsInv, NEW r \in Requests
    PROVE  /\ task[r].kind \in Kinds /\ task[r].on \in Approvals \cup Batches
           /\ task[r].kind = "import" => task[r].on \in Batches
           /\ task[r].kind # "import" => task[r].on \in Approvals
           /\ Approvals \cap Batches = {}
<1>1. task[r] \in Tasks
    BY DEF EventsInv
<1> QED  BY <1>1, DecisionEventsAssumption DEF Tasks

\* The steps of r behind its commit leave every status alone.
LEMMA StatusKept == ASSUME EventsInv, UNCHANGED status PROVE StatusMovesOn
BY DEF StatusMovesOn

\* The transactions

LEMMA CommitInv ==
    ASSUME EventsInv, NEW r \in Requests, NEW as, Commits(r, as), pc[r] = "new",
           OnlyRequest(r), UNCHANGED <<failed, notices, outbox>>,
           \/ status[task[r].on] = "none" /\ as # "none"
           \/ status[task[r].on] = "pending" /\ as # "none",
           task[r].on \in Approvals => as \in {"pending"} \cup Verdicts,
           task[r].on \in Batches => as \in Imported,
           task[r].kind \in Verdicts => as = task[r].kind,
           \/ pc'[r] = "reread" /\ pending'[r] = {} /\ task[r].kind \in Verdicts
           \/ pc'[r] = "hook" /\ pending'[r] = FollowUps(r, Reported(r)')
    PROVE  EventsInv'
<1> DEFINE s == task[r].on
<1>1. s \in Approvals \cup Batches /\ task[r].kind \in Kinds /\ HookOK(r)
    BY TaskKind DEF EventsInv
<1>2. status'[s] = as /\ \A z \in Approvals \cup Batches : z # s => status'[z] = status[z]
    BY <1>1 DEF EventsInv, Commits
<1>3. StatusMovesOn
    BY <1>1, <1>2 DEF StatusMovesOn
<1>4. status' = [z \in Approvals \cup Batches |-> status'[z]]
    BY DEF EventsInv, Commits
<1>5. failed'[r] = {} /\ UNCHANGED task
    BY <1>1 DEF HookOK, OnlyRequest
<1>6. RowCommitted(r)'
    BY <1>1, <1>2, <1>5, TaskKind DEF RowCommitted
<1>7. FollowUps(r, Reported(r))' = FollowUps(r, Reported(r)')
    BY <1>5 DEF FollowUps, Fact
<1>8. HookOK(r)'
    BY <1>5, <1>6, <1>7 DEF HookOK
<1>9. EventsTypeOK'
    <2>1. \A a \in Approvals : status'[a] \in {"none", "pending", "expired"} \cup Verdicts
        BY <1>2 DEF EventsInv, EventsTypeOK
    <2>2. \A b \in Batches : status'[b] \in {"none"} \cup Imported
        BY <1>2 DEF EventsInv, EventsTypeOK
    <2>3. pc' \in [Requests -> Steps]
        BY DEF OnlyRequest, EventsInv, EventsTypeOK, Steps
    <2>4. \A q \in Requests : pc'[q] # "hook" => pending'[q] = {}
        BY DEF OnlyRequest, EventsInv, EventsTypeOK
    <2> QED  BY <2>1, <2>2, <2>3, <2>4 DEF EventsTypeOK
<1> QED  BY <1>3, <1>4, <1>8, <1>9, RequestInv

LEMMA RequestApprovalEventsInv ==
    ASSUME EventsInv, NEW r \in Requests, RequestApproval(r)
    PROVE  EventsInv'
<1>1. OnlyRequest(r) /\ Reported(r)' = "pending"
    BY DEF RequestApproval, RunHook, OnlyRequest, EventsInv, EventsTypeOK, Reported
<1>2. pc'[r] = "hook" /\ pending'[r] = FollowUps(r, "pending")
    BY DEF RequestApproval, RunHook, EventsInv, EventsTypeOK
<1>3. task[r].on \in Approvals /\ task[r].on \notin Batches
    BY TaskKind DEF RequestApproval
<1> QED  BY <1>1, <1>2, <1>3, CommitInv DEF RequestApproval, RunHook, Verdicts

LEMMA DecideEventsInv ==
    ASSUME EventsInv, NEW r \in Requests, Decide(r)
    PROVE  EventsInv'
<1>1. OnlyRequest(r)
    BY DEF Decide, OnlyRequest, EventsInv, EventsTypeOK
<1>2. pc'[r] = "reread" /\ pending'[r] = {}
    BY DEF Decide, EventsInv, EventsTypeOK, HookOK
<1>3. task[r].on \in Approvals /\ task[r].on \notin Batches
    BY TaskKind DEF Decide, Verdicts
<1> QED  BY <1>1, <1>2, <1>3, CommitInv DEF Decide, Verdicts

LEMMA ImportEventsInv ==
    ASSUME EventsInv, NEW r \in Requests, Import(r)
    PROVE  EventsInv'
<1> PICK as \in Imported : Commits(r, as) /\ RunHook(r, as)
    BY DEF Import
<1>1. OnlyRequest(r)
    BY DEF RunHook, OnlyRequest, EventsInv, EventsTypeOK
<1>2. task[r].on \in Batches /\ task[r].on \notin Approvals
    BY TaskKind DEF Import
<1>3. Reported(r)' = as
    BY <1>2 DEF Import, RunHook, Commits, EventsInv, Reported
<1>4. pc'[r] = "hook" /\ pending'[r] = FollowUps(r, as)
    BY DEF RunHook, EventsInv, EventsTypeOK
<1> QED  BY <1>1, <1>2, <1>3, <1>4, CommitInv DEF Import, RunHook, Imported, Verdicts

\* Behind the commit

\* A step that tells nobody keeps the invariant when it keeps r's part of it.
LEMMA QuietInv ==
    ASSUME EventsInv, NEW r \in Requests, OnlyRequest(r), UNCHANGED <<status, notices, outbox>>,
           pc'[r] \in Steps, pc'[r] # "hook" => pending'[r] = {}, HookOK(r)'
    PROVE  EventsInv'
<1>1. EventsTypeOK'
    BY DEF EventsInv, EventsTypeOK, OnlyRequest
<1>2. status' = [z \in Approvals \cup Batches |-> status'[z]]
    BY DEF EventsInv
<1> QED  BY <1>1, <1>2, StatusKept, RequestInv

\* A request that is over knows nothing more of its commit.
LEMMA OverInv ==
    ASSUME EventsInv, NEW r \in Requests, UNCHANGED <<task, status, notices, outbox>>,
           UNCHANGED failed,
           \/ pc' = [pc EXCEPT ![r] = "stopped"] /\ pending' = [pending EXCEPT ![r] = {}]
           \/ /\ pc[r] \in {"new", "reread"} /\ pc' = [pc EXCEPT ![r] = "error"]
              /\ UNCHANGED pending
    PROVE  EventsInv'
<1>1. OnlyRequest(r) /\ pc'[r] \in {"stopped", "error"} /\ pending'[r] = {}
    BY DEF OnlyRequest, EventsInv, EventsTypeOK, HookOK
<1>2. pc'[r] = "error" => failed'[r] = {}
    BY DEF EventsInv, EventsTypeOK, HookOK
<1>3. HookOK(r)'
    BY <1>1, <1>2 DEF HookOK
<1> QED  BY <1>1, <1>3, QuietInv DEF Steps

LEMMA RereadEventsInv ==
    ASSUME EventsInv, NEW r \in Requests, Reread(r)
    PROVE  EventsInv'
<1>1. HookOK(r) /\ pc[r] = "reread"
    BY DEF EventsInv, Reread
<1>2. task[r].kind \in Verdicts /\ status[task[r].on] = task[r].kind /\ failed[r] = {}
    BY <1>1 DEF HookOK, RowCommitted
<1>3. OnlyRequest(r) /\ pc'[r] = "hook" /\ pending'[r] = FollowUps(r, task[r].kind)
    BY DEF Reread, RunHook, OnlyRequest, EventsInv, EventsTypeOK
<1>4. UNCHANGED <<task, failed, status, notices, outbox>>
    BY DEF Reread, RunHook
<1>5. Reported(r)' = task[r].kind
    BY <1>2, <1>4 DEF Reported, Verdicts
<1>6. FollowUps(r, Reported(r))' = FollowUps(r, task[r].kind)
    BY <1>4, <1>5 DEF FollowUps, Fact
<1>7. RowCommitted(r)'
    BY <1>2, <1>4 DEF RowCommitted, Verdicts
<1>8. HookOK(r)'
    BY <1>2, <1>3, <1>4, <1>6, <1>7 DEF HookOK
<1> QED  BY <1>3, <1>4, <1>8, QuietInv DEF Steps

LEMMA AnswerEventsInv ==
    ASSUME EventsInv, NEW r \in Requests, Answer(r)
    PROVE  EventsInv'
<1>1. HookOK(r) /\ pc[r] = "hook" /\ pending[r] = {}
    BY DEF EventsInv, Answer
<1>2. OnlyRequest(r) /\ pc'[r] = "answered" /\ UNCHANGED <<task, pending, failed, status>>
    BY DEF Answer, OnlyRequest, EventsInv, EventsTypeOK
<1>3. UNCHANGED <<notices, outbox>>
    BY DEF Answer
<1>4. HookOK(r)'
    BY <1>1, <1>2, <1>3 DEF HookOK, RowCommitted, Reported, FollowUps, Fact, Done
<1> QED  BY <1>1, <1>2, <1>3, <1>4, QuietInv DEF Steps

\* What r follows up does not depend on its step.
LEMMA SameFollowUps ==
    ASSUME NEW r, UNCHANGED <<task, status>>
    PROVE  FollowUps(r, Reported(r))' = FollowUps(r, Reported(r))
           /\ RowCommitted(r)' = RowCommitted(r)
BY DEF FollowUps, Fact, Reported, RowCommitted

LEMMA FollowUpFailsEventsInv ==
    ASSUME EventsInv, NEW r \in Requests, NEW f \in pending[r], FollowUpFails(r, f)
    PROVE  EventsInv'
<1>1. HookOK(r) /\ pc[r] = "hook"
    BY DEF EventsInv, FollowUpFails
<1>2. UNCHANGED <<task, pc, status, notices, outbox>>
    BY DEF FollowUpFails
<1>3. OnlyRequest(r) /\ pending'[r] = pending[r] \ {f} /\ failed'[r] = failed[r] \cup {f}
    BY DEF FollowUpFails, OnlyRequest, EventsInv, EventsTypeOK
<1>4. HookOK(r)'
    BY <1>1, <1>2, <1>3, SameFollowUps DEF HookOK, Done
<1> QED  BY <1>1, <1>2, <1>3, <1>4, QuietInv DEF Steps

\* What a follow-up of a committed row tells.
LEMMA TellsTruth ==
    ASSUME EventsInv, NEW r \in Requests, RowCommitted(r), NEW f \in FollowUps(r, Reported(r))
    PROVE  /\ FactOK(f[2])
           /\ IF f[2].what = "requested" THEN status[f[2].on] # "none"
                                         ELSE status[f[2].on] = f[2].as
<1>1. task[r].kind \in Kinds /\ task[r].on \in Approvals \cup Batches
    BY TaskKind
<1>2. CASE task[r].kind = "request"
    BY <1>1, <1>2 DEF FollowUps, Fact, Reported, RowCommitted, FactOK, Verdicts
<1>3. CASE task[r].kind \in Verdicts
    BY <1>1, <1>3 DEF FollowUps, Fact, Reported, RowCommitted, FactOK, Verdicts
<1>4. CASE task[r].kind = "import"
    BY <1>1, <1>4 DEF FollowUps, Fact, Reported, RowCommitted, FactOK, Verdicts
<1> QED  BY <1>1, <1>2, <1>3, <1>4 DEF Kinds, Verdicts

LEMMA FollowUpEventsInv ==
    ASSUME EventsInv, NEW r \in Requests, NEW f \in pending[r], FollowUp(r, f)
    PROVE  EventsInv'
<1>1. HookOK(r) /\ pc[r] = "hook"
    BY DEF EventsInv, FollowUp
<1>2. UNCHANGED <<task, pc, failed, status>>
    BY DEF FollowUp
<1>3. OnlyRequest(r) /\ pending'[r] = pending[r] \ {f}
    BY DEF FollowUp, OnlyRequest, EventsInv, EventsTypeOK
<1>4. /\ notices' = IF f[1] = "notice" THEN notices \cup {f[2]} ELSE notices
      /\ outbox' = IF f[1] = "event" THEN outbox \cup {f[2]} ELSE outbox
    BY DEF FollowUp
<1>5. f \in FollowUps(r, Reported(r)) /\ RowCommitted(r)
    BY <1>1 DEF HookOK
<1>6. f[1] \in {"notice", "event"}
    BY <1>5, TaskKind DEF FollowUps, Kinds, Verdicts
<1>7. Done(f)' /\ \A g : Done(g) => Done(g)'
    BY <1>4, <1>6 DEF Done
<1>8. HookOK(r)'
    BY <1>1, <1>2, <1>3, <1>7, SameFollowUps DEF HookOK
<1>9. EventsTypeOK'
    BY <1>1, <1>2, <1>3 DEF EventsInv, EventsTypeOK, OnlyRequest
<1>10. \A x \in (notices' \cup outbox') \ (notices \cup outbox) : x = f[2]
    BY <1>4
<1>11. FactOK(f[2]) /\ IF f[2].what = "requested" THEN status[f[2].on] # "none"
                                                   ELSE status[f[2].on] = f[2].as
    BY <1>5, TellsTruth
<1>12. status' = [z \in Approvals \cup Batches |-> status'[z]]
    BY <1>2 DEF EventsInv
<1>13. notices \subseteq notices' /\ outbox \subseteq outbox'
    BY <1>4
<1> HIDE DEF EventsInv
<1> QED  BY <1>2, <1>3, <1>8, <1>9, <1>10, <1>11, <1>12, <1>13, StatusKept, RequestInv

LEMMA ExpireEventsInv ==
    ASSUME EventsInv, NEW a \in Approvals, Expire(a)
    PROVE  EventsInv'
<1>1. UNCHANGED <<task, pc, pending, failed, notices, outbox>> /\ a \notin Batches
    BY DecisionEventsAssumption DEF Expire
<1>2. status'[a] = "expired"
      /\ \A z \in Approvals \cup Batches : z # a => status'[z] = status[z]
    BY DEF Expire, EventsInv
<1>3. StatusMovesOn /\ status' = [z \in Approvals \cup Batches |-> status'[z]]
    BY <1>2 DEF Expire, EventsInv, StatusMovesOn
<1>4. \A q \in Requests : HookOK(q)'
    BY <1>1, <1>3, HookStays
<1>5. TellsWhatHappened'
    BY <1>1, <1>3, FactsStay DEF TellsWhatHappened
<1>6. EventsTypeOK'
    BY <1>1, <1>2 DEF EventsInv, EventsTypeOK
<1> QED  BY <1>1, <1>3, <1>4, <1>5, <1>6 DEF EventsInv, FactOK

LEMMA EventsNextInv == EventsInv /\ [EventsNext]_eventVars => EventsInv'
<1> SUFFICES ASSUME EventsInv, [EventsNext]_eventVars PROVE EventsInv'
    OBVIOUS
<1>1. ASSUME NEW r \in Requests, RequestApproval(r) \/ Decide(r) \/ Import(r)
      PROVE  EventsInv'
    BY <1>1, RequestApprovalEventsInv, DecideEventsInv, ImportEventsInv
<1>2. ASSUME NEW r \in Requests, Refuse(r) \/ RereadFails(r) \/ Stop(r)
      PROVE  EventsInv'
    BY <1>2, OverInv DEF Refuse, RereadFails, Stop
<1>3. ASSUME NEW r \in Requests, Reread(r) \/ Answer(r)
      PROVE  EventsInv'
    BY <1>3, RereadEventsInv, AnswerEventsInv
<1>4. ASSUME NEW r \in Requests, NEW f \in pending[r], FollowUp(r, f) \/ FollowUpFails(r, f)
      PROVE  EventsInv'
    BY <1>4, FollowUpEventsInv, FollowUpFailsEventsInv
<1>5. CASE UNCHANGED eventVars
    <2>1. \A q \in Requests : HookOK(q)'
        BY <1>5, HookStays DEF eventVars, StatusMovesOn
    <2> QED  BY <1>5, <2>1 DEF eventVars, EventsInv, EventsTypeOK, TellsWhatHappened, FactOK
<1> QED  BY <1>1, <1>2, <1>3, <1>4, <1>5, ExpireEventsInv DEF EventsNext

\* Users and other systems are told what happened and only that, in every behaviour,
\* whatever the number of requests, approvals and batches: a notice or an event is
\* about a row as it was committed, however approvals, rejections, expiries and lagging
\* hooks interleave; a request whose transaction committed is not failed by what follows
\* it; and an answer of success means that each follow-up was tried to its end.
THEOREM HonestEvents == EventsSpec => []EventsAreHonest
<1>1. EventsInv => EventsAreHonest
    <2> SUFFICES ASSUME EventsInv PROVE EventsAreHonest
        OBVIOUS
    <2>1. \A r \in Requests : HookOK(r)
        BY DEF EventsInv
    <2>2. MirrorsDoNotFailRequests
        BY <2>1 DEF MirrorsDoNotFailRequests, HookOK
    <2>3. TriedBeforeAnswer
        <3> SUFFICES ASSUME NEW r \in Requests, pc[r] = "answered",
                            NEW f \in FollowUps(r, Reported(r))
                     PROVE  f \in failed[r] \/ Done(f)
            BY DEF TriedBeforeAnswer, Reported, Done
        <3> QED  BY <2>1 DEF HookOK
    <2> QED  BY <2>2, <2>3 DEF EventsInv, EventsAreHonest
<1> QED  BY <1>1, EventsInitInv, EventsNextInv, PTL DEF EventsSpec
=============================================================================
