-------------------------------- MODULE Outbox --------------------------------
(***************************************************************************)
(* The outbox of events for other systems (core/adapters, the trigger of   *)
(* db/migrations/0023): API handlers enqueue an event once, worker         *)
(* processes claim the due one, send it and record the outcome.            *)
(*                                                                         *)
(* A claim is a lease: it sets next_attempt_at five minutes ahead and      *)
(* remembers no owner.  A worker that died, or that is only slow, loses    *)
(* the event to another worker, and its own late outcome is still written. *)
(* Time is abstracted to the flag due of a row: a lease or a backoff may   *)
(* end at any moment after it was set.                                     *)
(***************************************************************************)
EXTENDS Naturals, FiniteSets

CONSTANTS
    Workers,         \* worker processes
    Events,          \* (tenant, target_system, event_id) triples
    WorkflowEvents,  \* the events for the workflow engine, one per approval
    NoEvent,         \* the event of a worker that has none
    MaxAttempts,     \* attempts after which an error is final (5)
    AttemptLimit,    \* bound of attempt_count_check (1000)
    MayFail          \* whether processes die and statements fail

ASSUME OutboxAssumption ==
    /\ IsFiniteSet(Workers)
    /\ WorkflowEvents \subseteq Events
    /\ NoEvent \notin Events
    /\ MaxAttempts \in Nat \ {0}
    /\ AttemptLimit \in Nat
    /\ MaxAttempts <= AttemptLimit
    /\ MayFail \in BOOLEAN

VARIABLES
    events,     \* events[e]: the ecosystem_events row of e
    approvals,  \* approvals[e]: the approval a workflow event is about
    remote,     \* remote[e]: what the other system has seen of e
    refused,    \* the events of which an enqueue call has failed
    worker      \* worker[w]: what worker w is doing

vars == <<events, approvals, remote, refused, worker>>

-----------------------------------------------------------------------------
(* States *)

Terminal == {"sent", "failed", "disabled"}
ClosedApproval == {"approved", "rejected", "expired"}

Event == [status : {"absent", "queued", "retrying"} \cup Terminal,
          attempts : 0 .. AttemptLimit, due : BOOLEAN]

\* The status of an approval and whether it has a workflow_execution_id.
ApprovalRow == [status : {"pending"} \cup ClosedApproval, execution : BOOLEAN]

\* Requests received, one answered with 2xx, one answered with an execution id.
Remote == [received : Nat, accepted : BOOLEAN, started : BOOLEAN]

\* attempt is the attempt_count the claim returned.
Worker == [pc : {"idle", "send", "reply", "execution", "sent", "error"},
           event : Events \cup {NoEvent}, attempt : 0 .. AttemptLimit]

IdleWorker == [pc |-> "idle", event |-> NoEvent, attempt |-> 0]

TypeOK ==
    /\ events \in [Events -> Event]
    /\ approvals \in [WorkflowEvents -> ApprovalRow]
    /\ remote \in [Events -> Remote]
    /\ refused \subseteq Events
    /\ worker \in [Workers -> Worker]

Init ==
    /\ events = [e \in Events |-> [status |-> "absent", attempts |-> 0, due |-> FALSE]]
    /\ approvals = [e \in WorkflowEvents |-> [status |-> "pending", execution |-> FALSE]]
    /\ remote = [e \in Events |-> [received |-> 0, accepted |-> FALSE, started |-> FALSE]]
    /\ refused = {}
    /\ worker = [w \in Workers |-> IdleWorker]

\* The updates enforce_ecosystem_event_lifecycle lets through.
EventTransition(old, new) ==
    /\ old \in {"queued", "retrying"}
    /\ new \in {"retrying"} \cup Terminal

\* The updates enforce_approval_lifecycle lets through.
ApprovalTransition(old, new) ==
    \/ old = "queued" /\ new \in {"pending", "expired", "failed"}
    \/ old = "pending" /\ new \in ClosedApproval \cup {"failed"}

-----------------------------------------------------------------------------
(* API handlers *)

\* INSERT ... ON CONFLICT DO UPDATE: of an event that is there already the
\* update changes nothing, but the trigger is asked all the same.
Enqueue(e, enabled) ==
    /\ IF events[e].status = "absent"
       THEN /\ events' = [events EXCEPT ![e].status = IF enabled THEN "queued" ELSE "disabled",
                                        ![e].due = enabled]
            /\ UNCHANGED refused
       ELSE /\ refused' = IF EventTransition(events[e].status, events[e].status)
                          THEN refused ELSE refused \cup {e}
            /\ UNCHANGED events
    /\ UNCHANGED <<approvals, remote, worker>>

\* A decision or the expiry, in another transaction.
CloseApproval(e, to) ==
    /\ ApprovalTransition(approvals[e].status, to)
    /\ approvals' = [approvals EXCEPT ![e].status = to]
    /\ UNCHANGED <<events, remote, refused, worker>>

\* A lease or a backoff runs out.
BecomeDue(e) ==
    /\ events[e].status = "retrying"
    /\ ~events[e].due
    /\ events' = [events EXCEPT ![e].due = TRUE]
    /\ UNCHANGED <<approvals, remote, refused, worker>>

-----------------------------------------------------------------------------
(* Workers: processNext *)

Goto(w, pc) == worker' = [worker EXCEPT ![w].pc = pc]
Stop(w) == worker' = [worker EXCEPT ![w] = IdleWorker]

\* Fault: only what was never claimed is looked for.
ClaimQueuedOnly(w, e) ==
    /\ worker[w].pc = "idle"
    /\ events[e].status = "queued"
    /\ events' = [events EXCEPT ![e] = [status |-> "retrying", attempts |-> 1, due |-> FALSE]]
    /\ worker' = [worker EXCEPT ![w] = [pc |-> "send", event |-> e, attempt |-> 1]]
    /\ UNCHANGED <<approvals, remote, refused>>

\* claimNext.  The row lock is held from the SELECT to the COMMIT, so that the
\* transaction is one step.  At the limit the UPDATE violates the CHECK and
\* the cycle fails without effect.
Claim(w, e) ==
    /\ worker[w].pc = "idle"
    /\ events[e].status \in {"queued", "retrying"}
    /\ events[e].due
    /\ events[e].attempts < AttemptLimit
    /\ events' = [events EXCEPT ![e] =
           [status |-> "retrying", attempts |-> @.attempts + 1, due |-> FALSE]]
    /\ worker' = [worker EXCEPT ![w] =
           [pc |-> "send", event |-> e, attempt |-> events[e].attempts + 1]]
    /\ UNCHANGED <<approvals, remote, refused>>

\* The request reaches the other system.
Send(w) ==
    /\ worker[w].pc = "send"
    /\ remote' = [remote EXCEPT ![worker[w].event].received = @ + 1]
    /\ Goto(w, "reply")
    /\ UNCHANGED <<events, approvals, refused>>

\* requestFor throws (no workflow id, no verified contract) or fetch rejects.
NotSent(w) ==
    /\ worker[w].pc = "send"
    /\ Goto(w, "error")
    /\ UNCHANGED <<events, approvals, remote, refused>>

\* A 2xx reply, of the workflow engine with or without an execution id.
Accept(w, started) ==
    LET e == worker[w].event
    IN  /\ worker[w].pc = "reply"
        /\ started => e \in WorkflowEvents
        /\ remote' = [remote EXCEPT ![e].accepted = TRUE, ![e].started = @ \/ started]
        /\ Goto(w, IF started THEN "execution" ELSE "sent")
        /\ UNCHANGED <<events, approvals, refused>>

\* Another status, or no reply although the other system got the request
\* (and may have accepted it).
NoAccept(w) ==
    /\ worker[w].pc = "reply"
    /\ \/ remote' = [remote EXCEPT ![worker[w].event].accepted = TRUE]
       \/ UNCHANGED remote
    /\ Goto(w, "error")
    /\ UNCHANGED <<events, approvals, refused>>

\* UPDATE approvals SET workflow_execution_id ... WHERE it IS NULL: the status
\* stays, and the trigger is asked whether it may.
SetWorkflowExecutionId(w) ==
    LET e == worker[w].event
        allowed == ApprovalTransition(approvals[e].status, approvals[e].status)
    IN  /\ worker[w].pc = "execution"
        /\ approvals' = [approvals EXCEPT ![e].execution = @ \/ allowed]
        /\ Goto(w, IF approvals[e].execution \/ allowed THEN "sent" ELSE "error")
        /\ UNCHANGED <<events, remote, refused>>

\* Fault: the outcome is written whatever the row says by now.
RecordAnyway(w, outcome) ==
    /\ events' = [events EXCEPT ![worker[w].event].status = outcome,
                                ![worker[w].event].due = FALSE]
    /\ UNCHANGED <<approvals, remote, refused>>

\* UPDATE ... WHERE status = 'retrying'; the caller does not look at the count.
Record(w, outcome) ==
    LET e == worker[w].event
    IN  /\ events' = IF events[e].status = "retrying"
                     THEN [events EXCEPT ![e].status = outcome, ![e].due = FALSE]
                     ELSE events
        /\ UNCHANGED <<approvals, remote, refused>>

\* A write that reports an error after it took effect leads to the catch block.
MarkSent(w) ==
    /\ worker[w].pc = "sent"
    /\ Record(w, "sent")
    /\ Stop(w) \/ (MayFail /\ Goto(w, "error"))

\* Fault: off by one, the last attempt is not made.
MarkFailedEarly(w) ==
    /\ worker[w].pc = "error"
    /\ worker[w].attempt + 1 >= MaxAttempts
    /\ Record(w, "failed")
    /\ Stop(w)

MarkFailed(w) ==
    /\ worker[w].pc = "error"
    /\ worker[w].attempt >= MaxAttempts
    /\ Record(w, "failed")
    /\ Stop(w)

\* The new next_attempt_at replaces the lease, even that of another worker.
MarkRetry(w) ==
    /\ worker[w].pc = "error"
    /\ worker[w].attempt < MaxAttempts
    /\ Record(w, "retrying")
    /\ Stop(w)

\* A statement inside the try block fails without effect.
StatementFails(w) ==
    /\ MayFail
    /\ worker[w].pc \in {"execution", "sent"}
    /\ Goto(w, "error")
    /\ UNCHANGED <<events, approvals, remote, refused>>

\* The process dies, or the write of the catch block fails.
Crash(w) ==
    /\ MayFail
    /\ worker[w].pc # "idle"
    /\ Stop(w)
    /\ UNCHANGED <<events, approvals, remote, refused>>

-----------------------------------------------------------------------------

Advance(w) ==
    \/ Send(w) \/ NotSent(w) \/ NoAccept(w)
    \/ \E started \in BOOLEAN : Accept(w, started)
    \/ SetWorkflowExecutionId(w) \/ MarkSent(w) \/ MarkFailed(w) \/ MarkRetry(w)

Next ==
    \/ \E e \in Events :
         \/ \E enabled \in BOOLEAN : Enqueue(e, enabled)
         \/ BecomeDue(e)
    \/ \E e \in WorkflowEvents, to \in ClosedApproval : CloseApproval(e, to)
    \/ \E w \in Workers :
         \/ \E e \in Events : Claim(w, e)
         \/ Advance(w) \/ StatementFails(w) \/ Crash(w)

Spec == Init /\ [][Next]_vars

\* fetch settles (its own header and body timeouts), awaited statements settle,
\* leases and backoffs run out, and claimNext takes the event that has been due
\* for longest, so every event that stays due gets its turn.
FairSpec ==
    /\ Spec
    /\ \A w \in Workers : WF_vars(Advance(w))
    /\ \A e \in Events : WF_vars(BecomeDue(e)) /\ SF_vars(\E w \in Workers : Claim(w, e))

-----------------------------------------------------------------------------
(* Properties *)

\* An event marked sent was accepted by the other system, whichever of several
\* workers wrote the mark.
SentWasAccepted ==
    \A e \in Events : events[e].status = "sent" => remote[e].accepted

\* Every request is paid for by an attempt: leases taken over, late workers and
\* crashes never make a worker send twice for one claim.
RequestsArePaidFor ==
    \A e \in Events : remote[e].received <= events[e].attempts

\* An event is given up only after MaxAttempts attempts, also when a worker
\* with an old attempt_count reports late.
NotGivenUpEarly ==
    \A e \in Events : events[e].status = "failed" => events[e].attempts >= MaxAttempts

\* An event's row tells what the receiver has seen of it.
DeliveriesAreHonest == TypeOK /\ SentWasAccepted /\ RequestsArePaidFor /\ NotGivenUpEarly

\* The late outcome of a worker that lost its lease never reopens or changes an
\* event that has ended.
EndedEventsStay ==
    [][\A e \in Events : events[e].status \in Terminal => events'[e] = events[e]]_vars

\* Workers may die at any step: as long as attempt_count has room, an event is
\* claimed again until it ends.
EventsEnd ==
    \A e \in Events :
        events[e].status \in {"queued", "retrying"} ~>
            events[e].status \in Terminal \/ events[e].attempts = AttemptLimit

\* tests/unit/ecosystem-adapters.test.ts: "stores a Workflow Engine execution
\* identifier".  When no statement fails, an event that ended after the engine
\* returned one has it stored with its approval.
ExecutionIsStored ==
    \A e \in WorkflowEvents :
        events[e].status \in Terminal /\ remote[e].started => approvals[e].execution

\* tests/unit/ecosystem-adapters.test.ts: "creates an idempotent queued Hub
\* event".  Enqueuing an event that is there already is no error.
EnqueueIsIdempotent == refused = {}
=============================================================================
