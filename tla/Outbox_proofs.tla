----------------------------- MODULE Outbox_proofs -----------------------------
(***************************************************************************)
(* The safety properties of Outbox for every number of workers and events  *)
(* and every attempt limit, and those of Notifications for every number of *)
(* users, events and emissions.                                            *)
(*                                                                         *)
(* The inductive invariant of Outbox says what a worker may still rely on  *)
(* after its lease has ended: its event exists, has not lost any attempt,  *)
(* and was accepted if the worker is past the reply.  Requests are counted *)
(* against attempts together with the workers that are about to send.      *)
(* That of Notifications says what an emission still owes to a recipient   *)
(* (Served), and that whoever had a locked preference is remembered.       *)
(***************************************************************************)
EXTENDS Outbox, Notifications, FiniteSetTheorems, TLAPS

-----------------------------------------------------------------------------
(* The inductive invariant *)

WorkerOK ==
    \A w \in Workers : worker[w].pc # "idle" =>
        /\ worker[w].event \in Events
        /\ events[worker[w].event].status # "absent"
        /\ worker[w].attempt <= events[worker[w].event].attempts
        /\ worker[w].pc \in {"execution", "sent"} => remote[worker[w].event].accepted
        /\ worker[w].pc = "execution" => worker[w].event \in WorkflowEvents

Sending(e) == {w \in Workers : worker[w].pc = "send" /\ worker[w].event = e}

\* The requests received and those about to be sent.
Paid ==
    \A e \in Events : remote[e].received + Cardinality(Sending(e)) <= events[e].attempts

NothingStored == \A e \in WorkflowEvents : ~approvals[e].execution

IInv == TypeOK /\ WorkerOK /\ SentWasAccepted /\ NotGivenUpEarly /\ Paid /\ NothingStored

-----------------------------------------------------------------------------

LEMMA InitIInv == Init => IInv
<1> SUFFICES ASSUME Init PROVE IInv
  OBVIOUS
<1> USE OutboxAssumption
<1>1. TypeOK
  BY DEF Init, TypeOK, Event, ApprovalRow, Remote, Worker, IdleWorker
<1>2. WorkerOK
  BY DEF Init, WorkerOK, IdleWorker
<1>3. SentWasAccepted /\ NotGivenUpEarly /\ NothingStored
  BY DEF Init, SentWasAccepted, NotGivenUpEarly, NothingStored
<1>4. Paid
  <2> SUFFICES ASSUME NEW e \in Events
               PROVE  remote[e].received + Cardinality(Sending(e)) <= events[e].attempts
    BY DEF Paid
  <2>1. Sending(e) = {}
    BY DEF Init, Sending, IdleWorker
  <2>2. QED
    BY <2>1, FS_EmptySet DEF Init
<1>5. QED
  BY <1>1, <1>2, <1>3, <1>4 DEF IInv

\* What Goto and Stop leave in worker.
LEMMA GotoType ==
    ASSUME TypeOK, NEW w \in Workers,
           NEW pc \in {"idle", "send", "reply", "execution", "sent", "error"}, Goto(w, pc)
    PROVE  /\ worker' \in [Workers -> Worker]
           /\ worker'[w] = [pc |-> pc, event |-> worker[w].event, attempt |-> worker[w].attempt]
           /\ \A q \in Workers \ {w} : worker'[q] = worker[q]
BY DEF TypeOK, Goto, Worker

LEMMA StopType ==
    ASSUME TypeOK, NEW w \in Workers, Stop(w)
    PROVE  /\ worker' \in [Workers -> Worker]
           /\ worker'[w] = IdleWorker
           /\ \A q \in Workers \ {w} : worker'[q] = worker[q]
BY OutboxAssumption DEF TypeOK, Stop, Worker, IdleWorker

\* An outcome is written to the worker's event, if it is still being retried.
LEMMA RecordType ==
    ASSUME IInv, NEW w \in Workers, worker[w].pc # "idle",
           NEW outcome \in {"sent", "failed", "retrying"}, Record(w, outcome)
    PROVE  /\ events' \in [Events -> Event]
           /\ \A e \in Events :
                \/ events'[e] = events[e]
                \/ /\ e = worker[w].event
                   /\ events[e].status = "retrying"
                   /\ events'[e] = [status |-> outcome, attempts |-> events[e].attempts,
                                    due |-> FALSE]
<1> DEFINE e == worker[w].event
<1>1. events \in [Events -> Event] /\ e \in Events
  BY DEF IInv, TypeOK, WorkerOK
<1>2. CASE events[e].status = "retrying"
  <2>1. events' = [events EXCEPT ![e].status = outcome, ![e].due = FALSE]
    BY <1>2 DEF Record
  <2> HIDE DEF e
  <2>2. events'[e] = [status |-> outcome, attempts |-> events[e].attempts, due |-> FALSE]
    BY <1>1, <2>1 DEF Event
  <2>3. events'[e] \in Event
    BY <1>1, <2>2 DEF Event, Terminal
  <2>4. \A f \in Events \ {e} : events'[f] = events[f]
    BY <1>1, <2>1
  <2>5. events' \in [Events -> Event]
    BY <1>1, <2>1, <2>3, <2>4
  <2>6. QED
    BY <1>2, <2>2, <2>4, <2>5 DEF e
<1>3. CASE events[e].status # "retrying"
  BY <1>1, <1>3 DEF Record
<1>4. QED
  BY <1>2, <1>3

LEMMA TypeStep == IInv /\ [Next]_vars => TypeOK'
<1> SUFFICES ASSUME IInv, [Next]_vars PROVE TypeOK'
  OBVIOUS
<1>0. TypeOK
  BY DEF IInv
<1>1. ASSUME NEW e \in Events, NEW enabled \in BOOLEAN, Enqueue(e, enabled) PROVE TypeOK'
  <2>1. CASE events[e].status = "absent"
    <3>1. events' \in [Events -> Event]
      BY <1>0, <1>1, <2>1 DEF Enqueue, TypeOK, Event, Terminal
    <3>2. QED
      BY <1>0, <1>1, <2>1, <3>1 DEF Enqueue, TypeOK
  <2>2. CASE events[e].status # "absent"
    BY <1>0, <1>1, <2>2 DEF Enqueue, TypeOK
  <2>3. QED
    BY <2>1, <2>2
<1>2. ASSUME NEW e \in Events, BecomeDue(e) PROVE TypeOK'
  BY <1>0, <1>2 DEF BecomeDue, TypeOK, Event
<1>3. ASSUME NEW e \in WorkflowEvents, NEW to \in ClosedApproval, CloseApproval(e, to)
      PROVE  TypeOK'
  BY <1>0, <1>3 DEF CloseApproval, TypeOK, ApprovalRow
<1>4. ASSUME NEW w \in Workers, NEW e \in Events, Claim(w, e) PROVE TypeOK'
  <2>1. events[e].attempts + 1 \in 0 .. AttemptLimit
    BY <1>0, <1>4, OutboxAssumption DEF Claim, TypeOK, Event
  <2>2. events' \in [Events -> Event]
    BY <1>0, <1>4, <2>1 DEF Claim, TypeOK, Event
  <2>3. worker' \in [Workers -> Worker]
    BY <1>0, <1>4, <2>1 DEF Claim, TypeOK, Worker
  <2>4. QED
    BY <1>0, <1>4, <2>2, <2>3 DEF Claim, TypeOK
<1>5. ASSUME NEW w \in Workers, worker[w].pc # "idle" PROVE worker[w].event \in Events
  BY <1>5 DEF IInv, WorkerOK
<1>6. ASSUME NEW w \in Workers, Send(w) PROVE TypeOK'
  <2>1. worker[w].event \in Events
    BY <1>5, <1>6 DEF Send
  <2>2. remote' \in [Events -> Remote]
    BY <1>0, <1>6, <2>1 DEF Send, TypeOK, Remote
  <2>3. worker' \in [Workers -> Worker]
    BY <1>0, <1>6, GotoType DEF Send
  <2>4. QED
    BY <1>0, <1>6, <2>2, <2>3 DEF Send, TypeOK
<1>7. ASSUME NEW w \in Workers, NotSent(w) PROVE TypeOK'
  BY <1>0, <1>7, GotoType DEF NotSent, TypeOK
<1>8. ASSUME NEW w \in Workers, NoAccept(w) PROVE TypeOK'
  <2>1. worker[w].event \in Events
    BY <1>5, <1>8 DEF NoAccept
  <2>2. remote' \in [Events -> Remote]
    BY <1>0, <1>8, <2>1, ZenonT(30) DEF NoAccept, TypeOK, Remote
  <2>3. worker' \in [Workers -> Worker]
    BY <1>0, <1>8, GotoType DEF NoAccept
  <2>4. QED
    BY <1>0, <1>8, <2>2, <2>3 DEF NoAccept, TypeOK
<1>9. ASSUME NEW w \in Workers, NEW started \in BOOLEAN, Accept(w, started) PROVE TypeOK'
  <2>1. worker[w].event \in Events
    BY <1>5, <1>9 DEF Accept
  <2>2. remote' \in [Events -> Remote]
    <3> DEFINE b == remote[worker[w].event].started \/ started
    <3>1. b \in BOOLEAN
      OBVIOUS
    <3>2. remote' = [remote EXCEPT ![worker[w].event].accepted = TRUE,
                                   ![worker[w].event].started = b]
      BY <1>9, Zenon DEF Accept
    <3> HIDE DEF b
    <3>3. QED
      BY <1>0, <2>1, <3>1, <3>2 DEF TypeOK, Remote
  <2>3. worker' \in [Workers -> Worker]
    BY <1>0, <1>9, GotoType DEF Accept
  <2>4. QED
    BY <1>0, <1>9, <2>2, <2>3 DEF Accept, TypeOK
<1>10. ASSUME NEW w \in Workers, SetWorkflowExecutionId(w) PROVE TypeOK'
  <2>1. worker[w].event \in WorkflowEvents
    BY <1>10 DEF IInv, WorkerOK, SetWorkflowExecutionId
  <2>2. approvals' \in [WorkflowEvents -> ApprovalRow]
    BY <1>0, <1>10, <2>1 DEF SetWorkflowExecutionId, ApprovalTransition, TypeOK, ApprovalRow
  <2>3. worker' \in [Workers -> Worker]
    BY <1>0, <1>10, GotoType DEF SetWorkflowExecutionId
  <2>4. QED
    BY <1>0, <1>10, <2>2, <2>3 DEF SetWorkflowExecutionId, TypeOK
<1>11. ASSUME NEW w \in Workers, MarkSent(w) PROVE TypeOK'
  <2>1. events' \in [Events -> Event]
    BY <1>11, RecordType DEF MarkSent
  <2>2. worker' \in [Workers -> Worker]
    BY <1>0, <1>11, GotoType, StopType DEF MarkSent
  <2>3. QED
    BY <1>0, <1>11, <2>1, <2>2 DEF MarkSent, Record, TypeOK
<1>12. ASSUME NEW w \in Workers, MarkFailed(w) PROVE TypeOK'
  <2>1. events' \in [Events -> Event]
    BY <1>12, RecordType DEF MarkFailed
  <2>2. worker' \in [Workers -> Worker]
    BY <1>0, <1>12, StopType DEF MarkFailed
  <2>3. QED
    BY <1>0, <1>12, <2>1, <2>2 DEF MarkFailed, Record, TypeOK
<1>13. ASSUME NEW w \in Workers, MarkRetry(w) PROVE TypeOK'
  <2>1. events' \in [Events -> Event]
    BY <1>13, RecordType DEF MarkRetry
  <2>2. worker' \in [Workers -> Worker]
    BY <1>0, <1>13, StopType DEF MarkRetry
  <2>3. QED
    BY <1>0, <1>13, <2>1, <2>2 DEF MarkRetry, Record, TypeOK
<1>14. ASSUME NEW w \in Workers, StatementFails(w) PROVE TypeOK'
  BY <1>0, <1>14, GotoType DEF StatementFails, TypeOK
<1>15. ASSUME NEW w \in Workers, Crash(w) PROVE TypeOK'
  BY <1>0, <1>15, StopType DEF Crash, TypeOK
<1>16. CASE UNCHANGED vars
  BY <1>0, <1>16 DEF vars, TypeOK
<1>17. QED
  BY <1>1, <1>2, <1>3, <1>4, <1>6, <1>7, <1>8, <1>9, <1>10, <1>11, <1>12, <1>13, <1>14,
     <1>15, <1>16 DEF Next, Advance

-----------------------------------------------------------------------------
(* What no step takes back *)

\* An existing event stays, keeps its attempts and, once ended, everything.
LEMMA EventStep ==
    ASSUME IInv, [Next]_vars, NEW e \in Events
    PROVE  /\ events'[e].attempts >= events[e].attempts
           /\ events[e].status # "absent" => events'[e].status # "absent"
           /\ events[e].status \in Terminal => events'[e] = events[e]
<1> DEFINE Goal == /\ events'[e].attempts >= events[e].attempts
                   /\ events[e].status # "absent" => events'[e].status # "absent"
                   /\ events[e].status \in Terminal => events'[e] = events[e]
<1>0. events \in [Events -> Event] /\ events[e].attempts \in Nat
  BY OutboxAssumption DEF IInv, TypeOK, Event
<1>1. CASE events'[e] = events[e]
  BY <1>0, <1>1
<1>2. ASSUME NEW f \in Events, NEW enabled \in BOOLEAN, Enqueue(f, enabled) PROVE Goal
  <2>1. CASE events[f].status = "absent"
    <3>1. \/ events'[e] = events[e]
          \/ /\ events[e].status = "absent"
             /\ events'[e].attempts = events[e].attempts
      BY <1>0, <1>2, <2>1 DEF Enqueue, Event
    <3>2. QED
      BY <1>0, <1>1, <3>1 DEF Terminal
  <2>2. CASE events[f].status # "absent"
    BY <1>1, <1>2, <2>2 DEF Enqueue
  <2>3. QED
    BY <2>1, <2>2
<1>3. ASSUME NEW f \in Events, BecomeDue(f) PROVE Goal
  <2>1. events'[e].attempts = events[e].attempts /\ events'[e].status = events[e].status
    BY <1>0, <1>3 DEF BecomeDue, Event
  <2>2. events[e].status \in Terminal => events'[e] = events[e]
    BY <1>0, <1>3 DEF BecomeDue, Terminal
  <2>3. QED
    BY <1>0, <2>1, <2>2
<1>4. ASSUME NEW w \in Workers, NEW f \in Events, Claim(w, f) PROVE Goal
  BY <1>0, <1>4 DEF Claim, Terminal
<1>5. ASSUME NEW w \in Workers, NEW outcome \in {"sent", "failed", "retrying"},
             worker[w].pc # "idle", Record(w, outcome)
      PROVE  Goal
  <2>1. \/ events'[e] = events[e]
        \/ /\ events[e].status = "retrying"
           /\ events'[e] = [status |-> outcome, attempts |-> events[e].attempts, due |-> FALSE]
    BY <1>5, RecordType
  <2>2. CASE /\ events[e].status = "retrying"
             /\ events'[e] = [status |-> outcome, attempts |-> events[e].attempts, due |-> FALSE]
    <3>1. events'[e].attempts = events[e].attempts /\ events'[e].status = outcome
      BY <2>2
    <3>2. QED
      BY <1>0, <2>2, <3>1 DEF Terminal
  <2>3. QED
    BY <1>1, <2>1, <2>2
<1>6. CASE \E w \in Workers : MarkSent(w) \/ MarkFailed(w) \/ MarkRetry(w)
  <2>1. PICK w \in Workers : MarkSent(w) \/ MarkFailed(w) \/ MarkRetry(w)
    BY <1>6
  <2>2. worker[w].pc # "idle"
    BY <2>1 DEF MarkSent, MarkFailed, MarkRetry
  <2>3. \E outcome \in {"sent", "failed", "retrying"} : Record(w, outcome)
    BY <2>1 DEF MarkSent, MarkFailed, MarkRetry
  <2>4. QED
    BY <1>5, <2>2, <2>3
<1>7. CASE UNCHANGED events
  BY <1>1, <1>7
<1>8. QED
  <2>1. ASSUME NEW w \in Workers,
               \/ Send(w) \/ NotSent(w) \/ NoAccept(w) \/ SetWorkflowExecutionId(w)
               \/ StatementFails(w) \/ Crash(w)
               \/ \E started \in BOOLEAN : Accept(w, started)
        PROVE  UNCHANGED events
    BY <2>1 DEF Send, NotSent, NoAccept, SetWorkflowExecutionId, StatementFails, Crash, Accept
  <2>2. ASSUME NEW f \in WorkflowEvents, NEW to \in ClosedApproval, CloseApproval(f, to)
        PROVE  UNCHANGED events
    BY <2>2 DEF CloseApproval
  <2>3. CASE UNCHANGED vars
    BY <1>7, <2>3 DEF vars
  <2>4. QED
    BY <1>2, <1>3, <1>4, <1>6, <1>7, <2>1, <2>2, <2>3 DEF Next, Advance

\* An acceptance is never forgotten.
LEMMA AcceptedStep ==
    ASSUME IInv, [Next]_vars, NEW e \in Events, remote[e].accepted
    PROVE  remote'[e].accepted
<1>0. remote \in [Events -> Remote]
  BY DEF IInv, TypeOK
<1>1. CASE UNCHANGED remote
  BY <1>1
<1>2. ASSUME NEW w \in Workers, Send(w) PROVE remote'[e].accepted
  BY <1>0, <1>2 DEF Send, Remote
<1>3. ASSUME NEW w \in Workers, NoAccept(w) PROVE remote'[e].accepted
  BY <1>0, <1>3 DEF NoAccept, Remote
<1>4. ASSUME NEW w \in Workers, NEW started \in BOOLEAN, Accept(w, started)
      PROVE  remote'[e].accepted
  <2>1. DEFINE f == worker[w].event
  <2>2. remote' = [remote EXCEPT ![f].accepted = TRUE, ![f].started = @ \/ started]
    BY <1>4 DEF Accept
  <2> HIDE DEF f
  <2>3. QED
    BY <1>0, <2>2 DEF Remote
<1>5. ASSUME NEW w \in Workers,
             \/ NotSent(w) \/ SetWorkflowExecutionId(w) \/ MarkSent(w) \/ MarkFailed(w)
             \/ MarkRetry(w) \/ StatementFails(w) \/ Crash(w)
             \/ \E f \in Events : Claim(w, f)
      PROVE  UNCHANGED remote
  BY <1>5 DEF NotSent, SetWorkflowExecutionId, MarkSent, MarkFailed, MarkRetry, Record,
              StatementFails, Crash, Claim
<1>6. CASE \/ \E f \in Events :
                \/ \E enabled \in BOOLEAN : Enqueue(f, enabled)
                \/ BecomeDue(f)
           \/ \E f \in WorkflowEvents, to \in ClosedApproval : CloseApproval(f, to)
           \/ UNCHANGED vars
  BY <1>1, <1>6 DEF Enqueue, BecomeDue, CloseApproval, vars
<1>7. QED
  BY <1>1, <1>2, <1>3, <1>4, <1>5, <1>6 DEF Next, Advance

-----------------------------------------------------------------------------
(* The conjuncts of the invariant *)

\* What a worker relies on is kept by its own steps and by everybody else's.
LEMMA WorkerStep == IInv /\ [Next]_vars => WorkerOK'
<1> SUFFICES ASSUME IInv, [Next]_vars, NEW w \in Workers, worker'[w].pc # "idle"
             PROVE  /\ worker'[w].event \in Events
                    /\ events'[worker'[w].event].status # "absent"
                    /\ worker'[w].attempt <= events'[worker'[w].event].attempts
                    /\ worker'[w].pc \in {"execution", "sent"} =>
                           remote'[worker'[w].event].accepted
                    /\ worker'[w].pc = "execution" => worker'[w].event \in WorkflowEvents
  BY DEF WorkerOK
<1> DEFINE Goal == /\ worker'[w].event \in Events
                   /\ events'[worker'[w].event].status # "absent"
                   /\ worker'[w].attempt <= events'[worker'[w].event].attempts
                   /\ worker'[w].pc \in {"execution", "sent"} =>
                          remote'[worker'[w].event].accepted
                   /\ worker'[w].pc = "execution" => worker'[w].event \in WorkflowEvents
<1>0. TypeOK /\ TypeOK'
  BY TypeStep DEF IInv
\* It goes on with its event and its attempt.
<1>1. ASSUME worker[w].pc # "idle", worker'[w].event = worker[w].event,
             worker'[w].attempt = worker[w].attempt,
             worker'[w].pc \in {"execution", "sent"} => remote'[worker[w].event].accepted,
             worker'[w].pc = "execution" => worker[w].event \in WorkflowEvents
      PROVE  Goal
  <2> DEFINE e == worker[w].event
  <2>1. /\ e \in Events
        /\ events[e].status # "absent"
        /\ worker[w].attempt <= events[e].attempts
    BY <1>1 DEF IInv, WorkerOK
  <2>2. worker[w].attempt \in Nat /\ events[e].attempts \in Nat /\ events'[e].attempts \in Nat
    BY <1>0, <2>1, OutboxAssumption DEF TypeOK, Worker, Event
  <2>3. events'[e].attempts >= events[e].attempts /\ events'[e].status # "absent"
    BY <2>1, EventStep
  <2>4. worker[w].attempt <= events'[e].attempts
    BY <2>1, <2>2, <2>3
  <2>5. QED
    BY <1>1, <2>1, <2>3, <2>4
\* It stays where it is.
<1>2. ASSUME worker'[w] = worker[w] PROVE Goal
  <2>1. /\ worker[w].pc # "idle"
        /\ worker[w].event \in Events
        /\ worker[w].pc \in {"execution", "sent"} => remote[worker[w].event].accepted
        /\ worker[w].pc = "execution" => worker[w].event \in WorkflowEvents
    BY <1>2 DEF IInv, WorkerOK
  <2>2. worker[w].pc \in {"execution", "sent"} => remote'[worker[w].event].accepted
    BY <2>1, AcceptedStep
  <2>3. QED
    BY <1>1, <1>2, <2>1, <2>2
<1>3. ASSUME NEW e \in Events, Claim(w, e) PROVE Goal
  <2>1. worker'[w] = [pc |-> "send", event |-> e, attempt |-> events[e].attempts + 1]
    BY <1>0, <1>3 DEF Claim, TypeOK
  <2>2. events'[e] = [status |-> "retrying", attempts |-> events[e].attempts + 1,
                      due |-> FALSE]
    BY <1>0, <1>3 DEF Claim, TypeOK
  <2>3. events[e].attempts + 1 \in Nat
    BY <1>0, OutboxAssumption DEF TypeOK, Event
  <2>4. /\ worker'[w].event = e /\ worker'[w].pc = "send"
        /\ worker'[w].attempt = events[e].attempts + 1
        /\ events'[e].attempts = events[e].attempts + 1
        /\ events'[e].status = "retrying"
    BY <2>1, <2>2
  <2>5. QED
    BY <2>3, <2>4
\* A step to pc keeps the event and the attempt.
<1>4. ASSUME NEW pc \in {"reply", "execution", "sent", "error"}, Goto(w, pc)
      PROVE  /\ worker'[w].pc = pc
             /\ worker'[w].event = worker[w].event
             /\ worker'[w].attempt = worker[w].attempt
  <2>1. worker'[w] = [pc |-> pc, event |-> worker[w].event, attempt |-> worker[w].attempt]
    BY <1>0, <1>4, GotoType
  <2>2. QED
    BY <2>1
<1>5. CASE Send(w)
  <2>1. worker[w].pc = "send" /\ Goto(w, "reply")
    BY <1>5 DEF Send
  <2>2. QED
    BY <1>1, <1>4, <2>1
<1>6. ASSUME worker[w].pc # "idle", Goto(w, "error") PROVE Goal
  BY <1>1, <1>4, <1>6
<1>7. ASSUME NEW started \in BOOLEAN, Accept(w, started) PROVE Goal
  <2> DEFINE e == worker[w].event
  <2>1. worker[w].pc = "reply" /\ e \in Events /\ (started => e \in WorkflowEvents)
    BY <1>7 DEF Accept, IInv, WorkerOK
  <2>2. remote' = [remote EXCEPT ![e].accepted = TRUE, ![e].started = @ \/ started]
    BY <1>7 DEF Accept
  <2>3. Goto(w, IF started THEN "execution" ELSE "sent")
    BY <1>7 DEF Accept
  <2>4. remote'[e].accepted
    <3> HIDE DEF e
    <3>1. QED
      BY <1>0, <2>1, <2>2 DEF TypeOK, Remote
  <2>5. CASE started
    BY <1>1, <1>4, <2>1, <2>3, <2>4, <2>5
  <2>6. CASE ~started
    BY <1>1, <1>4, <2>1, <2>3, <2>4, <2>6
  <2>7. QED
    BY <2>5, <2>6
<1>8. CASE SetWorkflowExecutionId(w)
  <2>1. worker[w].pc = "execution" /\ remote[worker[w].event].accepted
    BY <1>8 DEF SetWorkflowExecutionId, IInv, WorkerOK
  <2>2. remote' = remote /\ (Goto(w, "sent") \/ Goto(w, "error"))
    BY <1>8 DEF SetWorkflowExecutionId
  <2>3. QED
    BY <1>1, <1>4, <1>6, <2>1, <2>2
<1>9. ASSUME Stop(w) PROVE FALSE
  BY <1>0, <1>9, StopType DEF IdleWorker
<1>10. CASE MarkSent(w) \/ MarkFailed(w) \/ MarkRetry(w) \/ Crash(w)
  BY <1>6, <1>9, <1>10 DEF MarkSent, MarkFailed, MarkRetry, Crash
<1>11. CASE NotSent(w) \/ NoAccept(w) \/ StatementFails(w)
  BY <1>6, <1>11 DEF NotSent, NoAccept, StatementFails
<1>12. ASSUME NEW q \in Workers, q # w,
              \/ \E e \in Events : Claim(q, e)
              \/ Advance(q) \/ StatementFails(q) \/ Crash(q)
       PROVE  worker'[w] = worker[w]
  <2>1. \E x : worker' = [worker EXCEPT ![q] = x]
    BY <1>12 DEF Claim, Advance, Send, NotSent, NoAccept, Accept, SetWorkflowExecutionId,
                 MarkSent, MarkFailed, MarkRetry, StatementFails, Crash, Goto, Stop
  <2>2. QED
    BY <1>0, <1>12, <2>1 DEF TypeOK
<1>13. CASE \/ \E f \in Events :
                 \/ \E enabled \in BOOLEAN : Enqueue(f, enabled)
                 \/ BecomeDue(f)
            \/ \E f \in WorkflowEvents, to \in ClosedApproval : CloseApproval(f, to)
            \/ UNCHANGED vars
  BY <1>2, <1>13 DEF Enqueue, BecomeDue, CloseApproval, vars
<1>14. QED
  BY <1>2, <1>3, <1>5, <1>7, <1>8, <1>10, <1>11, <1>12, <1>13 DEF Next, Advance

\* Only the worker that has it in hand marks an event sent or failed.
LEMMA MarkedByWorker ==
    ASSUME IInv, [Next]_vars, NEW e \in Events, events'[e].status # events[e].status,
           events'[e].status \in {"sent", "failed"}
    PROVE  \E w \in Workers :
             /\ worker[w].event = e
             /\ \/ events'[e].status = "sent" /\ worker[w].pc = "sent"
                \/ events'[e].status = "failed" /\ worker[w].pc = "error"
                                                /\ worker[w].attempt >= MaxAttempts
             /\ events'[e].attempts = events[e].attempts
<1>0. events \in [Events -> Event]
  BY DEF IInv, TypeOK
<1>1. ASSUME NEW f \in Events, NEW enabled \in BOOLEAN, Enqueue(f, enabled) PROVE FALSE
  <2>1. CASE events[f].status = "absent"
    <3>1. e # f => events'[e] = events[e]
      BY <1>0, <1>1, <2>1 DEF Enqueue
    <3>2. events'[f].status \in {"queued", "disabled"}
      BY <1>0, <1>1, <2>1 DEF Enqueue, Event
    <3>3. QED
      BY <3>1, <3>2
  <2>2. CASE events[f].status # "absent"
    BY <1>1, <2>2 DEF Enqueue
  <2>3. QED
    BY <2>1, <2>2
<1>2. ASSUME NEW f \in Events, BecomeDue(f) PROVE FALSE
  <2>1. events'[e].status = events[e].status
    BY <1>0, <1>2 DEF BecomeDue, Event
  <2>2. QED
    BY <2>1
<1>3. ASSUME NEW w \in Workers, NEW f \in Events, Claim(w, f) PROVE FALSE
  <2>1. events'[e] = events[e] \/ events'[e].status = "retrying"
    BY <1>0, <1>3 DEF Claim
  <2>2. QED
    BY <2>1
<1>4. ASSUME NEW w \in Workers, NEW outcome \in {"sent", "failed", "retrying"},
             worker[w].pc # "idle", Record(w, outcome)
      PROVE  /\ worker[w].event = e
             /\ events'[e].status = outcome
             /\ events'[e].attempts = events[e].attempts
  <2>1. /\ worker[w].event = e
        /\ events'[e] = [status |-> outcome, attempts |-> events[e].attempts, due |-> FALSE]
    BY <1>4, RecordType
  <2>2. QED
    BY <2>1
<1>5. CASE \E w \in Workers : MarkSent(w)
  BY <1>4, <1>5 DEF MarkSent
<1>6. CASE \E w \in Workers : MarkFailed(w)
  BY <1>4, <1>6 DEF MarkFailed
<1>7. ASSUME NEW w \in Workers, MarkRetry(w) PROVE FALSE
  <2>1. worker[w].pc # "idle" /\ Record(w, "retrying")
    BY <1>7 DEF MarkRetry
  <2>2. events'[e].status = "retrying"
    BY <1>4, <2>1
  <2>3. QED
    BY <2>2
<1>8. ASSUME NEW w \in Workers,
             \/ Send(w) \/ NotSent(w) \/ NoAccept(w) \/ SetWorkflowExecutionId(w)
             \/ StatementFails(w) \/ Crash(w)
             \/ \E started \in BOOLEAN : Accept(w, started)
      PROVE  UNCHANGED events
  BY <1>8 DEF Send, NotSent, NoAccept, SetWorkflowExecutionId, StatementFails, Crash, Accept
<1>9. CASE \/ \E f \in WorkflowEvents, to \in ClosedApproval : CloseApproval(f, to)
           \/ UNCHANGED vars
  BY <1>9 DEF CloseApproval, vars
<1>10. QED
  BY <1>1, <1>2, <1>3, <1>5, <1>6, <1>7, <1>8, <1>9 DEF Next, Advance

LEMMA SentStep == IInv /\ [Next]_vars => SentWasAccepted'
<1> SUFFICES ASSUME IInv, [Next]_vars, NEW e \in Events, events'[e].status = "sent"
             PROVE  remote'[e].accepted
  BY DEF SentWasAccepted
<1>1. remote[e].accepted
  <2>1. CASE events[e].status = "sent"
    BY <2>1 DEF IInv, SentWasAccepted
  <2>2. CASE events[e].status # "sent"
    <3>1. PICK w \in Workers : worker[w].event = e /\ worker[w].pc = "sent"
      BY <2>2, MarkedByWorker
    <3>2. QED
      BY <3>1 DEF IInv, WorkerOK
  <2>3. QED
    BY <2>1, <2>2
<1>2. QED
  BY <1>1, AcceptedStep

LEMMA NotGivenUpStep == IInv /\ [Next]_vars => NotGivenUpEarly'
<1> SUFFICES ASSUME IInv, [Next]_vars, NEW e \in Events, events'[e].status = "failed"
             PROVE  events'[e].attempts >= MaxAttempts
  BY DEF NotGivenUpEarly
<1>1. CASE events[e].status = "failed"
  <2>1. events'[e] = events[e]
    BY <1>1, EventStep DEF Terminal
  <2>2. QED
    BY <1>1, <2>1 DEF IInv, NotGivenUpEarly
<1>2. CASE events[e].status # "failed"
  <2>1. PICK w \in Workers : /\ worker[w].event = e /\ worker[w].pc = "error"
                             /\ worker[w].attempt >= MaxAttempts
                             /\ events'[e].attempts = events[e].attempts
    BY <1>2, MarkedByWorker
  <2>2. worker[w].attempt <= events[e].attempts
    BY <2>1 DEF IInv, WorkerOK
  <2>3. worker[w].attempt \in Nat /\ events[e].attempts \in Nat
    BY OutboxAssumption DEF IInv, TypeOK, Worker, Event
  <2>4. QED
    BY <2>1, <2>2, <2>3, OutboxAssumption
<1>3. QED
  BY <1>1, <1>2

\* The trigger lets no update through that keeps the status.
LEMMA NothingStoredStep == IInv /\ [Next]_vars => NothingStored'
<1> SUFFICES ASSUME IInv, [Next]_vars, NEW e \in WorkflowEvents
             PROVE  ~approvals'[e].execution
  BY DEF NothingStored
<1>0. approvals \in [WorkflowEvents -> ApprovalRow] /\ ~approvals[e].execution
  BY DEF IInv, TypeOK, NothingStored
<1>1. CASE UNCHANGED approvals
  BY <1>0, <1>1
<1>2. ASSUME NEW f \in WorkflowEvents, NEW to \in ClosedApproval, CloseApproval(f, to)
      PROVE  ~approvals'[e].execution
  BY <1>0, <1>2 DEF CloseApproval, ApprovalRow
<1>3. ASSUME NEW w \in Workers, SetWorkflowExecutionId(w) PROVE ~approvals'[e].execution
  <2> DEFINE f == worker[w].event
             allowed == ApprovalTransition(approvals[f].status, approvals[f].status)
  <2>1. ~allowed
    BY DEF ApprovalTransition, ClosedApproval
  <2>2. approvals' = [approvals EXCEPT ![f].execution = @ \/ allowed]
    BY <1>3 DEF SetWorkflowExecutionId
  <2> HIDE DEF f, allowed
  <2>3. QED
    BY <1>0, <2>1, <2>2 DEF ApprovalRow
<1>4. ASSUME NEW w \in Workers,
             \/ Send(w) \/ NotSent(w) \/ NoAccept(w) \/ MarkSent(w) \/ MarkFailed(w)
             \/ MarkRetry(w) \/ StatementFails(w) \/ Crash(w)
             \/ \E started \in BOOLEAN : Accept(w, started)
             \/ \E f \in Events : Claim(w, f)
      PROVE  UNCHANGED approvals
  BY <1>4 DEF Send, NotSent, NoAccept, MarkSent, MarkFailed, MarkRetry, Record,
              StatementFails, Crash, Accept, Claim
<1>5. CASE \/ \E f \in Events :
                \/ \E enabled \in BOOLEAN : Enqueue(f, enabled)
                \/ BecomeDue(f)
           \/ UNCHANGED vars
  BY <1>1, <1>5 DEF Enqueue, BecomeDue, vars
<1>6. QED
  BY <1>1, <1>2, <1>3, <1>4, <1>5 DEF Next, Advance

\* Only a Claim adds to the workers that are to send, and it adds an attempt.
\* Only a Send adds to the requests, and it takes its worker away.
LEMMA PaidStep == IInv /\ [Next]_vars => Paid'
<1> SUFFICES ASSUME IInv, [Next]_vars, NEW e \in Events
             PROVE  (remote[e].received + Cardinality(Sending(e)) <= events[e].attempts)'
  BY DEF Paid
<1> DEFINE Goal == (remote[e].received + Cardinality(Sending(e)) <= events[e].attempts)'
<1>0. TypeOK /\ TypeOK'
  BY TypeStep DEF IInv
<1>1. /\ remote[e].received \in Nat /\ remote'[e].received \in Nat
      /\ events[e].attempts \in Nat /\ events'[e].attempts \in Nat
  BY <1>0, OutboxAssumption DEF TypeOK, Remote, Event
<1>2. /\ IsFiniteSet(Sending(e)) /\ Cardinality(Sending(e)) \in Nat
      /\ IsFiniteSet(Sending(e)') /\ Cardinality(Sending(e)') \in Nat
  <2>1. Sending(e) \subseteq Workers /\ Sending(e)' \subseteq Workers
    BY DEF Sending
  <2>2. QED
    BY <2>1, FS_Subset, FS_CardinalityType, OutboxAssumption
<1>3. remote[e].received + Cardinality(Sending(e)) <= events[e].attempts
  BY DEF IInv, Paid
<1>4. events'[e].attempts >= events[e].attempts
  BY EventStep
\* Nobody is added and nothing is sent.
<1>5. ASSUME Sending(e)' \subseteq Sending(e), remote'[e].received = remote[e].received
      PROVE  Goal
  <2>1. Cardinality(Sending(e)') <= Cardinality(Sending(e))
    BY <1>2, <1>5, FS_Subset
  <2>2. QED
    BY <1>1, <1>2, <1>3, <1>4, <1>5, <2>1
<1>6. ASSUME NEW w \in Workers, NEW f \in Events, Claim(w, f) PROVE Goal
  <2>1. /\ worker' = [worker EXCEPT ![w] =
               [pc |-> "send", event |-> f, attempt |-> events[f].attempts + 1]]
        /\ worker[w].pc = "idle" /\ remote' = remote
    BY <1>6 DEF Claim
  <2>2. /\ worker'[w].event = f
        /\ \A q \in Workers \ {w} : worker'[q] = worker[q]
    BY <1>0, <2>1 DEF TypeOK
  <2>3. CASE e = f
    <3>1. Sending(e)' \subseteq Sending(e) \cup {w}
      BY <2>2 DEF Sending
    <3>2. w \notin Sending(e)
      BY <2>1 DEF Sending
    <3>3. /\ IsFiniteSet(Sending(e) \cup {w})
          /\ Cardinality(Sending(e) \cup {w}) = Cardinality(Sending(e)) + 1
      BY <1>2, <3>2, FS_AddElement
    <3>4. Cardinality(Sending(e)') <= Cardinality(Sending(e)) + 1
      BY <3>1, <3>3, FS_Subset
    <3>5. events'[e].attempts = events[e].attempts + 1
      BY <1>0, <1>6, <2>3 DEF Claim, TypeOK
    <3>6. QED
      BY <1>1, <1>2, <1>3, <2>1, <3>4, <3>5
  <2>4. CASE e # f
    <3>1. Sending(e)' \subseteq Sending(e)
      BY <2>2, <2>4 DEF Sending
    <3>2. QED
      BY <1>5, <2>1, <3>1
  <2>5. QED
    BY <2>3, <2>4
\* A step to another pc takes w away from the workers that are to send.
<1>7. ASSUME NEW w \in Workers, NEW pc \in {"reply", "execution", "sent", "error"}, Goto(w, pc)
      PROVE  Sending(e)' \subseteq Sending(e) \ {w}
  <2>1. worker'[w].pc # "send" /\ \A q \in Workers \ {w} : worker'[q] = worker[q]
    <3>1. /\ worker'[w] = [pc |-> pc, event |-> worker[w].event, attempt |-> worker[w].attempt]
          /\ \A q \in Workers \ {w} : worker'[q] = worker[q]
      BY <1>0, <1>7, GotoType
    <3>2. QED
      BY <3>1
  <2>2. QED
    BY <2>1 DEF Sending
<1>8. ASSUME NEW w \in Workers, Stop(w) PROVE Sending(e)' \subseteq Sending(e) \ {w}
  <2>1. worker'[w].pc # "send" /\ \A q \in Workers \ {w} : worker'[q] = worker[q]
    BY <1>0, <1>8, StopType DEF IdleWorker
  <2>2. QED
    BY <2>1 DEF Sending
<1>9. ASSUME NEW w \in Workers, Send(w) PROVE Goal
  <2>1. /\ remote' = [remote EXCEPT ![worker[w].event].received = @ + 1]
        /\ worker[w].pc = "send" /\ Goto(w, "reply")
    BY <1>9 DEF Send
  <2>2. Sending(e)' \subseteq Sending(e) \ {w}
    BY <1>7, <2>1
  <2>3. CASE worker[w].event = e
    <3>1. remote'[e].received = remote[e].received + 1
      BY <1>0, <2>1, <2>3 DEF TypeOK, Remote
    <3>2. w \in Sending(e)
      BY <2>1, <2>3 DEF Sending
    <3>3. /\ IsFiniteSet(Sending(e) \ {w})
          /\ Cardinality(Sending(e) \ {w}) = Cardinality(Sending(e)) - 1
      BY <1>2, <3>2, FS_RemoveElement
    <3>4. Cardinality(Sending(e)') <= Cardinality(Sending(e)) - 1
      BY <2>2, <3>3, FS_Subset
    <3>5. QED
      BY <1>1, <1>2, <1>3, <1>4, <3>1, <3>4
  <2>4. CASE worker[w].event # e
    <3>1. remote'[e] = remote[e]
      BY <1>0, <2>1, <2>4 DEF TypeOK
    <3>2. QED
      BY <1>5, <2>2, <3>1
  <2>5. QED
    BY <2>3, <2>4
<1>10. ASSUME NEW w \in Workers, NoAccept(w) PROVE Goal
  <2>1. remote'[e].received = remote[e].received
    BY <1>0, <1>10 DEF NoAccept, TypeOK, Remote
  <2>2. QED
    BY <1>5, <1>7, <1>10, <2>1 DEF NoAccept
<1>11. ASSUME NEW w \in Workers, NEW started \in BOOLEAN, Accept(w, started) PROVE Goal
  <2> DEFINE f == worker[w].event
  <2>1. remote' = [remote EXCEPT ![f].accepted = TRUE, ![f].started = @ \/ started]
    BY <1>11 DEF Accept
  <2>2. Goto(w, IF started THEN "execution" ELSE "sent")
    BY <1>11 DEF Accept
  <2> HIDE DEF f
  <2>3. remote'[e].received = remote[e].received
    BY <1>0, <2>1 DEF TypeOK, Remote
  <2>4. Sending(e)' \subseteq Sending(e) \ {w}
    BY <1>7, <2>2
  <2>5. QED
    BY <1>5, <2>3, <2>4
<1>12. ASSUME NEW w \in Workers,
              \/ NotSent(w) \/ SetWorkflowExecutionId(w) \/ MarkSent(w) \/ MarkFailed(w)
              \/ MarkRetry(w) \/ StatementFails(w) \/ Crash(w)
       PROVE  Goal
  <2>1. remote' = remote
    BY <1>12 DEF NotSent, SetWorkflowExecutionId, MarkSent, MarkFailed, MarkRetry, Record,
                 StatementFails, Crash
  <2>2. Stop(w) \/ \E pc \in {"sent", "error"} : Goto(w, pc)
    BY <1>12 DEF NotSent, SetWorkflowExecutionId, MarkSent, MarkFailed, MarkRetry,
                 StatementFails, Crash
  <2>3. Sending(e)' \subseteq Sending(e)
    BY <1>7, <1>8, <2>2
  <2>4. QED
    BY <1>5, <2>1, <2>3
<1>13. CASE \/ \E f \in Events :
                 \/ \E enabled \in BOOLEAN : Enqueue(f, enabled)
                 \/ BecomeDue(f)
            \/ \E f \in WorkflowEvents, to \in ClosedApproval : CloseApproval(f, to)
            \/ UNCHANGED vars
  <2>1. worker' = worker /\ remote' = remote
    BY <1>13 DEF Enqueue, BecomeDue, CloseApproval, vars
  <2>2. Sending(e)' \subseteq Sending(e)
    BY <2>1 DEF Sending
  <2>3. QED
    BY <1>5, <2>1, <2>2
<1>14. QED
  BY <1>6, <1>9, <1>10, <1>11, <1>12, <1>13 DEF Next, Advance

-----------------------------------------------------------------------------
(* Theorems *)

\* Every reachable state satisfies the inductive invariant.
THEOREM Invariant == Spec => []IInv
<1>1. IInv /\ [Next]_vars => IInv'
  BY TypeStep, WorkerStep, SentStep, NotGivenUpStep, PaidStep, NothingStoredStep DEF IInv
<1>2. QED
  BY InitIInv, <1>1, PTL DEF Spec

\* TypeOK: no worker ever acts on an event that does not exist, and no attempt
\* is claimed past the CHECK on attempt_count.
THEOREM TypesAreRight == Spec => []TypeOK
<1>1. IInv => TypeOK
  BY DEF IInv
<1>2. QED
  BY Invariant, <1>1, PTL

\* An event is marked sent only when the other system accepted it, whichever
\* worker of those that claimed it writes the mark.
THEOREM SentMeansAccepted == Spec => []SentWasAccepted
<1>1. IInv => SentWasAccepted
  BY DEF IInv
<1>2. QED
  BY Invariant, <1>1, PTL

\* A lease taken over never makes more requests than attempts.
THEOREM OneRequestPerAttempt == Spec => []RequestsArePaidFor
<1>1. IInv => RequestsArePaidFor
  <2> SUFFICES ASSUME IInv, NEW e \in Events
               PROVE  remote[e].received <= events[e].attempts
    BY DEF RequestsArePaidFor
  <2>1. Sending(e) \subseteq Workers
    BY DEF Sending
  <2>2. Cardinality(Sending(e)) \in Nat
    BY <2>1, FS_Subset, FS_CardinalityType, OutboxAssumption
  <2>3. remote[e].received + Cardinality(Sending(e)) <= events[e].attempts
    BY DEF IInv, Paid
  <2>4. remote[e].received \in Nat /\ events[e].attempts \in Nat
    BY OutboxAssumption DEF IInv, TypeOK, Remote, Event
  <2>5. QED
    BY <2>2, <2>3, <2>4
<1>2. QED
  BY Invariant, <1>1, PTL

\* No worker, however stale its attempt_count, gives an event up before
\* MaxAttempts attempts were made.
THEOREM GivenUpAfterMaxAttempts == Spec => []NotGivenUpEarly
<1>1. IInv => NotGivenUpEarly
  BY DEF IInv
<1>2. QED
  BY Invariant, <1>1, PTL

\* What the row of an event says is true, whatever leases end and outcomes come
\* late: accepted when sent, every request counted, not given up early.
THEOREM DeliveriesAreTrue == Spec => []DeliveriesAreHonest
<1>1. TypeOK /\ SentWasAccepted /\ RequestsArePaidFor /\ NotGivenUpEarly => DeliveriesAreHonest
  BY DEF DeliveriesAreHonest
<1>2. QED
  BY <1>1, TypesAreRight, SentMeansAccepted, OneRequestPerAttempt, GivenUpAfterMaxAttempts, PTL

\* The outcome of a worker that lost its lease never changes an ended event.
THEOREM EndedEventsAreFinal == Spec => EndedEventsStay
<1>1. IInv /\ [Next]_vars =>
        [\A e \in Events : events[e].status \in Terminal => events'[e] = events[e]]_vars
  BY EventStep
<1>2. QED
  BY Invariant, <1>1, PTL DEF Spec, EndedEventsStay

\* As enforce_approval_lifecycle is written, no approval ever gets a
\* workflow_execution_id from a worker, whatever the workflow engine replies.
THEOREM NoExecutionIsStored == Spec => []NothingStored
<1>1. IInv => NothingStored
  BY DEF IInv
<1>2. QED
  BY Invariant, <1>1, PTL

-----------------------------------------------------------------------------
(* Notices *)

\* A lock is remembered.
LocksAreSeen == \A u \in Users, k \in Keys : prefs[u][k].locked => u \in wasLocked

\* A recipient of an urgent event is still to be served, is served now, or has the notice.
Served ==
    \A e \in Topics, u \in Users :
        Urgency[e] = "high" /\ emit[e].pc \in {"serve", "insert", "done"}
        /\ u \in emit[e].listed /\ u \notin wasLocked
        => \/ u \in emit[e].todo
           \/ emit[e].pc = "insert" /\ emit[e].user = u
           \/ notices[u][e] # <<>>

NoticesInv ==
    /\ NoticesTypeOK
    /\ notices \in [Users -> [Topics -> Seq({"unread", "read"})]]
    /\ OneNoticePerRecipient /\ MutedOnlyByLock /\ LocksAreSeen /\ Served
    /\ \A e \in Topics : emit[e].pc = "done" => emit[e].todo = {}

LEMMA NoticesInitInv == NoticesInit => NoticesInv
<1> SUFFICES ASSUME NoticesInit PROVE NoticesInv
  OBVIOUS
<1>1. PICK someone \in Users : someone = CHOOSE u \in Users : TRUE
  BY NotificationsAssumption
<1>2. emit = [e \in Topics |-> [pc |-> "idle", listed |-> {}, todo |-> {}, user |-> someone]]
  BY <1>1 DEF NoticesInit
<1>3. emit \in [Topics -> Emission]
  BY <1>2 DEF Emission
<1>4. prefs \in [Users -> [Keys -> Preference]] /\ count \in [Topics -> 0 .. MaxEmissions]
      /\ \A u \in Users, k \in Keys : prefs[u][k] = NoPreference
  BY NotificationsAssumption DEF NoticesInit, NoPreference, Preference
<1>5. notices \in [Users -> [Topics -> Seq({"unread", "read"})]]
      /\ \A u \in Users, e \in Topics : notices[u][e] = <<>>
  BY DEF NoticesInit
<1>6. NoticesTypeOK
  BY <1>3, <1>4, <1>5 DEF NoticesInit, NoticesTypeOK
<1>7. OneNoticePerRecipient /\ Served /\ \A e \in Topics : emit[e].pc # "done"
  BY <1>2, <1>5 DEF OneNoticePerRecipient, Served
<1>8. MutedOnlyByLock /\ LocksAreSeen
  BY <1>4 DEF MutedOnlyByLock, LocksAreSeen, NoPreference
<1> QED  BY <1>5, <1>6, <1>7, <1>8 DEF NoticesInv

\* Users change, ask and read.
LEMMA UserInv ==
    ASSUME NoticesInv, NEW u \in Users, ChangeUser(u) \/ Authenticate(u)
    PROVE  NoticesInv'
<1>1. UNCHANGED <<prefs, notices, emit, count, wasLocked>>
  BY DEF ChangeUser, Authenticate
<1>2. active' \subseteq Users /\ role' \in [Users -> RoleNames]
      /\ context' \in [Users -> RoleNames \cup {"none"}]
  <2>1. (CHOOSE r \in RoleNames : r # role[u]) \in RoleNames
    <3>1. \E r \in RoleNames : r # role[u]
      BY DEF RoleNames
    <3> QED  BY <3>1
  <2>2. CASE ChangeUser(u)
    BY <2>1, <2>2 DEF ChangeUser, NoticesInv, NoticesTypeOK
  <2>3. CASE Authenticate(u)
    BY <2>3 DEF Authenticate, NoticesInv, NoticesTypeOK
  <2> QED  BY <2>2, <2>3
<1>3. NoticesTypeOK'
  BY <1>1, <1>2 DEF NoticesInv, NoticesTypeOK
<1> QED  BY <1>1, <1>3 DEF NoticesInv, OneNoticePerRecipient, MutedOnlyByLock, LocksAreSeen, Served

\* The rows of one user for one event change: there is at most one, and none is lost.
LEMMA NoticeStep ==
    ASSUME NoticesInv, NEW u \in Users, NEW e \in Topics, NEW s \in Seq({"unread", "read"}),
           Len(s) <= 1, notices[u][e] # <<>> => s # <<>>,
           notices' = [notices EXCEPT ![u][e] = s]
    PROVE  /\ notices' \in [Users -> [Topics -> Seq({"unread", "read"})]]
           /\ OneNoticePerRecipient'
           /\ \A v \in Users, f \in Topics : notices[v][f] # <<>> => notices'[v][f] # <<>>
           /\ notices'[u][e] = s
<1>0. notices \in [Users -> [Topics -> Seq({"unread", "read"})]] /\ OneNoticePerRecipient
  BY DEF NoticesInv
<1>1. notices'[u][e] = s /\ notices' \in [Users -> [Topics -> Seq({"unread", "read"})]]
  BY <1>0
<1>2. \A v \in Users, f \in Topics : <<v, f>> # <<u, e>> => notices'[v][f] = notices[v][f]
  BY <1>0
<1>3. OneNoticePerRecipient'
  <2> SUFFICES ASSUME NEW v \in Users, NEW f \in Topics PROVE Len(notices'[v][f]) <= 1
    BY DEF OneNoticePerRecipient
  <2>1. CASE <<v, f>> = <<u, e>>
    BY <1>1, <2>1
  <2>2. CASE <<v, f>> # <<u, e>>
    BY <1>0, <1>2, <2>2 DEF OneNoticePerRecipient
  <2> QED  BY <2>1, <2>2
<1>4. ASSUME NEW v \in Users, NEW f \in Topics, notices[v][f] # <<>> PROVE notices'[v][f] # <<>>
  <2>1. CASE <<v, f>> = <<u, e>>
    BY <1>1, <1>4, <2>1
  <2>2. CASE <<v, f>> # <<u, e>>
    BY <1>2, <1>4, <2>2
  <2> QED  BY <2>1, <2>2
<1> QED  BY <1>1, <1>3, <1>4

LEMMA MarkReadInv ==
    ASSUME NoticesInv, NEW u \in Users, NEW e \in Topics, MarkRead(u, e) PROVE NoticesInv'
<1>1. PICK i \in DOMAIN notices[u][e] : notices' = [notices EXCEPT ![u][e][i] = "read"]
  BY DEF MarkRead
<1> DEFINE s == [notices[u][e] EXCEPT ![i] = "read"]
<1>2. notices[u][e] \in Seq({"unread", "read"}) /\ Len(notices[u][e]) <= 1
  BY DEF NoticesInv, OneNoticePerRecipient
<1>3. s \in Seq({"unread", "read"}) /\ Len(s) = Len(notices[u][e]) /\ s # <<>>
  BY <1>2
<1>4. notices' = [notices EXCEPT ![u][e] = s]
  BY <1>1
<1> HIDE DEF s
<1>5. /\ notices' \in [Users -> [Topics -> Seq({"unread", "read"})]]
      /\ OneNoticePerRecipient'
      /\ \A v \in Users, f \in Topics : notices[v][f] # <<>> => notices'[v][f] # <<>>
  BY <1>2, <1>3, <1>4, NoticeStep
<1>6. UNCHANGED <<active, role, prefs, emit, count, wasLocked>>
      /\ context' \in [Users -> RoleNames \cup {"none"}]
  BY DEF MarkRead, NoticesInv, NoticesTypeOK
<1>7. NoticesTypeOK'
  BY <1>5, <1>6 DEF NoticesInv, NoticesTypeOK
<1> QED  BY <1>5, <1>6, <1>7 DEF NoticesInv, MutedOnlyByLock, LocksAreSeen, Served

\* What a preference becomes when its input is not refused.
LEMMA UpsertOK ==
    ASSUME NoticesInv, NEW u \in Users, NEW input \in Inputs, context[u] # "none",
           ~Refused(u, input), LockCheck(input.key, Proposed(u, input))
    PROVE  LET row == Upsert(u, input) IN
           /\ row \in Preference
           /\ row.urgency = "high" /\ ~row.enabled => row.locked
           /\ row.locked => input.key[2] = "in_app"
           /\ prefs[u][input.key].locked /\ row # prefs[u][input.key] => context[u] = "tenant_admin"
<1> DEFINE previous == prefs[u][input.key]
           new == Proposed(u, input)
<1>1. input.key \in Keys /\ input.urgency \in {"low", "high"} /\ input.enabled \in BOOLEAN
  BY DEF Inputs
<1>2. previous \in Preference
      /\ (previous.urgency = "high" /\ ~previous.enabled => previous.locked)
      /\ (previous.locked => input.key[2] = "in_app")
  BY <1>1 DEF NoticesInv, NoticesTypeOK, MutedOnlyByLock
<1>3. new.urgency = input.urgency /\ new.enabled = input.enabled
      /\ new.locked = Locked(input, previous)
  BY DEF Proposed
<1>4. Locked(input, previous) \in BOOLEAN
  <2>1. previous.locked \in BOOLEAN
    BY <1>2 DEF Preference
  <2> QED  BY <2>1 DEF Locked
<1>5. new \in Preference
  BY <1>1, <1>4 DEF Proposed, Preference
<1>6. ~(input.urgency = "high" /\ ~input.enabled /\ ~Locked(input, previous))
  BY DEF Refused
<1>7. new.locked => input.key[2] = "in_app"
  BY DEF LockCheck
<1>8. Upsert(u, input) = IF previous.locked /\ context[u] # "tenant_admin" THEN previous ELSE new
  BY DEF Upsert
<1> HIDE DEF previous, new
<1>9. CASE previous.locked /\ context[u] # "tenant_admin"
  BY <1>2, <1>8, <1>9 DEF previous
<1>10. CASE ~(previous.locked /\ context[u] # "tenant_admin")
  <2>1. Upsert(u, input) = new
    BY <1>8, <1>10
  <2> QED  BY <1>3, <1>5, <1>6, <1>7, <1>10, <2>1 DEF previous
<1> QED  BY <1>9, <1>10

\* What replacing preferences leaves of each.
LEMMA ReplaceStep ==
    ASSUME NoticesInv, NEW u \in Users, NEW inputs \in Bodies, ReplacePreferences(u, inputs)
    PROVE  /\ prefs' \in [Users -> [Keys -> Preference]]
           /\ \A v \in Users, k \in Keys :
                 /\ prefs'[v][k].urgency = "high" /\ ~prefs'[v][k].enabled => prefs'[v][k].locked
                 /\ prefs'[v][k].locked => k[2] = "in_app"
                 /\ v # u => prefs'[v][k] = prefs[v][k]
                 /\ prefs[v][k].locked /\ prefs'[v][k] # prefs[v][k] => context[v] = "tenant_admin"
<1>0. prefs \in [Users -> [Keys -> Preference]] /\ MutedOnlyByLock /\ inputs \subseteq Inputs
      /\ context[u] # "none"
  BY NotificationsAssumption DEF NoticesInv, NoticesTypeOK, ReplacePreferences
<1>1. CASE prefs' = prefs
  BY <1>0, <1>1 DEF MutedOnlyByLock
<1>2. CASE /\ \A i \in inputs : ~Refused(u, i) /\ LockCheck(i.key, Proposed(u, i))
           /\ prefs' = [prefs EXCEPT ![u] = [k \in Keys |->
                          IF \E i \in inputs : i.key = k
                          THEN Upsert(u, CHOOSE i \in inputs : i.key = k) ELSE prefs[u][k]]]
  <2>1. ASSUME NEW k \in Keys
        PROVE  /\ prefs'[u][k] \in Preference
               /\ prefs'[u][k].urgency = "high" /\ ~prefs'[u][k].enabled => prefs'[u][k].locked
               /\ prefs'[u][k].locked => k[2] = "in_app"
               /\ prefs[u][k].locked /\ prefs'[u][k] # prefs[u][k] => context[u] = "tenant_admin"
    <3>1. CASE \E i \in inputs : i.key = k
      <4>1. PICK i : i = CHOOSE j \in inputs : j.key = k
        OBVIOUS
      <4>2. i \in inputs /\ i.key = k
        BY <3>1, <4>1
      <4>3. prefs'[u][k] = Upsert(u, i)
        BY <1>0, <1>2, <3>1, <4>1
      <4>4. i \in Inputs /\ ~Refused(u, i) /\ LockCheck(i.key, Proposed(u, i))
        BY <1>0, <1>2, <4>2
      <4> QED  BY <1>0, <4>2, <4>3, <4>4, UpsertOK
    <3>2. CASE ~\E i \in inputs : i.key = k
      <4>1. prefs'[u][k] = prefs[u][k]
        BY <1>0, <1>2, <3>2
      <4> QED  BY <1>0, <4>1 DEF MutedOnlyByLock
    <3> QED  BY <3>1, <3>2
  <2>2. prefs' \in [Users -> [Keys -> Preference]] /\ \A v \in Users : v # u => prefs'[v] = prefs[v]
    <3>1. [k \in Keys |-> IF \E i \in inputs : i.key = k
                          THEN Upsert(u, CHOOSE i \in inputs : i.key = k) ELSE prefs[u][k]]
            = prefs'[u]
      BY <1>0, <1>2
    <3>2. prefs'[u] \in [Keys -> Preference]
      BY <2>1, <3>1
    <3>3. prefs' = [prefs EXCEPT ![u] = prefs'[u]]
      BY <1>2, <3>1
    <3> QED  BY <1>0, <3>2, <3>3
  <2> QED  BY <1>0, <2>1, <2>2 DEF MutedOnlyByLock
<1> QED  BY <1>1, <1>2 DEF ReplacePreferences

LEMMA ReplaceInv ==
    ASSUME NoticesInv, NEW u \in Users, NEW inputs \in Bodies, ReplacePreferences(u, inputs)
    PROVE  NoticesInv'
<1>1. /\ prefs' \in [Users -> [Keys -> Preference]]
      /\ \A v \in Users, k \in Keys :
            /\ prefs'[v][k].urgency = "high" /\ ~prefs'[v][k].enabled => prefs'[v][k].locked
            /\ prefs'[v][k].locked => k[2] = "in_app"
            /\ v # u => prefs'[v][k] = prefs[v][k]
  BY ReplaceStep
<1>2. UNCHANGED <<active, role, notices, emit, count>>
      /\ context' \in [Users -> RoleNames \cup {"none"}]
  BY DEF ReplacePreferences, NoticesInv, NoticesTypeOK
<1>3. /\ wasLocked' \subseteq Users /\ wasLocked \subseteq wasLocked'
      /\ \A k \in Keys : prefs'[u][k].locked => u \in wasLocked'
  BY DEF ReplacePreferences, NoticesInv, NoticesTypeOK
<1>4. NoticesTypeOK'
  BY <1>1, <1>2, <1>3 DEF NoticesInv, NoticesTypeOK
<1>5. MutedOnlyByLock'
  BY <1>1 DEF MutedOnlyByLock
<1>6. LocksAreSeen'
  <2> SUFFICES ASSUME NEW v \in Users, NEW k \in Keys, prefs'[v][k].locked PROVE v \in wasLocked'
    BY DEF LocksAreSeen
  <2>1. CASE v = u
    BY <1>3, <2>1
  <2>2. CASE v # u
    <3>1. prefs[v][k].locked
      BY <1>1, <2>2
    <3>2. v \in wasLocked
      BY <3>1 DEF NoticesInv, LocksAreSeen
    <3> QED  BY <1>3, <3>2
  <2> QED  BY <2>1, <2>2
<1>7. Served'
  BY <1>2, <1>3 DEF NoticesInv, Served
<1> QED  BY <1>2, <1>4, <1>5, <1>6, <1>7 DEF NoticesInv, OneNoticePerRecipient

\* An emission goes on, owing no less than before to those it listed.
LEMMA EmissionInv ==
    ASSUME NoticesInv, NEW e \in Topics, NEW new \in Emission,
           emit' = [emit EXCEPT ![e] = new],
           UNCHANGED <<active, role, prefs, context, wasLocked>>,
           count' \in [Topics -> 0 .. MaxEmissions],
           notices' \in [Users -> [Topics -> Seq({"unread", "read"})]], OneNoticePerRecipient',
           \A v \in Users, f \in Topics : notices[v][f] # <<>> => notices'[v][f] # <<>>,
           new.pc = "done" => new.todo = {},
           \A u \in Users : Urgency[e] = "high" /\ new.pc \in {"serve", "insert", "done"}
                            /\ u \in new.listed /\ u \notin wasLocked
                            => \/ u \in new.todo
                               \/ new.pc = "insert" /\ new.user = u
                               \/ notices'[u][e] # <<>>
    PROVE  NoticesInv'
<1>1. emit' \in [Topics -> Emission] /\ emit'[e] = new
      /\ \A f \in Topics : f # e => emit'[f] = emit[f]
  BY DEF NoticesInv, NoticesTypeOK
<1>2. NoticesTypeOK'
  BY <1>1 DEF NoticesInv, NoticesTypeOK
<1>3. Served'
  <2> SUFFICES ASSUME NEW f \in Topics, NEW u \in Users, Urgency[f] = "high",
                      emit'[f].pc \in {"serve", "insert", "done"}, u \in emit'[f].listed,
                      u \notin wasLocked
               PROVE  \/ u \in emit'[f].todo
                      \/ emit'[f].pc = "insert" /\ emit'[f].user = u
                      \/ notices'[u][f] # <<>>
    BY DEF Served
  <2>1. CASE f = e
    BY <1>1, <2>1
  <2>2. CASE f # e
    BY <1>1, <2>2 DEF NoticesInv, Served
  <2> QED  BY <2>1, <2>2
<1>4. \A f \in Topics : emit'[f].pc = "done" => emit'[f].todo = {}
  BY <1>1 DEF NoticesInv
<1> QED  BY <1>2, <1>3, <1>4 DEF NoticesInv, MutedOnlyByLock, LocksAreSeen

LEMMA EmitInv ==
    ASSUME NoticesInv, NEW e \in Topics, Emit(e) \/ Emitted(e) \/ EmitFails(e)
    PROVE  NoticesInv'
<1>1. PICK pc \in {"list", "done", "failed"} :
        /\ emit' = [emit EXCEPT ![e].pc = pc]
        /\ pc = "done" => emit[e].pc = "serve" /\ emit[e].todo = {}
  BY DEF Emit, Emitted, EmitFails
<1>2. UNCHANGED <<active, role, prefs, notices, context, wasLocked>>
  BY DEF Emit, Emitted, EmitFails
<1>3. count' \in [Topics -> 0 .. MaxEmissions]
  <2>0. count \in [Topics -> 0 .. MaxEmissions] /\ MaxEmissions \in Nat
    BY NotificationsAssumption DEF NoticesInv, NoticesTypeOK
  <2>1. CASE Emit(e)
    <3>1. count[e] < MaxEmissions /\ count' = [count EXCEPT ![e] = @ + 1]
      BY <2>1 DEF Emit
    <3>2. count[e] + 1 \in 0 .. MaxEmissions
      BY <2>0, <3>1
    <3> QED  BY <2>0, <3>1, <3>2
  <2>2. CASE Emitted(e) \/ EmitFails(e)
    BY <2>0, <2>2 DEF Emitted, EmitFails
  <2> QED  BY <2>1, <2>2
<1>4. emit[e] \in Emission
  BY DEF NoticesInv, NoticesTypeOK
<1>5. PICK new \in Emission : new = [emit[e] EXCEPT !.pc = pc]
  BY <1>4 DEF Emission
<1>6. new.pc = pc /\ new.listed = emit[e].listed /\ new.todo = emit[e].todo
  BY <1>4, <1>5 DEF Emission
<1>7. \A u \in Users : Urgency[e] = "high" /\ new.pc \in {"serve", "insert", "done"}
                       /\ u \in new.listed /\ u \notin wasLocked => notices[u][e] # <<>>
  BY <1>1, <1>6 DEF NoticesInv, Served
<1>8. /\ notices' \in [Users -> [Topics -> Seq({"unread", "read"})]] /\ OneNoticePerRecipient'
      /\ \A v \in Users, f \in Topics : notices[v][f] # <<>> => notices'[v][f] # <<>>
  BY <1>2 DEF NoticesInv, OneNoticePerRecipient
<1>9. \A u \in Users : Urgency[e] = "high" /\ new.pc \in {"serve", "insert", "done"}
                       /\ u \in new.listed /\ u \notin wasLocked
                       => \/ u \in new.todo
                          \/ new.pc = "insert" /\ new.user = u
                          \/ notices'[u][e] # <<>>
  BY <1>2, <1>7
<1>10. new.pc = "done" => new.todo = {}
  BY <1>1, <1>6
<1>11. emit' = [emit EXCEPT ![e] = new]
  BY <1>1, <1>5
<1> QED  BY <1>2, <1>3, <1>8, <1>9, <1>10, <1>11, EmissionInv

LEMMA ListRecipientsInv == ASSUME NoticesInv, NEW e \in Topics, ListRecipients(e) PROVE NoticesInv'
<1>1. PICK found \in SUBSET Users : found = {u \in active : role[u] \in Roles[e]}
  BY DEF NoticesInv, NoticesTypeOK
<1>2. emit[e] \in Emission
  BY DEF NoticesInv, NoticesTypeOK
<1>3. PICK new \in Emission : new = [pc |-> "serve", listed |-> found, todo |-> found,
                                     user |-> emit[e].user]
  BY <1>2 DEF Emission
<1>4. emit' = [emit EXCEPT ![e] = new]
  BY <1>1, <1>3 DEF ListRecipients
<1>5. /\ UNCHANGED <<active, role, prefs, notices, context, wasLocked>>
      /\ count' \in [Topics -> 0 .. MaxEmissions]
      /\ notices' \in [Users -> [Topics -> Seq({"unread", "read"})]] /\ OneNoticePerRecipient'
  BY DEF ListRecipients, NoticesInv, NoticesTypeOK, OneNoticePerRecipient
<1> QED  BY <1>3, <1>4, <1>5, EmissionInv

LEMMA ServeRecipientInv ==
    ASSUME NoticesInv, NEW e \in Topics, NEW u \in Users, ServeRecipient(e, u) PROVE NoticesInv'
<1>1. emit[e] \in Emission /\ emit[e].pc = "serve"
  BY DEF ServeRecipient, NoticesInv, NoticesTypeOK
<1>2. PICK pc \in {"insert", "serve"} : pc = IF NotificationEnabled(u, e) THEN "insert" ELSE "serve"
  OBVIOUS
<1>3. PICK new \in Emission : new = [pc |-> pc, listed |-> emit[e].listed,
                                     todo |-> emit[e].todo \ {u}, user |-> u]
  BY <1>1 DEF Emission
<1>4. emit' = [emit EXCEPT ![e] = new]
  BY <1>2, <1>3 DEF ServeRecipient
<1>5. /\ UNCHANGED <<active, role, prefs, notices, context, wasLocked>>
      /\ count' \in [Topics -> 0 .. MaxEmissions]
      /\ notices' \in [Users -> [Topics -> Seq({"unread", "read"})]] /\ OneNoticePerRecipient'
  BY DEF ServeRecipient, NoticesInv, NoticesTypeOK, OneNoticePerRecipient
<1>6. Urgency[e] = "high" /\ u \notin wasLocked => pc = "insert"
  <2>1. <<e, "in_app">> \in Keys
    BY DEF Keys, Channels
  <2>2. ASSUME u \notin wasLocked PROVE ~prefs[u][<<e, "in_app">>].locked
    BY <2>1, <2>2 DEF NoticesInv, LocksAreSeen
  <2> QED  BY <1>2, <2>2 DEF NotificationEnabled
<1>7. \A v \in Users : Urgency[e] = "high" /\ v \in emit[e].listed /\ v \notin wasLocked
                       => v \in emit[e].todo \/ notices[v][e] # <<>>
  BY <1>1 DEF NoticesInv, Served
<1>8. \A v \in Users : Urgency[e] = "high" /\ new.pc \in {"serve", "insert", "done"}
                       /\ v \in new.listed /\ v \notin wasLocked
                       => \/ v \in new.todo
                          \/ new.pc = "insert" /\ new.user = v
                          \/ notices'[v][e] # <<>>
  BY <1>3, <1>5, <1>6, <1>7
<1>9. new.pc # "done"
  BY <1>3
<1> QED  BY <1>4, <1>5, <1>8, <1>9, EmissionInv

LEMMA CreateForRecipientInv ==
    ASSUME NoticesInv, NEW e \in Topics, CreateForRecipient(e) PROVE NoticesInv'
<1>1. emit[e] \in Emission /\ emit[e].pc = "insert"
  BY DEF CreateForRecipient, NoticesInv, NoticesTypeOK
<1>2. PICK u \in Users : u = emit[e].user
  BY <1>1 DEF Emission
<1>3. PICK new \in Emission : new = [emit[e] EXCEPT !.pc = "serve"]
  BY <1>1 DEF Emission
<1>4. new.pc = "serve" /\ new.listed = emit[e].listed /\ new.todo = emit[e].todo
  BY <1>1, <1>3 DEF Emission
<1>5. emit' = [emit EXCEPT ![e] = new]
  BY <1>3 DEF CreateForRecipient
<1>6. /\ UNCHANGED <<active, role, prefs, context, wasLocked>>
      /\ count' \in [Topics -> 0 .. MaxEmissions]
  BY DEF CreateForRecipient, NoticesInv, NoticesTypeOK
<1>7. /\ notices' \in [Users -> [Topics -> Seq({"unread", "read"})]] /\ OneNoticePerRecipient'
      /\ \A v \in Users, f \in Topics : notices[v][f] # <<>> => notices'[v][f] # <<>>
      /\ notices'[u][e] # <<>>
  <2>1. CASE notices[u][e] # <<>>
    <3>1. notices' = notices
      BY <1>2, <2>1 DEF CreateForRecipient
    <3> QED  BY <2>1, <3>1 DEF NoticesInv, OneNoticePerRecipient
  <2>2. CASE notices[u][e] = <<>>
    <3>1. notices' = [notices EXCEPT ![u][e] = <<"unread">>]
      BY <1>2, <2>2 DEF CreateForRecipient
    <3>2. PICK status \in {"unread", "read"} : status = "unread"
      OBVIOUS
    <3>3. <<status>> \in Seq({"unread", "read"}) /\ Len(<<status>>) = 1 /\ <<status>> # <<>>
      OBVIOUS
    <3>4. PICK s \in Seq({"unread", "read"}) : s = <<status>>
      BY <3>3
    <3>5. notices' = [notices EXCEPT ![u][e] = s]
      BY <3>1, <3>2, <3>4
    <3>6. Len(s) <= 1 /\ s # <<>>
      BY <3>3, <3>4
    <3>7. /\ notices' \in [Users -> [Topics -> Seq({"unread", "read"})]]
          /\ OneNoticePerRecipient'
          /\ \A v \in Users, f \in Topics : notices[v][f] # <<>> => notices'[v][f] # <<>>
          /\ notices'[u][e] = s
      BY <3>5, <3>6, NoticeStep
    <3> QED  BY <3>6, <3>7
  <2> QED  BY <2>1, <2>2
<1>8. \A v \in Users : Urgency[e] = "high" /\ v \in emit[e].listed /\ v \notin wasLocked
                       => v \in emit[e].todo \/ v = u \/ notices[v][e] # <<>>
  BY <1>1, <1>2 DEF NoticesInv, Served
<1>9. \A v \in Users : Urgency[e] = "high" /\ v \in new.listed /\ v \notin wasLocked
                       => v \in new.todo \/ notices'[v][e] # <<>>
  BY <1>4, <1>7, <1>8
<1> QED  BY <1>4, <1>5, <1>6, <1>7, <1>9, EmissionInv

LEMMA NoticesNextInv == NoticesInv /\ [NoticesNext]_noticeVars => NoticesInv'
<1> SUFFICES ASSUME NoticesInv, [NoticesNext]_noticeVars PROVE NoticesInv'
  OBVIOUS
<1>1. CASE UNCHANGED noticeVars
  BY <1>1 DEF noticeVars, NoticesInv, NoticesTypeOK, OneNoticePerRecipient, MutedOnlyByLock,
              LocksAreSeen, Served
<1> QED  BY <1>1, UserInv, MarkReadInv, ReplaceInv, EmitInv, ListRecipientsInv, ServeRecipientInv,
            CreateForRecipientInv DEF NoticesNext

\* One notice for each recipient of an event, urgent ones for all that no administrator
\* muted, and no other way to mute, whatever fails, comes twice and changes meanwhile.
THEOREM NoticesAreSound == NoticesSpec => []NoticesArrive
<1>1. NoticesInv => NoticesArrive
  BY DEF NoticesInv, NoticesArrive, UrgentReaches, Served
<1> QED  BY <1>1, NoticesInitInv, NoticesNextInv, PTL DEF NoticesSpec

\* A locked preference is changed by an administrator, and a notice is read by its recipient
\* and stays read, whoever asks what meanwhile.
THEOREM OwnersDecide == NoticesSpec => NobodyElseChanges
<1>1. NoticesInv /\ [NoticesNext]_noticeVars => [LocksHold /\ ReadByRecipient]_noticeVars
  <2> SUFFICES ASSUME NoticesInv, NoticesNext PROVE LocksHold /\ ReadByRecipient
    OBVIOUS
  <2>0. /\ prefs \in [Users -> [Keys -> Preference]] /\ OneNoticePerRecipient
        /\ notices \in [Users -> [Topics -> Seq({"unread", "read"})]]
    BY DEF NoticesInv, NoticesTypeOK
  <2>1. CASE UNCHANGED <<prefs, notices>>
    BY <2>1 DEF LocksHold, ReadByRecipient
  <2>2. ASSUME NEW u \in Users, NEW e \in Topics, MarkRead(u, e) PROVE LocksHold /\ ReadByRecipient
    <3>1. PICK i \in DOMAIN notices[u][e] : notices' = [notices EXCEPT ![u][e][i] = "read"]
      BY <2>2 DEF MarkRead
    <3>2. \A v \in Users, f \in Topics :
            /\ DOMAIN notices'[v][f] = DOMAIN notices[v][f]
            /\ \A j \in DOMAIN notices[v][f] :
                 notices'[v][f][j] # notices[v][f][j] => v = u /\ notices'[v][f][j] = "read"
      BY <2>0, <3>1
    <3>3. context[u] # "none" /\ context'[u] = "none" /\ prefs' = prefs
      BY <2>2 DEF MarkRead, NoticesInv, NoticesTypeOK
    <3> QED  BY <3>2, <3>3 DEF LocksHold, ReadByRecipient
  <2>3. ASSUME NEW u \in Users, NEW inputs \in Bodies, ReplacePreferences(u, inputs)
        PROVE  LocksHold /\ ReadByRecipient
    <3>1. LocksHold
      BY <2>3, ReplaceStep DEF LocksHold
    <3>2. notices' = notices
      BY <2>3 DEF ReplacePreferences
    <3> QED  BY <3>1, <3>2 DEF ReadByRecipient
  <2>4. ASSUME NEW e \in Topics, CreateForRecipient(e) PROVE LocksHold /\ ReadByRecipient
    <3>1. prefs' = prefs
      BY <2>4 DEF CreateForRecipient
    <3>2. emit[e].user \in Users
      BY DEF NoticesInv, NoticesTypeOK, Emission
    <3>3. \A v \in Users, f \in Topics : notices[v][f] # <<>> => notices'[v][f] = notices[v][f]
      BY <2>0, <2>4, <3>2 DEF CreateForRecipient
    <3>4. \A v \in Users, f \in Topics : \A i \in DOMAIN notices[v][f] : notices[v][f] # <<>>
      BY <2>0
    <3> QED  BY <3>1, <3>3, <3>4 DEF LocksHold, ReadByRecipient
  <2>5. ASSUME NEW u \in Users, ChangeUser(u) \/ Authenticate(u) PROVE UNCHANGED <<prefs, notices>>
    BY <2>5 DEF ChangeUser, Authenticate
  <2>6. ASSUME NEW e \in Topics, Emit(e) \/ ListRecipients(e) \/ Emitted(e) \/ EmitFails(e)
        PROVE  UNCHANGED <<prefs, notices>>
    BY <2>6 DEF Emit, ListRecipients, Emitted, EmitFails
  <2>7. ASSUME NEW e \in Topics, NEW u \in Users, ServeRecipient(e, u)
        PROVE  UNCHANGED <<prefs, notices>>
    BY <2>7 DEF ServeRecipient
  <2> QED  BY <2>1, <2>2, <2>3, <2>4, <2>5, <2>6, <2>7 DEF NoticesNext
<1> QED  BY <1>1, NoticesInitInv, NoticesNextInv, PTL DEF NoticesSpec, NobodyElseChanges
=============================================================================
