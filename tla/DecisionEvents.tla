--------------------------- MODULE DecisionEvents --------------------------
(***************************************************************************)
(* What the API does behind a commit: an approval that was requested or    *)
(* decided, and a batch that was imported, are told to users as notices    *)
(* and to other systems as outbox rows.  The hooks that bootstrap wires    *)
(* run in the request, behind its commit and before its answer; what fails *)
(* in them is swallowed, and a process that stops takes them with it.      *)
(***************************************************************************)
EXTENDS FiniteSets, Naturals

CONSTANTS
  Requests,            \* requests to the API
  Approvals, Batches,
  MaxFailures          \* failing statements and stopping processes (bound)

ASSUME DecisionEventsAssumption == MaxFailures \in Nat /\ Approvals \cap Batches = {}

VARIABLES
  task,        \* task[r]: what request r is about to do and to what
  pc,          \* of each request
  pending,     \* follow-ups of r under way
  failed,      \* follow-ups of r that failed (history)
  status,      \* of each approval and batch
  notices, outbox,   \* rows of notifications (one for all recipients) and ecosystem_events
  failures

eventVars == <<task, pc, pending, failed, status, notices, outbox, failures>>

Kinds == {"request", "approved", "rejected", "import"}
Tasks == {t \in [kind : Kinds, on : Approvals \cup Batches] :
            (t.kind = "import") = (t.on \in Batches)}
Verdicts == {"approved", "rejected"}
Imported == {"completed", "quarantined"}

EventsInit ==
  /\ task \in [Requests -> Tasks]
  /\ pc = [r \in Requests |-> "new"]
  /\ pending = [r \in Requests |-> {}] /\ failed = [r \in Requests |-> {}]
  /\ status = [s \in Approvals \cup Batches |-> "none"]
  /\ notices = {} /\ outbox = {} /\ failures = 0

\* A notice or an event: what happened, to what, and the status it reports.
Fact(what, s, as) == [what |-> what, on |-> s, as |-> as]

\* The follow-ups of a commit that left task[r].on in status as.
FollowUps(r, as) ==
  LET s == task[r].on
  IN CASE task[r].kind = "request" ->
            {<<"notice", Fact("requested", s, "pending")>>,
             <<"event", Fact("requested", s, "pending")>>}
       [] task[r].kind \in Verdicts -> {<<"notice", Fact("decided", s, as)>>}
       [] task[r].kind = "import" ->
            {<<"notice", Fact("processed", s, as)>>, <<"event", Fact("processed", s, as)>>}

Commits(r, as) == status' = [status EXCEPT ![task[r].on] = as]

RunHook(r, as) ==
  /\ pc' = [pc EXCEPT ![r] = "hook"]
  /\ pending' = [pending EXCEPT ![r] = FollowUps(r, as)]
  /\ UNCHANGED <<task, failed, notices, outbox, failures>>

\* createPending; one approval of a recommendation is pending at a time.
RequestApproval(r) ==
  /\ pc[r] = "new" /\ task[r].kind = "request"
  /\ status[task[r].on] = "none"
  /\ Commits(r, "pending") /\ RunHook(r, "pending")

\* Fault: the approval is not read again under its lock.
DecideUnlocked(r) ==
  /\ pc[r] = "new" /\ task[r].kind \in Verdicts
  /\ status[task[r].on] # "none"
  /\ Commits(r, task[r].kind)
  /\ pc' = [pc EXCEPT ![r] = "reread"]
  /\ UNCHANGED <<task, pending, failed, notices, outbox, failures>>

\* decide, under the approval's lock.
Decide(r) ==
  /\ pc[r] = "new" /\ task[r].kind \in Verdicts
  /\ status[task[r].on] = "pending"
  /\ Commits(r, task[r].kind)
  /\ pc' = [pc EXCEPT ![r] = "reread"]
  /\ UNCHANGED <<task, pending, failed, notices, outbox, failures>>

\* The recommendation is read again for the answer, before the hook.
Reread(r) == pc[r] = "reread" /\ RunHook(r, task[r].kind) /\ UNCHANGED status

\* The decision stays, the answer is an error, and no hook runs.
RereadFails(r) ==
  /\ pc[r] = "reread" /\ failures < MaxFailures
  /\ failures' = failures + 1
  /\ pc' = [pc EXCEPT ![r] = "error"]
  /\ UNCHANGED <<task, pending, failed, status, notices, outbox>>

Import(r) ==
  /\ pc[r] = "new" /\ task[r].kind = "import"
  /\ status[task[r].on] = "none"
  /\ \E as \in Imported : Commits(r, as) /\ RunHook(r, as)

\* The transaction fails or finds its row in another state: no hook runs.
Refuse(r) ==
  /\ pc[r] = "new"
  /\ pc' = [pc EXCEPT ![r] = "error"]
  /\ UNCHANGED <<task, pending, failed, status, notices, outbox, failures>>

\* emit and enqueue: each row is there once, whoever repeats it.
FollowUp(r, f) ==
  /\ pc[r] = "hook" /\ f \in pending[r]
  /\ notices' = IF f[1] = "notice" THEN notices \cup {f[2]} ELSE notices
  /\ outbox' = IF f[1] = "event" THEN outbox \cup {f[2]} ELSE outbox
  /\ pending' = [pending EXCEPT ![r] = @ \ {f}]
  /\ UNCHANGED <<task, pc, failed, status, failures>>

\* allSettled and runHook: the other one goes on, and nobody is told.
FollowUpFails(r, f) ==
  /\ pc[r] = "hook" /\ f \in pending[r] /\ failures < MaxFailures
  /\ failures' = failures + 1
  /\ failed' = [failed EXCEPT ![r] = @ \cup {f}]
  /\ pending' = [pending EXCEPT ![r] = @ \ {f}]
  /\ UNCHANGED <<task, pc, status, notices, outbox>>

Answer(r) ==
  /\ pc[r] = "hook" /\ pending[r] = {}
  /\ pc' = [pc EXCEPT ![r] = "answered"]
  /\ UNCHANGED <<task, pending, failed, status, notices, outbox, failures>>

\* The process stops behind the commit: nothing repeats what was to follow.
Stop(r) ==
  /\ pc[r] \in {"reread", "hook"} /\ failures < MaxFailures
  /\ failures' = failures + 1
  /\ pc' = [pc EXCEPT ![r] = "stopped"]
  /\ pending' = [pending EXCEPT ![r] = {}]
  /\ UNCHANGED <<task, failed, status, notices, outbox>>

\* The worker expires an approval; it has no hook.
Expire(a) ==
  /\ status[a] = "pending"
  /\ status' = [status EXCEPT ![a] = "expired"]
  /\ UNCHANGED <<task, pc, pending, failed, notices, outbox, failures>>

EventsNext ==
  \/ \E r \in Requests : \/ RequestApproval(r) \/ Decide(r) \/ Import(r) \/ Refuse(r)
                         \/ Reread(r) \/ RereadFails(r) \/ Answer(r) \/ Stop(r)
                         \/ \E f \in pending[r] : FollowUp(r, f) \/ FollowUpFails(r, f)
  \/ \E a \in Approvals : Expire(a)

EventsSpec == EventsInit /\ [][EventsNext]_eventVars
-----------------------------------------------------------------------------
Steps == {"new", "reread", "hook", "answered", "error", "stopped"}

EventsTypeOK ==
  /\ pc \in [Requests -> Steps]
  /\ \A a \in Approvals : status[a] \in {"none", "pending", "expired"} \cup Verdicts
  /\ \A b \in Batches : status[b] \in {"none"} \cup Imported
  /\ \A r \in Requests : pc[r] # "hook" => pending[r] = {}

\* Users and other systems are told what happened: a notice or an event is about a row
\* that was committed, and one decision of an approval is reported, the one it has,
\* however approvals, rejections and the expiry race and hooks lag behind.
TellsWhatHappened ==
  \A x \in notices \cup outbox :
    IF x.what = "requested" THEN status[x.on] # "none" ELSE status[x.on] = x.as

\* "Optional notification and adapter mirrors never make local approval state
\* unavailable" (approvals-service.ts): a request whose transaction was committed is
\* not answered with an error because of what follows it.
MirrorsDoNotFailRequests ==
  \A r \in Requests : pc[r] = "error" => pending[r] = {} /\ failed[r] = {}

\* Nothing is lost behind an answer: when the caller hears of success, each follow-up
\* has been tried to its end, and only a failed one is missing.
TriedBeforeAnswer ==
  \A r \in Requests : pc[r] = "answered" =>
    \A f \in FollowUps(r, IF task[r].kind = "request" THEN "pending" ELSE status[task[r].on]) :
      \/ f \in failed[r]
      \/ f[1] = "notice" /\ f[2] \in notices
      \/ f[1] = "event" /\ f[2] \in outbox

\* Users and other systems are told what happened, and only that, and what follows a
\* commit costs the caller neither the answer nor, when it works, the mirror.
EventsAreHonest ==
  EventsTypeOK /\ TellsWhatHappened /\ MirrorsDoNotFailRequests /\ TriedBeforeAnswer
=============================================================================
