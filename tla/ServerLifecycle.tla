-------------------------- MODULE ServerLifecycle ---------------------------
(***************************************************************************)
(* The API process from start to exit: bootstrap acquires the resources in *)
(* order, builds the application and listens; a failure anywhere closes    *)
(* what was acquired; SIGINT or SIGTERM close the application, which waits *)
(* for the requests in flight and runs its onClose hooks, and then the     *)
(* resources in their order, each attempted whatever the others did.       *)
(***************************************************************************)
EXTENDS FiniteSets, Naturals, Sequences

CONSTANTS
  Requests,      \* requests the server may have in flight together
  MaxSignals,    \* signals delivered (bound)
  MaxFailures    \* acquisitions, closers and log writes that fail (bound)

ASSUME ServerLifecycleAssumption == MaxSignals \in Nat /\ MaxFailures \in Nat

VARIABLES
  selfRegistration,  \* configuration: the registration limiter is acquired too
  step,              \* bootstrap's next step, an index of Steps
  phase,             \* of the process
  open,              \* resources acquired and not closed
  initialized,       \* the set bootstrap hands to the closer
  closer,            \* the resources whose closers are left to attempt
  attempts,          \* attempts[r]: times the closer of r was attempted
  inFlight,          \* requests whose handler runs
  failed,            \* something failed while closing
  handlers,          \* signals with a handler
  exitCode,
  signals, failures

serverVars == <<selfRegistration, step, phase, open, initialized, closer, attempts, inFlight,
                failed, handlers, exitCode, signals, failures>>
bounds == <<signals, failures>>

\* bootstrap, with createSessionDependencies in the place of createAuthentication.
Steps == <<"environment", "logger", "database", "registrationLimiter", "usersLimiter",
           "argonExecutor", "sessionLimiter", "dummyHash", "objectStore", "app", "listen",
           "announce">>
Resources == {"environment", "logger", "database", "registrationLimiter", "usersLimiter",
              "argonExecutor", "sessionLimiter", "objectStore", "app"}
Session == {"argonExecutor", "sessionLimiter"}

\* The application, and closeOrder behind it; jobQueue and duckdbAnalytics have closers
\* too, but the API never acquires them.
CloseOrder == <<"app", "usersLimiter", "registrationLimiter", "database", "objectStore",
                "environment", "logger">>

\* What a handler uses.
Used == {"database", "usersLimiter", "objectStore", "argonExecutor", "sessionLimiter"}

Signals == {"SIGINT", "SIGTERM"}
Phases == {"bootstrap", "running", "closing_failed", "closing", "exited", "killed"}

ServerInit ==
  /\ selfRegistration \in BOOLEAN
  /\ step = 1 /\ phase = "bootstrap"
  /\ open = {} /\ initialized = {} /\ closer = {}
  /\ attempts = [r \in Resources |-> 0]
  /\ inFlight = {} /\ failed = FALSE /\ handlers = {} /\ exitCode = 0
  /\ signals = 0 /\ failures = 0

Wanted(r) == r = "registrationLimiter" => selfRegistration

\* What was initialized, and the application when it was built.
ClosersOf(names, appBuilt) == IF appBuilt THEN {"app"} \cup names ELSE names

\* r is the first of the closers left, in their order.
FirstCloser(r) ==
  \E i \in DOMAIN CloseOrder :
    /\ r = CloseOrder[i] /\ r \in closer
    /\ \A j \in 1 .. i - 1 : CloseOrder[j] \notin closer

Acquire ==
  /\ phase = "bootstrap"
  /\ LET r == Steps[step]
     IN /\ open' = IF r \in Resources /\ Wanted(r) THEN open \cup {r} ELSE open
        /\ initialized' = IF r \in Resources \ (Session \cup {"app"}) /\ Wanted(r)
                          THEN initialized \cup {r} ELSE initialized
  /\ IF step = Len(Steps)
     THEN phase' = "running" /\ step' = step /\ handlers' = Signals
     ELSE step' = step + 1 /\ UNCHANGED <<phase, handlers>>
  /\ UNCHANGED <<selfRegistration, closer, attempts, inFlight, failed, exitCode, bounds>>

\* A step of bootstrap throws.  Sessions are closed by createSessionDependencies
\* itself, or by closeUnboundAuth as long as no application owns them.
StartFails ==
  /\ phase = "bootstrap" /\ failures < MaxFailures /\ Wanted(Steps[step])
  /\ failures' = failures + 1
  /\ phase' = "closing_failed"
  /\ open' = IF "app" \in open THEN open ELSE open \ Session
  /\ closer' = ClosersOf(initialized, "app" \in open)
  /\ UNCHANGED <<selfRegistration, step, initialized, attempts, inFlight, failed, handlers,
                 exitCode, signals>>

\* The server accepts requests from listen on, before bootstrap has announced it.
Accept(q) ==
  /\ phase \in {"bootstrap", "running"} /\ Steps[step] = "announce" /\ "app" \in open
  /\ q \notin inFlight
  /\ inFlight' = inFlight \cup {q}
  /\ UNCHANGED <<selfRegistration, step, phase, open, initialized, closer, attempts, failed,
                 handlers, exitCode, bounds>>

Finish(q) ==
  /\ q \in inFlight /\ phase # "killed"
  /\ inFlight' = inFlight \ {q}
  /\ UNCHANGED <<selfRegistration, step, phase, open, initialized, closer, attempts, failed,
                 handlers, exitCode, bounds>>

\* The handlers of the two signals, each installed with once, share one shutdown.  A
\* signal without a handler kills the process: before start is over, in the closing
\* of a failed start, and when one signal is delivered twice.
Signal(sig) ==
  /\ signals < MaxSignals /\ phase \notin {"exited", "killed"}
  /\ signals' = signals + 1
  /\ \/ /\ sig \notin handlers
        /\ phase' = "killed" /\ inFlight' = {}
        /\ UNCHANGED <<closer, handlers>>
     \/ /\ sig \in handlers
        /\ handlers' = handlers \ {sig}
        /\ phase' = "closing"
        /\ closer' = IF phase = "running" THEN ClosersOf(initialized, TRUE) ELSE closer
        /\ UNCHANGED inFlight
  /\ UNCHANGED <<selfRegistration, step, open, initialized, attempts, failed, exitCode, failures>>

\* The application's onClose hooks close the executor and the limiters.  That of the sessions
\* is assumed to be registered once the application is built (plugins/auth.ts).
ClosedWith(r) ==
  IF r = "app" THEN {"app", "usersLimiter", "registrationLimiter"} \cup Session ELSE {r}

\* closeRuntime: the application first, whose close waits for the requests in flight
\* and then closes the sessions' executor and limiter; then each resource.  A closer
\* that throws has still been attempted.
CloseResource ==
  /\ phase \in {"closing", "closing_failed"}
  /\ \E r \in Resources :
        /\ FirstCloser(r)
        /\ r = "app" => inFlight = {}
        /\ open' = open \ ClosedWith(r)
        /\ attempts' = [attempts EXCEPT ![r] = @ + 1]
        /\ closer' = closer \ {r}
  /\ \/ UNCHANGED <<failed, failures>>
     \/ failures < MaxFailures /\ failures' = failures + 1 /\ failed' = TRUE
  /\ UNCHANGED <<selfRegistration, step, phase, initialized, inFlight, handlers, exitCode,
                 signals>>

\* Nothing keeps the event loop alive any more.
Exit ==
  /\ phase \in {"closing", "closing_failed"} /\ closer = {}
  /\ phase' = "exited"
  /\ exitCode' = IF phase = "closing_failed" \/ failed THEN 1 ELSE 0
  /\ UNCHANGED <<selfRegistration, step, open, initialized, closer, attempts, inFlight, failed,
                 handlers, bounds>>

ServerNext == \/ Acquire \/ StartFails \/ CloseResource \/ Exit
        \/ \E sig \in Signals : Signal(sig)
        \/ \E q \in Requests : Accept(q) \/ Finish(q)

\* Calls return, handlers end; signals and failures are never due.
ServerSpec == /\ ServerInit /\ [][ServerNext]_serverVars
        /\ WF_serverVars(Acquire) /\ WF_serverVars(CloseResource) /\ WF_serverVars(Exit)
        /\ \A q \in Requests : WF_serverVars(Finish(q))
-----------------------------------------------------------------------------
ServerTypeOK ==
  /\ step \in 1 .. Len(Steps) /\ phase \in Phases
  /\ open \subseteq Resources /\ initialized \subseteq Resources
  /\ inFlight \subseteq Requests
  /\ failed \in BOOLEAN /\ handlers \subseteq Signals /\ exitCode \in {0, 1}

\* Whatever step of start or shutdown failed, every resource that had been acquired
\* has been closed, or its closer attempted, when the process ends by itself.
NothingLeftOpen == phase = "exited" => open = {}

\* A handler never runs on a resource that has been closed under it: the database,
\* the limiters, the executor and the object store outlive the requests.
HandlersHaveResources == inFlight # {} => Used \subseteq open

\* However many signals arrive, each closer is attempted once.
ClosedOnce == \A r \in Resources : attempts[r] <= 1

\* A process that could not start, or not close everything, says so as it exits.
FailuresShow == phase = "exited" =>
  (exitCode = 0) = (signals > 0 /\ ~failed)

\* A signal ends the process, whatever is in flight and whatever fails on the way.
SignalsEnd == (signals > 0) ~> (phase \in {"exited", "killed"})

\* All of the invariants of a start and a shutdown.
ServerIsSafe == ServerTypeOK /\ NothingLeftOpen /\ HandlersHaveResources /\ ClosedOnce /\ FailuresShow
=============================================================================
