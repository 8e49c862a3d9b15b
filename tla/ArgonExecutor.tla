---------------------------- MODULE ArgonExecutor --------------------------
(***************************************************************************)
(* createArgonExecutor: the password hashes of the process run at most     *)
(* `concurrency` at a time, `queueLimit` more wait, the rest is refused.   *)
(* An operation answers its caller in one microtask and gives its place    *)
(* back in a later one, so a caller, or close, may come in between.        *)
(***************************************************************************)
EXTENDS Integers, Sequences, FiniteSets

CONSTANTS
  Operations,     \* calls of run
  concurrency,    \* at most MAX_ARGON_CONCURRENCY
  queueLimit      \* at most MAX_ARGON_QUEUE_LIMIT

\* validateBounds.
ASSUME ArgonAssumption ==
  /\ concurrency \in 1 .. 2 /\ queueLimit \in 0 .. 32
  /\ IsFiniteSet(Operations)

VARIABLES
  place,       \* place[o]: where operation o is
  answered,    \* operations whose promise is settled, whatever with
  active, queue, closed,
  accepted,    \* operations started or queued, in order (history)
  begun        \* operations started, in order (history)

vars == <<place, answered, active, queue, closed, accepted, begun>>

\* "settled": answered, its finally still to come.
Places == {"new", "queued", "started", "settled", "left"}

Init ==
  /\ place = [o \in Operations |-> "new"]
  /\ answered = {}
  /\ active = 0 /\ queue = <<>> /\ closed = FALSE
  /\ accepted = <<>> /\ begun = <<>>

Refuse(o) ==
  /\ place' = [place EXCEPT ![o] = "left"]
  /\ answered' = answered \cup {o}
  /\ UNCHANGED <<active, queue, accepted, begun>>

Start(o) ==
  /\ active' = active + 1
  /\ place' = [place EXCEPT ![o] = "started"]
  /\ begun' = Append(begun, o) /\ accepted' = Append(accepted, o)
  /\ UNCHANGED <<answered, queue>>

Enqueue(o) ==
  /\ queue' = Append(queue, o) /\ accepted' = Append(accepted, o)
  /\ place' = [place EXCEPT ![o] = "queued"]
  /\ UNCHANGED <<answered, active, begun>>

\* schedule, all of it in the tick of the call of run.
Schedule(o) ==
  /\ place[o] = "new"
  /\ \/ closed /\ Refuse(o)
     \/ ~closed /\ active < concurrency /\ Start(o)
     \/ ~closed /\ active >= concurrency /\ Len(queue) >= queueLimit /\ Refuse(o)
     \/ ~closed /\ active >= concurrency /\ Len(queue) < queueLimit /\ Enqueue(o)
  /\ UNCHANGED closed

\* The operation ends: resolve, or reject without its reason.
Settle(o) ==
  /\ place[o] = "started"
  /\ place' = [place EXCEPT ![o] = "settled"]
  /\ answered' = answered \cup {o}
  /\ UNCHANGED <<active, queue, closed, accepted, begun>>

\* Fault: the place is given back and nobody is called in.
LeaveWithoutDrain(o) ==
  /\ place[o] = "settled"
  /\ place' = [place EXCEPT ![o] = "left"]
  /\ active' = active - 1
  /\ UNCHANGED <<answered, queue, closed, accepted, begun>>

\* finally: the place is given back and drain starts the head of the queue; active
\* is at most concurrency, so its loop starts at most one.
Leave(o) ==
  /\ place[o] = "settled"
  /\ IF ~closed /\ queue # <<>>
     THEN /\ place' = [place EXCEPT ![o] = "left", ![Head(queue)] = "started"]
          /\ queue' = Tail(queue)
          /\ begun' = Append(begun, Head(queue))
          /\ active' = active
     ELSE /\ place' = [place EXCEPT ![o] = "left"]
          /\ active' = active - 1
          /\ UNCHANGED <<queue, begun>>
  /\ UNCHANGED <<answered, closed, accepted>>

\* closeExecutor; what has started goes on to its end.
Close ==
  /\ ~closed
  /\ closed' = TRUE
  /\ queue' = <<>>
  /\ place' = [o \in Operations |-> IF place[o] = "queued" THEN "left" ELSE place[o]]
  /\ answered' = answered \cup {o \in Operations : place[o] = "queued"}
  /\ UNCHANGED <<active, accepted, begun>>

Next == \/ \E o \in Operations : Schedule(o) \/ Settle(o) \/ Leave(o)
        \/ Close

\* A hash ends and a microtask runs; nobody has to close.
Spec == /\ Init /\ [][Next]_vars
        /\ \A o \in Operations : WF_vars(Settle(o)) /\ WF_vars(Leave(o))
-----------------------------------------------------------------------------
TypeOK ==
  /\ place \in [Operations -> Places] /\ answered \subseteq Operations
  /\ active \in Nat /\ queue \in Seq(Operations) /\ closed \in BOOLEAN
  /\ accepted \in Seq(Operations) /\ begun \in Seq(Operations)

\* Operations that hold a place.
Holding == {o \in Operations : place[o] \in {"started", "settled"}}

\* The memory the hashes of the process take is bounded: active counts exactly the
\* operations that hold a place, never more than concurrency, and no more than
\* queueLimit wait behind them.
Bounded ==
  /\ active = Cardinality(Holding) /\ active <= concurrency
  /\ Len(queue) <= queueLimit

\* drain is never forgotten: nobody waits for a place that is free.
NobodyWaitsForAFreePlace == queue # <<>> => active >= concurrency

\* First come, first served, also for a call of run that comes between the answer of
\* an operation and its finally: operations start in the order they were accepted.
NoOvertaking ==
  /\ Len(begun) <= Len(accepted)
  /\ begun = SubSeq(accepted, 1, Len(begun))

\* The executor keeps its bounds, uses its places and is fair.
HashesAreBoundedAndFair == TypeOK /\ Bounded /\ NobodyWaitsForAFreePlace /\ NoOvertaking

\* Whoever was accepted is answered, also when close comes while they wait.
AllAnswered == \A o \in Operations : (place[o] # "new") ~> (o \in answered)
=============================================================================
