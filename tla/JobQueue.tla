------------------------------ MODULE JobQueue -----------------------------
(***************************************************************************)
(* createRedisJobQueue: enqueue reserves its idempotency key with the id   *)
(* of a new job and then pushes the job, in two commands; whoever finds    *)
(* the key taken reports the job it names.  Calls of one client            *)
(* interleave between commands; a process may stop, a command may fail     *)
(* before or after Redis has run it, and a reservation expires.            *)
(***************************************************************************)
EXTENDS FiniteSets, Naturals, Sequences

CONSTANTS
  Calls,         \* calls of enqueue; the id of a call is the id of its job
  IdempotencyKeys, NoJob,
  MaxLength,     \* jobs the list keeps, 10000
  MaxExpiries, MaxLosses   \* bounds

ASSUME JobQueueAssumption ==
  /\ NoJob \notin Calls
  /\ MaxLength \in Nat \ {0} /\ MaxExpiries \in Nat /\ MaxLosses \in Nat

VARIABLES
  key,           \* key[c]: the idempotency key of call c
  at, answer,    \* what each call is at; answer[c]: the job it reported
  connection,    \* of the client the calls share
  reservation,   \* reservation[k]: the job the key is held for
  list,          \* the list of jobs, newest first
  pushed,        \* jobs that have been in the list (history)
  expired,       \* expired[k]: reservations of k that have run out (history)
  losses

queueVars == <<key, at, answer, connection, reservation, list, pushed, expired, losses>>
redis == <<reservation, list, pushed>>

\* "trim": pushed, lTrim to come.
QueueSteps == {"new", "connect", "get", "set", "reread", "push", "trim", "answered", "threw"}
Running == {"connect", "get", "set", "reread", "push", "trim"}

QueueInit ==
  /\ key \in [Calls -> IdempotencyKeys]
  /\ at = [c \in Calls |-> "new"] /\ answer = [c \in Calls |-> NoJob]
  /\ connection = "none"
  /\ reservation = [k \in IdempotencyKeys |-> NoJob]
  /\ list = <<>> /\ pushed = {}
  /\ expired = [k \in IdempotencyKeys |-> 0] /\ losses = 0

Go(c, next) == at' = [at EXCEPT ![c] = next]
Report(c, job) == Go(c, "answered") /\ answer' = [answer EXCEPT ![c] = job]

\* connect: the first call begins the connection, later ones wait for it.
Connect(c) ==
  /\ at[c] = "new"
  /\ \/ connection = "closed" /\ Go(c, "threw") /\ UNCHANGED connection
     \/ connection = "none" /\ Go(c, "connect") /\ connection' = "connecting"
     \/ connection = "connecting" /\ Go(c, "connect") /\ UNCHANGED connection
     \/ connection = "connected" /\ Go(c, "get") /\ UNCHANGED connection
  /\ UNCHANGED <<key, answer, redis, expired, losses>>

\* The connection is there, or the next call has to try again.
ConnectEnds(ok) ==
  /\ connection = "connecting"
  /\ IF ok THEN losses' = losses ELSE losses < MaxLosses /\ losses' = losses + 1
  /\ connection' = IF ok THEN "connected" ELSE "none"
  /\ at' = [c \in Calls |-> IF at[c] = "connect" THEN (IF ok THEN "get" ELSE "threw")
                            ELSE at[c]]
  /\ UNCHANGED <<key, answer, redis, expired>>

ReadKey(c) ==
  /\ at[c] = "get"
  /\ IF reservation[key[c]] # NoJob
     THEN Report(c, reservation[key[c]])
     ELSE Go(c, "set") /\ UNCHANGED answer
  /\ UNCHANGED <<key, connection, redis, expired, losses>>

\* SET NX EX.
Reserve(c) ==
  /\ at[c] = "set"
  /\ IF reservation[key[c]] = NoJob
     THEN reservation' = [reservation EXCEPT ![key[c]] = c] /\ Go(c, "push")
     ELSE Go(c, "reread") /\ UNCHANGED reservation
  /\ UNCHANGED <<key, answer, connection, list, pushed, expired, losses>>

Reread(c) ==
  /\ at[c] = "reread"
  /\ IF reservation[key[c]] # NoJob
     THEN Report(c, reservation[key[c]])
     ELSE Go(c, "threw") /\ UNCHANGED answer
  /\ UNCHANGED <<key, connection, redis, expired, losses>>

Push(c) ==
  /\ at[c] = "push"
  /\ list' = <<c>> \o list /\ pushed' = pushed \cup {c}
  /\ Go(c, "trim")
  /\ UNCHANGED <<key, answer, connection, reservation, expired, losses>>

\* lTrim drops the oldest.
Trim(c) ==
  /\ at[c] = "trim"
  /\ list' = SubSeq(list, 1, IF Len(list) > MaxLength THEN MaxLength ELSE Len(list))
  /\ Report(c, c)
  /\ UNCHANGED <<key, connection, reservation, pushed, expired, losses>>

\* The process of a call stops, or the connection is lost on the way to Redis: the
\* command has not run.
Fail(c) ==
  /\ at[c] \in Running \ {"connect"} /\ losses < MaxLosses
  /\ losses' = losses + 1
  /\ Go(c, "threw")
  /\ UNCHANGED <<key, answer, connection, redis, expired>>

\* The command has run and its reply is lost.
FailBehind(c) ==
  /\ losses < MaxLosses /\ losses' = losses + 1
  /\ Go(c, "threw")
  /\ \/ /\ at[c] = "set" /\ reservation[key[c]] = NoJob
        /\ reservation' = [reservation EXCEPT ![key[c]] = c]
        /\ UNCHANGED <<list, pushed>>
     \/ /\ at[c] = "push"
        /\ list' = <<c>> \o list /\ pushed' = pushed \cup {c}
        /\ UNCHANGED reservation
  /\ UNCHANGED <<key, answer, connection, expired>>

Expire(k) ==
  /\ reservation[k] # NoJob /\ expired[k] < MaxExpiries
  /\ reservation' = [reservation EXCEPT ![k] = NoJob]
  /\ expired' = [expired EXCEPT ![k] = @ + 1]
  /\ UNCHANGED <<key, at, answer, connection, list, pushed, losses>>

\* close: later calls are refused, those that wait for the connection fail with it.
CloseQueue ==
  /\ connection # "closed"
  /\ connection' = "closed"
  /\ at' = [c \in Calls |-> IF at[c] = "connect" THEN "threw" ELSE at[c]]
  /\ UNCHANGED <<key, answer, redis, expired, losses>>

QueueNext == \/ \E c \in Calls : \/ Connect(c) \/ ReadKey(c) \/ Reserve(c) \/ Reread(c)
                            \/ Push(c) \/ Trim(c) \/ Fail(c) \/ FailBehind(c)
        \/ \E ok \in BOOLEAN : ConnectEnds(ok)
        \/ \E k \in IdempotencyKeys : Expire(k)
        \/ CloseQueue

QueueSpec == QueueInit /\ [][QueueNext]_queueVars
-----------------------------------------------------------------------------
QueueTypeOK ==
  /\ at \in [Calls -> QueueSteps] /\ answer \in [Calls -> Calls \cup {NoJob}]
  /\ connection \in {"none", "connecting", "connected", "closed"}
  /\ reservation \in [IdempotencyKeys -> Calls \cup {NoJob}]
  /\ list \in Seq(Calls) /\ pushed \subseteq Calls

CallsFor(k) == {c \in Calls : key[c] = k}

\* A key stands for one job until its reservation runs out, whatever calls, retries and
\* failures there are: no more jobs are pushed under it than it was reserved times.
PushedOnce ==
  \A k \in IdempotencyKeys : Cardinality(pushed \cap CallsFor(k)) <= 1 + expired[k]

\* All calls with one key are told the same job until the reservation runs out, those
\* that lost the race for it included.
OneAnswer ==
  \A k \in IdempotencyKeys :
    Cardinality({answer[c] : c \in {d \in CallsFor(k) : answer[d] # NoJob}}) <= 1 + expired[k]

\* The list is trimmed: it is longer than its limit only by jobs whose enqueue is
\* between push and trim, or failed there.
ListBounded ==
  Len(list) <= MaxLength + Cardinality({c \in Calls : at[c] = "trim"}) + losses
=============================================================================
