------------------------------ MODULE PriceTables ------------------------------
(***************************************************************************)
(* Price tables (core/price-tables): a table is created as a draft and      *)
(* activated.  Activation reads the table, compares its period with the     *)
(* clock, and updates the status in a statement of its own, whose trigger    *)
(* (migration 0012) takes an advisory lock and refuses a period that         *)
(* overlaps that of another active table.                                   *)
(***************************************************************************)
EXTENDS Integers

CONSTANTS
    Tables,       \* price table versions of a tenant
    Instruments,  \* pairs of a provider and an instrument
    Instrument,   \* Instrument[t]
    Label,        \* Label[t]: the version label; the checksum is as unique
    From, To,     \* From[t], To[t]: effective period; To[t] > LastDay if null
    Requests,     \* requests of administrators under way
    Nobody,       \* nobody holds the lock
    StaleDays,    \* PRICE_TABLE_STALE_DAYS
    LastDay,      \* bound of the clock
    CallsFail     \* whether calls fail

ASSUME PriceTablesAssumption ==
    /\ Instrument \in [Tables -> Instruments]
    /\ From \in [Tables -> Int] /\ To \in [Tables -> Int]
    /\ \A t \in Tables : From[t] <= To[t]
    /\ Nobody \notin Requests
    /\ StaleDays \in Nat /\ LastDay \in Nat
    /\ CallsFail \in BOOLEAN

VARIABLES
    tables,    \* tables[t]: the status of t, "none" before the table is created
    day,       \* the clock, in days
    rowLock,   \* rowLock[t]: request whose UPDATE holds the row of t
    advisory,  \* advisory[i]: request that holds the advisory lock of i
    request    \* request[q]: the activation q works on

pricesVars == <<tables, day, rowLock, advisory, request>>

-----------------------------------------------------------------------------
Statuses == {"none", "draft", "active", "superseded", "blocked"}

\* pc: where activatePriceTable is; "advisory" is inside the trigger.
Request == [pc : {"idle", "get", "decide", "block", "activate", "advisory", "commit",
                  "read", "answered"},
            table : Tables,
            target : {"active", "blocked"},
            late : BOOLEAN,  \* history: the table was stale when q came in
            answer : {"pending", "activated", "not found", "stale", "unavailable"}]

PricesTypeOK ==
    /\ tables \in [Tables -> Statuses]
    /\ day \in 0 .. LastDay
    /\ rowLock \in [Tables -> Requests \cup {Nobody}]
    /\ advisory \in [Instruments -> Requests \cup {Nobody}]
    /\ request \in [Requests -> Request]

PricesInit ==
    /\ tables = [t \in Tables |-> "none"]
    /\ day = 0
    /\ rowLock = [t \in Tables |-> Nobody]
    /\ advisory = [i \in Instruments |-> Nobody]
    /\ \E t \in Tables :
        request = [q \in Requests |-> [pc |-> "idle", table |-> t, target |-> "active",
                                       late |-> FALSE, answer |-> "pending"]]

Table(q) == request[q].table

\* isStale: the period began more than StaleDays before today.
IsStale(t) == From[t] < day - StaleDays

\* The two comparisons of the trigger: the periods have a day in common.
Overlap(t, u) == From[u] <= To[t] /\ From[t] <= To[u]

\* An active table whose period overlaps that of t, as committed.
Taken(t) ==
    \E u \in Tables \ {t} :
        Instrument[u] = Instrument[t] /\ tables[u] = "active" /\ Overlap(t, u)

\* The transitions the trigger allows.
Legal(old, new) ==
    \/ old = "draft" /\ new \in {"active", "blocked"}
    \/ old = "active" /\ new \in {"superseded", "blocked"}

Go(q, pc) == request' = [request EXCEPT ![q].pc = pc]

Answer(q, answer) == request' = [request EXCEPT ![q].pc = "answered", ![q].answer = answer]

\* The end of the statement, by commit or by rollback, releases its locks.
Release(q) ==
    /\ rowLock' = [t \in Tables |-> IF rowLock[t] = q THEN Nobody ELSE rowLock[t]]
    /\ advisory' = [i \in Instruments |-> IF advisory[i] = q THEN Nobody ELSE advisory[i]]

-----------------------------------------------------------------------------
\* create: version and items in one transaction; a label, or a checksum, that
\* the instrument already has fails it.
Create(t) ==
    /\ tables[t] = "none"
    /\ \A u \in Tables : Instrument[u] = Instrument[t] /\ Label[u] = Label[t] => tables[u] = "none"
    /\ tables' = [tables EXCEPT ![t] = "draft"]
    /\ UNCHANGED <<day, rowLock, advisory, request>>

\* POST /api/price-tables/:id/activate
Receive(q, t) ==
    /\ request[q].pc = "idle"
    /\ request' = [request EXCEPT ![q].pc = "get", ![q].table = t, ![q].late = IsStale(t)]
    /\ UNCHANGED <<tables, day, rowLock, advisory>>

\* repository.get
Get(q) ==
    /\ request[q].pc = "get"
    /\ IF tables[Table(q)] = "none" THEN Answer(q, "not found") ELSE Go(q, "decide")
    /\ UNCHANGED <<tables, day, rowLock, advisory>>

\* Fault: the staleness of a draft alone is looked at, a day late.
DecideLate(q) ==
    /\ request[q].pc = "decide"
    /\ request' = IF From[Table(q)] < day - StaleDays - 1
           THEN [request EXCEPT ![q].pc = "block", ![q].target = "blocked"]
           ELSE [request EXCEPT ![q].pc = "activate", ![q].target = "active"]
    /\ UNCHANGED <<tables, day, rowLock, advisory>>

\* isStale(existing.effectiveFrom, staleDays, clock())
Decide(q) ==
    /\ request[q].pc = "decide"
    /\ request' = IF IsStale(Table(q))
           THEN [request EXCEPT ![q].pc = "block", ![q].target = "blocked"]
           ELSE [request EXCEPT ![q].pc = "activate", ![q].target = "active"]
    /\ UNCHANGED <<tables, day, rowLock, advisory>>

\* The UPDATE takes the row, waiting for another's, and runs the trigger as far
\* as the advisory lock.
UpdateRow(q) ==
    /\ request[q].pc \in {"block", "activate"}
    /\ rowLock[Table(q)] = Nobody
    /\ IF ~Legal(tables[Table(q)], request[q].target)
         THEN Answer(q, "unavailable") /\ UNCHANGED rowLock
         ELSE /\ rowLock' = [rowLock EXCEPT ![Table(q)] = q]
              /\ Go(q, IF request[q].target = "active" THEN "advisory" ELSE "commit")
    /\ UNCHANGED <<tables, day, advisory>>

\* Fault: the overlap is looked for without the lock.
LookOnly(q) ==
    /\ request[q].pc = "advisory"
    /\ IF Taken(Table(q))
         THEN Answer(q, "unavailable") /\ Release(q)
         ELSE Go(q, "commit") /\ UNCHANGED <<rowLock, advisory>>
    /\ UNCHANGED <<tables, day>>

\* pg_advisory_xact_lock, then the EXISTS with a snapshot of its own.
LockInstrument(q) ==
    /\ request[q].pc = "advisory"
    /\ advisory[Instrument[Table(q)]] = Nobody
    /\ IF Taken(Table(q))
         THEN Answer(q, "unavailable") /\ Release(q)
         ELSE /\ advisory' = [advisory EXCEPT ![Instrument[Table(q)]] = q]
              /\ Go(q, "commit") /\ UNCHANGED rowLock
    /\ UNCHANGED <<tables, day>>

\* The statement commits; its answer may be lost.
Commit(q) ==
    /\ request[q].pc = "commit"
    /\ tables' = [tables EXCEPT ![Table(q)] = request[q].target]
    /\ Release(q)
    /\ Go(q, "read") \/ (CallsFail /\ Answer(q, "unavailable"))
    /\ UNCHANGED day

\* getWithPool reads the table again for the answer.
Read(q) ==
    /\ request[q].pc = "read"
    /\ Answer(q, IF request[q].target = "active" THEN "activated" ELSE "stale")
    /\ UNCHANGED <<tables, day, rowLock, advisory>>

\* A query fails or its connection is lost: safe() answers 503.
Fail(q) ==
    /\ CallsFail
    /\ request[q].pc \in {"get", "block", "activate", "advisory", "commit", "read"}
    /\ Answer(q, "unavailable")
    /\ Release(q)
    /\ UNCHANGED <<tables, day>>

NextDay ==
    /\ day < LastDay
    /\ day' = day + 1
    /\ UNCHANGED <<tables, rowLock, advisory, request>>

RequestStep(q) == Get(q) \/ Decide(q) \/ UpdateRow(q) \/ LockInstrument(q) \/ Commit(q) \/ Read(q)

PricesNext ==
    \/ \E t \in Tables : Create(t)
    \/ \E q \in Requests : (\E t \in Tables : Receive(q, t)) \/ RequestStep(q) \/ Fail(q)
    \/ NextDay

PricesSpec == PricesInit /\ [][PricesNext]_pricesVars

\* Calls return, and lock queues are first come, first served.
PricesFairSpec ==
    /\ PricesSpec
    /\ \A q \in Requests :
        /\ WF_pricesVars(Get(q) \/ Decide(q) \/ Commit(q) \/ Read(q))
        /\ SF_pricesVars(UpdateRow(q)) /\ SF_pricesVars(LockInstrument(q))

-----------------------------------------------------------------------------
(* Properties *)

\* No two active tables of an instrument are in force on the same day,
\* whatever is activated at the same time (trigger of migration 0012).
NoOverlap ==
    \A t \in Tables : tables[t] = "active" =>
        ~ \E u \in Tables \ {t} : /\ Instrument[u] = Instrument[t] /\ tables[u] = "active"
                                  /\ From[u] <= To[t] /\ From[t] <= To[u]

\* An answer tells what was done: of the requests for one table at most one is
\* answered as having activated it, and a table answered as stale is blocked.
AnswersHold ==
    \A q \in Requests :
        /\ request[q].answer = "activated" =>
            /\ tables[Table(q)] \notin {"none", "draft"}
            /\ \A p \in Requests \ {q} :
                ~(Table(p) = Table(q) /\ request[p].answer = "activated")
        /\ request[q].answer = "stale" => tables[Table(q)] = "blocked"

\* No day has two prices, and a request is told what was done with its table.
PricesAreUnambiguous == PricesTypeOK /\ NoOverlap /\ AnswersHold

\* A table that is stale when its activation is asked for does not become
\* active: the clock read later (activatePriceTable) never makes it fresh.
StaleStaysOut ==
    \A q \in Requests :
        /\ tables[Table(q)] # "active" /\ tables'[Table(q)] = "active"
        /\ rowLock[Table(q)] = q
        => ~request[q].late

StaleTablesStayOut == [][StaleStaysOut]_pricesVars

\* Every request is answered: the row and the instrument are always locked in
\* this order, and both are released with the statement.
RequestsEnd ==
    \A q \in Requests : request[q].pc = "get" ~> request[q].pc = "answered"
=============================================================================
