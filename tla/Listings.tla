------------------------------ MODULE Listings -----------------------------
(***************************************************************************)
(* The listings of the API: rows of a tenant newest first, filtered, in    *)
(* pages that a cursor joins.  Rows appear while a client walks the pages: *)
(* a row's time is that of its transaction's begin, so it may become       *)
(* visible behind rows that are newer than it.  A walk goes over one       *)
(* listing with some of its filters set; of a row only its key, and which  *)
(* of the set filters it fits, is kept.                                    *)
(***************************************************************************)
EXTENDS FiniteSets, Integers, Sequences

CONSTANTS
  Rows,        \* ids of rows, ordered as uuids are
  Limits,      \* limits a client asks for
  MaxMicros, MaxWanted, MaxUpdates   \* bounds

ASSUME ListingsAssumption ==
  /\ Rows \subseteq Nat /\ IsFiniteSet(Rows) /\ Limits \subseteq Nat \ {0}
  /\ MaxMicros \in Nat \ {0} /\ {MaxWanted, MaxUpdates} \subseteq Nat

VARIABLES
  listing, wanted,   \* the walk's listing and the filters it sets
  micros,            \* microseconds
  at,                \* at[r]: created_at of r, 0 before its transaction began
  visible,           \* rows committed
  fits,              \* fits[r]: the wanted filters r fits
  updates,
  walk,              \* "new", "walking" or "over"
  cursor,            \* boundary of the next page, <<>> for none
  seen,              \* ids returned, in order
  steady             \* rows listed at the walk's begin that have fitted since (history)

listingVars == <<listing, wanted, micros, at, visible, fits, updates, walk, cursor, seen, steady>>
table == <<micros, at, visible, fits, updates>>
walked == <<walk, cursor, seen>>

Paged(columns) == [filters |-> columns, paged |-> TRUE]
Unpaged(columns) == [filters |-> columns, paged |-> FALSE]

\* Where each listing filters; approvals go by requested_at, the others by created_at.
AuditLog == Paged({"action", "actor_type", "entity_type", "entity_id"})
Scenarios == Paged({"status"})
PriceTables == Paged({"provider", "instrument", "status"})
CloudAccounts == Paged({"provider", "is_active"})
UserAccounts == Paged({})
ApiKeys == Paged({})
ForecastModels == Paged({"status", "method"})
ForecastRuns == Paged({"status", "forecast_model_id"})
OptimizerPolicies == Paged({"status"})
Approvals == Paged({"status", "assigned_to_user_id", "recommendation_id"})
Notifications == Paged({"status", "event_type"})
Imports == Paged({"source", "format", "status", "cloud_account_id"})
Recommendations ==
  Paged({"status", "risk_band", "provider", "instrument", "optimizer_run_id"})
OptimizerRuns == Unpaged({"status"})
Backtests == Unpaged({"status", "baseline", "policy_id"})

AllListings == {AuditLog, Scenarios, PriceTables, CloudAccounts, UserAccounts, ForecastModels,
                ForecastRuns, Approvals, Notifications, Imports, Recommendations,
                OptimizerRuns, Backtests, ApiKeys, OptimizerPolicies}

\* Columns an update may change once the row is there.
Mutable == {"status", "is_active"}

ListingsInit ==
  /\ listing \in AllListings
  /\ wanted \in {w \in SUBSET listing.filters : Cardinality(w) <= MaxWanted}
  /\ micros = 1
  /\ at = [r \in Rows |-> 0] /\ visible = {}
  /\ fits \in [Rows -> {wanted, {}}]
  /\ updates = 0
  /\ walk = "new" /\ cursor = <<>> /\ seen = <<>> /\ steady = {}

Begin(r) ==
  /\ at[r] = 0
  /\ at' = [at EXCEPT ![r] = micros]
  /\ UNCHANGED <<listing, wanted, micros, visible, fits, updates, walked, steady>>

Commit(r) ==
  /\ at[r] # 0 /\ r \notin visible
  /\ visible' = visible \cup {r}
  /\ UNCHANGED <<listing, wanted, micros, at, fits, updates, walked, steady>>

\* A mutable column of r takes or leaves the value a filter wants.
Change(r) ==
  /\ r \in visible /\ updates < MaxUpdates
  /\ \E column \in wanted \cap Mutable :
       fits' = [fits EXCEPT ![r] = (fits[r] \ {column}) \cup ({column} \ fits[r])]
  /\ steady' = IF fits'[r] = wanted THEN steady ELSE steady \ {r}
  /\ updates' = updates + 1
  /\ UNCHANGED <<listing, wanted, micros, at, visible, walked>>

ListingTick ==
  /\ micros < MaxMicros
  /\ micros' = micros + 1
  /\ UNCHANGED <<listing, wanted, at, visible, fits, updates, walked, steady>>

\* Fault: the cursor passes through a Date, which has milliseconds (here two ticks).
BoundaryInMilliseconds(r) == <<2 * (at[r] \div 2), r>>

\* What a cursor says of the last row of a page: its time, in microseconds, and id.
Boundary(r) == <<at[r], r>>

\* (created_at, id) < boundary
Behind(r, boundary) ==
  \/ boundary = <<>>
  \/ at[r] < boundary[1]
  \/ at[r] = boundary[1] /\ r < boundary[2]

\* ORDER BY created_at DESC, id DESC
Newer(r, s) == at[r] > at[s] \/ (at[r] = at[s] /\ r > s)

Matching(boundary) == {r \in visible : fits[r] = wanted /\ Behind(r, boundary)}

\* The first n rows behind the boundary.
Select(boundary, n) ==
  LET S == Matching(boundary)
      found == [i \in 1 .. Cardinality(S) |->
                  CHOOSE r \in S : Cardinality({s \in S : Newer(s, r)}) = i - 1]
  IN SubSeq(found, 1, IF Len(found) > n THEN n ELSE Len(found))

\* list of a service: one row more than the limit tells whether there is a next page;
\* the cursor is the last row's that is returned.
NextPage(limit) ==
  /\ walk # "over" /\ listing.paged
  /\ LET selected == Select(cursor, limit + 1)
         page == SubSeq(selected, 1, IF Len(selected) > limit THEN limit ELSE Len(selected))
         more == Len(selected) > limit
     IN /\ seen' = seen \o page
        /\ walk' = IF more THEN "walking" ELSE "over"
        /\ cursor' = IF more THEN Boundary(page[Len(page)]) ELSE <<>>
  /\ steady' = IF walk = "new" THEN Matching(<<>>) ELSE steady
  /\ UNCHANGED <<listing, wanted, table>>

\* The listings without a cursor: the first rows and nothing else.
List(limit) ==
  /\ walk = "new" /\ ~listing.paged
  /\ seen' = Select(<<>>, limit) /\ walk' = "over"
  /\ steady' = Matching(<<>>)
  /\ UNCHANGED <<listing, wanted, table, cursor>>

ListingsNext ==
  \/ \E r \in Rows : Begin(r) \/ Commit(r) \/ Change(r)
  \/ ListingTick
  \/ \E limit \in Limits : NextPage(limit) \/ List(limit)

ListingsSpec == ListingsInit /\ [][ListingsNext]_listingVars
-----------------------------------------------------------------------------
ListingsTypeOK ==
  /\ at \in [Rows -> 0 .. MaxMicros] /\ visible \subseteq Rows
  /\ fits \in [Rows -> SUBSET wanted]
  /\ walk \in {"new", "walking", "over"} /\ seen \in Seq(Rows)
  /\ (walk = "walking") = (cursor # <<>>)

Returned == {seen[i] : i \in DOMAIN seen}

\* A walk goes down in time and never returns a row twice, whatever is inserted or
\* changed between two pages and whichever limit each page asks for.
InOrder ==
  \A i, j \in DOMAIN seen : i < j => Newer(seen[i], seen[j])

\* A row that was listed when the walk began, and has fitted its filters ever since,
\* is on one of its pages: rows with equal times, and rows that become visible behind
\* newer ones, do not push it out.
NoneMissed == walk = "over" /\ listing.paged => steady \subseteq Returned

\* Pages are complete and in order.
PagesAreSound == ListingsTypeOK /\ InOrder /\ NoneMissed
=============================================================================
