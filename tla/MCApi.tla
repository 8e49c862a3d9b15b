-------------------------------- MODULE MCApi -------------------------------
(***************************************************************************)
(* What the API does with a request, for TLC.  component says what moves   *)
(* in a behaviour: the readers of a report; requests to a few routes while *)
(* administrators take rights away, of two sessions or of one that ages,   *)
(* to every route, or to the routes with the smallest limits; logins or    *)
(* refreshes at their limiter; or a walk over a listing.                   *)
(***************************************************************************)
EXTENDS Reports, Requests, SessionLimiter, Listings, TLC

VARIABLE component

-----------------------------------------------------------------------------
\* A route with two kinds of caller and the settings page; and the routes of the smallest
\* limits: a key's rotation (5 in a window) and the test event, from a page or not (10).
MixedRoutes == {r \in ScenariosRoutes : r.method = "POST"} \cup TenantProfileRoutes
LimitedRoutes == ApiKeyRotationRoute \cup {r \in IntegrationsRoutes : r.method = "POST"}

\* Three rows over three microseconds.
TheRows == 1 .. 3

\* Every route of the table agrees with the others that do the same.
ASSUME RoutesAgree == SameRights

-----------------------------------------------------------------------------
MCInit ==
    /\ Init /\ RequestsInit /\ LimiterInit /\ ListingsInit
    /\ component \in {"reports", "mixed", "aging", "everywhere", "insisting", "logins",
                      "refreshes", "walking"}
    /\ component \notin {"mixed", "aging", "everywhere"} => role = [u \in Users |-> "tenant_admin"]
    /\ component \notin {"logins", "refreshes"} => mode = "local"
    /\ component # "walking" => listing = UserAccounts

\* Requests to some of the routes, with at most so many ticks, tokens, requests and acts of
\* administrators.
MovingTo(routes, ticks, issued, asked, acts) ==
    /\ \/ clock < ticks /\ Tick
       \/ changes < acts /\ Administer
       \/ Len(tokens) < issued /\ \E u \in Users : Issue(u)
       \/ LimiterFails
       \/ \E c \in Clients :
             \/ arrivals < asked /\ \E route \in routes : Arrive(c, route)
             \/ Identify(c) \/ Admit(c) \/ Handle(c)
    /\ Observe

MovingNext ==
    \/ component = "mixed" /\ MovingTo(MixedRoutes, 0, 2, 2, 2)
    \/ component = "aging" /\ MovingTo(MixedRoutes, 1, 1, 2, 2)
    \/ component = "everywhere" /\ MovingTo(AllRoutes, 0, 1, 1, 1)
    \/ /\ component = "insisting" /\ MovingTo(LimitedRoutes, 2, 1, 11, 0)
       /\ \A c \in Clients : request'[c] # NoRequest => request'[c].kind # "api_key"

\* Logins, or refreshes: they are charged to other buckets.
Attempts(kinds) ==
    \/ \E ks \in Charges :
          /\ \A k \in ks : k[1] \in kinds
          /\ AdmitAttempt(ks) \/ RefuseAttempt(ks) \/ ReplyLost(ks)
    \/ \E k \in LimiterKeys : KeyExpires(k)
    \/ LimiterCloses \/ LimiterTick

LoginNext ==
    \/ component = "logins" /\ Attempts({"account", "login"})
    \/ component = "refreshes" /\ Attempts({"refresh", "family"})

MCNext ==
    /\ UNCHANGED component
    /\ \/ component = "reports" /\ Next /\ UNCHANGED <<requestVars, limiterVars, listingVars>>
       \/ MovingNext /\ UNCHANGED <<vars, limiterVars, listingVars>>
       \/ LoginNext /\ UNCHANGED <<vars, requestVars, listingVars>>
       \/ component = "walking" /\ ListingsNext /\ UNCHANGED <<vars, requestVars, limiterVars>>

MCSpec == MCInit /\ [][MCNext]_<<component, vars, requestVars, limiterVars, listingVars>>

Symmetric == Permutations(Readers)
=============================================================================
