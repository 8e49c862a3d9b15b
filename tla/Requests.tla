-------------------------------- MODULE Requests --------------------------------
(***************************************************************************)
(* The way of a request through the preHandlers of a protected route       *)
(* (apps/api/plugins/auth.ts, core/tenant): one credential is selected and *)
(* verified, the identity behind it is read from the database, the role's  *)
(* actions are compared with the route's, a rolling window limits the      *)
(* actor, and the handler runs.  Administrators demote and deactivate      *)
(* users, suspend the tenant, revoke keys and sessions meanwhile.          *)
(***************************************************************************)
EXTENDS Routes, Sequences, FiniteSets

CONSTANTS
    Users, Keys,   \* users and API keys of a tenant
    InitialRoles,  \* roles the users may start with
    Clients,       \* requests under way at a time
    Registered,    \* the routes registered: a subset of AllRoutes
    Targets,       \* values of :id
    Mode,          \* mode of the limiter: "local", "redis" or "trusted_edge"
    Window,        \* USERS_LIMIT_WINDOW_MS, in ticks
    Lifetime,      \* of an access token, in ticks
    MaxClock,      \* bound on the ticks
    MaxTokens,     \* bound on the access tokens issued
    MaxArrivals,   \* bound on the requests
    MaxChanges,    \* bound on the acts of administrators
    NoRequest

VARIABLES
    clock,        \* the time
    role,         \* role[u]
    activeUsers,  \* users that are active
    tenantActive, \* whether the tenant is
    liveKeys,     \* keys that are not revoked
    tokens,       \* the access tokens issued, in order
    liveFamilies, \* token families, named by their first token, that are neither revoked nor past
                  \* their absolute expiry
    buckets,      \* the admissions the limiter holds: <<key, time, number>>
    limiter,      \* "up", or "failed" after an error of the Redis client
    request,      \* request[c]
    arrivals,     \* requests so far
    changes,      \* acts of administrators so far
    admitted,     \* history: its admissions in the last Window
    entitled      \* history: requests whose actor was entitled to them at a time
                  \* since they arrived

world == <<role, activeUsers, tenantActive, liveKeys, tokens, liveFamilies>>
requestVars == <<clock, world, buckets, limiter, request, arrivals, changes, admitted, entitled>>

Actors == Users \cup Keys
Token == [user : Users, role : RoleNames, family : 1 .. MaxTokens, issuedAt : 0 .. MaxClock]

\* protectedUsersBucketDigest: actor, route, method and, for some, the target.
BucketKeys ==
    {<<a, r.bucket, t>> : a \in Actors, r \in {s \in Registered : ~s.target /\ s.bucket # NoBucket},
                          t \in {"any"}} \cup
    {<<a, r.bucket, t>> : a \in Actors, r \in {s \in Registered : s.target}, t \in Targets}

\* Its key, its time, and a number that tells it from others of that time.
Admission == BucketKeys \X (0 .. MaxClock) \X (Nat \ {0})

BucketOf(actor, route, target) ==
    <<actor, route.bucket, IF route.target THEN target ELSE "any">>

\* kind: the credential selected; token: which, or 0; actor, role: its claims.
Request ==
    [pc : {"identity", "limit", "handle"}, route : Registered, target : Targets,
     kind : {"api_key", "jwt", "access_cookie"}, token : 0 .. MaxTokens,
     actor : Actors, role : RoleNames]

\* A route that counts no request takes every role.
ASSUME RequestsAssumption ==
    /\ Registered \subseteq AllRoutes /\ InitialRoles \subseteq RoleNames
    /\ \A route \in Registered : route.bucket = NoBucket => route.roles = RoleNames
    /\ Users \cap Keys = {} /\ NoRequest \notin Request
    /\ Mode \in {"local", "redis", "trusted_edge"}
    /\ Window \in Nat \ {0} /\ Lifetime \in Nat \ {0}
    /\ {MaxClock, MaxTokens, MaxArrivals, MaxChanges} \subseteq Nat

RequestsTypeOK ==
    /\ clock \in 0 .. MaxClock
    /\ role \in [Users -> RoleNames]
    /\ activeUsers \subseteq Users /\ tenantActive \in BOOLEAN /\ liveKeys \subseteq Keys
    /\ tokens \in Seq(Token) /\ liveFamilies \subseteq DOMAIN tokens
    /\ limiter \in {"up", "failed"}
    /\ request \in [Clients -> Request \cup {NoRequest}]
    /\ buckets \subseteq Admission /\ admitted \subseteq Admission
    /\ arrivals \in 0 .. MaxArrivals /\ changes \in 0 .. MaxChanges
    /\ entitled \subseteq Clients

RequestsInit ==
    /\ clock = 0
    /\ role \in [Users -> InitialRoles]
    /\ activeUsers = Users /\ tenantActive = TRUE /\ liveKeys = Keys
    /\ tokens = <<>> /\ liveFamilies = {}
    /\ buckets = {}
    /\ limiter = "up"
    /\ request = [c \in Clients |-> NoRequest]
    /\ arrivals = 0 /\ changes = 0
    /\ admitted = {}
    /\ entitled = {}

-----------------------------------------------------------------------------
(* The world *)

\* Admissions in the window that ends at a time.
Keep(admissions, time) == {a \in admissions : a[2] > time - Window}
OfKey(admissions, key) == {a \in admissions : a[1] = key}

Tick ==
    /\ clock < MaxClock
    /\ clock' = clock + 1
    /\ admitted' = Keep(admitted, clock + 1)
    /\ UNCHANGED <<world, buckets, limiter, request, arrivals, changes>>

\* A login starts a family, a refresh goes on with one.
Issue(u) ==
    /\ Len(tokens) < MaxTokens
    /\ u \in activeUsers /\ tenantActive
    /\ \E f \in {i \in liveFamilies : tokens[i].user = u} \cup {Len(tokens) + 1} :
        /\ tokens' = Append(tokens, [user |-> u, role |-> role[u], family |-> f, issuedAt |-> clock])
        /\ liveFamilies' = liveFamilies \cup {f}
    /\ UNCHANGED <<clock, role, activeUsers, tenantActive, liveKeys, buckets, limiter, request,
                   arrivals, changes, admitted>>

\* A user, the tenant, a key or a family changes.  A family ends when it is revoked and when
\* its absolute expiry is reached, which whoever looks for it cannot tell apart.
Administer ==
    /\ changes < MaxChanges
    /\ changes' = changes + 1
    /\ \/ \E u \in Users, r \in RoleNames : role' = [role EXCEPT ![u] = r]
          /\ UNCHANGED <<activeUsers, tenantActive, liveKeys, liveFamilies>>
       \/ \E u \in activeUsers : activeUsers' = activeUsers \ {u}
          /\ UNCHANGED <<role, tenantActive, liveKeys, liveFamilies>>
       \/ tenantActive' = FALSE /\ UNCHANGED <<role, activeUsers, liveKeys, liveFamilies>>
       \/ \E k \in liveKeys : liveKeys' = liveKeys \ {k}
          /\ UNCHANGED <<role, activeUsers, tenantActive, liveFamilies>>
       \/ \E f \in liveFamilies : liveFamilies' = liveFamilies \ {f}
          /\ UNCHANGED <<role, activeUsers, tenantActive, liveKeys>>
    /\ UNCHANGED <<clock, tokens, buckets, limiter, request, arrivals, admitted>>

\* An error of the Redis client: dependencyFailed is never reset.
LimiterFails ==
    /\ Mode = "redis"
    /\ limiter' = "failed"
    /\ UNCHANGED <<clock, world, buckets, request, arrivals, changes, admitted>>

-----------------------------------------------------------------------------
(* The request *)

Unsafe(route) == route.method # "GET"

\* validateJwtClaims, of a token the application signed.
Unexpired(i) == tokens[i].issuedAt + Lifetime >= clock

\* The cookies of a browser are those of the last token issued to its user.
CookieOf(u) ==
    LET own == {i \in DOMAIN tokens : tokens[i].user = u} IN
    IF own = {} THEN 0 ELSE CHOOSE i \in own : \A j \in own : j <= i

Arrives(c, kind, route, target, i, actor) ==
    request' = [request EXCEPT ![c] =
        [pc |-> "identity", route |-> route, target |-> target, kind |-> kind, token |-> i,
         actor |-> actor, role |-> IF i = 0 THEN API_KEY_ROLE ELSE tokens[i].role]]

\* selectRequestCredential and the checks up to the query.  A request with two
\* credentials or none, one whose token expired and one whose CSRF proof is
\* wrong are refused there, with no trace: they are not modelled further.
\* The proof: a form of a page opened under token j carries the secret of j,
\* and the cookie and the hash in the access token are those of i.
Arrive(c, route) ==
    /\ request[c] = NoRequest
    /\ arrivals < MaxArrivals
    /\ arrivals' = arrivals + 1
    /\ \E target \in Targets :
        \/ \E k \in Keys : Arrives(c, "api_key", route, target, 0, k)
        \/ \E i \in DOMAIN tokens : Unexpired(i) /\ Arrives(c, "jwt", route, target, i, tokens[i].user)
        \/ \E u \in Users : LET i == CookieOf(u) IN
            /\ i # 0 /\ Unexpired(i)
            /\ \E j \in 1 .. i : tokens[j].user = u /\ (Unsafe(route) => j = i)
            /\ Arrives(c, "access_cookie", route, target, i, u)
    /\ UNCHANGED <<clock, world, buckets, limiter, changes, admitted>>

\* Fault: the identity is found by user and tenant, and the role is the token's.
FoundByUser(r) ==
    /\ r.kind = "api_key" => r.actor \in liveKeys
    /\ r.kind = "access_cookie" => tokens[r.token].family \in liveFamilies

\* findApiKeyIdentity, findUserIdentity, findCookieUserIdentity: an exact row; the last asks
\* that the family is not revoked and not past its absolute expiry.
Found(r) ==
    /\ r.kind = "api_key" => r.actor \in liveKeys
    /\ r.kind # "api_key" => role[r.actor] = r.role
    /\ r.kind = "access_cookie" => tokens[r.token].family \in liveFamilies

Allowed(r) ==
    /\ \A action \in r.route.actions :
         CanPerformAuthAction(r.role, action, IF r.kind = "api_key" THEN "api_key" ELSE "user")
    /\ r.kind = "api_key" => r.route.keys

\* The query of app.authenticate, then the requireAction hooks and userContext,
\* with no other await: AUTH_INVALID, USER_INACTIVE, TENANT_INACTIVE or
\* FORBIDDEN end the request.
Identify(c) ==
    LET r == request[c] IN
    /\ r # NoRequest /\ r.pc = "identity"
    /\ request' = [request EXCEPT ![c] =
          IF Found(r) /\ (r.kind # "api_key" => r.actor \in activeUsers) /\ tenantActive /\ Allowed(r)
          THEN [r EXCEPT !.pc = IF r.route.bucket = NoBucket THEN "handle" ELSE "limit"]
          ELSE NoRequest]
    /\ UNCHANGED <<clock, world, buckets, limiter, arrivals, changes, admitted>>

UnderLimit(held, bucket) == Cardinality(held) < ProtectedRouteLimit(bucket)

\* The entry of an admission: one that is not there yet.
NewEntry(held, key) ==
    CHOOSE a \in {key} \X {clock} \X (1 .. ProtectedRouteLimit(key[2])) : a \notin held

\* Limiter.admit, one step in each mode (a Redis script is one), then the
\* gates that the routes have after it: a request that these refuse has been
\* counted.
Admit(c) ==
    LET r == request[c]
        key == BucketOf(r.actor, r.route, r.target)
        held == Keep(OfKey(buckets, key), clock)
        counted == Mode # "trusted_edge" /\ limiter = "up"
        room == counted /\ UnderLimit(held, r.route.bucket)
        new == IF room THEN {NewEntry(held, key)} ELSE {} IN
    /\ r # NoRequest /\ r.pc = "limit"
    /\ buckets' = IF ~counted THEN buckets ELSE (buckets \ OfKey(buckets, key)) \cup held \cup new
    /\ admitted' = admitted \cup new
    /\ request' = [request EXCEPT ![c] =
          IF (room \/ Mode = "trusted_edge") /\ (r.kind = "api_key" \/ r.role \in r.route.roles)
          THEN [r EXCEPT !.pc = "handle"] ELSE NoRequest]
    /\ UNCHANGED <<clock, world, limiter, arrivals, changes>>

\* The handler runs the operations of the route; what they do is in the
\* modules of the components.
Handle(c) ==
    /\ request[c] # NoRequest /\ request[c].pc = "handle"
    /\ request' = [request EXCEPT ![c] = NoRequest]
    /\ UNCHANGED <<clock, world, buckets, limiter, arrivals, changes, admitted>>

-----------------------------------------------------------------------------
(* Specification *)

\* As the database is now, the actor may do what the route of c does.
EntitledNow(c) ==
    LET r == request[c] IN
    /\ r # NoRequest /\ tenantActive
    /\ IF r.kind = "api_key" THEN r.actor \in liveKeys /\ r.route.actions \subseteq ApiKeyActions
       ELSE /\ r.actor \in activeUsers
            /\ r.route.actions \subseteq RoleActions[role[r.actor]]
            /\ role[r.actor] \in r.route.roles
            /\ r.kind = "access_cookie" => tokens[r.token].family \in liveFamilies

\* The history of who was entitled, kept at every step.
Observe == entitled' = {c \in Clients : request'[c] # NoRequest /\ (c \in entitled \/ EntitledNow(c)')}

RequestsNext ==
    /\ \/ Tick \/ Administer \/ LimiterFails
       \/ \E u \in Users : Issue(u)
       \/ \E c \in Clients : \/ \E route \in Registered : Arrive(c, route)
                             \/ Identify(c) \/ Admit(c) \/ Handle(c)
    /\ Observe

RequestsSpec == RequestsInit /\ [][RequestsNext]_requestVars

-----------------------------------------------------------------------------
(* Properties *)

\* A handler runs only if, at a moment since the request arrived, its actor was
\* entitled to it: what an administrator took away before that is gone,
\* whatever the tokens still say (findUserIdentity and its sisters).
RunsEntitled ==
    \A c \in Clients : request[c] # NoRequest /\ request[c].pc = "handle" => c \in entitled

\* In no window is an operation admitted oftener than the limit of its route,
\* through whatever paths it is reached (protectedUsersBucketDigest).
WithinBudget ==
    \A a \in admitted : Cardinality(OfKey(admitted, a[1])) <= ProtectedRouteLimit(a[1][2])

\* Rights last, budgets hold.
RequestsAreSound == RequestsTypeOK /\ RunsEntitled /\ WithinBudget

\* What a handler does, its actor could have asked of every route that does it: no page is a
\* way round what the API refuses, nor the other way round.
SameRights ==
    \A route, other \in Registered, name \in RoleNames, kind \in {"api_key", "jwt"} :
        LET Passes(to) == /\ Allowed([route |-> to, kind |-> kind, role |-> name])
                          /\ kind # "api_key" => name \in to.roles
        IN Cardinality(other.ops) = 1 /\ other.ops \subseteq route.ops /\ Passes(route) => Passes(other)
=============================================================================
