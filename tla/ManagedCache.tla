---------------------------- MODULE ManagedCache ----------------------------
(***************************************************************************)
(* createManagedCache: one resource of the process (the database pool, the *)
(* queue, a limiter, the configuration), made on first use, shared, and    *)
(* closed by whoever calls close.  The factory and the disposer are        *)
(* asynchronous, so gets, closes and the settling of either interleave;    *)
(* what runs between two awaits is one step.                               *)
(***************************************************************************)
EXTENDS FiniteSets, Naturals

CONSTANTS
  Callers,          \* code that calls get or close, one call after the other
  MaxGenerations,   \* resources made (bound)
  MaxCloses         \* closes begun (bound)

ASSUME ManagedCacheAssumption == MaxGenerations \in Nat /\ MaxCloses \in Nat

VARIABLES
  current,     \* the generation get shares, 0 for undefined
  closing,     \* the close in progress, 0 for undefined
  made,        \* generations begun so far
  resource,    \* resource[g]: what has become of generation g
  closes,      \* closes[n]: the n-th close, the generation it took and how it ended
  call,        \* call[c]: the call of c and what it waits for
  closedAt     \* closedAt[c]: the closes begun when c called get (history)

cacheVars == <<current, closing, made, resource, closes, call, closedAt>>

Generations == 1 .. MaxGenerations
CloseIds == 1 .. MaxCloses
\* "kept": its disposer failed, and whether it still holds anything is not known.
Fates == {"none", "pending", "live", "rejected", "disposed", "kept"}
NoCall == [pc |-> "idle", on |-> 0]

CacheInit ==
  /\ current = 0 /\ closing = 0 /\ made = 0
  /\ resource = [g \in Generations |-> "none"]
  /\ closes = [n \in {} |-> 0]
  /\ call = [c \in Callers |-> NoCall]
  /\ closedAt = [c \in Callers |-> 0]

Begun == Cardinality(DOMAIN closes)

\* The part of get behind its loop: share the current generation or make one.
Share(c) ==
  \/ /\ current # 0
     /\ call' = [call EXCEPT ![c] = [pc |-> "await", on |-> current]]
     /\ UNCHANGED <<current, made, resource>>
  \/ /\ current = 0 /\ made < MaxGenerations
     /\ made' = made + 1
     /\ current' = made + 1
     /\ resource' = [resource EXCEPT ![made + 1] = "pending"]
     /\ call' = [call EXCEPT ![c] = [pc |-> "await", on |-> made + 1]]

\* get: while (closing) await closing.
GetOrWait(c) ==
  \/ closing = 0 /\ Share(c)
  \/ /\ closing # 0
     /\ call' = [call EXCEPT ![c] = [pc |-> "wait", on |-> closing]]
     /\ UNCHANGED <<current, made, resource>>

Get(c) ==
  /\ call[c].pc \in {"idle", "got", "failed", "closed"}
  /\ GetOrWait(c)
  /\ closedAt' = [closedAt EXCEPT ![c] = Begun]
  /\ UNCHANGED <<closing, closes>>

Settled(n) == closes[n].end # "open"

\* The loop looks again after the close it waited for; a failed close fails it.
Wake(c) ==
  /\ call[c].pc = "wait" /\ Settled(call[c].on)
  /\ \/ closes[call[c].on].end = "ok" /\ GetOrWait(c)
     \/ /\ closes[call[c].on].end = "failed"
        /\ call' = [call EXCEPT ![c] = [pc |-> "failed", on |-> 0]]
        /\ UNCHANGED <<current, made, resource>>
  /\ UNCHANGED <<closing, closes, closedAt>>

\* The promise c shares has settled.
Receive(c) ==
  /\ call[c].pc = "await" /\ resource[call[c].on] # "pending"
  /\ call' = [call EXCEPT ![c] =
       IF resource[call[c].on] = "rejected" THEN [pc |-> "failed", on |-> 0]
       ELSE [pc |-> "got", on |-> call[c].on]]
  /\ UNCHANGED <<current, closing, made, resource, closes, closedAt>>

FactoryResolves(g) ==
  /\ resource[g] = "pending"
  /\ resource' = [resource EXCEPT ![g] = "live"]
  /\ UNCHANGED <<current, closing, made, closes, call, closedAt>>

\* Only the generation that failed is forgotten.
FactoryRejects(g) ==
  /\ resource[g] = "pending"
  /\ resource' = [resource EXCEPT ![g] = "rejected"]
  /\ current' = IF current = g THEN 0 ELSE current
  /\ UNCHANGED <<closing, made, closes, call, closedAt>>

BeginClose(c, taken, barrier) ==
  /\ Begun < MaxCloses
  /\ closes' = [n \in DOMAIN closes \cup {Begun + 1} |->
                  IF n = Begun + 1 THEN [of |-> taken, end |-> "open"] ELSE closes[n]]
  /\ current' = 0
  /\ closing' = IF barrier THEN Begun + 1 ELSE 0
  /\ call' = [call EXCEPT ![c] = [pc |-> "join", on |-> Begun + 1]]

CanCall(c) == call[c].pc \in {"idle", "got", "failed", "closed"}

\* Fault: gets are not held back while a resource is being closed.
CloseWithoutBarrier(c) ==
  /\ CanCall(c)
  /\ BeginClose(c, current, FALSE)
  /\ UNCHANGED <<made, resource, closedAt>>

\* close and reset: join the close in progress, or take the current generation.
CloseCache(c) ==
  /\ CanCall(c)
  /\ \/ /\ closing # 0
        /\ call' = [call EXCEPT ![c] = [pc |-> "join", on |-> closing]]
        /\ UNCHANGED <<current, closing, closes>>
     \/ /\ closing = 0
        /\ BeginClose(c, current, TRUE)
  /\ UNCHANGED <<made, resource, closedAt>>

\* Fault: only a successful close lets gets through again.
EndCloseClearingOnSuccess(n, fate, how) ==
  /\ closes' = [closes EXCEPT ![n].end = how]
  /\ resource' = IF closes[n].of = 0 THEN resource ELSE [resource EXCEPT ![closes[n].of] = fate]
  /\ closing' = IF closing = n /\ how = "ok" THEN 0 ELSE closing

\* The operation settles, and clearClosing runs before anybody who waits for it.
EndClose(n, fate, how) ==
  /\ closes' = [closes EXCEPT ![n].end = how]
  /\ resource' = IF closes[n].of = 0 THEN resource ELSE [resource EXCEPT ![closes[n].of] = fate]
  /\ closing' = IF closing = n THEN 0 ELSE closing

\* closeGeneration: wait for the resource, then dispose of it.
CloseGeneration(n) ==
  /\ n \in DOMAIN closes /\ ~Settled(n)
  /\ LET g == closes[n].of
     IN \/ g = 0 /\ EndClose(n, "none", "ok")
        \/ g # 0 /\ resource[g] = "rejected" /\ EndClose(n, "rejected", "failed")
        \/ g # 0 /\ resource[g] = "live" /\ EndClose(n, "disposed", "ok")
        \/ g # 0 /\ resource[g] = "live" /\ EndClose(n, "kept", "failed")
  /\ UNCHANGED <<current, made, call, closedAt>>

Closed(c) ==
  /\ call[c].pc = "join" /\ Settled(call[c].on)
  /\ call' = [call EXCEPT ![c] = [pc |-> "closed", on |-> 0]]
  /\ UNCHANGED <<current, closing, made, resource, closes, closedAt>>

CacheSettles ==
  \/ \E g \in Generations : FactoryResolves(g) \/ FactoryRejects(g)
  \/ \E n \in CloseIds : CloseGeneration(n)
  \/ \E c \in Callers : Wake(c) \/ Receive(c) \/ Closed(c)

CacheNext == CacheSettles \/ \E c \in Callers : Get(c) \/ CloseCache(c)

\* Factories and disposers settle, and the event loop runs what they wake.
CacheSpec == /\ CacheInit /\ [][CacheNext]_cacheVars
        /\ \A g \in Generations : WF_cacheVars(FactoryResolves(g) \/ FactoryRejects(g))
        /\ \A n \in CloseIds : WF_cacheVars(CloseGeneration(n))
        /\ \A c \in Callers : WF_cacheVars(Wake(c) \/ Receive(c) \/ Closed(c))
-----------------------------------------------------------------------------
CacheTypeOK ==
  /\ current \in 0 .. made /\ closing \in 0 .. Begun /\ made \in 0 .. MaxGenerations
  /\ resource \in [Generations -> Fates]
  /\ DOMAIN closes \subseteq CloseIds
  /\ closedAt \in [Callers -> 0 .. MaxCloses]

\* Two resources of one kind never exist at the same time: no second pool is
\* opened while the first is being closed.
OneAtATime == Cardinality({g \in Generations : resource[g] \in {"pending", "live"}}) <= 1

\* Every resource that lives is shared, or some close has it in hand: none is lost
\* when closes meet factories that are still running.
NoneLost == \A g \in Generations : resource[g] \in {"pending", "live"} =>
  current = g \/ \E n \in DOMAIN closes : closes[n].of = g /\ ~Settled(n)

\* A get that began after a close never comes back with what that close took.
NotWhatWasClosed == \A c \in Callers : call[c].pc = "got" =>
  \A n \in DOMAIN closes : n <= closedAt[c] => closes[n].of # call[c].on

\* A close that fails does not shut the cache for good: gets are let through again.
Reopens == []<>(closing = 0)

\* All of the invariants of one cache.
CacheIsSafe == CacheTypeOK /\ OneAtATime /\ NoneLost /\ NotWhatWasClosed
=============================================================================
