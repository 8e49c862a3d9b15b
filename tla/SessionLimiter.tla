--------------------------- MODULE SessionLimiter --------------------------
(***************************************************************************)
(* The limiter in front of login and refresh: rolling windows per account, *)
(* per address and per token family, in the process or in Redis.  A login  *)
(* is charged to its account and its address together or to neither.  Time *)
(* passes in ticks of the clock the limiter reads; an answer counts in     *)
(* seconds of PerSecond ticks.                                             *)
(***************************************************************************)
EXTENDS Integers, FiniteSetsExt

CONSTANTS
  Accounts, Addresses, Families,
  AccountLimit, LoginAddressLimit, RefreshAddressLimit, FamilyLimit,
  LoginWindow, RefreshWindow,   \* in ticks
  PerSecond,
  MaxNow                        \* ticks (bound)

ASSUME SessionLimiterAssumption ==
  {AccountLimit, LoginAddressLimit, RefreshAddressLimit, FamilyLimit,
   LoginWindow, RefreshWindow, PerSecond, MaxNow} \subseteq Nat \ {0}

VARIABLES
  mode,       \* "local" or "redis"
  now,
  windows,    \* windows[k]: the admissions charged to k
  failed,     \* the Redis client has reported an error, or the limiter is closed
  charged,    \* charged[k]: the last window's admissions answered (history)
  refusal     \* the last refusal, its keys and the first tick it promised (history)

limiterVars == <<mode, now, windows, failed, charged, refusal>>

LimiterKeys == ({"account"} \X Accounts) \cup ({"login", "refresh"} \X Addresses)
                 \cup ({"family"} \X Families)

LimitOf(k) ==
  IF k[1] = "account" THEN AccountLimit
  ELSE IF k[1] = "login" THEN LoginAddressLimit
  ELSE IF k[1] = "refresh" THEN RefreshAddressLimit
  ELSE FamilyLimit

WindowOf(k) == IF k[1] \in {"account", "login"} THEN LoginWindow ELSE RefreshWindow

\* An entry of a bucket: its time, and a number that tells it from others of that time.
Admissions(k) == (1 .. MaxNow) \X (1 .. LimitOf(k))

NoRefusal == [keys |-> {}, at |-> 0]

LimiterInit ==
  /\ mode \in {"local", "redis"}
  /\ now = 1
  /\ windows = [k \in LimiterKeys |-> {}] /\ charged = [k \in LimiterKeys |-> {}]
  /\ failed = FALSE /\ refusal = NoRefusal

\* What is in a window that ends at t.
RecentAt(entries, w, t) == {a \in entries : a[1] > t - w}
Current(k) == RecentAt(windows[k], WindowOf(k), now)
Full(k) == Cardinality(Current(k)) >= LimitOf(k)

CeilSeconds(ticks) == (ticks + PerSecond - 1) \div PerSecond
AtLeastOne(n) == IF n < 1 THEN 1 ELSE n

\* Seconds until the oldest admission leaves the window.
Retry(k) == AtLeastOne(CeilSeconds(Min({a[1] : a \in Current(k)}) + WindowOf(k) - now))

\* The entry of an admission: one that is not there yet.
Entry(k) == CHOOSE a \in {now} \X (1 .. LimitOf(k)) : a \notin Current(k)

Charge(ks) ==
  windows' = [k \in LimiterKeys |-> IF k \in ks THEN Current(k) \cup {Entry(k)} ELSE windows[k]]

Grant(ks) ==
  charged' = [k \in LimiterKeys |-> IF k \in ks THEN charged[k] \cup {Entry(k)} ELSE charged[k]]

\* A refusal is looked at as long as nobody is admitted to its buckets.
Overtaken(ks) == IF ks \cap refusal.keys = {} THEN refusal ELSE NoRefusal

\* Fault: a login is admitted when one of its buckets has room.
AdmitWithRoomSomewhere(ks) ==
  /\ ~failed
  /\ \E k \in ks : ~Full(k)
  /\ windows' = [k \in LimiterKeys |->
                   IF k \in ks THEN Current(k) \cup {<<now, Cardinality(Current(k)) + 1>>}
                   ELSE windows[k]]
  /\ charged' = [k \in LimiterKeys |->
                   IF k \in ks THEN charged[k] \cup {<<now, Cardinality(Current(k)) + 1>>}
                   ELSE charged[k]]
  /\ refusal' = Overtaken(ks)
  /\ UNCHANGED <<mode, now, failed>>

\* admitDual and admitOne, and the two scripts: every bucket has room and is charged.
AdmitAttempt(ks) ==
  /\ ~failed
  /\ \A k \in ks : ~Full(k)
  /\ Charge(ks) /\ Grant(ks)
  /\ refusal' = Overtaken(ks)
  /\ UNCHANGED <<mode, now, failed>>

\* Some bucket is full: the answer is the longest wait of those that are.  The script
\* has dropped what has left the window; the local limiter drops it at a charge.
RefuseAttempt(ks) ==
  /\ ~failed
  /\ \E k \in ks : Full(k)
  /\ windows' = [k \in LimiterKeys |->
                   IF k \in ks /\ mode = "redis" THEN Current(k) ELSE windows[k]]
  /\ refusal' = [keys |-> ks,
                 at |-> now + PerSecond * Max({Retry(k) : k \in {x \in ks : Full(x)}})]
  /\ UNCHANGED <<mode, now, failed, charged>>

\* The script ran, its reply never came: the caller is told 503 and has been charged.
ReplyLost(ks) ==
  /\ mode = "redis" /\ ~failed
  /\ \A k \in ks : ~Full(k)
  /\ Charge(ks)
  /\ refusal' = Overtaken(ks)
  /\ UNCHANGED <<mode, now, failed, charged>>

\* PEXPIRE: a key nobody has been admitted to for two windows.
KeyExpires(k) ==
  /\ mode = "redis" /\ windows[k] # {}
  /\ \A a \in windows[k] : a[1] + 2 * WindowOf(k) <= now
  /\ windows' = [windows EXCEPT ![k] = {}]
  /\ UNCHANGED <<mode, now, failed, charged, refusal>>

\* The client's error event, or close: no admission is decided any more.
LimiterCloses ==
  /\ ~failed
  /\ failed' = TRUE
  /\ windows' = IF mode = "local" THEN [k \in LimiterKeys |-> {}] ELSE windows
  /\ refusal' = NoRefusal
  /\ UNCHANGED <<mode, now, charged>>

LimiterTick ==
  /\ now < MaxNow
  /\ now' = now + 1
  /\ charged' = [k \in LimiterKeys |-> RecentAt(charged[k], WindowOf(k), now + 1)]
  /\ UNCHANGED <<mode, windows, failed, refusal>>

\* What a request is charged to: admitLogin, admitRefreshIp, admitRefreshFamily.
Charges == {{<<"account", a>>, <<"login", i>>} : a \in Accounts, i \in Addresses}
             \cup {{<<"refresh", i>>} : i \in Addresses}
             \cup {{<<"family", f>>} : f \in Families}

LimiterNext ==
  \/ \E ks \in Charges : AdmitAttempt(ks) \/ RefuseAttempt(ks) \/ ReplyLost(ks)
  \/ \E k \in LimiterKeys : KeyExpires(k)
  \/ LimiterCloses \/ LimiterTick

LimiterSpec == LimiterInit /\ [][LimiterNext]_limiterVars
-----------------------------------------------------------------------------
LimiterTypeOK ==
  /\ mode \in {"local", "redis"} /\ now \in 1 .. MaxNow /\ failed \in BOOLEAN
  /\ DOMAIN windows = LimiterKeys /\ DOMAIN charged = LimiterKeys
  /\ \A k \in LimiterKeys : windows[k] \subseteq Admissions(k) /\ charged[k] \subseteq Admissions(k)
  /\ \A k \in LimiterKeys : Cardinality(windows[k]) <= LimitOf(k)

\* No rolling window of an account, an address or a family holds more admissions than
\* its limit, however logins on other buckets, lost replies and expiring keys mix.
WithinLimits == \A k \in LimiterKeys : Cardinality(charged[k]) <= LimitOf(k)

\* The refused are told the truth: as long as nobody is admitted to the buckets in
\* question, the attempt is admitted from the promised second on, and would have been
\* refused a second and more before it.  A login's answer covers both of its buckets.
RetryIsHonest ==
  refusal.keys # {} =>
    /\ now >= refusal.at => \A k \in refusal.keys : ~Full(k)
    /\ now <= refusal.at - PerSecond => \E k \in refusal.keys : Full(k)

\* Only admissions cost: a bucket of the process holds what its callers were granted, so
\* a refused login takes no room in that one of its two buckets that had some.
RefusalsAreFree ==
  \A k \in LimiterKeys : mode = "local" /\ ~failed => Current(k) = charged[k]

\* Limits hold, answers are honest and refusals are free.
LimitsHold == LimiterTypeOK /\ WithinLimits /\ RetryIsHonest /\ RefusalsAreFree
=============================================================================
