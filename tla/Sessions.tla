------------------------------- MODULE Sessions -------------------------------
(***************************************************************************)
(* Login sessions and the writers that end them: login, refresh and logout *)
(* (core/tenant/auth-*-repository.ts), the patch of a user and the reset   *)
(* of a password (users-repository.ts, user-password-repository.ts).       *)
(*                                                                         *)
(* Every operation is one transaction.  Those about a user lock the tenant *)
(* row first; refresh and logout lock only the family, read users without  *)
(* a lock, and meet the tenant row late, through the foreign keys of what  *)
(* they insert (FOR KEY SHARE).  What a transaction writes is kept by it   *)
(* until it commits; the user and credential rows are locked right after   *)
(* the tenant by everyone who locks them, so the tenant stands for them.   *)
(***************************************************************************)
EXTENDS Naturals, FiniteSets, Sequences

CONSTANTS
    Processes,     \* API requests under way
    Users,         \* the users of one tenant
    FirstAdmins,   \* the administrators the tenant begins with
    Families,      \* ids of refresh families
    MaxTokens,     \* bound: tokens of a family
    MaxVersions,   \* bound: versions of a user
    MaxPasswords   \* bound: passwords of a user

ASSUME SessionsAssumption ==
    /\ FirstAdmins \subseteq Users /\ FirstAdmins # {}
    /\ MaxTokens \in Nat \ {0}
    /\ MaxVersions \in Nat \ {0}
    /\ MaxPasswords \in Nat \ {0}

VARIABLES
    user,      \* user[u]: the users row and the password of its credential
    family,    \* family[f]: the auth_refresh_families row
    tokens,    \* tokens[f]: the states of its auth_refresh_tokens, oldest first
    expired,   \* the tokens <<f, i>> whose idle time is over
    tx         \* tx[p]: the transaction of process p

vars == <<user, family, tokens, expired, tx>>

-----------------------------------------------------------------------------
(* States *)

Roles == {"tenant_admin", "finops_analyst"}
Reasons == {"logout", "reuse_detected", "password_reset", "user_inactive", "tenant_inactive",
            "role_changed"}
NoFamily == "none"

User == [role : Roles \cup {"absent"}, active : BOOLEAN,
         version : 0 .. MaxVersions, password : 0 .. MaxPasswords]

\* role and password: the user's when the session was issued (for properties).
Family == [user : Users, state : {"absent", "live"} \cup Reasons,
           role : Roles, password : 0 .. MaxPasswords, absolute : BOOLEAN]

\* csrf: the digest of the CSRF header is the token's.  valid: the token's and
\* the family's time was not over at BEGIN.  tenant: the lock on the tenant row.  todo: families still to be revoked.
\* older: the processes whose transactions were under way at BEGIN and still are.
\* younger: families and credentials (by their user) inserted by transactions
\* that began after this one.
Transaction ==
    [pc : {"idle", "failed", "loginBegin", "login", "loginCommit", "create", "patch", "password",
           "families", "refresh", "refreshRead", "logout", "logoutRead", "insert",
           "familyCommit"},
     user : Users, seen : User, next : User, reason : Reasons \cup {"none", "rotate"},
     family : Families \cup {NoFamily}, token : 0 .. MaxTokens, csrf : BOOLEAN, valid : BOOLEAN,
     tenant : {"none", "share", "update"}, locks : SUBSET Families,
     todo : SUBSET Families, older : SUBSET Processes, younger : SUBSET (Families \cup Users)]

AnyUser == CHOOSE u \in Users : TRUE

NewUser == [role |-> "absent", active |-> FALSE, version |-> 0, password |-> 0]

Idle == [pc |-> "idle", user |-> AnyUser, seen |-> NewUser, next |-> NewUser,
         reason |-> "none", family |-> NoFamily, token |-> 0, csrf |-> FALSE, valid |-> FALSE,
         tenant |-> "none", locks |-> {}, todo |-> {}, older |-> {}, younger |-> {}]

TypeOK ==
    /\ user \in [Users -> User]
    /\ family \in [Families -> Family]
    /\ tokens \in [Families -> Seq({"current", "used"})]
    /\ \A f \in Families : Len(tokens[f]) <= MaxTokens
    /\ expired \subseteq Families \X (1 .. MaxTokens)
    /\ tx \in [Processes -> Transaction]

Init ==
    /\ user = [u \in Users |-> IF u \in FirstAdmins
                 THEN [role |-> "tenant_admin", active |-> TRUE, version |-> 1, password |-> 1]
                 ELSE NewUser]
    /\ family = [f \in Families |-> [user |-> AnyUser, state |-> "absent",
                                     role |-> "tenant_admin", password |-> 0, absolute |-> FALSE]]
    /\ tokens = [f \in Families |-> <<>>]
    /\ expired = {}
    /\ tx = [p \in Processes |-> Idle]

-----------------------------------------------------------------------------
(* Transactions and row locks *)

Holds(p, f) == f \in tx[p].locks
TenantFree(p) == \A q \in Processes \ {p} : tx[q].tenant = "none"
TenantShareable(p) == \A q \in Processes \ {p} : tx[q].tenant # "update"

FamilyFree(p, f) == \A q \in Processes \ {p} : ~Holds(q, f)

Free(p) == tx[p].pc \in {"idle", "failed"}

UnderWay(q) == tx[q].pc \notin {"idle", "failed", "loginBegin"}

Begin(p, t) == tx' = [tx EXCEPT ![p] = [t EXCEPT !.older = {q \in Processes : UnderWay(q)}]]

\* The transaction of p ends; a row it inserted has a created_at after the BEGIN of
\* the transactions that are older.
Leave(p, t, rows) ==
    tx' = [q \in Processes |->
              IF q = p THEN t
              ELSE [tx[q] EXCEPT !.older = @ \ {p},
                                 !.younger = IF q \in tx[p].older THEN @ \cup rows ELSE @]]

\* COMMIT, ROLLBACK and release: the locks go, the writes stay or go with them.
End(p) == Leave(p, Idle, {})

\* An error rolls back, and the caller answers AUTH_DEPENDENCY_UNAVAILABLE.
Fail(p) == Leave(p, [Idle EXCEPT !.pc = "failed"], {})

Goto(p, pc) == tx' = [tx EXCEPT ![p].pc = pc]

\* The transactions p waits for.
Blockers(p) ==
    LET t == tx[p] IN
    {q \in Processes \ {p} :
        \/ t.pc \in {"login", "create", "patch", "password"} /\ tx[q].tenant # "none"
        \/ t.pc = "insert" /\ tx[q].tenant = "update"
        \/ t.pc \in {"refresh", "logout"} /\ Holds(q, t.family)
        \/ /\ t.pc = "families" /\ t.todo # {}
           /\ \A f \in t.todo : ~FamilyFree(p, f)
           /\ \E f \in t.todo : Holds(q, f)}

\* Transactions that wait for each other.
Deadlock(S) == S # {} /\ \A p \in S : Blockers(p) \cap S # {} /\ \E q \in S : p \in Blockers(q)

\* The server breaks a deadlock, or a statement fails.
DetectDeadlock(p) ==
    /\ \E S \in SUBSET Processes : p \in S /\ Deadlock(S)
    /\ Fail(p)
    /\ UNCHANGED <<user, family, tokens, expired>>

FailTransaction(p) ==
    /\ UnderWay(p)
    /\ Fail(p)
    /\ UNCHANGED <<user, family, tokens, expired>>

-----------------------------------------------------------------------------
(* Login *)

\* findCandidate, without a lock, and the verification of the password, which
\* takes long; tx[p].seen keeps the hash that was verified.
FindCandidate(p, u) ==
    /\ Free(p)
    /\ user[u].role # "absent" /\ user[u].password # 0
    /\ tx' = [tx EXCEPT ![p] = [Idle EXCEPT !.pc = "loginBegin", !.user = u,
                                        !.seen = [NewUser EXCEPT !.password = user[u].password]]]
    /\ UNCHANGED <<user, family, tokens, expired>>

LoginBegin(p) ==
    /\ tx[p].pc = "loginBegin"
    /\ Begin(p, [tx[p] EXCEPT !.pc = "login"])
    /\ UNCHANGED <<user, family, tokens, expired>>

\* Fault: the proof is not checked again under the lock.
LoginLockUnchecked(p) ==
    /\ tx[p].pc = "login"
    /\ TenantFree(p)
    /\ tx' = [tx EXCEPT ![p].pc = "loginCommit", ![p].tenant = "update"]
    /\ UNCHANGED <<user, family, tokens, expired>>

\* Is there an id left (bound)?
NewFamily == \E f \in Families : family[f].state = "absent"

\* lockLoginProof and the checks under the lock.  The tenant may be inactive: nothing here
\* changes that, so either answer is possible, now and in a refresh.
LoginLock(p) ==
    /\ tx[p].pc = "login"
    /\ TenantFree(p)
    /\ LET u == user[tx[p].user] IN
       \/ /\ u.password = tx[p].seen.password /\ u.active /\ NewFamily
          /\ tx' = [tx EXCEPT ![p].pc = "loginCommit", ![p].tenant = "update"]
       \/ End(p)
    /\ UNCHANGED <<user, family, tokens, expired>>

\* insertSession and COMMIT.  created_at is the time of BEGIN.
LoginCommit(p, f) ==
    LET u == tx[p].user IN
    /\ tx[p].pc = "loginCommit"
    /\ family[f].state = "absent"
    /\ family' = [family EXCEPT ![f] = [user |-> u, state |-> "live", role |-> user[u].role,
                                        password |-> tx[p].seen.password, absolute |-> FALSE]]
    /\ tokens' = [tokens EXCEPT ![f] = <<"current">>]
    /\ Leave(p, Idle, {f})
    /\ UNCHANGED <<user, expired>>
-----------------------------------------------------------------------------
(* Users: createUser, patchLocked and passwordTransaction *)

BeginCreate(p, u, role, active) ==
    /\ Free(p)
    /\ user[u].role = "absent"
    /\ Begin(p, [Idle EXCEPT !.pc = "create", !.user = u,
                             !.next = [NewUser EXCEPT !.role = role, !.active = active, !.version = 1]])
    /\ UNCHANGED <<user, family, tokens, expired>>

\* The holder of the tenant waits for nothing more; a second insert of the
\* same address is refused by users_tenant_email_key.
CreateUser(p) ==
    LET u == tx[p].user IN
    /\ tx[p].pc = "create"
    /\ TenantFree(p)
    /\ user' = IF user[u].role = "absent" THEN [user EXCEPT ![u] = tx[p].next] ELSE user
    /\ End(p)
    /\ UNCHANGED <<family, tokens, expired>>

\* The caller has read the user, and sends its version with the changes.
BeginPatch(p, u, role, active) ==
    /\ Free(p)
    /\ user[u].role # "absent" /\ user[u].version < MaxVersions
    /\ Begin(p, [Idle EXCEPT !.pc = "patch", !.user = u,
                             !.seen = [NewUser EXCEPT !.version = user[u].version],
                             !.next = [NewUser EXCEPT !.role = role, !.active = active]])
    /\ UNCHANGED <<user, family, tokens, expired>>

ActiveAdmins == {u \in Users : user[u].role = "tenant_admin" /\ user[u].active}

LiveFamilies(u) == {f \in Families : family[f].state = "live" /\ family[f].user = u}

FamilyRevocationReason(old, new) ==
    CASE old.active /\ ~new.active -> "user_inactive"
      [] new.role # old.role -> "role_changed"
      [] OTHER -> "none"

\* patchLocked under the tenant lock: the version, the last administrator, and
\* the families the update will have to revoke.
PatchUser(p) ==
    LET u == tx[p].user
        next == [user[u] EXCEPT !.role = tx[p].next.role, !.active = tx[p].next.active,
                                !.version = @ + 1]
        reason == FamilyRevocationReason(user[u], next)
        stale == user[u].version # tx[p].seen.version
        lastAdmin == /\ u \in ActiveAdmins
                     /\ ~(next.role = "tenant_admin" /\ next.active)
                     /\ Cardinality(ActiveAdmins) <= 1 IN
    /\ tx[p].pc = "patch"
    /\ TenantFree(p)
    /\ IF stale \/ lastAdmin
       THEN End(p)
       ELSE tx' = [tx EXCEPT ![p].pc = "families", ![p].tenant = "update",
                             ![p].next = next, ![p].reason = reason,
                             ![p].todo = IF reason = "none" THEN {} ELSE LiveFamilies(u)]
    /\ UNCHANGED <<user, family, tokens, expired>>

BeginPassword(p, u) ==
    /\ Free(p)
    /\ user[u].role # "absent" /\ user[u].password < MaxPasswords
    /\ Begin(p, [Idle EXCEPT !.pc = "password", !.user = u])
    /\ UNCHANGED <<user, family, tokens, expired>>

\* password_changed_at, the time of BEGIN, must not precede created_at.
SetPassword(p) ==
    LET u == tx[p].user IN
    /\ tx[p].pc = "password"
    /\ TenantFree(p)
    /\ IF u \in tx[p].younger \/ user[u].password = MaxPasswords
       THEN Fail(p)
       ELSE tx' = [tx EXCEPT ![p].pc = "families", ![p].tenant = "update",
                             ![p].next = [user[u] EXCEPT !.password = @ + 1],
                             ![p].reason = "password_reset", ![p].todo = LiveFamilies(u)]
    /\ UNCHANGED <<user, family, tokens, expired>>

\* UPDATE auth_refresh_families reaches the row of f, waits for its lock, and
\* looks at revoked_at again.  revoked_at is the time of BEGIN and must not
\* precede created_at: then the whole transaction fails.
RevokeNext(p, f) ==
    /\ tx[p].pc = "families"
    /\ f \in tx[p].todo
    /\ FamilyFree(p, f)
    /\ IF family[f].state = "live" /\ f \in tx[p].younger
       THEN Fail(p)
       ELSE tx' = [tx EXCEPT ![p].todo = @ \ {f}, ![p].locks = @ \cup {f}]
    /\ UNCHANGED <<user, family, tokens, expired>>

UserCommit(p) ==
    LET u == tx[p].user
        provisioned == user[u].password = 0 /\ tx[p].next.password # 0 IN
    /\ tx[p].pc = "families"
    /\ tx[p].todo = {}
    /\ user' = [user EXCEPT ![u] = tx[p].next]
    /\ family' = [f \in Families |->
                    IF f \in tx[p].locks /\ family[f].state = "live"
                    THEN [family[f] EXCEPT !.state = tx[p].reason] ELSE family[f]]
    /\ Leave(p, Idle, IF provisioned THEN {u} ELSE {})
    /\ UNCHANGED <<tokens, expired>>

-----------------------------------------------------------------------------
(* Refresh and logout *)

\* findFamilyId and BEGIN.  The expiries are compared with the time of BEGIN.
BeginRefresh(p, f, i, csrf) ==
    /\ Free(p)
    /\ i <= Len(tokens[f])
    /\ i = Len(tokens[f]) => i < MaxTokens
    /\ Begin(p, [Idle EXCEPT !.pc = "refresh", !.family = f, !.token = i, !.csrf = csrf,
                             !.valid = <<f, i>> \notin expired /\ ~family[f].absolute])
    /\ UNCHANGED <<user, family, tokens, expired>>

BeginLogout(p, f, i, csrf) ==
    /\ Free(p)
    /\ i <= Len(tokens[f])
    /\ Begin(p, [Idle EXCEPT !.pc = "logout", !.family = f, !.token = i, !.csrf = csrf])
    /\ UNCHANGED <<user, family, tokens, expired>>

\* Fault: the family is read without a lock.
LockFamilyNot(p) ==
    /\ tx[p].pc \in {"refresh", "logout"}
    /\ Goto(p, IF tx[p].pc = "refresh" THEN "refreshRead" ELSE "logoutRead")
    /\ UNCHANGED <<user, family, tokens, expired>>

\* SELECT id FROM auth_refresh_families ... FOR UPDATE
LockFamily(p) ==
    /\ tx[p].pc \in {"refresh", "logout"}
    /\ FamilyFree(p, tx[p].family)
    /\ tx' = [tx EXCEPT ![p].pc = IF @ = "refresh" THEN "refreshRead" ELSE "logoutRead",
                        ![p].locks = {tx[p].family}]
    /\ UNCHANGED <<user, family, tokens, expired>>

\* Writes that end in an insert, and so in a lock on the tenant.
Insert(p, reason) == tx' = [tx EXCEPT ![p].pc = "insert", ![p].reason = reason]

\* evaluateLockedRefresh.
EvaluateRefresh(p) ==
    LET f == family[tx[p].family] IN
    /\ tx[p].pc = "refreshRead"
    /\ IF ~tx[p].csrf \/ f.state # "live" THEN End(p)
       ELSE \/ Insert(p, "tenant_inactive")
            \/ IF ~user[f.user].active THEN Insert(p, "user_inactive")
               ELSE IF tokens[tx[p].family][tx[p].token] = "used" THEN Insert(p, "reuse_detected")
               ELSE IF ~tx[p].valid THEN End(p)
               ELSE Insert(p, "rotate")
    /\ UNCHANGED <<user, family, tokens, expired>>

EvaluateLogout(p) ==
    /\ tx[p].pc = "logoutRead"
    /\ IF tx[p].csrf /\ family[tx[p].family].state = "live" THEN Insert(p, "logout") ELSE End(p)
    /\ UNCHANGED <<user, family, tokens, expired>>

\* The foreign keys of the new token or audit row: FOR KEY SHARE on the tenant.
ForeignKeys(p) ==
    /\ tx[p].pc = "insert"
    /\ TenantShareable(p)
    /\ tx' = [tx EXCEPT ![p].pc = "familyCommit", ![p].tenant = "share"]
    /\ UNCHANGED <<user, family, tokens, expired>>

Revoke(p) ==
    /\ tx[p].reason # "rotate"
    /\ family' = [family EXCEPT ![tx[p].family].state = tx[p].reason]
    /\ UNCHANGED <<tokens, expired>>

\* markUsedAndInsertChild: the update must hit the current token, and the
\* child lives no longer than the family (least(now + 7 days, absolute)).
RotateCurrent(p) ==
    LET f == tx[p].family  i == tx[p].token IN
    /\ tx[p].reason = "rotate"
    /\ IF tokens[f][i] = "current"
       THEN /\ tokens' = [tokens EXCEPT ![f] = Append([@ EXCEPT ![i] = "used"], "current")]
            /\ expired' = IF family[f].absolute THEN expired \cup {<<f, i + 1>>} ELSE expired
       ELSE UNCHANGED <<tokens, expired>>
    /\ UNCHANGED family

FamilyCommit(p) ==
    /\ tx[p].pc = "familyCommit"
    /\ Revoke(p) \/ RotateCurrent(p)
    /\ End(p)
    /\ UNCHANGED user

\* idle_expires_at of a token, absolute_expires_at of a family.
IdleExpires(f, i) ==
    /\ i <= Len(tokens[f])
    /\ expired' = expired \cup {<<f, i>>}
    /\ UNCHANGED <<user, family, tokens, tx>>

AbsoluteExpires(f) ==
    /\ family[f].state # "absent"
    /\ family' = [family EXCEPT ![f].absolute = TRUE]
    /\ expired' = expired \cup {<<f, i>> : i \in 1 .. Len(tokens[f])}
    /\ UNCHANGED <<user, tokens, tx>>

-----------------------------------------------------------------------------
(* Specification *)

Request(p) ==
    \/ \E u \in Users :
        \/ FindCandidate(p, u)
        \/ BeginPassword(p, u)
        \/ \E role \in Roles, active \in BOOLEAN :
            BeginCreate(p, u, role, active) \/ BeginPatch(p, u, role, active)
    \/ \E f \in Families, i \in 1 .. MaxTokens, csrf \in BOOLEAN :
        BeginRefresh(p, f, i, csrf) \/ BeginLogout(p, f, i, csrf)

Step(p) ==
    \/ LoginBegin(p) \/ LoginLock(p)
    \/ CreateUser(p) \/ PatchUser(p) \/ SetPassword(p) \/ UserCommit(p)
    \/ \E f \in Families : LoginCommit(p, f) \/ RevokeNext(p, f)
    \/ LockFamily(p) \/ EvaluateRefresh(p) \/ EvaluateLogout(p) \/ ForeignKeys(p) \/ FamilyCommit(p)
    \/ DetectDeadlock(p)

Next ==
    \/ \E p \in Processes : Request(p) \/ Step(p) \/ FailTransaction(p)
    \/ \E f \in Families : AbsoluteExpires(f) \/ \E i \in 1 .. MaxTokens : IdleExpires(f, i)

Spec == Init /\ [][Next]_vars
-----------------------------------------------------------------------------
(* Properties *)

\* A session that is not revoked was issued for the role and the password its
\* user has now, and the user is active: no login, however slow its password
\* check, and no refresh leaves a session behind that a patch or a reset meant
\* to end (evaluateLockedLogin, revokeUserFamilies, revokeFamilies).
LiveSessionIsCurrent ==
    \A f \in Families :
        LET u == user[family[f].user] IN
        family[f].state = "live" =>
            u.active /\ u.role = family[f].role /\ u.password = family[f].password

\* However requests interleave, a token is exchanged at most once: the tokens
\* of a family are a chain in which only the last can be current
\* (auth_refresh_tokens_one_current_family_key, one_child_per_parent_key).
OneCurrentToken ==
    \A f \in Families : \A i \in 1 .. Len(tokens[f]) :
        tokens[f][i] = "current" <=> i = Len(tokens[f])

\* No token is usable after the thirty days of its family, however often the
\* session was refreshed (rotationTime).
LifetimeIsBounded ==
    \A f \in Families :
        family[f].absolute => \A i \in 1 .. Len(tokens[f]) : <<f, i>> \in expired

\* Two administrators who remove each other at the same time cannot leave the
\* tenant without one (isAdminRemoval, activeAdminCount).
AdminRemains == ActiveAdmins # {}

\* The only transactions that wait for each other are a writer of users that
\* holds the tenant and wants a family, and a refresh or a logout that holds
\* the family and wants the tenant.
OnlyCrossedOrders ==
    \A S \in SUBSET Processes : Deadlock(S) =>
        \A p \in S : tx[p].pc \in {"families", "insert"}

\* A refresh gives out a new token only while its family is live, and only a
\* live family's token is marked used: no rotation survives a concurrent
\* logout, reset or detected reuse (evaluateLockedRefresh).
RotationNeedsLiveFamily ==
    \A f \in Families :
        tokens'[f] # tokens[f] /\ tokens[f] # <<>> => family[f].state = "live"

\* A revocation is final, its reason too, whichever of two that race comes
\* second (the trigger of 0007, the WHERE revoked_at IS NULL of every writer).
RevocationIsFinal ==
    \A f \in Families : family[f].state \in Reasons => family'[f].state = family[f].state

\* The transaction of p was asked to exchange a token that is used.
Replay(p) ==
    LET f == tx[p].family IN
    /\ tx[p].pc \in {"refreshRead", "insert", "familyCommit"}
    /\ tx[p].csrf /\ family[f].state = "live" /\ tokens[f][tx[p].token] = "used"

\* Whoever presents a used token ends the session: unless the transaction
\* fails, it commits the revocation of the family (revokeReuse).
ReuseEndsSession ==
    \A p \in Processes :
        Replay(p) /\ tx'[p].pc = "idle" => family'[tx[p].family].state # "live"

\* No login, refresh or change of a user that races with another leaves a session its user
\* should not have: a live session has the role and the password its user has now, an
\* active one, no token outlives its family or is exchanged twice, the tenant keeps an
\* administrator, and only the two known lock orders can deadlock.
SessionsAreSound ==
    /\ TypeOK
    /\ LiveSessionIsCurrent /\ OneCurrentToken /\ LifetimeIsBounded
    /\ AdminRemains /\ OnlyCrossedOrders

EndIsFinal == RotationNeedsLiveFamily /\ RevocationIsFinal /\ ReuseEndsSession

\* What has ended a session ends it for good: a revocation and its reason stay, nothing is
\* rotated after one, and a used token that is presented ends its session.
SessionsStayEnded == [][EndIsFinal]_vars
=============================================================================
