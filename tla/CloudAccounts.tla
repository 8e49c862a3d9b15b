----------------------------- MODULE CloudAccounts -----------------------------
(***************************************************************************)
(* Cloud accounts (core/tenant): an account is created with an external    *)
(* reference unique to the tenant, patched under an optimistic version,    *)
(* and deactivated.  The version is updated_at, which a trigger (migration *)
(* 0009) sets to now(): the time at which the transaction began, before it *)
(* waited for the tenant's row.                                            *)
(***************************************************************************)
EXTENDS Naturals

CONSTANTS
    Accounts,  \* accounts of a tenant and provider, by identifier
    Refs,      \* external references
    Labels,    \* values of the other columns a patch may change
    Clients,   \* clients, one request at a time each
    Absent,    \* a column a patch leaves out
    NoClient,  \* nobody holds the tenant's row
    NoAccount, \* no row
    LastTime,  \* bound of the clock; transactions begin at different times
    CallsFail  \* whether calls fail

VARIABLES
    account,   \* account[a]: the row, or NoAccount
    time,      \* the time at which the last transaction began
    tenantRow, \* client whose transaction holds the tenant's row
    rowsSeen,  \* rowsSeen[c]: rows as the client last read them
    request,   \* request[c]: the request of the client under way
    versions   \* history: rows that were ever committed, with their account

accountVars == <<account, time, tenantRow, rowsSeen, request, versions>>

-----------------------------------------------------------------------------
Account == [ref : Refs, label : Labels, active : BOOLEAN, updatedAt : 0 .. LastTime]

ASSUME CloudAccountsAssumption ==
    /\ Accounts # {} /\ NoClient \notin Clients
    /\ NoAccount \notin Account
    /\ LastTime \in Nat
    /\ CallsFail \in BOOLEAN

\* began: now() of the transaction.
Request == [kind : {"patch", "deactivate"},
            pc : {"idle", "begun", "locked", "updated", "answered"},
            account : Accounts, began : 0 .. LastTime, expected : 0 .. LastTime,
            ref : Refs \cup {Absent}, label : Labels \cup {Absent},
            row : Account \cup {NoAccount},
            answer : {"none", "updated", "not_found", "version_conflict", "conflict", "unavailable"}]

AccountsTypeOK ==
    /\ account \in [Accounts -> Account \cup {NoAccount}]
    /\ time \in 0 .. LastTime
    /\ tenantRow \in Clients \cup {NoClient}
    /\ rowsSeen \in [Clients -> [Accounts -> Account \cup {NoAccount}]]
    /\ request \in [Clients -> Request]
    /\ versions \subseteq Accounts \X Account

NothingAsked == [kind |-> "patch", pc |-> "idle", account |-> CHOOSE a \in Accounts : TRUE,
                 began |-> 0, expected |-> 0, ref |-> Absent, label |-> Absent,
                 row |-> NoAccount, answer |-> "none"]

AccountsInit ==
    /\ account = [a \in Accounts |-> NoAccount]
    /\ time = 0
    /\ tenantRow = NoClient
    /\ rowsSeen = [c \in Clients |-> account]
    /\ request = [c \in Clients |-> NothingAsked]
    /\ versions = {}

\* cloud_accounts_tenant_provider_external_ref_key
Free(a, ref) == \A b \in Accounts \ {a} : account[b] # NoAccount => account[b].ref # ref

End(c, answer) ==
    /\ request' = [request EXCEPT ![c] = [NothingAsked EXCEPT !.pc = "answered", !.answer = answer]]
    /\ tenantRow' = IF tenantRow = c THEN NoClient ELSE tenantRow

Ready(c) == request[c].pc \in {"idle", "answered"}

-----------------------------------------------------------------------------
\* create: a single statement, with no transaction around it.
CreateAccount(c, a, ref, label) ==
    /\ Ready(c)
    /\ account[a] = NoAccount
    /\ Free(a, ref)
    /\ time < LastTime
    /\ time' = time + 1
    /\ LET row == [ref |-> ref, label |-> label, active |-> TRUE, updatedAt |-> time']
       IN /\ account' = [account EXCEPT ![a] = row]
          /\ versions' = versions \cup {<<a, row>>}
          /\ rowsSeen' = [rowsSeen EXCEPT ![c][a] = row]
    /\ UNCHANGED <<tenantRow, request>>

\* list: what was committed.
List(c) ==
    /\ Ready(c)
    /\ rowsSeen' = [rowsSeen EXCEPT ![c] = account]
    /\ UNCHANGED <<account, time, tenantRow, request, versions>>

\* BEGIN of a PATCH, with the version the client read and one column at least,
\* or of a deactivation, which names no version.  Its time is its own: now() has
\* microseconds, and two transactions that shared one could give a version two contents.
Begin(c, a, kind, ref, label) ==
    /\ Ready(c)
    /\ rowsSeen[c][a] # NoAccount
    /\ kind = "patch" <=> {ref, label} # {Absent}
    /\ time < LastTime
    /\ time' = time + 1
    /\ request' = [request EXCEPT ![c] = [NothingAsked EXCEPT
           !.kind = kind, !.pc = "begun", !.account = a, !.began = time',
           !.expected = rowsSeen[c][a].updatedAt, !.ref = ref, !.label = label]]
    /\ UNCHANGED <<account, tenantRow, rowsSeen, versions>>

\* SELECT ... FROM tenants ... FOR UPDATE
LockTenant(c) ==
    /\ request[c].pc = "begun"
    /\ tenantRow = NoClient
    /\ tenantRow' = c
    /\ request' = [request EXCEPT ![c].pc = "locked"]
    /\ UNCHANGED <<account, time, rowsSeen, versions>>

\* updateAccount: the columns that are given, and updated_at by the trigger.
Changed(c) ==
    LET r == request[c] IN
    [account[r.account] EXCEPT !.ref = IF r.ref = Absent THEN @ ELSE r.ref,
                               !.label = IF r.label = Absent THEN @ ELSE r.label,
                               !.updatedAt = r.began]

\* Fault: the version is not compared.
PatchBlindly(c) ==
    /\ request[c].pc = "locked" /\ request[c].kind = "patch"
    /\ request' = [request EXCEPT ![c] = [@ EXCEPT !.row = Changed(c), !.pc = "updated"]]
    /\ UNCHANGED <<account, time, tenantRow, rowsSeen, versions>>

\* patch: lockAccount, the version, updateAccount.
Patch(c) ==
    LET r == request[c] IN
    /\ r.pc = "locked" /\ r.kind = "patch"
    /\ IF account[r.account] = NoAccount THEN End(c, "not_found")
       ELSE IF account[r.account].updatedAt # r.expected THEN End(c, "version_conflict")
       ELSE IF r.ref # Absent /\ ~Free(r.account, r.ref) THEN End(c, "conflict")
       ELSE /\ request' = [request EXCEPT ![c] = [@ EXCEPT !.row = Changed(c), !.pc = "updated"]]
            /\ UNCHANGED tenantRow
    /\ UNCHANGED <<account, time, rowsSeen, versions>>

\* deactivate: an inactive account stays as it is.
Deactivate(c) ==
    LET r == request[c]  row == account[r.account] IN
    /\ r.pc = "locked" /\ r.kind = "deactivate"
    /\ IF row = NoAccount THEN End(c, "not_found")
       ELSE /\ request' = [request EXCEPT ![c] = [@ EXCEPT !.pc = "updated",
                  !.row = IF row.active
                          THEN [row EXCEPT !.active = FALSE, !.updatedAt = r.began]
                          ELSE row]]
            /\ UNCHANGED tenantRow
    /\ UNCHANGED <<account, time, rowsSeen, versions>>

\* COMMIT: the client sees the row, unless the answer is lost.
Commit(c) ==
    LET a == request[c].account  row == request[c].row IN
    /\ request[c].pc = "updated"
    /\ account' = [account EXCEPT ![a] = row]
    /\ versions' = versions \cup {<<a, row>>}
    /\ \/ End(c, "updated") /\ rowsSeen' = [rowsSeen EXCEPT ![c][a] = row]
       \/ CallsFail /\ End(c, "unavailable") /\ UNCHANGED rowsSeen
    /\ UNCHANGED time

\* A query fails: ROLLBACK.
RollBackPatch(c) ==
    /\ CallsFail
    /\ request[c].pc \in {"begun", "locked", "updated"}
    /\ End(c, "unavailable")
    /\ UNCHANGED <<account, time, rowsSeen, versions>>

RequestStep(c) == Patch(c) \/ Deactivate(c) \/ Commit(c)

AccountsNext ==
    \E c \in Clients :
        \/ \E a \in Accounts, ref \in Refs, label \in Labels : CreateAccount(c, a, ref, label)
        \/ \E a \in Accounts, kind \in {"patch", "deactivate"},
              ref \in Refs \cup {Absent}, label \in Labels \cup {Absent} :
                Begin(c, a, kind, ref, label)
        \/ List(c) \/ LockTenant(c) \/ RequestStep(c) \/ RollBackPatch(c)

AccountsSpec == AccountsInit /\ [][AccountsNext]_accountVars

-----------------------------------------------------------------------------
(* Properties *)

\* A version names one content of an account: updated_at may go back, when a
\* transaction waited for a later one, but never to a value used before.
VersionNamesContent ==
    \A v, w \in versions : v[1] = w[1] /\ v[2].updatedAt = w[2].updatedAt => v = w

\* A patch changes only what its author had read: nothing committed in
\* between, by another patch or by a deactivation, is lost.
NoLostUpdate ==
    \A c \in Clients :
        LET r == request[c] IN
        r.pc = "updated" /\ r.kind = "patch" /\ account'[r.account] # account[r.account]
            => rowsSeen[c][r.account] = account[r.account]

\* A deactivation holds whatever is patched at the same time, and undoes no
\* column of a patch that came between.
DeactivationHolds ==
    \A a \in Accounts :
        account[a] # NoAccount =>
            /\ account'[a].active => account[a].active
            /\ account[a].active /\ ~account'[a].active =>
                account'[a].label = account[a].label /\ account'[a].ref = account[a].ref

\* No step of any transaction loses what another committed, or gives a version a second content.
AccountsLoseNothing == [][NoLostUpdate /\ DeactivationHolds /\ VersionNamesContent']_accountVars
=============================================================================
