-------------------------- MODULE AdminProvisioning --------------------------
(***************************************************************************)
(* The operator's command that gives a tenant its first administrator, or  *)
(* the one it has a password (core/tenant/admin-provisioning.ts).  Several *)
(* operators run it with any e-mail while the users of the tenant are      *)
(* created and patched and passwords are reset through the API; runs die,  *)
(* and the reply of a commit is lost.                                      *)
(***************************************************************************)
EXTENDS FiniteSets, Naturals

CONSTANTS
  Emails, Operators, None,
  MaxChanges    \* transactions of the API (bound)

Member == [role : {"tenant_admin", "other"}, active : BOOLEAN]

ASSUME AdminProvisioningAssumption ==
  /\ MaxChanges \in Nat
  /\ None \notin Operators \cup Member \cup {"reset", "created", "exact_provisioned"}
  /\ "reset" \notin Operators

VARIABLES
  member,      \* member[e]: the role and is_active of the user with e-mail e, or None
  credential,  \* credential[e]: who wrote it: an operator, "reset", or None
  bootstraps,  \* user.admin_bootstrapped rows
  tenantLock,  \* the transaction that holds the tenant's row, or None
  step, target, \* of each operator: its step and the e-mail it was given
  mode,        \* what selectExactTarget returned, or None
  outcome,     \* what the operator is told
  changes

provisioningVars ==
  <<member, credential, bootstraps, tenantLock, step, target, mode, outcome, changes>>

Admins == {e \in Emails : member[e] # None /\ member[e].role = "tenant_admin"}
AdminsInForce == {e \in Admins : member[e].active}

\* Users came by the API or by an earlier setup; only users have credentials.
ProvisioningInit ==
  /\ member \in [Emails -> {None} \cup [role : {"tenant_admin", "other"}, active : {TRUE}]]
  /\ credential \in [Emails -> {None, "reset"}]
  /\ \A e \in Emails : credential[e] # None => member[e] # None
  /\ bootstraps = {} /\ tenantLock = None
  /\ step = [o \in Operators |-> "new"] /\ target \in [Operators -> Emails]
  /\ mode = [o \in Operators |-> None] /\ outcome = [o \in Operators |-> None]
  /\ changes = 0

GoOn(o, stage) == step' = [step EXCEPT ![o] = stage]

\* ROLLBACK, or the end of the session: the lock is free and nothing is kept.
Failed(o) ==
  /\ GoOn(o, "end")
  /\ outcome' = [outcome EXCEPT ![o] = "failed"]
  /\ tenantLock' = IF tenantLock = o THEN None ELSE tenantLock

-----------------------------------------------------------------------------
(* provisionTransaction *)

\* Fault: the tenant is read without FOR UPDATE.
LockNothing(o) ==
  /\ step[o] = "new"
  /\ GoOn(o, "select")
  /\ UNCHANGED <<member, credential, bootstraps, tenantLock, target, mode, outcome, changes>>

\* lockInitialization is held by whoever goes on to the tenant's row.
LockActiveTenant(o) ==
  /\ step[o] = "new" /\ tenantLock = None
  /\ tenantLock' = o
  /\ GoOn(o, "select")
  /\ UNCHANGED <<member, credential, bootstraps, target, mode, outcome, changes>>

\* No administrator: one is created.  The only one, active, matching and without a
\* credential, is provisioned.  Anything else is refused.
SelectExactTarget(o) ==
  LET t == target[o]
      found == CASE Admins = {} /\ member[t] = None -> "created"
                 [] Admins = {t} /\ member[t].active /\ credential[t] = None -> "exact_provisioned"
                 [] OTHER -> None
  IN /\ step[o] = "select"
     /\ mode' = [mode EXCEPT ![o] = found]
     /\ IF found = None THEN Failed(o) ELSE GoOn(o, "commit") /\ UNCHANGED <<outcome, tenantLock>>
     /\ UNCHANGED <<member, credential, bootstraps, target, changes>>

\* insertCredentialAndAudit and COMMIT: what the transaction wrote becomes visible at once.
\* Its reply may be lost, and then the catch reports a failure.
CommitProvisioning(o) ==
  LET t == target[o] IN
  /\ step[o] = "commit"
  /\ member' = IF mode[o] = "created"
             THEN [member EXCEPT ![t] = [role |-> "tenant_admin", active |-> TRUE]] ELSE member
  /\ credential' = [credential EXCEPT ![t] = o]
  /\ bootstraps' = bootstraps \cup {<<o, t, mode[o]>>}
  /\ tenantLock' = IF tenantLock = o THEN None ELSE tenantLock
  /\ GoOn(o, "end")
  /\ \E said \in {"succeeded", "failed"} : outcome' = [outcome EXCEPT ![o] = said]
  /\ UNCHANGED <<target, mode, changes>>

\* A statement, the connection, the password file or the commit fails, or the run dies.
Abort(o) ==
  /\ step[o] # "end" /\ Failed(o)
  /\ UNCHANGED <<member, credential, bootstraps, target, mode, changes>>

\* The operator runs the command again, perhaps with another e-mail.
RunAgain(o) ==
  /\ step[o] = "end" /\ changes < MaxChanges
  /\ changes' = changes + 1
  /\ \E e \in Emails : target' = [target EXCEPT ![o] = e]
  /\ GoOn(o, "new")
  /\ mode' = [mode EXCEPT ![o] = None] /\ outcome' = [outcome EXCEPT ![o] = None]
  /\ UNCHANGED <<member, credential, bootstraps, tenantLock>>

-----------------------------------------------------------------------------
(* The API: each a transaction that holds the tenant's row throughout *)

ByApi ==
  /\ tenantLock = None /\ changes < MaxChanges
  /\ changes' = changes + 1
  /\ UNCHANGED <<bootstraps, tenantLock, step, target, mode, outcome>>

ApiCreates(e) ==
  /\ ByApi /\ member[e] = None
  /\ \E u \in Member : member' = [member EXCEPT ![e] = u]
  /\ UNCHANGED credential

\* patchLocked: the last active administrator stays one.
ApiPatches(e) ==
  /\ ByApi /\ member[e] # None
  /\ \E u \in Member \ {member[e]} :
       /\ AdminsInForce = {e} => u.role = "tenant_admin" /\ u.active
       /\ member' = [member EXCEPT ![e] = u]
  /\ UNCHANGED credential

ApiResets(e) ==
  /\ ByApi /\ member[e] # None
  /\ credential' = [credential EXCEPT ![e] = "reset"]
  /\ UNCHANGED member

Provision(o) ==
  \/ LockActiveTenant(o) \/ SelectExactTarget(o) \/ CommitProvisioning(o) \/ Abort(o) \/ RunAgain(o)

ProvisioningNext ==
  \/ \E o \in Operators : Provision(o)
  \/ \E e \in Emails : ApiCreates(e) \/ ApiPatches(e) \/ ApiResets(e)

ProvisioningSpec == ProvisioningInit /\ [][ProvisioningNext]_provisioningVars
-----------------------------------------------------------------------------
ProvisioningTypeOK ==
  /\ member \in [Emails -> Member \cup {None}]
  /\ credential \in [Emails -> Operators \cup {"reset", None}]
  /\ \A e \in Emails : credential[e] # None => member[e] # None
  /\ tenantLock \in Operators \cup {None}
  /\ step \in [Operators -> {"new", "select", "commit", "end"}]
  /\ target \in [Operators -> Emails]
  /\ mode \in [Operators -> {"created", "exact_provisioned", None}]

\* "provisions only the one exact active credential-free admin"
\* (tests/integration/admin-provision-command.test.ts), whatever the API commits between
\* two statements: a credential is provisioned to the tenant's only administrator, who is
\* active and had none.
OnlyTheFirstAdmin ==
  [][\A e \in Emails : credential'[e] \in Operators /\ credential'[e] # credential[e] =>
       Admins' = {e} /\ AdminsInForce' = {e} /\ credential[e] = None]_provisioningVars

\* A password that an administrator has set or was given is never taken back by an
\* operator: what a run has written stays until a reset replaces it.
CredentialsStay ==
  [][\A e \in Emails :
       credential[e] # None => credential'[e] \in {credential[e], "reset"}]_provisioningVars

\* Every provisioning leaves one audit row, so an operator's credential is always backed by
\* the row of its run.
ProvisionedIsAudited ==
  \A e \in Emails : credential[e] \in Operators =>
    \E m \in {"created", "exact_provisioned"} : <<credential[e], e, m>> \in bootstraps
=============================================================================
