----------------------------- MODULE MCIdentity -----------------------------
(***************************************************************************)
(* Who may use the system, for TLC.  component says what moves in a        *)
(* behaviour: operators that provision the first administrator; sessions   *)
(* of two administrators, of one who is patched and whose password is      *)
(* reset, or of one in three requests at a time; registrations; or         *)
(* rotations and setups, two of either.  The check a setup makes of the    *)
(* key chains is compared with a reference for any three keys.             *)
(***************************************************************************)
EXTENDS Sessions, AdminProvisioning, Registration, ApiKeys, TLC

VARIABLE component

\* The two keys share a lock; a body, another spelling of it, another and a broken one.
TwoKeysOneLock == [k \in {"k1", "k2"} |-> "l1"]
DigestOfBody == [plain |-> "d1", spaced |-> "d1", other |-> "d2", broken |-> Invalid]

-----------------------------------------------------------------------------
(* What moves in the three kinds of sessions *)

AtMost(n) == Cardinality({p \in Processes : tx'[p] # Idle}) <= n
Without(pcs) == \A p \in Processes : tx'[p].pc \notin pcs
AboutAlice ==
    \A p \in Processes : tx'[p].pc \in {"loginBegin", "patch", "password"} => tx'[p].user = "alice"
NoExchange ==
    \A p \in Processes : tx'[p].pc = "refresh" => tx'[p].token < Len(tokens[tx'[p].family])
Asking(pc, what, values) == \A p \in Processes : tx'[p].pc = pc => tx'[p].next[what] \in values

\* Two administrators patch each other, and one logs in and out: which one of them it
\* is, nothing else tells.
Crossed == AtMost(2) /\ Without({"create", "password"}) /\ NoExchange
           /\ \A f \in Families : family'[f].state # "absent" => family'[f].user = "alice"

\* One may be deactivated, and so may his tenant; he gets passwords while his session is
\* refreshed.
Resetting == AtMost(2) /\ Without({"create"}) /\ AboutAlice
             /\ Asking("patch", "role", {"tenant_admin"})

\* Three requests at a time: logins, passwords, logouts, and an analyst who is created.
Crowding == Without({"patch"}) /\ AboutAlice /\ NoExchange
            /\ Asking("create", "active", {TRUE})
            /\ Asking("create", "role", {"finops_analyst"})

-----------------------------------------------------------------------------
(* Two rotators that write plain notes and a setup, or one that may copy   *)
(* the note of the first key and two setups.                               *)

\* Tenants and keys get identifiers in one order: nothing else tells them apart.
Issued == KeyIds \ FreshIds
InOrder ==
    /\ owners' # {} => "ta" \in owners'
    /\ \A i \in Issued' \ Issued : 1 .. i \subseteq Issued'

Rotating == setup'["s2"].pc = "none" /\ \A r \in Rotators : rotation'[r].note # Marker
SettingUp == rotation'["r2"].pc = "none" /\ clock' <= 1

-----------------------------------------------------------------------------
(* The check of the key chains: three keys of two tenants, any origins and *)
(* up to two audited rotations, well-formed or not.                        *)

ThreeKeys == 1 .. 3

AnAudit(n, old, new, tenant) ==
    [id |-> n, tenant |-> tenant, old |-> old, new |-> new, oldCreated |-> 0, newCreated |-> 0,
     revoked |-> 1, at |-> 1]

SomeKeys ==
    {ks \in [ThreeKeys -> [tenant : {"ta", "tb"}, created : {0}, revoked : {NotRevoked, 1}]] :
       ks[1].tenant = "ta"}
SomeOrigins ==
    {{[key |-> k, tenant |-> t[k]] : k \in K} : K \in SUBSET ThreeKeys, t \in [ThreeKeys -> {"ta", "tb"}]}
SomeAudits(n, ks) ==
    {{}} \cup {{AnAudit(n, old, new, ks[old].tenant)} : old, new \in ThreeKeys}

\* A setup accepts exactly the forests.
ASSUME ForestsAreAccepted ==
    \A ks \in SomeKeys, roots \in SomeOrigins :
        \A a \in SomeAudits(1, ks), b \in SomeAudits(2, ks) :
            ChainsAccepted(roots, ks, a \cup b) <=> IsForest(roots, ks, a \cup b)

-----------------------------------------------------------------------------
\* What does not move stays as it is, in one of its initial states.
NoProvisioning ==
    /\ ProvisioningInit
    /\ target = [o \in Operators |-> CHOOSE e \in Emails : TRUE]
    /\ member = [e \in Emails |-> None]
NoRegistration ==
    RegistrationInit /\ sent = [c \in Clients |-> [key |-> Invalid, body |-> "broken"]]

MCInit ==
    /\ Init /\ ApiKeysInit
    /\ \/ component = "provisioning" /\ ProvisioningInit /\ NoRegistration
       \/ component = "registering" /\ RegistrationInit /\ sent["c1"].key = "k1" /\ NoProvisioning
       \/ component \in {"crossed", "resetting", "crowding", "rotating", "settingUp"}
          /\ NoProvisioning /\ NoRegistration

MCNext ==
    /\ component' = component
    /\ \/ component = "provisioning" /\ ProvisioningNext
          /\ UNCHANGED <<vars, registrationVars, apiKeyVars>>
       \/ Next /\ \/ component = "crossed" /\ Crossed
                  \/ component = "resetting" /\ Resetting
                  \/ component = "crowding" /\ Crowding
          /\ UNCHANGED <<provisioningVars, registrationVars, apiKeyVars>>
       \/ component = "registering" /\ RegistrationNext
          /\ UNCHANGED <<vars, provisioningVars, apiKeyVars>>
       \/ ApiKeysNext /\ InOrder
          /\ \/ component = "rotating" /\ Rotating
             \/ component = "settingUp" /\ SettingUp
          /\ UNCHANGED <<vars, provisioningVars, registrationVars>>

MCSpec ==
    MCInit /\ [][MCNext]_<<component, vars, provisioningVars, registrationVars, apiKeyVars>>

\* Requests that only differ in their process are one.
Symmetric == Permutations(Processes)
=============================================================================
