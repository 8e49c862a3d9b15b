------------------------------ MODULE ApiKeys -------------------------------
(***************************************************************************)
(* API keys over their life: setup makes the first tenant with its         *)
(* administrator and its key, registrations add tenants with a key each,   *)
(* administrators rotate keys, and setup is run again at any time.         *)
(*                                                                         *)
(* A rotation is one transaction that locks the key, revokes it, inserts   *)
(* its replacement and writes the audit row.  A setup holds the            *)
(* initialization lock and reads the counts, the origins, the keys and the *)
(* audit rows in four statements, each seeing what has been committed by   *)
(* then; it makes the first tenant when all counts are zero, and otherwise *)
(* accepts the state or calls it ambiguous.                                *)
(*                                                                         *)
(* Registration's transaction is module Registration; here it is its       *)
(* commit.  Times are the order in which rotations began.                  *)
(***************************************************************************)
EXTENDS RotationChains

CONSTANTS
  Rotators,       \* concurrent requests to POST /api/api-keys/rotate
  Setups,         \* concurrent runs of the setup command
  KeyIds,         \* key identifiers the database can generate (bound)
  Tenants,        \* tenants it can generate (bound)
  Notes,          \* notes administrators write on a replacement
  Marker,         \* the note system:first-run:v1
  InitialNote,    \* the note of a registration's key
  Administrators, \* people who can be tenant administrators of the first tenant
  Configured,     \* the one setup is configured with
  MaxTime,        \* rotations begun (bound)
  MaxLosses,      \* lost connections and crashes considered (bound)
  NoKeyId, NoSetup

ASSUME ApiKeysAssumption ==
  /\ Configured \in Administrators
  /\ MaxTime \in Nat /\ MaxLosses \in Nat
  /\ NotRevoked \notin 0 .. MaxTime /\ Marker # InitialNote
  /\ NoKeyId \notin KeyIds /\ NoSetup \notin Setups

VARIABLES
  owners,      \* committed rows of tenants
  keys,        \* committed rows of api_keys
  registered,  \* succeeded registrations: [key, tenant]
  audits,      \* committed rows of action api_key.rotated
  admins,      \* tenant administrators of the first tenant
  clock,       \* rotations begun
  rotation,    \* rotation[r]: the transaction of request r
  lockHolder,  \* the setup holding the initialization lock
  setup,       \* setup[s]: a run and what it has read
  quiet,       \* quiet[s]: nothing was committed since s began on a well-formed state
  seen,        \* seen[s]: keys in force for the first tenant since s began
  created,     \* runs that made a first tenant
  losses

apiKeyVars == <<owners, keys, registered, audits, admins, clock, rotation, lockHolder, setup,
                quiet, seen, created, losses>>
database == <<owners, keys, registered, audits, admins>>
ghosts == <<quiet, seen, created>>

KeyRow == [tenant : Tenants, note : Notes \cup {Marker, InitialNote},
           created : 0 .. MaxTime, revoked : 0 .. MaxTime \cup {NotRevoked}]
NoKeys == [k \in {} |-> Marker]

Markers(ks) == {k \in DOMAIN ks : ks[k].note = Marker}
InForce(ks, t) == {k \in DOMAIN ks : ks[k].tenant = t /\ ks[k].revoked = NotRevoked}
FirstTenants(ks) == {ks[k].tenant : k \in Markers(ks)}

IdleRotation == [pc |-> "none", key |-> NoKeyId, note |-> InitialNote, time |-> 0, new |-> NoKeyId]
IdleSetup == [pc |-> "none", origins |-> {}, keys |-> NoKeys, audits |-> {}, key |-> NoKeyId]

ApiKeysInit ==
  /\ owners = {} /\ keys = NoKeys /\ registered = {} /\ audits = {} /\ admins = {}
  /\ clock = 0
  /\ rotation = [r \in Rotators |-> IdleRotation]
  /\ lockHolder = NoSetup
  /\ setup = [s \in Setups |-> IdleSetup]
  /\ quiet = [s \in Setups |-> FALSE]
  /\ seen = [s \in Setups |-> {}]
  /\ created = {}
  /\ losses = 0

FreshIds == KeyIds \ (DOMAIN keys \cup {rotation[r].new : r \in Rotators}
                                  \cup {setup[s].key : s \in Setups})

\* What setup, registrations and rotations make of an initialized database, but for the
\* rotations that give their key the note of the first.
WellFormed == created # {} /\ Markers(keys) = created /\ admins = {Configured}

\* A commit is seen by every setup that is under way.
Committed ==
  /\ quiet' = [s \in Setups |-> FALSE]
  /\ seen' = [s \in Setups |-> seen[s] \cup UNION {InForce(keys', t) : t \in FirstTenants(keys')}]

(***************************************************************************)
(* Rotation                                                                *)
(***************************************************************************)

\* WHERE revoked_at IS NULL
Selectable(k, ks) == k \in DOMAIN ks /\ ks[k].revoked = NotRevoked

RowLocked(k) == \E r \in Rotators : rotation[r].pc \in {"locked", "written"} /\ rotation[r].key = k

\* The request names a key its sender has seen; the transaction's time is taken
\* at BEGIN.
BeginRotation(r) ==
  /\ rotation[r].pc = "none" /\ clock < MaxTime
  /\ clock' = clock + 1
  /\ \E k \in DOMAIN keys, note \in Notes :
       rotation' = [rotation EXCEPT ![r] =
         [pc |-> "begun", key |-> k, note |-> note, time |-> clock + 1, new |-> NoKeyId]]
  /\ UNCHANGED <<database, lockHolder, setup, ghosts, losses>>

\* SELECT ... FOR UPDATE waits for the row's lock and looks at the row again; a
\* revoked key is not found.
LockSelectedKey(r) ==
  /\ rotation[r].pc = "begun" /\ ~RowLocked(rotation[r].key)
  /\ rotation' = [rotation EXCEPT ![r] =
       IF Selectable(rotation[r].key, keys) THEN [@ EXCEPT !.pc = "locked"] ELSE IdleRotation]
  /\ UNCHANGED <<database, clock, lockHolder, setup, ghosts, losses>>

\* revokeSelectedKey, insertReplacement and insertRotationAudit, none of them
\* visible before the commit.
WriteRotation(r) ==
  /\ rotation[r].pc = "locked" /\ Selectable(rotation[r].key, keys)
  /\ \E i \in FreshIds : rotation' = [rotation EXCEPT ![r].pc = "written", ![r].new = i]
  /\ UNCHANGED <<database, clock, lockHolder, setup, ghosts, losses>>

RotationAudit(x, at) ==
  [id |-> x.new, tenant |-> keys[x.key].tenant, old |-> x.key, new |-> x.new,
   oldCreated |-> keys[x.key].created, newCreated |-> x.time, revoked |-> x.time, at |-> at]

KeysAfter(x) ==
  [k \in DOMAIN keys \cup {x.new} |->
     IF k = x.new THEN [tenant |-> keys[x.key].tenant, note |-> x.note,
                        created |-> x.time, revoked |-> NotRevoked]
     ELSE IF k = x.key THEN [keys[k] EXCEPT !.revoked = x.time] ELSE keys[k]]

CommitRotation(r) ==
  /\ rotation[r].pc = "written"
  /\ keys' = KeysAfter(rotation[r])
  /\ audits' = audits \cup {RotationAudit(rotation[r], rotation[r].time)}
  /\ rotation' = [rotation EXCEPT ![r] = IdleRotation]
  /\ Committed
  /\ UNCHANGED <<owners, registered, admins, clock, lockHolder, setup, created, losses>>

RotationFails(r) ==
  /\ rotation[r].pc # "none" /\ losses < MaxLosses
  /\ losses' = losses + 1
  /\ rotation' = [rotation EXCEPT ![r] = IdleRotation]
  /\ UNCHANGED <<database, clock, lockHolder, setup, ghosts>>

(***************************************************************************)
(* What else is committed while setup runs                                 *)
(***************************************************************************)

Register ==
  /\ \E t \in Tenants \ owners, i \in FreshIds :
       /\ owners' = owners \cup {t}
       /\ keys' = [k \in DOMAIN keys \cup {i} |->
                     IF k = i THEN [tenant |-> t, note |-> InitialNote, created |-> 0,
                                    revoked |-> NotRevoked]
                     ELSE keys[k]]
       /\ registered' = registered \cup {[key |-> i, tenant |-> t]}
  /\ Committed
  /\ UNCHANGED <<audits, admins, clock, rotation, lockHolder, setup, created, losses>>

\* The users service makes and unmakes administrators; one always remains.
ChangeAdministrators ==
  /\ admins # {}
  /\ admins' \in (SUBSET Administrators) \ {{}, admins}
  /\ UNCHANGED <<owners, keys, registered, audits, clock, rotation, lockHolder, setup, created,
                 losses>>
  /\ Committed

(***************************************************************************)
(* Setup                                                                   *)
(***************************************************************************)

\* Fault: the lock of another run is not waited for.
LockInitializationAnyway(s) ==
  /\ setup[s].pc \in {"none", "created", "existing", "ambiguous", "failed"}
  /\ lockHolder' = s
  /\ setup' = [setup EXCEPT ![s] = [IdleSetup EXCEPT !.pc = "locked"]]
  /\ quiet' = [quiet EXCEPT ![s] = WellFormed]
  /\ seen' = [seen EXCEPT ![s] = UNION {InForce(keys, t) : t \in FirstTenants(keys)}]
  /\ UNCHANGED <<database, clock, rotation, created, losses>>

\* A run begins: it waits for the initialization lock.
LockInitialization(s) ==
  /\ setup[s].pc \in {"none", "created", "existing", "ambiguous", "failed"}
  /\ lockHolder = NoSetup
  /\ lockHolder' = s
  /\ setup' = [setup EXCEPT ![s] = [IdleSetup EXCEPT !.pc = "locked"]]
  /\ quiet' = [quiet EXCEPT ![s] = WellFormed]
  /\ seen' = [seen EXCEPT ![s] = UNION {InForce(keys, t) : t \in FirstTenants(keys)}]
  /\ UNCHANGED <<database, clock, rotation, created, losses>>

\* A run ends without having written anything.
EndSetup(s, pc, key) ==
  /\ setup' = [setup EXCEPT ![s] = [IdleSetup EXCEPT !.pc = pc, !.key = key]]
  /\ lockHolder' = NoSetup

IsFresh == owners = {} /\ admins = {} /\ keys = NoKeys /\ registered = {}

\* The counts of an initialized state: one marker, and a tenant for it and for
\* each registration.
CountsAgree ==
  LET origins == 1 + Cardinality(registered)
  IN /\ Cardinality(Markers(keys)) = 1
     /\ Cardinality(owners) = origins
     /\ Cardinality(DOMAIN keys) >= origins

\* readFirstRunState, one statement.
ReadCounts(s) ==
  /\ setup[s].pc = "locked"
  /\ \/ /\ IsFresh
        /\ \E i \in FreshIds : setup' = [setup EXCEPT ![s].pc = "fresh", ![s].key = i]
        /\ UNCHANGED lockHolder
     \/ /\ ~IsFresh /\ CountsAgree
        /\ setup' = [setup EXCEPT ![s].pc = "origins"]
        /\ UNCHANGED lockHolder
     \/ /\ ~IsFresh /\ ~CountsAgree
        /\ EndSetup(s, "ambiguous", NoKeyId)
  /\ UNCHANGED <<database, clock, rotation, ghosts, losses>>

\* createState and COMMIT: the tenant, its administrator and its marked key.
CreateState(s) ==
  /\ setup[s].pc = "fresh"
  /\ \E t \in Tenants \ owners :
       /\ owners' = owners \cup {t}
       /\ keys' = [k \in DOMAIN keys \cup {setup[s].key} |->
                     IF k = setup[s].key THEN [tenant |-> t, note |-> Marker, created |-> 0,
                                               revoked |-> NotRevoked]
                     ELSE keys[k]]
       /\ admins' = {Configured}
  /\ EndSetup(s, "created", setup[s].key)
  /\ created' = created \cup {setup[s].key}
  /\ Committed
  /\ UNCHANGED <<registered, audits, clock, rotation, losses>>

ReadOrigins(s) ==
  /\ setup[s].pc = "origins"
  /\ setup' = [setup EXCEPT ![s].pc = "keys",
       ![s].origins =
         {[key |-> k, tenant |-> keys[k].tenant, source |-> "marker"] : k \in Markers(keys)} \cup
         {[key |-> o.key, tenant |-> o.tenant, source |-> "registration"] : o \in registered}]
  /\ UNCHANGED <<database, clock, rotation, lockHolder, ghosts, losses>>

ReadKeys(s) ==
  /\ setup[s].pc = "keys"
  /\ setup' = [setup EXCEPT ![s].pc = "audits", ![s].keys = keys]
  /\ UNCHANGED <<database, clock, rotation, lockHolder, ghosts, losses>>

ReadAudits(s) ==
  /\ setup[s].pc = "audits"
  /\ setup' = [setup EXCEPT ![s].pc = "verify", ![s].audits = audits]
  /\ UNCHANGED <<database, clock, rotation, lockHolder, ghosts, losses>>

\* verifySingleState and verifyInitializedAdmin: the marker's tenant has the
\* current key, and the configured administrator is its only one.
VerifySingleState(key) ==
  /\ key \in DOMAIN keys /\ keys[key].tenant \in FirstTenants(keys)
  /\ admins = {Configured}

Verify(s) ==
  /\ setup[s].pc = "verify"
  /\ LET x == setup[s]
         markers == {o \in x.origins : o.source = "marker"}
         current(o) == CurrentKey(o.key, x.keys, x.audits)
     IN \/ /\ ChainsAccepted(x.origins, x.keys, x.audits)
           /\ \E o \in markers : markers = {o} /\ VerifySingleState(current(o))
                                   /\ EndSetup(s, "existing", current(o))
        \/ /\ \/ ~ChainsAccepted(x.origins, x.keys, x.audits)
              \/ \A o \in markers : markers # {o} \/ ~VerifySingleState(current(o))
           /\ EndSetup(s, "ambiguous", NoKeyId)
  /\ UNCHANGED <<database, clock, rotation, ghosts, losses>>

SetupFails(s) ==
  /\ lockHolder = s /\ losses < MaxLosses
  /\ losses' = losses + 1
  /\ EndSetup(s, "failed", NoKeyId)
  /\ UNCHANGED <<database, clock, rotation, ghosts>>

ApiKeysNext ==
  \/ \E r \in Rotators : \/ BeginRotation(r) \/ LockSelectedKey(r) \/ WriteRotation(r)
                         \/ CommitRotation(r) \/ RotationFails(r)
  \/ Register \/ ChangeAdministrators
  \/ \E s \in Setups : \/ LockInitialization(s) \/ ReadCounts(s) \/ CreateState(s)
                       \/ ReadOrigins(s) \/ ReadKeys(s) \/ ReadAudits(s) \/ Verify(s)
                       \/ SetupFails(s)

ApiKeysSpec == ApiKeysInit /\ [][ApiKeysNext]_apiKeyVars
-----------------------------------------------------------------------------
ApiKeysTypeOK ==
  /\ owners \subseteq Tenants
  /\ DOMAIN keys \subseteq KeyIds /\ \A k \in DOMAIN keys : keys[k] \in KeyRow
  /\ registered \subseteq [key : KeyIds, tenant : Tenants]
  /\ admins \subseteq Administrators
  /\ clock \in 0 .. MaxTime
  /\ lockHolder \in Setups \cup {NoSetup}
  /\ \A s \in Setups : seen[s] \subseteq KeyIds /\ setup[s].key \in KeyIds \cup {NoKeyId}
  /\ losses \in 0 .. MaxLosses

\* Every tenant has exactly one API key in force, however rotations of the same
\* key race, fail and are repeated: nobody is locked out and no second key lives.
OneKeyInForce == \A t \in owners : Cardinality(InForce(keys, t)) = 1

\* Setup makes one first tenant: the runs that raced for it wait for each other and
\* the later ones find it.
CreatedOnce == Cardinality(created) <= 1

\* A repeated setup reports a key that has been in force for the first tenant
\* since that run began, however many rotations lie behind it.
ReportsCurrentKey == \A s \in Setups : setup[s].pc = "existing" => setup[s].key \in seen[s]

\* A repeated setup accepts what setup, registrations and rotations have made of
\* the database: it calls the state ambiguous only when something was committed
\* while it was reading, a rotation gave its key the note of the first one, or the
\* configured administrator is not the only one.
AcceptsHistory == \A s \in Setups : setup[s].pc = "ambiguous" => ~quiet[s]

\* Every tenant has one key in force, there is one first tenant, and a setup that is
\* repeated accepts a well-formed history and reports the key in force.
KeysAreSound ==
  ApiKeysTypeOK /\ OneKeyInForce /\ CreatedOnce /\ ReportsCurrentKey /\ AcceptsHistory
=============================================================================
