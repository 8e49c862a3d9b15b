----------------------------- MODULE Notifications -----------------------------
(***************************************************************************)
(* In-app notifications (core/notifications): emit() lists the recipients  *)
(* of an event and inserts one row for each whose preferences let it       *)
(* through, with no transaction around the loop; users mark their rows     *)
(* read and replace their preferences, and administrators may lock a       *)
(* preference.  Roles change and users are deactivated meanwhile.          *)
(***************************************************************************)
EXTENDS Naturals, Sequences, FiniteSets

CONSTANTS
    Users,         \* users of a tenant, its administrator among them
    Topics,        \* events: what makes a row unique but for its recipient
    Urgency,       \* Urgency[e]: "low" or "high"; "medium" is as "low"
    Roles,         \* Roles[e]: the roles the event goes to
    Bodies,        \* bodies of PUT /api/settings/notifications: sets of Inputs
    MaxEmissions,  \* how often an event is emitted
    EmissionsFail  \* whether the calls of an emission fail

Channels == {"in_app", "email"}
RoleNames == {"tenant_admin", "finops_analyst"}
Keys == Topics \X Channels

\* One input of replacePreferences: key, urgency, enabled, and lockedByAdmin,
\* which may be left out.
Inputs == [key : Keys, urgency : {"low", "high"}, enabled : BOOLEAN,
           lockedByAdmin : {"absent", "true", "false"}]

ASSUME NotificationsAssumption ==
    /\ Urgency \in [Topics -> {"low", "high"}]
    /\ Roles \in [Topics -> SUBSET RoleNames]
    /\ \A inputs \in Bodies : inputs \subseteq Inputs
    /\ MaxEmissions \in Nat
    /\ Users # {} /\ EmissionsFail \in BOOLEAN

VARIABLES
    active,   \* users that are active
    role,     \* role[u]: the role of user u
    prefs,    \* prefs[u][e, c]: the preference of u for the type of e on channel c
    notices,  \* notices[u][e]: the rows of u for e, by their status
    context,  \* context[u]: the role in the request of u under way, or "none"
    emit,     \* emit[e]: the emission of e under way
    count,    \* count[e]: emissions of e so far
    wasLocked \* history: users that had a locked preference

noticeVars == <<active, role, prefs, notices, context, emit, count, wasLocked>>

-----------------------------------------------------------------------------
(* States *)

Preference == [urgency : {"low", "high"}, enabled : BOOLEAN, locked : BOOLEAN]
NoPreference == [urgency |-> "low", enabled |-> TRUE, locked |-> FALSE]

\* listed: the recipients found.  todo: those of them still to serve.
Emission == [pc : {"idle", "list", "serve", "insert", "done", "failed"},
             listed : SUBSET Users, todo : SUBSET Users, user : Users]

NoticesTypeOK ==
    /\ active \subseteq Users
    /\ role \in [Users -> RoleNames]
    /\ prefs \in [Users -> [Keys -> Preference]]
    /\ \A u \in Users, e \in Topics : notices[u][e] \in Seq({"unread", "read"})
    /\ context \in [Users -> RoleNames \cup {"none"}]
    /\ emit \in [Topics -> Emission]
    /\ count \in [Topics -> 0 .. MaxEmissions]
    /\ wasLocked \subseteq Users

NoticesInit ==
    /\ active = Users
    /\ role \in [Users -> RoleNames]
    /\ prefs = [u \in Users |-> [k \in Keys |-> NoPreference]]
    /\ notices = [u \in Users |-> [e \in Topics |-> <<>>]]
    /\ context = [u \in Users |-> "none"]
    /\ emit = [e \in Topics |-> [pc |-> "idle", listed |-> {}, todo |-> {},
                                 user |-> CHOOSE u \in Users : TRUE]]
    /\ count = [e \in Topics |-> 0]
    /\ wasLocked = {}

\* notification_preferences_lock_check
LockCheck(key, row) == row.locked => row.urgency = "high" /\ key[2] = "in_app"

-----------------------------------------------------------------------------
(* Users: patched by administrators, reading, setting preferences *)

ChangeUser(u) ==
    /\ \/ role' = [role EXCEPT ![u] = CHOOSE r \in RoleNames : r # role[u]] /\ UNCHANGED active
       \/ active' = active \ {u} /\ UNCHANGED role
    /\ UNCHANGED <<prefs, notices, context, emit, count, wasLocked>>

\* app.authenticate puts the role of the user in the context of the request.
Authenticate(u) ==
    /\ u \in active
    /\ context[u] = "none"
    /\ context' = [context EXCEPT ![u] = role[u]]
    /\ UNCHANGED <<active, role, prefs, notices, emit, count, wasLocked>>

\* markRead: a row of the user; one that is read stays as it is.
MarkRead(u, e) ==
    /\ context[u] # "none"
    /\ context' = [context EXCEPT ![u] = "none"]
    /\ \E i \in DOMAIN notices[u][e] : notices' = [notices EXCEPT ![u][e][i] = "read"]
    /\ UNCHANGED <<active, role, prefs, emit, count, wasLocked>>

Locked(input, previous) ==
    IF input.lockedByAdmin = "absent" THEN previous.locked ELSE input.lockedByAdmin = "true"

\* The two preferenceConflict() of replacePreferences.
Refused(u, input) ==
    LET previous == prefs[u][input.key] IN
    \/ /\ context[u] # "tenant_admin"
       /\ input.lockedByAdmin # "absent" \/ (previous.locked /\ ~input.enabled)
    \/ input.urgency = "high" /\ ~input.enabled /\ ~Locked(input, previous)

\* The row of the INSERT.
Proposed(u, input) ==
    [urgency |-> input.urgency, enabled |-> input.enabled,
     locked |-> Locked(input, prefs[u][input.key])]

\* Fault: the update does not look at the lock.
UpsertAnyway(u, input) == Proposed(u, input)

\* INSERT ... ON CONFLICT DO UPDATE ... WHERE NOT locked OR the actor is an
\* administrator: another's input for a locked row changes nothing.
Upsert(u, input) ==
    LET previous == prefs[u][input.key] IN
    IF previous.locked /\ context[u] # "tenant_admin" THEN previous ELSE Proposed(u, input)

\* replacePreferences: one transaction with the tenant row, all or nothing.
\* parseNotificationPreferences refuses two inputs of one key.
ReplacePreferences(u, inputs) ==
    /\ context[u] # "none"
    /\ context' = [context EXCEPT ![u] = "none"]
    /\ \A i, j \in inputs : i.key = j.key => i = j
    /\ prefs' = IF \E i \in inputs : Refused(u, i) \/ ~LockCheck(i.key, Proposed(u, i)) THEN prefs
                ELSE [prefs EXCEPT ![u] = [k \in Keys |->
                        IF \E i \in inputs : i.key = k
                        THEN Upsert(u, CHOOSE i \in inputs : i.key = k) ELSE prefs[u][k]]]
    /\ wasLocked' = IF \E k \in Keys : prefs'[u][k].locked THEN wasLocked \cup {u} ELSE wasLocked
    /\ UNCHANGED <<active, role, notices, emit, count>>

-----------------------------------------------------------------------------
(* emit *)

\* notificationEnabled
NotificationEnabled(u, e) ==
    LET preference == prefs[u][<<e, "in_app">>] IN
    \/ preference.enabled
    \/ Urgency[e] = "high" /\ ~preference.locked

\* A hook emits the event, once; a test does it twice.  The template is read.
Emit(e) ==
    /\ emit[e].pc \in {"idle", "done", "failed"}
    /\ count[e] < MaxEmissions
    /\ count' = [count EXCEPT ![e] = @ + 1]
    /\ emit' = [emit EXCEPT ![e].pc = "list"]
    /\ UNCHANGED <<active, role, prefs, notices, context, wasLocked>>

\* listRecipients: the active users of the roles (or those named).
ListRecipients(e) ==
    /\ emit[e].pc = "list"
    /\ LET found == {u \in active : role[u] \in Roles[e]} IN
       emit' = [emit EXCEPT ![e] = [pc |-> "serve", listed |-> found, todo |-> found,
                                    user |-> @.user]]
    /\ UNCHANGED <<active, role, prefs, notices, context, count, wasLocked>>

\* listPreferences of the next recipient.
ServeRecipient(e, u) ==
    /\ emit[e].pc = "serve"
    /\ u \in emit[e].todo
    /\ emit' = [emit EXCEPT ![e] = [pc |-> IF NotificationEnabled(u, e) THEN "insert" ELSE "serve",
                                    listed |-> @.listed, todo |-> @.todo \ {u}, user |-> u]]
    /\ UNCHANGED <<active, role, prefs, notices, context, count, wasLocked>>

\* Fault: INSERT without WHERE NOT EXISTS.
CreateForRecipientAgain(e) ==
    /\ emit[e].pc = "insert"
    /\ notices' = [notices EXCEPT ![emit[e].user][e] = Append(@, "unread")]
    /\ emit' = [emit EXCEPT ![e].pc = "serve"]
    /\ UNCHANGED <<active, role, prefs, context, count, wasLocked>>

\* createForRecipient: INSERT ... WHERE NOT EXISTS, one statement.
CreateForRecipient(e) ==
    /\ emit[e].pc = "insert"
    /\ notices' = IF notices[emit[e].user][e] # <<>> THEN notices
                  ELSE [notices EXCEPT ![emit[e].user][e] = <<"unread">>]
    /\ emit' = [emit EXCEPT ![e].pc = "serve"]
    /\ UNCHANGED <<active, role, prefs, context, count, wasLocked>>

Emitted(e) ==
    /\ emit[e].pc = "serve"
    /\ emit[e].todo = {}
    /\ emit' = [emit EXCEPT ![e].pc = "done"]
    /\ UNCHANGED <<active, role, prefs, notices, context, count, wasLocked>>

\* Any call of the loop fails: the rest of the recipients get nothing, and
\* nobody tries again.
EmitFails(e) ==
    /\ EmissionsFail
    /\ emit[e].pc \in {"list", "serve", "insert"}
    /\ emit' = [emit EXCEPT ![e].pc = "failed"]
    /\ UNCHANGED <<active, role, prefs, notices, context, count, wasLocked>>

-----------------------------------------------------------------------------
(* Specification *)

NoticesNext ==
    \/ \E u \in Users : \/ ChangeUser(u) \/ Authenticate(u)
                        \/ \E e \in Topics : MarkRead(u, e)
                        \/ \E inputs \in Bodies : ReplacePreferences(u, inputs)
    \/ \E e \in Topics : \/ Emit(e) \/ ListRecipients(e) \/ CreateForRecipient(e)
                         \/ Emitted(e) \/ EmitFails(e)
                         \/ \E u \in Users : ServeRecipient(e, u)

NoticesSpec == NoticesInit /\ [][NoticesNext]_noticeVars

-----------------------------------------------------------------------------
(* Properties *)

\* A recipient has one row for an event, however often it is emitted and
\* whatever failed before (createForRecipient).
OneNoticePerRecipient == \A u \in Users, e \in Topics : Len(notices[u][e]) <= 1

\* What is urgent reaches every recipient that no administrator's lock has
\* muted: a user cannot opt out of it (replacePreferences and
\* notificationEnabled together).
UrgentReaches ==
    \A e \in Topics, u \in Users :
        /\ Urgency[e] = "high" /\ emit[e].pc = "done" /\ u \in emit[e].listed
        /\ u \notin wasLocked
        => notices[u][e] # <<>>

\* Urgent is muted by a lock only, and a lock is an in-app one
\* (replacePreferences, notification_preferences_lock_check).
MutedOnlyByLock ==
    \A u \in Users, k \in Keys :
        LET row == prefs[u][k] IN
        /\ row.urgency = "high" /\ ~row.enabled => row.locked
        /\ row.locked => k[2] = "in_app"

\* A preference that an administrator locked is changed by an administrator
\* only: not by the user after losing the role, whatever the user sends.
LocksHold ==
    \A u \in Users, k \in Keys :
        prefs[u][k].locked /\ prefs'[u][k] # prefs[u][k] => context[u] = "tenant_admin"

\* A row that was read stays read, and only its recipient reads it.
ReadByRecipient ==
    \A u \in Users, e \in Topics : \A i \in DOMAIN notices[u][e] :
        /\ i \in DOMAIN notices'[u][e]
        /\ notices'[u][e][i] # notices[u][e][i] =>
               notices'[u][e][i] = "read" /\ context[u] # "none" /\ context'[u] = "none"

\* Notices arrive, once: an event has one row for each recipient, however often it is
\* emitted and whatever failed before; an urgent one reaches everybody no administrator's
\* lock has muted, and nothing but an in-app lock mutes.
NoticesArrive == NoticesTypeOK /\ OneNoticePerRecipient /\ UrgentReaches /\ MutedOnlyByLock

\* Nobody else changes what is a user's or an administrator's: a locked preference is
\* changed by an administrator, and a notice that was read stays read and was read by
\* its recipient, also when roles change while requests are under way.
NobodyElseChanges == [][LocksHold /\ ReadByRecipient]_noticeVars
=============================================================================
