---------------------------- MODULE Registration ----------------------------
(***************************************************************************)
(* Self-registration: POST /api/tenants/register with an Idempotency-Key.  *)
(*                                                                         *)
(* One transaction takes the try-lock of the key, looks for the key's row  *)
(* in registration_requests, writes the row as pending, the tenant and its *)
(* API key, closes the row as succeeded and commits.  The credential is    *)
(* only in the reply, so a reply may be lost after its commit and a        *)
(* credential can never be shown again.                                    *)
(*                                                                         *)
(* Each client sends one request and repeats it until the answer is        *)
(* conclusive; several clients may send the same key, with the same        *)
(* request, another spelling of it, or another request.                    *)
(***************************************************************************)
EXTENDS FiniteSets, Naturals

CONSTANTS
  Clients,        \* who registers, each with one request it repeats
  Keys,           \* Idempotency-Key values, after trimming
  LockOf,         \* the first eight bytes of a key's digest
  Bodies,         \* request bodies as they are sent
  DigestOf,       \* the digest of a body's normalised form, or Invalid
  Invalid,        \* a body or a header that validation refuses
  Ids,            \* identifiers the database can generate (bound)
  MaxFailures,    \* connection losses and crashes considered (bound)
  Nobody, NoRow, NoId

VARIABLES
  sent,       \* sent[c]: the request of client c
  ledger,     \* ledger[k]: the committed row of registration_requests, or NoRow
  tenants,    \* committed rows of tenants: [id, digest]
  apiKeys,    \* committed rows of api_keys: [id, tenant]
  advisory,   \* advisory[l]: the holder of the transaction-level advisory lock l
  serving,         \* serving[c]: the transaction serving client c
  answer,     \* answer[c]: what client c was told last
  shown,      \* [client, apiKey] of every credential that reached its client
  failures    \* failures so far

registrationVars == <<sent, ledger, tenants, apiKeys, advisory, serving, answer, shown, failures>>

RegistrationRequest == [key : Keys \cup {Invalid}, body : Bodies]
Row == [digest : {DigestOf[b] : b \in Bodies}, tenant : Ids, apiKey : Ids]
ASSUME RegistrationAssumption ==
  /\ MaxFailures \in Nat
  /\ Invalid \notin Keys
  /\ NoId \notin Ids
  /\ Nobody \notin Clients
  /\ NoRow \notin Row

Tenant == [id : Ids, digest : {DigestOf[b] : b \in Bodies}]
ApiKey == [id : Ids, tenant : Ids]

\* The codes a client can be told; "waiting" is no answer yet.
Codes == {"waiting", "created", "in_progress", "key_reused", "not_replayable",
          "validation", "unavailable", "lost"}
Answer == [code : Codes, tenant : Ids \cup {NoId}, apiKey : Ids \cup {NoId}]
Told(code) == [code |-> code, tenant |-> NoId, apiKey |-> NoId]

\* A client repeats its request after these, for they settle nothing.
Conclusive == {"created", "key_reused", "not_replayable", "validation"}

Pc == {"none", "locked", "absent", "pending", "tenant", "api_key", "closed", "committed"}
Serving == [pc : Pc, tenant : Ids \cup {NoId}, apiKey : Ids \cup {NoId}]
NoTransaction == [pc |-> "none", tenant |-> NoId, apiKey |-> NoId]

Key(c) == sent[c].key
Digest(c) == DigestOf[sent[c].body]
Lock(c) == LockOf[Key(c)]

\* validateIdempotencyKey and normalizeTenantInput accept the request.
Valid(c) == Key(c) # Invalid /\ Digest(c) # Invalid

\* Identifiers no row has, committed or not.
Fresh == Ids \ (  {t.id : t \in tenants} \cup {k.id : k \in apiKeys}
                \cup {serving[c].tenant : c \in Clients}
                \cup {serving[c].apiKey : c \in Clients})

RegistrationInit ==
  /\ sent \in [Clients -> RegistrationRequest]
  /\ ledger = [k \in Keys |-> NoRow]
  /\ tenants = {} /\ apiKeys = {}
  /\ advisory = [l \in {LockOf[k] : k \in Keys} |-> Nobody]
  /\ serving = [c \in Clients |-> NoTransaction]
  /\ answer = [c \in Clients |-> Told("waiting")]
  /\ shown = {}
  /\ failures = 0

(***************************************************************************)
(* The server                                                              *)
(***************************************************************************)

\* The advisory lock is the transaction's and goes with it.
Release(c) == [l \in DOMAIN advisory |-> IF advisory[l] = c THEN Nobody ELSE advisory[l]]

\* The transaction ends without its writes and the client is told why.
Refuse(c, reply) ==
  /\ serving' = [serving EXCEPT ![c] = NoTransaction]
  /\ advisory' = Release(c)
  /\ answer' = [answer EXCEPT ![c] = reply]
  /\ UNCHANGED <<sent, ledger, tenants, apiKeys, shown>>

Reject(c) ==
  /\ answer[c].code = "waiting" /\ serving[c].pc = "none" /\ ~Valid(c)
  /\ Refuse(c, Told("validation"))
  /\ UNCHANGED failures

\* BEGIN and pg_try_advisory_xact_lock: no waiting.
AcquireRegistrationLock(c) ==
  /\ answer[c].code = "waiting" /\ serving[c].pc = "none" /\ Valid(c)
  /\ \/ /\ advisory[Lock(c)] = Nobody
        /\ serving' = [serving EXCEPT ![c].pc = "locked"]
        /\ advisory' = [advisory EXCEPT ![Lock(c)] = c]
        /\ UNCHANGED <<sent, ledger, tenants, apiKeys, answer, shown>>
     \/ /\ advisory[Lock(c)] # Nobody
        /\ Refuse(c, Told("in_progress"))
  /\ UNCHANGED failures

\* What a row already there means for the request of c.  The statuses pending
\* and failed are never committed by this code, so every row has succeeded.
Verdict(c, row) ==
  IF row.digest # Digest(c) THEN Told("key_reused")
  ELSE [code |-> "not_replayable", tenant |-> row.tenant, apiKey |-> row.apiKey]

\* SELECT ... FOR UPDATE of the key's row.  Nobody else has the row locked: its
\* writers hold the same advisory lock.
RejectExisting(c) ==
  /\ serving[c].pc = "locked"
  /\ \/ /\ ledger[Key(c)] = NoRow
        /\ serving' = [serving EXCEPT ![c].pc = "absent"]
        /\ UNCHANGED <<sent, ledger, tenants, apiKeys, advisory, answer, shown>>
     \/ /\ ledger[Key(c)] # NoRow
        /\ Refuse(c, Verdict(c, ledger[Key(c)]))
  /\ UNCHANGED failures

\* Some other transaction has written a row of this key and not committed it.
Inserting(c) == \E d \in Clients \ {c} : /\ Key(d) = Key(c)
                                         /\ serving[d].pc \in {"pending", "tenant", "api_key",
                                                               "closed"}

\* The unique index: an insert waits for the other writer of its key, and fails
\* once a row is there.
InsertPending(c) ==
  /\ serving[c].pc = "absent" /\ ~Inserting(c)
  /\ \/ /\ ledger[Key(c)] = NoRow
        /\ serving' = [serving EXCEPT ![c].pc = "pending"]
        /\ UNCHANGED <<sent, ledger, tenants, apiKeys, advisory, answer, shown>>
     \/ /\ ledger[Key(c)] # NoRow
        /\ Refuse(c, Told("unavailable"))
  /\ UNCHANGED failures

InsertTenant(c) ==
  /\ serving[c].pc = "pending"
  /\ \E i \in Fresh : serving' = [serving EXCEPT ![c].pc = "tenant", ![c].tenant = i]
  /\ UNCHANGED <<sent, ledger, tenants, apiKeys, advisory, answer, shown, failures>>

InsertApiKey(c) ==
  /\ serving[c].pc = "tenant"
  /\ \E i \in Fresh : serving' = [serving EXCEPT ![c].pc = "api_key", ![c].apiKey = i]
  /\ UNCHANGED <<sent, ledger, tenants, apiKeys, advisory, answer, shown, failures>>

SucceedLedger(c) ==
  /\ serving[c].pc = "api_key"
  /\ serving' = [serving EXCEPT ![c].pc = "closed"]
  /\ UNCHANGED <<sent, ledger, tenants, apiKeys, advisory, answer, shown, failures>>

\* Fault: the tenant and its key are committed and the ledger's row is not.
CommitWithoutLedger(c) ==
  /\ serving[c].pc = "closed"
  /\ tenants' = tenants \cup {[id |-> serving[c].tenant, digest |-> Digest(c)]}
  /\ apiKeys' = apiKeys \cup {[id |-> serving[c].apiKey, tenant |-> serving[c].tenant]}
  /\ serving' = [serving EXCEPT ![c].pc = "committed"]
  /\ advisory' = Release(c)
  /\ UNCHANGED <<sent, ledger, answer, shown, failures>>

Commit(c) ==
  /\ serving[c].pc = "closed"
  /\ ledger' = [ledger EXCEPT ![Key(c)] =
                  [digest |-> Digest(c), tenant |-> serving[c].tenant,
                   apiKey |-> serving[c].apiKey]]
  /\ tenants' = tenants \cup {[id |-> serving[c].tenant, digest |-> Digest(c)]}
  /\ apiKeys' = apiKeys \cup {[id |-> serving[c].apiKey, tenant |-> serving[c].tenant]}
  /\ serving' = [serving EXCEPT ![c].pc = "committed"]
  /\ advisory' = Release(c)
  /\ UNCHANGED <<sent, answer, shown, failures>>

\* 201 with the credential, the only time it leaves the server.
Reply(c) ==
  /\ serving[c].pc = "committed"
  /\ answer' = [answer EXCEPT ![c] = [code |-> "created", tenant |-> serving[c].tenant,
                                      apiKey |-> serving[c].apiKey]]
  /\ shown' = shown \cup {[client |-> c, apiKey |-> serving[c].apiKey]}
  /\ serving' = [serving EXCEPT ![c] = NoTransaction]
  /\ UNCHANGED <<sent, ledger, tenants, apiKeys, advisory, failures>>

\* A query fails, or the connection is lost before the answer to COMMIT: 503.
\* The server cannot tell whether a commit it lost the answer of took place.
QueryFails(c) ==
  /\ serving[c].pc # "none" /\ failures < MaxFailures
  /\ failures' = failures + 1
  /\ Refuse(c, Told("unavailable"))

\* The process dies, or the reply does not reach the client.
ReplyLost(c) ==
  /\ serving[c].pc # "none" /\ failures < MaxFailures
  /\ failures' = failures + 1
  /\ Refuse(c, Told("lost"))

\* The client repeats the same request.
Retry(c) ==
  /\ answer[c].code \notin Conclusive \cup {"waiting"}
  /\ answer' = [answer EXCEPT ![c] = Told("waiting")]
  /\ UNCHANGED <<sent, ledger, tenants, apiKeys, advisory, serving, shown, failures>>

Serve(c) ==
  \/ Reject(c) \/ AcquireRegistrationLock(c) \/ RejectExisting(c) \/ InsertPending(c)
  \/ InsertTenant(c) \/ InsertApiKey(c) \/ SucceedLedger(c) \/ Commit(c) \/ Reply(c)

CallFails(c) == QueryFails(c) \/ ReplyLost(c)

RegistrationNext == \E c \in Clients : Serve(c) \/ CallFails(c) \/ Retry(c)

RegistrationSpec == RegistrationInit /\ [][RegistrationNext]_registrationVars
-----------------------------------------------------------------------------
RegistrationTypeOK ==
  /\ sent \in [Clients -> RegistrationRequest]
  /\ ledger \in [Keys -> Row \cup {NoRow}]
  /\ tenants \subseteq Tenant
  /\ apiKeys \subseteq ApiKey
  /\ advisory \in [{LockOf[k] : k \in Keys} -> Clients \cup {Nobody}]
  /\ serving \in [Clients -> Serving]
  /\ answer \in [Clients -> Answer]
  /\ failures \in 0..MaxFailures

\* A registration is kept whole: the committed tenants and API keys are those
\* the ledger's rows name, whatever failed on the way and whoever repeated what.
AllOrNothing ==
  LET rows == {ledger[k] : k \in Keys} \ {NoRow}
  IN /\ tenants = {[id |-> r.tenant, digest |-> r.digest] : r \in rows}
     /\ apiKeys = {[id |-> r.apiKey, tenant |-> r.tenant] : r \in rows}

\* What a client is told is true: it is told of a tenant only when its own request
\* is the one the tenant was made from, and of a reused key only when another
\* request has it.
ToldTheTruth == \A c \in Clients :
  /\ answer[c].code \in {"created", "not_replayable"} =>
       ledger[Key(c)] = [digest |-> Digest(c), tenant |-> answer[c].tenant,
                         apiKey |-> answer[c].apiKey]
  /\ answer[c].code = "key_reused" =>
       ledger[Key(c)] # NoRow /\ ledger[Key(c)].digest # Digest(c)

\* A credential is seen by one client at most, and a key yields one credential.
ShownOnce == \A s, t \in shown : (s.apiKey = t.apiKey \/ Key(s.client) = Key(t.client)) => s = t

\* A registration is made whole or not at all, whoever repeats it and whatever fails; the
\* client is told the truth about it, and its credential is shown once.
RegistrationIsHonest == RegistrationTypeOK /\ AllOrNothing /\ ToldTheTruth /\ ShownOnce
=============================================================================
