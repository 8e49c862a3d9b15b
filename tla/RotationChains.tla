--------------------------- MODULE RotationChains ---------------------------
(***************************************************************************)
(* The check a repeated setup makes of the API keys it finds: from each    *)
(* origin, the key of the first run or of a registration, the audited      *)
(* rotations must lead through revoked keys to one key in force, and every *)
(* key must lie on such a chain.                                           *)
(*                                                                         *)
(*   origins   a set of [key, tenant]                                      *)
(*   keys      a function from identifiers to [tenant, created, revoked]   *)
(*   audits    a set of [id, tenant, old, new, oldCreated, newCreated,     *)
(*             revoked, at], the rows of action api_key.rotated            *)
(***************************************************************************)
EXTENDS FiniteSets, Naturals

CONSTANT NotRevoked

\* canonicalLink: the row tells of a rotation these two keys agree with.
CanonicalLink(a, keys) ==
  /\ a.old \in DOMAIN keys /\ a.new \in DOMAIN keys /\ a.old # a.new
  /\ keys[a.old].tenant = a.tenant /\ keys[a.new].tenant = a.tenant
  /\ a.oldCreated = keys[a.old].created
  /\ a.newCreated = keys[a.new].created
  /\ keys[a.old].revoked = a.revoked /\ a.at = a.revoked

Replaced(audits) == {a.old : a \in audits}
Replacements(audits) == {a.new : a \in audits}
Outgoing(audits) == [k \in Replaced(audits) |-> (CHOOSE a \in audits : a.old = k).new]

\* validateDegrees
ValidDegrees(origins, keys, audits) ==
  /\ \A o \in origins : /\ o.key \in DOMAIN keys
                        /\ keys[o.key].tenant = o.tenant
                        /\ o.key \notin Replacements(audits)
  /\ \A k \in DOMAIN keys :
       /\ (keys[k].revoked = NotRevoked) # (k \in Replaced(audits))
       /\ k \in {o.key : o \in origins} \cup Replacements(audits)

\* The keys met from k on, one per rotation, the last repeated.
Walk(k, keys, outgoing) ==
  LET path[n \in 0 .. Cardinality(DOMAIN keys)] ==
        IF n = 0 THEN k
        ELSE IF path[n - 1] \in DOMAIN outgoing THEN outgoing[path[n - 1]] ELSE path[n - 1]
  IN path

LastOf(k, keys, outgoing) == Walk(k, keys, outgoing)[Cardinality(DOMAIN keys)]
Visited(k, keys, outgoing) ==
  {Walk(k, keys, outgoing)[n] : n \in 0 .. Cardinality(DOMAIN keys)}

\* walkOrigins and walk: every walk ends, on a key in force of the same tenant;
\* walks do not meet, and together they visit every key.
SoundWalks(origins, keys, outgoing) ==
  /\ \A o \in origins :
       /\ LastOf(o.key, keys, outgoing) \notin DOMAIN outgoing
       /\ keys[LastOf(o.key, keys, outgoing)].revoked = NotRevoked
       /\ keys[LastOf(o.key, keys, outgoing)].tenant = o.tenant
  /\ \A o, p \in origins : o # p =>
       Visited(o.key, keys, outgoing) \cap Visited(p.key, keys, outgoing) = {}
  /\ UNION {Visited(o.key, keys, outgoing) : o \in origins} = DOMAIN keys

ChainsAccepted(origins, keys, audits) ==
  /\ \A o, p \in origins : o.key = p.key => o = p
  /\ \A a \in audits : CanonicalLink(a, keys)
  /\ \A a, b \in audits : a.old = b.old \/ a.new = b.new => a = b
  /\ ValidDegrees(origins, keys, audits)
  /\ SoundWalks(origins, keys, Outgoing(audits))

\* What the check means: audited rotations are a one-to-one map, within tenants,
\* from the revoked keys onto the keys that are no origin, and no set of keys was
\* only ever replaced by itself.
IsForest(origins, keys, audits) ==
  /\ \A o, p \in origins : o.key = p.key => o = p
  /\ \A o \in origins : o.key \in DOMAIN keys /\ keys[o.key].tenant = o.tenant
  /\ \A a \in audits : CanonicalLink(a, keys)
  /\ \A a, b \in audits : a.old = b.old \/ a.new = b.new => a = b
  /\ Replaced(audits) = {k \in DOMAIN keys : keys[k].revoked # NotRevoked}
  /\ Replacements(audits) = DOMAIN keys \ {o.key : o \in origins}
  /\ \A S \in (SUBSET DOMAIN keys) \ {{}} :
       \E k \in S : \A a \in audits : a.new = k => a.old \notin S

\* The key in force of an accepted origin.
CurrentKey(k, keys, audits) == LastOf(k, keys, Outgoing(audits))
=============================================================================
