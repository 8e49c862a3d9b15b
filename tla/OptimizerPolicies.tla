--------------------------- MODULE OptimizerPolicies ---------------------------
(***************************************************************************)
(* Optimizer policies (core/optimizer-policies): drafts are created and      *)
(* patched, activated and archived by PATCH, one UPDATE statement whose      *)
(* trigger (migration 0017) freezes an active policy.  PATCH names no        *)
(* version, so what an administrator read may be out of date.               *)
(***************************************************************************)
EXTENDS Naturals

CONSTANTS
    PolicyIds, \* policies of a tenant, by identifier
    Names,     \* names
    Terms,     \* values of the other columns
    Absent,    \* a column a patch leaves out
    NoPolicy,  \* no row
    Admins     \* administrators, one request at a time each

VARIABLES
    policy,    \* policy[p]: the row, or NoPolicy
    patch,     \* patch[a]: the PATCH of administrator a under way
    snapshots  \* snapshots[p]: rows of p as optimizer runs took them into their snapshots

policyVars == <<policy, patch, snapshots>>

-----------------------------------------------------------------------------
Policy == [name : Names, terms : Terms, status : {"draft", "active", "archived"}]

ASSUME OptimizerPoliciesAssumption == PolicyIds # {} /\ NoPolicy \notin Policy

\* pc: before the UPDATE, between it and the SELECT of the answer, answered.
Patch == [pc : {"idle", "update", "get", "answered"}, policy : PolicyIds,
          name : Names \cup {Absent}, terms : Terms \cup {Absent},
          status : {"draft", "active", "archived", Absent},
          answer : {"none", "patched", "not found", "conflict", "frozen"},
          row : Policy \cup {NoPolicy}]

PoliciesTypeOK ==
    /\ policy \in [PolicyIds -> Policy \cup {NoPolicy}]
    /\ patch \in [Admins -> Patch]
    /\ snapshots \in [PolicyIds -> SUBSET Policy]

NoPatch == [pc |-> "idle", policy |-> CHOOSE p \in PolicyIds : TRUE, name |-> Absent,
            terms |-> Absent, status |-> Absent, answer |-> "none", row |-> NoPolicy]

PoliciesInit ==
    /\ policy = [p \in PolicyIds |-> NoPolicy]
    /\ patch = [a \in Admins |-> NoPatch]
    /\ snapshots = [p \in PolicyIds |-> {}]

\* optimizer_policies_name_key
Free(p, name) == \A q \in PolicyIds \ {p} : policy[q] # NoPolicy => policy[q].name # name

\* COALESCE of each column with what the body gives.
Or(given, old) == IF given = Absent THEN old ELSE given

Patched(row, r) ==
    [name |-> Or(r.name, row.name), terms |-> Or(r.terms, row.terms),
     status |-> Or(r.status, row.status)]

\* Fault: archiving an active policy may change it.
AllowsLastChange(old, new) ==
    /\ old.status # "archived"
    /\ old.status = "active" => new.status = "archived"

\* enforce_optimizer_policy_lifecycle
Allows(old, new) ==
    /\ old.status # "archived"
    /\ old.status = "active" => new = [old EXCEPT !.status = "archived"]

-----------------------------------------------------------------------------
\* create
Create(p, name, terms) ==
    /\ policy[p] = NoPolicy
    /\ Free(p, name)
    /\ policy' = [policy EXCEPT ![p] = [name |-> name, terms |-> terms, status |-> "draft"]]
    /\ UNCHANGED <<patch, snapshots>>

\* parseOptimizerPolicyPatchBody: one column at least.
Receive(a, p, name, terms, status) ==
    /\ patch[a].pc \in {"idle", "answered"}
    /\ {name, terms, status} # {Absent}
    /\ patch' = [patch EXCEPT ![a] = [NoPatch EXCEPT !.pc = "update", !.policy = p,
           !.name = name, !.terms = terms, !.status = status]]
    /\ UNCHANGED <<policy, snapshots>>

Answer(a, answer) ==
    patch' = [patch EXCEPT ![a] = [NoPatch EXCEPT !.pc = "answered", !.answer = answer]]

\* patch: the UPDATE with its trigger.
Update(a) ==
    LET r == patch[a]
        p == r.policy
        new == Patched(policy[p], r)
    IN /\ r.pc = "update"
       /\ \/ /\ policy[p] = NoPolicy
             /\ Answer(a, "not found") /\ UNCHANGED policy
          \/ /\ policy[p] # NoPolicy /\ ~Allows(policy[p], new)
             /\ Answer(a, "frozen") /\ UNCHANGED policy
          \/ /\ policy[p] # NoPolicy /\ Allows(policy[p], new) /\ ~Free(p, new.name)
             /\ Answer(a, "conflict") /\ UNCHANGED policy
          \/ /\ policy[p] # NoPolicy /\ Allows(policy[p], new) /\ Free(p, new.name)
             /\ policy' = [policy EXCEPT ![p] = new]
             /\ patch' = [patch EXCEPT ![a].pc = "get"]
       /\ UNCHANGED snapshots

\* get: another patch may have come between.
Get(a) ==
    /\ patch[a].pc = "get"
    /\ patch' = [patch EXCEPT ![a] = [NoPatch EXCEPT !.pc = "answered", !.answer = "patched",
           !.policy = patch[a].policy, !.row = policy[patch[a].policy]]]
    /\ UNCHANGED <<policy, snapshots>>

\* policySnapshot of an optimizer run (module OptimizerRuns): an active policy.
Snapshot(p) ==
    /\ policy[p] # NoPolicy
    /\ policy[p].status = "active"
    /\ snapshots' = [snapshots EXCEPT ![p] = @ \cup {policy[p]}]
    /\ UNCHANGED <<policy, patch>>

Step(a) == Update(a) \/ Get(a)

PoliciesNext ==
    \/ \E p \in PolicyIds, name \in Names, terms \in Terms : Create(p, name, terms)
    \/ \E p \in PolicyIds : Snapshot(p)
    \/ \E a \in Admins :
        \/ \E p \in PolicyIds, name \in Names \cup {Absent}, terms \in Terms \cup {Absent},
              status \in {"draft", "active", "archived", Absent} :
                Receive(a, p, name, terms, status)
        \/ Step(a)

PoliciesSpec == PoliciesInit /\ [][PoliciesNext]_policyVars

-----------------------------------------------------------------------------
(* Properties *)

\* All runs of a policy were made under the terms it has: those of an active
\* policy are frozen, up to and including its being archived, and it is never
\* active again with others (trigger of migration 0017).
RunPolicyStays ==
    \A p \in PolicyIds : \A x \in snapshots[p] : [policy[p] EXCEPT !.status = "active"] = x

\* The row of an answer is one the policy had when its update was made or
\* later, never a mixture: once the policy is active, what an administrator is
\* shown is what will be run.
AnswerIsRun ==
    \A a \in Admins :
        LET r == patch[a] IN
        r.answer = "patched" /\ r.row.status = "active"
            => \A x \in snapshots[r.policy] : x = r.row

\* The runs of a policy were all made under the terms it has, and an administrator
\* is shown the terms of the runs: the trigger freezes them with the first activation,
\* whatever patches are under way.
PoliciesAreFrozen == RunPolicyStays /\ AnswerIsRun
=============================================================================
