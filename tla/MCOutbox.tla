------------------------------ MODULE MCOutbox ------------------------------
(***************************************************************************)
(* What leaves the process, for TLC: events for other systems and notices  *)
(* for users.  component says what moves in a behaviour: the outbox; the   *)
(* notices of an urgent event for u1, who sends two preferences at a time, *)
(* while u2 is no recipient; or those of a calm event for two users who    *)
(* opt out.                                                                *)
(***************************************************************************)
EXTENDS Outbox, Notifications

VARIABLE component

\* The catalogue of events, and what users may send.
ItsUrgency == [urgent |-> "high", calm |-> "low"]
ItsRoles == [urgent |-> {"finops_analyst"}, calm |-> {"finops_analyst", "tenant_admin"}]

UrgentInputs == {i \in Inputs : i.key[1] = "urgent"}
OptingOut == {i \in Inputs : i.key = <<"calm", "in_app">> /\ i.urgency = "low"
                             /\ i.lockedByAdmin = "absent"}
\* One row, or one of each channel; what is asked of email is urgent.
TheBodies ==
    LET inApp == {i \in UrgentInputs : i.key[2] = "in_app"}
        email == {i \in UrgentInputs : i.key[2] = "email" /\ i.urgency = "high"}
    IN {{i} : i \in UrgentInputs \cup OptingOut} \cup {{i, j} : i \in inApp, j \in email}

-----------------------------------------------------------------------------
Stays(u) == /\ u \in active' /\ role'[u] = role[u] /\ context'[u] = context[u]
            /\ prefs'[u] = prefs[u] /\ notices'[u] = notices[u]

\* The urgent event, and preferences of u1 for it.
OnlyUrgent ==
    /\ Stays("u2") /\ count'["calm"] = 0
    /\ \A channel \in Channels : prefs'["u1"]["calm", channel] = NoPreference

\* The calm event, emitted once, and preferences for it.
OnlyCalm ==
    /\ count'["urgent"] = 0 /\ count'["calm"] <= 1
    /\ \A u \in Users, channel \in Channels : prefs'[u]["urgent", channel] = NoPreference

MCInit ==
    /\ Init /\ NoticesInit
    /\ \/ component = "outbox" /\ role = [u \in Users |-> "finops_analyst"]
       \/ component = "urgent" /\ role["u2"] = "tenant_admin"
       \/ component = "calm"

MCNext ==
    \/ component = "outbox" /\ Next /\ UNCHANGED <<component, noticeVars>>
    \/ component = "urgent" /\ NoticesNext /\ OnlyUrgent /\ UNCHANGED <<component, vars>>
    \/ component = "calm" /\ NoticesNext /\ OnlyCalm /\ UNCHANGED <<component, vars>>

\* The fairness of Outbox.
MCFairness ==
    /\ \A w \in Workers : WF_vars(component = "outbox" /\ Advance(w))
    /\ \A e \in Events :
          /\ WF_vars(component = "outbox" /\ BecomeDue(e))
          /\ SF_vars(component = "outbox" /\ \E w \in Workers : Claim(w, e))

MCSpec == MCInit /\ [][MCNext]_<<component, vars, noticeVars>> /\ MCFairness
=============================================================================
