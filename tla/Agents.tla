------------------------------- MODULE Agents -------------------------------
(***************************************************************************)
(* Remote agents (src/store/agents.rs, src/agents/, refresh_agents of      *)
(* src/sync/directory.rs, the directory overlay and the sending of a       *)
(* mention in src/app.rs), for one agent.  Four signed public records say  *)
(* what it is: the memberships of the rooms, its profile (which proves its *)
(* owner), its declaration and its owner's policy.  They are read from the *)
(* relay one after the other, stored, and only then projected into the row *)
(* every decision is taken from.  The relay may replace a record between   *)
(* two reads; it may also, in Revisions that allow it, drop the policy.    *)
(*                                                                         *)
(* A record is what the decisions tell apart of it: the agent's place in   *)
(* each room, who owns it by its profile, whether it is declared, and what *)
(* its policy says of the viewer ("mine" and "lists me" are the viewer),   *)
(* with the revision it dates from: of two stored ones the newer counts.   *)
(***************************************************************************)
EXTENDS Naturals, FiniteSets

CONSTANTS
    Channels,    \* rooms where an agent must be a bot
    DirectRooms, \* conversations where it must be declared and the viewer's
    Revisions,   \* how often the relay's records change
    Retractable, \* the owner may withdraw the policy
    FirstRecords        \* the relay's records at first

ASSUME AgentsAssumption ==
    /\ FirstRecords \in
         [place : [Channels \cup DirectRooms -> {"bot", "member", "no"}],
          owner : [is : {"mine", "theirs", "none"}, at : {0}], declared : BOOLEAN,
          policy : [is : {"none", "owner-only", "lists me", "lists others", "anyone"}, at : {0}]]
    /\ Revisions \in Nat /\ Retractable \in BOOLEAN

VARIABLES
    relayRecords,\* [place, owner, declared, policy] at the relay
    records,     \* the same as stored
    row,         \* the row of remote_agents
    refreshes,   \* the refreshes at work: of the directory, and of a send
    listing,     \* AgentDirectoryState.agents, with the overlay open or not
    mention,     \* the composer's target while it mentions the agent
    sent,        \* the last message sent: where, and whether it was validated
    revisions,
    \* History, for the properties: the values each record has had since Enter.
    sinceEnter

agentVars == <<relayRecords, records, row, refreshes, listing, mention, sent,
               revisions, sinceEnter>>

Rooms == Channels \cup DirectRooms
Places == {"bot", "member", "no"}
Owners == {"mine", "theirs", "none"}
Policies == {"none", "owner-only", "lists me", "lists others", "anyone"}
Dated(value, n) == [is |-> value, at |-> n]
NoRecords == [place |-> [r \in Rooms |-> "no"], owner |-> Dated("none", 0),
              declared |-> FALSE, policy |-> Dated("none", 0)]
NoRow == [state |-> "none", owner |-> "none", policy |-> "none", stale |-> TRUE]
NoListing == [open |-> FALSE, rows |-> {}]
Nowhere == "nowhere"
\* A refresh: how far it is and what it has read.
RefreshAt(phase) == [phase |-> phase, whole |-> FALSE, bot |-> FALSE, declared |-> FALSE,
                   owner |-> Dated("none", 0), policy |-> Dated("none", 0)]
Idle == RefreshAt("idle")
Seen(rec) == [place |-> {rec.place}, owner |-> {rec.owner.is}, policy |-> {rec.policy.is}]

AgentsInit ==
    /\ relayRecords = FirstRecords /\ records = NoRecords /\ row = NoRow
    /\ refreshes = [t \in {"directory", "send"} |-> Idle]
    /\ listing = NoListing /\ mention = Nowhere
    /\ sent = [room |-> Nowhere, checked |-> FALSE]
    /\ revisions = 0 /\ sinceEnter = Seen(FirstRecords)

-----------------------------------------------------------------------------
(* The projection.                                                         *)

Participates(rec) == \E r \in DirectRooms : rec.place[r] # "no"
IsBot(rec) == \E r \in Rooms : rec.place[r] = "bot"
IsCandidate(rec) == IsBot(rec) \/ Participates(rec)

\* reconcile_remote_agent: whoever is no candidate loses its row; a profile that
\* is missing or proves no owner leaves an invalid one. A policy counts only
\* when its author is the owner the profile proves.
VerifyPublicAgent(rec) == [owner |-> rec.owner.is, policy |-> rec.policy.is]
Verified(agent) ==
    [state |-> "verified", owner |-> agent.owner, policy |-> agent.policy, stale |-> FALSE]
Failure(state) == [NoRow EXCEPT !.state = state]
Reconciled(rec, was) ==
    IF ~IsBot(rec) /\ ~(Participates(rec) /\ rec.declared)
    THEN IF was.state = "none" THEN was ELSE [was EXCEPT !.state = "removed"]
    ELSE IF rec.owner.is = "none" THEN Failure("invalid")
    ELSE Verified(VerifyPublicAgent(rec))

Evaluate(owner, policy, isDm) ==
    CASE owner = "mine" -> "eligible"
      [] owner # "mine" /\ policy = "none" -> "unknown"
      [] owner # "mine" /\ policy # "none" ->
           IF ~isDm /\ policy \in {"lists me", "anyone"} THEN "eligible" ELSE "ineligible"

\* list_remote_agents, and remote_agent for a room: a stale row is ineligible
\* for everybody.
RoomsOf(rec) ==
    {r \in Rooms : rec.place[r] = "bot" \/ (r \in DirectRooms /\ rec.place[r] # "no")}
ListRemoteAgents(isDm) ==
    IF row.state = "verified" /\ RoomsOf(records) # {}
    THEN {[rooms |-> RoomsOf(records), owner |-> row.owner,
           eligibility |-> IF row.stale THEN "ineligible"
                           ELSE Evaluate(row.owner, row.policy, isDm)]}
    ELSE {}

-----------------------------------------------------------------------------
(* The refresh of the directory.                                           *)

store == <<records, row>>
user == <<listing, mention, sent>>
outsideAgents == <<relayRecords, revisions, sinceEnter>>

Sending == refreshes["send"].phase # "idle"
Phase(t, phase) == refreshes' = [refreshes EXCEPT ![t] = phase]

\* No more queries: whole says, for the properties, that the profile was asked for.
Done(phase, whole) == [RefreshAt(phase) EXCEPT !.whole = whole]

\* A failed query ends the directory's refresh; what a send's failure means
\* is the send's business.
RefreshFails(t) ==
    /\ refreshes[t].phase \in {"members", "declaration", "profile", "policy"}
    /\ Phase(t, Done("failed", FALSE))
    /\ UNCHANGED <<store, user, outsideAgents>>

\* Membership snapshots are stored at once, each new one (of whatever member)
\* with a reconciliation.
RefreshMembers(t) ==
    /\ refreshes[t].phase = "members"
    /\ records' = [records EXCEPT !.place = relayRecords.place]
    /\ row' \in {Reconciled(records', row)}
                \cup (IF records'.place = records.place THEN {row} ELSE {})
    /\ Phase(t, IF IsCandidate(records')
                THEN [RefreshAt("declaration") EXCEPT !.bot = IsBot(records')]
                ELSE Done("read", FALSE))
    /\ UNCHANGED <<user, outsideAgents>>

ReadDeclaration(t) ==
    /\ refreshes[t].phase = "declaration"
    /\ Phase(t, IF relayRecords.declared \/ refreshes[t].bot
                THEN [RefreshAt("profile") EXCEPT !.declared = relayRecords.declared]
                ELSE Done("read", FALSE))
    /\ UNCHANGED <<store, user, outsideAgents>>

ReadProfile(t) ==
    /\ refreshes[t].phase = "profile"
    /\ Phase(t, [RefreshAt(IF relayRecords.owner.is = "none" THEN "apply" ELSE "policy")
                 EXCEPT !.declared = refreshes[t].declared, !.owner = relayRecords.owner])
    /\ UNCHANGED <<store, user, outsideAgents>>

ReadPolicy(t) ==
    /\ refreshes[t].phase = "policy"
    /\ Phase(t, [refreshes[t] EXCEPT !.phase = "apply", !.policy = relayRecords.policy])
    /\ UNCHANGED <<store, user, outsideAgents>>

\* latest_agent_event and latest_agent_policy: stored events only add to what
\* is stored, so a record the relay no longer has keeps its last stored form.
Latest(stored, read) == IF read.is # "none" /\ read.at >= stored.at THEN read ELSE stored
LatestProfile(stored, read) == IF read.at >= stored.at THEN read ELSE stored
Applied(read) ==
    [records EXCEPT !.declared = @ \/ read.declared,
                    !.owner = LatestProfile(@, read.owner),
                    !.policy = Latest(@, read.policy)]

ApplyRecords(t) ==
    /\ refreshes[t].phase = "apply"
    /\ records' = Applied(refreshes[t])
    /\ Phase(t, Done("read", TRUE))
    /\ UNCHANGED <<row, user, outsideAgents>>

ReconcileRemoteAgents(t) ==
    /\ refreshes[t].phase = "read"
    /\ row' = Reconciled(records, row)
    /\ Phase(t, [refreshes[t] EXCEPT !.phase = "refreshed"])
    /\ UNCHANGED <<records, user, outsideAgents>>

\* A new membership snapshot arrives by itself while no key is being handled.
LiveMembership ==
    /\ ~Sending
    /\ records' = [records EXCEPT !.place = relayRecords.place]
    /\ row' = Reconciled(records', row)
    /\ UNCHANGED <<refreshes, user, outsideAgents>>

-----------------------------------------------------------------------------
(* The overlay.                                                            *)

\* open_agents, with a refresh (also from the open overlay) or without, and its
\* end: the task lists the store's rows whatever became of the refresh.
OpenAgents ==
    /\ listing' = [listing EXCEPT !.open = TRUE]
    /\ \/ Phase("directory", RefreshAt("members"))
       \/ ~listing.open /\ Phase("directory", Done("refreshed", FALSE))
    /\ ~Sending
    /\ UNCHANGED <<store, mention, sent, outsideAgents>>

AgentsLoaded ==
    /\ refreshes["directory"].phase \in {"refreshed", "failed"}
    /\ ~Sending
    /\ Phase("directory", Idle)
    /\ \E isDm \in BOOLEAN : listing' = [listing EXCEPT !.rows = ListRemoteAgents(isDm)]
    /\ UNCHANGED <<store, mention, sent, outsideAgents>>

CloseAgents ==
    /\ listing.open /\ ~Sending
    /\ listing' = NoListing /\ Phase("directory", Idle)
    /\ UNCHANGED <<store, mention, sent, outsideAgents>>

\* mention_selected_agent, in the room on screen.
MentionSelectedAgent(spot) ==
    /\ listing.open /\ mention = Nowhere /\ ~Sending
    /\ \E agent \in listing.rows :
         /\ spot \in agent.rooms
         /\ spot \in DirectRooms => agent.owner = "mine"
         /\ agent.eligibility = "eligible"
    /\ listing' = NoListing /\ mention' = spot
    /\ UNCHANGED <<store, refreshes, sent, outsideAgents>>

-----------------------------------------------------------------------------
(* Sending.                                                                *)

NeedsValidation(spot) == row.state # "none" \/ records.place[spot] = "bot"

\* Enter: unless the store knows nothing of the agent, the directory is
\* refreshed first, with the key's handler waiting for it.
Enter ==
    /\ mention # Nowhere /\ ~listing.open /\ ~Sending
    /\ IF NeedsValidation(mention)
       THEN /\ Phase("send", RefreshAt("members"))
            /\ sinceEnter' = Seen(relayRecords)
            /\ UNCHANGED <<mention, sent>>
       ELSE /\ sent' = [room |-> mention, checked |-> FALSE] /\ mention' = Nowhere
            /\ UNCHANGED <<refreshes, sinceEnter>>
    /\ UNCHANGED <<store, listing, relayRecords, revisions>>

ValidateAgentMentions(spot) ==
    /\ (IF spot \in DirectRooms THEN records.place[spot] # "no"
        ELSE records.place[spot] = "bot")
    /\ \E agent \in ListRemoteAgents(FALSE) :
         /\ spot \in agent.rooms
         /\ spot \in DirectRooms => agent.owner = "mine"
         /\ ~row.stale /\ Evaluate(agent.owner, row.policy, spot \in DirectRooms) = "eligible"

\* The refresh has ended: a failure keeps the draft, and so does a refusal.
RefreshedAnyhow == refreshes["send"].phase \in {"refreshed", "failed"}
Refreshed == refreshes["send"].phase = "refreshed"

SendMention ==
    /\ refreshes["send"].phase \in {"refreshed", "failed"}
    /\ Phase("send", Idle)
    /\ IF Refreshed /\ ValidateAgentMentions(mention)
       THEN sent' = [room |-> mention, checked |-> TRUE] /\ mention' = Nowhere
       ELSE UNCHANGED <<sent, mention>>
    /\ UNCHANGED <<store, listing, outsideAgents>>

-----------------------------------------------------------------------------
(* The world.                                                              *)

Replaced ==
    \/ \E r \in Rooms, p \in Places :
         /\ r \in DirectRooms => p # "bot"
         /\ relayRecords' = [relayRecords EXCEPT !.place[r] = p]
    \/ \E o \in Owners : relayRecords' = [relayRecords EXCEPT !.owner = Dated(o, revisions')]
    \/ \E p \in Policies :
         /\ p = "none" => Retractable
         /\ relayRecords' = [relayRecords EXCEPT !.policy = Dated(p, revisions')]
    \/ relayRecords' = [relayRecords EXCEPT !.declared = TRUE]

Revise ==
    /\ revisions < Revisions /\ revisions' = revisions + 1
    /\ Replaced
    /\ sinceEnter' = [place |-> sinceEnter.place \cup {relayRecords'.place},
                      owner |-> sinceEnter.owner \cup {relayRecords'.owner.is},
                      policy |-> sinceEnter.policy \cup {relayRecords'.policy.is}]
    /\ UNCHANGED <<store, refreshes, user>>

\* Ten minutes after the row was last verified.
GrowStale ==
    /\ row.state = "verified" /\ ~row.stale
    /\ row' = [row EXCEPT !.stale = TRUE]
    /\ UNCHANGED <<records, refreshes, user, outsideAgents>>

AgentsNext ==
    \/ \E t \in DOMAIN refreshes :
         \/ RefreshFails(t) \/ RefreshMembers(t) \/ ReadDeclaration(t) \/ ReadProfile(t)
         \/ ReadPolicy(t) \/ ApplyRecords(t) \/ ReconcileRemoteAgents(t)
    \/ LiveMembership \/ OpenAgents \/ AgentsLoaded \/ CloseAgents
    \/ \E r \in Rooms : MentionSelectedAgent(r)
    \/ Enter \/ SendMention \/ Revise \/ GrowStale

AgentsSpec == AgentsInit /\ [][AgentsNext]_agentVars

-----------------------------------------------------------------------------
\* The mention leaves, after it was validated.
Leaves == (sent' # sent \/ (mention # Nowhere /\ mention' = Nowhere)) /\ sent'.checked

\* Of what the relay has had since Enter: the agent was in the room; and it was
\* the viewer's, or its owner's policy let the viewer in.
WasInRoom(spot) ==
    \E place \in sinceEnter.place :
        place[spot] = "bot" \/ (spot \in DirectRooms /\ place[spot] # "no")
WasAllowed(spot) ==
    \/ "mine" \in sinceEnter.owner
    \/ /\ spot \in Channels /\ "theirs" \in sinceEnter.owner
       /\ sinceEnter.policy \cap {"lists me", "anyone"} # {}

\* The send's refresh found the agent nowhere and asked for no more, while
\* another refresh was at work.
BroughtBack == ~refreshes["send"].whole /\ refreshes["directory"].phase # "idle"

\* A mention of a known agent leaves only if each public record, as the relay
\* had it at some moment after Enter, allows it: whatever was revoked before the
\* user pressed Enter is refused, however another refresh at work mixes older
\* answers into the store. The only exception is an agent that the other refresh
\* brings back after the send's own had found it gone (send_message,
\* refresh_agents, validate_agent_mentions).
RevokedIsRefused ==
    [][Leaves => /\ WasInRoom(sent'.room)
                 /\ WasAllowed(sent'.room) \/ BroughtBack]_agentVars
-----------------------------------------------------------------------------
(* Refuted: what is said or expected and the code does not do; in no run.    *)

\* "Revalidates the active community, channel, bot role, NIP-OA owner, public
\* policy, and active identity before signing an agent mention"
\* (docs/release-v0.11.0.md:27): the same without the exception.
AllRefreshed == [][Leaves => WasAllowed(sent'.room)]_agentVars

\* A row that has grown stale becomes fresh again only at the end of a refresh
\* that read the agent's records from the relay.
FreshByRefreshOnly ==
    [][row.state = "verified" /\ row.stale /\ ~row'.stale =>
         \E t \in DOMAIN refreshes : refreshes[t].phase = "read"]_agentVars
=============================================================================
