-------------------------------- MODULE Typing --------------------------------
(***************************************************************************)
(* The typing indicator of agents (src/agents/typing.rs, src/app.rs): one  *)
(* live subscription under a fixed name for the selected room, a bounded   *)
(* table of who types where, and what silences an entry: its age, a        *)
(* message of the same agent, the loss of authority, a change of view.     *)
(*                                                                         *)
(* Time is in steps of a second.  A signal or message is its author, room, *)
(* scope and time of creation; it may arrive in any order and any delay.   *)
(* Authority is the same in every room; a room is never a direct message.  *)
(***************************************************************************)
EXTENDS Integers, Sequences, FiniteSets

CONSTANTS
    Typists,     \* agents
    TypingRooms,
    NoRoom,
    Threads,     \* roots of threads; TopLevel is the room itself
    TopLevel,
    Lifetime,    \* TYPING_TTL_SECONDS
    Quiet,       \* POST_MESSAGE_SUPPRESSION_SECONDS
    Entries,     \* MAX_TYPING_AGENTS
    Seconds,     \* bound: how long the run lasts
    Switches     \* bound: how often the user changes the room

ASSUME TypingAssumption == Lifetime \in Nat /\ Quiet \in Nat /\ Entries \in Nat

VARIABLES
    typingNow,
    typingRoom,        \* current_channel
    thread,      \* thread_root, or TopLevel
    subscribed,  \* typing_subscription_channel
    quarantined, \* closed_typing_channel
    typing,      \* AgentTypingState.entries
    muted,       \* AgentTypingState.suppressions, by agent and scope
    trusted,     \* App.agents: who was authorised when the store was last read
    granted,     \* who is authorised in the store
    directoryStale,       \* cache_dirty
    requests,    \* rooms of the REQs on their way to the relay
    refusals,    \* rooms of the REQs whose CLOSED is on its way back
    said,        \* history: the last message seen, where it is still remembered
    refused,     \* history: rooms whose REQ the relay has refused
    switched

typingVars == <<typingNow, typingRoom, thread, subscribed, quarantined, typing, muted, trusted,
                granted, directoryStale, requests, refusals, said, refused, switched>>

TypingScopes == Threads \cup {TopLevel}
Nobody == [k \in {} |-> 0]

TypingInit ==
    /\ typingNow = 0 /\ typingRoom \in TypingRooms /\ thread = TopLevel
    /\ subscribed = NoRoom /\ quarantined = NoRoom
    /\ typing = {} /\ muted = Nobody
    /\ trusted = Typists /\ granted = Typists /\ directoryStale = FALSE
    /\ requests = <<>> /\ refusals = <<>> /\ said = Nobody /\ refused = {}
    /\ switched = 0

-----------------------------------------------------------------------------
(* AgentTypingState.                                                       *)

KeyOf(entry) == <<entry.agent, entry.scope>>
Restricted(f, keys) == [k \in DOMAIN f \cap keys |-> f[k]]
With(f, key, value) == [k \in DOMAIN f \cup {key} |-> IF k = key THEN value ELSE f[k]]

\* prune_suppressions.
PrunedSilence(m) == Restricted(m, {k \in DOMAIN m : m[k].retainUntil > typingNow})

\* A silence that only counts the two seconds.
SilencedBriefly(signal, m) ==
    KeyOf(signal) \in DOMAIN m /\ typingNow < m[KeyOf(signal)].until

Silenced(signal, m) ==
    /\ KeyOf(signal) \in DOMAIN m
    /\ \/ typingNow < m[KeyOf(signal)].until
       \/ signal.at <= m[KeyOf(signal)].at

\* apply: a newer signal refreshes its entry, a new one needs a free place.
AppliedSignal(signal) ==
    LET current == {e \in typing : KeyOf(e) = KeyOf(signal)}
    IN IF \/ Silenced(signal, PrunedSilence(muted))
          \/ \E e \in current : e.at >= signal.at
          \/ current = {} /\ Cardinality(typing) >= Entries
       THEN typing
       ELSE (typing \ current) \cup {signal}

\* observe_message: the entry goes, and the silence is noted if there is room.
ObserveMessage(key, at) ==
    /\ typing' = {e \in typing : KeyOf(e) # key}
    /\ muted' = IF Cardinality(DOMAIN muted) < Entries \/ key \in DOMAIN muted
                THEN With(muted, key, [at |-> at, until |-> typingNow + Quiet,
                                       retainUntil |-> typingNow + Lifetime])
                ELSE muted

Unexpired(entries) == {e \in entries : e.at + Lifetime > typingNow}

Clear == typing' = {} /\ muted' = Nobody /\ said' = Nobody

-----------------------------------------------------------------------------
(* The subscription.                                                       *)

RequestTyping(r) == subscribed' = r /\ requests' = Append(requests, r)

\* reconcile_agent_typing_subscription, for the room r; otherwise keeps the
\* table as the caller leaves it.
ReconcileTyping(r, otherwise) ==
    IF subscribed = r
    THEN otherwise /\ UNCHANGED <<subscribed, quarantined, requests>>
    ELSE /\ Clear
         /\ quarantined' = IF quarantined = r THEN r ELSE NoRoom
         /\ IF quarantined = r
            THEN subscribed' = NoRoom /\ UNCHANGED requests
            ELSE RequestTyping(r)

\* load_selected_channel.
LoadSelectedChannel ==
    /\ switched < Switches /\ Len(requests) < 2
    /\ typingRoom' \in TypingRooms \ {typingRoom} /\ thread' = TopLevel
    /\ directoryStale' = FALSE /\ trusted' = granted
    /\ ReconcileTyping(typingRoom', FALSE)
    /\ switched' = switched + 1
    /\ UNCHANGED <<typingNow, granted, refusals, refused>>

\* The room of the last subscription is chosen again, or was never left.
ReloadChannel ==
    /\ thread' = TopLevel /\ directoryStale' = FALSE /\ trusted' = granted
    /\ Len(requests) < 2
    /\ ReconcileTyping(typingRoom, Clear)
    /\ UNCHANGED <<typingNow, typingRoom, granted, refusals, refused, switched>>

\* toggle_thread.
ToggleThread ==
    /\ Clear
    /\ \/ thread # TopLevel /\ thread' = TopLevel /\ UNCHANGED <<directoryStale, trusted>>
       \/ thread = TopLevel /\ thread' \in Threads /\ directoryStale' = FALSE /\ trusted' = granted
    /\ UNCHANGED <<typingNow, typingRoom, subscribed, quarantined, granted, requests, refusals,
                   refused, switched>>

\* WorkspaceEffect::CloseContext leaves the table alone.
CloseContext ==
    /\ thread # TopLevel /\ thread' = TopLevel
    /\ UNCHANGED <<typingNow, typingRoom, subscribed, quarantined, typing, muted, trusted,
                   granted, directoryStale, requests, refusals, said, refused, switched>>

-----------------------------------------------------------------------------
(* Frames.                                                                 *)

\* parse: a signal for the selected room, not older than the lifetime.
Fresh(r, at) == r = typingRoom /\ at + Lifetime > typingNow

\* apply_agent_typing_event.
Signal(a, r, s, at) ==
    /\ IF Fresh(r, at) /\ s = thread /\ a \in trusted
       THEN /\ typing' = AppliedSignal([agent |-> a, room |-> r, scope |-> s, at |-> at])
            /\ muted' = PrunedSilence(muted)
       ELSE UNCHANGED <<typing, muted>>
    /\ UNCHANGED <<typingNow, typingRoom, thread, subscribed, quarantined, trusted, granted,
                   directoryStale, requests, refusals, said, refused, switched>>

\* A message of the agent is applied.
Message(a, r, s, at) ==
    /\ r = typingRoom /\ a \in trusted
    /\ ObserveMessage(<<a, s>>, at)
    /\ said' = With(said, <<a, s>>, at)
    /\ directoryStale' = TRUE
    /\ UNCHANGED <<typingNow, typingRoom, thread, subscribed, quarantined, trusted, granted,
                   requests, refusals, refused, switched>>

\* The relay takes the next REQ, and may refuse it for good.
RelayTakesReq ==
    /\ requests # <<>>
    /\ requests' = Tail(requests)
    /\ \/ UNCHANGED <<refusals, refused>>
       \/ /\ Len(refusals) < 2
          /\ refusals' = Append(refusals, Head(requests))
          /\ refused' = refused \cup {Head(requests)}
    /\ UNCHANGED <<typingNow, typingRoom, thread, subscribed, quarantined, typing, muted, trusted,
                   granted, directoryStale, said, switched>>

\* SessionEvent::Closed for the fixed name.
ClosedByRelay ==
    /\ refusals # <<>>
    /\ refusals' = Tail(refusals)
    /\ quarantined' = subscribed /\ subscribed' = NoRoom
    /\ Clear
    /\ UNCHANGED <<typingNow, typingRoom, thread, trusted, granted, directoryStale, requests, refused,
                   switched>>

\* The session ends and another is authenticated; the supervisor sends again
\* what it was asked for.
SessionAuthenticated ==
    /\ subscribed' = NoRoom /\ quarantined' = NoRoom
    /\ requests' = IF subscribed = NoRoom THEN <<>> ELSE <<subscribed>>
    /\ refusals' = <<>> /\ refused' = {}
    /\ Clear
    /\ UNCHANGED <<typingNow, typingRoom, thread, trusted, granted, directoryStale, switched>>

-----------------------------------------------------------------------------
(* Time and authority.                                                     *)

\* A refresh of the directory writes first and is reported later.
RefreshWrites ==
    /\ \E a \in Typists : granted' = (granted \ {a}) \cup ({a} \ granted)
    /\ UNCHANGED <<typingNow, typingRoom, thread, subscribed, quarantined, typing, muted, trusted,
                   directoryStale, requests, refusals, said, refused, switched>>

RefreshReports ==
    /\ directoryStale' = TRUE
    /\ UNCHANGED <<typingNow, typingRoom, thread, subscribed, quarantined, typing, muted, trusted,
                   granted, requests, refusals, said, refused, switched>>

\* retain_agents, only when the cache was dirty.
EntriesHeld(entries) == IF directoryStale THEN {e \in entries : e.agent \in granted} ELSE entries
RetainedKeys(f) == IF directoryStale THEN Restricted(f, granted \X TypingScopes) ELSE f

\* on_tick: expire, then the store is read again if it changed, and now and
\* then anyway.
OnTick ==
    /\ Len(requests) < 2
    /\ IF directoryStale THEN trusted' = granted ELSE trusted' \in {trusted, granted}
    /\ directoryStale' = FALSE
    /\ ReconcileTyping(typingRoom, /\ typing' = EntriesHeld(Unexpired(typing))
                       /\ muted' = RetainedKeys(PrunedSilence(muted))
                       /\ said' = RetainedKeys(said))
    /\ UNCHANGED <<typingNow, typingRoom, thread, granted, refusals, refused, switched>>

TypingSecond ==
    /\ typingNow < Seconds /\ typingNow' = typingNow + 1
    /\ UNCHANGED <<typingRoom, thread, subscribed, quarantined, typing, muted, trusted,
                   granted, directoryStale, requests, refusals, said, refused, switched>>

TypingNext ==
    \/ LoadSelectedChannel \/ ReloadChannel \/ ToggleThread \/ CloseContext
    \/ \E a \in Typists, r \in TypingRooms, s \in TypingScopes, at \in 0..typingNow :
         Signal(a, r, s, at) \/ Message(a, r, s, at)
    \/ RelayTakesReq \/ ClosedByRelay \/ SessionAuthenticated
    \/ RefreshWrites \/ RefreshReports \/ OnTick \/ TypingSecond

TypingSpec == TypingInit /\ [][TypingNext]_typingVars

-----------------------------------------------------------------------------

\* visible_agent_typing_line.
TypingShown == {e \in Unexpired(typing) : e.scope = thread}

\* An agent is shown typing only in the room on the screen, and only by a signal
\* made after the last message of its that was seen there: however late signals
\* arrive, an answer that is already on the screen is not announced again
\* (observe_message, its two silences, and every way the view changes).
TypingIsAhead ==
    \A e \in TypingShown :
        /\ e.room = typingRoom
        /\ KeyOf(e) \in DOMAIN said => said[KeyOf(e)] < e.at
-----------------------------------------------------------------------------
(* Refuted: what is said or expected and the code does not do; in no run.    *)

\* A room is left without the indicator only because the relay refused that
\* room: a CLOSED for the room before is not taken for an answer to the REQ that
\* replaced it (SessionEvent::Closed, closed_typing_channel).
QuarantineIsOwn == quarantined # NoRoom => quarantined \in refused
=============================================================================
