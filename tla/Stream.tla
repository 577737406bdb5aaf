------------------------------- MODULE Stream -------------------------------
(***************************************************************************)
(* What the application does with the events of one community's session    *)
(* (app.rs, handle_network): the memory of the events already handled, the *)
(* store's answer, and the two sources of the reply count under a thread's *)
(* root: the rows of the store, counted when the cache is hydrated, and    *)
(* the relay's latest signed summary (kind 39005), kept in memory only.    *)
(*                                                                         *)
(* The session delivers events in order; overlapping subscriptions and a   *)
(* reconnect deliver them again.  Backfill, and the answer to the user's   *)
(* own deletion, write to the store without passing through here.          *)
(***************************************************************************)
EXTENDS Integers, FiniteSets, Sequences, SequencesExt

CONSTANTS
  Roots,          \* top-level posts, all loaded when their channel is open
  ChannelOf(_),   \* the channel of a root
  Replies,        \* descendants
  RootOfReply(_), \* root_event_id of a reply
  Memory,         \* RELAY_EVENT_DEDUP_CAPACITY, 16384 in the code
  MostSummaries,  \* bound: summaries the relay signs
  MostBreaks,     \* bound: reconnects and repeated deliveries
  MostOnWire      \* bound: events under way

ASSUME StreamAssumption ==
  /\ Memory \in Nat \ {0} /\ MostSummaries \in Nat /\ MostBreaks \in Nat /\ MostOnWire \in Nat
  /\ \A r \in Replies : RootOfReply(r) \in Roots

VARIABLES
  posted,       \* events the relay keeps, in order
  wire,         \* events of the session not yet taken
  signed,       \* summaries the relay has signed
  breaks,       \* reconnects and repeated deliveries so far
  asked,        \* own deletions whose OK is awaited
  written,      \* events in the store
  handled,      \* handled_relay_events
  order,        \* handled_relay_event_order
  openChannel,      \* the selected channel
  counts,       \* local_thread_summaries, of the last hydration
  liveSummaries,         \* live_thread_summaries: per root, a set: none or one
  cacheStale         \* cache_dirty

relayStream == <<posted, wire, signed, breaks, asked>>
dedup == <<handled, order>>
shownSide == <<openChannel, counts, liveSummaries>>
streamVars == <<relayStream, written, dedup, shownSide, cacheStale>>

Reply(r) == [kind |-> "reply", of |-> r, at |-> 0, counted |-> {}]
Deletion(r) == [kind |-> "deletion", of |-> r, at |-> 0, counted |-> {}]
Summary(root, at, counted) == [kind |-> "summary", of |-> root, at |-> at, counted |-> counted]

Left(events) == {r \in Replies : Reply(r) \in events /\ Deletion(r) \notin events}
Under(root, replies) == {r \in replies : RootOfReply(r) = root}
VisibleRoots == {root \in Roots : ChannelOf(root) = openChannel}

StreamInit ==
  /\ posted = <<>> /\ wire = <<>> /\ signed = 0 /\ breaks = 0 /\ asked = {}
  /\ written = {} /\ handled = {} /\ order = <<>>
  /\ openChannel \in {ChannelOf(root) : root \in Roots}
  /\ counts = [root \in Roots |-> {}]
  /\ liveSummaries = [root \in Roots |-> {}]
  /\ cacheStale = FALSE

----------------------------------------------------------------------------
(* The relay, as the session and the HTTP queries see it *)

Dispatch(event) == Len(wire) < MostOnWire /\ wire' = Append(wire, event)

Keep(event) ==
  /\ event \notin ToSet(posted)
  /\ event.kind = "deletion" => Reply(event.of) \in ToSet(posted)
  /\ posted' = Append(posted, event)
  /\ Dispatch(event)
  /\ UNCHANGED <<signed, breaks, written, dedup, shownSide, cacheStale>>

PostReply(r) == Keep(Reply(r)) /\ UNCHANGED asked
DeleteReply(r) == Keep(Deletion(r)) /\ UNCHANGED asked
DeleteOwn(r) == Keep(Deletion(r)) /\ asked' = asked \cup {r}

Summarise(root) ==
  /\ signed < MostSummaries
  /\ Dispatch(Summary(root, signed + 1, Under(root, Left(ToSet(posted)))))
  /\ signed' = signed + 1
  /\ UNCHANGED <<posted, breaks, asked, written, dedup, shownSide, cacheStale>>

\* A second subscription of the session matches the event too.
Repeat(event) ==
  /\ event \in ToSet(posted) /\ breaks < MostBreaks
  /\ Dispatch(event)
  /\ breaks' = breaks + 1
  /\ UNCHANGED <<posted, signed, asked, written, dedup, shownSide, cacheStale>>

\* What was under way is lost; the new session replays what the relay keeps.
Reconnect ==
  /\ breaks < MostBreaks
  /\ wire' = posted
  /\ breaks' = breaks + 1
  /\ UNCHANGED <<posted, signed, asked, written, dedup, shownSide, cacheStale>>

----------------------------------------------------------------------------
(* handle_network *)

\* Mutant: The set keeps what the queue drops.
RememberGrowing(event) ==
  /\ handled' = handled \cup {event}
  /\ order' = IF event \in handled THEN order
              ELSE IF Len(order) = Memory THEN Append(Tail(order), event)
              ELSE Append(order, event)

\* remember_relay_event: the oldest entry goes when the memory is full.
Remember(event) ==
  IF event \in handled THEN UNCHANGED dedup
  ELSE LET longer == Append(order, event)
           full == Len(longer) > Memory
       IN  /\ order' = IF full THEN Tail(longer) ELSE longer
           /\ handled' = (handled \cup {event}) \ (IF full THEN {Head(longer)} ELSE {})

\* apply_live_thread_summary: of a loaded root of the selected channel, and
\* newer than the one there is.
Overlay(summary) ==
  IF summary.of \in VisibleRoots /\ \A old \in liveSummaries[summary.of] : old.at < summary.at
  THEN liveSummaries' = [liveSummaries EXCEPT ![summary.of] = {summary}]
  ELSE UNCHANGED liveSummaries

\* A new reply makes its root's summary old, a new deletion everyone's.
Outdate(event) ==
  liveSummaries' = [root \in Roots |-> IF event.kind = "deletion" \/ RootOfReply(event.of) = root
                              THEN {} ELSE liveSummaries[root]]

TakeSummary(event) ==
  /\ event.kind = "summary"
  /\ Remember(event) /\ Overlay(event)
  /\ UNCHANGED <<written, openChannel, counts, cacheStale>>

TakeEvent(event) ==
  /\ event.kind # "summary"
  /\ Remember(event)
  /\ written' = written \cup {event}
  /\ IF event \in written
     THEN UNCHANGED <<liveSummaries, cacheStale>>
     ELSE Outdate(event) /\ cacheStale' = TRUE
  /\ UNCHANGED <<openChannel, counts>>

\* The store answers with an error, shown in the status line.
Refuse(event) ==
  /\ event.kind # "summary"
  /\ UNCHANGED <<written, dedup, shownSide, cacheStale>>

HandleNext ==
  /\ wire # <<>>
  /\ wire' = Tail(wire)
  /\ LET event == Head(wire)
     IN  IF event \in handled
         THEN UNCHANGED <<written, dedup, shownSide, cacheStale>>
         ELSE TakeSummary(event) \/ TakeEvent(event) \/ Refuse(event)
  /\ UNCHANGED <<posted, signed, breaks, asked>>

----------------------------------------------------------------------------
(* The other writers, and the copy that is shown *)

Backfill(event) ==
  /\ event \in ToSet(posted) \ written
  /\ written' = written \cup {event}
  /\ cacheStale' = TRUE
  /\ UNCHANGED <<relayStream, dedup, shownSide>>

\* publish_signed: the OK applies the deletion to the store.
Confirmed(r) ==
  /\ r \in asked
  /\ asked' = asked \ {r}
  /\ written' = written \cup {Deletion(r)}
  /\ cacheStale' = TRUE
  /\ UNCHANGED <<posted, wire, signed, breaks, dedup, shownSide>>

\* hydrate_cache retains the summaries of the roots it has loaded.
RetainedSummaries(c) == [root \in Roots |-> IF ChannelOf(root) = c THEN liveSummaries[root] ELSE {}]

Hydrate(c) ==
  /\ openChannel' = c
  /\ counts' = [root \in Roots |-> IF ChannelOf(root) = c THEN Under(root, Left(written)) ELSE {}]
  /\ liveSummaries' = RetainedSummaries(c)
  /\ cacheStale' = FALSE
  /\ UNCHANGED <<relayStream, written, dedup>>

TickHydrate == Hydrate(openChannel)
SelectChannel(c) == c # openChannel /\ Hydrate(c)

StreamNext ==
  \/ \E r \in Replies : PostReply(r) \/ DeleteReply(r) \/ DeleteOwn(r) \/ Confirmed(r)
  \/ \E root \in Roots : Summarise(root)
  \/ \E event \in ToSet(posted) : Repeat(event) \/ Backfill(event)
  \/ Reconnect
  \/ HandleNext
  \/ TickHydrate
  \/ \E c \in {ChannelOf(root) : root \in Roots} : SelectChannel(c)

StreamSpec == StreamInit /\ [][StreamNext]_streamVars

----------------------------------------------------------------------------
(* Properties *)

\* rebuild_thread_summaries: the greater of the two counts.
Shown(root) ==
  LET here == Cardinality(counts[root])
      there == IF liveSummaries[root] = {} THEN 0
               ELSE Cardinality((CHOOSE s \in liveSummaries[root] : TRUE).counted)
  IN  IF here < there THEN there ELSE here

\* The memory of handled events is exact and bounded: the set tests what the
\* queue will expire, no more and no less, and an event in it is never
\* applied again nor lost because its application failed (app.rs,
\* remember_relay_event and its call sites).
MemoryExact ==
  /\ handled = ToSet(order) /\ Len(order) <= Memory /\ Cardinality(handled) = Len(order)
  /\ \A event \in handled : event.kind # "summary" => event \in written

\* "No thread summary may cross community or channel boundaries": a summary
\* counts in the channel it was received in, also after switching to and fro.
SummariesBelong == \A root \in Roots : Shown(root) > 0 => root \in VisibleRoots

\* Of overlapping subscriptions each event has its effect once, and where it
\* belongs (app.rs, handle_network).
StreamExact == MemoryExact /\ SummariesBelong
-----------------------------------------------------------------------------
(* Refuted: what is said or expected and the code does not do; in no run.    *)

\* "Deleted replies disappear from count": with nothing under way and the
\* cache fresh, no deletion the store has applied is still counted.
DeletedLeaveCount ==
  (wire = <<>> /\ asked = {} /\ ~cacheStale) =>
    \A root \in VisibleRoots : Left(written) \cap Under(root, Replies) = {}
                          /\ Under(root, {r \in Replies : Deletion(r) \in written}) # {}
                          => Shown(root) = 0
=============================================================================
