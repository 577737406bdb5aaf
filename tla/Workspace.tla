----------------------------- MODULE Workspace -----------------------------
(***************************************************************************)
(* The workspace route of the terminal application: the channel list, the  *)
(* timeline of one channel, the thread beside it, the composer's target,   *)
(* the questions and pickers that act on a message, and the read marks.    *)
(*                                                                         *)
(* The event loop (app.rs) handles one thing at a time: a key or a click,  *)
(* a tick, a result of a background task.  What it shows is a copy: the    *)
(* store changes under it (Arrive, LoseMembership) and only hydrate_cache  *)
(* copies again, on a tick or inside a handler.  Between the two the       *)
(* selected channel, the loaded posts, the selected post and the open      *)
(* thread need not be of one conversation.                                 *)
(*                                                                         *)
(* Posts are numbers in the order (created_at, id) of the store.           *)
(***************************************************************************)
EXTENDS Integers, FiniteSets, Sequences, SequencesExt

CONSTANTS
  Rooms,          \* channels the identity can be a member of
  Posts,          \* messages, numbered in the order the store lists them
  RoomOf(_),      \* h tag of a post
  ThreadOf(_),    \* root_event_id of a post, NoPost for a top-level one
  OwnPost(_),     \* the post is the identity's own
  AlreadyStored,         \* posts the database holds when the program starts
  PageSize        \* 500: how many posts a query loads

NoPost == 0
NoRoom == "no room"

ASSUME WorkspaceAssumption ==
  /\ Posts \subseteq Nat \ {0} /\ AlreadyStored \subseteq Posts /\ PageSize \in Nat \ {0, 1}
  /\ IsFiniteSet(AlreadyStored) /\ NoRoom \notin Rooms
  /\ \A p \in Posts : RoomOf(p) \in Rooms /\ ThreadOf(p) \in Posts \cup {0}

VARIABLES
  written,      \* posts in the events table
  joined,       \* the channels the store lists, all of them joined here
  room,         \* selected_channel
  posts,        \* messages: the loaded top-level posts
  timeline,     \* TimelineState of the channel
  root,         \* thread_root
  replies,      \* thread_messages
  side,         \* TimelineState of the thread
  presentation, \* route, focus, overlay, composer target, inbox_return
  marks         \* read_contexts: the channels' contexts

onScreen == <<room, posts, timeline, root, replies, side>>
workspaceVars == <<written, joined, onScreen, presentation, marks>>

Fresh == [selected |-> NoPost, live |-> TRUE]
NoTarget == [room |-> NoRoom, root |-> NoPost]

WorkspaceInit ==
  /\ written = AlreadyStored /\ joined = Rooms
  /\ room = NoRoom /\ posts = <<>> /\ timeline = Fresh
  /\ root = NoPost /\ replies = <<>> /\ side = Fresh
  /\ presentation = [route |-> "workspace", focus |-> "timeline", overlay |-> "none",
                     target |-> NoTarget, back |-> FALSE]
  /\ marks = [r \in Rooms |-> 0]

----------------------------------------------------------------------------
(* Queries of the store *)

\* ORDER BY: each post at its rank
Ordered(S) == [i \in 1..Cardinality(S) |-> CHOOSE p \in S : Cardinality({q \in S : q < p}) = i - 1]
Newest(S, n) == Ordered({p \in S : Cardinality({q \in S : q > p}) < n})
Oldest(S, n) == Ordered({p \in S : Cardinality({q \in S : q < p}) < n})

TopLevel(r) == {p \in written : RoomOf(p) = r /\ ThreadOf(p) = NoPost}
InThread(t) == {p \in written : p = t \/ ThreadOf(p) = t}

\* context_messages: half a page up to the anchor, half a page after it
Around(S, anchor) ==
  LET before == {p \in S : p <= anchor}
  IN  Newest(before, PageSize \div 2)
        \o Oldest(S \ before, PageSize - PageSize \div 2)

\* mutant: always the first query
PageLatest(latest, S, r, anchor) == latest

\* a first query, or the page around an anchor that it does not reach; an
\* anchor that is not of the channel finds nothing
Page(latest, S, r, anchor) ==
  IF anchor = NoPost \/ anchor \in ToSet(latest) THEN latest
  ELSE IF anchor \in written /\ RoomOf(anchor) = r
       THEN Around({p \in S : RoomOf(p) = r}, anchor)
       ELSE <<>>

LastOf(s) == IF s = <<>> THEN NoPost ELSE Last(s)
Later(s, t) == IF s < t THEN t ELSE s

\* latest_channel_activity_at
LatestActivity(r) == LastOf(Ordered({p \in written : RoomOf(p) = r}))

\* TimelineState::reconcile
FocusReconciled(pane, loaded) ==
  [pane EXCEPT
     !.selected = IF pane.live \/ (@ # NoPost /\ @ \notin ToSet(loaded))
                  THEN LastOf(loaded) ELSE @]

----------------------------------------------------------------------------
(* hydrate_cache, from the selected channel, thread and panes given to it.  *)
(* The thread's first query is its oldest page, the channel's its newest    *)

Hydrate(r, t, pane, threadPane) ==
  \E next \in IF r \in joined THEN {r} ELSE IF joined = {} THEN {NoRoom} ELSE joined :
    /\ room' = next /\ root' = t
    /\ IF next = NoRoom
       THEN /\ posts' = <<>> /\ replies' = <<>>
            /\ timeline' = pane /\ side' = threadPane
       ELSE /\ posts' = Page(Newest(TopLevel(next), PageSize), TopLevel(next), next, pane.selected)
            /\ timeline' = FocusReconciled(pane, posts')
            /\ IF t = NoPost
               THEN replies' = replies /\ side' = threadPane
               ELSE /\ replies' = Page(Oldest(InThread(t), PageSize), InThread(t), next, threadPane.selected)
                    /\ side' = FocusReconciled(threadPane, replies')

\* is_at_live_edge: the flag, or the last measured frame fitted its pane
AtLiveEdge(pane) == pane.live \/ \E fitted \in BOOLEAN : fitted

\* mark_current_read, on the screen of the next state: the contexts of a thread
\* (not modelled) or, by timeline_read_mark, the context of the channel
OnThread(focus) == focus = "thread" /\ root' # NoPost /\ replies' # <<>>
                     /\ RoomOf(Last(replies')) = room'
MarkRoom == marks' = [marks EXCEPT ![room'] = Later(@, LatestActivity(room'))]

MarkCurrentRead(focus) ==
  IF ~OnThread(focus) /\ posts' # <<>> /\ AtLiveEdge(timeline') /\ RoomOf(Last(posts')) = room'
  THEN MarkRoom ELSE UNCHANGED marks

ShouldMarkVisibleRead ==
  /\ presentation.route = "workspace"
  /\ presentation.overlay = "none" /\ presentation.target = NoTarget
  /\ AtLiveEdge(IF presentation.focus = "thread" THEN side' ELSE timeline')

(* on_tick: the screen is copied again when it is known stale, or every second *)
WorkspaceTick ==
  /\ UNCHANGED onScreen \/ Hydrate(room, root, timeline, side)
  /\ IF ShouldMarkVisibleRead THEN MarkCurrentRead(presentation.focus) ELSE UNCHANGED marks
  /\ UNCHANGED <<written, joined, presentation>>

----------------------------------------------------------------------------
(* The world: an event is applied to the store, a membership is withdrawn *)

Arrive(p) ==
  /\ p \notin written
  /\ ThreadOf(p) \in written \cup {NoPost}
  /\ written' = written \cup {p}
  /\ UNCHANGED <<joined, onScreen, presentation, marks>>

LoseMembership(r) ==
  /\ r \in joined /\ joined' = joined \ {r}
  /\ UNCHANGED <<written, onScreen, presentation, marks>>

----------------------------------------------------------------------------
(* Keys and clicks *)

InPanes == presentation.route = "workspace" /\ presentation.overlay = "none"
             /\ presentation.target = NoTarget
FocusIs(f) == presentation.focus = f
Focused(f) == [presentation EXCEPT !.focus = IF presentation.route = "workspace" THEN f ELSE @]

\* selected_message
SelectedPost ==
  LET pane == IF FocusIs("thread") THEN side ELSE timeline
      here == IF FocusIs("thread") THEN replies ELSE posts
  IN  IF pane.selected \in ToSet(here) THEN pane.selected ELSE NoPost

SetFocus(f) ==
  /\ InPanes /\ (f = "thread" => root # NoPost)
  /\ presentation' = Focused(f)
  /\ UNCHANGED <<written, joined, onScreen, marks>>

\* j, k, g and G in the channel list change the selection and load nothing
SelectRoom(r) ==
  /\ InPanes /\ FocusIs("rooms") /\ r \in joined \ {room}
  /\ room' = r
  /\ UNCHANGED <<written, joined, posts, timeline, root, replies, side, presentation, marks>>

Select(pane, p, here) == [pane EXCEPT !.selected = p, !.live = (p = Last(here))]

SelectPost(p) ==
  /\ InPanes
  /\ \/ /\ p \in ToSet(posts) /\ timeline' = Select(timeline, p, posts) /\ side' = side
        /\ presentation' = Focused("timeline")
     \/ /\ root # NoPost /\ p \in ToSet(replies)
        /\ side' = Select(side, p, replies) /\ timeline' = timeline
        /\ presentation' = Focused("thread")
  /\ UNCHANGED <<written, joined, room, posts, root, replies, marks>>

\* scroll_by: the bottom of the measured rows is the live edge
Scroll(bottom) ==
  /\ InPanes /\ FocusIs("timeline")
  /\ timeline' = [timeline EXCEPT !.live = bottom]
  /\ UNCHANGED <<written, joined, room, posts, root, replies, side, presentation, marks>>

LoadSelectedChannel(r, focus) ==
  /\ Hydrate(r, NoPost, Fresh, side)
  /\ IF room' = NoRoom THEN UNCHANGED marks ELSE MarkCurrentRead(focus)

\* Enter in the channel list, and a click on a channel
OpenRoom(r) ==
  /\ InPanes /\ r \in joined /\ (FocusIs("rooms") \/ r # room)
  /\ LoadSelectedChannel(r, "rooms")
  /\ \E f \in {"rooms", "timeline"} : presentation' = Focused(f)
  /\ UNCHANGED <<written, joined>>

ToggleThread ==
  /\ InPanes
  /\ IF root # NoPost
     THEN /\ root' = NoPost /\ presentation' = Focused("timeline")
          /\ UNCHANGED <<room, posts, timeline, replies, side>>
     ELSE /\ SelectedPost # NoPost
          /\ LET t == ThreadOf(SelectedPost)
             IN  Hydrate(room, IF t = NoPost THEN SelectedPost ELSE t, timeline, side)
          /\ presentation' = Focused("thread")
  /\ UNCHANGED <<written, joined, marks>>

\* a question or a picker about the selected message
AskFirst(overlay) ==
  /\ InPanes /\ SelectedPost # NoPost
  /\ overlay = "delete" => OwnPost(SelectedPost)
  /\ overlay = "reaction" => FocusIs("timeline") \/ FocusIs("thread")
  /\ presentation' = [presentation EXCEPT !.overlay = overlay]
  /\ UNCHANGED <<written, joined, onScreen, marks>>

\* delete_selected and send_reaction take the message selected now
Act ==
  /\ presentation.overlay \in {"delete", "reaction"} /\ SelectedPost # NoPost
  /\ presentation' = [presentation EXCEPT !.overlay = "none"]
  /\ UNCHANGED <<written, joined, onScreen, marks>>

EnterComposer ==
  /\ InPanes /\ room # NoRoom
  /\ presentation' = [presentation EXCEPT !.target =
       [room |-> room, root |-> root]]
  /\ UNCHANGED <<written, joined, onScreen, marks>>

\* PresentationState::back, then reduce_workspace
WorkspaceBack ==
  \/ /\ \/ /\ presentation.overlay # "none"
           /\ presentation' = [presentation EXCEPT !.overlay = "none"]
        \/ /\ presentation.overlay = "none" /\ presentation.target # NoTarget
           /\ presentation' = [presentation EXCEPT !.target = NoTarget]
        \/ /\ presentation.overlay = "none" /\ presentation.target = NoTarget
           /\ presentation.route = "inbox"
           /\ presentation' = [presentation EXCEPT !.route = "workspace", !.focus = "timeline"]
        \/ /\ InPanes /\ presentation.back
           /\ presentation' = [presentation EXCEPT !.route = "inbox", !.focus = "list", !.back = FALSE]
     /\ UNCHANGED <<written, joined, onScreen, marks>>
  \/ /\ InPanes /\ ~presentation.back /\ root # NoPost
     /\ root' = NoPost /\ presentation' = Focused("timeline")
     /\ UNCHANGED <<written, joined, room, posts, timeline, replies, side, marks>>

SwitchToInbox ==
  /\ InPanes
  /\ presentation' = [presentation EXCEPT !.route = "inbox", !.focus = "list", !.back = FALSE]
  /\ UNCHANGED <<written, joined, onScreen, marks>>

(* open_channel_context: a search result or the source of an inbox row; the *)
(* channel is loaded before the post is selected and loaded around          *)
OpenContext(p) ==
  LET t == ThreadOf(p) IN
  /\ presentation.overlay = "none" /\ presentation.target = NoTarget
  /\ p \in written /\ RoomOf(p) \in joined
  /\ Hydrate(RoomOf(p), t, IF t = NoPost THEN [Fresh EXCEPT !.selected = p, !.live = FALSE]
                                         ELSE [Fresh EXCEPT !.selected = LastOf(Newest(TopLevel(RoomOf(p)), PageSize))],
             IF t = NoPost THEN side ELSE [side EXCEPT !.selected = p, !.live = FALSE])
  /\ marks' = IF TopLevel(RoomOf(p)) = {} THEN marks
              ELSE [marks EXCEPT ![RoomOf(p)] = Later(@, LatestActivity(RoomOf(p)))]
  /\ presentation' = [presentation EXCEPT
       !.route = "workspace", !.focus = IF t = NoPost THEN "timeline" ELSE "thread",
       !.back = IF presentation.route = "inbox" THEN TRUE ELSE @]
  /\ UNCHANGED <<written, joined>>

\* mutant: the focus stays where it was
ArriveInPlace(r) ==
  /\ r \in joined
  /\ LoadSelectedChannel(r, presentation.focus)
  /\ presentation' = [presentation EXCEPT !.overlay = "none"]
  /\ UNCHANGED <<written, joined>>

(* Background::DmOpened arrives whatever is on the screen *)
ArriveInDm(r) ==
  /\ r \in joined
  /\ LoadSelectedChannel(r, presentation.focus)
  /\ presentation' = [Focused("timeline") EXCEPT !.overlay = "none"]
  /\ UNCHANGED <<written, joined>>

(* Background::DmHidden *)
DmHidden(r) ==
  /\ Hydrate(room, root, timeline, side)
  /\ presentation' = IF room' = r THEN Focused("rooms") ELSE presentation
  /\ UNCHANGED <<written, joined, marks>>

UserStep ==
  \/ \E f \in {"rooms", "timeline", "thread"} : SetFocus(f)
  \/ \E r \in Rooms : SelectRoom(r) \/ OpenRoom(r)
  \/ \E p \in Posts : SelectPost(p) \/ OpenContext(p)
  \/ \E bottom \in BOOLEAN : Scroll(bottom)
  \/ ToggleThread \/ Act \/ EnterComposer \/ WorkspaceBack \/ SwitchToInbox
  \/ \E overlay \in {"delete", "reaction"} : AskFirst(overlay)

ProgramStep == WorkspaceTick \/ (\E r \in Rooms : ArriveInDm(r) \/ DmHidden(r))

WorkspaceNext ==
  \/ UserStep \/ ProgramStep
  \/ \E p \in Posts : Arrive(p)
  \/ \E r \in Rooms : LoseMembership(r)

WorkspaceSpec == WorkspaceInit /\ [][WorkspaceNext]_workspaceVars
----------------------------------------------------------------------------
(* What holds *)

\* A reader who left the live edge keeps the selected message, and keeps it
\* loaded, whatever arrives meanwhile: also when more than a page of newer
\* messages pushes it out of the latest page.
DetachedStays ==
  [][~timeline.live /\ timeline.selected \in TopLevel(room) /\ room' = room /\ WorkspaceTick
       => timeline'.selected = timeline.selected /\ timeline.selected \in ToSet(posts')]_workspaceVars

\* The keys never act on a message of a thread that is not on the screen: the
\* focus is on the thread pane only while a thread is open, whichever handler
\* closed it (thread_messages is not cleared with it).
ActsOnVisible == presentation.route = "workspace" /\ FocusIs("thread") => root # NoPost

\* A read mark of a channel advances only while posts of that channel are on
\* the screen, however fast the selection moves through the sidebar.
MarksItsChannel ==
  [][\A r \in Rooms : marks'[r] > marks[r]
       => room' = r /\ posts' # <<>> /\ RoomOf(Last(posts')) = r]_workspaceVars

\* The two panes follow the reader and not the events: both of the above.
ReaderIsFollowed == DetachedStays /\ MarksItsChannel
-----------------------------------------------------------------------------
(* Refuted: what is said or expected and the code does not do; in no run.    *)

\* "Press `i` and verify that the persistent writing dock becomes the normal
\* multiline composer, uses the exact channel/thread target": the thread of a
\* composer's target is a thread of the target's channel.
ReplyInItsChannel ==
  presentation.target.root # NoPost
    => RoomOf(presentation.target.root) = presentation.target.room

\* "It is an event ID, never a row coordinate, so asynchronous arrivals and
\* wrapping cannot change what a user selected": a tick does not change the
\* message that the open question or picker is about.
ChoiceStands ==
  [][WorkspaceTick /\ room' = room /\ presentation.overlay \in {"delete", "reaction"}
       => timeline'.selected = timeline.selected]_workspaceVars
=============================================================================
