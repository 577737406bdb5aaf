------------------------------- MODULE Inbox -------------------------------
(***************************************************************************)
(* The Inbox: the projection of the store (store/inbox.rs) and the route   *)
(* that shows it (app.rs, ui/inbox.rs).                                    *)
(*                                                                         *)
(* The store keeps one row per conversation in inbox_conversations and a   *)
(* dirty flag.  Whatever a row depends on is written by other operations,  *)
(* each of which has to raise the flag; a page is read from the rows, and  *)
(* they are derived again first when the flag is up.  The application      *)
(* holds a copy of the last page it loaded, in a task it aborts when it    *)
(* starts another, and loads the detail of the selected row by itself.     *)
(*                                                                         *)
(* A post is named by its created_at.  Scope(p) is the conversation that   *)
(* the grouping of the store puts it in: a direct message's channel, or    *)
(* the thread of a reply.  The windows of 64 posts, the scan caps, the     *)
(* needs-action cards and the rows of a single post are not modelled.      *)
(***************************************************************************)
EXTENDS Integers, FiniteSets, FiniteSetsExt

CONSTANTS
  InboxPosts,     \* created_at of the posts, all different
  Talks,          \* conversations: dm:<channel> and thread:<root>
  Direct,         \* those of them that are direct messages
  Scope(_),       \* conversation of a post
  Mine(_),        \* the identity wrote the post
  MentionsMe(_),  \* event_mentions has the identity
  DraftTimes,     \* updated_at that a draft can have
  MostTouched     \* bound: how much of the store differs from its beginning

ASSUME InboxAssumption ==
  /\ InboxPosts \cup DraftTimes \subseteq Nat \ {0} /\ Direct \subseteq Talks
  /\ MostTouched \in Nat
  /\ \A p \in InboxPosts : Scope(p) \in Talks

NoTalk == "no conversation"
NoDraft == 0
NoRow == [at |-> 0, count |-> 0, forced |-> FALSE]

VARIABLES
  base,         \* what the rows are derived from
  projection,   \* inbox_conversations: a row per conversation, NoRow for none
  dirty,        \* inbox_projection_meta
  inbox,        \* the route: the page shown, filter, selection, detail
  loads         \* the load tasks: of the page, and of a row's detail

inboxVars == <<base, projection, dirty, inbox, loads>>

InboxInit ==
  /\ base = [posts |-> {}, visible |-> Talks, draft |-> [t \in Talks |-> NoDraft],
             read |-> [t \in Talks |-> 0], done |-> [t \in Talks |-> 0], forced |-> {}]
  /\ projection = [t \in Talks |-> NoRow] /\ dirty = TRUE
  /\ inbox = [route |-> "workspace", shown |-> projection, unreadOnly |-> FALSE,
              selected |-> NoTalk, detail |-> NoTalk, pending |-> {}, back |-> NoTalk]
  /\ loads = [items |-> FALSE, detail |-> NoTalk]

----------------------------------------------------------------------------
(* derive_inbox_projection *)

InScope(b, t) == {p \in b.posts : Scope(p) = t}

\* candidate_rows: posts of a direct message, that mention the identity, or of
\* a thread it has written in
Candidates(b, t) ==
  IF t \notin b.visible THEN {}
  ELSE {p \in InScope(b, t) : \/ t \in Direct \/ MentionsMe(p)
                              \/ \E q \in InScope(b, t) : Mine(q)}

\* unread_summary counts again, over every post of the conversation
Unread(b, t) == {p \in InScope(b, t) : ~Mine(p) /\ p > b.read[t] /\ p > b.done[t]}

Row(b, t) ==
  LET draft == IF t \in b.visible THEN b.draft[t] ELSE NoDraft
      times == Candidates(b, t) \cup ({draft} \ {NoDraft})
  IN  IF times = {} THEN NoRow
      ELSE [at |-> Max(times), count |-> Cardinality(Unread(b, t)),
            forced |-> t \in b.forced]

Derived(b) == [t \in Talks |-> Row(b, t)]

----------------------------------------------------------------------------
(* Writers of what the rows depend on *)

Touched(b) ==
  LET given(f) == Cardinality({t \in Talks : f[t] # 0})
  IN  Cardinality(b.posts) + Cardinality(b.forced) + Cardinality(Talks \ b.visible)
        + given(b.draft) + given(b.read) + given(b.done)

Changes(b) ==
  /\ Touched(b) <= MostTouched
  /\ base' = b /\ dirty' = TRUE /\ UNCHANGED projection
Aside == UNCHANGED <<inbox, loads>>

\* apply_event, and mark_outbox_observed of an own post
ApplyPost(p) ==
  /\ p \notin base.posts
  /\ Changes([base EXCEPT !.posts = @ \cup {p}])
  /\ Aside

\* a kind 5 event is applied
ApplyDeletion(p) ==
  /\ p \in base.posts
  /\ Changes([base EXCEPT !.posts = @ \ {p}])
  /\ Aside

\* mutant: the event that changes memberships or the hidden direct messages is
\* applied without raising the flag
ApplyVisibilityQuietly(t) ==
  /\ base' = [base EXCEPT !.visible = IF t \in @ THEN @ \ {t} ELSE @ \cup {t}]
  /\ UNCHANGED <<dirty, projection>> /\ Aside

ApplyVisibility(t) ==
  /\ Changes([base EXCEPT !.visible = IF t \in @ THEN @ \ {t} ELSE @ \cup {t}])
  /\ Aside

\* save_draft, and mark_draft_sending or a deletion of the row
SaveDraft(t, at) ==
  /\ base.draft[t] # at
  /\ Changes([base EXCEPT !.draft[t] = at])
  /\ Aside

\* advance_read from the workspace, merge_read_contexts of a remote event
AdvanceRead(t, at) ==
  /\ base.read[t] < at
  /\ Changes([base EXCEPT !.read[t] = at])
  /\ Aside

----------------------------------------------------------------------------
(* Tasks.  A refresh applies events of the relay first, which ApplyPost     *)
(* covers; a task that is aborted before it sends sends nothing.  A result  *)
(* is handled as it is sent: nothing that waits for it could tell.          *)

SpawnLoad == loads' = [loads EXCEPT !.items = TRUE]
SpawnDetail(t) == [loads EXCEPT !.detail = t]

----------------------------------------------------------------------------
(* The route *)

Listed(state) ==
  {t \in Talks : state.shown[t] # NoRow
     /\ (state.unreadOnly => state.shown[t].count > 0 \/ state.shown[t].forced)}
FirstListed(state) == {t \in Listed(state) : \A u \in Listed(state) :
                         state.shown[u].at <= state.shown[t].at}

\* ViewportState::reconcile keeps the selected conversation while it is listed
Selections(state) ==
  IF state.selected \in Listed(state) THEN {state.selected}
  ELSE IF Listed(state) = {} THEN {NoTalk} ELSE FirstListed(state)

\* inbox_page derives the rows when the flag is up, then reads them; the event
\* loop takes them and loads the detail of the selected one
ItemsLoaded ==
  /\ loads.items
  /\ projection' = IF dirty THEN Derived(base) ELSE projection
  /\ dirty' = FALSE
  /\ LET state == [inbox EXCEPT !.shown = projection'] IN
     \E t \in Selections(state) :
       IF state.route = "inbox"
       THEN /\ inbox' = [state EXCEPT !.selected = t, !.detail = IF t = NoTalk THEN NoTalk ELSE @]
            /\ loads' = [items |-> FALSE, detail |-> t]
       ELSE inbox' = [state EXCEPT !.selected = t] /\ loads' = [loads EXCEPT !.items = FALSE]
  /\ UNCHANGED base

\* inbox_conversation_context; the event loop drops it when it comes too late
DetailLoaded ==
  /\ loads.detail # NoTalk
  /\ inbox' = IF inbox.route = "inbox" /\ inbox.selected = loads.detail
              THEN [inbox EXCEPT !.detail = inbox.selected] ELSE inbox
  /\ loads' = [loads EXCEPT !.detail = NoTalk]
  /\ UNCHANGED <<base, projection, dirty>>

storeSide == <<base, projection, dirty>>
OnRoute == inbox.route = "inbox" /\ inbox.pending = {}

OpenInbox ==
  /\ inbox.route = "workspace" /\ inbox.back = NoTalk
  /\ inbox' = [inbox EXCEPT !.route = "inbox", !.detail = NoTalk]
  /\ SpawnLoad /\ UNCHANGED storeSide

SelectTalk(t) ==
  /\ OnRoute /\ t \in Listed(inbox)
  /\ inbox' = [inbox EXCEPT !.selected = t]
  /\ loads' = SpawnDetail(t) /\ UNCHANGED storeSide

CycleFilter ==
  /\ OnRoute
  /\ LET state == [inbox EXCEPT !.unreadOnly = ~@] IN
     \E t \in Selections(state) :
       /\ inbox' = [state EXCEPT !.selected = t, !.detail = IF t = NoTalk THEN NoTalk ELSE @]
       /\ loads' = SpawnDetail(t)
  /\ UNCHANGED storeSide

\* InboxState::selected falls back to the first row
Chosen == IF inbox.selected \in Listed(inbox) THEN {inbox.selected} ELSE FirstListed(inbox)

\* mark_inbox_item_read: the override, then the narrowest shared contexts; the
\* context of the row's latest post adds nothing to that of its thread
MarkedRead(b, talks) ==
  [b EXCEPT !.done = [t \in Talks |-> IF t \in talks THEN inbox.shown[t].at ELSE @[t]],
            !.read = [t \in Talks |-> IF t \in talks /\ @[t] < inbox.shown[t].at
                                      THEN inbox.shown[t].at ELSE @[t]],
            !.forced = @ \ talks]

MarkRead(t) ==
  /\ OnRoute /\ t \in Chosen
  /\ Changes(MarkedRead(base, {t}))
  /\ SpawnLoad /\ UNCHANGED inbox

MarkUnread(t) ==
  /\ OnRoute /\ t \in Chosen
  /\ Changes([base EXCEPT !.forced = IF inbox.shown[t].forced THEN @ \ {t} ELSE @ \cup {t}])
  /\ SpawnLoad /\ UNCHANGED inbox

\* more than one row: a question first, about the rows listed now
AskMarkVisibleRead ==
  /\ OnRoute /\ Cardinality(Listed(inbox)) > 1
  /\ inbox' = [inbox EXCEPT !.pending = Listed(inbox)]
  /\ UNCHANGED <<storeSide, loads>>

AnswerMarkVisibleRead(yes) ==
  /\ inbox.pending # {}
  /\ inbox' = [inbox EXCEPT !.pending = {}]
  /\ IF yes THEN Changes(MarkedRead(base, inbox.pending)) /\ SpawnLoad
            ELSE UNCHANGED <<storeSide, loads>>

\* the canonical context of the selected row, while it is a channel of the store
OpenInboxItem(t) ==
  /\ OnRoute /\ t \in Chosen /\ t \in base.visible
  /\ inbox' = [inbox EXCEPT !.route = "workspace", !.back = t]
  /\ UNCHANGED <<storeSide, loads>>

LeaveContext ==
  /\ inbox.route = "workspace" /\ inbox.back # NoTalk
  /\ inbox' = [inbox EXCEPT !.route = "inbox", !.back = NoTalk]
  /\ UNCHANGED <<storeSide, loads>>

LeaveInbox ==
  /\ OnRoute
  /\ inbox' = [inbox EXCEPT !.route = "workspace"]
  /\ UNCHANGED <<storeSide, loads>>

\* every 30 seconds while connected
TickRefresh == SpawnLoad /\ UNCHANGED <<storeSide, inbox>>

StoreStep ==
  \/ \E p \in InboxPosts : ApplyPost(p) \/ ApplyDeletion(p)
  \/ \E t \in Talks : ApplyVisibility(t)
       \/ (\E at \in DraftTimes \cup {NoDraft} : SaveDraft(t, at))
       \/ (\E at \in InboxPosts : AdvanceRead(t, at))

RouteStep ==
  \/ OpenInbox \/ CycleFilter \/ AskMarkVisibleRead \/ LeaveContext \/ LeaveInbox \/ TickRefresh
  \/ \E t \in Talks : SelectTalk(t) \/ MarkRead(t) \/ MarkUnread(t) \/ OpenInboxItem(t)
  \/ \E yes \in BOOLEAN : AnswerMarkVisibleRead(yes)

InboxNext == StoreStep \/ RouteStep \/ ItemsLoaded \/ DetailLoaded

InboxSpec == InboxInit /\ [][InboxNext]_inboxVars
----------------------------------------------------------------------------
(* What holds *)

\* While the flag is down the rows are what deriving them now would give: every
\* operation that changes what a row depends on raises it.
FreshWhenClean == ~dirty => projection = Derived(base)
-----------------------------------------------------------------------------
(* Refuted: what is said or expected and the code does not do; in no run.    *)

\* "`q`/`Esc` returns to the same Inbox selection", and to its detail
ReturnsToSelection ==
  [][LeaveContext => inbox'.selected = inbox.back /\ inbox'.detail \in {inbox.back, NoTalk}]_inboxVars
=============================================================================
