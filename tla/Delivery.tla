------------------------------ MODULE Delivery ------------------------------
(***************************************************************************)
(* How what the user writes reaches the relay and how the client knows:     *)
(* the composer and the durable draft of one conversation (src/app.rs,      *)
(* src/store/queries.rs), the acknowledged outbox (src/service/messages.rs, *)
(* src/store/queries.rs), its reconciliation (src/sync/outbox.rs) and the   *)
(* echoes that also settle it (src/store/events.rs).                        *)
(*                                                                          *)
(* One SQLite writer thread runs the store calls one at a time, so a store  *)
(* call is one step; what happens between two calls of one task is not. A   *)
(* crash keeps what is committed. The supervisor is seen through what it    *)
(* promises to a caller of publish (module Supervisor): one EVENT at a time *)
(* awaits its answer, and an answer is what the relay decided or "local" or *)
(* "uncertain". A shutdown is a crash that starts with a flush.             *)
(***************************************************************************)
EXTENDS Integers, FiniteSets

CONSTANTS
    Events,          \* the events this client will ever sign
    Reactions,       \* those that may be a reaction or a deletion instead of a message
    Texts,           \* what the user may write
    Flushers,        \* reconciliations that may run side by side
    DuplicateOk,     \* the relay answers OK true to an event it already has
    SplitInsert,     \* a crash may hit between the two transactions of an insert
    Empty,           \* the empty composer
    Closed,          \* the composer is not open
    NoText,          \* nothing was signed yet
    NoEvent,         \* outbox_event_id IS NULL
    NoDraft          \* there is no row in drafts

Rows == {"none", "pending", "unknown", "rejected", "delivered"}
Results == {"none", "accepted", "rejected", "local", "uncertain"}
Stages == {"idle", "signing", "queued", "awaiting", "answered"}
Callers == Events \cup Flushers

ASSUME EventAssumption ==
    /\ Reactions \subseteq Events
    /\ NoEvent \notin Events
    /\ Events \cap Flushers = {}

ASSUME TextAssumption ==
    /\ Empty \notin Texts /\ Closed \notin Texts /\ NoText \notin Texts
    /\ Empty # Closed /\ Empty # NoText /\ Closed # NoText

Draft == [text : Texts \cup {Empty}, rev : Nat \ {0},
          state : {"editing", "sending"}, bound : Events \cup {NoEvent}]
Call == [stage : Stages, event : Events \cup {NoEvent}, result : Results]

ASSUME DraftAssumption == NoDraft \notin Draft

ASSUME RelayAssumption == {DuplicateOk, SplitInsert} \subseteq BOOLEAN

VARIABLES
    composer,        \* the text in the open composer, or Closed
    draft,           \* the drafts row of this conversation
    lastRev,         \* the last revision handed out; a revision is a fresh UUID
    content,         \* the text of every signed event, Empty for one that is no message
    sub,             \* the DraftSubmission an event was signed for, 0 if none
    stored,          \* the events table
    row,             \* outbox.state of every event
    call,            \* what each sending task and each reconciliation is doing
    items,           \* the snapshot each reconciliation still has to go through
    up,              \* the process runs
    wire,            \* events with a copy on its way; one never taken is lost
    relay,           \* events the relay has stored
    ok               \* the OK frame for the publication that awaits one

userVars == <<composer, draft, lastRev>>
signedVars == <<content, sub>>
storeVars == <<stored, row>>
taskVars == <<call, items>>
relayVars == <<wire, relay, ok>>
vars == <<composer, draft, lastRev, content, sub, stored, row, call, items, up,
          wire, relay, ok>>

Idle == [stage |-> "idle", event |-> NoEvent, result |-> "none"]
Working(stage, e) == [stage |-> stage, event |-> e, result |-> "none"]

Init ==
    /\ composer = Closed
    /\ draft = NoDraft
    /\ lastRev = 0
    /\ content = [e \in Events |-> NoText]
    /\ sub = [e \in Events |-> 0]
    /\ stored = {}
    /\ row = [e \in Events |-> "none"]
    /\ call = [c \in Callers |-> Idle]
    /\ items = [f \in Flushers |-> {}]
    /\ up = TRUE
    /\ wire = {}
    /\ relay = {}
    /\ ok = "none"
-----------------------------------------------------------------------------
(* The drafts row *)

\* A generation that is being sent, or was bound to an event, is never edited
\* in place.
Generation == draft # NoDraft /\ draft.state = "editing" /\ draft.bound = NoEvent

\* Mutants of save_draft: the binding survives the edit; the revision does.
SavedKeepsBinding(text) ==
    IF draft # NoDraft THEN [draft EXCEPT !.text = text, !.state = "editing"]
    ELSE [text |-> text, rev |-> lastRev + 1, state |-> "editing", bound |-> NoEvent]
SavedKeepsRevision(text) ==
    [text |-> text, rev |-> IF draft # NoDraft THEN draft.rev ELSE lastRev + 1,
     state |-> "editing", bound |-> NoEvent]

\* save_draft: an upsert that always leaves an editable, unbound row.
Saved(text) ==
    IF Generation THEN [draft EXCEPT !.text = text]
    ELSE [text |-> text, rev |-> lastRev + 1, state |-> "editing", bound |-> NoEvent]

SaveDraft(text) ==
    /\ draft' = Saved(text)
    /\ lastRev' = IF Generation THEN lastRev ELSE lastRev + 1

\* mark_draft_sending
MarkedSending(d) ==
    IF d.state = "editing" /\ d.bound = NoEvent THEN [d EXCEPT !.state = "sending"]
    ELSE d

\* The row is the generation `rev`, still waiting for its event.
IsUnbound(rev) ==
    draft # NoDraft /\ draft.rev = rev /\ draft.state = "sending" /\ draft.bound = NoEvent

\* restore_unbound_draft_submission
Restored(rev) == IF IsUnbound(rev) THEN [draft EXCEPT !.state = "editing"] ELSE draft

IsBound(e) == draft # NoDraft /\ draft.bound = e

\* draft_record: only an editable generation is shown.
DraftRecord == IF draft # NoDraft /\ draft.state = "editing" THEN draft.text ELSE Empty
-----------------------------------------------------------------------------
(* The outbox *)

\* Reactions and deletions: events that are no conversation rows.
Auxiliary == {e \in Events : content[e] = Empty}

\* apply_event of an event that is, or may be, in the outbox: whatever brought
\* it, the relay has it, so its row is delivered and its draft is done with.
ApplyEvent(e) ==
    /\ stored' = stored \cup {e}
    /\ row' = IF row[e] = "none" THEN row ELSE [row EXCEPT ![e] = "delivered"]
    /\ draft' = IF IsBound(e) THEN NoDraft ELSE draft

\* Mutant: an uncertain outcome leaves the draft hidden.
OutboxStateKeepsDraft(e, state) ==
    /\ row' = IF row[e] = "none" THEN row ELSE [row EXCEPT ![e] = state]
    /\ draft' = IF IsBound(e) /\ state = "rejected" THEN [draft EXCEPT !.state = "editing"]
                ELSE draft

\* set_outbox_state to rejected or unknown: the draft may be edited again.
SetOutboxState(e, state) ==
    /\ row' = IF row[e] = "none" THEN row ELSE [row EXCEPT ![e] = state]
    /\ draft' = IF IsBound(e) THEN [draft EXCEPT !.state = "editing"] ELSE draft

\* Mutant: every signed event enters the events table at once.
InsertAll(e) ==
    /\ stored' = stored \cup {e}
    /\ row' = IF row[e] = "none" THEN [row EXCEPT ![e] = "pending"] ELSE row
    /\ draft' = IF IsUnbound(sub[e]) THEN [draft EXCEPT !.bound = e] ELSE draft

\* insert_outbox: a conversation row is shown at once, anything else waits for
\* the relay; the draft generation that was submitted is bound to the event.
InsertOutbox(e) ==
    /\ stored' = IF e \in Auxiliary THEN stored ELSE stored \cup {e}
    /\ row' = IF row[e] = "none" THEN [row EXCEPT ![e] = "pending"] ELSE row
    /\ draft' = IF IsUnbound(sub[e]) THEN [draft EXCEPT !.bound = e] ELSE draft

\* pending_outbox
PendingOutbox == {e \in Events : row[e] \in {"pending", "unknown"}}
-----------------------------------------------------------------------------
(* The composer. Every key that is not Escape or Submit saves the draft. *)

\* A text nobody has written yet, so that two equal texts are one text.
Unused(t) == /\ \A e \in Events : content[e] # t
             /\ composer # t
             /\ draft # NoDraft => draft.text # t

Open ==
    /\ up
    /\ composer = Closed
    /\ composer' = DraftRecord
    /\ UNCHANGED <<draft, lastRev, signedVars, storeVars, taskVars, up, relayVars>>

Edit(t) ==
    /\ up
    /\ composer # Closed
    /\ t \in {composer, Empty} \/ Unused(t)
    /\ composer' = t
    /\ SaveDraft(t)
    /\ UNCHANGED <<signedVars, storeVars, taskVars, up, relayVars>>

Escape ==
    /\ up
    /\ composer # Closed
    /\ composer' = Closed
    /\ UNCHANGED <<draft, lastRev, signedVars, storeVars, taskVars, up, relayVars>>

Unsigned(e) == content[e] = NoText

\* Enter: the final edit is saved, that generation is marked as sending, the
\* composer is emptied and closed, and a task is spawned with the submission.
Submit(e) ==
    /\ up
    /\ composer \in Texts
    /\ Unsigned(e)
    /\ LET d == Saved(composer) IN
         /\ draft' = MarkedSending(d)
         /\ sub' = [sub EXCEPT ![e] = d.rev]
    /\ lastRev' = IF Generation THEN lastRev ELSE lastRev + 1
    /\ content' = [content EXCEPT ![e] = composer]
    /\ composer' = Closed
    /\ call' = [call EXCEPT ![e] = Working("signing", e)]
    /\ UNCHANGED <<storeVars, items, up, relayVars>>

\* A reaction or a deletion: signed and sent with no draft.
React(e) ==
    /\ up
    /\ e \in Reactions
    /\ Unsigned(e)
    /\ content' = [content EXCEPT ![e] = Empty]
    /\ call' = [call EXCEPT ![e] = Working("signing", e)]
    /\ UNCHANGED <<userVars, sub, storeVars, items, up, relayVars>>
-----------------------------------------------------------------------------
(* publish_signed *)

\* Building, signing or storing the event fails: nothing was sent.
SendFails(e) ==
    /\ call[e].stage = "signing"
    /\ draft' = Restored(sub[e])
    /\ call' = [call EXCEPT ![e] = Idle]
    /\ UNCHANGED <<composer, lastRev, signedVars, storeVars, items, up, relayVars>>

Insert(e) ==
    /\ call[e].stage = "signing"
    /\ InsertOutbox(e)
    /\ call' = [call EXCEPT ![e] = Working("queued", e)]
    /\ UNCHANGED <<composer, lastRev, signedVars, items, up, relayVars>>

\* What publish_signed records for each answer.
SenderRecords(e) ==
    /\ call[e].stage = "answered"
    /\ \/ call[e].result = "accepted" /\ ApplyEvent(e)
       \/ call[e].result \in {"rejected", "local"} /\ SetOutboxState(e, "rejected")
            /\ UNCHANGED stored
       \/ call[e].result = "uncertain" /\ SetOutboxState(e, "unknown")
            /\ UNCHANGED stored
    /\ call' = [call EXCEPT ![e] = Idle]
    /\ UNCHANGED <<composer, lastRev, signedVars, items, up, relayVars>>
-----------------------------------------------------------------------------
(* flush *)

StartFlush(f) ==
    /\ up
    /\ items[f] = {}
    /\ PendingOutbox # {}
    /\ items' = [items EXCEPT ![f] = PendingOutbox]
    /\ UNCHANGED <<userVars, signedVars, storeVars, call, up, relayVars>>

\* Mutant: what the query does not say is taken for success.
AlwaysFound(e) == TRUE

\* The query by identifier finds the event only if the relay has stored it.
Found(e) == e \in relay

FlushFound(f, e) ==
    /\ call[f].stage = "idle"
    /\ e \in items[f]
    /\ Found(e)
    /\ ApplyEvent(e)
    /\ items' = [items EXCEPT ![f] = @ \ {e}]
    /\ UNCHANGED <<composer, lastRev, signedVars, call, up, relayVars>>

\* The query returned nothing, or failed: an error is an empty answer.
FlushResend(f, e) ==
    /\ call[f].stage = "idle"
    /\ e \in items[f]
    /\ call' = [call EXCEPT ![f] = Working("queued", e)]
    /\ UNCHANGED <<userVars, signedVars, storeVars, items, up, relayVars>>

\* What flush records for each answer.
FlushRecords(f) ==
    /\ call[f].stage = "answered"
    /\ LET e == call[f].event IN
         /\ \/ call[f].result = "accepted" /\ ApplyEvent(e)
            \/ call[f].result = "rejected" /\ SetOutboxState(e, "rejected")
                 /\ UNCHANGED stored
            \/ call[f].result \in {"local", "uncertain"} /\ SetOutboxState(e, "unknown")
                 /\ UNCHANGED stored
         /\ items' = [items EXCEPT ![f] = @ \ {e}]
    /\ call' = [call EXCEPT ![f] = Idle]
    /\ UNCHANGED <<composer, lastRev, signedVars, up, relayVars>>
-----------------------------------------------------------------------------
(* The supervisor, as a caller of publish knows it, and the relay *)

AnswerWith(c, result) ==
    /\ call' = [call EXCEPT ![c].stage = "answered", ![c].result = result]
    /\ ok' = "none"
    /\ UNCHANGED <<userVars, signedVars, storeVars, items, up, wire, relay>>

\* Refused by the queues, or no session: this call wrote nothing.
PublishRefused(c) ==
    /\ call[c].stage = "queued"
    /\ \E result \in {"local", "uncertain"} :
         call' = [call EXCEPT ![c].stage = "answered", ![c].result = result]
    /\ UNCHANGED <<userVars, signedVars, storeVars, items, up, relayVars>>

Awaited(e) == \E c \in Callers : call[c].stage = "awaiting" /\ call[c].event = e

PublishWrites(c) ==
    /\ call[c].stage = "queued"
    /\ \A d \in Callers : call[d].stage # "awaiting"
    /\ wire' = wire \cup {call[c].event}
    /\ call' = [call EXCEPT ![c].stage = "awaiting"]
    /\ UNCHANGED <<userVars, signedVars, storeVars, items, up, relay, ok>>

PublishUncertain(c) ==
    /\ call[c].stage = "awaiting"
    /\ AnswerWith(c, "uncertain")

PublishAcknowledged(c) ==
    /\ call[c].stage = "awaiting"
    /\ ok # "none"
    /\ AnswerWith(c, ok)

\* The relay decides about a copy; an event it already has it either confirms
\* or rejects as a duplicate. The OK of a copy nobody awaits is dropped.
RelayTakes(e) ==
    /\ e \in wire
    /\ wire' = wire \ {e}
    /\ \E verdict \in {"accepted", "rejected"} :
         /\ e \in relay => verdict = IF DuplicateOk THEN "accepted" ELSE "rejected"
         /\ relay' = IF verdict = "accepted" THEN relay \cup {e} ELSE relay
         /\ ok' = IF Awaited(e) THEN verdict ELSE ok
    /\ UNCHANGED <<userVars, signedVars, storeVars, taskVars, up>>

\* A subscription, a backfill or a search brings the event back.
Echo(e) ==
    /\ up
    /\ e \in relay
    /\ ApplyEvent(e)
    /\ UNCHANGED <<composer, lastRev, signedVars, taskVars, up, relayVars>>
-----------------------------------------------------------------------------
(* Crash and restart *)

\* The tasks and the composer are gone. A crash inside an insert may leave the
\* event without its outbox row.
Crash ==
    /\ up
    /\ up' = FALSE
    /\ composer' = Closed
    /\ call' = [c \in Callers |-> Idle]
    /\ items' = [f \in Flushers |-> {}]
    /\ ok' = "none"
    /\ \/ UNCHANGED stored
       \/ /\ SplitInsert
          /\ \E e \in Events \ Auxiliary :
               call[e].stage = "signing" /\ stored' = stored \cup {e}
    /\ UNCHANGED <<draft, lastRev, signedVars, row, wire, relay>>

\* Mutant: an interrupted submission stays as the crash left it.
NotReconciled == draft

\* reconcile_draft_submissions: a delivered event owns its draft, every other
\* interrupted submission becomes editable.
Reconciled ==
    IF draft # NoDraft /\ draft.state = "sending"
    THEN IF draft.bound # NoEvent /\ row[draft.bound] = "delivered" THEN NoDraft
         ELSE [draft EXCEPT !.state = "editing"]
    ELSE draft

Restart ==
    /\ ~up
    /\ up' = TRUE
    /\ draft' = Reconciled
    /\ UNCHANGED <<composer, lastRev, signedVars, storeVars, taskVars, relayVars>>
-----------------------------------------------------------------------------
User ==
    \/ Open
    \/ \E t \in Texts \cup {Empty} : Edit(t)
    \/ Escape
    \/ \E e \in Events : Submit(e) \/ React(e)

Sender(e) == SendFails(e) \/ Insert(e) \/ SenderRecords(e)

FlushStep(f) ==
    \/ \E e \in Events : FlushFound(f, e) \/ FlushResend(f, e)
    \/ FlushRecords(f)

Publish(c) ==
    \/ PublishRefused(c)
    \/ PublishWrites(c)
    \/ PublishUncertain(c)
    \/ PublishAcknowledged(c)

Outside ==
    \/ \E e \in Events : RelayTakes(e) \/ Echo(e)
    \/ Crash
    \/ Restart

Next ==
    \/ User
    \/ \E e \in Events : Sender(e)
    \/ \E f \in Flushers : StartFlush(f) \/ FlushStep(f)
    \/ \E c \in Callers : Publish(c)
    \/ Outside

Spec == Init /\ [][Next]_vars

\* Every spawned task runs on and every publish call is answered, which is what
\* PublicationAnswered of the supervisor says; a stopped client is started again.
FairSpec ==
    /\ Spec
    /\ WF_vars(Restart)
    /\ \A e \in Events : WF_vars(Sender(e))
    /\ \A f \in Flushers : WF_vars(FlushStep(f))
    /\ \A c \in Callers : WF_vars(Publish(c))
=============================================================================
