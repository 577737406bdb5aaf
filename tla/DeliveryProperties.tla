------------------------- MODULE DeliveryProperties -------------------------
(***************************************************************************)
(* What the outbox promises: what is shown as delivered is on the relay,    *)
(* a refusal is a refusal, and no draft is lost to a message it is not.     *)
(***************************************************************************)
EXTENDS Delivery

\* Type correctness of the tables, the composer and the tasks.
TypeOK ==
    /\ composer \in Texts \cup {Empty, Closed}
    /\ draft \in Draft \cup {NoDraft}
    /\ lastRev \in Nat
    /\ content \in [Events -> Texts \cup {Empty, NoText}]
    /\ sub \in [Events -> Nat]
    /\ stored \subseteq Events
    /\ row \in [Events -> Rows]
    /\ call \in [Callers -> Call]
    /\ items \in [Flushers -> SUBSET Events]
    /\ up \in BOOLEAN
    /\ wire \subseteq Events
    /\ relay \subseteq Events
    /\ ok \in {"none", "accepted", "rejected"}

\* DeliveryState::from_outbox: no outbox row counts as delivered.
ShownDelivered(e) == e \in stored /\ row[e] \in {"none", "delivered"}

\* The timeline shows a message as delivered only if the relay has it: through
\* lost acknowledgements, echoes, reconciliations, crashes and restarts
\* (DeliveryState, whose doc says relay acceptance or observation is
\* authoritative).
ShownDeliveredIsTrue == \A e \in Events : ShownDelivered(e) => e \in relay

\* A reaction or a deletion changes nothing on the screen before the relay has
\* it (insert_outbox: destructive events wait for the relay).
AuxiliaryWaits == \A e \in Auxiliary \cap stored : e \in relay

\* A draft disappears only because the relay has exactly its text: an answer
\* that comes late, or to another message, never deletes what was written since.
DraftDeletedExactly ==
    [][draft # NoDraft /\ draft' = NoDraft =>
          /\ draft.bound \in relay
          /\ content[draft.bound] = draft.text]_vars

HasSender(d) == \E e \in Events : sub[e] = d.rev /\ call[e].stage # "idle"

\* A draft is hidden from its author only while a task of this process answers
\* for it: no failure, refusal, lost answer or crash leaves it behind.
HiddenDraftHasSender ==
    up /\ draft # NoDraft /\ draft.state = "sending" => HasSender(draft)

\* A draft generation is signed into one event at most: Enter on a draft that
\* came back starts a new generation, which no late answer can touch.
SignedOnce ==
    \A a, b \in Events :
        row[a] # "none" /\ row[b] # "none" /\ sub[a] = sub[b] /\ sub[a] # 0 => a = b

\* What the relay is known to have is not waiting to be edited: a delivered row
\* and a draft bound to it never meet, so a restart has none to finish.
DeliveredOwnsNoDraft == \A e \in Events : row[e] = "delivered" => ~IsBound(e)

\* What is submitted is submitted once and, once delivered, is nobody's draft:
\* no save, retry, late answer or restart sends a text a second time.
SubmissionsSound == SignedOnce /\ DeliveredOwnsNoDraft

-----------------------------------------------------------------------------
(* The inductive invariant behind all of these, part by part. *)

\* A sending task is about its own event, and works before, or after, that event
\* has its outbox row; a reconciliation works on its snapshot; a stopped process
\* has no tasks.
CallsSound ==
    /\ \A e \in Events :
         /\ call[e].stage # "idle" => call[e].event = e
         /\ call[e].stage = "signing" => row[e] = "none"
         /\ call[e].stage \in {"queued", "awaiting", "answered"} => row[e] # "none"
    /\ \A f \in Flushers :
         /\ call[f].stage # "signing"
         /\ call[f].stage # "idle" => call[f].event \in items[f]
         /\ \A e \in items[f] : row[e] # "none"
    /\ ~up => /\ \A c \in Callers : call[c].stage = "idle"
              /\ \A f \in Flushers : items[f] = {}

\* Nothing is known anywhere of an event that was not signed.
UnsignedUnknown ==
    \A e \in Events : Unsigned(e) =>
        /\ row[e] = "none" /\ call[e].stage = "idle" /\ sub[e] = 0
        /\ e \notin stored /\ e \notin relay /\ e \notin wire

\* One call awaits an answer at a time, and the answer it gets is about its event.
AnswersTrue ==
    /\ \A c, d \in Callers : call[c].stage = "awaiting" /\ call[d].stage = "awaiting" => c = d
    /\ ok # "none" => \E c \in Callers : call[c].stage = "awaiting"
    /\ \A c \in Callers :
         \/ call[c].stage = "awaiting" /\ ok = "accepted"
         \/ call[c].stage = "answered" /\ call[c].result = "accepted"
         => call[c].event \in relay

\* What is recorded as delivered is on the relay, and so is what came without a row.
DeliveredTrue == \A e \in Events : row[e] = "delivered" => e \in relay
StoredTrue == \A e \in stored : row[e] = "none" => e \in relay

\* A revision belongs to one draft generation. As long as the generation has no
\* event of its own, no event signed for it has a row, and none is being signed
\* unless the draft is hidden; then the text being signed is the draft's.
GenerationsSound ==
    /\ \A e \in Events : sub[e] <= lastRev
    /\ \A a, b \in Events :
         /\ sub[a] = sub[b] /\ sub[a] # 0
         /\ call[a].stage = "signing" \/ row[a] # "none"
         /\ call[b].stage = "signing" \/ row[b] # "none"
         => a = b
    /\ draft # NoDraft =>
         /\ draft.rev <= lastRev
         /\ draft.bound = NoEvent => \A e \in Events : sub[e] = draft.rev =>
              /\ row[e] = "none"
              /\ call[e].stage = "signing" =>
                   draft.state = "sending" /\ content[e] = draft.text
         /\ draft.bound # NoEvent =>
              /\ row[draft.bound] \notin {"none", "delivered"}
              /\ sub[draft.bound] = draft.rev
              /\ content[draft.bound] = draft.text

-----------------------------------------------------------------------------
\* A hidden draft is settled: deleted, or given back to its author.
DraftSettles ==
    (draft # NoDraft /\ draft.state = "sending")
        ~> (draft = NoDraft \/ draft.state = "editing")

\* The relay decides about an event while a reconciliation awaits its answer.
RelayTakesInTime(e) ==
    /\ RelayTakes(e)
    /\ \E f \in Flushers : call[f].stage = "awaiting" /\ call[f].event = e

\* What the outbox needs from outside to be emptied: the client is not stopped
\* for ever and again, keeps being authenticated (each time flush runs), and not
\* every attempt is refused a place, lost, or answered too late.
RelayReachable ==
    /\ <>[]up
    /\ \A f \in Flushers :
         /\ WF_vars(StartFlush(f))
         /\ SF_vars(PublishWrites(f))
         /\ SF_vars(PublishAcknowledged(f))
    /\ \A e \in Events : SF_vars(RelayTakesInTime(e))

\* No message stays uncertain for ever: with a reachable relay every row of the
\* outbox is delivered or rejected in the end, however many reconciliations run.
OutboxSettles ==
    RelayReachable =>
        \A e \in Events :
            row[e] \in {"pending", "unknown"} ~> row[e] \in {"delivered", "rejected"}

\* Neither the author nor the message is left waiting (begin_draft_publish and
\* flush): both of the above.
EverythingSettles == DraftSettles /\ OutboxSettles
=============================================================================
