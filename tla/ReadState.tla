----------------------------- MODULE ReadState -----------------------------
(***************************************************************************)
(* What has been read, shared between the clients of one identity           *)
(* (src/src/sync/read_state.rs, service/read_state.rs, store/queries.rs):   *)
(* contexts with the time up to which they are read, merged by maximum, and *)
(* published as a few replaceable slot events, each with a part of the      *)
(* contexts.  One client in detail, another one as its environment, the     *)
(* relay, the end of the process at any moment, and a wall clock that may   *)
(* be set back.                                                             *)
(***************************************************************************)
EXTENDS Naturals, Sequences, FiniteSets

CONSTANTS
  Contexts,    \* numbers: slots are filled in their order
  MaxRead,     \* the latest time up to which a context is read
  Capacity,    \* contexts in a slot: 32768 bytes in the code
  MaxSlots,    \* 8 in the code
  Slots,       \* numbers: the identifiers this client may draw
  ForeignSlot, \* the slot of the other client
  MaxTime      \* bound: of every created_at

ASSUME ReadStateAssumption ==
  /\ Contexts \subseteq Nat /\ IsFiniteSet(Contexts)
  /\ Slots \subseteq Nat /\ IsFiniteSet(Slots) /\ ForeignSlot \in Nat \ Slots
  /\ {MaxRead, Capacity, MaxSlots, MaxTime} \subseteq Nat \ {0}

VARIABLES
  reads,      \* read_contexts: 0 where there is no row
  slotRows,   \* read_slots
  readOutbox, \* slot events stored and not settled
  marked,     \* last_marked of the application, in memory
  dirty,      \* read_dirty_since, in memory
  publishing, \* ReadStateService::publish
  slotsHeld,  \* what the relay holds of each slot
  clock,
  unsaid      \* history: marks whose publication died with the process or was refused

kept == <<reads, slotRows, readOutbox>>
ram == <<marked, dirty, publishing>>
outsideReads == <<slotsHeld, clock, unsaid>>
readVars == <<kept, ram, outsideReads>>

AllSlots == Slots \cup {ForeignSlot}
NoSlot == [client |-> "none", at |-> 0, isLocal |-> FALSE]
Unread == [x \in Contexts |-> 0]
NoSlotEvent == [slot |-> 0, client |-> "none", reads |-> Unread, at |-> 0]
NotPublishing == [stage |-> "idle", reads |-> Unread, slots |-> <<>>, todo |-> <<>>]

ReadInit ==
  /\ reads = Unread /\ slotRows = [s \in AllSlots |-> NoSlot] /\ readOutbox = {}
  /\ marked = Unread /\ dirty = FALSE /\ publishing = NotPublishing
  /\ slotsHeld = [s \in AllSlots |-> NoSlotEvent] /\ clock = 1
  /\ unsaid = FALSE

Merged(f, g) == [x \in Contexts |-> IF f[x] >= g[x] THEN f[x] ELSE g[x]]
Ascending(S) ==
  [i \in 1..Cardinality(S) |-> CHOOSE s \in S : Cardinality({r \in S : r < s}) = i - 1]
LocalSlots == Ascending({s \in AllSlots : slotRows[s].isLocal})

\* split: first fit in the order of the contexts, into equal slots.
Part(f, i) ==
  LET present == {x \in Contexts : f[x] > 0} IN
  [x \in Contexts |-> IF /\ x \in present
                         /\ Cardinality({y \in present : y < x}) \div Capacity = i - 1
                      THEN f[x] ELSE 0]
SlotsFor(f) ==
  LET n == Cardinality({x \in Contexts : f[x] > 0}) IN
  IF n = 0 THEN 1 ELSE ((n - 1) \div Capacity) + 1

\* record_read_slot: the row of a slot keeps its latest time; it stays local
\* while it is written under the same client.
Recorded(slot, writer, at, isLocal) ==
  LET old == slotRows[slot] IN
  [slotRows EXCEPT ![slot] =
     [client |-> writer,
      at |-> IF old.at > at THEN old.at ELSE at,
      isLocal |-> IF old.client = writer THEN old.isLocal \/ isLocal ELSE isLocal]]

-----------------------------------------------------------------------------
(* Reading, here and elsewhere.                                            *)

\* mark_current_read: only what advances the last mark of this process.
MarkRead(x, at) ==
  /\ at > marked[x]
  /\ reads' = [reads EXCEPT ![x] = IF @ >= at THEN @ ELSE at]
  /\ marked' = [marked EXCEPT ![x] = at]
  /\ dirty' = TRUE
  /\ UNCHANGED <<slotRows, readOutbox, publishing, outsideReads>>

\* A slot event from the subscription, live or stored, again or for the first
\* time, an own one included.  (One that the relay has since replaced changes
\* nothing that its successor does not.)
MergeEvent(s) ==
  LET e == slotsHeld[s] IN
  /\ e # NoSlotEvent
  /\ reads' = Merged(reads, e.reads)
  /\ slotRows' = Recorded(s, e.client, e.at, FALSE)
  /\ UNCHANGED <<readOutbox, ram, outsideReads>>

Newer(e) ==
  \/ slotsHeld[e.slot] = NoSlotEvent \/ e.at > slotsHeld[e.slot].at
Tied(e) == slotsHeld[e.slot] # NoSlotEvent /\ e.at = slotsHeld[e.slot].at

\* The relay keeps the newest event of a slot: of two of one second, one.
RelayHolds(e) ==
  \/ /\ Newer(e) \/ Tied(e)
     /\ slotsHeld' = [slotsHeld EXCEPT ![e.slot] = e]
  \/ ~Newer(e) /\ UNCHANGED slotsHeld

ForeignPublishes(x, at) ==
  LET old == slotsHeld[ForeignSlot] IN
  \E instant \in old.at + 1 .. MaxTime :
    /\ at > old.reads[x]
    /\ RelayHolds([slot |-> ForeignSlot, client |-> "other",
                   reads |-> [old.reads EXCEPT ![x] = at], at |-> instant])
    /\ UNCHANGED <<kept, ram, clock, unsaid>>

-----------------------------------------------------------------------------
(* publish, five seconds after the first mark, or at shutdown.              *)

Publishing(earliest, to) ==
  /\ publishing.stage = earliest /\ publishing' = [publishing EXCEPT !.stage = to]

PublishDue ==
  /\ dirty /\ dirty' = FALSE
  /\ Publishing("idle", "contexts")
  /\ \E t \in 1..MaxTime : clock' = t
  /\ UNCHANGED <<kept, marked, slotsHeld, unsaid>>

ReadContexts ==
  /\ publishing.stage = "contexts"
  /\ publishing' = [publishing EXCEPT !.stage = "slots", !.reads = reads]
  /\ unsaid' = FALSE
  /\ UNCHANGED <<kept, marked, dirty, slotsHeld, clock>>

EnsureLocalSlots ==
  /\ publishing.stage = "slots"
  /\ IF LocalSlots # <<>> THEN slotRows' = slotRows
     ELSE \E s \in {r \in Slots : slotRows[r] = NoSlot} :
            slotRows' = [slotRows EXCEPT ![s] = [client |-> "me", at |-> 0, isLocal |-> TRUE]]
  /\ publishing' = [publishing EXCEPT !.stage = "build",
       !.slots = Ascending({s \in AllSlots : slotRows'[s].isLocal})]
  /\ UNCHANGED <<reads, readOutbox, marked, dirty, outsideReads>>

MaxSeen == LET ats == {slotRows[s].at : s \in AllSlots} IN CHOOSE t \in ats : \A u \in ats : u <= t

\* Mutant: the clock is taken as it is.
CreatedByClock(shown) == clock

\* build_events: later than all that was seen, of slots and in the timeline.
Created(shown) ==
  LET seen == IF shown > MaxSeen THEN shown ELSE MaxSeen IN
  IF clock > seen THEN clock ELSE seen + 1

\* A slot that has no identifier yet draws one, which is stored with its event.
BuildEvents(shown) ==
  LET n == SlotsFor(publishing.reads)
      known == publishing.slots
      at == Created(shown) IN
  /\ publishing.stage = "build" /\ at <= MaxTime
  /\ IF n > MaxSlots
     THEN publishing' = NotPublishing /\ unsaid' = TRUE
     ELSE /\ unsaid' = unsaid
          /\ \E fresh \in [1..n -> Slots] :
               LET name(i) == IF i <= Len(known) THEN known[i] ELSE fresh[i] IN
               /\ \A i \in 1..n : IF i <= Len(known) THEN fresh[i] = known[i]
                                  ELSE /\ slotRows[fresh[i]] = NoSlot
                                       /\ \A j \in 1..i-1 : fresh[j] < fresh[i] \/ j <= Len(known)
               /\ publishing' = [publishing EXCEPT !.stage = "store",
                    !.todo = [i \in 1..n |-> [slot |-> name(i), client |-> "me",
                                              reads |-> Part(publishing.reads, i), at |-> at]]]
  /\ UNCHANGED <<kept, marked, dirty, slotsHeld, clock>>

\* insert_outbox and record_read_slot, in one job of the store.
StoreEvent ==
  LET e == Head(publishing.todo) IN
  /\ Publishing("store", "send")
  /\ readOutbox' = readOutbox \cup {e}
  /\ slotRows' = Recorded(e.slot, "me", e.at, TRUE)
  /\ UNCHANGED <<reads, marked, dirty, outsideReads>>

NextEvent ==
  publishing' = IF Len(publishing.todo) = 1 THEN NotPublishing
                ELSE [publishing EXCEPT !.stage = "store", !.todo = Tail(@)]

SendAccepted ==
  LET e == Head(publishing.todo) IN
  /\ publishing.stage = "send" /\ NextEvent
  /\ RelayHolds(e)
  /\ readOutbox' = readOutbox \ {e}
  /\ UNCHANGED <<reads, slotRows, marked, dirty, clock, unsaid>>

SendRejected ==
  /\ publishing.stage = "send" /\ NextEvent
  /\ readOutbox' = readOutbox \ {Head(publishing.todo)} /\ unsaid' = TRUE
  /\ UNCHANGED <<reads, slotRows, marked, dirty, slotsHeld, clock>>

\* No answer: the relay has it or not, and the row waits for reconciliation.
SendUncertain ==
  /\ publishing.stage = "send" /\ NextEvent
  /\ RelayHolds(Head(publishing.todo)) \/ UNCHANGED slotsHeld
  /\ UNCHANGED <<kept, marked, dirty, clock, unsaid>>

\* A later flush sends what the relay does not show.
ReconcileSlots(e) ==
  /\ e \in readOutbox /\ ~(publishing.stage = "send" /\ e = Head(publishing.todo))
  /\ readOutbox' = readOutbox \ {e}
  /\ IF slotsHeld[e.slot] = e THEN UNCHANGED slotsHeld ELSE RelayHolds(e)
  /\ UNCHANGED <<reads, slotRows, ram, clock, unsaid>>

\* Killed, or cut off by the three seconds of shutdown.
ProcessEnds ==
  LET unstored == CASE publishing.stage = "idle" -> FALSE
                    [] publishing.stage = "send" -> Len(publishing.todo) > 1
                    [] OTHER -> TRUE IN
  /\ unsaid' = (unsaid \/ dirty \/ unstored)
  /\ marked' = Unread /\ dirty' = FALSE /\ publishing' = NotPublishing
  /\ UNCHANGED <<kept, slotsHeld, clock>>

ReadNext ==
  \/ \E x \in Contexts, at \in 1..MaxRead : MarkRead(x, at) \/ ForeignPublishes(x, at)
  \/ \E s \in AllSlots : MergeEvent(s)
  \/ PublishDue \/ ReadContexts \/ EnsureLocalSlots
  \/ \E shown \in {0, clock} : BuildEvents(shown)
  \/ StoreEvent \/ SendAccepted \/ SendRejected \/ SendUncertain
  \/ \E e \in readOutbox : ReconcileSlots(e)
  \/ ProcessEnds

ReadSpec == ReadInit /\ [][ReadNext]_readVars

-----------------------------------------------------------------------------
(* What is promised.                                                       *)

Settled == publishing = NotPublishing /\ ~dirty /\ readOutbox = {} /\ ~unsaid

\* When there is nothing left to say, the slots that the relay holds cover all
\* that this client has read: whatever moved from one slot to another, came
\* back late or was sent again, no newer slot was replaced by an older one.
RelayKnowsAll ==
  Settled => \A x \in Contexts : \E s \in AllSlots : slotsHeld[s].reads[x] >= reads[x]

\* One client holds no more slots than its contexts need: what comes back of
\* its own slots does not make it draw new ones.
SlotsKept ==
  Cardinality({s \in Slots : slotsHeld[s] # NoSlotEvent})
    <= SlotsFor([x \in Contexts |-> 1])

\* No crash, late answer, tie of a second or event that comes back loses a mark
\* or multiplies the slots (src/service/read_state.rs, src/sync/read_state.rs).
MarksSound == RelayKnowsAll /\ SlotsKept
=============================================================================
