----------------------------- MODULE EventStore -----------------------------
(***************************************************************************)
(* The durable event store of one community (src/src/store/events.rs):     *)
(* signed events are inserted once, in whatever order the live             *)
(* subscription, the directory refresh and the backfills bring them, and   *)
(* every insertion updates, in one transaction, the projections that the   *)
(* rest of the client reads: deletions, the search index, the heads of the *)
(* replaceable kinds, the channels, their members and the hidden direct    *)
(* messages.                                                               *)
(*                                                                         *)
(* An event is its identifier, a positive number: the store compares       *)
(* identifiers as text and the order of the numbers is that order.  What   *)
(* an event says is the constant function Event.  The sender's side of an  *)
(* insertion, the outbox and the drafts, is the module Delivery.           *)
(***************************************************************************)
EXTENDS Integers, FiniteSets, FiniteSetsExt

CONSTANTS
  Ids,        \* the identifiers of the events that exist
  Event,      \* what each of them says
  Keys,       \* public keys
  Channels,   \* channel identifiers
  Self,       \* the key of the active identity
  Relay       \* the key the relay publishes and the client pins

None == 0

AuthorKinds == {"message", "reaction", "deletion", "profile"}
RelayKinds == {"channel", "members", "visibility"}
\* Kind 9005 is a moderator's deletion; 20002 and 39005 are never stored.
Kinds == AuthorKinds \cup RelayKinds \cup {"moderation", "ephemeral"}
Roles == {"member", "bot"}

EventRecords ==
  [kind : Kinds, by : Keys, at : Nat, channel : Channels, refs : SUBSET Ids,
   members : SUBSET (Keys \X Roles), dm : BOOLEAN, owner : Keys,
   hidden : SUBSET Channels]

\* An event cannot name its own identifier, which is a hash of it, and a
\* membership snapshot names a key once (src/src/store/events.rs:382).
ASSUME EventsAssumption ==
  /\ Ids \subseteq Nat \ {None} /\ IsFiniteSet(Ids)
  /\ Event \in [Ids -> EventRecords]
  /\ \A e \in Ids : e \notin Event[e].refs
  /\ \A e \in Ids : IsFiniteSet(Event[e].members)
  /\ Self \in Keys /\ Relay \in Keys

Kind(e) == Event[e].kind
At(e) == Event[e].at

VARIABLES
  pinned,       \* the relay's key has been pinned
  stored,       \* table events
  targets,      \* table deletion_targets, as pairs <<deletion, target>>
  deletedBy,    \* events.deleted_by_event_id
  struck,       \* reactions.deleted_by_event_id
  search,       \* table search_documents
  profileHead,  \* profiles: the event a profile was taken from
  channel,      \* table channels
  memberHead,   \* table channel_membership_heads
  rows,         \* table memberships
  visHead,      \* table dm_visibility_heads, of the active identity
  hiddenDms     \* table dm_visibility

deletions == <<targets, deletedBy, struck>>
directory == <<channel, memberHead, rows>>
visibility == <<visHead, hiddenDms>>
storeVars == <<pinned, stored, deletions, search, profileHead, directory,
               visibility>>

NoRow == [known |-> FALSE, dm |-> FALSE, head |-> None, last |-> None,
          count |-> 0, joined |-> FALSE]

Init ==
  /\ pinned = FALSE
  /\ stored = {} /\ targets = {} /\ search = {}
  /\ deletedBy = [e \in Ids |-> None]
  /\ struck = [e \in Ids |-> None]
  /\ profileHead = [k \in Keys |-> None]
  /\ channel = [c \in Channels |-> NoRow]
  /\ memberHead = [c \in Channels |-> None]
  /\ rows = [c \in Channels |-> {}]
  /\ visHead = None /\ hiddenDms = {}

-----------------------------------------------------------------------------
(* Which of two events of one replaceable coordinate stands.  Profiles and *)
(* channels keep the greater (time, identifier); membership and visibility *)
(* keep the later and, at the same second, the smaller identifier.         *)

Greater(e, head) ==
  \/ head = None
  \/ At(e) > At(head)
  \/ At(e) = At(head) /\ e > head

\* Mutant: the greater identifier wins here too.
NewerByIdentifier(e, head) == Greater(e, head)

Newer(e, head) ==
  \/ head = None
  \/ At(e) > At(head)
  \/ At(e) = At(head) /\ e < head

\* A moderator's deletion reaches any event, an author's only its own.
Reaches(d, e) ==
  /\ e \in Event[d].refs
  /\ \/ Kind(d) = "moderation"
     \/ Kind(d) = "deletion" /\ Event[d].by = Event[e].by

DmSize(members) == Cardinality(members) \in 2..9

\* Mutant: the metadata is not checked against the members.
BreaksDmBySnapshot(e) ==
  Kind(e) = "members" /\ channel[Event[e].channel].dm /\ ~DmSize(Event[e].members)

(* apply_event refuses an event, and rolls its transaction back, when it   *)
(* is of a transient kind, when it is a relay projection not signed by the *)
(* pinned key, or when it would make a direct message of another size.     *)
\* validate_dm_membership, then the check after the upsert of the metadata.
BreaksDm(e) ==
  LET c == Event[e].channel IN
  \/ Kind(e) = "members" /\ channel[c].dm /\ ~DmSize(Event[e].members)
  \/ Kind(e) = "channel" /\ Event[e].dm /\ rows[c] # {} /\ ~DmSize(rows[c])

Refused(e) ==
  \/ Kind(e) = "ephemeral"
  \/ Kind(e) \in RelayKinds /\ ~(pinned /\ Event[e].by = Relay)
  \/ /\ e \notin stored
     /\ \/ BreaksDm(e)
        \/ Kind(e) = "visibility" /\ Event[e].owner # Self

-----------------------------------------------------------------------------
(* The part of an insertion that is common to all kinds but deletions: a   *)
(* deletion that came before its target is applied to it now.              *)

\* Mutant: whoever signed the deletion.
EarlierByAnyone(e) == {d \in stored : <<d, e>> \in targets}

EarlierDeletions(e) == {d \in stored : <<d, e>> \in targets /\ Reaches(d, e)}

Tombstone(e) ==
  IF EarlierDeletions(e) = {} THEN None ELSE Min(EarlierDeletions(e))

Admit(e, kind) ==
  /\ Kind(e) = kind /\ e \notin stored /\ ~Refused(e)
  /\ stored' = stored \cup {e}
  /\ deletedBy' = [deletedBy EXCEPT ![e] = Tombstone(e)]
  /\ UNCHANGED <<pinned, targets>>

\* Mutant: the deletion that came first is not looked for.
IndexedAlways(e) == search \cup {e}

\* A message is indexed and, if a deletion of it is known, removed again.
Indexed(e) == IF Tombstone(e) = None THEN search \cup {e} ELSE search

Latest(last, at) == IF at > last THEN at ELSE last

\* Only a channel that already has a row records the time of a message.
InsertMessage(e) ==
  LET c == Event[e].channel IN
  /\ Admit(e, "message")
  /\ search' = Indexed(e)
  /\ channel' = IF channel[c].known
                THEN [channel EXCEPT ![c].last = Latest(channel[c].last, At(e))]
                ELSE channel
  /\ UNCHANGED <<struck, profileHead, memberHead, rows, visibility>>

InsertReaction(e) ==
  /\ Admit(e, "reaction")
  /\ struck' = [struck EXCEPT ![e] = Tombstone(e)]
  /\ UNCHANGED <<search, profileHead, directory, visibility>>

InsertProfile(e) ==
  LET k == Event[e].by IN
  /\ Admit(e, "profile")
  /\ profileHead' = IF Greater(e, profileHead[k])
                    THEN [profileHead EXCEPT ![k] = e] ELSE profileHead
  /\ UNCHANGED <<struck, search, directory, visibility>>

InsertChannel(e) ==
  LET c == Event[e].channel IN
  /\ Admit(e, "channel")
  /\ channel' = IF Greater(e, channel[c].head)
                THEN [channel EXCEPT ![c] = [@ EXCEPT !.known = TRUE, !.head = e,
                                                      !.dm = Event[e].dm]]
                ELSE channel
  /\ UNCHANGED <<struck, search, profileHead, memberHead, rows, visibility>>

InsertMembers(e) ==
  LET c == Event[e].channel
      current == Newer(e, memberHead[c]) IN
  /\ Admit(e, "members")
  /\ memberHead' = IF current THEN [memberHead EXCEPT ![c] = e] ELSE memberHead
  /\ rows' = IF current THEN [rows EXCEPT ![c] = Event[e].members] ELSE rows
  /\ channel' =
       IF current
       THEN [channel EXCEPT ![c] =
               [@ EXCEPT
                  !.known = TRUE,
                  !.count = Cardinality(Event[e].members),
                  !.joined = \E role \in Roles : <<Self, role>> \in Event[e].members]]
       ELSE channel
  /\ UNCHANGED <<struck, search, profileHead, visibility>>

InsertVisibility(e) ==
  /\ Admit(e, "visibility")
  /\ IF Newer(e, visHead)
     THEN visHead' = e /\ hiddenDms' = Event[e].hidden
     ELSE UNCHANGED visibility
  /\ UNCHANGED <<struck, search, profileHead, directory>>

\* Mutant: the last deletion gives its name.
MarkedAgain(table, d, t) == IF t \in stored /\ Reaches(d, t) THEN d ELSE table[t]

\* A target that is already stored is marked, unless another deletion
\* marked it first.
Marked(table, d, t) ==
  IF t \in stored /\ Reaches(d, t) /\ table[t] = None THEN d ELSE table[t]

\* What is marked leaves the search index.
InsertDeletion(e) ==
  /\ Kind(e) \in {"deletion", "moderation"} /\ e \notin stored
  /\ stored' = stored \cup {e}
  /\ targets' = targets \cup ({e} \X Event[e].refs)
  /\ deletedBy' = [t \in Ids |-> Marked(deletedBy, e, t)]
  /\ struck' = [t \in Ids |-> IF Kind(t) = "reaction" THEN Marked(struck, e, t)
                                                      ELSE struck[t]]
  /\ search' = search \ {t \in Event[e].refs : Marked(deletedBy, e, t) # None}
  /\ UNCHANGED <<pinned, profileHead, directory, visibility>>

Insert(e) ==
  \/ InsertMessage(e) \/ InsertReaction(e) \/ InsertDeletion(e)
  \/ InsertProfile(e) \/ InsertChannel(e) \/ InsertMembers(e)
  \/ InsertVisibility(e)

\* A refused event changes nothing, nor does one that is already stored.
Ignore(e) ==
  /\ Refused(e) \/ e \in stored
  /\ UNCHANGED storeVars

PinRelay ==
  /\ pinned' = TRUE
  /\ UNCHANGED <<stored, deletions, search, profileHead, directory, visibility>>

\* The whole of apply_event.
Apply(e) == Insert(e) \/ Ignore(e)

Next == PinRelay \/ \E e \in Ids : Apply(e)

Spec == Init /\ [][Next]_storeVars
=============================================================================
