------------------------ MODULE EventStoreProperties ------------------------
(***************************************************************************)
(* What the projections of the event store promise.  Each of them is to be *)
(* a function of the set of stored events, whatever the order in which     *)
(* they came, and the properties say which function.                       *)
(***************************************************************************)
EXTENDS EventStore

OfKind(kinds) == {e \in stored : Kind(e) \in kinds}
On(c, kind) == {e \in OfKind({kind}) : Event[e].channel = c}

\* The tables hold what their columns say, and the heads name stored events
\* of their own kind.
TypeOK ==
  /\ pinned \in BOOLEAN
  /\ stored \subseteq Ids
  /\ targets \subseteq stored \X Ids
  /\ deletedBy \in [Ids -> stored \cup {None}]
  /\ struck \in [Ids -> stored \cup {None}]
  /\ search \subseteq OfKind({"message"})
  /\ profileHead \in [Keys -> OfKind({"profile"}) \cup {None}]
  /\ channel \in [Channels -> [known : BOOLEAN, dm : BOOLEAN, head : stored \cup {None},
                               last : Nat, count : Nat, joined : BOOLEAN]]
  /\ memberHead \in [Channels -> OfKind({"members"}) \cup {None}]
  /\ rows \in [Channels -> SUBSET (Keys \X Roles)]
  /\ visHead \in OfKind({"visibility"}) \cup {None}
  /\ hiddenDms \subseteq Channels

-----------------------------------------------------------------------------
\* An event is shown as deleted exactly when a stored deletion by its author
\* or by a moderator names it, whichever of the two was stored first, by
\* either of the two code paths (src/src/store/events.rs:197 and :221).
DeletedIffAuthorised ==
  \A e \in stored \ OfKind({"deletion", "moderation"}) :
    (deletedBy[e] # None) <=> (\E d \in stored : Reaches(d, e))

\* The second copy of that fact, on the rows the reaction counts are made
\* from, is the same: a withdrawn reaction is never still counted.
ReactionsAgree ==
  \A e \in OfKind({"reaction"}) : struck[e] = deletedBy[e]

\* Search finds exactly the stored messages that are not deleted: a message
\* that is indexed after its deletion came does not stay in the index.
SearchShowsVisible ==
  search = {e \in OfKind({"message"}) : deletedBy[e] = None}

\* The copies of a deletion agree with it, by whichever of the two code paths
\* and in whichever order it was applied.
CopiesAgree == ReactionsAgree /\ SearchShowsVisible

\* A head is the event that stands among all the stored ones of its
\* coordinate, in whatever order they came: the last in the order of time and
\* identifier for profiles and channels, and for membership and visibility
\* the one that NIP-01 keeps, the later or, at the same second, the smaller.
Final(S) == IF S = {} THEN None ELSE
  CHOOSE h \in S : \A e \in S : At(e) < At(h) \/ (At(e) = At(h) /\ e <= h)

Kept(S) == IF S = {} THEN None ELSE
  CHOOSE h \in S : \A e \in S : At(e) < At(h) \/ (At(e) = At(h) /\ h <= e)

HeadsStand ==
  /\ \A k \in Keys :
       profileHead[k] = Final({e \in OfKind({"profile"}) : Event[e].by = k})
  /\ \A c \in Channels :
       /\ channel[c].head = Final(On(c, "channel"))
       /\ memberHead[c] = Kept(On(c, "members"))
  /\ visHead = Kept(OfKind({"visibility"}))

\* What is derived from a head says what that head says: the members, their
\* number and the hidden direct messages are of one snapshot, never a
\* mixture of two, and a channel with a snapshot has a row.
RowsOfTheHead ==
  /\ \A c \in Channels :
       /\ memberHead[c] = None => rows[c] = {} /\ channel[c].count = 0
       /\ memberHead[c] # None =>
            /\ channel[c].known
            /\ rows[c] = Event[memberHead[c]].members
            /\ channel[c].count = Cardinality(rows[c])
       /\ channel[c].head # None => channel[c].dm = Event[channel[c].head].dm
  /\ visHead # None => hiddenDms = Event[visHead].hidden

\* A channel the client takes for a direct message has between two and nine
\* members, or none known yet, whichever of its metadata and its snapshots
\* were stored first: each is checked against the other.
DmSized ==
  \A c \in Channels : channel[c].dm /\ rows[c] # {} => DmSize(rows[c])

\* The members of a channel are those of one snapshot, and fit what the
\* channel is (src/src/store/events.rs, membership_snapshot and channel).
MembershipSound == RowsOfTheHead /\ DmSized

-----------------------------------------------------------------------------
\* A deletion is for ever and keeps its name: no later event, echo or second
\* deletion shows the target again, indexes it or renames its tombstone.
TombstonesStay ==
  [][\A e \in Ids : deletedBy[e] # None =>
       deletedBy'[e] = deletedBy[e] /\ e \notin search']_storeVars

\* The time of last activity of a channel, by which the sidebar orders the
\* channels, never goes back and never runs ahead of the stored messages.
ActivityMovesForward ==
  [][\A c \in Channels :
       /\ channel'[c].last >= channel[c].last
       /\ channel'[c].last # channel[c].last =>
            \E e \in stored' \ stored :
              Kind(e) = "message" /\ At(e) = channel'[c].last]_storeVars

\* Nothing that the user was shown is taken back by an event that comes late:
\* neither a tombstone nor the order of the sidebar.
NothingGoesBack == TombstonesStay /\ ActivityMovesForward
=============================================================================
