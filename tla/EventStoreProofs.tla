-------------------------- MODULE EventStoreProofs --------------------------
(***************************************************************************)
(* Proofs about the event store, for every catalogue of events: whatever   *)
(* the order in which they come, the projections are what the set of       *)
(* stored events says.                                                     *)
(***************************************************************************)
EXTENDS EventStoreProperties, FiniteSetTheorems, WellFoundedInduction, TLAPS

DeletionKinds == {"deletion", "moderation"}

LEMMA EventType ==
    ASSUME NEW e \in Ids
    PROVE  /\ e \in Nat /\ e # None
           /\ Kind(e) \in Kinds /\ At(e) \in Nat
           /\ Event[e].by \in Keys /\ Event[e].channel \in Channels
           /\ Event[e].refs \subseteq Ids /\ e \notin Event[e].refs
           /\ Event[e].members \in SUBSET (Keys \X Roles)
           /\ IsFiniteSet(Event[e].members)
           /\ Event[e].dm \in BOOLEAN
           /\ Event[e].hidden \subseteq Channels
  <1>1. Event[e] \in EventRecords
    BY EventsAssumption
  <1> QED
    BY <1>1, EventsAssumption DEF EventRecords, Kind, At, None

\* The smallest of a set of identifiers is one of them.
LEMMA MinOf ==
    ASSUME NEW S \in SUBSET Nat, S # {}
    PROVE  Min(S) \in S
  <1>1. PICK m \in S : \A n \in S : <<n, m>> \notin OpToRel(<, Nat)
    BY WFMin, NatLessThanWellFounded, Zenon
  <1>2. \A n \in S : ~(n < m)
    BY <1>1, Zenon DEF OpToRel
  <1>3. \E x \in S : \A y \in S : x =< y
    BY <1>2
  <1> QED
    BY <1>3 DEF Min

\* A tombstone is put on an event exactly if an earlier deletion reaches it.
LEMMA TombstoneOf ==
    ASSUME NEW e \in Ids, stored \subseteq Ids
    PROVE  /\ Tombstone(e) \in stored \cup {None}
           /\ Tombstone(e) # None <=> EarlierDeletions(e) # {}
  <1>1. EarlierDeletions(e) \in SUBSET Nat /\ EarlierDeletions(e) \subseteq stored
    BY EventsAssumption DEF EarlierDeletions
  <1>2. EarlierDeletions(e) # {} => Min(EarlierDeletions(e)) \in EarlierDeletions(e)
    BY <1>1, MinOf
  <1> QED
    BY <1>1, <1>2, EventType DEF Tombstone

-----------------------------------------------------------------------------
(* What the insertions have in common.                                     *)

LEMMA Steps ==
    ASSUME Next
    PROVE  \/ UNCHANGED storeVars
           \/ PinRelay
           \/ \E e \in Ids : Insert(e)
  BY DEF Next, Apply, Ignore

\* An insertion that is not a deletion.
LEMMA AdmitStep ==
    ASSUME NEW e \in Ids, Insert(e), Kind(e) \notin DeletionKinds
    PROVE  /\ e \notin stored /\ ~Refused(e)
           /\ stored' = stored \cup {e}
           /\ targets' = targets
           /\ deletedBy' = [deletedBy EXCEPT ![e] = Tombstone(e)]
           /\ struck' = IF Kind(e) = "reaction"
                        THEN [struck EXCEPT ![e] = Tombstone(e)] ELSE struck
           /\ search' = IF Kind(e) = "message" THEN Indexed(e) ELSE search
           /\ UNCHANGED pinned
  BY DEF Insert, DeletionKinds, Admit, InsertMessage, InsertReaction,
         InsertDeletion, InsertProfile, InsertChannel, InsertMembers,
         InsertVisibility, deletions, directory, visibility

LEMMA DeletionStep ==
    ASSUME NEW e \in Ids, Insert(e), Kind(e) \in DeletionKinds
    PROVE  InsertDeletion(e)
  BY DEF Insert, DeletionKinds, Admit, InsertMessage, InsertReaction,
         InsertDeletion, InsertProfile, InsertChannel, InsertMembers,
         InsertVisibility

-----------------------------------------------------------------------------
(* Types.                                                                  *)

TypeOfDeletions ==
  /\ pinned \in BOOLEAN
  /\ stored \subseteq Ids
  /\ targets \subseteq stored \X Ids
  /\ deletedBy \in [Ids -> stored \cup {None}]
  /\ struck \in [Ids -> stored \cup {None}]
  /\ search \subseteq OfKind({"message"})

ChannelRow(S) == [known : BOOLEAN, dm : BOOLEAN, head : S \cup {None},
                  last : Nat, count : Nat, joined : BOOLEAN]

TypeOfHeads ==
  /\ profileHead \in [Keys -> OfKind({"profile"}) \cup {None}]
  /\ channel \in [Channels -> ChannelRow(stored)]
  /\ memberHead \in [Channels -> OfKind({"members"}) \cup {None}]
  /\ rows \in [Channels -> SUBSET (Keys \X Roles)]
  /\ visHead \in OfKind({"visibility"}) \cup {None}
  /\ hiddenDms \subseteq Channels

LEMMA TypeParts == TypeOK <=> TypeOfDeletions /\ TypeOfHeads
  BY DEF TypeOK, TypeOfDeletions, TypeOfHeads, ChannelRow

LEMMA TypeInit == Init => TypeOK
  <1> SUFFICES ASSUME Init PROVE TypeOK
    OBVIOUS
  <1>1. NoRow \in ChannelRow(stored)
    BY DEF NoRow, None, ChannelRow
  <1> QED
    BY <1>1, TypeParts DEF Init, TypeOfDeletions, TypeOfHeads, OfKind

LEMMA RowType ==
    ASSUME NEW S, NEW T, S \subseteq T, NEW r \in ChannelRow(S)
    PROVE  r \in ChannelRow(T)
  BY DEF ChannelRow

\* What the three kinds of insertion write into the row of a channel.
LEMMA RowUpdates ==
    ASSUME NEW S, NEW r \in ChannelRow(S)
    PROVE  /\ \A n \in Nat : [r EXCEPT !.last = n] \in ChannelRow(S)
           /\ \A h \in S, a \in BOOLEAN :
                [r EXCEPT !.known = TRUE, !.head = h, !.dm = a] \in ChannelRow(S)
           /\ \A n \in Nat, a \in BOOLEAN :
                [r EXCEPT !.known = TRUE, !.count = n, !.joined = a] \in ChannelRow(S)
  BY DEF ChannelRow

LEMMA TypeOfDeletionsStep ==
    ASSUME TypeOK, NEW e \in Ids, Insert(e)
    PROVE  TypeOfDeletions'
  <1> USE DEF TypeOK, TypeOfDeletions
  <1>1. CASE Kind(e) \in DeletionKinds
    <2>1. InsertDeletion(e) /\ Event[e].refs \subseteq Ids
      BY <1>1, DeletionStep, EventType
    <2> QED
      BY <2>1 DEF InsertDeletion, Marked, OfKind
  <1>2. CASE Kind(e) \notin DeletionKinds
    <2>1. Tombstone(e) \in stored \cup {None}
      BY TombstoneOf
    <2> QED
      BY <1>2, <2>1, AdmitStep DEF Indexed, OfKind
  <1> QED
    BY <1>1, <1>2

LEMMA TypeOfHeadsStep ==
    ASSUME TypeOK, NEW e \in Ids, Insert(e)
    PROVE  TypeOfHeads'
  <1> USE DEF TypeOfHeads, OfKind, directory, visibility
  <1>1. /\ At(e) \in Nat /\ Event[e].by \in Keys /\ Event[e].channel \in Channels
        /\ Event[e].members \in SUBSET (Keys \X Roles)
        /\ Cardinality(Event[e].members) \in Nat
        /\ Event[e].dm \in BOOLEAN /\ Event[e].hidden \subseteq Channels
    BY EventType, FS_CardinalityType
  <1>2. TypeOfHeads /\ stored' = stored \cup {e}
    BY TypeParts, AdmitStep, DeletionStep DEF InsertDeletion
  <1>3. channel \in [Channels -> ChannelRow(stored')]
    BY <1>1, <1>2, RowType
  <1>4. CASE InsertMessage(e)
    <2> DEFINE c == Event[e].channel
               row == [channel[c] EXCEPT !.last = Latest(channel[c].last, At(e))]
    <2>1. channel[c] \in ChannelRow(stored') /\ channel[c].last \in Nat
      BY <1>1, <1>3 DEF ChannelRow
    <2>2. Latest(channel[c].last, At(e)) \in Nat
      BY <1>1, <2>1 DEF Latest
    <2>3. row \in ChannelRow(stored')
      BY <2>1, <2>2, RowUpdates
    <2>4. channel' = IF channel[c].known THEN [channel EXCEPT ![c] = row] ELSE channel
      BY <1>4 DEF InsertMessage
    <2> HIDE DEF row
    <2>5. channel' \in [Channels -> ChannelRow(stored')]
      BY <1>1, <1>3, <2>3, <2>4
    <2> QED
      BY <1>2, <1>4, <2>5 DEF InsertMessage, Admit
  <1>5. CASE InsertReaction(e)
    BY <1>2, <1>3, <1>5 DEF InsertReaction, Admit
  <1>6. CASE InsertDeletion(e)
    BY <1>2, <1>3, <1>6 DEF InsertDeletion
  <1>7. CASE InsertProfile(e)
    BY <1>1, <1>2, <1>3, <1>7 DEF InsertProfile, Admit
  <1>8. CASE InsertChannel(e)
    <2>1. \A c \in Channels :
             [channel[c] EXCEPT !.known = TRUE, !.head = e, !.dm = Event[e].dm]
               \in ChannelRow(stored')
      BY <1>1, <1>2, <1>3, RowUpdates
    <2>2. channel' \in [Channels -> ChannelRow(stored')]
      BY <1>1, <1>3, <1>8, <2>1 DEF InsertChannel
    <2> QED
      BY <1>2, <1>8, <2>2 DEF InsertChannel, Admit
  <1>9. CASE InsertMembers(e)
    <2>1. \A c \in Channels, b \in BOOLEAN :
             [channel[c] EXCEPT !.known = TRUE, !.count = Cardinality(Event[e].members),
                                !.joined = b] \in ChannelRow(stored')
      BY <1>1, <1>3, RowUpdates
    <2>2. channel' \in [Channels -> ChannelRow(stored')]
      BY <1>1, <1>3, <1>9, <2>1 DEF InsertMembers
    <2> QED
      BY <1>1, <1>2, <1>9, <2>2 DEF InsertMembers, Admit
  <1>10. CASE InsertVisibility(e)
    BY <1>1, <1>2, <1>3, <1>10 DEF InsertVisibility, Admit
  <1> QED
    BY <1>4, <1>5, <1>6, <1>7, <1>8, <1>9, <1>10 DEF Insert

LEMMA TypeStep == TypeOK /\ [Next]_storeVars => TypeOK'
  <1> SUFFICES ASSUME TypeOK, [Next]_storeVars PROVE TypeOK'
    OBVIOUS
  <1>1. CASE UNCHANGED storeVars
    BY <1>1 DEF TypeOK, storeVars, deletions, directory, visibility, OfKind
  <1>2. CASE PinRelay
    BY <1>2 DEF TypeOK, PinRelay, deletions, directory, visibility, OfKind
  <1>3. CASE \E e \in Ids : Insert(e)
    BY <1>3, TypeOfDeletionsStep, TypeOfHeadsStep
       DEF TypeOK, TypeOfDeletions, TypeOfHeads, ChannelRow
  <1> QED
    BY <1>1, <1>2, <1>3, Steps

\* The tables of the store keep their types, for every catalogue of events:
\* no sequence of insertions puts into a table what its column cannot hold.
THEOREM StoreTypeCorrect == Spec => []TypeOK
  BY TypeInit, TypeStep, PTL DEF Spec

-----------------------------------------------------------------------------
(* Deletions.  A tombstone has to survive both orders: it is put on by the *)
(* deletion if the target is there, and else by the target, which finds    *)
(* the deletion in deletion_targets.  So that table has to be exact.       *)

TargetsExact ==
  \A d, e \in Ids :
    <<d, e>> \in targets <=> d \in stored /\ Kind(d) \in DeletionKinds /\ e \in Event[d].refs

UnstoredUnmarked == \A e \in Ids \ stored : deletedBy[e] = None

DeletionInv ==
  /\ TypeOfDeletions /\ TargetsExact /\ UnstoredUnmarked
  /\ DeletedIffAuthorised /\ ReactionsAgree /\ SearchShowsVisible

LEMMA DeletionInit == Init => DeletionInv
  BY DEF Init, DeletionInv, TypeOfDeletions, TargetsExact, UnstoredUnmarked,
         DeletedIffAuthorised, ReactionsAgree, SearchShowsVisible, OfKind

\* What reaches an event is a deletion that names it.
LEMMA ReachesIs ==
    ASSUME NEW d \in Ids, NEW e \in Ids, Reaches(d, e)
    PROVE  Kind(d) \in DeletionKinds /\ e \in Event[d].refs /\ d # e
  BY EventType DEF Reaches, DeletionKinds

\* An event that comes after its deletions gets its tombstone from them.
LEMMA LateTarget ==
    ASSUME DeletionInv, NEW e \in Ids
    PROVE  Tombstone(e) # None <=> \E d \in stored : Reaches(d, e)
  <1>1. EarlierDeletions(e) # {} <=> \E d \in stored : Reaches(d, e)
    BY ReachesIs
       DEF DeletionInv, TypeOfDeletions, TargetsExact, EarlierDeletions
  <1> QED
    BY <1>1, TombstoneOf DEF DeletionInv, TypeOfDeletions

LEMMA DeletionInvAdmit ==
    ASSUME DeletionInv, TypeOfDeletions', NEW e \in Ids, Insert(e),
           Kind(e) \notin DeletionKinds
    PROVE  DeletionInv'
  <1> USE AdmitStep DEF DeletionInv, TypeOfDeletions, OfKind
  <1>1. TargetsExact'
    BY DEF TargetsExact
  <1>2. UnstoredUnmarked'
    BY DEF UnstoredUnmarked
  <1>3. \A d, t \in Ids : Reaches(d, t) => Kind(d) \in DeletionKinds
    BY ReachesIs
  <1>4. DeletedIffAuthorised'
    BY <1>3, LateTarget DEF DeletedIffAuthorised
  <1>5. ReactionsAgree'
    BY DEF ReactionsAgree
  <1>6. SearchShowsVisible'
    BY DEF SearchShowsVisible, Indexed
  <1> QED
    BY <1>1, <1>2, <1>4, <1>5, <1>6

LEMMA DeletionInvDeletion ==
    ASSUME DeletionInv, TypeOfDeletions', NEW d \in Ids, InsertDeletion(d)
    PROVE  DeletionInv'
  <1> USE DEF DeletionInv, TypeOfDeletions, OfKind
  <1>1. /\ d \notin stored /\ stored' = stored \cup {d} /\ Kind(d) \in DeletionKinds
        /\ d # None /\ Event[d].refs \subseteq Ids
    BY EventType DEF InsertDeletion, DeletionKinds
  <1>2. \A t \in Ids : deletedBy'[t] = Marked(deletedBy, d, t)
    BY DEF InsertDeletion
  <1>3. \A t \in Ids : Marked(deletedBy, d, t) # None <=>
                         deletedBy[t] # None \/ (t \in stored /\ Reaches(d, t))
    BY <1>1 DEF Marked
  <1>4. TargetsExact'
    BY <1>1 DEF TargetsExact, InsertDeletion
  <1>5. UnstoredUnmarked'
    BY <1>1, <1>2, <1>3 DEF UnstoredUnmarked
  <1>6. DeletedIffAuthorised'
    BY <1>1, <1>2, <1>3 DEF DeletedIffAuthorised, DeletionKinds
  <1>7. ReactionsAgree'
    BY <1>1, <1>2 DEF ReactionsAgree, InsertDeletion, Marked, DeletionKinds
  <1>8. \A t \in stored : deletedBy[t] = None /\ Marked(deletedBy, d, t) # None
                            => t \in Event[d].refs
    BY <1>1, <1>3, ReachesIs
  <1>9. SearchShowsVisible'
    BY <1>1, <1>2, <1>3, <1>8 DEF SearchShowsVisible, InsertDeletion, DeletionKinds
  <1> QED
    BY <1>4, <1>5, <1>6, <1>7, <1>9

LEMMA DeletionStepInv == TypeOK /\ TypeOK' /\ DeletionInv /\ [Next]_storeVars => DeletionInv'
  <1> SUFFICES ASSUME TypeOK, TypeOK', DeletionInv, [Next]_storeVars
               PROVE  DeletionInv'
    OBVIOUS
  <1>1. TypeOfDeletions'
    BY DEF TypeOK, TypeOfDeletions
  <1>2. CASE UNCHANGED storeVars \/ PinRelay
    BY <1>1, <1>2
       DEF PinRelay, storeVars, deletions, DeletionInv, TargetsExact, UnstoredUnmarked,
           DeletedIffAuthorised, ReactionsAgree, SearchShowsVisible, OfKind
  <1>3. CASE \E e \in Ids : Insert(e)
    BY <1>1, <1>3, DeletionStep, DeletionInvAdmit, DeletionInvDeletion
  <1> QED
    BY <1>2, <1>3, Steps

LEMMA DeletionHolds == Spec => []DeletionInv
  <1>1. TypeOK /\ DeletionInv /\ [Next]_storeVars => (TypeOK /\ DeletionInv)'
    BY TypeStep, DeletionStepInv
  <1> QED
    BY TypeInit, DeletionInit, <1>1, PTL DEF Spec

\* Whatever the order of a deletion and its target, the target is marked
\* exactly if a stored deletion has the right to.
THEOREM DeletionCorrect == Spec => []DeletedIffAuthorised
  <1>1. DeletionInv => DeletedIffAuthorised
    BY DEF DeletionInv
  <1> QED
    BY <1>1, DeletionHolds, PTL

\* The reactions' copy of the mark agrees with it, and search finds exactly
\* what is not marked.
THEOREM CopiesCorrect == Spec => []CopiesAgree
  <1>1. DeletionInv => CopiesAgree
    BY DEF DeletionInv, CopiesAgree
  <1> QED
    BY <1>1, DeletionHolds, PTL

\* A tombstone keeps its name, and its event stays out of the index.
THEOREM TombstonesCorrect == Spec => TombstonesStay
  <1>1. ASSUME TypeOK, TypeOK', DeletionInv, DeletionInv', [Next]_storeVars,
               NEW e \in Ids, deletedBy[e] # None
        PROVE  deletedBy'[e] = deletedBy[e] /\ e \notin search'
    <2>1. e \in stored
      BY <1>1 DEF DeletionInv, UnstoredUnmarked
    <2>2. deletedBy'[e] = deletedBy[e]
      <3>1. CASE UNCHANGED storeVars \/ PinRelay
        BY <3>1 DEF PinRelay, storeVars, deletions
      <3>2. ASSUME NEW i \in Ids, Insert(i), Kind(i) \in DeletionKinds
            PROVE  deletedBy'[e] = deletedBy[e]
        BY <1>1, <3>2, DeletionStep DEF InsertDeletion, Marked
      <3>3. ASSUME NEW i \in Ids, Insert(i), Kind(i) \notin DeletionKinds
            PROVE  deletedBy'[e] = deletedBy[e]
        BY <1>1, <2>1, <3>3, AdmitStep DEF TypeOK
      <3> QED
        BY <1>1, <3>1, <3>2, <3>3, Steps
    <2> QED
      BY <1>1, <2>2 DEF DeletionInv, SearchShowsVisible
  <1>2. TypeOK /\ TypeOK' /\ DeletionInv /\ DeletionInv' /\ [Next]_storeVars
          => [\A e \in Ids : deletedBy[e] # None =>
                deletedBy'[e] = deletedBy[e] /\ e \notin search']_storeVars
    BY <1>1
  <1>3. TypeOK /\ DeletionInv /\ [Next]_storeVars => (TypeOK /\ DeletionInv)'
    BY TypeStep, DeletionStepInv
  <1> QED
    BY TypeInit, DeletionInit, <1>2, <1>3, PTL DEF Spec, TombstonesStay

-----------------------------------------------------------------------------
(* Heads.  A head is compared with each event as it comes; that it stands  *)
(* among all of them follows as the order of time and identifier is total. *)

IsFinal(h, S) ==
  /\ S = {} => h = None
  /\ S # {} => h \in S /\ \A e \in S : At(e) < At(h) \/ (At(e) = At(h) /\ e <= h)

IsKept(h, S) ==
  /\ S = {} => h = None
  /\ S # {} => h \in S /\ \A e \in S : At(e) < At(h) \/ (At(e) = At(h) /\ h <= e)

LEMMA Numbered == \A e \in Ids : e \in Nat /\ At(e) \in Nat /\ e # None
  BY EventType

LEMMA FinalIs ==
    ASSUME NEW S \in SUBSET Ids, NEW h, IsFinal(h, S)
    PROVE  h = Final(S)
  <1>1. CASE S = {}
    BY <1>1 DEF IsFinal, Final
  <1>2. CASE S # {}
    <2> DEFINE Beats(x) == \A e \in S : At(e) < At(x) \/ (At(e) = At(x) /\ e <= x)
    <2>1. h \in S /\ Beats(h)
      BY <1>2 DEF IsFinal
    <2>2. Final(S) = CHOOSE x \in S : Beats(x)
      BY <1>2 DEF Final
    <2>3. Final(S) \in S /\ Beats(Final(S))
      BY <2>1, <2>2
    <2> QED
      BY <2>1, <2>3, Numbered
  <1> QED
    BY <1>1, <1>2

LEMMA KeptIs ==
    ASSUME NEW S \in SUBSET Ids, NEW h, IsKept(h, S)
    PROVE  h = Kept(S)
  <1>1. CASE S = {}
    BY <1>1 DEF IsKept, Kept
  <1>2. CASE S # {}
    <2> DEFINE Beats(x) == \A e \in S : At(e) < At(x) \/ (At(e) = At(x) /\ x <= e)
    <2>1. h \in S /\ Beats(h)
      BY <1>2 DEF IsKept
    <2>2. Kept(S) = CHOOSE x \in S : Beats(x)
      BY <1>2 DEF Kept
    <2>3. Kept(S) \in S /\ Beats(Kept(S))
      BY <2>1, <2>2
    <2> QED
      BY <2>1, <2>3, Numbered
  <1> QED
    BY <1>1, <1>2

LEMMA FinalGrows ==
    ASSUME NEW S \in SUBSET Ids, NEW h, IsFinal(h, S), NEW e \in Ids
    PROVE  /\ Greater(e, h) => IsFinal(e, S \cup {e})
           /\ ~Greater(e, h) => IsFinal(h, S \cup {e})
  BY Numbered DEF IsFinal, Greater

LEMMA KeptGrows ==
    ASSUME NEW S \in SUBSET Ids, NEW h, IsKept(h, S), NEW e \in Ids
    PROVE  /\ Newer(e, h) => IsKept(e, S \cup {e})
           /\ ~Newer(e, h) => IsKept(h, S \cup {e})
  BY Numbered DEF IsKept, Newer

ProfilesOf(k) == {e \in OfKind({"profile"}) : Event[e].by = k}

HeadInv ==
  /\ \A k \in Keys : IsFinal(profileHead[k], ProfilesOf(k))
  /\ \A c \in Channels : /\ IsFinal(channel[c].head, On(c, "channel"))
                         /\ IsKept(memberHead[c], On(c, "members"))
  /\ IsKept(visHead, OfKind({"visibility"}))

LEMMA HeadInit == Init => HeadInv
  BY DEF Init, HeadInv, IsFinal, IsKept, ProfilesOf, On, OfKind, NoRow

\* An insertion adds its event to the events of its kind and to no others.
LEMMA Coordinates ==
    ASSUME NEW e \in Ids, Insert(e)
    PROVE  /\ \A k \in Keys : ProfilesOf(k)' =
                IF Kind(e) = "profile" /\ Event[e].by = k THEN ProfilesOf(k) \cup {e}
                                                          ELSE ProfilesOf(k)
           /\ \A c \in Channels, kind \in RelayKinds : On(c, kind)' =
                IF Kind(e) = kind /\ Event[e].channel = c THEN On(c, kind) \cup {e}
                                                          ELSE On(c, kind)
           /\ OfKind({"visibility"})' =
                IF Kind(e) = "visibility" THEN OfKind({"visibility"}) \cup {e}
                                          ELSE OfKind({"visibility"})
  <1>1. stored' = stored \cup {e}
    BY AdmitStep, DeletionStep DEF InsertDeletion
  <1> QED
    BY <1>1 DEF ProfilesOf, On, OfKind

LEMMA HeadStep ==
    ASSUME TypeOK, HeadInv, NEW e \in Ids, Insert(e)
    PROVE  HeadInv'
  <1> DEFINE k == Event[e].by
             c == Event[e].channel
  <1>1. k \in Keys /\ c \in Channels
    BY EventType
  <1>2. /\ \A j \in Keys : ProfilesOf(j) \in SUBSET Ids
        /\ \A d \in Channels, kind \in RelayKinds : On(d, kind) \in SUBSET Ids
        /\ OfKind({"visibility"}) \in SUBSET Ids
    BY DEF TypeOK, ProfilesOf, On, OfKind
  <1>3. CASE InsertMessage(e) \/ InsertReaction(e) \/ InsertDeletion(e)
    <2>1. /\ UNCHANGED <<profileHead, memberHead, visHead>>
          /\ \A d \in Channels : channel'[d].head = channel[d].head
      BY <1>3 DEF InsertMessage, InsertReaction, InsertDeletion, Admit, directory,
                  visibility, TypeOK
    <2>2. Kind(e) \in {"message", "reaction", "deletion", "moderation"}
      BY <1>3 DEF InsertMessage, InsertReaction, InsertDeletion, Admit
    <2> QED
      BY <2>1, <2>2, Coordinates DEF HeadInv, RelayKinds
  <1>4. CASE InsertProfile(e)
    <2>1. /\ Kind(e) = "profile" /\ UNCHANGED <<channel, memberHead, visHead>>
          /\ profileHead' = IF Greater(e, profileHead[k])
                            THEN [profileHead EXCEPT ![k] = e] ELSE profileHead
      BY <1>4 DEF InsertProfile, Admit, directory, visibility
    <2>2. \A j \in Keys : IsFinal(profileHead'[j], ProfilesOf(j)')
      <3> SUFFICES ASSUME NEW j \in Keys
                   PROVE  IsFinal(profileHead'[j], ProfilesOf(j)')
        OBVIOUS
      <3>1. IsFinal(profileHead[j], ProfilesOf(j)) /\ ProfilesOf(j) \in SUBSET Ids
        BY <1>2 DEF HeadInv
      <3>2. profileHead'[j] = IF j = k /\ Greater(e, profileHead[j])
                              THEN e ELSE profileHead[j]
        BY <1>1, <2>1 DEF TypeOK
      <3>3. ProfilesOf(j)' = IF j = k THEN ProfilesOf(j) \cup {e} ELSE ProfilesOf(j)
        BY <2>1, Coordinates
      <3> QED
        BY <3>1, <3>2, <3>3, FinalGrows
    <2> QED
      BY <2>1, <2>2, Coordinates DEF HeadInv, RelayKinds
  <1>5. CASE InsertChannel(e)
    <2>1. /\ Kind(e) = "channel" /\ UNCHANGED <<profileHead, memberHead, visHead>>
      BY <1>5 DEF InsertChannel, Admit, visibility
    <2>2. \A d \in Channels : channel'[d].head =
             IF d = c /\ Greater(e, channel[c].head) THEN e ELSE channel[d].head
      BY <1>1, <1>5 DEF InsertChannel, TypeOK
    <2>3. \A d \in Channels : IsFinal(channel'[d].head, On(d, "channel")')
      <3> SUFFICES ASSUME NEW d \in Channels
                   PROVE  IsFinal(channel'[d].head, On(d, "channel")')
        OBVIOUS
      <3>1. IsFinal(channel[d].head, On(d, "channel")) /\ On(d, "channel") \in SUBSET Ids
        BY <1>2 DEF HeadInv, RelayKinds
      <3>2. On(d, "channel")' = IF d = c THEN On(d, "channel") \cup {e} ELSE On(d, "channel")
        BY <2>1, Coordinates DEF RelayKinds
      <3> QED
        BY <2>2, <3>1, <3>2, FinalGrows
    <2> QED
      BY <2>1, <2>3, Coordinates DEF HeadInv, RelayKinds
  <1>6. CASE InsertMembers(e)
    <2>1. /\ Kind(e) = "members" /\ UNCHANGED <<profileHead, visHead>>
          /\ memberHead' = IF Newer(e, memberHead[c])
                           THEN [memberHead EXCEPT ![c] = e] ELSE memberHead
      BY <1>6 DEF InsertMembers, Admit, visibility
    <2>2. \A d \in Channels : channel'[d].head = channel[d].head
      BY <1>1, <1>6 DEF InsertMembers, TypeOK
    <2>3. \A d \in Channels : IsKept(memberHead'[d], On(d, "members")')
      <3> SUFFICES ASSUME NEW d \in Channels
                   PROVE  IsKept(memberHead'[d], On(d, "members")')
        OBVIOUS
      <3>1. IsKept(memberHead[d], On(d, "members")) /\ On(d, "members") \in SUBSET Ids
        BY <1>2 DEF HeadInv, RelayKinds
      <3>2. memberHead'[d] = IF d = c /\ Newer(e, memberHead[d]) THEN e ELSE memberHead[d]
        BY <1>1, <2>1 DEF TypeOK
      <3>3. On(d, "members")' = IF d = c THEN On(d, "members") \cup {e} ELSE On(d, "members")
        BY <2>1, Coordinates DEF RelayKinds
      <3> QED
        BY <3>1, <3>2, <3>3, KeptGrows
    <2> QED
      BY <2>1, <2>2, <2>3, Coordinates DEF HeadInv, RelayKinds
  <1>7. CASE InsertVisibility(e)
    <2>1. /\ Kind(e) = "visibility" /\ UNCHANGED <<profileHead, channel, memberHead>>
          /\ visHead' = IF Newer(e, visHead) THEN e ELSE visHead
      BY <1>7 DEF InsertVisibility, Admit, directory, visibility
    <2>2. IsKept(visHead', OfKind({"visibility"})')
      <3>1. OfKind({"visibility"})' = OfKind({"visibility"}) \cup {e}
        BY <2>1, Coordinates
      <3>2. IsKept(visHead, OfKind({"visibility"}))
        BY DEF HeadInv
      <3> QED
        BY <1>2, <2>1, <3>1, <3>2, KeptGrows
    <2> QED
      BY <2>1, <2>2, Coordinates DEF HeadInv, RelayKinds
  <1> QED
    BY <1>3, <1>4, <1>5, <1>6, <1>7 DEF Insert

LEMMA HeadStepInv == TypeOK /\ HeadInv /\ [Next]_storeVars => HeadInv'
  <1> SUFFICES ASSUME TypeOK, HeadInv, [Next]_storeVars PROVE HeadInv'
    OBVIOUS
  <1>1. CASE UNCHANGED storeVars \/ PinRelay
    BY <1>1 DEF PinRelay, storeVars, directory, visibility, HeadInv, ProfilesOf, On, OfKind
  <1>2. CASE \E e \in Ids : Insert(e)
    BY <1>2, HeadStep
  <1> QED
    BY <1>1, <1>2, Steps

LEMMA HeadsFollow == TypeOK /\ HeadInv => HeadsStand
  <1> SUFFICES ASSUME TypeOK, HeadInv PROVE HeadsStand
    OBVIOUS
  <1>1. \A k \in Keys : ProfilesOf(k) \in SUBSET Ids
    BY DEF TypeOK, ProfilesOf, OfKind
  <1>2. \A c \in Channels, kind \in RelayKinds : On(c, kind) \in SUBSET Ids
    BY DEF TypeOK, On, OfKind
  <1>3. OfKind({"visibility"}) \in SUBSET Ids
    BY DEF TypeOK, OfKind
  <1> QED
    BY <1>1, <1>2, <1>3, FinalIs, KeptIs DEF HeadInv, HeadsStand, ProfilesOf, RelayKinds

\* Whatever the order of arrival, each head is the one event that stands
\* among all the stored ones of its coordinate.
THEOREM HeadsCorrect == Spec => []HeadsStand
  <1>1. TypeOK /\ HeadInv => HeadsStand
    BY HeadsFollow
  <1>2. TypeOK /\ HeadInv /\ [Next]_storeVars => (TypeOK /\ HeadInv)'
    BY TypeStep, HeadStepInv
  <1> QED
    BY TypeInit, HeadInit, <1>1, <1>2, PTL DEF Spec

-----------------------------------------------------------------------------
(* What is derived from the heads.                                         *)

\* The rows of one channel, as RowsOfTheHead has them.
RowsOf(c) ==
  /\ memberHead[c] = None => rows[c] = {} /\ channel[c].count = 0
  /\ memberHead[c] # None => /\ channel[c].known
                             /\ rows[c] = Event[memberHead[c]].members
                             /\ channel[c].count = Cardinality(rows[c])
  /\ channel[c].head # None => channel[c].dm = Event[channel[c].head].dm

DmOf(c) == channel[c].dm /\ rows[c] # {} => DmSize(rows[c])

HiddenOf == visHead # None => hiddenDms = Event[visHead].hidden

RowsInv == HiddenOf /\ \A c \in Channels : RowsOf(c) /\ DmOf(c)

LEMMA RowsInit == Init => RowsInv
  BY DEF Init, RowsInv, RowsOf, DmOf, HiddenOf, NoRow

\* What a membership snapshot changes in the row of a channel.
LEMMA MembersRow ==
    ASSUME TypeOK, NEW e \in Ids, InsertMembers(e), NEW d \in Channels
    PROVE  /\ channel'[d].head = channel[d].head
           /\ channel'[d].dm = channel[d].dm
           /\ channel'[d].last = channel[d].last
           /\ IF d = Event[e].channel /\ Newer(e, memberHead[d])
              THEN channel'[d].known /\ channel'[d].count = Cardinality(Event[e].members)
              ELSE channel'[d] = channel[d]
  <1> DEFINE c == Event[e].channel
             b == \E role \in Roles : <<Self, role>> \in Event[e].members
             row == [channel[c] EXCEPT !.known = TRUE,
                                       !.count = Cardinality(Event[e].members),
                                       !.joined = b]
  <1>1. channel' = IF Newer(e, memberHead[c]) THEN [channel EXCEPT ![c] = row] ELSE channel
    BY DEF InsertMembers
  <1>2. c \in Channels /\ b \in BOOLEAN
    BY EventType
  <1> HIDE DEF b
  <1>3. /\ channel \in [Channels -> ChannelRow(stored)]
        /\ channel[c] \in ChannelRow(stored)
    BY <1>2, TypeParts DEF TypeOfHeads
  <1>4. /\ row.head = channel[c].head /\ row.dm = channel[c].dm
        /\ row.last = channel[c].last /\ row.known
        /\ row.count = Cardinality(Event[e].members)
    BY <1>3 DEF ChannelRow
  <1> HIDE DEF row
  <1> QED
    BY <1>1, <1>2, <1>3, <1>4

LEMMA RowsStep ==
    ASSUME TypeOK, RowsInv, NEW e \in Ids, Insert(e)
    PROVE  RowsInv'
  <1> DEFINE c == Event[e].channel
  <1>1. c \in Channels /\ e # None
    BY EventType
  <1>2. CASE InsertMessage(e)
    <2>1. /\ UNCHANGED <<memberHead, rows, visHead, hiddenDms>>
          /\ \A d \in Channels : /\ channel'[d].head = channel[d].head
                                 /\ channel'[d].known = channel[d].known
                                 /\ channel'[d].dm = channel[d].dm
                                 /\ channel'[d].count = channel[d].count
      BY <1>1, <1>2 DEF InsertMessage, visibility, TypeOK
    <2> QED
      BY <2>1 DEF RowsInv, RowsOf, DmOf, HiddenOf
  <1>3. CASE InsertReaction(e) \/ InsertDeletion(e) \/ InsertProfile(e)
    BY <1>3 DEF InsertReaction, InsertDeletion, InsertProfile, directory, visibility,
                RowsInv, RowsOf, DmOf, HiddenOf
  <1>4. CASE InsertChannel(e)
    <2>1. UNCHANGED <<memberHead, rows, visHead, hiddenDms>> /\ ~BreaksDm(e)
             /\ Kind(e) = "channel"
      BY <1>4 DEF InsertChannel, Admit, Refused, visibility
    <2>2. \A d \in Channels : d # c => channel'[d] = channel[d]
      BY <1>4 DEF InsertChannel, TypeOK
    <2>3. /\ channel'[c].count = channel[c].count
          /\ channel[c].known => channel'[c].known
          /\ \/ channel'[c].head = channel[c].head /\ channel'[c].dm = channel[c].dm
             \/ channel'[c].head = e /\ channel'[c].dm = Event[e].dm
      BY <1>1, <1>4 DEF InsertChannel, TypeOK
    <2>4. RowsOf(c)'
      BY <1>1, <2>1, <2>3 DEF RowsInv, RowsOf
    <2>5. DmOf(c)'
      BY <1>1, <2>1, <2>3 DEF RowsInv, DmOf, BreaksDm
    <2>6. \A d \in Channels : d # c => RowsOf(d)' /\ DmOf(d)'
      BY <2>1, <2>2 DEF RowsInv, RowsOf, DmOf
    <2> QED
      BY <2>1, <2>4, <2>5, <2>6 DEF RowsInv, HiddenOf
  <1>5. CASE InsertMembers(e)
    <2>1. UNCHANGED <<visHead, hiddenDms>> /\ ~BreaksDm(e) /\ Kind(e) = "members"
      BY <1>5 DEF InsertMembers, Admit, Refused, visibility
    <2>2. \A d \in Channels : d # c =>
             channel'[d] = channel[d] /\ rows'[d] = rows[d] /\ memberHead'[d] = memberHead[d]
      BY <1>5, MembersRow DEF InsertMembers, TypeOK
    <2>3. /\ channel'[c].head = channel[c].head /\ channel'[c].dm = channel[c].dm
          /\ \/ /\ memberHead'[c] = e /\ rows'[c] = Event[e].members
                /\ channel'[c].known /\ channel'[c].count = Cardinality(Event[e].members)
             \/ /\ memberHead'[c] = memberHead[c] /\ rows'[c] = rows[c]
                /\ channel'[c].known = channel[c].known
                /\ channel'[c].count = channel[c].count
      BY <1>1, <1>5, MembersRow DEF InsertMembers, TypeOK
    <2>4. RowsOf(c)'
      BY <1>1, <2>1, <2>3 DEF RowsInv, RowsOf
    <2>5. DmOf(c)'
      BY <1>1, <2>1, <2>3 DEF RowsInv, DmOf, BreaksDm
    <2>6. \A d \in Channels : d # c => RowsOf(d)' /\ DmOf(d)'
      BY <2>2 DEF RowsInv, RowsOf, DmOf
    <2> QED
      BY <2>1, <2>4, <2>5, <2>6 DEF RowsInv, HiddenOf
  <1>6. CASE InsertVisibility(e)
    BY <1>1, <1>6 DEF InsertVisibility, directory, visibility, RowsInv, RowsOf, DmOf, HiddenOf
  <1> QED
    BY <1>2, <1>3, <1>4, <1>5, <1>6 DEF Insert

LEMMA RowsStepInv == TypeOK /\ RowsInv /\ [Next]_storeVars => RowsInv'
  <1> SUFFICES ASSUME TypeOK, RowsInv, [Next]_storeVars PROVE RowsInv'
    OBVIOUS
  <1>1. CASE UNCHANGED storeVars \/ PinRelay
    BY <1>1 DEF PinRelay, storeVars, directory, visibility, RowsInv, RowsOf, DmOf, HiddenOf
  <1>2. CASE \E e \in Ids : Insert(e)
    BY <1>2, RowsStep
  <1> QED
    BY <1>1, <1>2, Steps

LEMMA RowsFollow == RowsInv => MembershipSound
  BY DEF RowsInv, RowsOf, DmOf, HiddenOf, MembershipSound, RowsOfTheHead, DmSized

\* Members, their number, the kind of channel and the hidden direct messages
\* are those of the head, and a direct message has an admissible size,
\* whichever of its metadata and its snapshots came first.
THEOREM RowsCorrect == Spec => []MembershipSound
  <1>1. RowsInv => MembershipSound
    BY RowsFollow
  <1>2. TypeOK /\ RowsInv /\ [Next]_storeVars => (TypeOK /\ RowsInv)'
    BY TypeStep, RowsStepInv
  <1> QED
    BY TypeInit, RowsInit, <1>1, <1>2, PTL DEF Spec

\* The time of last activity is moved only by a message, and only forward.
THEOREM ActivityCorrect == Spec => ActivityMovesForward
  <1> DEFINE Moves(c) ==
        /\ channel'[c].last >= channel[c].last
        /\ channel'[c].last # channel[c].last =>
             \E e \in stored' \ stored : Kind(e) = "message" /\ At(e) = channel'[c].last
  <1>1. ASSUME TypeOK, [Next]_storeVars, NEW c \in Channels
        PROVE  Moves(c)
    <2>1. channel[c].last \in Nat
      BY <1>1 DEF TypeOK
    <2>2. CASE channel'[c].last = channel[c].last
      BY <2>1, <2>2
    <2>3. ASSUME NEW e \in Ids, Insert(e), channel'[c].last # channel[c].last
          PROVE  Moves(c)
      <3>1. ASSUME InsertChannel(e) \/ InsertMembers(e)
            PROVE  channel'[c].last = channel[c].last
        <4>1. CASE InsertChannel(e)
          BY <1>1, <4>1 DEF InsertChannel, TypeOK
        <4>2. CASE InsertMembers(e)
          BY <1>1, <4>2, MembersRow
        <4> QED
          BY <3>1, <4>1, <4>2
      <3>2. InsertMessage(e)
        BY <2>3, <3>1
           DEF Insert, InsertReaction, InsertDeletion, InsertProfile, InsertVisibility,
               directory
      <3>3. channel'[c].last = Latest(channel[c].last, At(e))
        BY <1>1, <2>3, <3>2 DEF InsertMessage, TypeOK
      <3>4. Kind(e) = "message" /\ e \in stored' \ stored
        BY <3>2 DEF InsertMessage, Admit
      <3> QED
        BY <2>1, <2>3, <3>3, <3>4, EventType DEF Latest
    <2>4. CASE UNCHANGED storeVars \/ PinRelay
      BY <2>2, <2>4 DEF PinRelay, storeVars, directory
    <2> QED
      BY <1>1, <2>2, <2>3, <2>4, Steps
  <1>2. TypeOK /\ [Next]_storeVars => [\A c \in Channels : Moves(c)]_storeVars
    BY <1>1
  <1> QED
    BY TypeInit, TypeStep, <1>2, PTL DEF Spec, ActivityMovesForward

\* Nothing that was shown is taken back by an event that comes late.
THEOREM NothingGoesBackCorrect == Spec => NothingGoesBack
  BY TombstonesCorrect, ActivityCorrect DEF NothingGoesBack
=============================================================================
