-------------------------- MODULE DirectoryProofs ---------------------------
(***************************************************************************)
(* Proofs about the directory: the live subscription and any number of     *)
(* overlapping refreshes keep what EventStoreProofs proves of the store,   *)
(* and what the relay serves and the user may see is asked for until it is *)
(* stored; and about the commands on direct messages.                      *)
(***************************************************************************)
EXTENDS DirectoryProperties, EventStoreProofs, Dms

\* A step of the directory is one of the store, or overwrites is_member.
OnlyFlags(t) ==
  /\ channel' = [c \in Channels |->
                   [channel[c] EXCEPT !.joined = channel[c].known /\ c \in task[t].told]]
  /\ UNCHANGED <<pinned, stored, deletions, search, profileHead, memberHead, rows,
                 visibility>>

LEMMA StoreSteps ==
    ASSUME DirTypeOK, [DirNext]_dirVars
    PROVE  [Next]_storeVars \/ \E t \in Tasks : OnlyFlags(t)
  <1>1. CASE UNCHANGED dirVars
    BY <1>1 DEF dirVars
  <1>2. ASSUME NEW e \in Ids, RelayPublishes(e) \/ LiveEvent(e)
        PROVE  [Next]_storeVars
    BY <1>2 DEF RelayPublishes, LiveEvent, Next
  <1>3. CASE Notified \/ SpawnRefresh
    BY <1>3 DEF Notified, SpawnRefresh
  <1>4. ASSUME NEW t \in Spawned, Connect(t) \/ DmCommand(t)
        PROVE  [Next]_storeVars
    BY <1>4 DEF Connect, DmCommand
  <1>5. ASSUME NEW t \in Tasks, RefreshStep(t)
        PROVE  [Next]_storeVars \/ OnlyFlags(t)
    <2>1. CASE Pin(t)
      BY <2>1 DEF Pin, Next
    <2>2. CASE Ask(t) \/ AskFails(t) \/ StoreDone(t)
      BY <2>2 DEF Ask, AskFails, StoreDone
    <2>3. CASE ReconcileSelfMemberships(t)
      BY <2>3 DEF ReconcileSelfMemberships, OnlyFlags
    <2>4. ASSUME NEW e \in task[t].batch, StoreOne(t, e) \/ StoreRefused(t, e)
          PROVE  [Next]_storeVars
      <3>1. e \in Ids
        BY DEF DirTypeOK
      <3> QED
        BY <2>4, <3>1 DEF StoreOne, StoreRefused, Next
    <2> QED
      BY <1>5, <2>1, <2>2, <2>3, <2>4 DEF RefreshStep
  <1> QED
    BY <1>1, <1>2, <1>3, <1>4, <1>5 DEF DirNext

\* What overwriting is_member leaves alone.
LEMMA FlagsStep ==
    ASSUME TypeOK, NEW t \in Tasks, OnlyFlags(t)
    PROVE  /\ TypeOK'
           /\ DeletionInv => DeletionInv'
           /\ HeadInv => HeadInv'
           /\ RowsInv => RowsInv'
  <1>1. \A c \in Channels :
           /\ channel'[c].head = channel[c].head /\ channel'[c].dm = channel[c].dm
           /\ channel'[c].known = channel[c].known
           /\ channel'[c].count = channel[c].count
    BY DEF OnlyFlags, TypeOK
  <1>2. channel' \in [Channels -> ChannelRow(stored)]
    BY TypeParts DEF OnlyFlags, TypeOfHeads, ChannelRow
  <1>3. TypeOK'
    BY <1>2 DEF TypeOK, ChannelRow, OnlyFlags, deletions, visibility, OfKind
  <1>4. DeletionInv => DeletionInv'
    BY DEF OnlyFlags, deletions, DeletionInv, TypeOfDeletions, TargetsExact,
           UnstoredUnmarked, DeletedIffAuthorised, ReactionsAgree,
           SearchShowsVisible, OfKind
  <1>5. HeadInv => HeadInv'
    BY <1>1 DEF OnlyFlags, visibility, HeadInv, ProfilesOf, On, OfKind
  <1>6. RowsInv => RowsInv'
    BY <1>1 DEF OnlyFlags, visibility, RowsInv, RowsOf, DmOf, HiddenOf
  <1> QED
    BY <1>3, <1>4, <1>5, <1>6

-----------------------------------------------------------------------------
(* Types.  A task that has been answered is in one of the queries, which   *)
(* is why it has a stage to go on to; and the task whose batch is being    *)
(* stored is neither ended nor aborted.                                    *)

AskedInQuery == \A t \in Tasks : task[t].asked => task[t].stage \in Queries

TaskRecords(S) == [stage : Stages, asked : BOOLEAN, batch : SUBSET S,
                   told : SUBSET Channels]

LEMMA DirTypeInit == DirInit => DirTypeOK /\ AskedInQuery
  <1>1. ASSUME DirInit
        PROVE  Idle \in TaskRecords(published) /\ ~Idle.asked
    BY DEF Idle, TaskRecords, Stages
  <1>2. ASSUME DirInit
        PROVE  task = [t \in Tasks |-> Idle] /\ published = {} /\ live = {}
               /\ due = FALSE /\ writer = Nobody
    BY <1>2 DEF DirInit
  <1> QED
    BY <1>1, <1>2 DEF DirTypeOK, AskedInQuery, TaskRecords

LEMMA AnswerType ==
    ASSUME NEW q \in Queries
    PROVE  Answer(q) \subseteq published
  BY DEF Answer, Joined, Standing, Queries

LEMMA DirTypeStep ==
    DirTypeOK /\ AskedInQuery /\ [DirNext]_dirVars => DirTypeOK' /\ AskedInQuery'
  <1> SUFFICES ASSUME DirTypeOK, AskedInQuery, [DirNext]_dirVars
               PROVE  DirTypeOK' /\ AskedInQuery'
    OBVIOUS
  <1> USE DEF DirTypeOK, AskedInQuery
  <1>0. /\ Idle \in TaskRecords({}) /\ Failed \in TaskRecords({}) /\ Asking \in TaskRecords({})
        /\ [Idle EXCEPT !.stage = "pin"] \in TaskRecords({})
        /\ ~Idle.asked /\ ~Failed.asked /\ ~Asking.asked
        /\ ~[Idle EXCEPT !.stage = "pin"].asked
        /\ \A S, r : r \in TaskRecords({}) => r \in TaskRecords(S)
    BY DEF Idle, Failed, Asking, TaskRecords, Stages
  <1>1. CASE UNCHANGED dirVars
    BY <1>1 DEF dirVars, relayVars, refreshVars
  <1>2. ASSUME NEW e \in Ids, RelayPublishes(e)
        PROVE  DirTypeOK' /\ AskedInQuery'
    BY <1>2 DEF RelayPublishes, refreshVars
  <1>3. ASSUME NEW e \in Ids, LiveEvent(e)
        PROVE  DirTypeOK' /\ AskedInQuery'
    BY <1>3 DEF LiveEvent, refreshVars
  <1>4. CASE Notified
    BY <1>4 DEF Notified, relayVars, refreshVars
  <1>5. CASE SpawnRefresh
    BY <1>0, <1>5 DEF SpawnRefresh, relayVars, TaskRecords, Tasks
  <1>6. ASSUME NEW t \in Spawned, Connect(t) \/ DmCommand(t)
        PROVE  DirTypeOK' /\ AskedInQuery'
    BY <1>0, <1>6 DEF Connect, DmCommand, Ended, relayVars, TaskRecords, Tasks
  <1>7. ASSUME NEW t \in Tasks, RefreshStep(t)
        PROVE  DirTypeOK' /\ AskedInQuery'
    <2>1. CASE Pin(t)
      BY <1>0, <1>7, <2>1 DEF Pin, StoreIsFree, relayVars, TaskRecords
    <2>2. CASE Ask(t)
      <3>1. Answer(task[t].stage) \subseteq published
        BY <1>7, <2>2, AnswerType DEF Ask
      <3>2. {Event[e].channel : e \in Joined} \subseteq Channels
        BY EventType DEF Joined, Standing
      <3> DEFINE row == [stage |-> task[t].stage, asked |-> TRUE,
                         batch |-> Answer(task[t].stage),
                         told |-> IF task[t].stage = "members"
                                  THEN {Event[e].channel : e \in Joined}
                                  ELSE task[t].told]
      <3>3. row \in TaskRecords(published) /\ row.asked /\ row.stage \in Queries
        BY <1>7, <2>2, <3>1, <3>2 DEF Ask, TaskRecords
      <3>4. task' = [task EXCEPT ![t] = row]
        BY <2>2 DEF Ask
      <3> HIDE DEF row
      <3>5. task' \in [Tasks -> TaskRecords(published)]
        BY <3>3, <3>4 DEF TaskRecords
      <3>6. \A u \in Tasks : task'[u] = IF u = t THEN row ELSE task[u]
        BY <3>4
      <3>7. UNCHANGED <<published, live, due, writer>>
        BY <2>2 DEF Ask, relayVars
      <3> QED
        BY <3>3, <3>5, <3>6, <3>7 DEF TaskRecords
    <2>3. CASE AskFails(t)
      BY <1>0, <1>7, <2>3 DEF AskFails, relayVars, TaskRecords
    <2>4. ASSUME NEW e \in task[t].batch, StoreOne(t, e) \/ StoreRefused(t, e)
          PROVE  DirTypeOK' /\ AskedInQuery'
      BY <1>0, <1>7, <2>4, TasksAssumption
         DEF StoreOne, StoreRefused, relayVars, TaskRecords
    <2>5. CASE StoreDone(t)
      <3>1. task[t].stage \in Queries /\ (task[t].stage # "visibility" =>
                                            After(task[t].stage) \in Stages)
        BY <1>7, <2>5 DEF StoreDone, Queries, After, Stages
      <3> DEFINE row == IF task[t].stage = "visibility" THEN Idle
                        ELSE [task[t] EXCEPT !.stage = After(task[t].stage),
                                             !.asked = FALSE]
      <3>2. row \in TaskRecords(published) /\ ~row.asked
        BY <1>0, <1>7, <3>1 DEF TaskRecords
      <3>3. task' = [task EXCEPT ![t] = row]
        BY <2>5 DEF StoreDone
      <3> HIDE DEF row
      <3>4. task' \in [Tasks -> TaskRecords(published)]
        BY <3>2, <3>3 DEF TaskRecords
      <3>5. \A u \in Tasks : task'[u] = IF u = t THEN row ELSE task[u]
        BY <3>3
      <3>6. UNCHANGED <<published, live, due>> /\ writer' = Nobody
        BY <2>5 DEF StoreDone, relayVars
      <3> QED
        BY <3>2, <3>4, <3>5, <3>6, TasksAssumption DEF TaskRecords
    <2>6. CASE ReconcileSelfMemberships(t)
      BY <1>0, <1>7, <2>6 DEF ReconcileSelfMemberships, StoreIsFree, relayVars,
                              TaskRecords, Stages, Idle
    <2> QED
      BY <1>7, <2>1, <2>2, <2>3, <2>4, <2>5, <2>6 DEF RefreshStep
  <1> QED
    BY <1>1, <1>2, <1>3, <1>4, <1>5, <1>6, <1>7 DEF DirNext

\* The refreshes keep their types, however many overlap: a batch holds only
\* what the relay has signed, and the store's thread is never left in the
\* middle of the batch of a task that has ended or was aborted.
THEOREM DirectoryTypeCorrect == DirSpec => []DirTypeOK
  <1>1. DirTypeOK /\ AskedInQuery /\ [DirNext]_dirVars => (DirTypeOK /\ AskedInQuery)'
    BY DirTypeStep
  <1> QED
    BY DirTypeInit, <1>1, PTL DEF DirSpec

-----------------------------------------------------------------------------
StoreInv == TypeOK /\ DeletionInv /\ HeadInv /\ RowsInv

\* Live events and overlapping refreshes, aborted, failed or refused, leave
\* the store as the set of its events says: the order in which they reach
\* it, and the column that refreshes overwrite, touch nothing else.
THEOREM DirectoryKeepsStore ==
    DirSpec => [](TypeOK /\ DeletedIffAuthorised /\ CopiesAgree /\ HeadsStand /\ MembershipSound)
  <1>1. DirInit => StoreInv
    BY TypeInit, DeletionInit, HeadInit, RowsInit DEF DirInit, StoreInv
  <1>2. DirTypeOK /\ StoreInv /\ [DirNext]_dirVars => StoreInv'
    BY StoreSteps, FlagsStep, TypeStep, DeletionStepInv, HeadStepInv, RowsStepInv
       DEF StoreInv
  <1>3. StoreInv =>
          TypeOK /\ DeletedIffAuthorised /\ CopiesAgree /\ HeadsStand /\ MembershipSound
    BY HeadsFollow, RowsFollow DEF StoreInv, DeletionInv, CopiesAgree
  <1> QED
    BY <1>1, <1>2, <1>3, DirectoryTypeCorrect, PTL DEF DirSpec

-----------------------------------------------------------------------------
(* What is published and wanted reaches the store.  An event that stands at *)
(* the relay and is not stored is refused, or on its way: in a              *)
(* subscription, in the answer that a refresh holds, or still to be asked   *)
(* for by one that has begun, failed or is due.                             *)

Wanted(e) ==
  \/ e \in Standing("members", Event[e].channel) /\ Lists(e, Self)
  \/ e \in Standing("channel", Event[e].channel)

\* The refresh has failed, has still to ask for the event, or has it in hand.
PursuedBy(t, e) ==
  \/ task[t].stage \in {"failed", "pin"}
  \/ task[t].stage = "members" /\ ~task[t].asked
  \/ task[t].asked /\ e \in task[t].batch
  \/ /\ Kind(e) = "channel"
     /\ \/ task[t].stage \in {"members", "joined"}
        \/ task[t].stage = "channels" /\ ~task[t].asked

Pursued(e) == due \/ e \in live \/ \E t \in Tasks : PursuedBy(t, e)

NothingForgotten ==
  \A e \in Ids : Wanted(e) /\ e \notin stored /\ ~Refused(e) => Pursued(e)

BatchesAreAnswers ==
  \A t \in Tasks : task[t].asked =>
    \A e \in task[t].batch : Kind(e) = "members" => task[t].stage = "members"

StoredWasPublished == \A e \in stored : Kind(e) \in RelayKinds => e \in published
DmHasHead == \A c \in Channels : channel[c].dm => channel[c].head # None

LEMMA StandingStays ==
    ASSUME NEW kind, NEW c, NEW e \in published, published \subseteq published',
           e \in Standing(kind, c)'
    PROVE  e \in Standing(kind, c)
  BY DEF Standing

\* apply_event stores the event or changes nothing, and only a membership
\* snapshot that it takes moves the rows.
LEMMA ApplyEffect ==
    ASSUME TypeOK, NEW p \in Ids, Apply(p)
    PROVE  /\ pinned' = pinned /\ stored \subseteq stored' /\ stored' \subseteq stored \cup {p}
           /\ rows' = rows \/ (Kind(p) = "members" /\ p \notin stored /\ ~Refused(p))
           /\ p \in stored' \/ (Refused(p) /\ UNCHANGED storeVars)
  <1>1. CASE Ignore(p)
    BY <1>1 DEF Ignore, storeVars, directory
  <1>2. CASE Insert(p) /\ Kind(p) \in DeletionKinds
    BY <1>2, DeletionStep DEF InsertDeletion, directory
  <1>3. CASE Insert(p) /\ Kind(p) \notin DeletionKinds
    <2>1. p \notin stored /\ ~Refused(p) /\ stored' = stored \cup {p} /\ pinned' = pinned
      BY <1>3, AdmitStep
    <2>2. rows' = rows \/ Kind(p) = "members"
      BY <1>3 DEF Insert, InsertMessage, InsertReaction, InsertDeletion, InsertProfile, InsertChannel,
         InsertMembers, InsertVisibility, Admit, directory, visibility
    <2> QED
      BY <2>1, <2>2
  <1> QED
    BY <1>1, <1>2, <1>3 DEF Apply

\* A direct message stays one in the table of channels too.
LEMMA DmsGrow ==
    ASSUME DmsStay, TypeOK, HeadInv, RowsInv, DmHasHead, [Next]_storeVars
    PROVE  DmHasHead' /\ \A c \in Channels : channel[c].dm => channel'[c].dm
  <1>1. CASE UNCHANGED storeVars \/ PinRelay
    BY <1>1 DEF storeVars, directory, PinRelay, DmHasHead
  <1>2. ASSUME NEW e \in Ids, Insert(e), NEW c \in Channels
        PROVE  /\ channel[c].dm => channel'[c].dm
               /\ channel'[c].dm => channel'[c].head # None
    <2>1. CASE InsertMessage(e)
      BY <2>1 DEF InsertMessage, TypeOK, DmHasHead
    <2>2. CASE InsertReaction(e) \/ InsertDeletion(e) \/ InsertProfile(e) \/ InsertVisibility(e)
      BY <2>2 DEF InsertReaction, InsertDeletion, InsertProfile, InsertVisibility, directory, DmHasHead
    <2>3. CASE InsertMembers(e)
      BY <2>3, MembersRow DEF DmHasHead
    <2>4. CASE InsertChannel(e)
      <3>1. channel'[c] = channel[c]
              \/ /\ c = Event[e].channel /\ Greater(e, channel[c].head)
                 /\ channel'[c].head = e /\ channel'[c].dm = Event[e].dm
        BY <2>4 DEF InsertChannel, TypeOK
      <3>2. ASSUME channel[c].dm, Greater(e, channel[c].head), c = Event[e].channel PROVE Event[e].dm
        <4>1. channel[c].head # None
          BY <3>2 DEF DmHasHead
        <4>2. channel[c].dm = Event[channel[c].head].dm
          BY <4>1 DEF RowsInv, RowsOf
        <4>3. channel[c].head \in On(c, "channel")
          BY <4>1 DEF HeadInv, IsFinal
        <4>4. /\ channel[c].head \in Ids /\ Kind(channel[c].head) = "channel"
              /\ Event[channel[c].head].channel = c
          BY <4>3 DEF On, OfKind, TypeOK
        <4>5. Kind(e) = "channel"
          BY <2>4 DEF InsertChannel, Admit
        <4> QED
          BY <3>2, <4>2, <4>4, <4>5 DEF DmsStay
      <3> QED
        BY <3>1, <3>2, EventType DEF DmHasHead
    <2> QED
      BY <1>2, <2>1, <2>2, <2>3, <2>4 DEF Insert
  <1> QED
    BY <1>1, <1>2, Steps DEF DmHasHead

\* What was refused stays refused, unless the members of its channel change.
LEMMA RefusalStays ==
    ASSUME NEW e \in Ids, pinned' = pinned, e \notin stored', stored \subseteq stored',
           \A c \in Channels : channel[c].dm => channel'[c].dm,
           Kind(e) = "members" \/ (Kind(e) = "channel" /\ rows' = rows),
           ~Refused(e)'
    PROVE  ~Refused(e)
  BY EventType DEF Refused, BreaksDm

\* What a step keeps of a pursuit, when it touches neither the tables nor what
\* the relay has signed.
LEMMA PursuitStays ==
    ASSUME NEW e \in Ids, Wanted(e)', e \notin stored', ~Refused(e)', NothingForgotten,
           UNCHANGED <<stored, published>>, Refused(e)' = Refused(e),
           Pursued(e) => Pursued(e)'
    PROVE  Pursued(e)'
  <1>1. Wanted(e)
    BY DEF Wanted, Standing
  <1> QED
    BY <1>1 DEF NothingForgotten

LEMMA WantedKinds ==
    ASSUME NEW e, Wanted(e)
    PROVE  /\ e \in published
           /\ Kind(e) = "members" \/ Kind(e) = "channel"
           /\ Kind(e) = "members" => e \in Standing("members", Event[e].channel) /\ Lists(e, Self)
           /\ Kind(e) = "channel" => e \in Standing("channel", Event[e].channel)
  BY DEF Wanted, Standing

\* A wanted event is in the answer to the query for its kind.
LEMMA WantedIsAnswered ==
    ASSUME NEW e \in Ids, Wanted(e)
    PROVE  /\ Kind(e) = "members" => e \in Answer("members")
           /\ Kind(e) = "channel" => e \in Answer("channels")
  BY WantedKinds, EventType DEF Answer, Joined

LEMMA ForgottenPublish ==
    ASSUME NothingForgotten, DirTypeOK, NEW p \in Ids, RelayPublishes(p)
    PROVE  NothingForgotten'
  <1> SUFFICES ASSUME NEW e \in Ids, Wanted(e)', e \notin stored', ~Refused(e)'
               PROVE  Pursued(e)'
    BY DEF NothingForgotten
  <1>1. /\ stored' = stored /\ ~Refused(e) /\ live' = live \cup {p} /\ due' = due
        /\ task' = task /\ published' = published \cup {p}
    BY DEF RelayPublishes, storeVars, directory, refreshVars, Refused, BreaksDm
  <1>2. CASE e = p
    BY <1>1, <1>2 DEF Pursued
  <1>3. CASE e # p
    <2>1. e \in published
      BY <1>1, <1>3 DEF Wanted, Standing
    <2>2. Wanted(e)
      BY <1>1, <2>1, StandingStays DEF Wanted
    <2>3. Pursued(e)
      BY <1>1, <2>2 DEF NothingForgotten
    <2> QED
      BY <1>1, <2>3 DEF Pursued, PursuedBy
  <1> QED
    BY <1>2, <1>3

LEMMA ForgottenApply ==
    ASSUME DmsStay, TypeOK, HeadInv, RowsInv, DmHasHead, NothingForgotten,
           NEW p \in Ids, Apply(p), published' = published,
           NEW e \in Ids, Wanted(e)', e \notin stored', ~Refused(e)'
    PROVE  /\ e # p
           /\ Pursued(e) \/ (/\ Kind(e) = "channel" /\ Kind(p) = "members"
                             /\ p \notin stored /\ ~Refused(p))
  <1>1. /\ pinned' = pinned /\ stored \subseteq stored'
        /\ rows' = rows \/ (Kind(p) = "members" /\ p \notin stored /\ ~Refused(p))
        /\ p \in stored' \/ (Refused(p) /\ UNCHANGED storeVars)
    BY ApplyEffect
  <1>2. Wanted(e) /\ (Kind(e) = "members" \/ Kind(e) = "channel")
    BY WantedKinds DEF Wanted, Standing
  <1>3. [Next]_storeVars
    BY DEF Next
  <1>4. \A c \in Channels : channel[c].dm => channel'[c].dm
    BY <1>3, DmsGrow
  <1>5. UNCHANGED storeVars => Refused(p)' = Refused(p)
    BY DEF storeVars, directory, Refused, BreaksDm
  <1>6. e # p
    BY <1>1, <1>5
  <1>7. Kind(e) = "members" \/ rows' = rows => ~Refused(e)
    BY <1>1, <1>2, <1>4, RefusalStays
  <1> QED
    BY <1>1, <1>2, <1>6, <1>7 DEF NothingForgotten

LEMMA ForgottenLive ==
    ASSUME DmsStay, TypeOK, HeadInv, RowsInv, DmHasHead, NothingForgotten,
           NEW p \in Ids, LiveEvent(p)
    PROVE  NothingForgotten'
  <1> SUFFICES ASSUME NEW e \in Ids, Wanted(e)', e \notin stored', ~Refused(e)'
               PROVE  Pursued(e)'
    BY DEF NothingForgotten
  <1>1. /\ Apply(p) /\ published' = published /\ task' = task /\ live' = live \ {p} /\ ~due
        /\ due' = (Kind(p) = "members" /\ p \notin stored /\ ~Refused(p))
    BY DEF LiveEvent, refreshVars
  <1>2. /\ e # p
        /\ Pursued(e) \/ (/\ Kind(e) = "channel" /\ Kind(p) = "members"
                          /\ p \notin stored /\ ~Refused(p))
    BY <1>1, ForgottenApply
  <1> QED
    BY <1>1, <1>2 DEF Pursued, PursuedBy

\* These start the pursuit of everything over again, or admit to have failed.
LEMMA ForgottenAnew ==
    ASSUME DirTypeOK,
           \/ Notified \/ SpawnRefresh
           \/ \E t \in Tasks :
                \/ t \in Spawned /\ (Connect(t) \/ DmCommand(t))
                \/ Pin(t) \/ AskFails(t)
                \/ \E e \in task[t].batch : StoreRefused(t, e)
    PROVE  NothingForgotten'
  <1>1. CASE Notified
    BY <1>1 DEF Notified, NothingForgotten, Pursued
  <1>2. ASSUME NEW t \in Tasks,
               \/ task' = [task EXCEPT ![t] = Asking]
               \/ task' = [task EXCEPT ![t] = Failed]
               \/ task' = [task EXCEPT ![t] = [Idle EXCEPT !.stage = "pin"]]
        PROVE  NothingForgotten'
    <2>1. \/ task'[t].stage \in {"failed", "pin"}
          \/ task'[t].stage = "members" /\ ~task'[t].asked
      BY <1>2 DEF DirTypeOK, Asking, Failed, Idle
    <2> QED
      BY <2>1 DEF NothingForgotten, Pursued, PursuedBy
  <1> QED
    BY <1>1, <1>2 DEF SpawnRefresh, Connect, DmCommand, Pin, AskFails, StoreRefused, Tasks

LEMMA ForgottenAsk ==
    ASSUME DirTypeOK, NothingForgotten, NEW t \in Tasks, Ask(t)
    PROVE  NothingForgotten'
  <1> SUFFICES ASSUME NEW e \in Ids, Wanted(e)', e \notin stored', ~Refused(e)'
               PROVE  Pursued(e)'
    BY DEF NothingForgotten
  <1>1. /\ UNCHANGED <<stored, published, live, due>> /\ Refused(e)' = Refused(e)
        /\ task[t].stage \in Queries /\ ~task[t].asked
    BY DEF Ask, storeVars, directory, relayVars, Refused, BreaksDm
  <1>2. \A u \in Tasks \ {t} : task'[u] = task[u]
    BY DEF Ask, DirTypeOK
  <1>3. task'[t].stage = task[t].stage /\ task'[t].asked /\ task'[t].batch = Answer(task[t].stage)
    BY DEF Ask, DirTypeOK
  <1>4. Wanted(e)
    BY <1>1 DEF Wanted, Standing
  <1>5. PursuedBy(t, e) => PursuedBy(t, e)'
    BY <1>1, <1>3, <1>4, WantedKinds, WantedIsAnswered DEF PursuedBy, Queries
  <1>6. Pursued(e)
    BY <1>1, <1>4 DEF NothingForgotten
  <1> QED
    BY <1>1, <1>2, <1>5, <1>6 DEF Pursued, PursuedBy

LEMMA ForgottenStore ==
    ASSUME DmsStay, TypeOK, HeadInv, RowsInv, DmHasHead, DirTypeOK, BatchesAreAnswers,
           NothingForgotten, NEW t \in Tasks, NEW p \in task[t].batch, StoreOne(t, p)
    PROVE  NothingForgotten'
  <1> SUFFICES ASSUME NEW e \in Ids, Wanted(e)', e \notin stored', ~Refused(e)'
               PROVE  Pursued(e)'
    BY DEF NothingForgotten
  <1>1. /\ Apply(p) /\ UNCHANGED <<published, live, due>> /\ task[t].asked
        /\ task' = [task EXCEPT ![t].batch = @ \ {p}]
    BY DEF StoreOne, relayVars
  <1>2. p \in Ids
    BY DEF DirTypeOK
  <1>3. /\ e # p
        /\ Pursued(e) \/ (Kind(e) = "channel" /\ Kind(p) = "members")
    BY <1>1, <1>2, ForgottenApply
  <1>4. /\ \A u \in Tasks : task'[u].stage = task[u].stage /\ task'[u].asked = task[u].asked
        /\ \A u \in Tasks : task[u].batch \ {p} \subseteq task'[u].batch
    BY <1>1 DEF DirTypeOK
  <1>5. Kind(p) = "members" => task[t].stage = "members"
    BY <1>1 DEF BatchesAreAnswers
  <1>6. CASE Pursued(e)
    BY <1>1, <1>3, <1>4, <1>6 DEF Pursued, PursuedBy
  <1>7. CASE Kind(e) = "channel" /\ Kind(p) = "members"
    <2>1. PursuedBy(t, e)'
      BY <1>4, <1>5, <1>7 DEF PursuedBy
    <2> QED
      BY <2>1 DEF Pursued
  <1> QED
    BY <1>3, <1>6, <1>7

LEMMA ForgottenDone ==
    ASSUME DirTypeOK, AskedInQuery, NothingForgotten, NEW t \in Tasks, StoreDone(t)
    PROVE  NothingForgotten'
  <1> SUFFICES ASSUME NEW e \in Ids, Wanted(e)', e \notin stored', ~Refused(e)'
               PROVE  Pursued(e)'
    BY DEF NothingForgotten
  <1>1. /\ UNCHANGED <<stored, published, live, due>> /\ Refused(e)' = Refused(e)
        /\ task[t].stage \in Queries /\ task[t].asked /\ task[t].batch = {}
    BY DEF StoreDone, storeVars, directory, relayVars, Refused, BreaksDm, AskedInQuery
  <1>2. \A u \in Tasks \ {t} : task'[u] = task[u]
    BY DEF StoreDone, DirTypeOK
  <1>3. task[t].stage = "members" => task'[t].stage = "joined"
    BY DEF StoreDone, DirTypeOK, After
  <1>4. PursuedBy(t, e) => PursuedBy(t, e)'
    BY <1>1, <1>3 DEF PursuedBy, Queries
  <1>5. Pursued(e) => Pursued(e)'
    BY <1>1, <1>2, <1>4 DEF Pursued, PursuedBy
  <1> QED
    BY <1>1, <1>5, PursuitStays

LEMMA ForgottenReconcile ==
    ASSUME TypeOK, DirTypeOK, NothingForgotten, AskedInQuery,
           NEW t \in Tasks, ReconcileSelfMemberships(t)
    PROVE  NothingForgotten'
  <1> SUFFICES ASSUME NEW e \in Ids, Wanted(e)', e \notin stored', ~Refused(e)'
               PROVE  Pursued(e)'
    BY DEF NothingForgotten
  <1>1. /\ UNCHANGED <<stored, published, live, due, pinned, rows>>
        /\ task[t].stage = "joined" /\ ~task[t].asked
    BY DEF ReconcileSelfMemberships, relayVars, AskedInQuery, Queries
  <1>2. \A u \in Tasks \ {t} : task'[u] = task[u]
    BY DEF ReconcileSelfMemberships, DirTypeOK
  <1>3. task'[t].stage = "channels" /\ ~task'[t].asked
    BY DEF ReconcileSelfMemberships, DirTypeOK, Idle
  <1>4. \A c \in Channels : channel'[c].dm = channel[c].dm
    BY DEF ReconcileSelfMemberships, TypeOK
  <1>5. Refused(e)' = Refused(e)
    BY <1>1, <1>4, EventType DEF Refused, BreaksDm
  <1>6. PursuedBy(t, e) => PursuedBy(t, e)'
    BY <1>1, <1>3 DEF PursuedBy
  <1>7. Pursued(e) => Pursued(e)'
    BY <1>1, <1>2, <1>6 DEF Pursued, PursuedBy
  <1> QED
    BY <1>1, <1>5, <1>7, PursuitStays

LEMMA ForgottenStep ==
    ASSUME DmsStay, TypeOK, HeadInv, RowsInv, DmHasHead, DirTypeOK, AskedInQuery,
           BatchesAreAnswers, NothingForgotten, [DirNext]_dirVars
    PROVE  NothingForgotten'
  <1>1. CASE UNCHANGED dirVars
    <2>1. UNCHANGED <<stored, published, live, due, task, pinned, channel, rows>>
      BY <1>1 DEF dirVars, storeVars, directory, relayVars, refreshVars
    <2>2. ASSUME NEW e \in Ids PROVE Refused(e)' = Refused(e) /\ (Pursued(e) => Pursued(e)')
      BY <2>1 DEF Refused, BreaksDm, Pursued, PursuedBy
    <2> QED
      BY <2>1, <2>2, PursuitStays DEF NothingForgotten
  <1>2. ASSUME NEW e \in Ids, RelayPublishes(e) \/ LiveEvent(e)
        PROVE  NothingForgotten'
    BY <1>2, ForgottenPublish, ForgottenLive
  <1>3. CASE Notified \/ SpawnRefresh
    BY <1>3, ForgottenAnew
  <1>4. ASSUME NEW t \in Spawned, Connect(t) \/ DmCommand(t)
        PROVE  NothingForgotten'
    <2>1. t \in Tasks
      BY DEF Tasks
    <2> QED
      BY <1>4, <2>1, ForgottenAnew
  <1>5. ASSUME NEW t \in Tasks, RefreshStep(t)
        PROVE  NothingForgotten'
    <2>1. CASE Pin(t) \/ AskFails(t)
      BY <2>1, ForgottenAnew
    <2>2. ASSUME NEW e \in task[t].batch, StoreRefused(t, e) PROVE NothingForgotten'
      BY <2>2, ForgottenAnew
    <2>3. ASSUME NEW e \in task[t].batch, StoreOne(t, e) PROVE NothingForgotten'
      BY <2>3, ForgottenStore
    <2>4. CASE Ask(t) \/ StoreDone(t) \/ ReconcileSelfMemberships(t)
      BY <2>4, ForgottenAsk, ForgottenDone, ForgottenReconcile
    <2> QED
      BY <1>5, <2>1, <2>2, <2>3, <2>4 DEF RefreshStep
  <1> QED
    BY <1>1, <1>2, <1>3, <1>4, <1>5 DEF DirNext

-----------------------------------------------------------------------------
LEMMA BatchesStep ==
    ASSUME DirTypeOK, AskedInQuery, BatchesAreAnswers, [DirNext]_dirVars
    PROVE  BatchesAreAnswers'
  <1>1. CASE UNCHANGED task
    BY <1>1 DEF BatchesAreAnswers
  <1>2. ASSUME NEW t \in Tasks, NEW r, task' = [task EXCEPT ![t] = r],
               r.asked => \A e \in r.batch : Kind(e) = "members" => r.stage = "members"
        PROVE  BatchesAreAnswers'
    BY <1>2 DEF BatchesAreAnswers, DirTypeOK
  <1>3. ~Idle.asked /\ ~Failed.asked /\ ~Asking.asked /\ ~[Idle EXCEPT !.stage = "pin"].asked
        /\ ~[Idle EXCEPT !.stage = "channels"].asked
    BY DEF Idle, Failed, Asking
  <1>4. ASSUME NEW t \in Tasks, Ask(t) PROVE BatchesAreAnswers'
    <2>1. \A e \in Answer(task[t].stage) : Kind(e) = "members" => task[t].stage = "members"
      BY <1>4 DEF Ask, Queries, Answer, Standing
    <2> DEFINE row == [stage |-> task[t].stage, asked |-> TRUE, batch |-> Answer(task[t].stage),
                       told |-> IF task[t].stage = "members" THEN {Event[e].channel : e \in Joined}
                                ELSE task[t].told]
    <2>2. row.batch = Answer(task[t].stage) /\ row.stage = task[t].stage
      OBVIOUS
    <2>3. task' = [task EXCEPT ![t] = row]
      BY <1>4 DEF Ask
    <2> HIDE DEF row
    <2> QED
      BY <2>1, <2>2, <2>3, <1>2
  <1>5. ASSUME NEW t \in Tasks, NEW p \in task[t].batch, StoreOne(t, p)
        PROVE  BatchesAreAnswers'
    <2>1. \A u \in Tasks : /\ task'[u].stage = task[u].stage /\ task'[u].asked = task[u].asked
                           /\ task'[u].batch \subseteq task[u].batch
      BY <1>5 DEF StoreOne, DirTypeOK
    <2> QED
      BY <2>1 DEF BatchesAreAnswers
  <1>6. ASSUME NEW t \in Tasks, StoreDone(t) PROVE BatchesAreAnswers'
    <2> DEFINE row == IF task[t].stage = "visibility" THEN Idle
                      ELSE [task[t] EXCEPT !.stage = After(task[t].stage), !.asked = FALSE]
    <2>1. ~row.asked
      BY <1>3 DEF DirTypeOK
    <2>2. task' = [task EXCEPT ![t] = row]
      BY <1>6 DEF StoreDone
    <2> HIDE DEF row
    <2> QED
      BY <2>1, <2>2, <1>2
  <1>7. ASSUME NEW t \in Tasks,
               \/ task' = [task EXCEPT ![t] = Asking]
               \/ task' = [task EXCEPT ![t] = Failed]
               \/ task' = [task EXCEPT ![t] = [Idle EXCEPT !.stage = "pin"]]
               \/ task' = [task EXCEPT ![t] = [Idle EXCEPT !.stage = "channels"]]
        PROVE  BatchesAreAnswers'
    BY <1>2, <1>3, <1>7
  <1>8. ASSUME NEW t \in Tasks, RefreshStep(t) PROVE BatchesAreAnswers'
    BY <1>4, <1>5, <1>6, <1>7, <1>8 DEF RefreshStep, Pin, AskFails, StoreRefused,
                                        ReconcileSelfMemberships
  <1>9. ASSUME NEW e \in Ids, RelayPublishes(e) \/ LiveEvent(e) PROVE UNCHANGED task
    BY <1>9 DEF RelayPublishes, LiveEvent, refreshVars
  <1>10. CASE Notified \/ SpawnRefresh
    BY <1>1, <1>7, <1>10 DEF Notified, SpawnRefresh, refreshVars, Tasks
  <1>11. ASSUME NEW t \in Spawned, Connect(t) \/ DmCommand(t) PROVE BatchesAreAnswers'
    BY <1>7, <1>11 DEF Connect, DmCommand, Tasks
  <1>12. CASE UNCHANGED dirVars
    BY <1>1, <1>12 DEF dirVars, refreshVars
  <1> QED
    BY <1>1, <1>8, <1>9, <1>10, <1>11, <1>12 DEF DirNext

\* Only what the relay has signed reaches the store.
LEMMA PublishedStep ==
    ASSUME TypeOK, DirTypeOK, StoredWasPublished, [DirNext]_dirVars
    PROVE  StoredWasPublished'
  <1>1. CASE stored' = stored /\ published \subseteq published'
    BY <1>1 DEF StoredWasPublished
  <1>2. ASSUME NEW p \in published, Apply(p), published' = published
        PROVE  StoredWasPublished'
    <2>1. stored' \subseteq stored \cup {p}
      BY <1>2, ApplyEffect DEF DirTypeOK
    <2> QED
      BY <1>2, <2>1 DEF StoredWasPublished
  <1>3. ASSUME NEW e \in Ids, RelayPublishes(e) \/ LiveEvent(e) PROVE StoredWasPublished'
    BY <1>1, <1>2, <1>3 DEF RelayPublishes, LiveEvent, DirTypeOK, storeVars, directory
  <1>4. CASE Notified \/ SpawnRefresh
    BY <1>1, <1>4 DEF Notified, SpawnRefresh, storeVars, directory, relayVars
  <1>5. ASSUME NEW t \in Spawned, Connect(t) \/ DmCommand(t) PROVE StoredWasPublished'
    BY <1>1, <1>5 DEF Connect, DmCommand, storeVars, directory, relayVars
  <1>6. ASSUME NEW t \in Tasks, RefreshStep(t) PROVE StoredWasPublished'
    <2>1. CASE Pin(t) \/ Ask(t) \/ AskFails(t) \/ StoreDone(t) \/ ReconcileSelfMemberships(t)
      BY <1>1, <2>1 DEF Pin, PinRelay, Ask, AskFails, StoreDone, ReconcileSelfMemberships,
                        storeVars, directory, relayVars
    <2>2. ASSUME NEW p \in task[t].batch, StoreOne(t, p) \/ StoreRefused(t, p)
          PROVE  StoredWasPublished'
      <3>1. p \in published
        BY DEF DirTypeOK
      <3> QED
        BY <1>1, <1>2, <2>2, <3>1 DEF StoreOne, StoreRefused, storeVars, directory, relayVars
    <2> QED
      BY <1>6, <2>1, <2>2 DEF RefreshStep
  <1>7. CASE UNCHANGED dirVars
    BY <1>1, <1>7 DEF dirVars, storeVars, directory, relayVars
  <1> QED
    BY <1>3, <1>4, <1>5, <1>6, <1>7 DEF DirNext

LEMMA DmHasHeadStep ==
    ASSUME DmsStay, TypeOK, HeadInv, RowsInv, DirTypeOK, DmHasHead, [DirNext]_dirVars
    PROVE  DmHasHead'
  <1>1. ASSUME NEW t \in Tasks, OnlyFlags(t) PROVE DmHasHead'
    BY <1>1 DEF OnlyFlags, TypeOK, DmHasHead
  <1> QED
    BY <1>1, StoreSteps, DmsGrow

-----------------------------------------------------------------------------
(* A head that is stored and that no stored event beats is the one that the *)
(* relay serves, once the relay's is stored.                                *)

LEMMA StandsInStore ==
    ASSUME TypeOK, HeadInv, StoredWasPublished, NEW c \in Channels
    PROVE  /\ \A e \in Standing("members", c) : e \in stored => memberHead[c] = e
           /\ \A e \in Standing("channel", c) : e \in stored => channel[c].head = e
  <1>1. stored \subseteq Ids
    BY DEF TypeOK
  <1>2. ASSUME NEW kind \in {"members", "channel"}, NEW e \in Standing(kind, c), e \in stored
        PROVE  /\ e \in On(c, kind) /\ On(c, kind) \subseteq Ids
               /\ \A d \in On(c, kind) \ {e} :
                    ~(IF kind = "channel" THEN Greater(d, e) ELSE Newer(d, e))
    <2>1. ASSUME NEW d \in On(c, kind)
          PROVE  /\ d \in published /\ Kind(d) = kind /\ Event[d].channel = c /\ d \in Ids
      BY <1>1, <1>2, <2>1 DEF On, OfKind, StoredWasPublished, RelayKinds
    <2>2. e \in On(c, kind)
      BY <1>2 DEF Standing, On, OfKind
    <2> QED
      BY <2>1, <2>2 DEF Standing
  <1>3. ASSUME NEW e \in Standing("members", c), e \in stored PROVE memberHead[c] = e
    <2>1. /\ e \in On(c, "members") /\ On(c, "members") \subseteq Ids
          /\ \A d \in On(c, "members") \ {e} : ~Newer(d, e)
      BY <1>2, <1>3
    <2>2. /\ memberHead[c] \in On(c, "members")
          /\ \A d \in On(c, "members") : At(d) < At(memberHead[c])
                \/ (At(d) = At(memberHead[c]) /\ memberHead[c] <= d)
      BY <2>1 DEF HeadInv, IsKept
    <2> QED
      BY <2>1, <2>2, Numbered DEF Newer
  <1>4. ASSUME NEW e \in Standing("channel", c), e \in stored PROVE channel[c].head = e
    <2>1. /\ e \in On(c, "channel") /\ On(c, "channel") \subseteq Ids
          /\ \A d \in On(c, "channel") \ {e} : ~Greater(d, e)
      BY <1>2, <1>4
    <2>2. /\ channel[c].head \in On(c, "channel")
          /\ \A d \in On(c, "channel") : At(d) < At(channel[c].head)
                \/ (At(d) = At(channel[c].head) /\ d <= channel[c].head)
      BY <2>1 DEF HeadInv, IsFinal
    <2> QED
      BY <2>1, <2>2, Numbered DEF Greater
  <1> QED
    BY <1>3, <1>4

LEMMA QuietIsDone ==
    ASSUME Quiet, NEW e
    PROVE  ~Pursued(e)
  BY DEF Quiet, Pursued, PursuedBy, Idle

LEMMA WhenQuiet ==
    ASSUME TypeOK, DirTypeOK, HeadInv, StoredWasPublished, NothingForgotten
    PROVE  HeadsFollowRelay
  <1> SUFFICES ASSUME Quiet, NEW c \in Channels
               PROVE  /\ \A e \in Standing("members", c) :
                           Lists(e, Self) /\ ~Refused(e) => memberHead[c] = e
                      /\ \A e \in Standing("channel", c) : ~Refused(e) => channel[c].head = e
    BY DEF HeadsFollowRelay
  <1>1. ASSUME NEW e \in Ids, Wanted(e), ~Refused(e) PROVE e \in stored
    BY <1>1, QuietIsDone DEF NothingForgotten
  <1>2. ASSUME NEW kind, NEW e \in Standing(kind, c)
        PROVE  e \in Ids /\ Event[e].channel = c
    BY <1>2 DEF Standing, DirTypeOK
  <1>3. ASSUME NEW e \in Standing("members", c), Lists(e, Self), ~Refused(e)
        PROVE  memberHead[c] = e
    <2>1. Wanted(e) /\ e \in Ids
      BY <1>2, <1>3 DEF Wanted
    <2> QED
      BY <1>1, <1>3, <2>1, StandsInStore
  <1>4. ASSUME NEW e \in Standing("channel", c), ~Refused(e) PROVE channel[c].head = e
    <2>1. Wanted(e) /\ e \in Ids
      BY <1>2, <1>4 DEF Wanted
    <2> QED
      BY <1>1, <1>4, <2>1, StandsInStore
  <1> QED
    BY <1>3, <1>4

\* Once nothing is under way and no refresh has failed, the store has the
\* heads that the relay serves: what a lost connection, a refusal before the
\* key was pinned, a refusal because of a direct message's size, or an order
\* of arrival kept from the store was asked for again and stored.
THEOREM HeadsFollowCorrect ==
    ASSUME DmsStay
    PROVE  DirSpec => []HeadsFollowRelay
  <1> DEFINE Owed == DmHasHead /\ BatchesAreAnswers /\ StoredWasPublished /\ NothingForgotten
             Known == DirTypeOK /\ AskedInQuery /\ StoreInv /\ Owed
  <1>1. DirInit => Known
    <2>1. DirInit => StoreInv /\ DirTypeOK /\ AskedInQuery
      BY TypeInit, DeletionInit, HeadInit, RowsInit, DirTypeInit DEF DirInit, StoreInv
    <2>2. DirInit => Owed
      BY DEF DirInit, Init, NoRow, Idle, DmHasHead, BatchesAreAnswers, StoredWasPublished,
             NothingForgotten, Wanted, Standing
    <2> QED
      BY <2>1, <2>2
  <1>2. Known /\ [DirNext]_dirVars => Known'
    <2> SUFFICES ASSUME Known, [DirNext]_dirVars PROVE Known'
      OBVIOUS
    <2>1. DirTypeOK' /\ AskedInQuery'
      BY DirTypeStep
    <2>2. StoreInv'
      BY StoreSteps, FlagsStep, TypeStep, DeletionStepInv, HeadStepInv, RowsStepInv
         DEF StoreInv
    <2>3. DmHasHead' /\ BatchesAreAnswers' /\ StoredWasPublished'
      BY DmHasHeadStep, BatchesStep, PublishedStep DEF StoreInv
    <2>4. NothingForgotten'
      BY ForgottenStep DEF StoreInv
    <2> QED
      BY <2>1, <2>2, <2>3, <2>4
  <1>3. Known => HeadsFollowRelay
    BY WhenQuiet DEF StoreInv
  <1> QED
    BY <1>1, <1>2, <1>3, PTL DEF DirSpec

-----------------------------------------------------------------------------
(* Direct messages.  What a command confirms was asked for and is in the   *)
(* store; conversations are never taken away, so it is so when it opens.   *)

Fields == {"op", "want", "phase", "at", "tries", "failed"}

OrdersTyped ==
  \E k \in Nat : /\ orders = [n \in 1..k |-> orders[n]]
                 /\ \A n \in 1..k : orders[n] = [f \in Fields |-> orders[n][f]]

ConfirmedInv ==
  /\ dms \subseteq relayDms
  /\ \A c \in DOMAIN orders : orders[c].phase = "visible" =>
       orders[c].at = orders[c].want /\ orders[c].at \in dms
  /\ OpenedIsExact

LEMMA OrderChanges ==
    ASSUME OrdersTyped, NEW c \in DOMAIN orders, NEW r, r = [f \in Fields |-> r[f]],
           orders' = [orders EXCEPT ![c] = r]
    PROVE  /\ OrdersTyped' /\ DOMAIN orders' = DOMAIN orders
           /\ orders'[c] = r /\ \A d \in DOMAIN orders \ {c} : orders'[d] = orders[d]
  <1>1. PICK k \in Nat : /\ orders = [n \in 1..k |-> orders[n]]
                         /\ \A n \in 1..k : orders[n] = [f \in Fields |-> orders[n][f]]
    BY DEF OrdersTyped
  <1>2. \A d \in 1..k : orders'[d] = IF d = c THEN r ELSE orders[d]
    BY <1>1
  <1>3. orders' = [n \in 1..k |-> orders'[n]]
    BY <1>1
  <1>4. ASSUME NEW d \in 1..k PROVE orders'[d] = [f \in Fields |-> orders'[d][f]]
    <2>1. CASE d = c
      BY <1>2, <2>1
    <2>2. CASE d # c
      BY <1>1, <1>2, <2>2
    <2> QED
      BY <2>1, <2>2
  <1>5. OrdersTyped'
    BY <1>3, <1>4 DEF OrdersTyped
  <1>6. DOMAIN orders = 1..k /\ DOMAIN orders' = 1..k
    BY <1>1, <1>3
  <1> QED
    BY <1>2, <1>5, <1>6

\* The fields that a step of a command's task writes.
LEMMA OrderPhase ==
    ASSUME OrdersTyped, NEW c \in DOMAIN orders, NEW ph,
           orders' = [orders EXCEPT ![c].phase = ph]
    PROVE  /\ OrdersTyped' /\ DOMAIN orders' = DOMAIN orders
           /\ orders'[c].phase = ph /\ orders'[c].at = orders[c].at /\ orders'[c].want = orders[c].want
           /\ \A d \in DOMAIN orders \ {c} : orders'[d] = orders[d]
  <1>1. orders[c] = [g \in Fields |-> orders[c][g]]
    BY DEF OrdersTyped
  <1> DEFINE r == [orders[c] EXCEPT !.phase = ph]
  <1>2. /\ r = [g \in Fields |-> r[g]] /\ r.phase = ph /\ r.at = orders[c].at
        /\ r.want = orders[c].want
    BY <1>1 DEF Fields
  <1>3. orders' = [orders EXCEPT ![c] = r]
    OBVIOUS
  <1> HIDE DEF r
  <1> QED
    BY <1>2, <1>3, OrderChanges

LEMMA OrderStep ==
    ASSUME OrdersTyped, NEW c \in DOMAIN orders, NEW ph, NEW a, NEW f,
           orders' = [orders EXCEPT ![c].phase = ph, ![c].at = a, ![c].failed = f]
    PROVE  /\ OrdersTyped' /\ DOMAIN orders' = DOMAIN orders
           /\ orders'[c].phase = ph /\ orders'[c].at = a /\ orders'[c].want = orders[c].want
           /\ \A d \in DOMAIN orders \ {c} : orders'[d] = orders[d]
  <1>1. orders[c] = [g \in Fields |-> orders[c][g]]
    BY DEF OrdersTyped
  <1> DEFINE r == [orders[c] EXCEPT !.phase = ph, !.at = a, !.failed = f]
  <1>2. /\ r = [g \in Fields |-> r[g]] /\ r.phase = ph /\ r.at = a
        /\ r.want = orders[c].want
    BY <1>1 DEF Fields
  <1>3. orders' = [orders EXCEPT ![c] = r]
    OBVIOUS
  <1> HIDE DEF r
  <1> QED
    BY <1>2, <1>3, OrderChanges

LEMMA OrderVisible ==
    ASSUME OrdersTyped, NEW c \in DOMAIN orders,
           orders' = [orders EXCEPT ![c].phase = "visible", ![c].tries = 0]
    PROVE  /\ OrdersTyped' /\ DOMAIN orders' = DOMAIN orders
           /\ orders'[c].phase = "visible" /\ orders'[c].at = orders[c].at /\ orders'[c].want = orders[c].want
           /\ \A d \in DOMAIN orders \ {c} : orders'[d] = orders[d]
  <1>1. orders[c] = [g \in Fields |-> orders[c][g]]
    BY DEF OrdersTyped
  <1> DEFINE r == [orders[c] EXCEPT !.phase = "visible", !.tries = 0]
  <1>2. /\ r = [g \in Fields |-> r[g]] /\ r.phase = "visible" /\ r.at = orders[c].at
        /\ r.want = orders[c].want
    BY <1>1 DEF Fields
  <1>3. orders' = [orders EXCEPT ![c] = r]
    OBVIOUS
  <1> HIDE DEF r
  <1> QED
    BY <1>2, <1>3, OrderChanges

LEMMA OrderRecovered ==
    ASSUME OrdersTyped, NEW c \in DOMAIN orders, NEW a,
           orders' = [orders EXCEPT ![c].phase = "visible", ![c].tries = 0, ![c].at = a]
    PROVE  /\ OrdersTyped' /\ DOMAIN orders' = DOMAIN orders
           /\ orders'[c].phase = "visible" /\ orders'[c].at = a /\ orders'[c].want = orders[c].want
           /\ \A d \in DOMAIN orders \ {c} : orders'[d] = orders[d]
  <1>1. orders[c] = [g \in Fields |-> orders[c][g]]
    BY DEF OrdersTyped
  <1> DEFINE r == [orders[c] EXCEPT !.phase = "visible", !.tries = 0, !.at = a]
  <1>2. /\ r = [g \in Fields |-> r[g]] /\ r.phase = "visible" /\ r.at = a
        /\ r.want = orders[c].want
    BY <1>1 DEF Fields
  <1>3. orders' = [orders EXCEPT ![c] = r]
    OBVIOUS
  <1> HIDE DEF r
  <1> QED
    BY <1>2, <1>3, OrderChanges

LEMMA OrderRetried ==
    ASSUME OrdersTyped, NEW c \in DOMAIN orders,
           orders' = [orders EXCEPT ![c].tries = @ + 1]
    PROVE  /\ OrdersTyped' /\ DOMAIN orders' = DOMAIN orders
           /\ orders'[c].phase = orders[c].phase /\ orders'[c].at = orders[c].at /\ orders'[c].want = orders[c].want
           /\ \A d \in DOMAIN orders \ {c} : orders'[d] = orders[d]
  <1>1. orders[c] = [g \in Fields |-> orders[c][g]]
    BY DEF OrdersTyped
  <1> DEFINE r == [orders[c] EXCEPT !.tries = @ + 1]
  <1>2. /\ r = [g \in Fields |-> r[g]] /\ r.phase = orders[c].phase /\ r.at = orders[c].at
        /\ r.want = orders[c].want
    BY <1>1 DEF Fields
  <1>3. orders' = [orders EXCEPT ![c] = r]
    OBVIOUS
  <1> HIDE DEF r
  <1> QED
    BY <1>2, <1>3, OrderChanges

LEMMA RefreshGrows ==
    ASSUME dms \subseteq relayDms, Refresh
    PROVE  dms \subseteq dms' /\ dms' \subseteq relayDms
  BY DEF Refresh, dmRows

LEMMA ProcessingGrows ==
    ASSUME NEW c, RelayProcesses(c) \/ UNCHANGED relaySide
    PROVE  relayDms \subseteq relayDms'
  BY DEF RelayProcesses, relaySide

\* What keeps a confirmation true: a task that has become visible was.
LEMMA ConfirmedKeeps ==
    ASSUME ConfirmedInv, dms \subseteq dms', dms' \subseteq relayDms',
           NEW c \in DOMAIN orders, DOMAIN orders' = DOMAIN orders,
           \A d \in DOMAIN orders \ {c} : orders'[d] = orders[d],
           orders'[c].phase = "visible" =>
             orders'[c].at = orders'[c].want /\ orders'[c].at \in dms',
           opened' = opened \/ (opened'.channel = opened'.asked /\ opened'.channel \in dms')
    PROVE  ConfirmedInv'
  BY DEF ConfirmedInv, OpenedIsExact

LEMMA ConfirmedElsewhere ==
    ASSUME ConfirmedInv, OrdersTyped, UNCHANGED <<orders, opened>>,
           dms \subseteq dms', dms' \subseteq relayDms'
    PROVE  ConfirmedInv' /\ OrdersTyped'
  BY DEF ConfirmedInv, OpenedIsExact, OrdersTyped

LEMMA CommandConfirmed ==
    ASSUME ConfirmedInv, OrdersTyped, NEW op, NEW conversation, Command(op, conversation),
           UNCHANGED <<dms, relayDms, opened>>
    PROVE  ConfirmedInv' /\ OrdersTyped'
  <1>1. PICK k \in Nat : /\ orders = [n \in 1..k |-> orders[n]]
                         /\ \A n \in 1..k : orders[n] = [f \in Fields |-> orders[n][f]]
    BY DEF OrdersTyped
  <1>2. Cardinality(DOMAIN orders) = k
    BY <1>1, FS_Interval
  <1> DEFINE r == [op |-> op, want |-> conversation, phase |-> "sign", at |-> conversation,
                   tries |-> 0, failed |-> FALSE]
  <1>3. r = [f \in Fields |-> r[f]] /\ r.phase = "sign"
    BY DEF Fields
  <1>4. orders' = [n \in 1..k + 1 |-> IF n < k + 1 THEN orders[n] ELSE r]
    BY <1>2 DEF Command
  <1> HIDE DEF r
  <1>5. /\ DOMAIN orders' = 1..k + 1 /\ orders' = [n \in 1..k + 1 |-> orders'[n]]
        /\ \A n \in 1..k : orders'[n] = orders[n]
        /\ orders'[k + 1] = r
    BY <1>4
  <1>6. \A n \in 1..k + 1 : n \in 1..k \/ n = k + 1
    OBVIOUS
  <1>7. \A n \in 1..k + 1 : orders'[n] = [f \in Fields |-> orders'[n][f]]
    <2> TAKE n \in 1..k + 1
    <2>1. CASE n \in 1..k
      BY <1>1, <1>5, <2>1
    <2>2. CASE n = k + 1
      BY <1>3, <1>5, <2>2
    <2> QED
      BY <1>6, <2>1, <2>2
  <1>8. k + 1 \in Nat
    OBVIOUS
  <1>9. OrdersTyped'
    BY <1>5, <1>7, <1>8 DEF OrdersTyped
  <1>10. ASSUME NEW n \in DOMAIN orders', orders'[n].phase = "visible" PROVE n \in 1..k
    BY <1>3, <1>5, <1>6, <1>10
  <1>11. DOMAIN orders = 1..k
    BY <1>1
  <1>12. ConfirmedInv'
    BY <1>5, <1>10, <1>11 DEF ConfirmedInv, OpenedIsExact
  <1> QED
    BY <1>9, <1>12

LEMMA RetriedKeeps ==
    ASSUME ConfirmedInv, OrdersTyped, NEW c \in DOMAIN orders, dms \subseteq dms',
           dms' \subseteq relayDms', orders' = [orders EXCEPT ![c].tries = @ + 1],
           opened' = opened
    PROVE  ConfirmedInv' /\ OrdersTyped'
  <1>1. /\ OrdersTyped' /\ DOMAIN orders' = DOMAIN orders
        /\ orders'[c].phase = orders[c].phase /\ orders'[c].at = orders[c].at
        /\ orders'[c].want = orders[c].want
        /\ \A d \in DOMAIN orders \ {c} : orders'[d] = orders[d]
    BY OrderRetried
  <1> QED
    BY <1>1, ConfirmedKeeps DEF ConfirmedInv

LEMMA DoneKeeps ==
    ASSUME ConfirmedInv, OrdersTyped, NEW c \in DOMAIN orders, dms \subseteq dms',
           dms' \subseteq relayDms', Done(c),
           opened' = opened \/ (opened'.channel = opened'.asked /\ opened'.channel \in dms')
    PROVE  ConfirmedInv' /\ OrdersTyped'
  <1>1. /\ OrdersTyped' /\ DOMAIN orders' = DOMAIN orders
        /\ orders'[c].phase = "done"
        /\ \A d \in DOMAIN orders \ {c} : orders'[d] = orders[d]
    BY OrderPhase DEF Done
  <1> QED
    BY <1>1, ConfirmedKeeps

LEMMA VisibleKeeps ==
    ASSUME ConfirmedInv, OrdersTyped, NEW c \in DOMAIN orders, dms \subseteq dms',
           dms' \subseteq relayDms', opened' = opened, orders[c].want \in dms',
           \/ /\ orders' = [orders EXCEPT ![c].phase = "visible", ![c].tries = 0]
              /\ orders[c].at = orders[c].want
           \/ orders' = [orders EXCEPT ![c].phase = "visible", ![c].tries = 0,
                                       ![c].at = orders[c].want]
    PROVE  ConfirmedInv' /\ OrdersTyped'
  <1>1. /\ OrdersTyped' /\ DOMAIN orders' = DOMAIN orders
        /\ orders'[c].at = orders[c].want /\ orders'[c].want = orders[c].want
        /\ \A d \in DOMAIN orders \ {c} : orders'[d] = orders[d]
    <2>1. CASE /\ orders' = [orders EXCEPT ![c].phase = "visible", ![c].tries = 0]
               /\ orders[c].at = orders[c].want
      <3>1. orders' = [orders EXCEPT ![c].phase = "visible", ![c].tries = 0]
        BY <2>1
      <3>2. /\ OrdersTyped' /\ DOMAIN orders' = DOMAIN orders
            /\ orders'[c].at = orders[c].at /\ orders'[c].want = orders[c].want
            /\ \A d \in DOMAIN orders \ {c} : orders'[d] = orders[d]
        BY <3>1, OrderVisible
      <3> QED
        BY <2>1, <3>2
    <2>2. CASE orders' = [orders EXCEPT ![c].phase = "visible", ![c].tries = 0,
                                        ![c].at = orders[c].want]
      <3>1. PICK a : a = orders[c].want
        OBVIOUS
      <3>2. orders' = [orders EXCEPT ![c].phase = "visible", ![c].tries = 0, ![c].at = a]
        BY <2>2, <3>1
      <3>3. /\ OrdersTyped' /\ DOMAIN orders' = DOMAIN orders
            /\ orders'[c].at = a /\ orders'[c].want = orders[c].want
            /\ \A d \in DOMAIN orders \ {c} : orders'[d] = orders[d]
        BY <3>2, OrderRecovered
      <3> QED
        BY <3>1, <3>3
    <2> QED
      BY <2>1, <2>2
  <1> QED
    BY <1>1, ConfirmedKeeps

LEMMA PublicationKeeps ==
    ASSUME ConfirmedInv, OrdersTyped, NEW c \in Running,
           InsertOutbox(c) \/ PublishAccepted(c) \/ PublishFailed(c)
    PROVE  ConfirmedInv' /\ OrdersTyped'
  <1>1. c \in DOMAIN orders
    BY DEF Running
  <1>2. relayDms \subseteq relayDms'
    <2>1. CASE PublishAccepted(c)
      BY <2>1, ProcessingGrows DEF PublishAccepted
    <2>2. CASE InsertOutbox(c) \/ PublishFailed(c)
      BY <2>2, ProcessingGrows DEF InsertOutbox, PublishFailed
    <2> QED
      BY <2>1, <2>2
  <1>3. dms' = dms /\ opened' = opened
    BY DEF InsertOutbox, PublishAccepted, PublishFailed, dmRows
  <1>4. dms \subseteq dms' /\ dms' \subseteq relayDms'
    BY <1>2, <1>3 DEF ConfirmedInv
  <1>5. CASE InsertOutbox(c)
    <2>1. /\ OrdersTyped' /\ DOMAIN orders' = DOMAIN orders
          /\ orders'[c].phase = "publish"
          /\ \A d \in DOMAIN orders \ {c} : orders'[d] = orders[d]
      BY <1>1, <1>5, OrderPhase DEF InsertOutbox
    <2> QED
      BY <1>1, <1>3, <1>4, <2>1, ConfirmedKeeps
  <1>6. ASSUME NEW ph, NEW a, NEW f, Step(c, ph, a, f), ph # "visible"
        PROVE  ConfirmedInv' /\ OrdersTyped'
    <2>1. /\ OrdersTyped' /\ DOMAIN orders' = DOMAIN orders
          /\ orders'[c].phase = ph
          /\ \A d \in DOMAIN orders \ {c} : orders'[d] = orders[d]
      BY <1>1, <1>6, OrderStep DEF Step
    <2> QED
      BY <1>1, <1>3, <1>4, <1>6, <2>1, ConfirmedKeeps
  <1>7. AfterPublication(c) # "visible"
    BY DEF AfterPublication
  <1> QED
    BY <1>5, <1>6, <1>7 DEF PublishAccepted, PublishFailed

LEMMA ConfirmationKeeps ==
    ASSUME ConfirmedInv, OrdersTyped, NEW c \in Running,
           \/ ConfirmParticipants(c) \/ Recover(c) \/ ConfirmVisible(c) \/ ConfirmHidden(c)
    PROVE  ConfirmedInv' /\ OrdersTyped'
  <1>1. c \in DOMAIN orders
    BY DEF Running
  <1>2. dms \subseteq dms' /\ dms' \subseteq relayDms'
    <2>1. relayDms' = relayDms
      BY DEF ConfirmParticipants, Recover, ConfirmVisible, ConfirmHidden, relaySide
    <2>2. Refresh \/ dms' = dms
      BY DEF ConfirmParticipants, Recover, ConfirmVisible, ConfirmHidden, dmRows
    <2> QED
      BY <2>1, <2>2, RefreshGrows DEF ConfirmedInv
  <1>3. ASSUME Done(c), opened' = opened
        PROVE  ConfirmedInv' /\ OrdersTyped'
    BY <1>1, <1>2, <1>3, DoneKeeps
  <1>4. ASSUME orders' = [orders EXCEPT ![c].tries = @ + 1], opened' = opened
        PROVE  ConfirmedInv' /\ OrdersTyped'
    BY <1>1, <1>2, <1>4, RetriedKeeps
  <1>5. CASE ConfirmParticipants(c)
    <2>1. CASE Members(c)
      BY <1>1, <1>2, <1>5, <2>1, VisibleKeeps DEF ConfirmParticipants, Members
    <2>2. CASE ~Members(c)
      BY <1>3, <1>4, <1>5, <2>2 DEF ConfirmParticipants, RetryConfirmation, CommandFailed
    <2> QED
      BY <2>1, <2>2
  <1>6. CASE Recover(c)
    <2>1. CASE orders[c].want \in dms'
      BY <1>1, <1>2, <1>6, <2>1, VisibleKeeps DEF Recover
    <2>2. CASE orders[c].want \notin dms'
      BY <1>3, <1>4, <1>6, <2>2 DEF Recover, RetryConfirmation, CommandFailed
    <2> QED
      BY <2>1, <2>2
  <1>7. CASE ConfirmVisible(c)
    <2>1. orders[c].at = orders[c].want /\ orders[c].at \in dms'
      BY <1>1, <1>2, <1>7 DEF ConfirmVisible, ConfirmedInv
    <2>2. OpenedDm(c) \/ (orders' = [orders EXCEPT ![c].tries = @ + 1] /\ opened' = opened)
      BY <1>7 DEF ConfirmVisible, RetryConfirmation
    <2>3. CASE OpenedDm(c)
      <3>1. opened'.channel = opened'.asked /\ opened'.channel \in dms'
        BY <2>1, <2>3 DEF OpenedDm
      <3> QED
        BY <1>1, <1>2, <2>3, <3>1, DoneKeeps DEF OpenedDm
    <2> QED
      BY <1>4, <2>2, <2>3
  <1>8. CASE ConfirmHidden(c)
    BY <1>3, <1>4, <1>8 DEF ConfirmHidden, RetryConfirmation, CommandFailed
  <1> QED
    BY <1>5, <1>6, <1>7, <1>8

LEMMA RestartKeeps ==
    ASSUME ConfirmedInv, OrdersTyped, RestartDms
    PROVE  ConfirmedInv' /\ OrdersTyped'
  <1>1. PICK k \in Nat : /\ orders = [n \in 1..k |-> orders[n]]
                         /\ \A n \in 1..k : orders[n] = [f \in Fields |-> orders[n][f]]
    BY DEF OrdersTyped
  <1>2. orders' = [n \in 1..k |-> [orders[n] EXCEPT !.phase = "done"]]
    BY <1>1 DEF RestartDms
  <1>3. /\ DOMAIN orders' = 1..k /\ orders' = [n \in 1..k |-> orders'[n]]
        /\ \A n \in 1..k : orders'[n] = [orders[n] EXCEPT !.phase = "done"]
    BY <1>2
  <1>4. ASSUME NEW n \in 1..k
        PROVE  orders'[n] = [f \in Fields |-> orders'[n][f]] /\ orders'[n].phase = "done"
    BY <1>1, <1>3 DEF Fields
  <1>5. OrdersTyped'
    BY <1>3, <1>4 DEF OrdersTyped
  <1>6. UNCHANGED <<dms, relayDms, opened>>
    BY DEF RestartDms, dmRows, relaySide
  <1>7. ConfirmedInv'
    BY <1>3, <1>4, <1>6 DEF ConfirmedInv, OpenedIsExact
  <1> QED
    BY <1>5, <1>7

LEMMA ConfirmedStep ==
    ASSUME ConfirmedInv, OrdersTyped, [DmsNext]_dmVars
    PROVE  ConfirmedInv' /\ OrdersTyped'
  <1>1. CASE UNCHANGED <<orders, opened, dms>> /\ relayDms \subseteq relayDms'
    BY <1>1, ConfirmedElsewhere DEF ConfirmedInv
  <1>2. CASE UNCHANGED dmVars
    BY <1>1, <1>2 DEF dmVars
  <1>3. ASSUME NEW a, OpenDmPicker(a) \/ ToggleSelected(a) \/ ClosePicker \/ OtherTaskFails \/ FlushStarts
        PROVE  ConfirmedInv' /\ OrdersTyped'
    BY <1>1, <1>3 DEF OpenDmPicker, ToggleSelected, ClosePicker, OtherTaskFails, FlushStarts, dmRows,
                      relaySide
  <1>4. ASSUME NEW d, Submit \/ HideCurrentDm(d)
        PROVE  ConfirmedInv' /\ OrdersTyped'
    <2>1. UNCHANGED <<dms, relayDms, opened>>
      BY <1>4 DEF Submit, HideCurrentDm, dmRows, relaySide
    <2> QED
      BY <1>4, <2>1, CommandConfirmed DEF Submit, StartDmOpen, AddMember, HideCurrentDm
  <1>5. ASSUME NEW c \in Running,
               \/ InsertOutbox(c) \/ PublishAccepted(c) \/ PublishFailed(c)
               \/ ConfirmParticipants(c) \/ Recover(c) \/ ConfirmVisible(c) \/ ConfirmHidden(c)
        PROVE  ConfirmedInv' /\ OrdersTyped'
    BY <1>5, PublicationKeeps, ConfirmationKeeps
  <1>6. CASE DirectoryRefreshed
    <2>1. dms \subseteq dms' /\ dms' \subseteq relayDms'
      BY <1>6, RefreshGrows DEF DirectoryRefreshed, relaySide, ConfirmedInv
    <2> QED
      BY <1>6, <2>1, ConfirmedElsewhere DEF DirectoryRefreshed
  <1>7. CASE RestartDms
    BY <1>7, RestartKeeps
  <1>8. CASE FlushOne
    <2>1. PICK c : RelayProcesses(c) \/ UNCHANGED relaySide
      BY <1>8 DEF FlushOne
    <2> QED
      BY <1>1, <1>8, <2>1, ProcessingGrows DEF FlushOne, dmRows
  <1> QED
    BY <1>2, <1>3, <1>4, <1>5, <1>6, <1>7, <1>8 DEF DmsNext

\* Whatever became of the command and of its answer, the conversation that is
\* reported open has exactly the participants asked for, and the store knows
\* it (service/dms.rs, open; however many commands run beside each other).
THEOREM OpenedCorrect == DmsSpec => []OpenedIsExact
  <1>1. DmInit => ConfirmedInv /\ OrdersTyped
    <2> SUFFICES ASSUME DmInit PROVE ConfirmedInv /\ OrdersTyped
      OBVIOUS
    <2>1. orders = [n \in 1..0 |-> orders[n]] /\ 1..0 = {} /\ 0 \in Nat
      BY DEF DmInit
    <2>2. OrdersTyped
      BY <2>1 DEF OrdersTyped
    <2> QED
      BY <2>1, <2>2 DEF DmInit, ConfirmedInv, OpenedIsExact
  <1>2. ConfirmedInv /\ OrdersTyped /\ [DmsNext]_dmVars => (ConfirmedInv /\ OrdersTyped)'
    BY ConfirmedStep
  <1>3. ConfirmedInv => OpenedIsExact
    BY DEF ConfirmedInv
  <1> QED
    BY <1>1, <1>2, <1>3, PTL DEF DmsSpec

-----------------------------------------------------------------------------
(* The column is_member.  Whatever overwrites it, as long as refreshes do   *)
(* not overlap, what it was told about a channel is what the relay says     *)
(* now, or the refresh that will correct it has still to ask.               *)

SnapshotStands(e) ==
  Kind(e) = "members" /\ e \in Standing("members", Event[e].channel) /\ ~Refused(e)

\* Of the snapshot the application has yet to hear, or all is asked for anew.
AskedAnew(e) ==
  \/ due \/ (e \in live /\ e \notin stored)
  \/ \E t \in Tasks : \/ task[t].stage \in {"failed", "pin"}
                      \/ task[t].stage = "members" /\ ~task[t].asked

ToldRight(t, e) == (Event[e].channel \in task[t].told) = Lists(e, Self)
ShownRight(e) == channel[Event[e].channel].joined = Lists(e, Self)

FlagsOwed ==
  \A e \in Ids : SnapshotStands(e) =>
    \/ AskedAnew(e)
    \/ /\ \A t \in Tasks : Holding(t) => ToldRight(t, e)
       /\ ShownRight(e) \/ \E t \in Tasks : Holding(t)

\* What a refresh was told of a channel, it has the snapshot of; and once it
\* has stored the snapshots the channels are known.
ToldIsKnown ==
  /\ \A t \in Tasks : Holding(t) => \A c \in task[t].told :
       \/ channel[c].known
       \/ /\ task[t].stage = "members"
          /\ \E d \in task[t].batch : Kind(d) = "members" /\ Event[d].channel = c
  /\ \A t \in Tasks : task[t].asked => \A d \in task[t].batch :
       Kind(d) = "members" => Event[d].channel \in task[t].told /\ Lists(d, Self)

SnapshotsKnown == \A d \in stored : Kind(d) = "members" => channel[Event[d].channel].known

LEMMA SnapshotMakesKnown == TypeOK /\ HeadInv /\ RowsInv => SnapshotsKnown
  <1> SUFFICES ASSUME TypeOK, HeadInv, RowsInv, NEW d \in stored, Kind(d) = "members"
               PROVE  channel[Event[d].channel].known
    BY DEF SnapshotsKnown
  <1> DEFINE c == Event[d].channel
  <1>1. d \in Ids /\ c \in Channels
    BY EventType DEF TypeOK
  <1>2. d \in On(c, "members") /\ On(c, "members") \subseteq Ids
    BY <1>1 DEF On, OfKind, TypeOK
  <1>3. memberHead[c] \in Ids
    BY <1>1, <1>2 DEF HeadInv, IsKept
  <1>4. memberHead[c] # None
    BY <1>3, Numbered
  <1> QED
    BY <1>1, <1>4 DEF RowsInv, RowsOf

\* What an application of an event does to the columns of a channel.
LEMMA ApplyFlags ==
    ASSUME TypeOK, NEW p \in Ids, Apply(p), NEW c \in Channels
    PROVE  /\ channel[c].known => channel'[c].known
           /\ \/ channel'[c].joined = channel[c].joined
              \/ /\ Kind(p) = "members" /\ p \notin stored /\ ~Refused(p)
                 /\ c = Event[p].channel
  <1>1. channel \in [Channels -> ChannelRow(stored)] /\ channel[c] \in ChannelRow(stored)
    BY TypeParts DEF TypeOfHeads
  <1>2. CASE Ignore(p)
    BY <1>2 DEF Ignore, storeVars, directory
  <1>3. CASE InsertMessage(p)
    BY <1>1, <1>3 DEF InsertMessage, ChannelRow
  <1>4. CASE InsertReaction(p) \/ InsertDeletion(p) \/ InsertProfile(p) \/ InsertVisibility(p)
    BY <1>4 DEF InsertReaction, InsertDeletion, InsertProfile, InsertVisibility, directory
  <1>5. CASE InsertMembers(p)
    <2>1. channel'[c].known \/ channel'[c] = channel[c]
      BY <1>5, MembersRow
    <2>2. Kind(p) = "members" /\ p \notin stored /\ ~Refused(p)
      BY <1>5 DEF InsertMembers, Admit
    <2>3. c # Event[p].channel => channel'[c] = channel[c]
      BY <1>5, MembersRow
    <2> QED
      BY <2>1, <2>2, <2>3
  <1>6. CASE InsertChannel(p)
    BY <1>1, <1>6 DEF InsertChannel, ChannelRow
  <1> QED
    BY <1>2, <1>3, <1>4, <1>5, <1>6 DEF Apply, Insert

LEMMA KnownGrows ==
    ASSUME TypeOK, DirTypeOK, [DirNext]_dirVars, NEW c \in Channels
    PROVE  channel[c].known => channel'[c].known
  <1>1. CASE UNCHANGED storeVars
    BY <1>1 DEF storeVars, directory
  <1>2. CASE PinRelay
    BY <1>2 DEF PinRelay, directory
  <1>3. ASSUME NEW p \in Ids, Apply(p) PROVE channel[c].known => channel'[c].known
    BY <1>3, ApplyFlags
  <1>4. ASSUME NEW t \in Tasks, OnlyFlags(t) PROVE channel[c].known => channel'[c].known
    BY <1>4 DEF OnlyFlags, TypeOK
  <1> QED
    BY <1>1, <1>2, <1>3, <1>4, StoreSteps DEF Next

\* A snapshot that stands and is not refused was so before the step, unless
\* the key was pinned by it.
LEMMA StoodBefore ==
    ASSUME NEW e \in Ids, pinned' = pinned, published' = published,
           e \in stored' => e \in stored \/ ~Refused(e), stored \subseteq stored',
           \A c \in Channels : channel[c].dm => channel'[c].dm,
           SnapshotStands(e)'
    PROVE  SnapshotStands(e)
  <1>1. Kind(e) = "members" /\ e \in Standing("members", Event[e].channel) /\ ~Refused(e)'
    BY DEF SnapshotStands, Standing
  <1>2. e \notin stored' => ~Refused(e)
    BY <1>1, RefusalStays
  <1>3. e \in stored => ~Refused(e)
    BY <1>1 DEF Refused
  <1> QED
    BY <1>1, <1>2, <1>3 DEF SnapshotStands

\* Of two snapshots of one channel one stands.
LEMMA OneStands ==
    ASSUME DirTypeOK, NEW c \in Channels, NEW d \in Standing("members", c),
           NEW e \in Standing("members", c)
    PROVE  d = e
  <1>1. d \in Ids /\ e \in Ids /\ (d # e => ~Newer(d, e) /\ ~Newer(e, d))
    BY DEF Standing, DirTypeOK
  <1> QED
    BY <1>1, Numbered DEF Newer

\* A refresh that holds no answer, and one that holds the same as before.
LEMMA ToldIsKnownStep ==
    ASSUME TypeOK, HeadInv', TypeOK', RowsInv', DirTypeOK, AskedInQuery, BatchesAreAnswers,
           ToldIsKnown, [DirNext]_dirVars
    PROVE  ToldIsKnown'
  <1> DEFINE Fine(t, c) ==
               \/ channel[c].known
               \/ /\ task[t].stage = "members"
                  /\ \E d \in task[t].batch : Kind(d) = "members" /\ Event[d].channel = c
             Good(t) ==
               /\ Holding(t) => \A c \in task[t].told : Fine(t, c)
               /\ task[t].asked => \A d \in task[t].batch :
                    Kind(d) = "members" => Event[d].channel \in task[t].told /\ Lists(d, Self)
  <1>1. \A c \in Channels : channel[c].known => channel'[c].known
    BY KnownGrows
  <1>2. \A t \in Tasks : task[t].told \subseteq Channels /\ task[t].batch \subseteq Ids
    BY DEF DirTypeOK
  <1>3. ASSUME NEW t \in Tasks, task'[t] = task[t] PROVE Good(t)'
    <2>1. Good(t)
      BY DEF ToldIsKnown
    <2>2. \A c \in task[t].told : Fine(t, c) => Fine(t, c)'
      BY <1>1, <1>2, <1>3
    <2> QED
      BY <1>3, <2>1, <2>2 DEF Holding
  <1>4. ASSUME NEW t \in Tasks, ~task'[t].asked, task'[t].stage # "joined" PROVE Good(t)'
    BY <1>4 DEF Holding
  <1>5. ASSUME NEW t \in Tasks, NEW r, task' = [task EXCEPT ![t] = r],
               ~r.asked, r.stage # "joined"
        PROVE  ToldIsKnown'
    <2>1. \A u \in Tasks : task'[u] = IF u = t THEN r ELSE task[u]
      BY <1>5 DEF DirTypeOK
    <2>2. \A u \in Tasks : Good(u)'
      BY <1>3, <1>4, <1>5, <2>1
    <2> QED
      BY <2>2 DEF ToldIsKnown
  <1>6. /\ ~Idle.asked /\ ~Failed.asked /\ ~Asking.asked
        /\ Idle.stage # "joined" /\ Failed.stage # "joined" /\ Asking.stage # "joined"
        /\ ~[Idle EXCEPT !.stage = "pin"].asked /\ [Idle EXCEPT !.stage = "pin"].stage # "joined"
        /\ ~[Idle EXCEPT !.stage = "channels"].asked
        /\ [Idle EXCEPT !.stage = "channels"].stage # "joined"
    BY DEF Idle, Failed, Asking
  <1>7. CASE UNCHANGED task
    BY <1>3, <1>7 DEF ToldIsKnown
  <1>8. ASSUME NEW t \in Tasks, Ask(t) PROVE ToldIsKnown'
    <2>1. /\ \A u \in Tasks \ {t} : task'[u] = task[u]
          /\ task'[t].stage = task[t].stage /\ task'[t].asked
          /\ task'[t].batch = Answer(task[t].stage)
          /\ task[t].stage = "members" => task'[t].told = {Event[e].channel : e \in Joined}
          /\ task[t].stage \in Queries
      BY <1>8 DEF Ask, DirTypeOK
    <2>2. CASE task[t].stage = "members"
      <3>1. task'[t].batch = Joined
        BY <2>1, <2>2 DEF Answer
      <3>2. \A e \in Joined : Kind(e) = "members" /\ Lists(e, Self)
        BY DEF Joined, Standing
      <3>3. Good(t)'
        BY <2>1, <2>2, <3>1, <3>2
      <3> QED
        BY <1>3, <2>1, <3>3 DEF ToldIsKnown
    <2>3. CASE task[t].stage # "members"
      <3>1. \A e \in Answer(task[t].stage) : Kind(e) # "members"
        BY <2>1, <2>3 DEF Queries, Answer, Standing
      <3>2. ~Holding(t)'
        BY <2>1, <2>3 DEF Holding, Queries
      <3>3. Good(t)'
        BY <2>1, <3>1, <3>2
      <3> QED
        BY <1>3, <2>1, <3>3 DEF ToldIsKnown
    <2> QED
      BY <2>2, <2>3
  <1>9. ASSUME NEW t \in Tasks, NEW p \in task[t].batch, StoreOne(t, p) PROVE ToldIsKnown'
    <2>1. /\ \A u \in Tasks \ {t} : task'[u] = task[u]
          /\ task'[t].stage = task[t].stage /\ task'[t].asked = task[t].asked
          /\ task'[t].batch = task[t].batch \ {p} /\ task'[t].told = task[t].told
          /\ p \in Ids /\ Apply(p) /\ ~Refused(p)
      BY <1>9 DEF StoreOne, DirTypeOK
    <2>2. p \in stored'
      <3>1. CASE Ignore(p)
        BY <2>1, <3>1 DEF Ignore, storeVars
      <3>2. CASE Insert(p)
        BY <3>2 DEF Insert, InsertMessage, InsertReaction, InsertDeletion, InsertProfile,
                    InsertChannel, InsertMembers, InsertVisibility, Admit
      <3> QED
        BY <2>1, <3>1, <3>2 DEF Apply
    <2>3. Kind(p) = "members" => channel'[Event[p].channel].known
      <3>1. SnapshotsKnown'
        BY SnapshotMakesKnown, PTL
      <3> QED
        BY <2>2, <3>1 DEF SnapshotsKnown
    <2>4. \A c \in task[t].told : Fine(t, c) => Fine(t, c)'
      BY <1>1, <1>2, <2>1, <2>3
    <2>5. Good(t)
      BY DEF ToldIsKnown
    <2>6. Good(t)'
      BY <2>1, <2>4, <2>5 DEF Holding
    <2> QED
      BY <1>3, <2>1, <2>6 DEF ToldIsKnown
  <1>10. ASSUME NEW t \in Tasks, StoreDone(t) PROVE ToldIsKnown'
    <2>1. task[t].asked /\ task[t].stage \in Queries /\ task[t].batch = {}
      BY <1>10 DEF StoreDone, AskedInQuery
    <2>2. CASE task[t].stage = "members"
      <3>1. /\ \A u \in Tasks \ {t} : task'[u] = task[u]
            /\ task'[t].stage = "joined" /\ ~task'[t].asked /\ task'[t].told = task[t].told
        BY <1>10, <2>2 DEF StoreDone, DirTypeOK, After
      <3>2. \A c \in task[t].told : channel[c].known
        BY <2>1, <2>2 DEF ToldIsKnown, Holding
      <3>3. Good(t)'
        BY <1>1, <1>2, <3>1, <3>2
      <3> QED
        BY <1>3, <3>1, <3>3 DEF ToldIsKnown
    <2>3. CASE task[t].stage # "members"
      <3> DEFINE r == IF task[t].stage = "visibility" THEN Idle
                      ELSE [task[t] EXCEPT !.stage = After(task[t].stage), !.asked = FALSE]
      <3>1. ~r.asked /\ r.stage # "joined"
        BY <1>6, <2>1, <2>3 DEF DirTypeOK, After, Queries
      <3>2. task' = [task EXCEPT ![t] = r]
        BY <1>10 DEF StoreDone
      <3> HIDE DEF r
      <3> QED
        BY <1>5, <3>1, <3>2
    <2> QED
      BY <2>2, <2>3
  <1>11. ASSUME NEW t \in Tasks,
                \/ task' = [task EXCEPT ![t] = Asking]
                \/ task' = [task EXCEPT ![t] = Failed]
                \/ task' = [task EXCEPT ![t] = [Idle EXCEPT !.stage = "pin"]]
                \/ task' = [task EXCEPT ![t] = [Idle EXCEPT !.stage = "channels"]]
         PROVE  ToldIsKnown'
    BY <1>5, <1>6, <1>11
  <1>12. ASSUME NEW t \in Tasks, RefreshStep(t) PROVE ToldIsKnown'
    BY <1>8, <1>9, <1>10, <1>11, <1>12 DEF RefreshStep, Pin, AskFails, StoreRefused,
                                          ReconcileSelfMemberships
  <1>13. ASSUME NEW e \in Ids, RelayPublishes(e) \/ LiveEvent(e) PROVE UNCHANGED task
    BY <1>13 DEF RelayPublishes, LiveEvent, refreshVars
  <1>14. CASE Notified \/ SpawnRefresh
    BY <1>7, <1>11, <1>14 DEF Notified, SpawnRefresh, refreshVars, Tasks
  <1>15. ASSUME NEW t \in Spawned, Connect(t) \/ DmCommand(t) PROVE ToldIsKnown'
    BY <1>11, <1>15 DEF Connect, DmCommand, Tasks
  <1>16. CASE UNCHANGED dirVars
    BY <1>7, <1>16 DEF dirVars, refreshVars
  <1> QED
    BY <1>7, <1>12, <1>13, <1>14, <1>15, <1>16 DEF DirNext

\* Nothing that the column owes is changed: what was asked anew still is, and
\* the refreshes that hold answers hold them still.
LEMMA FlagsKept ==
    ASSUME FlagsOwed, NEW e \in Ids, SnapshotStands(e),
           AskedAnew(e) => AskedAnew(e)',
           \A t \in Tasks : Holding(t)' => Holding(t) /\ task'[t].told = task[t].told,
           \/ \E t \in Tasks : Holding(t)'
           \/ ShownRight(e) => ShownRight(e)',
           (\E t \in Tasks : Holding(t)) => \E t \in Tasks : Holding(t)'
    PROVE  \/ AskedAnew(e)'
           \/ /\ \A t \in Tasks : Holding(t)' => ToldRight(t, e)'
              /\ ShownRight(e)' \/ \E t \in Tasks : Holding(t)'
  BY DEF FlagsOwed, ToldRight

LEMMA FlagsOwedStep ==
    ASSUME DmsStay, TypeOK, HeadInv, RowsInv, DirTypeOK, DirTypeOK', AskedInQuery,
           BatchesAreAnswers, StoredWasPublished, DmHasHead, ToldIsKnown,
           FlagsOwed, Alone, Alone', [DirNext]_dirVars
    PROVE  FlagsOwed'
  <1> DEFINE Owed(e) == \/ AskedAnew(e)
                        \/ /\ \A t \in Tasks : Holding(t) => ToldRight(t, e)
                           /\ ShownRight(e) \/ \E t \in Tasks : Holding(t)
  <1>1. CASE \A e \in Ids : AskedAnew(e)'
    BY <1>1 DEF FlagsOwed
  <1>2. ASSUME NEW t \in Tasks,
               \/ task' = [task EXCEPT ![t] = Asking]
               \/ task' = [task EXCEPT ![t] = Failed]
               \/ task' = [task EXCEPT ![t] = [Idle EXCEPT !.stage = "pin"]]
        PROVE  FlagsOwed'
    <2>1. \/ task'[t].stage \in {"failed", "pin"}
          \/ task'[t].stage = "members" /\ ~task'[t].asked
      BY <1>2 DEF DirTypeOK, Asking, Failed, Idle
    <2> QED
      BY <1>1, <2>1 DEF AskedAnew
  <1>3. \A c \in Channels : channel[c].dm => channel'[c].dm
    <2>1. ASSUME NEW t \in Tasks, OnlyFlags(t), NEW c \in Channels
          PROVE  channel[c].dm => channel'[c].dm
      BY <2>1 DEF OnlyFlags, TypeOK
    <2> QED
      BY <2>1, StoreSteps, DmsGrow
  <1>4. ASSUME storeVars' = storeVars, published' = published, NEW e \in Ids, SnapshotStands(e)'
        PROVE  SnapshotStands(e)
    BY <1>3, <1>4, StoodBefore DEF storeVars
  <1>5. ASSUME NEW p \in Ids, Apply(p), published' = published, NEW e \in Ids, SnapshotStands(e)'
        PROVE  /\ SnapshotStands(e) /\ stored \subseteq stored' /\ stored' \subseteq stored \cup {p}
               /\ ShownRight(e) => ShownRight(e)'
                    \/ (Kind(p) = "members" /\ p \notin stored /\ ~Refused(p))
    <2>1. pinned' = pinned /\ stored \subseteq stored' /\ stored' \subseteq stored \cup {p}
      BY <1>5, ApplyEffect
    <2>2. p \in stored' => p \in stored \/ ~Refused(p)
      <3>1. CASE Ignore(p)
        BY <3>1 DEF Ignore, storeVars
      <3>2. CASE Insert(p) /\ Kind(p) \in DeletionKinds
        <4>1. Kind(p) \in {"deletion", "moderation"}
          BY <3>2 DEF DeletionKinds
        <4> QED
          BY <4>1 DEF Refused, BreaksDm, RelayKinds
      <3>3. CASE Insert(p) /\ Kind(p) \notin DeletionKinds
        BY <3>3, AdmitStep
      <3> QED
        BY <1>5, <3>1, <3>2, <3>3 DEF Apply
    <2>3. SnapshotStands(e)
      BY <1>3, <1>5, <2>1, <2>2, StoodBefore
    <2>4. Event[e].channel \in Channels
      BY EventType
    <2> QED
      BY <1>5, <2>1, <2>3, <2>4, ApplyFlags DEF ShownRight
  <1>6. ASSUME NEW p \in Ids, RelayPublishes(p) PROVE FlagsOwed'
    <2> SUFFICES ASSUME NEW e \in Ids, SnapshotStands(e)' PROVE Owed(e)'
      BY DEF FlagsOwed
    <2>1. /\ UNCHANGED <<storeVars, due, task>> /\ live' = live \cup {p} /\ p \notin published
          /\ published' = published \cup {p}
      BY <1>6 DEF RelayPublishes, refreshVars
    <2>2. stored' = stored /\ channel' = channel
      BY <2>1 DEF storeVars, directory
    <2>3. CASE e = p
      <3>1. e \notin stored
        BY <2>1, <2>3 DEF StoredWasPublished, SnapshotStands, RelayKinds
      <3> QED
        BY <2>1, <2>2, <2>3, <3>1 DEF AskedAnew
    <2>4. CASE e # p
      <3>1. e \in published /\ published \subseteq published'
        BY <2>1, <2>4 DEF SnapshotStands, Standing
      <3>2. e \in Standing("members", Event[e].channel)
        BY <3>1, StandingStays DEF SnapshotStands
      <3>3. SnapshotStands(e)
        BY <2>1, <3>2 DEF SnapshotStands, Refused, BreaksDm, storeVars, directory
      <3>4. Owed(e)
        BY <3>3 DEF FlagsOwed
      <3> QED
        BY <2>1, <2>2, <3>4 DEF AskedAnew, ToldRight, ShownRight, Holding
    <2> QED
      BY <2>3, <2>4
  <1>7. ASSUME NEW p \in Ids, LiveEvent(p) PROVE FlagsOwed'
    <2> SUFFICES ASSUME NEW e \in Ids, SnapshotStands(e)' PROVE Owed(e)'
      BY DEF FlagsOwed
    <2>1. /\ Apply(p) /\ published' = published /\ task' = task /\ live' = live \ {p} /\ ~due
          /\ due' = (Kind(p) = "members" /\ p \notin stored /\ ~Refused(p))
      BY <1>7 DEF LiveEvent, refreshVars
    <2>2. CASE due'
      BY <2>2 DEF AskedAnew
    <2>3. CASE ~due'
      <3>1. /\ SnapshotStands(e) /\ stored \subseteq stored' /\ stored' \subseteq stored \cup {p}
            /\ ShownRight(e) => ShownRight(e)'
        BY <1>5, <2>1, <2>3
      <3>2. e \in live /\ e \notin stored => e # p
        BY <2>1, <2>3, <3>1 DEF SnapshotStands
      <3>3. AskedAnew(e) => AskedAnew(e)'
        BY <2>1, <3>1, <3>2 DEF AskedAnew
      <3>4. \A t \in Tasks : Holding(t)' = Holding(t) /\ task'[t].told = task[t].told
        BY <2>1 DEF Holding
      <3> QED
        BY <3>1, <3>3, <3>4, FlagsKept
    <2> QED
      BY <2>2, <2>3
  <1>8. ASSUME NEW t \in Tasks, Ask(t) PROVE FlagsOwed'
    <2> SUFFICES ASSUME NEW e \in Ids, SnapshotStands(e)' PROVE Owed(e)'
      BY DEF FlagsOwed
    <2>1. /\ UNCHANGED <<storeVars, published, live, due>>
          /\ \A u \in Tasks \ {t} : task'[u] = task[u]
          /\ task'[t].stage = task[t].stage /\ task'[t].asked /\ ~task[t].asked
          /\ task[t].stage = "members" => task'[t].told = {Event[d].channel : d \in Joined}
          /\ task[t].stage \in Queries
      BY <1>8 DEF Ask, DirTypeOK, relayVars
    <2>2. SnapshotStands(e)
      BY <1>4, <2>1
    <2>3. stored' = stored /\ channel' = channel
      BY <2>1 DEF storeVars, directory
    <2>4. CASE task[t].stage = "members"
      <3>1. Holding(t)'
        BY <2>1, <2>4 DEF Holding
      <3>2. \A u \in Tasks : Holding(u)' => u = t
        BY <3>1 DEF Alone
      <3>3. Event[e].channel \in Channels
        BY EventType
      <3>4. e \in Joined <=> Lists(e, Self)
        BY <2>2, <3>3 DEF SnapshotStands, Joined
      <3>5. ASSUME NEW d \in Joined, Event[d].channel = Event[e].channel PROVE d = e
        <4>1. d \in Standing("members", Event[e].channel)
          BY <3>5 DEF Joined, Standing
        <4> QED
          BY <2>2, <3>3, <4>1, OneStands DEF SnapshotStands
      <3>6. (\E d \in Joined : Event[d].channel = Event[e].channel) <=> e \in Joined
        BY <3>5
      <3>7. Event[e].channel \in task'[t].told <=> e \in Joined
        BY <2>1, <2>4, <3>6
      <3>8. (Event[e].channel \in task'[t].told) = Lists(e, Self)
        <4>1. Lists(e, Self) \in BOOLEAN
          BY DEF Lists
        <4> QED
          BY <3>4, <3>7, <4>1
      <3>9. ToldRight(t, e)'
        BY <3>8 DEF ToldRight, Lists
      <3> QED
        BY <3>1, <3>2, <3>9
    <2>5. CASE task[t].stage # "members"
      <3>1. \A u \in Tasks : Holding(u)' = Holding(u)
        BY <2>1, <2>5 DEF Holding, Queries
      <3>2. \A u \in Tasks : Holding(u)' => task'[u].told = task[u].told
        BY <2>1, <2>5 DEF Holding, Queries
      <3>3. AskedAnew(e) => AskedAnew(e)'
        BY <2>1, <2>3, <2>5 DEF AskedAnew, Queries
      <3>4. ShownRight(e) => ShownRight(e)'
        BY <2>3 DEF ShownRight
      <3> QED
        BY <2>2, <3>1, <3>2, <3>3, <3>4, FlagsKept
    <2> QED
      BY <2>4, <2>5
  <1>9. ASSUME NEW t \in Tasks, NEW p \in task[t].batch, StoreOne(t, p) PROVE FlagsOwed'
    <2> SUFFICES ASSUME NEW e \in Ids, SnapshotStands(e)' PROVE Owed(e)'
      BY DEF FlagsOwed
    <2>1. /\ Apply(p) /\ UNCHANGED <<published, live, due>> /\ task[t].asked /\ p \in Ids
          /\ \A u \in Tasks : /\ task'[u].stage = task[u].stage /\ task'[u].asked = task[u].asked
                              /\ task'[u].told = task[u].told
      BY <1>9 DEF StoreOne, relayVars, DirTypeOK
    <2>2. /\ SnapshotStands(e) /\ stored \subseteq stored' /\ stored' \subseteq stored \cup {p}
          /\ ShownRight(e) => ShownRight(e)'
               \/ (Kind(p) = "members" /\ p \notin stored /\ ~Refused(p))
      BY <1>5, <2>1
    <2>3. \A u \in Tasks : Holding(u)' = Holding(u)
      BY <2>1 DEF Holding
    <2>4. Kind(p) = "members" =>
            Holding(t) /\ Event[p].channel \in task[t].told /\ Lists(p, Self)
      BY <2>1 DEF BatchesAreAnswers, Holding, ToldIsKnown
    <2>5. CASE e = p
      <3>1. Holding(t) /\ ToldRight(t, e)
        BY <2>2, <2>4, <2>5 DEF SnapshotStands, ToldRight
      <3>2. \A u \in Tasks : Holding(u) => u = t
        BY <3>1 DEF Alone
      <3>3. Holding(t)' /\ ToldRight(t, e)'
        BY <2>1, <2>3, <3>1 DEF ToldRight
      <3> QED
        BY <2>3, <3>2, <3>3
    <2>6. CASE e # p
      <3>1. AskedAnew(e) => AskedAnew(e)'
        BY <2>1, <2>2, <2>6 DEF AskedAnew
      <3>2. (\E u \in Tasks : Holding(u)') \/ (ShownRight(e) => ShownRight(e)')
        BY <2>2, <2>3, <2>4
      <3>3. (\E u \in Tasks : Holding(u)) => \E u \in Tasks : Holding(u)'
        BY <2>3
      <3> QED
        BY <2>1, <2>2, <2>3, <3>1, <3>2, <3>3, FlagsKept
    <2> QED
      BY <2>5, <2>6
  <1>10. ASSUME NEW t \in Tasks, StoreDone(t) PROVE FlagsOwed'
    <2> SUFFICES ASSUME NEW e \in Ids, SnapshotStands(e)' PROVE Owed(e)'
      BY DEF FlagsOwed
    <2>1. /\ UNCHANGED <<storeVars, published, live, due>> /\ task[t].asked
          /\ task[t].stage \in Queries /\ \A u \in Tasks \ {t} : task'[u] = task[u]
      BY <1>10 DEF StoreDone, relayVars, DirTypeOK, AskedInQuery
    <2>2. task[t].stage = "members" => task'[t].stage = "joined" /\ task'[t].told = task[t].told
      BY <1>10 DEF StoreDone, DirTypeOK, After
    <2>3. task[t].stage # "members" => task'[t].stage \in {"visibility", "idle"}
      BY <1>10, <2>1 DEF StoreDone, DirTypeOK, After, Queries, Idle
    <2>4. SnapshotStands(e) /\ stored' = stored /\ channel' = channel
      BY <1>4, <2>1 DEF storeVars, directory
    <2>5. \A u \in Tasks : Holding(u)' = Holding(u)
      BY <2>1, <2>2, <2>3 DEF Holding, Queries
    <2>6. \A u \in Tasks : Holding(u)' => task'[u].told = task[u].told
      BY <2>1, <2>2, <2>3 DEF Holding
    <2>7. AskedAnew(e) => AskedAnew(e)'
      BY <2>1, <2>4 DEF AskedAnew, Queries
    <2>8. ShownRight(e) => ShownRight(e)'
      BY <2>4 DEF ShownRight
    <2> QED
      BY <2>4, <2>5, <2>6, <2>7, <2>8, FlagsKept
  <1>11. ASSUME NEW t \in Tasks, ReconcileSelfMemberships(t) PROVE FlagsOwed'
    <2> SUFFICES ASSUME NEW e \in Ids, SnapshotStands(e)' PROVE Owed(e)'
      BY DEF FlagsOwed
    <2>1. /\ UNCHANGED <<published, live, due, pinned, stored>> /\ task[t].stage = "joined"
          /\ \A u \in Tasks \ {t} : task'[u] = task[u]
          /\ task'[t].stage = "channels"
      BY <1>11 DEF ReconcileSelfMemberships, relayVars, DirTypeOK, Idle
    <2>2. SnapshotStands(e)
      BY <1>3, <2>1, StoodBefore
    <2>3. Owed(e)
      BY <2>2 DEF FlagsOwed
    <2>4. AskedAnew(e) => AskedAnew(e)'
      BY <2>1 DEF AskedAnew
    <2>5. Event[e].channel \in Channels
      BY EventType
    <2>6. channel'[Event[e].channel].joined
            = (channel[Event[e].channel].known /\ Event[e].channel \in task[t].told)
      BY <1>11, <2>5 DEF ReconcileSelfMemberships, TypeOK
    <2>7. Holding(t)
      BY <2>1 DEF Holding
    <2>8. Event[e].channel \in task[t].told => channel[Event[e].channel].known
      BY <2>1, <2>7 DEF ToldIsKnown
    <2>9. ToldRight(t, e) => ShownRight(e)'
      BY <2>6, <2>8 DEF ToldRight, ShownRight, Lists
    <2>10. \A u \in Tasks : Holding(u)' => Holding(u) /\ task'[u].told = task[u].told
      BY <2>1 DEF Holding
    <2> QED
      BY <2>3, <2>4, <2>7, <2>9, <2>10 DEF ToldRight
  <1>12. ASSUME NEW t \in Tasks, RefreshStep(t) PROVE FlagsOwed'
    <2>1. CASE Pin(t) \/ AskFails(t)
      BY <1>2, <2>1 DEF Pin, AskFails
    <2>2. ASSUME NEW e \in task[t].batch, StoreRefused(t, e) PROVE FlagsOwed'
      BY <1>2, <2>2 DEF StoreRefused
    <2> QED
      BY <1>8, <1>9, <1>10, <1>11, <1>12, <2>1, <2>2 DEF RefreshStep
  <1>13. CASE Notified
    BY <1>1, <1>13 DEF Notified, AskedAnew
  <1>14. CASE SpawnRefresh
    BY <1>2, <1>14 DEF SpawnRefresh, Tasks
  <1>15. ASSUME NEW t \in Spawned, Connect(t) \/ DmCommand(t) PROVE FlagsOwed'
    BY <1>2, <1>15 DEF Connect, DmCommand, Tasks
  <1>16. CASE UNCHANGED dirVars
    <2> SUFFICES ASSUME NEW e \in Ids, SnapshotStands(e)' PROVE Owed(e)'
      BY DEF FlagsOwed
    <2>1. UNCHANGED <<storeVars, published, live, due, task, stored, channel>>
      BY <1>16 DEF dirVars, relayVars, refreshVars, storeVars, directory
    <2>2. SnapshotStands(e)
      BY <1>4, <2>1
    <2>3. Owed(e)
      BY <2>2 DEF FlagsOwed
    <2> QED
      BY <2>1, <2>3 DEF AskedAnew, ToldRight, ShownRight, Holding
  <1> QED
    BY <1>6, <1>7, <1>12, <1>13, <1>14, <1>15, <1>16 DEF DirNext

\* Nothing under way: what the column owes is what it shows.
LEMMA FlagsWhenQuiet == DirTypeOK /\ FlagsOwed => FlagFollowsRelay
  <1> SUFFICES ASSUME DirTypeOK, FlagsOwed, Quiet, NEW c \in Channels,
                      NEW e \in Standing("members", c), ~Refused(e)
               PROVE  channel[c].joined = Lists(e, Self)
    BY DEF FlagFollowsRelay
  <1>1. e \in Ids /\ Kind(e) = "members" /\ Event[e].channel = c
    BY DEF Standing, DirTypeOK
  <1>2. SnapshotStands(e)
    BY <1>1 DEF SnapshotStands
  <1>3. \A t \in Tasks : ~Holding(t)
    BY DEF Quiet, Holding, Idle
  <1>4. ~AskedAnew(e)
    BY DEF Quiet, AskedAnew, Idle
  <1>5. ShownRight(e)
    BY <1>1, <1>2, <1>3, <1>4 DEF FlagsOwed
  <1> QED
    BY <1>1, <1>5 DEF ShownRight

\* As long as no two refreshes have held an answer at once, the column
\* is_member is right when all is quiet: a snapshot heard live spawns a refresh
\* that asks again, and the abort of the task in directory_task and the jobs
\* it leaves behind overwrite nothing that is not asked for anew.
THEOREM CoalescedCorrect ==
    ASSUME DmsStay
    PROVE  CoalescedSpec => []RightIfCoalesced
  <1> DEFINE Known == /\ DirTypeOK /\ AskedInQuery /\ StoreInv
                      /\ DmHasHead /\ BatchesAreAnswers /\ StoredWasPublished
                      /\ ToldIsKnown
             IInv == Known /\ (~overlapped => Alone /\ FlagsOwed)
  <1>1. CoalescedInit => IInv
    <2> SUFFICES ASSUME CoalescedInit PROVE IInv
      OBVIOUS
    <2>1. DirInit /\ StoreInv /\ DirTypeOK /\ AskedInQuery
      BY TypeInit, DeletionInit, HeadInit, RowsInit, DirTypeInit
         DEF CoalescedInit, DirInit, StoreInv
    <2>2. DmHasHead /\ BatchesAreAnswers /\ StoredWasPublished
      BY <2>1 DEF DirInit, Init, NoRow, Idle, DmHasHead, BatchesAreAnswers, StoredWasPublished
    <2>3. Alone /\ ToldIsKnown
      BY <2>1 DEF DirInit, Idle, Alone, Holding, ToldIsKnown
    <2>4. FlagsOwed
      BY <2>1 DEF DirInit, FlagsOwed, SnapshotStands, Standing
    <2> QED
      BY <2>1, <2>2, <2>3, <2>4
  <1>2. Known /\ [DirNext]_dirVars => Known'
    <2> SUFFICES ASSUME Known, [DirNext]_dirVars PROVE Known'
      OBVIOUS
    <2>1. DirTypeOK' /\ AskedInQuery'
      BY DirTypeStep
    <2>2. StoreInv'
      BY StoreSteps, FlagsStep, TypeStep, DeletionStepInv, HeadStepInv, RowsStepInv
         DEF StoreInv
    <2>3. DmHasHead' /\ BatchesAreAnswers' /\ StoredWasPublished'
      BY DmHasHeadStep, BatchesStep, PublishedStep DEF StoreInv
    <2>4. ToldIsKnown'
      BY <2>1, <2>2, ToldIsKnownStep DEF StoreInv
    <2> QED
      BY <2>1, <2>2, <2>3, <2>4
  <1>3. IInv /\ [CoalescedNext]_<<dirVars, overlapped>> => IInv'
    <2> SUFFICES ASSUME IInv, [CoalescedNext]_<<dirVars, overlapped>> PROVE IInv'
      OBVIOUS
    <2>1. [DirNext]_dirVars
      BY DEF CoalescedNext
    <2>2. Known'
      BY <1>2, <2>1
    <2>3. ~overlapped' => ~overlapped /\ Alone'
      BY DEF CoalescedNext, dirVars, refreshVars, Alone, Holding
    <2>4. ~overlapped' => FlagsOwed'
      BY <2>1, <2>2, <2>3, FlagsOwedStep DEF StoreInv
    <2> QED
      BY <2>2, <2>3, <2>4
  <1>4. IInv => RightIfCoalesced
    BY FlagsWhenQuiet DEF RightIfCoalesced
  <1> QED
    BY <1>1, <1>3, <1>4, PTL DEF CoalescedSpec
=============================================================================
