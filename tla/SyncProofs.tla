----------------------------- MODULE SyncProofs -----------------------------
(***************************************************************************)
(* Proofs about what keeps this client in step with the relay: the memory   *)
(* of handled events and the summaries of a community's stream; the refusal *)
(* of a mention that was revoked, for any number of revisions; the history  *)
(* of a channel, however its passes overlap; and the marks of what is read. *)
(***************************************************************************)
EXTENDS Backfill, ReadState, Stream, Agents, FiniteSetTheorems, WellFoundedInduction, TLAPS

-----------------------------------------------------------------------------
(* The stream of a community *)

RelayEvents == [kind : {"reply", "deletion", "summary"}, of : Replies \cup Roots, at : Nat,
                counted : SUBSET Replies]

\* A deletion or a reply is about a reply, a summary about a root.
Sensible(event) == IF event.kind = "summary" THEN event.of \in Roots ELSE event.of \in Replies

Distinct(s) == \A i, j \in 1..Len(s) : s[i] = s[j] => i = j

MemoryInv ==
    /\ order \in Seq(RelayEvents) /\ Distinct(order)
    /\ handled = ToSet(order) /\ Len(order) <= Memory
    /\ IsFiniteSet(handled) /\ Cardinality(handled) = Len(order)
    /\ \A event \in handled : event.kind # "summary" => event \in written

\* Nothing is counted outside the open channel.
ShownInv ==
    /\ counts \in [Roots -> SUBSET Replies]
    /\ liveSummaries \in [Roots -> SUBSET RelayEvents]
    /\ \A root \in Roots : ChannelOf(root) # openChannel =>
                             counts[root] = {} /\ liveSummaries[root] = {}

StreamInv ==
    /\ posted \in Seq(RelayEvents) /\ wire \in Seq(RelayEvents) /\ signed \in Nat
    /\ \A event \in ToSet(posted) \cup ToSet(wire) : Sensible(event)
    /\ MemoryInv /\ ShownInv

\* Sequences as sets.
LEMMA ToSetAppend ==
    ASSUME NEW S, NEW s \in Seq(S), NEW e \in S
    PROVE  /\ Append(s, e) \in Seq(S) /\ Len(Append(s, e)) = Len(s) + 1
           /\ ToSet(Append(s, e)) = ToSet(s) \cup {e}
           /\ Distinct(s) /\ e \notin ToSet(s) => Distinct(Append(s, e))
  <1>1. Append(s, e) \in Seq(S) /\ Len(Append(s, e)) = Len(s) + 1 /\ Len(s) \in Nat
    OBVIOUS
  <1>2. /\ DOMAIN Append(s, e) = 1..Len(s) + 1 /\ DOMAIN s = 1..Len(s)
        /\ \A i \in 1..Len(s) : Append(s, e)[i] = s[i]
        /\ Append(s, e)[Len(s) + 1] = e
    OBVIOUS
  <1>3. ToSet(Append(s, e)) = ToSet(s) \cup {e}
    BY <1>1, <1>2 DEF ToSet
  <1>4. ASSUME Distinct(s), e \notin ToSet(s) PROVE Distinct(Append(s, e))
    <2>1. \A i \in 1..Len(s) : s[i] # e
      BY <1>2, <1>4 DEF ToSet
    <2> QED
      BY <1>1, <1>2, <1>4, <2>1 DEF Distinct
  <1> QED
    BY <1>1, <1>3, <1>4

LEMMA ToSetTail ==
    ASSUME NEW S, NEW s \in Seq(S), s # <<>>
    PROVE  /\ Head(s) \in ToSet(s) /\ Head(s) \in S
           /\ Tail(s) \in Seq(S) /\ Len(Tail(s)) = Len(s) - 1
           /\ ToSet(Tail(s)) \subseteq ToSet(s)
           /\ Distinct(s) => Distinct(Tail(s)) /\ ToSet(Tail(s)) = ToSet(s) \ {Head(s)}
  <1>1. /\ Len(s) \in Nat /\ Len(s) > 0 /\ DOMAIN s = 1..Len(s) /\ Head(s) = s[1]
        /\ Head(s) \in S
    OBVIOUS
  <1>2. /\ Tail(s) \in Seq(S) /\ Len(Tail(s)) = Len(s) - 1
        /\ DOMAIN Tail(s) = 1..Len(s) - 1
        /\ \A i \in 1..Len(s) - 1 : Tail(s)[i] = s[i + 1]
    OBVIOUS
  <1>3. \A i \in 2..Len(s) : i - 1 \in 1..Len(s) - 1 /\ Tail(s)[i - 1] = s[i]
    BY <1>1, <1>2
  <1>4. Head(s) \in ToSet(s) /\ ToSet(Tail(s)) \subseteq ToSet(s)
    BY <1>1, <1>2 DEF ToSet
  <1>5. ASSUME Distinct(s) PROVE Distinct(Tail(s)) /\ ToSet(Tail(s)) = ToSet(s) \ {Head(s)}
    <2>1. Distinct(Tail(s))
      BY <1>1, <1>2, <1>5 DEF Distinct
    <2>2. \A i \in 2..Len(s) : s[i] # s[1]
      BY <1>1, <1>5 DEF Distinct
    <2>3. ToSet(Tail(s)) \subseteq ToSet(s) \ {Head(s)}
      BY <1>1, <1>2, <2>2 DEF ToSet
    <2>4. ToSet(s) \ {Head(s)} \subseteq ToSet(Tail(s))
      <3> SUFFICES ASSUME NEW x \in ToSet(s), x # Head(s) PROVE x \in ToSet(Tail(s))
        OBVIOUS
      <3>1. PICK i \in 1..Len(s) : s[i] = x
        BY <1>1 DEF ToSet
      <3>2. i \in 2..Len(s)
        BY <1>1, <3>1
      <3>3. i - 1 \in DOMAIN Tail(s) /\ Tail(s)[i - 1] = x
        BY <1>2, <1>3, <3>1, <3>2
      <3> QED
        BY <3>3 DEF ToSet
    <2> QED
      BY <2>1, <2>3, <2>4
  <1> QED
    BY <1>1, <1>2, <1>4, <1>5

\* What remember_relay_event leaves: the event is in the memory, which is the set
\* of the queue and no longer than it may be.
LEMMA RememberKeeps ==
    ASSUME StreamInv, NEW event \in RelayEvents, Remember(event)
    PROVE  /\ order' \in Seq(RelayEvents) /\ Distinct(order')
           /\ handled' = ToSet(order') /\ Len(order') <= Memory
           /\ IsFiniteSet(handled') /\ Cardinality(handled') = Len(order')
           /\ handled' \subseteq handled \cup {event}
  <1>1. CASE event \in handled
    BY <1>1 DEF Remember, dedup, StreamInv, MemoryInv
  <1>2. CASE event \notin handled
    <2> DEFINE longer == Append(order, event)
               all == handled \cup {event}
    <2>1. /\ order \in Seq(RelayEvents) /\ Distinct(order) /\ handled = ToSet(order)
          /\ Len(order) <= Memory /\ IsFiniteSet(handled) /\ Cardinality(handled) = Len(order)
          /\ Len(order) \in Nat
      BY DEF StreamInv, MemoryInv
    <2>2. /\ longer \in Seq(RelayEvents) /\ Len(longer) = Len(order) + 1
          /\ ToSet(longer) = all /\ Distinct(longer)
      BY <1>2, <2>1, ToSetAppend
    <2>3. IsFiniteSet(all) /\ Cardinality(all) = Len(longer)
      BY <1>2, <2>1, <2>2, FS_AddElement
    <2>4. /\ order' = IF Len(longer) > Memory THEN Tail(longer) ELSE longer
          /\ handled' = all \ (IF Len(longer) > Memory THEN {Head(longer)} ELSE {})
      BY <1>2 DEF Remember
    <2> HIDE DEF longer, all
    <2>5. CASE Len(longer) > Memory
      <3>1. longer # <<>>
        BY <2>1, <2>2
      <3>2. order' = Tail(longer) /\ handled' = all \ {Head(longer)}
        BY <2>4, <2>5
      <3>3. /\ Head(longer) \in all /\ Tail(longer) \in Seq(RelayEvents)
            /\ Len(Tail(longer)) = Len(longer) - 1
            /\ Distinct(Tail(longer)) /\ ToSet(Tail(longer)) = all \ {Head(longer)}
        BY <2>2, <3>1, ToSetTail
      <3>4. /\ IsFiniteSet(all \ {Head(longer)})
            /\ Cardinality(all \ {Head(longer)}) = Cardinality(all) - 1
        BY <2>3, <3>3, FS_RemoveElement
      <3>5. Len(longer) - 1 <= Memory
        BY <2>1, <2>2, StreamAssumption
      <3> QED
        BY <2>3, <3>2, <3>3, <3>4, <3>5 DEF all
    <2>6. CASE ~(Len(longer) > Memory)
      <3>1. order' = longer /\ handled' = all
        BY <2>4, <2>6
      <3>2. Len(longer) <= Memory
        BY <2>1, <2>2, <2>6, StreamAssumption
      <3> QED
        BY <2>2, <2>3, <3>1, <3>2 DEF all
    <2> QED
      BY <2>5, <2>6
  <1> QED
    BY <1>1, <1>2

\* A step of the relay only.
LEMMA StreamRelays ==
    ASSUME StreamInv, UNCHANGED <<written, dedup, shownSide>>,
           posted' \in Seq(RelayEvents), wire' \in Seq(RelayEvents), signed' \in Nat,
           \A event \in ToSet(posted') \cup ToSet(wire') : Sensible(event)
    PROVE  StreamInv'
  <1>1. MemoryInv'
    BY DEF StreamInv, MemoryInv, dedup, Distinct
  <1>2. ShownInv'
    BY DEF StreamInv, ShownInv, shownSide
  <1> QED
    BY <1>1, <1>2 DEF StreamInv

LEMMA StreamDispatches ==
    ASSUME StreamInv, NEW event \in RelayEvents, Sensible(event), Dispatch(event)
    PROVE  /\ wire' \in Seq(RelayEvents) /\ \A e \in ToSet(wire') : Sensible(e)
           /\ Append(posted, event) \in Seq(RelayEvents)
           /\ \A e \in ToSet(Append(posted, event)) : Sensible(e)
  <1>1. wire' = Append(wire, event)
    BY DEF Dispatch
  <1>2. ToSet(wire') = ToSet(wire) \cup {event} /\ wire' \in Seq(RelayEvents)
    BY <1>1, ToSetAppend DEF StreamInv
  <1>3. /\ ToSet(Append(posted, event)) = ToSet(posted) \cup {event}
        /\ Append(posted, event) \in Seq(RelayEvents)
    BY ToSetAppend DEF StreamInv
  <1> QED
    BY <1>2, <1>3 DEF StreamInv

LEMMA StreamKeeps ==
    ASSUME StreamInv, NEW event \in RelayEvents, Sensible(event), Keep(event)
    PROVE  StreamInv'
  <1>1. Dispatch(event) /\ posted' = Append(posted, event) /\ signed' = signed
        /\ UNCHANGED <<written, dedup, shownSide>>
    BY DEF Keep
  <1> QED
    BY <1>1, StreamDispatches, StreamRelays DEF StreamInv

LEMMA StreamSummarises == ASSUME StreamInv, NEW root \in Roots, Summarise(root) PROVE StreamInv'
  <1> DEFINE event == Summary(root, signed + 1, Under(root, Left(ToSet(posted))))
  <1>1. Under(root, Left(ToSet(posted))) \subseteq Replies
    BY DEF Under, Left
  <1>2. event \in RelayEvents /\ Sensible(event)
    BY <1>1 DEF Summary, RelayEvents, Sensible, StreamInv
  <1>3. Dispatch(event) /\ posted' = posted /\ signed' = signed + 1
        /\ UNCHANGED <<written, dedup, shownSide>>
    BY DEF Summarise
  <1> HIDE DEF event
  <1> QED
    BY <1>2, <1>3, StreamDispatches, StreamRelays DEF StreamInv

LEMMA StreamBreaks ==
    ASSUME StreamInv, Reconnect \/ (\E event \in ToSet(posted) : Repeat(event))
    PROVE  StreamInv'
  <1>1. CASE Reconnect
    BY <1>1, StreamRelays DEF Reconnect, StreamInv
  <1>2. ASSUME NEW event \in ToSet(posted), Repeat(event) PROVE StreamInv'
    <2>1. event \in RelayEvents /\ Sensible(event)
      BY DEF StreamInv, ToSet
    <2> QED
      BY <1>2, <2>1, StreamDispatches, StreamRelays DEF Repeat, StreamInv
  <1> QED
    BY <1>1, <1>2

\* Another writer: the store only grows.
LEMMA StreamWrites ==
    ASSUME StreamInv, UNCHANGED <<posted, wire, signed, dedup, shownSide>>,
           written \subseteq written'
    PROVE  StreamInv'
  <1>1. MemoryInv'
    BY DEF StreamInv, MemoryInv, dedup, Distinct
  <1>2. ShownInv'
    BY DEF StreamInv, ShownInv, shownSide
  <1> QED
    BY <1>1, <1>2 DEF StreamInv

LEMMA StreamHydrates == ASSUME StreamInv, NEW c, Hydrate(c) PROVE StreamInv'
  <1>1. MemoryInv' /\ UNCHANGED <<posted, wire, signed>>
    BY DEF StreamInv, MemoryInv, Hydrate, dedup, relayStream, Distinct
  <1>2. \A root \in Roots : Under(root, Left(written)) \subseteq Replies
    BY DEF Under, Left
  <1>3. ShownInv'
    BY <1>2 DEF StreamInv, ShownInv, Hydrate, RetainedSummaries
  <1> QED
    BY <1>1, <1>3 DEF StreamInv

LEMMA StreamHandles == ASSUME StreamInv, HandleNext PROVE StreamInv'
  <1> DEFINE event == Head(wire)
  <1>1. /\ event \in RelayEvents /\ Sensible(event) /\ UNCHANGED <<posted, signed>>
        /\ wire' \in Seq(RelayEvents) /\ \A e \in ToSet(posted') \cup ToSet(wire') : Sensible(e)
    BY ToSetTail DEF HandleNext, StreamInv
  <1>2. \/ UNCHANGED <<written, dedup, shownSide>>
        \/ TakeSummary(event) \/ TakeEvent(event)
    BY DEF HandleNext, Refuse
  <1> HIDE DEF event
  <1>3. CASE UNCHANGED <<written, dedup, shownSide>>
    BY <1>1, <1>3, StreamRelays DEF StreamInv
  <1>4. CASE TakeSummary(event)
    <2>1. MemoryInv'
      BY <1>1, <1>4, RememberKeeps DEF TakeSummary, MemoryInv, StreamInv
    <2>2. ShownInv'
      BY <1>1, <1>4 DEF TakeSummary, Overlay, VisibleRoots, ShownInv, StreamInv
    <2> QED
      BY <1>1, <2>1, <2>2 DEF StreamInv
  <1>5. CASE TakeEvent(event)
    <2>1. MemoryInv'
      BY <1>1, <1>5, RememberKeeps DEF TakeEvent, MemoryInv, StreamInv
    <2>2. ShownInv'
      BY <1>1, <1>5 DEF TakeEvent, Outdate, ShownInv, StreamInv
    <2> QED
      BY <1>1, <2>1, <2>2 DEF StreamInv
  <1> QED
    BY <1>2, <1>3, <1>4, <1>5

LEMMA StreamStep == ASSUME StreamInv, [StreamNext]_streamVars PROVE StreamInv'
  <1>1. CASE UNCHANGED streamVars
    BY <1>1, StreamWrites DEF streamVars, relayStream
  <1>2. ASSUME NEW r \in Replies, PostReply(r) \/ DeleteReply(r) \/ DeleteOwn(r) PROVE StreamInv'
    <2>1. /\ Reply(r) \in RelayEvents /\ Sensible(Reply(r))
          /\ Deletion(r) \in RelayEvents /\ Sensible(Deletion(r))
      BY DEF Reply, Deletion, RelayEvents, Sensible
    <2> QED
      BY <1>2, <2>1, StreamKeeps DEF PostReply, DeleteReply, DeleteOwn
  <1>3. CASE \E r \in Replies : Confirmed(r)
    BY <1>3, StreamWrites DEF Confirmed
  <1>4. CASE \E root \in Roots : Summarise(root)
    BY <1>4, StreamSummarises
  <1>5. CASE Reconnect \/ (\E event \in ToSet(posted) : Repeat(event))
    BY <1>5, StreamBreaks
  <1>6. CASE \E event \in ToSet(posted) : Backfill(event)
    BY <1>6, StreamWrites DEF Backfill, relayStream
  <1>7. CASE HandleNext
    BY <1>7, StreamHandles
  <1>8. CASE TickHydrate \/ (\E c \in {ChannelOf(root) : root \in Roots} : SelectChannel(c))
    BY <1>8, StreamHydrates DEF TickHydrate, SelectChannel
  <1> QED
    BY <1>1, <1>2, <1>3, <1>4, <1>5, <1>6, <1>7, <1>8 DEF StreamNext

\* Of overlapping subscriptions, replays and reconnects each event has its effect
\* once: the set of handled events tests exactly what the queue will expire, never
\* holds more than its capacity, and never an event the store did not take; and a
\* summary counts only in the channel it was received in, for every history of
\* events and switches (app.rs, handle_network, remember_relay_event).
THEOREM StreamCorrect == StreamSpec => []StreamExact
  <1>1. StreamInit => StreamInv
    <2> SUFFICES ASSUME StreamInit PROVE StreamInv
      OBVIOUS
    <2>1. ToSet(<<>>) = {} /\ Len(<<>>) = 0 /\ <<>> \in Seq(RelayEvents)
      BY DEF ToSet
    <2>2. MemoryInv
      BY <2>1, FS_EmptySet, StreamAssumption DEF StreamInit, MemoryInv, Distinct
    <2>3. ShownInv
      BY DEF StreamInit, ShownInv
    <2> QED
      BY <2>1, <2>2, <2>3 DEF StreamInit, StreamInv
  <1>2. StreamInv /\ [StreamNext]_streamVars => StreamInv'
    BY StreamStep
  <1>3. StreamInv => StreamExact
    <2> SUFFICES ASSUME StreamInv PROVE StreamExact
      OBVIOUS
    <2>1. MemoryExact
      BY DEF StreamInv, MemoryInv, MemoryExact
    <2>2. ASSUME NEW root \in Roots, root \notin VisibleRoots PROVE Shown(root) = 0
      <3>1. counts[root] = {} /\ liveSummaries[root] = {}
        BY <2>2 DEF VisibleRoots, StreamInv, ShownInv
      <3>2. Cardinality(counts[root]) = 0
        BY <3>1, FS_EmptySet
      <3> QED
        BY <3>1, <3>2 DEF Shown
    <2> QED
      BY <2>1, <2>2 DEF StreamExact, SummariesBelong
  <1> QED
    BY <1>1, <1>2, <1>3, PTL DEF StreamSpec

-----------------------------------------------------------------------------
(* The mention of an agent.                                               *)

Says(values) == [is : values, at : Nat]
AgentRecords == [place : [Rooms -> Places], owner : Says(Owners), declared : BOOLEAN,
                 policy : Says(Policies)]
AgentRows == [state : {"none", "removed", "invalid", "verified"}, owner : Owners,
              policy : Policies, stale : BOOLEAN]

Phases == {"idle", "members", "declaration", "profile", "policy", "apply", "read",
           "refreshed", "failed"}
Readings == [phase : Phases, whole : BOOLEAN, bot : BOOLEAN, declared : BOOLEAN,
             owner : Says(Owners), policy : Says(Policies)]

\* What a refresh has in its hands in each phase.
HasOwner(x) == x.phase \in {"policy", "apply"}
Whole(x) == x.phase \in {"read", "refreshed"} /\ x.whole

TheSend == refreshes["send"]
TheOther == refreshes["directory"]

AgentsTyped ==
    /\ refreshes = [t \in {"directory", "send"} |-> refreshes[t]]
    /\ TheSend \in Readings /\ TheOther \in Readings
    /\ relayRecords \in AgentRecords /\ records \in AgentRecords /\ row \in AgentRows
    /\ revisions \in Nat
    /\ mention \in Rooms \cup {Nowhere} /\ (Sending => mention \in Rooms)

\* What a refresh has read is the relay's, or older.
Leads(x) ==
    /\ x.declared => relayRecords.declared
    /\ HasOwner(x) => /\ x.owner.at <= relayRecords.owner.at
                      /\ x.owner.at = relayRecords.owner.at => x.owner.is = relayRecords.owner.is
                      /\ x.phase = "policy" => x.owner.is # "none"
    /\ x.phase = "apply" =>
          /\ x.policy.at <= relayRecords.policy.at
          /\ x.policy.is # "none" /\ x.policy.at = relayRecords.policy.at =>
                x.policy.is = relayRecords.policy.is
          /\ relayRecords.policy.is = "none" \/ x.owner.is = "none" => x.policy.is = "none"
          /\ x.policy.is = "none" => x.policy.at = 0

\* So is what is stored; and sinceEnter has what the relay has.
RelayLeads ==
    /\ relayRecords.owner.at <= revisions /\ relayRecords.policy.at <= revisions
    /\ records.owner.at <= relayRecords.owner.at /\ records.policy.at <= relayRecords.policy.at
    /\ records.declared => relayRecords.declared
    /\ relayRecords.policy.is = "none" => relayRecords.policy.at = 0 /\ records.policy.is = "none"
    /\ Leads(TheSend) /\ Leads(TheOther)
    /\ relayRecords.place \in sinceEnter.place /\ relayRecords.owner.is \in sinceEnter.owner
    /\ relayRecords.policy.is \in sinceEnter.policy

\* A policy that counts is one since Enter.
PolicyFine(p) == p.is = "none" \/ p.is \in sinceEnter.policy

PlaceSound ==
    TheSend.phase \notin {"idle", "members", "failed"} => records.place \in sinceEnter.place

\* From the moment the send has read the owner, whatever is newer than that is
\* of the time since Enter, stored or in the hands of the other refresh.
OwnerSound ==
    /\ HasOwner(TheSend) =>
          /\ TheSend.owner.is \in sinceEnter.owner
          /\ records.owner.at > TheSend.owner.at => records.owner.is \in sinceEnter.owner
          /\ HasOwner(TheOther) /\ TheOther.owner.at >= TheSend.owner.at =>
                TheOther.owner.is \in sinceEnter.owner
    /\ Whole(TheSend) =>
          /\ records.owner.is \in sinceEnter.owner
          /\ HasOwner(TheOther) /\ TheOther.owner.at >= records.owner.at =>
                TheOther.owner.is \in sinceEnter.owner

\* The same of a policy the send has read.
PolicyRead ==
    TheSend.phase = "apply" /\ TheSend.owner.is # "none" =>
        /\ TheSend.policy.is \in sinceEnter.policy
        /\ records.policy.at > TheSend.policy.at => records.policy.is \in sinceEnter.policy
        /\ TheSend.policy.is = "none" => PolicyFine(records.policy)
        /\ TheOther.phase = "apply" /\ TheOther.policy.at >= TheSend.policy.at =>
              PolicyFine(TheOther.policy)

\* When the profile showed no owner there was no policy to ask for: one that
\* counts then came with a newer owner, by the other refresh.
PolicyNotRead ==
    TheSend.phase = "apply" /\ TheSend.owner.is = "none" =>
        /\ records.owner.at > TheSend.owner.at =>
              /\ TheOther.phase \in {"read", "refreshed", "failed"}
              /\ records.owner.is # "none" => PolicyFine(records.policy)
        /\ /\ TheOther.phase = "apply" /\ TheOther.owner.is # "none"
           /\ TheOther.owner.at >= TheSend.owner.at
           => /\ PolicyFine(TheOther.policy) /\ TheOther.policy.at >= records.policy.at
              /\ TheOther.policy.is = "none" => records.policy.is = "none"

PolicyStored ==
    Whole(TheSend) =>
        /\ records.owner.is # "none" => PolicyFine(records.policy)
        /\ TheOther.phase = "apply" /\ LatestProfile(records.owner, TheOther.owner).is # "none" =>
              PolicyFine(Latest(records.policy, TheOther.policy))

RowSound ==
    TheSend.phase = "refreshed" /\ TheSend.whole /\ row.state = "verified" =>
        /\ row.owner # "none" /\ row.owner \in sinceEnter.owner
        /\ row.policy = "none" \/ row.policy \in sinceEnter.policy

\* An agent that was not asked about is not there, unless another refresh is at work.
Absent == ~IsBot(records) /\ ~(Participates(records) /\ records.declared)
AbsentSound ==
    TheOther.phase = "idle" =>
        /\ TheSend.phase = "declaration" /\ ~TheSend.bot => ~IsBot(records)
        /\ TheSend.phase = "read" /\ ~TheSend.whole => Absent
        /\ TheSend.phase = "refreshed" /\ ~TheSend.whole => row.state # "verified"

SendSound ==
    /\ PlaceSound /\ OwnerSound /\ PolicyRead /\ PolicyNotRead /\ PolicyStored
    /\ RowSound /\ AbsentSound

AgentsInv == AgentsTyped /\ RelayLeads /\ SendSound

\* While nothing is in the send's hands only the rest matters.
LEMMA SendUnread ==
    ASSUME TheSend.phase \in {"idle", "members", "failed"} PROVE SendSound
  BY DEF SendSound, PlaceSound, OwnerSound, PolicyRead, PolicyNotRead, PolicyStored, RowSound,
         AbsentSound, HasOwner, Whole

\* A step of one refresh leaves the other alone.
LEMMA PhaseIs ==
    ASSUME AgentsInv, NEW t \in {"directory", "send"}, NEW x, Phase(t, x)
    PROVE  /\ refreshes'[t] = x
           /\ \A u \in {"directory", "send"} : u # t => refreshes'[u] = refreshes[u]
           /\ refreshes' = [u \in {"directory", "send"} |-> refreshes'[u]]
           /\ t = "send" => TheSend' = x /\ TheOther' = TheOther
           /\ t = "directory" => TheOther' = x /\ TheSend' = TheSend
  BY DEF AgentsInv, AgentsTyped, Phase, TheSend, TheOther

LEMMA ReconciledTyped ==
    ASSUME NEW rec \in AgentRecords, NEW was \in AgentRows
    PROVE  /\ Reconciled(rec, was) \in AgentRows
           /\ Reconciled(rec, was).state = "verified" =>
                /\ Reconciled(rec, was).owner = rec.owner.is /\ rec.owner.is # "none"
                /\ Reconciled(rec, was).policy = rec.policy.is
                /\ IsBot(rec) \/ (Participates(rec) /\ rec.declared)
  <1>1. rec.owner.is \in Owners /\ rec.policy.is \in Policies
    BY DEF AgentRecords, Says
  <1>2. CASE ~IsBot(rec) /\ ~(Participates(rec) /\ rec.declared)
    BY <1>2 DEF Reconciled, AgentRows
  <1>3. CASE (IsBot(rec) \/ (Participates(rec) /\ rec.declared)) /\ rec.owner.is = "none"
    <2>1. Reconciled(rec, was) = [NoRow EXCEPT !.state = "invalid"]
      BY <1>3 DEF Reconciled, Failure
    <2>2. NoRow \in AgentRows
      BY DEF NoRow, AgentRows, Owners, Policies
    <2>3. [NoRow EXCEPT !.state = "invalid"] \in AgentRows
      BY <2>2 DEF AgentRows
    <2>4. [NoRow EXCEPT !.state = "invalid"].state = "invalid"
      BY <2>2 DEF AgentRows
    <2> QED
      BY <2>1, <2>3, <2>4
  <1>4. CASE (IsBot(rec) \/ (Participates(rec) /\ rec.declared)) /\ rec.owner.is # "none"
    <2>1. Reconciled(rec, was) = [state |-> "verified", owner |-> rec.owner.is,
                                  policy |-> rec.policy.is, stale |-> FALSE]
      BY <1>4 DEF Reconciled, Verified, VerifyPublicAgent
    <2> QED
      BY <1>1, <1>4, <2>1 DEF AgentRows
  <1> QED
    BY <1>2, <1>3, <1>4

LEMMA ReadingIs ==
    \A ph \in Phases :
        /\ RefreshAt(ph) \in Readings
        /\ RefreshAt(ph).phase = ph /\ RefreshAt(ph).declared = FALSE /\ RefreshAt(ph).whole = FALSE
        /\ \A w \in BOOLEAN :
             Done(ph, w) \in Readings /\ Done(ph, w).phase = ph /\ Done(ph, w).whole = w
               /\ Done(ph, w).declared = FALSE
  <1> SUFFICES ASSUME NEW ph \in Phases
      PROVE  /\ RefreshAt(ph) \in Readings
             /\ RefreshAt(ph).phase = ph /\ RefreshAt(ph).declared = FALSE /\ RefreshAt(ph).whole = FALSE
             /\ \A w \in BOOLEAN :
                  Done(ph, w) \in Readings /\ Done(ph, w).phase = ph /\ Done(ph, w).whole = w
                    /\ Done(ph, w).declared = FALSE
    OBVIOUS
  <1>1. Dated("none", 0) \in Says(Owners) /\ Dated("none", 0) \in Says(Policies)
    BY DEF Dated, Says, Owners, Policies
  <1>2. /\ RefreshAt(ph) \in Readings
        /\ RefreshAt(ph).phase = ph /\ RefreshAt(ph).declared = FALSE /\ RefreshAt(ph).whole = FALSE
    BY <1>1 DEF RefreshAt, Readings
  <1>3. \A w \in BOOLEAN :
          Done(ph, w) \in Readings /\ Done(ph, w).phase = ph /\ Done(ph, w).whole = w
            /\ Done(ph, w).declared = FALSE
    BY <1>2 DEF Done, Readings
  <1> QED
    BY <1>2, <1>3

\* With nothing in the send's hands only the store and the relay matter.
LEMMA SendUnreadNext == TheSend'.phase \in {"idle", "members", "failed"} => SendSound'
  BY DEF SendSound, PlaceSound, OwnerSound, PolicyRead, PolicyNotRead, PolicyStored, RowSound,
         AbsentSound, HasOwner, Whole

LEMMA OverlayKeeps ==
    ASSUME AgentsInv, OpenAgents \/ AgentsLoaded \/ CloseAgents PROVE AgentsInv'
  <1>1. PICK x : Phase("directory", x) /\ x \in {Idle, RefreshAt("members"), Done("refreshed", FALSE)}
    BY DEF OpenAgents, AgentsLoaded, CloseAgents
  <1>2. TheSend.phase = "idle" /\ UNCHANGED <<store, mention, outsideAgents>>
    BY DEF OpenAgents, AgentsLoaded, CloseAgents, TheSend, Sending
  <1>3. /\ TheOther' = x /\ TheSend' = TheSend
        /\ refreshes' = [u \in {"directory", "send"} |-> refreshes'[u]]
    BY <1>1, PhaseIs
  <1>4. x \in Readings /\ x.phase \in {"idle", "members", "refreshed"} /\ x.declared = FALSE
    <2>1. "idle" \in Phases /\ "members" \in Phases /\ "refreshed" \in Phases
      BY DEF Phases
    <2>2. CASE x = Idle
      BY <2>1, <2>2, ReadingIs DEF Idle
    <2>3. CASE x = RefreshAt("members")
      BY <2>1, <2>3, ReadingIs
    <2>4. CASE x = Done("refreshed", FALSE)
      BY <2>1, <2>4, ReadingIs
    <2> QED
      BY <1>1, <2>2, <2>3, <2>4
  <1>5. AgentsTyped'
    BY <1>2, <1>3, <1>4 DEF AgentsInv, AgentsTyped, store, outsideAgents, Sending, TheSend
  <1>6. Leads(TheOther)'
    BY <1>3, <1>4 DEF Leads, HasOwner
  <1>7. Leads(TheSend)'
    BY <1>2, <1>3 DEF AgentsInv, RelayLeads, Leads, HasOwner, outsideAgents
  <1>8. RelayLeads'
    BY <1>2, <1>6, <1>7 DEF AgentsInv, RelayLeads, store, outsideAgents
  <1>9. SendSound'
    BY <1>2, <1>3, SendUnreadNext
  <1> QED
    BY <1>5, <1>8, <1>9 DEF AgentsInv

LEMMA UserKeeps ==
    ASSUME AgentsInv, LiveMembership \/ (\E r \in Rooms : MentionSelectedAgent(r)) PROVE AgentsInv'
  <1>1. /\ TheSend.phase = "idle" /\ UNCHANGED <<refreshes, outsideAgents>>
        /\ mention' \in Rooms \cup {mention}
    BY DEF LiveMembership, MentionSelectedAgent, TheSend, Sending, user
  <1>2. records' = [records EXCEPT !.place = records'.place] /\ records' \in AgentRecords
    BY DEF LiveMembership, MentionSelectedAgent, store, AgentsInv, AgentsTyped, AgentRecords
  <1>3. row' \in AgentRows
    BY <1>2, ReconciledTyped
       DEF LiveMembership, MentionSelectedAgent, store, AgentsInv, AgentsTyped
  <1>4. AgentsTyped'
    BY <1>1, <1>2, <1>3 DEF AgentsInv, AgentsTyped, outsideAgents, Sending, TheSend, TheOther
  <1>5. RelayLeads'
    BY <1>1, <1>2 DEF AgentsInv, RelayLeads, Leads, HasOwner, outsideAgents, AgentsTyped,
                      AgentRecords, TheSend, TheOther
  <1>6. SendSound'
    BY <1>1, SendUnreadNext DEF TheSend
  <1> QED
    BY <1>4, <1>5, <1>6 DEF AgentsInv

LEMMA EnterKeeps == ASSUME AgentsInv, Enter PROVE AgentsInv'
  <1>1. TheSend.phase = "idle" /\ mention \in Rooms
    BY DEF Enter, TheSend, Sending, AgentsInv, AgentsTyped
  <1>2. CASE Phase("send", RefreshAt("members")) /\ sinceEnter' = Seen(relayRecords) /\ mention' = mention
    <2>1. /\ TheSend' = RefreshAt("members") /\ TheOther' = TheOther
          /\ refreshes' = [u \in {"directory", "send"} |-> refreshes'[u]]
      BY <1>2, PhaseIs
    <2>2. /\ TheSend' \in Readings /\ TheSend'.phase = "members" /\ TheSend'.declared = FALSE
      BY <2>1, ReadingIs DEF Phases
    <2>3. UNCHANGED <<store, relayRecords, revisions>>
      BY DEF Enter
    <2>4. AgentsTyped'
      BY <1>1, <1>2, <2>1, <2>2, <2>3 DEF AgentsInv, AgentsTyped, store, Sending
    <2>5. Leads(TheSend)'
      BY <2>2 DEF Leads, HasOwner
    <2>6. RelayLeads'
      BY <1>2, <2>1, <2>3, <2>5 DEF AgentsInv, RelayLeads, Leads, HasOwner, store, Seen
    <2> QED
      BY <2>2, <2>4, <2>6, SendUnreadNext DEF AgentsInv
  <1>3. CASE UNCHANGED <<refreshes, sinceEnter>> /\ mention' = Nowhere
    <2>1. UNCHANGED <<store, relayRecords, revisions>>
      BY DEF Enter
    <2>2. AgentsTyped'
      BY <1>1, <1>3, <2>1 DEF AgentsInv, AgentsTyped, store, Sending, TheSend, TheOther
    <2>3. RelayLeads'
      BY <1>3, <2>1 DEF AgentsInv, RelayLeads, Leads, HasOwner, store, TheSend, TheOther
    <2> QED
      BY <1>1, <1>3, <2>2, <2>3, SendUnreadNext DEF AgentsInv, TheSend
  <1> QED
    BY <1>2, <1>3 DEF Enter

LEMMA SendEnds == ASSUME AgentsInv, SendMention \/ RefreshFails("send") PROVE AgentsInv'
  <1>1. PICK x : Phase("send", x) /\ x \in {Idle, Done("failed", FALSE)}
    BY DEF SendMention, RefreshFails
  <1>2. UNCHANGED <<store, outsideAgents>> /\ mention' \in {mention, Nowhere}
    BY DEF SendMention, RefreshFails, user
  <1>3. /\ TheSend' = x /\ TheOther' = TheOther
        /\ refreshes' = [u \in {"directory", "send"} |-> refreshes'[u]]
    BY <1>1, PhaseIs
  <1>4. x \in Readings /\ x.phase \in {"idle", "failed"} /\ x.declared = FALSE
    BY <1>1, ReadingIs DEF Idle, Phases
  <1>5. x.phase = "failed" => mention' \in Rooms
    <2>1. Idle.phase = "idle"
      BY ReadingIs DEF Idle, Phases
    <2>2. CASE SendMention
      <3>1. x = Idle
        <4>1. refreshes'["send"] = x /\ refreshes'["send"] = Idle
          BY <1>3, <2>2, PhaseIs DEF SendMention, TheSend
        <4> QED
          BY <4>1
      <3> QED
        BY <2>1, <3>1
    <2>3. CASE RefreshFails("send")
      BY <2>3 DEF RefreshFails, AgentsInv, AgentsTyped, TheSend, Sending, user
    <2> QED
      BY <2>2, <2>3
  <1>6. AgentsTyped'
    BY <1>2, <1>3, <1>4, <1>5 DEF AgentsInv, AgentsTyped, store, outsideAgents, Sending, TheSend
  <1>7. Leads(TheSend)'
    BY <1>3, <1>4 DEF Leads, HasOwner
  <1>8. RelayLeads'
    BY <1>2, <1>3, <1>7 DEF AgentsInv, RelayLeads, Leads, HasOwner, store, outsideAgents
  <1>9. SendSound'
    BY <1>3, <1>4, SendUnreadNext
  <1> QED
    BY <1>6, <1>8, <1>9 DEF AgentsInv
\* Steps of the directory's refresh, whatever the send has in its hands.
LEMMA OtherReads ==
    ASSUME AgentsInv,
           RefreshFails("directory") \/ ReadDeclaration("directory")
             \/ ReconcileRemoteAgents("directory")
    PROVE  AgentsInv'
  <1>1. PICK x : Phase("directory", x)
                 /\ x \in Readings /\ x.phase \in {"failed", "profile", "read", "refreshed"}
                 /\ (x.declared => relayRecords.declared)
                 /\ (x.phase \in {"read", "profile"} => TheOther.phase = "declaration")
    <2>1. CASE RefreshFails("directory")
      BY <2>1, ReadingIs DEF RefreshFails, Phases
    <2>2. CASE ReadDeclaration("directory")
      <3>1. /\ RefreshAt("profile") \in Readings /\ relayRecords.declared \in BOOLEAN
            /\ Done("read", FALSE) \in Readings /\ Done("read", FALSE).phase = "read"
            /\ Done("read", FALSE).declared = FALSE /\ RefreshAt("profile").phase = "profile"
        BY ReadingIs DEF Phases, AgentsInv, AgentsTyped, AgentRecords
      <3> DEFINE y == [RefreshAt("profile") EXCEPT !.declared = relayRecords.declared]
      <3>2. y \in Readings /\ y.phase = "profile" /\ y.declared = relayRecords.declared
        BY <3>1 DEF Readings
      <3>3. \/ Phase("directory", y) \/ Phase("directory", Done("read", FALSE))
        BY <2>2 DEF ReadDeclaration
      <3> HIDE DEF y
      <3> QED
        BY <2>2, <3>1, <3>2, <3>3 DEF ReadDeclaration, TheOther
    <2>3. CASE ReconcileRemoteAgents("directory")
      <3> DEFINE y == [TheOther EXCEPT !.phase = "refreshed"]
      <3>1. y \in Readings /\ y.phase = "refreshed" /\ y.declared = TheOther.declared
        BY DEF AgentsInv, AgentsTyped, Readings, Phases
      <3>2. Phase("directory", y)
        BY <2>3 DEF ReconcileRemoteAgents, TheOther
      <3> HIDE DEF y
      <3>3. TheOther.declared => relayRecords.declared
        BY DEF AgentsInv, RelayLeads, Leads
      <3> QED
        BY <3>1, <3>2, <3>3
    <2> QED
      BY <2>1, <2>2, <2>3
  <1>2. /\ TheOther' = x /\ TheSend' = TheSend
        /\ refreshes' = [u \in {"directory", "send"} |-> refreshes'[u]]
    BY <1>1, PhaseIs
  <1>3. /\ UNCHANGED <<records, mention, relayRecords, revisions, sinceEnter>>
        /\ row' = row \/ row' = Reconciled(records, row)
    BY DEF RefreshFails, ReadDeclaration, ReconcileRemoteAgents, store, user, outsideAgents
  <1>4. TheOther.phase \in {"members", "declaration", "profile", "policy", "read"}
    BY DEF RefreshFails, ReadDeclaration, ReconcileRemoteAgents, TheOther
  <1>5. /\ row' \in AgentRows
        /\ row' = row
           \/ (row'.state = "verified" =>
                 /\ row'.owner = records.owner.is /\ row'.owner # "none"
                 /\ row'.policy = records.policy.is)
    BY <1>3, ReconciledTyped DEF AgentsInv, AgentsTyped
  <1>6. AgentsTyped'
    BY <1>1, <1>2, <1>3, <1>5 DEF AgentsInv, AgentsTyped, Sending, TheSend
  <1>7. Leads(TheOther)'
    BY <1>1, <1>2, <1>3 DEF Leads, HasOwner
  <1>8. RelayLeads'
    BY <1>2, <1>3, <1>7 DEF AgentsInv, RelayLeads, Leads, HasOwner
  <1>9. PlaceSound' /\ OwnerSound' /\ PolicyRead'
    BY <1>1, <1>2, <1>3 DEF AgentsInv, SendSound, PlaceSound, OwnerSound, PolicyRead, HasOwner,
                            Whole, PolicyFine
  <1>10. PolicyNotRead' /\ PolicyStored'
    BY <1>1, <1>2, <1>3, <1>4 DEF AgentsInv, SendSound, PolicyNotRead, PolicyStored, Whole,
                                  PolicyFine
  <1>11. RowSound'
    BY <1>2, <1>3, <1>5 DEF AgentsInv, SendSound, RowSound, OwnerSound, PolicyStored, Whole,
                            PolicyFine
  <1>12. AbsentSound'
    BY <1>1, <1>2 DEF AbsentSound
  <1> QED
    BY <1>6, <1>8, <1>9, <1>10, <1>11, <1>12 DEF AgentsInv, SendSound

LEMMA MembersStored ==
    ASSUME AgentsInv, NEW t \in {"directory", "send"}, RefreshMembers(t)
    PROVE  /\ records' = [records EXCEPT !.place = relayRecords.place]
           /\ records' \in AgentRecords /\ row' \in AgentRows
           /\ records'.place = relayRecords.place /\ records'.declared = records.declared
           /\ records'.owner = records.owner /\ records'.policy = records.policy
           /\ row' = row
              \/ (row'.state = "verified" =>
                    /\ row'.owner = records.owner.is /\ row'.owner # "none"
                    /\ row'.policy = records.policy.is)
           /\ UNCHANGED <<mention, relayRecords, revisions, sinceEnter>>
           /\ \/ Phase(t, [RefreshAt("declaration") EXCEPT !.bot = IsBot(records')])
              \/ /\ Phase(t, Done("read", FALSE))
                 /\ ~IsBot(records') /\ ~Participates(records')
  <1>1. /\ records' = [records EXCEPT !.place = relayRecords.place]
        /\ records' \in AgentRecords
        /\ records'.place = relayRecords.place /\ records'.declared = records.declared
        /\ records'.owner = records.owner /\ records'.policy = records.policy
    BY DEF RefreshMembers, AgentsInv, AgentsTyped, AgentRecords
  <1>2. row' = row \/ row' = Reconciled(records', row)
    BY DEF RefreshMembers
  <1>3. /\ row' \in AgentRows
        /\ row' = row
           \/ (row'.state = "verified" =>
                 /\ row'.owner = records.owner.is /\ row'.owner # "none"
                 /\ row'.policy = records.policy.is)
    <2>1. CASE row' = row
      BY <2>1 DEF AgentsInv, AgentsTyped
    <2>2. CASE row' = Reconciled(records', row)
      <3>1. PICK rec \in AgentRecords : rec = records'
        BY <1>1
      <3>2. /\ row' \in AgentRows
            /\ row'.state = "verified" =>
                 /\ row'.owner = rec.owner.is /\ rec.owner.is # "none"
                 /\ row'.policy = rec.policy.is
        <4>1. row \in AgentRows
          BY DEF AgentsInv, AgentsTyped
        <4>2. row' = Reconciled(rec, row)
          BY <2>2, <3>1
        <4> QED
          BY <4>1, <4>2, ReconciledTyped
      <3> QED
        BY <1>1, <3>1, <3>2
    <2> QED
      BY <1>2, <2>1, <2>2
  <1>4. /\ UNCHANGED <<mention, relayRecords, revisions, sinceEnter>>
        /\ \/ Phase(t, [RefreshAt("declaration") EXCEPT !.bot = IsBot(records')])
           \/ /\ Phase(t, Done("read", FALSE))
              /\ ~IsBot(records') /\ ~Participates(records')
    BY DEF RefreshMembers, user, outsideAgents, IsCandidate
  <1> QED
    BY <1>1, <1>3, <1>4

\* What a refresh holds after the memberships.
LEMMA HoldsBot ==
    \A b \in BOOLEAN :
        LET x == [RefreshAt("declaration") EXCEPT !.bot = b]
        IN  x \in Readings /\ x.phase = "declaration" /\ x.bot = b /\ x.declared = FALSE
  <1>1. RefreshAt("declaration") \in Readings /\ RefreshAt("declaration").phase = "declaration"
        /\ RefreshAt("declaration").declared = FALSE
    BY ReadingIs DEF Phases
  <1> QED
    BY <1>1 DEF Readings

LEMMA OtherMembers == ASSUME AgentsInv, RefreshMembers("directory") PROVE AgentsInv'
  <1>1. PICK x : /\ Phase("directory", x) /\ x \in Readings /\ x.phase \in {"declaration", "read"}
                 /\ x.declared = FALSE
    <2>1. PICK b \in BOOLEAN : b = IsBot(records')
      BY DEF IsBot
    <2>2. \/ Phase("directory", [RefreshAt("declaration") EXCEPT !.bot = b])
          \/ Phase("directory", Done("read", FALSE))
      BY <2>1, MembersStored
    <2>3. CASE Phase("directory", [RefreshAt("declaration") EXCEPT !.bot = b])
      BY <2>3, HoldsBot
    <2>4. CASE Phase("directory", Done("read", FALSE))
      BY <2>4, ReadingIs DEF Phases
    <2> QED
      BY <2>2, <2>3, <2>4
  <1>2. /\ TheOther' = x /\ TheSend' = TheSend
        /\ refreshes' = [u \in {"directory", "send"} |-> refreshes'[u]]
    BY <1>1, PhaseIs
  <1>3. /\ records' \in AgentRecords /\ row' \in AgentRows
        /\ records'.place = relayRecords.place /\ records'.declared = records.declared
        /\ records'.owner = records.owner /\ records'.policy = records.policy
        /\ row' = row
           \/ (row'.state = "verified" =>
                 /\ row'.owner = records.owner.is /\ row'.owner # "none"
                 /\ row'.policy = records.policy.is)
        /\ UNCHANGED <<mention, relayRecords, revisions, sinceEnter>>
    BY MembersStored
  <1>4. TheOther.phase = "members"
    BY DEF RefreshMembers, TheOther
  <1>6. AgentsTyped'
    BY <1>1, <1>2, <1>3 DEF AgentsInv, AgentsTyped, Sending, TheSend
  <1>7. Leads(TheOther)'
    BY <1>1, <1>2, <1>3 DEF Leads, HasOwner
  <1>8. RelayLeads'
    BY <1>2, <1>3, <1>7 DEF AgentsInv, RelayLeads, Leads, HasOwner
  <1>9. PlaceSound' /\ OwnerSound' /\ PolicyRead'
    BY <1>1, <1>2, <1>3 DEF AgentsInv, SendSound, PlaceSound, OwnerSound, PolicyRead, HasOwner,
                            Whole, PolicyFine, RelayLeads
  <1>10. PolicyNotRead' /\ PolicyStored'
    BY <1>1, <1>2, <1>3, <1>4 DEF AgentsInv, SendSound, PolicyNotRead, PolicyStored, Whole,
                                  PolicyFine
  <1>11. RowSound'
    BY <1>2, <1>3 DEF AgentsInv, SendSound, RowSound, OwnerSound, PolicyStored, Whole, PolicyFine
  <1>12. AbsentSound'
    BY <1>1, <1>2 DEF AbsentSound
  <1> QED
    BY <1>6, <1>8, <1>9, <1>10, <1>11, <1>12 DEF AgentsInv, SendSound
LEMMA OtherProfile == ASSUME AgentsInv, ReadProfile("directory") PROVE AgentsInv'
  <1> DEFINE ph == IF relayRecords.owner.is = "none" THEN "apply" ELSE "policy"
             x == [RefreshAt(ph) EXCEPT !.declared = TheOther.declared, !.owner = relayRecords.owner]
  <1>1. Phase("directory", x) /\ TheOther.phase = "profile"
    BY DEF ReadProfile, TheOther
  <1>2. /\ ph \in {"apply", "policy"} /\ (ph = "apply" <=> relayRecords.owner.is = "none")
        /\ relayRecords.owner \in Says(Owners) /\ TheOther.declared \in BOOLEAN
    BY DEF AgentsInv, AgentsTyped, AgentRecords, Readings
  <1>3. /\ x \in Readings /\ x.phase = ph /\ x.declared = TheOther.declared
        /\ x.owner = relayRecords.owner /\ x.policy.is = "none" /\ x.policy.at = 0
    <2> HIDE DEF ph
    <2>1. /\ RefreshAt(ph) \in Readings /\ RefreshAt(ph).phase = ph
          /\ RefreshAt(ph).policy.is = "none" /\ RefreshAt(ph).policy.at = 0
      BY <1>2, ReadingIs DEF Phases, RefreshAt, Dated
    <2> QED
      BY <1>2, <2>1 DEF Readings
  <1> HIDE DEF x, ph
  <1>4. /\ TheOther' = x /\ TheSend' = TheSend
        /\ refreshes' = [u \in {"directory", "send"} |-> refreshes'[u]]
    BY <1>1, PhaseIs
  <1>5. UNCHANGED <<records, row, mention, relayRecords, revisions, sinceEnter>>
    BY DEF ReadProfile, store, user, outsideAgents
  <1>6. AgentsTyped'
    BY <1>3, <1>4, <1>5 DEF AgentsInv, AgentsTyped, Sending, TheSend
  <1>7. Leads(TheOther)'
    <2>1. TheOther.declared => relayRecords.declared
      BY DEF AgentsInv, RelayLeads, Leads
    <2>2. relayRecords.owner.at \in Nat /\ relayRecords.policy.at \in Nat
      BY DEF AgentsInv, AgentsTyped, AgentRecords, Says
    <2> QED
      BY <1>2, <1>3, <1>4, <1>5, <2>1, <2>2 DEF Leads, HasOwner
  <1>8. RelayLeads'
    BY <1>4, <1>5, <1>7 DEF AgentsInv, RelayLeads, Leads, HasOwner
  <1>9. PlaceSound' /\ OwnerSound' /\ PolicyRead'
    BY <1>2, <1>3, <1>4, <1>5
       DEF AgentsInv, SendSound, PlaceSound, OwnerSound, PolicyRead, HasOwner, Whole, PolicyFine,
           RelayLeads
  <1>10. PolicyNotRead'
    BY <1>1, <1>2, <1>3, <1>4, <1>5 DEF AgentsInv, SendSound, PolicyNotRead, PolicyFine
  <1>11. PolicyStored'
    <2>1. x.phase = "apply" => LatestProfile(records.owner, x.owner).is = "none"
      BY <1>2, <1>3 DEF LatestProfile, AgentsInv, RelayLeads
    <2> QED
      BY <1>1, <1>4, <1>5, <2>1 DEF AgentsInv, SendSound, PolicyStored, Whole, PolicyFine
  <1>12. RowSound'
    BY <1>4, <1>5 DEF AgentsInv, SendSound, RowSound
  <1>13. AbsentSound'
    BY <1>2, <1>3, <1>4 DEF AbsentSound
  <1> QED
    BY <1>6, <1>8, <1>9, <1>10, <1>11, <1>12, <1>13 DEF AgentsInv, SendSound

LEMMA OtherPolicy == ASSUME AgentsInv, ReadPolicy("directory") PROVE AgentsInv'
  <1> DEFINE x == [TheOther EXCEPT !.phase = "apply", !.policy = relayRecords.policy]
  <1>1. Phase("directory", x) /\ TheOther.phase = "policy"
    BY DEF ReadPolicy, TheOther
  <1>2. /\ x \in Readings /\ x.phase = "apply" /\ x.declared = TheOther.declared
        /\ x.owner = TheOther.owner /\ x.policy = relayRecords.policy
    BY DEF AgentsInv, AgentsTyped, AgentRecords, Readings, Phases
  <1> HIDE DEF x
  <1>4. /\ TheOther' = x /\ TheSend' = TheSend
        /\ refreshes' = [u \in {"directory", "send"} |-> refreshes'[u]]
    BY <1>1, PhaseIs
  <1>5. UNCHANGED <<records, row, mention, relayRecords, revisions, sinceEnter>>
    BY DEF ReadPolicy, store, user, outsideAgents
  <1>3. relayRecords.policy.at \in Nat /\ records.policy.at \in Nat
    BY DEF AgentsInv, AgentsTyped, AgentRecords, Says
  <1>6. AgentsTyped'
    BY <1>2, <1>4, <1>5 DEF AgentsInv, AgentsTyped, Sending, TheSend
  <1>7. Leads(TheOther)'
    BY <1>1, <1>2, <1>3, <1>4, <1>5 DEF Leads, HasOwner, AgentsInv, RelayLeads
  <1>8. RelayLeads'
    BY <1>4, <1>5, <1>7 DEF AgentsInv, RelayLeads, Leads, HasOwner
  <1>9. PlaceSound' /\ OwnerSound' /\ PolicyRead'
    BY <1>1, <1>2, <1>4, <1>5
       DEF AgentsInv, SendSound, PlaceSound, OwnerSound, PolicyRead, HasOwner, Whole, PolicyFine,
           RelayLeads
  <1>10. PolicyNotRead'
    BY <1>1, <1>2, <1>3, <1>4, <1>5
       DEF AgentsInv, SendSound, PolicyNotRead, PolicyFine, RelayLeads
  <1>11. PolicyStored'
    <2>1. Whole(TheSend) => PolicyFine(Latest(records.policy, x.policy))
      BY <1>2, <1>3 DEF Latest, AgentsInv, RelayLeads, PolicyFine
    <2> QED
      BY <1>1, <1>4, <1>5, <2>1 DEF AgentsInv, SendSound, PolicyStored, Whole, PolicyFine
  <1>12. RowSound'
    BY <1>4, <1>5 DEF AgentsInv, SendSound, RowSound
  <1>13. AbsentSound'
    BY <1>2, <1>4 DEF AbsentSound
  <1> QED
    BY <1>6, <1>8, <1>9, <1>10, <1>11, <1>12, <1>13 DEF AgentsInv, SendSound

\* What the store has once what a refresh holds is stored.
LEMMA StoredIs ==
    ASSUME AgentsInv, NEW t \in {"directory", "send"}, ApplyRecords(t),
           NEW x, x = refreshes[t]
    PROVE  /\ records' \in AgentRecords /\ x.phase = "apply"
           /\ records'.place = records.place
           /\ records'.declared = (records.declared \/ x.declared)
           /\ records'.owner = LatestProfile(records.owner, x.owner)
           /\ records'.policy = Latest(records.policy, x.policy)
           /\ x.owner \in Says(Owners) /\ x.policy \in Says(Policies)
           /\ records.owner \in Says(Owners) /\ records.policy \in Says(Policies)
           /\ UNCHANGED <<row, mention, relayRecords, revisions, sinceEnter>>
           /\ Phase(t, Done("read", TRUE))
  <1>1. /\ x \in Readings /\ records \in AgentRecords
        /\ x.owner \in Says(Owners) /\ x.policy \in Says(Policies) /\ x.declared \in BOOLEAN
        /\ records.owner \in Says(Owners) /\ records.policy \in Says(Policies)
        /\ records.declared \in BOOLEAN
    BY DEF AgentsInv, AgentsTyped, TheSend, TheOther, Readings, AgentRecords
  <1>2. /\ LatestProfile(records.owner, x.owner) \in Says(Owners)
        /\ Latest(records.policy, x.policy) \in Says(Policies)
    BY <1>1 DEF LatestProfile, Latest
  <1>3. records' = [records EXCEPT !.declared = records.declared \/ x.declared,
                                   !.owner = LatestProfile(records.owner, x.owner),
                                   !.policy = Latest(records.policy, x.policy)]
    BY <1>1 DEF ApplyRecords, Applied, AgentRecords
  <1>4. /\ records' \in AgentRecords /\ records'.place = records.place
        /\ records'.declared = (records.declared \/ x.declared)
        /\ records'.owner = LatestProfile(records.owner, x.owner)
        /\ records'.policy = Latest(records.policy, x.policy)
    BY <1>1, <1>2, <1>3 DEF AgentRecords
  <1> QED
    BY <1>1, <1>4 DEF ApplyRecords, user, outsideAgents
LEMMA OtherApplies == ASSUME AgentsInv, ApplyRecords("directory") PROVE AgentsInv'
  <1>1. /\ records' \in AgentRecords /\ TheOther.phase = "apply"
        /\ records'.place = records.place
        /\ records'.declared = (records.declared \/ TheOther.declared)
        /\ records'.owner = LatestProfile(records.owner, TheOther.owner)
        /\ records'.policy = Latest(records.policy, TheOther.policy)
        /\ TheOther.owner \in Says(Owners) /\ TheOther.policy \in Says(Policies)
        /\ records.owner \in Says(Owners) /\ records.policy \in Says(Policies)
        /\ UNCHANGED <<row, mention, relayRecords, revisions, sinceEnter>>
        /\ Phase("directory", Done("read", TRUE))
    BY StoredIs DEF TheOther
  <1>2. /\ Done("read", TRUE) \in Readings /\ Done("read", TRUE).phase = "read"
        /\ Done("read", TRUE).declared = FALSE
    BY ReadingIs DEF Phases
  <1>3. /\ TheOther' \in Readings /\ TheOther'.phase = "read" /\ TheOther'.declared = FALSE
        /\ TheSend' = TheSend
        /\ refreshes' = [u \in {"directory", "send"} |-> refreshes'[u]]
    BY <1>1, <1>2, PhaseIs
  <1>4. /\ TheSend \in Readings /\ TheSend.owner \in Says(Owners)
        /\ TheSend.policy \in Says(Policies)
    BY DEF AgentsInv, AgentsTyped, Readings
  <1>5. /\ TheOther.owner.at \in Nat /\ TheOther.policy.at \in Nat /\ records.owner.at \in Nat
        /\ records.policy.at \in Nat /\ TheSend.owner.at \in Nat /\ TheSend.policy.at \in Nat
    BY <1>1, <1>4 DEF Says
  <1>6. AgentsTyped'
    BY <1>1, <1>3 DEF AgentsInv, AgentsTyped, Sending, TheSend
  <1>7. Leads(TheOther)'
    BY <1>3 DEF Leads, HasOwner
  <1>8. RelayLeads'
    BY <1>1, <1>3, <1>5, <1>7
       DEF AgentsInv, RelayLeads, Leads, HasOwner, Latest, LatestProfile
  <1>9. PlaceSound'
    BY <1>1, <1>3 DEF AgentsInv, SendSound, PlaceSound
  <1>10. OwnerSound'
    BY <1>1, <1>3, <1>5 DEF AgentsInv, SendSound, OwnerSound, HasOwner, Whole, LatestProfile
  <1>11. PolicyRead'
    <2> SUFFICES ASSUME TheSend.phase = "apply", TheSend.owner.is # "none"
        PROVE  /\ TheSend.policy.is \in sinceEnter.policy
               /\ records'.policy.at > TheSend.policy.at =>
                    records'.policy.is \in sinceEnter.policy
               /\ TheSend.policy.is = "none" => PolicyFine(records'.policy)
      BY <1>1, <1>3 DEF PolicyRead, PolicyFine
    <2>1. TheSend.policy.is = "none" => TheSend.policy.at = 0
      BY DEF AgentsInv, RelayLeads, Leads
    <2> QED
      BY <1>1, <1>5, <2>1 DEF AgentsInv, SendSound, PolicyRead, PolicyFine, Latest
  <1>12. PolicyNotRead'
    <2> SUFFICES ASSUME TheSend.phase = "apply", TheSend.owner.is = "none",
                        records'.owner.at > TheSend.owner.at, records'.owner.is # "none"
        PROVE  PolicyFine(records'.policy)
      BY <1>1, <1>3 DEF PolicyNotRead, PolicyFine
    <2>1. ~(records.owner.at > TheSend.owner.at)
      BY <1>1 DEF AgentsInv, SendSound, PolicyNotRead
    <2>2. records'.owner = TheOther.owner
      BY <1>1, <1>5, <2>1 DEF LatestProfile
    <2> QED
      BY <1>1, <1>5, <2>2 DEF AgentsInv, SendSound, PolicyNotRead, PolicyFine, Latest
  <1>13. PolicyStored'
    BY <1>1, <1>3 DEF AgentsInv, SendSound, PolicyStored, Whole, PolicyFine
  <1>14. RowSound'
    BY <1>1, <1>3 DEF AgentsInv, SendSound, RowSound
  <1>15. AbsentSound'
    BY <1>3 DEF AbsentSound
  <1> QED
    BY <1>6, <1>8, <1>9, <1>10, <1>11, <1>12, <1>13, <1>14, <1>15 DEF AgentsInv, SendSound

\* Steps of the send.
LEMMA SendMembers == ASSUME AgentsInv, RefreshMembers("send") PROVE AgentsInv'
  <1>1. PICK x : /\ Phase("send", x) /\ x \in Readings /\ x.declared = FALSE
                 /\ \/ x.phase = "declaration" /\ x.bot = IsBot(records')
                    \/ /\ x.phase = "read" /\ ~x.whole
                       /\ ~IsBot(records') /\ ~Participates(records')
    <2>1. PICK b \in BOOLEAN : b = IsBot(records')
      BY DEF IsBot
    <2>2. \/ Phase("send", [RefreshAt("declaration") EXCEPT !.bot = b])
          \/ /\ Phase("send", Done("read", FALSE))
             /\ ~IsBot(records') /\ ~Participates(records')
      BY <2>1, MembersStored
    <2>3. CASE Phase("send", [RefreshAt("declaration") EXCEPT !.bot = b])
      BY <2>1, <2>3, HoldsBot
    <2>4. CASE /\ Phase("send", Done("read", FALSE))
               /\ ~IsBot(records') /\ ~Participates(records')
      BY <2>4, ReadingIs DEF Phases
    <2> QED
      BY <2>2, <2>3, <2>4
  <1>2. /\ TheSend' = x /\ TheOther' = TheOther
        /\ refreshes' = [u \in {"directory", "send"} |-> refreshes'[u]]
    BY <1>1, PhaseIs
  <1>3. /\ records' \in AgentRecords /\ row' \in AgentRows
        /\ records'.place = relayRecords.place /\ records'.declared = records.declared
        /\ records'.owner = records.owner /\ records'.policy = records.policy
        /\ UNCHANGED <<mention, relayRecords, revisions, sinceEnter>>
    BY MembersStored
  <1>4. TheSend.phase = "members"
    BY DEF RefreshMembers, TheSend
  <1>5. mention \in Rooms
    BY <1>4 DEF AgentsInv, AgentsTyped, Sending, TheSend
  <1>6. AgentsTyped'
    BY <1>1, <1>2, <1>3, <1>5 DEF AgentsInv, AgentsTyped
  <1>7. Leads(TheSend)'
    BY <1>1, <1>2 DEF Leads, HasOwner
  <1>8. RelayLeads'
    BY <1>2, <1>3, <1>7 DEF AgentsInv, RelayLeads, Leads, HasOwner
  <1>9. PlaceSound' /\ OwnerSound' /\ PolicyRead' /\ PolicyNotRead' /\ PolicyStored' /\ RowSound'
    BY <1>1, <1>2, <1>3
       DEF AgentsInv, RelayLeads, PlaceSound, OwnerSound, PolicyRead, PolicyNotRead, PolicyStored,
           RowSound, HasOwner, Whole
  <1>10. AbsentSound'
    BY <1>1, <1>2 DEF AbsentSound, Absent
  <1> QED
    BY <1>6, <1>8, <1>9, <1>10 DEF AgentsInv, SendSound

LEMMA SendDeclaration == ASSUME AgentsInv, ReadDeclaration("send") PROVE AgentsInv'
  <1>1. PICK x : /\ Phase("send", x) /\ x \in Readings
                 /\ x.declared => relayRecords.declared
                 /\ \/ x.phase = "profile"
                    \/ /\ x.phase = "read" /\ ~x.whole
                       /\ ~TheSend.bot /\ ~relayRecords.declared
    <2>1. /\ RefreshAt("profile") \in Readings /\ relayRecords.declared \in BOOLEAN
          /\ Done("read", FALSE) \in Readings /\ Done("read", FALSE).phase = "read"
          /\ ~Done("read", FALSE).whole
          /\ Done("read", FALSE).declared = FALSE /\ RefreshAt("profile").phase = "profile"
      BY ReadingIs DEF Phases, AgentsInv, AgentsTyped, AgentRecords
    <2> DEFINE y == [RefreshAt("profile") EXCEPT !.declared = relayRecords.declared]
    <2>2. y \in Readings /\ y.phase = "profile" /\ y.declared = relayRecords.declared
      BY <2>1 DEF Readings
    <2>3. \/ Phase("send", y)
          \/ /\ Phase("send", Done("read", FALSE))
             /\ ~TheSend.bot /\ ~relayRecords.declared
      BY DEF ReadDeclaration, TheSend
    <2> HIDE DEF y
    <2> QED
      BY <2>1, <2>2, <2>3
  <1>2. /\ TheSend' = x /\ TheOther' = TheOther
        /\ refreshes' = [u \in {"directory", "send"} |-> refreshes'[u]]
    BY <1>1, PhaseIs
  <1>3. UNCHANGED <<records, row, mention, relayRecords, revisions, sinceEnter>>
    BY DEF ReadDeclaration, store, user, outsideAgents
  <1>4. TheSend.phase = "declaration"
    BY DEF ReadDeclaration, TheSend
  <1>5. mention \in Rooms
    BY <1>4 DEF AgentsInv, AgentsTyped, Sending, TheSend
  <1>6. AgentsTyped'
    BY <1>1, <1>2, <1>3, <1>5 DEF AgentsInv, AgentsTyped
  <1>7. Leads(TheSend)'
    BY <1>1, <1>2, <1>3 DEF Leads, HasOwner
  <1>8. RelayLeads'
    BY <1>2, <1>3, <1>7 DEF AgentsInv, RelayLeads, Leads, HasOwner
  <1>9. PlaceSound' /\ OwnerSound' /\ PolicyRead' /\ PolicyNotRead' /\ PolicyStored' /\ RowSound'
    BY <1>1, <1>2, <1>3, <1>4
       DEF AgentsInv, SendSound, PlaceSound, OwnerSound, PolicyRead, PolicyNotRead, PolicyStored,
           RowSound, HasOwner, Whole
  <1>10. AbsentSound'
    BY <1>1, <1>2, <1>3, <1>4 DEF AbsentSound, Absent, AgentsInv, SendSound, RelayLeads, IsBot
  <1> QED
    BY <1>6, <1>8, <1>9, <1>10 DEF AgentsInv, SendSound

LEMMA SendProfile == ASSUME AgentsInv, ReadProfile("send") PROVE AgentsInv'
  <1> DEFINE ph == IF relayRecords.owner.is = "none" THEN "apply" ELSE "policy"
             x == [RefreshAt(ph) EXCEPT !.declared = TheSend.declared, !.owner = relayRecords.owner]
  <1>1. Phase("send", x) /\ TheSend.phase = "profile"
    BY DEF ReadProfile, TheSend
  <1>2. /\ ph \in {"apply", "policy"} /\ (ph = "apply" <=> relayRecords.owner.is = "none")
        /\ relayRecords.owner \in Says(Owners) /\ TheSend.declared \in BOOLEAN
    BY DEF AgentsInv, AgentsTyped, AgentRecords, Readings
  <1>3. /\ x \in Readings /\ x.phase = ph /\ x.declared = TheSend.declared
        /\ x.owner = relayRecords.owner /\ x.policy.is = "none" /\ x.policy.at = 0
    <2> HIDE DEF ph
    <2>1. /\ RefreshAt(ph) \in Readings /\ RefreshAt(ph).phase = ph
          /\ RefreshAt(ph).policy.is = "none" /\ RefreshAt(ph).policy.at = 0
      BY <1>2, ReadingIs DEF Phases, RefreshAt, Dated
    <2> QED
      BY <1>2, <2>1 DEF Readings
  <1> HIDE DEF x, ph
  <1>4. /\ TheSend' = x /\ TheOther' = TheOther
        /\ refreshes' = [u \in {"directory", "send"} |-> refreshes'[u]]
    BY <1>1, PhaseIs
  <1>5. UNCHANGED <<records, row, mention, relayRecords, revisions, sinceEnter>>
    BY DEF ReadProfile, store, user, outsideAgents
  <1>6. /\ relayRecords.owner.at \in Nat /\ relayRecords.policy.at \in Nat
        /\ records.owner.at \in Nat /\ TheOther.owner.at \in Nat
    BY DEF AgentsInv, AgentsTyped, AgentRecords, Says, Readings
  <1>7. AgentsTyped'
    <2>1. mention \in Rooms
      BY <1>1 DEF AgentsInv, AgentsTyped, Sending, TheSend
    <2> QED
      BY <1>3, <1>4, <1>5, <2>1 DEF AgentsInv, AgentsTyped
  <1>8. Leads(TheSend)'
    <2>1. TheSend.declared => relayRecords.declared
      BY DEF AgentsInv, RelayLeads, Leads
    <2> QED
      BY <1>2, <1>3, <1>4, <1>5, <1>6, <2>1 DEF Leads, HasOwner
  <1>9. RelayLeads'
    BY <1>4, <1>5, <1>8 DEF AgentsInv, RelayLeads, Leads, HasOwner
  <1>10. PlaceSound'
    BY <1>1, <1>4, <1>5 DEF AgentsInv, SendSound, PlaceSound
  <1>11. OwnerSound'
    BY <1>2, <1>3, <1>4, <1>5, <1>6
       DEF AgentsInv, OwnerSound, HasOwner, Whole, RelayLeads, Leads
  <1>12. PolicyRead' /\ PolicyStored' /\ RowSound' /\ AbsentSound'
    BY <1>2, <1>3, <1>4, <1>5 DEF PolicyRead, PolicyStored, RowSound, AbsentSound, Whole
  <1>13. PolicyNotRead'
    BY <1>2, <1>3, <1>4, <1>5, <1>6
       DEF AgentsInv, PolicyNotRead, RelayLeads, Leads, HasOwner
  <1> QED
    BY <1>7, <1>9, <1>10, <1>11, <1>12, <1>13 DEF AgentsInv, SendSound
LEMMA SendPolicy == ASSUME AgentsInv, ReadPolicy("send") PROVE AgentsInv'
  <1> DEFINE x == [TheSend EXCEPT !.phase = "apply", !.policy = relayRecords.policy]
  <1>1. Phase("send", x) /\ TheSend.phase = "policy"
    BY DEF ReadPolicy, TheSend
  <1>2. /\ x \in Readings /\ x.phase = "apply" /\ x.declared = TheSend.declared
        /\ x.owner = TheSend.owner /\ x.policy = relayRecords.policy
    BY DEF AgentsInv, AgentsTyped, AgentRecords, Readings, Phases
  <1> HIDE DEF x
  <1>3. /\ TheSend' = x /\ TheOther' = TheOther
        /\ refreshes' = [u \in {"directory", "send"} |-> refreshes'[u]]
    BY <1>1, PhaseIs
  <1>4. UNCHANGED <<records, row, mention, relayRecords, revisions, sinceEnter>>
    BY DEF ReadPolicy, store, user, outsideAgents
  <1>5. /\ relayRecords.policy.at \in Nat /\ records.policy.at \in Nat
        /\ TheOther.policy.at \in Nat
    BY DEF AgentsInv, AgentsTyped, AgentRecords, Says, Readings
  <1>6. TheSend.owner.is # "none"
    BY <1>1 DEF AgentsInv, RelayLeads, Leads, HasOwner
  <1>7. AgentsTyped'
    <2>1. mention \in Rooms
      BY <1>1 DEF AgentsInv, AgentsTyped, Sending, TheSend
    <2> QED
      BY <1>2, <1>3, <1>4, <2>1 DEF AgentsInv, AgentsTyped
  <1>8. Leads(TheSend)'
    BY <1>1, <1>2, <1>3, <1>4, <1>5 DEF Leads, HasOwner, AgentsInv, RelayLeads
  <1>9. RelayLeads'
    BY <1>3, <1>4, <1>8 DEF AgentsInv, RelayLeads, Leads, HasOwner
  <1>10. PlaceSound' /\ OwnerSound'
    BY <1>1, <1>2, <1>3, <1>4
       DEF AgentsInv, SendSound, PlaceSound, OwnerSound, HasOwner, Whole
  <1>11. PolicyRead'
    BY <1>2, <1>3, <1>4, <1>5 DEF AgentsInv, PolicyRead, PolicyFine, RelayLeads, Leads
  <1>12. PolicyNotRead' /\ PolicyStored' /\ RowSound' /\ AbsentSound'
    BY <1>2, <1>3, <1>4, <1>6 DEF PolicyNotRead, PolicyStored, RowSound, AbsentSound, Whole
  <1> QED
    BY <1>7, <1>9, <1>10, <1>11, <1>12 DEF AgentsInv, SendSound

LEMMA SendApplies == ASSUME AgentsInv, ApplyRecords("send") PROVE AgentsInv'
  <1>1. /\ records' \in AgentRecords /\ TheSend.phase = "apply"
        /\ records'.place = records.place
        /\ records'.declared = (records.declared \/ TheSend.declared)
        /\ records'.owner = LatestProfile(records.owner, TheSend.owner)
        /\ records'.policy = Latest(records.policy, TheSend.policy)
        /\ TheSend.owner \in Says(Owners) /\ TheSend.policy \in Says(Policies)
        /\ records.owner \in Says(Owners) /\ records.policy \in Says(Policies)
        /\ UNCHANGED <<row, mention, relayRecords, revisions, sinceEnter>>
        /\ Phase("send", Done("read", TRUE))
    BY StoredIs DEF TheSend
  <1>2. /\ Done("read", TRUE) \in Readings /\ Done("read", TRUE).phase = "read"
        /\ Done("read", TRUE).declared = FALSE /\ Done("read", TRUE).whole
    BY ReadingIs DEF Phases
  <1>3. /\ TheSend' \in Readings /\ TheSend'.phase = "read" /\ TheSend'.declared = FALSE
        /\ TheSend'.whole /\ TheOther' = TheOther
        /\ refreshes' = [u \in {"directory", "send"} |-> refreshes'[u]]
    BY <1>1, <1>2, PhaseIs
  <1>4. /\ TheOther \in Readings /\ TheOther.owner \in Says(Owners)
        /\ TheOther.policy \in Says(Policies)
    BY DEF AgentsInv, AgentsTyped, Readings
  <1>5. /\ TheOther.owner.at \in Nat /\ TheOther.policy.at \in Nat /\ records.owner.at \in Nat
        /\ records.policy.at \in Nat /\ TheSend.owner.at \in Nat /\ TheSend.policy.at \in Nat
    BY <1>1, <1>4 DEF Says
  <1>6. AgentsTyped'
    <2>1. mention \in Rooms
      BY <1>1 DEF AgentsInv, AgentsTyped, Sending, TheSend
    <2> QED
      BY <1>1, <1>3, <2>1 DEF AgentsInv, AgentsTyped
  <1>7. Leads(TheSend)'
    BY <1>3 DEF Leads, HasOwner
  <1>8. RelayLeads'
    BY <1>1, <1>3, <1>5, <1>7
       DEF AgentsInv, RelayLeads, Leads, HasOwner, Latest, LatestProfile
  <1>9. PlaceSound'
    BY <1>1, <1>3 DEF AgentsInv, SendSound, PlaceSound
  <1>10. OwnerSound'
    BY <1>1, <1>3, <1>5 DEF AgentsInv, SendSound, OwnerSound, HasOwner, Whole, LatestProfile
  <1>11. PolicyRead' /\ PolicyNotRead' /\ RowSound' /\ AbsentSound'
    BY <1>3 DEF PolicyRead, PolicyNotRead, RowSound, AbsentSound
  <1>12. PolicyStored'
    <2>1. TheSend.policy.is = "none" => TheSend.policy.at = 0
      BY <1>1 DEF AgentsInv, RelayLeads, Leads
    <2>2. CASE TheSend.owner.is # "none"
      <3>1. PolicyFine(records'.policy) /\ records'.policy.at >= TheSend.policy.at
        BY <1>1, <1>5, <2>1, <2>2 DEF AgentsInv, SendSound, PolicyRead, PolicyFine, Latest
      <3>2. TheOther.phase = "apply" => PolicyFine(Latest(records'.policy, TheOther.policy))
        <4>1. records'.policy.at \in Nat
          BY <1>1 DEF AgentRecords, Says
        <4> QED
          BY <1>1, <1>5, <2>2, <3>1, <4>1
             DEF AgentsInv, SendSound, PolicyRead, PolicyFine, Latest
      <3> QED
        BY <1>1, <1>3, <3>1, <3>2 DEF PolicyStored, PolicyFine
    <2>3. CASE TheSend.owner.is = "none"
      <3>1. records'.policy = records.policy
        BY <1>1, <2>3 DEF AgentsInv, RelayLeads, Leads, Latest
      <3>2. records'.owner.is # "none" =>
              /\ records.owner.at > TheSend.owner.at
              /\ PolicyFine(records.policy) /\ TheOther.phase # "apply"
        BY <1>1, <1>5, <2>3 DEF AgentsInv, SendSound, PolicyNotRead, LatestProfile
      <3>3. ASSUME TheOther.phase = "apply", LatestProfile(records'.owner, TheOther.owner).is # "none"
            PROVE  PolicyFine(Latest(records.policy, TheOther.policy))
        <4>1. /\ TheOther.owner.is # "none" /\ TheOther.owner.at >= records'.owner.at
              /\ records'.owner.at >= TheSend.owner.at
          BY <1>1, <1>5, <3>2, <3>3 DEF LatestProfile
        <4>2. TheOther.owner.at >= TheSend.owner.at
          BY <1>1, <1>5, <4>1 DEF LatestProfile
        <4> QED
          BY <1>1, <2>3, <3>3, <4>1, <4>2
             DEF AgentsInv, SendSound, PolicyNotRead, PolicyFine, Latest
      <3> QED
        BY <1>1, <1>3, <3>1, <3>2, <3>3 DEF PolicyStored, PolicyFine
    <2> QED
      BY <2>2, <2>3
  <1> QED
    BY <1>6, <1>8, <1>9, <1>10, <1>11, <1>12 DEF AgentsInv, SendSound

LEMMA SendReconciles == ASSUME AgentsInv, ReconcileRemoteAgents("send") PROVE AgentsInv'
  <1> DEFINE x == [TheSend EXCEPT !.phase = "refreshed"]
  <1>1. Phase("send", x) /\ TheSend.phase = "read"
    BY DEF ReconcileRemoteAgents, TheSend
  <1>2. /\ x \in Readings /\ x.phase = "refreshed" /\ x.declared = TheSend.declared
        /\ x.whole = TheSend.whole
    BY DEF AgentsInv, AgentsTyped, Readings, Phases
  <1> HIDE DEF x
  <1>3. /\ TheSend' = x /\ TheOther' = TheOther
        /\ refreshes' = [u \in {"directory", "send"} |-> refreshes'[u]]
    BY <1>1, PhaseIs
  <1>4. /\ UNCHANGED <<records, mention, relayRecords, revisions, sinceEnter>>
        /\ row' = Reconciled(records, row)
    BY DEF ReconcileRemoteAgents, user, outsideAgents
  <1>5. /\ row' \in AgentRows
        /\ row'.state = "verified" =>
             /\ row'.owner = records.owner.is /\ row'.owner # "none"
             /\ row'.policy = records.policy.is
             /\ IsBot(records) \/ (Participates(records) /\ records.declared)
    BY <1>4, ReconciledTyped DEF AgentsInv, AgentsTyped
  <1>6. AgentsTyped'
    <2>1. mention \in Rooms
      BY <1>1 DEF AgentsInv, AgentsTyped, Sending, TheSend
    <2> QED
      BY <1>2, <1>3, <1>4, <1>5, <2>1 DEF AgentsInv, AgentsTyped
  <1>7. Leads(TheSend)'
    BY <1>1, <1>2, <1>3, <1>4 DEF Leads, HasOwner, AgentsInv, RelayLeads
  <1>8. RelayLeads'
    BY <1>3, <1>4, <1>7 DEF AgentsInv, RelayLeads, Leads, HasOwner
  <1>9. PlaceSound' /\ OwnerSound' /\ PolicyRead' /\ PolicyNotRead' /\ PolicyStored'
    BY <1>1, <1>2, <1>3, <1>4
       DEF AgentsInv, SendSound, PlaceSound, OwnerSound, PolicyRead, PolicyNotRead, PolicyStored,
           HasOwner, Whole, PolicyFine
  <1>10. RowSound'
    BY <1>1, <1>2, <1>3, <1>4, <1>5
       DEF AgentsInv, SendSound, RowSound, OwnerSound, PolicyStored, Whole, PolicyFine
  <1>11. AbsentSound'
    BY <1>1, <1>2, <1>3, <1>5 DEF AgentsInv, SendSound, AbsentSound, Absent
  <1> QED
    BY <1>6, <1>8, <1>9, <1>10, <1>11 DEF AgentsInv, SendSound
\* The relay's records change, and what was read since Enter stays so.
LEMMA ReviseKeeps == ASSUME AgentsInv, ~Retractable, Revise PROVE AgentsInv'
  <1>1. /\ UNCHANGED <<records, row, refreshes, mention>> /\ TheSend' = TheSend
        /\ TheOther' = TheOther /\ revisions' = revisions + 1
        /\ revisions \in Nat /\ revisions' \in Nat
    BY DEF Revise, store, user, TheSend, TheOther, AgentsInv, AgentsTyped
  <1>2. /\ sinceEnter.place \subseteq sinceEnter'.place
        /\ sinceEnter.owner \subseteq sinceEnter'.owner
        /\ sinceEnter.policy \subseteq sinceEnter'.policy
        /\ relayRecords'.place \in sinceEnter'.place
        /\ relayRecords'.owner.is \in sinceEnter'.owner
        /\ relayRecords'.policy.is \in sinceEnter'.policy
    BY DEF Revise
  <1>3. /\ relayRecords \in AgentRecords /\ relayRecords.owner \in Says(Owners)
        /\ relayRecords.policy \in Says(Policies) /\ relayRecords.place \in [Rooms -> Places]
        /\ relayRecords.declared \in BOOLEAN
    BY DEF AgentsInv, AgentsTyped, AgentRecords
  <1>4. /\ relayRecords' \in AgentRecords
        /\ relayRecords.declared => relayRecords'.declared
        /\ \/ relayRecords'.owner = relayRecords.owner
           \/ relayRecords'.owner.at = revisions + 1
        /\ \/ relayRecords'.policy = relayRecords.policy
           \/ relayRecords'.policy.at = revisions + 1 /\ relayRecords'.policy.is # "none"
    <2>1. CASE \E r \in Rooms, p \in Places :
                 relayRecords' = [relayRecords EXCEPT !.place[r] = p]
      BY <1>3, <2>1 DEF AgentRecords
    <2>2. CASE \E o \in Owners : relayRecords' = [relayRecords EXCEPT !.owner = Dated(o, revisions')]
      <3>1. PICK o \in Owners : relayRecords' = [relayRecords EXCEPT !.owner = Dated(o, revisions')]
        BY <2>2
      <3>2. Dated(o, revisions') \in Says(Owners) /\ Dated(o, revisions').at = revisions + 1
        BY <1>1 DEF Dated, Says
      <3> QED
        BY <1>3, <3>1, <3>2 DEF AgentRecords
    <2>3. CASE \E p \in Policies :
                 /\ p = "none" => Retractable
                 /\ relayRecords' = [relayRecords EXCEPT !.policy = Dated(p, revisions')]
      <3>1. PICK p \in Policies :
              p # "none" /\ relayRecords' = [relayRecords EXCEPT !.policy = Dated(p, revisions')]
        BY <2>3
      <3>2. /\ Dated(p, revisions') \in Says(Policies) /\ Dated(p, revisions').at = revisions + 1
            /\ Dated(p, revisions').is # "none"
        BY <1>1, <3>1 DEF Dated, Says
      <3> QED
        BY <1>3, <3>1, <3>2 DEF AgentRecords
    <2>4. CASE relayRecords' = [relayRecords EXCEPT !.declared = TRUE]
      BY <1>3, <2>4 DEF AgentRecords
    <2> QED
      BY <2>1, <2>2, <2>3, <2>4 DEF Revise, Replaced
  <1>5. /\ relayRecords.owner.at \in Nat /\ relayRecords.policy.at \in Nat
        /\ relayRecords'.owner.at \in Nat /\ relayRecords'.policy.at \in Nat
        /\ records.owner.at \in Nat /\ records.policy.at \in Nat
        /\ TheSend.owner.at \in Nat /\ TheSend.policy.at \in Nat
        /\ TheOther.owner.at \in Nat /\ TheOther.policy.at \in Nat
    BY <1>4 DEF AgentsInv, AgentsTyped, AgentRecords, Readings, Says
  <1>6. AgentsTyped'
    BY <1>1, <1>4 DEF AgentsInv, AgentsTyped, Sending, TheSend, TheOther
  <1>7. /\ relayRecords.owner.at <= revisions /\ relayRecords.policy.at <= revisions
        /\ relayRecords.policy.is = "none" => relayRecords.policy.at = 0
        /\ records.owner.at <= relayRecords.owner.at /\ records.policy.at <= relayRecords.policy.at
    BY DEF AgentsInv, RelayLeads
  <1>8. Leads(TheSend)'
    BY <1>1, <1>4, <1>5, <1>7 DEF AgentsInv, RelayLeads, Leads, HasOwner
  <1>9. Leads(TheOther)'
    BY <1>1, <1>4, <1>5, <1>7 DEF AgentsInv, RelayLeads, Leads, HasOwner
  <1>10. RelayLeads'
    BY <1>1, <1>2, <1>4, <1>5, <1>7, <1>8, <1>9 DEF AgentsInv, RelayLeads
  <1>11. PlaceSound' /\ OwnerSound'
    BY <1>1, <1>2 DEF AgentsInv, SendSound, PlaceSound, OwnerSound, HasOwner, Whole
  <1>12. PolicyRead' /\ PolicyNotRead' /\ PolicyStored'
    BY <1>1, <1>2 DEF AgentsInv, SendSound, PolicyRead, PolicyNotRead, PolicyStored, PolicyFine, Whole
  <1>13. RowSound' /\ AbsentSound'
    BY <1>1, <1>2 DEF AgentsInv, SendSound, RowSound, AbsentSound, Absent, IsBot, Participates
  <1> QED
    BY <1>6, <1>10, <1>11, <1>12, <1>13 DEF AgentsInv, SendSound

LEMMA StaleKeeps == ASSUME AgentsInv, GrowStale PROVE AgentsInv'
  <1>1. /\ row' \in AgentRows /\ row'.state = row.state /\ row'.owner = row.owner
        /\ row'.policy = row.policy
    BY DEF GrowStale, AgentsInv, AgentsTyped, AgentRows
  <1>2. /\ UNCHANGED <<records, refreshes, mention, relayRecords, revisions, sinceEnter>>
        /\ TheSend' = TheSend /\ TheOther' = TheOther
    BY DEF GrowStale, user, outsideAgents, TheSend, TheOther
  <1>3. AgentsTyped' /\ RelayLeads'
    BY <1>1, <1>2 DEF AgentsInv, AgentsTyped, RelayLeads, Leads, HasOwner, Sending
  <1>4. SendSound'
    BY <1>1, <1>2
       DEF AgentsInv, SendSound, PlaceSound, OwnerSound, PolicyRead, PolicyNotRead, PolicyStored,
           RowSound, AbsentSound, Absent, IsBot, Participates, PolicyFine, HasOwner, Whole
  <1> QED
    BY <1>3, <1>4 DEF AgentsInv

LEMMA AgentsStart == AgentsInit => AgentsInv
  <1> SUFFICES ASSUME AgentsInit PROVE AgentsInv
    OBVIOUS
  <1>1. FirstRecords = relayRecords /\ records = NoRecords /\ row = NoRow /\ revisions = 0
        /\ mention = Nowhere /\ sinceEnter = Seen(FirstRecords)
    BY DEF AgentsInit
  <1>2. /\ TheSend = Idle /\ TheOther = Idle
        /\ refreshes = [t \in {"directory", "send"} |-> refreshes[t]]
    BY DEF AgentsInit, TheSend, TheOther
  <1>3. Idle \in Readings /\ Idle.phase = "idle" /\ Idle.declared = FALSE
    BY ReadingIs DEF Idle, Phases
  <1>4. records \in AgentRecords /\ row \in AgentRows
    <2>1. /\ Dated("none", 0) \in Says(Owners) /\ Dated("none", 0) \in Says(Policies)
          /\ [r \in Rooms |-> "no"] \in [Rooms -> Places]
      BY DEF Dated, Says, Owners, Policies, Places
    <2> QED
      BY <1>1, <2>1 DEF NoRecords, NoRow, AgentRecords, AgentRows, Owners, Policies
  <1>5. relayRecords \in AgentRecords /\ relayRecords.owner.at = 0 /\ relayRecords.policy.at = 0
    <2> DEFINE none(values) == [is : values, at : {0}]
    <2>1. /\ FirstRecords.place \in [Rooms -> Places] /\ FirstRecords.declared \in BOOLEAN
          /\ FirstRecords.owner \in none(Owners) /\ FirstRecords.policy \in none(Policies)
          /\ FirstRecords = [place |-> FirstRecords.place, owner |-> FirstRecords.owner,
                             declared |-> FirstRecords.declared, policy |-> FirstRecords.policy]
      BY AgentsAssumption DEF Rooms, Places, Owners, Policies
    <2>2. /\ FirstRecords.owner \in Says(Owners) /\ FirstRecords.owner.at = 0
          /\ FirstRecords.policy \in Says(Policies) /\ FirstRecords.policy.at = 0
      BY <2>1 DEF Says
    <2> QED
      BY <1>1, <2>1, <2>2 DEF AgentRecords
  <1>6. AgentsTyped
    BY <1>1, <1>2, <1>3, <1>4, <1>5 DEF AgentsTyped, Sending, TheSend
  <1>7. Leads(Idle)
    BY <1>3 DEF Leads, HasOwner
  <1>8. RelayLeads
    BY <1>1, <1>2, <1>5, <1>7 DEF RelayLeads, NoRecords, Dated, Seen
  <1>9. SendSound
    BY <1>2, <1>3, SendUnread
  <1> QED
    BY <1>6, <1>8, <1>9 DEF AgentsInv

\* Every step but a withdrawal keeps the invariant.
LEMMA AgentsStep ==
    ASSUME AgentsInv, ~Retractable, [AgentsNext]_agentVars PROVE AgentsInv'
  <1>1. CASE UNCHANGED agentVars
    BY <1>1 DEF agentVars, AgentsInv, AgentsTyped, RelayLeads, SendSound, PlaceSound, OwnerSound,
                PolicyRead, PolicyNotRead, PolicyStored, RowSound, AbsentSound, Absent, IsBot,
                Participates, PolicyFine, HasOwner, Whole, Leads, Sending, TheSend, TheOther
  <1>2. CASE \E t \in DOMAIN refreshes :
               \/ RefreshFails(t) \/ RefreshMembers(t) \/ ReadDeclaration(t) \/ ReadProfile(t)
               \/ ReadPolicy(t) \/ ApplyRecords(t) \/ ReconcileRemoteAgents(t)
    <2>1. DOMAIN refreshes = {"directory", "send"}
      BY DEF AgentsInv, AgentsTyped
    <2>2. CASE \/ RefreshFails("directory") \/ ReadDeclaration("directory")
               \/ ReconcileRemoteAgents("directory")
      BY <2>2, OtherReads
    <2>3. CASE \/ RefreshMembers("directory") \/ ReadProfile("directory")
               \/ ReadPolicy("directory") \/ ApplyRecords("directory")
      BY <2>3, OtherMembers, OtherProfile, OtherPolicy, OtherApplies
    <2>4. CASE \/ RefreshFails("send") \/ RefreshMembers("send") \/ ReadDeclaration("send")
               \/ ReadProfile("send")
      BY <2>4, SendEnds, SendMembers, SendDeclaration, SendProfile
    <2>5. CASE ReadPolicy("send") \/ ApplyRecords("send") \/ ReconcileRemoteAgents("send")
      BY <2>5, SendPolicy, SendApplies, SendReconciles
    <2> QED
      BY <1>2, <2>1, <2>2, <2>3, <2>4, <2>5
  <1>3. CASE OpenAgents \/ AgentsLoaded \/ CloseAgents
    BY <1>3, OverlayKeeps
  <1>4. CASE LiveMembership \/ (\E r \in Rooms : MentionSelectedAgent(r))
    BY <1>4, UserKeeps
  <1>5. CASE Enter \/ SendMention
    BY <1>5, EnterKeeps, SendEnds
  <1>6. CASE Revise \/ GrowStale
    BY <1>6, ReviseKeeps, StaleKeeps
  <1> QED
    BY <1>1, <1>2, <1>3, <1>4, <1>5, <1>6 DEF AgentsNext

\* A mention leaves by the end of its send alone.
LEMMA OnlySendLeaves ==
    ASSUME AgentsInv, [AgentsNext]_agentVars, Leaves
    PROVE  /\ TheSend.phase = "refreshed" /\ ValidateAgentMentions(mention)
           /\ sent'.room = mention /\ mention \in Rooms
  <1>1. CASE SendMention
    BY <1>1 DEF SendMention, Leaves, Refreshed, TheSend, AgentsInv, AgentsTyped, Sending
  <1>2. CASE Enter
    BY <1>2 DEF Enter, Leaves
  <1>3. CASE \E r \in Rooms : MentionSelectedAgent(r)
    BY <1>3 DEF MentionSelectedAgent, Leaves
  <1>4. CASE UNCHANGED <<mention, sent>>
    BY <1>4 DEF Leaves
  <1> QED
    <2>1. ASSUME NEW t, \/ RefreshFails(t) \/ RefreshMembers(t) \/ ReadDeclaration(t)
                        \/ ReadProfile(t) \/ ReadPolicy(t) \/ ApplyRecords(t)
                        \/ ReconcileRemoteAgents(t)
          PROVE  UNCHANGED <<mention, sent>>
      BY <2>1 DEF RefreshFails, RefreshMembers, ReadDeclaration, ReadProfile, ReadPolicy,
                  ApplyRecords, ReconcileRemoteAgents, user
    <2>2. CASE LiveMembership \/ OpenAgents \/ AgentsLoaded \/ CloseAgents
      BY <1>4, <2>2 DEF LiveMembership, OpenAgents, AgentsLoaded, CloseAgents, user
    <2>3. CASE Revise \/ GrowStale \/ UNCHANGED agentVars
      BY <1>4, <2>3 DEF Revise, GrowStale, agentVars, user
    <2> QED
      BY <1>1, <1>2, <1>3, <1>4, <2>1, <2>2, <2>3 DEF AgentsNext

\* A mention of a known agent leaves only if each public record allows it as the
\* relay had it at some moment after Enter, save for an agent that another refresh
\* brings back after the send's own found it gone: for every set of rooms, every
\* number of revisions and every interleaving of the two refreshes, as long as the
\* owner withdraws no policy (app.rs, send_message; sync/directory.rs,
\* refresh_agents).
THEOREM RevokedCorrect == ASSUME ~Retractable PROVE AgentsSpec => RevokedIsRefused
  <1>1. AgentsInit => AgentsInv
    BY AgentsStart
  <1>2. AgentsInv /\ [AgentsNext]_agentVars => AgentsInv'
    BY AgentsStep
  <1>3. AgentsInv /\ [AgentsNext]_agentVars =>
          [Leaves => /\ WasInRoom(sent'.room)
                     /\ WasAllowed(sent'.room) \/ BroughtBack]_agentVars
    <2> SUFFICES ASSUME AgentsInv, [AgentsNext]_agentVars, Leaves
        PROVE  WasInRoom(mention) /\ (WasAllowed(mention) \/ BroughtBack)
      BY OnlySendLeaves
    <2>1. /\ TheSend.phase = "refreshed" /\ ValidateAgentMentions(mention) /\ mention \in Rooms
      BY OnlySendLeaves
    <2>2. WasInRoom(mention)
      BY <2>1 DEF AgentsInv, SendSound, PlaceSound, ValidateAgentMentions, WasInRoom
    <2>3. /\ row.state = "verified"
          /\ mention \in DirectRooms => row.owner = "mine"
          /\ Evaluate(row.owner, row.policy, mention \in DirectRooms) = "eligible"
      <3>1. PICK agent \in ListRemoteAgents(FALSE) :
              /\ mention \in DirectRooms => agent.owner = "mine"
              /\ Evaluate(agent.owner, row.policy, mention \in DirectRooms) = "eligible"
        BY <2>1 DEF ValidateAgentMentions
      <3>2. row.state = "verified" /\ agent.owner = row.owner
        <4> DEFINE e == IF row.stale THEN "ineligible" ELSE Evaluate(row.owner, row.policy, FALSE)
        <4>1. row.state = "verified"
          BY <3>1 DEF ListRemoteAgents
        <4>2. agent \in {[rooms |-> RoomsOf(records), owner |-> row.owner, eligibility |-> e]}
          BY <3>1 DEF ListRemoteAgents
        <4> HIDE DEF e
        <4> QED
          BY <4>1, <4>2
      <3> QED
        BY <3>1, <3>2
    <2>4. \/ row.owner = "mine"
          \/ row.owner # "mine" /\ mention \in Channels /\ row.policy \in {"lists me", "anyone"}
      BY <2>1, <2>3 DEF Evaluate, Rooms
    <2>5. CASE TheSend.whole
      <3>1. row.owner # "none" /\ row.owner \in sinceEnter.owner
            /\ (row.policy = "none" \/ row.policy \in sinceEnter.policy) /\ row \in AgentRows
        BY <2>1, <2>3, <2>5 DEF AgentsInv, SendSound, RowSound, AgentsTyped
      <3> QED
        BY <2>2, <2>4, <3>1 DEF WasAllowed, AgentRows, Owners
    <2>6. CASE ~TheSend.whole
      BY <2>1, <2>2, <2>3, <2>6 DEF AgentsInv, SendSound, AbsentSound, BroughtBack, TheSend, TheOther
    <2> QED
      BY <2>5, <2>6
  <1> QED
    BY <1>1, <1>2, <1>3, PTL DEF AgentsSpec, RevokedIsRefused

-----------------------------------------------------------------------------
(* History *)

Cursors == [at : Nat, id : Nat]
PassRows ==
    [stage : {"idle", "cursor", "cached", "page", "references", "store", "apply", "save"},
     mark : Cursors, newest : Cursors, below : Cursors,
     batch : SUBSET Events, want : SUBSET Events, got : SUBSET Events, pages : Nat,
     resync : BOOLEAN, inSession : BOOLEAN, seen : SUBSET Events, owed : SUBSET Events]

HistoryTypeOK ==
    /\ relayHolds \in SUBSET Events /\ IsFiniteSet(relayHolds)
    /\ references \in SUBSET relayHolds
    /\ late \in SUBSET Events /\ fetched \in SUBSET Events /\ auxiliary \in SUBSET Events
    /\ cursor \in Cursors /\ online \in BOOLEAN /\ since \in Nat /\ caught \in BOOLEAN
    /\ inbound \in SUBSET relayHolds
    /\ online => since # 0

\* The relay has come to time t, so what it takes in order from now on is not older.
Reached(t) == t <= 1 \/ \E f \in relayHolds : Second[f] >= t

InPage(r) == r.stage \in {"store", "references", "apply"}

\* What the pages still to come will bring.
Ahead(r, e) ==
    \/ r.stage \in {"cursor", "cached"}
    \/ r.stage = "page" /\ (r.below = NoCursor \/ PageOrder(r.below, Key(e)))
    \/ InPage(r) /\ \A f \in r.batch : PageOrder(Key(f), Key(e))

\* What a pass promises: what came in order and is older than its newest event, or
\* beside the subscription of its session; and all of it if no cursor was there.
Owes(r, e) ==
    /\ e \in relayHolds
    /\ \/ e \notin late /\ Second[e] < r.newest.at
       \/ e \notin late /\ r.inSession /\ e \notin inbound
       \/ r.mark = NoCursor /\ e \in r.seen \cup r.owed

RowShape(r) ==
    /\ r.batch \subseteq relayHolds /\ r.seen \subseteq relayHolds /\ r.owed \subseteq references
    /\ r.inSession => online
    /\ r.stage \in {"cursor", "cached"} => r.below = NoCursor /\ r.batch = {}
    /\ InPage(r) /\ r.batch = {} => r.below = NoCursor /\ r.stage # "store"
    /\ Reached(r.mark.at) /\ Reached(r.newest.at)
    /\ InPage(r) => \A f \in r.batch : Second[f] <= r.newest.at
    /\ r.stage = "page" => r.below.at <= r.newest.at

Watermark(r) == \A e \in relayHolds \ late : Second[e] < r.mark.at => e \in fetched

\* What a pass promises is ahead of it, stored, or in its hands.
Accounted(r) ==
    \A e \in relayHolds : Owes(r, e) =>
        Ahead(r, e) \/ e \in fetched \/ (r.stage = "store" /\ e \in r.batch)

\* After a short page nothing promised is ahead.
Short(r) ==
    InPage(r) /\ r.batch # {} /\ Cardinality(r.batch) < PageSize =>
        /\ \A e \in relayHolds : Owes(r, e) /\ Ahead(r, e) => e \in fetched
        /\ r.mark = NoCursor => \A e \in r.seen \cup r.owed : ~Ahead(r, e)

Answered(r) ==
    \A e \in r.owed :
        \/ e \in auxiliary
        \/ r.stage = "cursor"
        \/ r.stage = "cached" /\ e \in fetched
        \/ r.stage = "store" /\ e \in r.batch
        \/ r.stage = "references" /\ e \in r.want
        \/ r.stage = "apply" /\ e \in r.got
        \/ r.mark = NoCursor /\ Ahead(r, e)

RowInv(r) ==
    r.stage # "idle" => RowShape(r) /\ Watermark(r) /\ Accounted(r) /\ Short(r) /\ Answered(r)

GoodRows == {r \in PassRows : RowInv(r)}

HistoryInv ==
    /\ HistoryTypeOK
    /\ Reached(cursor.at) /\ Reached(since)
    /\ NoHole
    /\ online /\ caught => relayHolds \ late \subseteq fetched \cup inbound
    /\ pass \in [Passes -> GoodRows]

-----------------------------------------------------------------------------
(* Pages *)

\* A finite set has a first element in any strict order.
LEMMA FirstThereIs ==
    ASSUME NEW T, IsFiniteSet(T), T # {}, NEW R,
           \A x \in T : <<x, x>> \notin R,
           \A x, y, z \in T : <<x, y>> \in R /\ <<y, z>> \in R => <<x, z>> \in R
    PROVE  \E x \in T : \A y \in T : <<y, x>> \notin R
  <1> DEFINE Before(x) == {z \in T : <<z, x>> \in R}
             Ranks == {Cardinality(Before(x)) : x \in T}
  <1>1. \A x \in T : IsFiniteSet(Before(x)) /\ Cardinality(Before(x)) \in Nat
    <2> TAKE x \in T
    <2>1. Before(x) \subseteq T
      OBVIOUS
    <2> QED
      BY <2>1, FS_Subset, FS_CardinalityType
  <1>2. Ranks \in SUBSET Nat /\ Ranks # {} /\ \A x \in T : Cardinality(Before(x)) \in Ranks
    <2> HIDE DEF Before
    <2>1. \A x \in T : Cardinality(Before(x)) \in Nat
      BY <1>1
    <2> QED
      BY <2>1
  <1>3. PICK m \in Ranks : \A n \in Ranks : <<n, m>> \notin OpToRel(<, Nat)
    BY <1>2, WFMin, NatLessThanWellFounded, Zenon
  <1>4. \A n \in Ranks : ~(n < m)
    BY <1>2, <1>3, Zenon DEF OpToRel
  <1>5. PICK x \in T : m = Cardinality(Before(x))
    OBVIOUS
  <1>6. ASSUME NEW y \in T, <<y, x>> \in R PROVE FALSE
    <2>1. Before(y) \subseteq Before(x)
      BY <1>5, <1>6
    <2>2. y \in Before(x) /\ y \notin Before(y)
      BY <1>6
    <2>3. Cardinality(Before(y)) < Cardinality(Before(x))
      <3> HIDE DEF Before
      <3>1. Cardinality(Before(y)) <= Cardinality(Before(x))
        BY <1>1, <2>1, FS_Subset
      <3>2. Cardinality(Before(y)) # Cardinality(Before(x))
        BY <1>1, <2>1, <2>2, FS_Subset
      <3> QED
        BY <1>1, <3>1, <3>2
    <2> QED
      BY <1>2, <1>4, <1>5, <2>3
  <1> QED
    BY <1>6

LEMMA PageOrderIs ==
    ASSUME NEW e \in Events, NEW f \in Events, NEW g \in Events
    PROVE  /\ ~PageOrder(Key(e), Key(e))
           /\ e # f => PageOrder(Key(e), Key(f)) \/ PageOrder(Key(f), Key(e))
           /\ PageOrder(Key(e), Key(f)) => Second[e] >= Second[f]
           /\ PageOrder(Key(e), Key(f)) /\ PageOrder(Key(f), Key(g)) => PageOrder(Key(e), Key(g))
           /\ Key(e).at = Second[e] /\ Key(e) # NoCursor /\ Key(e) \in Cursors
           /\ Second[e] \in Nat /\ Second[e] >= 1
  <1>1. e \in Nat /\ f \in Nat /\ g \in Nat /\ Second[e] \in Nat /\ Second[f] \in Nat
        /\ Second[g] \in Nat /\ Second[e] # 0
    BY BackfillAssumption
  <1> QED
    BY <1>1 DEF PageOrder, Key, NoCursor, Cursors

\* The order of pages on a cursor and events behind it.
LEMMA BelowIs ==
    ASSUME NEW c \in Cursors, NEW e \in Events, NEW f \in Events
    PROVE  /\ PageOrder(c, Key(e)) /\ PageOrder(Key(e), Key(f)) => PageOrder(c, Key(f))
           /\ PageOrder(c, Key(e)) => c.at >= Second[e]
  <1>1. e \in Nat /\ f \in Nat /\ Second[e] \in Nat /\ Second[f] \in Nat
        /\ c.at \in Nat /\ c.id \in Nat
    BY BackfillAssumption DEF Cursors
  <1> QED
    BY <1>1 DEF PageOrder, Key

LEMMA LastOfBatch ==
    ASSUME NEW B \in SUBSET Events, IsFiniteSet(B), B # {}
    PROVE  \E e \in B : \A f \in B \ {e} : PageOrder(Key(f), Key(e))
  <1> DEFINE R == {x \in Events \X Events : PageOrder(Key(x[2]), Key(x[1]))}
  <1>1. \A x, y \in B : <<x, y>> \in R <=> PageOrder(Key(y), Key(x))
    OBVIOUS
  <1> HIDE DEF R
  <1>2. \A x \in B : <<x, x>> \notin R
    BY <1>1, PageOrderIs
  <1>3. ASSUME NEW x \in B, NEW y \in B, NEW z \in B, <<x, y>> \in R, <<y, z>> \in R
        PROVE  <<x, z>> \in R
    <2>1. PageOrder(Key(y), Key(x)) /\ PageOrder(Key(z), Key(y))
      BY <1>1, <1>3
    <2>2. PageOrder(Key(z), Key(x))
      BY <2>1, PageOrderIs
    <2> QED
      BY <1>1, <2>2
  <1>4. PICK e \in B : \A y \in B : <<y, e>> \notin R
    BY <1>2, <1>3, FirstThereIs, Zenon
  <1>5. ASSUME NEW f \in B \ {e} PROVE PageOrder(Key(f), Key(e))
    <2>1. ~PageOrder(Key(e), Key(f))
      BY <1>1, <1>4, <1>5
    <2> QED
      BY <1>5, <2>1, PageOrderIs
  <1> QED
    BY <1>5

LEMMA NewestOfPage ==
    ASSUME NEW B \in SUBSET Events, IsFiniteSet(B), B # {}
    PROVE  \E e \in B : \A f \in B : Second[f] < Second[e] \/ (Second[f] = Second[e] /\ f <= e)
  <1> DEFINE Beyond(x, y) == Second[x] > Second[y] \/ (Second[x] = Second[y] /\ x > y)
             R == {x \in Events \X Events : Beyond(x[1], x[2])}
  <1>1. \A x, y \in B : <<x, y>> \in R <=> Beyond(x, y)
    OBVIOUS
  <1> HIDE DEF R
  <1>2. \A x \in Events : x \in Nat /\ Second[x] \in Nat
    BY BackfillAssumption
  <1>3. \A x \in B : <<x, x>> \notin R
    BY <1>1, <1>2
  <1>4. \A x, y, z \in B : <<x, y>> \in R /\ <<y, z>> \in R => <<x, z>> \in R
    BY <1>1, <1>2
  <1>5. PICK e \in B : \A y \in B : <<y, e>> \notin R
    BY <1>3, <1>4, FirstThereIs, Zenon
  <1>6. ASSUME NEW f \in B
        PROVE  Second[f] < Second[e] \/ (Second[f] = Second[e] /\ f <= e)
    <2>1. ~Beyond(f, e)
      BY <1>1, <1>5
    <2> QED
      BY <1>2, <2>1
  <1> QED
    BY <1>6

\* What is left out of a page comes after all of it, and nothing is left out of a short one.
LEMMA FirstIs ==
    ASSUME NEW S \in SUBSET Events, IsFiniteSet(S), NEW n \in Nat \ {0}
    PROVE  /\ First(n, S) \in SUBSET S
           /\ \A e \in First(n, S), f \in S \ First(n, S) : PageOrder(Key(e), Key(f))
           /\ Cardinality(First(n, S)) < n => First(n, S) = S
           /\ First(n, S) = {} => S = {}
  <1> DEFINE Before(e) == {f \in S : PageOrder(Key(f), Key(e))}
             F == First(n, S)
  <1>1. F = {e \in S : Cardinality(Before(e)) < n}
    BY DEF First
  <1>2. F \in SUBSET S
    BY <1>1
  <1>3. \A e \in S : IsFiniteSet(Before(e)) /\ Cardinality(Before(e)) \in Nat
    <2> TAKE e \in S
    <2>1. Before(e) \subseteq S
      OBVIOUS
    <2> QED
      BY <2>1, FS_Subset, FS_CardinalityType
  <1> HIDE DEF F
  <1>4. ASSUME NEW e \in F, NEW f \in S \ F PROVE PageOrder(Key(e), Key(f))
    <2>1. Cardinality(Before(e)) < n /\ ~(Cardinality(Before(f)) < n) /\ e # f
      BY <1>1, <1>4
    <2>2. ASSUME PageOrder(Key(f), Key(e)) PROVE FALSE
      <3>1. \A g \in Before(f) : PageOrder(Key(g), Key(e))
        BY <1>2, <2>2, PageOrderIs
      <3>2. Before(f) \subseteq Before(e)
        BY <3>1
      <3> HIDE DEF Before
      <3>3. Cardinality(Before(f)) <= Cardinality(Before(e))
        BY <1>2, <1>3, <3>2, FS_Subset
      <3>4. Cardinality(Before(f)) \in Nat /\ Cardinality(Before(e)) \in Nat
        BY <1>2, <1>3
      <3> QED
        BY <2>1, <3>3, <3>4
    <2> QED
      BY <1>2, <2>1, <2>2, PageOrderIs
  <1>5. ASSUME Cardinality(F) < n, S # F PROVE FALSE
    <2> DEFINE T == S \ F
               R == {x \in Events \X Events : PageOrder(Key(x[1]), Key(x[2]))}
    <2>1. T # {} /\ T \in SUBSET Events
      BY <1>2, <1>5
    <2>2. IsFiniteSet(T) /\ IsFiniteSet(F)
      BY <1>2, FS_Subset
    <2>3. \A x, y \in T : <<x, y>> \in R <=> PageOrder(Key(x), Key(y))
      OBVIOUS
    <2> HIDE DEF R
    <2>4. \A x \in T : <<x, x>> \notin R
      BY <2>1, <2>3, PageOrderIs
    <2>5. ASSUME NEW x \in T, NEW y \in T, NEW z \in T, <<x, y>> \in R, <<y, z>> \in R
          PROVE  <<x, z>> \in R
      <3>1. PageOrder(Key(x), Key(y)) /\ PageOrder(Key(y), Key(z))
        BY <2>3, <2>5
      <3>2. PageOrder(Key(x), Key(z))
        BY <2>1, <3>1, PageOrderIs
      <3> QED
        BY <2>3, <3>2
    <2>6. PICK e \in T : \A y \in T : <<y, e>> \notin R
      <3> HIDE DEF T
      <3> QED
        BY <2>1, <2>2, <2>4, <2>5, FirstThereIs, Zenon
    <2>7. Before(e) \subseteq F
      BY <2>3, <2>6
    <2>8. Cardinality(Before(e)) <= Cardinality(F) /\ Cardinality(F) \in Nat
      <3> HIDE DEF Before
      <3> QED
        BY <2>2, <2>7, FS_Subset, FS_CardinalityType
    <2>9. Cardinality(Before(e)) < n
      <3> HIDE DEF Before
      <3> QED
        BY <1>3, <1>5, <2>8
    <2> QED
      BY <1>1, <2>9
  <1>6. ASSUME F = {} PROVE S = {}
    <2>1. Cardinality(F) < n
      BY <1>6, FS_EmptySet
    <2> QED
      BY <1>5, <1>6, <2>1
  <1> QED
    BY <1>2, <1>4, <1>5, <1>6 DEF F

-----------------------------------------------------------------------------
(* Passes beside a step of something else *)

LEMMA RowFrame ==
    ASSUME NEW r, RowInv(r),
           relayHolds' = relayHolds, late' = late, references \subseteq references',
           fetched \subseteq fetched', auxiliary \subseteq auxiliary',
           \A e \in inbound \ inbound' : e \in fetched', online' = online
    PROVE  RowInv(r)'
  <1> SUFFICES ASSUME r.stage # "idle" PROVE RowInv(r)'
    BY DEF RowInv
  <1>1. RowShape(r) /\ Watermark(r) /\ Accounted(r) /\ Short(r) /\ Answered(r)
    BY DEF RowInv
  <1>2. RowShape(r)'
    BY <1>1 DEF RowShape, Reached, InPage
  <1>3. Watermark(r)'
    BY <1>1 DEF Watermark
  <1>4. \A e \in relayHolds : Owes(r, e)' => Owes(r, e) \/ e \in fetched'
    BY DEF Owes
  <1>5. \A e : Ahead(r, e)' <=> Ahead(r, e)
    BY DEF Ahead, InPage
  <1>6. Accounted(r)'
    BY <1>1, <1>4, <1>5 DEF Accounted
  <1>7. Short(r)'
    BY <1>1, <1>4, <1>5 DEF Short, InPage
  <1>8. Answered(r)'
    BY <1>1, <1>5 DEF Answered
  <1> QED
    BY <1>2, <1>3, <1>6, <1>7, <1>8 DEF RowInv

\* What comes in order is promised by nobody yet.
LEMMA RowAccepts ==
    ASSUME HistoryTypeOK, Reached(since), NEW r \in PassRows, RowInv(r),
           NEW a \in Events, RelayAccepts(a)
    PROVE  RowInv(r)'
  <1> SUFFICES ASSUME r.stage # "idle" PROVE RowInv(r)'
    BY DEF RowInv
  <1>1. RowShape(r) /\ Watermark(r) /\ Accounted(r) /\ Short(r) /\ Answered(r)
    BY DEF RowInv
  <1>2. /\ a \notin relayHolds /\ relayHolds' = relayHolds \cup {a}
        /\ late \subseteq late' /\ late' \subseteq late \cup {a}
        /\ a \notin late' => \A f \in relayHolds : ~(Second[f] > Second[a])
        /\ inbound \subseteq inbound' /\ online' = online
        /\ a \notin inbound' => ~online \/ ~(Second[a] >= since)
        /\ UNCHANGED <<references, fetched, auxiliary, cursor, since, caught>>
    BY DEF RelayAccepts
  <1>3. /\ r.mark.at \in Nat /\ r.newest.at \in Nat /\ since \in Nat
        /\ \A f \in Events : Second[f] \in Nat /\ Second[f] >= 1
        /\ relayHolds \subseteq Events
    BY PageOrderIs DEF HistoryTypeOK, PassRows, Cursors
  <1>4. ASSUME a \notin late', NEW t \in Nat, Reached(t) PROVE Second[a] >= t
    BY <1>2, <1>3, <1>4 DEF Reached
  <1>5. \A e : Ahead(r, e)' <=> Ahead(r, e)
    BY DEF Ahead, InPage
  <1>6. RowShape(r)'
    BY <1>1, <1>2 DEF RowShape, Reached, InPage
  <1>7. Watermark(r)'
    <2>1. a \notin late' => ~(Second[a] < r.mark.at)
      BY <1>1, <1>3, <1>4 DEF RowShape
    <2> QED
      BY <1>1, <1>2, <2>1 DEF Watermark
  <1>8. ~Owes(r, a)'
    <2>1. a \notin late' => ~(Second[a] < r.newest.at)
      BY <1>1, <1>3, <1>4 DEF RowShape
    <2>2. a \notin late' /\ r.inSession => a \in inbound'
      BY <1>1, <1>2, <1>3, <1>4 DEF RowShape
    <2>3. a \notin r.seen \cup r.owed
      BY <1>1, <1>2 DEF RowShape, HistoryTypeOK
    <2> QED
      BY <2>1, <2>2, <2>3 DEF Owes
  <1>9. \A e \in relayHolds : Owes(r, e)' => Owes(r, e)
    BY <1>2 DEF Owes
  <1>10. Accounted(r)'
    BY <1>1, <1>2, <1>5, <1>8, <1>9 DEF Accounted
  <1>11. Short(r)'
    BY <1>1, <1>2, <1>5, <1>8, <1>9 DEF Short, InPage
  <1>12. Answered(r)'
    BY <1>1, <1>2, <1>5 DEF Answered
  <1> QED
    BY <1>6, <1>7, <1>10, <1>11, <1>12 DEF RowInv

\* A pass that outlives its session promises less.
LEMMA RowLoses ==
    ASSUME NEW r \in PassRows, RowInv(r),
           UNCHANGED <<relayState, fetched, auxiliary>>
    PROVE  RowInv([r EXCEPT !.inSession = FALSE])'
  <1> DEFINE q == [r EXCEPT !.inSession = FALSE]
  <1>0. /\ q.stage = r.stage /\ q.mark = r.mark /\ q.newest = r.newest /\ q.below = r.below
        /\ q.batch = r.batch /\ q.want = r.want /\ q.got = r.got /\ q.seen = r.seen
        /\ q.owed = r.owed /\ q.inSession = FALSE
    BY DEF PassRows
  <1> HIDE DEF q
  <1> SUFFICES ASSUME r.stage # "idle" PROVE RowInv(q)'
    BY <1>0 DEF RowInv, q
  <1>1. RowShape(r) /\ Watermark(r) /\ Accounted(r) /\ Short(r) /\ Answered(r)
    BY DEF RowInv
  <1>2. UNCHANGED <<relayHolds, references, late, fetched, auxiliary>>
    BY DEF relayState
  <1>3. \A e : Ahead(q, e)' <=> Ahead(r, e)
    BY <1>0 DEF Ahead, InPage
  <1>4. \A e : Owes(q, e)' => Owes(r, e)
    BY <1>0, <1>2 DEF Owes
  <1>5. RowShape(q)'
    BY <1>0, <1>1, <1>2 DEF RowShape, Reached, InPage
  <1>6. Watermark(q)'
    BY <1>0, <1>1, <1>2 DEF Watermark
  <1>7. Accounted(q)'
    BY <1>0, <1>1, <1>2, <1>3, <1>4 DEF Accounted
  <1>8. Short(q)'
    BY <1>0, <1>1, <1>2, <1>3, <1>4 DEF Short, InPage
  <1>9. Answered(q)'
    BY <1>0, <1>1, <1>2, <1>3 DEF Answered
  <1> QED
    BY <1>5, <1>6, <1>7, <1>8, <1>9 DEF RowInv

-----------------------------------------------------------------------------
(* Steps of a pass *)

LEMMA PassChanges ==
    ASSUME NEW p \in Passes, pass \in [Passes -> GoodRows], GoodRows \subseteq GoodRows',
           NEW r \in GoodRows', pass' = [pass EXCEPT ![p] = r]
    PROVE  pass' \in [Passes -> GoodRows']
  OBVIOUS

LEMMA RowsStand ==
    ASSUME relayHolds' = relayHolds, late' = late, references \subseteq references',
           fetched \subseteq fetched', auxiliary \subseteq auxiliary',
           \A e \in inbound \ inbound' : e \in fetched', online' = online
    PROVE  GoodRows \subseteq GoodRows'
  BY RowFrame DEF GoodRows

LEMMA IdleIsGood ==
    IdlePass \in GoodRows /\ IdlePass \in GoodRows'
  BY DEF IdlePass, GoodRows, PassRows, RowInv, Cursors, NoCursor

LEMMA BegunIsGood ==
    ASSUME HistoryTypeOK, NEW p \in Passes, NEW resync \in BOOLEAN, NEW inSession \in BOOLEAN,
           Begun(p, resync, inSession), UNCHANGED <<relayState>>, inSession => online'
    PROVE  \E q \in GoodRows' : pass' = [pass EXCEPT ![p] = q]
  <1>0. PICK q : q = [IdlePass EXCEPT !.stage = "cursor", !.resync = resync, !.inSession = inSession,
                           !.seen = relayHolds, !.owed = references]
    OBVIOUS
  <1>1. pass' = [pass EXCEPT ![p] = q]
    BY <1>0 DEF Begun
  <1>2. /\ q \in PassRows /\ q.stage = "cursor" /\ q.mark = NoCursor /\ q.newest = NoCursor
        /\ q.below = NoCursor /\ q.batch = {} /\ q.seen = relayHolds /\ q.owed = references
        /\ q.inSession = inSession
    BY <1>0 DEF IdlePass, PassRows, HistoryTypeOK, Cursors, NoCursor
  <1>3. NoCursor.at = 0 /\ \A e \in Events : Second[e] \in Nat
    BY PageOrderIs DEF NoCursor
  <1>4. RowShape(q)'
    BY <1>2, <1>3 DEF RowShape, InPage, Reached, relayState
  <1>5. Watermark(q)'
    BY <1>2, <1>3 DEF Watermark, relayState, HistoryTypeOK
  <1>6. Accounted(q)' /\ Short(q)' /\ Answered(q)'
    BY <1>2 DEF Accounted, Short, Answered, Ahead, InPage
  <1> QED
    BY <1>1, <1>2, <1>4, <1>5, <1>6 DEF GoodRows, RowInv

LEMMA ReadCursorIsGood ==
    ASSUME HistoryInv, NEW p \in Passes, ReadCursor(p)
    PROVE  \E q \in GoodRows' : pass' = [pass EXCEPT ![p] = q]
  <1>1. PICK r \in GoodRows : r = pass[p]
    BY DEF HistoryInv
  <1>0. PICK q : q = [r EXCEPT !.stage = "cached", !.mark = cursor, !.newest = cursor,
                        !.seen = IF cursor = NoCursor \/ r.resync THEN @ ELSE {},
                        !.owed = IF cursor = NoCursor THEN @ ELSE @ \cap fetched]
    OBVIOUS
  <1>2. pass' = [pass EXCEPT ![p] = q]
    BY <1>0, <1>1 DEF ReadCursor
  <1>3. UNCHANGED <<relayHolds, references, late, fetched, auxiliary, cursor, online, inbound>>
    BY DEF ReadCursor, Reading, relayState, socket
  <1>4. r \in PassRows /\ r.stage = "cursor" /\ RowShape(r)
    BY <1>1 DEF GoodRows, ReadCursor, RowInv
  <1>5. cursor \in Cursors /\ HistoryTypeOK /\ Reached(cursor.at) /\ NoHole
    BY DEF HistoryInv, HistoryTypeOK
  <1>6. /\ q \in PassRows /\ q.stage = "cached" /\ q.mark = cursor /\ q.newest = cursor
        /\ q.below = r.below /\ q.batch = r.batch /\ q.seen \subseteq r.seen
        /\ q.owed \subseteq r.owed /\ q.inSession = r.inSession
        /\ cursor # NoCursor => q.owed \subseteq fetched
    BY <1>0, <1>4, <1>5 DEF PassRows
  <1>7. RowShape(q)'
    BY <1>3, <1>4, <1>5, <1>6 DEF RowShape, InPage, Reached
  <1>8. Watermark(q)'
    BY <1>3, <1>5, <1>6 DEF Watermark, NoHole
  <1>9. Accounted(q)' /\ Short(q)'
    BY <1>6 DEF Accounted, Short, Ahead, InPage
  <1>10. Answered(q)'
    BY <1>3, <1>6 DEF Answered, Ahead
  <1> QED
    BY <1>2, <1>6, <1>7, <1>8, <1>9, <1>10 DEF GoodRows, RowInv

LEMMA ReadCachedIsGood ==
    ASSUME HistoryInv, NEW p \in Passes, ReadCached(p)
    PROVE  \E q \in GoodRows' : pass' = [pass EXCEPT ![p] = q]
  <1>1. PICK r \in GoodRows : r = pass[p]
    BY DEF HistoryInv
  <1>0. PICK q : q = [r EXCEPT !.stage = IF fetched = {} THEN "page" ELSE "references",
                               !.want = fetched]
    OBVIOUS
  <1>2. pass' = [pass EXCEPT ![p] = q]
    BY <1>0, <1>1 DEF ReadCached
  <1>3. UNCHANGED <<relayHolds, references, late, fetched, auxiliary, cursor, online, inbound>>
    BY DEF ReadCached, Reading, relayState, socket
  <1>4. /\ r \in PassRows /\ r.stage = "cached"
        /\ RowShape(r) /\ Watermark(r) /\ Accounted(r) /\ Short(r) /\ Answered(r)
    BY <1>1 DEF GoodRows, ReadCached, RowInv
  <1>5. /\ q \in PassRows /\ q.stage = (IF fetched = {} THEN "page" ELSE "references")
        /\ q.want = fetched /\ q.mark = r.mark /\ q.newest = r.newest
        /\ q.below = r.below /\ q.batch = r.batch /\ q.seen = r.seen
        /\ q.owed = r.owed /\ q.inSession = r.inSession
    BY <1>0, <1>4 DEF PassRows, HistoryInv, HistoryTypeOK
  <1>6. q.below = NoCursor /\ q.batch = {} /\ NoCursor.at = 0 /\ q.newest.at \in Nat
    BY <1>4, <1>5 DEF RowShape, NoCursor, PassRows, Cursors
  <1>7. RowShape(q)'
    BY <1>3, <1>4, <1>5, <1>6 DEF RowShape, InPage, Reached
  <1>8. Watermark(q)'
    BY <1>3, <1>4, <1>5 DEF Watermark
  <1>9. \A e : Ahead(q, e)'
    BY <1>5, <1>6 DEF Ahead, InPage
  <1>10. Accounted(q)' /\ Short(q)'
    BY <1>6, <1>9 DEF Accounted, Short
  <1>11. Answered(q)'
    BY <1>3, <1>4, <1>5, <1>9 DEF Answered
  <1> QED
    BY <1>2, <1>5, <1>7, <1>8, <1>10, <1>11 DEF GoodRows, RowInv

LEMMA StorePageIsGood ==
    ASSUME HistoryInv, NEW p \in Passes, StorePage(p)
    PROVE  \E q \in GoodRows' : pass' = [pass EXCEPT ![p] = q]
  <1>1. PICK r \in GoodRows : r = pass[p]
    BY DEF HistoryInv
  <1>0. PICK q : q = [r EXCEPT !.stage = "references", !.want = r.batch]
    OBVIOUS
  <1>2. pass' = [pass EXCEPT ![p] = q]
    BY <1>0, <1>1 DEF StorePage
  <1>3. /\ UNCHANGED <<relayHolds, references, late, auxiliary, cursor, online, inbound>>
        /\ fetched' = fetched \cup r.batch
    BY <1>1 DEF StorePage, relayState, socket
  <1>4. /\ r \in PassRows /\ r.stage = "store"
        /\ RowShape(r) /\ Watermark(r) /\ Accounted(r) /\ Short(r) /\ Answered(r)
    BY <1>1 DEF GoodRows, StorePage, RowInv
  <1>5. /\ q \in PassRows /\ q.stage = "references"
        /\ q.want = r.batch /\ q.mark = r.mark /\ q.newest = r.newest
        /\ q.below = r.below /\ q.batch = r.batch /\ q.seen = r.seen
        /\ q.owed = r.owed /\ q.inSession = r.inSession
    BY <1>0, <1>4 DEF PassRows
  <1>6. \A e : Ahead(q, e)' <=> Ahead(r, e)
    BY <1>4, <1>5 DEF Ahead, InPage
  <1>7. \A e : Owes(q, e)' => Owes(r, e)
    BY <1>3, <1>5 DEF Owes
  <1>8. RowShape(q)'
    BY <1>3, <1>4, <1>5 DEF RowShape, InPage, Reached
  <1>9. Watermark(q)'
    BY <1>3, <1>4, <1>5 DEF Watermark
  <1>10. Accounted(q)'
    BY <1>3, <1>4, <1>6, <1>7 DEF Accounted
  <1>11. Short(q)'
    BY <1>3, <1>4, <1>5, <1>6, <1>7 DEF Short, InPage
  <1>12. Answered(q)'
    BY <1>3, <1>4, <1>5, <1>6 DEF Answered
  <1> QED
    BY <1>2, <1>5, <1>8, <1>9, <1>10, <1>11, <1>12 DEF GoodRows, RowInv

LEMMA QueryReferencesIsGood ==
    ASSUME HistoryInv, NEW p \in Passes, QueryReferences(p)
    PROVE  \E q \in GoodRows' : pass' = [pass EXCEPT ![p] = q]
  <1>1. PICK r \in GoodRows : r = pass[p]
    BY DEF HistoryInv
  <1>0. PICK q : q = [r EXCEPT !.stage = "apply", !.got = references \cap r.want]
    OBVIOUS
  <1>2. pass' = [pass EXCEPT ![p] = q]
    BY <1>0, <1>1 DEF QueryReferences
  <1>3. UNCHANGED <<relayHolds, references, late, fetched, auxiliary, cursor, online, inbound>>
    BY DEF QueryReferences, Reading, relayState, socket
  <1>4. /\ r \in PassRows /\ r.stage = "references"
        /\ RowShape(r) /\ Watermark(r) /\ Accounted(r) /\ Short(r) /\ Answered(r)
    BY <1>1 DEF GoodRows, QueryReferences, RowInv
  <1>5. /\ q \in PassRows /\ q.stage = "apply"
        /\ q.got = references \cap r.want /\ q.mark = r.mark /\ q.newest = r.newest
        /\ q.below = r.below /\ q.batch = r.batch /\ q.seen = r.seen
        /\ q.owed = r.owed /\ q.inSession = r.inSession
    BY <1>0, <1>4 DEF PassRows
  <1>6. \A e : Ahead(q, e)' <=> Ahead(r, e)
    BY <1>4, <1>5 DEF Ahead, InPage
  <1>7. \A e : Owes(q, e)' => Owes(r, e)
    BY <1>3, <1>5 DEF Owes
  <1>8. RowShape(q)'
    BY <1>3, <1>4, <1>5 DEF RowShape, InPage, Reached
  <1>9. Watermark(q)'
    BY <1>3, <1>4, <1>5 DEF Watermark
  <1>10. Accounted(q)'
    BY <1>3, <1>4, <1>6, <1>7 DEF Accounted
  <1>11. Short(q)'
    BY <1>3, <1>4, <1>5, <1>6, <1>7 DEF Short, InPage
  <1>12. Answered(q)'
    BY <1>3, <1>4, <1>5, <1>6 DEF Answered, RowShape
  <1> QED
    BY <1>2, <1>5, <1>8, <1>9, <1>10, <1>11, <1>12 DEF GoodRows, RowInv

LEMMA PageIs ==
    ASSUME HistoryTypeOK, NEW below \in Cursors
    PROVE  /\ Page(below) \in SUBSET relayHolds /\ IsFiniteSet(Page(below))
           /\ \A e \in relayHolds : below = NoCursor \/ PageOrder(below, Key(e)) =>
                e \in Page(below) \/ (Page(below) # {} /\ \A f \in Page(below) : PageOrder(Key(f), Key(e)))
           /\ \A f \in Page(below) : below = NoCursor \/ PageOrder(below, Key(f))
           /\ Page(below) # {} /\ Cardinality(Page(below)) < PageSize =>
                \A e \in relayHolds : ~(\A f \in Page(below) : PageOrder(Key(f), Key(e)))
  <1> DEFINE S == {e \in relayHolds : below = NoCursor \/ PageOrder(below, Key(e))}
             P == First(PageSize, S)
  <1>1. S \in SUBSET Events /\ S \in SUBSET relayHolds /\ IsFiniteSet(S)
    BY FS_Subset DEF HistoryTypeOK
  <1>2. PageSize \in Nat \ {0}
    BY BackfillAssumption
  <1>3. \A e \in relayHolds : e \in S <=> below = NoCursor \/ PageOrder(below, Key(e))
    OBVIOUS
  <1>4. Page(below) = P
    BY DEF Page
  <1> HIDE DEF S
  <1>5. /\ P \in SUBSET S
        /\ \A e \in P, f \in S \ P : PageOrder(Key(e), Key(f))
        /\ Cardinality(P) < PageSize => P = S
        /\ P = {} => S = {}
    BY <1>1, <1>2, FirstIs
  <1> HIDE DEF P
  <1>6. IsFiniteSet(P)
    BY <1>1, <1>5, FS_Subset
  <1>7. ASSUME NEW e \in S PROVE e \in P \/ (P # {} /\ \A f \in P : PageOrder(Key(f), Key(e)))
    BY <1>5, <1>7
  <1>8. ASSUME P # {}, Cardinality(P) < PageSize, NEW e \in relayHolds,
               \A f \in P : PageOrder(Key(f), Key(e))
        PROVE  FALSE
    <2>1. PICK f \in P : PageOrder(Key(f), Key(e))
      BY <1>8
    <2>2. e \in Events /\ f \in Events /\ f \in relayHolds
      BY <1>1, <1>5, <2>1 DEF HistoryTypeOK
    <2>3. e \in S
      BY <1>3, <1>5, <2>1, <2>2, BelowIs
    <2> QED
      BY <1>5, <1>8, <2>2, <2>3, PageOrderIs
  <1> QED
    BY <1>1, <1>3, <1>4, <1>5, <1>6, <1>7, <1>8

\* The newest event of what was paged so far.
LEMMA NewestIs ==
    ASSUME NEW page \in SUBSET Events, IsFiniteSet(page), page # {}, NEW newest \in Cursors,
           NEW top, top = (CHOOSE e \in page : \A f \in page : Second[f] < Second[e]
                                   \/ (Second[f] = Second[e] /\ f <= e))
    PROVE  top \in page /\ \A f \in page : Second[f] <= Second[top]
  <1>1. \E e \in page : \A f \in page : Second[f] < Second[e] \/ (Second[f] = Second[e] /\ f <= e)
    BY NewestOfPage
  <1>2. /\ top \in page
        /\ \A f \in page : Second[f] < Second[top] \/ (Second[f] = Second[top] /\ f <= top)
    BY <1>1
  <1>3. \A f \in page : Second[f] \in Nat
    BY BackfillAssumption
  <1> QED
    BY <1>2, <1>3

LEMMA QueryPageIsGood ==
    ASSUME HistoryInv, NEW p \in Passes, QueryPage(p)
    PROVE  \E q \in GoodRows' : pass' = [pass EXCEPT ![p] = q]
  <1>1. PICK r \in GoodRows : r = pass[p]
    BY DEF HistoryInv
  <1>2. PICK page : page = Page(r.below)
    OBVIOUS
  <1>3. PICK top : top = (CHOOSE e \in page : \A f \in page : Second[f] < Second[e]
                                   \/ (Second[f] = Second[e] /\ f <= e))
    OBVIOUS
  <1>4. PICK newest : newest = IF page # {} /\ (Second[top] > r.newest.at
                                  \/ (Second[top] = r.newest.at /\ top > r.newest.id))
                               THEN Key(top) ELSE r.newest
    OBVIOUS
  <1>5. PICK q : q = [r EXCEPT !.pages = @ + 1,
                               !.stage = IF page = {} THEN "save" ELSE "store",
                               !.batch = page, !.newest = newest]
    OBVIOUS
  <1>6. pass' = [pass EXCEPT ![p] = q]
    BY <1>1, <1>2, <1>3, <1>4, <1>5 DEF QueryPage, Key
  <1>7. UNCHANGED <<relayHolds, references, late, fetched, auxiliary, cursor, online, inbound>>
    BY DEF QueryPage, Reading, relayState, socket
  <1>8. /\ r \in PassRows /\ r.stage = "page"
        /\ RowShape(r) /\ Watermark(r) /\ Accounted(r) /\ Short(r) /\ Answered(r)
    BY <1>1 DEF GoodRows, QueryPage, RowInv
  <1>9. r.below \in Cursors /\ r.newest \in Cursors
    BY <1>8 DEF PassRows
  <1>10. /\ page \in SUBSET relayHolds /\ page \in SUBSET Events /\ IsFiniteSet(page)
         /\ relayHolds \subseteq Events /\ HistoryTypeOK
    BY <1>2, <1>9, PageIs DEF HistoryInv, HistoryTypeOK
  <1>11. page # {} => top \in page /\ \A f \in page : Second[f] <= Second[top]
    BY <1>3, <1>9, <1>10, NewestIs
  <1>12. \A f \in page : Second[f] \in Nat /\ Key(f) \in Cursors /\ Key(f).at = Second[f]
    BY <1>10, PageOrderIs
  <1>13. r.newest.at \in Nat /\ r.below.at \in Nat /\ r.below.at <= r.newest.at
    BY <1>8, <1>9 DEF Cursors, RowShape
  <1>14. newest \in Cursors /\ newest.at \in Nat /\ newest.at >= r.newest.at
    BY <1>4, <1>9, <1>11, <1>12, <1>13 DEF Cursors
  <1>15. \A f \in page : Second[f] <= newest.at
    BY <1>4, <1>11, <1>12, <1>13
  <1>16. newest.at = r.newest.at \/ (r.below = NoCursor /\ page # {} /\ newest.at = Second[top])
    <2>1. ASSUME page # {}, r.below # NoCursor PROVE Second[top] <= r.newest.at
      <3>1. PageOrder(r.below, Key(top))
        BY <1>2, <1>9, <1>10, <1>11, <2>1, PageIs
      <3>2. r.below.at >= Second[top]
        BY <1>9, <1>10, <1>11, <2>1, <3>1, BelowIs
      <3> QED
        BY <1>11, <1>12, <1>13, <2>1, <3>2
    <2> QED
      BY <1>4, <1>11, <1>12, <1>13, <2>1
  <1>17. Reached(newest.at)
    <2>1. CASE newest.at = r.newest.at
      BY <1>8, <2>1 DEF RowShape
    <2>2. CASE page # {} /\ newest.at = Second[top]
      BY <1>10, <1>11, <1>12, <2>2 DEF Reached
    <2> QED
      BY <1>16, <2>1, <2>2
  <1>18. /\ q \in PassRows /\ q.stage = (IF page = {} THEN "save" ELSE "store")
         /\ q.batch = page /\ q.newest = newest /\ q.mark = r.mark /\ q.below = r.below
         /\ q.seen = r.seen /\ q.owed = r.owed /\ q.inSession = r.inSession
    <2>1. PICK stage \in {"save", "store"} : stage = IF page = {} THEN "save" ELSE "store"
      OBVIOUS
    <2>2. PICK pages \in Nat : pages = r.pages + 1
      BY <1>8 DEF PassRows
    <2>3. q = [r EXCEPT !.pages = pages, !.stage = stage, !.batch = page, !.newest = newest]
      BY <1>5, <2>1, <2>2
    <2>4. page \in SUBSET Events
      BY <1>10
    <2>5. /\ q.stage = stage
          /\ q.batch = page /\ q.newest = newest /\ q.mark = r.mark /\ q.below = r.below
          /\ q.seen = r.seen /\ q.owed = r.owed /\ q.inSession = r.inSession
      BY <1>8, <2>3 DEF PassRows
    <2>6. q \in PassRows
      BY <1>8, <1>14, <2>3, <2>4 DEF PassRows
    <2> QED
      BY <2>1, <2>5, <2>6
  <1>19. \A e \in relayHolds : r.below = NoCursor \/ PageOrder(r.below, Key(e)) =>
           e \in page \/ (page # {} /\ \A f \in page : PageOrder(Key(f), Key(e)))
    BY <1>2, <1>9, <1>10, PageIs
  <1>20. \A e \in relayHolds : Ahead(r, e) => r.below = NoCursor \/ PageOrder(r.below, Key(e))
    BY <1>8 DEF Ahead, InPage
  <1>21. \A e \in relayHolds : (page # {} /\ \A f \in page : PageOrder(Key(f), Key(e))) <=> Ahead(q, e)'
    BY <1>18 DEF Ahead, InPage
  <1>22. \A e \in relayHolds : Owes(q, e)' => Owes(r, e) \/ r.below = NoCursor
    BY <1>7, <1>16, <1>18 DEF Owes
  <1>23. page # {} /\ Cardinality(page) < PageSize => \A e \in relayHolds : ~Ahead(q, e)'
    BY <1>2, <1>9, <1>10, <1>21, PageIs
  <1>24. RowShape(q)'
    <2>1. Reached(newest.at)' /\ Reached(q.mark.at)'
      BY <1>7, <1>8, <1>17, <1>18 DEF Reached, RowShape
    <2> QED
      BY <1>7, <1>8, <1>10, <1>15, <1>18, <2>1 DEF RowShape, InPage
  <1>25. Watermark(q)'
    BY <1>7, <1>8, <1>18 DEF Watermark
  <1>26. Accounted(q)'
    <2> SUFFICES ASSUME NEW e \in relayHolds, Owes(q, e)'
                 PROVE  Ahead(q, e)' \/ e \in fetched' \/ (q.stage = "store" /\ e \in q.batch)
      BY <1>7 DEF Accounted
    <2>1. e \in fetched \/ r.below = NoCursor \/ PageOrder(r.below, Key(e))
      BY <1>8, <1>20, <1>22 DEF Accounted
    <2> QED
      BY <1>7, <1>18, <1>19, <1>21, <2>1
  <1>27. Short(q)'
    <2>1. q.seen \cup q.owed \subseteq relayHolds
      BY <1>8, <1>10, <1>18 DEF RowShape, HistoryTypeOK
    <2> QED
      BY <1>7, <1>18, <1>23, <2>1 DEF Short
  <1>28. Answered(q)'
    <2> SUFFICES ASSUME NEW e \in q.owed
                 PROVE  \/ e \in auxiliary' \/ (q.stage = "store" /\ e \in q.batch)
                        \/ q.mark = NoCursor /\ Ahead(q, e)'
      BY DEF Answered
    <2>1. e \in relayHolds
      BY <1>8, <1>10, <1>18 DEF RowShape, HistoryTypeOK
    <2>2. e \in auxiliary \/ (r.mark = NoCursor /\ Ahead(r, e))
      BY <1>8, <1>18 DEF Answered
    <2> QED
      BY <1>7, <1>18, <1>19, <1>20, <1>21, <2>1, <2>2
  <1> QED
    BY <1>6, <1>18, <1>24, <1>25, <1>26, <1>27, <1>28 DEF GoodRows, RowInv

\* A pass goes on to a page or to its end: what it promised and is not stored is ahead.
LEMMA MovesOn ==
    ASSUME HistoryTypeOK, NEW r \in PassRows, r.stage = "apply",
           RowShape(r), Watermark(r), Accounted(r), Answered(r),
           UNCHANGED <<relayHolds, references, late, fetched, online, inbound>>,
           auxiliary' = auxiliary \cup r.got,
           NEW q \in PassRows, q.stage \in {"page", "save"},
           q.mark = r.mark, q.newest = r.newest, q.batch = r.batch,
           q.seen = r.seen, q.owed = r.owed, q.inSession = r.inSession,
           q.stage = "page" => q.below.at <= q.newest.at,
           \A e \in relayHolds : Owes(r, e) /\ Ahead(r, e) => e \in fetched \/ Ahead(q, e),
           r.mark = NoCursor => \A e \in r.owed : Ahead(r, e) => Ahead(q, e)
    PROVE  q \in GoodRows'
  <1>1. \A e : Owes(q, e)' => Owes(r, e)
    BY DEF Owes
  <1>2. \A e : Ahead(q, e)' <=> Ahead(q, e)
    BY DEF Ahead, InPage
  <1>3. RowShape(q)'
    BY DEF RowShape, InPage, Reached
  <1>4. Watermark(q)'
    BY DEF Watermark
  <1>5. Accounted(q)'
    BY <1>1, <1>2 DEF Accounted
  <1>6. Short(q)'
    BY DEF Short, InPage
  <1>7. Answered(q)'
    BY <1>2 DEF Answered
  <1> QED
    BY <1>3, <1>4, <1>5, <1>6, <1>7 DEF GoodRows, RowInv

LEMMA ApplyReferencesIsGood ==
    ASSUME HistoryInv, NEW p \in Passes, ApplyReferences(p)
    PROVE  \E q \in GoodRows' : pass' = [pass EXCEPT ![p] = q]
  <1>1. PICK r \in GoodRows : r = pass[p]
    BY DEF HistoryInv
  <1>2. PICK last : last = (CHOOSE e \in r.batch :
                              \A f \in r.batch \ {e} : PageOrder(Key(f), Key(e)))
    OBVIOUS
  <1>3. PICK q : q = IF r.batch = {} THEN [r EXCEPT !.stage = "page", !.got = {}, !.want = {}]
                     ELSE IF Crossed(p, last)
                          THEN [r EXCEPT !.stage = "save", !.got = {}, !.want = {}]
                     ELSE IF r.pages >= MaxPages THEN IdlePass
                     ELSE [r EXCEPT !.stage = "page", !.got = {}, !.want = {},
                                    !.below = Key(last)]
    OBVIOUS
  <1>4. pass' = [pass EXCEPT ![p] = q]
    BY <1>1, <1>2, <1>3 DEF ApplyReferences
  <1>5. /\ UNCHANGED <<relayHolds, references, late, fetched, online, inbound>>
        /\ auxiliary' = auxiliary \cup r.got
    BY <1>1 DEF ApplyReferences, relayState, socket
  <1>6. /\ r \in PassRows /\ r.stage = "apply"
        /\ RowShape(r) /\ Watermark(r) /\ Accounted(r) /\ Short(r) /\ Answered(r)
    BY <1>1 DEF GoodRows, ApplyReferences, RowInv
  <1>7. HistoryTypeOK /\ relayHolds \subseteq Events /\ r.batch \subseteq relayHolds
        /\ r.owed \subseteq relayHolds /\ r.mark.at \in Nat
    BY <1>6 DEF HistoryInv, HistoryTypeOK, RowShape, PassRows, Cursors
  <1>8. IsFiniteSet(r.batch)
    BY <1>7, FS_Subset DEF HistoryTypeOK
  <1>9. CASE r.batch = {}
    <2>1. q = [r EXCEPT !.stage = "page", !.got = {}, !.want = {}]
      BY <1>3, <1>9
    <2>2. /\ q \in PassRows /\ q.stage = "page" /\ q.mark = r.mark /\ q.newest = r.newest
          /\ q.batch = r.batch /\ q.below = r.below
          /\ q.seen = r.seen /\ q.owed = r.owed /\ q.inSession = r.inSession
      BY <1>6, <2>1 DEF PassRows
    <2>3. q.below = NoCursor /\ NoCursor.at = 0 /\ q.newest.at \in Nat
      BY <1>6, <1>9, <2>2 DEF RowShape, InPage, NoCursor, PassRows, Cursors
    <2>4. \A e : Ahead(q, e)
      BY <2>2, <2>3 DEF Ahead
    <2>5. q \in GoodRows'
      BY <1>5, <1>6, <1>7, <2>2, <2>3, <2>4, MovesOn
    <2> QED
      BY <1>4, <2>5
  <1>10. ASSUME r.batch # {}
         PROVE  /\ last \in r.batch
                /\ \A f \in r.batch \ {last} : PageOrder(Key(f), Key(last))
    <2>1. r.batch \in SUBSET Events
      BY <1>7
    <2>2. \E e \in r.batch : \A f \in r.batch \ {e} : PageOrder(Key(f), Key(e))
      BY <1>8, <1>10, <2>1, LastOfBatch
    <2> QED
      BY <1>2, <2>2
  <1>11. ASSUME r.batch # {}, NEW e \in relayHolds, Ahead(r, e)
         PROVE  PageOrder(Key(last), Key(e)) /\ Second[last] \in Nat /\ Second[e] \in Nat
                /\ Second[e] <= Second[last]
    <2>1. PageOrder(Key(last), Key(e))
      BY <1>6, <1>10, <1>11 DEF Ahead, InPage
    <2>2. last \in Events /\ e \in Events
      BY <1>7, <1>10, <1>11
    <2> QED
      BY <2>1, <2>2, PageOrderIs
  <1>12. CASE r.batch # {} /\ Crossed(p, last)
    <2>1. q = [r EXCEPT !.stage = "save", !.got = {}, !.want = {}]
      BY <1>3, <1>12
    <2>2. /\ q \in PassRows /\ q.stage = "save" /\ q.mark = r.mark /\ q.newest = r.newest
          /\ q.batch = r.batch
          /\ q.seen = r.seen /\ q.owed = r.owed /\ q.inSession = r.inSession
      BY <1>6, <2>1 DEF PassRows
    <2>3. (r.mark.at > 0 /\ Second[last] < r.mark.at) \/ Cardinality(r.batch) < PageSize
      BY <1>1, <1>12 DEF Crossed
    <2>4. CASE r.mark.at > 0 /\ Second[last] < r.mark.at
      <3>1. r.mark # NoCursor
        BY <2>4 DEF NoCursor
      <3>2. ASSUME NEW e \in relayHolds, Owes(r, e), Ahead(r, e) PROVE e \in fetched
        <4>1. e \in relayHolds \ late
          BY <3>1, <3>2 DEF Owes
        <4>2. Second[e] < r.mark.at
          BY <1>7, <1>11, <1>12, <2>4, <3>2
        <4> QED
          BY <1>6, <4>1, <4>2 DEF Watermark
      <3>3. q \in GoodRows'
        BY <1>5, <1>6, <1>7, <2>2, <3>1, <3>2, MovesOn
      <3> QED
        BY <1>4, <3>3
    <2>5. CASE Cardinality(r.batch) < PageSize
      <3>1. /\ \A e \in relayHolds : Owes(r, e) /\ Ahead(r, e) => e \in fetched
            /\ r.mark = NoCursor => \A e \in r.seen \cup r.owed : ~Ahead(r, e)
        BY <1>6, <1>12, <2>5 DEF Short, InPage
      <3>2. q \in GoodRows'
        BY <1>5, <1>6, <1>7, <2>2, <3>1, MovesOn
      <3> QED
        BY <1>4, <3>2
    <2> QED
      BY <2>3, <2>4, <2>5
  <1>13. CASE r.batch # {} /\ ~Crossed(p, last) /\ r.pages >= MaxPages
    BY <1>3, <1>4, <1>13, IdleIsGood
  <1>14. CASE r.batch # {} /\ ~Crossed(p, last) /\ ~(r.pages >= MaxPages)
    <2>1. q = [r EXCEPT !.stage = "page", !.got = {}, !.want = {}, !.below = Key(last)]
      BY <1>3, <1>14
    <2>2. Key(last) \in Cursors /\ Key(last).at = Second[last]
      BY <1>7, <1>10, <1>14, PageOrderIs
    <2>3. /\ q \in PassRows /\ q.stage = "page" /\ q.mark = r.mark /\ q.newest = r.newest
          /\ q.batch = r.batch /\ q.below = Key(last)
          /\ q.seen = r.seen /\ q.owed = r.owed /\ q.inSession = r.inSession
      BY <1>6, <2>1, <2>2 DEF PassRows
    <2>4. q.below.at <= q.newest.at
      BY <1>6, <1>10, <1>14, <2>2, <2>3 DEF RowShape, InPage
    <2>5. \A e \in relayHolds : Ahead(r, e) => Ahead(q, e)
      BY <1>11, <1>14, <2>3 DEF Ahead
    <2>6. q \in GoodRows'
      BY <1>5, <1>6, <1>7, <2>3, <2>4, <2>5, MovesOn
    <2> QED
      BY <1>4, <2>6
  <1> QED
    BY <1>9, <1>12, <1>13, <1>14

\* A pass at its end has what it promised.
LEMMA AtTheEnd ==
    ASSUME NEW r, RowInv(r), r.stage = "save"
    PROVE  /\ \A e \in relayHolds : Owes(r, e) => e \in fetched
           /\ r.owed \subseteq auxiliary
           /\ Reached(r.newest.at)
  BY DEF RowInv, Accounted, Answered, Ahead, InPage, RowShape

-----------------------------------------------------------------------------
(* History *)

LEMMA HistoryKeeps ==
    ASSUME HistoryTypeOK, Reached(cursor.at), Reached(since), NoHole,
           online /\ caught => relayHolds \ late \subseteq fetched \cup inbound,
           UNCHANGED <<relayHolds, references, late, cursor, since, online>>,
           fetched \subseteq fetched', auxiliary \subseteq auxiliary',
           fetched' \subseteq Events, auxiliary' \subseteq Events,
           inbound' \subseteq inbound, \A e \in inbound \ inbound' : e \in fetched',
           caught' = caught, pass' \in [Passes -> GoodRows']
    PROVE  HistoryInv'
  BY DEF HistoryInv, HistoryTypeOK, Reached, NoHole

LEMMA AcceptsKeeps ==
    ASSUME HistoryInv, NEW a \in Events, RelayAccepts(a)
    PROVE  HistoryInv'
  <1>1. HistoryTypeOK /\ Reached(since) /\ Reached(cursor.at) /\ NoHole
    BY DEF HistoryInv
  <1>2. GoodRows \subseteq GoodRows'
    BY <1>1, RowAccepts DEF GoodRows
  <1>3. pass' \in [Passes -> GoodRows']
    BY <1>2 DEF HistoryInv, RelayAccepts
  <1>4. /\ a \notin relayHolds /\ relayHolds' = relayHolds \cup {a}
        /\ late \subseteq late' /\ late' \subseteq late \cup {a}
        /\ a \notin late' => \A f \in relayHolds : ~(Second[f] > Second[a])
        /\ inbound \subseteq inbound' /\ inbound' \subseteq inbound \cup {a}
        /\ a \notin inbound' => ~online \/ ~(Second[a] >= since)
        /\ UNCHANGED <<references, fetched, auxiliary, cursor, online, since, caught>>
    BY DEF RelayAccepts
  <1>5. \A f \in Events : Second[f] \in Nat /\ Second[f] >= 1
    BY PageOrderIs
  <1>6. cursor.at \in Nat /\ since \in Nat /\ relayHolds \subseteq Events
    BY <1>1 DEF HistoryTypeOK, Cursors
  <1>7. ASSUME a \notin late' PROVE Second[a] >= cursor.at /\ Second[a] >= since
    BY <1>1, <1>4, <1>5, <1>6, <1>7 DEF Reached
  <1>8. HistoryTypeOK'
    <2>1. IsFiniteSet(relayHolds')
      BY <1>1, <1>4, FS_AddElement DEF HistoryTypeOK
    <2> QED
      BY <1>1, <1>4, <2>1 DEF HistoryTypeOK
  <1>9. Reached(cursor.at)' /\ Reached(since)'
    BY <1>1, <1>4 DEF Reached
  <1>10. NoHole'
    BY <1>1, <1>4, <1>5, <1>6, <1>7 DEF NoHole
  <1>11. (online /\ caught => relayHolds \ late \subseteq fetched \cup inbound)'
    BY <1>4, <1>7 DEF HistoryInv
  <1> QED
    BY <1>3, <1>8, <1>9, <1>10, <1>11 DEF HistoryInv

LEMMA ConnectionKeeps ==
    ASSUME HistoryInv, Subscribe \/ LoseConnection \/ \E p \in Passes : Authenticated(p)
    PROVE  HistoryInv'
  <1>1. /\ HistoryTypeOK /\ Reached(since) /\ Reached(cursor.at) /\ NoHole
        /\ pass \in [Passes -> GoodRows]
    BY DEF HistoryInv
  <1>2. CASE Subscribe
    <2>1. UNCHANGED <<relayHolds, references, late, fetched, auxiliary, cursor, online, inbound,
                      pass, caught>>
      BY <1>2 DEF Subscribe, relayState
    <2>2. GoodRows \subseteq GoodRows'
      BY <2>1, RowsStand
    <2>3. since' \in Nat /\ Reached(since)' /\ ~online
      <3>1. cursor = NoCursor => since' = 1
        BY <1>2 DEF Subscribe
      <3>2. cursor # NoCursor => since' = cursor.at
        BY <1>2 DEF Subscribe
      <3>3. since = 0
        BY <1>2 DEF Subscribe
      <3> QED
        BY <1>1, <2>1, <3>1, <3>2, <3>3 DEF Reached, HistoryTypeOK, Cursors
    <2> QED
      BY <1>1, <2>1, <2>2, <2>3 DEF HistoryInv, HistoryTypeOK, Reached, NoHole
  <1>3. CASE LoseConnection
    <2>1. /\ UNCHANGED <<relayHolds, references, late, fetched, auxiliary, cursor, since, caught>>
          /\ UNCHANGED <<relayState, fetched, auxiliary>>
          /\ online' = FALSE /\ inbound' = {}
          /\ pass' = [p \in Passes |-> [pass[p] EXCEPT !.inSession = FALSE]]
      BY <1>3 DEF LoseConnection, relayState
    <2>2. \A r \in GoodRows : [r EXCEPT !.inSession = FALSE] \in GoodRows'
      <3> TAKE r \in GoodRows
      <3>1. r \in PassRows /\ RowInv(r)
        BY DEF GoodRows
      <3>2. RowInv([r EXCEPT !.inSession = FALSE])'
        BY <2>1, <3>1, RowLoses
      <3>3. [r EXCEPT !.inSession = FALSE] \in PassRows
        BY <3>1 DEF PassRows
      <3> QED
        BY <3>2, <3>3 DEF GoodRows
    <2>3. pass' \in [Passes -> GoodRows']
      BY <1>1, <2>1, <2>2
    <2> QED
      BY <1>1, <2>1, <2>3 DEF HistoryInv, HistoryTypeOK, Reached, NoHole
  <1>4. ASSUME NEW p \in Passes, Authenticated(p) PROVE HistoryInv'
    <2>1. /\ UNCHANGED <<relayHolds, references, late, fetched, auxiliary, cursor, since>>
          /\ UNCHANGED relayState /\ ~online /\ online' = TRUE /\ since # 0 /\ caught' = FALSE
          /\ inbound' = First(LiveLimit, {e \in relayHolds : Second[e] >= since})
          /\ Begun(p, FALSE, TRUE)
      BY <1>4 DEF Authenticated, relayState
    <2>2. PICK q \in GoodRows' : pass' = [pass EXCEPT ![p] = q]
      BY <1>1, <2>1, BegunIsGood
    <2>3. \A r \in GoodRows : r \in GoodRows'
      <3> TAKE r \in GoodRows
      <3>1. r \in PassRows /\ RowInv(r)
        BY DEF GoodRows
      <3>2. r.stage # "idle" => ~r.inSession
        BY <2>1, <3>1 DEF RowInv, RowShape
      <3> SUFFICES RowInv(r)'
        BY <3>1 DEF GoodRows
      <3> SUFFICES ASSUME r.stage # "idle" PROVE RowInv(r)'
        BY DEF RowInv
      <3>3. RowShape(r) /\ Watermark(r) /\ Accounted(r) /\ Short(r) /\ Answered(r)
        BY <3>1 DEF RowInv
      <3>4. \A e : Owes(r, e)' <=> Owes(r, e)
        BY <2>1, <3>2 DEF Owes
      <3>5. \A e : Ahead(r, e)' <=> Ahead(r, e)
        BY DEF Ahead, InPage
      <3>6. RowShape(r)' /\ Watermark(r)'
        BY <2>1, <3>2, <3>3 DEF RowShape, InPage, Reached, Watermark
      <3>7. Accounted(r)' /\ Short(r)' /\ Answered(r)'
        BY <2>1, <3>3, <3>4, <3>5 DEF Accounted, Short, Answered, InPage
      <3> QED
        BY <3>6, <3>7 DEF RowInv
    <2>4. pass' \in [Passes -> GoodRows']
      BY <1>1, <2>2, <2>3
    <2>5. inbound' \subseteq relayHolds
      BY <2>1 DEF First
    <2> QED
      BY <1>1, <2>1, <2>4, <2>5 DEF HistoryInv, HistoryTypeOK, Reached, NoHole
  <1> QED
    BY <1>2, <1>3, <1>4

LEMMA PassKeeps ==
    ASSUME HistoryInv, NEW p \in Passes, PassStep(p) \/ SpawnBackfill(p) \/ Resync(p)
    PROVE  HistoryInv'
  <1>1. /\ HistoryTypeOK /\ Reached(since) /\ Reached(cursor.at) /\ NoHole
        /\ pass \in [Passes -> GoodRows] /\ fetched \subseteq Events /\ auxiliary \subseteq Events
        /\ online /\ caught => relayHolds \ late \subseteq fetched \cup inbound
    BY DEF HistoryInv, HistoryTypeOK
  <1>2. UNCHANGED <<relayHolds, references, late, online, since, inbound>> /\ UNCHANGED relayState
    BY DEF PassStep, SpawnBackfill, Resync, ReadCursor, ReadCached, QueryPage, QueryFails,
           StorePage, QueryReferences, ApplyReferences, Save, Reading, relayState, socket
  <1>3. ASSUME fetched \subseteq fetched', auxiliary \subseteq auxiliary',
               NEW q \in GoodRows', pass' = [pass EXCEPT ![p] = q]
        PROVE  pass' \in [Passes -> GoodRows']
    <2>1. GoodRows \subseteq GoodRows'
      BY <1>2, <1>3, RowsStand
    <2> QED
      BY <1>1, <1>3, <2>1, PassChanges
  <1>4. ASSUME UNCHANGED Reading, NEW q \in GoodRows', pass' = [pass EXCEPT ![p] = q]
        PROVE  HistoryInv'
    <2>1. UNCHANGED <<fetched, auxiliary, cursor, caught>>
      BY <1>4 DEF Reading
    <2>2. pass' \in [Passes -> GoodRows']
      BY <1>3, <1>4, <2>1
    <2> QED
      BY <1>1, <1>2, <2>1, <2>2, HistoryKeeps
  <1>5. CASE ReadCursor(p)
    BY <1>4, <1>5, ReadCursorIsGood DEF ReadCursor
  <1>6. CASE ReadCached(p)
    BY <1>4, <1>6, ReadCachedIsGood DEF ReadCached
  <1>7. CASE QueryPage(p)
    BY <1>4, <1>7, QueryPageIsGood DEF QueryPage
  <1>8. CASE QueryFails(p)
    BY <1>4, <1>8, IdleIsGood DEF QueryFails
  <1>9. CASE QueryReferences(p)
    BY <1>4, <1>9, QueryReferencesIsGood DEF QueryReferences
  <1>10. CASE SpawnBackfill(p)
    <2>1. PICK q \in GoodRows' : pass' = [pass EXCEPT ![p] = q]
      BY <1>1, <1>2, <1>10, BegunIsGood DEF SpawnBackfill
    <2> QED
      BY <1>4, <1>10, <2>1 DEF SpawnBackfill, Reading
  <1>11. CASE StorePage(p)
    <2>1. PICK q \in GoodRows' : pass' = [pass EXCEPT ![p] = q]
      BY <1>11, StorePageIsGood
    <2>2. PICK r \in GoodRows : r = pass[p]
      BY <1>1
    <2>3. fetched' = fetched \cup r.batch /\ r.batch \subseteq Events
          /\ UNCHANGED <<auxiliary, cursor, caught>>
      BY <1>11, <2>2 DEF StorePage, GoodRows, PassRows
    <2>4. pass' \in [Passes -> GoodRows']
      BY <1>3, <2>1, <2>3
    <2>5. fetched \subseteq fetched' /\ fetched' \subseteq Events
      BY <1>1, <2>3
    <2> QED
      BY <1>1, <1>2, <2>3, <2>4, <2>5, HistoryKeeps
  <1>12. CASE ApplyReferences(p)
    <2>1. PICK q \in GoodRows' : pass' = [pass EXCEPT ![p] = q]
      BY <1>12, ApplyReferencesIsGood
    <2>2. PICK r \in GoodRows : r = pass[p]
      BY <1>1
    <2>3. auxiliary' = auxiliary \cup r.got /\ r.got \subseteq Events
          /\ UNCHANGED <<fetched, cursor, caught>>
      BY <1>12, <2>2 DEF ApplyReferences, GoodRows, PassRows
    <2>4. pass' \in [Passes -> GoodRows']
      BY <1>3, <2>1, <2>3
    <2>5. auxiliary \subseteq auxiliary' /\ auxiliary' \subseteq Events
      BY <1>1, <2>3
    <2> QED
      BY <1>1, <1>2, <2>3, <2>4, <2>5, HistoryKeeps
  <1>13. CASE Resync(p)
    <2>1. PICK q \in GoodRows' : pass' = [pass EXCEPT ![p] = q]
      BY <1>1, <1>2, <1>13, BegunIsGood DEF Resync
    <2>2. UNCHANGED <<fetched, auxiliary, caught>> /\ cursor' = NoCursor
      BY <1>13 DEF Resync
    <2>3. pass' \in [Passes -> GoodRows']
      BY <1>3, <2>1, <2>2
    <2>4. HistoryTypeOK'
      BY <1>1, <1>2, <2>2 DEF HistoryTypeOK, Cursors, NoCursor
    <2>5. Reached(cursor.at)' /\ Reached(since)'
      BY <1>1, <1>2, <2>2 DEF Reached, NoCursor
    <2>6. NoHole'
      <3>1. cursor'.at = 0 /\ \A e \in Events : Second[e] \in Nat
        BY <2>2, PageOrderIs DEF NoCursor
      <3> QED
        BY <1>1, <1>2, <3>1 DEF NoHole, HistoryTypeOK
    <2> QED
      BY <1>1, <1>2, <2>2, <2>3, <2>4, <2>5, <2>6 DEF HistoryInv
  <1>14. CASE Save(p)
    <2>1. PICK r \in GoodRows : r = pass[p]
      BY <1>1
    <2>2. /\ r \in PassRows /\ r.stage = "save" /\ RowInv(r)
          /\ pass' = [pass EXCEPT ![p] = IdlePass] /\ UNCHANGED <<fetched, auxiliary>>
          /\ cursor' = IF r.newest.at >= cursor.at THEN r.newest ELSE cursor
          /\ caught' = (caught \/ (r.inSession /\ online))
      BY <1>14, <2>1 DEF Save, GoodRows
    <2>3. pass' \in [Passes -> GoodRows']
      BY <1>3, <2>2, IdleIsGood
    <2>4. /\ \A e \in relayHolds : Owes(r, e) => e \in fetched
          /\ Reached(r.newest.at)
      BY <2>2, AtTheEnd
    <2>5. cursor' = r.newest \/ cursor' = cursor
      BY <2>2
    <2>6. HistoryTypeOK'
      BY <1>1, <1>2, <2>2, <2>5 DEF HistoryTypeOK, PassRows
    <2>7. Reached(cursor.at)' /\ Reached(since)'
      BY <1>1, <1>2, <2>4, <2>5 DEF Reached
    <2>8. NoHole'
      BY <1>1, <1>2, <2>2, <2>4, <2>5 DEF NoHole, Owes
    <2>9. (online /\ caught => relayHolds \ late \subseteq fetched \cup inbound)'
      BY <1>1, <1>2, <2>2, <2>4 DEF Owes
    <2> QED
      BY <2>3, <2>6, <2>7, <2>8, <2>9 DEF HistoryInv
  <1> QED
    BY <1>5, <1>6, <1>7, <1>8, <1>9, <1>10, <1>11, <1>12, <1>13, <1>14 DEF PassStep

LEMMA HistoryStep ==
    ASSUME HistoryInv, [BackfillNext]_backfillVars
    PROVE  HistoryInv'
  <1>1. /\ HistoryTypeOK /\ Reached(since) /\ Reached(cursor.at) /\ NoHole
        /\ pass \in [Passes -> GoodRows]
        /\ online /\ caught => relayHolds \ late \subseteq fetched \cup inbound
    BY DEF HistoryInv
  <1>2. ASSUME UNCHANGED backfillVars PROVE HistoryInv'
    <2>1. UNCHANGED <<relayHolds, references, late, fetched, auxiliary, cursor, online, since,
                      inbound, pass, caught>>
      BY <1>2 DEF backfillVars, relayState, socket
    <2>2. pass' \in [Passes -> GoodRows']
      BY <1>1, <2>1, RowsStand
    <2> QED
      BY <1>1, <2>1, <2>2, HistoryKeeps DEF HistoryTypeOK
  <1>3. ASSUME NEW e \in Events, RelayAcceptsReference(e) PROVE HistoryInv'
    <2>1. /\ UNCHANGED <<relayHolds, late, fetched, auxiliary, cursor, online, since,
                         inbound, pass, caught>>
          /\ references' = references \cup {e} /\ e \in relayHolds
      BY <1>3 DEF RelayAcceptsReference, socket
    <2>2. pass' \in [Passes -> GoodRows']
      BY <1>1, <2>1, RowsStand
    <2> QED
      BY <1>1, <2>1, <2>2 DEF HistoryInv, HistoryTypeOK, Reached, NoHole
  <1>4. ASSUME NEW e \in Events, DeliverLive(e) PROVE HistoryInv'
    <2>1. /\ UNCHANGED <<relayHolds, references, late, auxiliary, cursor, online, since,
                         pass, caught>>
          /\ inbound' = inbound \ {e} /\ fetched' = fetched \cup {e}
      BY <1>4 DEF DeliverLive, relayState
    <2>2. pass' \in [Passes -> GoodRows']
      BY <1>1, <2>1, RowsStand
    <2> QED
      BY <1>1, <2>1, <2>2, HistoryKeeps DEF HistoryTypeOK
  <1>5. ASSUME BackfillNext PROVE HistoryInv'
    BY <1>3, <1>4, <1>5, AcceptsKeeps, ConnectionKeeps, PassKeeps DEF BackfillNext
  <1> QED
    BY <1>2, <1>5

\* Below the second of the cursor no event is missing that the relay took in order,
\* a pass that ends in its session closes the gap of the connection, and a pass has
\* what referred to its content: for any number of passes beside each other, pages
\* of any size, events of one second, failed queries, :resync and lost connections
\* (sync/backfill.rs, channel; sync/auxiliary.rs).
THEOREM HistoryCorrect == BackfillSpec => []HistoryComplete
  <1>1. BackfillInit => HistoryInv
    <2> SUFFICES ASSUME BackfillInit PROVE HistoryInv
      OBVIOUS
    <2>1. HistoryTypeOK
      BY FS_EmptySet DEF BackfillInit, HistoryTypeOK, Cursors, NoCursor
    <2>2. pass \in [Passes -> GoodRows]
      BY IdleIsGood DEF BackfillInit
    <2> QED
      BY <2>1, <2>2 DEF BackfillInit, HistoryInv, NoHole, Reached, NoCursor
  <1>2. HistoryInv /\ [BackfillNext]_backfillVars => HistoryInv'
    BY HistoryStep
  <1>3. HistoryInv => HistoryComplete
    <2> SUFFICES ASSUME HistoryInv PROVE HistoryComplete
      OBVIOUS
    <2>1. NoHole /\ GapRepaired
      BY DEF HistoryInv, GapRepaired
    <2>2. ASSUME NEW p \in Passes, pass[p].stage = "save"
          PROVE  /\ pass[p].owed \subseteq auxiliary
                 /\ pass[p].mark = NoCursor => pass[p].seen \subseteq fetched
      <3>1. PICK r \in GoodRows : r = pass[p]
        BY DEF HistoryInv
      <3>2. RowInv(r) /\ r.stage = "save"
        BY <2>2, <3>1 DEF GoodRows
      <3>3. /\ \A e \in relayHolds : Owes(r, e) => e \in fetched
            /\ r.owed \subseteq auxiliary /\ r.seen \subseteq relayHolds
        BY <3>2, AtTheEnd DEF RowInv, RowShape
      <3> QED
        BY <3>1, <3>3 DEF Owes
    <2> QED
      BY <2>1, <2>2 DEF HistoryComplete, PassIsComplete
  <1> QED
    BY <1>1, <1>2, <1>3, PTL DEF BackfillSpec

-----------------------------------------------------------------------------
(* What is read.  The slots of a client are in the order of their numbers,  *)
(* and the contexts are cut into parts in theirs: both are counted.  The    *)
(* events of one publication are later than all that the rows show, so only *)
(* the latest of a slot matter; they are ahead in the publication, in the   *)
(* outbox or at the relay, and what they do not say was not said.           *)

PublishStages == {"idle", "contexts", "slots", "build", "store", "send"}
Marks == [Contexts -> Nat]
OwnEvents == [slot : Slots, client : {"me"}, reads : Marks, at : Nat]
ForeignEvents == [slot : {ForeignSlot}, client : {"other"}, reads : Marks, at : Nat]

ReadTypeOK ==
    /\ reads \in Marks /\ marked \in Marks /\ dirty \in BOOLEAN /\ unsaid \in BOOLEAN
    /\ slotRows \in [AllSlots -> [client : {"none", "me", "other"}, at : Nat, isLocal : BOOLEAN]]
    /\ readOutbox \in SUBSET OwnEvents
    /\ publishing \in [stage : PublishStages, reads : Marks, slots : Seq(Slots), todo : Seq(OwnEvents)]
    /\ slotsHeld \in [AllSlots -> OwnEvents \cup ForeignEvents \cup {NoSlotEvent}]
    /\ \A s \in AllSlots : slotsHeld[s] # NoSlotEvent => slotsHeld[s].slot = s
    /\ clock \in Nat

\* What was handed to the store, and what is still to be.
Given == readOutbox \cup {e \in OwnEvents : slotsHeld[e.slot] = e}
StillAhead(i) ==
    /\ i \in DOMAIN publishing.todo
    /\ publishing.stage = "store" \/ (publishing.stage = "send" /\ i > 1)
Unsent == {e \in OwnEvents : \E i \in DOMAIN publishing.todo : StillAhead(i) /\ publishing.todo[i] = e}

\* The slots of this client.
LocalOnes == {s \in Slots : slotRows[s].isLocal}
\* The last that this client says in a slot.
LastWord(e) ==
    \/ e \in Unsent
    \/ /\ e \in Given /\ e.at = slotRows[e.slot].at
       /\ \A f \in Unsent : f.slot # e.slot

\* The other client writes in its own slot.
RowsInv ==
    /\ ~slotRows[ForeignSlot].isLocal
    /\ \A s \in Slots : slotRows[s] # NoSlot => slotRows[s].client = "me" /\ slotRows[s].isLocal

\* Of a slot no event is later than its row, and none has the time of another.
GivenInv ==
    /\ \A e \in Given : slotRows[e.slot].isLocal /\ e.at <= slotRows[e.slot].at
    /\ \A d, e \in Given : d.slot = e.slot /\ d.at = e.at => d = e

\* What is still to be stored is later than its row.
TodoInv ==
    /\ \A i \in DOMAIN publishing.todo : StillAhead(i) =>
         publishing.todo[i].at > slotRows[publishing.todo[i].slot].at
    /\ \A i, j \in DOMAIN publishing.todo :
         publishing.todo[i].slot = publishing.todo[j].slot => i = j
    /\ publishing.stage \in {"store", "send"} => publishing.todo # <<>>
    /\ publishing.stage = "send" =>
         /\ publishing.todo[1] \in readOutbox
         /\ publishing.todo[1].at = slotRows[publishing.todo[1].slot].at
    /\ publishing.stage = "idle" => publishing = NotPublishing
    /\ publishing.stage = "build" => publishing.slots = LocalSlots

Within(f) == \A x \in Contexts : f[x] <= reads[x]

\* No event of this client tells it what it has not read.
WithinInv ==
    /\ \A e \in Given \cup Unsent : Within(e.reads)
    /\ Within(publishing.reads)

Foreign(x) == slotsHeld[ForeignSlot].reads[x] >= reads[x]

\* Each mark is with the other client, in the publication under way, or in the
\* last word of a slot.
CoverInv ==
    ~unsaid /\ ~dirty => \A x \in Contexts :
      \/ Foreign(x)
      \/ publishing.stage = "contexts"
      \/ publishing.stage \in {"slots", "build"} /\ publishing.reads[x] >= reads[x]
      \/ publishing.stage \in {"idle", "store", "send"} /\
           \E e \in Given \cup Unsent : LastWord(e) /\ e.reads[x] >= reads[x]

BoundInv ==
    Cardinality(LocalOnes \cup {e.slot : e \in Unsent}) <= SlotsFor([x \in Contexts |-> 1])

ReadInv == ReadTypeOK /\ RowsInv /\ GivenInv /\ TodoInv /\ WithinInv /\ CoverInv /\ BoundInv

Below(S, p) == {r \in S : r < p}

LEMMA BelowGrows ==
    ASSUME NEW S \in SUBSET Nat, IsFiniteSet(S), NEW p \in S, NEW q \in S, p < q
    PROVE  Cardinality(Below(S, p)) < Cardinality(Below(S, q))
  <1>1. IsFiniteSet(Below(S, q)) /\ Cardinality(Below(S, q)) \in Nat
    <2>1. Below(S, q) \in SUBSET S
      BY DEF Below
    <2> QED
      BY <2>1, FS_Subset, FS_CardinalityType
  <1>2. Below(S, p) \subseteq Below(S, q) /\ p \in Below(S, q) /\ p \notin Below(S, p)
    <2>1. ASSUME NEW x \in S, x < p PROVE x < q
      <3>1. x \in Nat /\ p \in Nat /\ q \in Nat
        OBVIOUS
      <3> QED
        BY <2>1, <3>1
    <2>2. ~(p < p)
      <3>1. p \in Nat
        OBVIOUS
      <3> QED
        BY <3>1
    <2> QED
      BY <2>1, <2>2 DEF Below
  <1>3. /\ Cardinality(Below(S, p)) <= Cardinality(Below(S, q))
        /\ Cardinality(Below(S, q)) # Cardinality(Below(S, p))
        /\ IsFiniteSet(Below(S, p))
    BY <1>1, <1>2, FS_Subset
  <1>4. Cardinality(Below(S, p)) \in Nat
    BY <1>3, FS_CardinalityType
  <1> QED
    BY <1>1, <1>3, <1>4

LEMMA BelowCount ==
    ASSUME NEW S \in SUBSET Nat, IsFiniteSet(S), NEW p \in S
    PROVE  Cardinality(Below(S, p)) \in Nat /\ Cardinality(Below(S, p)) < Cardinality(S)
  <1>1. Below(S, p) \subseteq S /\ p \notin Below(S, p) /\ Cardinality(S) \in Nat
    <2>1. ~(p < p)
      <3>1. p \in Nat
        OBVIOUS
      <3> QED
        BY <3>1
    <2> QED
      BY <2>1, FS_CardinalityType DEF Below
  <1>2. /\ Cardinality(Below(S, p)) <= Cardinality(S)
        /\ Cardinality(S) # Cardinality(Below(S, p))
        /\ IsFiniteSet(Below(S, p))
    BY <1>1, FS_Subset
  <1>3. Cardinality(Below(S, p)) \in Nat
    BY <1>2, FS_CardinalityType
  <1> QED
    BY <1>1, <1>2, <1>3

LEMMA SomeIsAt ==
    ASSUME NEW S \in SUBSET Nat, IsFiniteSet(S), NEW i \in 1..Cardinality(S)
    PROVE  \E p \in S : Cardinality(Below(S, p)) = i - 1
  <1> DEFINE rank == [p \in S |-> Cardinality(Below(S, p)) + 1]
             N == 1..Cardinality(S)
  <1>0. \A p \in S : Cardinality(Below(S, p)) \in Nat /\ Cardinality(Below(S, p)) < Cardinality(S)
    BY BelowCount
  <1>1. rank \in [S -> N]
    BY <1>0, FS_CardinalityType
  <1>2. ASSUME NEW p \in S, NEW q \in S, rank[p] = rank[q] PROVE p = q
    <2>1. Cardinality(Below(S, p)) = Cardinality(Below(S, q))
      BY <1>0, <1>2
    <2>2. Cardinality(Below(S, p)) \in Nat /\ p \in Nat /\ q \in Nat
      BY <1>0
    <2>3. ~(p < q) /\ ~(q < p)
      BY <2>1, <2>2, BelowGrows
    <2> QED
      BY <2>2, <2>3
  <1>3. rank \in Injection(S, N)
    BY <1>1, <1>2 DEF Injection, IsInjective
  <1>4. Cardinality(S) \in Nat /\ IsFiniteSet(N) /\ Cardinality(N) = Cardinality(S)
    BY FS_CardinalityType, FS_Interval
  <1>5. rank \in Surjection(S, N)
    BY <1>3, <1>4, FS_Injection
  <1>6. PICK p \in S : rank[p] = i
    BY <1>5 DEF Surjection
  <1>7. Cardinality(Below(S, p)) + 1 = i /\ Cardinality(Below(S, p)) \in Int
    BY <1>0, <1>6
  <1> QED
    BY <1>7

\* Each slot is in the list of the slots, and once.
LEMMA AscendingHasAll ==
    ASSUME NEW S \in SUBSET Nat, IsFiniteSet(S)
    PROVE  /\ Ascending(S) \in Seq(S) /\ Len(Ascending(S)) = Cardinality(S)
           /\ DOMAIN Ascending(S) = 1..Cardinality(S) /\ Cardinality(S) \in Nat
           /\ \A p \in S : \E i \in 1..Cardinality(S) : Ascending(S)[i] = p
           /\ \A i, j \in 1..Cardinality(S) : Ascending(S)[i] = Ascending(S)[j] => i = j
  <1> DEFINE N == Cardinality(S)
             Is(i, p) == Cardinality(Below(S, p)) = i - 1
  <1>1. N \in Nat /\ Ascending(S) = [i \in 1..N |-> CHOOSE p \in S : Is(i, p)]
    BY FS_CardinalityType DEF Ascending, Below
  <1>2. ASSUME NEW i \in 1..N PROVE Ascending(S)[i] \in S /\ Is(i, Ascending(S)[i])
    <2>1. \E p \in S : Is(i, p)
      BY SomeIsAt
    <2>2. Ascending(S)[i] = CHOOSE p \in S : Is(i, p)
      BY <1>1
    <2> QED
      BY <2>1, <2>2
  <1>3. Ascending(S) \in Seq(S) /\ Len(Ascending(S)) = N /\ DOMAIN Ascending(S) = 1..N
    BY <1>1, <1>2
  <1>4. ASSUME NEW p \in S PROVE \E i \in 1..N : Ascending(S)[i] = p
    <2>0. Cardinality(Below(S, p)) \in Nat /\ Cardinality(Below(S, p)) < N
      BY BelowCount
    <2>1. PICK i \in 1..N : i = Cardinality(Below(S, p)) + 1
      BY <1>1, <2>0
    <2>2. Is(i, p) /\ Is(i, Ascending(S)[i]) /\ Ascending(S)[i] \in S
      BY <1>2, <2>0, <2>1
    <2>3. PICK q \in S : q = Ascending(S)[i]
      BY <2>2
    <2>4. Cardinality(Below(S, q)) = Cardinality(Below(S, p)) /\ p \in Nat /\ q \in Nat
      BY <2>0, <2>1, <2>2, <2>3
    <2>5. ~(p < q) /\ ~(q < p)
      BY <2>0, <2>4, BelowGrows
    <2>6. p = q
      BY <2>4, <2>5
    <2> QED
      BY <2>3, <2>6
  <1>5. ASSUME NEW i \in 1..N, NEW j \in 1..N, Ascending(S)[i] = Ascending(S)[j] PROVE i = j
    <2>1. i - 1 = j - 1
      BY <1>2, <1>5
    <2> QED
      BY <1>1, <2>1
  <1> QED
    BY <1>1, <1>3, <1>4, <1>5

LEMMA GreatestThereIs ==
    ASSUME NEW S \in SUBSET Nat, IsFiniteSet(S), S # {}
    PROVE  \E p \in S : \A q \in S : q <= p
  <1>1. Cardinality(S) \in Nat /\ Cardinality(S) # 0
    BY FS_CardinalityType, FS_EmptySet
  <1>2. PICK i \in 1..Cardinality(S) : i = Cardinality(S)
    BY <1>1
  <1>3. PICK p \in S : Cardinality(Below(S, p)) = i - 1
    BY SomeIsAt
  <1>4. ASSUME NEW q \in S PROVE q <= p
    <2>1. /\ Cardinality(Below(S, q)) \in Nat /\ Cardinality(Below(S, q)) < Cardinality(S)
          /\ Cardinality(Below(S, p)) \in Nat
      BY BelowCount
    <2>2. ~(p < q)
      BY <1>1, <1>2, <1>3, <2>1, BelowGrows
    <2>3. p \in Nat /\ q \in Nat
      OBVIOUS
    <2> QED
      BY <2>2, <2>3
  <1> QED
    BY <1>4

LEMMA Divided ==
    ASSUME NEW c \in Nat \ {0}, NEW a \in Nat, NEW b \in Nat, a <= b
    PROVE  a \div c \in Nat /\ a \div c <= b \div c
  OBVIOUS

LEMMA ReadConstants ==
    /\ Contexts \in SUBSET Nat /\ IsFiniteSet(Contexts)
    /\ Slots \in SUBSET Nat /\ IsFiniteSet(Slots)
    /\ ForeignSlot \in Nat /\ ForeignSlot \notin Slots
    /\ AllSlots \in SUBSET Nat /\ IsFiniteSet(AllSlots) /\ Slots \subseteq AllSlots
    /\ ForeignSlot \in AllSlots
    /\ Capacity \in Nat \ {0}
    /\ Unread \in Marks
  <1>1. IsFiniteSet(AllSlots)
    BY ReadStateAssumption, FS_AddElement DEF AllSlots
  <1> QED
    BY <1>1, ReadStateAssumption DEF AllSlots, Unread, Marks

LEMMA SlotsForMonotone ==
    ASSUME NEW f \in Marks, NEW g \in Marks, \A x \in Contexts : f[x] > 0 => g[x] > 0
    PROVE  SlotsFor(f) \in Nat /\ SlotsFor(f) >= 1 /\ SlotsFor(f) <= SlotsFor(g)
  <1> DEFINE F == {x \in Contexts : f[x] > 0}
             G == {x \in Contexts : g[x] > 0}
  <1>1. G \subseteq Contexts /\ F \subseteq G /\ IsFiniteSet(G)
    BY ReadConstants, FS_Subset
  <1>2. IsFiniteSet(F) /\ Cardinality(F) <= Cardinality(G)
    BY <1>1, FS_Subset
  <1>3. PICK m \in Nat : m = Cardinality(F)
    BY <1>2, FS_CardinalityType
  <1>4. PICK n \in Nat : n = Cardinality(G)
    BY <1>1, FS_CardinalityType
  <1>5. /\ SlotsFor(f) = IF m = 0 THEN 1 ELSE ((m - 1) \div Capacity) + 1
        /\ SlotsFor(g) = IF n = 0 THEN 1 ELSE ((n - 1) \div Capacity) + 1
    BY <1>3, <1>4 DEF SlotsFor
  <1>6. m <= n
    BY <1>2, <1>3, <1>4
  <1> HIDE DEF F, G
  <1>7. CASE m = 0
    <2>1. n # 0 => (n - 1) \div Capacity \in Nat
      BY ReadConstants, Divided
    <2> QED
      BY <1>5, <1>7, <2>1
  <1>8. CASE m # 0
    <2>1. m - 1 \in Nat /\ n - 1 \in Nat /\ m - 1 <= n - 1
      BY <1>6, <1>8
    <2>2. PICK a \in Nat, b \in Nat : a = m - 1 /\ b = n - 1
      BY <2>1
    <2>3. a \div Capacity \in Nat /\ b \div Capacity \in Nat /\ a \div Capacity <= b \div Capacity
      BY <2>1, <2>2, ReadConstants, Divided
    <2>4. SlotsFor(f) = (a \div Capacity) + 1 /\ SlotsFor(g) = (b \div Capacity) + 1
      BY <1>5, <1>6, <1>8, <2>2
    <2> QED
      BY <2>3, <2>4
  <1> QED
    BY <1>7, <1>8

\* No context is left out of the parts.
LEMMA PartsHaveAll ==
    ASSUME NEW f \in Marks, NEW x \in Contexts, f[x] > 0
    PROVE  \E i \in 1..SlotsFor(f) : Part(f, i)[x] = f[x]
  <1> DEFINE F == {y \in Contexts : f[y] > 0}
  <1>1. F \in SUBSET Nat /\ IsFiniteSet(F) /\ x \in F
    BY ReadConstants, FS_Subset
  <1>2. PICK n \in Nat : n = Cardinality(F)
    BY <1>1, FS_CardinalityType
  <1>3. PICK k \in Nat : k = Cardinality(Below(F, x)) /\ k < n
    BY <1>1, <1>2, BelowCount
  <1>4. PICK m \in Nat : m = n - 1 /\ k <= m
    <2>1. n - 1 \in Nat /\ k <= n - 1
      BY <1>3
    <2> QED
      BY <2>1
  <1>5. PICK a \in Nat, b \in Nat : a = k \div Capacity /\ b = m \div Capacity /\ a <= b
    <2>1. k \div Capacity \in Nat /\ m \div Capacity \in Nat /\ k \div Capacity <= m \div Capacity
      BY <1>4, ReadConstants, Divided
    <2> QED
      BY <2>1
  <1>6. SlotsFor(f) = b + 1
    BY <1>2, <1>3, <1>4, <1>5 DEF SlotsFor
  <1>7. Part(f, a + 1) =
          [y \in Contexts |-> IF y \in F /\ Cardinality(Below(F, y)) \div Capacity = (a + 1) - 1
                              THEN f[y] ELSE 0]
    BY DEF Part, Below
  <1>8. Part(f, a + 1)[x] = f[x]
    BY <1>1, <1>3, <1>5, <1>7
  <1> QED
    BY <1>5, <1>6, <1>8

LEMMA PartsAreLess ==
    ASSUME NEW f \in Marks, NEW i \in Nat
    PROVE  Part(f, i) \in Marks /\ \A x \in Contexts : Part(f, i)[x] <= f[x]
  <1> DEFINE C(x) == /\ x \in {y \in Contexts : f[y] > 0}
                     /\ Cardinality({y \in {z \in Contexts : f[z] > 0} : y < x}) \div Capacity = i - 1
  <1>1. Part(f, i) = [x \in Contexts |-> IF C(x) THEN f[x] ELSE 0]
    BY DEF Part
  <1> HIDE DEF C
  <1> QED
    BY <1>1 DEF Marks

LEMMA SeenIsAll ==
    ASSUME ReadTypeOK
    PROVE  MaxSeen \in Nat /\ \A s \in AllSlots : slotRows[s].at <= MaxSeen
  <1> DEFINE ats == {slotRows[s].at : s \in AllSlots}
             f == [s \in AllSlots |-> slotRows[s].at]
  <1>1. ats \in SUBSET Nat /\ ats # {}
    BY ReadConstants DEF ReadTypeOK
  <1>2. f \in Surjection(AllSlots, ats)
    BY DEF Surjection
  <1>3. IsFiniteSet(ats)
    BY <1>2, ReadConstants, FS_Surjection
  <1>4. \E t \in ats : \A u \in ats : u <= t
    BY <1>1, <1>3, GreatestThereIs
  <1>5. MaxSeen = CHOOSE t \in ats : \A u \in ats : u <= t
    BY DEF MaxSeen
  <1>6. MaxSeen \in ats /\ \A u \in ats : u <= MaxSeen
    BY <1>4, <1>5
  <1> QED
    BY <1>1, <1>6

\* The slots in which this client writes.
LEMMA LocalListIs ==
    ASSUME ReadTypeOK, RowsInv
    PROVE  /\ LocalSlots \in Seq(Slots) /\ IsFiniteSet(LocalOnes)
           /\ DOMAIN LocalSlots = 1..Cardinality(LocalOnes) /\ Len(LocalSlots) = Cardinality(LocalOnes)
           /\ Cardinality(LocalOnes) \in Nat
           /\ \A i \in 1..Cardinality(LocalOnes) : LocalSlots[i] \in LocalOnes
           /\ \A p \in LocalOnes : \E i \in 1..Cardinality(LocalOnes) : LocalSlots[i] = p
           /\ \A i, j \in 1..Cardinality(LocalOnes) : LocalSlots[i] = LocalSlots[j] => i = j
  <1>1. {s \in AllSlots : slotRows[s].isLocal} = LocalOnes
    BY DEF RowsInv, LocalOnes, AllSlots
  <1>2. LocalSlots = Ascending(LocalOnes)
    BY <1>1 DEF LocalSlots
  <1>3. LocalOnes \in SUBSET Slots /\ LocalOnes \in SUBSET Nat /\ IsFiniteSet(LocalOnes)
    BY ReadConstants, FS_Subset DEF LocalOnes
  <1>4. /\ Ascending(LocalOnes) \in Seq(LocalOnes)
        /\ Len(Ascending(LocalOnes)) = Cardinality(LocalOnes)
        /\ DOMAIN Ascending(LocalOnes) = 1..Cardinality(LocalOnes) /\ Cardinality(LocalOnes) \in Nat
        /\ \A p \in LocalOnes : \E i \in 1..Cardinality(LocalOnes) : Ascending(LocalOnes)[i] = p
        /\ \A i, j \in 1..Cardinality(LocalOnes) :
             Ascending(LocalOnes)[i] = Ascending(LocalOnes)[j] => i = j
    BY <1>3, AscendingHasAll
  <1>5. Ascending(LocalOnes) \in Seq(Slots)
    <2>1. /\ Ascending(LocalOnes) = [i \in 1..Cardinality(LocalOnes) |-> Ascending(LocalOnes)[i]]
          /\ \A i \in 1..Cardinality(LocalOnes) : Ascending(LocalOnes)[i] \in Slots
      BY <1>3, <1>4
    <2>2. PICK k \in Nat : k = Cardinality(LocalOnes)
      BY <1>4
    <2>3. Ascending(LocalOnes) \in [1..k -> Slots]
      BY <2>1, <2>2
    <2> QED
      BY <2>3
  <1>6. \A i \in 1..Cardinality(LocalOnes) : LocalSlots[i] \in LocalOnes
    BY <1>2, <1>4
  <1> QED
    BY <1>2, <1>3, <1>4, <1>5, <1>6

LEMMA ReadAtFirst == ReadInit => ReadInv
  <1> SUFFICES ASSUME ReadInit PROVE ReadInv
    OBVIOUS
  <1>0. Unsent = {} /\ Given = {} /\ LocalOnes = {}
    <2>1. Unsent = {}
      BY DEF ReadInit, Unsent, StillAhead, NotPublishing
    <2>2. LocalOnes = {}
      BY ReadConstants DEF ReadInit, LocalOnes, NoSlot
    <2>3. ASSUME NEW e \in OwnEvents PROVE slotsHeld[e.slot] # e
      <3>1. e.slot \in AllSlots /\ e.client = "me"
        BY ReadConstants DEF OwnEvents
      <3> QED
        BY <3>1 DEF ReadInit, NoSlotEvent
    <2>4. readOutbox = {}
      BY DEF ReadInit
    <2> QED
      BY <2>1, <2>2, <2>3, <2>4 DEF Given
  <1>1. ReadTypeOK
    <2>1. publishing \in [stage : PublishStages, reads : Marks, slots : Seq(Slots), todo : Seq(OwnEvents)]
      <3>1. NotPublishing \in [stage : PublishStages, reads : Marks, slots : Seq(Slots), todo : Seq(OwnEvents)]
        BY ReadConstants DEF NotPublishing, PublishStages
      <3> QED
        BY <3>1 DEF ReadInit
    <2>2. slotRows \in [AllSlots -> [client : {"none", "me", "other"}, at : Nat, isLocal : BOOLEAN]]
      BY DEF ReadInit, NoSlot
    <2>3. /\ slotsHeld \in [AllSlots -> OwnEvents \cup ForeignEvents \cup {NoSlotEvent}]
          /\ \A s \in AllSlots : slotsHeld[s] = NoSlotEvent
      BY DEF ReadInit
    <2>4. reads \in Marks /\ marked \in Marks /\ readOutbox \in SUBSET OwnEvents
      BY ReadConstants DEF ReadInit
    <2>5. dirty \in BOOLEAN /\ unsaid \in BOOLEAN /\ clock \in Nat
      BY DEF ReadInit
    <2> QED
      BY <2>1, <2>2, <2>3, <2>4, <2>5 DEF ReadTypeOK
  <1>2. RowsInv
    BY ReadConstants DEF ReadInit, RowsInv, NoSlot, AllSlots
  <1>3. GivenInv
    BY <1>0 DEF GivenInv
  <1>4. TodoInv
    BY DEF ReadInit, TodoInv, NotPublishing, StillAhead
  <1>5. WithinInv
    BY <1>0, ReadConstants DEF WithinInv, Within, ReadInit, NotPublishing, Unread
  <1>6. CoverInv
    BY ReadConstants DEF CoverInv, Foreign, ReadInit, NoSlotEvent, Unread
  <1>7. BoundInv
    <2>1. LocalOnes \cup {e.slot : e \in Unsent} = {}
      BY <1>0
    <2>2. [x \in Contexts |-> 1] \in Marks
      BY DEF Marks
    <2>3. PICK n \in Nat : n = SlotsFor([x \in Contexts |-> 1]) /\ n >= 1
      BY <2>2, SlotsForMonotone
    <2> QED
      BY <2>1, <2>3, FS_EmptySet DEF BoundInv
  <1> QED
    BY <1>1, <1>2, <1>3, <1>4, <1>5, <1>6, <1>7 DEF ReadInv

LEMMA MarkReadKeeps ==
    ASSUME ReadInv, NEW x \in Contexts, NEW at \in 1..MaxRead, MarkRead(x, at)
    PROVE  ReadInv'
  <1>0. ReadTypeOK /\ at \in Nat
    BY ReadStateAssumption DEF ReadInv
  <1>1. reads' \in Marks /\ \A y \in Contexts : reads[y] <= reads'[y]
    BY <1>0 DEF ReadTypeOK, MarkRead, Marks
  <1>2. marked' \in Marks
    BY <1>0 DEF ReadTypeOK, MarkRead, Marks
  <1>3. /\ dirty' = TRUE /\ slotRows' = slotRows /\ readOutbox' = readOutbox
        /\ publishing' = publishing /\ slotsHeld' = slotsHeld /\ clock' = clock /\ unsaid' = unsaid
    BY DEF MarkRead, outsideReads
  <1>4. Given' = Given /\ Unsent' = Unsent /\ LocalOnes' = LocalOnes /\ LocalSlots' = LocalSlots
    BY <1>3 DEF Given, Unsent, StillAhead, LocalOnes, LocalSlots
  <1>5. ReadTypeOK'
    BY <1>0, <1>1, <1>2, <1>3 DEF ReadTypeOK
  <1>6. RowsInv' /\ GivenInv' /\ BoundInv'
    BY <1>3, <1>4 DEF ReadInv, RowsInv, GivenInv, BoundInv
  <1>7. TodoInv'
    BY <1>3, <1>4 DEF ReadInv, TodoInv, StillAhead
  <1>8. WithinInv'
    <2>1. ASSUME NEW f \in Marks, Within(f) PROVE Within(f)'
      <3>1. ASSUME NEW y \in Contexts PROVE f[y] <= reads'[y]
        <4>1. f[y] <= reads[y] /\ reads[y] <= reads'[y]
          BY <1>1, <2>1 DEF Within
        <4>2. f[y] \in Nat /\ reads[y] \in Nat /\ reads'[y] \in Nat
          BY <1>0, <1>1 DEF Marks, ReadTypeOK
        <4> QED
          BY <4>1, <4>2
      <3> QED
        BY <3>1 DEF Within
    <2>2. \A e \in Given \cup Unsent : e.reads \in Marks
      BY <1>0 DEF Given, Unsent, OwnEvents, ReadTypeOK
    <2>3. publishing.reads \in Marks
      BY <1>0 DEF ReadTypeOK
    <2> QED
      BY <1>3, <1>4, <2>1, <2>2, <2>3 DEF ReadInv, WithinInv
  <1>9. CoverInv'
    BY <1>3 DEF CoverInv
  <1> QED
    BY <1>5, <1>6, <1>7, <1>8, <1>9 DEF ReadInv

LEMMA ForeignKeeps ==
    ASSUME ReadInv, NEW x \in Contexts, NEW at \in 1..MaxRead, ForeignPublishes(x, at)
    PROVE  ReadInv'
  <1>0. ReadTypeOK /\ at \in Nat
    BY ReadStateAssumption DEF ReadInv
  <1> DEFINE old == slotsHeld[ForeignSlot]
  <1>a. old.reads \in Marks /\ old.at \in Nat
    BY <1>0, ReadConstants DEF ReadTypeOK, OwnEvents, ForeignEvents, NoSlotEvent
  <1>b. PICK instant \in old.at + 1 .. MaxTime :
          /\ at > old.reads[x]
          /\ RelayHolds([slot |-> ForeignSlot, client |-> "other",
                         reads |-> [old.reads EXCEPT ![x] = at], at |-> instant])
    BY DEF ForeignPublishes
  <1>c. PICK new \in ForeignEvents : new = [slot |-> ForeignSlot, client |-> "other",
                                            reads |-> [old.reads EXCEPT ![x] = at], at |-> instant]
    <2>1. [old.reads EXCEPT ![x] = at] \in Marks /\ instant \in Nat
      BY <1>0, <1>a DEF Marks
    <2> QED
      BY <2>1 DEF ForeignEvents
  <1>d. RelayHolds(new) /\ new.slot = ForeignSlot /\ new.at > old.at
    BY <1>a, <1>b, <1>c
  <1>1. slotsHeld' = [slotsHeld EXCEPT ![ForeignSlot] = new]
    BY <1>d DEF RelayHolds, Newer
  <1>2. /\ dirty' = dirty /\ slotRows' = slotRows /\ readOutbox' = readOutbox /\ reads' = reads
        /\ publishing' = publishing /\ marked' = marked /\ clock' = clock /\ unsaid' = unsaid
    BY DEF ForeignPublishes, kept, ram
  <1>3. \A s \in Slots : slotsHeld'[s] = slotsHeld[s]
    BY <1>0, <1>1, ReadConstants DEF ReadTypeOK
  <1>4. Given' = Given /\ Unsent' = Unsent /\ LocalOnes' = LocalOnes /\ LocalSlots' = LocalSlots
    <2>1. \A e \in OwnEvents : e.slot \in Slots
      BY DEF OwnEvents
    <2>2. Given' = Given
      BY <1>2, <1>3, <2>1 DEF Given
    <2> QED
      BY <1>2, <2>2 DEF Unsent, StillAhead, LocalOnes, LocalSlots
  <1>5. ReadTypeOK'
    <2>1. slotsHeld' \in [AllSlots -> OwnEvents \cup ForeignEvents \cup {NoSlotEvent}]
      BY <1>0, <1>1 DEF ReadTypeOK
    <2>2. \A s \in AllSlots : slotsHeld'[s] # NoSlotEvent => slotsHeld'[s].slot = s
      BY <1>0, <1>1, <1>d DEF ReadTypeOK
    <2> QED
      BY <1>0, <1>2, <2>1, <2>2 DEF ReadTypeOK
  <1>6. RowsInv' /\ GivenInv' /\ BoundInv'
    BY <1>2, <1>4 DEF ReadInv, RowsInv, GivenInv, BoundInv
  <1>7. TodoInv' /\ WithinInv'
    BY <1>2, <1>4 DEF ReadInv, TodoInv, StillAhead, WithinInv, Within
  <1>8. CoverInv'
    <2>1. \A e : LastWord(e) => LastWord(e)'
      BY <1>2, <1>4 DEF LastWord
    <2>2. ASSUME NEW y \in Contexts, Foreign(y) PROVE Foreign(y)'
      <3>0. slotsHeld'[ForeignSlot] = new /\ new.reads = [old.reads EXCEPT ![x] = at]
        BY <1>0, <1>1, <1>c, ReadConstants DEF ReadTypeOK
      <3>2. new.reads[y] \in Nat /\ old.reads[y] \in Nat /\ reads[y] \in Nat /\ old.reads[x] \in Nat
        BY <1>0, <1>a DEF Marks, ForeignEvents, ReadTypeOK
      <3>5. new.reads[y] = IF y = x THEN at ELSE old.reads[y]
        BY <1>a, <3>0 DEF Marks
      <3>1. slotsHeld'[ForeignSlot] = new /\ new.reads[y] >= old.reads[y]
        BY <1>0, <1>b, <3>0, <3>2, <3>5
      <3>3. old.reads[y] >= reads[y]
        BY <2>2 DEF Foreign
      <3>4. new.reads[y] >= reads[y]
        BY <3>1, <3>2, <3>3
      <3> QED
        BY <1>2, <3>1, <3>4 DEF Foreign
    <2> QED
      BY <1>2, <1>4, <2>1, <2>2 DEF ReadInv, CoverInv
  <1> QED
    BY <1>5, <1>6, <1>7, <1>8 DEF ReadInv

LEMMA ReadStutters ==
    ASSUME ReadInv, UNCHANGED readVars
    PROVE  ReadInv'
  <1>1. /\ dirty' = dirty /\ slotRows' = slotRows /\ readOutbox' = readOutbox /\ reads' = reads
        /\ publishing' = publishing /\ marked' = marked /\ clock' = clock /\ unsaid' = unsaid
        /\ slotsHeld' = slotsHeld
    BY DEF readVars, kept, ram, outsideReads
  <1>2. Given' = Given /\ Unsent' = Unsent /\ LocalOnes' = LocalOnes /\ LocalSlots' = LocalSlots
    BY <1>1 DEF Given, Unsent, StillAhead, LocalOnes, LocalSlots
  <1>3. ReadTypeOK' /\ RowsInv' /\ GivenInv' /\ BoundInv'
    BY <1>1, <1>2 DEF ReadInv, ReadTypeOK, RowsInv, GivenInv, BoundInv
  <1>4. TodoInv' /\ WithinInv'
    BY <1>1, <1>2 DEF ReadInv, TodoInv, StillAhead, WithinInv, Within
  <1>5. CoverInv'
    <2>1. \A e : LastWord(e) => LastWord(e)'
      BY <1>1, <1>2 DEF LastWord
    <2>2. \A y : Foreign(y) => Foreign(y)'
      BY <1>1 DEF Foreign
    <2> QED
      BY <1>1, <1>2, <2>1, <2>2 DEF ReadInv, CoverInv
  <1> QED
    BY <1>3, <1>4, <1>5 DEF ReadInv

\* A slot of this client is held as one of its events.
LEMMA HeldIsGiven ==
    ASSUME ReadTypeOK, NEW s \in Slots, slotsHeld[s] # NoSlotEvent
    PROVE  slotsHeld[s] \in OwnEvents /\ slotsHeld[s] \in Given /\ slotsHeld[s].slot = s
  <1>1. /\ slotsHeld[s] \in OwnEvents \cup ForeignEvents \cup {NoSlotEvent}
        /\ slotsHeld[s].slot = s
    BY ReadConstants DEF ReadTypeOK
  <1>2. slotsHeld[s] \in OwnEvents
    BY <1>1, ReadConstants DEF ForeignEvents
  <1> QED
    BY <1>1, <1>2 DEF Given

\* An event of this client that comes back tells it nothing.
LEMMA OwnMergeKeeps ==
    ASSUME ReadInv, NEW s \in Slots, MergeEvent(s)
    PROVE  ReadInv'
  <1>0. ReadTypeOK
    BY DEF ReadInv
  <1>1. PICK e \in OwnEvents : e = slotsHeld[s] /\ e \in Given /\ e.slot = s
    BY <1>0, HeldIsGiven DEF MergeEvent
  <1>2. Within(e.reads) /\ slotRows[s].isLocal /\ e.at <= slotRows[s].at
    BY <1>1 DEF ReadInv, WithinInv, GivenInv
  <1>3. PICK old \in [client : {"none", "me", "other"}, at : Nat, isLocal : BOOLEAN] : old = slotRows[s]
    BY <1>0, ReadConstants DEF ReadTypeOK
  <1>4. old # NoSlot /\ old.isLocal
    BY <1>2, <1>3 DEF NoSlot
  <1>5. old.client = "me"
    BY <1>3, <1>4 DEF ReadInv, RowsInv
  <1>6. reads' = reads
    <2>1. reads' = [x \in Contexts |-> IF reads[x] >= e.reads[x] THEN reads[x] ELSE e.reads[x]]
      BY <1>1 DEF MergeEvent, Merged
    <2>2. \A x \in Contexts : reads[x] >= e.reads[x]
      <3>1. ASSUME NEW x \in Contexts PROVE reads[x] >= e.reads[x]
        <4>1. reads[x] \in Nat /\ e.reads[x] \in Nat
          BY <1>0 DEF ReadTypeOK, OwnEvents, Marks
        <4>2. e.reads[x] <= reads[x]
          BY <1>2 DEF Within
        <4> QED
          BY <4>1, <4>2
      <3> QED
        BY <3>1
    <2>3. reads = [x \in Contexts |-> reads[x]]
      BY <1>0 DEF ReadTypeOK, Marks
    <2> QED
      BY <2>1, <2>2, <2>3
  <1>7. slotRows' = slotRows
    <2>1. e.at \in Nat /\ e.client = "me" /\ e.at <= old.at /\ old.at \in Nat
      BY <1>2, <1>3 DEF OwnEvents
    <2>2. [client |-> "me", at |-> IF old.at > e.at THEN old.at ELSE e.at,
           isLocal |-> IF old.client = "me" THEN old.isLocal \/ FALSE ELSE FALSE]
          = [client |-> "me", at |-> old.at, isLocal |-> TRUE]
      <3>1. (IF old.at > e.at THEN old.at ELSE e.at) = old.at
        BY <2>1
      <3>2. (IF old.client = "me" THEN old.isLocal \/ FALSE ELSE FALSE) = TRUE
        BY <1>4, <1>5
      <3> QED
        BY <3>1, <3>2
    <2>3. old = [client |-> "me", at |-> old.at, isLocal |-> TRUE]
      BY <1>3, <1>4, <1>5
    <2>4. slotRows' = [slotRows EXCEPT ![s] =
            [client |-> e.client, at |-> IF old.at > e.at THEN old.at ELSE e.at,
             isLocal |-> IF old.client = e.client THEN old.isLocal \/ FALSE ELSE FALSE]]
      BY <1>1, <1>3 DEF MergeEvent, Recorded
    <2>5. slotRows' = [slotRows EXCEPT ![s] = old]
      BY <2>1, <2>2, <2>3, <2>4
    <2> QED
      BY <1>0, <1>3, <2>5, ReadConstants DEF ReadTypeOK
  <1> QED
    BY <1>6, <1>7, ReadStutters DEF MergeEvent, readVars, kept

LEMMA ForeignMergeKeeps ==
    ASSUME ReadInv, MergeEvent(ForeignSlot)
    PROVE  ReadInv'
  <1>0. ReadTypeOK
    BY DEF ReadInv
  <1>1. PICK e \in ForeignEvents : e = slotsHeld[ForeignSlot]
    <2>1. slotsHeld[ForeignSlot] \in OwnEvents \cup ForeignEvents \cup {NoSlotEvent}
      BY <1>0, ReadConstants DEF ReadTypeOK
    <2>2. slotsHeld[ForeignSlot] # NoSlotEvent /\ slotsHeld[ForeignSlot].slot = ForeignSlot
      BY <1>0, ReadConstants DEF ReadTypeOK, MergeEvent
    <2>3. \A d \in OwnEvents : d.slot \in Slots
      BY DEF OwnEvents
    <2> QED
      BY <2>1, <2>2, <2>3, ReadConstants
  <1>2. /\ dirty' = dirty /\ readOutbox' = readOutbox /\ publishing' = publishing
        /\ marked' = marked /\ clock' = clock /\ unsaid' = unsaid /\ slotsHeld' = slotsHeld
    BY DEF MergeEvent, ram, outsideReads
  <1>3. reads' = [x \in Contexts |-> IF reads[x] >= e.reads[x] THEN reads[x] ELSE e.reads[x]]
    BY <1>1 DEF MergeEvent, Merged
  <1>4. /\ reads' \in Marks
        /\ \A x \in Contexts : /\ reads[x] <= reads'[x] /\ e.reads[x] <= reads'[x]
                               /\ reads'[x] = reads[x] \/ reads'[x] = e.reads[x]
    BY <1>0, <1>3 DEF ReadTypeOK, ForeignEvents, Marks
  <1>5. PICK newRow : slotRows' = [slotRows EXCEPT ![ForeignSlot] = newRow]
                   /\ newRow \in [client : {"none", "me", "other"}, at : Nat, isLocal : {FALSE}]
    <2>1. PICK old \in [client : {"none", "me", "other"}, at : Nat, isLocal : BOOLEAN] :
            old = slotRows[ForeignSlot]
      BY <1>0, ReadConstants DEF ReadTypeOK
    <2>2. ~old.isLocal
      BY <2>1 DEF ReadInv, RowsInv
    <2>3. slotRows' = [slotRows EXCEPT ![ForeignSlot] =
            [client |-> e.client, at |-> IF old.at > e.at THEN old.at ELSE e.at,
             isLocal |-> IF old.client = e.client THEN old.isLocal \/ FALSE ELSE FALSE]]
      BY <1>1, <2>1 DEF MergeEvent, Recorded
    <2>4. old.at \in Nat /\ e.at \in Nat /\ e.client = "other" /\ old.isLocal = FALSE
      BY <2>1, <2>2 DEF ForeignEvents
    <2>5. [client |-> e.client, at |-> IF old.at > e.at THEN old.at ELSE e.at,
           isLocal |-> IF old.client = e.client THEN old.isLocal \/ FALSE ELSE FALSE]
          \in [client : {"none", "me", "other"}, at : Nat, isLocal : {FALSE}]
      BY <2>4
    <2> QED
      BY <2>3, <2>5
  <1>6. /\ slotRows' \in [AllSlots -> [client : {"none", "me", "other"}, at : Nat, isLocal : BOOLEAN]]
        /\ \A s \in Slots : slotRows'[s] = slotRows[s]
        /\ slotRows'[ForeignSlot].isLocal = FALSE
    BY <1>0, <1>5, ReadConstants DEF ReadTypeOK
  <1>7. Given' = Given /\ Unsent' = Unsent /\ LocalOnes' = LocalOnes /\ LocalSlots' = LocalSlots
    <2>1. Given' = Given /\ Unsent' = Unsent /\ LocalOnes' = LocalOnes
      BY <1>2, <1>6 DEF Given, Unsent, StillAhead, LocalOnes
    <2>2. {s \in AllSlots : slotRows'[s].isLocal} = {s \in AllSlots : slotRows[s].isLocal}
      BY <1>6 DEF ReadInv, RowsInv, AllSlots
    <2> QED
      BY <2>1, <2>2 DEF LocalSlots
  <1>8. /\ \A e1 \in Given \cup Unsent : e1 \in OwnEvents /\ e1.slot \in Slots /\ e1.reads \in Marks
        /\ \A i \in DOMAIN publishing.todo :
             publishing.todo[i] \in OwnEvents /\ publishing.todo[i].slot \in Slots
    <2>1. \A d \in OwnEvents : d.slot \in Slots /\ d.reads \in Marks
      BY DEF OwnEvents
    <2>2. Given \cup Unsent \subseteq OwnEvents
      BY <1>0 DEF Given, Unsent, ReadTypeOK
    <2>3. publishing.todo \in Seq(OwnEvents)
      BY <1>0 DEF ReadTypeOK
    <2>4. \A i \in DOMAIN publishing.todo : publishing.todo[i] \in OwnEvents
      BY <2>3
    <2> QED
      BY <2>1, <2>2, <2>4
  <1>9. ReadTypeOK'
    BY <1>0, <1>2, <1>4, <1>6 DEF ReadTypeOK
  <1>10. RowsInv' /\ BoundInv'
    BY <1>6, <1>7 DEF ReadInv, RowsInv, BoundInv
  <1>11. GivenInv'
    BY <1>6, <1>7, <1>8 DEF ReadInv, GivenInv
  <1>12. TodoInv'
    <2>1. \A i : StillAhead(i)' <=> StillAhead(i)
      BY <1>2 DEF StillAhead
    <2>2. publishing.stage = "send" => 1 \in DOMAIN publishing.todo
      BY <1>0 DEF ReadInv, TodoInv, ReadTypeOK
    <2> QED
      BY <1>2, <1>6, <1>7, <1>8, <2>1, <2>2 DEF ReadInv, TodoInv
  <1>13. WithinInv'
    <2>1. ASSUME NEW f \in Marks, Within(f) PROVE Within(f)'
      <3>1. ASSUME NEW y \in Contexts PROVE f[y] <= reads'[y]
        <4>1. f[y] <= reads[y] /\ reads[y] <= reads'[y]
          BY <1>4, <2>1 DEF Within
        <4>2. f[y] \in Nat /\ reads[y] \in Nat /\ reads'[y] \in Nat
          BY <1>0, <1>4 DEF Marks, ReadTypeOK
        <4> QED
          BY <4>1, <4>2
      <3> QED
        BY <3>1 DEF Within
    <2>2. publishing.reads \in Marks
      BY <1>0 DEF ReadTypeOK
    <2> QED
      BY <1>2, <1>7, <1>8, <2>1, <2>2 DEF ReadInv, WithinInv
  <1>14. CoverInv'
    <2>1. \A d \in Given \cup Unsent : LastWord(d) => LastWord(d)'
      BY <1>6, <1>7, <1>8 DEF LastWord
    <2>2. ASSUME NEW y \in Contexts, reads'[y] = e.reads[y] PROVE Foreign(y)'
      <3>1. e.reads[y] \in Nat /\ slotsHeld'[ForeignSlot] = e
        BY <1>1, <1>2 DEF ForeignEvents, Marks
      <3> QED
        BY <2>2, <3>1 DEF Foreign
    <2>3. ASSUME NEW y \in Contexts, reads'[y] = reads[y], Foreign(y) PROVE Foreign(y)'
      BY <1>2, <2>3 DEF Foreign
    <2> QED
      BY <1>2, <1>4, <1>7, <2>1, <2>2, <2>3 DEF ReadInv, CoverInv
  <1> QED
    BY <1>9, <1>10, <1>11, <1>12, <1>13, <1>14 DEF ReadInv

LEMMA EventsAre ==
    ASSUME ReadTypeOK
    PROVE  /\ Given \cup Unsent \subseteq OwnEvents
           /\ \A d \in OwnEvents : d.slot \in Slots /\ d.reads \in Marks /\ d.at \in Nat
           /\ publishing.todo \in Seq(OwnEvents)
           /\ \A i \in DOMAIN publishing.todo : publishing.todo[i] \in OwnEvents
  <1>1. publishing.todo \in Seq(OwnEvents)
    BY DEF ReadTypeOK
  <1>2. \A i \in DOMAIN publishing.todo : publishing.todo[i] \in OwnEvents
    BY <1>1
  <1>3. Given \cup Unsent \subseteq OwnEvents
    BY DEF Given, Unsent, ReadTypeOK
  <1>4. \A d \in OwnEvents : d.slot \in Slots /\ d.reads \in Marks /\ d.at \in Nat
    BY DEF OwnEvents
  <1> QED
    BY <1>1, <1>2, <1>3, <1>4

LEMMA PublishDueKeeps ==
    ASSUME ReadInv, PublishDue
    PROVE  ReadInv'
  <1>0. ReadTypeOK /\ publishing = NotPublishing
    BY DEF ReadInv, TodoInv, PublishDue, Publishing
  <1>1. /\ publishing'.stage = "contexts" /\ publishing'.reads = publishing.reads
        /\ publishing'.slots = publishing.slots /\ publishing'.todo = publishing.todo
        /\ publishing.stage = "idle"
        /\ publishing' \in [stage : PublishStages, reads : Marks, slots : Seq(Slots), todo : Seq(OwnEvents)]
    <2>1. publishing' = [publishing EXCEPT !.stage = "contexts"]
      BY DEF PublishDue, Publishing
    <2> QED
      BY <1>0, <2>1 DEF ReadTypeOK, PublishStages, NotPublishing
  <1>2. /\ dirty' = FALSE /\ slotRows' = slotRows /\ readOutbox' = readOutbox /\ reads' = reads
        /\ marked' = marked /\ unsaid' = unsaid /\ slotsHeld' = slotsHeld
    BY DEF PublishDue, kept
  <1>3. clock' \in Nat
    <2>1. PICK t \in 1..MaxTime : clock' = t
      BY DEF PublishDue
    <2> QED
      BY <2>1
  <1>4. Given' = Given /\ Unsent = {} /\ Unsent' = {} /\ LocalOnes' = LocalOnes /\ LocalSlots' = LocalSlots
    BY <1>1, <1>2 DEF Given, Unsent, StillAhead, LocalOnes, LocalSlots
  <1>5. ReadTypeOK'
    BY <1>0, <1>1, <1>2, <1>3 DEF ReadTypeOK
  <1>6. RowsInv' /\ GivenInv' /\ BoundInv'
    BY <1>2, <1>4 DEF ReadInv, RowsInv, GivenInv, BoundInv
  <1>7. TodoInv'
    BY <1>1, <1>2 DEF ReadInv, TodoInv, StillAhead
  <1>8. WithinInv'
    BY <1>1, <1>2, <1>4 DEF ReadInv, WithinInv, Within
  <1>9. CoverInv'
    BY <1>1 DEF CoverInv
  <1> QED
    BY <1>5, <1>6, <1>7, <1>8, <1>9 DEF ReadInv

LEMMA ReadContextsKeeps ==
    ASSUME ReadInv, ReadContexts
    PROVE  ReadInv'
  <1>0. ReadTypeOK
    BY DEF ReadInv
  <1>1. /\ publishing'.stage = "slots" /\ publishing'.reads = reads
        /\ publishing'.slots = publishing.slots /\ publishing'.todo = publishing.todo
        /\ publishing.stage = "contexts"
        /\ publishing' \in [stage : PublishStages, reads : Marks, slots : Seq(Slots), todo : Seq(OwnEvents)]
    <2>1. publishing' = [publishing EXCEPT !.stage = "slots", !.reads = reads]
      BY DEF ReadContexts
    <2> QED
      BY <1>0, <2>1 DEF ReadTypeOK, PublishStages, ReadContexts
  <1>2. /\ dirty' = dirty /\ slotRows' = slotRows /\ readOutbox' = readOutbox /\ reads' = reads
        /\ marked' = marked /\ unsaid' = FALSE /\ slotsHeld' = slotsHeld /\ clock' = clock
    BY DEF ReadContexts, kept
  <1>4. Given' = Given /\ Unsent = {} /\ Unsent' = {} /\ LocalOnes' = LocalOnes /\ LocalSlots' = LocalSlots
    BY <1>1, <1>2 DEF Given, Unsent, StillAhead, LocalOnes, LocalSlots
  <1>5. ReadTypeOK'
    BY <1>0, <1>1, <1>2 DEF ReadTypeOK
  <1>6. RowsInv' /\ GivenInv' /\ BoundInv'
    BY <1>2, <1>4 DEF ReadInv, RowsInv, GivenInv, BoundInv
  <1>7. TodoInv'
    BY <1>1, <1>2 DEF ReadInv, TodoInv, StillAhead
  <1>a. \A y \in Contexts : reads[y] <= reads[y]
    BY <1>0 DEF ReadTypeOK, Marks
  <1>8. WithinInv'
    BY <1>1, <1>2, <1>4, <1>a DEF ReadInv, WithinInv, Within
  <1>9. CoverInv'
    BY <1>1, <1>2, <1>a DEF CoverInv
  <1> QED
    BY <1>5, <1>6, <1>7, <1>8, <1>9 DEF ReadInv

LEMMA EnsureLocalSlotsKeeps ==
    ASSUME ReadInv, EnsureLocalSlots
    PROVE  ReadInv'
  <1>0. ReadTypeOK /\ RowsInv
    BY DEF ReadInv
  <1> DEFINE mine == [client |-> "me", at |-> 0, isLocal |-> TRUE]
  <1>1. \/ slotRows' = slotRows
        \/ /\ LocalOnes = {}
           /\ \E s \in Slots : slotRows[s] = NoSlot /\ slotRows' = [slotRows EXCEPT ![s] = mine]
    <2>1. LocalSlots = <<>> => LocalOnes = {}
      <3>1. LocalSlots = <<>> => 1..Cardinality(LocalOnes) = {}
        BY <1>0, LocalListIs
      <3> QED
        BY <1>0, <3>1, LocalListIs
    <2> QED
      BY <2>1 DEF EnsureLocalSlots
  <1>2. /\ dirty' = dirty /\ readOutbox' = readOutbox /\ reads' = reads
        /\ marked' = marked /\ unsaid' = unsaid /\ slotsHeld' = slotsHeld /\ clock' = clock
        /\ publishing.stage = "slots"
        /\ publishing' = [publishing EXCEPT !.stage = "build", !.slots = LocalSlots']
    BY DEF EnsureLocalSlots, outsideReads, LocalSlots
  <1>3. /\ slotRows' \in [AllSlots -> [client : {"none", "me", "other"}, at : Nat, isLocal : BOOLEAN]]
        /\ RowsInv'
    <2>1. CASE slotRows' = slotRows
      BY <1>0, <2>1 DEF ReadTypeOK, RowsInv
    <2>2. ASSUME NEW s \in Slots, slotRows' = [slotRows EXCEPT ![s] = mine]
          PROVE  /\ slotRows' \in [AllSlots -> [client : {"none", "me", "other"}, at : Nat, isLocal : BOOLEAN]]
                 /\ RowsInv'
      <3>1. mine \in [client : {"none", "me", "other"}, at : Nat, isLocal : BOOLEAN]
        OBVIOUS
      <3>2. slotRows' \in [AllSlots -> [client : {"none", "me", "other"}, at : Nat, isLocal : BOOLEAN]]
        BY <1>0, <2>2, <3>1 DEF ReadTypeOK
      <3>3. \A t \in AllSlots : slotRows'[t] = IF t = s THEN mine ELSE slotRows[t]
        BY <1>0, <2>2 DEF ReadTypeOK
      <3> QED
        BY <1>0, <3>2, <3>3, ReadConstants DEF RowsInv
    <2> QED
      BY <1>1, <2>1, <2>2
  <1>4. \A s \in Slots : slotRows[s].isLocal => slotRows'[s] = slotRows[s]
    <2>1. ASSUME NEW t \in Slots, slotRows[t] = NoSlot, slotRows' = [slotRows EXCEPT ![t] = mine],
                 NEW s \in Slots, slotRows[s].isLocal
          PROVE  slotRows'[s] = slotRows[s]
      <3>1. s # t
        BY <2>1 DEF NoSlot
      <3> QED
        BY <1>0, <2>1, <3>1, ReadConstants DEF ReadTypeOK
    <2> QED
      BY <1>1, <2>1
  <1>5. ReadTypeOK'
    <2>1. LocalSlots' \in Seq(Slots)
      <3>1. RowsInv' /\ slotRows' \in [AllSlots -> [client : {"none", "me", "other"}, at : Nat, isLocal : BOOLEAN]]
        BY <1>3
      <3>2. {s \in AllSlots : slotRows'[s].isLocal} = LocalOnes'
        BY <3>1 DEF RowsInv, LocalOnes, AllSlots
      <3>3. PICK S \in SUBSET Slots : S = LocalOnes'
        BY DEF LocalOnes
      <3>4. LocalSlots' = Ascending(S)
        BY <3>2, <3>3 DEF LocalSlots
      <3>5. S \in SUBSET Nat /\ IsFiniteSet(S)
        BY ReadConstants, FS_Subset
      <3>6. /\ Ascending(S) \in Seq(S) /\ Cardinality(S) \in Nat
        BY <3>5, AscendingHasAll
      <3>7. PICK q \in Seq(S) : q = Ascending(S)
        BY <3>6
      <3>8. q \in Seq(Slots)
        OBVIOUS
      <3> QED
        BY <3>4, <3>7, <3>8
    <2>2. publishing' \in [stage : PublishStages, reads : Marks, slots : Seq(Slots), todo : Seq(OwnEvents)]
      BY <1>0, <1>2, <2>1 DEF ReadTypeOK, PublishStages
    <2> QED
      BY <1>0, <1>2, <1>3, <2>2 DEF ReadTypeOK
  <1>6. /\ publishing'.stage = "build" /\ publishing'.reads = publishing.reads
        /\ publishing'.slots = LocalSlots' /\ publishing'.todo = publishing.todo
    BY <1>0, <1>2 DEF ReadTypeOK
  <1>7. Given' = Given /\ Unsent = {} /\ Unsent' = {}
    BY <1>2, <1>6 DEF Given, Unsent, StillAhead
  <1>8. GivenInv'
    <2>1. \A e \in Given : slotRows[e.slot].isLocal /\ e.slot \in Slots
      BY <1>0, EventsAre DEF ReadInv, GivenInv
    <2> QED
      BY <1>4, <1>7, <2>1 DEF ReadInv, GivenInv
  <1>9. TodoInv'
    BY <1>2, <1>6 DEF ReadInv, TodoInv, StillAhead
  <1>10. WithinInv'
    BY <1>2, <1>6, <1>7 DEF ReadInv, WithinInv, Within
  <1>11. CoverInv'
    BY <1>2, <1>6, <1>7 DEF ReadInv, CoverInv, Foreign
  <1>12. BoundInv'
    <2>1. CASE slotRows' = slotRows
      BY <1>7, <2>1 DEF ReadInv, BoundInv, LocalOnes
    <2>2. ASSUME NEW s \in Slots, slotRows' = [slotRows EXCEPT ![s] = mine], LocalOnes = {} PROVE BoundInv'
      <3>1. \A t \in Slots : slotRows'[t] = IF t = s THEN mine ELSE slotRows[t]
        BY <1>0, <2>2, ReadConstants DEF ReadTypeOK
      <3>2. LocalOnes' = {s}
        BY <2>2, <3>1 DEF LocalOnes
      <3>3. Cardinality({s}) = 1
        BY FS_Singleton
      <3>4. LocalOnes' \cup {e.slot : e \in Unsent'} = {s}
        BY <1>7, <3>2
      <3>5. [x \in Contexts |-> 1] \in Marks
        BY DEF Marks
      <3>6. PICK n \in Nat : n = SlotsFor([x \in Contexts |-> 1]) /\ n >= 1
        BY <3>5, SlotsForMonotone
      <3>7. SlotsFor([x \in Contexts |-> 1])' = SlotsFor([x \in Contexts |-> 1])
        BY DEF SlotsFor
      <3> QED
        BY <3>3, <3>4, <3>6, <3>7 DEF BoundInv
    <2> QED
      BY <1>1, <2>1, <2>2
  <1> QED
    BY <1>3, <1>5, <1>8, <1>9, <1>10, <1>11, <1>12 DEF ReadInv

LEMMA GivenUpKeeps ==
    ASSUME ReadInv, publishing.stage = "build", publishing' = NotPublishing, unsaid' = TRUE,
           UNCHANGED <<kept, marked, dirty, slotsHeld, clock>>
    PROVE  ReadInv'
  <1>0. ReadTypeOK
    BY DEF ReadInv
  <1>1. /\ dirty' = dirty /\ slotRows' = slotRows /\ readOutbox' = readOutbox /\ reads' = reads
        /\ marked' = marked /\ slotsHeld' = slotsHeld /\ clock' = clock
    BY DEF kept
  <1>2. /\ publishing'.stage = "idle" /\ publishing'.reads = Unread /\ publishing'.todo = <<>>
    BY DEF NotPublishing
  <1>3. Given' = Given /\ Unsent = {} /\ Unsent' = {}
    BY <1>1, <1>2 DEF Given, Unsent, StillAhead
  <1>4. ReadTypeOK'
    <2>1. NotPublishing \in [stage : PublishStages, reads : Marks, slots : Seq(Slots), todo : Seq(OwnEvents)]
      BY ReadConstants DEF NotPublishing, PublishStages
    <2> QED
      BY <1>0, <1>1, <2>1 DEF ReadTypeOK
  <1>5. RowsInv' /\ GivenInv' /\ BoundInv'
    BY <1>1, <1>3 DEF ReadInv, RowsInv, GivenInv, BoundInv, LocalOnes
  <1>6. TodoInv'
    BY <1>2 DEF TodoInv, StillAhead
  <1>7. WithinInv'
    <2>1. \A x \in Contexts : Unread[x] <= reads[x]
      BY <1>0 DEF Unread, ReadTypeOK, Marks
    <2> QED
      BY <1>1, <1>2, <1>3, <2>1 DEF ReadInv, WithinInv, Within
  <1>8. CoverInv'
    BY DEF CoverInv
  <1> QED
    BY <1>4, <1>5, <1>6, <1>7, <1>8 DEF ReadInv

\* n events of one instant, later than all of the rows: in the slots that
\* there are, then in drawn ones.
BuiltAs(n, at, fresh, T) ==
    /\ publishing.stage = "build" /\ n = SlotsFor(publishing.reads)
    /\ \A s \in AllSlots : slotRows[s].at < at
    /\ \A i \in 1..n : IF i <= Len(publishing.slots) THEN fresh[i] = publishing.slots[i]
                       ELSE /\ slotRows[fresh[i]] = NoSlot
                            /\ \A j \in 1..i-1 : fresh[j] < fresh[i] \/ j <= Len(publishing.slots)
    /\ T = [i \in 1..n |-> [slot |-> fresh[i], client |-> "me",
                            reads |-> Part(publishing.reads, i), at |-> at]]
    /\ publishing' = [publishing EXCEPT !.stage = "store", !.todo = T]
    /\ unsaid' = unsaid /\ UNCHANGED <<kept, marked, dirty, slotsHeld, clock>>

LEMMA BuiltKeeps ==
    ASSUME ReadInv, NEW n, NEW at \in Nat, NEW fresh \in [1..n -> Slots], NEW T,
           BuiltAs(n, at, fresh, T)
    PROVE  ReadInv'
  <1> USE DEF BuiltAs
  <1>0. ReadTypeOK /\ RowsInv /\ publishing.slots = LocalSlots
    BY DEF ReadInv, TodoInv
  <1>1. /\ dirty' = dirty /\ slotRows' = slotRows /\ readOutbox' = readOutbox /\ reads' = reads
        /\ marked' = marked /\ slotsHeld' = slotsHeld /\ clock' = clock
    BY DEF kept
  <1>2. PICK f \in Marks : f = publishing.reads
    BY <1>0 DEF ReadTypeOK
  <1> DEFINE ones == [x \in Contexts |-> 1]
  <1>3. n \in Nat /\ n >= 1 /\ SlotsFor(ones) \in Nat /\ n <= SlotsFor(ones)
    <2>1. ones \in Marks /\ \A x \in Contexts : ones[x] > 0
      BY DEF Marks
    <2>2. n \in Nat /\ n >= 1 /\ n <= SlotsFor(ones)
      BY <1>2, <2>1, SlotsForMonotone
    <2>3. SlotsFor(ones) \in Nat
      BY <2>1, SlotsForMonotone
    <2> QED
      BY <2>2, <2>3
  <1>4. PICK K \in Nat : /\ K = Len(publishing.slots) /\ K = Cardinality(LocalOnes)
                         /\ \A i \in 1..K : publishing.slots[i] \in LocalOnes
                         /\ \A p \in LocalOnes : \E i \in 1..K : publishing.slots[i] = p
                         /\ \A i, j \in 1..K : publishing.slots[i] = publishing.slots[j] => i = j
    BY <1>0, LocalListIs
  <1>5. \A i \in 1..n : i <= K => fresh[i] = publishing.slots[i] /\ fresh[i] \in LocalOnes
    BY <1>3, <1>4
  <1>6. \A i \in 1..n : ~(i <= K) => fresh[i] \notin LocalOnes
    BY <1>4 DEF LocalOnes, NoSlot
  <1>7. ASSUME NEW i \in 1..n, NEW j \in 1..n, j < i PROVE fresh[i] # fresh[j]
    <2>1. CASE i <= K
      <3>1. i \in 1..K /\ j \in 1..K /\ i # j
        BY <1>3, <1>7, <2>1
      <3> QED
        BY <1>4, <1>5, <3>1
    <2>2. CASE ~(i <= K) /\ j <= K
      BY <1>5, <1>6, <2>2
    <2>3. CASE ~(i <= K) /\ ~(j <= K)
      <3>1. j \in 1..i-1
        BY <1>3, <1>7
      <3>2. fresh[j] < fresh[i]
        BY <1>4, <2>3, <3>1
      <3>3. fresh[i] \in Nat
        BY ReadConstants
      <3> QED
        BY <3>2, <3>3
    <2> QED
      BY <2>1, <2>2, <2>3
  <1>8. /\ \A i \in 1..n : T[i] \in OwnEvents /\ T[i].slot = fresh[i] /\ T[i].at = at
                           /\ T[i].reads = Part(f, i)
        /\ T \in Seq(OwnEvents) /\ DOMAIN T = 1..n
    <2>1. ASSUME NEW i \in 1..n PROVE /\ T[i] \in OwnEvents /\ T[i].slot = fresh[i] /\ T[i].at = at
                                      /\ T[i].reads = Part(f, i)
      <3>1. T[i] = [slot |-> fresh[i], client |-> "me", reads |-> Part(f, i), at |-> at]
        BY <1>2
      <3>2. Part(f, i) \in Marks /\ fresh[i] \in Slots
        <4>1. i \in Nat
          BY <1>3
        <4> QED
          BY <4>1, PartsAreLess
      <3> QED
        BY <3>1, <3>2 DEF OwnEvents
    <2>2. T \in [1..n -> OwnEvents]
      BY <2>1
    <2>3. T \in Seq(OwnEvents)
      BY <1>3, <2>2
    <2> QED
      BY <2>1, <2>2, <2>3
  <1> HIDE DEF ones
  <1>9. /\ publishing'.stage = "store" /\ publishing'.reads = f /\ publishing'.todo = T
        /\ publishing' \in [stage : PublishStages, reads : Marks, slots : Seq(Slots), todo : Seq(OwnEvents)]
    BY <1>0, <1>2, <1>8 DEF ReadTypeOK, PublishStages
  <1>10. /\ Given' = Given /\ Unsent = {} /\ \A i \in 1..n : T[i] \in Unsent'
         /\ \A e \in Unsent' : \E i \in 1..n : e = T[i]
    BY <1>1, <1>8, <1>9 DEF Given, Unsent, StillAhead
  <1>11. ReadTypeOK'
    BY <1>0, <1>1, <1>9 DEF ReadTypeOK
  <1>12. RowsInv' /\ GivenInv'
    BY <1>1, <1>10 DEF ReadInv, RowsInv, GivenInv
  <1>13. TodoInv'
    <2>1. \A i \in 1..n : slotRows[T[i].slot].at < T[i].at /\ slotRows[T[i].slot].at \in Nat
      BY <1>0, <1>8, ReadConstants DEF ReadTypeOK
    <2>2. \A i \in 1..n : T[i].at > slotRows[T[i].slot].at
      BY <2>1, <1>8
    <2>3. ASSUME NEW i \in 1..n, NEW j \in 1..n, T[i].slot = T[j].slot PROVE i = j
      <3>1. ~(i < j) /\ ~(j < i)
        BY <1>7, <1>8, <2>3
      <3> QED
        BY <1>3, <3>1
    <2>4. T # <<>>
      BY <1>3, <1>8
    <2> QED
      BY <1>1, <1>8, <1>9, <2>2, <2>3, <2>4 DEF TodoInv
  <1>14. WithinInv'
    <2>1. \A x \in Contexts : f[x] <= reads[x] /\ f[x] \in Nat /\ reads[x] \in Nat
      BY <1>0, <1>2 DEF ReadInv, WithinInv, Within, ReadTypeOK, Marks
    <2>2. ASSUME NEW i \in 1..n, NEW x \in Contexts PROVE T[i].reads[x] <= reads[x]
      <3>1. i \in Nat
        BY <1>3
      <3>2. Part(f, i)[x] <= f[x] /\ Part(f, i)[x] \in Nat
        BY <3>1, PartsAreLess DEF Marks
      <3>3. Part(f, i)[x] <= reads[x]
        BY <2>1, <3>2
      <3> QED
        BY <1>8, <3>3
    <2>3. \A i \in 1..n : Within(T[i].reads)'
      BY <1>1, <2>2 DEF Within
    <2>4. \A e \in Given : Within(e.reads)'
      BY <1>1 DEF ReadInv, WithinInv, Within
    <2> QED
      BY <1>1, <1>9, <1>10, <2>1, <2>3, <2>4 DEF WithinInv, Within
  <1>15. CoverInv'
    <2> SUFFICES ASSUME ~unsaid, ~dirty, NEW x \in Contexts
                 PROVE  Foreign(x)' \/ \E e \in Given' \cup Unsent' : LastWord(e)' /\ e.reads[x] >= reads'[x]
      BY <1>1, <1>9 DEF CoverInv
    <2>1. slotsHeld[ForeignSlot].reads[x] \in Nat /\ reads[x] \in Nat /\ f[x] \in Nat
      <3>1. slotsHeld[ForeignSlot] \in OwnEvents \cup ForeignEvents \cup {NoSlotEvent}
        BY <1>0, ReadConstants DEF ReadTypeOK
      <3>2. slotsHeld[ForeignSlot].reads \in Marks
        BY <3>1, ReadConstants DEF OwnEvents, ForeignEvents, NoSlotEvent
      <3> QED
        BY <1>0, <1>2, <3>2 DEF ReadTypeOK, Marks
    <2>2. CASE reads[x] = 0 \/ Foreign(x)
      BY <1>1, <2>1, <2>2 DEF Foreign
    <2>3. CASE reads[x] # 0 /\ ~Foreign(x)
      <3>1. f[x] >= reads[x]
        BY <1>2, <2>3 DEF ReadInv, CoverInv
      <3>2. f[x] > 0
        BY <2>1, <2>3, <3>1
      <3>3. PICK i \in 1..n : Part(f, i)[x] = f[x]
        BY <1>2, <3>2, PartsHaveAll
      <3>4. T[i] \in Unsent' /\ T[i].reads[x] >= reads'[x]
        BY <1>1, <1>8, <1>10, <3>1, <3>3
      <3>5. LastWord(T[i])'
        BY <3>4 DEF LastWord
      <3> QED
        BY <3>4, <3>5
    <2> QED
      BY <2>2, <2>3
  <1>16. BoundInv'
    <2> DEFINE B == LocalOnes \cup {fresh[i] : i \in 1..n}
    <2>1. LocalOnes' \cup {e.slot : e \in Unsent'} = B
      <3>1. LocalOnes' = LocalOnes
        BY <1>1 DEF LocalOnes
      <3>2. {e.slot : e \in Unsent'} = {fresh[i] : i \in 1..n}
        BY <1>8, <1>10
      <3> QED
        BY <3>1, <3>2
    <2>2. SlotsFor([x \in Contexts |-> 1])' = SlotsFor(ones)
      BY DEF SlotsFor, ones
    <2>3. CASE n <= K
      <3>1. B = LocalOnes
        BY <1>3, <1>4, <1>5, <2>3
      <3>2. Cardinality(LocalOnes) <= SlotsFor(ones)
        <4>1. LocalOnes \cup {e.slot : e \in Unsent} = LocalOnes
          BY <1>10
        <4> QED
          BY <4>1 DEF ReadInv, BoundInv, ones
      <3> QED
        BY <2>1, <2>2, <3>1, <3>2 DEF BoundInv
    <2>4. CASE ~(n <= K)
      <3>1. B = {fresh[i] : i \in 1..n}
        <4>1. ASSUME NEW p \in LocalOnes PROVE \E i \in 1..n : fresh[i] = p
          <5>1. PICK i \in 1..K : publishing.slots[i] = p
            BY <1>4
          <5>2. i \in 1..n /\ i <= K
            BY <1>3, <2>4
          <5> QED
            BY <1>5, <5>1, <5>2
        <4> QED
          BY <4>1
      <3> HIDE DEF B
      <3>2. fresh \in Surjection(1..n, B)
        <4>1. fresh \in [1..n -> B] /\ \A b \in B : \E i \in 1..n : fresh[i] = b
          BY <3>1
        <4> QED
          BY ONLY <4>1 DEF Surjection
      <3>3. IsFiniteSet(1..n) /\ Cardinality(1..n) = n
        <4>1. n \in Nat /\ n >= 1
          BY <1>3
        <4> QED
          BY ONLY <4>1, FS_Interval
      <3>4. Cardinality(B) <= n /\ IsFiniteSet(B)
        BY <3>2, <3>3, FS_Surjection
      <3>5. PICK b \in Nat : b = Cardinality(B)
        BY <3>4, FS_CardinalityType
      <3>6. b <= SlotsFor(ones)
        BY <1>3, <3>4, <3>5
      <3> QED
        BY <2>1, <2>2, <3>5, <3>6 DEF BoundInv
    <2> QED
      BY <2>3, <2>4
  <1> QED
    BY <1>11, <1>12, <1>13, <1>14, <1>15, <1>16 DEF ReadInv

LEMMA BuildEventsKeeps ==
    ASSUME ReadInv, NEW shown \in {0, clock}, BuildEvents(shown)
    PROVE  ReadInv'
  <1>0. ReadTypeOK
    BY DEF ReadInv
  <1>1. publishing.stage = "build" /\ UNCHANGED <<kept, marked, dirty, slotsHeld, clock>>
    BY DEF BuildEvents
  <1>n. PICK n : n = SlotsFor(publishing.reads)
    OBVIOUS
  <1>2. CASE n > MaxSlots
    <2>1. publishing' = NotPublishing /\ unsaid' = TRUE
      BY <1>2, <1>n DEF BuildEvents
    <2> QED
      BY <1>1, <2>1, GivenUpKeeps
  <1>3. CASE ~(n > MaxSlots)
    <2> DEFINE name(fresh, i) == IF i <= Len(publishing.slots) THEN publishing.slots[i] ELSE fresh[i]
    <2>1. PICK at \in Nat : at = Created(shown) /\ \A s \in AllSlots : slotRows[s].at < at
      <3>1. PICK m \in Nat : m = MaxSeen /\ \A s \in AllSlots : slotRows[s].at <= m
        BY <1>0, SeenIsAll
      <3>2. shown \in Nat /\ clock \in Nat
        BY <1>0 DEF ReadTypeOK
      <3>3. PICK seen \in Nat : seen = (IF shown > m THEN shown ELSE m) /\ seen >= m
        BY <3>2
      <3>4. PICK c \in Nat : c = (IF clock > seen THEN clock ELSE seen + 1) /\ c > m
        <4>1. (IF clock > seen THEN clock ELSE seen + 1) \in Nat
              /\ (IF clock > seen THEN clock ELSE seen + 1) > m
          BY <3>2, <3>3
        <4> QED
          BY <4>1
      <3>5. c = Created(shown)
        BY <3>1, <3>3, <3>4 DEF Created
      <3>6. \A s \in AllSlots : slotRows[s].at \in Nat
        BY <1>0 DEF ReadTypeOK
      <3>7. \A s \in AllSlots : slotRows[s].at < c
        BY <3>1, <3>4, <3>6
      <3> QED
        BY <3>5, <3>7
    <2>2. /\ unsaid' = unsaid
          /\ \E fresh \in [1..SlotsFor(publishing.reads) -> Slots] :
               /\ \A i \in 1..SlotsFor(publishing.reads) :
                    IF i <= Len(publishing.slots) THEN fresh[i] = publishing.slots[i]
                    ELSE /\ slotRows[fresh[i]] = NoSlot
                         /\ \A j \in 1..i-1 : fresh[j] < fresh[i] \/ j <= Len(publishing.slots)
               /\ publishing' = [publishing EXCEPT !.stage = "store",
                    !.todo = [i \in 1..SlotsFor(publishing.reads) |->
                                [slot |-> IF i <= Len(publishing.slots)
                                          THEN publishing.slots[i] ELSE fresh[i],
                                 client |-> "me",
                                 reads |-> Part(publishing.reads, i), at |-> Created(shown)]]]
      <3>1. ~(SlotsFor(publishing.reads) > MaxSlots)
        BY <1>3, <1>n
      <3> QED
        BY <3>1, Zenon DEF BuildEvents
    <2>3. PICK fresh \in [1..SlotsFor(publishing.reads) -> Slots] :
            /\ \A i \in 1..SlotsFor(publishing.reads) :
                 IF i <= Len(publishing.slots) THEN fresh[i] = publishing.slots[i]
                 ELSE /\ slotRows[fresh[i]] = NoSlot
                      /\ \A j \in 1..i-1 : fresh[j] < fresh[i] \/ j <= Len(publishing.slots)
            /\ publishing' = [publishing EXCEPT !.stage = "store",
                 !.todo = [i \in 1..SlotsFor(publishing.reads) |->
                             [slot |-> IF i <= Len(publishing.slots)
                                       THEN publishing.slots[i] ELSE fresh[i],
                              client |-> "me",
                              reads |-> Part(publishing.reads, i), at |-> Created(shown)]]]
      BY <2>2, Zenon
    <2>4. PICK T : T = [i \in 1..n |-> [slot |-> fresh[i], client |-> "me",
                                        reads |-> Part(publishing.reads, i), at |-> at]]
      OBVIOUS
    <2>5. publishing' = [publishing EXCEPT !.stage = "store", !.todo = T]
      <3>1. \A i \in 1..n : (IF i <= Len(publishing.slots) THEN publishing.slots[i] ELSE fresh[i]) = fresh[i]
        BY <1>n, <2>3
      <3>2. T = [i \in 1..SlotsFor(publishing.reads) |->
                   [slot |-> IF i <= Len(publishing.slots) THEN publishing.slots[i] ELSE fresh[i],
                    client |-> "me",
                    reads |-> Part(publishing.reads, i), at |-> Created(shown)]]
        BY <1>n, <2>1, <2>4, <3>1
      <3> QED
        BY <2>3, <3>2, Zenon
    <2>6. fresh \in [1..n -> Slots]
      BY <1>n
    <2>7. \A i \in 1..n : IF i <= Len(publishing.slots) THEN fresh[i] = publishing.slots[i]
                          ELSE /\ slotRows[fresh[i]] = NoSlot
                               /\ \A j \in 1..i-1 : fresh[j] < fresh[i] \/ j <= Len(publishing.slots)
      BY <1>n, <2>3
    <2>8. unsaid' = unsaid
      BY <2>2
    <2>9. BuiltAs(n, at, fresh, T)
      BY <1>1, <1>n, <2>1, <2>4, <2>5, <2>7, <2>8, Zenon DEF BuiltAs
    <2> QED
      BY <2>6, <2>9, BuiltKeeps
  <1> QED
    BY <1>2, <1>3

LEMMA StoreEventKeeps ==
    ASSUME ReadInv, StoreEvent
    PROVE  ReadInv'
  <1>0. ReadTypeOK
    BY DEF ReadInv
  <1>a. publishing.stage = "store" /\ publishing' = [publishing EXCEPT !.stage = "send"]
    BY DEF StoreEvent, Publishing
  <1>b. PICK e \in OwnEvents : /\ e = publishing.todo[1] /\ e = Head(publishing.todo)
                               /\ 1 \in DOMAIN publishing.todo /\ e.slot \in Slots /\ e.at \in Nat
    <2>1. publishing.todo # <<>> /\ publishing.todo \in Seq(OwnEvents)
      BY <1>0, <1>a DEF ReadInv, TodoInv, ReadTypeOK
    <2> QED
      BY <1>0, <2>1, EventsAre
  <1>1. /\ dirty' = dirty /\ readOutbox' = readOutbox \cup {e} /\ reads' = reads
        /\ marked' = marked /\ slotsHeld' = slotsHeld /\ clock' = clock /\ unsaid' = unsaid
    BY <1>b DEF StoreEvent, outsideReads
  <1>2. /\ publishing'.stage = "send" /\ publishing'.reads = publishing.reads
        /\ publishing'.todo = publishing.todo
        /\ publishing' \in [stage : PublishStages, reads : Marks, slots : Seq(Slots), todo : Seq(OwnEvents)]
    BY <1>0, <1>a DEF ReadTypeOK, PublishStages
  <1>3. e.at > slotRows[e.slot].at /\ e \in Unsent
    BY <1>a, <1>b DEF ReadInv, TodoInv, StillAhead, Unsent
  <1>4. PICK newRow \in [client : {"me"}, at : Nat, isLocal : {TRUE}] :
          newRow.at = e.at /\ slotRows' = [slotRows EXCEPT ![e.slot] = newRow]
    <2>1. PICK old \in [client : {"none", "me", "other"}, at : Nat, isLocal : BOOLEAN] : old = slotRows[e.slot]
      BY <1>0, <1>b, ReadConstants DEF ReadTypeOK
    <2>2. slotRows' = [slotRows EXCEPT ![e.slot] =
            [client |-> "me", at |-> IF old.at > e.at THEN old.at ELSE e.at,
             isLocal |-> IF old.client = "me" THEN old.isLocal \/ TRUE ELSE TRUE]]
      BY <1>b, <2>1 DEF StoreEvent, Recorded
    <2>3. (IF old.at > e.at THEN old.at ELSE e.at) = e.at
      BY <1>b, <1>3, <2>1
    <2>4. (IF old.client = "me" THEN old.isLocal \/ TRUE ELSE TRUE) = TRUE
      OBVIOUS
    <2>5. PICK newRow \in [client : {"me"}, at : Nat, isLocal : {TRUE}] :
            newRow = [client |-> "me", at |-> e.at, isLocal |-> TRUE]
      BY <1>b
    <2> QED
      BY <2>2, <2>3, <2>4, <2>5
  <1>5. /\ slotRows' \in [AllSlots -> [client : {"none", "me", "other"}, at : Nat, isLocal : BOOLEAN]]
        /\ \A s \in AllSlots : slotRows'[s] = IF s = e.slot THEN newRow ELSE slotRows[s]
        /\ newRow.isLocal = TRUE /\ newRow.client = "me" /\ newRow.at = e.at
    <2>1. newRow \in [client : {"none", "me", "other"}, at : Nat, isLocal : BOOLEAN]
      BY <1>4
    <2> QED
      BY <1>0, <1>4, <2>1 DEF ReadTypeOK
  <1>6. Given' = Given \cup {e}
    BY <1>1, <1>b DEF Given
  <1>7. /\ Unsent' \subseteq Unsent
        /\ \A d \in Unsent : d = e \/ d \in Unsent'
        /\ \A d \in Unsent' : d.slot # e.slot
    <2>1. \A i \in DOMAIN publishing.todo : StillAhead(i)' <=> i > 1
      BY <1>0, <1>2 DEF StillAhead
    <2>2. \A i \in DOMAIN publishing.todo : StillAhead(i)
      BY <1>a DEF StillAhead
    <2>3. DOMAIN publishing.todo = 1..Len(publishing.todo) /\ Len(publishing.todo) \in Nat
      BY <1>0, EventsAre
    <2>4. \A i \in DOMAIN publishing.todo : i = 1 \/ i > 1
      BY <2>3
    <2>5. ASSUME NEW i \in DOMAIN publishing.todo, i > 1 PROVE publishing.todo[i].slot # e.slot
      BY <1>b, <2>5, <2>3 DEF ReadInv, TodoInv
    <2>6. \A d \in OwnEvents : d \in Unsent' <=> \E i \in DOMAIN publishing.todo : i > 1 /\ publishing.todo[i] = d
      BY <1>2, <2>1 DEF Unsent
    <2>7. \A d \in OwnEvents : d \in Unsent <=> \E i \in DOMAIN publishing.todo : publishing.todo[i] = d
      BY <2>2 DEF Unsent
    <2>8. Unsent \subseteq OwnEvents /\ Unsent' \subseteq OwnEvents
      BY DEF Unsent
    <2>9. \A d \in Unsent : d = e \/ d \in Unsent'
      BY <1>b, <2>4, <2>6, <2>7, <2>8
    <2>10. \A d \in Unsent' : d \in Unsent /\ d.slot # e.slot
      BY <2>5, <2>6, <2>7, <2>8
    <2> QED
      BY <2>9, <2>10
  <1>8. /\ \A d \in Given \cup Unsent : d \in OwnEvents /\ d.slot \in AllSlots /\ d.at \in Nat
        /\ \A d \in Given : slotRows[d.slot].isLocal /\ d.at <= slotRows[d.slot].at
        /\ \A s \in AllSlots : slotRows[s].at \in Nat
    BY <1>0, EventsAre, ReadConstants DEF ReadInv, GivenInv, ReadTypeOK
  <1>9. ReadTypeOK'
    BY <1>0, <1>1, <1>2, <1>5 DEF ReadTypeOK
  <1>10. RowsInv'
    BY <1>5, <1>b, ReadConstants DEF ReadInv, RowsInv
  <1>11. GivenInv'
    <2>1. ASSUME NEW d \in Given, d.slot = e.slot PROVE d.at < e.at
      <3>1. d.at \in Nat /\ d.at <= slotRows[e.slot].at /\ slotRows[e.slot].at \in Nat
        BY <1>8, <2>1
      <3> QED
        BY <1>b, <1>3, <3>1
    <2>2. ASSUME NEW d \in Given PROVE slotRows'[d.slot].isLocal /\ d.at <= slotRows'[d.slot].at
      <3>1. CASE d.slot = e.slot
        <4>1. d.at < e.at /\ d.at \in Nat /\ slotRows'[d.slot] = newRow
          BY <1>5, <1>8, <2>1, <3>1
        <4> QED
          BY <1>5, <1>b, <4>1
      <3>2. CASE d.slot # e.slot
        BY <1>5, <1>8, <3>2
      <3> QED
        BY <3>1, <3>2
    <2>3. slotRows'[e.slot].isLocal /\ e.at <= slotRows'[e.slot].at
      BY <1>5, <1>b, <1>8, <1>3
    <2>4. ASSUME NEW d \in Given, d.slot = e.slot, d.at = e.at PROVE FALSE
      <3>1. e.at < e.at
        BY <2>1, <2>4
      <3> QED
        BY <1>b, <3>1
    <2>5. \A d, d1 \in Given : d.slot = d1.slot /\ d.at = d1.at => d = d1
      BY DEF ReadInv, GivenInv
    <2> QED
      BY <1>6, <2>2, <2>3, <2>4, <2>5 DEF GivenInv
  <1>12. TodoInv'
    <2>1. \A i \in DOMAIN publishing.todo : publishing.todo[i].slot \in AllSlots
      BY <1>0, EventsAre, ReadConstants
    <2>2. ASSUME NEW i \in DOMAIN publishing.todo, StillAhead(i)'
          PROVE  publishing.todo[i].at > slotRows'[publishing.todo[i].slot].at
      <3>1. i > 1 /\ i # 1 /\ StillAhead(i)
        <4>1. i > 1
          BY <1>2, <2>2 DEF StillAhead
        <4> QED
          BY <1>a, <2>2, <4>1 DEF StillAhead
      <3>2. publishing.todo[i].slot # e.slot
        BY <1>b, <3>1 DEF ReadInv, TodoInv
      <3> QED
        BY <1>5, <2>1, <3>1, <3>2 DEF ReadInv, TodoInv
    <2>3. e \in readOutbox' /\ e.at = slotRows'[e.slot].at
      BY <1>1, <1>5, <1>b, <1>8, <1>3
    <2>4. /\ \A i, j \in DOMAIN publishing.todo :
               publishing.todo[i].slot = publishing.todo[j].slot => i = j
          /\ publishing.todo # <<>>
      BY <1>a DEF ReadInv, TodoInv
    <2> QED
      BY <1>2, <1>b, <2>2, <2>3, <2>4 DEF TodoInv
  <1>13. WithinInv'
    BY <1>1, <1>2, <1>3, <1>6, <1>7 DEF ReadInv, WithinInv, Within
  <1>14. CoverInv'
    <2>1. LastWord(e)' /\ e \in Given'
      BY <1>5, <1>6, <1>7, <1>8, <1>3 DEF LastWord
    <2>2. ASSUME NEW d \in Given \cup Unsent, LastWord(d) PROVE LastWord(d)' /\ d \in Given' \cup Unsent'
      <3>1. CASE d \in Unsent
        BY <1>7, <2>1, <3>1 DEF LastWord
      <3>2. CASE d \in Given /\ d.at = slotRows[d.slot].at /\ \A g \in Unsent : g.slot # d.slot
        <4>1. d.slot # e.slot
          BY <1>3, <3>2
        <4>2. slotRows'[d.slot] = slotRows[d.slot]
          BY <1>5, <1>8, <4>1
        <4> QED
          BY <1>6, <1>7, <3>2, <4>2 DEF LastWord
      <3> QED
        BY <2>2, <3>1, <3>2 DEF LastWord
    <2>3. \A y : Foreign(y) => Foreign(y)'
      BY <1>1 DEF Foreign
    <2> QED
      BY <1>1, <1>2, <1>a, <2>2, <2>3 DEF ReadInv, CoverInv
  <1>15. BoundInv'
    <2>1. LocalOnes' = LocalOnes \cup {e.slot}
      <3>1. \A s \in Slots : slotRows'[s].isLocal <=> (slotRows[s].isLocal \/ s = e.slot)
        BY <1>5, ReadConstants
      <3> QED
        BY <1>b, <3>1 DEF LocalOnes
    <2>2. LocalOnes' \cup {d.slot : d \in Unsent'} = LocalOnes \cup {d.slot : d \in Unsent}
      BY <1>3, <1>7, <2>1
    <2>3. SlotsFor([x \in Contexts |-> 1])' = SlotsFor([x \in Contexts |-> 1])
      BY DEF SlotsFor
    <2> QED
      BY <2>2, <2>3 DEF ReadInv, BoundInv
  <1> QED
    BY <1>9, <1>10, <1>11, <1>12, <1>13, <1>14, <1>15 DEF ReadInv

\* What the relay takes in place of an older event is no loss: the latest of a
\* slot stays, in the outbox or at the relay.
LEMMA RelayKeepsLatest ==
    ASSUME ReadInv, NEW e \in readOutbox, RelayHolds(e),
           readOutbox' \subseteq readOutbox, readOutbox \ {e} \subseteq readOutbox', slotRows' = slotRows
    PROVE  /\ slotsHeld' \in [AllSlots -> OwnEvents \cup ForeignEvents \cup {NoSlotEvent}]
           /\ \A s \in AllSlots : slotsHeld'[s] # NoSlotEvent => slotsHeld'[s].slot = s
           /\ slotsHeld'[ForeignSlot] = slotsHeld[ForeignSlot]
           /\ Given' \subseteq Given
           /\ \A f \in Given : f.at = slotRows[f.slot].at => f \in Given'
  <1>0. ReadTypeOK
    BY DEF ReadInv
  <1>1. /\ e \in OwnEvents /\ e \in Given /\ e.slot \in Slots /\ e.at \in Nat /\ e.slot \in AllSlots
        /\ e.at <= slotRows[e.slot].at /\ slotRows[e.slot].at \in Nat
    <2>1. e \in OwnEvents /\ e \in Given
      BY <1>0 DEF ReadTypeOK, Given
    <2>2. e.slot \in Slots /\ e.at \in Nat /\ e.slot \in AllSlots
      BY <1>0, <2>1, EventsAre, ReadConstants
    <2> QED
      BY <1>0, <2>1, <2>2 DEF ReadInv, GivenInv, ReadTypeOK
  <1>2. PICK d : d = slotsHeld[e.slot]
    OBVIOUS
  <1>3. d # NoSlotEvent => /\ d \in OwnEvents /\ d \in Given /\ d.slot = e.slot /\ d.at \in Nat
                           /\ d.at <= slotRows[e.slot].at /\ (d.at = e.at => d = e)
    <2>1. d # NoSlotEvent => d \in OwnEvents /\ d \in Given /\ d.slot = e.slot
      BY <1>0, <1>1, <1>2, HeldIsGiven
    <2>2. d # NoSlotEvent => d.at \in Nat
      BY <1>0, <2>1, EventsAre
    <2> QED
      BY <1>1, <2>1, <2>2 DEF ReadInv, GivenInv
  <1>4. \/ /\ slotsHeld' = [slotsHeld EXCEPT ![e.slot] = e]
           /\ d = NoSlotEvent \/ e.at >= d.at
        \/ slotsHeld' = slotsHeld /\ d # NoSlotEvent /\ ~(e.at > d.at)
    <2>1. d # NoSlotEvent /\ (e.at > d.at \/ e.at = d.at) => e.at >= d.at
      BY <1>1, <1>3
    <2> QED
      BY <1>2, <2>1 DEF RelayHolds, Newer, Tied
  <1>5. \A s \in AllSlots : s # e.slot => slotsHeld'[s] = slotsHeld[s]
    BY <1>0, <1>4 DEF ReadTypeOK
  <1>6. slotsHeld'[e.slot] = e \/ slotsHeld'[e.slot] = d
    BY <1>0, <1>1, <1>2, <1>4 DEF ReadTypeOK
  <1>7. /\ slotsHeld' \in [AllSlots -> OwnEvents \cup ForeignEvents \cup {NoSlotEvent}]
        /\ \A s \in AllSlots : slotsHeld'[s] # NoSlotEvent => slotsHeld'[s].slot = s
    <2>1. slotsHeld' \in [AllSlots -> OwnEvents \cup ForeignEvents \cup {NoSlotEvent}]
      BY <1>0, <1>1, <1>4 DEF ReadTypeOK
    <2>2. ASSUME NEW s \in AllSlots, slotsHeld'[s] # NoSlotEvent PROVE slotsHeld'[s].slot = s
      <3>1. CASE s = e.slot
        BY <1>1, <1>3, <1>6, <2>2, <3>1
      <3>2. CASE s # e.slot
        BY <1>0, <1>5, <2>2, <3>2 DEF ReadTypeOK
      <3> QED
        BY <3>1, <3>2
    <2> QED
      BY <2>1, <2>2
  <1>8. slotsHeld'[ForeignSlot] = slotsHeld[ForeignSlot]
    BY <1>1, <1>5, ReadConstants
  <1>9. \A f \in OwnEvents : f.slot \in AllSlots
    BY ReadConstants DEF OwnEvents
  <1>10. Given' \subseteq Given
    <2>1. ASSUME NEW f \in OwnEvents, slotsHeld'[f.slot] = f PROVE f \in Given
      <3>1. CASE f.slot = e.slot
        <4>1. f = e \/ f = d
          BY <1>6, <2>1, <3>1
        <4>2. f = d => slotsHeld[f.slot] = f
          BY <1>2, <3>1
        <4> QED
          BY <1>1, <2>1, <4>1, <4>2 DEF Given
      <3>2. CASE f.slot # e.slot
        BY <1>5, <1>9, <2>1, <3>2 DEF Given
      <3> QED
        BY <3>1, <3>2
    <2> QED
      BY <2>1 DEF Given
  <1>11. ASSUME NEW f \in Given, f.at = slotRows[f.slot].at PROVE f \in Given'
    <2>0. f \in OwnEvents /\ f.slot \in AllSlots
      BY <1>0, <1>9, EventsAre
    <2>1. CASE f # e /\ f \in readOutbox
      BY <2>1 DEF Given
    <2>2. CASE f # e /\ slotsHeld[f.slot] = f
      <3>1. CASE f.slot # e.slot
        BY <1>5, <2>0, <2>2, <3>1 DEF Given
      <3>2. CASE f.slot = e.slot
        <4>1. f = d /\ d # e
          BY <1>2, <2>2, <3>2
        <4>2. d # NoSlotEvent
          BY <2>0, <4>1 DEF OwnEvents, NoSlotEvent
        <4>3. d.at # e.at
          BY <1>3, <4>1, <4>2
        <4>4. slotsHeld' = slotsHeld
          BY <1>1, <1>3, <1>4, <1>11, <3>2, <4>1, <4>2, <4>3
        <4> QED
          BY <2>0, <2>2, <4>4 DEF Given
      <3> QED
        BY <3>1, <3>2
    <2>3. CASE f = e
      <3>1. slotsHeld'[e.slot] = e
        <4>1. CASE slotsHeld' = [slotsHeld EXCEPT ![e.slot] = e]
          BY <1>0, <1>1, <4>1 DEF ReadTypeOK
        <4>2. CASE slotsHeld' = slotsHeld /\ d # NoSlotEvent /\ ~(e.at > d.at)
          <5>1. d.at = e.at
            BY <1>1, <1>3, <1>11, <2>3, <4>2
          <5> QED
            BY <1>2, <1>3, <4>2, <5>1
        <4> QED
          BY <1>4, <4>1, <4>2
      <3> QED
        BY <2>0, <2>3, <3>1 DEF Given
    <2> QED
      BY <2>0, <2>1, <2>2, <2>3 DEF Given
  <1> QED
    BY <1>7, <1>8, <1>10, <1>11

LEMMA LessGivenKeeps ==
    ASSUME ReadInv,
           reads' = reads, slotRows' = slotRows, marked' \in Marks, clock' = clock,
           dirty' \in BOOLEAN, unsaid' \in BOOLEAN, readOutbox' \subseteq readOutbox,
           slotsHeld' \in [AllSlots -> OwnEvents \cup ForeignEvents \cup {NoSlotEvent}],
           \A s \in AllSlots : slotsHeld'[s] # NoSlotEvent => slotsHeld'[s].slot = s,
           slotsHeld'[ForeignSlot] = slotsHeld[ForeignSlot],
           Given' \subseteq Given, Unsent' \subseteq Unsent,
           publishing' \in [stage : PublishStages, reads : Marks, slots : Seq(Slots), todo : Seq(OwnEvents)],
           Within(publishing'.reads), TodoInv',
           ~unsaid' => /\ ~unsaid /\ dirty' = dirty
                       /\ \A f \in Given : f.at = slotRows[f.slot].at => f \in Given'
                       /\ Unsent' = Unsent
                       /\ \/ publishing' = publishing
                          \/ /\ publishing.stage \in {"idle", "store", "send"}
                             /\ publishing'.stage \in {"idle", "store", "send"}
    PROVE  ReadInv'
  <1>0. ReadTypeOK
    BY DEF ReadInv
  <1>1. ReadTypeOK'
    BY <1>0 DEF ReadTypeOK
  <1>2. RowsInv' /\ GivenInv'
    BY DEF ReadInv, RowsInv, GivenInv
  <1>3. WithinInv'
    BY DEF ReadInv, WithinInv, Within
  <1>4. CoverInv'
    <2> SUFFICES ASSUME ~unsaid', ~dirty' PROVE CoverInv'
      BY DEF CoverInv
    <2>1. \A y : Foreign(y) => Foreign(y)'
      BY DEF Foreign
    <2>2. \A f \in Given \cup Unsent : LastWord(f) => f \in Given' \cup Unsent' /\ LastWord(f)'
      BY DEF LastWord
    <2>3. CASE publishing' = publishing
      BY <2>1, <2>2, <2>3 DEF ReadInv, CoverInv
    <2>4. CASE /\ publishing.stage \in {"idle", "store", "send"}
               /\ publishing'.stage \in {"idle", "store", "send"}
      BY <2>1, <2>2, <2>4 DEF ReadInv, CoverInv
    <2> QED
      BY <2>3, <2>4
  <1>5. BoundInv'
    <2> DEFINE A == LocalOnes \cup {e.slot : e \in Unsent}
               B == LocalOnes' \cup {e.slot : e \in Unsent'}
    <2>1. B \subseteq A
      BY DEF LocalOnes
    <2>2. A \subseteq Slots
      BY <1>0, EventsAre DEF LocalOnes
    <2>3. IsFiniteSet(A)
      BY <2>2, ReadConstants, FS_Subset
    <2>4. Cardinality(B) <= Cardinality(A) /\ IsFiniteSet(B)
      BY <2>1, <2>3, FS_Subset
    <2>5. SlotsFor([x \in Contexts |-> 1])' = SlotsFor([x \in Contexts |-> 1])
      BY DEF SlotsFor
    <2>6. Cardinality(A) \in Nat /\ Cardinality(B) \in Nat
      BY <2>3, <2>4, FS_CardinalityType
    <2>7. PICK n \in Nat : n = SlotsFor([x \in Contexts |-> 1])
      <3>1. [x \in Contexts |-> 1] \in Marks
        BY DEF Marks
      <3> QED
        BY <3>1, SlotsForMonotone
    <2>8. Cardinality(A) <= n
      BY <2>7 DEF ReadInv, BoundInv
    <2>9. Cardinality(B) <= n
      BY <2>4, <2>6, <2>8
    <2> QED
      BY <2>5, <2>7, <2>9 DEF BoundInv
  <1> QED
    BY <1>1, <1>2, <1>3, <1>4, <1>5 DEF ReadInv

LEMMA NextEventIs ==
    ASSUME ReadInv, publishing.stage = "send", NextEvent, slotRows' = slotRows
    PROVE  /\ Unsent' = Unsent /\ Within(publishing'.reads) /\ TodoInv'
           /\ publishing' \in [stage : PublishStages, reads : Marks, slots : Seq(Slots), todo : Seq(OwnEvents)]
           /\ publishing'.stage \in {"idle", "store"}
  <1>0. ReadTypeOK /\ publishing.todo \in Seq(OwnEvents) /\ publishing.todo # <<>>
    BY DEF ReadInv, ReadTypeOK, TodoInv
  <1>1. PICK q \in Seq(OwnEvents) : q = publishing.todo /\ q # <<>>
    BY <1>0
  <1>2. PICK m \in Nat : m = Len(q) /\ m >= 1
    <2>1. Len(q) \in Nat /\ Len(q) >= 1
      BY <1>1
    <2> QED
      BY <2>1
  <1>3. DOMAIN q = 1..m
    BY <1>2
  <1>4. \A i \in 1..m : StillAhead(i) <=> i > 1
    BY <1>1, <1>3 DEF StillAhead
  <1>5. CASE m = 1
    <2>1. publishing' = NotPublishing
      BY <1>1, <1>2, <1>5 DEF NextEvent
    <2>2. publishing'.stage = "idle" /\ publishing'.reads = Unread /\ publishing'.todo = <<>>
      BY <2>1 DEF NotPublishing
    <2>3. Unsent = {} /\ Unsent' = {}
      BY <1>1, <1>3, <1>4, <1>5, <2>2 DEF Unsent, StillAhead
    <2>4. TodoInv'
      BY <2>1, <2>2 DEF TodoInv, StillAhead
    <2>5. NotPublishing \in [stage : PublishStages, reads : Marks, slots : Seq(Slots), todo : Seq(OwnEvents)]
      BY ReadConstants DEF NotPublishing, PublishStages
    <2>6. Within(Unread)
      BY <1>0 DEF Unread, Within, ReadTypeOK, Marks
    <2> QED
      BY <2>1, <2>2, <2>3, <2>4, <2>5, <2>6
  <1>6. CASE m # 1
    <2>1. publishing' = [publishing EXCEPT !.stage = "store", !.todo = Tail(q)]
      BY <1>1, <1>2, <1>6 DEF NextEvent
    <2>2. /\ Tail(q) \in Seq(OwnEvents) /\ DOMAIN Tail(q) = 1..(m-1)
          /\ \A i \in 1..(m-1) : Tail(q)[i] = q[i+1]
      BY <1>1, <1>2
    <2>3. PICK r \in Seq(OwnEvents) : r = Tail(q)
      BY <2>2
    <2>4. /\ publishing'.stage = "store" /\ publishing'.reads = publishing.reads /\ publishing'.todo = r
          /\ publishing' \in [stage : PublishStages, reads : Marks, slots : Seq(Slots), todo : Seq(OwnEvents)]
      BY <1>0, <2>1, <2>3 DEF ReadTypeOK, PublishStages
    <2>5. DOMAIN r = 1..(m-1) /\ \A i \in 1..(m-1) : r[i] = q[i+1] /\ i+1 \in 1..m /\ i+1 > 1
      BY <1>2, <2>2, <2>3
    <2>6. \A i \in 1..m : i > 1 => i - 1 \in 1..(m-1) /\ r[i-1] = q[i]
      <3>1. \A i \in 1..m : i > 1 => i - 1 \in 1..(m-1) /\ (i - 1) + 1 = i
        BY <1>2
      <3> QED
        BY <2>5, <3>1
    <2>7. Unsent' = Unsent
      <3>1. ASSUME NEW d \in Unsent' PROVE d \in Unsent
        <4>1. PICK i \in 1..(m-1) : r[i] = d
          BY <2>4, <2>5 DEF Unsent
        <4>2. q[i+1] = d /\ StillAhead(i+1) /\ i+1 \in DOMAIN publishing.todo
          BY <1>1, <1>3, <1>4, <2>5, <4>1
        <4> QED
          BY <1>1, <4>2 DEF Unsent
      <3>2. ASSUME NEW d \in Unsent PROVE d \in Unsent'
        <4>1. PICK i \in 1..m : StillAhead(i) /\ q[i] = d
          BY <1>1, <1>3 DEF Unsent
        <4>2. i > 1
          BY <1>4, <4>1
        <4>3. i - 1 \in DOMAIN r /\ r[i-1] = d
          BY <2>5, <2>6, <4>1, <4>2
        <4> QED
          BY <2>4, <4>3 DEF Unsent, StillAhead
      <3> QED
        BY <3>1, <3>2
    <2>8. TodoInv'
      <3>1. \A i \in 1..m : StillAhead(i) => q[i].at > slotRows[q[i].slot].at
        BY <1>1, <1>3 DEF ReadInv, TodoInv
      <3>2. \A i \in DOMAIN r : r[i].at > slotRows'[r[i].slot].at
        BY <1>4, <2>5, <3>1
      <3>3. \A i, j \in 1..m : q[i].slot = q[j].slot => i = j
        BY <1>1, <1>3 DEF ReadInv, TodoInv
      <3>4. ASSUME NEW i \in 1..(m-1), NEW j \in 1..(m-1), r[i].slot = r[j].slot PROVE i = j
        <4>1. i + 1 \in 1..m /\ j + 1 \in 1..m /\ q[i+1].slot = q[j+1].slot
          BY <2>5, <3>4
        <4>2. i + 1 = j + 1
          BY <3>3, <4>1
        <4> QED
          BY <1>2, <4>2
      <3>5. r # <<>>
        <4>1. 1 \in DOMAIN r
          BY <1>2, <1>6, <2>5
        <4> QED
          BY <4>1
      <3> QED
        BY <2>4, <2>5, <3>2, <3>4, <3>5 DEF TodoInv
    <2>9. Within(publishing'.reads)
      BY <2>4 DEF ReadInv, WithinInv
    <2> QED
      BY <2>4, <2>7, <2>8, <2>9
  <1> QED
    BY <1>5, <1>6

LEMMA SentKeeps ==
    ASSUME ReadInv, SendAccepted \/ SendRejected \/ SendUncertain
    PROVE  ReadInv'
  <1>0. ReadTypeOK /\ publishing.stage = "send"
    BY DEF ReadInv, SendAccepted, SendRejected, SendUncertain
  <1>1. PICK e \in readOutbox : e = Head(publishing.todo)
    <2>1. publishing.todo \in Seq(OwnEvents) /\ publishing.todo # <<>> /\ publishing.todo[1] \in readOutbox
      BY <1>0 DEF ReadInv, TodoInv, ReadTypeOK
    <2>2. Head(publishing.todo) = publishing.todo[1]
      BY <2>1
    <2> QED
      BY <2>1, <2>2
  <1>2. /\ reads' = reads /\ slotRows' = slotRows /\ marked' = marked /\ clock' = clock /\ dirty' = dirty
        /\ NextEvent
    BY DEF SendAccepted, SendRejected, SendUncertain, kept
  <1>3. /\ Unsent' = Unsent /\ Within(publishing'.reads) /\ TodoInv'
        /\ publishing' \in [stage : PublishStages, reads : Marks, slots : Seq(Slots), todo : Seq(OwnEvents)]
        /\ publishing'.stage \in {"idle", "store"}
    BY <1>0, <1>2, NextEventIs
  <1>4. CASE RelayHolds(e) /\ readOutbox' \in {readOutbox, readOutbox \ {e}} /\ unsaid' = unsaid
    <2>1. readOutbox' \subseteq readOutbox /\ readOutbox \ {e} \subseteq readOutbox'
      BY <1>4
    <2>2. /\ slotsHeld' \in [AllSlots -> OwnEvents \cup ForeignEvents \cup {NoSlotEvent}]
          /\ \A s \in AllSlots : slotsHeld'[s] # NoSlotEvent => slotsHeld'[s].slot = s
          /\ slotsHeld'[ForeignSlot] = slotsHeld[ForeignSlot]
          /\ Given' \subseteq Given
          /\ \A f \in Given : f.at = slotRows[f.slot].at => f \in Given'
      BY <1>2, <1>4, <2>1, RelayKeepsLatest
    <2>3. marked' \in Marks /\ dirty' \in BOOLEAN /\ unsaid' \in BOOLEAN
      BY <1>0, <1>2, <1>4 DEF ReadTypeOK
    <2>4. publishing.stage \in {"idle", "store", "send"} /\ publishing'.stage \in {"idle", "store", "send"}
      BY <1>0, <1>3
    <2> QED
      BY <1>2, <1>3, <1>4, <2>1, <2>2, <2>3, <2>4, LessGivenKeeps
  <1>5. CASE slotsHeld' = slotsHeld /\ readOutbox' = readOutbox /\ unsaid' = unsaid
    <2>1. Given' = Given
      BY <1>5 DEF Given
    <2>2. /\ marked' \in Marks /\ dirty' \in BOOLEAN /\ unsaid' \in BOOLEAN
          /\ slotsHeld' \in [AllSlots -> OwnEvents \cup ForeignEvents \cup {NoSlotEvent}]
          /\ \A s \in AllSlots : slotsHeld'[s] # NoSlotEvent => slotsHeld'[s].slot = s
      BY <1>0, <1>2, <1>5 DEF ReadTypeOK
    <2>3. publishing.stage \in {"idle", "store", "send"} /\ publishing'.stage \in {"idle", "store", "send"}
      BY <1>0, <1>3
    <2> QED
      BY <1>2, <1>3, <1>5, <2>1, <2>2, <2>3, LessGivenKeeps
  <1>6. CASE slotsHeld' = slotsHeld /\ readOutbox' = readOutbox \ {e} /\ unsaid' = TRUE
    <2>1. Given' \subseteq Given /\ readOutbox' \subseteq readOutbox
      BY <1>6 DEF Given
    <2>2. /\ marked' \in Marks /\ dirty' \in BOOLEAN /\ unsaid' \in BOOLEAN
          /\ slotsHeld' \in [AllSlots -> OwnEvents \cup ForeignEvents \cup {NoSlotEvent}]
          /\ \A s \in AllSlots : slotsHeld'[s] # NoSlotEvent => slotsHeld'[s].slot = s
      BY <1>0, <1>2, <1>6 DEF ReadTypeOK
    <2> QED
      BY <1>2, <1>3, <1>6, <2>1, <2>2, LessGivenKeeps
  <1>7. CASE SendAccepted
    BY <1>1, <1>4, <1>7 DEF SendAccepted
  <1>8. CASE SendRejected
    BY <1>1, <1>6, <1>8 DEF SendRejected
  <1>9. CASE SendUncertain
    BY <1>1, <1>4, <1>5, <1>9 DEF SendUncertain, kept
  <1> QED
    BY <1>7, <1>8, <1>9

LEMMA ReconcileSlotsKeeps ==
    ASSUME ReadInv, NEW e \in readOutbox, ReconcileSlots(e)
    PROVE  ReadInv'
  <1>0. ReadTypeOK
    BY DEF ReadInv
  <1>1. /\ reads' = reads /\ slotRows' = slotRows /\ marked' = marked /\ clock' = clock /\ dirty' = dirty
        /\ unsaid' = unsaid /\ publishing' = publishing /\ readOutbox' = readOutbox \ {e}
    BY DEF ReconcileSlots, ram
  <1>2. marked' \in Marks /\ dirty' \in BOOLEAN /\ unsaid' \in BOOLEAN
    BY <1>0, <1>1 DEF ReadTypeOK
  <1>3. Unsent' = Unsent /\ Within(publishing'.reads)
    BY <1>1 DEF Unsent, StillAhead, ReadInv, WithinInv
  <1>4. publishing' \in [stage : PublishStages, reads : Marks, slots : Seq(Slots), todo : Seq(OwnEvents)]
    BY <1>0, <1>1 DEF ReadTypeOK
  <1>5. TodoInv'
    <2>1. \A i : StillAhead(i)' <=> StillAhead(i)
      BY <1>1 DEF StillAhead
    <2>2. LocalSlots' = LocalSlots
      BY <1>1 DEF LocalSlots
    <2>3. publishing.stage = "send" => publishing.todo[1] \in readOutbox'
      <3> SUFFICES ASSUME publishing.stage = "send" PROVE publishing.todo[1] \in readOutbox'
        OBVIOUS
      <3>1. publishing.todo \in Seq(OwnEvents) /\ publishing.todo # <<>> /\ publishing.todo[1] \in readOutbox
        BY <1>0 DEF ReadInv, TodoInv, ReadTypeOK
      <3>2. Head(publishing.todo) = publishing.todo[1]
        BY <3>1
      <3> QED
        BY <1>1, <3>1, <3>2 DEF ReconcileSlots
    <2> QED
      BY <1>1, <2>1, <2>2, <2>3 DEF ReadInv, TodoInv
  <1>6. readOutbox' \subseteq readOutbox /\ readOutbox \ {e} \subseteq readOutbox'
    BY <1>1
  <1>7. CASE RelayHolds(e)
    <2>1. /\ slotsHeld' \in [AllSlots -> OwnEvents \cup ForeignEvents \cup {NoSlotEvent}]
          /\ \A s \in AllSlots : slotsHeld'[s] # NoSlotEvent => slotsHeld'[s].slot = s
          /\ slotsHeld'[ForeignSlot] = slotsHeld[ForeignSlot]
          /\ Given' \subseteq Given
          /\ \A f \in Given : f.at = slotRows[f.slot].at => f \in Given'
      BY <1>1, <1>6, <1>7, RelayKeepsLatest
    <2> QED
      BY <1>1, <1>2, <1>3, <1>4, <1>5, <1>6, <2>1, LessGivenKeeps
  <1>8. CASE slotsHeld[e.slot] = e /\ slotsHeld' = slotsHeld
    <2>1. e \in OwnEvents
      BY <1>0 DEF ReadTypeOK
    <2>2. Given' = Given
      BY <1>1, <1>8, <2>1 DEF Given
    <2>3. /\ slotsHeld' \in [AllSlots -> OwnEvents \cup ForeignEvents \cup {NoSlotEvent}]
          /\ \A s \in AllSlots : slotsHeld'[s] # NoSlotEvent => slotsHeld'[s].slot = s
      BY <1>0, <1>8 DEF ReadTypeOK
    <2> QED
      BY <1>1, <1>2, <1>3, <1>4, <1>5, <1>6, <1>8, <2>2, <2>3, LessGivenKeeps
  <1> QED
    BY <1>7, <1>8 DEF ReconcileSlots

LEMMA ReadProcessEndsKeeps ==
    ASSUME ReadInv, ProcessEnds
    PROVE  ReadInv'
  <1>0. ReadTypeOK
    BY DEF ReadInv
  <1>1. /\ reads' = reads /\ slotRows' = slotRows /\ clock' = clock /\ readOutbox' = readOutbox
        /\ slotsHeld' = slotsHeld /\ marked' = Unread /\ dirty' = FALSE /\ publishing' = NotPublishing
    BY DEF ProcessEnds, kept
  <1>2. PICK unstored \in BOOLEAN :
          /\ unsaid' = (unsaid \/ dirty \/ unstored)
          /\ ~unstored => /\ publishing.stage \in {"idle", "send"}
                          /\ publishing.stage = "send" => ~(Len(publishing.todo) > 1)
    <2> DEFINE U == CASE publishing.stage = "idle" -> FALSE
                      [] publishing.stage = "send" -> Len(publishing.todo) > 1
                      [] OTHER -> TRUE
    <2>1. U \in BOOLEAN /\ unsaid' = (unsaid \/ dirty \/ U)
      <3>1. publishing.stage = "idle" => U = FALSE
        BY Zenon
      <3>2. publishing.stage = "send" => U = (Len(publishing.todo) > 1)
        OBVIOUS
      <3>3. publishing.stage \notin {"idle", "send"} => U = TRUE
        OBVIOUS
      <3>4. (Len(publishing.todo) > 1) \in BOOLEAN
        OBVIOUS
      <3>5. unsaid' = (unsaid \/ dirty \/ U)
        BY Zenon DEF ProcessEnds
      <3> HIDE DEF U
      <3> QED
        BY <3>1, <3>2, <3>3, <3>4, <3>5
    <2>2. ~U => /\ publishing.stage \in {"idle", "send"}
                /\ publishing.stage = "send" => ~(Len(publishing.todo) > 1)
      OBVIOUS
    <2> HIDE DEF U
    <2>3. PICK u \in BOOLEAN : u = U
      BY <2>1
    <2> QED
      BY <2>1, <2>2, <2>3
  <1>3. unsaid' \in BOOLEAN /\ marked' \in Marks /\ dirty' \in BOOLEAN
    BY <1>0, <1>1, <1>2, ReadConstants DEF ReadTypeOK
  <1>4. publishing'.stage = "idle" /\ publishing'.reads = Unread /\ publishing'.todo = <<>>
    BY <1>1 DEF NotPublishing
  <1>5. TodoInv' /\ Unsent' = {} /\ Given' = Given
    BY <1>1, <1>4 DEF TodoInv, StillAhead, Unsent, Given
  <1>6. ~unsaid' => ~unsaid /\ ~dirty /\ Unsent = {} /\ publishing.stage \in {"idle", "send"}
    <2> SUFFICES ASSUME ~unsaid' PROVE ~unsaid /\ ~dirty /\ Unsent = {} /\ publishing.stage \in {"idle", "send"}
      OBVIOUS
    <2>1. ~unsaid /\ ~dirty /\ ~unstored
      BY <1>2
    <2>2. publishing.stage = "idle" => Unsent = {}
      BY DEF Unsent, StillAhead
    <2>3. publishing.stage = "send" => Unsent = {}
      <3> SUFFICES ASSUME publishing.stage = "send", NEW d \in Unsent PROVE FALSE
        OBVIOUS
      <3>1. PICK i \in DOMAIN publishing.todo : i > 1
        BY DEF Unsent, StillAhead
      <3>2. publishing.todo \in Seq(OwnEvents)
        BY <1>0 DEF ReadTypeOK
      <3>3. DOMAIN publishing.todo = 1..Len(publishing.todo) /\ Len(publishing.todo) \in Nat
        BY <3>2
      <3> QED
        BY <1>2, <2>1, <3>1, <3>3
    <2> QED
      BY <1>2, <2>1, <2>2, <2>3
  <1>7. Within(publishing'.reads)
    BY <1>0, <1>4 DEF Unread, Within, ReadTypeOK, Marks
  <1>8. publishing' \in [stage : PublishStages, reads : Marks, slots : Seq(Slots), todo : Seq(OwnEvents)]
    BY <1>1, ReadConstants DEF NotPublishing, PublishStages
  <1>9. /\ slotsHeld' \in [AllSlots -> OwnEvents \cup ForeignEvents \cup {NoSlotEvent}]
        /\ \A s \in AllSlots : slotsHeld'[s] # NoSlotEvent => slotsHeld'[s].slot = s
    BY <1>0, <1>1 DEF ReadTypeOK
  <1>10. ~unsaid' => dirty' = dirty
    BY <1>0, <1>1, <1>6 DEF ReadTypeOK
  <1> QED
    BY <1>1, <1>3, <1>4, <1>5, <1>6, <1>7, <1>8, <1>9, <1>10, LessGivenKeeps

LEMMA ReadStep == ReadInv /\ [ReadNext]_readVars => ReadInv'
  <1> SUFFICES ASSUME ReadInv, [ReadNext]_readVars PROVE ReadInv'
    OBVIOUS
  <1>1. ASSUME NEW x \in Contexts, NEW at \in 1..MaxRead, MarkRead(x, at) PROVE ReadInv'
    BY <1>1, MarkReadKeeps
  <1>2. ASSUME NEW x \in Contexts, NEW at \in 1..MaxRead, ForeignPublishes(x, at) PROVE ReadInv'
    BY <1>2, ForeignKeeps
  <1>3. ASSUME NEW s \in AllSlots, MergeEvent(s) PROVE ReadInv'
    BY <1>3, OwnMergeKeeps, ForeignMergeKeeps DEF AllSlots
  <1>4. CASE PublishDue
    BY <1>4, PublishDueKeeps
  <1>5. CASE ReadContexts
    BY <1>5, ReadContextsKeeps
  <1>6. CASE EnsureLocalSlots
    BY <1>6, EnsureLocalSlotsKeeps
  <1>7. ASSUME NEW shown \in {0, clock}, BuildEvents(shown) PROVE ReadInv'
    BY <1>7, BuildEventsKeeps
  <1>8. CASE StoreEvent
    BY <1>8, StoreEventKeeps
  <1>9. CASE SendAccepted \/ SendRejected \/ SendUncertain
    BY <1>9, SentKeeps
  <1>10. ASSUME NEW e \in readOutbox, ReconcileSlots(e) PROVE ReadInv'
    BY <1>10, ReconcileSlotsKeeps
  <1>11. CASE ProcessEnds
    BY <1>11, ReadProcessEndsKeeps
  <1>12. CASE UNCHANGED readVars
    BY <1>12, ReadStutters
  <1> QED
    BY <1>1, <1>2, <1>3, <1>4, <1>5, <1>6, <1>7, <1>8, <1>9, <1>10, <1>11, <1>12 DEF ReadNext

LEMMA MarksAreSound == ReadInv => MarksSound
  <1> SUFFICES ASSUME ReadInv PROVE MarksSound
    OBVIOUS
  <1>0. ReadTypeOK
    BY DEF ReadInv
  <1>1. RelayKnowsAll
    <2> SUFFICES ASSUME Settled, NEW x \in Contexts
                 PROVE  \E s \in AllSlots : slotsHeld[s].reads[x] >= reads[x]
      BY DEF RelayKnowsAll
    <2>1. publishing.stage = "idle" /\ ~dirty /\ readOutbox = {} /\ ~unsaid
      BY DEF Settled, NotPublishing
    <2>2. Unsent = {}
      BY <2>1 DEF Unsent, StillAhead
    <2>3. Foreign(x) \/ \E e \in Given : e.reads[x] >= reads[x]
      BY <2>1, <2>2 DEF ReadInv, CoverInv
    <2>4. CASE Foreign(x)
      BY <2>4, ReadConstants DEF Foreign
    <2>5. ASSUME NEW e \in Given, e.reads[x] >= reads[x] PROVE \E s \in AllSlots : slotsHeld[s].reads[x] >= reads[x]
      <3>1. slotsHeld[e.slot] = e /\ e.slot \in AllSlots
        BY <1>0, <2>1, EventsAre, ReadConstants DEF Given
      <3> QED
        BY <2>5, <3>1
    <2> QED
      BY <2>3, <2>4, <2>5
  <1>2. SlotsKept
    <2> DEFINE A == LocalOnes \cup {e.slot : e \in Unsent}
               B == {s \in Slots : slotsHeld[s] # NoSlotEvent}
    <2>1. ASSUME NEW s \in Slots, slotsHeld[s] # NoSlotEvent PROVE s \in LocalOnes
      <3>1. slotsHeld[s] \in Given /\ slotsHeld[s].slot = s
        BY <1>0, <2>1, HeldIsGiven
      <3> QED
        BY <3>1 DEF ReadInv, GivenInv, LocalOnes
    <2>2. B \subseteq A
      BY <2>1
    <2>3. A \subseteq Slots
      BY <1>0, EventsAre DEF LocalOnes
    <2>4. IsFiniteSet(A)
      BY <2>3, ReadConstants, FS_Subset
    <2>5. Cardinality(B) <= Cardinality(A) /\ IsFiniteSet(B)
      BY <2>2, <2>4, FS_Subset
    <2>6. Cardinality(A) \in Nat /\ Cardinality(B) \in Nat
      BY <2>4, <2>5, FS_CardinalityType
    <2>7. PICK n \in Nat : n = SlotsFor([x \in Contexts |-> 1])
      <3>1. [x \in Contexts |-> 1] \in Marks
        BY DEF Marks
      <3> QED
        BY <3>1, SlotsForMonotone
    <2>8. Cardinality(A) <= n
      BY <2>7 DEF ReadInv, BoundInv
    <2>9. Cardinality(B) <= n
      BY <2>5, <2>6, <2>8
    <2> QED
      BY <2>7, <2>9 DEF SlotsKept
  <1> QED
    BY <1>1, <1>2 DEF MarksSound

\* Whatever crashes, comes back late or is refused, no newer mark gives way to
\* an older one at the relay, and one client keeps to as many slots as its
\* contexts need (src/sync/read_state.rs, record_read_slot, build_events).
THEOREM MarksCorrect == ReadSpec => []MarksSound
  <1> QED
    BY ReadAtFirst, ReadStep, MarksAreSound, PTL DEF ReadSpec
=============================================================================
