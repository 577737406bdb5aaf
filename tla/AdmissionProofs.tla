--------------------------- MODULE AdmissionProofs ---------------------------
(***************************************************************************)
(* Proofs about what the supervisor admits: the rate-limit gate, the       *)
(* publication queues and the subscriptions it believes to be served; and  *)
(* about the session it talks to: whoever waits for it is owed an end.     *)
(***************************************************************************)
EXTENDS SupervisorProofs, Session, FiniteSetTheorems

LEMMA HintNat == \A h \in Hints \cup {0} : h \in Nat
  BY TimeAssumption

\* What the frame at hand is about.
LEMMA ClosedHead ==
    ASSUME TypeOK, Incoming("closed")
    PROVE  /\ Head(net).sub \in Subs
           /\ Head(net).class \in {"rate", "retry", "terminal"}
           /\ Head(net).hint \in Nat
  <1>1. Head(net) \in Frames /\ Head(net).kind = "closed"
    BY IncomingType DEF Incoming
  <1> QED
    BY <1>1, HintNat, ClosedFrameType DEF ClosedClasses

LEMMA NoticeHead ==
    ASSUME TypeOK, Incoming("notice")
    PROVE  Head(net).hint \in Nat
  BY IncomingType, NoticeFrameType, Numbers DEF Incoming

\* What a CLOSED of the relay's own does to the gate and to the registry.
LEMMA ClosedOutcomes ==
    ASSUME TypeOK, HandleClosedByRelay
    PROVE  LET s == Head(net).sub
               h == Head(net).hint IN
           /\ s \in Subs
           /\ h \in Nat
           /\ \/ UNCHANGED <<gate, owed>>
              \/ gate' = ActivateRateLimit(h) /\ owed' = Larger(owed, h)
           /\ \/ desired' = [desired EXCEPT ![s] = RateLimitedEntry(s, gate')]
              \/ desired' = [desired EXCEPT ![s] = RetryableEntry(s)]
              \/ desired' = [desired EXCEPT ![s] = Absent]
  <1>1. Incoming("closed")
    BY DEF HandleClosedByRelay
  <1>2. CASE Head(net).class = "rate"
    BY <1>1, <1>2, ClosedHead DEF HandleClosedByRelay
  <1>3. CASE Head(net).class = "retry"
    BY <1>1, <1>3, ClosedHead DEF HandleClosedByRelay
  <1>4. CASE Head(net).class = "terminal"
    BY <1>1, <1>4, ClosedHead DEF HandleClosedByRelay
  <1> QED
    BY <1>1, <1>2, <1>3, <1>4, ClosedHead
-----------------------------------------------------------------------------
(* The gate *)

LEMMA GateRaised ==
    ASSUME TypeOK, GateInv, NEW h \in Nat,
           gate' = ActivateRateLimit(h), owed' = Larger(owed, h)
    PROVE  GateInv'
  BY DEF TypeOK, GateInv, ActivateRateLimit, Larger

LEMMA GateNext == TypeOK /\ GateInv /\ [Next]_vars => GateInv'
  <1> SUFFICES ASSUME TypeOK, GateInv, [Next]_vars PROVE GateInv'
    OBVIOUS
  <1>1. CASE UNCHANGED <<gate, owed>>
    BY <1>1 DEF GateInv
  <1>2. CASE Command
    BY <1>1, <1>2 DEF Command, HandleSubscribe, HandleClose, HandlePublish,
                      HandleReconnect, HandleShutdown, timeVars
  <1>3. CASE HandleNotice
    BY <1>3, NoticeHead, GateRaised DEF HandleNotice
  <1>4. CASE HandleClosedByRelay
    BY <1>1, <1>4, ClosedOutcomes, GateRaised
  <1>5. CASE HandleDone \/ DrainDone
    <2>1. Head(publishDone) \in Hints \cup {0}
      BY <1>5 DEF TypeOK, HandleDone, DrainDone
    <2>2. Head(publishDone) \in Nat
      BY <2>1, HintNat
    <2> QED
      BY <1>5, <2>2, GateRaised DEF HandleDone, DrainDone
  <1>6. CASE HandleDisconnected \/ HandleClosedLocally \/ HandleDelivery
    BY <1>1, <1>6 DEF HandleDisconnected, HandleClosedLocally, HandleDelivery, timeVars
  <1>7. CASE Connection
    BY <1>1, <1>5, <1>7 DEF Connection, StartConnect, ConnectOk, ConnectDenied,
                            ConnectFailed, BackoffOver, timeVars
  <1>8. CASE AdmissionTick
    BY <1>1, <1>8 DEF AdmissionTick
  <1>9. CASE Task
    BY <1>1, <1>9 DEF Task, TaskWrite, TaskSessionLost, TaskTimeout, TaskAcknowledged,
                      TaskReport, TaskRespond, TaskEnd, timeVars
  <1>10. CASE Elapse
    BY <1>10 DEF TypeOK, GateInv, Elapse, Elapsed
  <1>11. CASE Environment
    BY <1>1, <1>10, <1>11 DEF Environment, RelayDecides, RelaySends, RelayCloses,
                              RelayNotices, SocketDies, timeVars
  <1> QED
    BY <1>1, <1>2, <1>3, <1>4, <1>5, <1>6, <1>7, <1>8, <1>9, <1>11
       DEF Next, SessionEvent, vars

\* A subscription that needs to be sent and stops needing it without being given
\* up is a REQ; all other changes of the registry keep the need.
LEMMA NeedKept ==
    ASSUME TypeOK, NEW s \in Subs, IsDesired(s), IsDesired(s)', desired[s].needsSend,
           ~AdmissionTick, Next
    PROVE  desired'[s].needsSend
  <1>0. desired \in [Subs -> Entry] /\ desired[s] \in Entry
    BY DEF TypeOK
  <1>1. CASE desired' = desired
    BY <1>1
  <1>2. CASE Command
    <2>1. CASE \E t \in Subs, f \in Filters : \E pr \in PriosOf[t] : HandleSubscribe(t, f, pr)
      BY <1>0, <2>1 DEF HandleSubscribe, Remembered
    <2>2. CASE \E t \in Closable : HandleClose(t)
      BY <1>0, <2>2, SubAssumption DEF HandleClose, IsDesired, Absent
    <2> QED
      BY <1>1, <1>2, <2>1, <2>2
         DEF Command, HandlePublish, HandleReconnect, HandleShutdown, subVars
  <1>3. CASE HandleClosedByRelay
    <2> DEFINE t == Head(net).sub
    <2>1. t \in Subs
      BY <1>3, ClosedOutcomes
    <2>2. \/ desired' = [desired EXCEPT ![t] = RateLimitedEntry(t, gate')]
          \/ desired' = [desired EXCEPT ![t] = RetryableEntry(t)]
          \/ desired' = [desired EXCEPT ![t] = Absent]
      BY <1>3, ClosedOutcomes
    <2>3. CASE s # t
      BY <1>0, <2>1, <2>2, <2>3
    <2>4. CASE s = t
      <3>1. desired'[s] # Absent
        BY <1>0 DEF IsDesired, Absent
      <3>2. desired'[s] = RateLimitedEntry(s, gate') \/ desired'[s] = RetryableEntry(s)
        BY <1>0, <2>2, <2>4, <3>1
      <3> QED
        BY <1>0, <3>2 DEF RateLimitedEntry, RetryableEntry, Entry
    <2> QED
      BY <2>3, <2>4
  <1>4. CASE HandleNotice
    BY <1>0, <1>4 DEF HandleNotice, Entry
  <1>5. CASE HandleDelivery
    <2>1. PICK t : desired' = [desired EXCEPT ![t] =
                          IF IsDesired(t)
                          THEN [@ EXCEPT !.attempt = 0, !.retryIn = 0]
                          ELSE Absent]
      BY <1>5 DEF HandleDelivery
    <2> QED
      BY <1>0, <2>1 DEF Entry
  <1>6. CASE Connection
    BY <1>0, <1>1, <1>6 DEF Connection, DrainDone, StartConnect, ConnectOk, ConnectDenied,
                            ConnectFailed, BackoffOver, subVars, Entry
  <1>7. CASE Task
    BY <1>1, <1>7 DEF Task, TaskWrite, TaskSessionLost, TaskTimeout, TaskAcknowledged,
                      TaskReport, TaskRespond, TaskEnd, subVars
  <1>8. CASE Elapse
    BY <1>0, <1>8 DEF Elapse, Entry
  <1>9. CASE Environment
    BY <1>1, <1>8, <1>9 DEF Environment, RelayDecides, RelaySends, RelayCloses,
                            RelayNotices, SocketDies, subVars
  <1> QED
    BY <1>1, <1>2, <1>3, <1>4, <1>5, <1>6, <1>7, <1>9
       DEF Next, SessionEvent, HandleDisconnected, HandleClosedLocally, HandleDone, subVars

\* Nothing but the tick of the admission clock starts a publish task.
LEMMA TaskStartsAtTick ==
    ASSUME task = NoTask, task' # NoTask, Next
    PROVE  AdmissionTick
  <1>1. ~Task
    BY DEF Task, TaskWrite, TaskSessionLost, TaskTimeout, TaskAcknowledged, TaskReport,
           TaskRespond, TaskEnd
  <1>2. ~Command
    BY DEF Command, HandleSubscribe, HandleClose, HandlePublish, HandleReconnect,
           HandleShutdown, TaskLosesSession, taskVars
  <1>3. ~SessionEvent
    BY DEF SessionEvent, HandleDisconnected, HandleClosedLocally, HandleClosedByRelay,
           HandleNotice, HandleDelivery, HandleDone, TaskLosesSession, taskVars
  <1>4. ~Connection
    BY DEF Connection, DrainDone, StartConnect, ConnectOk, ConnectDenied, ConnectFailed,
           BackoffOver, taskVars
  <1>5. ~Environment
    BY DEF Environment, RelayDecides, RelaySends, RelayCloses, RelayNotices, SocketDies,
           Elapse, TaskLosesSession, taskVars
  <1> QED
    BY <1>1, <1>2, <1>3, <1>4, <1>5 DEF Next

LEMMA TickNeedsOpenGate ==
    ASSUME TypeOK, AdmissionTick, FrameAdmitted
    PROVE  gate = 0
  <1>1. \/ gate = 0
        \/ \E q : AdmitNothing(q)
    BY DEF AdmissionTick
  <1>2. ASSUME NEW q, AdmitNothing(q) PROVE FALSE
    BY <1>2 DEF AdmitNothing, FrameAdmitted, subVars
  <1> QED
    BY <1>1, <1>2

\* No REQ and no EVENT is admitted while a hint of the relay's is running.
THEOREM GateCorrect == Spec => GateHonoured
  <1>1. Init => TypeOK /\ GateInv
    BY TypeInit DEF Init, GateInv
  <1>2. TypeOK /\ GateInv /\ [Next]_vars => (TypeOK /\ GateInv)'
    BY TypeNext, GateNext
  <1>3. TypeOK /\ GateInv /\ [Next]_vars => [FrameAdmitted => owed = 0]_vars
    <2> SUFFICES ASSUME TypeOK, GateInv, Next, FrameAdmitted PROVE owed = 0
      OBVIOUS
    <2>1. AdmissionTick
      BY NeedKept, TaskStartsAtTick DEF FrameAdmitted
    <2>2. gate = 0
      BY <2>1, TickNeedsOpenGate
    <2> QED
      BY <2>2 DEF TypeOK, GateInv
  <1> QED
    BY <1>1, <1>2, <1>3, PTL DEF Spec, GateHonoured
-----------------------------------------------------------------------------
(* The publication queues *)

LEMMA QueueTyped ==
    ASSUME TypeOK, NEW pr \in PubPriorities
    PROVE  queue[pr] \in Seq(QueueItem)
  BY DEF TypeOK

LEMMA ItemAges ==
    ASSUME NEW q \in Seq(QueueItem)
    PROVE  \A i \in 1..Len(q) : q[i].age \in Nat
  <1>1. \A i \in 1..Len(q) : q[i] \in QueueItem
    OBVIOUS
  <1> QED
    BY <1>1, PubAssumption DEF QueueItem

\* One interval ages a queue by one and keeps its order.
LEMMA AgedQueue ==
    ASSUME NEW q \in Seq(QueueItem), InOrder(q), Younger(q, QueueTimeout)
    PROVE  InOrder(Aged(q)) /\ Younger(Aged(q), QueueTimeout + 1)
  <1>1. Len(q) \in Nat /\ \A i \in 1..Len(q) : q[i] \in QueueItem
    OBVIOUS
  <1>2. Len(Aged(q)) = Len(q)
    BY AgedType
  <1>3. \A i \in 1..Len(q) : q[i].age \in Nat
    BY ItemAges
  <1>4. \A i \in 1..Len(q) : Aged(q)[i].age = q[i].age + 1
    <2> TAKE i \in 1..Len(q)
    <2>1. Aged(q)[i] = [q[i] EXCEPT !.age = Smaller(q[i].age + 1, QueueTimeout + 1)]
      BY DEF Aged
    <2>2. Smaller(q[i].age + 1, QueueTimeout + 1) = q[i].age + 1
      BY <1>3, PubAssumption DEF Younger, Smaller
    <2> QED
      BY <1>1, <2>1, <2>2 DEF QueueItem
  <1> HIDE DEF Aged
  <1>5. InOrder(Aged(q))
    BY <1>2, <1>3, <1>4 DEF InOrder
  <1>6. Younger(Aged(q), QueueTimeout + 1)
    BY <1>2, <1>3, <1>4, PubAssumption DEF Younger
  <1> QED
    BY <1>5, <1>6

\* A call that joins a queue is its youngest.
LEMMA JoinedQueue ==
    ASSUME NEW q \in Seq(QueueItem), InOrder(q), NEW p, NEW n \in Nat \ {0}, Younger(q, n)
    PROVE  /\ InOrder(Append(q, [pub |-> p, age |-> 0]))
           /\ Younger(Append(q, [pub |-> p, age |-> 0]), n)
  <1> DEFINE r == Append(q, [pub |-> p, age |-> 0])
  <1>1. /\ Len(q) \in Nat /\ Len(r) = Len(q) + 1
        /\ \A i \in 1..Len(q) : r[i] = q[i] /\ q[i] \in QueueItem
        /\ r[Len(q) + 1].age = 0
    OBVIOUS
  <1>2. \A i \in 1..Len(q) : q[i].age \in Nat
    BY ItemAges
  <1> HIDE DEF r
  <1>3. \A i \in 1..Len(r) : i \in 1..Len(q) \/ i = Len(q) + 1
    BY <1>1
  <1>4. InOrder(r)
    <2> SUFFICES ASSUME NEW i \in 1..Len(r), NEW j \in 1..Len(r), i <= j
                 PROVE  r[j].age <= r[i].age
      BY DEF InOrder
    <2>1. CASE j = Len(q) + 1
      BY <1>1, <1>2, <1>3, <2>1
    <2>2. CASE j \in 1..Len(q)
      <3>1. i \in 1..Len(q)
        BY <1>1, <2>2
      <3> QED
        BY <1>1, <2>2, <3>1 DEF InOrder
    <2> QED
      BY <1>3, <2>1, <2>2
  <1>5. Younger(r, n)
    <2> SUFFICES ASSUME NEW i \in 1..Len(r) PROVE r[i].age < n
      BY DEF Younger
    <2> QED
      BY <1>1, <1>3 DEF Younger
  <1> QED
    BY <1>4, <1>5 DEF r

\* reject_expired leaves only what is younger than the deadline, because it
\* stops at the first such call and the later ones are younger still.
LEMMA ExpiredQueue ==
    ASSUME NEW q \in Seq(QueueItem), InOrder(q), NEW c \in 0..Len(q),
           c < Len(q) => q[c + 1].age < QueueTimeout
    PROVE  LET r == SubSeq(q, c + 1, Len(q)) IN
           InOrder(r) /\ Younger(r, QueueTimeout) /\ Len(r) <= Len(q)
  <1> DEFINE r == SubSeq(q, c + 1, Len(q))
  <1>1. /\ Len(q) \in Nat /\ Len(r) = Len(q) - c
        /\ \A i \in 1..Len(r) : i + c \in 1..Len(q) /\ r[i] = q[i + c]
    BY CutPrefix
  <1>2. \A i \in 1..Len(q) : q[i].age \in Nat
    BY ItemAges
  <1> HIDE DEF r
  <1>3. InOrder(r)
    <2> SUFFICES ASSUME NEW i \in 1..Len(r), NEW j \in 1..Len(r), i <= j
                 PROVE  r[j].age <= r[i].age
      BY DEF InOrder
    <2>1. i + c \in 1..Len(q) /\ j + c \in 1..Len(q) /\ i + c <= j + c
      BY <1>1
    <2>2. q[j + c].age <= q[i + c].age
      BY <2>1 DEF InOrder
    <2> QED
      BY <1>1, <2>2
  <1>4. Younger(r, QueueTimeout)
    <2> SUFFICES ASSUME NEW i \in 1..Len(r) PROVE r[i].age < QueueTimeout
      BY DEF Younger
    <2>1. i + c \in 1..Len(q) /\ c + 1 \in 1..Len(q) /\ c + 1 <= i + c /\ c < Len(q)
      BY <1>1
    <2>2. q[i + c].age <= q[c + 1].age
      BY <2>1 DEF InOrder
    <2> QED
      BY <1>1, <1>2, <2>1, <2>2, PubAssumption
  <1> QED
    BY <1>1, <1>3, <1>4 DEF r

\* pop_front keeps the rest as it was.
LEMMA PoppedTail ==
    ASSUME NEW q \in Seq(QueueItem), q # <<>>, InOrder(q), NEW n, Younger(q, n)
    PROVE  InOrder(Tail(q)) /\ Younger(Tail(q), n) /\ Len(Tail(q)) <= Len(q)
  <1>1. /\ Len(q) \in Nat /\ Len(Tail(q)) = Len(q) - 1
        /\ \A i \in 1..Len(Tail(q)) : i + 1 \in 1..Len(q) /\ Tail(q)[i] = q[i + 1]
    OBVIOUS
  <1>2. InOrder(Tail(q))
    <2> SUFFICES ASSUME NEW i \in 1..Len(Tail(q)), NEW j \in 1..Len(Tail(q)), i <= j
                 PROVE  Tail(q)[j].age <= Tail(q)[i].age
      BY DEF InOrder
    <2>1. q[j + 1].age <= q[i + 1].age
      BY <1>1 DEF InOrder
    <2> QED
      BY <1>1, <2>1
  <1>3. Younger(Tail(q), n)
    BY <1>1 DEF Younger
  <1> QED
    BY <1>1, <1>2, <1>3

LEMMA QueuesEmpty ==
    ASSUME \A pr \in PubPriorities : queue'[pr] = <<>>
    PROVE  QueuesInv'
  BY DEF QueuesInv, InOrder, Younger

LEMMA QueuesRejected == ASSUME RejectAll PROVE QueuesInv'
  BY QueuesEmpty DEF RejectAll, EmptyQueues

\* Outside a session nothing is queued; in a session nothing of this changes.
LEMMA QueuesIdle ==
    ASSUME QueuesInv, UNCHANGED queue,
           phase # "session" \/ UNCHANGED <<phase, tickDue>>
    PROVE  QueuesInv'
  <1>1. CASE phase # "session"
    BY <1>1, QueuesEmpty DEF QueuesInv
  <1>2. CASE UNCHANGED <<phase, tickDue>>
    BY <1>2 DEF QueuesInv
  <1> QED
    BY <1>1, <1>2

LEMMA QueuesPublish ==
    ASSUME TypeOK, QueuesInv, NEW p \in Pubs, HandlePublish(p)
    PROVE  QueuesInv'
  <1>1. CASE UNCHANGED queue
    BY <1>1, QueuesIdle DEF HandlePublish, PhaseAfterCommand, timeVars
  <1>2. CASE /\ phase = "session"
             /\ queue' = [queue EXCEPT ![PubPrio[p]] = Append(@, [pub |-> p, age |-> 0])]
    <2> DEFINE pr == PubPrio[p]
    <2>1. pr \in PubPriorities /\ UNCHANGED <<phase, tickDue>>
      BY <1>2, PubAssumption DEF HandlePublish, PhaseAfterCommand, timeVars
    <2>2. /\ InOrder(queue'[pr])
          /\ Younger(queue'[pr], QueueTimeout + 1)
          /\ ~tickDue => Younger(queue'[pr], QueueTimeout)
      <3>1. queue[pr] \in Seq(QueueItem) /\ queue'[pr] = Append(queue[pr], [pub |-> p, age |-> 0])
        BY <1>2, <2>1 DEF TypeOK
      <3>2. /\ InOrder(queue[pr]) /\ Younger(queue[pr], QueueTimeout + 1)
            /\ ~tickDue => Younger(queue[pr], QueueTimeout)
        BY <2>1 DEF QueuesInv
      <3>3. QueueTimeout \in Nat \ {0} /\ QueueTimeout + 1 \in Nat \ {0}
        BY PubAssumption
      <3> HIDE DEF pr
      <3>4. InOrder(queue'[pr]) /\ Younger(queue'[pr], QueueTimeout + 1)
        BY <3>1, <3>2, <3>3, JoinedQueue
      <3>5. ~tickDue => Younger(queue'[pr], QueueTimeout)
        BY <3>1, <3>2, <3>3, JoinedQueue
      <3> QED
        BY <3>4, <3>5
    <2>3. \A a \in PubPriorities : a # pr => queue'[a] = queue[a]
      BY <1>2 DEF TypeOK
    <2> HIDE DEF pr
    <2> QED
      BY <1>2, <2>1, <2>2, <2>3 DEF QueuesInv
  <1> QED
    BY <1>1, <1>2 DEF HandlePublish

\* The tick: what is left in the queues is younger than the deadline, whether a
\* call is popped or not.
LEMMA QueuesTick ==
    ASSUME TypeOK, QueuesInv, ~SendCanFail, AdmissionTick
    PROVE  QueuesInv'
  <1> PICK cut \in [PubPriorities -> 0..MaxPending] :
        /\ IsExpiredPrefix(cut)
        /\ LET q    == AfterExpiry(cut)
               lane == AdmissionLane(task # NoTask, q) IN
             \/ AdmitNothing(q)
             \/ lane \in {"interactive", "deferred"} /\ AdmitPublication(lane, q)
             \/ AdmitSubscription(q)
    BY DEF AdmissionTick
  <1> DEFINE q == AfterExpiry(cut)
             lane == AdmissionLane(task # NoTask, q)
  <1>1. \A a \in PubPriorities : InOrder(q[a]) /\ Younger(q[a], QueueTimeout)
    <2> TAKE a \in PubPriorities
    <2>1. /\ queue[a] \in Seq(QueueItem) /\ cut[a] \in 0..Len(queue[a])
          /\ cut[a] < Len(queue[a]) => queue[a][cut[a] + 1].age < QueueTimeout
          /\ InOrder(queue[a])
      BY PubAssumption DEF TypeOK, IsExpiredPrefix, QueuesInv
    <2>2. q[a] = SubSeq(queue[a], cut[a] + 1, Len(queue[a]))
      BY DEF AfterExpiry
    <2> QED
      BY <2>1, <2>2, ExpiredQueue
  <1>2. q \in [PubPriorities -> Seq(QueueItem)]
    BY AfterExpiryType
  <1>3. phase = "session"
    BY DEF AdmissionTick, InSession
  <1> HIDE DEF q
  <1>4. \A a \in PubPriorities : \A i \in 1..Len(q[a]) : q[a][i].age \in Nat
    BY <1>2, ItemAges
  <1>5. ASSUME NEW a \in PubPriorities, NEW r, InOrder(r), Younger(r, QueueTimeout),
               \A i \in 1..Len(r) : r[i].age \in Nat
        PROVE  Younger(r, QueueTimeout + 1)
    BY <1>5, PubAssumption DEF Younger
  <1>6. CASE AdmitNothing(q) \/ AdmitSubscription(q)
    <2>1. queue' = q /\ phase' = "session"
      BY <1>3, <1>6 DEF AdmitNothing, AdmitSubscription
    <2> QED
      BY <1>1, <1>4, <1>5, <2>1 DEF QueuesInv
  <1>7. CASE lane \in {"interactive", "deferred"} /\ AdmitPublication(lane, q)
    <2> DEFINE from == PoppedQueue(lane, q)
    <2>1. from \in PubPriorities
      BY DEF PoppedQueue, PubPriorities
    <2>2. q[from] # <<>>
      BY <1>7, <2>1 DEF lane, AdmissionLane, PoppedQueue, HasDeferred, PubPriorities
    <2>3. /\ queue' \in [PubPriorities -> Seq(QueueItem)]
          /\ queue'[from] = Tail(q[from])
          /\ \A a \in PubPriorities : a # from => queue'[a] = q[a]
      BY <1>2, <1>7, <2>1, <2>2 DEF AdmitPublication, Popped
    <2>4. InOrder(queue'[from]) /\ Younger(queue'[from], QueueTimeout)
      BY <1>1, <1>2, <2>1, <2>2, <2>3, PoppedTail
    <2>5. \A a \in PubPriorities : InOrder(queue'[a]) /\ Younger(queue'[a], QueueTimeout)
      BY <1>1, <2>3, <2>4
    <2>6. \A a \in PubPriorities : \A i \in 1..Len(queue'[a]) : queue'[a][i].age \in Nat
      BY <2>3, ItemAges
    <2>7. phase' = "session"
      BY <1>3, <1>7 DEF AdmitPublication
    <2> QED
      BY <1>5, <2>5, <2>6, <2>7 DEF QueuesInv
  <1> QED
    BY <1>6, <1>7 DEF q

LEMMA QueuesElapse ==
    ASSUME TypeOK, QueuesInv, Elapse
    PROVE  QueuesInv'
  <1>1. CASE phase # "session"
    <2>1. \A a \in PubPriorities : queue'[a] = <<>>
      BY <1>1 DEF QueuesInv, Elapse, Aged
    <2> QED
      BY <2>1, QueuesEmpty
  <1>2. CASE phase = "session"
    <2>1. tickDue' = TRUE /\ phase' = "session"
      BY <1>2 DEF Elapse
    <2>2. \A a \in PubPriorities : queue'[a] = Aged(queue[a]) /\ queue[a] \in Seq(QueueItem)
      BY QueueTyped DEF Elapse
    <2>3. \A a \in PubPriorities : InOrder(queue[a]) /\ Younger(queue[a], QueueTimeout)
      BY DEF QueuesInv, Elapse
    <2>4. \A a \in PubPriorities : InOrder(queue'[a]) /\ Younger(queue'[a], QueueTimeout + 1)
      BY <2>2, <2>3, AgedQueue
    <2> QED
      BY <2>1, <2>4 DEF QueuesInv
  <1> QED
    BY <1>1, <1>2

LEMMA QueuesNext == ~SendCanFail /\ TypeOK /\ QueuesInv /\ [Next]_vars => QueuesInv'
  <1> SUFFICES ASSUME ~SendCanFail, TypeOK, QueuesInv, [Next]_vars PROVE QueuesInv'
    OBVIOUS
  <1>1. CASE Command
    <2>1. CASE \E t \in Subs, f \in Filters : \E pr \in PriosOf[t] : HandleSubscribe(t, f, pr)
      BY <2>1, QueuesIdle DEF HandleSubscribe, PhaseAfterCommand, callVars, timeVars
    <2>2. CASE \E t \in Closable : HandleClose(t)
      BY <2>2, QueuesIdle DEF HandleClose, PhaseAfterCommand, callVars
    <2>3. CASE \E p \in Pubs : HandlePublish(p)
      BY <2>3, QueuesPublish
    <2>4. CASE HandleReconnect
      <3>1. CASE RejectAll
        BY <3>1, QueuesRejected
      <3>2. CASE phase # "session" /\ UNCHANGED queue
        BY <3>2, QueuesIdle
      <3> QED
        BY <2>4, <3>1, <3>2 DEF HandleReconnect, callVars
    <2>5. CASE HandleShutdown
      BY <2>5, QueuesRejected DEF HandleShutdown
    <2> QED
      BY <1>1, <2>1, <2>2, <2>3, <2>4, <2>5 DEF Command
  <1>2. CASE HandleDisconnected
    BY <1>2, QueuesRejected DEF HandleDisconnected
  <1>3. CASE SessionEvent /\ ~HandleDisconnected
    BY <1>3, QueuesIdle DEF SessionEvent, HandleClosedLocally, HandleClosedByRelay,
       HandleNotice, HandleDelivery, HandleDone, callVars, timeVars
  <1>4. CASE Connection
    BY <1>4, QueuesIdle DEF Connection, DrainDone, StartConnect, ConnectOk, ConnectDenied,
       ConnectFailed, BackoffOver, callVars
  <1>5. CASE AdmissionTick
    BY <1>5, QueuesTick
  <1>6. CASE Task
    BY <1>6, QueuesIdle DEF Task, TaskWrite, TaskSessionLost, TaskTimeout, TaskAcknowledged,
       TaskReport, TaskRespond, TaskEnd, callVars, timeVars
  <1>7. CASE Elapse
    BY <1>7, QueuesElapse
  <1>8. CASE Environment /\ ~Elapse
    BY <1>8, QueuesIdle DEF Environment, RelayDecides, RelaySends, RelayCloses,
       RelayNotices, SocketDies, callVars, timeVars
  <1>9. CASE UNCHANGED vars
    BY <1>9, QueuesIdle DEF vars
  <1> QED
    BY <1>1, <1>2, <1>3, <1>4, <1>5, <1>6, <1>7, <1>8, <1>9 DEF Next

LengthInv == QueueLength <= MaxPending

LEMMA ThreeQueues ==
    /\ PubPriorities = {"interactive", "recovery", "maintenance"}
    /\ "interactive" \in PubPriorities
    /\ "recovery" \in PubPriorities
    /\ "maintenance" \in PubPriorities
  BY DEF PubPriorities

\* The sum by its parts, which is all the lemmas need of it.
LenOf(pr) == Len(queue[pr])

LEMMA LengthSum ==
    QueueLength = LenOf("interactive") + LenOf("recovery") + LenOf("maintenance")
  BY DEF QueueLength, LenOf

LEMMA LenOfType == TypeOK => \A a \in PubPriorities : LenOf(a) \in Nat
  BY DEF TypeOK, LenOf

LEMMA QueueLengthType == TypeOK => QueueLength \in Nat
  BY LengthSum, LenOfType, ThreeQueues

LEMMA LengthShrinks ==
    ASSUME TypeOK, TypeOK', LengthInv,
           \A a \in PubPriorities : Len(queue'[a]) <= Len(queue[a])
    PROVE  LengthInv'
  <1>1. \A a \in PubPriorities : LenOf(a) \in Nat /\ LenOf(a)' \in Nat /\ LenOf(a)' <= LenOf(a)
    BY DEF TypeOK, LenOf
  <1>2. QueueLength' = LenOf("interactive")' + LenOf("recovery")' + LenOf("maintenance")'
    BY DEF QueueLength, LenOf
  <1> DEFINE a == LenOf("interactive")   x == LenOf("interactive")'
             b == LenOf("recovery")      y == LenOf("recovery")'
             c == LenOf("maintenance")   z == LenOf("maintenance")'
  <1>a. /\ a \in Nat /\ b \in Nat /\ c \in Nat /\ x \in Nat /\ y \in Nat /\ z \in Nat
        /\ x <= a /\ y <= b /\ z <= c
    BY <1>1, ThreeQueues
  <1>b. QueueLength = a + b + c /\ QueueLength' = x + y + z
    BY <1>2, LengthSum
  <1> HIDE DEF a, b, c, x, y, z
  <1>3. QueueLength' <= QueueLength /\ QueueLength \in Nat /\ QueueLength' \in Nat
    BY <1>a, <1>b
  <1> QED
    BY <1>3, PubAssumption DEF LengthInv

LEMMA LengthSame == ASSUME LengthInv, UNCHANGED queue PROVE LengthInv'
  BY DEF LengthInv, QueueLength

LEMMA LengthRejected == ASSUME RejectAll PROVE LengthInv'
  BY PubAssumption DEF RejectAll, EmptyQueues, LengthInv, QueueLength, PubPriorities

LEMMA LengthPublish ==
    ASSUME TypeOK, LengthInv, NEW p \in Pubs, HandlePublish(p)
    PROVE  LengthInv'
  <1>1. CASE QueueLength < MaxPending
             /\ queue' = [queue EXCEPT ![PubPrio[p]] = Append(@, [pub |-> p, age |-> 0])]
    <2> DEFINE pr == PubPrio[p]
    <2>1. pr \in PubPriorities
      BY PubAssumption
    <2>2. \A a \in PubPriorities : queue[a] \in Seq(QueueItem) /\ Len(queue[a]) \in Nat
      BY DEF TypeOK
    <2>3. \A a \in PubPriorities :
             LenOf(a)' = IF a = pr THEN LenOf(a) + 1 ELSE LenOf(a)
      BY <1>1, <2>1, <2>2 DEF TypeOK, LenOf
    <2>4. QueueLength' = QueueLength + 1 /\ QueueLength \in Nat
      <3>1. QueueLength' = LenOf("interactive")' + LenOf("recovery")' + LenOf("maintenance")'
        BY DEF QueueLength, LenOf
      <3>2. pr = "interactive" \/ pr = "recovery" \/ pr = "maintenance"
        BY <2>1, ThreeQueues
      <3> HIDE DEF pr
      <3> QED
        BY <2>3, <3>1, <3>2, ThreeQueues, LengthSum, LenOfType
    <2> QED
      BY <1>1, <2>4, PubAssumption DEF LengthInv
  <1> QED
    BY <1>1, LengthSame DEF HandlePublish

LEMMA LengthTick ==
    ASSUME TypeOK, TypeOK', LengthInv, AdmissionTick
    PROVE  LengthInv'
  <1> PICK cut \in [PubPriorities -> 0..MaxPending] :
        /\ IsExpiredPrefix(cut)
        /\ LET q    == AfterExpiry(cut)
               lane == AdmissionLane(task # NoTask, q) IN
             \/ AdmitNothing(q)
             \/ lane \in {"interactive", "deferred"} /\ AdmitPublication(lane, q)
             \/ AdmitSubscription(q)
    BY DEF AdmissionTick
  <1> DEFINE q == AfterExpiry(cut)
             lane == AdmissionLane(task # NoTask, q)
  <1>1. \A a \in PubPriorities : Len(q[a]) <= Len(queue[a])
    <2> TAKE a \in PubPriorities
    <2>1. queue[a] \in Seq(QueueItem) /\ cut[a] \in 0..Len(queue[a])
      BY PubAssumption DEF TypeOK, IsExpiredPrefix
    <2>2. q[a] = SubSeq(queue[a], cut[a] + 1, Len(queue[a]))
      BY DEF AfterExpiry
    <2> QED
      BY <2>1, <2>2, CutPrefix
  <1>2. q \in [PubPriorities -> Seq(QueueItem)]
    BY AfterExpiryType
  <1> HIDE DEF q
  <1>3. CASE queue' = q
    BY <1>1, <1>3, LengthShrinks
  <1>4. CASE lane \in {"interactive", "deferred"} /\ AdmitPublication(lane, q)
    <2> DEFINE from == PoppedQueue(lane, q)
    <2>1. from \in PubPriorities
      BY DEF PoppedQueue, PubPriorities
    <2>2. q[from] # <<>>
      BY <1>4, <2>1 DEF lane, AdmissionLane, PoppedQueue, HasDeferred, PubPriorities
    <2>3. /\ queue'[from] = Tail(q[from])
          /\ \A a \in PubPriorities : a # from => queue'[a] = q[a]
      BY <1>2, <1>4, <2>1, <2>2 DEF AdmitPublication, Popped
    <2>4. \A a \in PubPriorities : Len(queue[a]) \in Nat /\ Len(q[a]) \in Nat
      BY <1>2 DEF TypeOK
    <2>5. Len(queue'[from]) <= Len(q[from])
      BY <1>2, <2>1, <2>2, <2>3
    <2>6. \A a \in PubPriorities : Len(queue'[a]) <= Len(queue[a])
      <3> TAKE a \in PubPriorities
      <3> HIDE DEF from, lane
      <3>1. Len(queue'[a]) <= Len(q[a])
        <4>1. CASE a = from
          BY <2>5, <4>1
        <4>2. CASE a # from
          <5>1. Len(queue'[a]) = Len(q[a])
            BY <2>3, <4>2
          <5> QED
            BY <2>4, <5>1
        <4> QED
          BY <4>1, <4>2
      <3>2. Len(queue'[a]) \in Nat
        BY DEF TypeOK
      <3> QED
        BY <1>1, <2>4, <3>1, <3>2
    <2> QED
      BY <2>6, LengthShrinks
  <1> QED
    BY <1>3, <1>4 DEF AdmitNothing, AdmitSubscription, q

LEMMA LengthNext == TypeOK /\ TypeOK' /\ LengthInv /\ [Next]_vars => LengthInv'
  <1> SUFFICES ASSUME TypeOK, TypeOK', LengthInv, [Next]_vars PROVE LengthInv'
    OBVIOUS
  <1>1. CASE Command
    <2>1. CASE \E p \in Pubs : HandlePublish(p)
      BY <2>1, LengthPublish
    <2> QED
      BY <1>1, <2>1, LengthSame, LengthRejected
         DEF Command, HandleSubscribe, HandleClose, HandleReconnect, HandleShutdown, callVars
  <1>2. CASE SessionEvent
    BY <1>2, LengthSame, LengthRejected DEF SessionEvent, HandleDisconnected,
       HandleClosedLocally, HandleClosedByRelay, HandleNotice, HandleDelivery, HandleDone, callVars
  <1>3. CASE Connection
    BY <1>3, LengthSame DEF Connection, DrainDone, StartConnect, ConnectOk, ConnectDenied,
       ConnectFailed, BackoffOver, callVars
  <1>4. CASE AdmissionTick
    BY <1>4, LengthTick
  <1>5. CASE Task
    BY <1>5, LengthSame DEF Task, TaskWrite, TaskSessionLost, TaskTimeout, TaskAcknowledged,
       TaskReport, TaskRespond, TaskEnd, callVars
  <1>6. CASE Elapse
    <2>1. \A a \in PubPriorities : Len(queue'[a]) = Len(queue[a]) /\ Len(queue[a]) \in Nat
      BY <1>6, QueueTyped, AgedType DEF Elapse
    <2> QED
      BY <2>1, LengthShrinks
  <1>7. CASE Environment /\ ~Elapse
    BY <1>7, LengthSame DEF Environment, RelayDecides, RelaySends, RelayCloses,
       RelayNotices, SocketDies, callVars
  <1>8. CASE UNCHANGED vars
    BY <1>8, LengthSame DEF vars
  <1> QED
    BY <1>1, <1>2, <1>3, <1>4, <1>5, <1>6, <1>7, <1>8 DEF Next

LEMMA QueuedInCount ==
    ASSUME NEW q \in Seq(QueueItem)
    PROVE  IsFiniteSet(QueuedIn(q)) /\ Cardinality(QueuedIn(q)) <= Len(q)
           /\ Cardinality(QueuedIn(q)) \in Nat
  <1> DEFINE f == [i \in 1..Len(q) |-> q[i].pub]
  <1>1. f \in Surjection(1..Len(q), QueuedIn(q))
    BY DEF Surjection, QueuedIn
  <1>2. Len(q) \in Nat
    OBVIOUS
  <1>3. IsFiniteSet(1..Len(q)) /\ Cardinality(1..Len(q)) = Len(q)
    BY <1>2, FS_Interval
  <1>4. IsFiniteSet(QueuedIn(q)) /\ Cardinality(QueuedIn(q)) <= Len(q)
    BY <1>1, <1>3, FS_Surjection
  <1> QED
    BY <1>4, FS_CardinalityType

\* Together the queues hold no more calls than they have places in use.
LEMMA QueuedCount == TypeOK => Cardinality(Queued) <= QueueLength
  <1> SUFFICES ASSUME TypeOK PROVE Cardinality(Queued) <= QueueLength
    OBVIOUS
  <1> DEFINE A == QueuedIn(queue["interactive"])
             B == QueuedIn(queue["recovery"])
             C == QueuedIn(queue["maintenance"])
  <1>1. \A a \in PubPriorities : queue[a] \in Seq(QueueItem) /\ Len(queue[a]) \in Nat
    BY DEF TypeOK
  <1>2. {"interactive", "recovery", "maintenance"} \subseteq PubPriorities
    BY DEF PubPriorities
  <1>3. /\ IsFiniteSet(A) /\ Cardinality(A) \in Nat
        /\ Cardinality(A) <= LenOf("interactive")
    BY <1>1, <1>2, QueuedInCount DEF LenOf
  <1>4. /\ IsFiniteSet(B) /\ Cardinality(B) \in Nat
        /\ Cardinality(B) <= LenOf("recovery")
    BY <1>1, <1>2, QueuedInCount DEF LenOf
  <1>5. /\ IsFiniteSet(C) /\ Cardinality(C) \in Nat
        /\ Cardinality(C) <= LenOf("maintenance")
    BY <1>1, <1>2, QueuedInCount DEF LenOf
  <1>6. Queued = (A \cup B) \cup C
    BY DEF Queued, PubPriorities
  <1> HIDE DEF A, B, C
  <1>7. /\ IsFiniteSet(A \cup B) /\ Cardinality(A \cup B) \in Nat
        /\ Cardinality(A \cup B) <= Cardinality(A) + Cardinality(B)
    <2>1. IsFiniteSet(A \cap B)
      BY <1>3, FS_Subset
    <2>2. Cardinality(A \cap B) \in Nat
      BY <2>1, FS_CardinalityType
    <2>3. IsFiniteSet(A \cup B)
      BY <1>3, <1>4, FS_Union
    <2>4. Cardinality(A \cup B) = Cardinality(A) + Cardinality(B) - Cardinality(A \cap B)
      BY <1>3, <1>4, FS_Union
    <2>5. Cardinality(A \cup B) \in Nat
      BY <2>3, FS_CardinalityType
    <2> QED
      BY <1>3, <1>4, <2>2, <2>3, <2>4, <2>5
  <1>8. Cardinality((A \cup B) \cup C) <= Cardinality(A \cup B) + Cardinality(C)
    <2>1. IsFiniteSet((A \cup B) \cap C)
      BY <1>5, FS_Subset
    <2>2. Cardinality((A \cup B) \cap C) \in Nat
      BY <2>1, FS_CardinalityType
    <2>3. Cardinality((A \cup B) \cup C) =
             Cardinality(A \cup B) + Cardinality(C) - Cardinality((A \cup B) \cap C)
      BY <1>5, <1>7, FS_Union
    <2> QED
      BY <1>5, <1>7, <2>2, <2>3
  <1>9. Cardinality((A \cup B) \cup C) \in Nat
    BY <1>5, <1>7, FS_Union, FS_CardinalityType
  <1>10. /\ LenOf("interactive") \in Nat /\ LenOf("recovery") \in Nat
         /\ LenOf("maintenance") \in Nat
    BY LenOfType, ThreeQueues
  <1> QED
    BY <1>3, <1>4, <1>5, <1>6, <1>7, <1>8, <1>9, <1>10, LengthSum

\* The queues never hold more than MAX_PENDING_PUBLICATIONS calls, whatever
\* becomes of the sessions.
THEOREM QueueBoundCorrect == Spec => []QueueBounded
  <1>1. Init => TypeOK /\ LengthInv
    BY TypeInit, PubAssumption DEF Init, EmptyQueues, LengthInv, QueueLength, PubPriorities
  <1>2. TypeOK /\ LengthInv /\ [Next]_vars => (TypeOK /\ LengthInv)'
    BY TypeNext, LengthNext
  <1>3. TypeOK /\ LengthInv => QueueBounded
    <2>1. TypeOK => QueueLength \in Nat
      BY QueueLengthType
    <2>2. TypeOK => IsFiniteSet(Queued)
      <3>1. TypeOK => \A a \in PubPriorities : IsFiniteSet(QueuedIn(queue[a]))
        BY QueuedInCount, QueueTyped
      <3>2. Queued = (QueuedIn(queue["interactive"]) \cup QueuedIn(queue["recovery"]))
                       \cup QueuedIn(queue["maintenance"])
        BY DEF Queued, PubPriorities
      <3> QED
        BY <3>1, <3>2, FS_Union DEF PubPriorities
    <2>3. TypeOK => Cardinality(Queued) \in Nat
      BY <2>2, FS_CardinalityType
    <2> QED
      BY <2>1, <2>3, QueuedCount, PubAssumption DEF LengthInv, QueueBounded
  <1> QED
    BY <1>1, <1>2, <1>3, PTL DEF Spec

\* While no REQ meets a dead socket, a queued call waits no longer than
\* PUBLICATION_QUEUE_TIMEOUT, never alongside more than MAX_PENDING_PUBLICATIONS,
\* and not past the end of its session.
THEOREM QueuesCorrect == ASSUME ~SendCanFail PROVE Spec => []QueuesSound
  <1>1. Init => TypeOK /\ QueuesInv
    BY TypeInit DEF Init, EmptyQueues, QueuesInv, InOrder, Younger
  <1>2. TypeOK /\ QueuesInv /\ [Next]_vars => (TypeOK /\ QueuesInv)'
    BY TypeNext, QueuesNext
  <1>3. TypeOK /\ QueuesInv => QueueWaitBounded /\ QueuesDieWithSession
    <2> SUFFICES ASSUME TypeOK, QueuesInv PROVE QueueWaitBounded /\ QueuesDieWithSession
      OBVIOUS
    <2>1. \A a \in PubPriorities : \A i \in 1..Len(queue[a]) : queue[a][i].age \in Nat
      BY QueueTyped, ItemAges
    <2>2. QueueWaitBounded
      BY <2>1, PubAssumption DEF QueuesInv, Younger, QueueWaitBounded
    <2>3. QueuesDieWithSession
      BY DEF QueuesInv, QueuesDieWithSession, Queued, QueuedIn
    <2> QED
      BY <2>2, <2>3
  <1> QED
    BY <1>1, <1>2, <1>3, QueueBoundCorrect, PTL DEF Spec, QueuesSound
-----------------------------------------------------------------------------
(* Subscriptions *)

LEMMA TailShift ==
    ASSUME NEW q \in Seq(Frames), q # <<>>
    PROVE  /\ 1 \in 1..Len(q) /\ q[1] = Head(q)
           /\ \A i \in 1..Len(q) : i # 1 =>
                i - 1 \in 1..Len(Tail(q)) /\ Tail(q)[i - 1] = q[i]
  OBVIOUS

LEMMA AppendKeeps ==
    ASSUME NEW q \in Seq(Frames), NEW f
    PROVE  /\ \A i \in 1..Len(q) : i \in 1..Len(Append(q, f)) /\ Append(q, f)[i] = q[i]
           /\ Len(q) + 1 \in 1..Len(Append(q, f)) /\ Append(q, f)[Len(q) + 1] = f
           /\ \A i \in 1..Len(q) : i < Len(q) + 1
  OBVIOUS

\* What was on its way still is when something is sent after it.
LEMMA AwaitedStays ==
    ASSUME TypeOK, NEW s, \E i \in 1..Len(net) : ClosesAt(i, s),
           net' = net \/ \E f : net' = Append(net, f)
    PROVE  (\E i \in 1..Len(net) : ClosesAt(i, s))'
  <1>1. PICK i \in 1..Len(net) : ClosesAt(i, s)
    OBVIOUS
  <1>2. net \in Seq(Frames)
    BY DEF TypeOK
  <1>3. CASE net' = net
    BY <1>1, <1>3 DEF ClosesAt
  <1>4. ASSUME NEW f, net' = Append(net, f) PROVE (\E k \in 1..Len(net) : ClosesAt(k, s))'
    <2>1. i \in 1..Len(net') /\ net'[i] = net[i]
      BY <1>2, <1>4, AppendKeeps
    <2> QED
      BY <1>1, <2>1 DEF ClosesAt
  <1> QED
    BY <1>3, <1>4

LEMMA ContradictionStays ==
    ASSUME TypeOK, NEW s, Contradicted(s), s \in locallyClosing' => s \in locallyClosing,
           net' = net \/ \E f : net' = Append(net, f)
    PROVE  Contradicted(s)'
  <1>1. PICK i \in 1..Len(net) :
           \/ net[i].kind = "notice"
           \/ /\ ClosesAt(i, s)
              /\ s \in locallyClosing => \E j \in 1..Len(net) : j < i /\ ClosesAt(j, s)
    BY DEF Contradicted
  <1>2. net \in Seq(Frames)
    BY DEF TypeOK
  <1>3. \A k \in 1..Len(net) : k \in 1..Len(net') /\ net'[k] = net[k]
    BY <1>2, AppendKeeps
  <1>4. i \in 1..Len(net') /\ net'[i] = net[i]
    BY <1>3
  <1>5. CASE net[i].kind = "notice"
    BY <1>4, <1>5 DEF Contradicted
  <1>6. CASE s \notin locallyClosing /\ ClosesAt(i, s)
    BY <1>4, <1>6 DEF Contradicted, ClosesAt
  <1>7. CASE ClosesAt(i, s) /\ \E j \in 1..Len(net) : j < i /\ ClosesAt(j, s)
    <2>1. PICK j \in 1..Len(net) : j < i /\ ClosesAt(j, s)
      BY <1>7
    <2>2. j \in 1..Len(net') /\ net'[j] = net[j]
      BY <1>3
    <2> QED
      BY <1>4, <1>7, <2>1, <2>2 DEF Contradicted, ClosesAt
  <1> QED
    BY <1>1, <1>5, <1>6, <1>7

\* A refusal that is sent after the acknowledgements awaited contradicts.
LEMMA RefusalSent ==
    ASSUME TypeOK, ClosesAwaited, NEW s, NEW f, net' = Append(net, f),
           locallyClosing' = locallyClosing,
           f.kind = "notice" \/ (f.kind = "closed" /\ f.sub = s)
    PROVE  Contradicted(s)'
  <1>1. net \in Seq(Frames)
    BY DEF TypeOK
  <1>2. PICK n \in 1..Len(net') :
           /\ net'[n] = f
           /\ \A k \in 1..Len(net) : k \in 1..Len(net') /\ net'[k] = net[k] /\ k < n
    BY <1>1, AppendKeeps
  <1>3. CASE f.kind = "notice"
    BY <1>2, <1>3 DEF Contradicted
  <1>4. CASE f.kind = "closed" /\ f.sub = s /\ s \notin locallyClosing
    BY <1>2, <1>4 DEF Contradicted, ClosesAt
  <1>5. CASE f.kind = "closed" /\ f.sub = s /\ s \in locallyClosing
    <2>1. PICK j \in 1..Len(net) : ClosesAt(j, s)
      BY <1>5 DEF ClosesAwaited
    <2>2. j \in 1..Len(net') /\ net'[j] = net[j] /\ j < n
      BY <1>2
    <2>3. ClosesAt(j, s)' /\ ClosesAt(n, s)'
      BY <1>2, <1>5, <2>1, <2>2 DEF ClosesAt
    <2> QED
      BY <1>2, <2>2, <2>3 DEF Contradicted
  <1> QED
    BY <1>3, <1>4, <1>5

\* Handling a frame that is neither a CLOSED of this subscription nor a NOTICE
\* loses nothing of what contradicts it.
LEMMA ContradictionShifts ==
    ASSUME TypeOK, NEW s, Contradicted(s), net # <<>>, net' = Tail(net),
           s \in locallyClosing' => s \in locallyClosing,
           Head(net).kind # "notice", ~ClosesAt(1, s)
    PROVE  Contradicted(s)'
  <1>1. PICK i \in 1..Len(net) :
           \/ net[i].kind = "notice"
           \/ /\ ClosesAt(i, s)
              /\ s \in locallyClosing => \E j \in 1..Len(net) : j < i /\ ClosesAt(j, s)
    BY DEF Contradicted
  <1>2. net \in Seq(Frames)
    BY DEF TypeOK
  <1>3. /\ net[1] = Head(net)
        /\ \A k \in 1..Len(net) : k # 1 => k - 1 \in 1..Len(net') /\ net'[k - 1] = net[k]
    BY <1>2, TailShift
  <1>4. i # 1
    BY <1>1, <1>3
  <1>5. i - 1 \in 1..Len(net') /\ net'[i - 1] = net[i]
    BY <1>3, <1>4
  <1>6. CASE net[i].kind = "notice"
    BY <1>5, <1>6 DEF Contradicted
  <1>7. CASE s \notin locallyClosing /\ ClosesAt(i, s)
    <2>1. ClosesAt(i - 1, s)'
      BY <1>5, <1>7 DEF ClosesAt
    <2> QED
      BY <1>5, <1>7, <2>1 DEF Contradicted
  <1>8. CASE ClosesAt(i, s) /\ \E j \in 1..Len(net) : j < i /\ ClosesAt(j, s)
    <2>1. PICK j \in 1..Len(net) : j < i /\ ClosesAt(j, s)
      BY <1>8
    <2>2. j # 1
      BY <2>1
    <2>3. j - 1 \in 1..Len(net') /\ net'[j - 1] = net[j] /\ j - 1 < i - 1
      BY <1>3, <2>1, <2>2
    <2>4. ClosesAt(i - 1, s)' /\ ClosesAt(j - 1, s)'
      BY <1>5, <1>8, <2>1, <2>3 DEF ClosesAt
    <2> QED
      BY <1>5, <2>3, <2>4 DEF Contradicted
  <1> QED
    BY <1>1, <1>6, <1>7, <1>8

LEMMA AwaitedShifts ==
    ASSUME TypeOK, NEW s, \E i \in 1..Len(net) : ClosesAt(i, s), net # <<>>,
           net' = Tail(net), ~ClosesAt(1, s)
    PROVE  (\E i \in 1..Len(net) : ClosesAt(i, s))'
  <1>1. PICK i \in 1..Len(net) : ClosesAt(i, s)
    OBVIOUS
  <1>2. net \in Seq(Frames)
    BY DEF TypeOK
  <1>3. i - 1 \in 1..Len(net') /\ net'[i - 1] = net[i]
    BY <1>1, <1>2, TailShift
  <1> QED
    BY <1>1, <1>3 DEF ClosesAt

\* Once its acknowledgement is taken, a refusal sent after it stands alone.
LEMMA ContradictionOutlivesAck ==
    ASSUME TypeOK, NEW s \in locallyClosing, Contradicted(s), net # <<>>, net' = Tail(net),
           ClosesAt(1, s), s \notin locallyClosing'
    PROVE  Contradicted(s)'
  <1>1. PICK i \in 1..Len(net) :
           \/ net[i].kind = "notice"
           \/ ClosesAt(i, s) /\ \E j \in 1..Len(net) : j < i
    BY DEF Contradicted
  <1>2. net \in Seq(Frames)
    BY DEF TypeOK
  <1>3. i # 1
    BY <1>1 DEF ClosesAt
  <1>4. i - 1 \in 1..Len(net') /\ net'[i - 1] = net[i]
    BY <1>2, <1>3, TailShift
  <1> QED
    BY <1>1, <1>4 DEF Contradicted, ClosesAt

\* What a step may do to a subscription that is settled after it: it was settled
\* before, on the same filter, and the relay's word has not changed.
SettledAsBefore(s) ==
    /\ phase = "session" /\ sock = "up" /\ Settled(s)
    /\ desired'[s].filter = desired[s].filter
    /\ relaySubs'[s] = relaySubs[s]

\* Steps that take no frame.
LEMMA RefusalKept ==
    ASSUME TypeOK, RefusalInv, locallyClosing' = locallyClosing,
           net' = net \/ \E f : net' = Append(net, f),
           phase' = "session" /\ sock' = "up" =>
             \A s \in Subs : Settled(s)' =>
               \/ SettledAsBefore(s)
               \/ relaySubs'[s] = desired'[s].filter
               \/ Contradicted(s)'
    PROVE  RefusalInv'
  <1>1. ClosesAwaited'
    BY AwaitedStays DEF RefusalInv, ClosesAwaited
  <1>2. ASSUME phase' = "session", sock' = "up", NEW s \in Subs, Settled(s)'
        PROVE  relaySubs'[s] = desired'[s].filter \/ Contradicted(s)'
    <2>1. CASE SettledAsBefore(s)
      <3>1. relaySubs[s] = desired[s].filter \/ Contradicted(s)
        BY <2>1 DEF SettledAsBefore, RefusalInv
      <3> QED
        BY <2>1, <3>1, ContradictionStays DEF SettledAsBefore
    <2> QED
      BY <1>2, <2>1
  <1> QED
    BY <1>1, <1>2 DEF RefusalInv

LEMMA RefusalIdle ==
    ASSUME TypeOK, RefusalInv, UNCHANGED <<desired, locallyClosing, relaySubs>>,
           net' = net \/ \E f : net' = Append(net, f),
           phase' = "session" => phase = "session",
           sock' = "up" => sock = "up"
    PROVE  RefusalInv'
  BY RefusalKept DEF Settled, IsDesired, SettledAsBefore

\* A session that is left leaves nothing to answer for.
LEMMA RefusalLeft ==
    ASSUME locallyClosing' = {}, phase' # "session" \/ sock' # "up"
    PROVE  RefusalInv'
  BY DEF RefusalInv, ClosesAwaited

LEMMA RefusalClose ==
    ASSUME CloseAck = "always", TypeOK, RefusalInv, NEW s \in Closable, HandleClose(s)
    PROVE  RefusalInv'
  <1>1. s \in Subs /\ net \in Seq(Frames) /\ relaySubs \in [Subs -> Filters \cup {NoFilter}]
    BY SubAssumption DEF TypeOK
  <1>2. /\ ~Settled(s)'
        /\ \A t \in Subs : t # s => desired'[t] = desired[t]
    BY <1>1 DEF TypeOK, HandleClose, Settled, IsDesired, Absent
  <1>3. CASE UNCHANGED <<locallyClosing, sock, net, relaySubs>> /\ phase' = PhaseAfterCommand
    <2>1. phase' = "session" => phase = "session"
      BY <1>3 DEF PhaseAfterCommand
    <2>2. \A t \in Subs : Settled(t)' /\ phase' = "session" /\ sock' = "up" => SettledAsBefore(t)
      BY <1>2, <1>3, <2>1 DEF Settled, IsDesired, SettledAsBefore
    <2> QED
      BY <1>3, <2>2, RefusalKept
  <1>4. CASE /\ phase = "session" /\ sock = "up"
             /\ locallyClosing' = locallyClosing \cup {s}
             /\ RelayTakesClose(s)
    <2>1. /\ net' = Append(net, Closed(s, "terminal", 0))
          /\ \A t \in Subs : t # s => relaySubs'[t] = relaySubs[t]
      BY <1>1, <1>4 DEF RelayTakesClose
    <2>2. ClosesAwaited'
      <3> SUFFICES ASSUME NEW t \in locallyClosing' PROVE (\E i \in 1..Len(net) : ClosesAt(i, t))'
        BY DEF ClosesAwaited
      <3>1. CASE t \in locallyClosing
        BY <2>1, <3>1, AwaitedStays DEF RefusalInv, ClosesAwaited
      <3>2. CASE t = s
        <4>1. PICK n \in 1..Len(net') : net'[n] = Closed(s, "terminal", 0)
          BY <1>1, <2>1, AppendKeeps
        <4> QED
          BY <3>2, <4>1 DEF ClosesAt, Closed
      <3> QED
        BY <1>4, <3>1, <3>2
    <2>3. ASSUME NEW t \in Subs, Settled(t)'
          PROVE  relaySubs'[t] = desired'[t].filter \/ Contradicted(t)'
      <3>1. t # s
        BY <1>2, <2>3
      <3>2. desired'[t] = desired[t] /\ relaySubs'[t] = relaySubs[t] /\ Settled(t)
        BY <1>2, <2>1, <2>3, <3>1 DEF Settled, IsDesired
      <3>3. relaySubs[t] = desired[t].filter \/ Contradicted(t)
        BY <1>4, <3>2 DEF RefusalInv
      <3>4. t \in locallyClosing' => t \in locallyClosing
        BY <1>4, <3>1
      <3> QED
        BY <2>1, <3>2, <3>3, <3>4, ContradictionStays
    <2> QED
      BY <2>2, <2>3 DEF RefusalInv
  <1>5. CASE LeaveSession("top")
    BY <1>5, RefusalLeft DEF LeaveSession
  <1> QED
    BY <1>3, <1>4, <1>5 DEF HandleClose

LEMMA RefusalSubscribe ==
    ASSUME TypeOK, RefusalInv, NEW s \in Subs, NEW f, NEW pr, HandleSubscribe(s, f, pr)
    PROVE  RefusalInv'
  <1>1. /\ ~Settled(s)'
        /\ \A t \in Subs : t # s => desired'[t] = desired[t]
    BY DEF TypeOK, HandleSubscribe, Settled, Remembered
  <1>2. /\ UNCHANGED <<locallyClosing, sock, net, relaySubs>>
        /\ phase' = "session" => phase = "session"
    BY DEF HandleSubscribe, PhaseAfterCommand, linkVars
  <1>3. \A t \in Subs : Settled(t)' /\ phase' = "session" /\ sock' = "up" => SettledAsBefore(t)
    BY <1>1, <1>2 DEF Settled, IsDesired, SettledAsBefore
  <1> QED
    BY <1>2, <1>3, RefusalKept

LEMMA RefusalCommand ==
    ASSUME CloseAck = "always", TypeOK, RefusalInv, Command
    PROVE  RefusalInv'
  <1>1. CASE \E t \in Subs, f \in Filters : \E pr \in PriosOf[t] : HandleSubscribe(t, f, pr)
    BY <1>1, RefusalSubscribe
  <1>2. CASE \E t \in Closable : HandleClose(t)
    BY <1>2, RefusalClose
  <1>3. CASE \E p \in Pubs : HandlePublish(p)
    BY <1>3, RefusalIdle DEF HandlePublish, PhaseAfterCommand, subVars, linkVars
  <1>4. CASE HandleReconnect
    <2>1. CASE LeaveSession("top")
      BY <2>1, RefusalLeft DEF LeaveSession
    <2>2. CASE phase' = "top" /\ UNCHANGED <<desired, locallyClosing, sock, net, relaySubs>>
      BY <2>2, RefusalIdle
    <2> QED
      BY <1>4, <2>1, <2>2 DEF HandleReconnect
  <1>5. CASE HandleShutdown
    BY <1>5, RefusalLeft DEF HandleShutdown, LeaveSession
  <1> QED
    BY <1>1, <1>2, <1>3, <1>4, <1>5 DEF Command

\* The frame at hand, whatever it is about, contradicts no other subscription.
LEMMA HeadElsewhere ==
    ASSUME TypeOK, net # <<>>, NEW s, Head(net).kind = "closed" => Head(net).sub # s
    PROVE  ~ClosesAt(1, s)
  <1>1. net[1] = Head(net)
    BY TailShift DEF TypeOK
  <1> QED
    BY <1>1 DEF ClosesAt

LEMMA RefusalClosedLocally ==
    ASSUME TypeOK, RefusalInv, HandleClosedLocally
    PROVE  RefusalInv'
  <1> DEFINE h == Head(net).sub
  <1>1. PICK s : s = h
    OBVIOUS
  <1>2. /\ net # <<>> /\ Head(net).kind = "closed" /\ net' = Tail(net)
        /\ s \in locallyClosing /\ locallyClosing' = locallyClosing \ {s}
        /\ UNCHANGED <<phase, desired, sock, relaySubs>>
    BY <1>1 DEF HandleClosedLocally, Incoming
  <1>3. ClosesAt(1, s) /\ \A t : t # s => ~ClosesAt(1, t)
    <2>1. net[1] = Head(net)
      BY <1>2, TailShift DEF TypeOK
    <2> QED
      BY <1>1, <1>2, <2>1 DEF ClosesAt
  <1>4. ClosesAwaited'
    BY <1>2, <1>3, AwaitedShifts DEF RefusalInv, ClosesAwaited
  <1>5. ASSUME phase' = "session", sock' = "up", NEW t \in Subs, Settled(t)'
        PROVE  relaySubs'[t] = desired'[t].filter \/ Contradicted(t)'
    <2>1. relaySubs[t] = desired[t].filter \/ Contradicted(t)
      BY <1>2, <1>5 DEF RefusalInv, Settled, IsDesired
    <2>2. CASE t = s
      BY <1>2, <1>3, <2>1, <2>2, ContradictionOutlivesAck
    <2>3. CASE t # s
      BY <1>2, <1>3, <2>1, <2>3, ContradictionShifts
    <2> QED
      BY <2>2, <2>3
  <1> QED
    BY <1>4, <1>5 DEF RefusalInv

\* Every other frame leaves what it is about unsettled, or contradicts nothing.
LEMMA RefusalHandled ==
    ASSUME TypeOK, RefusalInv, net # <<>>, net' = Tail(net),
           UNCHANGED <<phase, sock, locallyClosing, relaySubs>>,
           Head(net).kind = "closed" => Head(net).sub \notin locallyClosing,
           \A s \in Subs : Settled(s)' =>
             /\ Settled(s) /\ desired'[s].filter = desired[s].filter
             /\ Head(net).kind = "closed" => Head(net).sub # s
             /\ Head(net).kind # "notice"
    PROVE  RefusalInv'
  <1>1. ClosesAwaited'
    <2> SUFFICES ASSUME NEW s \in locallyClosing PROVE (\E i \in 1..Len(net) : ClosesAt(i, s))'
      BY DEF ClosesAwaited
    <2>1. ~ClosesAt(1, s)
      BY HeadElsewhere
    <2> QED
      BY <2>1, AwaitedShifts DEF RefusalInv, ClosesAwaited
  <1>2. ASSUME phase' = "session", sock' = "up", NEW s \in Subs, Settled(s)'
        PROVE  relaySubs'[s] = desired'[s].filter \/ Contradicted(s)'
    <2>1. Settled(s) /\ desired'[s].filter = desired[s].filter /\ Head(net).kind # "notice"
      BY <1>2
    <2>2. relaySubs[s] = desired[s].filter \/ Contradicted(s)
      BY <1>2, <2>1 DEF RefusalInv
    <2>3. ~ClosesAt(1, s)
      BY <1>2, HeadElsewhere
    <2> QED
      BY <2>1, <2>2, <2>3, ContradictionShifts
  <1> QED
    BY <1>1, <1>2 DEF RefusalInv

LEMMA RefusalSessionEvent ==
    ASSUME TypeOK, RefusalInv, SessionEvent
    PROVE  RefusalInv'
  <1>0. desired \in [Subs -> Entry] /\ \A s \in Subs : desired[s] \in Entry
    BY DEF TypeOK
  <1>1. CASE HandleDisconnected
    BY <1>1, RefusalLeft DEF HandleDisconnected, LeaveSession
  <1>2. CASE HandleClosedLocally
    BY <1>2, RefusalClosedLocally
  <1>3. CASE HandleClosedByRelay
    <2> DEFINE h == Head(net).sub
    <2>1. /\ h \in Subs
          /\ \/ desired' = [desired EXCEPT ![h] = RateLimitedEntry(h, gate')]
             \/ desired' = [desired EXCEPT ![h] = RetryableEntry(h)]
             \/ desired' = [desired EXCEPT ![h] = Absent]
      BY <1>3, ClosedOutcomes
    <2>2. PICK t \in Subs : t = h
      BY <2>1
    <2>3. ~Settled(t)' /\ \A s \in Subs : s # t => desired'[s] = desired[s]
      <3>1. /\ \A s \in Subs : s # t => desired'[s] = desired[s]
            /\ \/ desired'[t] = RateLimitedEntry(t, gate')
               \/ desired'[t] = RetryableEntry(t)
               \/ desired'[t] = Absent
        BY <1>0, <2>1, <2>2
      <3>2. desired'[t] = Absent \/ desired'[t].needsSend = TRUE
        BY <1>0, <3>1 DEF RateLimitedEntry, RetryableEntry, Entry
      <3>3. desired'[t].filter = NoFilter \/ desired'[t].needsSend = TRUE
        BY <3>2 DEF Absent
      <3> QED
        BY <3>1, <3>3 DEF Settled, IsDesired
    <2>4. /\ net # <<>> /\ net' = Tail(net) /\ Head(net).kind = "closed"
          /\ h \notin locallyClosing
          /\ UNCHANGED <<phase, sock, locallyClosing, relaySubs>>
      BY <1>3 DEF HandleClosedByRelay, Incoming
    <2>5. \A s \in Subs : Settled(s)' => Settled(s) /\ desired'[s] = desired[s] /\ s # t
      BY <2>3 DEF Settled, IsDesired
    <2> QED
      BY <2>2, <2>4, <2>5, RefusalHandled
  <1>4. CASE HandleNotice
    <2>1. \A s \in Subs : ~Settled(s)'
      BY <1>0, <1>4 DEF HandleNotice, Settled, IsDesired, Absent, Entry
    <2> QED
      BY <1>4, <2>1, RefusalHandled DEF HandleNotice, Incoming
  <1>5. CASE HandleDelivery
    <2>1. /\ net # <<>> /\ net' = Tail(net) /\ Head(net).kind \in {"eose", "event"}
          /\ UNCHANGED <<phase, sock, locallyClosing, relaySubs>>
      BY <1>5 DEF HandleDelivery, Incoming
    <2>2. PICK t : desired' = [desired EXCEPT ![t] =
                          IF IsDesired(t)
                          THEN [@ EXCEPT !.attempt = 0, !.retryIn = 0]
                          ELSE Absent]
      BY <1>5 DEF HandleDelivery
    <2>3. \A s \in Subs : Settled(s)' => Settled(s) /\ desired'[s].filter = desired[s].filter
      BY <1>0, <2>2 DEF Settled, IsDesired, Absent, Entry
    <2> QED
      BY <2>1, <2>3, RefusalHandled
  <1>6. CASE HandleDone
    BY <1>6, RefusalIdle DEF HandleDone, subVars, linkVars
  <1> QED
    BY <1>1, <1>2, <1>3, <1>4, <1>5, <1>6 DEF SessionEvent

LEMMA RefusalConnection ==
    ASSUME TypeOK, RefusalInv, Connection
    PROVE  RefusalInv'
  <1>1. CASE ConnectOk
    <2>1. locallyClosing' = {} /\ \A s \in Subs : ~Settled(s)'
      BY <1>1 DEF TypeOK, ConnectOk, Settled, IsDesired, Absent, Entry
    <2> QED
      BY <2>1 DEF RefusalInv, ClosesAwaited
  <1>2. CASE DrainDone \/ StartConnect \/ ConnectDenied \/ ConnectFailed \/ BackoffOver
    BY <1>2, RefusalIdle DEF DrainDone, StartConnect, ConnectDenied, ConnectFailed,
       BackoffOver, subVars, linkVars
  <1> QED
    BY <1>1, <1>2 DEF Connection

\* A REQ is served as asked, or what refuses it is on its way behind whatever
\* acknowledgement is awaited.
LEMMA RefusalReq ==
    ASSUME TypeOK, RefusalInv, NEW s \in Subs, SendReq(s), IsDesired(s),
           UNCHANGED <<phase, locallyClosing, sock>>, phase = "session"
    PROVE  RefusalInv'
  <1>0. ClosesAwaited /\ locallyClosing' = locallyClosing
    BY DEF RefusalInv
  <1>1. /\ desired \in [Subs -> Entry] /\ desired[s] \in Entry
        /\ relaySubs \in [Subs -> Filters \cup {NoFilter}]
        /\ net \in Seq(Frames)
    BY DEF TypeOK
  <1>2. /\ desired'[s].filter = desired[s].filter
        /\ \A t \in Subs : t # s => desired'[t] = desired[t]
    BY <1>1 DEF SendReq, Entry
  <1>3. /\ \A t \in Subs : t # s => relaySubs'[t] = relaySubs[t]
        /\ \E f : net' = Append(net, f)
        /\ relaySubs'[s] = desired[s].filter \/ Contradicted(s)'
    <2>1. CASE /\ relaySubs' = [relaySubs EXCEPT ![s] = desired[s].filter]
               /\ net' = Append(net, Told("eose", s))
      BY <1>1, <2>1
    <2>2. CASE \E class \in RelayClasses, hint \in Hints :
                 /\ relaySubs' = [relaySubs EXCEPT ![s] = NoFilter]
                 /\ net' = Append(net, Closed(s, class, hint))
      <3>1. PICK f : /\ f.kind = "closed" /\ f.sub = s
                     /\ relaySubs' = [relaySubs EXCEPT ![s] = NoFilter]
                     /\ net' = Append(net, f)
        BY <2>2 DEF Closed
      <3> QED
        BY <1>0, <1>1, <3>1, RefusalSent
    <2>3. CASE (\E hint \in Hints : net' = Append(net, Notice(hint))) /\ UNCHANGED relaySubs
      <3>1. PICK hint \in Hints : net' = Append(net, Notice(hint))
        BY <2>3
      <3>2. PICK n \in 1..Len(net') : net'[n] = Notice(hint)
        BY <1>1, <3>1, AppendKeeps
      <3>3. Contradicted(s)'
        BY <3>2 DEF Contradicted, Notice
      <3> QED
        BY <2>3, <3>1, <3>3
    <2> QED
      BY <2>1, <2>2, <2>3 DEF SendReq, RelayTakesReq
  <1>4. \A t \in Subs : t # s /\ Settled(t)' /\ sock' = "up" => SettledAsBefore(t)
    BY <1>2, <1>3 DEF Settled, IsDesired, SettledAsBefore
  <1> QED
    BY <1>2, <1>3, <1>4, RefusalKept

LEMMA RefusalTick ==
    ASSUME TypeOK, RefusalInv, AdmissionTick
    PROVE  RefusalInv'
  <1>1. PICK q, lane : AdmitNothing(q) \/ AdmitPublication(lane, q) \/ AdmitSubscription(q)
    BY DEF AdmissionTick
  <1>2. CASE AdmitNothing(q) \/ AdmitPublication(lane, q)
    BY <1>2, RefusalIdle DEF AdmitNothing, AdmitPublication, subVars
  <1>3. CASE AdmitSubscription(q)
    <2>1. PICK s \in NextSubscriptions :
             \/ /\ SendReq(s)
                /\ UNCHANGED <<phase, locallyClosing, sock>>
             \/ LeaveSession("top")
      BY <1>3 DEF AdmitSubscription
    <2>2. s \in Subs /\ IsDesired(s) /\ phase = "session"
      BY DEF NextSubscriptions, Due, AdmissionTick, InSession
    <2>3. CASE LeaveSession("top")
      BY <2>3, RefusalLeft DEF LeaveSession
    <2> QED
      BY <2>1, <2>2, <2>3, RefusalReq
  <1> QED
    BY <1>1, <1>2, <1>3

LEMMA RefusalCloses ==
    ASSUME TypeOK, RefusalInv, NEW s \in Subs, RelayCloses(s)
    PROVE  RefusalInv'
  <1>1. PICK f : f.kind = "closed" /\ f.sub = s /\ net' = Append(net, f)
    BY DEF RelayCloses, Closed
  <1>2. /\ \A t \in Subs : t # s => relaySubs'[t] = relaySubs[t]
        /\ UNCHANGED <<phase, desired, locallyClosing, sock>>
    BY DEF TypeOK, RelayCloses, subVars
  <1>3. Contradicted(s)'
    BY <1>1, <1>2, RefusalSent DEF RefusalInv
  <1>4. \A t \in Subs : t # s /\ Settled(t)' /\ phase' = "session" /\ sock' = "up"
                          => SettledAsBefore(t)
    BY <1>2 DEF Settled, IsDesired, SettledAsBefore
  <1> QED
    BY <1>1, <1>2, <1>3, <1>4, RefusalKept

LEMMA RefusalElapse == ASSUME TypeOK, RefusalInv, Elapse PROVE RefusalInv'
  <1>1. \A s \in Subs : /\ desired'[s].filter = desired[s].filter
                        /\ desired'[s].needsSend = desired[s].needsSend
    BY DEF TypeOK, Elapse, Entry
  <1>2. UNCHANGED <<phase, locallyClosing, net, sock, relaySubs>>
    BY DEF Elapse, linkVars
  <1>3. \A t \in Subs : Settled(t)' /\ phase' = "session" /\ sock' = "up" => SettledAsBefore(t)
    BY <1>1, <1>2 DEF Settled, IsDesired, SettledAsBefore
  <1> QED
    BY <1>2, <1>3, RefusalKept

LEMMA RefusalEnvironment == ASSUME TypeOK, RefusalInv, Environment PROVE RefusalInv'
  <1>1. CASE \E p \in Pubs : RelayDecides(p)
    BY <1>1, RefusalIdle DEF RelayDecides, subVars
  <1>2. CASE \E s \in Subs : RelaySends(s)
    BY <1>2, RefusalIdle DEF RelaySends, subVars
  <1>3. CASE \E s \in Subs : RelayCloses(s)
    BY <1>3, RefusalCloses
  <1>4. CASE RelayNotices
    BY <1>4, RefusalIdle DEF RelayNotices, subVars
  <1>5. CASE SocketDies
    BY <1>5, RefusalIdle DEF SocketDies, subVars
  <1>6. CASE Elapse
    BY <1>6, RefusalElapse
  <1> QED
    BY <1>1, <1>2, <1>3, <1>4, <1>5, <1>6 DEF Environment

LEMMA RefusalNext ==
    CloseAck = "always" /\ TypeOK /\ RefusalInv /\ [Next]_vars => RefusalInv'
  <1> SUFFICES ASSUME CloseAck = "always", TypeOK, RefusalInv, [Next]_vars PROVE RefusalInv'
    OBVIOUS
  <1>1. CASE Command
    BY <1>1, RefusalCommand
  <1>2. CASE SessionEvent
    BY <1>2, RefusalSessionEvent
  <1>3. CASE Connection
    BY <1>3, RefusalConnection
  <1>4. CASE AdmissionTick
    BY <1>4, RefusalTick
  <1>5. CASE Task
    BY <1>5, RefusalIdle DEF Task, TaskWrite, TaskSessionLost, TaskTimeout, TaskAcknowledged,
       TaskReport, TaskRespond, TaskEnd, subVars, linkVars
  <1>6. CASE Environment
    BY <1>6, RefusalEnvironment
  <1>7. CASE UNCHANGED vars
    BY <1>7, RefusalIdle DEF vars
  <1> QED
    BY <1>1, <1>2, <1>3, <1>4, <1>5, <1>6, <1>7 DEF Next

\* With a relay that acknowledges every CLOSE no desired subscription disappears:
\* it is served with its newest filter, waits to be sent, or is about to be told
\* otherwise.
THEOREM NoBlackHoleCorrect == ASSUME CloseAck = "always" PROVE Spec => []NoBlackHole
  <1>1. Init => TypeOK /\ RefusalInv
    BY TypeInit DEF Init, RefusalInv, ClosesAwaited
  <1>2. TypeOK /\ RefusalInv /\ [Next]_vars => (TypeOK /\ RefusalInv)'
    BY TypeNext, RefusalNext
  <1>3. RefusalInv => NoBlackHole
    BY DEF RefusalInv, NoBlackHole, Settled, Contradicted, ClosesAt, Refusal
  <1> QED
    BY <1>1, <1>2, <1>3, PTL DEF Spec
-----------------------------------------------------------------------------
(* One session: its channels *)

\* What Tail and Append do to the places of a channel.
Shifted(q, r) ==
    /\ Len(q) \in Nat /\ Len(r) \in Nat /\ Len(q) = Len(r) + 1
    /\ \A i \in 1..Len(r) : r[i] = q[i + 1]

Extended(q, r, x) ==
    /\ Len(q) \in Nat /\ Len(r) \in Nat /\ Len(r) = Len(q) + 1 /\ r[Len(r)] = x
    /\ \A i \in 1..Len(q) : r[i] = q[i]

LEMMA TailShifts ==
    ASSUME NEW S, NEW q \in Seq(S), q # <<>>
    PROVE  Tail(q) \in Seq(S) /\ Shifted(q, Tail(q)) /\ Head(q) = q[1] /\ q[1] \in S
  BY DEF Shifted

LEMMA AppendExtends ==
    ASSUME NEW S, NEW q \in Seq(S), NEW x \in S
    PROVE  Append(q, x) \in Seq(S) /\ Extended(q, Append(q, x), x)
  BY DEF Extended

SessionEvents == [kind : {"event", "notice", "authenticated", "disconnected"}]
SessionCommands ==
    [kind : {"subscribe", "close", "shutdown"}]
      \cup [kind : {"publish"}, call : Calls]
      \cup [kind : {"forget"}, event : {EventOf[c] : c \in Calls}]
SocketFrames ==
    [kind : {"event", "notice", "ping"}]
      \cup [kind : {"ok"}, event : {EventOf[c] : c \in Calls}]

TaskTyped ==
    /\ sessionAt \in {"opening", "challenge", "auth", "running", "blocked", "ending", "gone"}
    /\ sessionAt = "blocked" => held \in [kind : {"event", "notice"}]
    /\ pendingAcks \subseteq Calls
KeeperTyped ==
    /\ keeper.at \in {"connecting", "loop", "sending", "answer", "over"}
    /\ keeper.at = "sending" => keeper.command \in [kind : {"subscribe", "close", "shutdown"}]
    /\ replied \in {"none", "ok", "failed"}
RelayTyped ==
    /\ unanswered \subseteq {EventOf[c] : c \in Calls}
    /\ frames \in Seq(SocketFrames)
CallStates == {"idle", "sending", "admitting", "waiting", "acked", "limited",
               "refused", "offline", "uncertain"}
CallsTyped == calls \in [Calls -> CallStates]
SessionTyped ==
    /\ TaskTyped /\ KeeperTyped /\ RelayTyped /\ CallsTyped
    /\ commandQ \in Seq(SessionCommands) /\ eventQ \in Seq(SessionEvents)

\* Before the session runs there is nobody to use it.
HandshakeInv ==
    /\ keeper.at = "connecting" <=> sessionAt \in {"opening", "challenge", "auth"}
    /\ keeper.at = "connecting" => commandQ = <<>> /\ \A c \in Calls : calls[c] = "idle"

\* The REQ that is awaited is the only one among the commands.
RequestInv ==
    /\ \A i \in 1..Len(commandQ) : commandQ[i].kind = "subscribe" =>
          /\ keeper.at = "answer" /\ replied = "none"
          /\ \A j \in 1..Len(commandQ) : commandQ[j].kind = "subscribe" => i = j
    /\ replied # "none" => keeper.at = "answer"
    /\ replied = "failed" => sessionAt \in {"ending", "gone"}
    /\ keeper.at = "answer" /\ replied = "none" => sessionAt # "gone" /\ Waits("subscribe")

\* A session that was left is told so.
LeaveInv == keeper.at = "over" => sessionAt \in {"ending", "gone"} \/ Waits("shutdown")

\* The disconnection is the last event, and only of a session that is gone.
LastEventInv ==
    /\ \A i \in 1..Len(eventQ) : eventQ[i].kind = "disconnected" => sessionAt = "gone"
    /\ keeper.at # "over" /\ sessionAt = "gone" =>
          eventQ # <<>> /\ eventQ[Len(eventQ)].kind = "disconnected"

\* One call is under way, its command is the last of the calls' commands, and no
\* command of an earlier call is left when it waits for its OK.
OneCall == \A c, d \in Calls : UnderWay(c) /\ UnderWay(d) => c = d
OfCalls(i) == commandQ[i].kind \in {"publish", "forget"}
PublishInv ==
    \A i \in 1..Len(commandQ) : commandQ[i].kind = "publish" =>
       /\ calls[commandQ[i].call] = "admitting"
       /\ \A j \in 1..Len(commandQ) : OfCalls(j) => j <= i
AdmitInv ==
    \A c \in Calls : calls[c] = "admitting" =>
       /\ sessionAt # "gone"
       /\ \E i \in 1..Len(commandQ) : commandQ[i].kind = "publish" /\ commandQ[i].call = c
WaitInv ==
    \A c \in Calls : calls[c] = "waiting" =>
       /\ c \in pendingAcks
       /\ \A i \in 1..Len(commandQ) : ~OfCalls(i)
EndInv == sessionAt \in {"opening", "challenge", "auth", "ending", "gone"} => pendingAcks = {}

SessionInv ==
    /\ SessionTyped /\ HandshakeInv /\ RequestInv /\ LeaveInv /\ LastEventInv
    /\ OneCall /\ PublishInv /\ AdmitInv /\ WaitInv /\ EndInv

NotHandshake == sessionAt \notin {"opening", "challenge", "auth"}

\* What taking a command does to the channel.
LEMMA TakenCommand ==
    ASSUME SessionInv, NEW kind, Took(kind)
    PROVE  /\ Shifted(commandQ, commandQ') /\ commandQ' \in Seq(SessionCommands)
           /\ Len(commandQ) \in Nat /\ 1 \in 1..Len(commandQ)
           /\ Head(commandQ) = commandQ[1] /\ commandQ[1].kind = kind
           /\ commandQ[1] \in SessionCommands
           /\ sessionAt = "running" /\ keeper.at # "connecting"
           /\ UNCHANGED <<eventQ, frames, relayEnd, sentFrames, keeper, requests>>
  <1>1. commandQ \in Seq(SessionCommands) /\ commandQ # <<>>
    BY DEF SessionInv, SessionTyped, Took
  <1>2. commandQ' = Tail(commandQ) /\ Head(commandQ).kind = kind /\ sessionAt = "running"
    BY DEF Took
  <1>3. Tail(commandQ) \in Seq(SessionCommands) /\ Shifted(commandQ, Tail(commandQ))
        /\ Head(commandQ) = commandQ[1] /\ commandQ[1] \in SessionCommands
    BY <1>1, TailShifts
  <1>4. Len(commandQ) \in Nat /\ 1 \in 1..Len(commandQ)
    BY <1>1
  <1>5. keeper.at # "connecting"
    BY <1>2 DEF SessionInv, HandshakeInv
  <1> QED
    BY <1>1, <1>2, <1>3, <1>4, <1>5 DEF Took

\* The calls at the end of the task's loop.
LEMMA EndedCalls ==
    ASSUME NEW results \in [Calls -> CallStates],
           Ended(results)
    PROVE  /\ sessionAt' = "ending" /\ pendingAcks' = {} /\ CallsTyped' /\ TaskTyped'
           /\ \A c \in Calls : calls'[c] = IF c \in pendingAcks /\ results[c] = "waiting"
                                           THEN "uncertain" ELSE results[c]
  BY DEF Ended, CallsTyped, CallStates, TaskTyped

\* A call goes on to wait only if it did, and ends or is left where it is.
LEMMA ResumedCalls ==
    ASSUME SessionInv, NotHandshake, UNCHANGED <<sessionTask, calls>> \/ Ended(calls)
    PROVE  /\ TaskTyped' /\ CallsTyped' /\ EndInv' /\ OneCall'
           /\ sessionAt' \in {sessionAt, "ending"}
           /\ \A c \in Calls : calls[c] = "admitting" <=> calls'[c] = "admitting"
           /\ \A c \in Calls : calls'[c] = "waiting" => calls[c] = "waiting" /\ c \in pendingAcks'
  <1> USE DEF SessionInv, SessionTyped
  <1>1. CASE UNCHANGED <<sessionTask, calls>>
    BY <1>1 DEF sessionTask, TaskTyped, CallsTyped, CallStates, EndInv, OneCall, UnderWay, WaitInv
  <1>2. CASE Ended(calls)
    <2>1. /\ sessionAt' = "ending" /\ pendingAcks' = {} /\ CallsTyped' /\ TaskTyped'
          /\ \A c \in Calls : calls'[c] = IF c \in pendingAcks /\ calls[c] = "waiting"
                                          THEN "uncertain" ELSE calls[c]
      BY <1>2, EndedCalls DEF CallsTyped, CallStates
    <2>2. \A c \in Calls : UnderWay(c)' => UnderWay(c)
      BY <2>1 DEF UnderWay
    <2>3. OneCall'
      BY <2>2 DEF OneCall
    <2> QED
      BY <2>1, <2>3 DEF EndInv, WaitInv
  <1> QED
    BY <1>1, <1>2

\* The commands of the calls when the first command is taken that publishes nothing.
LEMMA CommandsShift ==
    ASSUME SessionInv, Shifted(commandQ, commandQ'), commandQ[1].kind # "publish",
           sessionAt' # "gone", 1 \in 1..Len(commandQ), commandQ \in Seq(SessionCommands),
           \A c \in Calls : calls[c] = "admitting" <=> calls'[c] = "admitting",
           \A c \in Calls : calls'[c] = "waiting" => calls[c] = "waiting" /\ c \in pendingAcks'
    PROVE  PublishInv' /\ AdmitInv' /\ WaitInv'
  <1> DEFINE q == commandQ
             r == commandQ'
  <1>1. \A i \in 1..Len(r) : i + 1 \in 1..Len(q) /\ r[i] = q[i + 1]
    BY DEF Shifted
  <1>2. \A i \in 1..Len(q) : i # 1 => i - 1 \in 1..Len(r) /\ r[i - 1] = q[i]
    BY DEF Shifted
  <1>3. \A i \in 1..Len(q) : q[i].kind = "publish" => q[i].call \in Calls
    BY DEF SessionCommands
  <1>4. PublishInv'
    <2> SUFFICES ASSUME NEW i \in 1..Len(r), r[i].kind = "publish"
                 PROVE  /\ calls'[r[i].call] = "admitting"
                        /\ \A j \in 1..Len(r) : r[j].kind \in {"publish", "forget"} => j <= i
      BY DEF PublishInv, OfCalls
    <2>1. i + 1 \in 1..Len(q) /\ q[i + 1].kind = "publish" /\ r[i] = q[i + 1]
      BY <1>1
    <2>2. calls[q[i + 1].call] = "admitting" /\ q[i + 1].call \in Calls
      BY <2>1, <1>3 DEF SessionInv, PublishInv
    <2>3. ASSUME NEW j \in 1..Len(r), r[j].kind \in {"publish", "forget"} PROVE j <= i
      <3>1. j + 1 \in 1..Len(q) /\ q[j + 1].kind \in {"publish", "forget"}
        BY <1>1, <2>3
      <3>2. j + 1 <= i + 1
        BY <3>1, <2>1 DEF SessionInv, PublishInv, OfCalls
      <3> QED
        BY <3>2 DEF Shifted
    <2> QED
      BY <2>1, <2>2, <2>3
  <1>5. AdmitInv'
    <2> SUFFICES ASSUME NEW c \in Calls, calls'[c] = "admitting"
                 PROVE  \E i \in 1..Len(r) : r[i].kind = "publish" /\ r[i].call = c
      BY DEF AdmitInv
    <2>1. PICK i \in 1..Len(q) : q[i].kind = "publish" /\ q[i].call = c
      BY DEF SessionInv, AdmitInv
    <2> QED
      BY <2>1, <1>2
  <1>6. WaitInv'
    <2> SUFFICES ASSUME NEW c \in Calls, calls'[c] = "waiting"
                 PROVE  \A i \in 1..Len(r) : r[i].kind \notin {"publish", "forget"}
      BY DEF WaitInv, OfCalls
    <2>1. \A i \in 1..Len(q) : q[i].kind \notin {"publish", "forget"}
      BY DEF SessionInv, WaitInv, OfCalls
    <2> QED
      BY <2>1, <1>1
  <1> QED
    BY <1>4, <1>5, <1>6

LEMMA TakeSubscribeKeeps == SessionInv /\ TakeSubscribe => SessionInv'
  <1> SUFFICES ASSUME SessionInv, TakeSubscribe PROVE SessionInv'
    OBVIOUS
  <1>1. Took("subscribe") /\ UNCHANGED unanswered
    BY DEF TakeSubscribe
  <1>2. /\ Shifted(commandQ, commandQ') /\ commandQ' \in Seq(SessionCommands)
        /\ 1 \in 1..Len(commandQ) /\ commandQ[1].kind = "subscribe"
        /\ sessionAt = "running" /\ keeper.at # "connecting"
        /\ UNCHANGED <<eventQ, frames, relayEnd, sentFrames, keeper, requests>>
    BY <1>1, TakenCommand
  <1>3. /\ TaskTyped' /\ CallsTyped' /\ EndInv' /\ OneCall'
        /\ sessionAt' \in {"running", "ending"}
        /\ \A c \in Calls : calls[c] = "admitting" <=> calls'[c] = "admitting"
        /\ \A c \in Calls : calls'[c] = "waiting" => calls[c] = "waiting" /\ c \in pendingAcks'
    BY <1>2, ResumedCalls DEF TakeSubscribe, NotHandshake
  <1>4. replied' = "ok" \/ (replied' = "failed" /\ sessionAt' = "ending")
    BY DEF TakeSubscribe, Ended
  <1>5. SessionTyped'
    BY <1>1, <1>2, <1>3, <1>4 DEF SessionInv, SessionTyped, KeeperTyped, RelayTyped
  <1>6. HandshakeInv'
    BY <1>2, <1>3 DEF SessionInv, HandshakeInv
  <1>7. RequestInv'
    BY <1>2, <1>3, <1>4 DEF SessionInv, RequestInv, Shifted
  <1>8. LeaveInv' /\ LastEventInv'
    BY <1>2, <1>3 DEF SessionInv, LeaveInv, LastEventInv, RequestInv
  <1>9. PublishInv' /\ AdmitInv' /\ WaitInv'
    BY <1>2, <1>3, CommandsShift DEF SessionInv, SessionTyped
  <1> QED
    BY <1>3, <1>5, <1>6, <1>7, <1>8, <1>9 DEF SessionInv

\* What is left alone when another command than a REQ is taken.
LEMMA OtherTaken ==
    ASSUME SessionInv, NEW kind \in {"close", "publish", "forget", "shutdown"}, Took(kind),
           UNCHANGED replied, unanswered' \subseteq {EventOf[c] : c \in Calls},
           TaskTyped', CallsTyped',
           sessionAt' \in {"running", "ending"}, kind = "shutdown" => sessionAt' = "ending"
    PROVE  SessionTyped' /\ HandshakeInv' /\ RequestInv' /\ LeaveInv' /\ LastEventInv'
  <1>1. /\ Shifted(commandQ, commandQ') /\ commandQ' \in Seq(SessionCommands)
        /\ 1 \in 1..Len(commandQ) /\ commandQ[1].kind = kind
        /\ sessionAt = "running" /\ keeper.at # "connecting"
        /\ UNCHANGED <<eventQ, frames, relayEnd, sentFrames, keeper, requests>>
    BY TakenCommand
  <1>2. SessionTyped'
    BY <1>1 DEF SessionInv, SessionTyped, KeeperTyped, RelayTyped
  <1>3. HandshakeInv'
    BY <1>1 DEF SessionInv, HandshakeInv
  <1>4. \A i \in 1..Len(commandQ') : i + 1 \in 1..Len(commandQ) /\ commandQ'[i] = commandQ[i + 1]
    BY <1>1 DEF Shifted
  <1>5. \A i \in 1..Len(commandQ) :
          i # 1 => i - 1 \in 1..Len(commandQ') /\ commandQ'[i - 1] = commandQ[i]
    BY <1>1 DEF Shifted
  <1>6. RequestInv'
    <2>1. ASSUME NEW i \in 1..Len(commandQ'), commandQ'[i].kind = "subscribe"
          PROVE  /\ keeper.at = "answer" /\ replied = "none"
                 /\ \A j \in 1..Len(commandQ') : commandQ'[j].kind = "subscribe" => i = j
      <3>1. i + 1 \in 1..Len(commandQ) /\ commandQ[i + 1].kind = "subscribe"
        BY <2>1, <1>4
      <3>2. ASSUME NEW j \in 1..Len(commandQ'), commandQ'[j].kind = "subscribe" PROVE i = j
        <4>1. j + 1 \in 1..Len(commandQ) /\ commandQ[j + 1].kind = "subscribe"
          BY <3>2, <1>4
        <4>2. i + 1 = j + 1
          BY <3>1, <4>1 DEF SessionInv, RequestInv
        <4> QED
          BY <4>2
      <3> QED
        BY <3>1, <3>2 DEF SessionInv, RequestInv
    <2>2. ASSUME keeper.at = "answer", replied = "none" PROVE Waits("subscribe")'
      <3>1. PICK i \in 1..Len(commandQ) : commandQ[i].kind = "subscribe"
        BY <2>2 DEF SessionInv, RequestInv, Waits
      <3>2. i - 1 \in 1..Len(commandQ') /\ commandQ'[i - 1].kind = "subscribe"
        BY <3>1, <1>1, <1>5
      <3> QED
        BY <3>2 DEF Waits
    <2> QED
      BY <2>1, <2>2, <1>1 DEF SessionInv, RequestInv
  <1>7. LeaveInv'
    <2> SUFFICES ASSUME keeper.at = "over", sessionAt' # "ending" PROVE Waits("shutdown")'
      BY <1>1 DEF LeaveInv
    <2>1. PICK i \in 1..Len(commandQ) : commandQ[i].kind = "shutdown"
      BY <1>1 DEF SessionInv, LeaveInv, Waits
    <2>2. i - 1 \in 1..Len(commandQ') /\ commandQ'[i - 1].kind = "shutdown"
      BY <2>1, <1>1, <1>5
    <2> QED
      BY <2>2 DEF Waits
  <1>8. LastEventInv'
    BY <1>1 DEF SessionInv, LastEventInv
  <1> QED
    BY <1>2, <1>3, <1>6, <1>7, <1>8

LEMMA TakeCloseKeeps == SessionInv /\ (TakeClose \/ TakeShutdown) => SessionInv'
  <1> SUFFICES ASSUME SessionInv, TakeClose \/ TakeShutdown PROVE SessionInv'
    OBVIOUS
  <1>1. PICK kind \in {"close", "shutdown"} :
          Took(kind) /\ (kind = "shutdown" => sessionAt' = "ending")
    BY DEF TakeClose, TakeShutdown, Ended
  <1>2. /\ Shifted(commandQ, commandQ') /\ 1 \in 1..Len(commandQ)
        /\ commandQ[1].kind = kind /\ sessionAt = "running"
    BY <1>1, TakenCommand
  <1>3. UNCHANGED <<replied, unanswered>>
    BY DEF TakeClose, TakeShutdown
  <1>4. /\ TaskTyped' /\ CallsTyped' /\ EndInv' /\ OneCall'
        /\ sessionAt' \in {"running", "ending"}
        /\ \A c \in Calls : calls[c] = "admitting" <=> calls'[c] = "admitting"
        /\ \A c \in Calls : calls'[c] = "waiting" => calls[c] = "waiting" /\ c \in pendingAcks'
    BY <1>2, ResumedCalls DEF TakeClose, TakeShutdown, NotHandshake
  <1>5. PublishInv' /\ AdmitInv' /\ WaitInv'
    BY <1>1, <1>2, <1>4, CommandsShift DEF SessionInv, SessionTyped
  <1>6. SessionTyped' /\ HandshakeInv' /\ RequestInv' /\ LeaveInv' /\ LastEventInv'
    BY <1>1, <1>3, <1>4, OtherTaken DEF SessionInv, SessionTyped, RelayTyped
  <1> QED
    BY <1>4, <1>5, <1>6 DEF SessionInv

\* An entry is forgotten when no call waits for an OK: the command left before the
\* next call was admitted.
LEMMA TakeForgetKeeps == SessionInv /\ TakeForget => SessionInv'
  <1> SUFFICES ASSUME SessionInv, TakeForget PROVE SessionInv'
    OBVIOUS
  <1>1. Took("forget") /\ UNCHANGED <<sessionAt, held, replied, unanswered, calls>>
        /\ pendingAcks' \subseteq pendingAcks
    BY DEF TakeForget
  <1>2. /\ Shifted(commandQ, commandQ') /\ 1 \in 1..Len(commandQ)
        /\ commandQ[1].kind = "forget" /\ sessionAt = "running"
    BY <1>1, TakenCommand
  <1>3. \A c \in Calls : calls[c] # "waiting"
    BY <1>2 DEF SessionInv, WaitInv, OfCalls
  <1>4. TaskTyped' /\ CallsTyped' /\ EndInv' /\ OneCall'
    BY <1>1, <1>2 DEF SessionInv, SessionTyped, TaskTyped, CallsTyped, CallStates, EndInv,
                      OneCall, UnderWay
  <1>5. PublishInv' /\ AdmitInv' /\ WaitInv'
    BY <1>1, <1>2, <1>3, CommandsShift DEF SessionInv, SessionTyped
  <1>6. SessionTyped' /\ HandshakeInv' /\ RequestInv' /\ LeaveInv' /\ LastEventInv'
    BY <1>1, <1>2, <1>4, OtherTaken DEF SessionInv, SessionTyped, RelayTyped
  <1> QED
    BY <1>4, <1>5, <1>6 DEF SessionInv

\* The command of a call that is taken is the last of the calls' commands.
LEMMA TakePublishKeeps == SessionInv /\ TakePublish => SessionInv'
  <1> SUFFICES ASSUME SessionInv, TakePublish PROVE SessionInv'
    OBVIOUS
  <1> DEFINE k == commandQ[1].call
  <1>1. Took("publish") /\ UNCHANGED replied
    BY DEF TakePublish
  <1>2. /\ Shifted(commandQ, commandQ') /\ 1 \in 1..Len(commandQ) /\ Len(commandQ) \in Nat
        /\ Head(commandQ) = commandQ[1] /\ commandQ[1] \in SessionCommands
        /\ commandQ[1].kind = "publish" /\ sessionAt = "running"
    BY <1>1, TakenCommand
  <1>3. k \in Calls
    BY <1>2 DEF SessionCommands
  <1>4. calls[k] = "admitting" /\ \A j \in 1..Len(commandQ) : OfCalls(j) => j <= 1
    BY <1>2 DEF SessionInv, PublishInv
  <1>5. \A j \in 1..Len(commandQ') : commandQ'[j].kind \notin {"publish", "forget"}
    <2> SUFFICES ASSUME NEW j \in 1..Len(commandQ'), commandQ'[j].kind \in {"publish", "forget"}
                 PROVE  FALSE
      OBVIOUS
    <2>1. j + 1 \in 1..Len(commandQ) /\ OfCalls(j + 1)
      BY <1>2 DEF Shifted, OfCalls
    <2> QED
      BY <2>1, <1>4
  <1>6. calls \in [Calls -> CallStates]
        /\ TaskTyped /\ pendingAcks \subseteq Calls
    BY DEF SessionInv, SessionTyped, CallsTyped, CallStates, TaskTyped
  <1>7. /\ TaskTyped' /\ CallsTyped' /\ sessionAt' \in {"running", "ending"}
        /\ sessionAt' = "ending" => pendingAcks' = {}
        /\ \A c \in Calls : calls'[c] = "waiting" => c \in pendingAcks'
        /\ \A c \in Calls : c # k => calls'[c] = calls[c] \/ calls'[c] = "uncertain"
        /\ calls'[k] # "admitting"
        /\ unanswered' \subseteq {EventOf[c] : c \in Calls}
    <2>1. CASE calls' = [calls EXCEPT ![k] = "refused"] /\ UNCHANGED <<sessionTask, unanswered>>
      BY <2>1, <1>2, <1>3, <1>6
         DEF sessionTask, TaskTyped, CallsTyped, CallStates, SessionInv, SessionTyped, WaitInv, RelayTyped
    <2>2. CASE /\ calls' = [calls EXCEPT ![k] = "waiting"]
               /\ pendingAcks' = pendingAcks \cup {k}
               /\ unanswered' = unanswered \cup {EventOf[k]} /\ UNCHANGED <<sessionAt, held>>
      BY <2>2, <1>2, <1>3, <1>6
         DEF TaskTyped, CallsTyped, CallStates, SessionInv, SessionTyped, WaitInv, RelayTyped
    <2>3. CASE Ended([calls EXCEPT ![k] = "offline"]) /\ UNCHANGED unanswered
      <3>1. [calls EXCEPT ![k] = "offline"] \in [Calls -> CallStates]
        BY <1>6 DEF CallStates
      <3>2. /\ sessionAt' = "ending" /\ pendingAcks' = {} /\ CallsTyped' /\ TaskTyped'
            /\ \A c \in Calls : calls'[c] =
                 IF c \in pendingAcks /\ [calls EXCEPT ![k] = "offline"][c] = "waiting"
                 THEN "uncertain" ELSE [calls EXCEPT ![k] = "offline"][c]
        BY <2>3, <3>1, EndedCalls
      <3>3. \A c \in Calls : calls[c] = "waiting" => c \in pendingAcks
        BY DEF SessionInv, WaitInv
      <3> QED
        BY <2>3, <3>2, <3>3, <1>3, <1>6 DEF SessionInv, SessionTyped, RelayTyped
    <2> QED
      BY <1>2, <2>1, <2>2, <2>3 DEF TakePublish
  <1>8. EndInv' /\ OneCall'
    <2>1. \A c \in Calls : UnderWay(c)' => UnderWay(c)
      BY <1>4, <1>7 DEF UnderWay
    <2> QED
      BY <2>1, <1>7 DEF EndInv, OneCall, SessionInv
  <1>9. PublishInv' /\ WaitInv'
    BY <1>5, <1>7 DEF PublishInv, WaitInv, OfCalls
  <1>10. AdmitInv'
    <2> SUFFICES ASSUME NEW c \in Calls, calls'[c] = "admitting" PROVE FALSE
      BY DEF AdmitInv
    <2>1. c # k /\ calls[c] = "admitting"
      BY <1>7
    <2> QED
      BY <2>1, <1>3, <1>4 DEF SessionInv, OneCall, UnderWay
  <1>11. SessionTyped' /\ HandshakeInv' /\ RequestInv' /\ LeaveInv' /\ LastEventInv'
    BY <1>1, <1>7, OtherTaken
  <1> QED
    BY <1>7, <1>8, <1>9, <1>10, <1>11 DEF SessionInv

\* What the task does without taking a command: the commands and the supervisor stay
\* as they are, an event may be passed on, and a call may end its wait.
CallsGoOn ==
    /\ \A c \in Calls : calls[c] = "admitting" <=> calls'[c] = "admitting"
    /\ \A c \in Calls : calls'[c] = "waiting" => calls[c] = "waiting" /\ c \in pendingAcks'
    /\ \A c \in Calls : UnderWay(c)' => UnderWay(c)
PassedOn(event) ==
    /\ event \in SessionEvents /\ event.kind # "disconnected"
    /\ eventQ' = eventQ \/ eventQ' = Append(eventQ, event)

LEMMA TaskWorks ==
    ASSUME SessionInv, UNCHANGED <<commandQ, keeperPart>>,
           sessionAt \in {"running", "blocked"}, sessionAt' \in {"running", "blocked", "ending"},
           TaskTyped', CallsTyped', RelayTyped', EndInv', CallsGoOn,
           UNCHANGED eventQ \/ \E event \in SessionEvents : PassedOn(event)
    PROVE  SessionInv'
  <1>1. keeper.at # "connecting" /\ UNCHANGED <<keeper, replied>>
    BY DEF SessionInv, HandshakeInv, keeperPart
  <1>2. eventQ' \in Seq(SessionEvents) /\ Len(eventQ') \in Nat
        /\ \A i \in 1..Len(eventQ') : eventQ'[i].kind # "disconnected"
    <2>1. /\ eventQ \in Seq(SessionEvents) /\ Len(eventQ) \in Nat
          /\ \A i \in 1..Len(eventQ) : eventQ[i].kind # "disconnected"
      BY DEF SessionInv, SessionTyped, LastEventInv
    <2>2. CASE UNCHANGED eventQ
      BY <2>1, <2>2
    <2>3. CASE \E event \in SessionEvents : eventQ' = Append(eventQ, event) /\ PassedOn(event)
      <3>1. PICK event \in SessionEvents : eventQ' = Append(eventQ, event) /\ PassedOn(event)
        BY <2>3
      <3>2. eventQ' \in Seq(SessionEvents) /\ Extended(eventQ, eventQ', event)
        BY <2>1, <3>1, AppendExtends
      <3> QED
        BY <2>1, <3>1, <3>2 DEF Extended, PassedOn
    <2> QED
      BY <2>2, <2>3 DEF PassedOn
  <1>3. SessionTyped'
    BY <1>1, <1>2 DEF SessionInv, SessionTyped, KeeperTyped
  <1>4. HandshakeInv' /\ RequestInv' /\ LeaveInv'
    BY <1>1 DEF SessionInv, HandshakeInv, RequestInv, LeaveInv, Waits
  <1>5. LastEventInv'
    BY <1>2 DEF LastEventInv
  <1>6. OneCall'
    BY DEF CallsGoOn, SessionInv, OneCall
  <1>7. PublishInv'
    <2>1. \A i \in 1..Len(commandQ) : commandQ[i].kind = "publish" => commandQ[i].call \in Calls
      BY DEF SessionInv, SessionTyped, SessionCommands
    <2> QED
      BY <2>1 DEF CallsGoOn, SessionInv, PublishInv, OfCalls
  <1>8. AdmitInv' /\ WaitInv'
    BY DEF CallsGoOn, SessionInv, AdmitInv, WaitInv, OfCalls
  <1> QED
    BY <1>3, <1>4, <1>5, <1>6, <1>7, <1>8 DEF SessionInv

LEMMA ReadFrame ==
    ASSUME SessionInv, NEW kind, Read(kind)
    PROVE  /\ sessionAt = "running" /\ keeper.at # "connecting" /\ RelayTyped'
           /\ UNCHANGED <<commandQ, keeperPart>>
           /\ frames # <<>> /\ frames \in Seq(SocketFrames) /\ frames' = Tail(frames)
           /\ Head(frames).kind = kind /\ Head(frames) \in SocketFrames
  <1>1. frames # <<>> /\ frames \in Seq(SocketFrames)
    BY DEF SessionInv, SessionTyped, RelayTyped, Read
  <1>2. Tail(frames) \in Seq(SocketFrames) /\ Head(frames) \in SocketFrames
    BY <1>1
  <1> QED
    BY <1>1, <1>2 DEF SessionInv, SessionTyped, RelayTyped, Read, HandshakeInv

LEMMA EndingCalls ==
    ASSUME SessionInv, Ended(calls)
    PROVE  CallsGoOn /\ TaskTyped' /\ CallsTyped' /\ EndInv' /\ sessionAt' = "ending"
  <1>1. /\ sessionAt' = "ending" /\ pendingAcks' = {} /\ CallsTyped' /\ TaskTyped'
        /\ \A c \in Calls : calls'[c] = IF c \in pendingAcks /\ calls[c] = "waiting"
                                        THEN "uncertain" ELSE calls[c]
    BY EndedCalls DEF SessionInv, SessionTyped, CallsTyped, CallStates
  <1>2. \A c \in Calls : calls[c] = "waiting" => c \in pendingAcks
    BY DEF SessionInv, WaitInv
  <1> QED
    BY <1>1, <1>2 DEF CallsGoOn, EndInv, UnderWay

\* What is passed on, and what becomes of the calls and of the task meanwhile.
LEMMA Forwards ==
    ASSUME SessionInv, sessionAt \in {"running", "blocked"},
           NEW event \in [kind : {"event", "notice"}], NEW results \in [Calls -> CallStates],
           Forward(event, results), pendingAcks' \subseteq pendingAcks,
           \A c \in Calls : \/ /\ results[c] = calls[c]
                               /\ c \in pendingAcks => c \in pendingAcks' \/ calls[c] # "waiting"
                            \/ calls[c] = "waiting" /\ results[c] \in {"acked", "limited"}
    PROVE  /\ CallsGoOn /\ TaskTyped' /\ CallsTyped' /\ EndInv'
           /\ sessionAt' \in {"running", "blocked"} /\ PassedOn(event) /\ event \in SessionEvents
  <1>1. calls' = results /\ sessionAt' \in {"running", "blocked"}
        /\ (sessionAt' = "blocked" => held' = event)
        /\ (eventQ' = eventQ \/ eventQ' = Append(eventQ, event))
    BY DEF Forward
  <1>2. event \in SessionEvents /\ event.kind # "disconnected"
    BY DEF SessionEvents
  <1>3. pendingAcks \subseteq Calls /\ \A c \in Calls : calls[c] = "waiting" => c \in pendingAcks
    BY DEF SessionInv, SessionTyped, TaskTyped, WaitInv
  <1> QED
    BY <1>1, <1>2, <1>3 DEF CallsGoOn, TaskTyped, CallsTyped, CallStates, EndInv, PassedOn, UnderWay

LEMMA ReadsKeep == SessionInv /\ (ReadEvent \/ ReadOk \/ ReadNotice \/ ReadPing) => SessionInv'
  <1> SUFFICES ASSUME SessionInv, ReadEvent \/ ReadOk \/ ReadNotice \/ ReadPing PROVE SessionInv'
    OBVIOUS
  <1>0. /\ calls \in [Calls -> CallStates] /\ TaskTyped
        /\ \A c \in Calls : calls[c] = "waiting" => c \in pendingAcks
    BY DEF SessionInv, SessionTyped, CallsTyped, CallStates, WaitInv
  <1>1. CASE ReadEvent
    <2>1. sessionAt = "running" /\ RelayTyped' /\ UNCHANGED <<commandQ, keeperPart>>
      BY <1>1, ReadFrame DEF ReadEvent
    <2>2. CASE Forward([kind |-> "event"], calls) /\ UNCHANGED pendingAcks
      BY <2>1, <2>2, <1>0, Forwards, TaskWorks
    <2>3. CASE Ended(calls) /\ UNCHANGED eventQ
      BY <2>1, <2>3, EndingCalls, TaskWorks
    <2> QED
      BY <1>1, <2>2, <2>3 DEF ReadEvent
  <1>2. CASE ReadOk
    <2> DEFINE A == Awaiting(Head(frames).event)
    <2>1. sessionAt = "running" /\ RelayTyped' /\ UNCHANGED <<commandQ, keeperPart>>
      BY <1>2, ReadFrame DEF ReadOk
    <2>2. pendingAcks' = pendingAcks \ A /\ calls' = Answered(A, "acked")
          /\ UNCHANGED <<sessionAt, held, eventQ>>
      BY <1>2 DEF ReadOk
    <2> HIDE DEF A
    <2>3. CallsGoOn /\ TaskTyped' /\ CallsTyped' /\ EndInv'
      BY <1>0, <2>1, <2>2
         DEF CallsGoOn, TaskTyped, CallsTyped, CallStates, EndInv, UnderWay, Answered
    <2> QED
      BY <2>1, <2>2, <2>3, TaskWorks
  <1>3. CASE ReadNotice
    <2> DEFINE A == IF Cardinality(pendingAcks) = 1 THEN pendingAcks ELSE {}
    <2>1. sessionAt = "running" /\ RelayTyped' /\ UNCHANGED <<commandQ, keeperPart>>
      BY <1>3, ReadFrame DEF ReadNotice
    <2>2. pendingAcks' = pendingAcks \ A /\ Forward([kind |-> "notice"], Answered(A, "limited"))
      BY <1>3 DEF ReadNotice
    <2> HIDE DEF A
    <2>3. /\ Answered(A, "limited") \in [Calls -> CallStates]
          /\ \A c \in Calls :
               \/ /\ Answered(A, "limited")[c] = calls[c]
                  /\ c \in pendingAcks => c \in pendingAcks' \/ calls[c] # "waiting"
               \/ calls[c] = "waiting" /\ Answered(A, "limited")[c] \in {"acked", "limited"}
      BY <1>0, <2>2 DEF Answered, CallStates
    <2> QED
      BY <2>1, <2>2, <2>3, <1>0, Forwards, TaskWorks
  <1>4. CASE ReadPing
    <2>1. sessionAt = "running" /\ RelayTyped' /\ UNCHANGED <<commandQ, keeperPart, eventQ>>
      BY <1>4, ReadFrame DEF ReadPing
    <2>2. CASE UNCHANGED <<sessionTask, calls>>
      <3>1. CallsGoOn /\ TaskTyped' /\ CallsTyped' /\ EndInv' /\ UNCHANGED sessionAt
        BY <2>1, <2>2, <1>0
           DEF sessionTask, CallsGoOn, TaskTyped, CallsTyped, CallStates, EndInv, UnderWay
      <3> QED
        BY <2>1, <3>1, TaskWorks
    <2>3. CASE Ended(calls)
      BY <2>1, <2>3, EndingCalls, TaskWorks
    <2> QED
      BY <1>4, <2>2, <2>3 DEF ReadPing
  <1> QED
    BY <1>1, <1>2, <1>3, <1>4

LEMMA UnblockKeeps == SessionInv /\ (Unblock \/ SocketEnds) => SessionInv'
  <1> SUFFICES ASSUME SessionInv, Unblock \/ SocketEnds PROVE SessionInv'
    OBVIOUS
  <1>0. /\ calls \in [Calls -> CallStates] /\ RelayTyped
        /\ sessionAt = "blocked" => held \in [kind : {"event", "notice"}]
    BY DEF SessionInv, SessionTyped, CallsTyped, CallStates, TaskTyped
  <1>1. /\ UNCHANGED <<commandQ, keeperPart>> /\ RelayTyped'
        /\ sessionAt \in {"running", "blocked"}
    BY <1>0 DEF Unblock, SocketEnds, relayPart, RelayTyped
  <1>2. CASE Ended(calls) /\ UNCHANGED eventQ
    BY <1>1, <1>2, EndingCalls, TaskWorks
  <1>3. CASE sessionAt = "blocked" /\ Forward(held, calls) /\ UNCHANGED pendingAcks
    <2> DEFINE event == held
    <2>1. event \in [kind : {"event", "notice"}] /\ Forward(event, calls)
      BY <1>0, <1>3
    <2> HIDE DEF event
    <2> QED
      BY <1>0, <1>1, <1>3, <2>1, Forwards, TaskWorks
  <1> QED
    BY <1>2, <1>3 DEF Unblock, SocketEnds

\* The last event, after which nobody finds the task.
LEMMA DisconnectsKeeps == SessionInv /\ Disconnects => SessionInv'
  <1> SUFFICES ASSUME SessionInv, Disconnects PROVE SessionInv'
    OBVIOUS
  <1> USE DEF SessionInv, SessionTyped
  <1>1. /\ sessionAt = "ending" /\ sessionAt' = "gone" /\ commandQ' = <<>>
        /\ UNCHANGED <<held, pendingAcks, unanswered, frames, keeper>>
        /\ replied' = IF keeper.at = "answer" /\ replied = "none" THEN "failed" ELSE replied
        /\ calls' = [c \in Calls |-> IF calls[c] = "admitting" THEN "offline" ELSE calls[c]]
    BY DEF Disconnects, relayPart
  <1>2. Len(commandQ') = 0 /\ commandQ' \in Seq(SessionCommands)
    BY <1>1
  <1>3. /\ pendingAcks = {} /\ keeper.at # "connecting"
        /\ \A c \in Calls : calls[c] # "waiting"
    BY <1>1 DEF EndInv, WaitInv, HandshakeInv
  <1>4. eventQ' \in Seq(SessionEvents)
        /\ (Heard => eventQ' # <<>> /\ eventQ'[Len(eventQ')].kind = "disconnected")
    <2>1. CASE Heard
      <3> DEFINE last == [kind |-> "disconnected"]
      <3>1. eventQ' = Append(eventQ, last)
        BY <2>1 DEF Disconnects
      <3>2. last \in SessionEvents
        BY DEF SessionEvents
      <3>3. last.kind = "disconnected"
        OBVIOUS
      <3> HIDE DEF last
      <3>4. eventQ' \in Seq(SessionEvents) /\ Extended(eventQ, eventQ', last)
        BY <3>1, <3>2, AppendExtends
      <3>5. eventQ'[Len(eventQ')] = last /\ Len(eventQ') # 0
        BY <3>4 DEF Extended
      <3> QED
        BY <3>3, <3>4, <3>5
    <2>2. CASE ~Heard
      BY <2>2 DEF Disconnects
    <2> QED
      BY <2>1, <2>2
  <1>5. SessionTyped'
    BY <1>1, <1>2, <1>4 DEF TaskTyped, KeeperTyped, RelayTyped, CallsTyped, CallStates
  <1>6. HandshakeInv' /\ RequestInv'
    BY <1>1, <1>2, <1>3 DEF HandshakeInv, RequestInv
  <1>7. LeaveInv' /\ LastEventInv'
    BY <1>1, <1>4 DEF LeaveInv, LastEventInv, Heard
  <1>8. CallsTyped /\ OneCall'
    BY <1>1 DEF OneCall, UnderWay, CallsTyped, CallStates
  <1>9. PublishInv' /\ AdmitInv' /\ WaitInv' /\ EndInv'
    BY <1>1, <1>2, <1>3, <1>8 DEF PublishInv, AdmitInv, WaitInv, EndInv, CallsTyped, CallStates
  <1> QED
    BY <1>5, <1>6, <1>7, <1>8, <1>9

LEMMA HandshakeKeeps ==
    SessionInv /\ (Opened \/ Challenged \/ Authenticated \/ HandshakeFails) => SessionInv'
  <1> SUFFICES ASSUME SessionInv, Opened \/ Challenged \/ Authenticated \/ HandshakeFails
               PROVE  SessionInv'
    OBVIOUS
  <1> USE DEF SessionInv, SessionTyped
  <1>1. /\ UNCHANGED <<held, pendingAcks, commandQ, unanswered, frames, replied, calls>>
        /\ keeper.at = "connecting" /\ sessionAt \in {"opening", "challenge", "auth"}
        /\ \/ sessionAt' \in {"challenge", "auth"} /\ UNCHANGED <<keeper, eventQ>>
           \/ sessionAt' = "running" /\ keeper' = At("loop") /\ eventQ' = <<[kind |-> "authenticated"]>>
           \/ sessionAt' = "gone" /\ keeper' = At("over") /\ eventQ' = <<>>
    BY DEF Opened, Challenged, Authenticated, HandshakeFails, Leave, relayPart, keeperPart, HandshakeInv
  <1>2. \/ keeper'.at = "connecting" /\ sessionAt' \in {"challenge", "auth"} /\ UNCHANGED <<keeper, eventQ>>
        \/ keeper'.at = "loop" /\ sessionAt' = "running" /\ eventQ' = <<[kind |-> "authenticated"]>>
        \/ keeper'.at = "over" /\ sessionAt' = "gone" /\ eventQ' = <<>>
    BY <1>1 DEF At
  <1>3. eventQ' \in Seq(SessionEvents)
        /\ \A i \in 1..Len(eventQ') : eventQ'[i].kind = "disconnected" => sessionAt' = "gone"
    <2>1. CASE UNCHANGED eventQ
      BY <1>1, <2>1 DEF LastEventInv
    <2>2. CASE eventQ' = <<[kind |-> "authenticated"]>>
      <3>1. [kind |-> "authenticated"] \in SessionEvents
        BY DEF SessionEvents
      <3> QED
        BY <2>2, <3>1
    <2>3. CASE eventQ' = <<>>
      BY <2>3
    <2> QED
      BY <1>2, <2>1, <2>2, <2>3
  <1>4. commandQ = <<>> /\ Len(commandQ') = 0 /\ \A c \in Calls : calls[c] = "idle"
    BY <1>1 DEF HandshakeInv
  <1>5. SessionTyped' /\ HandshakeInv'
    BY <1>1, <1>2, <1>3, <1>4 DEF TaskTyped, KeeperTyped, RelayTyped, CallsTyped, CallStates, HandshakeInv
  <1>6. RequestInv' /\ LeaveInv' /\ LastEventInv'
    BY <1>1, <1>2, <1>3, <1>4 DEF RequestInv, LeaveInv, LastEventInv
  <1>7. OneCall' /\ PublishInv' /\ AdmitInv' /\ WaitInv' /\ EndInv'
    BY <1>1, <1>2, <1>4 DEF OneCall, UnderWay, PublishInv, AdmitInv, WaitInv, EndInv
  <1> QED
    BY <1>5, <1>6, <1>7

LEMMA KeeperWorks ==
    ASSUME SessionInv, UNCHANGED <<sessionTask, relayPart, calls, commandQ>>
    PROVE  /\ TaskTyped' /\ RelayTyped' /\ CallsTyped' /\ OneCall' /\ PublishInv' /\ AdmitInv'
           /\ WaitInv' /\ EndInv' /\ commandQ' \in Seq(SessionCommands)
  BY DEF SessionInv, SessionTyped, sessionTask, relayPart, TaskTyped, RelayTyped, CallsTyped, CallStates,
         OneCall, UnderWay, PublishInv, OfCalls, AdmitInv, WaitInv, EndInv

LEMMA RequestKeeps ==
    SessionInv /\ (\E kind \in {"subscribe", "close", "shutdown"} : Request(kind)) => SessionInv'
  <1> SUFFICES ASSUME SessionInv, NEW kind \in {"subscribe", "close", "shutdown"}, Request(kind)
               PROVE  SessionInv'
    OBVIOUS
  <1> USE DEF SessionInv, SessionTyped
  <1>1. /\ keeper.at = "loop" /\ eventQ = <<>>
        /\ keeper' = [at |-> "sending", command |-> [kind |-> kind]]
        /\ UNCHANGED <<sessionTask, commandQ, eventQ, relayPart, replied, calls>>
    BY DEF Request
  <1>2. keeper'.at = "sending" /\ keeper'.command = [kind |-> kind] /\ UNCHANGED sessionAt
    BY <1>1 DEF sessionTask
  <1>3. SessionTyped'
    BY <1>1, <1>2, KeeperWorks DEF KeeperTyped
  <1>4. HandshakeInv' /\ RequestInv' /\ LeaveInv' /\ LastEventInv'
    BY <1>1, <1>2 DEF HandshakeInv, RequestInv, LeaveInv, LastEventInv
  <1> QED
    BY <1>1, <1>3, <1>4, KeeperWorks

LEMMA KeeperAnsweredKeeps == SessionInv /\ KeeperAnswered => SessionInv'
  <1> SUFFICES ASSUME SessionInv, KeeperAnswered PROVE SessionInv'
    OBVIOUS
  <1> USE DEF SessionInv, SessionTyped
  <1>1. /\ keeper.at = "answer" /\ replied # "none" /\ replied' = "none"
        /\ \/ replied = "ok" /\ keeper' = At("loop") /\ UNCHANGED eventQ
           \/ replied # "ok" /\ keeper' = At("over") /\ eventQ' = <<>>
        /\ UNCHANGED <<sessionTask, commandQ, relayPart, calls>>
    BY DEF KeeperAnswered, Leave
  <1>2. UNCHANGED sessionAt
    BY <1>1 DEF sessionTask
  <1>3. replied # "ok" => sessionAt \in {"ending", "gone"}
    BY <1>1 DEF RequestInv, KeeperTyped
  <1>4. \/ keeper'.at = "loop" /\ UNCHANGED eventQ
        \/ keeper'.at = "over" /\ eventQ' = <<>> /\ sessionAt \in {"ending", "gone"}
    <2>1. At("loop").at = "loop" /\ At("over").at = "over"
      BY DEF At
    <2>2. CASE replied = "ok"
      BY <1>1, <2>1, <2>2
    <2>3. CASE replied # "ok"
      BY <1>1, <1>3, <2>1, <2>3
    <2> QED
      BY <2>2, <2>3
  <1>5. SessionTyped'
    <2>1. KeeperTyped'
      BY <1>1, <1>4 DEF KeeperTyped
    <2>2. eventQ' \in Seq(SessionEvents)
      <3>1. eventQ \in Seq(SessionEvents) /\ <<>> \in Seq(SessionEvents)
        OBVIOUS
      <3>2. eventQ' = eventQ \/ eventQ' = <<>>
        BY <1>4
      <3> QED
        BY <3>1, <3>2
    <2> QED
      BY <1>1, <2>1, <2>2, KeeperWorks
  <1>6. HandshakeInv' /\ RequestInv' /\ LeaveInv'
    BY <1>1, <1>2, <1>4 DEF HandshakeInv, RequestInv, LeaveInv
  <1>7. LastEventInv'
    BY <1>1, <1>2, <1>4 DEF LastEventInv
  <1> QED
    BY <1>1, <1>5, <1>6, <1>7, KeeperWorks

LEMMA KeeperReceivesKeeps == SessionInv /\ KeeperReceives => SessionInv'
  <1> SUFFICES ASSUME SessionInv, KeeperReceives PROVE SessionInv'
    OBVIOUS
  <1> USE DEF SessionInv, SessionTyped
  <1>1. /\ keeper.at = "loop" /\ eventQ # <<>>
        /\ UNCHANGED <<sessionTask, commandQ, relayPart, replied, calls>>
    BY DEF KeeperReceives
  <1>2. /\ Tail(eventQ) \in Seq(SessionEvents) /\ Shifted(eventQ, Tail(eventQ))
        /\ Head(eventQ) = eventQ[1] /\ Len(eventQ) \in Nat /\ Len(eventQ) # 0
    BY <1>1, TailShifts
  <1>3. UNCHANGED sessionAt
    BY <1>1 DEF sessionTask
  <1>4. CASE eventQ[1].kind = "disconnected"
    <2>1. keeper'.at = "over" /\ eventQ' = <<>> /\ sessionAt = "gone"
      BY <1>2, <1>4 DEF KeeperReceives, Leave, At, LastEventInv
    <2>2. SessionTyped'
      BY <1>1, <2>1, KeeperWorks DEF KeeperTyped
    <2>3. HandshakeInv' /\ RequestInv' /\ LeaveInv' /\ LastEventInv'
      BY <1>1, <1>3, <2>1 DEF HandshakeInv, RequestInv, LeaveInv, LastEventInv
    <2> QED
      BY <1>1, <2>2, <2>3, KeeperWorks
  <1>5. CASE eventQ[1].kind # "disconnected"
    <2>1. eventQ' = Tail(eventQ) /\ UNCHANGED keeper
      BY <1>2, <1>5 DEF KeeperReceives
    <2>2. Shifted(eventQ, eventQ') /\ eventQ' \in Seq(SessionEvents)
      BY <1>2, <2>1
    <2>3. SessionTyped'
      BY <1>1, <2>1, <2>2, KeeperWorks DEF KeeperTyped
    <2>4. HandshakeInv' /\ RequestInv' /\ LeaveInv'
      BY <1>1, <1>3, <2>1 DEF HandshakeInv, RequestInv, LeaveInv
    <2>5. \A i \in 1..Len(eventQ') : eventQ'[i].kind = "disconnected" => sessionAt' = "gone"
      <3> SUFFICES ASSUME NEW i \in 1..Len(eventQ'), eventQ'[i].kind = "disconnected"
                   PROVE  sessionAt = "gone"
        BY <1>3
      <3>1. i + 1 \in 1..Len(eventQ) /\ eventQ[i + 1].kind = "disconnected"
        BY <2>2 DEF Shifted
      <3> QED
        BY <3>1 DEF LastEventInv
    <2>6. ASSUME sessionAt = "gone"
          PROVE  eventQ' # <<>> /\ eventQ'[Len(eventQ')].kind = "disconnected"
      <3>1. eventQ[Len(eventQ)].kind = "disconnected"
        BY <1>1, <2>6 DEF LastEventInv
      <3>2. Len(eventQ) # 1
        BY <1>5, <3>1
      <3>3. Len(eventQ') \in Nat /\ Len(eventQ') # 0 /\ Len(eventQ') + 1 = Len(eventQ)
        <4>1. Len(eventQ') \in Nat /\ Len(eventQ) = Len(eventQ') + 1
          BY <2>2 DEF Shifted
        <4> QED
          BY <3>2, <4>1
      <3>4. eventQ'[Len(eventQ')] = eventQ[Len(eventQ)]
        BY <2>2, <3>3 DEF Shifted
      <3> QED
        BY <3>1, <3>3, <3>4
    <2>7. LastEventInv'
      BY <1>3, <2>5, <2>6 DEF LastEventInv
    <2> QED
      BY <1>1, <2>3, <2>4, <2>7, KeeperWorks
  <1> QED
    BY <1>4, <1>5

\* A command of the supervisor is sent: the calls' commands stay where they are.
LEMMA CommandJoins ==
    ASSUME SessionInv, UNCHANGED <<sessionTask, relayPart, calls>>,
           NEW x \in SessionCommands, x.kind \notin {"publish", "forget"},
           commandQ' = Append(commandQ, x)
    PROVE  /\ TaskTyped' /\ RelayTyped' /\ CallsTyped' /\ OneCall' /\ PublishInv' /\ AdmitInv'
           /\ WaitInv' /\ EndInv' /\ commandQ' \in Seq(SessionCommands)
           /\ Extended(commandQ, commandQ', x)
  <1> USE DEF SessionInv, SessionTyped
  <1>1. commandQ' \in Seq(SessionCommands) /\ Extended(commandQ, commandQ', x)
    BY AppendExtends
  <1>2. TaskTyped' /\ RelayTyped' /\ CallsTyped' /\ OneCall' /\ EndInv' /\ UNCHANGED <<sessionAt, pendingAcks>>
    BY DEF sessionTask, relayPart, TaskTyped, RelayTyped, CallsTyped, CallStates, OneCall, UnderWay, EndInv
  <1>3. \A i \in 1..Len(commandQ') : commandQ'[i].kind \in {"publish", "forget"} =>
          i \in 1..Len(commandQ) /\ commandQ'[i] = commandQ[i]
    BY <1>1 DEF Extended
  <1>4. \A i \in 1..Len(commandQ) : i \in 1..Len(commandQ') /\ commandQ'[i] = commandQ[i]
    BY <1>1 DEF Extended
  <1>5. PublishInv'
    <2> SUFFICES ASSUME NEW i \in 1..Len(commandQ'), commandQ'[i].kind = "publish"
                 PROVE  /\ calls[commandQ'[i].call] = "admitting"
                        /\ \A j \in 1..Len(commandQ') :
                             commandQ'[j].kind \in {"publish", "forget"} => j <= i
      BY DEF PublishInv, OfCalls
    <2>1. i \in 1..Len(commandQ) /\ commandQ'[i] = commandQ[i]
      BY <1>3
    <2> QED
      BY <2>1, <1>3 DEF PublishInv, OfCalls
  <1>6. AdmitInv'
    BY <1>2, <1>4 DEF AdmitInv
  <1>7. WaitInv'
    BY <1>2, <1>3 DEF WaitInv, OfCalls
  <1> QED
    BY <1>1, <1>2, <1>5, <1>6, <1>7

LEMMA KeeperSendsKeeps == SessionInv /\ KeeperSends => SessionInv'
  <1> SUFFICES ASSUME SessionInv, KeeperSends PROVE SessionInv'
    OBVIOUS
  <1> USE DEF SessionInv, SessionTyped
  <1> DEFINE x == keeper.command
  <1>1. /\ keeper.at = "sending" /\ x \in [kind : {"subscribe", "close", "shutdown"}]
        /\ x.kind \in {"subscribe", "close", "shutdown"}
        /\ UNCHANGED <<sessionTask, relayPart, replied, calls>> /\ replied = "none"
    BY DEF KeeperSends, KeeperTyped, RequestInv
  <1>2. UNCHANGED sessionAt /\ keeper.at # "connecting" /\ NotHandshake
    BY <1>1 DEF sessionTask, HandshakeInv, NotHandshake
  <1>3. At("over").at = "over" /\ At("answer").at = "answer" /\ At("loop").at = "loop"
    BY DEF At
  <1>4. eventQ \in Seq(SessionEvents) /\ <<>> \in Seq(SessionEvents)
    OBVIOUS
  <1>5. CASE sessionAt = "gone" /\ Leave /\ UNCHANGED commandQ
    <2>1. keeper'.at = "over" /\ eventQ' = <<>>
      BY <1>5, <1>3 DEF Leave
    <2>2. KeeperTyped'
      BY <1>1, <2>1 DEF KeeperTyped
    <2>3. HandshakeInv' /\ RequestInv'
      BY <1>1, <1>2, <1>5, <2>1 DEF HandshakeInv, RequestInv, NotHandshake
    <2>4. LeaveInv' /\ LastEventInv'
      BY <1>2, <1>5, <2>1 DEF LeaveInv, LastEventInv
    <2>5. eventQ' \in Seq(SessionEvents)
      BY <2>1, <1>4
    <2> QED
      BY <1>1, <1>5, <2>2, <2>3, <2>4, <2>5, KeeperWorks
  <1>6. CASE sessionAt # "gone" /\ commandQ' = Append(commandQ, x)
    <2>1. x \in SessionCommands /\ x.kind \notin {"publish", "forget"}
      BY <1>1 DEF SessionCommands
    <2> HIDE DEF x
    <2>2. /\ TaskTyped' /\ RelayTyped' /\ CallsTyped' /\ OneCall' /\ PublishInv' /\ AdmitInv'
          /\ WaitInv' /\ EndInv' /\ commandQ' \in Seq(SessionCommands)
          /\ Extended(commandQ, commandQ', x)
      BY <1>1, <1>6, <2>1, CommandJoins
    <2>3. \A i \in 1..Len(commandQ) : commandQ[i].kind # "subscribe"
      BY <1>1 DEF RequestInv
    <2>4. \A i \in 1..Len(commandQ') :
            \/ i \in 1..Len(commandQ) /\ commandQ'[i] = commandQ[i]
            \/ i = Len(commandQ') /\ commandQ'[i] = x
      BY <2>2 DEF Extended
    <2>5. Len(commandQ') \in 1..Len(commandQ') /\ commandQ'[Len(commandQ')] = x
      BY <2>2 DEF Extended
    <2>6. CASE x.kind = "subscribe"
      <3>1. keeper'.at = "answer" /\ UNCHANGED eventQ
        BY <1>2, <1>3, <1>6, <2>6 DEF KeeperSends, x
      <3>2. KeeperTyped'
        BY <1>1, <3>1 DEF KeeperTyped
      <3>3. Waits("subscribe")'
        BY <2>5, <2>6 DEF Waits
      <3>4. RequestInv'
        BY <1>1, <1>2, <1>6, <2>3, <2>4, <3>1, <3>3 DEF RequestInv
      <3>5. HandshakeInv' /\ LeaveInv' /\ LastEventInv'
        BY <1>2, <1>6, <3>1 DEF HandshakeInv, LeaveInv, LastEventInv, NotHandshake
      <3>6. eventQ' \in Seq(SessionEvents)
        BY <3>1, <1>4
      <3> QED
        BY <2>2, <3>2, <3>4, <3>5, <3>6
    <2>7. CASE x.kind = "close"
      <3>1. keeper'.at = "loop" /\ UNCHANGED eventQ
        BY <1>2, <1>3, <1>6, <2>7 DEF KeeperSends, x
      <3>2. KeeperTyped'
        BY <1>1, <3>1 DEF KeeperTyped
      <3>4. RequestInv'
        BY <1>1, <2>3, <2>4, <2>7, <3>1 DEF RequestInv
      <3>5. HandshakeInv' /\ LeaveInv' /\ LastEventInv'
        BY <1>2, <1>6, <3>1 DEF HandshakeInv, LeaveInv, LastEventInv, NotHandshake
      <3>6. eventQ' \in Seq(SessionEvents)
        BY <3>1, <1>4
      <3> QED
        BY <2>2, <3>2, <3>4, <3>5, <3>6
    <2>8. CASE x.kind = "shutdown"
      <3>1. keeper'.at = "over" /\ eventQ' = <<>>
        BY <1>2, <1>3, <1>6, <2>8 DEF KeeperSends, Leave, x
      <3>2. KeeperTyped'
        BY <1>1, <3>1 DEF KeeperTyped
      <3>3. Waits("shutdown")'
        BY <2>5, <2>8 DEF Waits
      <3>4. RequestInv'
        BY <1>1, <2>3, <2>4, <2>8, <3>1 DEF RequestInv
      <3>5. HandshakeInv' /\ LeaveInv' /\ LastEventInv'
        BY <1>2, <1>6, <3>1, <3>3 DEF HandshakeInv, LeaveInv, LastEventInv, NotHandshake
      <3>6. eventQ' \in Seq(SessionEvents)
        BY <3>1, <1>4
      <3> QED
        BY <2>2, <3>2, <3>4, <3>5, <3>6
    <2> QED
      BY <1>1, <2>6, <2>7, <2>8 DEF x
  <1> QED
    BY <1>5, <1>6 DEF KeeperSends

\* A call's step leaves the rest of the session as it is.
LEMMA CallWorks ==
    ASSUME SessionInv, UNCHANGED <<sessionTask, eventQ, relayPart, keeperPart>>
    PROVE  TaskTyped' /\ RelayTyped' /\ KeeperTyped' /\ EndInv' /\ LastEventInv'
           /\ eventQ' \in Seq(SessionEvents) /\ UNCHANGED <<sessionAt, pendingAcks, keeper, replied>>
  BY DEF SessionInv, SessionTyped, sessionTask, relayPart, keeperPart, TaskTyped, RelayTyped,
         KeeperTyped, EndInv, LastEventInv

LEMMA CallCommandJoins ==
    ASSUME SessionInv, UNCHANGED <<sessionTask, eventQ, relayPart, keeperPart>>,
           NEW x \in SessionCommands, x.kind \in {"publish", "forget"},
           commandQ' = Append(commandQ, x), keeper.at # "connecting"
    PROVE  /\ HandshakeInv' /\ RequestInv' /\ LeaveInv' /\ commandQ' \in Seq(SessionCommands)
           /\ Extended(commandQ, commandQ', x)
  <1> USE DEF SessionInv, SessionTyped
  <1>1. commandQ' \in Seq(SessionCommands) /\ Extended(commandQ, commandQ', x)
    BY AppendExtends
  <1>2. UNCHANGED <<sessionAt, keeper, replied>>
    BY CallWorks
  <1>3. \A i \in 1..Len(commandQ') : commandQ'[i].kind \notin {"publish", "forget"} =>
          i \in 1..Len(commandQ) /\ commandQ'[i] = commandQ[i]
    BY <1>1 DEF Extended
  <1>4. \A i \in 1..Len(commandQ) : i \in 1..Len(commandQ') /\ commandQ'[i] = commandQ[i]
    BY <1>1 DEF Extended
  <1>5. HandshakeInv'
    BY <1>2 DEF HandshakeInv
  <1>6. \A i \in 1..Len(commandQ') : commandQ'[i].kind = "subscribe" =>
          i \in 1..Len(commandQ) /\ commandQ[i].kind = "subscribe"
    BY <1>3
  <1>7. \A kind : Waits(kind) => Waits(kind)'
    BY <1>4 DEF Waits
  <1>8. RequestInv'
    BY <1>2, <1>6, <1>7 DEF RequestInv
  <1>9. LeaveInv'
    BY <1>2, <1>7 DEF LeaveInv
  <1> QED
    BY <1>1, <1>5, <1>8, <1>9

LEMMA PublishKeeps == SessionInv /\ (\E c \in Calls : Publish(c)) => SessionInv'
  <1> SUFFICES ASSUME SessionInv, NEW c \in Calls, Publish(c) PROVE SessionInv'
    OBVIOUS
  <1> USE DEF SessionInv, SessionTyped
  <1>1. /\ calls[c] = "idle" /\ keeper.at = "loop" /\ calls' = [calls EXCEPT ![c] = "sending"]
        /\ \A d \in Calls : ~UnderWay(d)
        /\ UNCHANGED <<sessionTask, commandQ, eventQ, relayPart, keeperPart>>
    BY DEF Publish
  <1>2. TaskTyped' /\ RelayTyped' /\ KeeperTyped' /\ EndInv' /\ LastEventInv'
        /\ eventQ' \in Seq(SessionEvents) /\ UNCHANGED <<sessionAt, pendingAcks, keeper, replied>>
    BY <1>1, CallWorks
  <1>3. CallsTyped' /\ calls'[c] = "sending" /\ \A d \in Calls : d # c => calls'[d] = calls[d]
    BY <1>1 DEF CallsTyped, CallStates
  <1>4. OneCall'
    BY <1>1, <1>3 DEF OneCall, UnderWay
  <1>5. HandshakeInv' /\ RequestInv' /\ LeaveInv'
    BY <1>1, <1>2 DEF HandshakeInv, RequestInv, LeaveInv, Waits
  <1>6. \A i \in 1..Len(commandQ) : commandQ[i].kind # "publish"
    <2>1. \A i \in 1..Len(commandQ) : commandQ[i].kind = "publish" => commandQ[i].call \in Calls
      BY DEF SessionCommands
    <2> QED
      BY <1>1, <2>1 DEF PublishInv, UnderWay
  <1>7. PublishInv' /\ AdmitInv' /\ WaitInv'
    BY <1>1, <1>2, <1>3, <1>6 DEF PublishInv, AdmitInv, WaitInv, OfCalls, UnderWay
  <1> QED
    BY <1>1, <1>2, <1>3, <1>4, <1>5, <1>7

LEMMA CallSendsKeeps == SessionInv /\ (\E c \in Calls : CallSends(c)) => SessionInv'
  <1> SUFFICES ASSUME SessionInv, NEW c \in Calls, CallSends(c) PROVE SessionInv'
    OBVIOUS
  <1> USE DEF SessionInv, SessionTyped
  <1>1. calls[c] = "sending" /\ UNCHANGED <<sessionTask, eventQ, relayPart, keeperPart>>
    BY DEF CallSends
  <1>2. TaskTyped' /\ RelayTyped' /\ KeeperTyped' /\ EndInv' /\ LastEventInv'
        /\ eventQ' \in Seq(SessionEvents) /\ UNCHANGED <<sessionAt, pendingAcks, keeper, replied>>
    BY <1>1, CallWorks
  <1>3. /\ \A d \in Calls : UnderWay(d) => d = c
        /\ keeper.at # "connecting"
    BY <1>1 DEF OneCall, UnderWay, HandshakeInv
  <1>4. \A i \in 1..Len(commandQ) : commandQ[i].kind # "publish"
    <2>1. \A i \in 1..Len(commandQ) : commandQ[i].kind = "publish" => commandQ[i].call \in Calls
      BY DEF SessionCommands
    <2> QED
      BY <1>1, <1>3, <2>1 DEF PublishInv, UnderWay
  <1>5. CASE sessionAt = "gone" /\ calls' = [calls EXCEPT ![c] = "offline"] /\ UNCHANGED commandQ
    <2>1. CallsTyped' /\ calls'[c] = "offline" /\ \A d \in Calls : d # c => calls'[d] = calls[d]
      BY <1>5 DEF CallsTyped, CallStates
    <2>2. OneCall'
      BY <2>1 DEF OneCall, UnderWay
    <2>3. HandshakeInv' /\ RequestInv' /\ LeaveInv'
      BY <1>2, <1>3, <1>5 DEF HandshakeInv, RequestInv, LeaveInv, Waits
    <2>4. PublishInv' /\ AdmitInv' /\ WaitInv'
      BY <1>2, <1>4, <1>5, <2>1 DEF PublishInv, AdmitInv, WaitInv, OfCalls
    <2> QED
      BY <1>2, <1>5, <2>1, <2>2, <2>3, <2>4
  <1>6. CASE /\ sessionAt # "gone" /\ calls' = [calls EXCEPT ![c] = "admitting"]
             /\ commandQ' = Append(commandQ, [kind |-> "publish", call |-> c])
    <2> DEFINE x == [kind |-> "publish", call |-> c]
    <2>1. x \in SessionCommands /\ x.kind = "publish" /\ x.call = c
      BY DEF SessionCommands
    <2>2. commandQ' = Append(commandQ, x)
      BY <1>6
    <2> HIDE DEF x
    <2>3. /\ HandshakeInv' /\ RequestInv' /\ LeaveInv' /\ commandQ' \in Seq(SessionCommands)
          /\ Extended(commandQ, commandQ', x)
      BY <1>1, <1>3, <2>1, <2>2, CallCommandJoins
    <2>4. CallsTyped' /\ calls'[c] = "admitting" /\ \A d \in Calls : d # c => calls'[d] = calls[d]
      BY <1>6 DEF CallsTyped, CallStates
    <2>5. OneCall'
      BY <2>4, <1>3 DEF OneCall, UnderWay
    <2>6. \A i \in 1..Len(commandQ') :
            \/ i \in 1..Len(commandQ) /\ commandQ'[i] = commandQ[i]
            \/ i = Len(commandQ') /\ commandQ'[i] = x
      BY <2>3 DEF Extended
    <2>7. /\ Len(commandQ') \in 1..Len(commandQ') /\ commandQ'[Len(commandQ')] = x
          /\ \A j \in 1..Len(commandQ') : j <= Len(commandQ')
      BY <2>3 DEF Extended
    <2>8. PublishInv'
      BY <1>4, <2>1, <2>4, <2>6, <2>7 DEF PublishInv
    <2>9. AdmitInv'
      BY <1>2, <1>3, <1>6, <2>1, <2>4, <2>7 DEF AdmitInv, UnderWay
    <2>10. WaitInv'
      BY <1>3, <2>4 DEF WaitInv, UnderWay
    <2> QED
      BY <1>2, <2>3, <2>4, <2>5, <2>8, <2>9, <2>10
  <1> QED
    BY <1>5, <1>6 DEF CallSends

LEMMA TimesOutKeeps == SessionInv /\ (\E c \in Calls : TimesOut(c)) => SessionInv'
  <1> SUFFICES ASSUME SessionInv, NEW c \in Calls, TimesOut(c) PROVE SessionInv'
    OBVIOUS
  <1> USE DEF SessionInv, SessionTyped
  <1> DEFINE x == [kind |-> "forget", event |-> EventOf[c]]
  <1>1. /\ calls[c] = "waiting" /\ calls' = [calls EXCEPT ![c] = "uncertain"]
        /\ UNCHANGED <<sessionTask, eventQ, relayPart, keeperPart>>
        /\ commandQ' = commandQ \/ commandQ' = Append(commandQ, x)
    BY DEF TimesOut
  <1>2. TaskTyped' /\ RelayTyped' /\ KeeperTyped' /\ EndInv' /\ LastEventInv'
        /\ eventQ' \in Seq(SessionEvents) /\ UNCHANGED <<sessionAt, pendingAcks, keeper, replied>>
    BY <1>1, CallWorks
  <1>3. /\ \A d \in Calls : UnderWay(d) => d = c
        /\ keeper.at # "connecting"
    BY <1>1 DEF OneCall, UnderWay, HandshakeInv
  <1>4. CallsTyped' /\ calls'[c] = "uncertain" /\ \A d \in Calls : d # c => calls'[d] = calls[d]
    BY <1>1 DEF CallsTyped, CallStates
  <1>5. \A d \in Calls : calls'[d] \notin {"sending", "admitting", "waiting"}
    BY <1>3, <1>4 DEF UnderWay
  <1>6. OneCall' /\ AdmitInv' /\ WaitInv'
    BY <1>5 DEF OneCall, UnderWay, AdmitInv, WaitInv
  <1>7. \A i \in 1..Len(commandQ) : commandQ[i].kind # "publish"
    BY <1>1 DEF WaitInv, OfCalls
  <1>8. x \in SessionCommands /\ x.kind = "forget"
    BY DEF SessionCommands
  <1> HIDE DEF x
  <1>9. CASE commandQ' = commandQ
    <2>1. HandshakeInv' /\ RequestInv' /\ LeaveInv'
      BY <1>2, <1>3, <1>9 DEF HandshakeInv, RequestInv, LeaveInv, Waits
    <2>2. PublishInv'
      BY <1>7, <1>9 DEF PublishInv
    <2> QED
      BY <1>2, <1>4, <1>6, <1>9, <2>1, <2>2
  <1>10. CASE commandQ' = Append(commandQ, x)
    <2>1. /\ HandshakeInv' /\ RequestInv' /\ LeaveInv' /\ commandQ' \in Seq(SessionCommands)
          /\ Extended(commandQ, commandQ', x)
      BY <1>1, <1>3, <1>8, <1>10, CallCommandJoins
    <2>2. \A i \in 1..Len(commandQ') :
            \/ i \in 1..Len(commandQ) /\ commandQ'[i] = commandQ[i]
            \/ commandQ'[i] = x
      BY <2>1 DEF Extended
    <2>3. PublishInv'
      BY <1>7, <1>8, <2>2 DEF PublishInv
    <2> QED
      BY <1>2, <1>4, <1>6, <2>1, <2>3
  <1> QED
    BY <1>1, <1>9, <1>10

LEMMA OutsideKeeps == SessionInv /\ Outside => SessionInv'
  <1> SUFFICES ASSUME SessionInv, Outside PROVE SessionInv'
    OBVIOUS
  <1> USE DEF SessionInv, SessionTyped
  <1>1. UNCHANGED <<sessionTask, commandQ, eventQ, keeperPart, calls>>
    BY DEF Outside
  <1>2. RelayTyped'
    <2>1. CASE \E kind \in {"event", "notice", "ping"} : RelayFrame(kind)
      <3>1. PICK kind \in {"event", "notice", "ping"} : frames' = Append(frames, [kind |-> kind])
                                                       /\ UNCHANGED unanswered
        BY <2>1 DEF RelayFrame
      <3>2. [kind |-> kind] \in SocketFrames
        BY DEF SocketFrames
      <3> QED
        BY <3>1, <3>2 DEF RelayTyped
    <2>2. CASE \E e \in unanswered : RelayAcknowledges(e)
      <3>1. PICK e \in unanswered : frames' = Append(frames, [kind |-> "ok", event |-> e])
                                    /\ unanswered' = unanswered \ {e}
        BY <2>2 DEF RelayAcknowledges
      <3>2. [kind |-> "ok", event |-> e] \in SocketFrames
        BY DEF SocketFrames, RelayTyped
      <3> QED
        BY <3>1, <3>2 DEF RelayTyped
    <2>3. CASE RelayLost
      BY <2>3 DEF RelayLost, RelayTyped
    <2> QED
      BY <2>1, <2>2, <2>3 DEF Outside
  <1>3. UNCHANGED <<sessionAt, held, pendingAcks, keeper, replied, commandQ, eventQ, calls>>
    BY <1>1 DEF sessionTask, keeperPart
  <1>4. TaskTyped' /\ KeeperTyped' /\ CallsTyped'
    BY <1>3 DEF TaskTyped, KeeperTyped, CallsTyped, CallStates
  <1>5. HandshakeInv' /\ RequestInv' /\ LeaveInv' /\ LastEventInv'
    BY <1>3 DEF HandshakeInv, RequestInv, LeaveInv, LastEventInv, Waits
  <1>6. OneCall' /\ PublishInv' /\ AdmitInv' /\ WaitInv' /\ EndInv'
    BY <1>3 DEF OneCall, UnderWay, PublishInv, AdmitInv, WaitInv, EndInv, OfCalls
  <1> QED
    BY <1>2, <1>3, <1>4, <1>5, <1>6

LEMMA SessionInitInv == SessionInit => SessionInv
  <1> SUFFICES ASSUME SessionInit PROVE SessionInv
    OBVIOUS
  <1>1. keeper.at = "connecting" /\ Len(commandQ) = 0 /\ Len(eventQ) = 0
    BY DEF SessionInit, At
  <1>2. SessionTyped
    BY <1>1 DEF SessionInit, SessionTyped, TaskTyped, KeeperTyped, RelayTyped, CallsTyped, CallStates
  <1>3. HandshakeInv /\ RequestInv /\ LeaveInv /\ LastEventInv
    BY <1>1 DEF SessionInit, HandshakeInv, RequestInv, LeaveInv, LastEventInv
  <1>4. OneCall /\ PublishInv /\ AdmitInv /\ WaitInv /\ EndInv
    BY <1>1 DEF SessionInit, OneCall, UnderWay, PublishInv, AdmitInv, WaitInv, EndInv
  <1> QED
    BY <1>2, <1>3, <1>4 DEF SessionInv

LEMMA SessionNextInv == SessionInv /\ [SessionNext]_sessionVars => SessionInv'
  <1> SUFFICES ASSUME SessionInv, [SessionNext]_sessionVars PROVE SessionInv'
    OBVIOUS
  <1>1. CASE UNCHANGED sessionVars
    <2>1. UNCHANGED <<sessionAt, held, pendingAcks, commandQ, eventQ, frames, unanswered, keeper,
                      replied, calls>>
      BY <1>1 DEF sessionVars, sessionTask, relayPart, keeperPart
    <2>2. SessionTyped'
      BY <2>1 DEF SessionInv, SessionTyped, TaskTyped, KeeperTyped, RelayTyped, CallsTyped, CallStates
    <2>3. HandshakeInv' /\ RequestInv' /\ LeaveInv' /\ LastEventInv'
      BY <2>1 DEF SessionInv, HandshakeInv, RequestInv, LeaveInv, LastEventInv, Waits
    <2>4. OneCall' /\ PublishInv' /\ AdmitInv' /\ WaitInv' /\ EndInv'
      BY <2>1 DEF SessionInv, OneCall, UnderWay, PublishInv, AdmitInv, WaitInv, EndInv, OfCalls
    <2> QED
      BY <2>2, <2>3, <2>4 DEF SessionInv
  <1>2. CASE Opened \/ Challenged \/ Authenticated \/ HandshakeFails
    BY <1>2, HandshakeKeeps
  <1>3. CASE SessionTask
    BY <1>3, TakeSubscribeKeeps, TakeCloseKeeps, TakePublishKeeps, TakeForgetKeeps, ReadsKeep,
       UnblockKeeps, DisconnectsKeeps DEF SessionTask
  <1>4. CASE \/ \E kind \in {"subscribe", "close", "shutdown"} : Request(kind)
             \/ KeeperSends \/ KeeperAnswered \/ KeeperReceives
    BY <1>4, RequestKeeps, KeeperSendsKeeps, KeeperAnsweredKeeps, KeeperReceivesKeeps
  <1>5. CASE \E c \in Calls : Publish(c) \/ CallSends(c) \/ TimesOut(c)
    BY <1>5, PublishKeeps, CallSendsKeeps, TimesOutKeeps
  <1>6. CASE Outside
    BY <1>6, OutsideKeeps
  <1> QED
    BY <1>1, <1>2, <1>3, <1>4, <1>5, <1>6 DEF SessionNext

\* The inductive invariant: where the task, the supervisor and the calls are agrees with
\* what the channels hold.
THEOREM SessionInvariant == SessionSpec => []SessionInv
  BY SessionInitInv, SessionNextInv, PTL DEF SessionSpec

\* Nobody waits for nothing: what is to end a wait is under way while it lasts.
THEOREM WaitsAreOwed == SessionSpec => []EveryWaitIsOwed
  <1>1. SessionInv => EveryWaitIsOwed
    <2> SUFFICES ASSUME SessionInv PROVE EveryWaitIsOwed
      OBVIOUS
    <2>1. \A c \in Calls : calls[c] = "waiting" => c \in pendingAcks /\ sessionAt \in {"running", "blocked"}
      BY DEF SessionInv, SessionTyped, TaskTyped, WaitInv, EndInv
    <2>2. \A c \in Calls : calls[c] = "admitting" =>
            /\ sessionAt # "gone"
            /\ \E i \in 1..Len(commandQ) : commandQ[i].kind = "publish" /\ commandQ[i].call = c
      BY DEF SessionInv, AdmitInv
    <2> QED
      BY <2>1, <2>2 DEF SessionInv, HandshakeInv, RequestInv, LeaveInv, LastEventInv, EveryWaitIsOwed
  <1> QED
    BY <1>1, SessionInvariant, PTL

(* A REQ and the room among the events *)

\* The frames to read that the task will pass on.
Coming == {i \in 1..Len(frames) : frames[i].kind \in {"event", "notice"}}

\* What the task has to pass on finds room while the supervisor receives nothing.
RoomInv ==
    HandsRequest /\ sessionAt = "running" => Cardinality(Coming) + Len(eventQ) < EventCapacity
EmbraceInv == RoomInv /\ NoEmbrace

LEMMA ComingIsFinite ==
    ASSUME frames \in Seq(SocketFrames)
    PROVE  /\ IsFiniteSet(Coming) /\ Cardinality(Coming) \in Nat
           /\ Cardinality(Coming) <= Len(frames)
  <1>1. Len(frames) \in Nat
    OBVIOUS
  <1>2. IsFiniteSet(1..Len(frames)) /\ Cardinality(1..Len(frames)) = Len(frames)
    BY <1>1, FS_Interval
  <1>3. Coming \in SUBSET (1..Len(frames))
    BY DEF Coming
  <1> QED
    BY <1>2, <1>3, FS_Subset, FS_CardinalityType

LEMMA ComingShrinks ==
    ASSUME frames \in Seq(SocketFrames), frames # <<>>, frames' = Tail(frames)
    PROVE  /\ Cardinality(Coming)' \in Nat /\ Cardinality(Coming)' <= Cardinality(Coming)
           /\ Head(frames).kind \in {"event", "notice"} =>
                Cardinality(Coming)' < Cardinality(Coming)
  <1> DEFINE f == [i \in Coming' |-> i + 1]
  <1>1. Shifted(frames, frames') /\ Head(frames) = frames[1] /\ frames' \in Seq(SocketFrames)
        /\ Len(frames) \in Nat
    BY TailShifts
  <1>2. ASSUME NEW i \in Coming'
        PROVE  i \in 1..Len(frames') /\ i + 1 \in Coming \ {1}
    <2>1. i \in 1..Len(frames') /\ frames'[i].kind \in {"event", "notice"}
      BY <1>2 DEF Coming
    <2>2. i + 1 \in 1..Len(frames) /\ frames[i + 1] = frames'[i] /\ i + 1 # 1
      BY <1>1, <2>1 DEF Shifted
    <2> QED
      BY <2>1, <2>2 DEF Coming
  <1>3. f \in Injection(Coming', Coming \ {1})
    <2>1. f \in [Coming' -> Coming \ {1}]
      BY <1>2
    <2>2. \A i, j \in Coming' : f[i] = f[j] => i = j
      <3> SUFFICES ASSUME NEW i \in Coming', NEW j \in Coming', f[i] = f[j] PROVE i = j
        OBVIOUS
      <3>1. i \in 1..Len(frames') /\ j \in 1..Len(frames') /\ i + 1 = j + 1
        BY <1>2
      <3> QED
        BY <3>1
    <2>3. DOMAIN f = Coming'
      OBVIOUS
    <2> HIDE DEF f
    <2> QED
      BY <2>1, <2>2, <2>3 DEF Injection, IsInjective
  <1>4. IsFiniteSet(Coming) /\ Cardinality(Coming) \in Nat
    BY ComingIsFinite
  <1>5. IsFiniteSet(Coming \ {1})
        /\ Cardinality(Coming \ {1}) = IF 1 \in Coming THEN Cardinality(Coming) - 1
                                       ELSE Cardinality(Coming)
    BY <1>4, FS_RemoveElement
  <1> HIDE DEF f
  <1> DEFINE A == Coming'
             B == Coming \ {1}
  <1>6. f \in Injection(A, B) /\ IsFiniteSet(B)
    BY <1>3, <1>5
  <1> HIDE DEF A, B
  <1>7. IsFiniteSet(A) /\ Cardinality(A) <= Cardinality(B)
    BY <1>6, FS_Injection
  <1>8. Cardinality(A) \in Nat
    BY <1>7, FS_CardinalityType
  <1>9. Head(frames).kind \in {"event", "notice"} => 1 \in Coming
    <2>1. 1 \in 1..Len(frames)
      BY <1>1
    <2> QED
      BY <2>1, <1>1 DEF Coming
  <1> QED
    BY <1>4, <1>5, <1>7, <1>8, <1>9 DEF A, B

LEMMA EmbraceTask ==
    ASSUME SessionInv, EmbraceInv, SessionTask
    PROVE  EmbraceInv'
  <1> SUFFICES ASSUME HandsRequest', sessionAt' \in {"running", "blocked"}
               PROVE  sessionAt' = "running"
                      /\ Cardinality(Coming)' + Len(eventQ') < EventCapacity
    BY DEF EmbraceInv, RoomInv, NoEmbrace
  <1>0. frames \in Seq(SocketFrames) /\ eventQ \in Seq(SessionEvents) /\ Len(eventQ) \in Nat
        /\ EventCapacity \in Nat
    BY SessionAssumption DEF SessionInv, SessionTyped, RelayTyped
  <1>1. UNCHANGED keeper
    BY DEF SessionTask, TakeSubscribe, TakeClose, TakePublish, TakeForget, TakeShutdown, Took,
           ReadEvent, ReadOk, ReadNotice, ReadPing, Read, Unblock, SocketEnds, Disconnects, keeperPart
  <1>2. HandsRequest /\ Heard /\ sessionAt # "blocked"
    BY <1>1 DEF HandsRequest, Heard, EmbraceInv, NoEmbrace
  <1>3. ~Unblock /\ ~SocketEnds /\ ~Disconnects
    BY <1>2 DEF Unblock, SocketEnds, Disconnects, Ended
  <1>4. sessionAt = "running"
    BY <1>3 DEF SessionTask, TakeSubscribe, TakeClose, TakePublish, TakeForget, TakeShutdown, Took,
                ReadEvent, ReadOk, ReadNotice, ReadPing, Read
  <1>5. Cardinality(Coming) + Len(eventQ) < EventCapacity /\ Cardinality(Coming) \in Nat
    BY <1>0, <1>2, <1>4, ComingIsFinite DEF EmbraceInv, RoomInv
  <1>6. CASE TakeSubscribe \/ TakeClose \/ TakePublish \/ TakeForget \/ TakeShutdown
    <2>1. UNCHANGED <<frames, eventQ>>
      BY <1>6 DEF TakeSubscribe, TakeClose, TakePublish, TakeForget, TakeShutdown, Took
    <2>2. UNCHANGED sessionAt \/ sessionAt' = "ending"
      BY <1>6 DEF TakeSubscribe, TakeClose, TakePublish, TakeForget, TakeShutdown, Ended, sessionTask
    <2> QED
      BY <1>4, <1>5, <2>1, <2>2 DEF Coming
  <1>7. CASE ReadOk \/ ReadPing
    <2>1. frames # <<>> /\ frames' = Tail(frames) /\ UNCHANGED eventQ
      BY <1>7 DEF ReadOk, ReadPing, Read
    <2>2. UNCHANGED sessionAt \/ sessionAt' = "ending"
      BY <1>7 DEF ReadOk, ReadPing, Ended, sessionTask
    <2>3. Cardinality(Coming)' \in Nat /\ Cardinality(Coming)' <= Cardinality(Coming)
      BY <1>0, <2>1, ComingShrinks
    <2> QED
      BY <1>0, <1>4, <1>5, <2>1, <2>2, <2>3
  <1>8. CASE ReadEvent \/ ReadNotice
    <2>1. frames # <<>> /\ frames' = Tail(frames) /\ Head(frames).kind \in {"event", "notice"}
      BY <1>8 DEF ReadEvent, ReadNotice, Read
    <2>2. Cardinality(Coming)' \in Nat /\ Cardinality(Coming)' < Cardinality(Coming)
      BY <1>0, <2>1, ComingShrinks
    <2>3. Room(eventQ, EventCapacity)
      BY <1>0, <1>5 DEF Room
    <2>4. PICK event \in SessionEvents : sessionAt' = "running" /\ eventQ' = Append(eventQ, event)
      <3>1. [kind |-> "event"] \in SessionEvents /\ [kind |-> "notice"] \in SessionEvents
        BY DEF SessionEvents
      <3>2. ASSUME NEW event \in SessionEvents, NEW results, Forward(event, results)
            PROVE  sessionAt' = "running" /\ eventQ' = Append(eventQ, event)
        BY <1>2, <2>3, <3>2 DEF Forward
      <3>3. CASE ReadEvent
        BY <1>2, <3>1, <3>2, <3>3 DEF ReadEvent
      <3>4. CASE ReadNotice
        BY <3>1, <3>2, <3>4 DEF ReadNotice
      <3> QED
        BY <1>8, <3>3, <3>4
    <2>5. Len(eventQ') = Len(eventQ) + 1
      BY <1>0, <2>4
    <2> QED
      BY <1>0, <1>5, <2>2, <2>4, <2>5
  <1> QED
    BY <1>3, <1>6, <1>7, <1>8 DEF SessionTask

LEMMA EmbraceOthers ==
    ASSUME SessionInv, EmbraceInv, ~FloodsRequests,
           SessionNext \/ UNCHANGED sessionVars, ~SessionTask, SessionInv'
    PROVE  EmbraceInv'
  <1> SUFFICES ASSUME HandsRequest', sessionAt' \in {"running", "blocked"}
               PROVE  sessionAt' = "running"
                      /\ Cardinality(Coming)' + Len(eventQ') < EventCapacity
    BY DEF EmbraceInv, RoomInv, NoEmbrace
  <1>0. frames \in Seq(SocketFrames) /\ Len(frames) \in Nat /\ EventCapacity \in Nat
    BY SessionAssumption DEF SessionInv, SessionTyped, RelayTyped
  <1>1. At("loop").at = "loop" /\ At("over").at = "over" /\ At("answer").at = "answer"
    BY DEF At
  <1>2. ASSUME HandsRequest, UNCHANGED <<sessionAt, frames, eventQ>>
        PROVE  sessionAt' = "running" /\ Cardinality(Coming)' + Len(eventQ') < EventCapacity
    BY <1>2 DEF EmbraceInv, RoomInv, NoEmbrace, Coming
  <1>3. CASE Opened \/ Challenged \/ Authenticated \/ HandshakeFails
    <2>1. keeper.at = "connecting"
      BY <1>3 DEF Opened, Challenged, Authenticated, HandshakeFails, SessionInv, HandshakeInv
    <2>2. UNCHANGED keeper \/ keeper' = At("loop") \/ keeper' = At("over")
      BY <1>3 DEF Opened, Challenged, Authenticated, HandshakeFails, Leave, keeperPart
    <2> QED
      BY <1>1, <2>1, <2>2 DEF HandsRequest
  <1>4. CASE \E kind \in {"subscribe", "close", "shutdown"} : Request(kind)
    <2>1. PICK kind \in {"subscribe", "close", "shutdown"} : Request(kind)
      BY <1>4
    <2>2. keeper' = [at |-> "sending", command |-> [kind |-> kind]] /\ eventQ' = <<>>
          /\ UNCHANGED <<sessionAt, frames>>
      BY <2>1 DEF Request, sessionTask, relayPart
    <2>3. kind = "subscribe"
      BY <2>2 DEF HandsRequest
    <2>4. Len(frames) < EventCapacity /\ sessionAt # "blocked"
      BY <2>1, <2>3 DEF Request, MayWait, Calm
    <2>5. Cardinality(Coming) \in Nat /\ Cardinality(Coming) <= Len(frames)
      BY <1>0, ComingIsFinite
    <2>6. Cardinality(Coming)' = Cardinality(Coming) /\ Len(eventQ') = 0
      BY <2>2 DEF Coming
    <2> QED
      BY <1>0, <2>2, <2>4, <2>5, <2>6
  <1>5. CASE KeeperSends
    <2>1. UNCHANGED <<sessionAt, frames>>
      BY <1>5 DEF KeeperSends, sessionTask, relayPart
    <2>2. sessionAt # "gone" /\ keeper.at = "sending"
      BY <1>5, <2>1 DEF KeeperSends
    <2>3. keeper.command.kind \in {"subscribe", "close", "shutdown"}
      BY <2>2 DEF SessionInv, SessionTyped, KeeperTyped
    <2>4. keeper.command.kind = "subscribe" /\ UNCHANGED eventQ
      BY <1>1, <1>5, <2>2, <2>3 DEF KeeperSends, HandsRequest, Leave
    <2> QED
      BY <1>2, <2>1, <2>2, <2>4 DEF HandsRequest
  <1>6. CASE KeeperAnswered
    BY <1>1, <1>6 DEF KeeperAnswered, Leave, HandsRequest
  <1>7. CASE KeeperReceives
    <2>1. keeper.at = "loop" /\ (UNCHANGED keeper \/ keeper' = At("over"))
      BY <1>7 DEF KeeperReceives, Leave
    <2> QED
      BY <1>1, <2>1 DEF HandsRequest
  <1>8. CASE \/ \E c \in Calls : Publish(c) \/ CallSends(c) \/ TimesOut(c)
             \/ UNCHANGED sessionVars
    <2>1. UNCHANGED <<sessionAt, frames, eventQ, keeper>>
      BY <1>8 DEF Publish, CallSends, TimesOut, sessionTask, relayPart, keeperPart, sessionVars
    <2> QED
      BY <1>2, <2>1 DEF HandsRequest
  <1>9. CASE Outside
    <2>1. UNCHANGED <<sessionAt, eventQ, keeper>> /\ HandsRequest
      BY <1>9 DEF Outside, sessionTask, keeperPart, HandsRequest
    <2>2. HandsOver
      BY <2>1 DEF HandsRequest, HandsOver, MayWait
    <2>3. CASE \E e \in unanswered : RelayAcknowledges(e)
      <3>1. PICK e \in unanswered : frames' = Append(frames, [kind |-> "ok", event |-> e])
        BY <2>3 DEF RelayAcknowledges
      <3> DEFINE x == [kind |-> "ok", event |-> e]
      <3>2. x \in SocketFrames /\ x.kind = "ok"
        BY DEF SocketFrames, SessionInv, SessionTyped, RelayTyped
      <3> HIDE DEF x
      <3>3. Extended(frames, frames', x)
        BY <1>0, <3>1, <3>2, AppendExtends DEF x
      <3>4. \A i : i \in Coming' <=> i \in Coming
        BY <3>2, <3>3 DEF Coming, Extended
      <3>5. Coming' = Coming
        BY <3>4
      <3> QED
        BY <2>1, <3>5 DEF EmbraceInv, RoomInv, NoEmbrace
    <2>4. CASE RelayLost
      BY <1>2, <2>1, <2>4 DEF RelayLost
    <2>5. ~\E kind \in {"event", "notice", "ping"} : RelayFrame(kind)
      BY <2>2 DEF RelayFrame
    <2> QED
      BY <1>9, <2>3, <2>4, <2>5 DEF Outside
  <1> QED
    BY <1>3, <1>4, <1>5, <1>6, <1>7, <1>8, <1>9 DEF SessionNext

\* Suppose that a REQ is handed over only when the frames to read fit among the events,
\* and that the relay sends none of itself until it is answered (the code relies on
\* both and ensures neither).  Then the supervisor that waits for the answer and the
\* task that would wait for room among the events never wait for each other.
THEOREM NoEmbraceCorrect ==
    ASSUME ~FloodsRequests
    PROVE  SessionSpec => []NoEmbrace
  <1>1. SessionInit => EmbraceInv
    BY DEF SessionInit, At, EmbraceInv, RoomInv, NoEmbrace, HandsRequest
  <1>2. SessionInv /\ EmbraceInv /\ [SessionNext]_sessionVars => EmbraceInv'
    BY SessionNextInv, EmbraceTask, EmbraceOthers
  <1>3. EmbraceInv => NoEmbrace
    BY DEF EmbraceInv
  <1> QED
    BY <1>1, <1>2, <1>3, SessionInvariant, PTL DEF SessionSpec
=============================================================================
