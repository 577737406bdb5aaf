-------------------------- MODULE SupervisorProofs --------------------------
(* Proofs about the connection supervisor, for every value of its constants. *)
EXTENDS SupervisorProperties, TLAPS

LEMMA Numbers ==
    /\ \A a, b \in Nat : Larger(a, b) \in Nat /\ Smaller(a, b) \in Nat
    /\ \A n \in Nat : Elapsed(n) \in Nat
    /\ \A n \in 0..MaxAttempt : NextAttempt(n) \in 0..MaxAttempt
    /\ Hints \subseteq Nat
  BY TimeAssumption DEF Larger, Smaller, Elapsed, NextAttempt

LEMMA AgedType ==
    ASSUME NEW q \in Seq(QueueItem)
    PROVE  /\ Aged(q) \in Seq(QueueItem)
           /\ Len(Aged(q)) = Len(q)
           /\ \A i \in 1..Len(q) : Aged(q)[i].pub = q[i].pub
  <1>1. \A i \in 1..Len(q) : q[i] \in QueueItem
    OBVIOUS
  <1>2. \A i \in 1..Len(q) : [q[i] EXCEPT !.age = Smaller(@ + 1, QueueTimeout + 1)]
                                  \in QueueItem
    <2> SUFFICES ASSUME NEW i \in 1..Len(q)
                 PROVE  [q[i] EXCEPT !.age = Smaller(@ + 1, QueueTimeout + 1)] \in QueueItem
      OBVIOUS
    <2>1. q[i] \in [pub : Pubs, age : 0..(QueueTimeout + 1)]
      BY <1>1 DEF QueueItem
    <2>2. Smaller(q[i].age + 1, QueueTimeout + 1) \in 0..(QueueTimeout + 1)
      BY <2>1, PubAssumption DEF Smaller
    <2> QED
      BY <2>1, <2>2 DEF QueueItem
  <1>3. Len(q) \in Nat
    OBVIOUS
  <1> QED
    BY <1>1, <1>2, <1>3 DEF Aged, QueueItem

LEMMA PopType ==
    ASSUME NEW q \in Seq(QueueItem), q # <<>>
    PROVE  Head(q).pub \in Pubs /\ Tail(q) \in Seq(QueueItem)
  <1>1. Head(q) \in QueueItem /\ Tail(q) \in Seq(QueueItem)
    OBVIOUS
  <1> QED
    BY <1>1 DEF QueueItem

LEMMA AfterExpiryType ==
    ASSUME TypeOK, NEW cut \in [PubPriorities -> 0..MaxPending], IsExpiredPrefix(cut)
    PROVE  AfterExpiry(cut) \in [PubPriorities -> Seq(QueueItem)]
  <1>1. \A pr \in PubPriorities :
           SubSeq(queue[pr], cut[pr] + 1, Len(queue[pr])) \in Seq(QueueItem)
    BY PubAssumption DEF TypeOK, IsExpiredPrefix
  <1> QED
    BY <1>1 DEF AfterExpiry

LEMMA AbsentType == Absent \in Entry
  BY SubAssumption, TimeAssumption DEF Absent, Entry, SubPriorities

LEMMA AppendFrame ==
    ASSUME NEW q \in Seq(Frames), NEW f \in Frames
    PROVE  Append(q, f) \in Seq(Frames)
  OBVIOUS

LEMMA FrameType ==
    /\ \A s \in Subs, c \in ClosedClasses, h \in Hints \cup {0} :
          Closed(s, c, h) \in Frames
    /\ \A s \in Subs : Told("eose", s) \in Frames /\ Told("event", s) \in Frames
    /\ \A h \in Hints : Notice(h) \in Frames
    /\ Disconnected \in Frames
  BY DEF Frames, Closed, Told, Notice, Disconnected

LEMMA TypeInit == Init => TypeOK
  <1> SUFFICES ASSUME Init PROVE TypeOK
    OBVIOUS
  <1>1. desired \in [Subs -> Entry]
    BY AbsentType DEF Init
  <1>2. queue \in [PubPriorities -> Seq(QueueItem)]
    BY DEF Init, EmptyQueues
  <1>3. task \in PublishTask \cup {NoTask} /\ publishDone \in Seq(Hints \cup {0})
    BY DEF Init
  <1>4. net \in Seq(Frames) /\ answer \in [Pubs -> Outcomes \cup {"local", "offline"}]
    BY DEF Init, Outcomes
  <1> QED
    BY <1>1, <1>2, <1>3, <1>4 DEF Init, TypeOK

LEMMA RejectAllType ==
    ASSUME TypeOK, RejectAll
    PROVE  /\ queue' \in [PubPriorities -> Seq(QueueItem)]
           /\ answer' \in [Pubs -> Outcomes \cup {"local", "offline"}]
  BY DEF TypeOK, RejectAll, EmptyQueues

LEMMA LosesSessionType ==
    ASSUME TypeOK, TaskLosesSession
    PROVE  task' \in PublishTask \cup {NoTask}
  BY DEF TypeOK, TaskLosesSession, PublishTask

LEMMA LeaveSessionType ==
    ASSUME TypeOK, NEW next \in {"top", "stopped"}, LeaveSession(next)
    PROVE  /\ phase' \in {"top", "connecting", "terminal", "backoff", "session", "stopped"}
           /\ wireOpen' \subseteq Subs /\ locallyClosing' \subseteq Subs
           /\ tickDue' \in BOOLEAN
           /\ sock' \in {"up", "down", "none"}
           /\ net' \in Seq(Frames)
           /\ relaySubs' \in [Subs -> Filters \cup {NoFilter}]
  <1>1. net' \in Seq(Frames)
    BY DEF LeaveSession
  <1>2. relaySubs' \in [Subs -> Filters \cup {NoFilter}]
    BY DEF LeaveSession
  <1> QED
    BY <1>1, <1>2 DEF LeaveSession

LEMMA SettleType ==
    ASSUME TypeOK, task # NoTask, NEW r \in Outcomes, NEW h \in Hints \cup {0}, SettleAs(r, h)
    PROVE  task' \in PublishTask
  BY DEF TypeOK, SettleAs, PublishTask, Stages

LEMMA TypeConnection == ASSUME TypeOK, Connection PROVE TypeOK'
  <1>1. CASE DrainDone
    <2>1. Head(publishDone) \in Hints \cup {0} /\ publishDone' \in Seq(Hints \cup {0})
      BY <1>1 DEF TypeOK, DrainDone
    <2>2. gate' \in Nat /\ owed' \in Nat
      BY <1>1, <2>1, Numbers, TimeAssumption DEF TypeOK, DrainDone, ActivateRateLimit
    <2> QED
      BY <1>1, <2>1, <2>2 DEF TypeOK, DrainDone, subVars, callVars, linkVars
  <1>2. CASE ConnectOk
    <2>1. desired' \in [Subs -> Entry]
      BY <1>2, AbsentType DEF TypeOK, ConnectOk, Entry
    <2>2. /\ phase' = "session" /\ wireOpen' = {} /\ locallyClosing' = {}
          /\ tickDue' = TRUE /\ sock' = "up" /\ net' = <<>>
          /\ relaySubs' = [s \in Subs |-> NoFilter]
          /\ UNCHANGED <<gate, queue, answer, task, publishDone, wire, verdict, owed>>
      BY <1>2 DEF ConnectOk, callVars, taskVars
    <2>3. net' \in Seq(Frames)
      BY <2>2
    <2>4. relaySubs' \in [Subs -> Filters \cup {NoFilter}]
      BY <2>2
    <2> QED
      BY <2>1, <2>2, <2>3, <2>4 DEF TypeOK
  <1>3. CASE StartConnect
    BY <1>3 DEF TypeOK, StartConnect, subVars, timeVars, callVars, taskVars, linkVars
  <1>4. CASE ConnectDenied
    BY <1>4 DEF TypeOK, ConnectDenied, subVars, timeVars, callVars, taskVars, linkVars
  <1>5. CASE ConnectFailed
    BY <1>5 DEF TypeOK, ConnectFailed, subVars, timeVars, callVars, taskVars, linkVars
  <1>6. CASE BackoffOver
    BY <1>6 DEF TypeOK, BackoffOver, subVars, timeVars, callVars, taskVars, linkVars
  <1> QED
    BY <1>1, <1>2, <1>3, <1>4, <1>5, <1>6 DEF Connection

LEMMA TypeCommand == ASSUME TypeOK, Command PROVE TypeOK'
  <1>1. CASE \E s \in Subs, f \in Filters : \E pr \in PriosOf[s] : HandleSubscribe(s, f, pr)
    <2> PICK s \in Subs, f \in Filters : \E pr \in PriosOf[s] : HandleSubscribe(s, f, pr)
      BY <1>1
    <2> PICK pr \in PriosOf[s] : HandleSubscribe(s, f, pr)
      OBVIOUS
    <2>1. Remembered(f, pr) \in Entry
      BY SubAssumption, TimeAssumption DEF Remembered, Entry
    <2> QED
      BY <2>1 DEF TypeOK, HandleSubscribe, Listening, PhaseAfterCommand, timeVars,
                  callVars, taskVars, linkVars
  <1>2. CASE \E s \in Closable : HandleClose(s)
    <2> PICK s \in Closable : HandleClose(s)
      BY <1>2
    <2>0. s \in Subs
      BY SubAssumption
    <2>1. desired' \in [Subs -> Entry]
      BY <2>0, AbsentType DEF TypeOK, HandleClose
    <2>2. Closed(s, "terminal", 0) \in Frames
      BY <2>0, FrameType DEF ClosedClasses
    <2> DEFINE Quiet == /\ UNCHANGED <<wireOpen, locallyClosing, tickDue, sock, net, relaySubs>>
                        /\ phase' = PhaseAfterCommand
               Sends == /\ wireOpen' = wireOpen \ {s}
                        /\ locallyClosing' = locallyClosing \cup {s}
                        /\ RelayTakesClose(s)
                        /\ UNCHANGED <<phase, tickDue, sock>>
               Typed == /\ phase' \in {"top", "connecting", "terminal", "backoff",
                                       "session", "stopped"}
                        /\ wireOpen' \subseteq Subs /\ locallyClosing' \subseteq Subs
                        /\ tickDue' \in BOOLEAN
                        /\ sock' \in {"up", "down", "none"}
                        /\ net' \in Seq(Frames)
                        /\ relaySubs' \in [Subs -> Filters \cup {NoFilter}]
    <2>3. Quiet \/ Sends \/ LeaveSession("top")
      BY DEF HandleClose
    <2>4. Quiet => Typed
      BY DEF TypeOK, PhaseAfterCommand
    <2>5. Sends => Typed
      <3> HAVE Sends
      <3>1. net' \in Seq(Frames)
        <4>1. net \in Seq(Frames)
          BY DEF TypeOK
        <4>2. Append(net, Closed(s, "terminal", 0)) \in Seq(Frames)
          BY <2>2, <4>1, AppendFrame
        <4> QED
          BY <4>1, <4>2 DEF RelayTakesClose
      <3>2. relaySubs' \in [Subs -> Filters \cup {NoFilter}]
        BY <2>0 DEF TypeOK, RelayTakesClose
      <3> QED
        BY <2>0, <3>1, <3>2 DEF TypeOK
    <2>6. LeaveSession("top") => Typed
      BY LeaveSessionType
    <2>7. Typed
      BY <2>3, <2>4, <2>5, <2>6
    <2> QED
      BY <2>1, <2>7 DEF TypeOK, HandleClose, callVars, taskVars
  <1>3. CASE \E p \in Pubs : HandlePublish(p)
    <2> PICK p \in Pubs : HandlePublish(p)
      BY <1>3
    <2>1. PubPrio[p] \in PubPriorities /\ [pub |-> p, age |-> 0] \in QueueItem
      BY PubAssumption DEF QueueItem
    <2>2. queue' \in [PubPriorities -> Seq(QueueItem)]
      <3>1. Append(queue[PubPrio[p]], [pub |-> p, age |-> 0]) \in Seq(QueueItem)
        BY <2>1 DEF TypeOK
      <3> QED
        BY <2>1, <3>1 DEF TypeOK, HandlePublish
    <2>3. answer' \in [Pubs -> Outcomes \cup {"local", "offline"}]
      BY DEF TypeOK, HandlePublish
    <2> QED
      BY <2>2, <2>3 DEF TypeOK, HandlePublish, Listening, PhaseAfterCommand, subVars,
                        timeVars, taskVars, linkVars
  <1>4. CASE HandleReconnect
    <2>1. CASE phase # "session"
      BY <1>4, <2>1 DEF TypeOK, HandleReconnect, callVars
    <2>2. CASE phase = "session"
      BY <1>4, <2>2, RejectAllType, LosesSessionType, LeaveSessionType
      DEF TypeOK, HandleReconnect
    <2> QED
      BY <2>1, <2>2
  <1>5. CASE HandleShutdown
    BY <1>5, RejectAllType, LosesSessionType, LeaveSessionType DEF TypeOK, HandleShutdown
  <1> QED
    BY <1>1, <1>2, <1>3, <1>4, <1>5 DEF Command

LEMMA IncomingType ==
    ASSUME TypeOK, net # <<>>
    PROVE  Head(net) \in Frames /\ Tail(net) \in Seq(Frames)
  BY DEF TypeOK

LEMMA ClosedFrameType ==
    ASSUME NEW f \in Frames, f.kind = "closed"
    PROVE  f.sub \in Subs /\ f.class \in ClosedClasses /\ f.hint \in Hints \cup {0}
  BY DEF Frames, Disconnected

LEMMA NoticeFrameType ==
    ASSUME NEW f \in Frames, f.kind = "notice"
    PROVE  f.hint \in Hints
  BY DEF Frames, Disconnected

LEMMA DeliveryFrameType ==
    ASSUME NEW f \in Frames, f.kind \in {"eose", "event"}
    PROVE  f.sub \in Subs
  BY DEF Frames, Disconnected

LEMMA RetriedEntryType ==
    ASSUME TypeOK, NEW s \in Subs, NEW g \in Nat
    PROVE  RateLimitedEntry(s, g) \in Entry /\ RetryableEntry(s) \in Entry
  <1>1. desired[s] \in Entry /\ Jitter[s] \in Nat
    BY SubAssumption DEF TypeOK
  <1>2. desired[s].attempt \in 0..MaxAttempt /\ Backoff[desired[s].attempt] \in Nat
    BY <1>1, TimeAssumption DEF Entry
  <1>3. NextAttempt(desired[s].attempt) \in 0..MaxAttempt
    BY <1>2, Numbers
  <1>4. \A n \in 0..MaxAttempt, r \in Nat :
           [desired[s] EXCEPT !.needsSend = TRUE, !.attempt = n, !.retryIn = r] \in Entry
    BY <1>1 DEF Entry
  <1>5. g + Jitter[s] \in Nat /\ Backoff[desired[s].attempt] + Jitter[s] \in Nat
    BY <1>1, <1>2
  <1> QED
    BY <1>3, <1>4, <1>5, AbsentType DEF RateLimitedEntry, RetryableEntry

LEMMA TypeSessionEvent == ASSUME TypeOK, SessionEvent PROVE TypeOK'
  <1>1. CASE HandleDisconnected
    BY <1>1, RejectAllType, LosesSessionType, LeaveSessionType DEF TypeOK, HandleDisconnected
  <1>2. CASE HandleClosedLocally
    <2>1. net' \in Seq(Frames) /\ locallyClosing' \subseteq Subs
      BY <1>2, IncomingType DEF TypeOK, HandleClosedLocally, Incoming
    <2> QED
      BY <1>2, <2>1 DEF TypeOK, HandleClosedLocally, timeVars, callVars, taskVars
  <1>3. CASE HandleClosedByRelay
    <2> DEFINE f == Head(net)
               s == f.sub
    <2>1. /\ f \in Frames /\ f.kind = "closed"
          /\ net' \in Seq(Frames)
      BY <1>3, IncomingType DEF HandleClosedByRelay, Incoming
    <2>2. s \in Subs /\ f.class \in ClosedClasses /\ f.hint \in Nat
      <3>1. s \in Subs /\ f.class \in ClosedClasses /\ f.hint \in Hints \cup {0}
        BY <2>1, ClosedFrameType
      <3>2. \A h \in Hints \cup {0} : h \in Nat
        BY Numbers
      <3> QED
        BY <3>1, <3>2
    <2>3. ActivateRateLimit(f.hint) \in Nat /\ Larger(owed, f.hint) \in Nat
      BY <2>2, Numbers DEF TypeOK, ActivateRateLimit
    <2>4. /\ gate' \in Nat /\ owed' \in Nat
          /\ \/ desired' = [desired EXCEPT ![s] = RateLimitedEntry(s, gate')]
             \/ desired' = [desired EXCEPT ![s] = RetryableEntry(s)]
             \/ desired' = [desired EXCEPT ![s] = Absent]
      BY <1>3, <2>2, <2>3 DEF TypeOK, HandleClosedByRelay, ClosedClasses
    <2>5. desired' \in [Subs -> Entry]
      BY <2>2, <2>4, RetriedEntryType, AbsentType DEF TypeOK
    <2> QED
      BY <1>3, <2>1, <2>4, <2>5 DEF TypeOK, HandleClosedByRelay, callVars, taskVars
  <1>4. CASE HandleNotice
    <2>1. Head(net).hint \in Hints /\ net' \in Seq(Frames)
      BY <1>4, IncomingType, NoticeFrameType DEF HandleNotice, Incoming
    <2>2. gate' \in Nat /\ owed' \in Nat
      BY <1>4, <2>1, Numbers DEF TypeOK, HandleNotice, ActivateRateLimit
    <2>3. \A s \in Subs : [desired[s] EXCEPT !.needsSend = TRUE,
                                             !.retryIn = gate' + Jitter[s]] \in Entry
      <3> TAKE s \in Subs
      <3>1. desired[s] \in Entry /\ gate' + Jitter[s] \in Nat
        BY <2>2, SubAssumption DEF TypeOK
      <3> QED
        BY <3>1 DEF Entry
    <2>4. desired' \in [Subs -> Entry]
      BY <1>4, <2>3, AbsentType DEF HandleNotice
    <2> QED
      BY <1>4, <2>1, <2>2, <2>4 DEF TypeOK, HandleNotice, callVars, taskVars
  <1>5. CASE HandleDelivery
    <2>1. Head(net).sub \in Subs /\ net' \in Seq(Frames)
      BY <1>5, IncomingType, DeliveryFrameType DEF HandleDelivery, Incoming
    <2>2. [desired[Head(net).sub] EXCEPT !.attempt = 0, !.retryIn = 0] \in Entry
      <3>1. desired[Head(net).sub] \in Entry /\ 0 \in 0..MaxAttempt
        BY <2>1, TimeAssumption DEF TypeOK
      <3> QED
        BY <3>1 DEF Entry
    <2>3. desired' \in [Subs -> Entry]
      BY <1>5, <2>1, <2>2, AbsentType DEF TypeOK, HandleDelivery
    <2> QED
      BY <1>5, <2>1, <2>3 DEF TypeOK, HandleDelivery, timeVars, callVars, taskVars
  <1>6. CASE HandleDone
    <2>1. Head(publishDone) \in Hints \cup {0} /\ publishDone' \in Seq(Hints \cup {0})
      BY <1>6 DEF TypeOK, HandleDone
    <2>2. gate' \in Nat /\ owed' \in Nat
      BY <1>6, <2>1, Numbers, TimeAssumption DEF TypeOK, HandleDone, ActivateRateLimit
    <2> QED
      BY <1>6, <2>1, <2>2 DEF TypeOK, HandleDone, subVars, callVars, linkVars
  <1> QED
    BY <1>1, <1>2, <1>3, <1>4, <1>5, <1>6 DEF SessionEvent

LEMMA ReqType ==
    ASSUME TypeOK, NEW s \in Subs, NEW f \in Filters \cup {NoFilter}, RelayTakesReq(s, f)
    PROVE  net' \in Seq(Frames) /\ relaySubs' \in [Subs -> Filters \cup {NoFilter}]
  <1>1. relaySubs' \in [Subs -> Filters \cup {NoFilter}]
    BY DEF TypeOK, RelayTakesReq
  <1>2. \A h \in Hints, c \in RelayClasses :
           /\ Closed(s, c, h) \in Frames
           /\ Notice(h) \in Frames
           /\ Told("eose", s) \in Frames
    BY FrameType, RelayAssumption
  <1>3. \E fr \in Frames : net' = Append(net, fr)
    BY <1>2, FrameType DEF RelayTakesReq
  <1>4. net \in Seq(Frames)
    BY DEF TypeOK
  <1> QED
    BY <1>1, <1>3, <1>4, AppendFrame

LEMMA TypeTick == ASSUME TypeOK, AdmissionTick PROVE TypeOK'
  <1> PICK cut \in [PubPriorities -> 0..MaxPending] :
        /\ IsExpiredPrefix(cut)
        /\ LET q    == AfterExpiry(cut)
               lane == AdmissionLane(task # NoTask, q) IN
             /\ answer' = [p \in Pubs |-> IF p \in ExpiredPubs(cut) THEN "local"
                                          ELSE answer[p]]
             /\ \/ gate > 0 /\ AdmitNothing(q)
                \/ gate = 0 /\ lane \in {"interactive", "deferred"}
                     /\ AdmitPublication(lane, q)
                \/ gate = 0 /\ lane = "subscription" /\ AdmitSubscription(q)
                \/ gate = 0 /\ lane = "idle" /\ AdmitNothing(q)
    BY DEF AdmissionTick
  <1> DEFINE q == AfterExpiry(cut)
             lane == AdmissionLane(task # NoTask, q)
  <1>1. q \in [PubPriorities -> Seq(QueueItem)]
    BY AfterExpiryType
  <1>2. answer' \in [Pubs -> Outcomes \cup {"local", "offline"}]
    BY DEF TypeOK
  <1>3. UNCHANGED <<gate, publishDone, verdict, wire, owed>>
    BY DEF AdmissionTick
  <1>4. \/ AdmitNothing(q) \/ AdmitSubscription(q)
        \/ lane \in {"interactive", "deferred"} /\ AdmitPublication(lane, q)
    OBVIOUS
  <1> HIDE DEF q, lane
  <1>5. CASE AdmitNothing(q)
    BY <1>1, <1>2, <1>3, <1>5 DEF TypeOK, AdmitNothing, subVars
  <1>6. CASE AdmitSubscription(q)
    <2> PICK s \in NextSubscriptions :
         \/ /\ sock = "up"
            /\ SendReq(s)
            /\ tickDue' = FALSE
            /\ UNCHANGED <<phase, locallyClosing, sock>>
         \/ /\ sock = "down"
            /\ SendCanFail
            /\ LeaveSession("top")
            /\ UNCHANGED desired
      BY <1>6 DEF AdmitSubscription
    <2>1. s \in Subs /\ desired[s] \in Entry
      BY DEF TypeOK, NextSubscriptions, Due
    <2>2. queue' = q /\ task' = task
      BY <1>6 DEF AdmitSubscription
    <2>3. CASE LeaveSession("top") /\ UNCHANGED desired
      BY <1>1, <1>2, <1>3, <2>2, <2>3, LeaveSessionType DEF TypeOK
    <2>4. CASE SendReq(s) /\ tickDue' = FALSE /\ UNCHANGED <<phase, locallyClosing, sock>>
      <3>1. [desired[s] EXCEPT !.needsSend = FALSE, !.retryIn = 0] \in Entry
        BY <2>1 DEF Entry
      <3>2. desired' \in [Subs -> Entry]
        BY <2>1, <2>4, <3>1 DEF TypeOK, SendReq
      <3>3. desired[s].filter \in Filters \cup {NoFilter}
        BY <2>1 DEF Entry
      <3>4. net' \in Seq(Frames) /\ relaySubs' \in [Subs -> Filters \cup {NoFilter}]
        BY <2>1, <2>4, <3>3, ReqType DEF SendReq
      <3>5. wireOpen' \subseteq Subs
        BY <2>1, <2>4 DEF TypeOK, SendReq
      <3> QED
        BY <1>1, <1>2, <1>3, <2>2, <2>4, <3>2, <3>4, <3>5 DEF TypeOK
    <2> QED
      BY <2>3, <2>4
  <1>7. CASE lane \in {"interactive", "deferred"} /\ AdmitPublication(lane, q)
    <2> DEFINE from == PoppedQueue(lane, q)
    <2>1. from \in PubPriorities
      BY DEF PoppedQueue, PubPriorities
    <2>2. q[from] \in Seq(QueueItem) /\ q[from] # <<>>
      BY <1>1, <1>7, <2>1 DEF lane, AdmissionLane, PoppedQueue, HasDeferred, PubPriorities
    <2>3. Head(q[from]).pub \in Pubs /\ Tail(q[from]) \in Seq(QueueItem)
      BY <2>2, PopType
    <2>4. queue' \in [PubPriorities -> Seq(QueueItem)]
      BY <1>1, <1>7, <2>3 DEF AdmitPublication, Popped
    <2>5. task' \in PublishTask
      BY <1>7, <2>3 DEF AdmitPublication, PublishTask, Stages, Outcomes
    <2> QED
      BY <1>2, <1>3, <1>7, <2>4, <2>5 DEF TypeOK, AdmitPublication, subVars
  <1> QED
    BY <1>4, <1>5, <1>6, <1>7

LEMMA TypeTask == ASSUME TypeOK, Task PROVE TypeOK'
  <1>0. task # NoTask /\ task \in PublishTask /\ task.pub \in Pubs
    BY DEF TypeOK, Task, TaskWrite, TaskSessionLost, TaskTimeout, TaskAcknowledged,
           TaskReport, TaskRespond, TaskEnd, PublishTask
  <1>1. CASE TaskWrite
    BY <1>0, <1>1 DEF TypeOK, TaskWrite, PublishTask, Stages, subVars, timeVars, callVars,
                      linkVars
  <1>2. CASE TaskSessionLost
    BY <1>0, <1>2, SettleType DEF TypeOK, TaskSessionLost, Outcomes, subVars, timeVars,
                      callVars, linkVars
  <1>3. CASE TaskTimeout
    BY <1>0, <1>3, SettleType DEF TypeOK, TaskTimeout, Outcomes, subVars, timeVars,
                      callVars, linkVars
  <1>4. CASE TaskAcknowledged
    <2>1. task' \in PublishTask
      BY <1>0, <1>4, SettleType DEF TaskAcknowledged, Outcomes
    <2> QED
      BY <1>4, <2>1 DEF TypeOK, TaskAcknowledged, subVars, timeVars, callVars, linkVars
  <1>5. CASE TaskReport
    <2>1. task.hint \in Hints \cup {0} /\ [task EXCEPT !.stage = "reported"] \in PublishTask
      BY <1>0 DEF PublishTask, Stages
    <2>2. Append(publishDone, task.hint) \in Seq(Hints \cup {0})
      BY <2>1 DEF TypeOK
    <2> QED
      BY <1>5, <2>1, <2>2 DEF TypeOK, TaskReport, subVars, timeVars, callVars, linkVars
  <1>6. CASE TaskRespond
    <2>1. task.result \in Outcomes /\ [task EXCEPT !.stage = "responded"] \in PublishTask
      BY <1>0 DEF PublishTask, Stages
    <2> QED
      BY <1>0, <1>6, <2>1 DEF TypeOK, TaskRespond, subVars, timeVars, linkVars
  <1>7. CASE TaskEnd
    BY <1>7 DEF TypeOK, TaskEnd, subVars, timeVars, callVars, linkVars
  <1> QED
    BY <1>1, <1>2, <1>3, <1>4, <1>5, <1>6, <1>7 DEF Task

LEMMA TypeEnvironment == ASSUME TypeOK, Environment PROVE TypeOK'
  <1>0. net \in Seq(Frames)
    BY DEF TypeOK
  <1>1. CASE \E p \in Pubs : RelayDecides(p)
    BY <1>1 DEF TypeOK, RelayDecides, subVars, timeVars, callVars, taskVars
  <1>2. CASE \E s \in Subs : RelaySends(s)
    <2> PICK s \in Subs : RelaySends(s)
      BY <1>2
    <2>1. net' \in Seq(Frames)
      BY <1>0, FrameType, AppendFrame DEF RelaySends
    <2> QED
      BY <2>1 DEF TypeOK, RelaySends, subVars, timeVars, callVars, taskVars
  <1>3. CASE \E s \in Subs : RelayCloses(s)
    <2> PICK s \in Subs : RelayCloses(s)
      BY <1>3
    <2>1. \A c \in RelayClasses, h \in Hints : Closed(s, c, h) \in Frames
      BY FrameType, RelayAssumption
    <2>2. net' \in Seq(Frames)
      BY <1>0, <2>1, AppendFrame DEF RelayCloses
    <2> QED
      BY <2>2 DEF TypeOK, RelayCloses, subVars, timeVars, callVars, taskVars
  <1>4. CASE RelayNotices
    <2>1. net' \in Seq(Frames)
      BY <1>0, <1>4, FrameType, AppendFrame DEF RelayNotices
    <2>2. task' \in PublishTask \cup {NoTask}
      BY <1>4, SettleType DEF TypeOK, RelayNotices, Outcomes
    <2> QED
      BY <1>4, <2>1, <2>2 DEF TypeOK, RelayNotices, subVars, timeVars, callVars
  <1>5. CASE SocketDies
    <2>1. net' \in Seq(Frames)
      BY <1>0, <1>5, FrameType, AppendFrame DEF SocketDies
    <2> QED
      BY <1>5, <2>1, LosesSessionType DEF TypeOK, SocketDies, subVars, timeVars, callVars
  <1>6. CASE Elapse
    <2>1. gate' \in Nat /\ owed' \in Nat
      BY <1>6, Numbers DEF TypeOK, Elapse
    <2>2. \A s \in Subs : [desired[s] EXCEPT !.retryIn = Elapsed(@)] \in Entry
      <3> TAKE s \in Subs
      <3>1. desired[s] \in Entry
        BY DEF TypeOK
      <3>2. Elapsed(desired[s].retryIn) \in Nat
        BY <3>1, Numbers DEF Entry
      <3> QED
        BY <3>1, <3>2 DEF Entry
    <2>3. desired' \in [Subs -> Entry]
      BY <1>6, <2>2 DEF Elapse
    <2>4. queue' \in [PubPriorities -> Seq(QueueItem)]
      BY <1>6, AgedType DEF TypeOK, Elapse
    <2>5. tickDue' \in BOOLEAN
      BY <1>6 DEF Elapse
    <2> QED
      BY <1>6, <2>1, <2>3, <2>4, <2>5 DEF TypeOK, Elapse, taskVars, linkVars
  <1> QED
    BY <1>1, <1>2, <1>3, <1>4, <1>5, <1>6 DEF Environment

LEMMA TypeNext == TypeOK /\ [Next]_vars => TypeOK'
  <1> SUFFICES ASSUME TypeOK, [Next]_vars PROVE TypeOK'
    OBVIOUS
  <1>1. CASE Next
    BY <1>1, TypeConnection, TypeCommand, TypeSessionEvent, TypeTick, TypeTask,
       TypeEnvironment DEF Next
  <1>2. CASE UNCHANGED vars
    BY <1>2 DEF vars, TypeOK
  <1> QED
    BY <1>1, <1>2

\* The locals of the supervisor and what surrounds it keep their types, whatever
\* the bounds, the hints and the relay.
THEOREM TypeCorrect == Spec => []TypeOK
  BY TypeInit, TypeNext, PTL DEF Spec
-----------------------------------------------------------------------------
(* The promises to the callers of publish *)

LEMMA QueuedAt ==
    \A p : p \in Queued <=> \E a \in PubPriorities : \E i \in 1..Len(queue[a]) :
                               queue[a][i].pub = p
  BY DEF Queued, QueuedIn

LEMMA QueuedPubs == TypeOK => Queued \subseteq Pubs
  <1> SUFFICES ASSUME TypeOK, NEW a \in PubPriorities, NEW i \in 1..Len(queue[a])
               PROVE  queue[a][i].pub \in Pubs
    BY QueuedAt
  <1>1. queue[a][i] \in QueueItem
    BY DEF TypeOK
  <1> QED
    BY <1>1 DEF QueueItem

LEMMA PublicationInit == Init => PublicationInv
  <1> SUFFICES ASSUME Init PROVE PublicationInv
    OBVIOUS
  <1>1. \A a \in PubPriorities : Len(queue[a]) = 0
    BY DEF Init, EmptyQueues
  <1>2. Queued = {}
    BY <1>1, QueuedAt
  <1> QED
    BY <1>1, <1>2 DEF Init, PublicationInv, Distinct, QueuedInv, TaskInv, LocalMeansUnsent,
                      AnswersAreTheRelays, OneUnsettledOnWire

\* Steps that leave the calls alone.
LEMMA PublicationIdle ==
    ASSUME PublicationInv, UNCHANGED <<queue, answer, task, wire, verdict>>
    PROVE  PublicationInv'
  BY DEF PublicationInv, Distinct, Queued, QueuedIn, QueuedInv, TaskInv, LocalMeansUnsent,
         AnswersAreTheRelays, OneUnsettledOnWire, Holds

\* What a step may do to the task without moving it on.
SameTask ==
    /\ task = NoTask <=> task' = NoTask
    /\ task # NoTask =>
          /\ task'.pub = task.pub /\ task'.stage = task.stage
          /\ task'.result = task.result

LEMMA LosesSessionSame == ASSUME TypeOK, TaskLosesSession PROVE SameTask
  <1>1. CASE task = NoTask
    BY <1>1 DEF TaskLosesSession, SameTask
  <1>2. CASE task \in PublishTask
    <2>1. task' = [task EXCEPT !.live = FALSE]
      BY <1>2, TaskAssumption DEF TaskLosesSession
    <2>2. task' \in PublishTask
      BY <1>2, <2>1 DEF PublishTask
    <2> QED
      BY <1>2, <2>1, <2>2, TaskAssumption DEF SameTask, PublishTask
  <1> QED
    BY <1>1, <1>2 DEF TypeOK

LEMMA PublicationSameTask ==
    ASSUME PublicationInv, SameTask, UNCHANGED <<queue, answer, wire, verdict>>
    PROVE  PublicationInv'
  <1>1. Distinct' /\ Queued' = Queued
    BY DEF PublicationInv, Distinct, Queued, QueuedIn
  <1>2. \A p : Holds(p)' <=> Holds(p)
    BY DEF SameTask, Holds
  <1> QED
    BY <1>1, <1>2 DEF PublicationInv, QueuedInv, TaskInv, LocalMeansUnsent,
                      AnswersAreTheRelays, OneUnsettledOnWire, SameTask

\* A session that ends: the queued calls are told that nothing was sent.
LEMMA PublicationRejectAll ==
    ASSUME TypeOK, PublicationInv, RejectAll, SameTask, UNCHANGED <<wire, verdict>>
    PROVE  PublicationInv'
  <1>1. \A a \in PubPriorities : Len(queue'[a]) = 0
    BY DEF RejectAll, EmptyQueues
  <1>2. Queued' = {} /\ Distinct'
    BY <1>1 DEF Queued, QueuedIn, Distinct
  <1>3. \A p : Holds(p)' <=> Holds(p)
    BY DEF SameTask, Holds
  <1>4. \A p \in Pubs : answer'[p] = IF p \in Queued THEN "local" ELSE answer[p]
    BY DEF RejectAll
  <1>5. task # NoTask => task.pub \in Pubs /\ task.pub \notin Queued
    BY DEF TypeOK, PublishTask, PublicationInv, QueuedInv, Holds
  <1>6. QueuedInv'
    BY <1>2 DEF QueuedInv
  <1>7. TaskInv'
    BY <1>4, <1>5 DEF PublicationInv, TaskInv, SameTask
  <1>8. LocalMeansUnsent'
    BY <1>4 DEF PublicationInv, QueuedInv, LocalMeansUnsent
  <1>9. AnswersAreTheRelays'
    BY <1>4 DEF PublicationInv, AnswersAreTheRelays
  <1>10. OneUnsettledOnWire'
    BY <1>3, <1>4 DEF TypeOK, PublicationInv, OneUnsettledOnWire
  <1> QED
    BY <1>2, <1>6, <1>7, <1>8, <1>9, <1>10 DEF PublicationInv

LEMMA PublicationSettle ==
    ASSUME TypeOK, PublicationInv, task # NoTask,
           task.stage \in {"spawned", "awaiting"},
           NEW r \in Outcomes \ {"none"}, NEW h \in Hints \cup {0},
           r \in {"accepted", "rejected", "limited"} => verdict[task.pub] = r,
           SettleAs(r, h), UNCHANGED <<queue, answer, wire, verdict>>
    PROVE  PublicationInv'
  <1>1. task \in PublishTask
    BY DEF TypeOK
  <1>2. task' \in PublishTask
    BY SettleType
  <1>3. /\ task' # NoTask /\ task'.pub = task.pub /\ task'.stage = "settled"
        /\ task'.result = r
    BY <1>1, <1>2, TaskAssumption DEF SettleAs, PublishTask
  <1>4. Distinct' /\ Queued' = Queued
    BY DEF PublicationInv, Distinct, Queued, QueuedIn
  <1>5. \A p : Holds(p)' <=> Holds(p)
    BY <1>3 DEF Holds
  <1> QED
    BY <1>3, <1>4, <1>5 DEF PublicationInv, QueuedInv, TaskInv, LocalMeansUnsent,
                            AnswersAreTheRelays, OneUnsettledOnWire

LEMMA PublicationTask == ASSUME TypeOK, PublicationInv, Task PROVE PublicationInv'
  <1>0. task # NoTask /\ task \in PublishTask /\ task.pub \in Pubs
    BY DEF TypeOK, Task, TaskWrite, TaskSessionLost, TaskTimeout, TaskAcknowledged,
           TaskReport, TaskRespond, TaskEnd, PublishTask
  <1>1. CASE TaskWrite
    <2>1. task'.pub = task.pub /\ task'.stage = "awaiting" /\ task' \in PublishTask
      BY <1>0, <1>1 DEF TaskWrite, PublishTask, Stages
    <2>2. task' # NoTask
      BY <2>1, TaskAssumption
    <2>3. /\ Distinct' /\ Queued' = Queued
          /\ answer' = answer /\ verdict' = verdict /\ wire' = wire \cup {task.pub}
      BY <1>1 DEF TaskWrite, PublicationInv, Distinct, Queued, QueuedIn, callVars, linkVars
    <2>4. \A p : Holds(p)' <=> Holds(p)
      BY <1>0, <2>1, <2>2 DEF Holds
    <2>5. Holds(task.pub) /\ answer[task.pub] = "none"
      BY <1>0, <1>1 DEF Holds, PublicationInv, TaskInv, TaskWrite
    <2> QED
      BY <2>1, <2>2, <2>3, <2>4, <2>5 DEF PublicationInv, QueuedInv, TaskInv,
         LocalMeansUnsent, AnswersAreTheRelays, OneUnsettledOnWire
  <1>2. CASE TaskSessionLost
    BY <1>0, <1>2, PublicationSettle DEF TaskSessionLost, Outcomes, callVars, linkVars
  <1>3. CASE TaskTimeout
    BY <1>0, <1>3, PublicationSettle DEF TaskTimeout, Outcomes, callVars, linkVars
  <1>4. CASE TaskAcknowledged
    BY <1>0, <1>4, PublicationSettle DEF TaskAcknowledged, Outcomes, callVars, linkVars
  <1>5. CASE TaskReport
    <2>1. /\ task'.pub = task.pub /\ task'.stage = "reported"
          /\ task'.result = task.result /\ task' \in PublishTask
      BY <1>0, <1>5 DEF TaskReport, PublishTask, Stages
    <2>2. task' # NoTask
      BY <2>1, TaskAssumption
    <2>3. /\ Distinct' /\ Queued' = Queued
          /\ answer' = answer /\ verdict' = verdict /\ wire' = wire
      BY <1>5 DEF TaskReport, PublicationInv, Distinct, Queued, QueuedIn, callVars, linkVars
    <2>4. \A p : Holds(p)' <=> Holds(p)
      BY <1>0, <2>1, <2>2 DEF Holds
    <2>5. task.stage = "settled"
      BY <1>5 DEF TaskReport
    <2>6. TaskInv'
      BY <1>0, <2>1, <2>3, <2>5 DEF PublicationInv, TaskInv
    <2> QED
      BY <2>3, <2>4, <2>6 DEF PublicationInv, QueuedInv, LocalMeansUnsent,
                              AnswersAreTheRelays, OneUnsettledOnWire
  <1>6. CASE TaskRespond
    <2>1. task'.pub = task.pub /\ task'.stage = "responded" /\ task' \in PublishTask
      BY <1>0, <1>6 DEF TaskRespond, PublishTask, Stages
    <2>2. task' # NoTask
      BY <2>1, TaskAssumption
    <2>3. /\ Distinct' /\ Queued' = Queued
          /\ verdict' = verdict /\ wire' = wire
          /\ answer' = [answer EXCEPT ![task.pub] = task.result]
      BY <1>6 DEF TaskRespond, PublicationInv, Distinct, Queued, QueuedIn, linkVars
    <2>4. \A p : Holds(p)' <=> Holds(p)
      BY <1>0, <2>1, <2>2 DEF Holds
    <2>5. /\ task.result \in Outcomes /\ task.result # "none"
          /\ task.result \in {"accepted", "rejected", "limited"} =>
                verdict[task.pub] = task.result
      BY <1>0, <1>6 DEF TaskRespond, PublicationInv, TaskInv, PublishTask
    <2>6. \A p \in Pubs : answer'[p] = IF p = task.pub THEN task.result ELSE answer[p]
      BY <1>0, <2>3 DEF TypeOK
    <2>7. QueuedInv'
      <3>1. \A p \in Queued : p \in Pubs /\ p # task.pub
        BY <1>0, QueuedPubs DEF PublicationInv, QueuedInv, Holds
      <3> QED
        BY <2>3, <2>4, <2>6, <3>1 DEF PublicationInv, QueuedInv
    <2>8. TaskInv'
      BY <1>0, <2>1, <2>5, <2>6 DEF TaskInv
    <2>9. LocalMeansUnsent' /\ AnswersAreTheRelays'
      BY <2>3, <2>5, <2>6 DEF PublicationInv, LocalMeansUnsent, AnswersAreTheRelays, Outcomes
    <2>10. OneUnsettledOnWire'
      BY <2>3, <2>4, <2>5, <2>6 DEF TypeOK, PublicationInv, OneUnsettledOnWire
    <2> QED
      BY <2>3, <2>7, <2>8, <2>9, <2>10 DEF PublicationInv
  <1>7. CASE TaskEnd
    <2>1. /\ Distinct' /\ Queued' = Queued
          /\ verdict' = verdict /\ wire' = wire /\ answer' = answer
      BY <1>7 DEF TaskEnd, PublicationInv, Distinct, Queued, QueuedIn, callVars, linkVars
    <2>2. \A p : ~Holds(p)'
      BY <1>7 DEF TaskEnd, Holds
    <2>3. answer[task.pub] # "none"
      BY <1>7 DEF TaskEnd, PublicationInv, TaskInv
    <2> QED
      BY <1>7, <2>1, <2>2, <2>3 DEF TaskEnd, PublicationInv, QueuedInv, TaskInv, Holds,
         LocalMeansUnsent, AnswersAreTheRelays, OneUnsettledOnWire
  <1> QED
    BY <1>1, <1>2, <1>3, <1>4, <1>5, <1>6, <1>7 DEF Task

PubsIn(q) == UNION {QueuedIn(q[a]) : a \in PubPriorities}

DistinctIn(q) ==
    \A a, b \in PubPriorities : \A i \in 1..Len(q[a]), j \in 1..Len(q[b]) :
        q[a][i].pub = q[b][j].pub => a = b /\ i = j

LEMMA PubsInAt ==
    ASSUME NEW q
    PROVE  \A p : p \in PubsIn(q) <=> \E a \in PubPriorities : \E i \in 1..Len(q[a]) :
                                         q[a][i].pub = p
  BY DEF PubsIn, QueuedIn

LEMMA CutPrefix ==
    ASSUME NEW q \in Seq(QueueItem), NEW c \in 0..Len(q)
    PROVE  /\ Len(SubSeq(q, c + 1, Len(q))) = Len(q) - c
           /\ \A i \in 1..(Len(q) - c) : /\ i + c \in 1..Len(q)
                                         /\ SubSeq(q, c + 1, Len(q))[i] = q[i + c]
  OBVIOUS

\* reject_expired leaves the queues distinct and apart from what it refused.
LEMMA ExpirySplits ==
    ASSUME TypeOK, Distinct, NEW cut \in [PubPriorities -> 0..MaxPending],
           IsExpiredPrefix(cut)
    PROVE  /\ DistinctIn(AfterExpiry(cut))
           /\ PubsIn(AfterExpiry(cut)) \subseteq Queued
           /\ ExpiredPubs(cut) \subseteq Queued
           /\ PubsIn(AfterExpiry(cut)) \cap ExpiredPubs(cut) = {}
  <1> DEFINE q == AfterExpiry(cut)
  <1>1. \A a \in PubPriorities :
           /\ queue[a] \in Seq(QueueItem)
           /\ cut[a] \in 0..Len(queue[a])
    BY PubAssumption DEF TypeOK, IsExpiredPrefix
  <1>2. \A a \in PubPriorities :
           /\ Len(q[a]) = Len(queue[a]) - cut[a]
           /\ \A i \in 1..Len(q[a]) : /\ i + cut[a] \in 1..Len(queue[a])
                                      /\ q[a][i] = queue[a][i + cut[a]]
    <2> TAKE a \in PubPriorities
    <2>1. q[a] = SubSeq(queue[a], cut[a] + 1, Len(queue[a]))
      BY DEF AfterExpiry
    <2>2. queue[a] \in Seq(QueueItem) /\ cut[a] \in 0..Len(queue[a])
      BY <1>1
    <2>3. /\ Len(q[a]) = Len(queue[a]) - cut[a]
          /\ \A i \in 1..(Len(queue[a]) - cut[a]) : /\ i + cut[a] \in 1..Len(queue[a])
                                                    /\ q[a][i] = queue[a][i + cut[a]]
      BY <2>1, <2>2, CutPrefix
    <2> HIDE DEF q
    <2> QED
      BY <2>3
  <1> HIDE DEF q
  <1>3. DistinctIn(q)
    <2> SUFFICES ASSUME NEW a \in PubPriorities, NEW b \in PubPriorities,
                        NEW i \in 1..Len(q[a]), NEW j \in 1..Len(q[b]),
                        q[a][i].pub = q[b][j].pub
                 PROVE  a = b /\ i = j
      BY DEF DistinctIn
    <2>0. /\ i + cut[a] \in 1..Len(queue[a]) /\ j + cut[b] \in 1..Len(queue[b])
          /\ queue[a][i + cut[a]].pub = queue[b][j + cut[b]].pub
      BY <1>2
    <2> DEFINE x == i + cut[a]
               y == j + cut[b]
    <2> HIDE DEF x, y
    <2>1. /\ x \in 1..Len(queue[a]) /\ y \in 1..Len(queue[b])
          /\ queue[a][x].pub = queue[b][y].pub
      BY <2>0 DEF x, y
    <2>2. a = b /\ x = y
      BY <2>1 DEF Distinct
    <2> QED
      BY <1>1, <2>2 DEF x, y
  <1>4. PubsIn(q) \subseteq Queued
    <2> SUFFICES ASSUME NEW p, NEW a \in PubPriorities, NEW i \in 1..Len(q[a]),
                        q[a][i].pub = p
                 PROVE  p \in Queued
      BY PubsInAt
    <2>1. i + cut[a] \in 1..Len(queue[a]) /\ queue[a][i + cut[a]].pub = p
      BY <1>2
    <2> QED
      BY <2>1, QueuedAt
  <1>5. \A p \in ExpiredPubs(cut) : \E a \in PubPriorities : \E i \in 1..cut[a] :
           queue[a][i].pub = p
    BY DEF ExpiredPubs
  <1>6. ExpiredPubs(cut) \subseteq Queued
    <2> SUFFICES ASSUME NEW p \in ExpiredPubs(cut) PROVE p \in Queued
      OBVIOUS
    <2>1. PICK a \in PubPriorities : \E i \in 1..cut[a] : queue[a][i].pub = p
      BY <1>5
    <2>2. PICK i \in 1..cut[a] : queue[a][i].pub = p
      BY <2>1
    <2>3. i \in 1..Len(queue[a])
      BY <1>1
    <2> QED
      BY <2>2, <2>3, QueuedAt
  <1>7. ASSUME NEW p \in PubsIn(q), p \in ExpiredPubs(cut) PROVE FALSE
    <2>1. PICK a \in PubPriorities : \E i \in 1..cut[a] : queue[a][i].pub = p
      BY <1>5, <1>7
    <2>2. PICK i \in 1..cut[a] : queue[a][i].pub = p
      BY <2>1
    <2>3. PICK b \in PubPriorities : \E j \in 1..Len(q[b]) : q[b][j].pub = p
      BY PubsInAt
    <2>4. PICK j \in 1..Len(q[b]) : q[b][j].pub = p
      BY <2>3
    <2>5. i \in 1..Len(queue[a]) /\ j + cut[b] \in 1..Len(queue[b])
      BY <1>1, <1>2
    <2>6. queue[b][j + cut[b]].pub = p
      BY <1>2, <2>4
    <2>7. a = b /\ i = j + cut[b]
      BY <2>2, <2>5, <2>6 DEF Distinct
    <2> QED
      BY <1>1, <2>7
  <1> QED
    BY <1>3, <1>4, <1>6, <1>7 DEF q

\* pop_front takes its call out of the queues.
LEMMA PopSplits ==
    ASSUME NEW q \in [PubPriorities -> Seq(QueueItem)], DistinctIn(q),
           NEW from \in PubPriorities, q[from] # <<>>
    PROVE  /\ DistinctIn(Popped(q, from))
           /\ Head(q[from]).pub \in PubsIn(q)
           /\ PubsIn(Popped(q, from)) \subseteq PubsIn(q) \ {Head(q[from]).pub}
  <1> DEFINE r == Popped(q, from)
             k(a) == IF a = from THEN 1 ELSE 0
  <1>0. /\ Len(q[from]) \in Nat \ {0} /\ Head(q[from]) = q[from][1]
        /\ Len(Tail(q[from])) = Len(q[from]) - 1
        /\ \A i \in 1..Len(Tail(q[from])) : Tail(q[from])[i] = q[from][i + 1]
    OBVIOUS
  <1>1. \A a \in PubPriorities :
           /\ Len(q[a]) \in Nat
           /\ \A i \in 1..Len(r[a]) : /\ i + k(a) \in 1..Len(q[a])
                                      /\ r[a][i] = q[a][i + k(a)]
    <2> TAKE a \in PubPriorities
    <2>1. CASE a = from
      BY <1>0, <2>1 DEF Popped
    <2>2. CASE a # from
      BY <2>2 DEF Popped
    <2> QED
      BY <2>1, <2>2
  <1> HIDE DEF r
  <1>2. DistinctIn(r)
    <2> SUFFICES ASSUME NEW a \in PubPriorities, NEW b \in PubPriorities,
                        NEW i \in 1..Len(r[a]), NEW j \in 1..Len(r[b]),
                        r[a][i].pub = r[b][j].pub
                 PROVE  a = b /\ i = j
      BY DEF DistinctIn
    <2>0. /\ i + k(a) \in 1..Len(q[a]) /\ j + k(b) \in 1..Len(q[b])
          /\ q[a][i + k(a)].pub = q[b][j + k(b)].pub
      BY <1>1
    <2>1. a = b /\ i + k(a) = j + k(b)
      BY <2>0 DEF DistinctIn
    <2> QED
      BY <2>1
  <1>3. q[from][1].pub \in PubsIn(q)
    BY <1>0, PubsInAt
  <1>4. ASSUME NEW p \in PubsIn(r) PROVE p \in PubsIn(q) /\ p # q[from][1].pub
    <2>1. PICK a \in PubPriorities : \E i \in 1..Len(r[a]) : r[a][i].pub = p
      BY PubsInAt
    <2>2. PICK i \in 1..Len(r[a]) : r[a][i].pub = p
      BY <2>1
    <2>3. i + k(a) \in 1..Len(q[a]) /\ q[a][i + k(a)].pub = p
      BY <1>1, <2>2
    <2>4. p \in PubsIn(q)
      BY <2>3, PubsInAt
    <2>5. ASSUME p = q[from][1].pub PROVE FALSE
      <3>1. a = from /\ i + k(a) = 1
        BY <1>0, <2>3, <2>5 DEF DistinctIn
      <3> QED
        BY <3>1
    <2> QED
      BY <2>4, <2>5
  <1> QED
    BY <1>0, <1>2, <1>3, <1>4 DEF r

\* The queues shrink and what they lose by age is refused.
LEMMA PublicationShrink ==
    ASSUME TypeOK, PublicationInv, NEW gone \in SUBSET Queued,
           Distinct', Queued' \subseteq Queued \ gone,
           answer' = [p \in Pubs |-> IF p \in gone THEN "local" ELSE answer[p]],
           UNCHANGED <<task, wire, verdict>>
    PROVE  PublicationInv'
  <1>1. \A p : Holds(p)' <=> Holds(p)
    BY DEF Holds
  <1>2. \A p \in Pubs : answer'[p] = IF p \in gone THEN "local" ELSE answer[p]
    OBVIOUS
  <1>3. Queued \subseteq Pubs /\ wire \subseteq Pubs
    BY QueuedPubs DEF TypeOK
  <1>4. QueuedInv'
    BY <1>1, <1>2, <1>3 DEF PublicationInv, QueuedInv
  <1>5. task # NoTask => task.pub \in Pubs /\ task.pub \notin Queued
    BY DEF TypeOK, PublishTask, PublicationInv, QueuedInv, Holds
  <1>6. TaskInv'
    BY <1>2, <1>5 DEF PublicationInv, TaskInv
  <1>7. LocalMeansUnsent' /\ AnswersAreTheRelays'
    BY <1>2 DEF PublicationInv, QueuedInv, LocalMeansUnsent, AnswersAreTheRelays
  <1>8. OneUnsettledOnWire'
    BY <1>1, <1>2, <1>3 DEF PublicationInv, OneUnsettledOnWire
  <1> QED
    BY <1>4, <1>6, <1>7, <1>8 DEF PublicationInv

\* One more call leaves the queues, for the task.
LEMMA PublicationSpawn ==
    ASSUME TypeOK, PublicationInv, NEW gone \in SUBSET Queued, task = NoTask,
           NEW p0 \in Queued \ gone,
           Distinct', Queued' \subseteq Queued \ (gone \cup {p0}),
           answer' = [p \in Pubs |-> IF p \in gone THEN "local" ELSE answer[p]],
           task' \in PublishTask, task'.pub = p0, task'.stage = "spawned",
           UNCHANGED <<wire, verdict>>
    PROVE  PublicationInv'
  <1>1. task' # NoTask /\ \A p : Holds(p)' <=> p = p0
    BY TaskAssumption DEF Holds
  <1>2. \A p \in Pubs : answer'[p] = IF p \in gone THEN "local" ELSE answer[p]
    OBVIOUS
  <1>3. Queued \subseteq Pubs /\ wire \subseteq Pubs
    BY QueuedPubs DEF TypeOK
  <1>4. QueuedInv'
    BY <1>1, <1>2, <1>3 DEF PublicationInv, QueuedInv
  <1>5. p0 \notin wire /\ answer'[p0] = "none"
    BY <1>2, <1>3 DEF PublicationInv, QueuedInv
  <1>6. TaskInv'
    BY <1>5 DEF TaskInv
  <1>7. LocalMeansUnsent' /\ AnswersAreTheRelays'
    BY <1>2 DEF PublicationInv, QueuedInv, LocalMeansUnsent, AnswersAreTheRelays
  <1>8. OneUnsettledOnWire'
    BY <1>1, <1>2, <1>3 DEF PublicationInv, OneUnsettledOnWire, Holds
  <1> QED
    BY <1>4, <1>6, <1>7, <1>8 DEF PublicationInv

LEMMA PublicationTick == ASSUME TypeOK, PublicationInv, AdmissionTick PROVE PublicationInv'
  <1> PICK cut \in [PubPriorities -> 0..MaxPending] :
        /\ IsExpiredPrefix(cut)
        /\ LET q    == AfterExpiry(cut)
               lane == AdmissionLane(task # NoTask, q) IN
             /\ answer' = [p \in Pubs |-> IF p \in ExpiredPubs(cut) THEN "local"
                                          ELSE answer[p]]
             /\ \/ gate > 0 /\ AdmitNothing(q)
                \/ gate = 0 /\ lane \in {"interactive", "deferred"}
                     /\ AdmitPublication(lane, q)
                \/ gate = 0 /\ lane = "subscription" /\ AdmitSubscription(q)
                \/ gate = 0 /\ lane = "idle" /\ AdmitNothing(q)
    BY DEF AdmissionTick
  <1> DEFINE q == AfterExpiry(cut)
             lane == AdmissionLane(task # NoTask, q)
             gone == ExpiredPubs(cut)
  <1>1. answer' = [p \in Pubs |-> IF p \in gone THEN "local" ELSE answer[p]]
    OBVIOUS
  <1>2. UNCHANGED <<wire, verdict>>
    BY DEF AdmissionTick
  <1>3. \/ AdmitNothing(q) \/ AdmitSubscription(q)
        \/ lane \in {"interactive", "deferred"} /\ AdmitPublication(lane, q)
    OBVIOUS
  <1>4. /\ DistinctIn(q) /\ PubsIn(q) \subseteq Queued \ gone
        /\ gone \in SUBSET Queued
    BY ExpirySplits DEF PublicationInv
  <1>5. q \in [PubPriorities -> Seq(QueueItem)]
    BY AfterExpiryType
  <1> HIDE DEF q, lane, gone
  <1>6. CASE AdmitNothing(q) \/ AdmitSubscription(q)
    <2>1. queue' = q /\ task' = task
      BY <1>6 DEF AdmitNothing, AdmitSubscription
    <2>2. Distinct' /\ Queued' \subseteq Queued \ gone
      <3>1. Distinct'
        BY <1>4, <2>1 DEF Distinct, DistinctIn
      <3>2. Queued' = PubsIn(q)
        BY <2>1 DEF Queued, PubsIn
      <3> QED
        BY <1>4, <3>1, <3>2
    <2> QED
      BY <1>1, <1>2, <1>4, <2>1, <2>2, PublicationShrink
  <1>7. CASE lane \in {"interactive", "deferred"} /\ AdmitPublication(lane, q)
    <2> DEFINE from == PoppedQueue(lane, q)
               p0 == Head(q[from]).pub
    <2>1. from \in PubPriorities
      BY DEF PoppedQueue, PubPriorities
    <2>2. q[from] # <<>> /\ task = NoTask
      BY <1>7, <2>1 DEF lane, AdmissionLane, PoppedQueue, HasDeferred
    <2>3. queue' = Popped(q, from)
      BY <1>7 DEF AdmitPublication
    <2>4. /\ DistinctIn(queue') /\ p0 \in PubsIn(q)
          /\ PubsIn(queue') \subseteq PubsIn(q) \ {p0}
      BY <1>4, <1>5, <2>1, <2>2, <2>3, PopSplits
    <2>5. Distinct' /\ Queued' = PubsIn(queue')
      BY <2>4 DEF Distinct, DistinctIn, Queued, PubsIn
    <2>6. p0 \in Queued \ gone /\ Queued' \subseteq Queued \ (gone \cup {p0})
      BY <1>4, <2>4, <2>5
    <2>7. p0 \in Pubs
      BY <2>6, QueuedPubs
    <2>8. task' \in PublishTask /\ task'.pub = p0 /\ task'.stage = "spawned"
      BY <1>7, <2>7 DEF AdmitPublication, PublishTask, Stages, Outcomes
    <2> HIDE DEF from, p0
    <2> QED
      BY <1>1, <1>2, <1>4, <2>2, <2>5, <2>6, <2>8, PublicationSpawn
  <1> QED
    BY <1>3, <1>6, <1>7

LEMMA PublicationPublish ==
    ASSUME TypeOK, PublicationInv, NEW p \in Pubs, HandlePublish(p)
    PROVE  PublicationInv'
  <1>1. /\ answer[p] = "none" /\ p \notin Queued /\ ~Holds(p)
        /\ p \notin wire
    BY DEF HandlePublish, Fresh, Holds, PublicationInv, OneUnsettledOnWire
  <1>2. UNCHANGED <<task, wire, verdict>>
    BY DEF HandlePublish, taskVars, linkVars
  <1>3. \A x : Holds(x)' <=> Holds(x)
    BY <1>2 DEF Holds
  <1>4. CASE \E r \in {"offline", "local"} : /\ answer' = [answer EXCEPT ![p] = r]
                                             /\ UNCHANGED queue
    <2> PICK r \in {"offline", "local"} : answer' = [answer EXCEPT ![p] = r]
      BY <1>4
    <2>1. \A x \in Pubs : answer'[x] = IF x = p THEN r ELSE answer[x]
      BY DEF TypeOK
    <2>2. Distinct' /\ Queued' = Queued
      BY <1>4 DEF PublicationInv, Distinct, Queued, QueuedIn
    <2>3. QueuedInv'
      BY <1>1, <1>2, <1>3, <2>1, <2>2, QueuedPubs DEF PublicationInv, QueuedInv
    <2>4. TaskInv'
      <3>1. task # NoTask => task.pub \in Pubs /\ task.pub # p
        BY <1>1 DEF TypeOK, PublishTask, Holds
      <3> QED
        BY <1>2, <2>1, <3>1 DEF PublicationInv, TaskInv
    <2>5. LocalMeansUnsent' /\ AnswersAreTheRelays'
      BY <1>1, <1>2, <2>1 DEF PublicationInv, LocalMeansUnsent, AnswersAreTheRelays
    <2>6. OneUnsettledOnWire'
      BY <1>1, <1>2, <1>3, <2>1 DEF TypeOK, PublicationInv, OneUnsettledOnWire
    <2> QED
      BY <2>2, <2>3, <2>4, <2>5, <2>6 DEF PublicationInv
  <1>5. CASE /\ queue' = [queue EXCEPT ![PubPrio[p]] = Append(@, [pub |-> p, age |-> 0])]
             /\ UNCHANGED answer
    <2> DEFINE home == PubPrio[p]
    <2>0. home \in PubPriorities
      BY PubAssumption
    <2>1. \A a \in PubPriorities :
             /\ Len(queue[a]) \in Nat
             /\ a # home => queue'[a] = queue[a]
             /\ a = home => /\ Len(queue'[a]) = Len(queue[a]) + 1
                            /\ \A i \in 1..Len(queue[a]) : queue'[a][i] = queue[a][i]
                            /\ queue'[a][Len(queue[a]) + 1].pub = p
      <3> TAKE a \in PubPriorities
      <3>1. queue[a] \in Seq(QueueItem)
        BY DEF TypeOK
      <3>2. a # home => queue'[a] = queue[a]
        BY <1>5 DEF TypeOK
      <3>3. a = home => queue'[a] = Append(queue[a], [pub |-> p, age |-> 0])
        BY <1>5 DEF TypeOK
      <3> QED
        BY <3>1, <3>2, <3>3
    <2> HIDE DEF home
    <2>2. \A a \in PubPriorities : \A i \in 1..Len(queue'[a]) :
             \/ i \in 1..Len(queue[a]) /\ queue'[a][i] = queue[a][i]
             \/ a = home /\ i = Len(queue[a]) + 1 /\ queue'[a][i].pub = p
      BY <2>1
    <2>3. \A a \in PubPriorities : \A i \in 1..Len(queue[a]) : queue[a][i].pub # p
      BY <1>1, QueuedAt
    <2>4. Distinct'
      <3> SUFFICES ASSUME NEW a \in PubPriorities, NEW b \in PubPriorities,
                          NEW i \in 1..Len(queue'[a]), NEW j \in 1..Len(queue'[b]),
                          queue'[a][i].pub = queue'[b][j].pub
                   PROVE  a = b /\ i = j
        BY DEF Distinct
      <3> DEFINE OldI == i \in 1..Len(queue[a]) /\ queue'[a][i] = queue[a][i]
                 OldJ == j \in 1..Len(queue[b]) /\ queue'[b][j] = queue[b][j]
                 NewI == a = home /\ i = Len(queue[a]) + 1 /\ queue'[a][i].pub = p
                 NewJ == b = home /\ j = Len(queue[b]) + 1 /\ queue'[b][j].pub = p
      <3>1. CASE OldI /\ OldJ
        <4>1. queue[a][i].pub = queue[b][j].pub
          BY <3>1
        <4> QED
          BY <3>1, <4>1 DEF PublicationInv, Distinct
      <3>2. CASE OldI /\ NewJ
        BY <2>3, <3>2
      <3>3. CASE NewI /\ OldJ
        BY <2>3, <3>3
      <3>4. CASE NewI /\ NewJ
        BY <3>4
      <3>5. (OldI \/ NewI) /\ (OldJ \/ NewJ)
        BY <2>2
      <3> QED
        BY <3>1, <3>2, <3>3, <3>4, <3>5
    <2>5. \A x \in Queued' : x \in Queued \/ x = p
      <3> SUFFICES ASSUME NEW a \in PubPriorities, NEW i \in 1..Len(queue'[a]), NEW x,
                          queue'[a][i].pub = x
                   PROVE  x \in Queued \/ x = p
        BY DEF Queued, QueuedIn
      <3> QED
        BY <2>2, QueuedAt
    <2>6. QueuedInv'
      BY <1>1, <1>2, <1>3, <1>5, <2>5 DEF PublicationInv, QueuedInv
    <2> QED
      BY <1>2, <1>3, <1>5, <2>4, <2>6 DEF PublicationInv, TaskInv, LocalMeansUnsent,
                                          AnswersAreTheRelays, OneUnsettledOnWire
  <1> QED
    BY <1>4, <1>5 DEF HandlePublish

LEMMA PublicationCommand == ASSUME TypeOK, PublicationInv, Command PROVE PublicationInv'
  <1>1. CASE \E s \in Subs, f \in Filters : \E pr \in PriosOf[s] : HandleSubscribe(s, f, pr)
    BY <1>1, PublicationIdle DEF HandleSubscribe, callVars, taskVars, linkVars
  <1>2. CASE \E s \in Closable : HandleClose(s)
    BY <1>2, PublicationIdle DEF HandleClose, callVars, taskVars
  <1>3. CASE \E p \in Pubs : HandlePublish(p)
    BY <1>3, PublicationPublish
  <1>4. CASE HandleReconnect
    <2>1. CASE phase # "session"
      BY <1>4, <2>1, PublicationIdle DEF HandleReconnect, callVars
    <2>2. CASE phase = "session"
      BY <1>4, <2>2, PublicationRejectAll, LosesSessionSame DEF HandleReconnect
    <2> QED
      BY <2>1, <2>2
  <1>5. CASE HandleShutdown
    BY <1>5, PublicationRejectAll, LosesSessionSame DEF HandleShutdown
  <1> QED
    BY <1>1, <1>2, <1>3, <1>4, <1>5 DEF Command

LEMMA PublicationSession ==
    ASSUME TypeOK, PublicationInv, SessionEvent \/ Connection PROVE PublicationInv'
  <1>1. CASE HandleDisconnected
    BY <1>1, PublicationRejectAll, LosesSessionSame DEF HandleDisconnected
  <1>2. CASE UNCHANGED <<queue, answer, task, wire, verdict>>
    BY <1>2, PublicationIdle
  <1> QED
    BY <1>1, <1>2 DEF SessionEvent, Connection, HandleClosedLocally, HandleClosedByRelay,
       HandleNotice, HandleDelivery, HandleDone, DrainDone, StartConnect, ConnectOk,
       ConnectDenied, ConnectFailed, BackoffOver, callVars, taskVars, linkVars

LEMMA PublicationEnvironment ==
    ASSUME TypeOK, PublicationInv, Environment PROVE PublicationInv'
  <1>1. CASE \E p \in Pubs : RelayDecides(p)
    <2> PICK p \in Pubs : RelayDecides(p)
      BY <1>1
    <2>1. /\ verdict[p] = "none"
          /\ \A x \in Pubs : x # p => verdict'[x] = verdict[x]
          /\ UNCHANGED <<queue, answer, task, wire>>
      BY DEF TypeOK, RelayDecides, callVars, taskVars
    <2>2. /\ Distinct' /\ Queued' = Queued
          /\ \A x : Holds(x)' <=> Holds(x)
      BY <2>1 DEF PublicationInv, Distinct, Queued, QueuedIn, Holds
    <2>3. task # NoTask => task.pub \in Pubs
      BY DEF TypeOK, PublishTask
    <2>4. TaskInv'
      BY <2>1, <2>3 DEF PublicationInv, TaskInv
    <2> QED
      BY <2>1, <2>2, <2>4 DEF PublicationInv, QueuedInv, LocalMeansUnsent,
                              AnswersAreTheRelays, OneUnsettledOnWire
  <1>2. CASE \E s \in Subs : RelaySends(s) \/ RelayCloses(s)
    BY <1>2, PublicationIdle DEF RelaySends, RelayCloses, callVars, taskVars
  <1>3. CASE RelayNotices
    <2>1. CASE UNCHANGED task
      BY <1>3, <2>1, PublicationIdle DEF RelayNotices, callVars
    <2>2. CASE task # NoTask /\ task.stage = "awaiting" /\ SettleAs("uncertain", 0)
      BY <1>3, <2>2, PublicationSettle DEF RelayNotices, Outcomes, callVars
    <2> QED
      BY <1>3, <2>1, <2>2 DEF RelayNotices
  <1>4. CASE SocketDies
    BY <1>4, PublicationSameTask, LosesSessionSame DEF SocketDies, callVars
  <1>5. CASE Elapse
    <2>1. UNCHANGED <<answer, task, wire, verdict>>
      BY <1>5 DEF Elapse, taskVars, linkVars
    <2>2. \A a \in PubPriorities :
             /\ Len(queue'[a]) = Len(queue[a])
             /\ \A i \in 1..Len(queue[a]) : queue'[a][i].pub = queue[a][i].pub
      BY <1>5, AgedType DEF TypeOK, Elapse
    <2>3. Distinct'
      BY <2>2 DEF PublicationInv, Distinct
    <2>4. Queued' = Queued
      BY <2>2 DEF Queued, QueuedIn
    <2>5. \A x : Holds(x)' <=> Holds(x)
      BY <2>1 DEF Holds
    <2> QED
      BY <2>1, <2>3, <2>4, <2>5 DEF PublicationInv, QueuedInv, TaskInv, LocalMeansUnsent,
                                    AnswersAreTheRelays, OneUnsettledOnWire
  <1> QED
    BY <1>1, <1>2, <1>3, <1>4, <1>5 DEF Environment

LEMMA PublicationNext == TypeOK /\ PublicationInv /\ [Next]_vars => PublicationInv'
  <1> SUFFICES ASSUME TypeOK, PublicationInv, [Next]_vars PROVE PublicationInv'
    OBVIOUS
  <1>1. CASE Next
    BY <1>1, PublicationCommand, PublicationSession, PublicationTick, PublicationTask,
       PublicationEnvironment DEF Next
  <1>2. CASE UNCHANGED vars
    BY <1>2, PublicationIdle DEF vars
  <1> QED
    BY <1>1, <1>2

\* The inductive invariant holds, whatever the calls, the relay and the network.
THEOREM PublicationCorrect == Spec => []PublicationInv
  <1>1. Init => TypeOK /\ PublicationInv
    BY TypeInit, PublicationInit
  <1>2. TypeOK /\ PublicationInv /\ [Next]_vars => (TypeOK /\ PublicationInv)'
    BY TypeNext, PublicationNext
  <1> QED
    BY <1>1, <1>2, PTL DEF Spec

\* A call answered with a local refusal never reached a wire: it may be published
\* again without risking a second copy.
THEOREM LocalRefusalIsSafe == Spec => []LocalMeansUnsent
  <1>1. PublicationInv => LocalMeansUnsent
    BY DEF PublicationInv
  <1> QED
    BY <1>1, PublicationCorrect, PTL

\* Acceptances and refusals reported to a caller are the relay's, for that event.
THEOREM AnswersCorrect == Spec => []AnswersAreTheRelays
  <1>1. PublicationInv => AnswersAreTheRelays
    BY DEF PublicationInv
  <1> QED
    BY <1>1, PublicationCorrect, PTL

\* At most one written event is unsettled, and the publish task holds it.
THEOREM OneAtATime == Spec => []OneUnsettledOnWire
  <1>1. PublicationInv => OneUnsettledOnWire
    BY DEF PublicationInv
  <1> QED
    BY <1>1, PublicationCorrect, PTL

\* The supervisor never writes an event a second time by itself.
THEOREM WrittenOnce == Spec => []NeverWrittenTwice
  <1>1. PublicationInv => NeverWrittenTwice
    BY DEF PublicationInv, QueuedInv, TaskInv, NeverWrittenTwice, Holds
  <1> QED
    BY <1>1, PublicationCorrect, PTL

-----------------------------------------------------------------------------
(* The supervisor implements PublishPort: every step of it is, for the callers
   of publish, a step of the abstract specification or none at all. *)

LEMMA AskedAt ==
    \A p : p \in Asked <=> p \in Pubs /\ (answer[p] # "none" \/ p \in Queued \/ Holds(p))
  BY DEF Asked, Fresh, Holds

\* Nothing happens that a caller could see.
LEMMA PortStutter ==
    ASSUME UNCHANGED <<answer, wire, verdict>>, Queued' = Queued,
           \A p : Holds(p)' <=> Holds(p)
    PROVE  UNCHANGED Port!portVars
  <1>1. Asked' = Asked
    BY DEF Asked, Fresh, Holds
  <1> QED
    BY <1>1 DEF Port!portVars

LEMMA QueuedSame == ASSUME UNCHANGED queue PROVE Queued' = Queued
  BY DEF Queued, QueuedIn

\* What leaves the queues is refused or handed to the task: none is forgotten.
LEMMA PortRefuse ==
    ASSUME TypeOK, PublicationInv, NEW gone \in SUBSET Queued,
           answer' = [p \in Pubs |-> IF p \in gone THEN "local" ELSE answer[p]],
           \A p : (p \in Queued' \/ Holds(p)' \/ p \in gone) <=> (p \in Queued \/ Holds(p)),
           UNCHANGED <<wire, verdict>>
    PROVE  Port!PortNext
  <1>1. gone \in SUBSET Pubs /\ \A p \in gone : answer[p] = "none" /\ p \notin wire
    BY QueuedPubs DEF PublicationInv, QueuedInv
  <1>2. \A p \in Pubs : answer'[p] = IF p \in gone THEN "local" ELSE answer[p]
    OBVIOUS
  <1>3. \A p : p \in Asked' <=> p \in Pubs /\ (answer'[p] # "none" \/ p \in Queued' \/ Holds(p)')
    BY DEF Asked, Fresh, Holds
  <1>4. Asked' = Asked
    BY <1>1, <1>2, <1>3, AskedAt
  <1>5. gone \subseteq Asked
    BY <1>1, AskedAt
  <1>6. Port!Refuse(gone)
    BY <1>1, <1>4, <1>5 DEF Port!Refuse, Port!Open
  <1> QED
    BY <1>1, <1>6 DEF Port!PortNext

LEMMA PortRejectAll ==
    ASSUME TypeOK, PublicationInv, RejectAll, SameTask, UNCHANGED <<wire, verdict>>
    PROVE  Port!PortNext
  <1>1. Queued' = {}
    BY DEF RejectAll, EmptyQueues, Queued, QueuedIn
  <1>2. \A p : Holds(p)' <=> Holds(p)
    BY DEF SameTask, Holds
  <1>3. answer' = [p \in Pubs |-> IF p \in Queued THEN "local" ELSE answer[p]]
    BY DEF RejectAll
  <1> QED
    BY <1>1, <1>2, <1>3, PortRefuse
-----------------------------------------------------------------------------
(* The admission tick *)

\* reject_expired keeps what it does not refuse.
LEMMA ExpiryKeeps ==
    ASSUME TypeOK, NEW cut \in [PubPriorities -> 0..MaxPending], IsExpiredPrefix(cut)
    PROVE  Queued \subseteq PubsIn(AfterExpiry(cut)) \cup ExpiredPubs(cut)
  <1> SUFFICES ASSUME NEW a \in PubPriorities, NEW i \in 1..Len(queue[a])
               PROVE  queue[a][i].pub \in PubsIn(AfterExpiry(cut)) \cup ExpiredPubs(cut)
    BY QueuedAt
  <1>1. queue[a] \in Seq(QueueItem) /\ cut[a] \in 0..Len(queue[a])
    BY PubAssumption DEF TypeOK, IsExpiredPrefix
  <1>2. CASE i <= cut[a]
    BY <1>1, <1>2 DEF ExpiredPubs
  <1>3. CASE i > cut[a]
    <2> DEFINE s == AfterExpiry(cut)[a]
    <2>1. s = SubSeq(queue[a], cut[a] + 1, Len(queue[a]))
      BY DEF AfterExpiry
    <2>2. i - cut[a] \in 1..(Len(queue[a]) - cut[a])
      BY <1>1, <1>3
    <2>3. i - cut[a] \in 1..Len(s) /\ s[i - cut[a]] = queue[a][(i - cut[a]) + cut[a]]
      BY <1>1, <2>1, <2>2, CutPrefix
    <2>4. (i - cut[a]) + cut[a] = i
      BY <1>1
    <2> QED
      BY <2>3, <2>4, PubsInAt
  <1> QED
    BY <1>1, <1>2, <1>3

LEMMA PopKeeps ==
    ASSUME NEW q \in [PubPriorities -> Seq(QueueItem)],
           NEW from \in PubPriorities, q[from] # <<>>
    PROVE  PubsIn(q) \subseteq PubsIn(Popped(q, from)) \cup {Head(q[from]).pub}
  <1> SUFFICES ASSUME NEW a \in PubPriorities, NEW i \in 1..Len(q[a]),
                      q[a][i].pub # Head(q[from]).pub
               PROVE  q[a][i].pub \in PubsIn(Popped(q, from))
    BY PubsInAt
  <1>1. q[from] \in Seq(QueueItem) /\ Len(q[from]) \in Nat \ {0}
    OBVIOUS
  <1>2. /\ Head(q[from]) = q[from][1]
        /\ Len(Tail(q[from])) = Len(q[from]) - 1
        /\ \A j \in 2..Len(q[from]) : Tail(q[from])[j - 1] = q[from][j]
    BY <1>1
  <1>3. CASE a = from
    <2>1. i \in 2..Len(q[from])
      BY <1>2, <1>3
    <2>2. Popped(q, from)[from] = Tail(q[from])
      BY DEF Popped
    <2>3. i - 1 \in 1..Len(Popped(q, from)[from]) /\ Popped(q, from)[from][i - 1] = q[a][i]
      BY <1>1, <1>2, <1>3, <2>1, <2>2
    <2> QED
      BY <2>3, PubsInAt
  <1>4. CASE a # from
    <2>1. Popped(q, from)[a] = q[a]
      BY <1>4 DEF Popped
    <2> QED
      BY <2>1, PubsInAt
  <1> QED
    BY <1>3, <1>4

LEMMA PortTick == ASSUME TypeOK, PublicationInv, AdmissionTick PROVE Port!PortNext
  <1> PICK cut \in [PubPriorities -> 0..MaxPending] :
        /\ IsExpiredPrefix(cut)
        /\ LET q    == AfterExpiry(cut)
               lane == AdmissionLane(task # NoTask, q) IN
             /\ answer' = [p \in Pubs |-> IF p \in ExpiredPubs(cut) THEN "local"
                                          ELSE answer[p]]
             /\ \/ gate > 0 /\ AdmitNothing(q)
                \/ gate = 0 /\ lane \in {"interactive", "deferred"}
                     /\ AdmitPublication(lane, q)
                \/ gate = 0 /\ lane = "subscription" /\ AdmitSubscription(q)
                \/ gate = 0 /\ lane = "idle" /\ AdmitNothing(q)
    BY DEF AdmissionTick
  <1> DEFINE q == AfterExpiry(cut)
             lane == AdmissionLane(task # NoTask, q)
             gone == ExpiredPubs(cut)
  <1>1. answer' = [p \in Pubs |-> IF p \in gone THEN "local" ELSE answer[p]]
    OBVIOUS
  <1>2. UNCHANGED <<wire, verdict>>
    BY DEF AdmissionTick
  <1>3. \/ AdmitNothing(q) \/ AdmitSubscription(q)
        \/ lane \in {"interactive", "deferred"} /\ AdmitPublication(lane, q)
    OBVIOUS
  <1>4. PubsIn(q) \cup gone = Queued /\ gone \in SUBSET Queued
    BY ExpirySplits, ExpiryKeeps DEF PublicationInv
  <1>5. q \in [PubPriorities -> Seq(QueueItem)]
    BY AfterExpiryType
  <1> HIDE DEF q, lane, gone
  <1>6. CASE AdmitNothing(q) \/ AdmitSubscription(q)
    <2>1. queue' = q /\ task' = task
      BY <1>6 DEF AdmitNothing, AdmitSubscription
    <2>2. Queued' = PubsIn(q)
      BY <2>1 DEF Queued, PubsIn
    <2>3. \A p : Holds(p)' <=> Holds(p)
      BY <2>1 DEF Holds
    <2> QED
      BY <1>1, <1>2, <1>4, <2>2, <2>3, PortRefuse
  <1>7. CASE lane \in {"interactive", "deferred"} /\ AdmitPublication(lane, q)
    <2> DEFINE from == PoppedQueue(lane, q)
               p0 == Head(q[from]).pub
    <2>1. from \in PubPriorities
      BY DEF PoppedQueue, PubPriorities
    <2>2. q[from] # <<>> /\ task = NoTask
      BY <1>7, <2>1 DEF lane, AdmissionLane, PoppedQueue, HasDeferred
    <2>3. queue' = Popped(q, from)
      BY <1>7 DEF AdmitPublication
    <2>4. PubsIn(q) = PubsIn(queue') \cup {p0}
      <3>1. DistinctIn(q)
        BY ExpirySplits DEF q, PublicationInv
      <3> QED
        BY <1>5, <2>1, <2>2, <2>3, <3>1, PopSplits, PopKeeps
    <2>5. Queued' = PubsIn(queue')
      BY DEF Queued, PubsIn
    <2>6. p0 \in Pubs
      BY <1>4, <2>4, QueuedPubs
    <2>7. task' \in PublishTask /\ task'.pub = p0
      BY <1>7, <2>6 DEF AdmitPublication, PublishTask, Stages, Outcomes
    <2>8. \A p : (Holds(p)' <=> p = p0) /\ ~Holds(p)
      BY <2>2, <2>7, TaskAssumption DEF Holds
    <2> HIDE DEF from, p0
    <2> QED
      BY <1>1, <1>2, <1>4, <2>4, <2>5, <2>8, PortRefuse
  <1> QED
    BY <1>3, <1>6, <1>7
-----------------------------------------------------------------------------
(* The publish task *)

\* The steps of the task that only it knows of.
LEMMA PortTaskMoves ==
    ASSUME task \in PublishTask, task' \in PublishTask, task'.pub = task.pub,
           UNCHANGED <<queue, answer, wire, verdict>>
    PROVE  UNCHANGED Port!portVars
  <1>1. \A p : Holds(p)' <=> Holds(p)
    BY TaskAssumption DEF Holds
  <1> QED
    BY <1>1, QueuedSame, PortStutter

LEMMA PortSettle ==
    ASSUME TypeOK, task # NoTask, NEW r \in Outcomes, NEW h \in Hints \cup {0},
           SettleAs(r, h), UNCHANGED <<queue, answer, wire, verdict>>
    PROVE  UNCHANGED Port!portVars
  <1>1. task \in PublishTask
    BY DEF TypeOK
  <1>2. task' \in PublishTask /\ task'.pub = task.pub
    BY <1>1 DEF SettleAs, PublishTask, Stages
  <1> QED
    BY <1>1, <1>2, PortTaskMoves

LEMMA PortTask == ASSUME TypeOK, PublicationInv, Task PROVE [Port!PortNext]_(Port!portVars)
  <1>0. task # NoTask /\ task \in PublishTask /\ task.pub \in Pubs
    BY DEF TypeOK, Task, TaskWrite, TaskSessionLost, TaskTimeout, TaskAcknowledged,
           TaskReport, TaskRespond, TaskEnd, PublishTask
  <1>1. CASE TaskWrite
    <2>1. /\ task'.pub = task.pub /\ task' \in PublishTask
          /\ UNCHANGED <<queue, answer, verdict>> /\ wire' = wire \cup {task.pub}
      BY <1>0, <1>1 DEF TaskWrite, PublishTask, Stages, callVars, linkVars
    <2>2. \A p : Holds(p)' <=> Holds(p)
      BY <1>0, <2>1, TaskAssumption DEF Holds
    <2>3. Asked' = Asked
      BY <2>1, <2>2, QueuedSame DEF Asked, Fresh, Holds
    <2>4. Holds(task.pub) /\ answer[task.pub] = "none" /\ task.pub \notin wire
      BY <1>0, <1>1 DEF Holds, PublicationInv, TaskInv, TaskWrite
    <2>5. \A p \in wire : answer[p] # "none"
      BY <2>4 DEF PublicationInv, OneUnsettledOnWire, Holds
    <2>6. Port!Write(task.pub)
      BY <1>0, <2>1, <2>3, <2>4, <2>5, AskedAt DEF Port!Write, Port!Open
    <2> QED
      BY <1>0, <2>6 DEF Port!PortNext
  <1>2. CASE TaskSessionLost
    BY <1>0, <1>2, PortSettle DEF TaskSessionLost, Outcomes, callVars, linkVars
  <1>3. CASE TaskTimeout
    BY <1>0, <1>3, PortSettle DEF TaskTimeout, Outcomes, callVars, linkVars
  <1>4. CASE TaskAcknowledged
    BY <1>0, <1>4, PortSettle DEF TaskAcknowledged, Outcomes, callVars, linkVars
  <1>5. CASE TaskReport
    BY <1>0, <1>5, PortTaskMoves DEF TaskReport, PublishTask, Stages, callVars, linkVars
  <1>6. CASE TaskRespond
    <2>1. task'.pub = task.pub /\ task' \in PublishTask
      BY <1>0, <1>6 DEF TaskRespond, PublishTask, Stages
    <2>2. /\ UNCHANGED <<queue, wire, verdict>>
          /\ answer' = [answer EXCEPT ![task.pub] = task.result]
      BY <1>6 DEF TaskRespond, linkVars
    <2>3. \A p : Holds(p)' <=> Holds(p)
      BY <1>0, <2>1, TaskAssumption DEF Holds
    <2>4. Holds(task.pub) /\ answer[task.pub] = "none"
      BY <1>0, <1>6 DEF Holds, PublicationInv, TaskInv, TaskRespond
    <2>5. /\ task.result \in {"accepted", "rejected", "limited", "uncertain"}
          /\ task.result # "uncertain" => verdict[task.pub] = task.result
      BY <1>0, <1>6 DEF TaskRespond, PublicationInv, TaskInv, PublishTask, Outcomes
    <2>6. Asked' = Asked
      <3>1. \A p \in Pubs : answer'[p] = IF p = task.pub THEN task.result ELSE answer[p]
        BY <1>0, <2>2 DEF TypeOK
      <3>2. \A p : p \in Asked'
                     <=> p \in Pubs /\ (answer'[p] # "none" \/ p \in Queued' \/ Holds(p)')
        BY DEF Asked, Fresh, Holds
      <3> QED
        BY <2>2, <2>3, <2>4, <2>5, <3>1, <3>2, QueuedSame, AskedAt
    <2>7. Port!Answer(task.pub)
      BY <1>0, <2>2, <2>4, <2>5, <2>6, AskedAt
         DEF Port!Answer, Port!Open, Port!Verdicts
    <2> QED
      BY <1>0, <2>7 DEF Port!PortNext
  <1>7. CASE TaskEnd
    <2>1. UNCHANGED <<queue, answer, wire, verdict>> /\ task' = NoTask
      BY <1>7 DEF TaskEnd, callVars, linkVars
    <2>2. answer[task.pub] # "none"
      BY <1>7 DEF TaskEnd, PublicationInv, TaskInv
    <2>3. \A p : p \in Asked'
                   <=> p \in Pubs /\ (answer[p] # "none" \/ p \in Queued' \/ Holds(p)')
      BY <2>1 DEF Asked, Fresh, Holds
    <2>4. Asked' = Asked
      BY <2>1, <2>2, <2>3, QueuedSame, AskedAt DEF Holds
    <2> QED
      BY <2>1, <2>4 DEF Port!portVars
  <1> QED
    BY <1>1, <1>2, <1>3, <1>4, <1>5, <1>6, <1>7 DEF Task
-----------------------------------------------------------------------------
(* Commands, session events and the environment *)

LEMMA PortIdle ==
    ASSUME UNCHANGED <<queue, answer, task, wire, verdict>>
    PROVE  UNCHANGED Port!portVars
  BY QueuedSame, PortStutter DEF Holds

LEMMA PortPublish ==
    ASSUME TypeOK, PublicationInv, NEW p \in Pubs, HandlePublish(p)
    PROVE  Port!PortNext
  <1>1. /\ answer[p] = "none" /\ p \notin Queued /\ ~Holds(p) /\ p \notin Asked
        /\ UNCHANGED <<task, wire, verdict>>
    BY DEF HandlePublish, Fresh, Holds, Asked, taskVars, linkVars
  <1>2. \A x : Holds(x)' <=> Holds(x)
    BY <1>1 DEF Holds
  <1>3. \A x : x \in Asked'
                 <=> x \in Pubs /\ (answer'[x] # "none" \/ x \in Queued' \/ Holds(x)')
    BY DEF Asked, Fresh, Holds
  <1>4. CASE \E r \in {"offline", "local"} : /\ answer' = [answer EXCEPT ![p] = r]
                                             /\ UNCHANGED queue
    <2> PICK r \in {"offline", "local"} : answer' = [answer EXCEPT ![p] = r]
      BY <1>4
    <2>1. \A x \in Pubs : answer'[x] = IF x = p THEN r ELSE answer[x]
      BY DEF TypeOK
    <2>2. Asked' = Asked \cup {p}
      BY <1>1, <1>2, <1>3, <1>4, <2>1, QueuedSame, AskedAt
    <2>3. Port!Ask(p)
      BY <1>1, <2>2 DEF Port!Ask
    <2> QED
      BY <2>3 DEF Port!PortNext
  <1>5. CASE /\ queue' = [queue EXCEPT ![PubPrio[p]] = Append(@, [pub |-> p, age |-> 0])]
             /\ UNCHANGED answer
    <2> DEFINE home == PubPrio[p]
    <2>0. home \in PubPriorities /\ queue[home] \in Seq(QueueItem)
      BY PubAssumption DEF TypeOK
    <2>1. /\ \A a \in PubPriorities : a # home => queue'[a] = queue[a]
          /\ queue'[home] = Append(queue[home], [pub |-> p, age |-> 0])
      BY <1>5, <2>0 DEF TypeOK
    <2> HIDE DEF home
    <2>2. QueuedIn(queue'[home]) = QueuedIn(queue[home]) \cup {p}
      <3> DEFINE item == [pub |-> p, age |-> 0]
                 n == Len(queue[home])
      <3>1. /\ n \in Nat /\ Len(queue'[home]) = n + 1
            /\ \A i \in 1..n : queue'[home][i] = queue[home][i]
            /\ queue'[home][n + 1].pub = p
        BY <2>0, <2>1
      <3> HIDE DEF n
      <3>2. \A i \in 1..Len(queue'[home]) : i \in 1..n \/ i = n + 1
        BY <3>1
      <3>3. n + 1 \in 1..Len(queue'[home]) /\ 1..n \subseteq 1..Len(queue'[home])
        BY <3>1
      <3> QED
        BY <3>1, <3>2, <3>3 DEF QueuedIn, n
    <2>3. Queued' = Queued \cup {p}
      BY <2>0, <2>1, <2>2 DEF Queued
    <2>4. Asked' = Asked \cup {p}
      BY <1>2, <1>3, <1>5, <2>3, AskedAt
    <2>5. Port!Ask(p)
      BY <1>1, <1>5, <2>4 DEF Port!Ask
    <2> QED
      BY <2>5 DEF Port!PortNext
  <1> QED
    BY <1>4, <1>5 DEF HandlePublish

\* The ways out of a session that refuse what is queued.
LEMMA PortLeave ==
    ASSUME TypeOK, PublicationInv,
           \/ HandleReconnect /\ phase = "session"
           \/ HandleShutdown \/ HandleDisconnected
    PROVE  Port!PortNext
  <1>1. RejectAll /\ TaskLosesSession /\ UNCHANGED <<wire, verdict>>
    BY DEF HandleReconnect, HandleShutdown, HandleDisconnected
  <1>2. SameTask
    BY <1>1, LosesSessionSame
  <1> QED
    BY <1>1, <1>2, PortRejectAll

LEMMA PortCommand ==
    ASSUME TypeOK, PublicationInv, Command PROVE [Port!PortNext]_(Port!portVars)
  <1>1. CASE \E s \in Subs, f \in Filters : \E pr \in PriosOf[s] : HandleSubscribe(s, f, pr)
    BY <1>1, PortIdle DEF HandleSubscribe, callVars, taskVars, linkVars
  <1>2. CASE \E s \in Closable : HandleClose(s)
    BY <1>2, PortIdle DEF HandleClose, callVars, taskVars
  <1>3. CASE \E p \in Pubs : HandlePublish(p)
    BY <1>3, PortPublish
  <1>4. CASE HandleReconnect
    <2>1. CASE phase # "session"
      BY <1>4, <2>1, PortIdle DEF HandleReconnect, callVars
    <2>2. CASE phase = "session"
      BY <1>4, <2>2, PortLeave
    <2> QED
      BY <2>1, <2>2
  <1>5. CASE HandleShutdown
    BY <1>5, PortLeave
  <1> QED
    BY <1>1, <1>2, <1>3, <1>4, <1>5 DEF Command

LEMMA PortSession ==
    ASSUME TypeOK, PublicationInv, SessionEvent \/ Connection
    PROVE  [Port!PortNext]_(Port!portVars)
  <1>1. CASE HandleDisconnected
    BY <1>1, PortLeave
  <1>2. CASE UNCHANGED <<queue, answer, task, wire, verdict>>
    BY <1>2, PortIdle
  <1> QED
    BY <1>1, <1>2 DEF SessionEvent, Connection, HandleClosedLocally, HandleClosedByRelay,
       HandleNotice, HandleDelivery, HandleDone, DrainDone, StartConnect, ConnectOk,
       ConnectDenied, ConnectFailed, BackoffOver, callVars, taskVars, linkVars

LEMMA PortEnvironment ==
    ASSUME TypeOK, PublicationInv, Environment PROVE [Port!PortNext]_(Port!portVars)
  <1>1. CASE \E p \in Pubs : RelayDecides(p)
    <2> PICK p \in Pubs : RelayDecides(p)
      BY <1>1
    <2>1. UNCHANGED <<queue, answer, task, wire>>
      BY DEF RelayDecides, callVars, taskVars
    <2>2. Asked' = Asked
      BY <2>1, QueuedSame DEF Asked, Fresh
    <2>3. Port!Decide(p)
      BY <2>1, <2>2 DEF RelayDecides, Port!Decide, Port!Verdicts
    <2> QED
      BY <2>3 DEF Port!PortNext
  <1>2. CASE \E s \in Subs : RelaySends(s) \/ RelayCloses(s)
    BY <1>2, PortIdle DEF RelaySends, RelayCloses, callVars, taskVars
  <1>3. CASE RelayNotices
    <2>1. CASE UNCHANGED task
      BY <1>3, <2>1, PortIdle DEF RelayNotices, callVars
    <2>2. CASE task # NoTask /\ task.stage = "awaiting" /\ SettleAs("uncertain", 0)
      BY <1>3, <2>2, PortSettle DEF RelayNotices, Outcomes, callVars
    <2> QED
      BY <1>3, <2>1, <2>2 DEF RelayNotices
  <1>4. CASE SocketDies
    <2>1. SameTask
      BY <1>4, LosesSessionSame DEF SocketDies
    <2>2. \A p : Holds(p)' <=> Holds(p)
      BY <2>1 DEF SameTask, Holds
    <2> QED
      BY <1>4, <2>2, QueuedSame, PortStutter DEF SocketDies, callVars
  <1>5. CASE Elapse
    <2>1. UNCHANGED <<answer, task, wire, verdict>>
      BY <1>5 DEF Elapse, taskVars, linkVars
    <2>2. \A a \in PubPriorities :
             /\ Len(queue'[a]) = Len(queue[a])
             /\ \A i \in 1..Len(queue[a]) : queue'[a][i].pub = queue[a][i].pub
      BY <1>5, AgedType DEF TypeOK, Elapse
    <2>3. Queued' = Queued
      BY <2>2 DEF Queued, QueuedIn
    <2> QED
      BY <2>1, <2>3, PortStutter DEF Holds
  <1> QED
    BY <1>1, <1>2, <1>3, <1>4, <1>5 DEF Environment

LEMMA PortStep == TypeOK /\ PublicationInv /\ [Next]_vars => [Port!PortNext]_(Port!portVars)
  <1> SUFFICES ASSUME TypeOK, PublicationInv, [Next]_vars
               PROVE  [Port!PortNext]_(Port!portVars)
    OBVIOUS
  <1>1. CASE Next
    BY <1>1, PortCommand, PortSession, PortTick, PortTask, PortEnvironment DEF Next
  <1>2. CASE UNCHANGED vars
    BY <1>2, PortIdle DEF vars
  <1> QED
    BY <1>1, <1>2

LEMMA PortStart == Init => Port!PortInit
  <1> SUFFICES ASSUME Init PROVE Port!PortInit
    OBVIOUS
  <1>1. \A a \in PubPriorities : Len(queue[a]) = 0
    BY DEF Init, EmptyQueues
  <1>2. Queued = {}
    BY <1>1, QueuedAt
  <1>3. Asked = {}
    BY <1>2, AskedAt DEF Init, Holds
  <1> QED
    BY <1>3 DEF Init, Port!PortInit

\* The supervisor implements the port, for any number of calls, priorities and
\* relays: what a caller is told is safe to act upon.
THEOREM PortCorrect == Spec => KeepsThePort
  <1>1. Init => Port!PortInit
    BY PortStart
  <1>2. TypeOK /\ PublicationInv /\ [Next]_vars => [Port!PortNext]_(Port!portVars)
    BY PortStep
  <1> QED
    BY <1>1, <1>2, TypeCorrect, PublicationCorrect, PTL DEF Spec, KeepsThePort, Port!PortSpec
=============================================================================
