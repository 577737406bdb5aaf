----------------------------- MODULE Supervisor -----------------------------
(***************************************************************************)
(* The connection supervisor of src/realtime/supervisor.rs: one task that   *)
(* owns the desired subscriptions, the publication queues, the admission    *)
(* clock and the rate-limit gate, together with the publish task it spawns, *)
(* the session actor as the supervisor sees it (src/realtime/session.rs)    *)
(* and the relay.                                                           *)
(*                                                                          *)
(* Time is counted in admission intervals (FRAME_INTERVAL, 125 ms) and kept *)
(* as countdowns: an Instant is stored as what is left of it, so 0 stands   *)
(* both for "None" and for "already past", which the code treats alike.     *)
(*                                                                          *)
(* The socket towards the relay is synchronous (a frame the relay reads     *)
(* late commutes with what the relay does before reading it); everything    *)
(* the relay says goes through the FIFO `net`, which is the socket and the  *)
(* session's event channel in one.                                          *)
(***************************************************************************)
EXTENDS Integers, Sequences, FiniteSets

CONSTANTS
    Subs,            \* subscription identifiers; their order is the stable id order
    Filters,         \* the filter revisions a subscription may ask for
    PriosOf,         \* PriosOf[s]: the priorities callers give subscription s
    Closable,        \* the subscriptions the application closes by itself
    Pubs,            \* publish calls, each for an event of its own
    PubPrio,         \* PubPrio[p]: interactive, recovery or maintenance
    Hints,           \* the retry hints, in intervals, a rate-limited answer carries
    Jitter,          \* Jitter[s]: the stable jitter of subscription s
    MaxAttempt,      \* the attempt count past which the backoff no longer grows
    Backoff,         \* Backoff[n]: retry_backoff after n attempts, in intervals
    QueueTimeout,    \* PUBLICATION_QUEUE_TIMEOUT
    MaxPending,      \* MAX_PENDING_PUBLICATIONS
    MaxNet,          \* bound: relay frames on their way to the supervisor
    CloseAck,        \* the relay answers CLOSE: "always", "known" or "never"
    RelayClasses,    \* the kinds of CLOSED the relay sends by itself
    LegacyNotice,    \* the relay may refuse with an uncorrelated NOTICE
    SendCanFail,     \* a REQ may meet a socket that has just died
    CanBeDenied,     \* authentication may be refused for good
    NoFilter,        \* not a filter
    NoTask           \* not a publish task

SubPriorities == {"foreground", "baseline", "background"}
PubPriorities == {"interactive", "recovery", "maintenance"}
ClosedClasses == {"rate", "retry", "terminal"}

ASSUME SubAssumption ==
    /\ Subs \subseteq Nat
    /\ PriosOf \in [Subs -> SUBSET SubPriorities]
    /\ Closable \subseteq Subs
    /\ NoFilter \notin Filters
    /\ Jitter \in [Subs -> Nat]

ASSUME PubAssumption ==
    /\ PubPrio \in [Pubs -> PubPriorities]
    /\ QueueTimeout \in Nat \ {0}
    /\ MaxPending \in Nat

ASSUME TimeAssumption ==
    /\ Hints \subseteq Nat \ {0}
    /\ MaxAttempt \in Nat
    /\ Backoff \in [0..MaxAttempt -> Nat]
    /\ MaxNet \in Nat

ASSUME RelayAssumption ==
    /\ CloseAck \in {"always", "known", "never"}
    /\ RelayClasses \subseteq ClosedClasses
    /\ {LegacyNotice, SendCanFail, CanBeDenied} \subseteq BOOLEAN

VARIABLES
    phase,           \* where `run` is: top, connecting, terminal, backoff, session, stopped
    desired,         \* the desired registry, one entry per subscription
    wireOpen,        \* wire_open: subscriptions believed open on this session
    locallyClosing,  \* locally_closing: local CLOSEs whose CLOSED is awaited
    gate,            \* what is left of rate_limit_deadline
    tickDue,         \* the admission clock has a tick to deliver
    queue,           \* the three publication queues
    task,            \* the spawned publish task; publish_inflight is task # NoTask
    publishDone,     \* publish_done channel: 0, or the hint of a limited answer
    answer,          \* what each publish call has been answered
    sock,            \* the session's socket: up, down or none
    net,             \* frames from the relay not yet handled by the supervisor
    relaySubs,       \* the filter the relay serves for each subscription
    wire,            \* publications whose EVENT was written to a socket
    verdict,         \* what the relay decided about each EVENT
    owed             \* history: intervals of silence promised to the relay

subVars == <<desired, wireOpen, locallyClosing>>
timeVars == <<gate, tickDue, owed>>
callVars == <<queue, answer>>
taskVars == <<task, publishDone, wire>>
linkVars == <<sock, net, relaySubs, verdict>>
vars == <<phase, desired, wireOpen, locallyClosing, gate, tickDue, owed, queue,
          answer, task, publishDone, wire, sock, net, relaySubs, verdict>>
-----------------------------------------------------------------------------
(* Data *)

Larger(a, b) == IF a >= b THEN a ELSE b
Smaller(a, b) == IF a <= b THEN a ELSE b

Entry == [filter : Filters \cup {NoFilter}, prio : SubPriorities,
          needsSend : BOOLEAN, retryIn : Nat, attempt : 0..MaxAttempt]

\* An identifier that is not in the registry.
Absent == [filter |-> NoFilter, prio |-> "background", needsSend |-> FALSE,
           retryIn |-> 0, attempt |-> 0]

Outcomes == {"none", "accepted", "rejected", "limited", "uncertain"}

\* The steps of the spawned task: publish is called, the EVENT is written, the
\* outcome is known, the supervisor is told, the caller is told.
Stages == {"spawned", "awaiting", "settled", "reported", "responded"}
PublishTask == [pub : Pubs, stage : Stages,
                result : Outcomes, hint : Hints \cup {0}, live : BOOLEAN]

ASSUME TaskAssumption == NoTask \notin PublishTask

IsDesired(s) == desired[s].filter # NoFilter

Closed(s, class, hint) ==
    [kind |-> "closed", sub |-> s, class |-> class, hint |-> hint]
Told(kind, s) == [kind |-> kind, sub |-> s]
Notice(hint) == [kind |-> "notice", hint |-> hint]
Disconnected == [kind |-> "disconnected"]

\* The attempt counter is followed up to MaxAttempt, past which retry_backoff
\* returns the same wait.
NextAttempt(attempt) == Smaller(attempt + 1, MaxAttempt)

\* Mutant: the last hint wins.
LastHintWins(hint) == hint

\* activate_rate_limit: a later deadline wins, an earlier one changes nothing.
ActivateRateLimit(hint) == Larger(gate, hint)

\* remember_subscription: the newest filter and priority, due at once.
Remembered(f, pr) == [filter |-> f, prio |-> pr, needsSend |-> TRUE,
                      retryIn |-> 0, attempt |-> 0]

QueuedIn(q) == {q[i].pub : i \in 1..Len(q)}
Queued == UNION {QueuedIn(queue[pr]) : pr \in PubPriorities}
QueueLength == Len(queue["interactive"]) + Len(queue["recovery"])
                 + Len(queue["maintenance"])

\* A publish call that has not been issued yet.
Fresh(p) == /\ answer[p] = "none"
            /\ p \notin Queued
            /\ task # NoTask => task.pub # p

EmptyQueues == [pr \in PubPriorities |-> <<>>]

\* Mutant: the queues are emptied and nobody is told.
DropAll ==
    /\ queue' = EmptyQueues
    /\ UNCHANGED answer

\* PublicationQueues::reject_all: every queued call is told it was refused
\* locally, before any EVENT reached the wire.
RejectAll ==
    /\ queue' = EmptyQueues
    /\ answer' = [p \in Pubs |-> IF p \in Queued THEN "local" ELSE answer[p]]

\* next_subscription: what is due, by priority and then by identifier.
Rank == [foreground |-> 0, baseline |-> 1, background |-> 2]
Due == {s \in Subs : IsDesired(s) /\ desired[s].needsSend /\ desired[s].retryIn = 0}
NextSubscriptions ==
    {s \in Due : \A t \in Due :
        \/ Rank[desired[s].prio] < Rank[desired[t].prio]
        \/ Rank[desired[s].prio] = Rank[desired[t].prio] /\ s <= t}

\* admission_lane
HasDeferred(q) == q["recovery"] # <<>> \/ q["maintenance"] # <<>>
AdmissionLane(inflight, q) ==
    IF ~inflight /\ q["interactive"] # <<>> THEN "interactive"
    ELSE IF \E s \in NextSubscriptions : desired[s].prio # "background"
         THEN "subscription"
    ELSE IF ~inflight /\ HasDeferred(q) THEN "deferred"
    ELSE IF NextSubscriptions # {} THEN "subscription"
    ELSE "idle"

\* pop_interactive, or pop_deferred: recovery before maintenance.
PoppedQueue(lane, q) ==
    IF lane = "interactive" THEN "interactive"
    ELSE IF q["recovery"] # <<>> THEN "recovery" ELSE "maintenance"
-----------------------------------------------------------------------------
Init ==
    /\ phase = "top"
    /\ desired = [s \in Subs |-> Absent]
    /\ wireOpen = {}
    /\ locallyClosing = {}
    /\ gate = 0
    /\ tickDue = FALSE
    /\ queue = EmptyQueues
    /\ task = NoTask
    /\ publishDone = <<>>
    /\ answer = [p \in Pubs |-> "none"]
    /\ sock = "none"
    /\ net = <<>>
    /\ relaySubs = [s \in Subs |-> NoFilter]
    /\ wire = {}
    /\ verdict = [p \in Pubs |-> "none"]
    /\ owed = 0
-----------------------------------------------------------------------------
(* The head of the outer loop, and connecting *)

\* while let Ok(done) = publish_done_rx.try_recv()
DrainDone ==
    /\ phase = "top"
    /\ publishDone # <<>>
    /\ gate' = ActivateRateLimit(Head(publishDone))
    /\ owed' = Larger(owed, Head(publishDone))
    /\ publishDone' = Tail(publishDone)
    /\ UNCHANGED <<phase, subVars, tickDue, callVars, task, wire, linkVars>>

StartConnect ==
    /\ phase = "top"
    /\ publishDone = <<>>
    /\ phase' = "connecting"
    /\ UNCHANGED <<subVars, timeVars, callVars, taskVars, linkVars>>

\* Ok(value): every desired subscription is due again; the attempt counters
\* and the gate survive; wire_open and locally_closing start empty and the
\* admission clock ticks at once.
ConnectOk ==
    /\ phase = "connecting"
    /\ phase' = "session"
    /\ desired' = [s \in Subs |->
                     IF IsDesired(s)
                     THEN [desired[s] EXCEPT !.needsSend = TRUE, !.retryIn = 0]
                     ELSE Absent]
    /\ wireOpen' = {}
    /\ locallyClosing' = {}
    /\ tickDue' = TRUE
    /\ sock' = "up"
    /\ net' = <<>>
    /\ relaySubs' = [s \in Subs |-> NoFilter]
    /\ UNCHANGED <<gate, owed, callVars, taskVars, verdict>>

\* Err(Access | Auth): wait for a command that changes the situation.
ConnectDenied ==
    /\ CanBeDenied
    /\ phase = "connecting"
    /\ phase' = "terminal"
    /\ UNCHANGED <<subVars, timeVars, callVars, taskVars, linkVars>>

\* Any other error: sleep, listening to commands.
ConnectFailed ==
    /\ phase = "connecting"
    /\ phase' = "backoff"
    /\ UNCHANGED <<subVars, timeVars, callVars, taskVars, linkVars>>

BackoffOver ==
    /\ phase = "backoff"
    /\ phase' = "top"
    /\ UNCHANGED <<subVars, timeVars, callVars, taskVars, linkVars>>
-----------------------------------------------------------------------------
(* Leaving a session *)

\* The session task ends: its publish task can no longer be answered by the
\* relay, its event channel and the wire sets are dropped with the loop.
TaskLosesSession ==
    task' = IF task = NoTask THEN NoTask ELSE [task EXCEPT !.live = FALSE]

LeaveSession(next) ==
    /\ phase' = next
    /\ wireOpen' = {}
    /\ locallyClosing' = {}
    /\ tickDue' = FALSE
    /\ sock' = "none"
    /\ net' = <<>>
    /\ relaySubs' = [s \in Subs |-> NoFilter]
-----------------------------------------------------------------------------
(* Commands, in the phases that receive them. A command received during     *)
(* backoff also ends the sleep. The select loop of a session is biased:      *)
(* publish_done is served before anything else.                              *)

Listening == \/ phase \in {"terminal", "backoff"}
             \/ phase = "session" /\ publishDone = <<>>

PhaseAfterCommand == IF phase = "backoff" THEN "top" ELSE phase

HandleSubscribe(s, f, pr) ==
    /\ Listening
    /\ desired' = [desired EXCEPT ![s] = Remembered(f, pr)]
    /\ phase' = PhaseAfterCommand
    /\ UNCHANGED <<wireOpen, locallyClosing, timeVars, callVars, taskVars,
                   linkVars>>

\* The bound on what the relay has said and nobody has handled yet.
RelayHasRoom == sock = "up" => Len(net) < MaxNet

\* CLOSE on the wire, as the relay takes it.
RelayTakesClose(s) ==
    /\ relaySubs' = [relaySubs EXCEPT ![s] = NoFilter]
    /\ net' = IF \/ CloseAck = "always"
                 \/ CloseAck = "known" /\ relaySubs[s] # NoFilter
              THEN Append(net, Closed(s, "terminal", 0))
              ELSE net

HandleClose(s) ==
    /\ Listening
    /\ RelayHasRoom
    /\ desired' = [desired EXCEPT ![s] = Absent]
    /\ \/ /\ phase # "session" \/ s \notin wireOpen
          /\ phase' = PhaseAfterCommand
          /\ UNCHANGED <<wireOpen, locallyClosing, tickDue, sock, net,
                         relaySubs>>
       \/ /\ phase = "session" /\ s \in wireOpen /\ sock = "up"
          /\ wireOpen' = wireOpen \ {s}
          /\ locallyClosing' = locallyClosing \cup {s}
          /\ RelayTakesClose(s)
          /\ UNCHANGED <<phase, tickDue, sock>>
       \/ /\ phase = "session" /\ s \in wireOpen /\ sock = "down"
          /\ SendCanFail
          /\ LeaveSession("top")
    /\ UNCHANGED <<gate, owed, callVars, taskVars, verdict>>

HandlePublish(p) ==
    /\ Listening
    /\ Fresh(p)
    /\ \/ /\ phase # "session"
          /\ answer' = [answer EXCEPT ![p] = "offline"]
          /\ UNCHANGED queue
       \/ /\ phase = "session" /\ QueueLength >= MaxPending
          /\ answer' = [answer EXCEPT ![p] = "local"]
          /\ UNCHANGED queue
       \/ /\ phase = "session" /\ QueueLength < MaxPending
          /\ queue' = [queue EXCEPT ![PubPrio[p]] = Append(@, [pub |-> p, age |-> 0])]
          /\ UNCHANGED answer
    /\ phase' = PhaseAfterCommand
    /\ UNCHANGED <<subVars, timeVars, taskVars, linkVars>>

HandleReconnect ==
    /\ Listening
    /\ \/ /\ phase # "session"
          /\ phase' = "top"
          /\ UNCHANGED <<wireOpen, locallyClosing, tickDue, callVars, task,
                         sock, net, relaySubs>>
       \/ /\ phase = "session"
          /\ RejectAll
          /\ TaskLosesSession
          /\ LeaveSession("top")
    /\ UNCHANGED <<desired, gate, owed, publishDone, wire, verdict>>

\* Shutdown, or every handle gone. The queues are also emptied after the
\* outer loop, which matters when they outlived their session.
HandleShutdown ==
    /\ Listening
    /\ RejectAll
    /\ TaskLosesSession
    /\ LeaveSession("stopped")
    /\ UNCHANGED <<desired, gate, owed, publishDone, wire, verdict>>
-----------------------------------------------------------------------------
(* Session events *)

InSession == phase = "session" /\ publishDone = <<>>

Incoming(kind) == /\ InSession
                  /\ net # <<>>
                  /\ Head(net).kind = kind

HandleDisconnected ==
    /\ Incoming("disconnected")
    /\ RejectAll
    /\ TaskLosesSession
    /\ LeaveSession("top")
    /\ UNCHANGED <<desired, gate, owed, publishDone, wire, verdict>>

\* The acknowledgement of a local CLOSE is consumed and nothing else happens.
HandleClosedLocally ==
    /\ Incoming("closed")
    /\ LET s == Head(net).sub IN
         /\ s \in locallyClosing
         /\ locallyClosing' = locallyClosing \ {s}
    /\ net' = Tail(net)
    /\ UNCHANGED <<phase, desired, wireOpen, timeVars, callVars, taskVars,
                   sock, relaySubs, verdict>>

\* Mutants: the retry is scheduled and never marked as due.
RateLimitedNotDue(s, newGate) ==
    IF IsDesired(s) THEN [desired[s] EXCEPT !.retryIn = newGate + Jitter[s]] ELSE Absent
RetryableNotDue(s) ==
    IF IsDesired(s)
    THEN [desired[s] EXCEPT !.retryIn = Backoff[desired[s].attempt] + Jitter[s]]
    ELSE Absent

\* classify_closed and its four outcomes; both terminal ones act alike.
RateLimitedEntry(s, newGate) ==
    IF IsDesired(s)
    THEN [desired[s] EXCEPT !.needsSend = TRUE, !.attempt = NextAttempt(@),
                            !.retryIn = newGate + Jitter[s]]
    ELSE Absent

RetryableEntry(s) ==
    IF IsDesired(s)
    THEN [desired[s] EXCEPT !.needsSend = TRUE, !.attempt = NextAttempt(@),
                            !.retryIn = Backoff[desired[s].attempt] + Jitter[s]]
    ELSE Absent

HandleClosedByRelay ==
    /\ Incoming("closed")
    /\ LET f == Head(net)
           s == f.sub IN
         /\ s \notin locallyClosing
         /\ wireOpen' = wireOpen \ {s}
         /\ CASE f.class = "rate" ->
                   /\ gate' = ActivateRateLimit(f.hint)
                   /\ owed' = Larger(owed, f.hint)
                   /\ desired' = [desired EXCEPT ![s] = RateLimitedEntry(s, gate')]
              [] f.class = "retry" ->
                   /\ desired' = [desired EXCEPT ![s] = RetryableEntry(s)]
                   /\ UNCHANGED <<gate, owed>>
              [] f.class = "terminal" ->
                   /\ desired' = [desired EXCEPT ![s] = Absent]
                   /\ UNCHANGED <<gate, owed>>
    /\ net' = Tail(net)
    /\ UNCHANGED <<phase, locallyClosing, tickDue, callVars, taskVars, sock,
                   relaySubs, verdict>>

\* A rate-limit NOTICE names no frame: every desired subscription is redone.
HandleNotice ==
    /\ Incoming("notice")
    /\ gate' = ActivateRateLimit(Head(net).hint)
    /\ owed' = Larger(owed, Head(net).hint)
    /\ desired' = [s \in Subs |->
                     IF IsDesired(s)
                     THEN [desired[s] EXCEPT !.needsSend = TRUE,
                                             !.retryIn = gate' + Jitter[s]]
                     ELSE Absent]
    /\ net' = Tail(net)
    /\ UNCHANGED <<phase, wireOpen, locallyClosing, tickDue, callVars,
                   taskVars, sock, relaySubs, verdict>>

\* EOSE and EVENT: the subscription works, its retry state is forgotten.
HandleDelivery ==
    /\ Incoming("eose") \/ Incoming("event")
    /\ LET s == Head(net).sub IN
         /\ desired' = [desired EXCEPT ![s] =
                          IF IsDesired(s)
                          THEN [@ EXCEPT !.attempt = 0, !.retryIn = 0]
                          ELSE Absent]
         /\ wireOpen' = wireOpen \cup {s}
    /\ net' = Tail(net)
    /\ UNCHANGED <<phase, locallyClosing, timeVars, callVars, taskVars, sock,
                   relaySubs, verdict>>

HandleDone ==
    /\ phase = "session"
    /\ publishDone # <<>>
    /\ gate' = ActivateRateLimit(Head(publishDone))
    /\ owed' = Larger(owed, Head(publishDone))
    /\ publishDone' = Tail(publishDone)
    /\ UNCHANGED <<phase, subVars, tickDue, callVars, task, wire, linkVars>>
-----------------------------------------------------------------------------
(* The admission tick *)

\* Mutant: only the interactive queue expires.
InteractiveExpires(cut) ==
    /\ cut["recovery"] = 0 /\ cut["maintenance"] = 0
    /\ cut["interactive"] = Cardinality({i \in 1..Len(queue["interactive"]) :
                                           queue["interactive"][i].age >= QueueTimeout})

\* reject_expired drops, from each queue, the longest prefix that has waited
\* PUBLICATION_QUEUE_TIMEOUT; `cut` says how long those prefixes are.
IsExpiredPrefix(cut) ==
    \A pr \in PubPriorities :
        /\ cut[pr] <= Len(queue[pr])
        /\ \A i \in 1..cut[pr] : queue[pr][i].age >= QueueTimeout
        /\ cut[pr] < Len(queue[pr]) => queue[pr][cut[pr] + 1].age < QueueTimeout

AfterExpiry(cut) ==
    [pr \in PubPriorities |-> SubSeq(queue[pr], cut[pr] + 1, Len(queue[pr]))]

ExpiredPubs(cut) ==
    UNION {{queue[pr][i].pub : i \in 1..cut[pr]} : pr \in PubPriorities}

\* How the relay takes a REQ: it serves it, refuses it with CLOSED, or (an
\* older relay) refuses it with a NOTICE that names nothing.
RelayTakesReq(s, f) ==
    \/ /\ relaySubs' = [relaySubs EXCEPT ![s] = f]
       /\ net' = Append(net, Told("eose", s))
    \/ \E class \in RelayClasses, hint \in Hints :
         /\ relaySubs' = [relaySubs EXCEPT ![s] = NoFilter]
         /\ net' = Append(net, Closed(s, class, hint))
    \/ /\ LegacyNotice
       /\ \E hint \in Hints : net' = Append(net, Notice(hint))
       /\ UNCHANGED relaySubs

\* pop_front
Popped(q, from) == [q EXCEPT ![from] = Tail(@)]

AdmitPublication(lane, q) ==
    LET from == PoppedQueue(lane, q) IN
    /\ queue' = Popped(q, from)
    /\ task' = [pub |-> Head(q[from]).pub, stage |-> "spawned", result |-> "none",
                hint |-> 0, live |-> sock = "up"]
    /\ tickDue' = FALSE
    /\ UNCHANGED <<phase, subVars, sock, net, relaySubs>>

\* handle.subscribe succeeded: the REQ is on the wire.
SendReq(s) ==
    /\ desired' = [desired EXCEPT ![s].needsSend = FALSE, ![s].retryIn = 0]
    /\ wireOpen' = wireOpen \cup {s}
    /\ RelayTakesReq(s, desired[s].filter)

\* A REQ that meets a dead socket breaks out of the session loop; what waits in
\* the publication queues stays there.
AdmitSubscription(q) ==
    /\ queue' = q
    /\ \E s \in NextSubscriptions :
         \/ /\ sock = "up"
            /\ SendReq(s)
            /\ tickDue' = FALSE
            /\ UNCHANGED <<phase, locallyClosing, sock>>
         \/ /\ sock = "down"
            /\ SendCanFail
            /\ LeaveSession("top")
            /\ UNCHANGED desired
    /\ UNCHANGED task

AdmitNothing(q) ==
    /\ queue' = q
    /\ tickDue' = FALSE
    /\ UNCHANGED <<phase, subVars, task, sock, net, relaySubs>>

AdmissionTick ==
    /\ InSession
    /\ tickDue
    /\ RelayHasRoom
    /\ \E cut \in [PubPriorities -> 0..MaxPending] :
         /\ IsExpiredPrefix(cut)
         /\ LET q    == AfterExpiry(cut)
                lane == AdmissionLane(task # NoTask, q) IN
              /\ answer' = [p \in Pubs |-> IF p \in ExpiredPubs(cut) THEN "local"
                                           ELSE answer[p]]
              /\ \/ gate > 0 /\ AdmitNothing(q)
                 \/ gate = 0 /\ lane \in {"interactive", "deferred"}
                      /\ AdmitPublication(lane, q)
                 \/ gate = 0 /\ lane = "subscription" /\ AdmitSubscription(q)
                 \/ gate = 0 /\ lane = "idle" /\ AdmitNothing(q)
    /\ UNCHANGED <<gate, owed, publishDone, wire, verdict>>
-----------------------------------------------------------------------------
(* The publish task: SessionHandle::publish, then the three steps after it *)

SettleAs(result, hint) ==
    task' = [task EXCEPT !.stage = "settled", !.result = result, !.hint = hint]

\* The session writes the EVENT and the acknowledgement timeout starts.
TaskWrite ==
    /\ task # NoTask /\ task.stage = "spawned" /\ task.live
    /\ task' = [task EXCEPT !.stage = "awaiting"]
    /\ wire' = wire \cup {task.pub}
    /\ UNCHANGED <<phase, subVars, timeVars, callVars, publishDone, linkVars>>

\* The session is gone: before the write it never accepted the command, after
\* the write the acknowledgement is lost. Both are an uncorrelated error.
TaskSessionLost ==
    /\ task # NoTask /\ task.stage \in {"spawned", "awaiting"} /\ ~task.live
    /\ SettleAs("uncertain", 0)
    /\ UNCHANGED <<phase, subVars, timeVars, callVars, publishDone, wire,
                   linkVars>>

\* 25 s without an acknowledgement.
TaskTimeout ==
    /\ task # NoTask /\ task.stage = "awaiting" /\ task.live
    /\ SettleAs("uncertain", 0)
    /\ UNCHANGED <<phase, subVars, timeVars, callVars, publishDone, wire,
                   linkVars>>

\* Mutant: an OK is taken for the event in flight whatever event it names.
TaskAcknowledgedByAny ==
    /\ task # NoTask /\ task.stage = "awaiting" /\ task.live
    /\ \E p \in wire : verdict[p] = "accepted"
    /\ SettleAs("accepted", 0)
    /\ UNCHANGED <<phase, subVars, timeVars, callVars, publishDone, wire, linkVars>>

\* OK for this event; a rate-limited refusal carries its hint.
TaskAcknowledged ==
    /\ task # NoTask /\ task.stage = "awaiting" /\ task.live
    /\ \/ verdict[task.pub] = "accepted" /\ SettleAs("accepted", 0)
       \/ verdict[task.pub] = "rejected" /\ SettleAs("rejected", 0)
       \/ /\ verdict[task.pub] = "limited"
          /\ \E hint \in Hints : SettleAs("limited", hint)
    /\ UNCHANGED <<phase, subVars, timeVars, callVars, publishDone, wire,
                   linkVars>>

\* done.send(PublishCompletion)
TaskReport ==
    /\ task # NoTask /\ task.stage = "settled"
    /\ publishDone' = Append(publishDone, task.hint)
    /\ task' = [task EXCEPT !.stage = "reported"]
    /\ UNCHANGED <<phase, subVars, timeVars, callVars, wire, linkVars>>

\* response.send(result)
TaskRespond ==
    /\ task # NoTask /\ task.stage = "reported"
    /\ answer' = [answer EXCEPT ![task.pub] = task.result]
    /\ task' = [task EXCEPT !.stage = "responded"]
    /\ UNCHANGED <<phase, subVars, timeVars, queue, publishDone, wire,
                   linkVars>>

\* inflight.store(false)
TaskEnd ==
    /\ task # NoTask /\ task.stage = "responded"
    /\ task' = NoTask
    /\ UNCHANGED <<phase, subVars, timeVars, callVars, publishDone, wire,
                   linkVars>>
-----------------------------------------------------------------------------
(* The relay, the network and time *)

RelayDecides(p) ==
    /\ p \in wire
    /\ verdict[p] = "none"
    /\ \E v \in {"accepted", "rejected", "limited"} :
         verdict' = [verdict EXCEPT ![p] = v]
    /\ UNCHANGED <<phase, subVars, timeVars, callVars, taskVars, sock, net,
                   relaySubs>>

RelayCanSpeak == sock = "up" /\ RelayHasRoom

RelaySends(s) ==
    /\ RelayCanSpeak
    /\ relaySubs[s] # NoFilter
    /\ net' = Append(net, Told("event", s))
    /\ UNCHANGED <<phase, subVars, timeVars, callVars, taskVars, sock,
                   relaySubs, verdict>>

RelayCloses(s) ==
    /\ RelayCanSpeak
    /\ relaySubs[s] # NoFilter
    /\ relaySubs' = [relaySubs EXCEPT ![s] = NoFilter]
    /\ \E class \in RelayClasses, hint \in Hints :
         net' = Append(net, Closed(s, class, hint))
    /\ UNCHANGED <<phase, subVars, timeVars, callVars, taskVars, sock, verdict>>

\* A rate-limit NOTICE: with exactly one publication pending the session
\* settles it as uncertain, and forwards the notice either way.
RelayNotices ==
    /\ LegacyNotice
    /\ RelayCanSpeak
    /\ \E hint \in Hints : net' = Append(net, Notice(hint))
    /\ \/ /\ task # NoTask /\ task.stage = "awaiting" /\ task.live
          /\ SettleAs("uncertain", 0)
       \/ /\ ~(task # NoTask /\ task.stage = "awaiting" /\ task.live)
          /\ UNCHANGED task
    /\ UNCHANGED <<phase, subVars, timeVars, callVars, publishDone, wire, sock,
                   relaySubs, verdict>>

\* The socket dies under the session: the actor reports it after what it had
\* already received, and drops every pending acknowledgement.
SocketDies ==
    /\ sock = "up"
    /\ sock' = "down"
    /\ net' = Append(net, Disconnected)
    /\ TaskLosesSession
    /\ UNCHANGED <<phase, subVars, timeVars, callVars, publishDone, wire,
                   relaySubs, verdict>>

Elapsed(n) == IF n = 0 THEN 0 ELSE n - 1
Aged(q) == [i \in 1..Len(q) |-> [q[i] EXCEPT !.age = Smaller(@ + 1, QueueTimeout + 1)]]

\* One admission interval passes. In a session the completions and the tick
\* of the clock are served before the next interval ends.
Elapse ==
    /\ phase # "stopped"
    /\ ~tickDue
    /\ phase = "session" => publishDone = <<>>
    /\ tickDue' = (phase = "session")
    /\ gate' = Elapsed(gate)
    /\ owed' = Elapsed(owed)
    /\ desired' = [s \in Subs |-> [desired[s] EXCEPT !.retryIn = Elapsed(@)]]
    /\ queue' = [pr \in PubPriorities |-> Aged(queue[pr])]
    /\ UNCHANGED <<phase, wireOpen, locallyClosing, answer, taskVars, linkVars>>
-----------------------------------------------------------------------------
Command ==
    \/ \E s \in Subs, f \in Filters : \E pr \in PriosOf[s] : HandleSubscribe(s, f, pr)
    \/ \E s \in Closable : HandleClose(s)
    \/ \E p \in Pubs : HandlePublish(p)
    \/ HandleReconnect
    \/ HandleShutdown

SessionEvent ==
    \/ HandleDisconnected
    \/ HandleClosedLocally
    \/ HandleClosedByRelay
    \/ HandleNotice
    \/ HandleDelivery
    \/ HandleDone

Connection ==
    \/ DrainDone
    \/ StartConnect
    \/ ConnectOk
    \/ ConnectDenied
    \/ ConnectFailed
    \/ BackoffOver

Task ==
    \/ TaskWrite
    \/ TaskSessionLost
    \/ TaskTimeout
    \/ TaskAcknowledged
    \/ TaskReport
    \/ TaskRespond
    \/ TaskEnd

Environment ==
    \/ \E p \in Pubs : RelayDecides(p)
    \/ \E s \in Subs : RelaySends(s) \/ RelayCloses(s)
    \/ RelayNotices
    \/ SocketDies
    \/ Elapse

Next == Command \/ SessionEvent \/ Connection \/ AdmissionTick \/ Task \/ Environment

Spec == Init /\ [][Next]_vars

\* What the runtime owes the supervisor: ready commands apart, which nobody has
\* to send, every ready step of its loop and of its task is taken, connecting
\* and sleeping end, and time passes. The tick and the interval need the strong
\* form: the select loop is biased towards what the relay says.
FairSpec ==
    /\ Spec
    /\ WF_vars(SessionEvent)
    /\ WF_vars(Connection)
    /\ WF_vars(Task)
    /\ SF_vars(AdmissionTick)
    /\ SF_vars(Elapse)
=============================================================================
