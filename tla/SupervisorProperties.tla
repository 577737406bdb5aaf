------------------------ MODULE SupervisorProperties ------------------------
(***************************************************************************)
(* What the supervisor promises: to the relay (pacing, silence, closing),   *)
(* to the callers of publish (answers that can be trusted, bounded waits)   *)
(* and to the user (subscriptions that heal by themselves).                 *)
(***************************************************************************)
EXTENDS Supervisor

QueueItem == [pub : Pubs, age : 0..(QueueTimeout + 1)]

Frames == [kind : {"closed"}, sub : Subs, class : ClosedClasses,
           hint : Hints \cup {0}]
            \cup [kind : {"eose", "event"}, sub : Subs]
            \cup [kind : {"notice"}, hint : Hints]
            \cup {Disconnected}

\* Type correctness: the shape of the locals of `run` and of what surrounds it.
TypeOK ==
    /\ phase \in {"top", "connecting", "terminal", "backoff", "session", "stopped"}
    /\ desired \in [Subs -> Entry]
    /\ wireOpen \subseteq Subs
    /\ locallyClosing \subseteq Subs
    /\ gate \in Nat
    /\ tickDue \in BOOLEAN
    /\ queue \in [PubPriorities -> Seq(QueueItem)]
    /\ task \in PublishTask \cup {NoTask}
    /\ publishDone \in Seq(Hints \cup {0})
    /\ answer \in [Pubs -> Outcomes \cup {"local", "offline"}]
    /\ sock \in {"up", "down", "none"}
    /\ net \in Seq(Frames)
    /\ relaySubs \in [Subs -> Filters \cup {NoFilter}]
    /\ wire \subseteq Pubs
    /\ verdict \in [Pubs -> {"none", "accepted", "rejected", "limited"}]
    /\ owed \in Nat

Holds(p) == task # NoTask /\ task.pub = p

\* A publication the caller is told was refused locally, or refused for want of
\* a session, never reached the wire. On a local refusal service/messages.rs
\* records the outbox row as rejected ("delivery is definitively absent") and
\* gives the draft back to be sent again as another event, so a wrong one would
\* publish the message twice (local_admission_error).
LocalMeansUnsent ==
    \A p \in Pubs : answer[p] \in {"local", "offline"} => p \notin wire

\* The caller is told "accepted" or "rejected" only if the relay decided so
\* about this very event, whatever was lost, late or answered after a
\* reconnection (SessionHandle::publish and the publish task).
AnswersAreTheRelays ==
    \A p \in Pubs :
        answer[p] \in {"accepted", "rejected", "limited"} => verdict[p] = answer[p]

\* One publication at a time, and none forgotten: an event on the wire that its
\* caller has not been answered about is the one the publish task holds
\* (publish_inflight, across sessions).
OneUnsettledOnWire ==
    \A p \in wire : answer[p] = "none" => Holds(p)

\* No event is written twice: what is queued or about to be written has never
\* been on a wire (the supervisor never publishes again by itself).
NeverWrittenTwice ==
    \A p \in wire : p \notin Queued /\ (Holds(p) => task.stage # "spawned")

\* A call has at most one place in the queues.
Distinct ==
    \A a, b \in PubPriorities : \A i \in 1..Len(queue[a]), j \in 1..Len(queue[b]) :
        queue[a][i].pub = queue[b][j].pub => a = b /\ i = j

\* What is queued is unanswered, unwritten and not with the task.
QueuedInv ==
    \A p \in Queued : answer[p] = "none" /\ p \notin wire /\ ~Holds(p)

\* The task and what it carries, step by step.
TaskInv ==
    task # NoTask =>
        /\ task.stage = "spawned" => task.pub \notin wire
        /\ task.stage # "responded" => answer[task.pub] = "none"
        /\ task.stage = "responded" => answer[task.pub] # "none"
        /\ task.stage \in {"settled", "reported"} =>
               /\ task.result # "none"
               /\ task.result \in {"accepted", "rejected", "limited"} =>
                      verdict[task.pub] = task.result

\* The inductive invariant behind the promises to the callers of publish: every
\* call is in one place, and the place fixes what is known about it.
PublicationInv ==
    /\ Distinct
    /\ QueuedInv
    /\ TaskInv
    /\ LocalMeansUnsent
    /\ AnswersAreTheRelays
    /\ OneUnsettledOnWire

\* A call that the port has taken: the state of the abstract specification is
\* all there, but for the calls that are still waiting.
Asked == {p \in Pubs : ~Fresh(p)}

Port == INSTANCE PublishPort WITH asked <- Asked

\* Whatever is queued, paced, lost with its session or answered late, a caller
\* of publish sees what PublishPort describes: an event written at most once,
\* one at a time, refusals only of what was never written, and decisions only
\* of the relay's own about that event.
KeepsThePort == Port!PortSpec

FrameAdmitted ==
    \/ task = NoTask /\ task' # NoTask
    \/ \E s \in Subs : /\ IsDesired(s) /\ IsDesired(s)'
                      /\ desired[s].needsSend /\ ~desired'[s].needsSend

\* What the relay was promised: after a rate-limited CLOSED, NOTICE or OK has
\* been handled, no REQ or EVENT is admitted before its hint has run out, over
\* overlapping hints and over reconnections (activate_rate_limit and the tick).
GateHonoured == [][FrameAdmitted => owed = 0]_vars

\* The invariant behind it: the gate is never open while silence is owed.
GateInv == owed <= gate

\* No publication waits in a queue past the admission deadline: at the interval
\* it reaches PUBLICATION_QUEUE_TIMEOUT the next tick refuses it, gate or no gate,
\* task in flight or not (reject_expired).
QueueWaitBounded ==
    \A pr \in PubPriorities : \A i \in 1..Len(queue[pr]) :
        queue[pr][i].age <= QueueTimeout

\* The queues never hold more than MAX_PENDING_PUBLICATIONS together.
QueueBounded == Cardinality(Queued) <= MaxPending

\* A session that ends refuses all it had queued (reject_all on every way out).
QueuesDieWithSession == phase # "session" => Queued = {}

\* What waits is bounded in time, in number and by the session, as long as no
\* REQ meets a dead socket: that way out of the session loop leaves the queues
\* as they are (the Err arm of handle.subscribe in the admission tick).
QueuesSound == QueueWaitBounded /\ QueueBounded /\ QueuesDieWithSession

\* The invariant behind it. The queues are in order of age, so that what
\* reject_expired leaves is young; between a tick and the next interval all of it
\* is, and what grows past the deadline meets a tick that is due.
InOrder(q) == \A i, j \in 1..Len(q) : i <= j => q[j].age <= q[i].age
Younger(q, age) == \A i \in 1..Len(q) : q[i].age < age

QueuesInv ==
    /\ \A pr \in PubPriorities :
         /\ InOrder(queue[pr])
         /\ Younger(queue[pr], QueueTimeout + 1)
         /\ ~tickDue => Younger(queue[pr], QueueTimeout)
         /\ phase # "session" => queue[pr] = <<>>

Refusal(f, s) == \/ f.kind = "notice"
                 \/ f.kind = "closed" /\ f.sub = s

\* No subscription black hole: while the socket is up, a subscription that is
\* desired and not waiting to be sent is the one the relay serves, with the
\* newest filter, unless the frame that says otherwise is on its way.
NoBlackHole ==
    phase = "session" /\ sock = "up" =>
        \A s \in Subs :
            IsDesired(s) /\ ~desired[s].needsSend =>
                \/ relaySubs[s] = desired[s].filter
                \/ \E i \in 1..Len(net) : Refusal(net[i], s)

\* The invariant behind it, with a relay that acknowledges every CLOSE: an
\* awaited acknowledgement is on its way, so the frame that HandleClosedLocally
\* takes for it is never the only word of the relay's refusal.
ClosesAt(i, s) == net[i].kind = "closed" /\ net[i].sub = s

ClosesAwaited ==
    \A s \in locallyClosing : \E i \in 1..Len(net) : ClosesAt(i, s)

Contradicted(s) ==
    \E i \in 1..Len(net) :
        \/ net[i].kind = "notice"
        \/ /\ ClosesAt(i, s)
           /\ s \in locallyClosing => \E j \in 1..Len(net) : j < i /\ ClosesAt(j, s)

Settled(s) == IsDesired(s) /\ ~desired[s].needsSend

RefusalInv ==
    /\ ClosesAwaited
    /\ phase = "session" /\ sock = "up" =>
         \A s \in Subs : Settled(s) =>
             relaySubs[s] = desired[s].filter \/ Contradicted(s)

\* Every publish call the supervisor took is answered in the end, whatever the
\* relay and the network do.
PublicationAnswered ==
    \A p \in Pubs : (p \in Queued \/ Holds(p)) ~> answer[p] # "none"

\* The weakest relay worth connecting to: it does not refuse every connection,
\* nor every REQ for the same subscription.
ServesReq(s) ==
    AdmissionTick /\ desired[s].needsSend /\ ~desired'[s].needsSend
        /\ relaySubs'[s] = desired[s].filter
RecoverySpec ==
    /\ FairSpec
    /\ SF_vars(ConnectOk)
    /\ \A s \in Subs : SF_vars(ServesReq(s))

\* With such a relay every desired subscription ends up served with its newest
\* filter, or is given up: quota pressure and lost connections heal by
\* themselves (retry_at, needs_send and the replay after a reconnection).
SubscriptionRestored ==
    \A s \in Subs :
        IsDesired(s) ~> \/ relaySubs[s] = desired[s].filter
                        \/ ~IsDesired(s)
                        \/ phase = "stopped"
=============================================================================
