------------------------------- MODULE Session -------------------------------
(***************************************************************************)
(* One session with the relay (src/realtime/session.rs): the handshake,    *)
(* the task that owns the socket, the publish calls that wait for an OK,   *)
(* and the two bounded channels between the task and the supervisor        *)
(* (src/realtime/supervisor.rs), which waits for the task whenever it      *)
(* hands over a REQ and then receives no event.                            *)
(*                                                                         *)
(* Time is left out: a deadline may pass at any moment in which the code   *)
(* waits for it.  A frame is what the task does with it: an event, EOSE,   *)
(* CLOSED or COUNT is passed on, an OK answers a call, a NOTICE that asks  *)
(* for a pause does both, a ping is answered.  Writing to the socket never *)
(* waits here, and may fail once the relay has closed it.                  *)
(***************************************************************************)
EXTENDS Naturals, Sequences, FiniteSets, SequencesExt

CONSTANTS
    Calls,            \* calls of SessionHandle::publish, one after the other: 1, 2, ...
    EventOf,          \* the event each of them publishes
    CommandCapacity,  \* COMMAND_CAPACITY
    EventCapacity,    \* EVENT_CAPACITY
    Flood,            \* bound: frames the relay sends of itself
    MostRequests,     \* bound: commands of the supervisor
    FloodsRequests    \* frames may fill the events while the supervisor waits

ASSUME SessionAssumption ==
    /\ CommandCapacity \in Nat \ {0} /\ EventCapacity \in Nat \ {0}
    /\ FloodsRequests \in BOOLEAN

VARIABLES
    sessionAt,    \* opening, challenge, auth, running, blocked, ending, gone
    held,         \* the session event that waits for room
    commandQ,     \* the channel of commands
    eventQ,       \* the channel of session events
    pendingAcks,  \* pending: the calls whose entries it has
    frames,       \* what the socket has for the task to read
    relayEnd,     \* up, silent, closed
    unanswered,   \* events written that the relay has not answered
    sentFrames,   \* frames the relay has sent of itself
    keeper,       \* where the supervisor is, with the command in hand
    replied,      \* the answer to its REQ
    requests,     \* commands it has issued
    calls         \* where each publish call is, or how it ended

sessionTask == <<sessionAt, held, pendingAcks>>
relayPart == <<frames, relayEnd, unanswered, sentFrames>>
keeperPart == <<keeper, replied, requests>>
sessionVars == <<sessionTask, commandQ, eventQ, relayPart, keeperPart, calls>>

NoMessage == [kind |-> "none"]
At(place) == [at |-> place, command |-> NoMessage]

SessionInit ==
    /\ sessionAt = "opening" /\ held = NoMessage /\ pendingAcks = {}
    /\ commandQ = <<>> /\ eventQ = <<>>
    /\ frames = <<>> /\ relayEnd = "up" /\ unanswered = {} /\ sentFrames = 0
    /\ keeper = At("connecting") /\ replied = "none" /\ requests = 0
    /\ calls = [c \in Calls |-> "idle"]

UnderWay(c) == calls[c] \in {"sending", "admitting", "waiting"}
Heard == keeper.at # "over"
Room(q, capacity) == Len(q) < capacity

\* The supervisor leaves the session: its end of both channels is dropped.
Leave == keeper' = At("over") /\ eventQ' = <<>>

-----------------------------------------------------------------------------
(* connect_with_diagnostics, until the channels exist.                     *)

\* connect_async, which nothing bounds in time.
Opened ==
    /\ sessionAt = "opening" /\ relayEnd # "silent"
    /\ IF relayEnd = "closed" THEN sessionAt' = "gone" /\ Leave
       ELSE sessionAt' = "challenge" /\ UNCHANGED <<keeper, eventQ>>
    /\ UNCHANGED <<held, pendingAcks, commandQ, relayPart, replied, requests, calls>>

Challenged ==
    /\ sessionAt = "challenge" /\ relayEnd # "silent"
    /\ sessionAt' = "auth"
    /\ UNCHANGED <<held, pendingAcks, commandQ, eventQ, relayPart, keeperPart, calls>>

Authenticated ==
    /\ sessionAt = "auth" /\ relayEnd # "silent"
    /\ sessionAt' = "running" /\ keeper' = At("loop")
    /\ eventQ' = <<[kind |-> "authenticated"]>>
    /\ UNCHANGED <<held, pendingAcks, commandQ, relayPart, replied, requests, calls>>

\* A NOTICE, a refusal, the end of the socket, or four seconds.
HandshakeFails ==
    /\ sessionAt \in {"challenge", "auth"}
    /\ sessionAt' = "gone" /\ Leave
    /\ UNCHANGED <<held, pendingAcks, commandQ, relayPart, replied, requests, calls>>

-----------------------------------------------------------------------------
(* The task.                                                               *)

\* Out of its loop: whoever waits for an OK is told that none will come.
Ended(results) ==
    /\ sessionAt' = "ending" /\ pendingAcks' = {} /\ UNCHANGED held
    /\ calls' = [c \in Calls |-> IF c \in pendingAcks /\ results[c] = "waiting"
                                 THEN "uncertain" ELSE results[c]]

Took(kind) ==
    /\ sessionAt = "running" /\ commandQ # <<>> /\ Head(commandQ).kind = kind
    /\ commandQ' = Tail(commandQ)
    /\ UNCHANGED <<eventQ, frames, relayEnd, sentFrames, keeper, requests>>

TakeSubscribe ==
    /\ Took("subscribe")
    /\ \/ replied' = "ok" /\ UNCHANGED <<sessionTask, calls>>
       \/ relayEnd = "closed" /\ replied' = "failed" /\ Ended(calls)
    /\ UNCHANGED unanswered

TakeClose ==
    /\ Took("close")
    /\ \/ UNCHANGED <<sessionTask, calls>>
       \/ relayEnd = "closed" /\ Ended(calls)
    /\ UNCHANGED <<replied, unanswered>>

Awaiting(e) == {c \in pendingAcks : EventOf[c] = e}

TakePublish ==
    LET c == Head(commandQ).call
        e == EventOf[c] IN
    /\ Took("publish") /\ UNCHANGED replied
    /\ \/ /\ Awaiting(e) # {}
          /\ calls' = [calls EXCEPT ![c] = "refused"]
          /\ UNCHANGED <<sessionTask, unanswered>>
       \/ /\ Awaiting(e) = {}
          /\ calls' = [calls EXCEPT ![c] = "waiting"]
          /\ pendingAcks' = pendingAcks \cup {c}
          /\ unanswered' = unanswered \cup {e}
          /\ UNCHANGED <<sessionAt, held>>
       \/ /\ Awaiting(e) = {} /\ relayEnd = "closed"
          /\ Ended([calls EXCEPT ![c] = "offline"])
          /\ UNCHANGED unanswered

TakeForget ==
    /\ Took("forget")
    /\ pendingAcks' = pendingAcks \ Awaiting(Head(commandQ).event)
    /\ UNCHANGED <<sessionAt, held, replied, unanswered, calls>>

\* Whoever leaves a session that runs shuts it down: the commands do not end
\* without this one.
TakeShutdown == Took("shutdown") /\ Ended(calls) /\ UNCHANGED <<replied, unanswered>>

\* A session event is passed on, or waits for room and the task with it.
Forward(event, results) ==
    \/ /\ Heard /\ Room(eventQ, EventCapacity)
       /\ eventQ' = Append(eventQ, event) /\ sessionAt' = "running" /\ held' = NoMessage
       /\ calls' = results
    \/ /\ Heard /\ ~Room(eventQ, EventCapacity)
       /\ sessionAt' = "blocked" /\ held' = event
       /\ UNCHANGED eventQ /\ calls' = results
    \/ /\ ~Heard /\ event.kind # "event"
       /\ sessionAt' = "running" /\ held' = NoMessage
       /\ UNCHANGED eventQ /\ calls' = results

Read(kind) ==
    /\ sessionAt = "running" /\ frames # <<>> /\ Head(frames).kind = kind
    /\ frames' = Tail(frames)
    /\ UNCHANGED <<commandQ, relayEnd, unanswered, sentFrames, keeperPart>>

ReadEvent ==
    /\ Read("event")
    /\ \/ Forward([kind |-> "event"], calls) /\ UNCHANGED pendingAcks
       \/ ~Heard /\ Ended(calls) /\ UNCHANGED eventQ

Answered(S, how) ==
    [c \in Calls |-> IF c \in S /\ calls[c] = "waiting" THEN how ELSE calls[c]]

ReadOk ==
    LET S == Awaiting(Head(frames).event) IN
    /\ Read("ok")
    /\ pendingAcks' = pendingAcks \ S /\ calls' = Answered(S, "acked")
    /\ UNCHANGED <<sessionAt, held, eventQ>>

ReadNotice ==
    LET S == IF Cardinality(pendingAcks) = 1 THEN pendingAcks ELSE {} IN
    /\ Read("notice")
    /\ pendingAcks' = pendingAcks \ S
    /\ Forward([kind |-> "notice"], Answered(S, "limited"))

ReadPing ==
    /\ Read("ping") /\ UNCHANGED eventQ
    /\ \/ UNCHANGED <<sessionTask, calls>>
       \/ relayEnd = "closed" /\ Ended(calls)

Unblock ==
    /\ sessionAt = "blocked" /\ Room(eventQ, EventCapacity)
    /\ \/ Forward(held, calls) /\ UNCHANGED pendingAcks
       \/ ~Heard /\ held.kind = "event" /\ Ended(calls) /\ UNCHANGED eventQ
    /\ UNCHANGED <<commandQ, relayPart, keeperPart>>

\* Mutant: no heartbeat; silence is taken for an idle relay.
SocketCloses ==
    /\ sessionAt = "running" /\ relayEnd = "closed"
    /\ Ended(calls)
    /\ UNCHANGED <<commandQ, eventQ, relayPart, keeperPart>>

\* The socket fails or has ended, or sixty seconds pass without a frame.
SocketEnds ==
    /\ sessionAt = "running"
    /\ relayEnd = "closed" \/ (relayEnd = "silent" /\ frames = <<>>)
    /\ Ended(calls)
    /\ UNCHANGED <<commandQ, eventQ, relayPart, keeperPart>>

\* The last event; the commands that are left are dropped with the channel.
Disconnects ==
    /\ sessionAt = "ending"
    /\ IF Heard
       THEN Room(eventQ, EventCapacity) /\ eventQ' = Append(eventQ, [kind |-> "disconnected"])
       ELSE UNCHANGED eventQ
    /\ sessionAt' = "gone" /\ commandQ' = <<>>
    /\ replied' = IF keeper.at = "answer" /\ replied = "none" THEN "failed" ELSE replied
    /\ calls' = [c \in Calls |-> IF calls[c] = "admitting" THEN "offline" ELSE calls[c]]
    /\ UNCHANGED <<held, pendingAcks, relayPart, keeper, requests>>

SessionTask ==
    \/ TakeSubscribe \/ TakeClose \/ TakePublish \/ TakeForget \/ TakeShutdown
    \/ ReadEvent \/ ReadOk \/ ReadNotice \/ ReadPing
    \/ Unblock \/ SocketEnds \/ Disconnects

-----------------------------------------------------------------------------
(* The supervisor, as far as it uses the session.                          *)

\* The supervisor may have to wait for the task to take this command.
MayWait(kind) == kind = "subscribe" \/ commandQ # <<>>
HandsOver == keeper.at = "answer" \/ (keeper.at = "sending" /\ MayWait(keeper.command.kind))

Calm == Len(frames) < EventCapacity /\ sessionAt # "blocked"

\* A REQ or a CLOSE is due, or a reconnection is asked for, and no event waits
\* to be received first.
Request(kind) ==
    /\ keeper.at = "loop" /\ eventQ = <<>> /\ requests < MostRequests
    /\ FloodsRequests \/ Calm \/ ~MayWait(kind)
    /\ keeper' = [at |-> "sending", command |-> [kind |-> kind]]
    /\ requests' = requests + 1
    /\ UNCHANGED <<sessionTask, commandQ, eventQ, relayPart, replied, calls>>

KeeperSends ==
    LET kind == keeper.command.kind IN
    /\ keeper.at = "sending"
    /\ \/ /\ sessionAt = "gone" /\ Leave /\ UNCHANGED commandQ
       \/ /\ sessionAt # "gone" /\ Room(commandQ, CommandCapacity)
          /\ commandQ' = Append(commandQ, keeper.command)
          /\ CASE kind = "subscribe" -> keeper' = At("answer") /\ UNCHANGED eventQ
               [] kind = "close"     -> keeper' = At("loop") /\ UNCHANGED eventQ
               [] kind = "shutdown"  -> Leave
    /\ UNCHANGED <<sessionTask, relayPart, replied, requests, calls>>

KeeperAnswered ==
    /\ keeper.at = "answer" /\ replied # "none" /\ replied' = "none"
    /\ IF replied = "ok" THEN keeper' = At("loop") /\ UNCHANGED eventQ ELSE Leave
    /\ UNCHANGED <<sessionTask, commandQ, relayPart, requests, calls>>

KeeperReceives ==
    /\ keeper.at = "loop" /\ eventQ # <<>>
    /\ IF Head(eventQ).kind = "disconnected" THEN Leave
       ELSE eventQ' = Tail(eventQ) /\ UNCHANGED keeper
    /\ UNCHANGED <<sessionTask, commandQ, relayPart, replied, requests, calls>>

-----------------------------------------------------------------------------
(* SessionHandle::publish, in a task of its own.                           *)

Publish(c) ==
    /\ calls[c] = "idle" /\ keeper.at = "loop" /\ eventQ = <<>>
    /\ \A d \in Calls : ~UnderWay(d) /\ (d < c => calls[d] # "idle")
    /\ calls' = [calls EXCEPT ![c] = "sending"]
    /\ UNCHANGED <<sessionTask, commandQ, eventQ, relayPart, keeperPart>>

CallSends(c) ==
    /\ calls[c] = "sending"
    /\ \/ /\ sessionAt = "gone" /\ calls' = [calls EXCEPT ![c] = "offline"]
          /\ UNCHANGED commandQ
       \/ /\ sessionAt # "gone" /\ Room(commandQ, CommandCapacity)
          /\ commandQ' = Append(commandQ, [kind |-> "publish", call |-> c])
          /\ calls' = [calls EXCEPT ![c] = "admitting"]
    /\ UNCHANGED <<sessionTask, eventQ, relayPart, keeperPart>>

\* Twenty-five seconds: the entry is to be forgotten, if the command finds room.
TimesOut(c) ==
    /\ calls[c] = "waiting"
    /\ calls' = [calls EXCEPT ![c] = "uncertain"]
    /\ commandQ' = IF sessionAt # "gone" /\ Room(commandQ, CommandCapacity)
                   THEN Append(commandQ, [kind |-> "forget", event |-> EventOf[c]])
                   ELSE commandQ
    /\ UNCHANGED <<sessionTask, eventQ, relayPart, keeperPart>>

-----------------------------------------------------------------------------
(* The relay and the network.                                              *)

RelayFrame(kind) ==
    /\ relayEnd = "up" /\ sessionAt \in {"running", "blocked", "ending"}
    /\ FloodsRequests \/ ~HandsOver
    /\ sentFrames < Flood /\ sentFrames' = sentFrames + 1
    /\ frames' = Append(frames, [kind |-> kind])
    /\ UNCHANGED <<relayEnd, unanswered>>

RelayAcknowledges(e) ==
    /\ relayEnd = "up" /\ e \in unanswered
    /\ unanswered' = unanswered \ {e}
    /\ frames' = Append(frames, [kind |-> "ok", event |-> e])
    /\ UNCHANGED <<relayEnd, sentFrames>>

\* The network is lost without a word, or the relay closes the socket.
RelayLost ==
    /\ relayEnd = "up" /\ relayEnd' \in {"silent", "closed"}
    /\ UNCHANGED <<frames, unanswered, sentFrames>>

Outside ==
    /\ \/ \E kind \in {"event", "notice", "ping"} : RelayFrame(kind)
       \/ \E e \in unanswered : RelayAcknowledges(e)
       \/ RelayLost
    /\ UNCHANGED <<sessionTask, commandQ, eventQ, keeperPart, calls>>

SessionNext ==
    \/ Opened \/ Challenged \/ Authenticated \/ HandshakeFails
    \/ SessionTask
    \/ \E kind \in {"subscribe", "close", "shutdown"} : Request(kind)
    \/ KeeperSends \/ KeeperAnswered \/ KeeperReceives
    \/ \E c \in Calls : Publish(c) \/ CallSends(c) \/ TimesOut(c)
    \/ Outside

\* Tasks run on and deadlines pass; of the user and the relay nothing is asked.
SessionStep == HandshakeFails \/ SessionTask
KeeperStep == KeeperSends \/ KeeperAnswered \/ KeeperReceives
CallStep == \E c \in Calls : CallSends(c) \/ TimesOut(c)
SessionFairness ==
    /\ WF_sessionVars(SessionStep) /\ WF_sessionVars(KeeperStep) /\ WF_sessionVars(CallStep)

SessionSpec == SessionInit /\ [][SessionNext]_sessionVars /\ SessionFairness

-----------------------------------------------------------------------------
\* Whoever waits for the session is let go in the end, whatever the relay and
\* the network do: the supervisor that hands over a command, a publish call,
\* and, when the relay is lost, the supervisor that is to connect again.
NobodyWaitsForever ==
    /\ keeper.at \in {"connecting", "sending", "answer"} /\ sessionAt # "opening"
         ~> keeper.at \in {"loop", "over"}
    /\ (\E c \in Calls : UnderWay(c)) ~> \A c \in Calls : ~UnderWay(c)
    /\ relayEnd # "up" /\ sessionAt # "opening" ~> keeper.at = "over"

Waits(kind) == \E i \in 1..Len(commandQ) : commandQ[i].kind = kind

\* Nobody waits for nothing: whenever the supervisor or a publish call waits, what
\* is to end the wait is under way.  The REQ whose answer is awaited is among the
\* commands or answered; a session that was left is told to end or ends; whoever
\* has not left a session that is gone finds the disconnection at the end of the
\* events; the command of a call is there to be taken, and a call that waits for an
\* OK has its entry, which the forgotten entry of an earlier call for the same event
\* does not take away.
EveryWaitIsOwed ==
    /\ keeper.at = "connecting" => sessionAt \in {"opening", "challenge", "auth"}
    /\ keeper.at = "answer" =>
          replied # "none" \/ (sessionAt # "gone" /\ Waits("subscribe"))
    /\ keeper.at = "over" => sessionAt \in {"ending", "gone"} \/ Waits("shutdown")
    /\ keeper.at # "over" /\ sessionAt = "gone" =>
          eventQ # <<>> /\ eventQ[Len(eventQ)].kind = "disconnected"
    /\ \A c \in Calls :
          /\ calls[c] = "admitting" =>
                /\ sessionAt # "gone"
                /\ \E i \in 1..Len(commandQ) :
                      commandQ[i].kind = "publish" /\ commandQ[i].call = c
          /\ calls[c] = "waiting" => c \in pendingAcks /\ sessionAt \in {"running", "blocked"}

\* While the supervisor hands over a REQ or waits for its answer, and so receives
\* no event, the task does not wait for room among the events: neither waits for
\* the other.
HandsRequest ==
    keeper.at = "answer" \/ (keeper.at = "sending" /\ keeper.command.kind = "subscribe")
NoEmbrace == HandsRequest => sessionAt # "blocked"

\* "No pong or inbound frame for 60 seconds marks the session stalled and
\* reconnects" (docs/planning/2026-07-31/mvp.md).
SilenceIsNoticed ==
    relayEnd = "silent" /\ sessionAt # "opening" ~> keeper.at = "over"
=============================================================================
