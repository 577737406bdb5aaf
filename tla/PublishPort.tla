----------------------------- MODULE PublishPort -----------------------------
(***************************************************************************)
(* What ConnectionHandle::publish promises to those who call it, without    *)
(* the queues, the clock, the gate and the task by which the supervisor     *)
(* keeps it: the callers are service/messages.rs and sync/outbox.rs, which  *)
(* decide by the answer whether a message may be written again.             *)
(***************************************************************************)
EXTENDS Naturals

CONSTANT Pubs

VARIABLES
    asked,    \* the calls that have been made
    wire,     \* those whose EVENT was written to a socket
    verdict,  \* what the relay decided about each EVENT
    answer    \* what each call has been answered

portVars == <<asked, wire, verdict, answer>>

Verdicts == {"accepted", "rejected", "limited"}
Open(p) == p \in asked /\ answer[p] = "none"

PortInit ==
    /\ asked = {}
    /\ wire = {}
    /\ verdict = [p \in Pubs |-> "none"]
    /\ answer = [p \in Pubs |-> "none"]

\* A call is taken, or refused at once.
Ask(p) ==
    /\ p \notin asked
    /\ asked' = asked \cup {p}
    /\ \/ UNCHANGED answer
       \/ \E a \in {"local", "offline"} : answer' = [answer EXCEPT ![p] = a]
    /\ UNCHANGED <<wire, verdict>>

\* Calls are refused together, before any of their events is written.
Refuse(calls) ==
    /\ \A p \in calls : Open(p) /\ p \notin wire
    /\ answer' = [p \in Pubs |-> IF p \in calls THEN "local" ELSE answer[p]]
    /\ UNCHANGED <<asked, wire, verdict>>

\* An event is written once, and not while another one waits for its answer.
Write(p) ==
    /\ Open(p)
    /\ \A q \in wire : answer[q] # "none"
    /\ wire' = wire \cup {p}
    /\ UNCHANGED <<asked, verdict, answer>>

Decide(p) ==
    /\ p \in wire
    /\ verdict[p] = "none"
    /\ \E v \in Verdicts : verdict' = [verdict EXCEPT ![p] = v]
    /\ UNCHANGED <<asked, wire, answer>>

\* A call is answered with the relay's decision about its own event, or with
\* the admission that none is known.
Answer(p) ==
    /\ Open(p)
    /\ \E a \in Verdicts \cup {"uncertain"} :
         /\ a # "uncertain" => verdict[p] = a
         /\ answer' = [answer EXCEPT ![p] = a]
    /\ UNCHANGED <<asked, wire, verdict>>

PortNext ==
    \/ \E p \in Pubs : Ask(p) \/ Write(p) \/ Decide(p) \/ Answer(p)
    \/ \E calls \in SUBSET Pubs : Refuse(calls)

PortSpec == PortInit /\ [][PortNext]_portVars
=============================================================================
