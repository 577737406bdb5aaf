---------------------------- MODULE MCSupervisor ----------------------------
(* Small instances of the supervisor for TLC.                                    *)
EXTENDS SupervisorProperties

CONSTANTS p1, p2, p3, f1, f2

\* Publications: one call per priority, or two that compete for one queue.
PubsThree == {p1, p2, p3}
PubsTwo == {p1, p2}
PrioThree == [p \in PubsThree |-> IF p = p1 THEN "interactive"
                                  ELSE IF p = p2 THEN "recovery" ELSE "maintenance"]
PrioSame == [p \in PubsTwo |-> "interactive"]
PrioNone == [p \in {} |-> "interactive"]

\* Subscriptions: none, or one of the selected channel.
PriosNone == [s \in {} |-> {"background"}]
PriosOne == [s \in {1} |-> {"foreground"}]
JitterNone == [s \in {} |-> 0]
JitterOne == [s \in {1} |-> 1]

\* retry_backoff (1, 2, 4, ... seconds up to a cap), two steps of it.
Doubling == [n \in 0..1 |-> 2 ^ n]
=============================================================================
