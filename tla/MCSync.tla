------------------------------- MODULE MCSync -------------------------------
(* Small instances of what keeps this client in step with the relay and     *)
(* with its other writers: history, read state, agents, the event stream.   *)
(* They share no state, so a behaviour follows one of them (focus) while    *)
(* the others rest at their beginning.                                      *)
EXTENDS Backfill, ReadState, Agents, Stream

VARIABLE focus
syncVars == <<backfillVars, readVars, agentVars, streamVars, focus>>

\* History: two events of one second and a later one.
SecondOf == [e \in {1, 2, 3} |-> IF e = 3 THEN 2 ELSE 1]

\* Agents: in a channel as a bot, someone else's, open to anyone.
OpenToAnyone ==
  [place |-> [r \in Rooms |-> IF r = "r" THEN "bot" ELSE "member"],
   owner |-> Dated("theirs", 0), declared |-> TRUE, policy |-> Dated("anyone", 0)]

\* Threads: one in each of two channels, the replies in the first.
ChannelOfRoot(root) == IF root = "t" THEN "x" ELSE "y"
RootOf(r) == "t"

SyncInit ==
  /\ focus \in {"history", "read state", "agents", "stream"}
  /\ BackfillInit /\ ReadInit /\ AgentsInit /\ StreamInit
  /\ focus # "stream" => openChannel = "x"

SyncNext ==
  /\ UNCHANGED focus
  /\ \/ /\ focus = "history" /\ BackfillNext
        /\ UNCHANGED <<readVars, agentVars, streamVars>>
     \/ /\ focus = "read state" /\ ReadNext
        /\ UNCHANGED <<backfillVars, agentVars, streamVars>>
     \/ /\ focus = "agents" /\ AgentsNext
        /\ UNCHANGED <<backfillVars, readVars, streamVars>>
     \/ /\ focus = "stream" /\ StreamNext
        /\ UNCHANGED <<backfillVars, readVars, agentVars>>

SyncSpec == SyncInit /\ [][SyncNext]_syncVars
=============================================================================
