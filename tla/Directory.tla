------------------------------ MODULE Directory ------------------------------
(***************************************************************************)
(* How the directory of a community (its channels, who is in them, which   *)
(* direct messages are hidden) follows the relay: the live subscription    *)
(* and the refreshes of src/src/sync/directory.rs both write the event     *)
(* store, each through jobs that one thread runs one after another         *)
(* (src/src/store/writer.rs), and a refresh also overwrites the column     *)
(* is_member with what it was told when it started.                        *)
(*                                                                         *)
(* A change of membership that is stored aborts the refresh in             *)
(* App::directory_task and spawns another; connecting, reconnecting and    *)
(* the commands on direct messages start refreshes of their own.           *)
(***************************************************************************)
EXTENDS EventStore

CONSTANTS
  Spawned,        \* tasks with a refresh of their own; a bound on how many
  DirectoryTask   \* the refresh in App::directory_task

Tasks == Spawned \cup {DirectoryTask}
Nobody == "nobody"

ASSUME TasksAssumption == DirectoryTask \notin Spawned /\ Nobody \notin Tasks

Stages == {"idle", "failed", "pin", "members", "joined", "channels", "visibility"}
Queries == {"members", "channels", "visibility"}

VARIABLES
  published,   \* relay: the projections it has signed
  live,        \* on the way to the client, in the subscriptions
  due,         \* the application is about to spawn a refresh
  task,        \* the refreshes
  writer       \* the task whose batch the store's thread is applying

relayVars == <<published, live>>
refreshVars == <<task, writer>>
dirVars == <<storeVars, relayVars, due, refreshVars>>

Idle == [stage |-> "idle", asked |-> FALSE, batch |-> {}, told |-> {}]
Failed == [Idle EXCEPT !.stage = "failed"]
Asking == [Idle EXCEPT !.stage = "members"]
Ended(t) == task[t] \in {Idle, Failed}

DirInit ==
  /\ Init
  /\ published = {} /\ live = {} /\ due = FALSE
  /\ task = [t \in Tasks |-> Idle]
  /\ writer = Nobody

-----------------------------------------------------------------------------
(* The relay: of each coordinate it serves the event that stands, by the   *)
(* same orders as the client keeps it.                                     *)

Standing(kind, c) ==
  LET these == {e \in published : Kind(e) = kind /\ Event[e].channel = c}
      beaten(e, d) == IF kind = "channel" THEN Greater(d, e) ELSE Newer(d, e) IN
  {e \in these : \A d \in these \ {e} : ~beaten(e, d)}

Lists(e, key) == \E role \in Roles : <<key, role>> \in Event[e].members

\* The snapshots that name the active identity: the first query's filter.
Joined == {e \in UNION {Standing("members", c) : c \in Channels} : Lists(e, Self)}

\* Mutant: the metadata is left to the subscription.
AnswerMembersOnly(stage) == IF stage = "members" THEN Joined ELSE {}

Answer(stage) ==
  CASE stage = "members"    -> Joined
    [] stage = "channels"   -> UNION {Standing("channel", c) : c \in Channels}
    [] stage = "visibility" -> UNION {Standing("visibility", c) : c \in Channels}

\* The relay replaces an event only by one that stands over it.
RelayPublishes(e) ==
  /\ e \notin published /\ Kind(e) \in RelayKinds
  /\ published' = published \cup {e}
  /\ e \in Standing(Kind(e), Event[e].channel)'
  /\ live' = live \cup {e}
  /\ UNCHANGED <<storeVars, due, refreshVars>>

-----------------------------------------------------------------------------
(* The application's loop: a live event is applied, and if it is a         *)
(* membership snapshot and changed the store the loop then spawns.         *)

StoreIsFree == writer = Nobody

\* Mutant: the tables of members are taken to be enough.
LiveEventOnly(e) ==
  /\ e \in live /\ ~due /\ StoreIsFree
  /\ live' = live \ {e}
  /\ Apply(e)
  /\ UNCHANGED <<published, due, refreshVars>>

LiveEvent(e) ==
  /\ e \in live /\ ~due /\ StoreIsFree
  /\ live' = live \ {e}
  /\ Apply(e)
  /\ due' = (Kind(e) = "members" /\ e \notin stored /\ ~Refused(e))
  /\ UNCHANGED <<published, refreshVars>>

\* A notification of the relay, a change of members told by a system row, or
\* the end of the subscription to a channel.
Notified ==
  /\ ~due /\ due' = TRUE
  /\ UNCHANGED <<storeVars, relayVars, refreshVars>>

\* A job of the aborted task that the store's thread has begun runs to its
\* end, before any job of the task that is spawned.
SpawnRefresh ==
  /\ due /\ writer # DirectoryTask
  /\ due' = FALSE
  /\ task' = [task EXCEPT ![DirectoryTask] = Asking]
  /\ UNCHANGED <<storeVars, relayVars, writer>>

\* The session is established, for the first time or again: what was on the
\* way is lost, and a task pins the relay's key and refreshes.
Connect(t) ==
  /\ t \in Spawned /\ Ended(t) /\ ~due
  /\ task' = [task EXCEPT ![t] = [Idle EXCEPT !.stage = "pin"]]
  /\ live' = {}
  /\ UNCHANGED <<storeVars, published, due, writer>>

\* A command on direct messages refreshes to find or confirm its channel.
DmCommand(t) ==
  /\ t \in Spawned /\ Ended(t) /\ pinned
  /\ task' = [task EXCEPT ![t] = Asking]
  /\ UNCHANGED <<storeVars, relayVars, due, writer>>

-----------------------------------------------------------------------------
(* The stages of a refresh; an error anywhere ends it and is reported.     *)

Pin(t) ==
  /\ task[t].stage = "pin" /\ StoreIsFree
  /\ PinRelay
  /\ task' = [task EXCEPT ![t] = Asking]
  /\ UNCHANGED <<relayVars, due, writer>>

Ask(t) ==
  /\ task[t].stage \in Queries /\ ~task[t].asked
  /\ task' = [task EXCEPT ![t] =
       [stage |-> task[t].stage, asked |-> TRUE, batch |-> Answer(task[t].stage),
        told |-> IF task[t].stage = "members" THEN {Event[e].channel : e \in Joined}
                 ELSE task[t].told]]
  /\ UNCHANGED <<storeVars, relayVars, due, writer>>

AskFails(t) ==
  /\ task[t].stage \in Queries \cup {"pin"} /\ ~task[t].asked
  /\ task' = [task EXCEPT ![t] = Failed]
  /\ UNCHANGED <<storeVars, relayVars, due, writer>>

\* directory::apply: one job stores the events of an answer one by one.
StoreOne(t, e) ==
  /\ task[t].asked /\ writer \in {Nobody, t}
  /\ e \in task[t].batch /\ ~Refused(e)
  /\ Apply(e)
  /\ task' = [task EXCEPT ![t].batch = @ \ {e}]
  /\ writer' = t
  /\ UNCHANGED <<relayVars, due>>

\* The first event that is refused ends the job and the refresh.
StoreRefused(t, e) ==
  /\ task[t].asked /\ writer \in {Nobody, t}
  /\ e \in task[t].batch /\ Refused(e)
  /\ task' = [task EXCEPT ![t] = Failed]
  /\ writer' = Nobody
  /\ UNCHANGED <<storeVars, relayVars, due>>

After(stage) ==
  CASE stage = "members"    -> "joined"
    [] stage = "channels"   -> "visibility"
    [] stage = "visibility" -> "idle"

StoreDone(t) ==
  /\ task[t].asked /\ writer \in {Nobody, t} /\ task[t].batch = {}
  /\ task' = [task EXCEPT ![t] =
                IF task[t].stage = "visibility" THEN Idle
                ELSE [task[t] EXCEPT !.stage = After(task[t].stage), !.asked = FALSE]]
  /\ writer' = Nobody
  /\ UNCHANGED <<storeVars, relayVars, due>>

\* reconcile_self_memberships: is_member becomes what the query told.
ReconcileSelfMemberships(t) ==
  /\ task[t].stage = "joined" /\ StoreIsFree
  /\ channel' = [c \in Channels |->
                   [channel[c] EXCEPT !.joined = channel[c].known /\ c \in task[t].told]]
  /\ task' = [task EXCEPT ![t] = [Idle EXCEPT !.stage = "channels"]]
  /\ UNCHANGED <<pinned, stored, deletions, search, profileHead, memberHead,
                 rows, visibility, relayVars, due, writer>>

RefreshStep(t) ==
  \/ Pin(t) \/ Ask(t) \/ AskFails(t)
  \/ StoreDone(t) \/ ReconcileSelfMemberships(t)
  \/ \E e \in task[t].batch : StoreOne(t, e) \/ StoreRefused(t, e)

DirNext ==
  \/ \E e \in Ids : RelayPublishes(e) \/ LiveEvent(e)
  \/ Notified \/ SpawnRefresh
  \/ \E t \in Spawned : Connect(t) \/ DmCommand(t)
  \/ \E t \in Tasks : RefreshStep(t)

DirSpec == DirInit /\ [][DirNext]_dirVars
=============================================================================
