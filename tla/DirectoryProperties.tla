------------------------- MODULE DirectoryProperties -------------------------
(***************************************************************************)
(* What the client's picture of the directory owes to the relay's.         *)
(***************************************************************************)
EXTENDS Directory

\* Nothing is under way and no refresh has ended with an error: what the
\* client shows now is what it goes on showing.
Quiet ==
  /\ pinned /\ live = {} /\ ~due
  /\ \A t \in Tasks : task[t] = Idle

DirTypeOK ==
  /\ published \subseteq Ids /\ live \subseteq published
  /\ due \in BOOLEAN
  /\ task \in [Tasks -> [stage : Stages, asked : BOOLEAN,
                         batch : SUBSET published, told : SUBSET Channels]]
  /\ writer \in Tasks \cup {Nobody}
  /\ writer # Nobody => task[writer].asked

\* Once everything is quiet the store has the head that the relay has, for
\* each channel the user is in and for each channel's metadata: nothing lost
\* with a connection, refused before the key was pinned, or stored in
\* another order, is missing.
HeadsFollowRelay ==
  Quiet => \A c \in Channels :
    /\ \A e \in Standing("members", c) :
         Lists(e, Self) /\ ~Refused(e) => memberHead[c] = e
    /\ \A e \in Standing("channel", c) : ~Refused(e) => channel[c].head = e

\* A direct message stays one: the metadata that replaces its metadata says so
\* too.  (Without this a snapshot refused because of its size would be missing
\* once the channel has become an ordinary one; nothing asks for it again.)
DmsStay ==
  \A d, e \in Ids :
    /\ Kind(d) = "channel" /\ Kind(e) = "channel" /\ Event[d].channel = Event[e].channel
    /\ Greater(e, d) /\ Event[d].dm
    => Event[e].dm

\* Once everything is quiet the client shows itself as a member of exactly
\* the channels whose standing snapshot, if the store takes it, names it.
FlagFollowsRelay ==
  Quiet => \A c \in Channels : \A e \in Standing("members", c) :
    ~Refused(e) /\ channel[c].known => channel[c].joined = Lists(e, Self)

\* At most one refresh holds an answer that it has not yet acted upon.
Holding(t) ==
  \/ task[t].stage = "joined"
  \/ task[t].stage = "members" /\ task[t].asked
Alone == \A t, u \in Tasks : Holding(t) /\ Holding(u) => t = u

VARIABLE overlapped  \* history: two refreshes have held an answer at once

CoalescedInit == DirInit /\ overlapped = FALSE
CoalescedNext == DirNext /\ overlapped' = (overlapped \/ ~Alone')
CoalescedSpec == CoalescedInit /\ [][CoalescedNext]_<<dirVars, overlapped>>

\* As long as refreshes have not overlapped, and the documents say that they
\* are coalesced, the membership that is shown is right: the abort of the
\* task in directory_task, and the jobs it leaves behind, do no harm
\* (src/src/app.rs, spawn_directory_refresh).
RightIfCoalesced == ~overlapped => FlagFollowsRelay
=============================================================================
