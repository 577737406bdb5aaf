----------------------------- MODULE MCDirectory -----------------------------
(* Small instances of the directory of channels and of what the user does   *)
(* in them: the workspace with its timelines, the attachments of the        *)
(* composer.  They share no state in these models, so a behaviour follows   *)
(* one of them (focus) while the others rest at their beginning.            *)
EXTENDS DirectoryProperties, Workspace, Attachments

VARIABLE focus

\* Directory: one channel, a direct message, whose members change: the other
\* member joins, the user is replaced by a third person, and is the last one
\* left.

CONSTANTS me, you, them, relay, dmRoom, t1

TheKeys == {me, you, them, relay}
TheChannels == {dmRoom}
TheTasks == {t1}

Says(kind, at) ==
  [kind |-> kind, by |-> relay, at |-> at, channel |-> dmRoom, refs |-> {},
   members |-> {}, dm |-> FALSE, owner |-> me, hidden |-> {}]

Snapshot(at, people) ==
  [Says("members", at) EXCEPT !.members = people \X {"member"}]

Catalogue ==
  << [Says("channel", 1) EXCEPT !.dm = TRUE],
     Snapshot(1, {me, you}),
     Snapshot(2, {you, them}),
     Snapshot(3, {me}) >>

TheIds == 1..4
TheEvents == [e \in TheIds |-> Catalogue[e]]

\* Workspace: two messages in the first channel and one in the second; then
\* either a third message comes, of someone else, which makes more than a page
\* of them, or a reply to the first one.
RoomOfPost(p) == IF p = 5 THEN "b" ELSE "a"
ThreadOfPost(p) == IF p = 2 THEN 1 ELSE 0
WrittenHere(p) == p # 4

\* Attachments: no two of the same content; a composer is open in one of two
\* conversations, for one of two messages, and nothing tells these apart.
Distinct == [i \in AttachmentIds |-> i]
SameTargets == {p @@ q : p \in Permutations(Conversations), q \in Permutations(Parents)}

ChannelsInit ==
  /\ focus \in {"directory", "timeline", "thread", "attachments"}
  /\ CoalescedInit /\ WorkspaceInit /\ AttachmentsInit

ChannelsNext ==
  /\ UNCHANGED focus
  /\ \/ /\ focus = "directory" /\ CoalescedNext
        /\ UNCHANGED <<workspaceVars, attachmentVars>>
     \/ /\ focus \in {"timeline", "thread"} /\ WorkspaceNext
        /\ (IF focus = "timeline" THEN 2 ELSE 4) \notin written'
        /\ UNCHANGED <<dirVars, overlapped, attachmentVars>>
     \/ /\ focus = "attachments" /\ AttachmentsNext
        /\ UNCHANGED <<dirVars, overlapped, workspaceVars>>

channelsVars == <<dirVars, overlapped, workspaceVars, attachmentVars, focus>>
ChannelsSpec == ChannelsInit /\ [][ChannelsNext]_channelsVars
=============================================================================
