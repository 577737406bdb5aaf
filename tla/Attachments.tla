---------------------------- MODULE Attachments ----------------------------
(***************************************************************************)
(* The attachments of a composer (src/src/app.rs): choosing files, staging  *)
(* a copy, uploading it, and what comes back late, while the composer is    *)
(* closed, opened elsewhere, cleared or sent.  Results carry the target     *)
(* they were asked for, and attachments an opaque identifier; the staged    *)
(* copy is named by its content.                                            *)
(***************************************************************************)
EXTENDS Naturals, Sequences, SequencesExt, FiniteSets

CONSTANTS
  Conversations, Parents, \* a target is a conversation and the message answered
  Limit,                  \* attachments of a message: 8 in the code
  AttachmentIds,          \* 1..n: the identifiers drawn, in order (a bound)
  ContentOf               \* the content behind each

ASSUME AttachmentsAssumption ==
  /\ Limit \in Nat \ {0} /\ DOMAIN ContentOf = AttachmentIds /\ "none" \notin Conversations
  /\ IsFiniteSet(AttachmentIds) /\ AttachmentIds = 1..Cardinality(AttachmentIds)

VARIABLES
  target,       \* presentation.composer_target
  drafted,      \* composer.attachments: the identifier and the state of each
  draftRows,    \* attachments_json of the drafts table
  stagingMedia, \* staging_media: identifiers whose staging is still wanted
  stagingList,  \* staging_attachments
  uploadingMedia,
  picking,      \* targets for which the file chooser is open
  workers,      \* tasks, and their results on the way to the event loop
  files,        \* contents in the staging directory
  lastId,
  home, gone,   \* history: where an attachment belongs, and those given up
  missed        \* history: ids whose result the open composer did not take

composerPart == <<target, drafted, stagingMedia, stagingList>>
attachmentVars == <<composerPart, draftRows, uploadingMedia, picking, workers, files,
                    lastId, home, gone, missed>>

Targets == [conversation : Conversations, parent : Parents]
NoConversation == [conversation |-> "none", parent |-> "none"]
IdsIn(list) == {list[i].id : i \in DOMAIN list}

AttachmentsInit ==
  /\ target = NoConversation /\ drafted = <<>> /\ draftRows = [c \in Conversations |-> <<>>]
  /\ stagingMedia = {} /\ stagingList = <<>> /\ uploadingMedia = {} /\ picking = {}
  /\ workers = {} /\ files = {} /\ lastId = 0
  /\ home = [i \in AttachmentIds |-> "none"] /\ gone = {} /\ missed = {}

Capacity == IF Len(drafted) + Len(stagingList) >= Limit THEN 0
            ELSE Limit - Len(drafted) - Len(stagingList)

\* persist_draft, with what the handler has left in the composer.
Persisted(conversation, list) == [draftRows EXCEPT ![conversation] = list]

\* start_pending_upload: once for each identifier.
Uploads(t, awaiting) ==
  {[kind |-> "upload", stage |-> "running", id |-> i, target |-> t] :
     i \in awaiting \ uploadingMedia}
Upload(t, awaiting, others) ==
  /\ uploadingMedia' = uploadingMedia \cup awaiting
  /\ workers' = others \cup Uploads(t, awaiting)

-----------------------------------------------------------------------------
(* The composer.                                                           *)

\* open_composer_target: the draft of the conversation replaces what the
\* composer held, and what is still pending in it is uploaded.
OpenComposer(t) ==
  LET awaiting == {a.id : a \in {b \in Range(draftRows[t.conversation]) : b.state = "pending"}} IN
  /\ t # target /\ target' = t
  /\ drafted' = draftRows[t.conversation]
  /\ Upload(t, awaiting, workers) /\ missed' = missed \ awaiting
  /\ UNCHANGED <<draftRows, stagingMedia, stagingList, picking, files, lastId, home, gone>>

\* insert_action, Escape.
CloseComposer ==
  /\ target # NoConversation /\ target' = NoConversation
  /\ stagingMedia' = {} /\ stagingList' = <<>>
  /\ gone' = gone \cup stagingMedia
  /\ UNCHANGED <<drafted, draftRows, uploadingMedia, picking, workers, files, lastId, home, missed>>

\* Submit: only when nothing is staged and all is uploaded.
SubmitMessage ==
  /\ target # NoConversation /\ stagingList = <<>> /\ drafted # <<>>
  /\ \A i \in DOMAIN drafted : drafted[i].state = "uploaded"
  /\ target' = NoConversation /\ drafted' = <<>>
  /\ draftRows' = Persisted(target.conversation, <<>>)
  /\ gone' = gone \cup IdsIn(drafted)
  /\ UNCHANGED <<stagingMedia, stagingList, uploadingMedia, picking, workers, files, lastId, home, missed>>

\* discard_pending_attachment: an uploaded one has no staged copy any more.
Discarded(list) ==
  {list[i].id : i \in {j \in DOMAIN list : list[j].state # "uploaded"}}

ClearDraft ==
  LET discarded == Discarded(drafted) IN
  /\ target # NoConversation /\ (drafted # <<>> \/ stagingList # <<>>)
  /\ stagingMedia' = {} /\ stagingList' = <<>> /\ drafted' = <<>>
  /\ uploadingMedia' = uploadingMedia \ discarded
  /\ files' = files \ {ContentOf[i] : i \in discarded}
  /\ draftRows' = Persisted(target.conversation, <<>>)
  /\ gone' = gone \cup stagingMedia \cup IdsIn(drafted)
  /\ UNCHANGED <<target, picking, workers, lastId, home, missed>>

\* remove_last_attachment: the newest that is being staged, or else the last.
RemoveStaging ==
  /\ target # NoConversation /\ stagingList # <<>>
  /\ stagingList' = Front(stagingList)
  /\ stagingMedia' = stagingMedia \ {Last(stagingList)}
  /\ gone' = gone \cup {Last(stagingList)}
  /\ UNCHANGED <<target, drafted, draftRows, uploadingMedia, picking, workers, files, lastId, home, missed>>

RemoveLast ==
  LET last == Last(drafted)
      discarded == Discarded(<<last>>) IN
  /\ target # NoConversation /\ stagingList = <<>> /\ drafted # <<>>
  /\ drafted' = Front(drafted)
  /\ uploadingMedia' = uploadingMedia \ discarded
  /\ files' = files \ {ContentOf[i] : i \in discarded}
  /\ draftRows' = Persisted(target.conversation, Front(drafted))
  /\ gone' = gone \cup {last.id}
  /\ UNCHANGED <<target, stagingMedia, stagingList, picking, workers, lastId, home, missed>>

RetryFailed ==
  LET retried == {drafted[i].id : i \in {j \in DOMAIN drafted : drafted[j].state = "failed"}}
      list == [i \in DOMAIN drafted |->
                 IF drafted[i].id \in retried THEN [drafted[i] EXCEPT !.state = "pending"]
                 ELSE drafted[i]] IN
  /\ target # NoConversation /\ retried # {}
  /\ drafted' = list /\ draftRows' = Persisted(target.conversation, list)
  /\ Upload(target, retried, workers)
  /\ UNCHANGED <<target, stagingMedia, stagingList, picking, files, lastId, home, gone, missed>>

-----------------------------------------------------------------------------
(* Choosing and staging.                                                   *)

OpenFilePicker ==
  /\ target # NoConversation /\ Capacity > 0 /\ picking' = picking \cup {target}
  /\ UNCHANGED <<composerPart, draftRows, uploadingMedia, workers, files, lastId, home, gone, missed>>

\* reserve_attachment_staging and the worker that copies, for each file.
StageFiles(n) ==
  LET new == lastId + 1 .. lastId + n IN
  /\ lastId + n <= Cardinality(AttachmentIds) /\ lastId' = lastId + n
  /\ stagingMedia' = stagingMedia \cup new
  /\ stagingList' = stagingList \o [i \in 1..n |-> lastId + i]
  /\ workers' = workers \cup
       {[kind |-> "stage", stage |-> "running", id |-> i, target |-> target] : i \in new}
  /\ home' = [i \in AttachmentIds |-> IF i \in new THEN target.conversation ELSE home[i]]

\* The result of the file chooser, or of the clipboard, is for the target it
\* was opened in: all of the files if there is room for all, or none.
FilesPicked(t, n) ==
  /\ t \in picking /\ picking' = picking \ {t}
  /\ IF t = target /\ n <= Capacity THEN StageFiles(n)
     ELSE UNCHANGED <<stagingMedia, stagingList, workers, lastId, home>>
  /\ UNCHANGED <<target, drafted, draftRows, uploadingMedia, files, gone, missed>>

WorkerEnds(w, outcome) == workers' = (workers \ {w}) \cup {[w EXCEPT !.stage = outcome]}

StageFile(w) ==
  /\ w.kind = "stage" /\ w.stage = "running"
  /\ \/ WorkerEnds(w, "ok") /\ files' = files \cup {ContentOf[w.id]}
     \/ WorkerEnds(w, "failed") /\ UNCHANGED files
  /\ UNCHANGED <<composerPart, draftRows, uploadingMedia, picking, lastId, home, gone, missed>>

Without(list, id) ==
  IF id \in Range(list) THEN RemoveAt(list, CHOOSE i \in DOMAIN list : list[i] = id) ELSE list

\* Mutant: what was staged is taken into the composer that is open.
AcceptedAnywhere(w) == w.id \in stagingMedia /\ target # NoConversation /\ Len(drafted) < Limit

Accepted(w) == w.id \in stagingMedia /\ target = w.target /\ Len(drafted) < Limit

Staged(w) ==
  LET list == Append(drafted, [id |-> w.id, state |-> "pending"]) IN
  /\ w.kind = "stage" /\ w.stage = "ok"
  /\ stagingList' = Without(stagingList, w.id) /\ stagingMedia' = stagingMedia \ {w.id}
  /\ IF Accepted(w)
     THEN /\ drafted' = list /\ draftRows' = Persisted(target.conversation, list)
          /\ Upload(target, {w.id}, workers \ {w})
          /\ UNCHANGED <<files, gone>>
     ELSE /\ files' = files \ {ContentOf[w.id]} /\ workers' = workers \ {w}
          /\ gone' = gone \cup {w.id}
          /\ UNCHANGED <<drafted, draftRows, uploadingMedia>>
  /\ UNCHANGED <<target, picking, lastId, home, missed>>

StageFailed(w) ==
  /\ w.kind = "stage" /\ w.stage = "failed" /\ workers' = workers \ {w}
  /\ stagingList' = Without(stagingList, w.id) /\ stagingMedia' = stagingMedia \ {w.id}
  /\ gone' = gone \cup {w.id}
  /\ UNCHANGED <<target, drafted, draftRows, uploadingMedia, picking, files, lastId, home, missed>>

-----------------------------------------------------------------------------
(* Uploading.                                                              *)

\* An upload needs the staged copy, and removes it when it succeeds.
UploadFile(w) ==
  /\ w.kind = "upload" /\ w.stage = "running"
  /\ \/ /\ ContentOf[w.id] \in files
        /\ WorkerEnds(w, "ok") /\ files' = files \ {ContentOf[w.id]}
     \/ WorkerEnds(w, "failed") /\ UNCHANGED files
  /\ UNCHANGED <<composerPart, draftRows, uploadingMedia, picking, lastId, home, gone, missed>>

Replaced(list, id, from, state) ==
  [i \in DOMAIN list |-> IF list[i].id = id /\ list[i].state \in from
                         THEN [list[i] EXCEPT !.state = state] ELSE list[i]]

\* The composer of the same target takes the result if it still waits for it;
\* if not, the stored draft of that conversation does, if it still has it.  A
\* composer that is open for another message of the conversation shows that
\* same draft, and misses it.
UploadEnded(w) ==
  LET state == IF w.stage = "ok" THEN "uploaded" ELSE "failed"
      list == Replaced(drafted, w.id, {"pending"}, state)
      waits == target = w.target /\ list # drafted IN
  /\ w.kind = "upload" /\ w.stage # "running" /\ workers' = workers \ {w}
  /\ uploadingMedia' = uploadingMedia \ {w.id}
  /\ IF waits THEN drafted' = list /\ draftRows' = Persisted(target.conversation, list)
     ELSE /\ drafted' = drafted
          /\ draftRows' = [draftRows EXCEPT ![w.target.conversation] =
                             Replaced(@, w.id, {"pending", "failed"}, state)]
  /\ missed' = IF target # w.target /\ target.conversation = w.target.conversation
               THEN missed \cup {w.id} ELSE missed
  /\ UNCHANGED <<target, stagingMedia, stagingList, picking, files, lastId, home, gone>>

AttachmentsNext ==
  \/ \E t \in Targets : OpenComposer(t)
  \/ CloseComposer \/ SubmitMessage \/ ClearDraft \/ RemoveStaging \/ RemoveLast \/ RetryFailed
  \/ OpenFilePicker \/ \E t \in picking, n \in 1..Limit : FilesPicked(t, n)
  \/ \E w \in workers : StageFile(w) \/ Staged(w) \/ StageFailed(w) \/ UploadFile(w) \/ UploadEnded(w)

-----------------------------------------------------------------------------
(* What is promised.                                                       *)

\* "clear/remove/close/switch and late worker results cannot resurrect it in
\* another draft" (src/docs/media.md): an attachment is only ever in the draft
\* of the conversation it was chosen for, and one that was given up is in none;
\* no draft has more than a message can hold.
AttachmentsStayHome ==
  \A c \in Conversations :
    LET lists == {draftRows[c]} \cup (IF target.conversation = c THEN {drafted} ELSE {}) IN
    \A list \in lists :
      /\ Len(list) <= Limit
      /\ \A i \in IdsIn(list) : home[i] = c /\ i \notin gone

\* What the open composer shows as pending is being uploaded, or its result is
\* on the way, unless the result came while the composer was open for another
\* message of the conversation (UploadReturns, below).
UploadUnderWay ==
  target # NoConversation =>
    \A i \in DOMAIN drafted : drafted[i].state = "pending" =>
      \/ drafted[i].id \in missed
      \/ \E w \in workers : w.kind = "upload" /\ w.id = drafted[i].id

\* A file has one home, and the upload that the composer shows is under way: a
\* draft that is left, sent, or come back to does not lose one.
AttachmentsSound == AttachmentsStayHome /\ UploadUnderWay

AttachmentsSpec == AttachmentsInit /\ [][AttachmentsNext]_attachmentVars

-----------------------------------------------------------------------------
(* Refuted: what is said or expected and the code does not do; in no run.    *)

\* "This lets a background upload finish after its composer is closed"
\* (src/src/store/queries.rs:812), and what is pending when it is opened again
\* is uploaded or waits for the upload that runs.  (Opened again for another
\* message, the composer does not take the result, which was asked for by
\* the first one, and writes its own copy over the stored draft.)
UploadReturns ==
  target # NoConversation =>
    \A i \in DOMAIN drafted : drafted[i].state = "pending" =>
      \E w \in workers : w.kind = "upload" /\ w.id = drafted[i].id

\* "Ctrl-r retries failed staged uploads" (src/docs/media.md): what failed
\* still has its staged copy.  (Two drafts of one content, ContentOf, refute it.)
FailedCanBeRetried ==
  target # NoConversation =>
    \A i \in DOMAIN drafted : drafted[i].state = "failed" => ContentOf[drafted[i].id] \in files
=============================================================================
