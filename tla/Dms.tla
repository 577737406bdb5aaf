-------------------------------- MODULE Dms ---------------------------------
(***************************************************************************)
(* Workspace direct messages (src/service/dms.rs, src/store/dm.rs,         *)
(* src/ui/dm_picker.rs and their handlers in src/app.rs).  Opening,        *)
(* extending and hiding a conversation are signed commands: each is put in *)
(* the outbox, published once, and its effect is confirmed by reading what *)
(* the relay says of the conversations.  A command whose answer is lost    *)
(* stays in the outbox and is sent again when the session next starts.     *)
(*                                                                         *)
(* A conversation is the set of its participants: the relay keeps one for  *)
(* each set.  A refresh of the directory (Directory, EventStore) brings the *)
(* conversations, then the hidden ones, or fails before either.            *)
(***************************************************************************)
EXTENDS Naturals, FiniteSets, Functions

CONSTANTS
    Friends,      \* the people who can be written to
    Myself,
    MaxRecipients,\* 8
    Commands,     \* how many commands the user gives
    AtOnce,       \* how many of them are running at a time
    Tries         \* refreshes per confirmation (3)

VARIABLES
    picker,       \* DmPickerState, or Shut
    orders,       \* the running tasks, by command
    commandRows,         \* the outbox rows of the commands
    sending,      \* the rows a reconciliation has still to look at
    dms,          \* conversations in the store
    hiddenHere,   \* dm_visibility in the store
    relayDms, relayHidden,
    processed,    \* commands the relay has carried out
    opened        \* the last DmOpened: what was asked for, what was opened

dmVars == <<picker, orders, commandRows, sending, dms, hiddenHere,
            relayDms, relayHidden, processed, opened>>

Shut == [open |-> FALSE]
Conversation(others) == others \cup {Myself}
Conversations == {Conversation(o) : o \in SUBSET Friends \ {{}}}
NotOpened == [asked |-> {}, channel |-> {}]

DmInit ==
    /\ picker = Shut /\ orders = <<>> /\ commandRows = <<>> /\ sending = {}
    /\ dms = {} /\ hiddenHere = {} /\ relayDms = {} /\ relayHidden = {}
    /\ processed = {} /\ opened = NotOpened

Running == {c \in DOMAIN orders : orders[c].phase # "done"}
relaySide == <<relayDms, relayHidden, processed>>
dmRows == <<dms, hiddenHere>>

-----------------------------------------------------------------------------
(* The picker and the commands.                                            *)

OpenDmPicker(addTo) ==
    /\ ~picker.open
    /\ picker' = [open |-> TRUE, addTo |-> addTo, recipients |-> {}, submitting |-> FALSE]
    /\ UNCHANGED <<orders, commandRows, sending, dmRows, relaySide, opened>>

ToggleSelected(f) ==
    /\ picker.open /\ ~picker.submitting
    /\ IF f \in picker.recipients
       THEN picker' = [picker EXCEPT !.recipients = @ \ {f}]
       ELSE /\ Cardinality(picker.recipients) < (IF picker.addTo # {} THEN 1
                                                 ELSE MaxRecipients)
            /\ picker' = [picker EXCEPT !.recipients = @ \cup {f}]
    /\ UNCHANGED <<orders, commandRows, sending, dmRows, relaySide, opened>>

ClosePicker ==
    /\ picker.open /\ picker' = Shut
    /\ UNCHANGED <<orders, commandRows, sending, dmRows, relaySide, opened>>

\* A task of its own signs the command and puts it in the outbox.
Command(op, conversation) ==
    LET c == Cardinality(DOMAIN orders) + 1 IN
    /\ c <= Commands /\ Cardinality(Running) < AtOnce
    /\ orders' = [n \in 1..c |-> IF n < c THEN orders[n]
                                 ELSE [op |-> op, want |-> conversation, phase |-> "sign",
                                       at |-> conversation, tries |-> 0,
                                       failed |-> FALSE]]

StartDmOpen == picker.addTo = {} /\ Command("open", Conversation(picker.recipients))

\* normalize_participants refuses whoever is in the conversation already,
\* before anything is signed: the failure leaves the picker as it was.
AddMember ==
    /\ picker.addTo # {} /\ picker.recipients \cap picker.addTo = {}
    /\ Command("open", picker.addTo \cup picker.recipients)

Submit ==
    /\ picker.open /\ ~picker.submitting /\ picker.recipients # {}
    /\ StartDmOpen \/ AddMember
    /\ picker' = [picker EXCEPT !.submitting = TRUE]
    /\ UNCHANGED <<commandRows, sending, dmRows, relaySide, opened>>

HideCurrentDm(named) ==
    /\ named \in dms \ hiddenHere
    /\ Command("hide", named)
    /\ UNCHANGED <<picker, commandRows, sending, dmRows, relaySide, opened>>

-----------------------------------------------------------------------------
(* publish_command.                                                        *)

Row(c, state) == commandRows' = [n \in DOMAIN commandRows \cup {c} |-> IF n = c THEN state ELSE commandRows[n]]

InsertOutbox(c) ==
    /\ orders[c].phase = "sign"
    /\ Row(c, "pending")
    /\ orders' = [orders EXCEPT ![c].phase = "publish"]
    /\ UNCHANGED <<picker, sending, dmRows, relaySide, opened>>

\* The relay carries a command out once, whoever sends it.
RelayProcesses(c) ==
    LET conversation == orders[c].want IN
    IF c \in processed THEN UNCHANGED relaySide
    ELSE /\ processed' = processed \cup {c}
         /\ IF orders[c].op = "hide"
            THEN relayHidden' = relayHidden \cup {conversation} /\ UNCHANGED relayDms
            ELSE /\ relayDms' = relayDms \cup {conversation}
                 /\ relayHidden' = relayHidden \ {conversation}

Step(c, phase, named, failed) ==
    orders' = [orders EXCEPT ![c].phase = phase, ![c].at = named, ![c].failed = failed]

\* What follows a publication: the effect is looked for whatever came back.
AfterPublication(c) == IF orders[c].op = "hide" THEN "hidden" ELSE "recover"

\* Accepted: the answer names a conversation, or cannot be read.
PublishAccepted(c) ==
    /\ orders[c].phase = "publish"
    /\ RelayProcesses(c)
    /\ Row(c, "delivered")
    /\ \/ orders[c].op = "open" /\ \E named \in relayDms' : Step(c, "confirm", named, FALSE)
       \/ Step(c, AfterPublication(c), orders[c].want, FALSE)
    /\ UNCHANGED <<picker, sending, dmRows, opened>>

PublishFailed(c) ==
    /\ orders[c].phase = "publish"
    /\ \/ Row(c, "rejected") /\ UNCHANGED relaySide
       \/ Row(c, "unknown") /\ (UNCHANGED relaySide \/ RelayProcesses(c))
    /\ Step(c, AfterPublication(c), orders[c].want, TRUE)
    /\ UNCHANGED <<picker, sending, dmRows, opened>>

-----------------------------------------------------------------------------
(* Confirmation.                                                           *)

\* directory::refresh: its errors are ignored here, so either part may be old.
Refresh ==
    \/ UNCHANGED dmRows
    \/ dms' = relayDms /\ UNCHANGED hiddenHere
    \/ dms' = relayDms /\ hiddenHere' = relayHidden

RetryConfirmation(c, giveUp) ==
    IF orders[c].tries + 1 < Tries
    THEN orders' = [orders EXCEPT ![c].tries = @ + 1] /\ UNCHANGED <<picker, opened, commandRows>>
    ELSE giveUp

Done(c) == orders' = [orders EXCEPT ![c].phase = "done"]

\* Background::Failed: also what lets the picker be submitted again.
CommandFailed(c) ==
    /\ Done(c) /\ UNCHANGED <<opened, commandRows>>
    /\ picker' = IF picker.open THEN [picker EXCEPT !.submitting = FALSE] ELSE Shut

OpenedDm(c) ==
    /\ Done(c) /\ picker' = Shut
    /\ opened' = [asked |-> orders[c].want, channel |-> orders[c].at]
    /\ UNCHANGED commandRows

\* dm_participants of the conversation the answer named are those asked for.
MembersAny(c) == orders[c].at \in dms'
Members(c) == orders[c].at \in dms' /\ orders[c].at = orders[c].want

ConfirmParticipants(c) ==
    /\ orders[c].phase = "confirm"
    /\ Refresh
    /\ IF Members(c)
       THEN /\ orders' = [orders EXCEPT ![c].phase = "visible", ![c].tries = 0]
            /\ UNCHANGED <<picker, opened, commandRows>>
       ELSE RetryConfirmation(c, CommandFailed(c))
    /\ UNCHANGED <<sending, relaySide>>

\* find_dm_by_participants after a refresh.
Recover(c) ==
    /\ orders[c].phase = "recover"
    /\ Refresh
    /\ IF orders[c].want \in dms'
       THEN /\ orders' = [orders EXCEPT ![c].phase = "visible", ![c].tries = 0,
                                        ![c].at = orders[c].want]
            /\ UNCHANGED <<picker, opened, commandRows>>
       ELSE RetryConfirmation(c, CommandFailed(c))
    /\ UNCHANGED <<sending, relaySide>>

\* confirm_visible: looks before it refreshes, and reports the conversation
\* open even when the hidden list still holds it.
ConfirmVisible(c) ==
    /\ orders[c].phase = "visible"
    /\ IF orders[c].tries = 0 /\ orders[c].at \notin hiddenHere THEN UNCHANGED dmRows
       ELSE Refresh
    /\ IF orders[c].at \notin hiddenHere' THEN OpenedDm(c) ELSE RetryConfirmation(c, OpenedDm(c))
    /\ UNCHANGED <<sending, relaySide>>

\* confirm_hidden, then hide: a conversation found hidden makes the command
\* delivered even where its publication failed.
ConfirmHidden(c) ==
    /\ orders[c].phase = "hidden"
    /\ Refresh
    /\ IF orders[c].at \in hiddenHere'
       THEN /\ Done(c) /\ UNCHANGED <<picker, opened>>
            /\ IF orders[c].failed THEN Row(c, "delivered") ELSE UNCHANGED commandRows
       ELSE RetryConfirmation(c, IF orders[c].failed THEN CommandFailed(c)
                     ELSE Done(c) /\ UNCHANGED <<picker, opened, commandRows>>)
    /\ UNCHANGED <<sending, relaySide>>

-----------------------------------------------------------------------------
(* Around them.                                                            *)

\* Any other task's failure resets the picker as well.
OtherTaskFails ==
    /\ picker.open /\ picker.submitting
    /\ picker' = [picker EXCEPT !.submitting = FALSE]
    /\ UNCHANGED <<orders, commandRows, sending, dmRows, relaySide, opened>>

DirectoryRefreshed ==
    /\ Refresh
    /\ UNCHANGED <<picker, orders, commandRows, sending, relaySide, opened>>

\* The process ends and starts again: the rows and the store are what is left.
RestartDms ==
    /\ orders' = [c \in DOMAIN orders |-> [orders[c] EXCEPT !.phase = "done"]]
    /\ picker' = Shut /\ sending' = {}
    /\ UNCHANGED <<commandRows, dmRows, relaySide, opened>>

\* sync::outbox::flush, when a session starts or ends.
FlushStarts ==
    /\ sending = {}
    /\ sending' = {c \in DOMAIN commandRows : commandRows[c] \in {"pending", "unknown"}}
    /\ sending' # {}
    /\ UNCHANGED <<picker, orders, commandRows, dmRows, relaySide, opened>>

FlushOne ==
    \E c \in sending :
        /\ \A d \in sending : c <= d
        /\ sending' = sending \ {c}
        /\ \/ c \in processed /\ Row(c, "delivered") /\ UNCHANGED relaySide
           \/ RelayProcesses(c) /\ Row(c, "delivered")
           \/ Row(c, "rejected") /\ UNCHANGED relaySide
           \/ Row(c, "unknown") /\ (UNCHANGED relaySide \/ RelayProcesses(c))
        /\ UNCHANGED <<picker, orders, dmRows, opened>>

DmsNext ==
    \/ \E a \in dms \cup {{}} : OpenDmPicker(a)
    \/ \E f \in Friends : ToggleSelected(f)
    \/ ClosePicker \/ Submit
    \/ \E d \in dms : HideCurrentDm(d)
    \/ \E c \in Running :
         \/ InsertOutbox(c) \/ PublishAccepted(c) \/ PublishFailed(c)
         \/ ConfirmParticipants(c) \/ Recover(c) \/ ConfirmVisible(c) \/ ConfirmHidden(c)
    \/ OtherTaskFails \/ DirectoryRefreshed \/ RestartDms
    \/ FlushStarts \/ FlushOne

DmsSpec == DmInit /\ [][DmsNext]_dmVars

-----------------------------------------------------------------------------
\* Whatever became of the command and of its answer (lost, unreadable, naming
\* another conversation, sent twice), the conversation reported open is the one
\* with exactly the participants asked for, and the store knows it.
OpenedIsExact ==
    opened # NotOpened => opened.channel = opened.asked /\ opened.channel \in dms

=============================================================================
