---------------------------- MODULE MCEventStore ----------------------------
(* A small catalogue of events for TLC: every kind, with the coincidences  *)
(* that make the projections hard, that is to say the same second, the     *)
(* same target, the wrong author, and a direct message of the wrong size.  *)
(* With it, since they are projections of the same tables but share no     *)
(* state in these models, the opening of direct messages: a behaviour      *)
(* follows one of the two (focus).                                         *)
EXTENDS EventStoreProperties, Dms

VARIABLE focus

CONSTANTS me, you, relay, room

TheKeys == {me, you, relay}
TheChannels == {room}

Says(kind, by, at) ==
  [kind |-> kind, by |-> by, at |-> at, channel |-> room, refs |-> {},
   members |-> {}, dm |-> FALSE, owner |-> me, hidden |-> {}]

With(event, field, value) == [event EXCEPT ![field] = value]

Snapshot(at, people) == With(Says("members", relay, at), "members", people)

Catalogue ==
  << Says("message", me, 1),
     Says("message", you, 2),
     With(Says("reaction", you, 2), "refs", {1}),
     With(Says("deletion", me, 3), "refs", {1}),
     With(Says("deletion", you, 3), "refs", {1, 3}),
     With(Says("moderation", relay, 3), "refs", {1, 4}),
     Says("channel", relay, 1),
     With(Says("channel", relay, 1), "dm", TRUE),
     Snapshot(1, {<<me, "member">>, <<you, "bot">>}),
     Snapshot(1, {<<you, "member">>}),
     Snapshot(2, {<<me, "member">>, <<you, "member">>}),
     Says("visibility", relay, 1),
     With(Says("visibility", relay, 1), "hidden", {room}),
     With(Says("visibility", relay, 2), "owner", you),
     Says("profile", me, 1),
     Says("profile", me, 1),
     Says("channel", you, 9),
     Says("ephemeral", you, 9) >>

TheIds == 1..18
TheEvents == [e \in TheIds |-> Catalogue[e]]

ConversationsInit == focus \in {"events", "dms"} /\ Init /\ DmInit

ConversationsNext ==
  /\ UNCHANGED focus
  /\ \/ focus = "events" /\ Next /\ UNCHANGED dmVars
     \/ focus = "dms" /\ DmsNext /\ UNCHANGED storeVars

ConversationsSpec ==
  ConversationsInit /\ [][ConversationsNext]_<<storeVars, dmVars, focus>>
=============================================================================
