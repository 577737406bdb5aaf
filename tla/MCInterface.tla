---------------------------- MODULE MCInterface ----------------------------
(* Small instances of the user interface: the inbox, search, the keys, the  *)
(* composer's text, and the change of community.  They share no state in    *)
(* these models, so a behaviour follows one of them (focus) while the       *)
(* others rest at their beginning.                                          *)
EXTENDS Inbox, Search, Keys, Communities, Composer

VARIABLE focus
interfaceVars == <<inboxVars, searchVars, keysVars, communitiesVars, composerVars, focus>>

\* Inbox: a thread that mentions the user, and a direct message.
TalkOf(p) == IF p = 2 THEN "dm" ELSE "thread"
NotMine(p) == FALSE
Mentions(p) == p = 1

\* Search: the user bears the name of the message's author, and a text names it.
WriterOf == [n \in Notes |-> "bob"]
Names == [p \in People |-> "bo"]
Authors == [t \in Texts |-> IF t = "from" THEN "bo" ELSE "anyone"]
HitsOf == [t \in Texts |-> CASE t = "" -> {} [] t = "from" -> Notes]
TooShort == [t \in Texts |-> t = ""]

\* Keys: bindings of one and two chords in every scope, and files that bind a
\* printable key in the composer, a prefix, and a longer sequence over it.
Bind(s, k, a) == [scope |-> s, keys |-> k, action |-> a]
Bindings0 ==
  {Bind("global", <<"?">>, "help"), Bind("global", <<"q">>, "back"),
   Bind("global", <<"esc">>, "back"), Bind("global", <<"i">>, "compose"),
   Bind("global", <<"space", "n">>, "inbox"), Bind("global", <<"space", "o">>, "options"),
   Bind("global", <<"n">>, "dm"), Bind("overlay", <<"esc">>, "back"),
   Bind("overlay", <<"q">>, "back"), Bind("composer", <<"esc">>, "back"),
   Bind("composer", <<"enter">>, "submit")}
Keymaps ==
  {<<>>,
   <<Bind("composer", <<"i">>, "back")>>,
   <<Bind("inbox", <<"space">>, "help")>>,
   <<Bind("workspace", <<"n", "o">>, "help")>>,
   <<Bind("workspace", <<"n">>, "disabled"), Bind("workspace", <<"n", "o">>, "help")>>}

\* Communities: two of one identity and one of another.
IdentityOf(h) == IF h = "c" THEN "other" ELSE "me"

\* Composer: two people, one of a name with a blank in it.
Labels == [who \in Tagged |-> IF who = "bo" THEN <<"x">> ELSE <<"x", "blank", "x">>]
Texts2 == {<<"x", "blank">>, <<"blank", "x">>}

InterfaceInit ==
  /\ focus \in {"inbox", "search", "keys", "communities", "composer"}
  /\ InboxInit /\ SearchInit /\ KeysInit /\ CommunitiesInit
  /\ ComposerInit
  /\ focus # "keys" => keymap = LoadFrom(<<>>)
  /\ focus # "communities" => selected = "a"

InterfaceNext ==
  /\ UNCHANGED focus
  /\ \/ /\ focus = "inbox" /\ InboxNext
        /\ UNCHANGED <<searchVars, keysVars, communitiesVars, composerVars>>
     \/ /\ focus = "search" /\ SearchNext
        /\ UNCHANGED <<inboxVars, keysVars, communitiesVars, composerVars>>
     \/ /\ focus = "keys" /\ KeysNext
        /\ UNCHANGED <<inboxVars, searchVars, communitiesVars, composerVars>>
     \/ /\ focus = "communities" /\ CommunitiesNext
        /\ UNCHANGED <<inboxVars, searchVars, keysVars, composerVars>>
     \/ /\ focus = "composer" /\ ComposerNext
        /\ UNCHANGED <<inboxVars, searchVars, keysVars, communitiesVars>>

InterfaceSpec == InterfaceInit /\ [][InterfaceNext]_interfaceVars
=============================================================================
