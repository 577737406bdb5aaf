-------------------------------- MODULE Keys --------------------------------
(***************************************************************************)
(* Keys and clicks of the terminal application: keymap.toml merged over    *)
(* the builtin bindings (ui/keymap.rs), the router that turns chords into  *)
(* actions and remembers an unfinished sequence (ui/input.rs), the surface *)
(* on top that owns the next key (ui/state.rs, handle_key in app.rs), the  *)
(* theme picker, and the hit map a click is read against.                  *)
(*                                                                         *)
(* The event loop handles one key, click, tick or result at a time, but a  *)
(* result that arrives late (DmOpened) changes the surface a user was      *)
(* typing into, and a tick reloads the channel list without a new frame.   *)
(***************************************************************************)
EXTENDS Integers, FiniteSets, Sequences, SequencesExt

CONSTANTS
  Chords,         \* the chords the user presses
  Printable,      \* those a text field inserts
  Builtin,        \* the builtin bindings, records of Bindings
  Files,          \* the keymap.toml files tried: sequences of declarations
  LeaderTicks,    \* LEADER_TIMEOUT in ticks
  Channels,       \* channels, numbered in their alphabetical order
  DmChannels      \* those the store lists first

Scopes == {"global", "workspace", "inbox", "composer", "overlay"}
ComposerActions == {"back", "submit"}
ASSUME KeysAssumption ==
  /\ Printable \subseteq Chords /\ "esc" \in Chords \ Printable
  /\ LeaderTicks \in Nat \ {0}
  /\ Channels \subseteq Nat /\ DmChannels \subseteq Channels

NoTimer == -1
Idle == [scope |-> "global", keys |-> <<>>]
NoRun == [scope |-> "global", action |-> "none"]
NoPreview == "none"

VARIABLES
  keymap,    \* the bindings and the sequences disabled per scope
  pending,   \* InputRouter: the sequence begun and its scope
  leader,    \* leader_started_at: ticks left, or NoTimer
  top,       \* PresentationState: route, focus, overlay, question, writing, back
  opening,   \* a DM is being opened
  typed,     \* the last key was inserted as text
  ran,       \* the scope and the action of the last key
  theme,     \* the theme shown, the saved one, theme_before_preview
  listed,    \* channels of the store
  rows,      \* App::channels, in the store's order
  frame,     \* last_hit_map: what each sidebar row shows and its Channel(index)
  opened     \* the channel on the screen

keyVars == <<pending, leader, top, opening, typed, ran, theme>>
listVars == <<listed, rows, frame, opened>>
keysVars == <<keymap, keyVars, listVars>>

----------------------------------------------------------------------------
(* keymap.toml *)

Declared(d, b) == b.scope = d.scope /\ b.keys = d.keys

\* one declaration of the file: the exact sequence is replaced or disabled
Merge(map, d) ==
  LET kept == {b \in map.bindings : ~Declared(d, b)}
      open == map.disabled \ {[scope |-> d.scope, keys |-> d.keys]}
  IN  IF d.action = "disabled"
      THEN [bindings |-> kept, disabled |-> open \cup {[scope |-> d.scope, keys |-> d.keys]}]
      ELSE [bindings |-> kept \cup {d}, disabled |-> open]

LoadFrom(file) == FoldLeft(Merge, [bindings |-> Builtin, disabled |-> {}], file)

OwnsText(scope) == scope = "composer"

\* effective_bindings
Effective(map, scope) ==
  LET own == {b \in map.bindings : b.scope = scope}
      inherited == IF OwnsText(scope) \/ scope = "overlay" THEN {}
                   ELSE {b \in map.bindings :
                           /\ b.scope = "global"
                           /\ [scope |-> scope, keys |-> b.keys] \notin map.disabled}
  IN  own \cup {b \in inherited : \A o \in own : o.keys # b.keys}

\* keymap_allows, composer_action
Allows(scope, action) ==
  CASE OwnsText(scope) -> action \in ComposerActions
    [] scope = "overlay" -> action = "back"
    [] OTHER -> action # "submit"

Printed(b) == Len(b.keys) # 1 \/ b.keys[1] \in Printable

\* Mutant: a text scope may bind anything.
ValidText(map) ==
  \A scope \in Scopes :
    /\ \A b \in Effective(map, scope) : Allows(scope, b.action)
    /\ \A b, c \in Effective(map, scope) : b # c => ~IsPrefix(b.keys, c.keys)
\* KeyMap::validate
Valid(map) ==
  \A scope \in Scopes :
    /\ \A b \in Effective(map, scope) :
         Allows(scope, b.action) /\ (OwnsText(scope) => ~Printed(b))
    /\ \A b, c \in Effective(map, scope) : b # c => ~IsPrefix(b.keys, c.keys)

\* lookup: an action, "pending" or "no match"
Lookup(scope, keys) ==
  LET found == {b \in Effective(keymap, scope) : IsPrefix(keys, b.keys)}
      exact == {b \in found : b.keys = keys}
  IN  IF exact # {} THEN (CHOOSE b \in exact : TRUE).action
      ELSE IF found # {} THEN "pending" ELSE "no match"

----------------------------------------------------------------------------
StoreOrder(S) == SetToSortSeq(S, LAMBDA a, b :
  IF (a \in DmChannels) = (b \in DmChannels) THEN a < b ELSE a \in DmChannels)

\* the sidebar draws the rows alphabetically, each with its index in the list
Drawn == [shown |-> SetToSortSeq(ToSet(rows), <),
          index |-> [i \in 1..Len(rows) |->
                       CHOOSE j \in 1..Len(rows) : rows[j] = SetToSortSeq(ToSet(rows), <)[i]]]

KeysInit ==
  /\ keymap \in {LoadFrom(f) : f \in Files} /\ Valid(keymap)
  /\ pending = Idle /\ leader = NoTimer /\ opening = FALSE
  /\ typed = FALSE /\ ran = NoRun
  /\ top = [route |-> "workspace", focus |-> "timeline", overlay |-> "none",
            question |-> "none", writing |-> FALSE, back |-> FALSE]
  /\ theme = [shown |-> "saved", saved |-> "saved", before |-> NoPreview]
  /\ listed = Channels /\ rows = StoreOrder(Channels) /\ frame = Drawn
  /\ opened = Head(rows)

----------------------------------------------------------------------------
(* PresentationState *)

Closed(t) == [t EXCEPT !.overlay = "none", !.question = "none"]
Opened(t, overlay) == [t EXCEPT !.overlay = overlay]
Asked(t, question) == [t EXCEPT !.overlay = "confirmation", !.question = question]

\* set_workspace_focus
WorkspaceFocus(t, f) == IF t.route = "workspace" THEN [t EXCEPT !.focus = f] ELSE t

EnterInbox(t) == [Closed(t) EXCEPT !.route = "inbox", !.focus = "list", !.back = FALSE]

\* BackOrQuit of the two reducers, PresentationState::back
Back(t) ==
  CASE t.overlay # "none" -> IF t.route = "inbox" THEN Opened(t, "none") ELSE Closed(t)
    [] t.overlay = "none" /\ t.writing -> [t EXCEPT !.writing = FALSE]
    [] t.overlay = "none" /\ ~t.writing /\ t.route = "inbox" ->
         [t EXCEPT !.route = "workspace", !.focus = "timeline"]
    [] t.overlay = "none" /\ ~t.writing /\ t.route = "workspace" /\ t.back -> EnterInbox(t)
    [] OTHER -> Asked(t, "quit")

\* dispatch_workspace_action and dispatch_inbox_action, on what is on top
Reduced(t, action) ==
  CASE action = "back" -> Back(t)
    [] action = "help" -> Opened(t, "help")
    [] action = "compose" -> [t EXCEPT !.writing = TRUE]
    [] action = "inbox" /\ t.route = "workspace" -> EnterInbox(t)
    [] action = "options" /\ t.route = "workspace" -> Opened(t, "theme")
    [] action = "dm" /\ t.route = "workspace" -> Opened(t, "dm picker")
    [] action = "delete" /\ t.route = "workspace" -> Asked(t, "delete")
    [] OTHER -> t

\* open_theme_picker
ThemeBegun(action, t) ==
  theme' = IF action = "options" /\ t.route = "workspace"
           THEN [theme EXCEPT !.before = theme.shown] ELSE theme

----------------------------------------------------------------------------
(* One key *)

WithoutPopup(t) == IF t.overlay = "which-key" THEN Opened(t, "none") ELSE t
RouteScope == IF top.overlay # "none" THEN "overlay" ELSE top.route

\* leader_started_at.get_or_insert_with
Started == IF leader = NoTimer THEN LeaderTicks ELSE leader

Runs(scope, action, t) ==
  /\ pending' = Idle /\ leader' = NoTimer
  /\ top' = Reduced(t, action) /\ ThemeBegun(action, t)
  /\ ran' = [scope |-> scope, action |-> action]

NothingRuns(t) ==
  /\ pending' = Idle /\ top' = t /\ ran' = NoRun
  /\ UNCHANGED theme

\* handle_presentation_overlay_key: the help closes with Esc, ? and q
OverlayKey(k) == IF top.overlay = "help" /\ k \in {"esc", "q"} THEN Closed(top) ELSE top

\* handle_workspace_key and handle_inbox_route_key with InputRouter::dispatch
RouteKey(k) ==
  LET started == pending # Idle
      scope == IF started THEN pending.scope ELSE RouteScope
      keys == Append(pending.keys, k)
      found == Lookup(scope, keys)
  IN /\ top.overlay \in {"none", "help", "which-key"} /\ (top.overlay = "none" => ~top.writing)
     /\ typed' = FALSE
     /\ CASE started /\ k = "esc" -> NothingRuns(WithoutPopup(top)) /\ leader' = NoTimer
          [] ~(started /\ k = "esc") /\ found = "pending" ->
               /\ pending' = [scope |-> scope, keys |-> keys] /\ leader' = Started
               /\ top' = Opened(top, "which-key") /\ ran' = NoRun /\ UNCHANGED theme
          [] ~(started /\ k = "esc") /\ found = "no match" ->
               IF scope = "overlay" /\ ~started
               THEN NothingRuns(OverlayKey(k)) /\ leader' = leader
               ELSE NothingRuns(WithoutPopup(top)) /\ leader' = NoTimer
          [] OTHER -> Runs(scope, found, WithoutPopup(top))
     /\ UNCHANGED opening

\* handle_composer_key: a sequence begun before still takes the key, and the
\* composer runs only its own actions
ComposerKey(k) ==
  LET started == pending # Idle
      scope == IF started THEN pending.scope ELSE "composer"
      keys == Append(pending.keys, k)
      found == IF started /\ k = "esc" THEN "no match" ELSE Lookup(scope, keys)
  IN /\ top.overlay = "none" /\ top.writing
     /\ typed' = (~started /\ found = "no match" /\ k \in Printable)
     /\ pending' = IF found = "pending" /\ started THEN [scope |-> scope, keys |-> keys] ELSE Idle
     /\ top' = IF found = "back" THEN [top EXCEPT !.writing = FALSE] ELSE top
     /\ ran' = IF found \in ComposerActions THEN [scope |-> scope, action |-> found] ELSE NoRun
     /\ UNCHANGED <<leader, opening, theme>>

\* Overlay::Confirmation; y, which deletes or quits, is left out
QuestionKey(k) ==
  /\ top.overlay = "confirmation"
  /\ top' = IF k \in {"esc", "n"} \cup (IF top.question = "quit" THEN {"q"} ELSE {}) THEN Closed(top) ELSE top
  /\ typed' = FALSE /\ ran' = NoRun /\ UNCHANGED <<pending, leader, opening, theme>>

\* theme_picker_key: Esc restores, Enter saves, anything else previews
ThemeKey(k) ==
  /\ top.overlay = "theme"
  /\ \/ /\ k = "esc" /\ top' = Closed(top)
        /\ theme' = [theme EXCEPT !.shown = IF theme.before = NoPreview THEN @ ELSE theme.before,
                                  !.before = NoPreview]
     \/ /\ k = "enter" /\ top' = Closed(top)
        /\ theme' = [theme EXCEPT !.saved = theme.shown, !.before = NoPreview]
     \/ /\ k \notin {"esc", "enter"} /\ top' = top
        /\ \E t \in {"saved", "other"} : theme' = [theme EXCEPT !.shown = t]
  /\ typed' = (k \in Printable) /\ ran' = NoRun
  /\ UNCHANGED <<pending, leader, opening>>

\* dm_picker_key: the DM is opened in the background, Esc leaves it running
DmPickerKey(k) ==
  /\ top.overlay = "dm picker"
  /\ opening' = (opening \/ k = "enter")
  /\ top' = IF k = "esc" THEN Closed(top) ELSE top
  /\ typed' = (k \in Printable) /\ ran' = NoRun
  /\ UNCHANGED <<pending, leader, theme>>

Press(k) ==
  /\ RouteKey(k) \/ ComposerKey(k) \/ QuestionKey(k) \/ ThemeKey(k) \/ DmPickerKey(k)
  /\ UNCHANGED <<keymap, listVars>>

----------------------------------------------------------------------------
(* Clicks, frames, ticks and results *)

\* activate_mouse_target, HitTarget::Channel and HitTarget::Composer
ClickRow(i) ==
  /\ top.overlay = "none" /\ ~top.writing /\ top.route = "workspace"
  /\ i \in DOMAIN frame.index /\ frame.index[i] \in DOMAIN rows
  /\ opened' = rows[frame.index[i]]
  /\ top' = WorkspaceFocus(top, "channels")
  /\ typed' = FALSE /\ ran' = NoRun
  /\ UNCHANGED <<keymap, pending, leader, opening, theme, listed, rows, frame>>

ClickComposer ==
  /\ top.overlay = "none" /\ ~top.writing /\ top.route = "workspace"
  /\ top' = [top EXCEPT !.writing = TRUE] /\ typed' = FALSE /\ ran' = NoRun
  /\ UNCHANGED <<keymap, pending, leader, opening, theme, listVars>>

\* frame_tick, when the redraw gate is open
Draw ==
  /\ frame # Drawn /\ frame' = Drawn
  /\ UNCHANGED <<keymap, keyVars, listed, rows, opened>>

\* the relay's answers change the channels the store lists
Relist(S) ==
  /\ opened \in S /\ S # listed /\ listed' = S
  /\ UNCHANGED <<keymap, keyVars, rows, frame, opened>>

\* on_tick: an unfinished sequence expires, the list is copied from the store
Tick ==
  /\ IF leader = 0
     THEN pending' = Idle /\ leader' = NoTimer /\ top' = WithoutPopup(top)
     ELSE /\ leader' = IF leader = NoTimer THEN NoTimer ELSE leader - 1
          /\ UNCHANGED <<pending, top>>
  /\ rows' \in {rows, StoreOrder(listed)}
  /\ typed' = FALSE /\ ran' = NoRun
  /\ UNCHANGED <<keymap, opening, theme, listed, frame, opened>>

\* Background::DmOpened, whatever is on top by then
DmOpened(c) ==
  /\ opening /\ opening' = FALSE
  /\ c \in DmChannels \cap listed
  /\ rows' = StoreOrder(listed) /\ opened' = c
  /\ top' = Closed(WorkspaceFocus(top, "timeline"))
  /\ typed' = FALSE /\ ran' = NoRun
  /\ UNCHANGED <<keymap, pending, leader, theme, listed, frame>>

KeysNext ==
  \/ \E k \in Chords : Press(k)
  \/ \E i \in 1..Cardinality(Channels) : ClickRow(i)
  \/ ClickComposer \/ Draw \/ Tick
  \/ \E S \in SUBSET Channels : Relist(S)
  \/ \E c \in Channels : DmOpened(c)

KeysSpec == KeysInit /\ [][KeysNext]_keysVars
----------------------------------------------------------------------------
(* What holds *)

\* The focus is on a pane of the route on the screen, also when a DM opened
\* from the workspace answers while the Inbox is open.
RouteOwnsFocus == (top.route = "inbox") = (top.focus = "list")

\* An unfinished sequence is always on its way to expire: whichever surface
\* was opened or closed over it, the clock that drops it is running.
SequenceExpires == pending # Idle => leader # NoTimer

\* Whatever keymap.toml binds, once no sequence is unfinished a printable key
\* pressed in the composer is text: no binding of another scope, inherited or
\* left over from the surface below, takes it.
TextIsTyped ==
  \A k \in Printable :
    top.writing /\ top.overlay = "none" /\ pending = Idle /\ Press(k) => typed'

\* Keys go where the user looks, a sequence left unfinished does not wait for
\* ever, and text is text (app.rs, set_workspace_focus, resolve, leader_tick;
\* keymap.rs, validate).
KeysSound == [][RouteOwnsFocus' /\ SequenceExpires' /\ TextIsTyped]_keysVars
-----------------------------------------------------------------------------
(* Refuted: what is said or expected and the code does not do; in no run.    *)

\* "Press `Esc`: the exact previous theme must return": no preview outlives
\* its picker.
PreviewEnds == theme.shown # theme.saved => top.overlay = "theme"

\* "the one local presentation order used by drawing, keyboard movement,
\* viewport reconciliation, and mouse hit maps": a click opens the channel
\* that its row shows.
ClickOpensRow ==
  [][\A i \in DOMAIN frame.index : ClickRow(i) => opened' = frame.shown[i]]_keysVars
=============================================================================
