---------------------------- MODULE Communities ----------------------------
(***************************************************************************)
(* Switching communities and identities: what App keeps per process while  *)
(* the selected community, its runtime (signer, supervisor, services) and  *)
(* its background tasks change under it (app.rs, auth/signer.rs).          *)
(*                                                                         *)
(* A runtime owns a signer actor, the only holder of the unlocked key; the *)
(* services cloned into background tasks hold a handle to that actor and   *)
(* survive the runtime.  switch_community reuses the signer when the       *)
(* identity stays, and locks it when the identity changes; `:lock` drops   *)
(* runtime and signer.  A background task remembers the community it was   *)
(* started for, and its answer comes back through one channel, in order.   *)
(*                                                                         *)
(* A handler of the event loop is one step; the tasks run between the      *)
(* handlers.  Keys cannot be read while the credential store refuses them  *)
(* (a recovery state), and a build may fail for another reason.            *)
(***************************************************************************)
EXTENDS Integers, FiniteSets, Sequences

CONSTANTS
  Homes,         \* the configured communities
  Owner(_),      \* identity_id of a community
  MostSigners,   \* bound: signer actors one process starts
  MostMail,      \* bound: tasks and answers under way
  MostMarks      \* bound: marks of one community

ASSUME CommunitiesAssumption ==
  /\ Homes # {} /\ MostSigners \in Nat \ {0} /\ MostMail \in Nat \ {0} /\ MostMarks \in Nat

VARIABLES
  selected,     \* selected_community
  runtime,      \* {} or {[home, signer]}
  signers,      \* signer actors still running: [owner, serial]
  serial,       \* how many were started
  views,        \* per view, the community whose rows it shows (a set: none or one)
  tasks,        \* background tasks: [view, home, signer]
  mail,         \* background_rx
  locked,       \* identities `:lock` has locked in this process
  unsaved,      \* read_dirty_since is set
  marked,       \* per community, the marks made here
  published     \* per community, the marks its relay has been sent

communitiesVars == <<selected, runtime, signers, serial, views, tasks, mail, locked,
                     unsaved, marked, published>>

Views == {"inbox", "agents", "opened dm"}
NoSigner == [owner |-> "nobody", serial |-> 0]

CommunitiesInit ==
  /\ selected \in Homes
  /\ LET first == [owner |-> Owner(selected), serial |-> 1]
     IN  /\ runtime = {[home |-> selected, signer |-> first]}
         /\ signers = {first}
  /\ serial = 1
  /\ views = [v \in Views |-> {}]
  /\ tasks = {} /\ mail = <<>> /\ locked = {}
  /\ unsaved = FALSE
  /\ marked = [h \in Homes |-> 0] /\ published = [h \in Homes |-> 0]

HandleOfRuntime == IF runtime = {} THEN NoSigner
                   ELSE (CHOOSE r \in runtime : TRUE).signer

----------------------------------------------------------------------------
(* switch_community *)

\* The signer of the running runtime serves another community of its identity.
Reusable(h) == {r.signer : r \in {x \in runtime : Owner(x.home) = Owner(h)}}

\* Runtime::build: the signer handed in, or the key unlocked into a new actor.
SignerFor(h) == IF Reusable(h) # {} THEN CHOOSE s \in Reusable(h) : TRUE
                ELSE [owner |-> Owner(h), serial |-> serial + 1]

\* old.signer.lock(), unless the next runtime goes on with the same identity.
Retired(h) == {s \in signers : s.owner # Owner(h)}

\* What both ways of leaving a community forget.  The answers under way, the
\* read marks waiting for their debounce and the tasks are kept; only the
\* agent directory's task is aborted.
Leave(h) ==
  /\ selected' = h
  /\ views' = [v \in Views |-> {}]
  /\ tasks' = {t \in tasks : t.view # "agents"}
  /\ UNCHANGED <<mail, locked, unsaved, marked, published>>

Switch(h) ==
  /\ h # selected
  /\ Reusable(h) = {} => serial < MostSigners
  /\ LET signer == SignerFor(h)
     IN  /\ runtime' = {[home |-> h, signer |-> signer]}
         /\ signers' = (signers \ Retired(h)) \cup {signer}
         /\ serial' = IF Reusable(h) # {} THEN serial ELSE serial + 1
  /\ Leave(h)

\* The credential of the target is missing, locked or corrupt: its cached
\* rows are shown without a runtime, and the former key is locked.
SwitchWithoutKey(h) ==
  /\ h # selected /\ Reusable(h) = {}
  /\ runtime' = {}
  /\ signers' = signers \ {HandleOfRuntime}
  /\ Leave(h)
  /\ UNCHANGED serial

\* execute_command, `:lock`.
LockIdentity ==
  /\ runtime # {}
  /\ signers' = signers \ {HandleOfRuntime}
  /\ locked' = locked \cup {HandleOfRuntime.owner}
  /\ runtime' = {}
  /\ views' = [views EXCEPT !["agents"] = {}]
  /\ tasks' = {t \in tasks : t.view # "agents"}
  /\ UNCHANGED <<selected, serial, mail, unsaved, marked, published>>

----------------------------------------------------------------------------
(* Background tasks *)

Room == Cardinality(tasks) + Len(mail) < MostMail

\* spawn_inbox_load and open_agents abort the task of the same view; they read
\* the store of the selected community with or without a runtime.  open_dm
\* needs the runtime.
Load(v) ==
  /\ Room
  /\ v = "opened dm" => runtime # {}
  /\ tasks' = {t \in tasks : v = "opened dm" \/ t.view # v}
                \cup {[view |-> v, home |-> selected, signer |-> HandleOfRuntime]}
  /\ UNCHANGED <<selected, runtime, signers, serial, views, mail, locked, unsaved, marked,
                 published>>

\* Opening a DM signs a command: a handle whose actor is gone answers Locked.
Signs(t) == t.view \in {"opened dm", "marks"}
Usable(t) == t.signer \in signers

Finish(t) ==
  /\ t \in tasks
  /\ tasks' = tasks \ {t}
  /\ mail' = Append(mail, IF t.view = "marks" \/ (Signs(t) /\ ~Usable(t))
                          THEN [view |-> "status", home |-> t.home]
                          ELSE [view |-> t.view, home |-> t.home])
  /\ published' = IF t.view = "marks" /\ Usable(t)
                  THEN [published EXCEPT ![t.home] = marked[t.home]] ELSE published
  /\ UNCHANGED <<selected, runtime, signers, serial, views, locked, unsaved, marked>>

\* Mutant: An answer is shown wherever the user is by then.
AppliesAnyhow(m) == m.home \in Homes

\* The match arms of run: an answer of another community is dropped.
Applies(m) == m.home = selected

Receive ==
  /\ mail # <<>>
  /\ mail' = Tail(mail)
  /\ LET m == Head(mail)
     IN  views' = IF m.view \in Views /\ Applies(m)
                  THEN [views EXCEPT ![m.view] = {m.home}] ELSE views
  /\ UNCHANGED <<selected, runtime, signers, serial, tasks, locked, unsaved, marked, published>>

----------------------------------------------------------------------------
(* Read marks *)

\* mark_current_read: the marks of every community share one debounce.
MarkHere ==
  /\ marked[selected] < MostMarks
  /\ marked' = [marked EXCEPT ![selected] = @ + 1]
  /\ unsaved' = TRUE
  /\ UNCHANGED <<selected, runtime, signers, serial, views, tasks, mail, locked, published>>

\* on_tick, five seconds later: the service of the runtime there is now.
MarksDue ==
  /\ unsaved /\ Room
  /\ unsaved' = FALSE
  /\ tasks' = tasks \cup {[view |-> "marks", home |-> r.home, signer |-> r.signer] : r \in runtime}
  /\ UNCHANGED <<selected, runtime, signers, serial, views, mail, locked, marked, published>>

CommunitiesNext ==
  \/ \E h \in Homes : Switch(h) \/ SwitchWithoutKey(h)
  \/ LockIdentity
  \/ \E v \in Views : Load(v)
  \/ \E t \in tasks : Finish(t)
  \/ Receive
  \/ MarkHere
  \/ MarksDue

CommunitiesSpec == CommunitiesInit /\ [][CommunitiesNext]_communitiesVars

----------------------------------------------------------------------------
(* Properties *)

\* What a view shows is of the selected community, whatever was under way when
\* the community changed (app.rs: the community check of every Background arm).
ShownIsSelected == \A v \in Views : views[v] \subseteq {selected}

\* The only unlocked key is that of the running runtime: no switch, failed
\* switch or lock leaves a signer behind that a task of a former identity
\* could still sign with (app.rs, switch_community; auth/signer.rs, lock).
OneKeyUnlocked == signers = {r.signer : r \in runtime}

\* What is shown and what can sign are of the selected community, however the
\* answers of the one before come in.
SwitchSound == ShownIsSelected /\ OneKeyUnlocked
-----------------------------------------------------------------------------
(* Refuted: what is said or expected and the code does not do; in no run.    *)

\* "identity locked for this process; restart bzz to unlock it again"
\* (app.rs, execute_command).
LockedStaysLocked == \A s \in signers : s.owner \notin locked

\* A mark whose debounce has run out is on its way to the relay of the
\* community it was made in (app.rs, read_dirty_since).
MarksReachTheirRelay ==
  (~unsaved /\ runtime # {}) =>
    \A h \in Homes : published[h] = marked[h] \/ \E t \in tasks : t.view = "marks" /\ t.home = h
=============================================================================
