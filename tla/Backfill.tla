------------------------------ MODULE Backfill ------------------------------
(***************************************************************************)
(* The history of one channel (src/src/sync/backfill.rs, auxiliary.rs):    *)
(* passes page backwards from the newest event to the second of a stored   *)
(* cursor, beside each other, beside the live subscription, and beside     *)
(* :resync, which forgets the cursor.  What the content of a page is       *)
(* referred to by, its reactions and deletions, is asked for page by page. *)
(***************************************************************************)
EXTENDS Naturals, FiniteSets, FiniteSetsExt

CONSTANTS
  Events,      \* content events of the channel: numbers, the event identifiers
  Second,      \* created_at of each
  Referred,    \* those of them that another event comes to refer to
  Late,        \* those that may be published with an old time
  Passes, PageSize, MaxPages,   \* 500 each in the code
  LiveLimit    \* what a REQ replays: 1000 in the code

ASSUME BackfillAssumption ==
  /\ Events \subseteq Nat \ {0} /\ Second \in [Events -> Nat \ {0}]
  /\ Referred \subseteq Events /\ Late \subseteq Events
  /\ {PageSize, MaxPages, LiveLimit} \subseteq Nat \ {0}

VARIABLES
  relayHolds, references, \* what the relay has: content, and references to which content
  late,              \* history: content that came with a time already passed
  fetched, auxiliary, \* what the client has of both
  cursor,            \* sync_cursors: high_created_at and high_event_id
  online, since, inbound, \* the subscription: its filter, and what is on its way
  pass,
  caught             \* history: a pass begun in this session has ended well

relayState == <<relayHolds, references, late>>
socket == <<online, since, inbound>>
backfillVars == <<relayState, fetched, auxiliary, cursor, socket, pass, caught>>

NoCursor == [at |-> 0, id |-> 0]
Key(e) == [at |-> Second[e], id |-> e]
IdlePass == [stage |-> "idle", mark |-> NoCursor, newest |-> NoCursor, below |-> NoCursor,
             batch |-> {}, want |-> {}, got |-> {}, pages |-> 0,
             resync |-> FALSE, inSession |-> FALSE, seen |-> {}, owed |-> {}]

BackfillInit ==
  /\ relayHolds = {} /\ references = {} /\ late = {}
  /\ fetched = {} /\ auxiliary = {}
  /\ cursor = NoCursor
  /\ online = FALSE /\ since = 0 /\ inbound = {}
  /\ pass = [p \in Passes |-> IdlePass]
  /\ caught = FALSE

-----------------------------------------------------------------------------
(* The relay.  Pages run from the newest second to the oldest, and inside  *)
(* a second by identifier, upwards.                                        *)

PageOrder(k, l) == k.at > l.at \/ (k.at = l.at /\ k.id < l.id)
First(n, S) == {e \in S : Cardinality({f \in S : PageOrder(Key(f), Key(e))}) < n}
Page(below) ==
  First(PageSize, {e \in relayHolds : below = NoCursor \/ PageOrder(below, Key(e))})

RelayAccepts(e) ==
  LET old == \E f \in relayHolds : Second[f] > Second[e] IN
  /\ e \notin relayHolds /\ (old => e \in Late)
  /\ relayHolds' = relayHolds \cup {e}
  /\ late' = IF old THEN late \cup {e} ELSE late
  /\ inbound' = IF online /\ Second[e] >= since THEN inbound \cup {e} ELSE inbound
  /\ UNCHANGED <<references, fetched, auxiliary, cursor, online, since, pass, caught>>

RelayAcceptsReference(e) ==
  /\ e \in relayHolds \cap Referred /\ e \notin references
  /\ references' = references \cup {e}
  /\ UNCHANGED <<relayHolds, late, fetched, auxiliary, cursor, socket, pass, caught>>

-----------------------------------------------------------------------------
(* The live subscription.                                                  *)

Begun(p, resync, inSession) ==
  /\ pass[p].stage = "idle"
  /\ pass' = [pass EXCEPT ![p] =
       [IdlePass EXCEPT !.stage = "cursor", !.resync = resync, !.inSession = inSession,
                        !.seen = relayHolds, !.owed = references]]

\* subscribe_channel: the filter begins at the cursor, and is kept for all
\* later sessions by the supervisor.
Subscribe ==
  /\ since = 0 /\ since' = IF cursor = NoCursor THEN 1 ELSE cursor.at
  /\ UNCHANGED <<relayState, fetched, auxiliary, cursor, online, inbound, pass, caught>>

\* Each session that is authenticated replays the filter and starts a pass.
Authenticated(p) ==
  /\ ~online /\ since # 0 /\ online' = TRUE
  /\ inbound' = First(LiveLimit, {e \in relayHolds : Second[e] >= since})
  /\ Begun(p, FALSE, TRUE)
  /\ caught' = FALSE
  /\ UNCHANGED <<relayState, fetched, auxiliary, cursor, since>>

LoseConnection ==
  /\ online /\ online' = FALSE /\ inbound' = {}
  /\ pass' = [p \in Passes |-> [pass[p] EXCEPT !.inSession = FALSE]]
  /\ UNCHANGED <<relayState, fetched, auxiliary, cursor, since, caught>>

\* Mutant: what is seen live moves the cursor.
DeliverLiveAndAdvance(e) ==
  /\ e \in inbound /\ inbound' = inbound \ {e}
  /\ fetched' = fetched \cup {e}
  /\ cursor' = IF Second[e] > cursor.at THEN Key(e) ELSE cursor
  /\ UNCHANGED <<relayState, auxiliary, online, since, pass, caught>>

\* A live event is stored, and the cursor is left alone.
DeliverLive(e) ==
  /\ e \in inbound /\ inbound' = inbound \ {e}
  /\ fetched' = fetched \cup {e}
  /\ UNCHANGED <<relayState, auxiliary, cursor, online, since, pass, caught>>

-----------------------------------------------------------------------------
(* Passes.                                                                 *)

\* When a community is activated.
SpawnBackfill(p) ==
  /\ Begun(p, FALSE, FALSE)
  /\ UNCHANGED <<relayState, fetched, auxiliary, cursor, socket, caught>>

\* :resync forgets the cursor, by a store call of its own, and spawns.
Resync(p) ==
  /\ cursor' = NoCursor
  /\ Begun(p, TRUE, FALSE)
  /\ UNCHANGED <<relayState, fetched, auxiliary, socket, caught>>

Reading == <<relayState, fetched, auxiliary, cursor, socket, caught>>

ReadCursor(p) ==
  /\ pass[p].stage = "cursor"
  /\ pass' = [pass EXCEPT ![p].stage = "cached", ![p].mark = cursor, ![p].newest = cursor,
       ![p].seen = IF cursor = NoCursor \/ pass[p].resync THEN @ ELSE {},
       ![p].owed = IF cursor = NoCursor THEN @ ELSE @ \cap fetched]
  /\ UNCHANGED Reading

ReadCached(p) ==
  /\ pass[p].stage = "cached"
  /\ pass' = [pass EXCEPT ![p].stage = IF fetched = {} THEN "page" ELSE "references",
                          ![p].want = fetched]
  /\ UNCHANGED Reading

\* Any query may fail: the pass ends, and what it has stored stays.
Asks(p) == pass[p].stage \in {"page", "references"}
QueryFails(p) ==
  /\ Asks(p) /\ pass' = [pass EXCEPT ![p] = IdlePass]
  /\ UNCHANGED Reading

QueryPage(p) ==
  LET page == Page(pass[p].below)
      top == CHOOSE e \in page : \A f \in page : Second[f] < Second[e]
                                   \/ (Second[f] = Second[e] /\ f <= e)
      newer(k, l) == k.at > l.at \/ (k.at = l.at /\ k.id > l.id) IN
  /\ pass[p].stage = "page"
  /\ pass' = [pass EXCEPT
       ![p].pages = @ + 1,
       ![p].stage = IF page = {} THEN "save" ELSE "store",
       ![p].batch = page,
       ![p].newest = IF page # {} /\ newer(Key(top), @) THEN Key(top) ELSE @]
  /\ UNCHANGED Reading

StorePage(p) ==
  /\ pass[p].stage = "store"
  /\ fetched' = fetched \cup pass[p].batch
  /\ pass' = [pass EXCEPT ![p].stage = "references", ![p].want = pass[p].batch]
  /\ UNCHANGED <<relayState, auxiliary, cursor, socket, caught>>

\* fetch_for_events: the answer, and then one job that stores it.
QueryReferences(p) ==
  /\ pass[p].stage = "references"
  /\ pass' = [pass EXCEPT ![p].stage = "apply", ![p].got = references \cap pass[p].want]
  /\ UNCHANGED Reading

\* The pass has crossed the watermark only below its whole second.
Crossed(p, last) ==
  \/ pass[p].mark.at > 0 /\ Second[last] < pass[p].mark.at
  \/ Cardinality(pass[p].batch) < PageSize

ApplyReferences(p) ==
  LET last == CHOOSE e \in pass[p].batch :
                \A f \in pass[p].batch \ {e} : PageOrder(Key(f), Key(e)) IN
  /\ pass[p].stage = "apply"
  /\ auxiliary' = auxiliary \cup pass[p].got
  /\ pass' = [pass EXCEPT ![p] =
       IF @.batch = {} THEN [@ EXCEPT !.stage = "page", !.got = {}, !.want = {}]
       ELSE IF Crossed(p, last) THEN [@ EXCEPT !.stage = "save", !.got = {}, !.want = {}]
       ELSE IF @.pages >= MaxPages THEN IdlePass
       ELSE [@ EXCEPT !.stage = "page", !.got = {}, !.want = {}, !.below = Key(last)]]
  /\ UNCHANGED <<relayState, fetched, cursor, socket, caught>>

\* save_sync_cursor keeps the later time.
Save(p) ==
  /\ pass[p].stage = "save"
  /\ cursor' = IF pass[p].newest.at >= cursor.at THEN pass[p].newest ELSE cursor
  /\ caught' = (caught \/ (pass[p].inSession /\ online))
  /\ pass' = [pass EXCEPT ![p] = IdlePass]
  /\ UNCHANGED <<relayState, fetched, auxiliary, socket>>

PassStep(p) ==
  \/ ReadCursor(p) \/ ReadCached(p) \/ QueryPage(p) \/ QueryFails(p) \/ StorePage(p)
  \/ QueryReferences(p) \/ ApplyReferences(p) \/ Save(p)

BackfillNext ==
  \/ \E e \in Events : RelayAccepts(e) \/ RelayAcceptsReference(e) \/ DeliverLive(e)
  \/ Subscribe \/ LoseConnection
  \/ \E p \in Passes : Authenticated(p) \/ SpawnBackfill(p) \/ Resync(p) \/ PassStep(p)

BackfillSpec == BackfillInit /\ [][BackfillNext]_backfillVars

-----------------------------------------------------------------------------
(* What is promised.                                                       *)

\* Below the second of the cursor nothing is missing that the relay took in
\* the order of time, however passes overlapped, failed halfway or met events
\* of the watermark's own second: the next pass will not look there.
NoHole ==
  \A e \in relayHolds \ late : Second[e] < cursor.at => e \in fetched

\* Once a pass begun in this session has ended and the subscription is
\* drained, the gap that the lost connection left is closed: nothing fell
\* between the pages and the subscription.
GapRepaired ==
  online /\ caught /\ inbound = {} => relayHolds \ late \subseteq fetched

\* A pass that ends has what already referred, when it began, to content that
\* was stored; and one that found no cursor has all content that the relay had
\* when it began, old times included, with what referred to it.
PassIsComplete ==
  \A p \in Passes :
    pass[p].stage = "save" =>
      /\ pass[p].owed \subseteq auxiliary
      /\ pass[p].mark = NoCursor => pass[p].seen \subseteq fetched

\* History is whole where the client takes it to be: below the cursor, after a
\* pass, and within one (sync/backfill.rs, channel).
HistoryComplete == NoHole /\ GapRepaired /\ PassIsComplete

=============================================================================
