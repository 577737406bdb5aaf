------------------------------- MODULE Search -------------------------------
(***************************************************************************)
(* The search overlay (src/ui/search.rs, src/app.rs) and the search        *)
(* service behind it (src/service/search.rs, src/store/search_queries.rs). *)
(* One task at a time answers the text of the field: first from the local  *)
(* index, then, when a name of `from:` is not known here, after asking the *)
(* relay for it, and last from the relay.  Each answer travels through the *)
(* queue of the event loop with the generation of the text it is for.      *)
(*                                                                         *)
(* A text is a model value: Hits gives what matches it, From the name its  *)
(* `from:` gives (or Anyone), Short says that it is below two characters.  *)
(* The order of the results, `in:` and the dates (which only narrow Hits)  *)
(* and notices are left out.                                               *)
(***************************************************************************)
EXTENDS Naturals, Sequences, FiniteSets, SequencesExt

CONSTANTS
    Texts,       \* what may be typed; Empty is the field when it is opened
    Empty,
    Notes,       \* messages
    People,      \* profiles, the user's own among them
    Me,
    Writer,      \* the author of each message
    NameOf,      \* the name of each person
    Anyone,      \* a text without `from:`
    From,
    Hits,
    Short,
    Online,      \* a session is running
    Openings     \* how often the overlay is opened

ASSUME SearchAssumption ==
    /\ Notes \cap People = {} /\ Empty \in Texts /\ Openings \in Nat
    /\ Hits \in [Texts -> SUBSET (Notes \cup People)]

VARIABLES
    searchOverlay,     \* "none", "search"
    field,       \* SearchState.query
    generation,
    searching,   \* SearchState.loading
    matches,       \* SearchState.results
    chosen,      \* SearchState.selected_id, "nothing" without one
    edited,      \* search_dirty_since is set
    asking,      \* the one search task
    answers,     \* SearchLoaded events on their way to the loop
    indexed,     \* messages in the store
    known,       \* App.profiles: those the store had when it was last read
    hidden,      \* messages deleted, rejected or in a channel lost or hidden
    jumped,      \* the last result that was opened
    conversing,  \* a chosen person's conversation is being opened
    openings,
    answeredIn   \* history, for the properties: the opening that matches came from

searchVars == <<searchOverlay, field, generation, searching, matches, chosen, edited,
                asking, answers, indexed, known, hidden, jumped, conversing, openings,
                answeredIn>>

Nothing == "nothing"
NoTask == [phase |-> "none"]

SearchInit ==
    /\ searchOverlay = "none" /\ field = Empty /\ generation = 0
    /\ searching = FALSE /\ matches = {} /\ chosen = Nothing /\ edited = FALSE
    /\ asking = NoTask /\ answers = <<>>
    /\ indexed = {} /\ known = {}
    /\ hidden = {} /\ jumped = Nothing /\ conversing = FALSE /\ openings = 0
    /\ answeredIn = 0

-----------------------------------------------------------------------------
(* The service.                                                            *)

Matching(t, profiles) == {p \in profiles : NameOf[p] = From[t]}

\* Whom `from:` names: nobody is named by a name two people bear.
Named(t, profiles) == Cardinality(Matching(t, profiles)) = 1

SearchMessages(t, profiles) ==
    {n \in Hits[t] \cap (indexed \ hidden) :
        From[t] = Anyone \/ {Writer[n]} = Matching(t, profiles)}

Unresolved(t, profiles) == From[t] # Anyone /\ ~Named(t, profiles)

LocalResults(t, profiles, resolved) ==
    IF Short[t] THEN {}
    ELSE ((Hits[t] \cap profiles) \ {Me}) \cup SearchMessages(t, resolved)

SearchResultForEvent(n) == n \in indexed /\ n \notin hidden

Answer(results) ==
    Append(answers, [generation |-> asking.generation, results |-> results,
                     opening |-> openings])

store == <<indexed, known, hidden>>
overlayPart == <<searchOverlay, field, generation, searching, matches, chosen, edited,
                 jumped, conversing, openings, answeredIn>>

\* execute_local, then the first event; without a session that is all.
ExecuteLocal ==
    /\ asking.phase = "local"
    /\ answers' = Answer(IF Unresolved(asking.text, asking.profiles) THEN {}
                         ELSE LocalResults(asking.text, asking.profiles,
                                           asking.profiles))
    /\ asking' = IF Online THEN [asking EXCEPT !.phase = "resolve"] ELSE NoTask
    /\ UNCHANGED <<overlayPart, store>>

\* resolve_remote_author: the relay's profiles join the ones known here. A
\* name still not unique, or a failed query, ends the search with nothing.
ResolveRemoteAuthor ==
    /\ asking.phase = "resolve"
    /\ \E answered \in BOOLEAN :
         LET resolved == IF Unresolved(asking.text, asking.profiles) /\ answered
                         THEN asking.profiles \cup Matching(asking.text, People)
                         ELSE asking.profiles
         IN IF Unresolved(asking.text, resolved)
            THEN asking' = NoTask /\ answers' = Answer({})
            ELSE /\ asking' = [asking EXCEPT !.phase = "query", !.resolved = resolved]
                 /\ UNCHANGED answers
    /\ UNCHANGED <<overlayPart, store>>

\* execute after the name is resolved: the local results once more.
QueryLocal ==
    /\ asking.phase = "query"
    /\ LET results == LocalResults(asking.text, asking.profiles, asking.resolved)
       IN IF Short[asking.text]
          THEN asking' = NoTask /\ answers' = Answer(results)
          ELSE /\ asking' = [asking EXCEPT !.phase = "remote", !.local = results]
               /\ UNCHANGED answers
    /\ UNCHANGED <<overlayPart, store>>

RemoteMessages ==
    {n \in Notes \cap Hits[asking.text] :
        \/ From[asking.text] = Anyone
        \/ {Writer[n]} = Matching(asking.text, asking.resolved)}

\* Both remote queries answer and their events are stored, or one fails and
\* the local results stand alone.
QueryRemote ==
    /\ asking.phase = "remote"
    /\ \/ /\ asking' = NoTask /\ answers' = Answer(asking.local)
          /\ UNCHANGED store
       \/ /\ indexed' = indexed \cup RemoteMessages
          /\ asking' = [asking EXCEPT !.phase = "verify"]
          /\ UNCHANGED <<answers, known, hidden>>
    /\ UNCHANGED overlayPart

\* Every remote message is looked up again before it may be shown.
MergeRemote ==
    /\ asking.phase = "verify"
    /\ answers' = Answer(asking.local \cup (Hits[asking.text] \cap People)
                         \cup {n \in RemoteMessages : SearchResultForEvent(n)})
    /\ asking' = NoTask
    /\ UNCHANGED <<overlayPart, store>>

-----------------------------------------------------------------------------
(* The overlay.                                                            *)

SpawnSearch(t, g) ==
    asking' = [phase |-> "local", text |-> t, generation |-> g,
               profiles |-> known, resolved |-> known, local |-> {}]

OpenSearch ==
    /\ searchOverlay = "none" /\ openings < Openings
    /\ searchOverlay' = "search" /\ openings' = openings + 1
    /\ field' = Empty /\ generation' = 1 /\ searching' = TRUE
    /\ matches' = {} /\ chosen' = Nothing /\ edited' = FALSE
    /\ SpawnSearch(Empty, 1)
    /\ UNCHANGED <<answers, store, jumped, conversing, answeredIn>>

\* A key of the field (Backspace included): SearchState.changed.
Type ==
    /\ searchOverlay = "search" /\ generation <= Cardinality(Texts)
    /\ field' \in Texts \ {field}
    /\ generation' = generation + 1 /\ searching' = TRUE /\ edited' = TRUE
    /\ UNCHANGED <<searchOverlay, matches, chosen, asking, answers, store, jumped,
                   conversing, openings, answeredIn>>

MoveBy ==
    /\ searchOverlay = "search"
    /\ chosen' \in IF matches = {} THEN {Nothing} ELSE matches
    /\ UNCHANGED <<searchOverlay, field, generation, searching, matches, edited,
                   asking, answers, store, jumped, conversing, openings, answeredIn>>

Escape ==
    /\ searchOverlay = "search"
    /\ searchOverlay' = "none" /\ asking' = NoTask
    /\ UNCHANGED <<field, generation, searching, matches, chosen, edited,
                   answers, store, jumped, conversing, openings, answeredIn>>

\* Three tenths of a second after the last key.
Debounced ==
    /\ edited /\ edited' = FALSE
    /\ SpawnSearch(field, generation)
    /\ UNCHANGED <<searchOverlay, field, generation, searching, matches, chosen,
                   answers, store, jumped, conversing, openings, answeredIn>>

\* search_result_for_event once more, just before the result is opened.
StillOpenUnchecked(n) == n \in Notes
StillOpen(n) == SearchResultForEvent(n)

\* open_search_result: a person's conversation is opened by a task of its
\* own and the overlay waits for it; a message is looked up once more.
OpenSearchResult ==
    /\ searchOverlay = "search" /\ matches # {}
    /\ \E r \in IF chosen \in matches THEN {chosen} ELSE matches :
         IF r \in People THEN conversing' = Online /\ UNCHANGED <<searchOverlay, jumped>>
         ELSE IF StillOpen(r)
         THEN searchOverlay' = "none" /\ jumped' = r /\ UNCHANGED conversing
         ELSE UNCHANGED <<searchOverlay, jumped, conversing>>
    /\ asking' = NoTask
    /\ UNCHANGED <<field, generation, searching, matches, chosen, edited,
                   answers, store, openings, answeredIn>>

\* The answer about a chosen person closes whatever overlay is open then; a
\* failure leaves the overlay as it was.
DmAnswered ==
    /\ conversing /\ conversing' = FALSE
    /\ searchOverlay' \in {"none", searchOverlay}
    /\ UNCHANGED <<field, generation, searching, matches, chosen, edited,
                   asking, answers, store, jumped, openings, answeredIn>>

\* Answers to an earlier text are dropped.
CurrentEver(a) == a.generation <= generation
Current(a) == a.generation = generation

SearchLoaded ==
    /\ answers # <<>>
    /\ answers' = Tail(answers)
    /\ IF Current(Head(answers))
       THEN LET results == Head(answers).results IN
            /\ matches' = results /\ searching' = FALSE
            /\ answeredIn' = Head(answers).opening
            /\ chosen' \in IF chosen \in results THEN {chosen}
                           ELSE IF results = {} THEN {Nothing} ELSE results
       ELSE UNCHANGED <<matches, searching, chosen, answeredIn>>
    /\ UNCHANGED <<searchOverlay, field, generation, edited, asking, store,
                   jumped, conversing, openings>>

-----------------------------------------------------------------------------
\* What other parts do to the store meanwhile.
StoreSide ==
    \/ \E n \in Notes : indexed' = indexed \cup {n} /\ UNCHANGED <<known, hidden>>
    \/ \E n \in Notes : hidden' = hidden \cup {n} /\ UNCHANGED <<indexed, known>>
    \/ \E p \in People : known' = known \cup {p} /\ UNCHANGED <<indexed, hidden>>
StoreChanges == StoreSide /\ UNCHANGED <<overlayPart, asking, answers>>

SearchNext ==
    \/ OpenSearch \/ Type \/ MoveBy \/ Escape \/ Debounced
    \/ OpenSearchResult \/ DmAnswered \/ SearchLoaded
    \/ ExecuteLocal \/ ResolveRemoteAuthor \/ QueryLocal \/ QueryRemote \/ MergeRemote
    \/ StoreChanges

SearchSpec == SearchInit /\ [][SearchNext]_searchVars

-----------------------------------------------------------------------------
\* Every message shown matches the text in the field and, where that names an
\* author, was written by somebody who bears the name; none is shown while nobody
\* bears it.
Answers ==
    \A n \in matches \cap Notes :
        n \in Hits[field] /\ (From[field] = Anyone \/ NameOf[Writer[n]] = From[field])

\* What the overlay presents as the answer is one to the text in the field, of all
\* the answers under way since it was opened (app.rs, the SearchLoaded arm of run).
ResultsAnswerField ==
    searchOverlay = "search" /\ ~searching /\ answeredIn = openings => Answers

\* A message deleted or lost between the search and the choice is never
\* opened: what the context view is sent to was visible at that instant.
OpensVisibleOnly ==
    [][jumped' # jumped => jumped' \in indexed \ hidden]_searchVars
-----------------------------------------------------------------------------
\* Refuted: what is expected and the code does not do; in no run. Each opening of
\* the overlay numbers its texts from one again, so that an answer still waiting
\* from an earlier opening is taken for the text of the same number.
AnswersEver == searchOverlay = "search" /\ ~searching => Answers
=============================================================================
