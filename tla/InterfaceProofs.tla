-------------------------- MODULE InterfaceProofs --------------------------
(***************************************************************************)
(* Proofs about what is on the screen: nothing of a former community, the  *)
(* rows of the inbox, the answers of a search, where keys go, the timeline *)
(* that its reader follows, the attachments of a composer and its text.    *)
(***************************************************************************)
EXTENDS Communities, Inbox, Search, Keys, Workspace, Attachments, Composer,
        FiniteSetTheorems, SequenceTheorems, WellFoundedInduction, TLAPS

-----------------------------------------------------------------------------
(* The change of community *)

\* The runtime there is serves the selected community with a key of its
\* identity, and no other key is unlocked.
CommunitiesInv ==
    /\ runtime = {} \/ \E s \in {x \in signers : x.owner = Owner(selected)} :
                          runtime = {[home |-> selected, signer |-> s]}
    /\ OneKeyUnlocked /\ ShownIsSelected
    /\ views = [v \in Views |-> views[v]]

LEMMA RuntimeIs ==
    ASSUME CommunitiesInv
    PROVE  \/ runtime = {} /\ signers = {} /\ HandleOfRuntime = NoSigner
           \/ \E s : /\ runtime = {[home |-> selected, signer |-> s]}
                     /\ signers = {s} /\ HandleOfRuntime = s /\ s.owner = Owner(selected)
  <1>1. CASE runtime = {}
    BY <1>1 DEF CommunitiesInv, OneKeyUnlocked, HandleOfRuntime
  <1>2. CASE \E s \in {x \in signers : x.owner = Owner(selected)} :
               runtime = {[home |-> selected, signer |-> s]}
    <2>1. PICK s \in {x \in signers : x.owner = Owner(selected)} :
            runtime = {[home |-> selected, signer |-> s]}
      BY <1>2
    <2> DEFINE r == [home |-> selected, signer |-> s]
    <2>2. r.signer = s /\ runtime = {r} /\ runtime # {}
      BY <2>1
    <2> HIDE DEF r
    <2>3. (CHOOSE x \in runtime : TRUE) = r
      BY <2>2
    <2>4. signers = {x.signer : x \in runtime}
      BY DEF CommunitiesInv, OneKeyUnlocked
    <2>5. signers = {s}
      BY <2>2, <2>4
    <2> QED
      BY <2>1, <2>2, <2>3, <2>5 DEF HandleOfRuntime
  <1> QED
    BY <1>1, <1>2 DEF CommunitiesInv

\* What a change leaves of views, keys and runtime.
LEMMA LeftSound ==
    ASSUME NEW h \in Homes, Leave(h),
           \/ runtime' = {} /\ signers' = {}
           \/ \E s : /\ runtime' = {[home |-> h, signer |-> s]} /\ signers' = {s}
                     /\ s.owner = Owner(h)
    PROVE  CommunitiesInv'
  <1>1. selected' = h /\ views' = [v \in Views |-> {}]
    BY DEF Leave
  <1>2. /\ ShownIsSelected'
        /\ views' = [v \in Views |-> views'[v]]
    BY <1>1 DEF ShownIsSelected
  <1>3. CASE runtime' = {} /\ signers' = {}
    BY <1>2, <1>3 DEF CommunitiesInv, OneKeyUnlocked
  <1>4. CASE \E s : /\ runtime' = {[home |-> h, signer |-> s]} /\ signers' = {s}
                    /\ s.owner = Owner(h)
    BY <1>1, <1>2, <1>4 DEF CommunitiesInv, OneKeyUnlocked
  <1> QED
    BY <1>3, <1>4

LEMMA SwitchKeeps == ASSUME CommunitiesInv, NEW h \in Homes, Switch(h) PROVE CommunitiesInv'
  <1> DEFINE new == [owner |-> Owner(h), serial |-> serial + 1]
  <1>1. new.owner = Owner(h)
    OBVIOUS
  <1>2. /\ runtime' = {[home |-> h, signer |-> SignerFor(h)]}
        /\ signers' = (signers \ Retired(h)) \cup {SignerFor(h)}
        /\ Leave(h)
    BY DEF Switch
  <1>3. SignerFor(h) = IF Reusable(h) # {} THEN CHOOSE s \in Reusable(h) : TRUE ELSE new
    BY DEF SignerFor
  <1> HIDE DEF new
  <1>4. CASE runtime = {}
    <2>1. Reusable(h) = {} /\ signers = {}
      BY <1>4, RuntimeIs DEF Reusable
    <2> QED
      BY <1>1, <1>2, <1>3, <2>1, LeftSound DEF Retired
  <1>5. CASE runtime # {}
    <2>1. PICK s : /\ runtime = {[home |-> selected, signer |-> s]}
                   /\ signers = {s} /\ s.owner = Owner(selected)
      BY <1>5, RuntimeIs
    <2>2. Reusable(h) = IF Owner(selected) = Owner(h) THEN {s} ELSE {}
      <3> DEFINE r == [home |-> selected, signer |-> s]
      <3>1. runtime = {r} /\ r.home = selected /\ r.signer = s
        BY <2>1
      <3> HIDE DEF r
      <3>2. {x \in runtime : Owner(x.home) = Owner(h)} = IF Owner(selected) = Owner(h) THEN {r} ELSE {}
        BY <3>1
      <3> QED
        BY <3>1, <3>2 DEF Reusable
    <2>3. CASE Owner(selected) = Owner(h)
      <3>1. SignerFor(h) = s
        BY <1>3, <2>2, <2>3
      <3> QED
        BY <1>2, <2>1, <2>3, <3>1, LeftSound DEF Retired
    <2>4. CASE Owner(selected) # Owner(h)
      <3>1. SignerFor(h) = new /\ signers \ Retired(h) = {}
        BY <1>3, <2>1, <2>2, <2>4 DEF Retired
      <3> QED
        BY <1>1, <1>2, <3>1, LeftSound
    <2> QED
      BY <2>3, <2>4
  <1> QED
    BY <1>4, <1>5

LEMMA CommunitiesStep ==
    ASSUME CommunitiesInv, [CommunitiesNext]_communitiesVars PROVE CommunitiesInv'
  <1>1. ASSUME NEW h \in Homes, Switch(h) PROVE CommunitiesInv'
    BY <1>1, SwitchKeeps
  <1>2. ASSUME NEW h \in Homes, SwitchWithoutKey(h) PROVE CommunitiesInv'
    BY <1>2, RuntimeIs, LeftSound DEF SwitchWithoutKey
  <1>3. CASE LockIdentity
    <2>1. runtime' = {} /\ signers' = {} /\ selected' = selected
          /\ views' = [views EXCEPT !["agents"] = {}]
      BY <1>3, RuntimeIs DEF LockIdentity
    <2> QED
      BY <2>1 DEF CommunitiesInv, OneKeyUnlocked, ShownIsSelected
  <1>4. CASE Receive
    <2>1. /\ UNCHANGED <<selected, runtime, signers>>
          /\ views' = views
             \/ \E v \in Views : views' = [views EXCEPT ![v] = {selected}]
      BY <1>4 DEF Receive, Applies
    <2> QED
      BY <2>1 DEF CommunitiesInv, OneKeyUnlocked, ShownIsSelected
  <1>5. CASE UNCHANGED <<selected, runtime, signers, views>>
    BY <1>5 DEF CommunitiesInv, OneKeyUnlocked, ShownIsSelected
  <1>6. CASE \/ \E v \in Views : Load(v)
             \/ \E t \in tasks : Finish(t)
             \/ MarkHere \/ MarksDue \/ UNCHANGED communitiesVars
    BY <1>5, <1>6 DEF Load, Finish, MarkHere, MarksDue, communitiesVars
  <1> QED
    BY <1>1, <1>2, <1>3, <1>4, <1>6 DEF CommunitiesNext

\* After any switches, failed switches and locks, and whatever tasks and answers of
\* the former community are still under way, no view shows its rows and no key but
\* that of the running runtime is unlocked (app.rs, switch_community and the
\* Background arms of run).
THEOREM SwitchCorrect == CommunitiesSpec => []SwitchSound
  <1>1. CommunitiesInit => CommunitiesInv
    <2> SUFFICES ASSUME CommunitiesInit PROVE CommunitiesInv
      OBVIOUS
    <2> DEFINE first == [owner |-> Owner(selected), serial |-> 1]
    <2>1. /\ runtime = {[home |-> selected, signer |-> first]} /\ signers = {first}
          /\ first.owner = Owner(selected) /\ views = [v \in Views |-> {}]
      BY DEF CommunitiesInit
    <2> HIDE DEF first
    <2> QED
      BY <2>1 DEF CommunitiesInv, OneKeyUnlocked, ShownIsSelected
  <1>2. CommunitiesInv /\ [CommunitiesNext]_communitiesVars => CommunitiesInv'
    BY CommunitiesStep
  <1>3. CommunitiesInv => SwitchSound
    BY DEF CommunitiesInv, SwitchSound
  <1> QED
    BY <1>1, <1>2, <1>3, PTL DEF CommunitiesSpec

-----------------------------------------------------------------------------
(* The rows of the inbox *)

LEMMA InboxKeeps ==
    ASSUME FreshWhenClean,
           dirty' = TRUE \/ UNCHANGED <<base, projection, dirty>>
    PROVE  FreshWhenClean'
  BY DEF FreshWhenClean

\* While the flag is down the rows are what deriving them now would give, for every
\* set of posts and conversations and every order of the writers
\* (store/inbox.rs, mark_inbox_dirty and ensure_inbox_projection).
THEOREM FreshCorrect == InboxSpec => []FreshWhenClean
  <1>1. InboxInit => FreshWhenClean
    BY DEF InboxInit, FreshWhenClean
  <1>2. FreshWhenClean /\ [InboxNext]_inboxVars => FreshWhenClean'
    <2> SUFFICES ASSUME FreshWhenClean, [InboxNext]_inboxVars PROVE FreshWhenClean'
      OBVIOUS
    <2>1. CASE StoreStep
      BY <2>1, InboxKeeps DEF StoreStep, ApplyPost, ApplyDeletion, ApplyVisibility, SaveDraft,
                              AdvanceRead, Changes
    <2>2. CASE RouteStep
      BY <2>2, InboxKeeps DEF RouteStep, OpenInbox, CycleFilter, AskMarkVisibleRead, LeaveContext,
                              LeaveInbox, TickRefresh, SelectTalk, MarkRead, MarkUnread,
                              OpenInboxItem, AnswerMarkVisibleRead, Changes, storeSide
    <2>3. CASE ItemsLoaded
      BY <2>3 DEF ItemsLoaded, FreshWhenClean
    <2>4. CASE DetailLoaded \/ UNCHANGED inboxVars
      BY <2>4, InboxKeeps DEF DetailLoaded, inboxVars
    <2> QED
      BY <2>1, <2>2, <2>3, <2>4 DEF InboxNext
  <1> QED
    BY <1>1, <1>2, PTL DEF InboxSpec
-----------------------------------------------------------------------------
(* The answers of a search *)

\* Results that answer a text.
AnswerTo(t, results) ==
    \A n \in results \cap Notes :
        n \in Hits[t] /\ (From[t] = Anyone \/ NameOf[Writer[n]] = From[t])

Tasks == [phase : {"local", "resolve", "query", "remote", "verify"}, text : Texts,
          generation : Nat, profiles : SUBSET People, resolved : SUBSET People,
          local : SUBSET (Notes \cup People)]

\* The task at work answers an earlier text, or the one in the field.
TaskInv ==
    /\ asking = NoTask \/ asking \in Tasks
    /\ asking.phase # "none" =>
         /\ asking.generation <= generation
         /\ asking.generation = generation => asking.text = field
    /\ asking.phase \in {"remote", "verify"} => AnswerTo(asking.text, asking.local)

\* So does every answer under way, as long as it is of this opening.
WaitingInv ==
    /\ answers \in Seq([generation : Nat, results : SUBSET (Notes \cup People), opening : Nat])
    /\ \A i \in 1..Len(answers) :
         /\ answers[i].opening <= openings
         /\ answers[i].opening = openings =>
              /\ answers[i].generation <= generation
              /\ answers[i].generation = generation => AnswerTo(field, answers[i].results)

ShownInv ==
    /\ answeredIn \in Nat /\ answeredIn <= openings
    /\ answeredIn = openings /\ ~searching => AnswerTo(field, matches)

SearchInv ==
    /\ generation \in Nat /\ openings \in Nat /\ field \in Texts
    /\ known \subseteq People
    /\ TaskInv /\ WaitingInv /\ ShownInv

\* What stays of a queue when its first element is taken.
LEMMA FirstTaken ==
    ASSUME NEW S, NEW q \in Seq(S), q # <<>>
    PROVE  /\ Head(q) = q[1] /\ q[1] \in S /\ 1 \in 1..Len(q)
           /\ Tail(q) \in Seq(S) /\ Len(Tail(q)) = Len(q) - 1
           /\ \A i \in 1..Len(Tail(q)) : Tail(q)[i] = q[i + 1] /\ i + 1 \in 1..Len(q)
  OBVIOUS

LEMMA AnswersTyped ==
    ASSUME SearchInv
    PROVE  \A i \in 1..Len(answers) : answers[i].generation \in Nat /\ answers[i].opening \in Nat
  <1> DEFINE Kinds == [generation : Nat, results : SUBSET (Notes \cup People), opening : Nat]
  <1>1. answers \in Seq(Kinds)
    BY DEF SearchInv, WaitingInv
  <1> HIDE DEF Kinds
  <1>2. \A i \in 1..Len(answers) : answers[i] \in Kinds
    BY <1>1
  <1> USE DEF Kinds
  <1> QED
    BY <1>2

\* What a search finds answers its text, whoever is known.
LEMMA MessagesAnswer ==
    ASSUME NEW t \in Texts, NEW profiles \in SUBSET People
    PROVE  AnswerTo(t, SearchMessages(t, profiles))
  <1> SUFFICES ASSUME NEW n \in SearchMessages(t, profiles)
      PROVE  n \in Hits[t] /\ (From[t] = Anyone \/ NameOf[Writer[n]] = From[t])
    BY DEF AnswerTo
  <1>1. n \in Hits[t] /\ (From[t] = Anyone \/ {Writer[n]} = Matching(t, profiles))
    BY DEF SearchMessages
  <1> QED
    BY <1>1 DEF Matching

LEMMA LocalAnswers ==
    ASSUME NEW t \in Texts, NEW profiles \in SUBSET People, NEW resolved \in SUBSET People
    PROVE  /\ AnswerTo(t, LocalResults(t, profiles, resolved))
           /\ LocalResults(t, profiles, resolved) \in SUBSET (Notes \cup People)
  <1>1. Hits[t] \subseteq Notes \cup People
    BY SearchAssumption
  <1>2. CASE Short[t]
    BY <1>2 DEF LocalResults, AnswerTo
  <1>3. CASE ~Short[t]
    <2>1. LocalResults(t, profiles, resolved)
            = ((Hits[t] \cap profiles) \ {Me}) \cup SearchMessages(t, resolved)
      BY <1>3 DEF LocalResults
    <2>2. AnswerTo(t, SearchMessages(t, resolved))
      BY MessagesAnswer
    <2>3. SearchMessages(t, resolved) \subseteq Hits[t]
      BY DEF SearchMessages
    <2> QED
      BY <1>1, <2>1, <2>2, <2>3, SearchAssumption DEF AnswerTo
  <1> QED
    BY <1>2, <1>3

\* An answer sent by the task at work.
LEMMA AnswerSent ==
    ASSUME SearchInv, NEW results \in SUBSET (Notes \cup People),
           asking \in Tasks, AnswerTo(asking.text, results),
           answers' = Answer(results), UNCHANGED <<generation, openings, field>>
    PROVE  WaitingInv'
  <1> DEFINE a == [generation |-> asking.generation, results |-> results, opening |-> openings]
             Kinds == [generation : Nat, results : SUBSET (Notes \cup People), opening : Nat]
  <1>1. /\ a \in Kinds /\ a.opening = openings /\ a.generation = asking.generation
        /\ a.results = results /\ asking.phase # "none"
    BY DEF SearchInv, Tasks
  <1>2. answers' = Append(answers, a) /\ answers \in Seq(Kinds)
    BY DEF Answer, SearchInv, WaitingInv
  <1>3. /\ asking.generation <= generation
        /\ asking.generation = generation => asking.text = field
    BY <1>1 DEF SearchInv, TaskInv
  <1> HIDE DEF a
  <1>4. /\ answers' \in Seq(Kinds) /\ Len(answers') = Len(answers) + 1
        /\ \A i \in 1..Len(answers) : answers'[i] = answers[i]
        /\ answers'[Len(answers) + 1] = a
    BY <1>1, <1>2
  <1>5. \A i \in 1..Len(answers') :
          /\ answers'[i].opening <= openings
          /\ answers'[i].opening = openings =>
               /\ answers'[i].generation <= generation
               /\ answers'[i].generation = generation => AnswerTo(field, answers'[i].results)
    <2> SUFFICES ASSUME NEW i \in 1..Len(answers')
        PROVE  /\ answers'[i].opening <= openings
               /\ answers'[i].opening = openings =>
                    /\ answers'[i].generation <= generation
                    /\ answers'[i].generation = generation =>
                         AnswerTo(field, answers'[i].results)
      OBVIOUS
    <2>1. CASE i \in 1..Len(answers)
      BY <1>4, <2>1 DEF SearchInv, WaitingInv
    <2>2. CASE i = Len(answers) + 1
      BY <1>1, <1>3, <1>4, <2>2 DEF SearchInv
    <2>3. Len(answers) \in Nat
      BY <1>2
    <2> QED
      BY <1>4, <2>1, <2>2, <2>3
  <1> QED
    BY <1>4, <1>5 DEF WaitingInv
LEMMA TaskRuns ==
    ASSUME SearchInv,
           ExecuteLocal \/ ResolveRemoteAuthor \/ QueryLocal \/ QueryRemote \/ MergeRemote
    PROVE  SearchInv'
  <1>1. asking \in Tasks /\ asking.phase # "none" /\ AnswerTo(asking.text, {})
    <2>1. NoTask.phase = "none"
      BY DEF NoTask
    <2>2. asking.phase \in {"local", "resolve", "query", "remote", "verify"}
      BY DEF ExecuteLocal, ResolveRemoteAuthor, QueryLocal, QueryRemote, MergeRemote
    <2> QED
      BY <2>1, <2>2 DEF SearchInv, TaskInv, AnswerTo
  <1>2. /\ UNCHANGED <<generation, openings, field, known, searching, matches, answeredIn>>
    BY DEF ExecuteLocal, ResolveRemoteAuthor, QueryLocal, QueryRemote, MergeRemote, overlayPart, store
  <1>3. /\ asking.text \in Texts /\ asking.profiles \in SUBSET People
        /\ asking.resolved \in SUBSET People /\ asking.local \in SUBSET (Notes \cup People)
    BY <1>1 DEF Tasks
  <1>4. TaskInv'
    <2> SUFFICES ASSUME asking' # NoTask PROVE TaskInv'
      BY DEF TaskInv, NoTask
    <2>1. /\ asking' \in Tasks /\ asking'.text = asking.text
          /\ asking'.generation = asking.generation /\ asking'.phase # "none"
          /\ \/ asking'.phase \notin {"remote", "verify"}
             \/ AnswerTo(asking'.text, asking'.local)
      <3>1. CASE ExecuteLocal
        BY <1>1, <3>1 DEF ExecuteLocal, Tasks
      <3>2. CASE ResolveRemoteAuthor
        <4>1. PICK r \in SUBSET People :
                asking' = [asking EXCEPT !.phase = "query", !.resolved = r]
          <5>1. Matching(asking.text, People) \subseteq People
            BY DEF Matching
          <5> QED
            BY <1>3, <3>2, <5>1 DEF ResolveRemoteAuthor
        <4> QED
          BY <1>1, <4>1 DEF Tasks
      <3>3. CASE QueryLocal
        <4> DEFINE results == LocalResults(asking.text, asking.profiles, asking.resolved)
        <4>1. asking' = [asking EXCEPT !.phase = "remote", !.local = results]
          BY <3>3 DEF QueryLocal
        <4>2. results \in SUBSET (Notes \cup People) /\ AnswerTo(asking.text, results)
          BY <1>3, LocalAnswers
        <4> HIDE DEF results
        <4> QED
          BY <1>1, <4>1, <4>2 DEF Tasks
      <3>4. CASE QueryRemote
        <4>1. asking' = [asking EXCEPT !.phase = "verify"] /\ asking.phase = "remote"
          BY <3>4 DEF QueryRemote
        <4>2. AnswerTo(asking.text, asking.local)
          BY <4>1 DEF SearchInv, TaskInv
        <4> QED
          BY <1>1, <4>1, <4>2 DEF Tasks
      <3>5. CASE MergeRemote
        BY <3>5 DEF MergeRemote
      <3> QED
        BY <3>1, <3>2, <3>3, <3>4, <3>5
    <2> QED
      BY <1>1, <1>2, <2>1 DEF SearchInv, TaskInv
  <1>5. CASE answers' = answers
    <2>1. WaitingInv' /\ ShownInv'
      BY <1>2, <1>5 DEF SearchInv, WaitingInv, ShownInv
    <2> QED
      BY <1>2, <1>4, <2>1 DEF SearchInv
  <1>6. ASSUME NEW results \in SUBSET (Notes \cup People), AnswerTo(asking.text, results),
               answers' = Answer(results)
        PROVE  SearchInv'
    <2>1. WaitingInv'
      BY <1>1, <1>2, <1>6, AnswerSent
    <2>2. ShownInv'
      BY <1>2 DEF SearchInv, ShownInv
    <2> QED
      BY <1>2, <1>4, <2>1, <2>2 DEF SearchInv
  <1>7. \/ answers' = answers
        \/ \E results \in SUBSET (Notes \cup People) :
             AnswerTo(asking.text, results) /\ answers' = Answer(results)
    <2>1. CASE ExecuteLocal
      BY <1>1, <1>3, <2>1, LocalAnswers DEF ExecuteLocal
    <2>2. CASE ResolveRemoteAuthor
      BY <1>1, <2>2 DEF ResolveRemoteAuthor
    <2>3. CASE QueryLocal
      BY <1>3, <2>3, LocalAnswers DEF QueryLocal
    <2>4. CASE QueryRemote
      <3>1. asking.phase = "remote"
        BY <2>4 DEF QueryRemote
      <3>2. AnswerTo(asking.text, asking.local)
        BY <3>1 DEF SearchInv, TaskInv
      <3> QED
        BY <1>3, <2>4, <3>2 DEF QueryRemote
    <2>5. CASE MergeRemote
      <3> DEFINE found == {n \in RemoteMessages : SearchResultForEvent(n)}
                 results == asking.local \cup (Hits[asking.text] \cap People) \cup found
      <3>1. answers' = Answer(results) /\ asking.phase = "verify"
        BY <2>5 DEF MergeRemote
      <3>2. AnswerTo(asking.text, asking.local)
        BY <3>1 DEF SearchInv, TaskInv
      <3>3. AnswerTo(asking.text, found)
        BY DEF AnswerTo, RemoteMessages, Matching
      <3>4. found \subseteq Notes
        BY DEF RemoteMessages
      <3>5. results \in SUBSET (Notes \cup People)
        BY <1>3, <3>4
      <3>6. AnswerTo(asking.text, results)
        BY <3>2, <3>3, SearchAssumption DEF AnswerTo
      <3> QED
        BY <3>1, <3>5, <3>6
    <2> QED
      BY <2>1, <2>2, <2>3, <2>4, <2>5
  <1> QED
    BY <1>5, <1>6, <1>7

LEMMA TaskStarts ==
    ASSUME SearchInv, NEW t \in Texts, NEW g \in Nat, SpawnSearch(t, g),
           t = field', g = generation'
    PROVE  TaskInv'
  <1>1. /\ asking' \in Tasks /\ asking'.text = t /\ asking'.generation = g
        /\ asking'.phase = "local"
    BY DEF SpawnSearch, Tasks, SearchInv
  <1> QED
    BY <1>1 DEF TaskInv

LEMMA FieldChanges ==
    ASSUME SearchInv, OpenSearch \/ Type \/ Debounced PROVE SearchInv'
  <1>1. CASE OpenSearch
    <2>1. /\ openings' = openings + 1 /\ answeredIn' = answeredIn /\ answers' = answers
          /\ field' = Empty /\ generation' = 1 /\ known' = known /\ SpawnSearch(Empty, 1)
      BY <1>1 DEF OpenSearch, store
    <2>2. TaskInv'
      BY <2>1, TaskStarts, SearchAssumption
    <2>3. WaitingInv'
      <3>1. \A i \in 1..Len(answers) : answers[i].opening <= openings /\ answers[i].opening # openings'
        BY <2>1, AnswersTyped DEF SearchInv, WaitingInv
      <3> QED
        BY <2>1, <3>1, AnswersTyped DEF SearchInv, WaitingInv
    <2>4. ShownInv'
      BY <2>1 DEF SearchInv, ShownInv
    <2> QED
      BY <2>1, <2>2, <2>3, <2>4, SearchAssumption DEF SearchInv
  <1>2. CASE Type
    <2>1. /\ openings' = openings /\ answeredIn' = answeredIn /\ answers' = answers
          /\ field' \in Texts /\ generation' = generation + 1 /\ known' = known
          /\ asking' = asking /\ searching' = TRUE
      BY <1>2 DEF Type, store
    <2>2. TaskInv'
      <3>1. asking.phase # "none" => asking.generation \in Nat
        BY DEF SearchInv, TaskInv, Tasks, NoTask
      <3> QED
        BY <2>1, <3>1 DEF SearchInv, TaskInv
    <2>3. WaitingInv'
      BY <2>1, AnswersTyped DEF SearchInv, WaitingInv
    <2>4. ShownInv'
      BY <2>1 DEF SearchInv, ShownInv
    <2> QED
      BY <2>1, <2>2, <2>3, <2>4 DEF SearchInv
  <1>3. CASE Debounced
    <2>1. /\ UNCHANGED <<openings, answeredIn, answers, field, generation, known, matches, searching>>
          /\ SpawnSearch(field, generation)
      BY <1>3 DEF Debounced, store
    <2>2. TaskInv'
      BY <2>1, TaskStarts DEF SearchInv
    <2>3. WaitingInv' /\ ShownInv'
      BY <2>1 DEF SearchInv, WaitingInv, ShownInv
    <2> QED
      BY <2>1, <2>2, <2>3 DEF SearchInv
  <1> QED
    BY <1>1, <1>2, <1>3

LEMMA AnswerTaken == ASSUME SearchInv, SearchLoaded PROVE SearchInv'
  <1> DEFINE a == Head(answers)
             Kinds == [generation : Nat, results : SUBSET (Notes \cup People), opening : Nat]
  <1>1. /\ answers # <<>> /\ answers' = Tail(answers)
        /\ UNCHANGED <<openings, field, generation, known, asking>>
        /\ \/ /\ a.generation = generation /\ matches' = a.results /\ searching' = FALSE
              /\ answeredIn' = a.opening
           \/ UNCHANGED <<matches, searching, answeredIn>>
    BY DEF SearchLoaded, Current, store
  <1>2. answers \in Seq(Kinds)
    BY DEF SearchInv, WaitingInv
  <1>3. /\ answers[1] = a /\ a \in Kinds /\ 1 \in 1..Len(answers)
        /\ answers' \in Seq(Kinds) /\ Len(answers') = Len(answers) - 1
        /\ \A i \in 1..Len(answers') : answers'[i] = answers[i + 1] /\ i + 1 \in 1..Len(answers)
    <2> HIDE DEF Kinds
    <2> QED
      BY <1>1, <1>2, FirstTaken
  <1> HIDE DEF a
  <1>4. /\ a.opening <= openings /\ a.opening \in Nat
        /\ a.opening = openings /\ a.generation = generation => AnswerTo(field, a.results)
    BY <1>3 DEF SearchInv, WaitingInv
  <1>5. WaitingInv'
    BY <1>1, <1>3 DEF SearchInv, WaitingInv
  <1>6. ShownInv'
    BY <1>1, <1>4 DEF SearchInv, ShownInv
  <1>7. TaskInv'
    BY <1>1 DEF SearchInv, TaskInv
  <1> QED
    BY <1>1, <1>5, <1>6, <1>7 DEF SearchInv

LEMMA SearchStep == ASSUME SearchInv, [SearchNext]_searchVars PROVE SearchInv'
  <1>1. CASE ExecuteLocal \/ ResolveRemoteAuthor \/ QueryLocal \/ QueryRemote \/ MergeRemote
    BY <1>1, TaskRuns
  <1>2. CASE OpenSearch \/ Type \/ Debounced
    BY <1>2, FieldChanges
  <1>3. CASE SearchLoaded
    BY <1>3, AnswerTaken
  <1>4. ASSUME UNCHANGED <<openings, field, generation, answers, matches, searching, answeredIn>>,
               known' \subseteq People, asking' = asking \/ asking' = NoTask
        PROVE  SearchInv'
    <2>1. TaskInv'
      BY <1>4 DEF SearchInv, TaskInv, NoTask
    <2>2. WaitingInv' /\ ShownInv'
      BY <1>4 DEF SearchInv, WaitingInv, ShownInv
    <2> QED
      BY <1>4, <2>1, <2>2 DEF SearchInv
  <1>5. CASE MoveBy \/ Escape \/ OpenSearchResult \/ DmAnswered \/ UNCHANGED searchVars
    BY <1>4, <1>5 DEF MoveBy, Escape, OpenSearchResult, DmAnswered, searchVars, store, SearchInv
  <1>6. CASE StoreChanges
    BY <1>4, <1>6 DEF StoreChanges, StoreSide, overlayPart, SearchInv
  <1> QED
    BY <1>1, <1>2, <1>3, <1>5, <1>6 DEF SearchNext

\* Of all the answers that come back while the text changes, the one presented
\* answers the text in the field, for every set of texts, names and people, as long
\* as it is of this opening of the overlay (app.rs, spawn_search and SearchLoaded;
\* service/search.rs).
THEOREM ResultsCorrect == SearchSpec => []ResultsAnswerField
  <1>1. SearchInit => SearchInv
    <2> SUFFICES ASSUME SearchInit PROVE SearchInv
      OBVIOUS
    <2>1. /\ generation = 0 /\ openings = 0 /\ field = Empty /\ known = {} /\ asking = NoTask
          /\ answers = <<>> /\ answeredIn = 0 /\ matches = {}
      BY DEF SearchInit
    <2>2. TaskInv
      BY <2>1 DEF TaskInv, NoTask
    <2>3. WaitingInv
      BY <2>1 DEF WaitingInv
    <2>4. ShownInv
      BY <2>1 DEF ShownInv, AnswerTo
    <2> QED
      BY <2>1, <2>2, <2>3, <2>4, SearchAssumption DEF SearchInv
  <1>2. SearchInv /\ [SearchNext]_searchVars => SearchInv'
    BY SearchStep
  <1>3. SearchInv => ResultsAnswerField
    BY DEF SearchInv, ShownInv, ResultsAnswerField, Answers, AnswerTo
  <1> QED
    BY <1>1, <1>2, <1>3, PTL DEF SearchSpec
\* A result is looked up once more before it is opened: what the context view is
\* sent to is stored and visible at that instant (app.rs, open_search_result).
THEOREM OpensCorrect == SearchSpec => OpensVisibleOnly
  <1>1. [SearchNext]_searchVars => [jumped' # jumped => jumped' \in indexed \ hidden]_searchVars
    <2> SUFFICES ASSUME SearchNext, jumped' # jumped PROVE jumped' \in indexed \ hidden
      OBVIOUS
    <2>1. CASE OpenSearchResult
      BY <2>1 DEF OpenSearchResult, StillOpen, SearchResultForEvent
    <2>2. UNCHANGED jumped \/ OpenSearchResult
      BY DEF SearchNext, OpenSearch, Type, MoveBy, Escape, Debounced, DmAnswered, SearchLoaded,
             ExecuteLocal, ResolveRemoteAuthor, QueryLocal, QueryRemote, MergeRemote, StoreChanges,
             overlayPart
    <2> QED
      BY <2>1, <2>2
  <1> QED
    BY <1>1, PTL DEF SearchSpec, OpensVisibleOnly

-----------------------------------------------------------------------------
(* The keys *)

Overlays == {"none", "help", "theme", "dm picker", "which-key", "confirmation"}
Questions == {"none", "quit", "delete"}
Tops == [route : {"workspace", "inbox"}, focus : {"timeline", "channels", "list"},
         overlay : Overlays, question : Questions, writing : BOOLEAN, back : BOOLEAN]

\* A surface that has the focus where its route has it.
FocusOwned(t) == t \in Tops /\ ((t.route = "inbox") = (t.focus = "list"))

KeysInv ==
    /\ Valid(keymap) /\ FocusOwned(top)
    /\ leader = NoTimer \/ leader \in Nat
    /\ SequenceExpires

LEMMA OpenedFocused ==
    ASSUME NEW t, FocusOwned(t)
    PROVE  /\ FocusOwned(Closed(t))
           /\ \A o \in Overlays : FocusOwned(Opened(t, o))
           /\ \A q \in Questions : FocusOwned(Asked(t, q))
           /\ \A w \in BOOLEAN : FocusOwned([t EXCEPT !.writing = w])
  <1>1. t \in Tops /\ ((t.route = "inbox") = (t.focus = "list"))
    BY DEF FocusOwned
  <1>2. FocusOwned(Closed(t))
    BY <1>1 DEF Closed, FocusOwned, Tops, Overlays, Questions
  <1>3. ASSUME NEW o \in Overlays PROVE FocusOwned(Opened(t, o))
    BY <1>1 DEF Opened, FocusOwned, Tops
  <1>4. ASSUME NEW q \in Questions PROVE FocusOwned(Asked(t, q))
    BY <1>1 DEF Asked, FocusOwned, Tops, Overlays
  <1>5. ASSUME NEW w \in BOOLEAN PROVE FocusOwned([t EXCEPT !.writing = w])
    BY <1>1 DEF FocusOwned, Tops
  <1> QED
    BY <1>2, <1>3, <1>4, <1>5

LEMMA MovedFocused ==
    ASSUME NEW t, FocusOwned(t)
    PROVE  /\ \A f \in {"timeline", "channels"} : FocusOwned(WorkspaceFocus(t, f))
           /\ t.route = "inbox" => FocusOwned([t EXCEPT !.route = "workspace", !.focus = "timeline"])
           /\ FocusOwned(EnterInbox(t))
           /\ FocusOwned(WithoutPopup(t))
  <1>1. t \in Tops /\ ((t.route = "inbox") = (t.focus = "list"))
    BY DEF FocusOwned
  <1>2. ASSUME NEW f \in {"timeline", "channels"} PROVE FocusOwned(WorkspaceFocus(t, f))
    BY <1>1 DEF WorkspaceFocus, FocusOwned, Tops
  <1>3. FocusOwned([t EXCEPT !.route = "workspace", !.focus = "timeline"])
    BY <1>1 DEF FocusOwned, Tops
  <1>4. FocusOwned(EnterInbox(t))
    <2>1. PICK c : c = Closed(t)
      OBVIOUS
    <2>2. c \in Tops
      BY <2>1, OpenedFocused DEF FocusOwned
    <2> QED
      BY <2>1, <2>2 DEF EnterInbox, FocusOwned, Tops
  <1>5. FocusOwned(WithoutPopup(t))
    BY OpenedFocused DEF WithoutPopup, Overlays
  <1> QED
    BY <1>2, <1>3, <1>4, <1>5

LEMMA BackFocused == ASSUME NEW t, FocusOwned(t) PROVE FocusOwned(Back(t))
  <1>1. t \in Tops
    BY DEF FocusOwned
  <1>2. CASE t.overlay # "none"
    BY <1>2, OpenedFocused DEF Back, Overlays
  <1>3. CASE t.overlay = "none" /\ t.writing
    BY <1>3, OpenedFocused DEF Back
  <1>4. CASE t.overlay = "none" /\ ~t.writing /\ t.route = "inbox"
    BY <1>4, MovedFocused DEF Back
  <1>5. CASE t.overlay = "none" /\ ~t.writing /\ t.route = "workspace" /\ t.back
    BY <1>5, MovedFocused DEF Back
  <1>6. CASE t.overlay = "none" /\ ~t.writing /\ t.route = "workspace" /\ ~t.back
    BY <1>6, OpenedFocused DEF Back, Questions
  <1> QED
    BY <1>1, <1>2, <1>3, <1>4, <1>5, <1>6 DEF Tops

LEMMA ReducedFocused == ASSUME NEW t, FocusOwned(t), NEW action PROVE FocusOwned(Reduced(t, action))
  <1> USE DEF Reduced
  <1>1. CASE action = "back"
    BY <1>1, BackFocused
  <1>2. CASE action = "help"
    BY <1>2, OpenedFocused DEF Overlays
  <1>3. CASE action = "compose"
    BY <1>3, OpenedFocused
  <1>4. CASE action = "inbox"
    BY <1>4, MovedFocused
  <1>5. CASE action = "options" \/ action = "dm"
    BY <1>5, OpenedFocused DEF Overlays
  <1>6. CASE action = "delete"
    BY <1>6, OpenedFocused DEF Questions
  <1>7. CASE action \notin {"back", "help", "compose", "inbox", "options", "dm", "delete"}
    BY <1>7
  <1> QED
    BY <1>1, <1>2, <1>3, <1>4, <1>5, <1>6, <1>7

LEMMA KeysAtFirst == KeysInit => KeysInv
  BY DEF KeysInit, KeysInv, FocusOwned, Tops, Overlays, Questions, SequenceExpires, NoTimer

\* What a key may do to the surface and to the unfinished sequence.
Keeps == FocusOwned(top)' /\ (leader = NoTimer \/ leader \in Nat)' /\ SequenceExpires'

LEMMA RouteKeyKeeps == ASSUME KeysInv, NEW k, RouteKey(k) PROVE Keeps
  <1> USE KeysAssumption DEF KeysInv, Keeps, SequenceExpires, NoTimer
  <1>1. PICK t : t = WithoutPopup(top)
    OBVIOUS
  <1>2. FocusOwned(t)
    BY <1>1, MovedFocused
  <1>3. ASSUME NEW s, NEW a, Runs(s, a, t) PROVE Keeps
    BY <1>2, <1>3, ReducedFocused DEF Runs
  <1>4. ASSUME NothingRuns(t), leader' = NoTimer PROVE Keeps
    BY <1>2, <1>4 DEF NothingRuns
  <1>5. ASSUME NothingRuns(OverlayKey(k)), leader' = leader PROVE Keeps
    BY <1>5, OpenedFocused DEF NothingRuns, OverlayKey
  <1>6. ASSUME leader' = Started, top' = Opened(top, "which-key") PROVE Keeps
    <2>1. FocusOwned(top')
      BY <1>6, OpenedFocused DEF Overlays
    <2>2. leader' \in Nat
      BY <1>6 DEF Started
    <2> QED
      BY <2>1, <2>2
  <1> QED
    BY <1>1, <1>3, <1>4, <1>5, <1>6 DEF RouteKey

LEMMA ComposerKeyKeeps == ASSUME KeysInv, NEW k, ComposerKey(k) PROVE Keeps
  <1>1. FocusOwned(top')
    BY OpenedFocused DEF ComposerKey, KeysInv
  <1>2. SequenceExpires'
    BY DEF ComposerKey, KeysInv, SequenceExpires
  <1> QED
    BY <1>1, <1>2 DEF Keeps, ComposerKey, KeysInv

LEMMA SurfaceKeyKeeps ==
    ASSUME KeysInv, NEW k, QuestionKey(k) \/ ThemeKey(k) \/ DmPickerKey(k)
    PROVE  Keeps
  <1> USE OpenedFocused DEF Keeps, KeysInv, SequenceExpires
  <1>1. CASE QuestionKey(k)
    BY <1>1 DEF QuestionKey
  <1>2. CASE ThemeKey(k)
    BY <1>2 DEF ThemeKey
  <1>3. CASE DmPickerKey(k)
    BY <1>3 DEF DmPickerKey
  <1> QED
    BY <1>1, <1>2, <1>3

LEMMA KeysStep == ASSUME KeysInv, [KeysNext]_keysVars PROVE KeysInv'
  <1> USE DEF KeysInv
  <1>1. keymap' = keymap /\ Valid(keymap)'
    BY DEF KeysNext, Press, ClickRow, ClickComposer, Draw, Tick, Relist, DmOpened, keysVars, Valid,
       Effective
  <1>2. ASSUME NEW k \in Chords, Press(k) PROVE Keeps
    BY <1>2, RouteKeyKeeps, ComposerKeyKeeps, SurfaceKeyKeeps DEF Press
  <1>3. ASSUME NEW i, ClickRow(i) PROVE Keeps
    BY <1>3, MovedFocused DEF ClickRow, Keeps, SequenceExpires
  <1>4. ASSUME ClickComposer PROVE Keeps
    BY <1>4, OpenedFocused DEF ClickComposer, Keeps, SequenceExpires
  <1>5. ASSUME UNCHANGED keyVars PROVE Keeps
    BY <1>5 DEF keyVars, Keeps, SequenceExpires
  <1>6. ASSUME Tick PROVE Keeps
    <2>1. FocusOwned(top')
      BY <1>6, MovedFocused DEF Tick
    <2>2. CASE leader = 0
      BY <1>6, <2>1, <2>2 DEF Tick, Keeps, SequenceExpires
    <2>3. CASE leader = NoTimer
      BY <1>6, <2>1, <2>3 DEF Tick, Keeps, SequenceExpires, NoTimer
    <2>4. CASE leader \in Nat \ {0}
      <3>1. leader' \in Nat
        BY <1>6, <2>4 DEF Tick, NoTimer
      <3>2. SequenceExpires'
        BY <3>1 DEF SequenceExpires, NoTimer
      <3> QED
        BY <2>1, <3>1, <3>2 DEF Keeps
    <2> QED
      BY <2>2, <2>3, <2>4
  <1>7. ASSUME NEW c, DmOpened(c) PROVE Keeps
    <2>1. FocusOwned(WorkspaceFocus(top, "timeline"))
      BY MovedFocused
    <2>2. FocusOwned(top')
      BY <1>7, <2>1, OpenedFocused DEF DmOpened
    <2> QED
      BY <1>7, <2>2 DEF DmOpened, Keeps, SequenceExpires
  <1> QED
    BY <1>1, <1>2, <1>3, <1>4, <1>5, <1>6, <1>7 DEF KeysNext, Draw, Relist, keysVars, Keeps

LEMMA TextStaysText == ASSUME KeysInv, KeysNext PROVE TextIsTyped
  <1> SUFFICES ASSUME NEW k \in Printable, top.writing, top.overlay = "none", pending = Idle, Press(k)
               PROVE  typed'
    BY DEF TextIsTyped
  <1>1. ComposerKey(k)
    BY DEF Press, RouteKey, QuestionKey, ThemeKey, DmPickerKey
  <1>2. Append(pending.keys, k) = <<k>>
    BY DEF Idle
  <1>3. \A b \in Effective(keymap, "composer") : ~IsPrefix(<<k>>, b.keys)
    <2> SUFFICES ASSUME NEW b \in Effective(keymap, "composer"), IsPrefix(<<k>>, b.keys) PROVE FALSE
      OBVIOUS
    <2>1. Len(b.keys) = 1 /\ b.keys[1] \notin Printable
      BY DEF KeysInv, Valid, Scopes, OwnsText, Printed
    <2>2. SubSeq(<<k>>, 1, 1) = SubSeq(b.keys, 1, 1)
      BY DEF IsPrefix
    <2>3. b.keys[1] = k
      BY <2>2
    <2> QED
      BY <2>1, <2>3
  <1>4. Lookup("composer", <<k>>) = "no match"
    BY <1>3 DEF Lookup
  <1> QED
    BY <1>1, <1>2, <1>4 DEF ComposerKey

\* Keys go where the user looks, a sequence left unfinished is always on its
\* way to expire, and text is text, whatever keymap.toml binds (app.rs,
\* resolve, leader_tick, set_workspace_focus; keymap.rs, validate).
THEOREM KeysCorrect == KeysSpec => KeysSound
  <1>1. KeysInv /\ [KeysNext]_keysVars => [RouteOwnsFocus' /\ SequenceExpires' /\ TextIsTyped]_keysVars
    BY KeysStep, TextStaysText DEF KeysInv, FocusOwned, RouteOwnsFocus
  <1>2. KeysInv /\ [KeysNext]_keysVars => KeysInv'
    BY KeysStep
  <1> QED
    BY <1>1, <1>2, KeysAtFirst, PTL DEF KeysSpec, KeysSound

-----------------------------------------------------------------------------
(* The timeline.  A page is a sequence of posts in their order; that it has *)
(* each of them is counted: no two have the same number of posts before.    *)

Before(S, p) == {q \in S : q < p}

LEMMA RankGrows ==
    ASSUME NEW S \in SUBSET Nat, IsFiniteSet(S), NEW p \in S, NEW q \in S, p < q
    PROVE  Cardinality(Before(S, p)) < Cardinality(Before(S, q))
  <1>1. IsFiniteSet(Before(S, q)) /\ Cardinality(Before(S, q)) \in Nat
    <2>1. Before(S, q) \in SUBSET S
      BY DEF Before
    <2> QED
      BY <2>1, FS_Subset, FS_CardinalityType
  <1>2. Before(S, p) \subseteq Before(S, q) /\ p \in Before(S, q) /\ p \notin Before(S, p)
    <2>1. ASSUME NEW x \in S, x < p PROVE x < q
      <3>1. x \in Nat /\ p \in Nat /\ q \in Nat
        OBVIOUS
      <3> QED
        BY <2>1, <3>1
    <2>2. ~(p < p)
      <3>1. p \in Nat
        OBVIOUS
      <3> QED
        BY <3>1
    <2> QED
      BY <2>1, <2>2 DEF Before
  <1>3. /\ Cardinality(Before(S, p)) <= Cardinality(Before(S, q))
        /\ Cardinality(Before(S, q)) # Cardinality(Before(S, p))
        /\ IsFiniteSet(Before(S, p))
    BY <1>1, <1>2, FS_Subset
  <1>4. Cardinality(Before(S, p)) \in Nat
    BY <1>3, FS_CardinalityType
  <1> QED
    BY <1>1, <1>3, <1>4

LEMMA RankIs ==
    ASSUME NEW S \in SUBSET Nat, IsFiniteSet(S), NEW p \in S
    PROVE  Cardinality(Before(S, p)) \in Nat /\ Cardinality(Before(S, p)) < Cardinality(S)
  <1>1. Before(S, p) \subseteq S /\ p \notin Before(S, p) /\ Cardinality(S) \in Nat
    BY FS_CardinalityType DEF Before
  <1>2. /\ Cardinality(Before(S, p)) <= Cardinality(S)
        /\ Cardinality(S) # Cardinality(Before(S, p))
        /\ IsFiniteSet(Before(S, p))
    BY <1>1, FS_Subset
  <1>3. Cardinality(Before(S, p)) \in Nat
    BY <1>2, FS_CardinalityType
  <1> QED
    BY <1>1, <1>2, <1>3

LEMMA EveryRank ==
    ASSUME NEW S \in SUBSET Nat, IsFiniteSet(S), NEW i \in 1..Cardinality(S)
    PROVE  \E p \in S : Cardinality(Before(S, p)) = i - 1
  <1> DEFINE rank == [p \in S |-> Cardinality(Before(S, p)) + 1]
             N == 1..Cardinality(S)
  <1>0. \A p \in S : Cardinality(Before(S, p)) \in Nat /\ Cardinality(Before(S, p)) < Cardinality(S)
    BY RankIs
  <1>1. rank \in [S -> N]
    BY <1>0, FS_CardinalityType
  <1>2. ASSUME NEW p \in S, NEW q \in S, rank[p] = rank[q] PROVE p = q
    <2>1. Cardinality(Before(S, p)) = Cardinality(Before(S, q))
      BY <1>0, <1>2
    <2>2. Cardinality(Before(S, p)) \in Nat /\ p \in Nat /\ q \in Nat
      BY <1>0
    <2>3. ~(p < q) /\ ~(q < p)
      BY <2>1, <2>2, RankGrows
    <2> QED
      BY <2>2, <2>3
  <1>3. rank \in Injection(S, N)
    BY <1>1, <1>2 DEF Injection, IsInjective
  <1>4. Cardinality(S) \in Nat /\ IsFiniteSet(N) /\ Cardinality(N) = Cardinality(S)
    BY FS_CardinalityType, FS_Interval
  <1>5. rank \in Surjection(S, N)
    BY <1>3, <1>4, FS_Injection
  <1>6. PICK p \in S : rank[p] = i
    BY <1>5 DEF Surjection
  <1>7. Cardinality(Before(S, p)) + 1 = i /\ Cardinality(Before(S, p)) \in Int
    BY <1>0, <1>6
  <1> QED
    BY <1>7

\* Sorting loses nothing and invents nothing.
LEMMA OrderedHasAll ==
    ASSUME NEW S \in SUBSET Nat, IsFiniteSet(S)
    PROVE  /\ Ordered(S) \in Seq(S) /\ ToSet(Ordered(S)) = S
           /\ Len(Ordered(S)) = Cardinality(S)
  <1> DEFINE N == Cardinality(S)
             Is(i, p) == Cardinality(Before(S, p)) = i - 1
  <1>1. N \in Nat /\ Ordered(S) = [i \in 1..N |-> CHOOSE p \in S : Is(i, p)]
    BY FS_CardinalityType DEF Ordered, Before
  <1>2. ASSUME NEW i \in 1..N PROVE Ordered(S)[i] \in S /\ Is(i, Ordered(S)[i])
    <2>1. \E p \in S : Is(i, p)
      BY EveryRank
    <2>2. Ordered(S)[i] = CHOOSE p \in S : Is(i, p)
      BY <1>1
    <2> QED
      BY <2>1, <2>2
  <1>3. Ordered(S) \in Seq(S) /\ Len(Ordered(S)) = N /\ DOMAIN Ordered(S) = 1..N
    BY <1>1, <1>2
  <1>4. ASSUME NEW p \in S PROVE p \in ToSet(Ordered(S))
    <2>0. Cardinality(Before(S, p)) \in Nat /\ Cardinality(Before(S, p)) < N
      BY RankIs
    <2>1. PICK i \in 1..N : i = Cardinality(Before(S, p)) + 1
      BY <1>1, <2>0
    <2>2. Is(i, p) /\ Is(i, Ordered(S)[i]) /\ Ordered(S)[i] \in S
      BY <1>2, <2>0, <2>1
    <2>3. PICK q \in S : q = Ordered(S)[i]
      BY <2>2
    <2>4. Cardinality(Before(S, q)) = Cardinality(Before(S, p)) /\ p \in Nat /\ q \in Nat
      BY <2>0, <2>1, <2>2, <2>3
    <2>5. ~(p < q) /\ ~(q < p)
      BY <2>0, <2>4, RankGrows
    <2>6. p = q
      BY <2>4, <2>5
    <2> QED
      BY <1>3, <2>3, <2>6 DEF ToSet
  <1>5. ToSet(Ordered(S)) \subseteq S
    BY <1>2, <1>3 DEF ToSet
  <1> QED
    BY <1>3, <1>4, <1>5

LEMMA LastThereIs ==
    ASSUME NEW S \in SUBSET Nat, IsFiniteSet(S), S # {}
    PROVE  \E p \in S : \A q \in S : ~(q > p)
  <1>1. Cardinality(S) \in Nat /\ Cardinality(S) # 0
    BY FS_CardinalityType, FS_EmptySet
  <1>2. PICK p \in S : Cardinality(Before(S, p)) = Cardinality(S) - 1
    <2>1. Cardinality(S) \in 1..Cardinality(S)
      BY <1>1
    <2> QED
      BY <2>1, EveryRank
  <1>3. ASSUME NEW q \in S, q > p PROVE FALSE
    <2>1. p < q
      BY <1>3
    <2>2. Cardinality(Before(S, p)) < Cardinality(Before(S, q))
      BY <2>1, RankGrows
    <2>3. Cardinality(Before(S, q)) \in Nat /\ Cardinality(Before(S, q)) < Cardinality(S)
      BY RankIs
    <2> QED
      BY <1>1, <1>2, <2>2, <2>3
  <1> QED
    BY <1>3

LEMMA NewestIs ==
    ASSUME NEW S \in SUBSET Nat, IsFiniteSet(S), NEW n \in Nat \ {0}
    PROVE  /\ Newest(S, n) \in Seq(S)
           /\ \A p \in S : (\A q \in S : ~(q > p)) => p \in ToSet(Newest(S, n))
           /\ S # {} => Newest(S, n) # <<>>
  <1> DEFINE T == {p \in S : Cardinality({q \in S : q > p}) < n}
  <1>1. T \in SUBSET S /\ T \in SUBSET Nat
    OBVIOUS
  <1>2. IsFiniteSet(T)
    BY <1>1, FS_Subset
  <1>3. Newest(S, n) = Ordered(T)
    BY DEF Newest
  <1>4. ASSUME NEW p \in S, \A q \in S : ~(q > p) PROVE p \in T
    <2>1. {q \in S : q > p} = {}
      BY <1>4
    <2> QED
      BY <2>1, FS_EmptySet
  <1> HIDE DEF T
  <1>5. /\ Ordered(T) \in Seq(T) /\ ToSet(Ordered(T)) = T
        /\ Len(Ordered(T)) = Cardinality(T)
    BY <1>1, <1>2, OrderedHasAll
  <1>6. Newest(S, n) \in Seq(S)
    BY <1>1, <1>3, <1>5, SeqMonotonic
  <1>7. ASSUME S # {} PROVE Newest(S, n) # <<>>
    <2>1. PICK p \in S : p \in T
      BY <1>4, <1>7, LastThereIs
    <2> QED
      BY <1>3, <1>5, <2>1 DEF ToSet
  <1> QED
    BY <1>3, <1>4, <1>5, <1>6, <1>7

LEMMA OldestIs ==
    ASSUME NEW S \in SUBSET Nat, IsFiniteSet(S), NEW n
    PROVE  Oldest(S, n) \in Seq(S)
  <1> DEFINE T == {p \in S : Cardinality({q \in S : q < p}) < n}
  <1>1. T \in SUBSET S /\ T \in SUBSET Nat
    OBVIOUS
  <1>2. IsFiniteSet(T)
    BY <1>1, FS_Subset
  <1>3. Oldest(S, n) = Ordered(T)
    BY DEF Oldest
  <1> HIDE DEF T
  <1>4. Ordered(T) \in Seq(T)
    BY <1>1, <1>2, OrderedHasAll
  <1> QED
    BY <1>1, <1>3, <1>4, SeqMonotonic

\* The page around an anchor has it: half a page ends with it.
LEMMA AroundHasAnchor ==
    ASSUME NEW S \in SUBSET Nat, IsFiniteSet(S), NEW anchor
    PROVE  /\ Around(S, anchor) \in Seq(S)
           /\ anchor \in S => anchor \in ToSet(Around(S, anchor))
  <1> DEFINE before == {p \in S : p <= anchor}
             first == Newest(before, PageSize \div 2)
             rest == Oldest(S \ before, PageSize - PageSize \div 2)
  <1>1. /\ before \in SUBSET S /\ before \in SUBSET Nat
        /\ S \ before \in SUBSET S /\ S \ before \in SUBSET Nat
    OBVIOUS
  <1>2. IsFiniteSet(before) /\ IsFiniteSet(S \ before)
    BY <1>1, FS_Subset
  <1>3. PageSize \div 2 \in Nat \ {0}
    BY WorkspaceAssumption
  <1>4. Around(S, anchor) = first \o rest
    BY DEF Around
  <1>5. ASSUME anchor \in S PROVE anchor \in before /\ \A q \in before : ~(q > anchor)
    BY <1>5
  <1> HIDE DEF before
  <1>6. /\ first \in Seq(before)
        /\ \A p \in before : (\A q \in before : ~(q > p)) => p \in ToSet(first)
    BY <1>1, <1>2, <1>3, NewestIs
  <1>7. rest \in Seq(S \ before)
    BY <1>1, <1>2, OldestIs
  <1> HIDE DEF first, rest
  <1>8. first \in Seq(S) /\ rest \in Seq(S)
    BY <1>1, <1>6, <1>7, SeqMonotonic
  <1>9. first \o rest \in Seq(S)
    BY <1>8
  <1>10. ToSet(first) \subseteq ToSet(first \o rest)
    BY <1>8 DEF ToSet
  <1> QED
    BY <1>4, <1>5, <1>6, <1>9, <1>10

LEMMA PageIs ==
    ASSUME written \subseteq Posts, IsFiniteSet(written), NEW r, NEW anchor
    PROVE  /\ Page(Newest(TopLevel(r), PageSize), TopLevel(r), r, anchor) \in Seq(TopLevel(r))
           /\ anchor \in TopLevel(r) =>
                anchor \in ToSet(Page(Newest(TopLevel(r), PageSize), TopLevel(r), r, anchor))
  <1> DEFINE T == TopLevel(r)
             latest == Newest(T, PageSize)
             page == Page(latest, T, r, anchor)
  <1>1. T \in SUBSET written /\ T \in SUBSET Nat /\ \A p \in T : RoomOf(p) = r /\ p # NoPost
    BY WorkspaceAssumption DEF TopLevel, NoPost
  <1>2. IsFiniteSet(T)
    BY <1>1, FS_Subset
  <1>3. {p \in T : RoomOf(p) = r} = T
    BY <1>1
  <1> HIDE DEF T
  <1>4. latest \in Seq(T)
    BY <1>1, <1>2, NewestIs, WorkspaceAssumption
  <1>5. Around(T, anchor) \in Seq(T) /\ (anchor \in T => anchor \in ToSet(Around(T, anchor)))
    BY <1>1, <1>2, AroundHasAnchor
  <1>6. <<>> \in Seq(T)
    OBVIOUS
  <1> HIDE DEF latest
  <1>7. page = latest \/ page = Around(T, anchor) \/ page = <<>>
    BY <1>3 DEF Page
  <1>8. page \in Seq(T)
    BY <1>4, <1>5, <1>6, <1>7
  <1>9. ASSUME anchor \in T PROVE anchor \in ToSet(page)
    <2>1. anchor # NoPost /\ anchor \in written /\ RoomOf(anchor) = r
      BY <1>1, <1>9
    <2> QED
      BY <1>3, <1>5, <1>9, <2>1 DEF Page
  <1> QED
    BY <1>8, <1>9 DEF T, latest

PaneFields == {"selected", "live"}
Typed(pane) == pane = [f \in PaneFields |-> pane[f]] /\ pane.live \in BOOLEAN

\* What hydrate_cache leaves: a page of its channel, and a selection that is in
\* the page, unless there is no channel left.
LEMMA HydrateKeeps ==
    ASSUME written \subseteq Posts, IsFiniteSet(written), joined \subseteq Rooms,
           NEW r, NEW t, NEW pane, NEW threadPane, Typed(pane),
           Hydrate(r, t, pane, threadPane)
    PROVE  /\ posts' \in Seq(Posts) /\ Typed(timeline') /\ root' = t
           /\ r \in joined => room' = r
           /\ room' = NoRoom => joined = {} /\ posts' = <<>>
           /\ room' # NoRoom =>
                /\ posts' = Page(Newest(TopLevel(room'), PageSize), TopLevel(room'), room', pane.selected)
                /\ posts' \in Seq(TopLevel(room'))
                /\ timeline'.selected = NoPost \/ timeline'.selected \in ToSet(posts')
                /\ ~pane.live /\ pane.selected \in TopLevel(room') =>
                     timeline'.selected = pane.selected /\ pane.selected \in ToSet(posts')
  <1>1. PICK next \in IF r \in joined THEN {r} ELSE IF joined = {} THEN {NoRoom} ELSE joined :
          /\ room' = next /\ root' = t
          /\ IF next = NoRoom
             THEN posts' = <<>> /\ timeline' = pane
             ELSE /\ posts' = Page(Newest(TopLevel(next), PageSize), TopLevel(next), next, pane.selected)
                  /\ timeline' = FocusReconciled(pane, posts')
    BY DEF Hydrate
  <1>2. /\ r \in joined => room' = r
        /\ next = NoRoom => joined = {}
    BY <1>1, WorkspaceAssumption
  <1>3. CASE next = NoRoom
    BY <1>1, <1>2, <1>3
  <1>4. CASE next # NoRoom
    <2>1. PICK s : s = posts'
      OBVIOUS
    <2>2. /\ s \in Seq(TopLevel(next))
          /\ pane.selected \in TopLevel(next) => pane.selected \in ToSet(s)
      BY <1>1, <1>4, <2>1, PageIs
    <2>3. TopLevel(next) \subseteq Posts
      BY DEF TopLevel
    <2>4. s \in Seq(Posts)
      BY <2>2, <2>3, SeqMonotonic
    <2>5. timeline' = FocusReconciled(pane, s)
      BY <1>1, <1>4, <2>1
    <2>6. Typed(FocusReconciled(pane, s))
      BY DEF Typed, FocusReconciled, PaneFields
    <2>7. FocusReconciled(pane, s).selected =
            IF pane.live \/ (pane.selected # NoPost /\ pane.selected \notin ToSet(s))
            THEN LastOf(s) ELSE pane.selected
      BY DEF Typed, FocusReconciled, PaneFields
    <2>8. LastOf(s) = NoPost \/ LastOf(s) \in ToSet(s)
      BY <2>2 DEF LastOf, Last, ToSet
    <2>9. ~pane.live /\ pane.selected \in ToSet(s) => FocusReconciled(pane, s).selected = pane.selected
      BY <2>7 DEF Typed
    <2> QED
      BY <1>1, <1>2, <1>4, <2>1, <2>2, <2>4, <2>5, <2>6, <2>7, <2>8, <2>9
  <1> QED
    BY <1>3, <1>4

-----------------------------------------------------------------------------
PresentationFields == {"route", "focus", "overlay", "target", "back"}

\* The selected message is loaded, also while another channel is selected in
\* the list and not yet opened; only without any channel it is a remainder.
SelectionLoaded ==
  \/ timeline.selected = NoPost \/ timeline.selected \in ToSet(posts)
  \/ room = NoRoom /\ joined = {}

WorkspaceInv ==
  /\ written \subseteq Posts /\ IsFiniteSet(written) /\ joined \subseteq Rooms
  /\ presentation = [f \in PresentationFields |-> presentation[f]]
  /\ posts \in Seq(Posts) /\ Typed(timeline)
  /\ marks \in [Rooms -> Nat]
  /\ SelectionLoaded /\ ActsOnVisible

\* A focus that is set stays off a thread that is not open.
LEMMA FocusSet ==
    ASSUME presentation = [f \in PresentationFields |-> presentation[f]],
           NEW f
    PROVE  /\ Focused(f) = [g \in PresentationFields |-> Focused(f)[g]]
           /\ Focused(f).route = presentation.route
           /\ Focused(f).focus = IF presentation.route = "workspace" THEN f ELSE presentation.focus
  BY DEF Focused, PresentationFields

LEMMA LaterIs == ASSUME NEW s \in Nat, NEW t \in Nat PROVE Later(s, t) \in Nat
  BY DEF Later

LEMMA ActivityIs ==
    ASSUME written \subseteq Posts, IsFiniteSet(written), NEW r
    PROVE  LatestActivity(r) \in Nat
  <1> DEFINE T == {p \in written : RoomOf(p) = r}
  <1>1. T \in SUBSET written /\ T \in SUBSET Nat
    BY WorkspaceAssumption
  <1>2. IsFiniteSet(T)
    BY <1>1, FS_Subset
  <1>3. LatestActivity(r) = LastOf(Ordered(T))
    BY DEF LatestActivity
  <1> HIDE DEF T
  <1>4. Ordered(T) \in Seq(T)
    BY <1>1, <1>2, OrderedHasAll
  <1>5. LastOf(Ordered(T)) \in T \cup {0}
    BY <1>4 DEF LastOf, Last, NoPost
  <1>6. T \cup {0} \subseteq Nat
    BY <1>1
  <1>7. LastOf(Ordered(T)) \in Nat
    BY <1>5, <1>6
  <1> QED
    BY <1>3, <1>7

\* What a handler marks read is what it shows.
MarksFollow ==
  \A r \in Rooms : marks'[r] > marks[r]
    => room' = r /\ posts' # <<>> /\ RoomOf(Last(posts')) = r

LEMMA MarkRoomKeeps ==
    ASSUME WorkspaceInv, written' = written,
           \/ marks' = marks
           \/ /\ marks' = [marks EXCEPT ![room'] = Later(@, LatestActivity(room'))]
              /\ posts' # <<>> /\ RoomOf(Last(posts')) = room'
    PROVE  marks' \in [Rooms -> Nat] /\ MarksFollow
  <1>1. CASE marks' = marks
    BY <1>1 DEF WorkspaceInv, MarksFollow
  <1>2. CASE /\ marks' = [marks EXCEPT ![room'] = Later(@, LatestActivity(room'))]
             /\ posts' # <<>> /\ RoomOf(Last(posts')) = room'
    <2>1. PICK n \in Nat : n = LatestActivity(room')
      BY ActivityIs DEF WorkspaceInv
    <2>2. marks' = [marks EXCEPT ![room'] = Later(@, n)]
      BY <1>2, <2>1
    <2>3. \A r \in Rooms : marks'[r] = IF r = room' THEN Later(marks[r], n) ELSE marks[r]
      BY <2>2 DEF WorkspaceInv
    <2>4. \A r \in Rooms : Later(marks[r], n) \in Nat
      BY LaterIs DEF WorkspaceInv
    <2>5. marks' \in [Rooms -> Nat]
      BY <2>2, <2>3, <2>4 DEF WorkspaceInv
    <2> QED
      BY <1>2, <2>3, <2>5 DEF WorkspaceInv, MarksFollow
  <1> QED
    BY <1>1, <1>2

LEMMA MarkCurrentReadKeeps ==
    ASSUME WorkspaceInv, written' = written, NEW f, MarkCurrentRead(f) \/ UNCHANGED marks
    PROVE  marks' \in [Rooms -> Nat] /\ MarksFollow
  BY MarkRoomKeeps DEF MarkCurrentRead, MarkRoom

\* Handlers that load nothing and mark nothing.
LEMMA KeepsLoaded ==
    ASSUME WorkspaceInv, UNCHANGED <<room, posts, timeline, joined, marks>>
    PROVE  /\ posts' \in Seq(Posts) /\ Typed(timeline') /\ SelectionLoaded'
           /\ marks' \in [Rooms -> Nat] /\ MarksFollow
  BY DEF WorkspaceInv, SelectionLoaded, Typed, MarksFollow

Shows ==
  /\ presentation' = [f \in PresentationFields |-> presentation'[f]]
  /\ ActsOnVisible'

LEMMA WorkspaceKeeps ==
    ASSUME WorkspaceInv, UNCHANGED <<written, joined>>, Shows,
           posts' \in Seq(Posts), Typed(timeline'), SelectionLoaded', marks' \in [Rooms -> Nat]
    PROVE  WorkspaceInv'
  BY DEF WorkspaceInv, Shows

LEMMA HydratedIsLoaded ==
    ASSUME WorkspaceInv, UNCHANGED <<written, joined>>, NEW r, NEW t, NEW pane, NEW threadPane,
           Typed(pane), Hydrate(r, t, pane, threadPane)
    PROVE  posts' \in Seq(Posts) /\ Typed(timeline') /\ SelectionLoaded'
  <1>1. /\ posts' \in Seq(Posts) /\ Typed(timeline')
        /\ room' = NoRoom => joined = {}
        /\ room' # NoRoom => timeline'.selected = NoPost \/ timeline'.selected \in ToSet(posts')
    BY HydrateKeeps DEF WorkspaceInv
  <1> QED
    BY <1>1 DEF SelectionLoaded

LEMMA TickKeeps ==
    ASSUME WorkspaceInv, WorkspaceTick
    PROVE  WorkspaceInv' /\ MarksFollow
  <1>1. /\ UNCHANGED <<written, joined, presentation>>
        /\ marks' \in [Rooms -> Nat] /\ MarksFollow
    BY MarkCurrentReadKeeps DEF WorkspaceTick
  <1>2. /\ posts' \in Seq(Posts) /\ Typed(timeline') /\ SelectionLoaded'
        /\ root' = root
    <2>1. CASE UNCHANGED onScreen
      BY <1>1, <2>1 DEF onScreen, WorkspaceInv, SelectionLoaded, Typed
    <2>2. CASE Hydrate(room, root, timeline, side)
      <3>1. Typed(timeline) /\ root' = root
        BY <2>2 DEF WorkspaceInv, Hydrate
      <3> QED
        BY <1>1, <2>2, <3>1, HydratedIsLoaded
    <2> QED
      BY <2>1, <2>2 DEF WorkspaceTick
  <1>3. Shows
    BY <1>1, <1>2 DEF Shows, WorkspaceInv, ActsOnVisible, FocusIs
  <1> QED
    BY <1>1, <1>2, <1>3, WorkspaceKeeps

LEMMA FreshTyped == Typed(Fresh)
  BY DEF Typed, Fresh, PaneFields

LEMMA LoadKeeps ==
    ASSUME WorkspaceInv, UNCHANGED <<written, joined>>, NEW r, NEW f, LoadSelectedChannel(r, f)
    PROVE  /\ posts' \in Seq(Posts) /\ Typed(timeline') /\ SelectionLoaded'
           /\ marks' \in [Rooms -> Nat] /\ MarksFollow
  <1>1. Hydrate(r, NoPost, Fresh, side) /\ (MarkCurrentRead(f) \/ UNCHANGED marks)
    BY DEF LoadSelectedChannel
  <1> QED
    BY <1>1, FreshTyped, HydratedIsLoaded, MarkCurrentReadKeeps

\* What the program does by itself: the results for direct messages.
LEMMA DmResultsKeep ==
    ASSUME WorkspaceInv, NEW r, ArriveInDm(r) \/ DmHidden(r)
    PROVE  WorkspaceInv' /\ MarksFollow
  <1> USE DEF FocusIs
  <1>1. CASE ArriveInDm(r)
    <2>1. /\ UNCHANGED <<written, joined>>
          /\ posts' \in Seq(Posts) /\ Typed(timeline') /\ SelectionLoaded'
          /\ marks' \in [Rooms -> Nat] /\ MarksFollow
      BY <1>1, LoadKeeps DEF ArriveInDm
    <2>2. presentation' = [Focused("timeline") EXCEPT !.overlay = "none"]
      BY <1>1 DEF ArriveInDm
    <2>3. Shows
      BY <2>2, FocusSet DEF Shows, ActsOnVisible, WorkspaceInv, PresentationFields
    <2> QED
      BY <2>1, <2>3, WorkspaceKeeps
  <1>2. CASE DmHidden(r)
    <2>1. /\ UNCHANGED <<written, joined, marks>> /\ root' = root
          /\ Hydrate(room, root, timeline, side)
      BY <1>2 DEF DmHidden, Hydrate
    <2>2. posts' \in Seq(Posts) /\ Typed(timeline') /\ SelectionLoaded'
      BY <2>1, HydratedIsLoaded DEF WorkspaceInv
    <2>3. marks' \in [Rooms -> Nat] /\ MarksFollow
      BY <2>1, MarkRoomKeeps
    <2>4. presentation' = Focused("rooms") \/ presentation' = presentation
      BY <1>2 DEF DmHidden
    <2>5. Shows
      BY <2>1, <2>4, FocusSet DEF Shows, ActsOnVisible, WorkspaceInv
    <2> QED
      BY <2>1, <2>2, <2>3, <2>5, WorkspaceKeeps
  <1> QED
    BY <1>1, <1>2

\* Handlers that change what is presented, and load nothing.
LEMMA FocusKeeps ==
    ASSUME WorkspaceInv, UNCHANGED <<written, joined, onScreen, marks>>,
           NEW f, NEW o, NEW g,
           \/ SetFocus(f) \/ AskFirst(o) \/ Act \/ EnterComposer \/ SwitchToInbox
    PROVE  WorkspaceInv' /\ MarksFollow
  <1> USE DEF FocusIs
  <1>1. /\ posts' \in Seq(Posts) /\ Typed(timeline') /\ SelectionLoaded'
        /\ marks' \in [Rooms -> Nat] /\ MarksFollow
    BY KeepsLoaded DEF onScreen
  <1>2. root' = root
    BY DEF onScreen
  <1>3. CASE SetFocus(f)
    BY <1>1, <1>2, <1>3, FocusSet, WorkspaceKeeps
       DEF SetFocus, InPanes, Shows, ActsOnVisible, WorkspaceInv
  <1>4. CASE AskFirst(o) \/ Act \/ EnterComposer
    <2>1. Shows
      BY <1>2, <1>4 DEF AskFirst, Act, EnterComposer, Shows, ActsOnVisible, WorkspaceInv,
                        PresentationFields
    <2> QED
      BY <1>1, <2>1, WorkspaceKeeps
  <1>5. CASE SwitchToInbox
    <2>1. Shows
      BY <1>2, <1>5 DEF SwitchToInbox, Shows, ActsOnVisible, WorkspaceInv, PresentationFields
    <2> QED
      BY <1>1, <2>1, WorkspaceKeeps
  <1> QED
    BY <1>3, <1>4, <1>5

LEMMA BackKeeps ==
    ASSUME WorkspaceInv, WorkspaceBack
    PROVE  WorkspaceInv' /\ MarksFollow
  <1> USE DEF FocusIs
  <1>1. /\ posts' \in Seq(Posts) /\ Typed(timeline') /\ SelectionLoaded'
        /\ marks' \in [Rooms -> Nat] /\ MarksFollow
    BY KeepsLoaded DEF WorkspaceBack, onScreen
  <1>2. UNCHANGED <<written, joined>>
    BY DEF WorkspaceBack
  <1>3. Shows
    <2>1. CASE /\ InPanes /\ ~presentation.back /\ root # NoPost
               /\ presentation' = Focused("timeline")
      BY <2>1, FocusSet DEF InPanes, Shows, ActsOnVisible, WorkspaceInv
    <2>2. CASE /\ root' = root
               /\ \/ presentation' = [presentation EXCEPT !.overlay = "none"]
                  \/ presentation' = [presentation EXCEPT !.target = NoTarget]
                  \/ presentation' = [presentation EXCEPT !.route = "workspace", !.focus = "timeline"]
                  \/ presentation' = [presentation EXCEPT !.route = "inbox", !.focus = "list",
                                                          !.back = FALSE]
      BY <2>2 DEF Shows, ActsOnVisible, WorkspaceInv, PresentationFields
    <2> QED
      BY <2>1, <2>2 DEF WorkspaceBack, onScreen
  <1> QED
    BY <1>1, <1>2, <1>3, WorkspaceKeeps

LEMMA SelectKeeps ==
    ASSUME WorkspaceInv, NEW p, NEW r, NEW b \in BOOLEAN, SelectPost(p) \/ SelectRoom(r) \/ Scroll(b)
    PROVE  WorkspaceInv' /\ MarksFollow
  <1> USE DEF FocusIs
  <1>1. /\ UNCHANGED <<written, joined, posts, root, marks>>
    BY DEF SelectPost, SelectRoom, Scroll
  <1>2. marks' \in [Rooms -> Nat] /\ MarksFollow /\ posts' \in Seq(Posts)
    BY <1>1, MarkRoomKeeps DEF WorkspaceInv
  <1>3. CASE SelectPost(p)
    <2>1. /\ Typed(Select(timeline, p, posts)) /\ Select(timeline, p, posts).selected = p
      BY DEF Select, Typed, PaneFields, WorkspaceInv
    <2>2. /\ room' = room
          /\ \/ timeline' = timeline
             \/ p \in ToSet(posts) /\ timeline' = Select(timeline, p, posts)
      BY <1>3 DEF SelectPost
    <2>3. Typed(timeline')
      BY <2>1, <2>2 DEF WorkspaceInv
    <2>4. SelectionLoaded'
      BY <1>1, <2>1, <2>2 DEF WorkspaceInv, SelectionLoaded
    <2>5. Shows
      BY <1>1, <1>3, FocusSet DEF SelectPost, InPanes, Shows, ActsOnVisible, WorkspaceInv
    <2> QED
      BY <1>1, <1>2, <2>3, <2>4, <2>5, WorkspaceKeeps
  <1>4. CASE SelectRoom(r)
    <2>1. Typed(timeline') /\ SelectionLoaded' /\ Shows
      BY <1>4 DEF SelectRoom, WorkspaceInv, SelectionLoaded, Shows, ActsOnVisible, Typed
    <2> QED
      BY <1>1, <1>2, <2>1, WorkspaceKeeps
  <1>5. CASE Scroll(b)
    <2>1. Typed([timeline EXCEPT !.live = b]) /\ [timeline EXCEPT !.live = b].selected = timeline.selected
      BY DEF Typed, PaneFields, WorkspaceInv
    <2>2. Typed(timeline') /\ SelectionLoaded' /\ Shows
      BY <1>5, <2>1 DEF Scroll, WorkspaceInv, SelectionLoaded, Shows, ActsOnVisible
    <2> QED
      BY <1>1, <1>2, <2>2, WorkspaceKeeps
  <1> QED
    BY <1>3, <1>4, <1>5

LEMMA OpenRoomKeeps ==
    ASSUME WorkspaceInv, NEW r, OpenRoom(r)
    PROVE  WorkspaceInv' /\ MarksFollow
  <1> USE DEF FocusIs
  <1>1. /\ UNCHANGED <<written, joined>>
        /\ posts' \in Seq(Posts) /\ Typed(timeline') /\ SelectionLoaded'
        /\ marks' \in [Rooms -> Nat] /\ MarksFollow
    BY LoadKeeps DEF OpenRoom
  <1>2. presentation.route = "workspace" /\ \E f \in {"rooms", "timeline"} : presentation' = Focused(f)
    BY DEF OpenRoom, InPanes
  <1>3. Shows
    BY <1>2, FocusSet DEF Shows, ActsOnVisible, WorkspaceInv
  <1> QED
    BY <1>1, <1>3, WorkspaceKeeps

LEMMA ToggleKeeps ==
    ASSUME WorkspaceInv, ToggleThread
    PROVE  WorkspaceInv' /\ MarksFollow
  <1> USE DEF FocusIs
  <1>1. UNCHANGED <<written, joined, marks>> /\ presentation.route = "workspace"
    BY DEF ToggleThread, InPanes
  <1>2. marks' \in [Rooms -> Nat] /\ MarksFollow
    BY <1>1, MarkRoomKeeps
  <1>3. CASE root # NoPost
    <2>1. posts' \in Seq(Posts) /\ Typed(timeline') /\ SelectionLoaded'
      BY <1>1, <1>3 DEF ToggleThread, WorkspaceInv, SelectionLoaded, Typed
    <2>2. Shows
      BY <1>1, <1>3, FocusSet DEF ToggleThread, Shows, ActsOnVisible, WorkspaceInv
    <2> QED
      BY <1>1, <1>2, <2>1, <2>2, WorkspaceKeeps
  <1>4. CASE root = NoPost
    <2>1. PICK t : /\ Hydrate(room, t, timeline, side) /\ t # NoPost
                   /\ presentation' = Focused("thread")
      BY <1>4 DEF ToggleThread
    <2>2. posts' \in Seq(Posts) /\ Typed(timeline') /\ SelectionLoaded'
      BY <1>1, <2>1, HydratedIsLoaded DEF WorkspaceInv
    <2>3. root' # NoPost
      BY <2>1 DEF Hydrate
    <2>4. Shows
      BY <1>1, <2>1, <2>3, FocusSet DEF Shows, ActsOnVisible, WorkspaceInv
    <2> QED
      BY <1>1, <1>2, <2>2, <2>4, WorkspaceKeeps
  <1> QED
    BY <1>3, <1>4

\* Opening the place of a message: its channel is loaded with it, or, for a
\* reply, with the newest page, before the channel is marked.
LEMMA OpenContextKeeps ==
    ASSUME WorkspaceInv, NEW p \in Posts, OpenContext(p)
    PROVE  WorkspaceInv' /\ MarksFollow
  <1> USE DEF FocusIs
  <1> DEFINE t == ThreadOf(p)
             r == RoomOf(p)
             latest == Newest(TopLevel(r), PageSize)
             pane == IF t = NoPost THEN [Fresh EXCEPT !.selected = p, !.live = FALSE]
                     ELSE [Fresh EXCEPT !.selected = LastOf(latest)]
             other == IF t = NoPost THEN side ELSE [side EXCEPT !.selected = p, !.live = FALSE]
  <1>1. /\ UNCHANGED <<written, joined>> /\ p \in written /\ r \in joined
        /\ Hydrate(r, t, pane, other)
    BY DEF OpenContext
  <1>2. Typed(pane) /\ pane.selected = IF t = NoPost THEN p ELSE LastOf(latest)
    BY DEF Typed, Fresh, PaneFields
  <1>3. written \subseteq Posts /\ IsFiniteSet(written) /\ r \in Rooms /\ r # NoRoom
    BY WorkspaceAssumption DEF WorkspaceInv
  <1>4. /\ marks' = marks
        \/ (TopLevel(r) # {} /\ marks' = [marks EXCEPT ![r] = Later(@, LatestActivity(r))])
    BY DEF OpenContext
  <1>5. /\ presentation' = [presentation EXCEPT
             !.route = "workspace", !.focus = IF t = NoPost THEN "timeline" ELSE "thread",
             !.back = IF presentation.route = "inbox" THEN TRUE ELSE @]
    BY DEF OpenContext
  <1> HIDE DEF pane, other
  <1>6. posts' \in Seq(Posts) /\ Typed(timeline') /\ SelectionLoaded'
    BY <1>1, <1>2, HydratedIsLoaded
  <1>7. /\ root' = t /\ room' = r
        /\ posts' = Page(latest, TopLevel(r), r, pane.selected)
        /\ posts' \in Seq(TopLevel(r))
    BY <1>1, <1>2, <1>3, HydrateKeeps DEF WorkspaceInv
  <1>8. Shows
    BY <1>5, <1>7 DEF Shows, ActsOnVisible, WorkspaceInv, PresentationFields
  <1>9. ASSUME TopLevel(r) # {} PROVE posts' # <<>>
    <2>1. CASE t = NoPost
      <3>1. p \in TopLevel(r)
        BY <1>1, <2>1 DEF TopLevel
      <3>2. p \in ToSet(posts')
        BY <1>2, <1>3, <1>7, <2>1, <3>1, PageIs
      <3> QED
        BY <3>2 DEF ToSet
    <2>2. CASE t # NoPost
      <3>1. TopLevel(r) \in SUBSET Nat /\ TopLevel(r) \in SUBSET written
        BY <1>3, WorkspaceAssumption DEF TopLevel
      <3>2. IsFiniteSet(TopLevel(r))
        BY <1>3, <3>1, FS_Subset
      <3>3. latest \in Seq(TopLevel(r)) /\ latest # <<>>
        BY <1>9, <3>1, <3>2, NewestIs, WorkspaceAssumption
      <3>4. PICK s \in Seq(TopLevel(r)) : s = latest /\ s # <<>>
        BY <3>3
      <3>5. LastOf(s) \in ToSet(s)
        BY <3>4 DEF LastOf, Last, ToSet
      <3>6. pane.selected \in ToSet(latest)
        BY <1>2, <2>2, <3>4, <3>5
      <3>7. posts' = latest
        BY <1>7, <3>6 DEF Page
      <3> QED
        BY <3>3, <3>7
    <2> QED
      BY <2>1, <2>2
  <1>10. ASSUME TopLevel(r) # {} PROVE RoomOf(Last(posts')) = r
    <2>1. PICK s \in Seq(TopLevel(r)) : s = posts' /\ s # <<>>
      BY <1>7, <1>9, <1>10
    <2>2. Last(s) \in TopLevel(r)
      BY <2>1 DEF Last
    <2> QED
      BY <2>1, <2>2 DEF TopLevel
  <1>11. marks' \in [Rooms -> Nat] /\ MarksFollow
    <2>1. CASE marks' = marks
      BY <1>1, <2>1, MarkRoomKeeps
    <2>2. CASE TopLevel(r) # {} /\ marks' = [marks EXCEPT ![r] = Later(@, LatestActivity(r))]
      <3>1. LatestActivity(room') = LatestActivity(r)
        BY <1>7
      <3>2. marks' = [marks EXCEPT ![room'] = Later(@, LatestActivity(room'))]
        BY <1>7, <2>2, <3>1
      <3>3. posts' # <<>> /\ RoomOf(Last(posts')) = room'
        BY <1>7, <1>9, <1>10, <2>2
      <3> QED
        BY <1>1, <3>2, <3>3, MarkRoomKeeps
    <2> QED
      BY <1>4, <2>1, <2>2
  <1> QED
    BY <1>1, <1>6, <1>8, <1>11, WorkspaceKeeps

LEMMA WorldKeeps ==
    ASSUME WorkspaceInv, NEW p, NEW r, (p \in Posts /\ Arrive(p)) \/ LoseMembership(r)
    PROVE  WorkspaceInv' /\ MarksFollow
  <1>1. UNCHANGED <<room, posts, timeline, root, presentation, marks>>
    BY DEF Arrive, LoseMembership, onScreen
  <1>2. MarksFollow
    BY <1>1 DEF WorkspaceInv, MarksFollow
  <1>3. written' \subseteq Posts /\ IsFiniteSet(written') /\ joined' \subseteq joined
    BY FS_AddElement DEF Arrive, LoseMembership, WorkspaceInv
  <1>4. SelectionLoaded' /\ ActsOnVisible' /\ Typed(timeline')
    BY <1>1, <1>3 DEF WorkspaceInv, SelectionLoaded, ActsOnVisible, FocusIs, Typed
  <1> QED
    BY <1>1, <1>2, <1>3, <1>4 DEF WorkspaceInv

LEMMA WorkspaceStep ==
    ASSUME WorkspaceInv, WorkspaceNext
    PROVE  WorkspaceInv' /\ MarksFollow
  <1>1. CASE UserStep
    <2>1. ASSUME NEW f, SetFocus(f) PROVE WorkspaceInv' /\ MarksFollow
      BY <2>1, FocusKeeps DEF SetFocus
    <2>2. ASSUME NEW o, AskFirst(o) PROVE WorkspaceInv' /\ MarksFollow
      BY <2>2, FocusKeeps DEF AskFirst
    <2>3. CASE Act \/ EnterComposer \/ SwitchToInbox
      BY <2>3, FocusKeeps DEF Act, EnterComposer, SwitchToInbox
    <2>4. ASSUME NEW r, SelectRoom(r) \/ OpenRoom(r) PROVE WorkspaceInv' /\ MarksFollow
      BY <2>4, SelectKeeps, OpenRoomKeeps
    <2>5. ASSUME NEW p \in Posts, SelectPost(p) \/ OpenContext(p) PROVE WorkspaceInv' /\ MarksFollow
      BY <2>5, SelectKeeps, OpenContextKeeps
    <2>6. ASSUME NEW b \in BOOLEAN, Scroll(b) PROVE WorkspaceInv' /\ MarksFollow
      BY <2>6, SelectKeeps
    <2>7. CASE ToggleThread \/ WorkspaceBack
      BY <2>7, ToggleKeeps, BackKeeps
    <2> QED
      BY <1>1, <2>1, <2>2, <2>3, <2>4, <2>5, <2>6, <2>7 DEF UserStep
  <1>2. CASE ProgramStep
    BY <1>2, TickKeeps, DmResultsKeep DEF ProgramStep
  <1>3. ASSUME NEW p, NEW r, (p \in Posts /\ Arrive(p)) \/ LoseMembership(r)
        PROVE  WorkspaceInv' /\ MarksFollow
    BY <1>3, WorldKeeps
  <1> QED
    BY <1>1, <1>2, <1>3 DEF WorkspaceNext

LEMMA WorkspaceAtFirst == WorkspaceInit => WorkspaceInv
  BY WorkspaceAssumption
     DEF WorkspaceInit, WorkspaceInv, SelectionLoaded, ActsOnVisible, Typed, Fresh, PaneFields,
         PresentationFields, FocusIs, NoPost

\* A tick keeps the message of a reader who left the live edge, and keeps it
\* loaded: the page around it has it, whatever has arrived meanwhile.
LEMMA TickFollows ==
    ASSUME WorkspaceInv, WorkspaceTick, ~timeline.live, timeline.selected \in TopLevel(room),
           room' = room
    PROVE  timeline'.selected = timeline.selected /\ timeline.selected \in ToSet(posts')
  <1>1. room \in Rooms /\ room # NoRoom /\ timeline.selected # NoPost
    BY WorkspaceAssumption DEF TopLevel, WorkspaceInv, NoPost
  <1>2. CASE UNCHANGED onScreen
    BY <1>1, <1>2 DEF onScreen, WorkspaceInv, SelectionLoaded
  <1>3. CASE Hydrate(room, root, timeline, side)
    <2>1. PICK pane : pane = timeline
      OBVIOUS
    <2>2. Typed(pane) /\ Hydrate(room, root, pane, side) /\ ~pane.live /\ pane.selected \in TopLevel(room')
      BY <1>3, <2>1 DEF WorkspaceInv, TopLevel, WorkspaceTick
    <2>3. timeline'.selected = pane.selected /\ pane.selected \in ToSet(posts')
      BY <1>1, <2>2, HydrateKeeps DEF WorkspaceInv
    <2> QED
      BY <2>1, <2>3
  <1> QED
    BY <1>2, <1>3 DEF WorkspaceTick

LEMMA WorkspaceInvariant == WorkspaceSpec => []WorkspaceInv
  <1>1. WorkspaceInv /\ [WorkspaceNext]_workspaceVars => WorkspaceInv'
    <2>1. CASE UNCHANGED workspaceVars
      BY <2>1 DEF workspaceVars, onScreen, WorkspaceInv, SelectionLoaded, ActsOnVisible, FocusIs, Typed
    <2> QED
      BY <2>1, WorkspaceStep
  <1> QED
    BY <1>1, WorkspaceAtFirst, PTL DEF WorkspaceSpec

\* The keys never act on a message of a thread that is not open, whichever
\* handler closed it (app.rs, set_workspace_focus, load_selected_channel).
THEOREM ActsOnVisibleCorrect == WorkspaceSpec => []ActsOnVisible
  <1>1. WorkspaceInv => ActsOnVisible
    BY DEF WorkspaceInv
  <1> QED
    BY <1>1, WorkspaceInvariant, PTL

\* The panes follow the reader: whatever arrives, however many posts and
\* channels there are and however long a page, the selected message stays
\* selected and loaded, and only what is shown is marked read (app.rs,
\* hydrate_cache, timeline_read_mark, open_channel_context).
THEOREM ReaderIsFollowedCorrect == WorkspaceSpec => ReaderIsFollowed
  <1>1. WorkspaceInv /\ [WorkspaceNext]_workspaceVars =>
          [/\ ~timeline.live /\ timeline.selected \in TopLevel(room) /\ room' = room /\ WorkspaceTick
              => timeline'.selected = timeline.selected /\ timeline.selected \in ToSet(posts')]_workspaceVars
    BY TickFollows
  <1>2. WorkspaceInv /\ [WorkspaceNext]_workspaceVars =>
          [\A r \in Rooms : marks'[r] > marks[r]
             => room' = r /\ posts' # <<>> /\ RoomOf(Last(posts')) = r]_workspaceVars
    BY WorkspaceStep DEF MarksFollow
  <1> QED
    BY <1>1, <1>2, WorkspaceInvariant, PTL
       DEF WorkspaceSpec, ReaderIsFollowed, DetachedStays, MarksItsChannel

-----------------------------------------------------------------------------
(* The attachments of a composer *)

Entry == [id : AttachmentIds, state : {"pending", "uploaded", "failed"}]
Worker == [kind : {"stage", "upload"}, stage : {"running", "ok", "failed"},
           id : AttachmentIds, target : Targets]

AttachmentsTypeOK ==
    /\ target \in Targets \cup {NoConversation}
    /\ drafted \in Seq(Entry)
    /\ draftRows \in [Conversations -> Seq(Entry)]
    /\ stagingMedia \subseteq AttachmentIds
    /\ stagingList \in Seq(AttachmentIds)
    /\ uploadingMedia \subseteq AttachmentIds
    /\ picking \subseteq Targets
    /\ workers \subseteq Worker
    /\ lastId \in Nat
    /\ home \in [AttachmentIds -> Conversations \cup {"none"}]

\* What is staged, in whatever form: it is not in a draft yet.
InStaging ==
    stagingMedia \cup Range(stagingList) \cup {w.id : w \in {v \in workers : v.kind = "stage"}}
Outside == gone \cup InStaging

\* A list fits a conversation: no more than a message can hold, no two of one
\* identifier, all at home there, and none of them outside.
Fits(list, c, h, out) ==
    /\ Len(list) <= Limit
    /\ \A i, j \in DOMAIN list : list[i].id = list[j].id => i = j
    /\ \A i \in DOMAIN list : h[list[i].id] = c /\ list[i].id \notin out

DraftsInv ==
    /\ \A c \in Conversations : Fits(draftRows[c], c, home, Outside)
    /\ target # NoConversation => Fits(drafted, target.conversation, home, Outside)

StagingInv ==
    /\ \A i, j \in DOMAIN stagingList : stagingList[i] = stagingList[j] => i = j
    /\ stagingMedia \cap gone = {}
    /\ \A v, w \in workers :
         v.kind = "stage" /\ w.kind = "stage" /\ v.id = w.id => v = w
    /\ \A w \in workers : home[w.id] = w.target.conversation

\* Identifiers are drawn in order.
DrawnInv ==
    \A i \in AttachmentIds : i > lastId => home[i] = "none" /\ i \notin Outside

UploadInv ==
    /\ \A i \in uploadingMedia : \E w \in workers : w.kind = "upload" /\ w.id = i
    /\ UploadUnderWay

AttachmentsInv == AttachmentsTypeOK /\ DraftsInv /\ StagingInv /\ DrawnInv /\ UploadInv

LEMMA IdsAreNumbers ==
    /\ AttachmentIds \subseteq Nat \ {0}
    /\ Cardinality(AttachmentIds) \in Nat
    /\ \A i \in Nat : i # 0 /\ i <= Cardinality(AttachmentIds) => i \in AttachmentIds
    /\ NoConversation \notin Targets
    /\ \A t \in Targets : t.conversation \in Conversations
    /\ "none" \notin Conversations
  <1>1. Cardinality(AttachmentIds) \in Nat
    BY AttachmentsAssumption, FS_CardinalityType
  <1> DEFINE n == Cardinality(AttachmentIds)
  <1>2. n \in Nat /\ AttachmentIds = 1..n
    BY <1>1, AttachmentsAssumption
  <1> HIDE DEF n
  <1>3. AttachmentIds \subseteq Nat \ {0} /\ \A i \in Nat : i # 0 /\ i <= n => i \in AttachmentIds
    BY <1>2
  <1>4. \A t \in Targets : t.conversation \in Conversations
    BY DEF Targets
  <1>5. NoConversation \notin Targets
    <2>1. NoConversation.conversation = "none"
      BY DEF NoConversation
    <2> QED
      BY <2>1, <1>4, AttachmentsAssumption
  <1> QED
    BY <1>1, <1>3, <1>4, <1>5, AttachmentsAssumption DEF n

\* Nothing is in a draft that does not fit it.
LEMMA AtHome ==
    ASSUME AttachmentsInv
    PROVE  /\ \A c \in Conversations : \A i \in DOMAIN draftRows[c] :
                /\ draftRows[c][i] \in Entry /\ home[draftRows[c][i].id] = c
                /\ draftRows[c][i].id \notin Outside /\ draftRows[c][i].id \in AttachmentIds
           /\ target # NoConversation =>
                /\ target \in Targets /\ target.conversation \in Conversations
                /\ \A i \in DOMAIN drafted :
                     /\ drafted[i] \in Entry /\ home[drafted[i].id] = target.conversation
                     /\ drafted[i].id \notin Outside /\ drafted[i].id \in AttachmentIds
           /\ \A w \in workers : w \in Worker /\ w.id \in AttachmentIds /\ w.target \in Targets
           /\ "none" \notin Conversations
  <1>1. \A c \in Conversations : draftRows[c] \in Seq(Entry)
    BY DEF AttachmentsInv, AttachmentsTypeOK
  <1>2. \A c \in Conversations : \A i \in DOMAIN draftRows[c] : draftRows[c][i] \in Entry
    BY <1>1
  <1>3. \A i \in DOMAIN drafted : drafted[i] \in Entry
    BY DEF AttachmentsInv, AttachmentsTypeOK
  <1>4. \A e \in Entry : e.id \in AttachmentIds
    BY DEF Entry
  <1>5. target # NoConversation => target \in Targets
    BY DEF AttachmentsInv, AttachmentsTypeOK
  <1>6. target # NoConversation => target.conversation \in Conversations
    BY <1>5, IdsAreNumbers
  <1>7. \A w \in workers : w \in Worker
    BY DEF AttachmentsInv, AttachmentsTypeOK
  <1>8. \A w \in Worker : w.id \in AttachmentIds /\ w.target \in Targets
    BY DEF Worker
  <1>9. \A c \in Conversations : \A i \in DOMAIN draftRows[c] :
          home[draftRows[c][i].id] = c /\ draftRows[c][i].id \notin Outside
    BY DEF AttachmentsInv, DraftsInv, Fits
  <1>10. target # NoConversation =>
           \A i \in DOMAIN drafted : home[drafted[i].id] = target.conversation
                                     /\ drafted[i].id \notin Outside
    BY DEF AttachmentsInv, DraftsInv, Fits
  <1> QED
    BY <1>2, <1>3, <1>4, <1>5, <1>6, <1>7, <1>8, <1>9, <1>10, AttachmentsAssumption

\* Fewer things outside, and the drafts where they were.
LEMMA DraftsKept ==
    ASSUME AttachmentsInv, drafted' = drafted, draftRows' = draftRows, home' = home,
           target' \in {target, NoConversation}, Outside' \subseteq Outside
    PROVE  DraftsInv'
  <1>1. \A c \in Conversations : Fits(draftRows[c], c, home, Outside)'
    BY DEF AttachmentsInv, DraftsInv, Fits
  <1>2. (target # NoConversation => Fits(drafted, target.conversation, home, Outside))'
    BY DEF AttachmentsInv, DraftsInv, Fits
  <1> QED
    BY <1>1, <1>2 DEF DraftsInv

LEMMA DrawnKept ==
    ASSUME AttachmentsInv, home' = home, lastId' = lastId,
           \A i \in Outside' : i \in Outside \/ (i \in AttachmentIds /\ home[i] \in Conversations)
    PROVE  DrawnInv'
  BY AttachmentsAssumption DEF AttachmentsInv, DrawnInv

LEMMA UploadKept ==
    ASSUME AttachmentsInv, uploadingMedia' \subseteq uploadingMedia,
           \A w \in workers : w.kind = "upload" =>
              \E v \in workers' : v.kind = "upload" /\ v.id = w.id,
           missed \subseteq missed',
           target' # NoConversation =>
              /\ target # NoConversation
              /\ \A i \in DOMAIN drafted' : drafted'[i].state = "pending" =>
                   \E j \in DOMAIN drafted : drafted[j] = drafted'[i]
    PROVE  UploadInv'
  <1>1. (\A i \in uploadingMedia : \E w \in workers : w.kind = "upload" /\ w.id = i)'
    BY DEF AttachmentsInv, UploadInv
  <1>2. ASSUME target' # NoConversation, NEW i \in DOMAIN drafted', drafted'[i].state = "pending"
        PROVE  \/ drafted'[i].id \in missed'
               \/ \E w \in workers' : w.kind = "upload" /\ w.id = drafted'[i].id
    <2>1. PICK j \in DOMAIN drafted : drafted[j] = drafted'[i]
      BY <1>2
    <2>2. \/ drafted[j].id \in missed
          \/ \E w \in workers : w.kind = "upload" /\ w.id = drafted[j].id
      BY <1>2, <2>1 DEF AttachmentsInv, UploadInv, UploadUnderWay
    <2> QED
      BY <2>1, <2>2
  <1> QED
    BY <1>1, <1>2 DEF UploadInv, UploadUnderWay

LEMMA AttachmentsInitInv == AttachmentsInit => AttachmentsInv
  <1> SUFFICES ASSUME AttachmentsInit
               PROVE  AttachmentsInv
    OBVIOUS
  <1> USE DEF AttachmentsInit
  <1>1. AttachmentsTypeOK
    BY DEF AttachmentsTypeOK
  <1>2. InStaging = {} /\ Outside = {}
    BY DEF InStaging, Outside, Range
  <1>3. DraftsInv
    BY AttachmentsAssumption DEF DraftsInv, Fits
  <1>4. StagingInv
    BY DEF StagingInv
  <1>5. DrawnInv
    BY <1>2 DEF DrawnInv
  <1>6. UploadInv
    BY DEF UploadInv, UploadUnderWay
  <1> QED
    BY <1>1, <1>3, <1>4, <1>5, <1>6 DEF AttachmentsInv

\* Uploads that begin: their identifiers are at home where they are sent from.
LEMMA UploadStarts ==
    ASSUME AttachmentsInv, NEW t \in Targets, NEW awaiting \in SUBSET AttachmentIds,
           NEW others \in SUBSET workers, Upload(t, awaiting, others),
           \A i \in awaiting : home[i] = t.conversation,
           \A w \in workers : w.kind = "upload" => w \in others,
           home' = home
    PROVE  /\ workers' \subseteq Worker /\ uploadingMedia' \subseteq AttachmentIds
           /\ \A w \in workers' : w.kind = "stage" => w \in others
           /\ \A w \in workers' : home'[w.id] = w.target.conversation
           /\ \A w \in others : w \in workers'
           /\ \A i \in uploadingMedia' : \E w \in workers' : w.kind = "upload" /\ w.id = i
           /\ awaiting \subseteq uploadingMedia'
  <1>1. ASSUME NEW w \in Uploads(t, awaiting)
        PROVE  /\ w \in Worker /\ w.kind = "upload" /\ w.id \in awaiting
               /\ home[w.id] = w.target.conversation
    <2>1. PICK i \in awaiting :
            w = [kind |-> "upload", stage |-> "running", id |-> i, target |-> t]
      BY DEF Uploads
    <2>2. w.kind = "upload" /\ w.id = i /\ w.target = t
      BY <2>1
    <2>3. w \in Worker
      BY <2>1 DEF Worker
    <2> QED
      BY <2>2, <2>3
  <1>2. workers' = others \cup Uploads(t, awaiting)
    BY DEF Upload
  <1>3. workers \subseteq Worker /\ uploadingMedia \subseteq AttachmentIds
    BY DEF AttachmentsInv, AttachmentsTypeOK
  <1>4. \A w \in workers : home[w.id] = w.target.conversation
    BY DEF AttachmentsInv, StagingInv
  <1>5. workers' \subseteq Worker /\ \A w \in workers' : home'[w.id] = w.target.conversation
    BY <1>1, <1>2, <1>3, <1>4
  <1>6. \A w \in workers' : w.kind = "stage" => w \in others
    BY <1>1, <1>2
  <1>7. uploadingMedia' = uploadingMedia \cup awaiting
    BY DEF Upload
  <1>8. ASSUME NEW i \in uploadingMedia'
        PROVE  \E w \in workers' : w.kind = "upload" /\ w.id = i
    <2>1. CASE i \in uploadingMedia
      BY <1>2, <2>1 DEF AttachmentsInv, UploadInv
    <2>2. CASE i \notin uploadingMedia
      <3> DEFINE w == [kind |-> "upload", stage |-> "running", id |-> i, target |-> t]
      <3>1. w \in Uploads(t, awaiting)
        BY <1>7, <2>2 DEF Uploads
      <3>2. w.kind = "upload" /\ w.id = i
        OBVIOUS
      <3> QED
        BY <1>2, <3>1, <3>2
    <2> QED
      BY <2>1, <2>2
  <1> QED
    BY <1>2, <1>3, <1>5, <1>6, <1>7, <1>8

LEMMA OpenComposerStep ==
    ASSUME AttachmentsInv, NEW t \in Targets, OpenComposer(t)
    PROVE  AttachmentsInv'
  <1> DEFINE row == draftRows[t.conversation]
             awaiting == {a.id : a \in {b \in Range(row) : b.state = "pending"}}
  <1>1. /\ t # target /\ target' = t /\ drafted' = row /\ draftRows' = draftRows
        /\ Upload(t, awaiting, workers) /\ missed' = missed \ awaiting
        /\ stagingMedia' = stagingMedia /\ stagingList' = stagingList /\ picking' = picking
        /\ lastId' = lastId /\ home' = home /\ gone' = gone
    BY DEF OpenComposer
  <1>2. t.conversation \in Conversations
    BY IdsAreNumbers
  <1>3. row \in Seq(Entry) /\ \A i \in DOMAIN row : row[i] \in Entry
    BY <1>2 DEF AttachmentsInv, AttachmentsTypeOK
  <1>4. \A i \in DOMAIN row : home[row[i].id] = t.conversation /\ row[i].id \in AttachmentIds
    BY <1>2, AtHome
  <1>5. \A x \in awaiting : \E i \in DOMAIN row : x = row[i].id
    BY DEF Range
  <1>6. awaiting \in SUBSET AttachmentIds /\ \A i \in awaiting : home[i] = t.conversation
    BY <1>4, <1>5
  <1>7. \A i \in DOMAIN row : row[i].state = "pending" => row[i].id \in awaiting
    BY DEF Range
  <1> HIDE DEF row, awaiting
  <1>8. /\ workers' \subseteq Worker /\ uploadingMedia' \subseteq AttachmentIds
        /\ \A w \in workers' : w.kind = "stage" => w \in workers
        /\ \A w \in workers' : home'[w.id] = w.target.conversation
        /\ \A w \in workers : w \in workers'
        /\ \A i \in uploadingMedia' : \E w \in workers' : w.kind = "upload" /\ w.id = i
        /\ awaiting \subseteq uploadingMedia'
    BY <1>1, <1>6, UploadStarts
  <1>9. Outside' = Outside
    BY <1>1, <1>8 DEF Outside, InStaging
  <1>10. AttachmentsTypeOK'
    BY <1>1, <1>3, <1>8 DEF AttachmentsInv, AttachmentsTypeOK
  <1>11. DraftsInv'
    BY <1>1, <1>2, <1>9 DEF AttachmentsInv, DraftsInv, row
  <1>12. StagingInv'
    BY <1>1, <1>8 DEF AttachmentsInv, StagingInv
  <1>13. DrawnInv'
    BY <1>1, <1>9, DrawnKept
  <1>14. UploadUnderWay'
    BY <1>1, <1>7, <1>8 DEF UploadUnderWay
  <1>15. UploadInv'
    BY <1>8, <1>14 DEF UploadInv
  <1> QED
    BY <1>10, <1>11, <1>12, <1>13, <1>15 DEF AttachmentsInv

LEMMA CloseComposerStep ==
    ASSUME AttachmentsInv, CloseComposer
    PROVE  AttachmentsInv'
  <1>1. /\ target' = NoConversation /\ stagingMedia' = {} /\ stagingList' = <<>>
        /\ gone' = gone \cup stagingMedia /\ drafted' = drafted /\ draftRows' = draftRows
        /\ uploadingMedia' = uploadingMedia /\ picking' = picking /\ workers' = workers
        /\ lastId' = lastId /\ home' = home /\ missed' = missed
    BY DEF CloseComposer
  <1>2. Outside' \subseteq Outside
    BY <1>1 DEF Outside, InStaging, Range
  <1>3. AttachmentsTypeOK'
    BY <1>1 DEF AttachmentsInv, AttachmentsTypeOK
  <1>4. DraftsInv'
    BY <1>1, <1>2, DraftsKept
  <1>5. StagingInv'
    BY <1>1 DEF AttachmentsInv, StagingInv
  <1>6. DrawnInv'
    BY <1>1, <1>2, DrawnKept
  <1>7. UploadInv'
    BY <1>1, UploadKept
  <1> QED
    BY <1>3, <1>4, <1>5, <1>6, <1>7 DEF AttachmentsInv

\* What a composer gives up was in the draft of its conversation only.
LEMMA GivenUp ==
    ASSUME AttachmentsInv, target # NoConversation,
           Outside' \subseteq Outside \cup IdsIn(drafted), home' = home,
           Fits(drafted', target.conversation, home, Outside'),
           draftRows' = Persisted(target.conversation, drafted'),
           target' \in {target, NoConversation}, lastId' = lastId
    PROVE  DraftsInv' /\ DrawnInv'
  <1>1. \A i \in IdsIn(drafted) : home[i] = target.conversation /\ i \in AttachmentIds
    BY AtHome DEF IdsIn
  <1>2. target.conversation \in Conversations
    BY AtHome
  <1>3. DrawnInv'
    BY <1>1, <1>2, DrawnKept
  <1>4. ASSUME NEW c \in Conversations
        PROVE  Fits(draftRows[c], c, home, Outside)'
    <2>1. CASE c = target.conversation
      <3>1. draftRows'[c] = drafted'
        BY <2>1 DEF Persisted, AttachmentsInv, AttachmentsTypeOK
      <3> QED
        BY <2>1, <3>1
    <2>2. CASE c # target.conversation
      <3>1. draftRows'[c] = draftRows[c]
        BY <2>2 DEF Persisted, AttachmentsInv, AttachmentsTypeOK
      <3>2. \A i \in DOMAIN draftRows[c] : draftRows[c][i].id \notin IdsIn(drafted)
        BY <1>1, <2>2, AtHome
      <3>3. Fits(draftRows[c], c, home, Outside)
        BY DEF AttachmentsInv, DraftsInv
      <3> QED
        BY <3>1, <3>2, <3>3 DEF Fits
    <2> QED
      BY <2>1, <2>2
  <1>5. (target # NoConversation => Fits(drafted, target.conversation, home, Outside))'
    OBVIOUS
  <1> QED
    BY <1>3, <1>4, <1>5 DEF DraftsInv

LEMMA PersistedType ==
    ASSUME AttachmentsInv, drafted' \in Seq(Entry), draftRows' = Persisted(target.conversation, drafted')
    PROVE  draftRows' \in [Conversations -> Seq(Entry)]
  <1>1. draftRows \in [Conversations -> Seq(Entry)]
    BY DEF AttachmentsInv, AttachmentsTypeOK
  <1> QED
    BY <1>1 DEF Persisted

LEMMA SubmitMessageStep ==
    ASSUME AttachmentsInv, SubmitMessage
    PROVE  AttachmentsInv'
  <1>1. /\ target # NoConversation /\ target' = NoConversation /\ drafted' = <<>>
        /\ draftRows' = Persisted(target.conversation, <<>>)
        /\ gone' = gone \cup IdsIn(drafted)
        /\ stagingMedia' = stagingMedia /\ stagingList' = stagingList
        /\ uploadingMedia' = uploadingMedia /\ picking' = picking /\ workers' = workers
        /\ lastId' = lastId /\ home' = home /\ missed' = missed
    BY DEF SubmitMessage
  <1>2. InStaging' = InStaging
    BY <1>1 DEF InStaging
  <1>3. \A i \in IdsIn(drafted) : \E j \in DOMAIN drafted : drafted[j].id = i
    BY DEF IdsIn
  <1>4. Outside' \subseteq Outside \cup IdsIn(drafted)
    BY <1>1, <1>2 DEF Outside
  <1>5. \A i \in IdsIn(drafted) : i \notin stagingMedia
    BY <1>1, <1>3, AtHome DEF Outside, InStaging
  <1>6. Fits(drafted', target.conversation, home, Outside')
    BY <1>1, AttachmentsAssumption DEF Fits
  <1>7. DraftsInv' /\ DrawnInv'
    BY <1>1, <1>4, <1>6, GivenUp
  <1>8. AttachmentsTypeOK'
    <2>1. drafted' \in Seq(Entry) /\ <<>> \in Seq(AttachmentIds)
      BY <1>1
    <2>2. draftRows' \in [Conversations -> Seq(Entry)]
      BY <1>1, <2>1, PersistedType
    <2> QED
      BY <1>1, <2>1, <2>2 DEF AttachmentsInv, AttachmentsTypeOK
  <1>9. StagingInv'
    BY <1>1, <1>5 DEF AttachmentsInv, StagingInv
  <1>10. UploadInv'
    BY <1>1, UploadKept
  <1> QED
    BY <1>7, <1>8, <1>9, <1>10 DEF AttachmentsInv

LEMMA ClearDraftStep ==
    ASSUME AttachmentsInv, ClearDraft
    PROVE  AttachmentsInv'
  <1>1. /\ target # NoConversation /\ target' = target /\ drafted' = <<>>
        /\ draftRows' = Persisted(target.conversation, <<>>)
        /\ gone' = gone \cup stagingMedia \cup IdsIn(drafted)
        /\ stagingMedia' = {} /\ stagingList' = <<>>
        /\ uploadingMedia' \subseteq uploadingMedia /\ picking' = picking /\ workers' = workers
        /\ lastId' = lastId /\ home' = home /\ missed' = missed
    BY DEF ClearDraft
  <1>2. InStaging' \subseteq InStaging
    BY <1>1 DEF InStaging, Range
  <1>3. \A i \in IdsIn(drafted) : \E j \in DOMAIN drafted : drafted[j].id = i
    BY DEF IdsIn
  <1>4. Outside' \subseteq Outside \cup IdsIn(drafted)
    BY <1>1, <1>2 DEF Outside, InStaging
  <1>5. Fits(drafted', target.conversation, home, Outside')
    BY <1>1, AttachmentsAssumption DEF Fits
  <1>6. DraftsInv' /\ DrawnInv'
    BY <1>1, <1>4, <1>5, GivenUp
  <1>7. AttachmentsTypeOK'
    <2>1. drafted' \in Seq(Entry) /\ <<>> \in Seq(AttachmentIds)
      BY <1>1
    <2>2. draftRows' \in [Conversations -> Seq(Entry)]
      BY <1>1, <2>1, PersistedType
    <2> QED
      BY <1>1, <2>1, <2>2 DEF AttachmentsInv, AttachmentsTypeOK
  <1>8. StagingInv'
    BY <1>1 DEF AttachmentsInv, StagingInv
  <1>9. UploadInv'
    BY <1>1, UploadKept
  <1> QED
    BY <1>6, <1>7, <1>8, <1>9 DEF AttachmentsInv

\* A list without its last entry, and without one identifier.
LEMMA FrontOf ==
    ASSUME NEW S, NEW list \in Seq(S), list # <<>>
    PROVE  /\ Front(list) \in Seq(S) /\ Len(Front(list)) = Len(list) - 1
           /\ \A i \in DOMAIN Front(list) :
                i \in DOMAIN list /\ Front(list)[i] = list[i] /\ i # Len(list)
           /\ Len(list) \in DOMAIN list /\ Last(list) = list[Len(list)]
  <1>1. Len(list) \in Nat \ {0} /\ Len(list) \in 1..Len(list) /\ DOMAIN list = 1..Len(list)
    OBVIOUS
  <1>2. PICK k \in 1..Len(list) : k = Len(list)
    BY <1>1
  <1> DEFINE f == SubSeq(list, 1, k - 1)
  <1>3. Front(list) = f /\ Last(list) = list[k]
    BY <1>2 DEF Front, Last
  <1>4. f \in Seq(S) /\ Len(f) = k - 1 /\ \A i \in 1..(k - 1) : f[i] = list[i]
    BY <1>1
  <1> HIDE DEF f
  <1>5. DOMAIN f = 1..(k - 1)
    BY <1>4
  <1>6. \A i \in DOMAIN f : i \in DOMAIN list /\ f[i] = list[i] /\ i # k
    BY <1>1, <1>2, <1>4, <1>5
  <1> QED
    BY <1>1, <1>2, <1>3, <1>4, <1>6

LEMMA WithoutOne ==
    ASSUME NEW S, NEW list \in Seq(S), NEW id,
           \A i, j \in DOMAIN list : list[i] = list[j] => i = j
    PROVE  /\ Without(list, id) \in Seq(S)
           /\ \A i, j \in DOMAIN Without(list, id) :
                Without(list, id)[i] = Without(list, id)[j] => i = j
           /\ \A i \in DOMAIN Without(list, id) :
                Without(list, id)[i] # id /\ \E j \in DOMAIN list : list[j] = Without(list, id)[i]
  <1>1. CASE id \notin Range(list)
    <2>1. Without(list, id) = list
      BY <1>1 DEF Without
    <2>2. \A i \in DOMAIN list : list[i] # id
      BY <1>1 DEF Range
    <2> QED
      BY <2>1, <2>2
  <1>2. CASE id \in Range(list)
    <2> DEFINE k == CHOOSE i \in DOMAIN list : list[i] = id
               rest == RemoveAt(list, k)
    <2>1. \E i \in DOMAIN list : list[i] = id
      BY <1>2 DEF Range
    <2>2. k \in DOMAIN list /\ list[k] = id
      BY <2>1
    <2>3. Without(list, id) = rest
      BY <1>2 DEF Without
    <2> HIDE DEF k
    <2>4. k \in 1..Len(list) /\ Len(list) \in Nat
      BY <2>2
    <2> DEFINE l == SubSeq(list, 1, k - 1)
               r == SubSeq(list, k + 1, Len(list))
    <2>5. rest = l \o r
      BY DEF RemoveAt
    <2>6. l \in Seq(S) /\ Len(l) = k - 1 /\ \A i \in 1..(k - 1) : l[i] = list[i]
      BY <2>4
    <2>7. r \in Seq(S) /\ Len(r) = Len(list) - k /\ \A i \in 1..(Len(list) - k) : r[i] = list[k + i]
      BY <2>4
    <2> HIDE DEF l, r
    <2>8. rest \in Seq(S) /\ Len(rest) = Len(list) - 1
      <3>1. l \o r \in Seq(S) /\ Len(l \o r) = Len(l) + Len(r)
        BY <2>6, <2>7
      <3> QED
        BY ONLY <2>4, <2>5, <2>6, <2>7, <3>1
    <2>9. ASSUME NEW i \in DOMAIN rest
          PROVE  /\ i < k => rest[i] = list[i]
                 /\ i >= k => rest[i] = list[i + 1]
                 /\ i \in Int /\ i >= 1 /\ i <= Len(list) - 1
      <3> HIDE DEF rest
      <3>1. rest = l \o r /\ i \in 1..(Len(list) - 1)
        <4>1. DOMAIN rest = 1..Len(rest)
          BY <2>8
        <4> QED
          BY <2>4, <2>5, <2>8, <4>1
      <3>2. CASE i < k
        BY <2>4, <2>6, <2>7, <3>1, <3>2
      <3>3. CASE i >= k
        <4>1. rest[i] = r[i - (k - 1)]
          BY <2>4, <2>6, <2>7, <3>1, <3>3
        <4>2. i - (k - 1) \in 1..(Len(list) - k) /\ k + (i - (k - 1)) = i + 1
          BY <2>4, <3>1, <3>3
        <4> DEFINE h == i - (k - 1)
        <4>3. h \in 1..(Len(list) - k) /\ k + h = i + 1 /\ rest[i] = r[h]
          BY <4>1, <4>2
        <4> HIDE DEF h
        <4>4. rest[i] = list[i + 1]
          BY <2>7, <4>3
        <4> QED
          BY <2>4, <3>1, <3>3, <4>4
      <3> QED
        BY <2>4, <3>1, <3>2, <3>3
    <2> HIDE DEF rest
    <2>10. DOMAIN list = 1..Len(list)
      OBVIOUS
    <2>11. ASSUME NEW i \in DOMAIN rest
           PROVE  \E m \in DOMAIN list : /\ m # k /\ rest[i] = list[m]
                                         /\ i < k => m = i
                                         /\ i >= k => m = i + 1
      <3>1. CASE i < k
        BY <2>4, <2>9, <2>10, <3>1
      <3>2. CASE i >= k
        <4>1. i + 1 \in DOMAIN list /\ i + 1 # k
          BY <2>4, <2>9, <2>10, <3>2
        <4> QED
          BY <2>4, <2>9, <3>2, <4>1
      <3> QED
        BY <2>4, <2>9, <3>1, <3>2
    <2>12. ASSUME NEW i \in DOMAIN rest, NEW j \in DOMAIN rest, rest[i] = rest[j]
           PROVE  i = j
      <3>1. PICK m \in DOMAIN list : /\ rest[i] = list[m] /\ (i < k => m = i) /\ (i >= k => m = i + 1)
        BY <2>11
      <3>2. PICK n \in DOMAIN list : /\ rest[j] = list[n] /\ (j < k => n = j) /\ (j >= k => n = j + 1)
        BY <2>11
      <3>3. m = n
        BY <2>12, <3>1, <3>2
      <3>4. i \in Int /\ j \in Int
        BY <2>9
      <3> QED
        BY <2>4, <3>1, <3>2, <3>3, <3>4
    <2>13. \A i \in DOMAIN rest : rest[i] # id /\ \E j \in DOMAIN list : list[j] = rest[i]
      BY <2>2, <2>11
    <2> QED
      BY <2>3, <2>8, <2>12, <2>13
  <1> QED
    BY <1>1, <1>2

\* An entry's identifier and place are what they were.
LEMMA SameIdsFit ==
    ASSUME AttachmentsInv, target # NoConversation, drafted' \in Seq(Entry),
           DOMAIN drafted' = DOMAIN drafted, Len(drafted') = Len(drafted),
           \A i \in DOMAIN drafted : drafted'[i].id = drafted[i].id,
           Outside' \subseteq Outside
    PROVE  Fits(drafted', target.conversation, home, Outside')
  BY DEF AttachmentsInv, DraftsInv, Fits

LEMMA RemoveStagingStep ==
    ASSUME AttachmentsInv, RemoveStaging
    PROVE  AttachmentsInv'
  <1>1. /\ target' = target /\ stagingList # <<>> /\ stagingList' = Front(stagingList)
        /\ stagingMedia' = stagingMedia \ {Last(stagingList)}
        /\ gone' = gone \cup {Last(stagingList)} /\ drafted' = drafted /\ draftRows' = draftRows
        /\ uploadingMedia' = uploadingMedia /\ picking' = picking /\ workers' = workers
        /\ lastId' = lastId /\ home' = home /\ missed' = missed
    BY DEF RemoveStaging
  <1>2. stagingList \in Seq(AttachmentIds)
    BY DEF AttachmentsInv, AttachmentsTypeOK
  <1>3. /\ stagingList' \in Seq(AttachmentIds)
        /\ \A i \in DOMAIN stagingList' :
             i \in DOMAIN stagingList /\ stagingList'[i] = stagingList[i]
        /\ Last(stagingList) \in Range(stagingList)
    BY <1>1, <1>2, FrontOf DEF Range
  <1>4. Outside' \subseteq Outside
    BY <1>1, <1>3 DEF Outside, InStaging, Range
  <1>5. AttachmentsTypeOK'
    BY <1>1, <1>3 DEF AttachmentsInv, AttachmentsTypeOK
  <1>6. DraftsInv'
    BY <1>1, <1>4, DraftsKept
  <1>7. StagingInv'
    BY <1>1, <1>3 DEF AttachmentsInv, StagingInv
  <1>8. DrawnInv'
    BY <1>1, <1>4, DrawnKept
  <1>9. UploadInv'
    BY <1>1, UploadKept
  <1> QED
    BY <1>5, <1>6, <1>7, <1>8, <1>9 DEF AttachmentsInv

LEMMA RemoveLastStep ==
    ASSUME AttachmentsInv, RemoveLast
    PROVE  AttachmentsInv'
  <1>1. /\ target # NoConversation /\ target' = target /\ drafted # <<>>
        /\ drafted' = Front(drafted) /\ draftRows' = Persisted(target.conversation, drafted')
        /\ gone' = gone \cup {Last(drafted).id}
        /\ stagingMedia' = stagingMedia /\ stagingList' = stagingList
        /\ uploadingMedia' \subseteq uploadingMedia /\ picking' = picking /\ workers' = workers
        /\ lastId' = lastId /\ home' = home /\ missed' = missed
    BY DEF RemoveLast
  <1>2. drafted \in Seq(Entry)
    BY DEF AttachmentsInv, AttachmentsTypeOK
  <1>3. /\ drafted' \in Seq(Entry) /\ Len(drafted') = Len(drafted) - 1
        /\ \A i \in DOMAIN drafted' :
             i \in DOMAIN drafted /\ drafted'[i] = drafted[i] /\ i # Len(drafted)
        /\ Len(drafted) \in DOMAIN drafted /\ Last(drafted) = drafted[Len(drafted)]
    BY <1>1, <1>2, FrontOf
  <1>4. Last(drafted).id \in IdsIn(drafted)
    BY <1>3 DEF IdsIn
  <1>5. InStaging' = InStaging
    BY <1>1 DEF InStaging
  <1>6. Outside' = Outside \cup {Last(drafted).id}
    BY <1>1, <1>5 DEF Outside
  <1>7. Fits(drafted, target.conversation, home, Outside)
    BY <1>1 DEF AttachmentsInv, DraftsInv
  <1>8. Fits(drafted', target.conversation, home, Outside')
    <2>1. \A i, j \in DOMAIN drafted : drafted[i].id = drafted[j].id => i = j
      BY <1>7 DEF Fits
    <2>2. \A i \in DOMAIN drafted' : drafted'[i].id # Last(drafted).id
      BY <1>3, <2>1
    <2>3. Len(drafted) <= Limit /\ Len(drafted) \in Nat
      BY <1>2, <1>7 DEF Fits
    <2>4. Len(drafted') <= Limit
      BY <1>3, <2>3, AttachmentsAssumption
    <2>5. \A i, j \in DOMAIN drafted' : drafted'[i].id = drafted'[j].id => i = j
      BY <1>3, <2>1
    <2>6. \A i \in DOMAIN drafted' :
            home[drafted'[i].id] = target.conversation /\ drafted'[i].id \notin Outside
      BY <1>3, <1>7 DEF Fits
    <2> QED
      BY <1>6, <2>2, <2>4, <2>5, <2>6 DEF Fits
  <1>9. DraftsInv' /\ DrawnInv'
    BY <1>1, <1>4, <1>6, <1>8, GivenUp
  <1>10. draftRows' \in [Conversations -> Seq(Entry)]
    BY <1>1, <1>3, PersistedType
  <1>11. AttachmentsTypeOK'
    BY <1>1, <1>3, <1>10 DEF AttachmentsInv, AttachmentsTypeOK
  <1>12. Last(drafted).id \notin stagingMedia
    BY <1>1, <1>3, AtHome DEF Outside, InStaging
  <1>13. StagingInv'
    BY <1>1, <1>12 DEF AttachmentsInv, StagingInv
  <1>14. UploadInv'
    BY <1>1, <1>3, UploadKept
  <1> QED
    BY <1>9, <1>11, <1>13, <1>14 DEF AttachmentsInv

LEMMA RetryFailedStep ==
    ASSUME AttachmentsInv, RetryFailed
    PROVE  AttachmentsInv'
  <1> DEFINE retried == {drafted[i].id : i \in {j \in DOMAIN drafted : drafted[j].state = "failed"}}
             list == [i \in DOMAIN drafted |->
                        IF drafted[i].id \in retried THEN [drafted[i] EXCEPT !.state = "pending"]
                        ELSE drafted[i]]
  <1>1. /\ target # NoConversation /\ target' = target /\ drafted' = list
        /\ draftRows' = Persisted(target.conversation, drafted')
        /\ Upload(target, retried, workers)
        /\ stagingMedia' = stagingMedia /\ stagingList' = stagingList /\ picking' = picking
        /\ lastId' = lastId /\ home' = home /\ gone' = gone /\ missed' = missed
    BY DEF RetryFailed
  <1>2. drafted \in Seq(Entry) /\ \A i \in DOMAIN drafted : drafted[i] \in Entry
    BY DEF AttachmentsInv, AttachmentsTypeOK
  <1>3. \A i \in DOMAIN drafted :
          /\ list[i] \in Entry /\ list[i].id = drafted[i].id
          /\ list[i].state = "pending" => drafted[i].state = "pending" \/ drafted[i].id \in retried
    BY <1>2 DEF Entry
  <1>4. list \in Seq(Entry) /\ DOMAIN list = DOMAIN drafted /\ Len(list) = Len(drafted)
    <2>1. Len(drafted) \in Nat /\ DOMAIN drafted = 1..Len(drafted)
      BY <1>2
    <2>2. DOMAIN list = 1..Len(drafted)
      BY <2>1
    <2> HIDE DEF list
    <2>3. list = [i \in 1..Len(drafted) |-> list[i]]
      BY <2>1, <2>2 DEF list
    <2>4. \A i \in 1..Len(drafted) : list[i] \in Entry
      BY <1>3, <2>1
    <2> QED
      BY <2>1, <2>2, <2>3, <2>4
  <1>5. \A i \in retried : \E j \in DOMAIN drafted : i = drafted[j].id
    OBVIOUS
  <1> HIDE DEF retried, list
  <1>6. target \in Targets /\ retried \in SUBSET AttachmentIds
        /\ \A i \in retried : home[i] = target.conversation
    BY <1>1, <1>5, AtHome
  <1>7. /\ workers' \subseteq Worker /\ uploadingMedia' \subseteq AttachmentIds
        /\ \A w \in workers' : w.kind = "stage" => w \in workers
        /\ \A w \in workers' : home'[w.id] = w.target.conversation
        /\ \A w \in workers : w \in workers'
        /\ \A i \in uploadingMedia' : \E w \in workers' : w.kind = "upload" /\ w.id = i
        /\ retried \subseteq uploadingMedia'
    BY <1>1, <1>6, UploadStarts
  <1>8. Outside' = Outside
    BY <1>1, <1>7 DEF Outside, InStaging
  <1>9. Fits(drafted', target.conversation, home, Outside')
    BY <1>1, <1>3, <1>4, <1>8, SameIdsFit
  <1>10. DraftsInv' /\ DrawnInv'
    BY <1>1, <1>8, <1>9, GivenUp
  <1>11. draftRows' \in [Conversations -> Seq(Entry)]
    BY <1>1, <1>4, PersistedType
  <1>12. AttachmentsTypeOK'
    BY <1>1, <1>4, <1>7, <1>11 DEF AttachmentsInv, AttachmentsTypeOK
  <1>13. StagingInv'
    BY <1>1, <1>7 DEF AttachmentsInv, StagingInv
  <1>14. ASSUME NEW i \in DOMAIN drafted', drafted'[i].state = "pending"
         PROVE  \/ drafted'[i].id \in missed'
                \/ \E w \in workers' : w.kind = "upload" /\ w.id = drafted'[i].id
    <2>1. i \in DOMAIN drafted /\ drafted'[i].id = drafted[i].id
      BY <1>1, <1>3, <1>4, <1>14
    <2>2. CASE drafted[i].id \in retried
      BY <1>7, <2>1, <2>2
    <2>3. CASE drafted[i].state = "pending"
      BY <1>1, <1>7, <2>1, <2>3 DEF AttachmentsInv, UploadInv, UploadUnderWay
    <2> QED
      BY <1>1, <1>3, <1>14, <2>1, <2>2, <2>3
  <1>15. UploadInv'
    BY <1>7, <1>14 DEF UploadInv, UploadUnderWay
  <1> QED
    BY <1>10, <1>12, <1>13, <1>15 DEF AttachmentsInv

LEMMA OpenFilePickerStep ==
    ASSUME AttachmentsInv, OpenFilePicker
    PROVE  AttachmentsInv'
  <1>1. /\ target # NoConversation /\ picking' = picking \cup {target}
        /\ target' = target /\ drafted' = drafted /\ draftRows' = draftRows
        /\ stagingMedia' = stagingMedia /\ stagingList' = stagingList
        /\ uploadingMedia' = uploadingMedia /\ workers' = workers
        /\ lastId' = lastId /\ home' = home /\ gone' = gone /\ missed' = missed
    BY DEF OpenFilePicker, composerPart
  <1>2. Outside' = Outside
    BY <1>1 DEF Outside, InStaging
  <1>3. AttachmentsTypeOK'
    BY <1>1 DEF AttachmentsInv, AttachmentsTypeOK
  <1>4. DraftsInv'
    BY <1>1, <1>2, DraftsKept
  <1>5. StagingInv'
    BY <1>1 DEF AttachmentsInv, StagingInv
  <1>6. DrawnInv'
    BY <1>1, <1>2, DrawnKept
  <1>7. UploadInv'
    BY <1>1, UploadKept
  <1> QED
    BY <1>3, <1>4, <1>5, <1>6, <1>7 DEF AttachmentsInv

\* The files that are staged have identifiers that nothing had before.
LEMMA FilesPickedStep ==
    ASSUME AttachmentsInv, NEW t \in picking, NEW n \in 1..Limit, FilesPicked(t, n)
    PROVE  AttachmentsInv'
  <1>1. /\ picking' = picking \ {t}
        /\ target' = target /\ drafted' = drafted /\ draftRows' = draftRows
        /\ uploadingMedia' = uploadingMedia /\ gone' = gone /\ missed' = missed
    BY DEF FilesPicked
  <1>2. CASE ~(t = target /\ n <= Capacity)
    <2>1. /\ stagingMedia' = stagingMedia /\ stagingList' = stagingList /\ workers' = workers
          /\ lastId' = lastId /\ home' = home
      BY <1>2 DEF FilesPicked
    <2>2. Outside' = Outside
      BY <1>1, <2>1 DEF Outside, InStaging
    <2>3. AttachmentsTypeOK'
      BY <1>1, <2>1 DEF AttachmentsInv, AttachmentsTypeOK
    <2>4. DraftsInv'
      BY <1>1, <2>1, <2>2, DraftsKept
    <2>5. StagingInv'
      BY <1>1, <2>1 DEF AttachmentsInv, StagingInv
    <2>6. DrawnInv'
      BY <1>1, <2>1, <2>2, DrawnKept
    <2>7. UploadInv'
      BY <1>1, <2>1, UploadKept
    <2> QED
      BY <2>3, <2>4, <2>5, <2>6, <2>7 DEF AttachmentsInv
  <1>3. CASE t = target /\ n <= Capacity
    <2> DEFINE new == lastId + 1 .. lastId + n
               staged(i) == [kind |-> "stage", stage |-> "running", id |-> i, target |-> target]
               more == [i \in 1..n |-> lastId + i]
    <2>1. /\ lastId + n <= Cardinality(AttachmentIds) /\ lastId' = lastId + n
          /\ stagingMedia' = stagingMedia \cup new
          /\ stagingList' = stagingList \o more
          /\ workers' = workers \cup {staged(i) : i \in new}
          /\ home' = [i \in AttachmentIds |->
                        IF i \in new THEN target.conversation ELSE home[i]]
      BY <1>3 DEF FilesPicked, StageFiles
    <2>2. target \in Targets /\ target.conversation \in Conversations /\ target # NoConversation
      BY <1>3, IdsAreNumbers DEF AttachmentsInv, AttachmentsTypeOK
    <2>3. lastId \in Nat /\ n \in Nat \ {0} /\ n \in Nat
      BY AttachmentsAssumption DEF AttachmentsInv, AttachmentsTypeOK
    <2>4. \A i \in new : i \in Nat /\ i # 0 /\ i <= Cardinality(AttachmentIds) /\ i > lastId
      BY <2>1, <2>3, IdsAreNumbers
    <2>5. new \subseteq AttachmentIds /\ \A i \in new : home[i] = "none" /\ i \notin Outside
      BY <2>4, IdsAreNumbers DEF AttachmentsInv, DrawnInv
    <2>6. \A i \in AttachmentIds : home[i] \in Conversations => i \notin new /\ home'[i] = home[i]
      BY <2>1, <2>5, IdsAreNumbers
    <2>7. more \in Seq(new) /\ Len(more) = n
      BY <2>3
    <2>8. stagingList \in Seq(AttachmentIds)
      BY DEF AttachmentsInv, AttachmentsTypeOK
    <2>9. /\ stagingList' \in Seq(AttachmentIds)
          /\ Len(stagingList') = Len(stagingList) + n /\ Len(stagingList) \in Nat
          /\ \A i \in 1..Len(stagingList) : stagingList'[i] = stagingList[i]
          /\ \A i \in 1..n : stagingList'[Len(stagingList) + i] = lastId + i
      <3>1. more \in Seq(AttachmentIds)
        BY <2>5, <2>7
      <3>2. \A i \in 1..n : more[i] = lastId + i
        OBVIOUS
      <3> HIDE DEF more
      <3>3. /\ stagingList \o more \in Seq(AttachmentIds)
            /\ Len(stagingList \o more) = Len(stagingList) + Len(more)
            /\ \A i \in 1..Len(stagingList) : (stagingList \o more)[i] = stagingList[i]
            /\ \A i \in 1..Len(more) : (stagingList \o more)[Len(stagingList) + i] = more[i]
        BY ONLY <2>8, <3>1
      <3>4. Len(stagingList) \in Nat
        BY ONLY <2>8
      <3> QED
        BY ONLY <2>1, <2>7, <3>2, <3>3, <3>4
    <2> HIDE DEF more
    <2>10. ASSUME NEW i \in DOMAIN stagingList'
           PROVE  /\ i \in Int
                  /\ \/ i <= Len(stagingList) /\ i \in DOMAIN stagingList
                        /\ stagingList'[i] = stagingList[i] /\ stagingList'[i] \notin new
                     \/ i > Len(stagingList) /\ stagingList'[i] = lastId + (i - Len(stagingList))
                        /\ stagingList'[i] \in new
      <3>1. i \in 1..(Len(stagingList) + n)
        BY <2>9
      <3>2. CASE i <= Len(stagingList)
        <4>1. i \in 1..Len(stagingList) /\ i \in DOMAIN stagingList
          BY <2>8, <2>9, <3>1, <3>2
        <4>2. stagingList[i] \notin new
          BY <2>5, <4>1 DEF Outside, InStaging, Range
        <4> QED
          BY <2>9, <3>2, <4>1, <4>2
      <3>3. CASE i > Len(stagingList)
        <4> DEFINE h == i - Len(stagingList)
        <4>1. h \in 1..n /\ Len(stagingList) + h = i
          BY <2>3, <2>9, <3>1, <3>3
        <4>2. stagingList'[i] = lastId + h
          BY <2>9, <4>1
        <4>3. lastId + h \in new
          BY <2>3, <4>1
        <4> QED
          BY <3>1, <3>3, <4>2, <4>3
      <3> QED
        BY <2>9, <3>1, <3>2, <3>3
    <2>11. ASSUME NEW w \in workers'
           PROVE  /\ w \in Worker /\ home'[w.id] = w.target.conversation
                  /\ \/ w \in workers /\ w.id \notin new
                     \/ w.id \in new /\ w = staged(w.id)
      <3>1. CASE w \in workers
        <4>1. w \in Worker /\ w.id \in AttachmentIds /\ w.target.conversation \in Conversations
          BY <3>1, AtHome, IdsAreNumbers
        <4>2. home[w.id] = w.target.conversation
          BY <3>1 DEF AttachmentsInv, StagingInv
        <4> QED
          BY <2>6, <3>1, <4>1, <4>2
      <3>2. CASE w \notin workers
        <4>1. PICK i \in new : w = staged(i)
          BY <2>1, <3>2
        <4>2. w.id = i /\ w.target = target
          BY <4>1
        <4>3. w \in Worker
          BY <2>2, <2>5, <4>1 DEF Worker
        <4>4. home'[i] = target.conversation
          BY <2>1, <2>5
        <4> QED
          BY <4>1, <4>2, <4>3, <4>4
      <3> QED
        BY <3>1, <3>2
    <2>12. \A w \in workers : w \in workers'
      BY <2>1
    <2> HIDE DEF staged, new
    <2>13. \A i \in Outside' : i \in Outside \/ i \in new
      BY <1>1, <2>1, <2>10, <2>11 DEF Outside, InStaging, Range
    <2>14. AttachmentsTypeOK'
      <3>1. workers' \subseteq Worker
        BY <2>11
      <3>2. lastId' \in Nat
        BY <2>1, <2>3
      <3>3. home' \in [AttachmentIds -> Conversations \cup {"none"}]
        BY <2>1, <2>2 DEF AttachmentsInv, AttachmentsTypeOK
      <3> QED
        BY <1>1, <2>1, <2>5, <2>9, <3>1, <3>2, <3>3 DEF AttachmentsInv, AttachmentsTypeOK
    <2>15. DraftsInv'
      <3>1. ASSUME NEW c \in Conversations
            PROVE  Fits(draftRows[c], c, home, Outside)'
        <4>1. \A i \in DOMAIN draftRows[c] :
                /\ home'[draftRows[c][i].id] = c /\ draftRows[c][i].id \notin Outside'
          BY <2>6, <2>13, AtHome
        <4>2. Fits(draftRows[c], c, home, Outside)
          BY DEF AttachmentsInv, DraftsInv
        <4> QED
          BY <1>1, <4>1, <4>2 DEF Fits
      <3>2. Fits(drafted, target.conversation, home, Outside)'
        <4>1. \A i \in DOMAIN drafted :
                home'[drafted[i].id] = target.conversation /\ drafted[i].id \notin Outside'
          BY <2>2, <2>6, <2>13, AtHome
        <4>2. Fits(drafted, target.conversation, home, Outside)
          BY <2>2 DEF AttachmentsInv, DraftsInv
        <4> QED
          BY <1>1, <4>1, <4>2 DEF Fits
      <3> QED
        BY <3>1, <3>2 DEF DraftsInv
    <2>16. StagingInv'
      <3>1. ASSUME NEW i \in DOMAIN stagingList', NEW j \in DOMAIN stagingList',
                   stagingList'[i] = stagingList'[j]
            PROVE  i = j
        <4>1. CASE i \in DOMAIN stagingList /\ j \in DOMAIN stagingList
                   /\ stagingList'[i] = stagingList[i] /\ stagingList'[j] = stagingList[j]
          BY <3>1, <4>1 DEF AttachmentsInv, StagingInv
        <4>2. CASE /\ stagingList'[i] = lastId + (i - Len(stagingList))
                   /\ stagingList'[j] = lastId + (j - Len(stagingList))
          <5> DEFINE m == Len(stagingList)
          <5>1. i \in Int /\ j \in Int /\ m \in Int /\ lastId \in Int
            BY <2>3, <2>9, <2>10
          <5>2. lastId + (i - m) = lastId + (j - m)
            BY <3>1, <4>2
          <5> HIDE DEF m
          <5> QED
            BY ONLY <5>1, <5>2
        <4> QED
          BY <2>10, <3>1, <4>1, <4>2
      <3>2. (stagingMedia \cap gone = {})'
        BY <1>1, <2>1, <2>5 DEF AttachmentsInv, StagingInv, Outside
      <3>3. \A v, w \in workers' : v.kind = "stage" /\ w.kind = "stage" /\ v.id = w.id => v = w
        BY <2>11 DEF AttachmentsInv, StagingInv
      <3>4. \A w \in workers' : home'[w.id] = w.target.conversation
        BY <2>11
      <3> QED
        BY <3>1, <3>2, <3>3, <3>4 DEF StagingInv
    <2>17. DrawnInv'
      <3> SUFFICES ASSUME NEW i \in AttachmentIds, i > lastId'
                   PROVE  home'[i] = "none" /\ i \notin Outside'
        BY DEF DrawnInv
      <3>1. i \in Nat /\ i > lastId /\ i \notin new
        BY <2>1, <2>3, IdsAreNumbers DEF new
      <3>2. home[i] = "none" /\ i \notin Outside
        BY <3>1 DEF AttachmentsInv, DrawnInv
      <3> QED
        BY <2>1, <2>13, <3>1, <3>2
    <2>18. UploadInv'
      BY <1>1, <2>2, <2>12, UploadKept
    <2> QED
      BY <2>14, <2>15, <2>16, <2>17, <2>18 DEF AttachmentsInv
  <1> QED
    BY <1>2, <1>3

\* A task that ends is the task it was, but for its outcome.
LEMMA WorkerEndsIs ==
    ASSUME AttachmentsInv, NEW w \in workers, NEW outcome \in {"ok", "failed"},
           WorkerEnds(w, outcome)
    PROVE  \E u \in Worker :
             /\ workers' = (workers \ {w}) \cup {u}
             /\ u.kind = w.kind /\ u.id = w.id /\ u.target = w.target
  <1>1. w \in Worker
    BY DEF AttachmentsInv, AttachmentsTypeOK
  <1> DEFINE u == [w EXCEPT !.stage = outcome]
  <1>2. u \in Worker /\ u.kind = w.kind /\ u.id = w.id /\ u.target = w.target
    BY <1>1 DEF Worker
  <1>3. workers' = (workers \ {w}) \cup {u}
    BY DEF WorkerEnds
  <1> QED
    BY <1>2, <1>3

LEMMA WorkStep ==
    ASSUME AttachmentsInv, NEW w \in workers, StageFile(w) \/ UploadFile(w)
    PROVE  AttachmentsInv'
  <1>1. /\ target' = target /\ drafted' = drafted /\ draftRows' = draftRows
        /\ stagingMedia' = stagingMedia /\ stagingList' = stagingList
        /\ uploadingMedia' = uploadingMedia /\ picking' = picking
        /\ lastId' = lastId /\ home' = home /\ gone' = gone /\ missed' = missed
    BY DEF StageFile, UploadFile, composerPart
  <1>2. \E outcome \in {"ok", "failed"} : WorkerEnds(w, outcome)
    BY DEF StageFile, UploadFile
  <1>3. PICK u \in Worker : /\ workers' = (workers \ {w}) \cup {u}
                            /\ u.kind = w.kind /\ u.id = w.id /\ u.target = w.target
    BY <1>2, WorkerEndsIs
  <1>4. Outside' = Outside
    BY <1>1, <1>3 DEF Outside, InStaging
  <1>5. AttachmentsTypeOK'
    BY <1>1, <1>3 DEF AttachmentsInv, AttachmentsTypeOK
  <1>6. DraftsInv'
    BY <1>1, <1>4, DraftsKept
  <1>7. StagingInv'
    BY <1>1, <1>3 DEF AttachmentsInv, StagingInv
  <1>8. DrawnInv'
    BY <1>1, <1>4, DrawnKept
  <1>9. \A v \in workers : v.kind = "upload" =>
          \E x \in workers' : x.kind = "upload" /\ x.id = v.id
    BY <1>3
  <1>10. UploadInv'
    BY <1>1, <1>9, UploadKept
  <1> QED
    BY <1>5, <1>6, <1>7, <1>8, <1>10 DEF AttachmentsInv

\* What the end of a staging task does to the staging list, taken or not.
LEMMA StagingEnds ==
    ASSUME AttachmentsInv, NEW w \in workers, w.kind = "stage",
           stagingList' = Without(stagingList, w.id), stagingMedia' = stagingMedia \ {w.id},
           \A v \in workers' : v.kind = "stage" => v \in workers /\ v # w
    PROVE  /\ stagingList' \in Seq(AttachmentIds)
           /\ \A i, j \in DOMAIN stagingList' : stagingList'[i] = stagingList'[j] => i = j
           /\ InStaging' \subseteq InStaging \ {w.id} /\ w.id \in InStaging
  <1>1. stagingList \in Seq(AttachmentIds)
        /\ \A i, j \in DOMAIN stagingList : stagingList[i] = stagingList[j] => i = j
    BY DEF AttachmentsInv, AttachmentsTypeOK, StagingInv
  <1>2. /\ stagingList' \in Seq(AttachmentIds)
        /\ \A i, j \in DOMAIN stagingList' : stagingList'[i] = stagingList'[j] => i = j
        /\ \A i \in DOMAIN stagingList' :
             stagingList'[i] # w.id /\ \E j \in DOMAIN stagingList : stagingList[j] = stagingList'[i]
    BY <1>1, WithoutOne
  <1>3. \A v \in workers' : v.kind = "stage" => v.id # w.id
    BY DEF AttachmentsInv, StagingInv
  <1> QED
    BY <1>2, <1>3 DEF InStaging, Range

\* A staging that failed, or that nobody waits for any more.
LEMMA StagingGivenUp ==
    ASSUME AttachmentsInv, NEW w \in workers, w.kind = "stage",
           stagingList' = Without(stagingList, w.id), stagingMedia' = stagingMedia \ {w.id},
           workers' = workers \ {w}, gone' = gone \cup {w.id},
           target' = target, drafted' = drafted, draftRows' = draftRows,
           uploadingMedia' = uploadingMedia, picking' = picking,
           lastId' = lastId, home' = home, missed' = missed
    PROVE  AttachmentsInv'
  <1>1. /\ stagingList' \in Seq(AttachmentIds)
        /\ \A i, j \in DOMAIN stagingList' : stagingList'[i] = stagingList'[j] => i = j
        /\ InStaging' \subseteq InStaging \ {w.id} /\ w.id \in InStaging
    BY StagingEnds
  <1>2. Outside' \subseteq Outside
    BY <1>1 DEF Outside
  <1>3. AttachmentsTypeOK'
    BY <1>1 DEF AttachmentsInv, AttachmentsTypeOK
  <1>4. DraftsInv'
    BY <1>2, DraftsKept
  <1>5. StagingInv'
    BY <1>1 DEF AttachmentsInv, StagingInv
  <1>6. DrawnInv'
    BY <1>2, DrawnKept
  <1>7. \A v \in workers : v.kind = "upload" =>
          \E x \in workers' : x.kind = "upload" /\ x.id = v.id
    OBVIOUS
  <1>8. UploadInv'
    BY <1>7, UploadKept
  <1> QED
    BY <1>3, <1>4, <1>5, <1>6, <1>8 DEF AttachmentsInv

LEMMA StageFailedStep ==
    ASSUME AttachmentsInv, NEW w \in workers, StageFailed(w)
    PROVE  AttachmentsInv'
  BY StagingGivenUp DEF StageFailed

\* What was staged for the composer that is open goes into its list.
LEMMA StagedStep ==
    ASSUME AttachmentsInv, NEW w \in workers, Staged(w)
    PROVE  AttachmentsInv'
  <1>1. CASE ~Accepted(w)
    BY <1>1, StagingGivenUp DEF Staged
  <1>2. CASE Accepted(w)
    <2> DEFINE e == [id |-> w.id, state |-> "pending"]
    <2>1. /\ w.kind = "stage" /\ stagingList' = Without(stagingList, w.id)
          /\ stagingMedia' = stagingMedia \ {w.id} /\ drafted' = Append(drafted, e)
          /\ draftRows' = Persisted(target.conversation, drafted')
          /\ Upload(target, {w.id}, workers \ {w}) /\ gone' = gone
          /\ target' = target /\ picking' = picking
          /\ lastId' = lastId /\ home' = home /\ missed' = missed
      BY <1>2 DEF Staged
    <2>2. w.id \in stagingMedia /\ target = w.target /\ Len(drafted) < Limit
      BY <1>2 DEF Accepted
    <2>3. w \in Worker /\ w.id \in AttachmentIds /\ w.target \in Targets
      BY AtHome
    <2>4. target \in Targets /\ target # NoConversation /\ target.conversation \in Conversations
      BY <2>2, <2>3, IdsAreNumbers
    <2>5. home[w.id] = target.conversation
      BY <2>2 DEF AttachmentsInv, StagingInv
    <2>6. /\ workers' \subseteq Worker /\ uploadingMedia' \subseteq AttachmentIds
          /\ \A v \in workers' : v.kind = "stage" => v \in workers \ {w}
          /\ \A v \in workers' : home'[v.id] = v.target.conversation
          /\ \A v \in workers \ {w} : v \in workers'
          /\ \A i \in uploadingMedia' : \E v \in workers' : v.kind = "upload" /\ v.id = i
          /\ {w.id} \subseteq uploadingMedia'
      <3> DEFINE others == workers \ {w}
                 awaiting == {w.id}
      <3>1. /\ awaiting \in SUBSET AttachmentIds /\ others \in SUBSET workers
            /\ Upload(target, awaiting, others) /\ home' = home
            /\ \A i \in awaiting : home[i] = target.conversation
            /\ \A v \in workers : v.kind = "upload" => v \in others
        BY <2>1, <2>3, <2>5
      <3> HIDE DEF others, awaiting
      <3>2. /\ workers' \subseteq Worker /\ uploadingMedia' \subseteq AttachmentIds
            /\ \A v \in workers' : v.kind = "stage" => v \in others
            /\ \A v \in workers' : home'[v.id] = v.target.conversation
            /\ \A v \in others : v \in workers'
            /\ \A i \in uploadingMedia' : \E v \in workers' : v.kind = "upload" /\ v.id = i
            /\ awaiting \subseteq uploadingMedia'
        BY <2>4, <3>1, UploadStarts
      <3> QED
        BY <3>2 DEF others, awaiting
    <2>7. /\ stagingList' \in Seq(AttachmentIds)
          /\ \A i, j \in DOMAIN stagingList' : stagingList'[i] = stagingList'[j] => i = j
          /\ InStaging' \subseteq InStaging \ {w.id} /\ w.id \in InStaging
      BY <2>1, <2>6, StagingEnds
    <2>8. w.id \notin gone
      BY <2>2 DEF AttachmentsInv, StagingInv
    <2>9. Outside' \subseteq Outside \ {w.id} /\ w.id \in Outside
      BY <2>1, <2>7, <2>8 DEF Outside
    <2>10. drafted \in Seq(Entry) /\ Len(drafted) \in Nat /\ e \in Entry
      BY <2>3 DEF AttachmentsInv, AttachmentsTypeOK, Entry
    <2>11. e.id = w.id
      OBVIOUS
    <2> HIDE DEF e
    <2>12. /\ drafted' \in Seq(Entry) /\ Len(drafted') = Len(drafted) + 1
           /\ \A i \in DOMAIN drafted' :
                \/ i \in DOMAIN drafted /\ drafted'[i] = drafted[i]
                \/ i = Len(drafted) + 1 /\ drafted'[i] = e
      BY <2>1, <2>10
    <2>13. Fits(drafted, target.conversation, home, Outside)
      BY <2>4 DEF AttachmentsInv, DraftsInv
    <2>14. Fits(drafted', target.conversation, home, Outside')
      <3>1. Len(drafted') <= Limit
        BY <2>2, <2>10, <2>12, AttachmentsAssumption
      <3>2. \A i \in DOMAIN drafted : drafted[i].id # w.id
        BY <2>9, <2>13 DEF Fits
      <3>3. \A i, j \in DOMAIN drafted' : drafted'[i].id = drafted'[j].id => i = j
        BY <2>11, <2>12, <2>13, <3>2 DEF Fits
      <3>4. \A i \in DOMAIN drafted' :
              home[drafted'[i].id] = target.conversation /\ drafted'[i].id \notin Outside'
        BY <2>5, <2>9, <2>11, <2>12, <2>13 DEF Fits
      <3> QED
        BY <3>1, <3>3, <3>4 DEF Fits
    <2>15. DraftsInv' /\ DrawnInv'
      BY <2>1, <2>4, <2>9, <2>14, GivenUp
    <2>16. draftRows' \in [Conversations -> Seq(Entry)]
      BY <2>1, <2>12, PersistedType
    <2>17. AttachmentsTypeOK'
      BY <2>1, <2>6, <2>7, <2>12, <2>16 DEF AttachmentsInv, AttachmentsTypeOK
    <2>18. StagingInv'
      BY <2>1, <2>6, <2>7 DEF AttachmentsInv, StagingInv
    <2>19. ASSUME NEW i \in DOMAIN drafted', drafted'[i].state = "pending"
           PROVE  \/ drafted'[i].id \in missed'
                  \/ \E v \in workers' : v.kind = "upload" /\ v.id = drafted'[i].id
      <3>1. CASE drafted'[i] = e
        BY <2>6, <2>11, <3>1
      <3>2. CASE i \in DOMAIN drafted /\ drafted'[i] = drafted[i]
        <4>1. \/ drafted[i].id \in missed
              \/ \E v \in workers : v.kind = "upload" /\ v.id = drafted[i].id
          BY <2>4, <2>19, <3>2 DEF AttachmentsInv, UploadInv, UploadUnderWay
        <4> QED
          BY <2>1, <2>6, <3>2, <4>1
      <3> QED
        BY <2>12, <3>1, <3>2
    <2>20. UploadInv'
      BY <2>6, <2>19 DEF UploadInv, UploadUnderWay
    <2> QED
      BY <2>15, <2>17, <2>18, <2>20 DEF AttachmentsInv
  <1> QED
    BY <1>1, <1>2

\* A list in which one entry's state was replaced.
LEMMA ReplacedIs ==
    ASSUME NEW list \in Seq(Entry), NEW id, NEW from, NEW state \in {"uploaded", "failed"}
    PROVE  /\ Replaced(list, id, from, state) \in Seq(Entry)
           /\ DOMAIN Replaced(list, id, from, state) = DOMAIN list
           /\ Len(Replaced(list, id, from, state)) = Len(list)
           /\ \A i \in DOMAIN list :
                /\ Replaced(list, id, from, state)[i].id = list[i].id
                /\ Replaced(list, id, from, state)[i].state = "pending" =>
                     /\ Replaced(list, id, from, state)[i] = list[i]
                     /\ list[i].id # id \/ list[i].state \notin from
  <1> DEFINE r == [i \in DOMAIN list |-> IF list[i].id = id /\ list[i].state \in from
                                         THEN [list[i] EXCEPT !.state = state] ELSE list[i]]
  <1>1. Replaced(list, id, from, state) = r
    BY DEF Replaced
  <1>2. \A i \in DOMAIN list : list[i] \in Entry
    OBVIOUS
  <1>3. \A i \in DOMAIN list :
          /\ r[i] \in Entry /\ r[i].id = list[i].id
          /\ r[i].state = "pending" =>
               r[i] = list[i] /\ (list[i].id # id \/ list[i].state \notin from)
    BY <1>2 DEF Entry
  <1>4. DOMAIN r = DOMAIN list /\ DOMAIN list = 1..Len(list) /\ Len(list) \in Nat
    OBVIOUS
  <1> HIDE DEF r
  <1>5. r = [i \in 1..Len(list) |-> r[i]]
    BY <1>4 DEF r
  <1>6. r \in Seq(Entry) /\ Len(r) = Len(list)
    BY <1>3, <1>4, <1>5
  <1> QED
    BY <1>1, <1>3, <1>4, <1>6

\* The result of an upload: the open composer of the target it was asked for
\* takes it; or else the stored draft does, and a composer that is open for
\* another message of the conversation has missed it.
LEMMA UploadEndedStep ==
    ASSUME AttachmentsInv, NEW w \in workers, UploadEnded(w)
    PROVE  AttachmentsInv'
  <1> DEFINE state == IF w.stage = "ok" THEN "uploaded" ELSE "failed"
             list == Replaced(drafted, w.id, {"pending"}, state)
             waits == target = w.target /\ list # drafted
             c0 == w.target.conversation
             row == Replaced(draftRows[c0], w.id, {"pending", "failed"}, state)
  <1>1. /\ w.kind = "upload" /\ workers' = workers \ {w}
        /\ uploadingMedia' = uploadingMedia \ {w.id}
        /\ target' = target /\ stagingMedia' = stagingMedia /\ stagingList' = stagingList
        /\ picking' = picking /\ lastId' = lastId /\ home' = home /\ gone' = gone
        /\ missed' = IF target # w.target /\ target.conversation = c0
                     THEN missed \cup {w.id} ELSE missed
        /\ waits => drafted' = list /\ draftRows' = Persisted(target.conversation, list)
        /\ ~waits => drafted' = drafted /\ draftRows' = [draftRows EXCEPT ![c0] = row]
    BY DEF UploadEnded
  <1>2. state \in {"uploaded", "failed"}
    OBVIOUS
  <1>3. w.target \in Targets /\ c0 \in Conversations
    BY AtHome, IdsAreNumbers
  <1>4. drafted \in Seq(Entry) /\ draftRows[c0] \in Seq(Entry)
    BY <1>3 DEF AttachmentsInv, AttachmentsTypeOK
  <1> HIDE DEF state, c0
  <1>5. /\ list \in Seq(Entry) /\ DOMAIN list = DOMAIN drafted /\ Len(list) = Len(drafted)
        /\ \A i \in DOMAIN drafted :
             /\ list[i].id = drafted[i].id
             /\ list[i].state = "pending" =>
                  list[i] = drafted[i] /\ (drafted[i].id # w.id \/ drafted[i].state # "pending")
    BY <1>2, <1>4, ReplacedIs
  <1>6. /\ row \in Seq(Entry) /\ DOMAIN row = DOMAIN draftRows[c0]
        /\ Len(row) = Len(draftRows[c0])
        /\ \A i \in DOMAIN row : row[i].id = draftRows[c0][i].id
    BY <1>2, <1>4, ReplacedIs
  <1> HIDE DEF list, row
  <1>7. Outside' = Outside
    BY <1>1 DEF Outside, InStaging
  <1>8. StagingInv'
    BY <1>1 DEF AttachmentsInv, StagingInv
  <1>9. DrawnInv'
    BY <1>1, <1>7, DrawnKept
  <1>10. (\A i \in uploadingMedia : \E v \in workers : v.kind = "upload" /\ v.id = i)'
    <2> SUFFICES ASSUME NEW i \in uploadingMedia'
                 PROVE  \E v \in workers' : v.kind = "upload" /\ v.id = i
      OBVIOUS
    <2>1. i \in uploadingMedia /\ i # w.id
      BY <1>1
    <2>2. PICK v \in workers : v.kind = "upload" /\ v.id = i
      BY <2>1 DEF AttachmentsInv, UploadInv
    <2> QED
      BY <1>1, <2>1, <2>2
  <1>11. ASSUME NEW i \in DOMAIN drafted, target # NoConversation, drafted[i].state = "pending",
                drafted[i].id # w.id
         PROVE  \/ drafted[i].id \in missed'
                \/ \E v \in workers' : v.kind = "upload" /\ v.id = drafted[i].id
    <2>1. \/ drafted[i].id \in missed
          \/ \E v \in workers : v.kind = "upload" /\ v.id = drafted[i].id
      BY <1>11 DEF AttachmentsInv, UploadInv, UploadUnderWay
    <2> QED
      BY <1>1, <1>11, <2>1
  <1>12. CASE waits
    <2>1. /\ target = w.target /\ drafted' = list
          /\ draftRows' = Persisted(target.conversation, drafted')
      BY <1>1, <1>12
    <2>2. target # NoConversation
      BY <1>3, <2>1, IdsAreNumbers
    <2>3. Fits(drafted', target.conversation, home, Outside')
      BY <1>5, <1>7, <2>1, <2>2, SameIdsFit
    <2>4. DraftsInv'
      BY <1>1, <1>7, <2>1, <2>2, <2>3, GivenUp
    <2>5. draftRows' \in [Conversations -> Seq(Entry)]
      BY <1>5, <2>1, PersistedType
    <2>6. AttachmentsTypeOK'
      BY <1>1, <1>5, <2>1, <2>5 DEF AttachmentsInv, AttachmentsTypeOK
    <2>7. ASSUME NEW i \in DOMAIN drafted', drafted'[i].state = "pending"
          PROVE  \/ drafted'[i].id \in missed'
                 \/ \E v \in workers' : v.kind = "upload" /\ v.id = drafted'[i].id
      <3>1. i \in DOMAIN drafted /\ drafted'[i] = drafted[i] /\ drafted[i].id # w.id
        BY <1>5, <2>1, <2>7
      <3> QED
        BY <1>11, <2>2, <2>7, <3>1
    <2>8. UploadInv'
      BY <1>10, <2>7 DEF UploadInv, UploadUnderWay
    <2> QED
      BY <1>8, <1>9, <2>4, <2>6, <2>8 DEF AttachmentsInv
  <1>13. CASE ~waits
    <2>1. drafted' = drafted /\ draftRows' = [draftRows EXCEPT ![c0] = row]
      BY <1>1, <1>13
    <2>2. draftRows \in [Conversations -> Seq(Entry)]
      BY DEF AttachmentsInv, AttachmentsTypeOK
    <2>3. draftRows' \in [Conversations -> Seq(Entry)]
      BY <1>6, <2>1, <2>2
    <2>4. AttachmentsTypeOK'
      BY <1>1, <2>1, <2>3 DEF AttachmentsInv, AttachmentsTypeOK
    <2>5. DraftsInv'
      <3>1. ASSUME NEW c \in Conversations
            PROVE  Fits(draftRows[c], c, home, Outside)'
        <4>1. Fits(draftRows[c], c, home, Outside)
          BY DEF AttachmentsInv, DraftsInv
        <4>2. CASE c = c0
          <5>1. draftRows'[c] = row
            BY <2>1, <2>2, <4>2
          <5> QED
            BY <1>1, <1>6, <1>7, <4>1, <4>2, <5>1 DEF Fits
        <4>3. CASE c # c0
          <5>1. draftRows'[c] = draftRows[c]
            BY <2>1, <2>2, <4>3
          <5> QED
            BY <1>1, <1>7, <4>1, <5>1 DEF Fits
        <4> QED
          BY <4>2, <4>3
      <3>2. (target # NoConversation => Fits(drafted, target.conversation, home, Outside))'
        BY <1>1, <1>7, <2>1 DEF AttachmentsInv, DraftsInv
      <3> QED
        BY <3>1, <3>2 DEF DraftsInv
    <2>6. ASSUME target # NoConversation, NEW i \in DOMAIN drafted, drafted[i].state = "pending",
                 drafted[i].id = w.id
          PROVE  w.id \in missed'
      <3>1. home[w.id] = target.conversation
        BY <2>6, AtHome
      <3>2. home[w.id] = c0
        BY DEF AttachmentsInv, StagingInv, c0
      <3>3. target # w.target
        <4>1. list # drafted
          BY <1>5, <2>6
        <4> QED
          BY <1>13, <4>1
      <3> QED
        BY <1>1, <3>1, <3>2, <3>3
    <2>7. UploadInv'
      BY <1>1, <1>10, <1>11, <2>1, <2>6 DEF UploadInv, UploadUnderWay
    <2> QED
      BY <1>8, <1>9, <2>4, <2>5, <2>7 DEF AttachmentsInv
  <1> QED
    BY <1>12, <1>13

LEMMA AttachmentsStep ==
    ASSUME AttachmentsInv, [AttachmentsNext]_attachmentVars
    PROVE  AttachmentsInv'
  <1>1. CASE UNCHANGED attachmentVars
    BY <1>1 DEF attachmentVars, composerPart, AttachmentsInv, AttachmentsTypeOK, DraftsInv,
                StagingInv, DrawnInv, UploadInv, UploadUnderWay, Fits, Outside, InStaging
  <1>2. CASE AttachmentsNext
    BY <1>2, OpenComposerStep, CloseComposerStep, SubmitMessageStep, ClearDraftStep,
       RemoveStagingStep, RemoveLastStep, RetryFailedStep, OpenFilePickerStep, FilesPickedStep,
       WorkStep, StagedStep, StageFailedStep, UploadEndedStep DEF AttachmentsNext
  <1> QED
    BY <1>1, <1>2

LEMMA AttachmentsInvImplies ==
    ASSUME AttachmentsInv
    PROVE  AttachmentsSound
  <1>1. ASSUME NEW c \in Conversations,
               NEW l \in {draftRows[c]} \cup (IF target.conversation = c THEN {drafted} ELSE {})
        PROVE  Len(l) <= Limit /\ \A i \in IdsIn(l) : home[i] = c /\ i \notin gone
    <2>1. CASE l = draftRows[c]
      BY <2>1 DEF AttachmentsInv, DraftsInv, Fits, IdsIn, Outside
    <2>2. CASE target.conversation = c /\ l = drafted
      <3>1. target # NoConversation
        BY <2>2, AttachmentsAssumption DEF NoConversation
      <3> QED
        BY <2>2, <3>1 DEF AttachmentsInv, DraftsInv, Fits, IdsIn, Outside
    <2> QED
      BY <1>1, <2>1, <2>2
  <1>2. AttachmentsStayHome
    BY <1>1 DEF AttachmentsStayHome
  <1> QED
    BY <1>2 DEF AttachmentsSound, AttachmentsInv, UploadInv

\* A file is in the draft of the conversation it was chosen for, or in none
\* once it was given up, whatever results are late (Staged, UploadEnded); and
\* the upload that the composer shows is under way, unless it has missed the
\* result while it was open for another message.
THEOREM AttachmentsCorrect == AttachmentsSpec => []AttachmentsSound
  <1>1. AttachmentsInit => AttachmentsInv
    BY AttachmentsInitInv
  <1>2. AttachmentsInv /\ [AttachmentsNext]_attachmentVars => AttachmentsInv'
    BY AttachmentsStep
  <1>3. AttachmentsInv => AttachmentsSound
    BY AttachmentsInvImplies
  <1> QED
    BY <1>1, <1>2, <1>3, PTL DEF AttachmentsSpec

-----------------------------------------------------------------------------
(* The text of a composer *)

\* Some naturals have a least one, and a greatest one if they are bounded.
LEMMA LeastIs ==
    ASSUME NEW S \in SUBSET Nat, S # {}
    PROVE  Min(S) \in S /\ \A y \in S : Min(S) <= y
  <1>1. PICK x \in S : \A y \in S : ~ (<<y, x>> \in OpToRel(<, Nat))
    BY WFMin, NatLessThanWellFounded, Zenon
  <1>2. ASSUME NEW y \in S PROVE x <= y
    <2>1. x \in Nat /\ y \in Nat
      OBVIOUS
    <2>2. ~(y < x)
      BY <1>1, <2>1 DEF OpToRel
    <2> QED
      BY <2>1, <2>2
  <1>3. \E z \in S : \A y \in S : z <= y
    BY <1>2
  <1> QED
    BY <1>3 DEF Min

LEMMA GreatestIs ==
    ASSUME NEW n \in Nat, NEW S \in SUBSET (0..n), S # {}
    PROVE  Max(S) \in S /\ \A y \in S : y <= Max(S)
  <1> DEFINE T == {n - y : y \in S}
  <1>1. T \in SUBSET Nat /\ T # {}
    <2>1. \A y \in S : n - y \in Nat
      OBVIOUS
    <2>2. PICK y \in S : TRUE
      OBVIOUS
    <2>3. n - y \in T
      BY <2>2
    <2> QED
      BY <2>1, <2>3
  <1>2. PICK t \in T : \A u \in T : t <= u
    <2> HIDE DEF T
    <2> QED
      BY <1>1, LeastIs
  <1>3. PICK x \in S : t = n - x
    OBVIOUS
  <1>4. ASSUME NEW y \in S PROVE x >= y
    <2>1. n - x <= n - y
      BY <1>2, <1>3
    <2>2. x \in Nat /\ y \in Nat
      OBVIOUS
    <2> QED
      BY <2>1, <2>2
  <1>5. \E z \in S : \A y \in S : z >= y
    BY <1>4
  <1>6. Max(S) \in S /\ \A y \in S : Max(S) >= y
    BY <1>5 DEF Max
  <1> QED
    BY <1>6

LEMMA LastUptoIs ==
    ASSUME NEW n \in Nat, NEW S \in SUBSET (1..n), NEW i \in Nat
    PROVE  /\ LastUpto(S, i) \in 0..n /\ LastUpto(S, i) <= i
           /\ LastUpto(S, i) # 0 => LastUpto(S, i) \in S
           /\ \A p \in S : p <= i => p <= LastUpto(S, i)
  <1> DEFINE T == {0} \cup {p \in S : p <= i}
  <1>1. T \in SUBSET (0..n) /\ T # {}
    <2>1. 0 \in 0..n /\ \A p \in S : p \in 0..n
      OBVIOUS
    <2> QED
      BY <2>1
  <1>2. Max(T) \in T /\ \A y \in T : y <= Max(T)
    <2> HIDE DEF T
    <2> QED
      BY <1>1, GreatestIs
  <1>3. LastUpto(S, i) = Max(T)
    BY DEF LastUpto
  <1> DEFINE l == LastUpto(S, i)
  <1>4. l \in T /\ \A y \in T : y <= l
    BY <1>2, <1>3
  <1> HIDE DEF l
  <1>5. /\ l \in 0..n /\ l <= i /\ (l # 0 => l \in S)
        /\ \A p \in S : p <= i => p <= l
    BY <1>4
  <1> QED
    BY <1>5 DEF l

LEMMA FirstAfterIs ==
    ASSUME NEW past \in Nat, NEW S \in SUBSET Nat, NEW i \in Nat
    PROVE  /\ FirstAfter(S, i, past) \in Nat
           /\ FirstAfter(S, i, past) = past \/ (FirstAfter(S, i, past) \in S /\ FirstAfter(S, i, past) > i)
           /\ FirstAfter(S, i, past) <= past
           /\ \A p \in S : p > i => FirstAfter(S, i, past) <= p
  <1> DEFINE T == {past} \cup {p \in S : p > i}
  <1>1. T \in SUBSET Nat /\ T # {}
    OBVIOUS
  <1>2. Min(T) \in T /\ \A y \in T : Min(T) <= y
    <2> HIDE DEF T
    <2> QED
      BY <1>1, LeastIs
  <1> DEFINE f == FirstAfter(S, i, past)
  <1>3. f \in T /\ \A y \in T : f <= y
    BY <1>2 DEF FirstAfter
  <1> HIDE DEF f
  <1>4. /\ f \in Nat /\ (f = past \/ (f \in S /\ f > i)) /\ f <= past
        /\ \A p \in S : p > i => f <= p
    BY <1>3
  <1> QED
    BY <1>4 DEF f

\* Where the movements of the cursor lead is in the text, and on the right side.
LEMMA BoundsAre ==
    ASSUME NEW b \in Seq(Characters), NEW i \in 0..Len(b)
    PROVE  /\ LineStart(b, i) \in 0..i /\ WordLeft(b, i) \in 0..i
           /\ LineEnd(b, i) \in i..Len(b) /\ WordRight(b, i) \in i..Len(b)
  <1>1. Len(b) \in Nat /\ i \in Nat /\ i <= Len(b)
    OBVIOUS
  <1>2. /\ Places(b, "newline") \in SUBSET (1..Len(b)) /\ Blanks(b) \in SUBSET (1..Len(b))
        /\ Words(b) \in SUBSET (1..Len(b))
    BY DEF Places, Blanks, Words
  <1>3. LineStart(b, i) \in 0..i
    <2>1. LineStart(b, i) \in 0..Len(b) /\ LineStart(b, i) <= i
      BY <1>1, <1>2, LastUptoIs DEF LineStart
    <2> QED
      BY <1>1, <2>1
  <1>4. WordLeft(b, i) \in 0..i
    <2> DEFINE w == LastUpto(Words(b), i)
    <2>1. w \in 0..Len(b) /\ w <= i
      BY <1>1, <1>2, LastUptoIs
    <2> HIDE DEF w
    <2>2. w \in Nat
      BY <1>1, <2>1
    <2>3. LastUpto(Blanks(b), w) \in 0..Len(b) /\ LastUpto(Blanks(b), w) <= w
      BY <1>1, <1>2, <2>2, LastUptoIs
    <2>4. WordLeft(b, i) = LastUpto(Blanks(b), w)
      BY DEF WordLeft, w
    <2> QED
      BY <1>1, <2>1, <2>2, <2>3, <2>4
  <1>5. LineEnd(b, i) \in i..Len(b)
    <2> DEFINE f == FirstAfter(Places(b, "newline"), i, Len(b) + 1)
    <2>1. f \in Nat /\ f <= Len(b) + 1 /\ f > i
      <3>1. Places(b, "newline") \in SUBSET Nat /\ Len(b) + 1 \in Nat
        BY <1>1, <1>2
      <3>2. f \in Nat /\ f <= Len(b) + 1 /\ (f = Len(b) + 1 \/ f > i)
        BY <1>1, <3>1, FirstAfterIs
      <3> HIDE DEF f
      <3> QED
        BY <1>1, <3>2
    <2>2. LineEnd(b, i) = f - 1
      BY DEF LineEnd
    <2> HIDE DEF f
    <2> QED
      BY <1>1, <2>1, <2>2
  <1>6. WordRight(b, i) \in i..Len(b)
    <2> DEFINE g == FirstAfter(Blanks(b), i, Len(b) + 1)
               f == FirstAfter(Words(b), g, Len(b) + 1)
    <2>1. Blanks(b) \in SUBSET Nat /\ Words(b) \in SUBSET Nat /\ Len(b) + 1 \in Nat
      BY <1>1, <1>2
    <2>2. g \in Nat /\ (g = Len(b) + 1 \/ g > i)
      BY <1>1, <2>1, FirstAfterIs
    <2> HIDE DEF g
    <2>3. f \in Nat /\ f <= Len(b) + 1 /\ (f = Len(b) + 1 \/ f > g)
      BY <2>1, <2>2, FirstAfterIs
    <2>4. WordRight(b, i) = f - 1
      BY DEF WordRight, g
    <2> HIDE DEF f
    <2> QED
      BY <1>1, <2>2, <2>3, <2>4
  <1> QED
    BY <1>3, <1>4, <1>5, <1>6

\* A part of a text.
LEMMA BetweenIs ==
    ASSUME NEW C, NEW b \in Seq(C), NEW lo \in Nat, NEW hi \in Nat, lo <= hi, hi <= Len(b)
    PROVE  /\ Between(b, lo, hi) \in Seq(C) /\ Len(Between(b, lo, hi)) = hi - lo
           /\ \A i \in 1..(hi - lo) : Between(b, lo, hi)[i] = b[lo + i]
  <1>1. Len(b) \in Nat /\ lo + 1 \in Int /\ hi \in Int
    OBVIOUS
  <1>2. \A i \in lo + 1..hi : b[i] \in C
    OBVIOUS
  <1> DEFINE w == SubSeq(b, lo + 1, hi)
  <1>3. /\ w \in Seq(C) /\ Len(w) = IF lo + 1 <= hi THEN hi - (lo + 1) + 1 ELSE 0
        /\ \A i \in 1..hi - (lo + 1) + 1 : w[i] = b[lo + 1 + i - 1]
    BY <1>1, <1>2, SubSeqProperties
  <1> HIDE DEF w
  <1>4. Len(w) = hi - lo
    BY <1>3
  <1>5. \A i \in 1..(hi - lo) : w[i] = b[lo + i]
    <2> TAKE i \in 1..(hi - lo)
    <2>1. i \in 1..hi - (lo + 1) + 1 /\ lo + 1 + i - 1 = lo + i
      OBVIOUS
    <2> QED
      BY <1>3, <2>1
  <1> QED
    BY <1>3, <1>4, <1>5 DEF w, Between

\* The text has a word from a place on.
Reads(b, from, w) ==
    from + Len(w) <= Len(b) /\ \A i \in 1..Len(w) : b[from + i] = w[i]

LEMMA ReadsIs ==
    ASSUME NEW C, NEW b \in Seq(C), NEW lo \in Nat, NEW hi \in Nat, lo <= hi, hi <= Len(b),
           NEW D, NEW w \in Seq(D)
    PROVE  Between(b, lo, hi) = w <=> (hi = lo + Len(w) /\ Reads(b, lo, w))
  <1> DEFINE v == Between(b, lo, hi)
  <1>1. v \in Seq(C) /\ Len(v) = hi - lo /\ \A i \in 1..(hi - lo) : v[i] = b[lo + i]
    BY BetweenIs
  <1>2. Len(w) \in Nat /\ Len(b) \in Nat
    OBVIOUS
  <1> HIDE DEF v
  <1>3. ASSUME v = w PROVE hi = lo + Len(w) /\ Reads(b, lo, w)
    <2>1. hi = lo + Len(w) /\ Len(w) = hi - lo
      BY <1>1, <1>2, <1>3
    <2>2. \A i \in 1..Len(w) : b[lo + i] = w[i]
      BY <1>1, <1>3, <2>1
    <2> QED
      BY <2>1, <2>2 DEF Reads
  <1>4. ASSUME hi = lo + Len(w), Reads(b, lo, w) PROVE v = w
    <2>1. Len(w) = hi - lo
      BY <1>2, <1>4
    <2>2. Len(v) = Len(w) /\ \A i \in 1..Len(w) : v[i] = w[i]
      BY <1>1, <1>4, <2>1 DEF Reads
    <2>3. v \in Seq(C \cup D) /\ w \in Seq(C \cup D)
      BY <1>1
    <2> QED
      BY <2>2, <2>3, SeqEqual
  <1> QED
    BY <1>3, <1>4 DEF v

\* A text in which lo..hi has been replaced.
Splice(b, lo, hi, text) == Upto(b, lo) \o text \o After(b, hi)

Spliced(s, b, lo, hi, text) ==
    /\ Len(s) = lo + Len(text) + (Len(b) - hi)
    /\ \A i \in 1..lo : s[i] = b[i]
    /\ \A i \in 1..Len(text) : s[lo + i] = text[i]
    /\ \A i \in 1..(Len(b) - hi) : s[lo + Len(text) + i] = b[hi + i]

LEMMA SpliceIs ==
    ASSUME NEW C, NEW b \in Seq(C), NEW text \in Seq(C), NEW lo \in Nat, NEW hi \in Nat,
           lo <= hi, hi <= Len(b)
    PROVE  /\ Splice(b, lo, hi, text) \in Seq(C)
           /\ Spliced(Splice(b, lo, hi, text), b, lo, hi, text)
  <1> DEFINE before == Upto(b, lo)
             behind == After(b, hi)
  <1>1. Len(b) \in Nat /\ Len(text) \in Nat
    OBVIOUS
  <1>2. before \in Seq(C) /\ Len(before) = lo /\ \A i \in 1..lo : before[i] = b[i]
    <2>1. before = Between(b, 0, lo)
      BY DEF Upto, Between
    <2>2. 0 \in Nat /\ 0 <= lo /\ lo <= Len(b) /\ lo - 0 = lo /\ \A i \in 1..lo : 0 + i = i
      BY <1>1
    <2>3. /\ Between(b, 0, lo) \in Seq(C) /\ Len(Between(b, 0, lo)) = lo - 0
          /\ \A i \in 1..(lo - 0) : Between(b, 0, lo)[i] = b[0 + i]
      BY <2>2, BetweenIs
    <2> QED
      BY <2>1, <2>2, <2>3
  <1>3. behind \in Seq(C) /\ Len(behind) = Len(b) - hi /\ \A i \in 1..(Len(b) - hi) : behind[i] = b[hi + i]
    <2>1. behind = Between(b, hi, Len(b))
      BY DEF After, Between
    <2>2. Len(b) \in Nat /\ hi <= Len(b) /\ Len(b) <= Len(b)
      BY <1>1
    <2>3. /\ Between(b, hi, Len(b)) \in Seq(C) /\ Len(Between(b, hi, Len(b))) = Len(b) - hi
          /\ \A i \in 1..(Len(b) - hi) : Between(b, hi, Len(b))[i] = b[hi + i]
      BY <2>2, BetweenIs
    <2> QED
      BY <2>1, <2>3
  <1> HIDE DEF before, behind
  <1>4. /\ before \o text \in Seq(C) /\ Len(before \o text) = lo + Len(text)
        /\ \A i \in 1..lo : (before \o text)[i] = b[i]
        /\ \A i \in 1..Len(text) : (before \o text)[lo + i] = text[i]
    <2>1. /\ before \o text \in Seq(C) /\ Len(before \o text) = Len(before) + Len(text)
          /\ \A i \in 1..Len(before) + Len(text) :
               (before \o text)[i] = IF i <= Len(before) THEN before[i] ELSE text[i - Len(before)]
      BY <1>2, ConcatProperties
    <2>2. \A i \in 1..lo : (before \o text)[i] = b[i]
      BY <1>1, <1>2, <2>1
    <2>3. \A i \in 1..Len(text) : (before \o text)[lo + i] = text[i]
      <3> TAKE i \in 1..Len(text)
      <3>1. lo + i \in 1..lo + Len(text) /\ ~(lo + i <= lo) /\ lo + i - lo = i
        BY <1>1
      <3> QED
        BY <1>2, <2>1, <3>1
    <2> QED
      BY <1>2, <2>1, <2>2, <2>3
  <1> DEFINE front == before \o text
             all == front \o behind
  <1>5. front \in Seq(C) /\ Len(front) = lo + Len(text)
    BY <1>4
  <1>6. /\ all \in Seq(C) /\ Len(all) = Len(front) + Len(behind)
        /\ \A i \in 1..Len(front) + Len(behind) :
             all[i] = IF i <= Len(front) THEN front[i] ELSE behind[i - Len(front)]
    <2> HIDE DEF front, all
    <2>0. front \in Seq(C) /\ behind \in Seq(C)
      BY <1>3, <1>5
    <2>1. /\ front \o behind \in Seq(C) /\ Len(front \o behind) = Len(front) + Len(behind)
          /\ \A i \in 1..Len(front) + Len(behind) :
               (front \o behind)[i] = IF i <= Len(front) THEN front[i] ELSE behind[i - Len(front)]
      BY ONLY <2>0, ConcatProperties
    <2> QED
      BY <2>1 DEF all
  <1>7. /\ \A i \in 1..lo : front[i] = b[i]
        /\ \A i \in 1..Len(text) : front[lo + i] = text[i]
    BY <1>4
  <1>8. Splice(b, lo, hi, text) = all
    BY DEF Splice, before, behind
  <1> HIDE DEF front, all
  <1>9. Len(all) = lo + Len(text) + (Len(b) - hi)
    BY <1>1, <1>3, <1>5, <1>6
  <1>10. \A i \in 1..lo : all[i] = b[i]
    <2> TAKE i \in 1..lo
    <2>1. i \in 1..(lo + Len(text)) + (Len(b) - hi) /\ i <= lo + Len(text)
      BY <1>1
    <2>2. all[i] = front[i]
      BY <1>3, <1>5, <1>6, <2>1
    <2> QED
      BY <1>7, <2>2
  <1>11. \A i \in 1..Len(text) : all[lo + i] = text[i]
    <2> TAKE i \in 1..Len(text)
    <2>1. lo + i \in 1..(lo + Len(text)) + (Len(b) - hi) /\ lo + i <= lo + Len(text)
      BY <1>1
    <2>2. all[lo + i] = front[lo + i]
      BY <1>3, <1>5, <1>6, <2>1
    <2> QED
      BY <1>7, <2>2
  <1>12. \A i \in 1..(Len(b) - hi) : all[lo + Len(text) + i] = b[hi + i]
    <2> TAKE i \in 1..(Len(b) - hi)
    <2> DEFINE k == lo + Len(text) + i
    <2>1. /\ k \in 1..(lo + Len(text)) + (Len(b) - hi) /\ ~(k <= lo + Len(text))
          /\ k - (lo + Len(text)) = i
      BY <1>1
    <2> HIDE DEF k
    <2>2. all[k] = behind[i]
      BY <1>3, <1>5, <1>6, <2>1
    <2> QED
      BY <1>3, <2>2 DEF k
  <1>13. Spliced(all, b, lo, hi, text)
    BY <1>9, <1>10, <1>11, <1>12 DEF Spliced
  <1> QED
    BY <1>6, <1>8, <1>13

Apart(ms) == \A m, n \in ms : m # n => m.to <= n.from \/ n.to <= m.from

\* Mentions that all fit are what normalizing leaves of them.
LEMMA NormalizeKeeps ==
    ASSUME NEW b, NEW ms \in SUBSET Mention, IsFiniteSet(ms), Cardinality(ms) <= MentionCap,
           \A m \in ms : ValidFor(m, b), Apart(ms)
    PROVE  NormalizeMentions(b, ms) = ms
  <1> DEFINE valid == {m \in ms : ValidFor(m, b)}
             Clear(m, kept) == \A n \in kept \ {m} : n.from <= m.from => n.to <= m.from
             apart == CHOOSE kept \in SUBSET valid : kept = {m \in valid : Clear(m, kept)}
             Ahead(m) == {n \in apart : n.from < m.from}
  <1>1. \A m \in ms : m.from \in Nat /\ m.to \in Nat /\ m.from < m.to
    BY DEF Mention, ValidFor
  <1>2. valid = ms
    OBVIOUS
  <1>3. ASSUME NEW kept \in SUBSET ms, NEW m \in ms PROVE Clear(m, kept)
    <2> TAKE n \in kept \ {m}
    <2>1. n \in ms /\ n # m
      OBVIOUS
    <2>2. m.to <= n.from \/ n.to <= m.from
      BY <2>1 DEF Apart
    <2> QED
      BY <1>1, <2>1, <2>2
  <1>4. ASSUME NEW kept \in SUBSET ms PROVE {m \in ms : Clear(m, kept)} = ms
    <2> HIDE DEF Clear
    <2> QED
      BY <1>3
  <1>5. apart = ms
    <2>1. \A kept \in SUBSET ms : (kept = {m \in ms : Clear(m, kept)}) <=> kept = ms
      <3> HIDE DEF Clear
      <3> QED
        BY <1>4
    <2>2. ms \in SUBSET ms
      OBVIOUS
    <2> HIDE DEF Clear
    <2>3. \E kept \in SUBSET valid : kept = {m \in valid : Clear(m, kept)}
      BY <1>2, <2>1, <2>2
    <2>4. apart \in SUBSET valid /\ apart = {m \in valid : Clear(m, apart)}
      BY <2>3
    <2> HIDE DEF apart, valid
    <2> QED
      BY <1>2, <2>1, <2>4
  <1>6. ASSUME NEW m \in ms PROVE Cardinality(Ahead(m)) < MentionCap
    <2> HIDE DEF apart
    <2>1. Ahead(m) \in SUBSET ms /\ m \notin Ahead(m)
      BY <1>1, <1>5
    <2> HIDE DEF Ahead
    <2>2. Cardinality(Ahead(m)) < Cardinality(ms) /\ Cardinality(ms) \in Nat /\ Cardinality(Ahead(m)) \in Nat
      <3>1. Cardinality(Ahead(m)) <= Cardinality(ms) /\ IsFiniteSet(Ahead(m))
        BY <2>1, FS_Subset
      <3>2. Cardinality(Ahead(m)) # Cardinality(ms)
        BY <2>1, FS_Subset
      <3>3. Cardinality(ms) \in Nat /\ Cardinality(Ahead(m)) \in Nat
        BY <3>1, FS_CardinalityType
      <3> QED
        BY <3>1, <3>2, <3>3
    <2> QED
      BY <2>2, ComposerAssumption
  <1>7. NormalizeMentions(b, ms) = {m \in apart : Cardinality(Ahead(m)) < MentionCap}
    BY DEF NormalizeMentions
  <1> HIDE DEF Ahead, apart
  <1> QED
    BY <1>5, <1>6, <1>7

Shown(who) == <<"at">> \o LabelOf[who]

LEMMA ShownIs ==
    ASSUME NEW who \in Tagged
    PROVE  /\ Shown(who) \in Seq(Characters) /\ Len(Shown(who)) = 1 + Len(LabelOf[who])
           /\ LabelOf[who] \in Seq(Characters) /\ Len(LabelOf[who]) \in Nat \ {0}
           /\ Shown(who)[1] = "at"
           /\ Shown(who)[Len(Shown(who))] = LabelOf[who][Len(LabelOf[who])]
  <1> DEFINE l == LabelOf[who]
             one == <<"at">>
  <1>1. l \in Seq(Characters) /\ l # <<>>
    BY ComposerAssumption
  <1>2. one \in Seq(Characters) /\ Len(one) = 1 /\ one[1] = "at"
    BY DEF Characters
  <1> HIDE DEF l, one
  <1>3. Len(l) \in Nat \ {0}
    BY <1>1, EmptySeq
  <1>4. /\ one \o l \in Seq(Characters) /\ Len(one \o l) = Len(one) + Len(l)
        /\ \A i \in 1..Len(one) + Len(l) :
             (one \o l)[i] = IF i <= Len(one) THEN one[i] ELSE l[i - Len(one)]
    BY <1>1, <1>2, ConcatProperties
  <1>5. (one \o l)[1] = "at"
    BY <1>2, <1>3, <1>4
  <1>6. (one \o l)[1 + Len(l)] = l[Len(l)]
    <2>1. 1 + Len(l) \in 1..1 + Len(l) /\ ~(1 + Len(l) <= 1) /\ 1 + Len(l) - 1 = Len(l)
      BY <1>3
    <2> QED
      BY <1>2, <1>4, <2>1
  <1>7. Shown(who) = one \o l
    BY DEF Shown, one, l
  <1> QED
    BY <1>1, <1>2, <1>3, <1>4, <1>5, <1>6, <1>7 DEF l

\* A mention of a text: the text shows it, all of it.
Names(b, m) == m.to = m.from + Len(Shown(m.who)) /\ Reads(b, m.from, Shown(m.who))

\* Some mentions that the text shows, apart from each other, and not too many.
Truthful(b, ms) ==
    /\ ms \in SUBSET Mention /\ IsFiniteSet(ms) /\ Cardinality(ms) <= MentionCap
    /\ \A m \in ms : Names(b, m)
    /\ Apart(ms)

LEMMA NamesValid ==
    ASSUME NEW b \in Seq(Characters), NEW m \in Mention, Names(b, m)
    PROVE  ValidFor(m, b) /\ m.from \in Nat /\ m.to \in Nat /\ m.from + 1 < m.to
  <1>1. m.from \in Nat /\ m.to \in Nat /\ m.who \in Tagged
    BY DEF Mention
  <1> DEFINE w == Shown(m.who)
  <1>2. Len(w) \in Nat /\ Len(w) > 1 /\ w[1] = "at"
    BY <1>1, ShownIs
  <1>3. m.to = m.from + Len(w) /\ m.from + Len(w) <= Len(b) /\ \A i \in 1..Len(w) : b[m.from + i] = w[i]
    BY DEF Names, Reads
  <1> HIDE DEF w
  <1>4. 1 \in 1..Len(w)
    BY <1>2
  <1> QED
    BY <1>1, <1>2, <1>3, <1>4 DEF ValidFor

LEMMA TruthfulKept ==
    ASSUME NEW b \in Seq(Characters), NEW ms, Truthful(b, ms)
    PROVE  NormalizeMentions(b, ms) = ms
  <1>1. \A m \in ms : ValidFor(m, b)
    BY NamesValid DEF Truthful
  <1> QED
    BY <1>1, NormalizeKeeps DEF Truthful

LEMMA TruthfulSome ==
    ASSUME NEW b, NEW ms, Truthful(b, ms), NEW some \in SUBSET ms
    PROVE  Truthful(b, some) /\ Cardinality(some) <= Cardinality(ms)
  <1>1. IsFiniteSet(some) /\ Cardinality(some) <= Cardinality(ms)
    BY FS_Subset DEF Truthful
  <1>2. Cardinality(some) \in Nat /\ Cardinality(ms) \in Nat /\ MentionCap \in Nat
    BY <1>1, FS_CardinalityType, ComposerAssumption DEF Truthful
  <1>3. Cardinality(some) <= MentionCap
    BY <1>1, <1>2 DEF Truthful
  <1> QED
    BY <1>1, <1>3 DEF Truthful, Apart

\* A word that an edit does not touch is read where it has gone.
LEMMA ReadsBefore ==
    ASSUME NEW b \in Seq(Characters), NEW text \in Seq(Characters), NEW lo \in Nat, NEW hi \in Nat,
           lo <= hi, hi <= Len(b), NEW from \in Nat, NEW w \in Seq(Characters),
           Reads(b, from, w), from + Len(w) <= lo
    PROVE  Reads(Splice(b, lo, hi, text), from, w)
  <1> DEFINE s == Splice(b, lo, hi, text)
  <1>1. Len(b) \in Nat /\ Len(text) \in Nat /\ Len(w) \in Nat
    OBVIOUS
  <1>2. Spliced(s, b, lo, hi, text)
    BY SpliceIs
  <1> HIDE DEF s
  <1>3. ASSUME NEW i \in 1..Len(w) PROVE s[from + i] = w[i]
    <2>1. from + i \in 1..lo
      BY <1>1
    <2> QED
      BY <1>2, <2>1 DEF Reads, Spliced
  <1>4. from + Len(w) <= Len(s)
    BY <1>1, <1>2 DEF Spliced
  <1> QED
    BY <1>3, <1>4 DEF Reads, s

LEMMA ReadsBehind ==
    ASSUME NEW b \in Seq(Characters), NEW text \in Seq(Characters), NEW lo \in Nat, NEW hi \in Nat,
           lo <= hi, hi <= Len(b), NEW from \in Nat, NEW w \in Seq(Characters),
           Reads(b, from, w), hi <= from
    PROVE  Reads(Splice(b, lo, hi, text), from - (hi - lo) + Len(text), w)
  <1> DEFINE s == Splice(b, lo, hi, text)
             now == from - (hi - lo) + Len(text)
  <1>1. Len(b) \in Nat /\ Len(text) \in Nat /\ Len(w) \in Nat
    OBVIOUS
  <1>2. Spliced(s, b, lo, hi, text)
    BY SpliceIs
  <1>3. from + Len(w) <= Len(b) /\ \A i \in 1..Len(w) : b[from + i] = w[i]
    BY DEF Reads
  <1> HIDE DEF s
  <1>4. ASSUME NEW i \in 1..Len(w) PROVE s[now + i] = w[i]
    <2> DEFINE k == from - hi + i
    <2>1. /\ k \in 1..(Len(b) - hi) /\ lo + Len(text) + k = now + i /\ hi + k = from + i
      BY <1>1, <1>3
    <2> HIDE DEF k, now
    <2> QED
      BY <1>2, <1>3, <2>1 DEF Spliced
  <1>5. now + Len(w) <= Len(s)
    BY <1>1, <1>2, <1>3 DEF Spliced
  <1> QED
    BY <1>4, <1>5 DEF Reads, s

LEMMA ReadsPut ==
    ASSUME NEW b \in Seq(Characters), NEW text \in Seq(Characters), NEW lo \in Nat, NEW hi \in Nat,
           lo <= hi, hi <= Len(b)
    PROVE  Reads(Splice(b, lo, hi, text), lo, text)
  <1> DEFINE s == Splice(b, lo, hi, text)
  <1>1. Len(b) \in Nat /\ Len(text) \in Nat
    OBVIOUS
  <1>2. Spliced(s, b, lo, hi, text)
    BY SpliceIs
  <1> HIDE DEF s
  <1> QED
    BY <1>1, <1>2 DEF Reads, s, Spliced

\* What an edit of lo..hi leaves of some mentions: they are shown by the new
\* text, apart from each other and from what was put in.
LEMMA MovedTruthful ==
    ASSUME NEW b \in Seq(Characters), NEW text \in Seq(Characters), NEW lo \in Nat, NEW hi \in Nat,
           lo <= hi, hi <= Len(b), NEW ms, Truthful(b, ms)
    PROVE  /\ Truthful(Splice(b, lo, hi, text), Moved(ms, lo, hi, Len(text)))
           /\ Cardinality(Moved(ms, lo, hi, Len(text))) <= Cardinality(ms)
           /\ \A m \in Moved(ms, lo, hi, Len(text)) : m.to <= lo \/ m.from >= lo + Len(text)
  <1> DEFINE s == Splice(b, lo, hi, text)
             added == Len(text)
             Shifted(m) == MovedBy(m, hi - lo, added)
             left == {m \in ms : m.to <= lo}
             right == {m \in ms : m.from >= hi}
             all == Moved(ms, lo, hi, added)
  <1>1. added \in Nat
    OBVIOUS
  <1>2. ASSUME NEW m \in ms
        PROVE  /\ m \in Mention /\ m.from \in Nat /\ m.to \in Nat /\ m.from < m.to /\ m.who \in Tagged
               /\ Names(b, m)
    <2>1. m \in Mention /\ Names(b, m)
      BY DEF Truthful
    <2>2. m.who \in Tagged
      BY <2>1 DEF Mention
    <2> QED
      BY <2>1, <2>2, NamesValid
  <1>3. ASSUME NEW m \in left PROVE Names(s, m)
    <2>1. m \in ms /\ m.to <= lo
      OBVIOUS
    <2>2. Shown(m.who) \in Seq(Characters)
      BY <1>2, <2>1, ShownIs
    <2>3. Reads(b, m.from, Shown(m.who)) /\ m.to = m.from + Len(Shown(m.who)) /\ m.from \in Nat
      BY <1>2, <2>1 DEF Names
    <2>4. Reads(s, m.from, Shown(m.who))
      BY <2>1, <2>2, <2>3, ReadsBefore
    <2> QED
      BY <2>3, <2>4 DEF Names
  <1>4. ASSUME NEW m \in right
        PROVE  /\ Shifted(m) \in Mention /\ Shifted(m).who = m.who
               /\ Shifted(m).from = m.from - (hi - lo) + added
               /\ Shifted(m).to = m.to - (hi - lo) + added
               /\ Names(s, Shifted(m))
    <2>1. m \in ms /\ m.from >= hi
      OBVIOUS
    <2>2. /\ m.from \in Nat /\ m.to \in Nat /\ m.from < m.to /\ m.who \in Tagged /\ m \in Mention
          /\ Names(b, m)
      BY <1>2, <2>1
    <2>3. /\ Shifted(m).who = m.who /\ Shifted(m).from = m.from - (hi - lo) + added
          /\ Shifted(m).to = m.to - (hi - lo) + added
      BY <2>2 DEF MovedBy, Mention
    <2>4. m.from - (hi - lo) + added \in Nat /\ m.to - (hi - lo) + added \in Nat
      BY <1>1, <2>1, <2>2
    <2>5. Shifted(m) \in Mention
      BY <2>2, <2>4 DEF MovedBy, Mention
    <2>6. Shown(m.who) \in Seq(Characters) /\ Len(Shown(m.who)) \in Nat
      BY <2>2, ShownIs
    <2>7. Reads(b, m.from, Shown(m.who)) /\ m.to = m.from + Len(Shown(m.who))
      BY <2>2 DEF Names
    <2>8. Reads(s, m.from - (hi - lo) + added, Shown(m.who))
      BY <2>1, <2>2, <2>6, <2>7, ReadsBehind
    <2>9. m.to - (hi - lo) + added = m.from - (hi - lo) + added + Len(Shown(m.who))
      BY <1>1, <2>2, <2>6, <2>7
    <2> QED
      BY <2>3, <2>5, <2>8, <2>9 DEF Names
  <1>5. ASSUME NEW m \in all PROVE m \in left \/ \E n \in right : m = Shifted(n)
    BY DEF Moved
  <1>6. all \in SUBSET Mention
    <2> SUFFICES ASSUME NEW m \in all PROVE m \in Mention
      OBVIOUS
    <2>1. CASE m \in left
      BY <1>2, <2>1
    <2>2. CASE \E n \in right : m = Shifted(n)
      BY <1>4, <2>2
    <2> QED
      BY <1>5, <2>1, <2>2
  <1>7. IsFiniteSet(all) /\ Cardinality(all) <= Cardinality(ms)
    <2> DEFINE rest == left \cup right
               f == [m \in rest |-> IF m \in left THEN m ELSE Shifted(m)]
    <2>1. rest \in SUBSET ms
      OBVIOUS
    <2>2. IsFiniteSet(rest) /\ Cardinality(rest) <= Cardinality(ms)
      BY <2>1, FS_Subset DEF Truthful
    <2>3. ASSUME NEW m \in right PROVE m \notin left
      <3>1. m \in ms /\ m.from >= hi
        OBVIOUS
      <3> QED
        BY <1>2, <3>1
    <2>4. f \in [rest -> all]
      BY DEF Moved
    <2>5. ASSUME NEW m \in all PROVE \E n \in rest : f[n] = m
      <3>1. CASE m \in left
        BY <3>1
      <3>2. CASE \E n \in right : m = Shifted(n)
        BY <2>3, <3>2
      <3> QED
        BY <1>5, <3>1, <3>2
    <2> HIDE DEF f, all, rest
    <2>6. f \in Surjection(rest, all)
      BY <2>4, <2>5 DEF Surjection
    <2>7. IsFiniteSet(all) /\ Cardinality(all) <= Cardinality(rest)
      BY <2>2, <2>6, FS_Surjection
    <2>8. Cardinality(all) \in Nat /\ Cardinality(rest) \in Nat /\ Cardinality(ms) \in Nat
      BY <2>2, <2>7, FS_CardinalityType DEF Truthful
    <2> QED
      BY <2>2, <2>7, <2>8
  <1>8. Cardinality(all) <= MentionCap
    <2>1. Cardinality(all) \in Nat /\ Cardinality(ms) \in Nat /\ MentionCap \in Nat
      BY <1>7, FS_CardinalityType, ComposerAssumption DEF Truthful
    <2> HIDE DEF all
    <2> QED
      BY <1>7, <2>1 DEF Truthful
  <1>9. ASSUME NEW m \in all PROVE Names(s, m) /\ (m.to <= lo \/ m.from >= lo + added)
    <2>1. CASE m \in left
      BY <1>3, <2>1
    <2>2. ASSUME NEW n \in right, m = Shifted(n) PROVE Names(s, m) /\ m.from >= lo + added
      <3>1. n \in ms /\ n.from >= hi /\ n.from \in Nat
        BY <1>2
      <3>2. n.from - (hi - lo) + added >= lo + added
        BY <1>1, <3>1
      <3> QED
        BY <1>4, <2>2, <3>2
    <2> QED
      BY <1>5, <2>1, <2>2
  <1>10. Apart(all)
    <2>1. \A m, n \in ms : m # n => m.to <= n.from \/ n.to <= m.from
      BY DEF Truthful, Apart
    <2>2. ASSUME NEW m \in left, NEW n \in right PROVE m.to <= Shifted(n).from
      <3>1. m \in ms /\ m.to <= lo /\ n \in ms /\ n.from >= hi
        OBVIOUS
      <3>2. m.to \in Nat /\ n.from \in Nat
        BY <1>2, <3>1
      <3>3. m.to <= n.from - (hi - lo) + added
        BY <1>1, <3>1, <3>2
      <3> QED
        BY <1>4, <3>3
    <2>3. ASSUME NEW m \in right, NEW n \in right, Shifted(m) # Shifted(n)
          PROVE  Shifted(m).to <= Shifted(n).from \/ Shifted(n).to <= Shifted(m).from
      <3>1. m \in ms /\ n \in ms /\ m # n
        BY <2>3
      <3>2. m.from \in Nat /\ m.to \in Nat /\ n.from \in Nat /\ n.to \in Nat
        BY <1>2, <3>1
      <3>3. m.to <= n.from \/ n.to <= m.from
        BY <2>1, <3>1
      <3>4. \/ m.to - (hi - lo) + added <= n.from - (hi - lo) + added
            \/ n.to - (hi - lo) + added <= m.from - (hi - lo) + added
        BY <1>1, <3>2, <3>3
      <3> QED
        BY <1>4, <3>4
    <2> SUFFICES ASSUME NEW m \in all, NEW n \in all, m # n
                 PROVE  m.to <= n.from \/ n.to <= m.from
      BY DEF Apart
    <2>4. CASE m \in left /\ n \in left
      <3>1. m \in ms /\ n \in ms
        BY <2>4
      <3> QED
        BY <2>1, <3>1
    <2>5. CASE m \in left /\ \E k \in right : n = Shifted(k)
      BY <2>2, <2>5
    <2>6. CASE n \in left /\ \E k \in right : m = Shifted(k)
      BY <2>2, <2>6
    <2>7. CASE (\E k \in right : m = Shifted(k)) /\ (\E k \in right : n = Shifted(k))
      BY <2>3, <2>7
    <2> QED
      BY <1>5, <2>4, <2>5, <2>6, <2>7
  <1> HIDE DEF all, s
  <1> QED
    BY <1>6, <1>7, <1>8, <1>9, <1>10 DEF Truthful, all, s

\* A composer that is in order: its cursor in the text, its mentions shown.
Intact(e) ==
    /\ e \in [body : Seq(Characters), cursor : Nat, mentions : SUBSET Mention]
    /\ e.cursor <= Len(e.body)
    /\ Truthful(e.body, e.mentions)

LEMMA NoMentions ==
    ASSUME NEW b
    PROVE  Truthful(b, {})
  <1>1. IsFiniteSet({}) /\ Cardinality({}) = 0
    BY FS_EmptySet
  <1>2. 0 <= MentionCap
    BY ComposerAssumption
  <1> QED
    BY <1>1, <1>2 DEF Truthful, Apart

LEMMA ReplaceIntact ==
    ASSUME NEW e, Intact(e), NEW text \in Seq(Characters), NEW lo \in Nat, NEW hi \in Nat,
           lo <= hi, hi <= Len(e.body)
    PROVE  /\ Intact(ReplaceRange(e, lo, hi, text))
           /\ ReplaceRange(e, lo, hi, text).body = Splice(e.body, lo, hi, text)
           /\ ReplaceRange(e, lo, hi, text).cursor = lo + Len(text)
           /\ ReplaceRange(e, lo, hi, text).mentions = Moved(e.mentions, lo, hi, Len(text))
  <1> DEFINE s == Splice(e.body, lo, hi, text)
             ms == Moved(e.mentions, lo, hi, Len(text))
             r == ReplaceRange(e, lo, hi, text)
  <1>1. e.body \in Seq(Characters) /\ Truthful(e.body, e.mentions)
    BY DEF Intact
  <1>2. s \in Seq(Characters) /\ Spliced(s, e.body, lo, hi, text)
    BY <1>1, SpliceIs
  <1>3. Truthful(s, ms)
    BY <1>1, MovedTruthful
  <1>4. NormalizeMentions(s, ms) = ms
    <2> HIDE DEF s, ms
    <2> QED
      BY <1>2, <1>3, TruthfulKept
  <1>5. r = [body |-> s, cursor |-> lo + Len(text), mentions |-> ms]
    BY <1>4 DEF ReplaceRange, Splice
  <1>6. ms \in SUBSET Mention
    BY <1>3 DEF Truthful
  <1> HIDE DEF s, ms, r
  <1>7. Len(text) \in Nat /\ Len(e.body) \in Nat
    BY <1>1
  <1>8. lo + Len(text) \in Nat /\ lo + Len(text) <= Len(s)
    BY <1>2, <1>7 DEF Spliced
  <1>9. Intact(r)
    BY <1>2, <1>3, <1>5, <1>6, <1>8 DEF Intact
  <1> QED
    BY <1>5, <1>9 DEF r, s, ms

LEMMA InsertIntact ==
    ASSUME NEW e, Intact(e), NEW text \in Seq(Characters)
    PROVE  /\ Intact(Insert(e, text))
           /\ Insert(e, text).body = Splice(e.body, e.cursor, e.cursor, text)
           /\ Insert(e, text).cursor = e.cursor + Len(text)
  <1> DEFINE apart == {m \in e.mentions : m.to # e.cursor}
             open  == IF MentionBoundary(Head(text)) THEN e ELSE [e EXCEPT !.mentions = apart]
  <1>1. /\ e \in [body : Seq(Characters), cursor : Nat, mentions : SUBSET Mention]
        /\ e.cursor <= Len(e.body) /\ Truthful(e.body, e.mentions)
    BY DEF Intact
  <1>2. Truthful(e.body, apart)
    BY <1>1, TruthfulSome
  <1>3. apart \in SUBSET Mention
    BY <1>1
  <1>4. Intact([e EXCEPT !.mentions = apart])
    <2> HIDE DEF apart
    <2> QED
      BY <1>1, <1>2, <1>3 DEF Intact
  <1>5. Intact(open) /\ open.body = e.body /\ open.cursor = e.cursor
    <2> HIDE DEF apart
    <2> QED
      BY <1>1, <1>4
  <1>6. Insert(e, text) = ReplaceRange(open, e.cursor, e.cursor, text)
    BY DEF Insert
  <1>7. e.cursor \in Nat /\ e.cursor <= Len(open.body) /\ e.cursor <= e.cursor
    BY <1>1, <1>5
  <1> HIDE DEF open
  <1>8. /\ Intact(ReplaceRange(open, e.cursor, e.cursor, text))
        /\ ReplaceRange(open, e.cursor, e.cursor, text).body
             = Splice(open.body, e.cursor, e.cursor, text)
        /\ ReplaceRange(open, e.cursor, e.cursor, text).cursor = e.cursor + Len(text)
    BY <1>5, <1>7, ReplaceIntact
  <1> QED
    BY <1>5, <1>6, <1>8

LEMMA AcceptIntact ==
    ASSUME NEW e, Intact(e), CanAccept(e), NEW lo \in Nat, NEW hi \in Nat, lo <= hi,
           hi <= Len(e.body), NEW who \in Tagged
    PROVE  /\ Intact(AcceptMention(e, lo, hi, who))
           /\ AcceptMention(e, lo, hi, who).body = Splice(e.body, lo, hi, Shown(who))
           /\ AcceptMention(e, lo, hi, who).cursor = lo + Len(Shown(who))
  <1> DEFINE w == Shown(who)
             s == Splice(e.body, lo, hi, w)
             ms == Moved(e.mentions, lo, hi, Len(w))
             put == ReplaceRange(e, lo, hi, w)
             mention == [from |-> lo, to |-> lo + Len(w), who |-> who]
             all == ms \cup {mention}
  <1>1. e.body \in Seq(Characters) /\ Truthful(e.body, e.mentions)
    BY DEF Intact
  <1>2. w \in Seq(Characters) /\ Len(w) \in Nat
    <2>1. w \in Seq(Characters)
      BY ShownIs
    <2> HIDE DEF w
    <2> QED
      BY <2>1
  <1>3. /\ Truthful(s, ms) /\ Cardinality(ms) <= Cardinality(e.mentions)
        /\ \A m \in ms : m.to <= lo \/ m.from >= lo + Len(w)
    <2> HIDE DEF w
    <2> QED
      BY <1>1, <1>2, MovedTruthful
  <1>4. /\ Intact(put) /\ put.body = s /\ put.cursor = lo + Len(w) /\ put.mentions = ms
    <2> HIDE DEF w
    <2> QED
      BY <1>2, ReplaceIntact
  <1>5. Reads(s, lo, w) /\ s \in Seq(Characters)
    <2> HIDE DEF w
    <2>1. Reads(s, lo, w)
      BY <1>1, <1>2, ReadsPut
    <2> QED
      BY <1>1, <1>2, <2>1, SpliceIs
  <1>6. mention \in Mention /\ Names(s, mention)
    <2> HIDE DEF s
    <2> QED
      BY <1>2, <1>5 DEF Mention, Names
  <1> HIDE DEF w, s, ms, put
  <1>7. IsFiniteSet(all) /\ Cardinality(all) <= MentionCap
    <2> HIDE DEF mention
    <2>1. /\ IsFiniteSet(all)
          /\ Cardinality(all) = IF mention \in ms THEN Cardinality(ms) ELSE Cardinality(ms) + 1
      BY <1>3, FS_AddElement DEF Truthful
    <2>2. Cardinality(ms) \in Nat /\ Cardinality(e.mentions) \in Nat /\ MentionCap \in Nat
      BY <1>1, <1>3, FS_CardinalityType, ComposerAssumption DEF Truthful
    <2>3. Cardinality(e.mentions) < MentionCap
      BY DEF CanAccept
    <2> QED
      BY <1>3, <2>1, <2>2, <2>3
  <1>8. Apart(all)
    <2>1. \A m, n \in ms : m # n => m.to <= n.from \/ n.to <= m.from
      BY <1>3 DEF Truthful, Apart
    <2>2. \A m \in ms : m.to <= mention.from \/ mention.to <= m.from
      <3> TAKE m \in ms
      <3>1. m.from \in Nat /\ (m.to <= lo \/ m.from >= lo + Len(w))
        BY <1>3 DEF Truthful, Mention
      <3> QED
        BY <1>2, <3>1
    <2> HIDE DEF mention
    <2> SUFFICES ASSUME NEW m \in all, NEW n \in all, m # n
                 PROVE  m.to <= n.from \/ n.to <= m.from
      BY DEF Apart
    <2>3. CASE m \in ms /\ n \in ms
      BY <2>1, <2>3
    <2>4. CASE m \in ms /\ n = mention
      BY <2>2, <2>4
    <2>5. CASE m = mention /\ n \in ms
      BY <2>2, <2>5
    <2> QED
      BY <2>3, <2>4, <2>5
  <1>9. Truthful(s, all)
    <2> HIDE DEF mention
    <2> QED
      BY <1>3, <1>6, <1>7, <1>8 DEF Truthful
  <1>10. NormalizeMentions(s, all) = all
    <2> HIDE DEF all
    <2> QED
      BY <1>5, <1>9, TruthfulKept
  <1>11. AcceptMention(e, lo, hi, who)
           = [put EXCEPT !.mentions = NormalizeMentions(put.body, put.mentions \cup {mention})]
    BY DEF AcceptMention, put, w, Shown
  <1>12. NormalizeMentions(put.body, put.mentions \cup {mention}) = all
    BY <1>4, <1>10
  <1>13. all \in SUBSET Mention
    BY <1>9 DEF Truthful
  <1> HIDE DEF all, mention
  <1>14. AcceptMention(e, lo, hi, who) = [put EXCEPT !.mentions = all]
    BY <1>11, <1>12
  <1>15. /\ put \in [body : Seq(Characters), cursor : Nat, mentions : SUBSET Mention]
         /\ put.cursor <= Len(put.body)
    BY <1>4 DEF Intact
  <1>16. /\ Intact(AcceptMention(e, lo, hi, who))
         /\ AcceptMention(e, lo, hi, who).body = s
         /\ AcceptMention(e, lo, hi, who).cursor = lo + Len(w)
    BY <1>4, <1>9, <1>13, <1>14, <1>15 DEF Intact
  <1> QED
    BY <1>16 DEF s, w

LEMMA SetDraftIntact ==
    ASSUME NEW d, d.body \in Seq(Characters), Truthful(d.body, d.mentions)
    PROVE  /\ Intact(SetDraft(d)) /\ SetDraft(d).body = d.body
           /\ SetDraft(d).cursor = Len(d.body)
  <1>1. NormalizeMentions(d.body, d.mentions) = d.mentions
    BY TruthfulKept
  <1>2. d.mentions \in SUBSET Mention
    BY DEF Truthful
  <1>3. Len(d.body) \in Nat
    OBVIOUS
  <1> QED
    BY <1>1, <1>2, <1>3 DEF SetDraft, Intact

\* Division with a remainder; a remainder grows until the next multiple.
LEMMA DivMod ==
    ASSUME NEW c \in Nat \ {0}, NEW x \in Nat
    PROVE  x \div c \in Nat /\ x % c \in 0..(c - 1) /\ x = c * (x \div c) + (x % c)
  <1>1. x \div c \in Nat
    OBVIOUS
  <1>2. x % c \in 0..(c - 1)
    <2>1. c \in Int /\ c > 0 /\ x \in Int
      OBVIOUS
    <2>2. x % c \in Int
      BY <2>1
    <2>3. 0 <= x % c
      BY <2>1
    <2>4. x % c < c
      BY <2>1
    <2> QED
      BY <2>1, <2>2, <2>3, <2>4
  <1>3. x = c * (x \div c) + (x % c)
    OBVIOUS
  <1> QED
    BY <1>1, <1>2, <1>3

LEMMA MultipleMod ==
    ASSUME NEW c \in Nat \ {0}, NEW q \in Nat
    PROVE  (c * q) % c = 0
  OBVIOUS

LEMMA ModStep ==
    ASSUME NEW c \in Nat \ {0}, NEW x \in Nat, NEW y \in Nat, x < y,
           \A z \in (x + 1)..y : z % c # 0
    PROVE  x % c < y % c
  <1> DEFINE q == x \div c
             r == x % c
             k == y \div c
             t == y % c
  <1>1. q \in Nat /\ r \in 0..(c - 1) /\ x = c * q + r
    BY DivMod
  <1>2. k \in Nat /\ t \in 0..(c - 1) /\ y = c * k + t
    BY DivMod
  <1> HIDE DEF q, r, k, t
  <1>3. q = k
    <2>1. CASE k < q
      <3>1. q = k + 1 + (q - k - 1) /\ q - k - 1 \in Nat
        BY <1>1, <1>2, <2>1
      <3> DEFINE d == q - k - 1
      <3>2. q = k + 1 + d /\ d \in Nat
        BY <3>1
      <3> HIDE DEF d
      <3>3. c * q = c * k + c + c * d
        BY <3>2, <1>2
      <3>4. c * d \in Nat /\ c * k \in Nat
        BY <3>2, <1>2
      <3> QED
        BY <1>1, <1>2, <3>3, <3>4
    <2>2. CASE q < k
      <3> DEFINE d == k - q - 1
                 z == c * k
      <3>2. k = q + 1 + d /\ d \in Nat
        BY <1>1, <1>2, <2>2
      <3> HIDE DEF d
      <3>3. z = c * q + c + c * d
        BY <3>2, <1>1
      <3>4. c * d \in Nat /\ c * q \in Nat
        BY <3>2, <1>1
      <3>5. z % c = 0
        BY <1>2, MultipleMod
      <3>6. y = z + t /\ z \in Nat
        BY <1>2
      <3> HIDE DEF z
      <3>7. z \in (x + 1)..y
        BY <1>1, <1>2, <3>3, <3>4, <3>6
      <3> QED
        BY <3>5, <3>7
    <2> QED
      BY <1>1, <1>2, <2>1, <2>2
  <1>4. y = c * q + t /\ c * q \in Nat
    BY <1>1, <1>2, <1>3
  <1>5. r < t
    BY <1>1, <1>2, <1>4
  <1> QED
    BY <1>5 DEF r, t

LEMMA LineStartIs ==
    ASSUME NEW b \in Seq(Characters), NEW i \in Nat
    PROVE  /\ LineStart(b, i) \in Nat /\ LineStart(b, i) <= i
           /\ LineStart(b, i) # 0 => LineStart(b, i) \in Places(b, "newline")
           /\ \A p \in Places(b, "newline") : p <= i => p <= LineStart(b, i)
  <1>1. Places(b, "newline") \in SUBSET (1..Len(b)) /\ Len(b) \in Nat
    BY DEF Places
  <1> DEFINE P == Places(b, "newline")
             l == LineStart(b, i)
  <1> HIDE DEF P
  <1>2. /\ l \in 0..Len(b) /\ l <= i /\ (l # 0 => l \in P)
        /\ \A p \in P : p <= i => p <= l
    BY <1>1, LastUptoIs DEF LineStart, P
  <1> HIDE DEF l
  <1>3. l \in Nat
    BY <1>1, <1>2
  <1> QED
    BY <1>2, <1>3 DEF l, P

\* Two positions of the same row are in one line, and no row begins between.
LEMMA SameRow ==
    ASSUME NEW b \in Seq(Characters), NEW j \in Nat, NEW i \in Nat, j < i, i <= Len(b),
           DisplayPosition(b, j).row = DisplayPosition(b, i).row
    PROVE  /\ b[j + 1] # "newline"
           /\ Column(b, j) < Column(b, i)
  <1> DEFINE Begun(k) == {p \in 1..k : Column(b, p) = 0}
             P == Places(b, "newline")
  <1>1. Begun(j) = Begun(i)
    <2>1. Begun(j) \in SUBSET Begun(i)
      OBVIOUS
    <2>2. IsFiniteSet(Begun(i))
      <3>1. Begun(i) \in SUBSET (1..i) /\ IsFiniteSet(1..i)
        BY FS_Interval
      <3> HIDE DEF Begun
      <3> QED
        BY <3>1, FS_Subset
    <2>3. Cardinality(Begun(j)) = Cardinality(Begun(i))
      BY DEF DisplayPosition
    <2> HIDE DEF Begun
    <2> QED
      BY <2>1, <2>2, <2>3, FS_Subset
  <1>2. ASSUME NEW p \in (j + 1)..i PROVE Column(b, p) # 0
    <2>1. p \in 1..i /\ p \notin 1..j
      OBVIOUS
    <2> QED
      BY <1>1, <2>1
  <1>3. ASSUME NEW p \in P PROVE p \in Nat /\ LineStart(b, p) = p /\ Column(b, p) = 0
    <2>1. p \in Nat
      BY DEF Places
    <2>2. LineStart(b, p) \in Nat /\ LineStart(b, p) <= p /\ p <= LineStart(b, p)
      BY <2>1, LineStartIs
    <2>3. LineStart(b, p) = p
      BY <2>1, <2>2
    <2>4. p - p = 0 /\ 0 % Cells = 0
      BY <2>1, ComposerAssumption
    <2> QED
      BY <2>1, <2>3, <2>4 DEF Column
  <1>4. \A p \in P : p <= i => p <= j
    <2> TAKE p \in P
    <2>1. p \in Nat /\ Column(b, p) = 0
      BY <1>3
    <2> QED
      BY <1>2, <2>1
  <1>5. b[j + 1] # "newline"
    <2>1. j + 1 \in 1..Len(b) /\ j + 1 <= i /\ ~(j + 1 <= j)
      OBVIOUS
    <2>2. j + 1 \notin P
      BY <1>4, <2>1
    <2> QED
      BY <2>1, <2>2 DEF Places
  <1> DEFINE L == LineStart(b, j)
  <1>6. ASSUME NEW k \in j..i PROVE LineStart(b, k) = L
    <2> DEFINE K == LineStart(b, k)
    <2>1. k \in Nat /\ j <= k /\ k <= i
      OBVIOUS
    <2>2. L \in Nat /\ L <= j /\ (L # 0 => L \in P) /\ \A p \in P : p <= j => p <= L
      BY LineStartIs
    <2>3. K \in Nat /\ K <= k /\ (K # 0 => K \in P) /\ \A p \in P : p <= k => p <= K
      BY <2>1, LineStartIs
    <2> HIDE DEF K, L, P
    <2>4. L <= K
      BY <2>1, <2>2, <2>3
    <2>5. K <= L
      BY <1>4, <2>1, <2>2, <2>3
    <2>6. K = L
      BY <2>2, <2>3, <2>4, <2>5
    <2> QED
      BY <2>6 DEF K
  <1>7. L \in Nat /\ L <= j
    BY LineStartIs
  <1>8. Column(b, j) = (j - L) % Cells
    BY DEF Column
  <1> HIDE DEF L
  <1>9. Column(b, i) = (i - L) % Cells
    BY <1>6 DEF Column
  <1> DEFINE x == j - L
             y == i - L
  <1>10. x \in Nat /\ y \in Nat /\ x < y
    BY <1>7
  <1>11. \A z \in (x + 1)..y : z % Cells # 0
    <2> TAKE z \in (x + 1)..y
    <2> DEFINE k == L + z
    <2>1. k \in (j + 1)..i /\ k \in j..i /\ k - L = z
      BY <1>7
    <2> HIDE DEF k
    <2>2. Column(b, k) # 0
      BY <1>2, <2>1
    <2>3. LineStart(b, k) = L
      BY <1>6, <2>1
    <2>4. Column(b, k) = (k - L) % Cells
      BY <2>3 DEF Column
    <2> QED
      BY <2>1, <2>2, <2>4
  <1> HIDE DEF x, y
  <1>12. x % Cells < y % Cells
    BY <1>10, <1>11, ModStep, ComposerAssumption
  <1> QED
    BY <1>5, <1>8, <1>9, <1>12 DEF x, y

\* Where a click leads is in the text.
LEMMA ClickIsIn ==
    ASSUME NEW b \in Seq(Characters), NEW row, NEW column
    PROVE  CursorFromDisplay(b, row, column) \in 0..Len(b)
  <1> DEFINE Cell(i) == DisplayPosition(b, i)
             there == {i \in 0..(Len(b) - 1) :
                         Cell(i).row = row /\ (Cell(i).column >= column \/ b[i + 1] = "newline")}
  <1>1. there \in SUBSET (0..(Len(b) - 1)) /\ Len(b) \in Nat
    OBVIOUS
  <1>2. CursorFromDisplay(b, row, column) = IF there = {} THEN Len(b) ELSE Min(there)
    BY DEF CursorFromDisplay
  <1> HIDE DEF there
  <1>3. there # {} => Min(there) \in there
    <2>1. there \in SUBSET Nat
      BY <1>1
    <2> QED
      BY <2>1, LeastIs
  <1>4. CASE there = {}
    BY <1>1, <1>2, <1>4
  <1>5. CASE there # {}
    <2>1. Min(there) \in 0..(Len(b) - 1)
      BY <1>1, <1>3, <1>5
    <2>2. CursorFromDisplay(b, row, column) = Min(there)
      BY <1>2, <1>5
    <2> DEFINE c == Min(there)
    <2> HIDE DEF c
    <2>3. c \in 0..Len(b)
      BY <1>1, <2>1 DEF c
    <2> QED
      BY <2>2, <2>3 DEF c
  <1> QED
    BY <1>4, <1>5

\* A click on the cell of a position leads to that position.
LEMMA ClickIsExact ==
    ASSUME NEW b \in Seq(Characters), NEW i \in 0..Len(b)
    PROVE  CursorFromDisplay(b, DisplayPosition(b, i).row, DisplayPosition(b, i).column) = i
  <1> DEFINE row == DisplayPosition(b, i).row
             column == DisplayPosition(b, i).column
             there == {j \in 0..(Len(b) - 1) :
                         /\ DisplayPosition(b, j).row = row
                         /\ DisplayPosition(b, j).column >= column \/ b[j + 1] = "newline"}
  <1>1. CursorFromDisplay(b, row, column) = IF there = {} THEN Len(b) ELSE Min(there)
    BY DEF CursorFromDisplay
  <1>2. Len(b) \in Nat /\ i \in Nat /\ i <= Len(b)
    OBVIOUS
  <1>3. \A k \in 0..Len(b) : DisplayPosition(b, k).column = Column(b, k) /\ Column(b, k) \in Nat
    <2> TAKE k \in 0..Len(b)
    <2>1. k \in Nat /\ LineStart(b, k) \in Nat /\ LineStart(b, k) <= k
      BY LineStartIs
    <2>2. k - LineStart(b, k) \in Nat
      BY <2>1
    <2>3. (k - LineStart(b, k)) % Cells \in Nat
      <3> DEFINE d == k - LineStart(b, k)
      <3> HIDE DEF d
      <3>1. d \in Nat
        BY <2>2 DEF d
      <3>2. d % Cells \in 0..(Cells - 1)
        BY <3>1, DivMod, ComposerAssumption
      <3> QED
        BY <3>2, ComposerAssumption DEF d
    <2> QED
      BY <2>3 DEF DisplayPosition, Column
  <1>4. ASSUME NEW j \in there PROVE j >= i
    <2>1. j \in Nat /\ j < Len(b) /\ j \in 0..Len(b) /\ DisplayPosition(b, j).row = row
      BY <1>2
    <2>2. DisplayPosition(b, j).column >= column \/ b[j + 1] = "newline"
      OBVIOUS
    <2>3. ASSUME j < i PROVE FALSE
      <3>1. b[j + 1] # "newline" /\ Column(b, j) < Column(b, i)
        BY <1>2, <2>1, <2>3, SameRow
      <3>2. Column(b, j) >= Column(b, i)
        BY <1>3, <2>1, <2>2, <3>1
      <3> QED
        BY <1>3, <2>1, <3>1, <3>2
    <2> QED
      BY <1>2, <2>1, <2>3
  <1>5. CASE i = Len(b)
    <2>1. there = {}
      <3> SUFFICES ASSUME NEW j \in there PROVE FALSE
        OBVIOUS
      <3>1. j \in 0..(Len(b) - 1)
        OBVIOUS
      <3> QED
        BY <1>2, <1>4, <1>5, <3>1
    <2> QED
      BY <1>1, <1>5, <2>1
  <1>6. CASE i < Len(b)
    <2>1. column >= column
      <3>1. column \in Nat
        BY <1>3
      <3> QED
        BY <3>1
    <2>2. i \in there
      BY <1>2, <1>6, <2>1
    <2>3. there \in SUBSET Nat
      OBVIOUS
    <2> HIDE DEF there, row, column
    <2>4. Min(there) \in there /\ Min(there) <= i
      BY <2>2, <2>3, LeastIs
    <2>5. Min(there) >= i /\ Min(there) \in Nat
      BY <1>4, <2>3, <2>4
    <2>6. Min(there) = i
      BY <1>2, <2>4, <2>5
    <2>7. CursorFromDisplay(b, row, column) = i
      BY <1>1, <2>2, <2>6
    <2> QED
      BY <2>7 DEF row, column
  <1> QED
    BY <1>2, <1>5, <1>6

\* Every position is in one of the rows kept for the text.
LEMMA RowIsKept ==
    ASSUME NEW b \in Seq(Characters), NEW i \in 0..Len(b)
    PROVE  DisplayPosition(b, i).row < DisplayRows(b)
  <1> DEFINE Begun(k) == {p \in 1..k : Column(b, p) = 0}
  <1>1. Begun(Len(b)) \in SUBSET (1..Len(b)) /\ IsFiniteSet(1..Len(b))
    BY FS_Interval
  <1>2. Begun(i) \in SUBSET Begun(Len(b))
    OBVIOUS
  <1>3. DisplayPosition(b, i).row = Cardinality(Begun(i))
    BY DEF DisplayPosition
  <1>4. DisplayRows(b) = Cardinality(Begun(Len(b))) + 1
    BY DEF DisplayRows, DisplayPosition
  <1> HIDE DEF Begun
  <1>5. IsFiniteSet(Begun(Len(b)))
    BY <1>1, FS_Subset
  <1>6. IsFiniteSet(Begun(i)) /\ Cardinality(Begun(i)) <= Cardinality(Begun(Len(b)))
    BY <1>2, <1>5, FS_Subset
  <1>7. Cardinality(Begun(i)) \in Nat /\ Cardinality(Begun(Len(b))) \in Nat
    BY <1>5, <1>6, FS_CardinalityType
  <1> QED
    BY <1>3, <1>4, <1>6, <1>7

LEMMA AtAndWord ==
    ASSUME NEW l \in Seq(Characters)
    PROVE  /\ <<"at">> \o l \in Seq(Characters) /\ Len(<<"at">> \o l) = 1 + Len(l)
           /\ (<<"at">> \o l)[1] = "at"
           /\ \A i \in 1..Len(l) : (<<"at">> \o l)[1 + i] = l[i]
  <1> DEFINE one == <<"at">>
  <1>1. one \in Seq(Characters) /\ Len(one) = 1 /\ one[1] = "at"
    BY DEF Characters
  <1>2. Len(l) \in Nat
    OBVIOUS
  <1> HIDE DEF one
  <1>3. /\ one \o l \in Seq(Characters) /\ Len(one \o l) = Len(one) + Len(l)
        /\ \A i \in 1..Len(one) + Len(l) :
             (one \o l)[i] = IF i <= Len(one) THEN one[i] ELSE l[i - Len(one)]
    BY <1>1, ConcatProperties
  <1>4. (one \o l)[1] = "at"
    BY <1>1, <1>2, <1>3
  <1>5. \A i \in 1..Len(l) : (one \o l)[1 + i] = l[i]
    <2> TAKE i \in 1..Len(l)
    <2>1. 1 + i \in 1..1 + Len(l) /\ ~(1 + i <= 1) /\ 1 + i - 1 = i
      BY <1>2
    <2> QED
      BY <1>1, <1>3, <2>1
  <1> QED
    BY <1>1, <1>3, <1>4, <1>5 DEF one

\* A picker that is open is open for a word of the text.
Picked(p, b) ==
    p # NoPicker =>
        /\ p.from \in Nat /\ p.to \in Nat /\ p.from < p.to /\ p.to <= Len(b)
        /\ p.query \in Seq(Characters) /\ p.to = p.from + (1 + Len(p.query))
        /\ Reads(b, p.from, <<"at">> \o p.query)

LEMMA ActiveIsPicked ==
    ASSUME NEW e, e.body \in Seq(Characters), e.cursor \in 0..Len(e.body)
    PROVE  Picked(ActiveMention(e), e.body)
  <1> DEFINE b == e.body
             at == LastUpto(Places(b, "at"), e.cursor)
             prefix == Between(b, at, e.cursor)
             word == <<"at">> \o prefix
             p == ActiveMention(e)
  <1> SUFFICES ASSUME p # NoPicker
               PROVE  /\ p.from \in Nat /\ p.to \in Nat /\ p.from < p.to /\ p.to <= Len(b)
                      /\ p.query \in Seq(Characters) /\ p.to = p.from + (1 + Len(p.query))
                      /\ Reads(b, p.from, <<"at">> \o p.query)
    BY DEF Picked
  <1>1. p = [from |-> at - 1, to |-> e.cursor, query |-> prefix] /\ at # 0
    BY DEF ActiveMention
  <1>2. Len(b) \in Nat /\ e.cursor \in Nat /\ e.cursor <= Len(b) /\ b \in Seq(Characters)
    OBVIOUS
  <1>3. at \in 1..Len(b) /\ at <= e.cursor /\ b[at] = "at"
    <2>1. Places(b, "at") \in SUBSET (1..Len(b))
      BY DEF Places
    <2> DEFINE P == Places(b, "at")
    <2> HIDE DEF P, b
    <2>2. at \in 0..Len(b) /\ at <= e.cursor /\ at \in P
      BY <1>1, <1>2, <2>1, LastUptoIs DEF P
    <2> HIDE DEF at
    <2>3. b[at] = "at" /\ at \in 1..Len(b)
      BY <2>2 DEF P, Places
    <2> QED
      BY <2>2, <2>3
  <1> HIDE DEF b, at
  <1>4. at \in Nat /\ at <= e.cursor
    BY <1>2, <1>3
  <1>5. /\ prefix \in Seq(Characters) /\ Len(prefix) = e.cursor - at
        /\ \A i \in 1..(e.cursor - at) : prefix[i] = b[at + i]
    BY <1>2, <1>4, BetweenIs
  <1> HIDE DEF prefix, p
  <1>6. /\ word \in Seq(Characters) /\ Len(word) = 1 + Len(prefix) /\ word[1] = "at"
        /\ \A i \in 1..Len(prefix) : word[1 + i] = prefix[i]
    BY <1>5, AtAndWord
  <1> HIDE DEF word
  <1>7. \A i \in 1..Len(word) : b[at - 1 + i] = word[i]
    <2> TAKE i \in 1..Len(word)
    <2>1. CASE i = 1
      <3>1. at - 1 + 1 = at
        BY <1>4
      <3> QED
        BY <1>3, <1>6, <2>1, <3>1
    <2>2. CASE i # 1
      <3> DEFINE k == i - 1
      <3>1. k \in 1..(e.cursor - at) /\ i = 1 + k /\ at - 1 + i = at + k
        BY <1>2, <1>4, <1>5, <1>6, <2>2
      <3> HIDE DEF k
      <3> QED
        BY <1>5, <1>6, <3>1
    <2> QED
      BY <2>1, <2>2
  <1>8. at - 1 + Len(word) <= Len(b)
    BY <1>2, <1>4, <1>5, <1>6
  <1>9. Reads(b, at - 1, word)
    BY <1>7, <1>8 DEF Reads
  <1>10. p.from = at - 1 /\ p.to = e.cursor /\ p.query = prefix
    BY <1>1
  <1>11. at - 1 \in Nat /\ at - 1 < e.cursor /\ e.cursor = at - 1 + (1 + Len(prefix))
    BY <1>2, <1>3, <1>4, <1>5
  <1> QED
    BY <1>2, <1>5, <1>9, <1>10, <1>11 DEF word

\* What is written behind a text leaves the words of the text where they are.
Extends(longer, b) ==
    Len(longer) >= Len(b) /\ \A i \in 1..Len(b) : longer[i] = b[i]

LEMMA PickedInLonger ==
    ASSUME NEW b \in Seq(Characters), NEW longer \in Seq(Characters), Extends(longer, b),
           NEW p, Picked(p, b)
    PROVE  Picked(p, longer)
  <1> SUFFICES ASSUME p # NoPicker
               PROVE  p.to <= Len(longer) /\ Reads(longer, p.from, <<"at">> \o p.query)
    BY DEF Picked
  <1>1. /\ p.from \in Nat /\ p.to \in Nat /\ p.to <= Len(b) /\ p.query \in Seq(Characters)
        /\ Reads(b, p.from, <<"at">> \o p.query)
    BY DEF Picked
  <1> DEFINE w == <<"at">> \o p.query
  <1>2. w \in Seq(Characters)
    BY <1>1, AtAndWord
  <1> HIDE DEF w
  <1>3. Len(b) \in Nat /\ Len(longer) \in Nat /\ Len(w) \in Nat
    BY <1>2
  <1>4. p.from + Len(w) <= Len(b) /\ \A i \in 1..Len(w) : b[p.from + i] = w[i]
    BY <1>1 DEF w, Reads
  <1>5. \A i \in 1..Len(w) : longer[p.from + i] = w[i]
    <2> TAKE i \in 1..Len(w)
    <2>1. p.from + i \in 1..Len(b)
      BY <1>1, <1>3, <1>4
    <2> QED
      BY <1>4, <2>1 DEF Extends
  <1>6. p.from + Len(w) <= Len(longer) /\ p.to <= Len(longer)
    BY <1>1, <1>3, <1>4 DEF Extends
  <1> QED
    BY <1>5, <1>6 DEF Reads, w

LEMMA SpliceExtends ==
    ASSUME NEW b \in Seq(Characters), NEW text \in Seq(Characters)
    PROVE  /\ Splice(b, Len(b), Len(b), text) \in Seq(Characters)
           /\ Len(Splice(b, Len(b), Len(b), text)) = Len(b) + Len(text)
           /\ Extends(Splice(b, Len(b), Len(b), text), b)
  <1> DEFINE n == Len(b)
             s == Splice(b, n, n, text)
  <1>1. n \in Nat /\ n <= n /\ Len(text) \in Nat
    OBVIOUS
  <1>2. s \in Seq(Characters) /\ Spliced(s, b, n, n, text)
    BY <1>1, SpliceIs
  <1> HIDE DEF s
  <1>3. Len(s) = n + Len(text) + (n - n) /\ \A i \in 1..n : s[i] = b[i]
    BY <1>2 DEF Spliced
  <1>4. Len(s) = n + Len(text) /\ Len(s) >= n
    BY <1>1, <1>3
  <1> QED
    BY <1>2, <1>3, <1>4 DEF s, Extends

\* Every mention of a text that can be sent tags its person.
LEMMA TakenAreAll ==
    ASSUME NEW e, Intact(e), LabelsEndInWords
    PROVE  TakenMentions(e) = {m.who : m \in e.mentions}
  <1> DEFINE b == e.body
             W == Words(b)
             lo == FirstAfter(W, 0, Len(b) + 1) - 1
             hi == LastUpto(W, Len(b))
  <1>1. b \in Seq(Characters) /\ Truthful(b, e.mentions)
    BY DEF Intact
  <1>2. Len(b) \in Nat /\ W \in SUBSET (1..Len(b))
    BY <1>1 DEF Words
  <1>3. \A p \in W : hi >= p
    <2> HIDE DEF W, b
    <2>1. \A p \in W : p <= Len(b) => p <= hi
      BY <1>2, LastUptoIs
    <2>2. hi \in 0..Len(b)
      BY <1>2, LastUptoIs
    <2> HIDE DEF hi
    <2> QED
      BY <1>2, <2>1, <2>2
  <1>4. \A p \in W : lo + 1 <= p /\ lo \in Int
    <2> DEFINE f == FirstAfter(W, 0, Len(b) + 1)
    <2> HIDE DEF W, b
    <2>1. W \in SUBSET Nat /\ Len(b) + 1 \in Nat /\ 0 \in Nat
      BY <1>2
    <2>2. f \in Nat /\ \A p \in W : p > 0 => f <= p
      BY <2>1, FirstAfterIs
    <2>3. lo = f - 1
      OBVIOUS
    <2> HIDE DEF f, lo
    <2> QED
      BY <1>2, <2>2, <2>3
  <1>5. ASSUME NEW m \in e.mentions
        PROVE  m.from >= lo /\ m.to <= hi /\ ValidFor(m, b)
    <2>1. m \in Mention /\ Names(b, m)
      BY <1>1 DEF Truthful
    <2>2. /\ ValidFor(m, b) /\ m.from \in Nat /\ m.to \in Nat /\ m.from + 1 < m.to
          /\ m.who \in Tagged
      <3>1. m.who \in Tagged
        BY <2>1 DEF Mention
      <3> QED
        BY <1>1, <2>1, <3>1, NamesValid
    <2>3. m.from + 1 \in W
      <3>1. m.from + 1 \in 1..Len(b) /\ b[m.from + 1] = "at"
        BY <1>2, <2>2 DEF ValidFor
      <3> QED
        BY <3>1 DEF Words, IsWord, IsWhitespace
    <2>4. m.to \in W
      <3> DEFINE w == Shown(m.who)
      <3>1. Len(w) \in Nat /\ Len(w) >= 1 /\ IsWord(w[Len(w)])
        <4>1. /\ Len(w) = 1 + Len(LabelOf[m.who]) /\ Len(LabelOf[m.who]) \in Nat
              /\ w[Len(w)] = LabelOf[m.who][Len(LabelOf[m.who])]
          BY <2>2, ShownIs
        <4>2. IsWord(LabelOf[m.who][Len(LabelOf[m.who])])
          BY <2>2 DEF LabelsEndInWords
        <4> HIDE DEF w
        <4>3. IsWord(w[Len(w)])
          BY <4>1, <4>2
        <4> QED
          BY <4>1, <4>3
      <3>2. m.to = m.from + Len(w) /\ \A i \in 1..Len(w) : b[m.from + i] = w[i]
        BY <2>1 DEF Names, Reads
      <3> HIDE DEF w
      <3>3. Len(w) \in 1..Len(w)
        BY <3>1
      <3>4. b[m.to] = w[Len(w)]
        BY <3>2, <3>3
      <3>5. m.to \in 1..Len(b)
        BY <1>2, <2>2 DEF ValidFor
      <3> QED
        BY <3>1, <3>4, <3>5 DEF Words
    <2> HIDE DEF W, lo, hi, b
    <2>5. lo + 1 <= m.from + 1 /\ lo \in Int /\ m.to <= hi
      BY <1>3, <1>4, <2>3, <2>4
    <2> QED
      BY <2>2, <2>5
  <1>6. TakenMentions(e) = {m.who : m \in {n \in e.mentions : n.from >= lo /\ n.to <= hi /\ ValidFor(n, b)}}
    BY DEF TakenMentions
  <1> HIDE DEF lo, hi, b
  <1>7. {n \in e.mentions : n.from >= lo /\ n.to <= hi /\ ValidFor(n, b)} = e.mentions
    BY <1>5
  <1> QED
    BY <1>6, <1>7

\* The inductive invariant: the composer and the saved draft are in order, and
\* an open picker is open for a word of the text.
ComposerInv ==
    /\ Intact(composer)
    /\ savedDraft.body \in Seq(Characters) /\ Truthful(savedDraft.body, savedDraft.mentions)
    /\ Picked(picker, composer.body)

LEMMA EditKeeps ==
    Intact(composer)' /\ picker' = ActiveMention(composer') /\ PersistDraft => ComposerInv'
  <1> SUFFICES ASSUME Intact(composer)', picker' = ActiveMention(composer'), PersistDraft
               PROVE  ComposerInv'
    OBVIOUS
  <1> DEFINE e == composer'
             d == savedDraft'
  <1>1. /\ e \in [body : Seq(Characters), cursor : Nat, mentions : SUBSET Mention]
        /\ e.cursor <= Len(e.body) /\ Truthful(e.body, e.mentions)
    BY DEF Intact
  <1>2. d.body = e.body /\ d.mentions = e.mentions
    BY DEF PersistDraft
  <1>3. Picked(picker', e.body)
    <2> HIDE DEF e
    <2>1. e.body \in Seq(Characters) /\ e.cursor \in 0..Len(e.body)
      BY <1>1
    <2>2. Picked(ActiveMention(e), e.body)
      BY <2>1, ActiveIsPicked
    <2> QED
      BY <2>2 DEF e
  <1> QED
    BY <1>1, <1>2, <1>3 DEF ComposerInv

LEMMA ComposerStarts ==
    ComposerInit => ComposerInv
  <1> SUFFICES ASSUME ComposerInit PROVE ComposerInv
    OBVIOUS
  <1>1. <<>> \in Seq(Characters) /\ Len(<<>>) = 0
    OBVIOUS
  <1>2. Truthful(<<>>, {})
    BY NoMentions
  <1>3. Intact(composer)
    BY <1>1, <1>2 DEF ComposerInit, Intact
  <1>4. savedDraft.body = <<>> /\ savedDraft.mentions = {} /\ picker = NoPicker
    BY DEF ComposerInit, Unwritten
  <1> QED
    BY <1>1, <1>2, <1>3, <1>4 DEF ComposerInv, Picked

LEMMA InsertKeeps ==
    ASSUME ComposerInv, NEW text \in Seq(Characters), Edit(Insert(composer, text))
    PROVE  ComposerInv'
  <1>1. Intact(composer)
    BY DEF ComposerInv
  <1> DEFINE e == Insert(composer, text)
  <1>2. Intact(e)
    <2> DEFINE c == composer
    <2> HIDE DEF c
    <2>1. Intact(Insert(c, text))
      BY <1>1, InsertIntact DEF c
    <2> QED
      BY <2>1 DEF c
  <1>3. composer' = e /\ picker' = ActiveMention(e) /\ PersistDraft
    BY DEF Edit
  <1> HIDE DEF e
  <1> QED
    BY <1>2, <1>3, EditKeeps

\* Deleting lo..hi.
LEMMA DeleteKeeps ==
    ASSUME ComposerInv, NEW lo \in Nat, NEW hi \in Nat, lo <= hi, hi <= Len(composer.body),
           Edit(ReplaceRange(composer, lo, hi, <<>>))
    PROVE  ComposerInv'
  <1>1. Intact(composer)
    BY DEF ComposerInv
  <1> DEFINE e == ReplaceRange(composer, lo, hi, <<>>)
  <1>2. Intact(e)
    <2> DEFINE c == composer
               none == <<>>
    <2>1. none \in Seq(Characters)
      OBVIOUS
    <2>2. Intact(c) /\ hi <= Len(c.body)
      BY <1>1
    <2> HIDE DEF c, none
    <2>3. Intact(ReplaceRange(c, lo, hi, none))
      BY <2>1, <2>2, ReplaceIntact
    <2> QED
      BY <2>3 DEF c, none
  <1>3. composer' = e /\ picker' = ActiveMention(e) /\ PersistDraft
    BY DEF Edit
  <1> HIDE DEF e
  <1> QED
    BY <1>2, <1>3, EditKeeps

\* The cursor goes elsewhere in the text.
LEMMA CursorIntact ==
    ASSUME NEW e, Intact(e), NEW to \in 0..Len(e.body)
    PROVE  Intact([e EXCEPT !.cursor = to])
  <1>1. Len(e.body) \in Nat
    BY DEF Intact
  <1>2. to \in Nat /\ to <= Len(e.body)
    BY <1>1
  <1> QED
    BY <1>2 DEF Intact

LEMMA CursorKeeps ==
    ASSUME ComposerInv, NEW to \in 0..Len(composer.body), Edit([composer EXCEPT !.cursor = to])
    PROVE  ComposerInv'
  <1>1. Intact(composer)
    BY DEF ComposerInv
  <1> DEFINE e == [composer EXCEPT !.cursor = to]
  <1>2. Intact(e)
    <2> DEFINE c == composer
    <2>1. Intact(c) /\ to \in 0..Len(c.body)
      BY <1>1
    <2> HIDE DEF c
    <2>2. Intact([c EXCEPT !.cursor = to])
      BY <2>1, CursorIntact
    <2> QED
      BY <2>2 DEF c
  <1>3. composer' = e /\ picker' = ActiveMention(e) /\ PersistDraft
    BY DEF Edit
  <1> HIDE DEF e
  <1> QED
    BY <1>2, <1>3, EditKeeps

LEMMA UnmovedKeeps ==
    ASSUME ComposerInv, Edit(composer)
    PROVE  ComposerInv'
  <1>1. composer' = composer /\ picker' = ActiveMention(composer) /\ PersistDraft
    BY DEF Edit
  <1>2. Intact(composer)'
    BY <1>1 DEF ComposerInv, Intact
  <1> QED
    BY <1>1, <1>2, EditKeeps

LEMMA ClickKeeps ==
    ASSUME ComposerInv, Click
    PROVE  ComposerInv'
  <1>1. PICK row \in 0..(DisplayRows(composer.body) - 1), column \in 0..(Cells - 1) :
            LET e == [composer EXCEPT !.cursor = CursorFromDisplay(composer.body, row, column)]
            IN  composer' = e /\ picker' = ActiveMention(e)
    BY DEF Click
  <1> DEFINE c == composer
             to == CursorFromDisplay(c.body, row, column)
             e == [c EXCEPT !.cursor = to]
  <1>2. Intact(c) /\ c.body \in Seq(Characters)
    BY DEF ComposerInv, Intact
  <1>3. composer' = e /\ picker' = ActiveMention(e) /\ e.body = c.body
    BY <1>1, <1>2 DEF Intact
  <1>4. savedDraft' = savedDraft
    BY DEF Click
  <1> HIDE DEF c
  <1>5. to \in 0..Len(c.body)
    BY <1>2, ClickIsIn
  <1> HIDE DEF to
  <1>6. Intact(e)
    BY <1>2, <1>5, CursorIntact
  <1> HIDE DEF e
  <1>7. Picked(ActiveMention(e), e.body)
    <2>1. e.body \in Seq(Characters) /\ e.cursor \in Nat /\ e.cursor <= Len(e.body)
      BY <1>6 DEF Intact
    <2>2. e.cursor \in 0..Len(e.body)
      BY <2>1
    <2> QED
      BY <2>1, <2>2, ActiveIsPicked
  <1> QED
    BY <1>3, <1>4, <1>6, <1>7 DEF ComposerInv

LEMMA AcceptKeeps ==
    ASSUME ComposerInv, Accept
    PROVE  ComposerInv'
  <1>1. picker # NoPicker /\ picker' = NoPicker /\ PersistDraft
    BY DEF Accept
  <1>2. /\ Intact(composer) /\ picker.from \in Nat /\ picker.to \in Nat /\ picker.from <= picker.to
        /\ picker.to <= Len(composer.body)
    BY <1>1 DEF ComposerInv, Picked
  <1>3. Intact(composer)'
    <2>1. CASE composer' = composer
      BY <1>2, <2>1 DEF Intact
    <2>2. ASSUME CanAccept(composer),
                 NEW who \in MentionCandidates(picker.query),
                 composer' = AcceptMention(composer, picker.from, picker.to, who)
          PROVE  Intact(composer)'
      <3> DEFINE c == composer
                 lo == picker.from
                 hi == picker.to
      <3>1. who \in Tagged
        BY <2>2 DEF MentionCandidates
      <3>2. Intact(c) /\ CanAccept(c) /\ lo \in Nat /\ hi \in Nat /\ lo <= hi /\ hi <= Len(c.body)
        BY <1>2, <2>2
      <3> HIDE DEF c, lo, hi
      <3>3. Intact(AcceptMention(c, lo, hi, who))
        BY <3>1, <3>2, AcceptIntact
      <3> QED
        BY <2>2, <3>3 DEF c, lo, hi
    <2> QED
      BY <2>1, <2>2 DEF Accept
  <1>4. Picked(picker, composer.body)'
    BY <1>1 DEF Picked
  <1>5. savedDraft'.body = composer'.body /\ savedDraft'.mentions = composer'.mentions
    BY <1>1 DEF PersistDraft
  <1> QED
    BY <1>3, <1>4, <1>5 DEF ComposerInv, Intact

\* What is written behind a text.
LEMMA WriteOn ==
    ASSUME NEW e, Intact(e), e.cursor = Len(e.body), NEW text \in Seq(Characters)
    PROVE  /\ Intact(Insert(e, text)) /\ Extends(Insert(e, text).body, e.body)
           /\ Insert(e, text).cursor = Len(Insert(e, text).body)
  <1>1. e.body \in Seq(Characters)
    BY DEF Intact
  <1> DEFINE s == Splice(e.body, Len(e.body), Len(e.body), text)
  <1>2. Len(s) = Len(e.body) + Len(text) /\ Extends(s, e.body)
    BY <1>1, SpliceExtends
  <1>3. /\ Intact(Insert(e, text)) /\ Insert(e, text).body = s
        /\ Insert(e, text).cursor = Len(e.body) + Len(text)
    BY InsertIntact
  <1> HIDE DEF s
  <1> QED
    BY <1>2, <1>3

LEMMA TagBehind ==
    ASSUME NEW e, Intact(e), CanAccept(e), e.cursor = Len(e.body), NEW who \in Tagged
    PROVE  LET put == AcceptMention(e, e.cursor, e.cursor, who)
           IN  /\ Intact(put) /\ Extends(put.body, e.body) /\ put.cursor = Len(put.body)
  <1>1. e.body \in Seq(Characters) /\ Shown(who) \in Seq(Characters)
    BY ShownIs DEF Intact
  <1> DEFINE w == Shown(who)
             n == e.cursor
             put == AcceptMention(e, n, n, who)
             s == Splice(e.body, n, n, w)
  <1>2. n \in Nat /\ n <= n /\ n <= Len(e.body)
    BY <1>1
  <1>3. Len(s) = Len(e.body) + Len(w) /\ Extends(s, e.body)
    <2> HIDE DEF w
    <2> QED
      BY <1>1, SpliceExtends DEF w
  <1>4. Intact(put) /\ put.body = s /\ put.cursor = n + Len(w)
    <2> HIDE DEF put
    <2> QED
      BY <1>2, AcceptIntact DEF put
  <1> HIDE DEF w, s, put
  <1>5. Intact(put) /\ Extends(put.body, e.body) /\ put.cursor = Len(put.body)
    BY <1>3, <1>4
  <1> QED
    BY <1>5 DEF put

LEMMA ExtendsOn ==
    ASSUME NEW a \in Seq(Characters), NEW b \in Seq(Characters), NEW c \in Seq(Characters),
           Extends(b, a), Extends(c, b)
    PROVE  Extends(c, a)
  <1>1. Len(a) \in Nat /\ Len(b) \in Nat /\ Len(c) \in Nat
    OBVIOUS
  <1>2. Len(b) >= Len(a) /\ Len(c) >= Len(b)
    BY DEF Extends
  <1>3. \A i \in 1..Len(a) : c[i] = a[i]
    <2> TAKE i \in 1..Len(a)
    <2>1. i \in 1..Len(b)
      BY <1>1, <1>2
    <2> QED
      BY <2>1 DEF Extends
  <1>4. Len(c) >= Len(a)
    BY <1>1, <1>2
  <1> QED
    BY <1>3, <1>4 DEF Extends

LEMMA ExtendsItself ==
    ASSUME NEW b \in Seq(Characters)
    PROVE  Extends(b, b)
  <1>1. Len(b) \in Nat
    OBVIOUS
  <1>2. Len(b) >= Len(b)
    BY <1>1
  <1> QED
    BY <1>2 DEF Extends

LEMMA SelectedKeeps ==
    ASSUME ComposerInv, NEW who \in Tagged, MentionSelectedAgent(who)
    PROVE  ComposerInv'
  <1> DEFINE loaded == SetDraft(savedDraft)
             open   == IF loaded.body # <<>> /\ IsWord(loaded.body[Len(loaded.body)])
                       THEN Insert(loaded, <<"blank">>) ELSE loaded
             put    == AcceptMention(open, open.cursor, open.cursor, who)
             tagged == Insert(put, <<"blank">>)
             blank  == <<"blank">>
  <1>1. blank \in Seq(Characters)
    BY DEF Characters
  <1>2. Intact(loaded) /\ loaded.cursor = Len(loaded.body) /\ loaded.body \in Seq(Characters)
    <2> DEFINE d == savedDraft
    <2>1. d.body \in Seq(Characters) /\ Truthful(d.body, d.mentions)
      BY DEF ComposerInv
    <2> HIDE DEF d
    <2>2. Intact(SetDraft(d)) /\ SetDraft(d).body = d.body /\ SetDraft(d).cursor = Len(d.body)
      BY <2>1, SetDraftIntact
    <2> QED
      BY <2>1, <2>2 DEF d
  <1>3. /\ picker' = ActiveMention(loaded)
        /\ IF CanAccept(open)
           THEN composer' = tagged /\ PersistDraft
           ELSE composer' = open /\ savedDraft' = savedDraft
    BY DEF MentionSelectedAgent
  <1> HIDE DEF loaded
  <1>4. Picked(picker', loaded.body)
    <2>1. loaded.cursor \in 0..Len(loaded.body)
      BY <1>2
    <2> QED
      BY <1>2, <1>3, <2>1, ActiveIsPicked
  <1>5. /\ Intact(open) /\ Extends(open.body, loaded.body) /\ open.cursor = Len(open.body)
        /\ open.body \in Seq(Characters)
    <2>1. /\ Intact(Insert(loaded, blank)) /\ Extends(Insert(loaded, blank).body, loaded.body)
          /\ Insert(loaded, blank).cursor = Len(Insert(loaded, blank).body)
      <3> HIDE DEF blank
      <3> QED
        BY <1>1, <1>2, WriteOn
    <2>2. Extends(loaded.body, loaded.body)
      BY <1>2, ExtendsItself
    <2>3. Intact(open) /\ Extends(open.body, loaded.body) /\ open.cursor = Len(open.body)
      BY <1>2, <2>1, <2>2
    <2> HIDE DEF open
    <2> QED
      BY <2>3 DEF Intact
  <1> HIDE DEF open
  <1>6. CASE CanAccept(open)
    <2>1. /\ Intact(put) /\ Extends(put.body, open.body) /\ put.cursor = Len(put.body)
      BY <1>5, <1>6, TagBehind
    <2> HIDE DEF put
    <2>2. put.body \in Seq(Characters)
      BY <2>1 DEF Intact
    <2>3. Intact(tagged) /\ Extends(tagged.body, put.body)
      <3>1. Intact(Insert(put, blank)) /\ Extends(Insert(put, blank).body, put.body)
        <4> HIDE DEF blank
        <4> QED
          BY <1>1, <2>1, WriteOn
      <3> QED
        BY <3>1
    <2> HIDE DEF tagged
    <2>4. tagged.body \in Seq(Characters)
      BY <2>3 DEF Intact
    <2>5. Extends(tagged.body, loaded.body)
      <3>1. Extends(put.body, loaded.body)
        BY <1>2, <1>5, <2>1, <2>2, ExtendsOn
      <3> QED
        BY <1>2, <2>2, <2>3, <2>4, <3>1, ExtendsOn
    <2>6. Picked(picker', tagged.body)
      BY <1>2, <1>4, <2>4, <2>5, PickedInLonger
    <2>7. composer' = tagged /\ PersistDraft
      BY <1>3, <1>6
    <2>8. savedDraft'.body = composer'.body /\ savedDraft'.mentions = composer'.mentions
      BY <2>7 DEF PersistDraft
    <2> QED
      BY <2>3, <2>6, <2>7, <2>8 DEF ComposerInv, Intact
  <1>7. CASE ~CanAccept(open)
    <2>1. composer' = open /\ savedDraft' = savedDraft
      BY <1>3, <1>7
    <2>2. Picked(picker', open.body)
      BY <1>2, <1>4, <1>5, PickedInLonger
    <2> QED
      BY <1>5, <2>1, <2>2 DEF ComposerInv
  <1> QED
    BY <1>6, <1>7

LEMMA OpenKeeps ==
    ASSUME ComposerInv, OpenComposerTarget
    PROVE  ComposerInv'
  <1> DEFINE d == savedDraft
             e == SetDraft(d)
  <1>1. d.body \in Seq(Characters) /\ Truthful(d.body, d.mentions)
    BY DEF ComposerInv
  <1>2. composer' = e /\ picker' = ActiveMention(composer') /\ savedDraft' = d
    BY DEF OpenComposerTarget
  <1> HIDE DEF d
  <1>3. Intact(e) /\ e.cursor = Len(e.body) /\ e.body \in Seq(Characters)
    BY <1>1, SetDraftIntact
  <1> HIDE DEF e
  <1>4. Picked(ActiveMention(e), e.body)
    <2>1. e.cursor \in 0..Len(e.body)
      BY <1>3
    <2> QED
      BY <1>3, <2>1, ActiveIsPicked
  <1> QED
    BY <1>1, <1>2, <1>3, <1>4 DEF ComposerInv

\* The composer is emptied, the draft with it or kept.
LEMMA EmptiedKeeps ==
    ASSUME ComposerInv, composer' = [body |-> <<>>, cursor |-> 0, mentions |-> {}],
           picker' = NoPicker,
           \/ savedDraft'.body = <<>> /\ savedDraft'.mentions = {}
           \/ savedDraft'.body = composer.body /\ savedDraft'.mentions = composer.mentions
    PROVE  ComposerInv'
  <1>1. <<>> \in Seq(Characters) /\ Len(<<>>) = 0
    OBVIOUS
  <1>2. Truthful(<<>>, {})
    BY NoMentions
  <1>3. Intact(composer)'
    BY <1>1, <1>2 DEF Intact
  <1>4. composer.body \in Seq(Characters) /\ Truthful(composer.body, composer.mentions)
    BY DEF ComposerInv, Intact
  <1>5. savedDraft'.body \in Seq(Characters) /\ Truthful(savedDraft'.body, savedDraft'.mentions)
    <2>1. CASE savedDraft'.body = <<>> /\ savedDraft'.mentions = {}
      BY <1>1, <1>2, <2>1
    <2>2. CASE savedDraft'.body = composer.body /\ savedDraft'.mentions = composer.mentions
      BY <1>4, <2>2
    <2> QED
      BY <2>1, <2>2
  <1>6. Picked(picker, composer.body)'
    BY DEF Picked
  <1> QED
    BY <1>3, <1>5, <1>6 DEF ComposerInv

LEMMA ComposerStep ==
    ComposerInv /\ [ComposerNext]_composerVars => ComposerInv'
  <1> SUFFICES ASSUME ComposerInv, [ComposerNext]_composerVars
               PROVE  ComposerInv'
    OBVIOUS
  <1>1. Intact(composer) /\ composer.body \in Seq(Characters) /\ composer.cursor \in 0..Len(composer.body)
    BY DEF ComposerInv, Intact
  <1> DEFINE b == composer.body
             i == composer.cursor
  <1>2. /\ Len(b) \in Nat /\ i \in Nat /\ i <= Len(b)
        /\ LineStart(b, i) \in Nat /\ LineStart(b, i) <= i
        /\ WordLeft(b, i) \in Nat /\ WordLeft(b, i) <= i
        /\ LineEnd(b, i) \in Nat /\ i <= LineEnd(b, i) /\ LineEnd(b, i) <= Len(b)
        /\ WordRight(b, i) \in Nat /\ i <= WordRight(b, i) /\ WordRight(b, i) <= Len(b)
    <2>1. /\ LineStart(b, i) \in 0..i /\ WordLeft(b, i) \in 0..i
          /\ LineEnd(b, i) \in i..Len(b) /\ WordRight(b, i) \in i..Len(b)
      BY <1>1, BoundsAre
    <2>2. Len(b) \in Nat /\ i \in Nat /\ i <= Len(b)
      BY <1>1
    <2> QED
      BY <2>1, <2>2
  <1>3. ASSUME NEW c \in Alphabet, Key(c) PROVE ComposerInv'
    <2> DEFINE text == <<c>>
    <2>1. text \in Seq(Characters)
      BY DEF Characters
    <2>2. Edit(Insert(composer, text))
      BY <1>3 DEF Key
    <2> HIDE DEF text
    <2> QED
      BY <2>1, <2>2, InsertKeeps
  <1>4. ASSUME NEW text \in Pastes, PasteText(text) PROVE ComposerInv'
    <2>1. text \in Seq(Characters)
      BY ComposerAssumption
    <2> QED
      BY <1>4, <2>1, InsertKeeps DEF PasteText
  <1>5. CASE Backspace
    <2>1. CASE i = 0
      BY <1>5, <2>1, UnmovedKeeps DEF Backspace
    <2>2. CASE i # 0
      <3>1. i - 1 \in Nat /\ i - 1 <= i
        BY <1>2, <2>2
      <3> QED
        BY <1>2, <1>5, <2>2, <3>1, DeleteKeeps DEF Backspace
    <2> QED
      BY <2>1, <2>2
  <1>6. CASE ForwardDelete
    <2>1. CASE i = Len(b)
      BY <1>6, <2>1, UnmovedKeeps DEF ForwardDelete
    <2>2. CASE i # Len(b)
      <3>1. i + 1 \in Nat /\ i <= i + 1 /\ i + 1 <= Len(b)
        BY <1>2, <2>2
      <3> QED
        BY <1>2, <1>6, <2>2, <3>1, DeleteKeeps DEF ForwardDelete
    <2> QED
      BY <2>1, <2>2
  <1>7. CASE DeletePreviousWord
    BY <1>2, <1>7, DeleteKeeps DEF DeletePreviousWord
  <1>8. CASE DeleteToLineStart
    BY <1>2, <1>8, DeleteKeeps DEF DeleteToLineStart
  <1>9. CASE DeleteToLineEnd
    BY <1>2, <1>9, DeleteKeeps DEF DeleteToLineEnd
  <1>10. CASE Move
    <2>1. PICK to \in {IF i = 0 THEN 0 ELSE i - 1, IF i = Len(b) THEN i ELSE i + 1,
                       WordLeft(b, i), WordRight(b, i), LineStart(b, i), LineEnd(b, i)} :
              Edit([composer EXCEPT !.cursor = to])
      BY <1>10 DEF Move
    <2>2. to \in 0..Len(b)
      <3> HIDE DEF b, i
      <3> QED
        BY <1>2, <2>1
    <2> QED
      BY <2>1, <2>2, CursorKeeps
  <1>11. CASE EscapeKey
    BY <1>11 DEF EscapeKey, ComposerInv, Picked
  <1>12. CASE ClearComposerDraft
    <2>1. savedDraft'.body = <<>> /\ savedDraft'.mentions = {}
      BY <1>12 DEF ClearComposerDraft, PersistDraft
    <2>2. picker' = NoPicker /\ composer' = [body |-> <<>>, cursor |-> 0, mentions |-> {}]
      BY <1>12 DEF ClearComposerDraft
    <2> QED
      BY <2>1, <2>2, EmptiedKeeps
  <1>13. CASE Submit
    <2>1. \/ savedDraft'.body = <<>> /\ savedDraft'.mentions = {}
          \/ savedDraft'.body = composer.body /\ savedDraft'.mentions = composer.mentions
      <3>1. CASE savedDraft' = Unwritten
        BY <3>1 DEF Unwritten
      <3>2. CASE savedDraft' = [body |-> composer.body, mentions |-> composer.mentions]
        BY <3>2
      <3> QED
        BY <1>13, <3>1, <3>2 DEF Submit
    <2>2. picker' = NoPicker /\ composer' = [body |-> <<>>, cursor |-> 0, mentions |-> {}]
      BY <1>13 DEF Submit
    <2> QED
      BY <2>1, <2>2, EmptiedKeeps
  <1>14. CASE UNCHANGED composerVars
    BY <1>14 DEF composerVars, ComposerInv, Intact
  <1> QED
    BY <1>3, <1>4, <1>5, <1>6, <1>7, <1>8, <1>9, <1>10, <1>11, <1>12, <1>13, <1>14,
       ClickKeeps, AcceptKeeps, OpenKeeps, SelectedKeeps DEF ComposerNext

LEMMA ComposerInvImplies ==
    /\ ComposerInv => MentionsShow /\ PickerIsFresh /\ CursorIsShown
    /\ ComposerInv /\ LabelsEndInWords => ComposerSound
  <1> SUFFICES ASSUME ComposerInv
               PROVE  /\ MentionsShow /\ PickerIsFresh /\ CursorIsShown
                      /\ LabelsEndInWords => ComposerSound
    OBVIOUS
  <1> DEFINE e == composer
             b == composer.body
             ms == composer.mentions
  <1>1. Intact(e) /\ b \in Seq(Characters) /\ e.cursor \in 0..Len(b) /\ Truthful(b, ms)
    BY DEF ComposerInv, Intact
  <1>2. MentionsShow
    <2>1. ASSUME NEW m \in ms PROVE Between(b, m.from, m.to) = <<"at">> \o LabelOf[m.who]
      <3> HIDE DEF b, ms
      <3>1. m \in Mention /\ Names(b, m)
        BY <1>1 DEF Truthful
      <3>2. m.who \in Tagged
        BY <3>1 DEF Mention
      <3>3. /\ m.from \in Nat /\ m.to \in Nat /\ m.from + 1 < m.to /\ ValidFor(m, b)
        BY <1>1, <3>1, NamesValid
      <3>4. m.from <= m.to /\ m.to <= Len(b)
        BY <3>3 DEF ValidFor
      <3> DEFINE w == Shown(m.who)
      <3>5. w \in Seq(Characters)
        BY <3>2, ShownIs
      <3>6. m.to = m.from + Len(w) /\ Reads(b, m.from, w)
        BY <3>1 DEF Names
      <3> HIDE DEF w
      <3>7. Between(b, m.from, m.to) = w
        BY <1>1, <3>3, <3>4, <3>5, <3>6, ReadsIs
      <3> QED
        BY <3>7 DEF w, Shown
    <2>2. \A m, n \in ms : m # n => m.to <= n.from \/ n.to <= m.from
      BY <1>1 DEF Truthful, Apart
    <2> QED
      BY <2>1, <2>2 DEF MentionsShow
  <1>3. PickerIsFresh
    <2> SUFFICES ASSUME picker # NoPicker
                 PROVE  Between(b, picker.from, picker.to) = <<"at">> \o picker.query
      BY DEF PickerIsFresh
    <2> DEFINE lo == picker.from
               hi == picker.to
               w == <<"at">> \o picker.query
    <2>1. /\ lo \in Nat /\ hi \in Nat /\ lo < hi /\ hi <= Len(b) /\ picker.query \in Seq(Characters)
          /\ hi = lo + (1 + Len(picker.query)) /\ Reads(b, lo, w)
      BY DEF ComposerInv, Picked
    <2>2. w \in Seq(Characters) /\ Len(w) = 1 + Len(picker.query)
      BY <2>1, AtAndWord
    <2>3. b \in Seq(Characters)
      BY <1>1
    <2> HIDE DEF lo, hi, w, b
    <2>4. lo <= hi /\ hi = lo + Len(w)
      BY <2>1, <2>2
    <2>5. Between(b, lo, hi) = w
      BY <2>1, <2>2, <2>3, <2>4, ReadsIs
    <2> QED
      BY <2>5 DEF lo, hi, w
  <1>4. CursorIsShown
    <2> DEFINE i == composer.cursor
    <2>1. i \in 0..Len(b)
      BY <1>1
    <2> HIDE DEF b, i
    <2>2. /\ DisplayPosition(b, i).row < DisplayRows(b)
          /\ CursorFromDisplay(b, DisplayPosition(b, i).row, DisplayPosition(b, i).column) = i
      BY <1>1, <2>1, RowIsKept, ClickIsExact
    <2> QED
      BY <2>1, <2>2 DEF CursorIsShown, b, i
  <1>5. ASSUME LabelsEndInWords PROVE EveryMentionTags
    <2> HIDE DEF e
    <2>1. TakenMentions(e) = {m.who : m \in e.mentions}
      BY <1>1, <1>5, TakenAreAll
    <2> QED
      BY <2>1 DEF e, EveryMentionTags
  <1> QED
    BY <1>2, <1>3, <1>4, <1>5 DEF ComposerSound

\* After any edits, picks and reloads: the text shows a name where a mention
\* says, an open picker replaces what it was opened for, and the cursor is in a
\* row of the text, where a click finds it (src/ui/composer.rs, replace_range).
THEOREM ComposerShows ==
    ComposerSpec => [](MentionsShow /\ PickerIsFresh /\ CursorIsShown)
  <1>1. ComposerInv => MentionsShow /\ PickerIsFresh /\ CursorIsShown
    BY ComposerInvImplies
  <1> QED
    BY <1>1, ComposerStarts, ComposerStep, PTL DEF ComposerSpec

\* And if no name ends in a blank, a message tags the people its text names,
\* all of them (src/ui/composer.rs, take_message).
THEOREM ComposerCorrect ==
    LabelsEndInWords => (ComposerSpec => []ComposerSound)
  <1> SUFFICES ASSUME LabelsEndInWords PROVE ComposerSpec => []ComposerSound
    OBVIOUS
  <1>1. ComposerInv => ComposerSound
    BY ComposerInvImplies
  <1> QED
    BY <1>1, ComposerStarts, ComposerStep, PTL DEF ComposerSpec
=============================================================================
