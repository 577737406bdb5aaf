--------------------------- MODULE DeliveryProofs ---------------------------
(***************************************************************************)
(* Proofs about the delivery of messages, for any number of events, texts   *)
(* and reconciliations, and for crashes at any time.                        *)
(***************************************************************************)
EXTENDS DeliveryProperties, TLAPS

-----------------------------------------------------------------------------
(* Types *)

LEMMA WorkingType ==
    /\ Idle \in Call
    /\ \A e \in Events : Working("signing", e) \in Call /\ Working("queued", e) \in Call
  BY DEF Idle, Working, Call, Stages, Results

LEMMA SavedType ==
    ASSUME TypeOK, NEW t \in Texts \cup {Empty}
    PROVE  Saved(t) \in Draft
  BY DEF TypeOK, Saved, Generation, Draft

\* Every way a store call may leave the draft.
LEMMA DraftChangesType ==
    ASSUME TypeOK, NEW e \in Events
    PROVE  /\ draft # NoDraft => [draft EXCEPT !.state = "editing"] \in Draft
           /\ draft # NoDraft => [draft EXCEPT !.bound = e] \in Draft
           /\ Restored(sub[e]) \in Draft \cup {NoDraft}
           /\ Reconciled \in Draft \cup {NoDraft}
  BY DEF TypeOK, Restored, IsUnbound, Reconciled, Draft

LEMMA ApplyType ==
    ASSUME TypeOK, NEW e \in Events, ApplyEvent(e)
    PROVE  stored' \subseteq Events /\ row' \in [Events -> Rows] /\ draft' \in Draft \cup {NoDraft}
  BY DEF TypeOK, ApplyEvent, Rows

LEMMA OutboxStateType ==
    ASSUME TypeOK, NEW e \in Events, NEW state \in {"rejected", "unknown"}, SetOutboxState(e, state)
    PROVE  row' \in [Events -> Rows] /\ draft' \in Draft \cup {NoDraft}
  BY DraftChangesType DEF TypeOK, SetOutboxState, IsBound, Rows

LEMMA CallType ==
    ASSUME TypeOK, NEW c \in Callers
    PROVE  /\ call[c] \in Call
           /\ \A s \in Stages : \A r \in Results :
                 /\ [call EXCEPT ![c].stage = s] \in [Callers -> Call]
                 /\ [call EXCEPT ![c].stage = s, ![c].result = r] \in [Callers -> Call]
           /\ \A w \in Call : [call EXCEPT ![c] = w] \in [Callers -> Call]
  BY DEF TypeOK, Call

LEMMA CallersType == Events \subseteq Callers /\ Flushers \subseteq Callers
  BY DEF Callers

LEMMA TypeUser == ASSUME TypeOK, User PROVE TypeOK'
  <1>1. CASE Open \/ Escape
    <2>1. DraftRecord \in Texts \cup {Empty}
      BY DEF TypeOK, DraftRecord, Draft
    <2> QED
      BY <1>1, <2>1 DEF TypeOK, Open, Escape, signedVars, storeVars, taskVars, relayVars
  <1>2. ASSUME NEW t \in Texts \cup {Empty}, Edit(t) PROVE TypeOK'
    <2>1. draft' \in Draft /\ lastRev' \in Nat
      BY <1>2, SavedType DEF TypeOK, Edit, SaveDraft
    <2> QED
      BY <1>2, <2>1 DEF TypeOK, Edit, signedVars, storeVars, taskVars, relayVars
  <1>3. ASSUME NEW e \in Events, Submit(e) PROVE TypeOK'
    <2>1. Saved(composer) \in Draft
      BY <1>3, SavedType DEF Submit
    <2>2. draft' \in Draft /\ sub' \in [Events -> Nat] /\ lastRev' \in Nat
      BY <1>3, <2>1 DEF TypeOK, Submit, MarkedSending, Draft
    <2>3. call' \in [Callers -> Call]
      BY <1>3, CallType, WorkingType, CallersType DEF Submit
    <2> QED
      BY <1>3, <2>2, <2>3 DEF TypeOK, Submit, storeVars, relayVars
  <1>4. ASSUME NEW e \in Events, React(e) PROVE TypeOK'
    <2>1. call' \in [Callers -> Call]
      BY <1>4, CallType, WorkingType, CallersType DEF React
    <2> QED
      BY <1>4, <2>1 DEF TypeOK, React, userVars, storeVars, relayVars
  <1> QED
    BY <1>1, <1>2, <1>3, <1>4 DEF User

LEMMA TypeSender == ASSUME TypeOK, NEW e \in Events, Sender(e) PROVE TypeOK'
  <1>0. e \in Callers
    BY CallersType
  <1>1. CASE SendFails(e)
    <2>1. call' \in [Callers -> Call]
      BY <1>0, <1>1, CallType, WorkingType DEF SendFails
    <2> QED
      BY <1>1, <2>1, DraftChangesType DEF TypeOK, SendFails, signedVars, storeVars, relayVars
  <1>2. CASE Insert(e)
    <2>1. call' \in [Callers -> Call]
      BY <1>0, <1>2, CallType, WorkingType DEF Insert
    <2>2. draft' \in Draft \cup {NoDraft}
      BY <1>2, DraftChangesType DEF TypeOK, Insert, InsertOutbox, IsUnbound
    <2>3. stored' \subseteq Events /\ row' \in [Events -> Rows]
      BY <1>2 DEF TypeOK, Insert, InsertOutbox, Rows
    <2> QED
      BY <1>2, <2>1, <2>2, <2>3 DEF TypeOK, Insert, signedVars, relayVars
  <1>3. CASE SenderRecords(e)
    <2>1. call' \in [Callers -> Call]
      BY <1>0, <1>3, CallType, WorkingType DEF SenderRecords
    <2>2. /\ stored' \subseteq Events /\ row' \in [Events -> Rows]
          /\ draft' \in Draft \cup {NoDraft}
      <3>1. CASE ApplyEvent(e)
        BY <3>1, ApplyType
      <3>2. CASE SetOutboxState(e, "rejected") /\ UNCHANGED stored
        BY <3>2, OutboxStateType DEF TypeOK
      <3>3. CASE SetOutboxState(e, "unknown") /\ UNCHANGED stored
        BY <3>3, OutboxStateType DEF TypeOK
      <3> QED
        BY <1>3, <3>1, <3>2, <3>3 DEF SenderRecords
    <2> QED
      BY <1>3, <2>1, <2>2 DEF TypeOK, SenderRecords, signedVars, relayVars
  <1> QED
    BY <1>1, <1>2, <1>3 DEF Sender

LEMMA TypeFlush ==
    ASSUME TypeOK, CallsSound, NEW f \in Flushers, StartFlush(f) \/ FlushStep(f)
    PROVE  TypeOK'
  <1>0. f \in Callers /\ items[f] \subseteq Events
    BY CallersType DEF TypeOK
  <1>1. CASE StartFlush(f)
    BY <1>1 DEF TypeOK, StartFlush, PendingOutbox, userVars, signedVars, storeVars, relayVars
  <1>2. ASSUME NEW e \in Events, FlushFound(f, e) PROVE TypeOK'
    BY <1>0, <1>2, ApplyType DEF TypeOK, FlushFound, signedVars, relayVars
  <1>3. ASSUME NEW e \in Events, FlushResend(f, e) PROVE TypeOK'
    <2>1. call' \in [Callers -> Call]
      BY <1>0, <1>3, CallType, WorkingType DEF FlushResend
    <2> QED
      BY <1>3, <2>1 DEF TypeOK, FlushResend, userVars, signedVars, storeVars, relayVars
  <1>4. CASE FlushRecords(f)
    <2> DEFINE e == call[f].event
    <2>0. e \in Events
      BY <1>0, <1>4 DEF FlushRecords, CallsSound
    <2>1. call' \in [Callers -> Call]
      BY <1>0, <1>4, CallType, WorkingType DEF FlushRecords
    <2>2. items' \in [Flushers -> SUBSET Events]
      BY <1>0, <1>4 DEF TypeOK, FlushRecords
    <2>3. /\ stored' \subseteq Events /\ row' \in [Events -> Rows]
          /\ draft' \in Draft \cup {NoDraft}
      <3>1. CASE ApplyEvent(e)
        BY <2>0, <3>1, ApplyType
      <3>2. CASE SetOutboxState(e, "rejected") /\ UNCHANGED stored
        BY <2>0, <3>2, OutboxStateType DEF TypeOK
      <3>3. CASE SetOutboxState(e, "unknown") /\ UNCHANGED stored
        BY <2>0, <3>3, OutboxStateType DEF TypeOK
      <3> QED
        BY <1>4, <3>1, <3>2, <3>3 DEF FlushRecords
    <2> QED
      BY <1>4, <2>1, <2>2, <2>3 DEF TypeOK, FlushRecords, signedVars, relayVars
  <1> QED
    BY <1>1, <1>2, <1>3, <1>4 DEF FlushStep

LEMMA TypePublish ==
    ASSUME TypeOK, CallsSound, NEW c \in Callers, Publish(c)
    PROVE  TypeOK'
  <1>1. CASE PublishRefused(c)
    <2>0. PICK r \in Results : call' = [call EXCEPT ![c].stage = "answered", ![c].result = r]
      BY <1>1 DEF PublishRefused, Results
    <2>1. call' \in [Callers -> Call]
      BY <2>0, CallType DEF Stages
    <2> QED
      BY <1>1, <2>1 DEF TypeOK, PublishRefused, userVars, signedVars, storeVars, relayVars
  <1>2. CASE PublishWrites(c)
    <2>1. call' \in [Callers -> Call]
      BY <1>2, CallType DEF PublishWrites, Stages, Results
    <2>2. call[c].event \in Events
      <3>1. CASE c \in Events
        BY <1>2, <3>1 DEF PublishWrites, CallsSound
      <3>2. CASE c \in Flushers
        <4>1. call[c].event \in items[c] /\ items[c] \subseteq Events
          BY <1>2, <3>2 DEF TypeOK, PublishWrites, CallsSound
        <4> QED
          BY <4>1
      <3> QED
        BY <3>1, <3>2 DEF Callers
    <2> QED
      BY <1>2, <2>1, <2>2 DEF TypeOK, PublishWrites, userVars, signedVars, storeVars
  <1>3. ASSUME NEW r \in {"uncertain", "accepted", "rejected"}, AnswerWith(c, r) PROVE TypeOK'
    <2>1. call' \in [Callers -> Call]
      BY <1>3, CallType DEF AnswerWith, Stages, Results
    <2> QED
      BY <1>3, <2>1 DEF TypeOK, AnswerWith, userVars, signedVars, storeVars
  <1> QED
    BY <1>1, <1>2, <1>3 DEF TypeOK, Publish, PublishUncertain, PublishAcknowledged

LEMMA TypeOutside == ASSUME TypeOK, Outside PROVE TypeOK'
  <1>1. ASSUME NEW e \in Events, RelayTakes(e) PROVE TypeOK'
    BY <1>1 DEF TypeOK, RelayTakes, userVars, signedVars, storeVars, taskVars
  <1>2. ASSUME NEW e \in Events, Echo(e) PROVE TypeOK'
    BY <1>2, ApplyType DEF TypeOK, Echo, signedVars, taskVars, relayVars
  <1>3. CASE Crash
    <2>1. call' \in [Callers -> Call] /\ items' \in [Flushers -> SUBSET Events]
      BY <1>3, WorkingType DEF Crash
    <2>2. stored' \subseteq Events
      BY <1>3 DEF TypeOK, Crash
    <2> QED
      BY <1>3, <2>1, <2>2 DEF TypeOK, Crash, signedVars
  <1>4. CASE Restart
    <2>1. draft' \in Draft \cup {NoDraft}
      BY <1>4 DEF TypeOK, Restart, Reconciled, Draft
    <2> QED
      BY <1>4, <2>1 DEF TypeOK, Restart, signedVars, storeVars, taskVars, relayVars
  <1> QED
    BY <1>1, <1>2, <1>3, <1>4 DEF Outside

LEMMA TypeInit == Init => TypeOK
  BY WorkingType DEF Init, TypeOK, Rows

LEMMA TypeNext == TypeOK /\ CallsSound /\ [Next]_vars => TypeOK'
  <1> SUFFICES ASSUME TypeOK, CallsSound, [Next]_vars PROVE TypeOK'
    OBVIOUS
  <1>1. CASE UNCHANGED vars
    BY <1>1 DEF TypeOK, vars
  <1> QED
    BY <1>1, TypeUser, TypeSender, TypeFlush, TypePublish, TypeOutside DEF Next
-----------------------------------------------------------------------------
(* What the store calls do to the rows *)

\* A store call settles the row an event has; it makes none.
RowSettled(e, state) ==
    \A x \in Events : row'[x] = IF x = e /\ row[e] # "none" THEN state ELSE row[x]

LEMMA ApplyRow ==
    ASSUME TypeOK, NEW e \in Events, ApplyEvent(e)
    PROVE  RowSettled(e, "delivered")
  BY DEF TypeOK, ApplyEvent, RowSettled

LEMMA OutboxStateRow ==
    ASSUME TypeOK, NEW e \in Events, NEW state, SetOutboxState(e, state)
    PROVE  RowSettled(e, state)
  BY DEF TypeOK, SetOutboxState, RowSettled

LEMMA InsertRow ==
    ASSUME TypeOK, NEW e \in Events, InsertOutbox(e)
    PROVE  /\ row'[e] # "none"
           /\ row[e] = "none" => row'[e] = "pending"
           /\ \A x \in Events : x # e => row'[x] = row[x]
  BY DEF TypeOK, InsertOutbox

LEMMA SettledKeepsRows ==
    ASSUME NEW e \in Events, NEW state, state # "none", RowSettled(e, state)
    PROVE  \A x \in Events : row'[x] # "none" <=> row[x] # "none"
  BY DEF RowSettled

LEMMA RecordsRow ==
    /\ TypeOK => \A e \in Events : SenderRecords(e) =>
         \E state \in {"delivered", "rejected", "unknown"} : RowSettled(e, state)
    /\ TypeOK => \A f \in Flushers : FlushRecords(f) /\ call[f].event \in Events =>
         \E state \in {"delivered", "rejected", "unknown"} : RowSettled(call[f].event, state)
  BY ApplyRow, OutboxStateRow DEF SenderRecords, FlushRecords
-----------------------------------------------------------------------------
(* The calls *)

\* Rows stay rows, and at most the call of `c` changes, which stays what it was
\* about.
LEMMA CallsStep ==
    ASSUME TypeOK, CallsSound, up, up',
           \A x \in Events : row'[x] # "none" <=> row[x] # "none",
           NEW c \in Callers, NEW w \in Call,
           call' = [call EXCEPT ![c] = w],
           items' = items,
           w.stage \in {"idle"} \/ w.event = call[c].event,
           w.stage # "idle" => call[c].stage \in {"queued", "awaiting", "answered"}
                                 /\ w.stage \in {"queued", "awaiting", "answered"}
    PROVE  CallsSound'
  <1>1. \A d \in Callers : call'[d] = IF d = c THEN w ELSE call[d]
    BY DEF TypeOK
  <1>2. ASSUME NEW e \in Events
        PROVE  /\ call'[e].stage # "idle" => call'[e].event = e
               /\ call'[e].stage = "signing" => row'[e] = "none"
               /\ call'[e].stage \in {"queued", "awaiting", "answered"} => row'[e] # "none"
    <2>1. e \in Callers
      BY CallersType
    <2>2. CASE e = c
      BY <1>1, <2>1, <2>2 DEF CallsSound
    <2>3. CASE e # c
      BY <1>1, <2>1, <2>3 DEF CallsSound
    <2> QED
      BY <2>2, <2>3
  <1>3. ASSUME NEW f \in Flushers
        PROVE  /\ call'[f].stage # "signing"
               /\ call'[f].stage # "idle" => call'[f].event \in items'[f]
               /\ \A e \in items'[f] : row'[e] # "none"
    <2>1. f \in Callers /\ items[f] \subseteq Events
      BY CallersType DEF TypeOK
    <2>2. CASE f = c
      BY <1>1, <2>1, <2>2 DEF CallsSound
    <2>3. CASE f # c
      BY <1>1, <2>1, <2>3 DEF CallsSound
    <2> QED
      BY <2>2, <2>3
  <1> QED
    BY <1>2, <1>3 DEF CallsSound

\* A task that works belongs to a process that runs.
LEMMA WorkersRun ==
    ASSUME CallsSound, NEW c \in Callers, call[c].stage # "idle"
    PROVE  up
  BY DEF CallsSound

LEMMA IdleRows ==
    ASSUME TypeOK, CallsSound, UNCHANGED <<call, items, up>>,
           \A x \in Events : row'[x] # "none" <=> row[x] # "none"
    PROVE  CallsSound'
  <1>1. \A f \in Flushers : items[f] \subseteq Events
    BY DEF TypeOK
  <1> QED
    BY <1>1 DEF CallsSound

LEMMA CallsUser == ASSUME TypeOK, CallsSound, UnsignedUnknown, User PROVE CallsSound'
  <1>1. CASE UNCHANGED <<call, items, up, row>>
    BY <1>1, IdleRows
  <1>2. ASSUME NEW e \in Events, Submit(e) \/ React(e) PROVE CallsSound'
    <2>1. /\ up /\ up' = up /\ items' = items /\ row' = row
          /\ call' = [call EXCEPT ![e] = Working("signing", e)]
          /\ row[e] = "none" /\ e \in Callers
      BY <1>2, CallersType DEF Submit, React, UnsignedUnknown, storeVars
    <2>2. \A d \in Callers : call'[d] = IF d = e THEN Working("signing", e) ELSE call[d]
      BY <2>1 DEF TypeOK
    <2>3. ASSUME NEW f \in Flushers PROVE f \in Callers /\ f # e
      BY EventAssumption, CallersType
    <2>4. Working("signing", e).stage = "signing" /\ Working("signing", e).event = e
      BY DEF Working
    <2>5. \A f \in Flushers :
             /\ call'[f].stage # "signing"
             /\ call'[f].stage # "idle" => call'[f].event \in items[f]
             /\ \A x \in items[f] : row[x] # "none"
      BY <2>2, <2>3 DEF CallsSound
    <2>6. \A x \in Events :
             /\ call'[x].stage # "idle" => call'[x].event = x
             /\ call'[x].stage = "signing" => row[x] = "none"
             /\ call'[x].stage \in {"queued", "awaiting", "answered"} => row[x] # "none"
      BY <2>1, <2>2, <2>4, CallersType DEF CallsSound
    <2> QED
      BY <2>1, <2>5, <2>6 DEF CallsSound
  <1> QED
    BY <1>1, <1>2 DEF User, Open, Edit, Escape, storeVars, taskVars

LEMMA CallsSender ==
    ASSUME TypeOK, CallsSound, NEW e \in Events, Sender(e) PROVE CallsSound'
  <1>0. e \in Callers /\ Idle.stage = "idle"
    BY CallersType DEF Idle
  <1>1. CASE SendFails(e)
    <2>1. up /\ up' = up /\ items' = items /\ call' = [call EXCEPT ![e] = Idle]
      BY <1>0, <1>1, WorkersRun DEF SendFails
    <2>2. \A x \in Events : row'[x] # "none" <=> row[x] # "none"
      BY <1>1 DEF SendFails, storeVars
    <2> QED
      BY <1>0, <2>1, <2>2, CallsStep, WorkingType
  <1>2. CASE Insert(e)
    <2>1. /\ up /\ up' = up /\ items' = items
          /\ call' = [call EXCEPT ![e] = Working("queued", e)]
          /\ row'[e] # "none" /\ \A x \in Events : x # e => row'[x] = row[x]
      BY <1>0, <1>2, WorkersRun, InsertRow DEF Insert
    <2>2. \A d \in Callers : call'[d] = IF d = e THEN Working("queued", e) ELSE call[d]
      BY <2>1 DEF TypeOK
    <2>3. Working("queued", e).stage = "queued" /\ Working("queued", e).event = e
      BY DEF Working
    <2>4. ASSUME NEW f \in Flushers PROVE f \in Callers /\ f # e /\ items[f] \subseteq Events
      BY EventAssumption, CallersType DEF TypeOK
    <2>5. \A f \in Flushers :
             /\ call'[f].stage # "signing"
             /\ call'[f].stage # "idle" => call'[f].event \in items[f]
             /\ \A x \in items[f] : row'[x] # "none"
      BY <2>1, <2>2, <2>4 DEF CallsSound
    <2>6. \A x \in Events :
             /\ call'[x].stage # "idle" => call'[x].event = x
             /\ call'[x].stage = "signing" => row'[x] = "none"
             /\ call'[x].stage \in {"queued", "awaiting", "answered"} => row'[x] # "none"
      BY <2>1, <2>2, <2>3, CallersType DEF CallsSound
    <2> QED
      BY <2>1, <2>5, <2>6 DEF CallsSound
  <1>3. CASE SenderRecords(e)
    <2>1. up /\ up' = up /\ items' = items /\ call' = [call EXCEPT ![e] = Idle]
      BY <1>0, <1>3, WorkersRun DEF SenderRecords
    <2>2. \A x \in Events : row'[x] # "none" <=> row[x] # "none"
      BY <1>3, RecordsRow, SettledKeepsRows
    <2> QED
      BY <1>0, <2>1, <2>2, CallsStep, WorkingType
  <1> QED
    BY <1>1, <1>2, <1>3 DEF Sender

\* A reconciliation's snapshot is taken from the outbox and only shrinks.
LEMMA CallsSnapshot ==
    ASSUME TypeOK, CallsSound, NEW f \in Flushers, UNCHANGED up, up,
           NEW w \in Call, call' = [call EXCEPT ![f] = w], w.stage = "idle",
           NEW I \in SUBSET Events, items' = [items EXCEPT ![f] = I],
           \A x \in I : row[x] # "none",
           \A x \in Events : row'[x] # "none" <=> row[x] # "none"
    PROVE  CallsSound'
  <1>1. \A d \in Callers : call'[d] = IF d = f THEN w ELSE call[d]
    BY DEF TypeOK
  <1>2. \A g \in Flushers : items'[g] = (IF g = f THEN I ELSE items[g]) /\ items[g] \subseteq Events
    BY DEF TypeOK
  <1>3. \A e \in Events : e # f /\ call'[e] = call[e]
    BY <1>1, EventAssumption, CallersType
  <1>4. \A g \in Flushers : g \in Callers
    BY CallersType
  <1>5. \A e \in Events :
           /\ call'[e].stage # "idle" => call'[e].event = e
           /\ call'[e].stage = "signing" => row'[e] = "none"
           /\ call'[e].stage \in {"queued", "awaiting", "answered"} => row'[e] # "none"
    BY <1>3 DEF CallsSound
  <1>6. ASSUME NEW g \in Flushers
        PROVE  /\ call'[g].stage # "signing"
               /\ call'[g].stage # "idle" => call'[g].event \in items'[g]
               /\ \A e \in items'[g] : row'[e] # "none"
    <2>1. CASE g = f
      BY <1>1, <1>2, <1>4, <2>1
    <2>2. CASE g # f
      BY <1>1, <1>2, <1>4, <2>2 DEF CallsSound
    <2> QED
      BY <2>1, <2>2
  <1> QED
    BY <1>5, <1>6 DEF CallsSound

LEMMA CallsFlush ==
    ASSUME TypeOK, CallsSound, NEW f \in Flushers, StartFlush(f) \/ FlushStep(f)
    PROVE  CallsSound'
  <1>0. f \in Callers /\ items[f] \subseteq Events /\ Idle.stage = "idle"
    BY CallersType DEF TypeOK, Idle
  <1>1. CASE StartFlush(f)
    <2>1. call[f].stage = "idle" /\ up /\ UNCHANGED <<up, call, row>>
      BY <1>1 DEF StartFlush, CallsSound, storeVars
    <2>2. call[f] \in Call /\ call' = [call EXCEPT ![f] = call[f]]
      BY <1>0, <2>1 DEF TypeOK
    <2>3. /\ PendingOutbox \in SUBSET Events /\ items' = [items EXCEPT ![f] = PendingOutbox]
          /\ \A x \in PendingOutbox : row[x] # "none"
      BY <1>1 DEF StartFlush, PendingOutbox
    <2>4. \A x \in Events : row'[x] # "none" <=> row[x] # "none"
      BY <2>1
    <2> QED
      BY <2>1, <2>2, <2>3, <2>4, CallsSnapshot
  <1>2. ASSUME NEW e \in Events, FlushFound(f, e) PROVE CallsSound'
    <2>1. call[f].stage = "idle" /\ up /\ up' = up /\ call' = call
      BY <1>2 DEF FlushFound, CallsSound
    <2>2. call[f] \in Call /\ call' = [call EXCEPT ![f] = call[f]]
      BY <1>0, <2>1 DEF TypeOK
    <2>3. /\ items[f] \ {e} \in SUBSET Events /\ items' = [items EXCEPT ![f] = items[f] \ {e}]
          /\ \A x \in items[f] \ {e} : row[x] # "none"
      BY <1>0, <1>2 DEF FlushFound, CallsSound
    <2>4. \A x \in Events : row'[x] # "none" <=> row[x] # "none"
      BY <1>2, ApplyRow, SettledKeepsRows DEF FlushFound
    <2> QED
      BY <2>1, <2>2, <2>3, <2>4, CallsSnapshot
  <1>3. ASSUME NEW e \in Events, FlushResend(f, e) PROVE CallsSound'
    <2>1. /\ e \in items[f] /\ UNCHANGED <<up, items, row>>
          /\ call' = [call EXCEPT ![f] = Working("queued", e)]
      BY <1>3 DEF FlushResend, storeVars
    <2>2. \A d \in Callers : call'[d] = IF d = f THEN Working("queued", e) ELSE call[d]
      BY <2>1 DEF TypeOK
    <2>3. Working("queued", e).stage = "queued" /\ Working("queued", e).event = e
      BY DEF Working
    <2>4. up
      BY <1>0, <1>3 DEF FlushResend, CallsSound
    <2> QED
      BY <2>1, <2>2, <2>3, <2>4, EventAssumption, CallersType DEF CallsSound
  <1>4. CASE FlushRecords(f)
    <2> DEFINE e == call[f].event
    <2>0. e \in items[f] /\ e \in Events
      BY <1>0, <1>4 DEF FlushRecords, CallsSound
    <2>1. up /\ up' = up /\ call' = [call EXCEPT ![f] = Idle]
      BY <1>0, <1>4, WorkersRun DEF FlushRecords
    <2>2. /\ items[f] \ {e} \in SUBSET Events /\ items' = [items EXCEPT ![f] = items[f] \ {e}]
          /\ \A x \in items[f] \ {e} : row[x] # "none"
      BY <1>0, <1>4 DEF FlushRecords, CallsSound
    <2>3. \A x \in Events : row'[x] # "none" <=> row[x] # "none"
      BY <1>4, <2>0, RecordsRow, SettledKeepsRows
    <2> QED
      BY <1>0, <2>1, <2>2, <2>3, CallsSnapshot, WorkingType
  <1> QED
    BY <1>1, <1>2, <1>3, <1>4 DEF FlushStep

\* The call moves on; it stays about the same event.
LEMMA PublishMoves ==
    ASSUME TypeOK, NEW c \in Callers, Publish(c)
    PROVE  /\ UNCHANGED <<draft, stored, row, items, up, composer, lastRev, content, sub, relay>>
           /\ call[c].stage \in {"queued", "awaiting"}
           /\ \E w \in Call :
                /\ call' = [call EXCEPT ![c] = w]
                /\ w.stage \in {"awaiting", "answered"} /\ w.event = call[c].event
                /\ w.stage = "awaiting" =>
                      /\ call[c].stage = "queued"
                      /\ \A d \in Callers : call[d].stage # "awaiting"
                      /\ ok' = ok
                /\ w.stage = "answered" =>
                      \/ w.result \in {"local", "uncertain"}
                      \/ call[c].stage = "awaiting" /\ w.result = ok
                /\ w.stage = "answered" =>
                      \/ call[c].stage = "queued" /\ ok' = ok
                      \/ call[c].stage = "awaiting" /\ ok' = "none"
  <1>0. call[c] \in Call
    BY DEF TypeOK
  <1>1. CASE PublishRefused(c)
    <2>1. PICK r \in {"local", "uncertain"} :
            call' = [call EXCEPT ![c].stage = "answered", ![c].result = r]
      BY <1>1 DEF PublishRefused
    <2> DEFINE w == [call[c] EXCEPT !.stage = "answered", !.result = r]
    <2>2. call' = [call EXCEPT ![c] = w] /\ w \in Call
      BY <1>0, <2>1 DEF TypeOK, Call, Stages, Results
    <2>3. w.stage = "answered" /\ w.event = call[c].event /\ w.result = r
      BY <1>0 DEF Call
    <2> HIDE DEF w
    <2>4. UNCHANGED <<userVars, signedVars, storeVars, items, up, relayVars>> /\ call[c].stage = "queued"
      BY <1>1 DEF PublishRefused
    <2>5. UNCHANGED <<draft, stored, row, items, up, composer, lastRev, content, sub, relay, ok>>
      BY <2>4 DEF userVars, signedVars, storeVars, relayVars
    <2> QED
      BY <2>2, <2>3, <2>4, <2>5
  <1>2. CASE PublishWrites(c)
    <2> DEFINE w == [call[c] EXCEPT !.stage = "awaiting"]
    <2>2. call' = [call EXCEPT ![c] = w] /\ w \in Call
      BY <1>0, <1>2 DEF PublishWrites, TypeOK, Call, Stages
    <2>3. w.stage = "awaiting" /\ w.event = call[c].event
      BY <1>0 DEF Call
    <2> HIDE DEF w
    <2>4. /\ UNCHANGED <<userVars, signedVars, storeVars, items, up, relay, ok>>
          /\ call[c].stage = "queued" /\ \A d \in Callers : call[d].stage # "awaiting"
      BY <1>2 DEF PublishWrites
    <2>5. UNCHANGED <<draft, stored, row, items, up, composer, lastRev, content, sub, relay, ok>>
      BY <2>4 DEF userVars, signedVars, storeVars
    <2> QED
      BY <2>2, <2>3, <2>4, <2>5
  <1>3. ASSUME call[c].stage = "awaiting", NEW r \in {"uncertain", ok}, r # "none", AnswerWith(c, r)
        PROVE  /\ UNCHANGED <<draft, stored, row, items, up, composer, lastRev, content, sub, relay>>
               /\ \E w \in Call :
                    /\ call' = [call EXCEPT ![c] = w]
                    /\ w.stage = "answered" /\ w.event = call[c].event
                    /\ w.result \in {"uncertain", ok} /\ ok' = "none"
    <2> DEFINE w == [call[c] EXCEPT !.stage = "answered", !.result = r]
    <2>2. call' = [call EXCEPT ![c] = w] /\ w \in Call
      BY <1>0, <1>3 DEF AnswerWith, TypeOK, Call, Stages, Results
    <2>3. w.stage = "answered" /\ w.event = call[c].event /\ w.result = r
      BY <1>0 DEF Call
    <2> HIDE DEF w
    <2> QED
      BY <1>3, <2>2, <2>3 DEF AnswerWith, userVars, signedVars, storeVars
  <1>4. CASE PublishUncertain(c) \/ PublishAcknowledged(c)
    <2>1. call[c].stage = "awaiting" /\ \E r \in {"uncertain", ok} : r # "none" /\ AnswerWith(c, r)
      BY <1>4 DEF PublishUncertain, PublishAcknowledged
    <2> QED
      BY <1>3, <2>1
  <1> QED
    BY <1>1, <1>2, <1>4 DEF Publish

LEMMA CallsPublish ==
    ASSUME TypeOK, CallsSound, NEW c \in Callers, Publish(c) PROVE CallsSound'
  <1>1. PICK w \in Call : /\ call' = [call EXCEPT ![c] = w]
                          /\ w.stage \in {"awaiting", "answered"} /\ w.event = call[c].event
    BY PublishMoves
  <1>2. /\ UNCHANGED <<row, items, up>> /\ call[c].stage \in {"queued", "awaiting"}
    BY PublishMoves
  <1>3. up
    BY <1>2, WorkersRun
  <1>4. \A x \in Events : row'[x] # "none" <=> row[x] # "none"
    BY <1>2
  <1> QED
    BY <1>1, <1>2, <1>3, <1>4, CallsStep

LEMMA CallsOutside == ASSUME TypeOK, CallsSound, Outside PROVE CallsSound'
  <1>1. ASSUME NEW e \in Events, RelayTakes(e) PROVE CallsSound'
    <2>1. UNCHANGED <<call, items, up, row>>
      BY <1>1 DEF RelayTakes, storeVars, taskVars
    <2> QED
      BY <2>1, IdleRows
  <1>2. ASSUME NEW e \in Events, Echo(e) PROVE CallsSound'
    <2>1. UNCHANGED <<call, items, up>> /\ RowSettled(e, "delivered")
      BY <1>2, ApplyRow DEF Echo, taskVars
    <2> QED
      BY <2>1, IdleRows, SettledKeepsRows
  <1>3. CASE Crash
    <2>1. /\ \A c \in Callers : call'[c].stage = "idle"
          /\ \A f \in Flushers : items'[f] = {}
      BY <1>3 DEF Crash, Idle
    <2> QED
      BY <2>1, CallersType DEF CallsSound
  <1>4. CASE Restart
    <2>1. UNCHANGED <<call, items, row>> /\ ~up /\ up'
      BY <1>4 DEF Restart, storeVars, taskVars
    <2> QED
      BY <2>1 DEF CallsSound
  <1> QED
    BY <1>1, <1>2, <1>3, <1>4 DEF Outside

LEMMA CallsNext == TypeOK /\ CallsSound /\ UnsignedUnknown /\ [Next]_vars => CallsSound'
  <1> SUFFICES ASSUME TypeOK, CallsSound, UnsignedUnknown, [Next]_vars PROVE CallsSound'
    OBVIOUS
  <1>1. CASE UNCHANGED vars
    <2>1. UNCHANGED <<call, items, up, row>>
      BY <1>1 DEF vars
    <2> QED
      BY <2>1, IdleRows
  <1> QED
    BY <1>1, CallsUser, CallsSender, CallsFlush, CallsPublish, CallsOutside DEF Next
-----------------------------------------------------------------------------
(* What a step is about *)

\* Everything that is kept of an event outside `S` is what it was, or less.
OnlyAbout(S) ==
    \A x \in Events \ S :
        /\ row'[x] = row[x] /\ sub'[x] = sub[x] /\ content'[x] = content[x]
        /\ call'[x].stage = "idle" \/ call'[x] = call[x]
        /\ x \in stored' => x \in stored
        /\ x \in relay' => x \in relay
        /\ x \in wire' => x \in wire

LEMMA UnsignedStep ==
    ASSUME UnsignedUnknown, NEW S, \A e \in S : content'[e] # NoText, OnlyAbout(S)
    PROVE  UnsignedUnknown'
  BY DEF UnsignedUnknown, Unsigned, OnlyAbout

LEMMA UnsignedSame ==
    ASSUME UnsignedUnknown, UNCHANGED <<content, row, call, sub, stored, relay, wire>>
    PROVE  UnsignedUnknown'
  BY DEF UnsignedUnknown, Unsigned

\* The event a task or a reconciliation works on has been signed.
LEMMA WorkedOnIsSigned ==
    ASSUME TypeOK, CallsSound, UnsignedUnknown
    PROVE  /\ \A e \in Events : call[e].stage # "idle" => content[e] # NoText
           /\ \A f \in Flushers : \A e \in items[f] : e \in Events /\ content[e] # NoText
           /\ \A c \in Callers : call[c].stage # "idle" =>
                call[c].event \in Events /\ content[call[c].event] # NoText
  <1>1. \A f \in Flushers : items[f] \subseteq Events
    BY DEF TypeOK
  <1> QED
    BY <1>1 DEF CallsSound, UnsignedUnknown, Unsigned, Callers

LEMMA UnsignedUser == ASSUME TypeOK, UnsignedUnknown, User PROVE UnsignedUnknown'
  <1>1. CASE UNCHANGED <<content, row, call, sub, stored, relay, wire>>
    BY <1>1, UnsignedSame
  <1>2. ASSUME NEW e \in Events, Submit(e) \/ React(e) PROVE UnsignedUnknown'
    <2>1. content'[e] # NoText
      BY <1>2, TextAssumption DEF TypeOK, Submit, React
    <2>2. e \in Callers /\ \A x \in Events : x \in Callers
      BY CallersType
    <2>3. OnlyAbout({e})
      BY <1>2, <2>2 DEF TypeOK, Submit, React, OnlyAbout, storeVars, relayVars, userVars
    <2> QED
      BY <2>1, <2>3, UnsignedStep
  <1> QED
    BY <1>1, <1>2 DEF User, Open, Edit, Escape, storeVars, taskVars, signedVars, relayVars

LEMMA UnsignedTasks ==
    ASSUME TypeOK, CallsSound, UnsignedUnknown,
           \/ \E e \in Events : Sender(e)
           \/ \E f \in Flushers : StartFlush(f) \/ FlushStep(f)
    PROVE  UnsignedUnknown'
  <1>0. /\ \A f \in Flushers : items[f] \subseteq Events
        /\ \A e \in Events : e \in Callers
        /\ \A f \in Flushers : f \in Callers /\ f \notin Events
    BY CallersType, EventAssumption DEF TypeOK
  <1>1. ASSUME NEW e \in Events, Sender(e) PROVE UnsignedUnknown'
    <2>1. content'[e] # NoText
      BY <1>1, WorkedOnIsSigned
        DEF Sender, SendFails, Insert, SenderRecords, signedVars
    <2>2. OnlyAbout({e})
      <3>1. CASE SendFails(e)
        BY <1>0, <3>1 DEF TypeOK, SendFails, OnlyAbout, signedVars, storeVars, relayVars
      <3>2. CASE Insert(e)
        BY <1>0, <3>2 DEF TypeOK, Insert, InsertOutbox, OnlyAbout, signedVars, relayVars
      <3>3. CASE SenderRecords(e)
        BY <1>0, <3>3
          DEF TypeOK, SenderRecords, ApplyEvent, SetOutboxState, OnlyAbout, signedVars, relayVars
      <3> QED
        BY <1>1, <3>1, <3>2, <3>3 DEF Sender
    <2> QED
      BY <2>1, <2>2, UnsignedStep
  <1>2. ASSUME NEW f \in Flushers, StartFlush(f) PROVE UnsignedUnknown'
    BY <1>2, UnsignedSame DEF StartFlush, signedVars, storeVars, relayVars
  <1>3. ASSUME NEW f \in Flushers, NEW e \in Events, FlushFound(f, e) PROVE UnsignedUnknown'
    <2>1. content'[e] # NoText
      BY <1>3, WorkedOnIsSigned DEF FlushFound, signedVars
    <2>2. OnlyAbout({e})
      BY <1>3 DEF TypeOK, FlushFound, ApplyEvent, OnlyAbout, signedVars, relayVars
    <2> QED
      BY <2>1, <2>2, UnsignedStep
  <1>4. ASSUME NEW f \in Flushers, NEW e \in Events, FlushResend(f, e) PROVE UnsignedUnknown'
    <2>1. OnlyAbout({})
      BY <1>0, <1>4 DEF TypeOK, FlushResend, OnlyAbout, signedVars, storeVars, relayVars
    <2> QED
      BY <2>1, UnsignedStep
  <1>5. ASSUME NEW f \in Flushers, FlushRecords(f) PROVE UnsignedUnknown'
    <2> DEFINE e == call[f].event
    <2>1. e \in Events /\ content'[e] # NoText
      BY <1>0, <1>5, WorkedOnIsSigned DEF FlushRecords, signedVars
    <2>2. OnlyAbout({e})
      BY <1>0, <1>5, <2>1
        DEF TypeOK, FlushRecords, ApplyEvent, SetOutboxState, OnlyAbout, signedVars, relayVars
    <2> QED
      BY <2>1, <2>2, UnsignedStep
  <1> QED
    BY <1>1, <1>2, <1>3, <1>4, <1>5 DEF FlushStep

LEMMA UnsignedPublish ==
    ASSUME TypeOK, CallsSound, UnsignedUnknown, NEW c \in Callers, Publish(c)
    PROVE  UnsignedUnknown'
  <1> DEFINE e == call[c].event
  <1>1. /\ UNCHANGED <<stored, row, content, sub, relay>>
        /\ call[c].stage \in {"queued", "awaiting"}
        /\ \E w \in Call : call' = [call EXCEPT ![c] = w]
    BY PublishMoves
  <1>2. e \in Events /\ content'[e] # NoText /\ (c \in Events => c = e)
    BY <1>1, WorkedOnIsSigned DEF CallsSound
  <1>3. wire' \subseteq wire \cup {e}
    BY DEF Publish, PublishRefused, PublishWrites, PublishUncertain, PublishAcknowledged,
           AnswerWith, relayVars
  <1>4. \A x \in Events : x # e => call'[x] = call[x]
    BY <1>1, <1>2, CallersType DEF TypeOK
  <1>5. OnlyAbout({e})
    BY <1>1, <1>3, <1>4 DEF OnlyAbout
  <1> QED
    BY <1>2, <1>5, UnsignedStep

LEMMA UnsignedOutside ==
    ASSUME TypeOK, CallsSound, UnsignedUnknown, Outside
    PROVE  UnsignedUnknown'
  <1>1. ASSUME NEW e \in Events, RelayTakes(e) PROVE UnsignedUnknown'
    <2>1. content'[e] # NoText
      BY <1>1 DEF RelayTakes, UnsignedUnknown, Unsigned, signedVars
    <2>2. OnlyAbout({e})
      BY <1>1 DEF RelayTakes, OnlyAbout, signedVars, storeVars, taskVars
    <2> QED
      BY <2>1, <2>2, UnsignedStep
  <1>2. ASSUME NEW e \in Events, Echo(e) PROVE UnsignedUnknown'
    <2>1. content'[e] # NoText
      BY <1>2 DEF Echo, UnsignedUnknown, Unsigned, signedVars
    <2>2. OnlyAbout({e})
      BY <1>2 DEF TypeOK, Echo, ApplyEvent, OnlyAbout, signedVars, taskVars, relayVars
    <2> QED
      BY <2>1, <2>2, UnsignedStep
  <1>3. CASE Crash
    <2>1. PICK S \in SUBSET Events :
            /\ \A e \in S : call[e].stage = "signing"
            /\ stored' = stored \cup S
      <3>1. CASE stored' = stored
        <4>1. {} \in SUBSET Events /\ stored' = stored \cup {}
          BY <3>1
        <4> QED
          BY <4>1
      <3>2. ASSUME NEW e \in Events, call[e].stage = "signing", stored' = stored \cup {e}
            PROVE  \E S \in SUBSET Events : /\ \A x \in S : call[x].stage = "signing"
                                            /\ stored' = stored \cup S
        BY <3>2
      <3> QED
        BY <1>3, <3>1, <3>2 DEF Crash
    <2>2. \A e \in S : content'[e] # NoText
      BY <1>3, <2>1, WorkedOnIsSigned DEF Crash, signedVars
    <2>3. OnlyAbout(S)
      BY <1>3, <2>1, CallersType DEF Crash, OnlyAbout, signedVars, Idle
    <2> QED
      BY <2>2, <2>3, UnsignedStep
  <1>4. CASE Restart
    BY <1>4, UnsignedSame DEF Restart, signedVars, storeVars, taskVars, relayVars
  <1> QED
    BY <1>1, <1>2, <1>3, <1>4 DEF Outside

LEMMA UnsignedNext ==
    TypeOK /\ CallsSound /\ UnsignedUnknown /\ [Next]_vars => UnsignedUnknown'
  <1> SUFFICES ASSUME TypeOK, CallsSound, UnsignedUnknown, [Next]_vars PROVE UnsignedUnknown'
    OBVIOUS
  <1>1. CASE UNCHANGED vars
    BY <1>1, UnsignedSame DEF vars
  <1> QED
    BY <1>1, UnsignedUser, UnsignedTasks, UnsignedPublish, UnsignedOutside DEF Next
-----------------------------------------------------------------------------
(* What the answers and the tables say of the relay *)

LEMMA AnswersStay ==
    ASSUME AnswersTrue, ok' = ok, relay \subseteq relay',
           \A c \in Callers : call'[c] = call[c]
                               \/ /\ call'[c].stage \notin {"awaiting", "answered"}
                                  /\ call[c].stage # "awaiting"
    PROVE  AnswersTrue'
  BY DEF AnswersTrue

LEMMA AnswersTasks ==
    ASSUME TypeOK, CallsSound, UnsignedUnknown, AnswersTrue,
           \/ User
           \/ \E e \in Events : Sender(e)
           \/ \E f \in Flushers : StartFlush(f) \/ FlushStep(f)
    PROVE  AnswersTrue'
  <1>0. /\ \A e \in Events : e \in Callers
        /\ \A f \in Flushers : f \in Callers
    BY CallersType
  <1>1. CASE UNCHANGED <<call, relay, ok>>
    BY <1>1, AnswersStay
  <1>2. ASSUME NEW c \in Callers, NEW w \in Call,
               call' = [call EXCEPT ![c] = w], UNCHANGED <<relay, ok>>,
               w.stage \in {"idle", "signing", "queued"}, call[c].stage # "awaiting"
        PROVE  AnswersTrue'
    <2>1. \A d \in Callers : call'[d] = IF d = c THEN w ELSE call[d]
      BY <1>2 DEF TypeOK
    <2> QED
      BY <1>2, <2>1, AnswersStay
  <1>3. ASSUME NEW e \in Events, Submit(e) \/ React(e) PROVE AnswersTrue'
    <2>1. Working("signing", e).stage = "signing"
      BY DEF Working
    <2>2. call[e].stage = "idle"
      BY <1>3 DEF Submit, React, UnsignedUnknown
    <2>3. UNCHANGED <<relay, ok>> /\ call' = [call EXCEPT ![e] = Working("signing", e)]
      BY <1>3 DEF Submit, React, relayVars
    <2> QED
      BY <1>0, <1>2, <2>1, <2>2, <2>3, WorkingType
  <1>4. ASSUME NEW e \in Events, Sender(e) PROVE AnswersTrue'
    <2>1. Working("queued", e).stage = "queued" /\ Idle.stage = "idle"
      BY DEF Working, Idle
    <2>2. /\ UNCHANGED <<relay, ok>> /\ call[e].stage # "awaiting"
          /\ call' = [call EXCEPT ![e] = Working("queued", e)] \/ call' = [call EXCEPT ![e] = Idle]
      BY <1>4 DEF Sender, SendFails, Insert, SenderRecords, relayVars
    <2> QED
      BY <1>0, <1>2, <2>1, <2>2, WorkingType
  <1>5. ASSUME NEW f \in Flushers, StartFlush(f) \/ FlushStep(f) PROVE AnswersTrue'
    <2>1. /\ Idle.stage = "idle"
          /\ \A e \in Events : Working("queued", e).stage = "queued"
      BY DEF Working, Idle
    <2>2. UNCHANGED <<relay, ok>>
      BY <1>5 DEF StartFlush, FlushStep, FlushFound, FlushResend, FlushRecords, relayVars
    <2>3. \/ call' = call
          \/ /\ call[f].stage # "awaiting"
             /\ \/ call' = [call EXCEPT ![f] = Idle]
                \/ \E e \in Events : call' = [call EXCEPT ![f] = Working("queued", e)]
      BY <1>5 DEF StartFlush, FlushStep, FlushFound, FlushResend, FlushRecords
    <2> QED
      BY <1>0, <1>1, <1>2, <2>1, <2>2, <2>3, WorkingType
  <1> QED
    BY <1>1, <1>3, <1>4, <1>5 DEF User, Open, Edit, Escape, taskVars, relayVars

LEMMA AnswersPublish ==
    ASSUME TypeOK, AnswersTrue, NEW c \in Callers, Publish(c)
    PROVE  AnswersTrue'
  <1>1. PICK w \in Call :
          /\ call' = [call EXCEPT ![c] = w]
          /\ w.stage \in {"awaiting", "answered"} /\ w.event = call[c].event
          /\ w.stage = "awaiting" =>
                /\ call[c].stage = "queued"
                /\ \A d \in Callers : call[d].stage # "awaiting"
                /\ ok' = ok
          /\ w.stage = "answered" =>
                \/ w.result \in {"local", "uncertain"}
                \/ call[c].stage = "awaiting" /\ w.result = ok
          /\ w.stage = "answered" =>
                \/ call[c].stage = "queued" /\ ok' = ok
                \/ call[c].stage = "awaiting" /\ ok' = "none"
    BY PublishMoves
  <1>2. \A d \in Callers : call'[d] = IF d = c THEN w ELSE call[d]
    BY <1>1 DEF TypeOK
  <1>3. relay' = relay
    BY PublishMoves
  <1>4. CASE w.stage = "awaiting"
    <2>1. ok' = "none"
      BY <1>1, <1>4 DEF AnswersTrue
    <2> QED
      BY <1>1, <1>2, <1>3, <1>4, <2>1 DEF AnswersTrue
  <1>5. CASE w.stage = "answered"
    <2>1. w.result = "accepted" => w.event \in relay
      BY <1>1, <1>5 DEF AnswersTrue
    <2> QED
      BY <1>1, <1>2, <1>3, <1>5, <2>1 DEF AnswersTrue
  <1> QED
    BY <1>1, <1>4, <1>5

LEMMA AnswersOutside == ASSUME TypeOK, AnswersTrue, Outside PROVE AnswersTrue'
  <1>1. ASSUME NEW e \in Events, RelayTakes(e) PROVE AnswersTrue'
    <2>1. /\ call' = call /\ relay \subseteq relay'
          /\ \/ ok' = ok
             \/ Awaited(e) /\ ok' = "rejected"
             \/ Awaited(e) /\ ok' = "accepted" /\ e \in relay'
      BY <1>1 DEF RelayTakes, taskVars
    <2>2. CASE ok' = ok
      BY <2>1, <2>2, AnswersStay
    <2>3. CASE Awaited(e) /\ (ok' = "rejected" \/ (ok' = "accepted" /\ e \in relay'))
      BY <2>1, <2>3 DEF AnswersTrue, Awaited
    <2> QED
      BY <2>1, <2>2, <2>3
  <1>2. ASSUME NEW e \in Events, Echo(e) PROVE AnswersTrue'
    BY <1>2, AnswersStay DEF Echo, taskVars, relayVars
  <1>3. CASE Crash
    <2>1. ok' = "none" /\ \A c \in Callers : call'[c].stage = "idle"
      BY <1>3 DEF Crash, Idle
    <2> QED
      BY <2>1 DEF AnswersTrue
  <1>4. CASE Restart
    BY <1>4, AnswersStay DEF Restart, taskVars, relayVars
  <1> QED
    BY <1>1, <1>2, <1>3, <1>4 DEF Outside

LEMMA AnswersNext ==
    TypeOK /\ CallsSound /\ UnsignedUnknown /\ AnswersTrue /\ [Next]_vars => AnswersTrue'
  <1> SUFFICES ASSUME TypeOK, CallsSound, UnsignedUnknown, AnswersTrue, [Next]_vars
               PROVE  AnswersTrue'
    OBVIOUS
  <1>1. CASE UNCHANGED vars
    BY <1>1, AnswersStay DEF vars
  <1> QED
    BY <1>1, AnswersTasks, AnswersPublish, AnswersOutside DEF Next

-----------------------------------------------------------------------------
(* What a step does to the tables and the draft *)

\* The step leaves the revisions and the events alone, and no task starts, signs
\* or ends.
Quiet ==
    /\ UNCHANGED <<lastRev, content, sub, up>>
    /\ relay \subseteq relay'
    /\ \A e \in Events :
         /\ call'[e].stage = "signing" <=> call[e].stage = "signing"
         /\ call'[e].stage = "idle" <=> call[e].stage = "idle"

\* An outcome is recorded for an event: the relay has it, or it may not.
Recorded(e) ==
    \/ e \in relay /\ ApplyEvent(e)
    \/ /\ row[e] # "none" /\ UNCHANGED stored
       /\ \E state \in {"rejected", "unknown"} : SetOutboxState(e, state)

LEMMA SenderRecordsWhat ==
    ASSUME CallsSound, AnswersTrue, NEW e \in Events, SenderRecords(e)
    PROVE  Recorded(e)
  <1>1. e \in Callers /\ call[e].event = e /\ row[e] # "none"
    BY CallersType DEF SenderRecords, CallsSound
  <1>2. call[e].result = "accepted" => e \in relay
    BY <1>1 DEF SenderRecords, AnswersTrue
  <1> QED
    BY <1>1, <1>2 DEF SenderRecords, Recorded

LEMMA FlushRecordsWhat ==
    ASSUME TypeOK, CallsSound, AnswersTrue, NEW f \in Flushers, FlushRecords(f)
    PROVE  call[f].event \in Events /\ Recorded(call[f].event)
  <1>1. f \in Callers /\ call[f].event \in items[f] /\ items[f] \subseteq Events
    BY CallersType DEF TypeOK, FlushRecords, CallsSound
  <1>2. row[call[f].event] # "none"
    BY <1>1 DEF CallsSound
  <1>3. call[f].result = "accepted" => call[f].event \in relay
    BY <1>1 DEF FlushRecords, AnswersTrue
  <1> QED
    BY <1>1, <1>2, <1>3 DEF FlushRecords, Recorded

LEMMA StepKinds ==
    ASSUME TypeOK, CallsSound, AnswersTrue, [Next]_vars
    PROVE  \/ \E t \in Texts \cup {Empty} : Edit(t)
           \/ \E e \in Events :
                Submit(e) \/ React(e) \/ SendFails(e) \/ Insert(e) \/ SenderRecords(e)
           \/ Quiet /\ UNCHANGED <<draft, stored, row>>
           \/ Quiet /\ \E e \in Events : Recorded(e)
           \/ Crash \/ Restart
  <1>0. /\ \A e \in Events : e \in Callers
        /\ \A f \in Flushers : f \in Callers /\ f \notin Events
    BY CallersType, EventAssumption
  <1>1. CASE UNCHANGED vars
    BY <1>1 DEF vars, Quiet
  <1>2. CASE Open \/ Escape
    BY <1>2 DEF Open, Escape, Quiet, signedVars, storeVars, taskVars, relayVars
  <1>3. ASSUME NEW f \in Flushers, StartFlush(f) PROVE Quiet /\ UNCHANGED <<draft, stored, row>>
    BY <1>3 DEF StartFlush, Quiet, userVars, signedVars, storeVars, relayVars
  <1>4. ASSUME NEW f \in Flushers, NEW e \in Events, FlushFound(f, e)
        PROVE  Quiet /\ Recorded(e)
    BY <1>4 DEF FlushFound, Found, Quiet, Recorded, signedVars, relayVars
  <1>5. ASSUME NEW f \in Flushers, NEW e \in Events, FlushResend(f, e)
        PROVE  Quiet /\ UNCHANGED <<draft, stored, row>>
    <2>1. \A x \in Events : call'[x] = call[x]
      BY <1>0, <1>5 DEF TypeOK, FlushResend
    <2> QED
      BY <1>5, <2>1 DEF FlushResend, Quiet, userVars, signedVars, storeVars, relayVars
  <1>6. ASSUME NEW f \in Flushers, FlushRecords(f)
        PROVE  Quiet /\ \E e \in Events : Recorded(e)
    <2>1. \A x \in Events : call'[x] = call[x]
      BY <1>0, <1>6 DEF TypeOK, FlushRecords
    <2>2. Quiet
      BY <1>6, <2>1 DEF FlushRecords, Quiet, signedVars, relayVars
    <2> QED
      BY <1>6, <2>2, FlushRecordsWhat
  <1>7. ASSUME NEW c \in Callers, Publish(c) PROVE Quiet /\ UNCHANGED <<draft, stored, row>>
    <2>1. PICK w \in Call : /\ call' = [call EXCEPT ![c] = w]
                            /\ w.stage \in {"awaiting", "answered"}
      BY <1>7, PublishMoves
    <2>2. /\ UNCHANGED <<draft, stored, row, up, lastRev, content, sub, relay>>
          /\ call[c].stage \in {"queued", "awaiting"}
      BY <1>7, PublishMoves
    <2>3. \A x \in Events : call'[x] = IF x = c THEN w ELSE call[x]
      BY <1>0, <2>1 DEF TypeOK
    <2> QED
      BY <2>1, <2>2, <2>3 DEF Quiet
  <1>8. ASSUME NEW e \in Events, RelayTakes(e) PROVE Quiet /\ UNCHANGED <<draft, stored, row>>
    BY <1>8 DEF RelayTakes, Quiet, userVars, signedVars, storeVars, taskVars
  <1>9. ASSUME NEW e \in Events, Echo(e) PROVE Quiet /\ Recorded(e)
    BY <1>9 DEF Echo, Quiet, Recorded, signedVars, taskVars, relayVars
  <1> QED
    BY <1>1, <1>2, <1>3, <1>4, <1>5, <1>6, <1>7, <1>8, <1>9
      DEF Next, User, Sender, FlushStep, Outside
-----------------------------------------------------------------------------
(* The relay's word behind every delivered row and every stored event *)

\* What a recorded outcome does to the row and to the draft.
LEMMA RecordedRow ==
    ASSUME TypeOK, NEW e \in Events, Recorded(e)
    PROVE  \E state \in {"delivered", "rejected", "unknown"} :
              /\ RowSettled(e, state)
              /\ state = "delivered" => e \in relay
              /\ draft' = IF ~IsBound(e) THEN draft
                          ELSE IF state = "delivered" THEN NoDraft
                          ELSE [draft EXCEPT !.state = "editing"]
  <1>1. CASE e \in relay /\ ApplyEvent(e)
    <2>1. RowSettled(e, "delivered")
      BY <1>1, ApplyRow
    <2> QED
      BY <1>1, <2>1 DEF ApplyEvent
  <1>2. ASSUME NEW state \in {"rejected", "unknown"}, SetOutboxState(e, state)
        PROVE  /\ RowSettled(e, state)
               /\ draft' = IF ~IsBound(e) THEN draft ELSE [draft EXCEPT !.state = "editing"]
    <2>1. RowSettled(e, state)
      BY <1>2, OutboxStateRow
    <2> QED
      BY <1>2, <2>1 DEF SetOutboxState
  <1> QED
    BY <1>1, <1>2 DEF Recorded

LEMMA RecordedStored ==
    ASSUME NEW e \in Events, Recorded(e)
    PROVE  stored' \subseteq stored \/ (e \in relay /\ stored' \subseteq stored \cup {e})
  BY DEF Recorded, ApplyEvent

\* What the relay has, it keeps.
LEMMA RelayGrows == [Next]_vars => relay \subseteq relay'
  <1> SUFFICES ASSUME [Next]_vars PROVE relay \subseteq relay'
    OBVIOUS
  <1>1. CASE UNCHANGED vars
    BY <1>1 DEF vars
  <1>2. CASE User
    BY <1>2 DEF User, Open, Edit, Escape, Submit, React, relayVars
  <1>3. ASSUME NEW e \in Events, Sender(e) PROVE relay \subseteq relay'
    BY <1>3 DEF Sender, SendFails, Insert, SenderRecords, relayVars
  <1>4. ASSUME NEW f \in Flushers, StartFlush(f) \/ FlushStep(f) PROVE relay \subseteq relay'
    BY <1>4 DEF StartFlush, FlushStep, FlushFound, FlushResend, FlushRecords, relayVars
  <1>5. ASSUME NEW c \in Callers, Publish(c) PROVE relay \subseteq relay'
    BY <1>5 DEF Publish, PublishRefused, PublishWrites, PublishUncertain, PublishAcknowledged,
                AnswerWith, relayVars
  <1>6. CASE Outside
    BY <1>6 DEF Outside, RelayTakes, Echo, Crash, Restart, relayVars
  <1> QED
    BY <1>1, <1>2, <1>3, <1>4, <1>5, <1>6 DEF Next

LEMMA RelaysWord ==
    ASSUME TypeOK, CallsSound, UnsignedUnknown, AnswersTrue, [Next]_vars
    PROVE  /\ DeliveredTrue => DeliveredTrue'
           /\ AuxiliaryWaits => AuxiliaryWaits'
           /\ ~SplitInsert /\ StoredTrue => StoredTrue'
  <1>0. relay \subseteq relay'
    BY RelayGrows
  <1>1. CASE UNCHANGED <<stored, row, content>>
    BY <1>0, <1>1 DEF DeliveredTrue, AuxiliaryWaits, StoredTrue, Auxiliary
  <1>2. ASSUME NEW e \in Events, Submit(e) \/ React(e)
        PROVE  UNCHANGED <<stored, row>> /\ (AuxiliaryWaits => AuxiliaryWaits')
    <2>1. UNCHANGED <<stored, row>> /\ e \notin stored
      BY <1>2 DEF Submit, React, UnsignedUnknown, storeVars
    <2>2. \A x \in Events : x # e => content'[x] = content[x]
      BY <1>2 DEF TypeOK, Submit, React
    <2> QED
      BY <1>0, <2>1, <2>2 DEF AuxiliaryWaits, Auxiliary
  <1>3. ASSUME NEW e \in Events, Recorded(e), UNCHANGED content
        PROVE  /\ DeliveredTrue => DeliveredTrue'
               /\ AuxiliaryWaits => AuxiliaryWaits'
               /\ StoredTrue => StoredTrue'
    <2>1. PICK state \in {"delivered", "rejected", "unknown"} :
            RowSettled(e, state) /\ (state = "delivered" => e \in relay)
      BY <1>3, RecordedRow
    <2>2. stored' \subseteq stored \/ (e \in relay /\ stored' \subseteq stored \cup {e})
      BY <1>3, RecordedStored
    <2>3. DeliveredTrue => DeliveredTrue'
      BY <1>0, <2>1 DEF DeliveredTrue, RowSettled
    <2>4. AuxiliaryWaits => AuxiliaryWaits'
      BY <1>0, <1>3, <2>2 DEF AuxiliaryWaits, Auxiliary
    <2>5. StoredTrue => StoredTrue'
      <3>1. stored' \subseteq Events
        BY <2>2 DEF TypeOK
      <3> QED
        BY <1>0, <2>1, <2>2, <3>1 DEF StoredTrue, RowSettled
    <2> QED
      BY <2>3, <2>4, <2>5
  <1>4. ASSUME NEW e \in Events, Insert(e)
        PROVE  /\ DeliveredTrue => DeliveredTrue'
               /\ AuxiliaryWaits => AuxiliaryWaits'
               /\ StoredTrue => StoredTrue'
    <2>1. InsertOutbox(e) /\ UNCHANGED content
      BY <1>4 DEF Insert, signedVars
    <2>2. row[e] = "none"
      BY <1>4 DEF Insert, CallsSound
    <2>3. row'[e] = "pending" /\ \A x \in Events : x # e => row'[x] = row[x]
      BY <2>1, <2>2, InsertRow
    <2>4. stored' \subseteq stored \cup {e} /\ (e \in Auxiliary => stored' = stored)
      BY <2>1 DEF InsertOutbox
    <2>5. stored' \subseteq Events
      BY <2>4 DEF TypeOK
    <2>6. DeliveredTrue => DeliveredTrue'
      BY <1>0, <2>3 DEF DeliveredTrue
    <2>7. AuxiliaryWaits => AuxiliaryWaits'
      BY <1>0, <2>1, <2>4 DEF AuxiliaryWaits, Auxiliary
    <2>8. StoredTrue => StoredTrue'
      BY <1>0, <2>3, <2>4, <2>5 DEF StoredTrue
    <2> QED
      BY <2>6, <2>7, <2>8
  <1>5. CASE Crash
    <2>1. UNCHANGED <<row, content>>
      BY <1>5 DEF Crash, signedVars
    <2>2. /\ stored' = stored \/ \E e \in Events \ Auxiliary : stored' = stored \cup {e}
          /\ ~SplitInsert => stored' = stored
      BY <1>5 DEF Crash
    <2> QED
      BY <1>0, <2>1, <2>2 DEF DeliveredTrue, AuxiliaryWaits, StoredTrue, Auxiliary
  <1>6. ASSUME Restart \/ (\E t \in Texts \cup {Empty} : Edit(t)) \/ \E e \in Events : SendFails(e)
        PROVE  UNCHANGED <<stored, row, content>>
    BY <1>6 DEF Restart, Edit, SendFails, storeVars, signedVars
  <1>7. ASSUME NEW e \in Events, SenderRecords(e) PROVE Recorded(e) /\ UNCHANGED content
    BY <1>7, SenderRecordsWhat DEF SenderRecords, signedVars
  <1>8. Quiet => UNCHANGED content
    BY DEF Quiet
  <1>9. ASSUME UNCHANGED <<stored, row>> PROVE /\ DeliveredTrue => DeliveredTrue'
                                               /\ StoredTrue => StoredTrue'
    BY <1>0, <1>9 DEF DeliveredTrue, StoredTrue
  <1> QED
    BY <1>1, <1>2, <1>3, <1>4, <1>5, <1>6, <1>7, <1>8, <1>9, StepKinds
-----------------------------------------------------------------------------
(* Generations of the draft *)

\* The event has taken a generation: it is being signed, or it has a row.
Takes(e) == call[e].stage = "signing" \/ row[e] # "none"

LEMMA DraftFields ==
    ASSUME TypeOK, draft # NoDraft
    PROVE  /\ draft \in Draft
           /\ draft.rev \in Nat /\ draft.rev # 0
           /\ draft.bound \in Events \cup {NoEvent}
           /\ draft.state \in {"editing", "sending"}
           /\ draft.text \in Texts \cup {Empty}
  BY DEF TypeOK, Draft

\* The generation a save leaves: nobody has taken it, and its revision is handed
\* out.
LEMMA SavedIsFresh ==
    ASSUME TypeOK, GenerationsSound, NEW t \in Texts \cup {Empty}, NEW last \in Nat,
           last = IF Generation THEN lastRev ELSE lastRev + 1
    PROVE  /\ Saved(t) \in Draft /\ Saved(t) # NoDraft
           /\ Saved(t).text = t /\ Saved(t).state = "editing" /\ Saved(t).bound = NoEvent
           /\ Saved(t).rev <= last /\ Saved(t).rev \in Nat \ {0} /\ lastRev <= last
           /\ \A e \in Events : sub[e] = Saved(t).rev => ~Takes(e)
  <1>1. Saved(t) \in Draft /\ Saved(t) # NoDraft
    BY SavedType, DraftAssumption
  <1>2. CASE Generation
    <2>1. draft # NoDraft /\ draft.state = "editing" /\ draft.bound = NoEvent
      BY <1>2 DEF Generation
    <2>2. /\ Saved(t).text = t /\ Saved(t).state = "editing" /\ Saved(t).bound = NoEvent
          /\ Saved(t).rev = draft.rev
      BY <1>2, <2>1, DraftFields DEF Saved, Draft
    <2>3. draft.rev <= lastRev /\ \A e \in Events : sub[e] = draft.rev => ~Takes(e)
      BY <2>1 DEF GenerationsSound, Takes
    <2> QED
      BY <1>1, <1>2, <2>1, <2>2, <2>3, DraftFields DEF TypeOK
  <1>3. CASE ~Generation
    <2>1. /\ Saved(t).text = t /\ Saved(t).state = "editing" /\ Saved(t).bound = NoEvent
          /\ Saved(t).rev = lastRev + 1
      BY <1>3 DEF Saved
    <2>2. \A e \in Events : sub[e] \in Nat /\ sub[e] <= lastRev
      BY DEF TypeOK, GenerationsSound
    <2>3. lastRev \in Nat
      BY DEF TypeOK
    <2> QED
      BY <1>1, <1>3, <2>1, <2>2, <2>3
  <1> QED
    BY <1>2, <1>3

\* Two events never take one generation.
TakenOnce ==
    \A a, b \in Events : sub[a] = sub[b] /\ sub[a] # 0 /\ Takes(a) /\ Takes(b) => a = b

\* The draft and the events signed for it.
DraftSound ==
    draft # NoDraft =>
         /\ draft.rev <= lastRev
         /\ draft.bound = NoEvent => \A e \in Events : sub[e] = draft.rev =>
              /\ row[e] = "none"
              /\ call[e].stage = "signing" =>
                   draft.state = "sending" /\ content[e] = draft.text
         /\ draft.bound # NoEvent =>
              /\ row[draft.bound] \notin {"none", "delivered"}
              /\ sub[draft.bound] = draft.rev
              /\ content[draft.bound] = draft.text

LEMMA GenerationParts ==
    GenerationsSound <=> (\A e \in Events : sub[e] <= lastRev) /\ TakenOnce /\ DraftSound
  BY DEF GenerationsSound, TakenOnce, DraftSound, Takes

\* A step that submits nothing lets nobody take a generation anew.
LEMMA TakenStays ==
    ASSUME TypeOK, GenerationsSound, sub' = sub,
           lastRev' \in Nat, lastRev <= lastRev',
           \A e \in Events : Takes(e)' => Takes(e) \/ sub[e] = 0
    PROVE  (\A e \in Events : sub'[e] <= lastRev') /\ TakenOnce'
  <1>1. \A e \in Events : sub[e] \in Nat /\ sub[e] <= lastRev
    BY DEF TypeOK, GenerationsSound
  <1>2. lastRev \in Nat
    BY DEF TypeOK
  <1>3. \A e \in Events : sub'[e] <= lastRev'
    BY <1>1, <1>2
  <1>4. TakenOnce'
    BY GenerationParts DEF TakenOnce
  <1> QED
    BY <1>3, <1>4

\* The draft stays, and so does what is known of the events signed for it.
LEMMA DraftStays ==
    ASSUME TypeOK, DraftSound, draft # NoDraft => draft' = draft,
           UNCHANGED <<lastRev, sub>>,
           draft # NoDraft => \A e \in Events : sub[e] = draft.rev =>
              /\ content'[e] = content[e]
              /\ row'[e] = "none" <=> row[e] = "none"
              /\ row'[e] = "delivered" => row[e] = "delivered" \/ ~IsBound(e)
              /\ call'[e].stage = "signing" => call[e].stage = "signing",
           draft' # NoDraft => draft # NoDraft
    PROVE  DraftSound'
  <1> SUFFICES ASSUME draft' # NoDraft PROVE DraftSound'
    BY DEF DraftSound
  <1>1. draft # NoDraft /\ draft' = draft /\ draft.bound \in Events \cup {NoEvent}
    BY DraftFields
  <1>2. CASE draft.bound = NoEvent
    BY <1>1, <1>2 DEF DraftSound
  <1>3. CASE draft.bound # NoEvent
    <2>1. draft.bound \in Events /\ IsBound(draft.bound) /\ sub[draft.bound] = draft.rev
      BY <1>1, <1>3 DEF DraftSound, IsBound
    <2> QED
      BY <1>1, <1>3, <2>1 DEF DraftSound
  <1> QED
    BY <1>2, <1>3

LEMMA GenerationsEdit ==
    ASSUME TypeOK, GenerationsSound, NEW t \in Texts \cup {Empty}, Edit(t)
    PROVE  GenerationsSound'
  <1>1. /\ draft' = Saved(t) /\ lastRev' = IF Generation THEN lastRev ELSE lastRev + 1
        /\ UNCHANGED <<sub, content, row, call>>
    BY DEF Edit, SaveDraft, signedVars, storeVars, taskVars
  <1>2. lastRev \in Nat /\ lastRev' \in Nat
    BY <1>1 DEF TypeOK
  <1>3. /\ Saved(t) # NoDraft /\ Saved(t).bound = NoEvent /\ Saved(t).rev <= lastRev'
        /\ lastRev <= lastRev'
        /\ \A e \in Events : sub[e] = Saved(t).rev => ~Takes(e)
    BY <1>1, <1>2, SavedIsFresh
  <1>4. (\A e \in Events : sub'[e] <= lastRev') /\ TakenOnce'
    BY <1>1, <1>2, <1>3, TakenStays DEF Takes
  <1>5. DraftSound'
    BY <1>1, <1>3 DEF DraftSound, Takes
  <1> QED
    BY <1>4, <1>5, GenerationParts DEF GenerationsSound, TakenOnce, DraftSound, Takes

LEMMA GenerationsSubmit ==
    ASSUME TypeOK, UnsignedUnknown, GenerationsSound, NEW e \in Events, Submit(e)
    PROVE  GenerationsSound'
  <1> DEFINE d == Saved(composer)
  <1>1. /\ composer \in Texts /\ draft' = MarkedSending(d)
        /\ lastRev' = IF Generation THEN lastRev ELSE lastRev + 1
        /\ sub' = [sub EXCEPT ![e] = d.rev] /\ content' = [content EXCEPT ![e] = composer]
        /\ call' = [call EXCEPT ![e] = Working("signing", e)] /\ row' = row
        /\ row[e] = "none"
    BY DEF Submit, UnsignedUnknown, storeVars
  <1>2. lastRev \in Nat /\ lastRev' \in Nat /\ e \in Callers /\ \A x \in Events : x \in Callers
    BY <1>1, CallersType DEF TypeOK
  <1>3. /\ d \in Draft /\ d # NoDraft /\ d.text = composer /\ d.state = "editing" /\ d.bound = NoEvent
        /\ d.rev <= lastRev' /\ lastRev <= lastRev' /\ d.rev \in Nat \ {0}
        /\ \A x \in Events : sub[x] = d.rev => ~Takes(x)
    BY <1>1, <1>2, SavedIsFresh
  <1>4. /\ draft' \in Draft /\ draft' # NoDraft
        /\ draft'.rev = d.rev /\ draft'.bound = NoEvent /\ draft'.state = "sending"
        /\ draft'.text = composer
    <2>1. draft' = [d EXCEPT !.state = "sending"]
      BY <1>1, <1>3 DEF MarkedSending
    <2> HIDE DEF d
    <2>2. draft' \in Draft
      BY <1>3, <2>1 DEF Draft
    <2>3. draft'.rev = d.rev /\ draft'.bound = NoEvent /\ draft'.state = "sending"
          /\ draft'.text = composer
      BY <1>3, <2>1 DEF Draft
    <2> QED
      BY <2>2, <2>3, DraftAssumption
  <1> HIDE DEF d
  <1>5. \A x \in Events : /\ sub'[x] = IF x = e THEN d.rev ELSE sub[x]
                          /\ content'[x] = IF x = e THEN composer ELSE content[x]
                          /\ call'[x] = IF x = e THEN Working("signing", e) ELSE call[x]
    BY <1>1, <1>2 DEF TypeOK
  <1>6. \A x \in Events : x # e => (Takes(x)' <=> Takes(x))
    BY <1>1, <1>5 DEF Takes
  <1>7. \A x \in Events : sub[x] \in Nat /\ sub[x] <= lastRev
    BY DEF TypeOK, GenerationsSound
  <1>8. \A x \in Events : sub'[x] <= lastRev'
    <2>1. \A x \in Events : sub[x] <= lastRev'
      BY <1>2, <1>3, <1>7
    <2> QED
      BY <1>3, <1>5, <2>1
  <1>9. TakenOnce'
    <2> SUFFICES ASSUME NEW a \in Events, NEW b \in Events, sub'[a] = sub'[b], sub'[a] # 0,
                        Takes(a)', Takes(b)'
                 PROVE  a = b
      BY DEF TakenOnce
    <2>1. CASE a # e /\ b # e
      <3>1. TakenOnce
        BY GenerationParts
      <3> QED
        BY <1>5, <1>6, <2>1, <3>1 DEF TakenOnce
    <2>2. CASE a = e \/ b = e
      BY <1>3, <1>5, <1>6, <2>2
    <2> QED
      BY <2>1, <2>2
  <1>10. DraftSound'
    BY <1>1, <1>3, <1>4, <1>5 DEF DraftSound, Takes
  <1> QED
    BY <1>8, <1>9, <1>10 DEF GenerationsSound, TakenOnce, DraftSound, Takes

LEMMA GenerationsReact ==
    ASSUME TypeOK, UnsignedUnknown, GenerationsSound, NEW e \in Events, React(e)
    PROVE  GenerationsSound'
  <1>1. /\ UNCHANGED <<draft, lastRev, sub, row>> /\ row[e] = "none" /\ sub[e] = 0
        /\ content' = [content EXCEPT ![e] = Empty]
        /\ call' = [call EXCEPT ![e] = Working("signing", e)]
    BY DEF React, UnsignedUnknown, storeVars, userVars
  <1>2. \A x \in Events : x # e => content'[x] = content[x] /\ call'[x] = call[x]
    BY <1>1, CallersType DEF TypeOK
  <1>3. lastRev \in Nat
    BY DEF TypeOK
  <1>4. (\A x \in Events : sub'[x] <= lastRev') /\ TakenOnce'
    BY <1>1, <1>2, <1>3, TakenStays DEF Takes
  <1>5. draft # NoDraft => \A x \in Events : sub[x] = draft.rev => x # e
    BY <1>1, DraftFields
  <1>6. DraftSound'
    BY <1>1, <1>2, <1>5, DraftStays, GenerationParts
  <1> QED
    BY <1>4, <1>6 DEF GenerationsSound, TakenOnce, DraftSound, Takes

LEMMA GenerationsFails ==
    ASSUME TypeOK, GenerationsSound, NEW e \in Events, SendFails(e)
    PROVE  GenerationsSound'
  <1>1. /\ UNCHANGED <<lastRev, sub, row, content>> /\ draft' = Restored(sub[e])
        /\ call[e].stage = "signing" /\ call' = [call EXCEPT ![e] = Idle]
    BY DEF SendFails, storeVars, signedVars
  <1>2. \A x \in Events : call'[x] = IF x = e THEN Idle ELSE call[x]
    BY <1>1, CallersType DEF TypeOK
  <1>3. Idle.stage = "idle" /\ lastRev \in Nat
    BY DEF Idle, TypeOK
  <1>4. (\A x \in Events : sub'[x] <= lastRev') /\ TakenOnce'
    BY <1>1, <1>2, <1>3, TakenStays DEF Takes
  <1>5. DraftSound'
    <2>1. CASE IsUnbound(sub[e])
      <3>1. /\ draft # NoDraft /\ draft.rev = sub[e] /\ draft.bound = NoEvent
            /\ draft' = [draft EXCEPT !.state = "editing"] /\ draft.rev # 0 /\ draft \in Draft
        BY <1>1, <2>1, DraftFields DEF Restored, IsUnbound
      <3>2. draft'.rev = draft.rev /\ draft'.bound = NoEvent
        BY <3>1 DEF Draft
      <3>3. \A x \in Events : sub[x] = draft.rev => call'[x].stage # "signing"
        BY <1>1, <1>2, <1>3, <3>1, GenerationParts DEF TakenOnce, Takes
      <3> QED
        BY <1>1, <3>1, <3>2, <3>3, GenerationParts DEF DraftSound
    <2>2. CASE ~IsUnbound(sub[e])
      <3>1. draft' = draft
        BY <1>1, <2>2 DEF Restored
      <3> QED
        BY <1>1, <1>2, <1>3, <3>1, DraftStays, GenerationParts
    <2> QED
      BY <2>1, <2>2
  <1> QED
    BY <1>4, <1>5 DEF GenerationsSound, TakenOnce, DraftSound, Takes

LEMMA GenerationsInsert ==
    ASSUME TypeOK, CallsSound, GenerationsSound, NEW e \in Events, Insert(e)
    PROVE  GenerationsSound'
  <1>1. /\ UNCHANGED <<lastRev, sub, content>> /\ InsertOutbox(e)
        /\ call[e].stage = "signing" /\ call' = [call EXCEPT ![e] = Working("queued", e)]
    BY DEF Insert, signedVars
  <1>2. row[e] = "none" /\ row'[e] = "pending" /\ \A x \in Events : x # e => row'[x] = row[x]
    BY <1>1, InsertRow DEF CallsSound
  <1>3. \A x \in Events : call'[x] = IF x = e THEN Working("queued", e) ELSE call[x]
    BY <1>1, CallersType DEF TypeOK
  <1>4. Working("queued", e).stage = "queued" /\ lastRev \in Nat
    BY DEF Working, TypeOK
  <1>5. (\A x \in Events : sub'[x] <= lastRev') /\ TakenOnce'
    BY <1>1, <1>2, <1>3, <1>4, TakenStays DEF Takes
  <1>6. DraftSound
    BY GenerationParts
  <1>7. DraftSound'
    <2>1. CASE IsUnbound(sub[e])
      <3>1. /\ draft # NoDraft /\ draft.rev = sub[e] /\ draft.bound = NoEvent
            /\ draft' = [draft EXCEPT !.bound = e] /\ draft \in Draft
        BY <1>1, <2>1, DraftFields DEF InsertOutbox, IsUnbound
      <3>2. draft'.rev = draft.rev /\ draft'.bound = e /\ draft'.text = draft.text
        BY <3>1 DEF Draft
      <3>3. content[e] = draft.text /\ draft.rev <= lastRev /\ e # NoEvent
        BY <1>1, <1>6, <3>1, EventAssumption DEF DraftSound
      <3> QED
        BY <1>1, <1>2, <3>1, <3>2, <3>3 DEF DraftSound
    <2>2. CASE ~IsUnbound(sub[e])
      <3>1. draft' = draft
        BY <1>1, <2>2 DEF InsertOutbox
      <3>2. draft # NoDraft => draft.bound # e
        BY <1>2, <1>6, EventAssumption DEF DraftSound
      <3>3. draft # NoDraft /\ draft.bound = NoEvent => sub[e] # draft.rev
        BY <1>1, <1>6, <2>2 DEF DraftSound, IsUnbound
      <3>4. DraftSound'
        BY <1>1, <1>2, <1>3, <1>4, <1>6, <3>1, <3>2, <3>3, DraftFields DEF DraftSound
      <3> QED
        BY <3>4
    <2> QED
      BY <2>1, <2>2
  <1> QED
    BY <1>5, <1>7 DEF GenerationsSound, TakenOnce, DraftSound, Takes

\* An outcome is recorded: no generation is taken, and a draft bound to the event
\* is deleted, or given back.
LEMMA GenerationsRecorded ==
    ASSUME TypeOK, CallsSound, GenerationsSound, NEW e \in Events, Recorded(e),
           UNCHANGED <<lastRev, sub, content>>,
           \A x \in Events : call'[x].stage = "signing" => call[x].stage = "signing"
    PROVE  GenerationsSound'
  <1>1. PICK state \in {"delivered", "rejected", "unknown"} :
          /\ RowSettled(e, state)
          /\ draft' = IF ~IsBound(e) THEN draft
                      ELSE IF state = "delivered" THEN NoDraft
                      ELSE [draft EXCEPT !.state = "editing"]
    BY RecordedRow
  <1>2. \A x \in Events : row'[x] # "none" <=> row[x] # "none"
    BY <1>1, SettledKeepsRows
  <1>3. lastRev \in Nat
    BY DEF TypeOK
  <1>4. (\A x \in Events : sub'[x] <= lastRev') /\ TakenOnce'
    BY <1>2, <1>3, TakenStays DEF Takes
  <1>5. DraftSound
    BY GenerationParts
  <1>6. DraftSound'
    <2>1. CASE ~IsBound(e)
      <3>1. draft' = draft
        BY <1>1, <2>1
      <3>2. \A x \in Events : row'[x] = "delivered" => row[x] = "delivered" \/ ~IsBound(x)
        BY <1>1, <2>1 DEF RowSettled
      <3> QED
        BY <1>2, <1>5, <3>1, <3>2, DraftStays
    <2>2. CASE IsBound(e) /\ state = "delivered"
      BY <1>1, <2>2 DEF DraftSound
    <2>3. CASE IsBound(e) /\ state # "delivered"
      <3>1. /\ draft # NoDraft /\ draft.bound = e /\ draft \in Draft /\ e # NoEvent
            /\ draft' = [draft EXCEPT !.state = "editing"]
        BY <1>1, <2>3, DraftFields, EventAssumption DEF IsBound
      <3>2. draft'.rev = draft.rev /\ draft'.bound = e /\ draft'.text = draft.text
        BY <3>1 DEF Draft
      <3>3. row'[e] \notin {"none", "delivered"}
        BY <1>1, <1>5, <2>3, <3>1 DEF DraftSound, RowSettled
      <3> QED
        BY <1>5, <3>1, <3>2, <3>3 DEF DraftSound
    <2> QED
      BY <2>1, <2>2, <2>3
  <1> QED
    BY <1>4, <1>6 DEF GenerationsSound, TakenOnce, DraftSound, Takes

\* What a restart makes of the draft: nothing is deleted, because a draft bound to
\* a delivered event does not survive the delivery.
LEMMA ReconciledDraft ==
    ASSUME TypeOK, GenerationsSound, draft # NoDraft
    PROVE  /\ Reconciled # NoDraft /\ Reconciled \in Draft /\ Reconciled.state = "editing"
           /\ Reconciled.rev = draft.rev /\ Reconciled.bound = draft.bound
           /\ Reconciled.text = draft.text
  <1>1. draft.bound # NoEvent => row[draft.bound] # "delivered"
    BY DEF GenerationsSound
  <1>2. draft \in Draft
    BY DEF TypeOK
  <1>3. CASE draft.state = "sending"
    <2>1. Reconciled = [draft EXCEPT !.state = "editing"]
      BY <1>1, <1>3 DEF Reconciled
    <2>2. Reconciled \in Draft
      BY <1>2, <2>1 DEF Draft
    <2>3. /\ Reconciled.state = "editing"
          /\ Reconciled.rev = draft.rev /\ Reconciled.bound = draft.bound
          /\ Reconciled.text = draft.text
      BY <1>2, <2>1 DEF Draft
    <2> QED
      BY <2>2, <2>3, DraftAssumption
  <1>4. CASE draft.state # "sending"
    <2>1. Reconciled = draft /\ draft.state = "editing"
      BY <1>2, <1>4 DEF Reconciled, Draft
    <2> QED
      BY <1>2, <2>1
  <1> QED
    BY <1>3, <1>4

LEMMA GenerationsNext ==
    ASSUME TypeOK, CallsSound, UnsignedUnknown, AnswersTrue, GenerationsSound, [Next]_vars
    PROVE  GenerationsSound'
  <1>1. CASE \E t \in Texts \cup {Empty} : Edit(t)
    BY <1>1, GenerationsEdit
  <1>2. ASSUME NEW e \in Events, Submit(e) \/ React(e) \/ SendFails(e) \/ Insert(e)
        PROVE  GenerationsSound'
    BY <1>2, GenerationsSubmit, GenerationsReact, GenerationsFails, GenerationsInsert
  <1>3. ASSUME NEW e \in Events, SenderRecords(e) PROVE GenerationsSound'
    <2>1. Recorded(e)
      BY <1>3, SenderRecordsWhat
    <2>2. UNCHANGED <<lastRev, sub, content>> /\ call' = [call EXCEPT ![e] = Idle]
      BY <1>3 DEF SenderRecords, signedVars
    <2>3. \A x \in Events : call'[x].stage = "signing" => call[x].stage = "signing"
      BY <2>2, CallersType DEF TypeOK, Idle
    <2> QED
      BY <2>1, <2>2, <2>3, GenerationsRecorded
  <1>4. CASE Quiet /\ UNCHANGED <<draft, stored, row>>
    <2>1. lastRev \in Nat
      BY DEF TypeOK
    <2>2. (\A x \in Events : sub'[x] <= lastRev') /\ TakenOnce'
      BY <1>4, <2>1, TakenStays DEF Quiet, Takes
    <2>3. DraftSound'
      BY <1>4, DraftStays, GenerationParts DEF Quiet
    <2> QED
      BY <2>2, <2>3 DEF GenerationsSound, TakenOnce, DraftSound, Takes
  <1>5. ASSUME Quiet, NEW e \in Events, Recorded(e) PROVE GenerationsSound'
    BY <1>5, GenerationsRecorded DEF Quiet
  <1>6. CASE Crash
    <2>1. UNCHANGED <<draft, lastRev, sub, content, row>>
      BY <1>6 DEF Crash, signedVars
    <2>2. \A x \in Events : call'[x].stage = "idle"
      BY <1>6, CallersType DEF Crash, Idle
    <2>3. lastRev \in Nat
      BY DEF TypeOK
    <2>4. (\A x \in Events : sub'[x] <= lastRev') /\ TakenOnce'
      BY <2>1, <2>2, <2>3, TakenStays DEF Takes
    <2>5. DraftSound'
      BY <2>1, <2>2, DraftStays, GenerationParts
    <2> QED
      BY <2>4, <2>5 DEF GenerationsSound, TakenOnce, DraftSound, Takes
  <1>7. CASE Restart
    <2>1. UNCHANGED <<lastRev, sub, content, row, call>> /\ draft' = Reconciled /\ ~up
      BY <1>7 DEF Restart, signedVars, storeVars, taskVars
    <2>2. \A x \in Events : call[x].stage # "signing"
      BY <2>1, CallersType DEF CallsSound
    <2>3. lastRev \in Nat
      BY DEF TypeOK
    <2>4. (\A x \in Events : sub'[x] <= lastRev') /\ TakenOnce'
      BY <2>1, <2>3, TakenStays DEF Takes
    <2>5. DraftSound'
      <3>1. CASE draft = NoDraft
        BY <2>1, <3>1 DEF Reconciled, DraftSound
      <3>2. CASE draft # NoDraft
        <4>1. draft'.rev = draft.rev /\ draft'.bound = draft.bound /\ draft'.text = draft.text
          BY <2>1, <3>2, ReconciledDraft
        <4> QED
          BY <2>1, <2>2, <3>2, <4>1, GenerationParts DEF DraftSound
      <3> QED
        BY <3>1, <3>2
    <2> QED
      BY <2>4, <2>5 DEF GenerationsSound, TakenOnce, DraftSound, Takes
  <1> QED
    BY <1>1, <1>2, <1>3, <1>4, <1>5, <1>6, <1>7, StepKinds

-----------------------------------------------------------------------------
(* A hidden draft is being sent *)

\* The generation of a hidden draft is taken by nobody but its sender.
LEMMA SenderIsTheOne ==
    ASSUME TypeOK, CallsSound, GenerationsSound, draft # NoDraft,
           NEW e \in Events, sub[e] = draft.rev, Takes(e), ~IsUnbound(sub[e]),
           draft.state = "sending"
    PROVE  IsBound(e) /\ row[e] # "none"
  <1>1. draft.bound \in Events
    BY DraftFields DEF IsUnbound
  <1>2. draft.bound # NoEvent /\ row[draft.bound] # "none" /\ sub[draft.bound] = draft.rev
    BY <1>1, EventAssumption DEF GenerationsSound
  <1>3. draft.bound = e
    BY <1>1, <1>2, GenerationParts, DraftFields DEF TakenOnce, Takes
  <1> QED
    BY <1>2, <1>3 DEF IsBound

LEMMA HiddenNext ==
    ASSUME TypeOK, CallsSound, UnsignedUnknown, AnswersTrue, GenerationsSound,
           HiddenDraftHasSender, [Next]_vars
    PROVE  HiddenDraftHasSender'
  <1>0. \A e \in Events : e \in Callers
    BY CallersType
  <1>1. ASSUME NEW t \in Texts \cup {Empty}, Edit(t) PROVE HiddenDraftHasSender'
    <2>1. draft'.state = "editing"
      BY <1>1, DraftFields DEF Edit, SaveDraft, Saved, Generation, Draft
    <2> QED
      BY <2>1 DEF HiddenDraftHasSender
  <1>2. ASSUME NEW e \in Events, Submit(e) PROVE HiddenDraftHasSender'
    <2>1. composer \in Texts /\ Saved(composer) \in Draft
      BY <1>2, SavedType DEF Submit
    <2>2. draft'.rev = Saved(composer).rev
      BY <1>2, <2>1 DEF Submit, MarkedSending, Draft
    <2>3. sub'[e] = Saved(composer).rev /\ call'[e].stage = "signing"
      BY <1>0, <1>2 DEF TypeOK, Submit, Working
    <2> QED
      BY <2>2, <2>3 DEF HiddenDraftHasSender, HasSender
  <1>3. ASSUME \A e \in Events : call[e].stage # "idle" => call'[e].stage # "idle",
               sub' = sub, up' = up,
               draft' # NoDraft /\ draft'.state = "sending" =>
                  draft # NoDraft /\ draft.state = "sending" /\ draft'.rev = draft.rev
        PROVE  HiddenDraftHasSender'
    BY <1>3 DEF HiddenDraftHasSender, HasSender
  <1>4. ASSUME NEW e \in Events, React(e) PROVE HiddenDraftHasSender'
    <2>1. \A x \in Events : call[x].stage # "idle" => call'[x].stage # "idle"
      BY <1>0, <1>4 DEF TypeOK, React, Working
    <2> QED
      BY <1>3, <1>4, <2>1 DEF React, userVars
  <1>5. ASSUME NEW e \in Events, Insert(e) PROVE HiddenDraftHasSender'
    <2>1. \A x \in Events : call[x].stage # "idle" => call'[x].stage # "idle"
      BY <1>0, <1>5 DEF TypeOK, Insert, Working
    <2>2. draft' # NoDraft /\ draft'.state = "sending" =>
            draft # NoDraft /\ draft.state = "sending" /\ draft'.rev = draft.rev
      BY <1>5, DraftFields DEF Insert, InsertOutbox, IsUnbound, Draft
    <2> QED
      BY <1>3, <1>5, <2>1, <2>2 DEF Insert, signedVars
  <1>6. ASSUME NEW e \in Events, Recorded(e)
        PROVE  draft' # NoDraft /\ draft'.state = "sending" => draft' = draft /\ ~IsBound(e)
    <2>1. CASE ~IsBound(e)
      BY <1>6, <2>1, RecordedRow
    <2>2. CASE IsBound(e)
      <3>1. draft' = NoDraft \/ draft' = [draft EXCEPT !.state = "editing"]
        BY <1>6, <2>2, RecordedRow
      <3>2. draft \in Draft
        BY <2>2, DraftFields DEF IsBound
      <3> QED
        BY <3>1, <3>2 DEF Draft
    <2> QED
      BY <2>1, <2>2
  <1>7. ASSUME NEW e \in Events, SendFails(e) \/ SenderRecords(e) PROVE HiddenDraftHasSender'
    <2> SUFFICES ASSUME up', draft' # NoDraft, draft'.state = "sending" PROVE HasSender(draft)'
      BY DEF HiddenDraftHasSender
    <2>1. up' = up /\ sub' = sub /\ call' = [call EXCEPT ![e] = Idle] /\ Takes(e)
      BY <1>7 DEF SendFails, SenderRecords, CallsSound, signedVars, Takes
    <2>2. draft' = draft /\ ~IsUnbound(sub[e]) /\ (row[e] # "none" => ~IsBound(e))
      <3>1. CASE SendFails(e)
        <4>1. draft' = Restored(sub[e]) /\ row[e] = "none"
          BY <3>1 DEF SendFails, CallsSound
        <4>2. ~IsUnbound(sub[e])
          BY <4>1, DraftFields DEF Restored, IsUnbound, Draft
        <4> QED
          BY <4>1, <4>2 DEF Restored
      <3>2. CASE SenderRecords(e)
        <4>1. draft' = draft /\ ~IsBound(e)
          BY <1>6, <3>2, SenderRecordsWhat
        <4>2. row[e] # "none"
          BY <3>2 DEF SenderRecords, CallsSound
        <4>3. ~IsUnbound(sub[e])
          BY <4>2 DEF GenerationsSound, IsUnbound
        <4> QED
          BY <4>1, <4>3
      <3> QED
        BY <1>7, <3>1, <3>2
    <2>3. PICK w \in Events : sub[w] = draft.rev /\ call[w].stage # "idle"
      BY <2>1, <2>2 DEF HiddenDraftHasSender, HasSender
    <2>4. w # e
      BY <2>1, <2>2, <2>3, SenderIsTheOne
    <2>5. call'[w] = call[w]
      BY <1>0, <2>1, <2>4 DEF TypeOK
    <2> QED
      BY <2>1, <2>2, <2>3, <2>5 DEF HasSender
  <1>8. CASE Quiet /\ UNCHANGED <<draft, stored, row>>
    BY <1>3, <1>8 DEF Quiet
  <1>9. ASSUME Quiet, NEW e \in Events, Recorded(e) PROVE HiddenDraftHasSender'
    BY <1>3, <1>6, <1>9 DEF Quiet
  <1>10. CASE Crash
    BY <1>10 DEF Crash, HiddenDraftHasSender
  <1>11. CASE Restart
    <2>1. draft' = Reconciled
      BY <1>11 DEF Restart
    <2>2. CASE draft = NoDraft
      BY <2>1, <2>2 DEF Reconciled, HiddenDraftHasSender
    <2>3. CASE draft # NoDraft
      BY <2>1, <2>3, ReconciledDraft DEF HiddenDraftHasSender
    <2> QED
      BY <2>2, <2>3
  <1> QED
    BY <1>1, <1>2, <1>4, <1>5, <1>7, <1>8, <1>9, <1>10, <1>11, StepKinds

-----------------------------------------------------------------------------
(* The inductive invariant and what follows from it *)

DeliveryInv ==
    /\ TypeOK
    /\ CallsSound
    /\ UnsignedUnknown
    /\ AnswersTrue
    /\ DeliveredTrue
    /\ AuxiliaryWaits
    /\ GenerationsSound
    /\ HiddenDraftHasSender

LEMMA DeliveryInit == Init => DeliveryInv /\ StoredTrue
  <1> SUFFICES ASSUME Init PROVE DeliveryInv /\ StoredTrue
    OBVIOUS
  <1>1. TypeOK
    BY TypeInit
  <1>2. \A c \in Callers : call[c].stage = "idle"
    BY DEF Init, Idle
  <1>3. CallsSound
    BY <1>2, CallersType DEF Init, CallsSound
  <1>4. UnsignedUnknown
    BY <1>2, CallersType DEF Init, UnsignedUnknown
  <1>5. AnswersTrue
    BY <1>2 DEF Init, AnswersTrue
  <1>6. DeliveredTrue /\ StoredTrue
    BY DEF Init, DeliveredTrue, StoredTrue
  <1>7. AuxiliaryWaits /\ HiddenDraftHasSender
    BY DEF Init, AuxiliaryWaits, HiddenDraftHasSender
  <1>8. GenerationsSound
    BY <1>2, CallersType DEF Init, GenerationsSound
  <1> QED
    BY <1>1, <1>3, <1>4, <1>5, <1>6, <1>7, <1>8 DEF DeliveryInv

LEMMA DeliveryNext == DeliveryInv /\ [Next]_vars => DeliveryInv'
  <1> SUFFICES ASSUME DeliveryInv, [Next]_vars PROVE DeliveryInv'
    OBVIOUS
  <1>0. /\ TypeOK /\ CallsSound /\ UnsignedUnknown /\ AnswersTrue /\ DeliveredTrue
        /\ AuxiliaryWaits /\ GenerationsSound /\ HiddenDraftHasSender
    BY DEF DeliveryInv
  <1>1. TypeOK' /\ CallsSound' /\ UnsignedUnknown' /\ AnswersTrue'
    BY <1>0, TypeNext, CallsNext, UnsignedNext, AnswersNext
  <1>2. DeliveredTrue' /\ AuxiliaryWaits'
    BY <1>0, RelaysWord
  <1>3. GenerationsSound'
    BY <1>0, GenerationsNext
  <1>4. HiddenDraftHasSender'
    BY <1>0, HiddenNext
  <1> QED
    BY <1>1, <1>2, <1>3, <1>4 DEF DeliveryInv

\* Every reachable state satisfies the invariant, whatever is lost, late or
\* crashes, and even if a crash may hit between the two transactions of an insert.
THEOREM DeliveryCorrect == Spec => []DeliveryInv
  <1>1. Init => DeliveryInv
    BY DeliveryInit
  <1> QED
    BY <1>1, DeliveryNext, PTL DEF Spec

\* The tables, the composer and the tasks keep their types.
THEOREM DeliveryTypeCorrect == Spec => []TypeOK
  <1>1. DeliveryInv => TypeOK
    BY DEF DeliveryInv
  <1> QED
    BY <1>1, DeliveryCorrect, PTL

\* A message is shown as delivered (no outbox row, or a delivered one:
\* DeliveryState) only if the relay has it, as long as an insert is one step: the
\* crash between its two transactions is the one exception.
THEOREM ShownDeliveredCorrect ==
    ASSUME ~SplitInsert
    PROVE  Spec => []ShownDeliveredIsTrue
  <1>1. Init => DeliveryInv /\ StoredTrue
    BY DeliveryInit
  <1>2. DeliveryInv /\ StoredTrue /\ [Next]_vars => DeliveryInv' /\ StoredTrue'
    BY DeliveryNext, RelaysWord DEF DeliveryInv
  <1>3. DeliveryInv /\ StoredTrue => ShownDeliveredIsTrue
    BY DEF DeliveryInv, StoredTrue, DeliveredTrue, ShownDeliveredIsTrue, ShownDelivered
  <1> QED
    BY <1>1, <1>2, <1>3, PTL DEF Spec

\* A reaction or a deletion is in the events table only once the relay has it
\* (insert_outbox).
THEOREM AuxiliaryCorrect == Spec => []AuxiliaryWaits
  <1>1. DeliveryInv => AuxiliaryWaits
    BY DEF DeliveryInv
  <1> QED
    BY <1>1, DeliveryCorrect, PTL

\* A generation of the draft is signed into one outbox row at most, and a delivered
\* event owns no draft (save_draft, mark_draft_sending, insert_outbox).
THEOREM SubmissionsCorrect == Spec => []SubmissionsSound
  <1>1. ASSUME DeliveryInv PROVE SubmissionsSound
    <2>1. SignedOnce
      BY <1>1 DEF DeliveryInv, GenerationsSound, SignedOnce
    <2>2. DeliveredOwnsNoDraft
      BY <1>1, EventAssumption DEF DeliveryInv, GenerationsSound, DeliveredOwnsNoDraft, IsBound
    <2> QED
      BY <2>1, <2>2 DEF SubmissionsSound
  <1> QED
    BY <1>1, DeliveryCorrect, PTL

\* A draft is hidden only while a task of this process answers for it: no failure,
\* refusal, lost answer or crash leaves it behind (begin_draft_publish,
\* restore_unbound_draft_submission, reconcile_draft_submissions).
THEOREM HiddenDraftCorrect == Spec => []HiddenDraftHasSender
  <1>1. DeliveryInv => HiddenDraftHasSender
    BY DEF DeliveryInv
  <1> QED
    BY <1>1, DeliveryCorrect, PTL

\* A draft row disappears only because the relay has an event with exactly its text
\* (delete_draft_for_outbox): no late answer deletes what was written since, and no
\* restart deletes anything.
THEOREM DeletedExactlyCorrect == Spec => DraftDeletedExactly
  <1> DEFINE Exactly == draft # NoDraft /\ draft' = NoDraft =>
                          draft.bound \in relay /\ content[draft.bound] = draft.text
  <1>1. ASSUME DeliveryInv, [Next]_vars, draft # NoDraft, draft' = NoDraft
        PROVE  draft.bound \in relay /\ content[draft.bound] = draft.text
    <2>0. /\ TypeOK /\ CallsSound /\ UnsignedUnknown /\ AnswersTrue /\ GenerationsSound
          /\ draft \in Draft
      BY <1>1, DraftFields DEF DeliveryInv
    <2>1. ASSUME NEW e \in Events, Recorded(e)
          PROVE  draft.bound \in relay /\ content[draft.bound] = draft.text
      <3>1. PICK state \in {"delivered", "rejected", "unknown"} :
              /\ state = "delivered" => e \in relay
              /\ draft' = IF ~IsBound(e) THEN draft
                          ELSE IF state = "delivered" THEN NoDraft
                          ELSE [draft EXCEPT !.state = "editing"]
        BY <2>0, <2>1, RecordedRow
      <3>2. [draft EXCEPT !.state = "editing"] # NoDraft
        BY <1>1, <2>0, DraftChangesType, DraftAssumption
      <3>3. IsBound(e) /\ e \in relay
        BY <1>1, <3>1, <3>2
      <3> QED
        BY <2>0, <3>3, EventAssumption DEF IsBound, GenerationsSound
    <2>2. ASSUME NEW t \in Texts \cup {Empty}, Edit(t) PROVE FALSE
      BY <1>1, <2>0, <2>2, SavedType, DraftAssumption DEF Edit, SaveDraft
    <2>3. ASSUME NEW e \in Events, Submit(e) \/ React(e) \/ SendFails(e) \/ Insert(e) PROVE FALSE
      <3>1. CASE Submit(e)
        <4>1. Saved(composer) \in Draft
          BY <2>0, <3>1, SavedType DEF Submit
        <4>2. draft' \in Draft
          BY <3>1, <4>1 DEF Submit, MarkedSending, Draft
        <4> QED
          BY <1>1, <4>2, DraftAssumption
      <3>2. CASE React(e)
        BY <1>1, <3>2 DEF React, userVars
      <3>3. CASE SendFails(e)
        BY <1>1, <2>0, <3>3, DraftChangesType, DraftAssumption DEF SendFails, Restored
      <3>4. CASE Insert(e)
        BY <1>1, <2>0, <3>4, DraftChangesType, DraftAssumption DEF Insert, InsertOutbox
      <3> QED
        BY <2>3, <3>1, <3>2, <3>3, <3>4
    <2>4. ASSUME NEW e \in Events, SenderRecords(e) PROVE Recorded(e)
      BY <2>0, <2>4, SenderRecordsWhat
    <2>5. ~Crash
      BY <1>1 DEF Crash
    <2>6. ~Restart
      BY <1>1, <2>0, ReconciledDraft DEF Restart
    <2>7. ~UNCHANGED draft
      BY <1>1
    <2> QED
      BY <1>1, <2>0, <2>1, <2>2, <2>3, <2>4, <2>5, <2>6, <2>7, StepKinds
  <1>2. DeliveryInv /\ [Next]_vars => [Exactly]_vars
    BY <1>1
  <1> QED
    BY <1>2, DeliveryCorrect, PTL DEF Spec, DraftDeletedExactly
=============================================================================
