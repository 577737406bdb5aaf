----------------------------- MODULE LocalProofs -----------------------------
(***************************************************************************)
(* Proofs about what stays on this machine: the configuration with its      *)
(* secrets, for any number of identities, relays and commands; the          *)
(* migrations, for any number of processes and versions; the typing         *)
(* indicator; the budgets and the counters of the telemetry exporter, for    *)
(* any number of threads, records and limits; and the caches of the media   *)
(* runtime.                                                                 *)
(***************************************************************************)
EXTENDS Configuration, Migrate, Typing, Exporter, Media, FiniteSetTheorems,
        WellFoundedInduction, TLAPS

-----------------------------------------------------------------------------
(* The configuration *)

Identities == [id : Nat, key : Keypairs]
Configs == [ids : SUBSET Identities,
            coms : SUBSET [id : Nat, relay : Relays, owner : Nat]]

\* What may be left of the steps of a command.
StepsLeft ==
    {<<"persist", "save">>, <<"save">>, <<"undo">>, <<"save", "delete">>, <<"delete">>,
     <<"save", "sync", "pin">>, <<"sync", "pin">>, <<"pin">>,
     <<"save", "purge">>, <<"purge">>, <<"purge", "save">>}

Kinds == {"new", "remove", "add", "leave", "leave and purge", "purge"}

Commands == [kind : Kinds, id : Nat, key : Keypairs \cup {0}, cfg : Configs, steps : StepsLeft]

\* The secret of an identity is the stored one.
Holds(i) == i.id \in DOMAIN vault /\ vault[i.id] = i.key

\* No identity of the file has the identifier.
Unnamed(id) == \A i \in file.ids : i.id # id

\* An identifier is given out once.
Distinct(ids) ==
    /\ \A i \in ids : i.id <= given
    /\ \A i, j \in ids : i.id = j.id => i = j

\* What a running command may rely on: before the secret of a new identity is
\* written nothing names it, afterwards everything the command would save has its
\* secret, and a secret is only ever taken away from an identifier that the file
\* does not name.
CommandSound ==
    command # NoCommand =>
        /\ command \in Commands
        /\ Distinct(command.cfg.ids)
        /\ command.steps = <<"persist", "save">> =>
              /\ command.kind = "new" /\ Unnamed(command.id)
              /\ \A i \in command.cfg.ids :
                    \/ i.id = command.id /\ i.key = command.key
                    \/ i.id # command.id /\ Holds(i)
        /\ command.steps # <<"persist", "save">> => \A i \in command.cfg.ids : Holds(i)
        /\ command.steps = <<"save">> /\ command.kind = "new" => Unnamed(command.id)
        /\ command.steps = <<"undo">> => Unnamed(command.id)
        /\ command.steps \in {<<"save", "delete">>, <<"delete">>} =>
              /\ command.key \in Keypairs /\ command.kind # "new" /\ command.id <= given
              /\ command.id \in DOMAIN vault /\ vault[command.id] = command.key
              /\ \A i \in command.cfg.ids : i.id # command.id
        /\ command.steps = <<"delete">> => Unnamed(command.id)
        /\ command.steps \in {<<"save", "sync", "pin">>, <<"save", "purge">>, <<"purge", "save">>,
                              <<"purge">>, <<"sync", "pin">>, <<"pin">>} =>
              command.kind # "new"

ConfigInv ==
    /\ given \in Nat
    /\ file \in Configs
    /\ Distinct(file.ids)
    /\ NamedHasSecret
    /\ CommandSound

\* The sequences of StepsLeft, by what begins them.
LEMMA StepsHeads ==
    /\ \A s \in StepsLeft :
         /\ Head(s) = "persist" => s = <<"persist", "save">>
         /\ Head(s) = "undo" => s = <<"undo">>
         /\ Head(s) = "delete" => s = <<"delete">>
         /\ Head(s) = "save" => s \in {<<"save">>, <<"save", "delete">>, <<"save", "sync", "pin">>,
                                       <<"save", "purge">>}
         /\ Head(s) = "sync" => s = <<"sync", "pin">>
         /\ Head(s) = "pin" => s = <<"pin">>
         /\ Head(s) = "purge" => s \in {<<"purge">>, <<"purge", "save">>}
         /\ Len(s) # 1 => Tail(s) \in StepsLeft
    /\ Tail(<<"persist", "save">>) = <<"save">> /\ Len(<<"persist", "save">>) = 2
    /\ Tail(<<"save", "delete">>) = <<"delete">> /\ Len(<<"save", "delete">>) = 2
    /\ Tail(<<"save", "sync", "pin">>) = <<"sync", "pin">> /\ Len(<<"save", "sync", "pin">>) = 3
    /\ Tail(<<"sync", "pin">>) = <<"pin">> /\ Len(<<"sync", "pin">>) = 2
    /\ Tail(<<"save", "purge">>) = <<"purge">> /\ Len(<<"save", "purge">>) = 2
    /\ Tail(<<"purge", "save">>) = <<"save">> /\ Len(<<"purge", "save">>) = 2
    /\ Len(<<"save">>) = 1 /\ Len(<<"undo">>) = 1 /\ Len(<<"delete">>) = 1
    /\ Len(<<"pin">>) = 1 /\ Len(<<"purge">>) = 1
  BY DEF StepsLeft

LEMMA AdvanceIs ==
    ASSUME command \in Commands, Advance
    PROVE  \/ Len(command.steps) = 1 /\ command' = NoCommand
           \/ /\ Len(command.steps) # 1 /\ command' \in Commands
              /\ command'.steps = Tail(command.steps)
              /\ command'.kind = command.kind /\ command'.id = command.id
              /\ command'.key = command.key /\ command'.cfg = command.cfg
  <1>1. CASE Len(command.steps) = 1
    BY <1>1 DEF Advance
  <1>2. CASE Len(command.steps) # 1
    <2>1. command' = [command EXCEPT !.steps = Tail(command.steps)]
      BY <1>2 DEF Advance
    <2>2. command.steps \in StepsLeft
      BY DEF Commands
    <2>3. Tail(command.steps) \in StepsLeft
      BY <1>2, <2>2, StepsHeads
    <2> QED
      BY <1>2, <2>1, <2>3 DEF Commands
  <1> QED
    BY <1>1, <1>2

LEMMA HoldingHolds ==
    ASSUME NEW id, NEW key, vault' = Holding(id, key)
    PROVE  /\ \A i : i.id # id => (Holds(i)' <=> Holds(i))
           /\ \A i : i.id = id /\ i.key = key => Holds(i)'
           /\ id \in DOMAIN vault' /\ vault'[id] = key
  BY DEF Holding, Holds

LEMMA WithoutHolds ==
    ASSUME NEW id, vault' = WithoutSecret(id)
    PROVE  \A i : i.id # id => (Holds(i)' <=> Holds(i))
  BY DEF WithoutSecret, Holds

LEMMA NamedIs == NamedHasSecret <=> \A i \in file.ids : Holds(i)
  BY DEF NamedHasSecret, Holds

LEMMA AtMostAlso == \A a, b, c \in Nat : a <= b /\ b <= c => a <= c
  OBVIOUS

LEMMA AtMostItself == \A n \in Nat : n <= n
  OBVIOUS

LEMMA NextNumber ==
    \A g \in Nat : /\ g + 1 \in Nat /\ g <= g + 1
                   /\ \A n \in Nat : n <= g => n <= g + 1 /\ n # g + 1
  OBVIOUS

LEMMA OtherSteps ==
    \A s \in {<<"save", "sync", "pin">>, <<"save">>, <<"save", "purge">>, <<"purge", "save">>,
              <<"sync", "pin">>, <<"pin">>, <<"purge">>} :
        s \notin {<<"persist", "save">>, <<"undo">>, <<"save", "delete">>, <<"delete">>}
  <1> SUFFICES ASSUME NEW s \in {<<"save", "sync", "pin">>, <<"save">>, <<"save", "purge">>,
                                 <<"purge", "save">>, <<"sync", "pin">>, <<"pin">>, <<"purge">>}
               PROVE  s \notin {<<"persist", "save">>, <<"undo">>, <<"save", "delete">>, <<"delete">>}
    OBVIOUS
  <1>1. s # <<"save", "delete">>
    OBVIOUS
  <1>2. s # <<"persist", "save">> /\ s # <<"undo">> /\ s # <<"delete">>
    OBVIOUS
  <1> QED
    BY <1>1, <1>2

\* A command takes its first step with everything in its place.
LEMMA ConfigBegins ==
    ASSUME ConfigInv, UNCHANGED <<file, vault>>, given' \in Nat, given <= given',
           command' \in Commands,
           \A i, j \in command'.cfg.ids : i.id = j.id => i = j,
           \A i \in command'.cfg.ids : i.id <= given',
           \/ /\ command'.kind = "new" /\ command'.steps = <<"persist", "save">>
              /\ \A i \in file.ids : i.id # command'.id
              /\ \A i \in command'.cfg.ids :
                    i \in file.ids \/ (i.id = command'.id /\ i.key = command'.key)
           \/ /\ command'.kind = "remove" /\ command'.steps = <<"save", "delete">>
              /\ command'.key \in Keypairs
              /\ \E i \in file.ids : i.id = command'.id /\ i.key = command'.key
              /\ command'.cfg.ids \subseteq file.ids
              /\ \A i \in command'.cfg.ids : i.id # command'.id
           \/ /\ command'.kind # "new"
              /\ command'.steps \in {<<"save", "sync", "pin">>, <<"save">>, <<"save", "purge">>,
                                     <<"purge", "save">>}
              /\ command'.cfg.ids \subseteq file.ids
    PROVE  ConfigInv'
  <1>1. \A i \in file.ids : Holds(i) /\ i.id <= given
    BY NamedIs DEF ConfigInv, Distinct
  <1>2. \A i \in file.ids : i.id \in Nat
    BY DEF ConfigInv, Configs, Identities
  <1>3. Distinct(file.ids)' /\ Distinct(command.cfg.ids)'
    <2>1. \A i \in file.ids : i.id <= given'
      BY <1>1, <1>2, AtMostAlso DEF ConfigInv
    <2> QED
      BY <2>1 DEF ConfigInv, Distinct
  <1>4. \A i \in file.ids : Holds(i)'
    BY <1>1 DEF Holds
  <1>5. NamedHasSecret'
    BY <1>1 DEF NamedHasSecret, Holds
  <1>6. CommandSound'
    <2>1. CASE /\ command'.kind = "new" /\ command'.steps = <<"persist", "save">>
               /\ \A i \in file.ids : i.id # command'.id
               /\ \A i \in command'.cfg.ids :
                     i \in file.ids \/ (i.id = command'.id /\ i.key = command'.key)
      <3>1. Unnamed(command.id)'
        BY <2>1 DEF Unnamed
      <3>2. \A i \in command'.cfg.ids : \/ i.id = command'.id /\ i.key = command'.key
                                        \/ i.id # command'.id /\ Holds(i)'
        BY <1>4, <2>1
      <3> QED
        BY <1>3, <2>1, <3>1, <3>2 DEF CommandSound
    <2>2. CASE /\ command'.kind = "remove" /\ command'.steps = <<"save", "delete">>
               /\ command'.key \in Keypairs
               /\ \E i \in file.ids : i.id = command'.id /\ i.key = command'.key
               /\ command'.cfg.ids \subseteq file.ids
               /\ \A i \in command'.cfg.ids : i.id # command'.id
      <3>1. command'.id \in DOMAIN vault' /\ vault'[command'.id] = command'.key
        BY <1>4, <2>2 DEF Holds
      <3>2. command'.id <= given'
        BY <1>1, <1>2, <2>2, AtMostAlso DEF ConfigInv
      <3>3. \A i \in command'.cfg.ids : Holds(i)'
        BY <1>4, <2>2
      <3> QED
        BY <1>3, <2>2, <3>1, <3>2, <3>3 DEF CommandSound
    <2>3. CASE /\ command'.kind # "new"
               /\ command'.steps \in {<<"save", "sync", "pin">>, <<"save">>, <<"save", "purge">>,
                                      <<"purge", "save">>}
               /\ command'.cfg.ids \subseteq file.ids
      <3>1. \A i \in command'.cfg.ids : Holds(i)'
        BY <1>4, <2>3
      <3>2. command'.steps \notin {<<"persist", "save">>, <<"undo">>, <<"save", "delete">>,
                                   <<"delete">>}
        BY <2>3, OtherSteps
      <3> QED
        BY <1>3, <2>3, <3>1, <3>2 DEF CommandSound
    <2> QED
      BY <2>1, <2>2, <2>3
  <1> QED
    BY <1>3, <1>5, <1>6 DEF ConfigInv

\* A command that is over, and a vault that still holds the secrets of the file.
LEMMA ConfigEnds ==
    ASSUME ConfigInv, given' = given, file' = file, command' = NoCommand,
           \A i \in file.ids : Holds(i)'
    PROVE  ConfigInv'
  <1>1. Distinct(file.ids)'
    BY DEF ConfigInv, Distinct
  <1>2. NamedHasSecret'
    BY DEF NamedHasSecret, Holds
  <1> QED
    BY <1>1, <1>2 DEF ConfigInv, CommandSound

\* A step that leaves the file and the vault alone, when it does not begin
\* anything.
LEMMA ConfigIdles ==
    ASSUME ConfigInv, UNCHANGED <<given, file, vault>>,
           command' = command \/ command' = NoCommand
    PROVE  ConfigInv'
  <1>1. \A i \in file.ids : Holds(i)'
    BY NamedIs DEF ConfigInv, Holds
  <1>2. CASE command' = NoCommand
    BY <1>1, <1>2, ConfigEnds
  <1>3. CASE command' = command
    BY <1>3 DEF ConfigInv, Distinct, NamedHasSecret, CommandSound, Unnamed, Holds
  <1> QED
    BY <1>2, <1>3

LEMMA ConfigPersists == ASSUME ConfigInv, PersistSecret PROVE ConfigInv'
  <1>1. /\ command # NoCommand /\ command \in Commands /\ Head(command.steps) = "persist"
        /\ UNCHANGED <<file, given>>
    BY DEF PersistSecret, Going, ConfigInv, CommandSound
  <1>2. command.steps = <<"persist", "save">>
    BY <1>1, StepsHeads DEF Commands
  <1>3. /\ command.kind = "new" /\ Unnamed(command.id)
        /\ Distinct(command.cfg.ids)
        /\ \A i \in command.cfg.ids : \/ i.id = command.id /\ i.key = command.key
                                      \/ i.id # command.id /\ Holds(i)
    BY <1>1, <1>2 DEF ConfigInv, CommandSound
  <1>4. \A i \in file.ids : Holds(i) /\ i.id # command.id
    BY <1>3, NamedIs DEF ConfigInv, Unnamed
  <1>5. CASE GiveUp /\ vault' \in NotStored(command.id)
    <2>1. vault' = vault \/ vault' = WithoutSecret(command.id)
      BY <1>5 DEF NotStored
    <2>2. \A i \in file.ids : Holds(i)'
      BY <1>4, <2>1, WithoutHolds DEF Holds
    <2> QED
      BY <1>1, <1>5, <2>2, ConfigEnds DEF GiveUp
  <1>6. CASE Advance /\ vault' = Holding(command.id, command.key)
    <2>1. \A i \in file.ids : Holds(i)'
      BY <1>4, <1>6, HoldingHolds
    <2>2. \A i \in command.cfg.ids : Holds(i)'
      BY <1>3, <1>6, HoldingHolds
    <2>3. /\ command' \in Commands /\ command'.steps = <<"save">>
          /\ command'.kind = "new" /\ command'.id = command.id
          /\ command'.key = command.key /\ command'.cfg = command.cfg
      BY <1>1, <1>2, <1>3, <1>6, AdvanceIs, StepsHeads
    <2>4. Unnamed(command.id)'
      BY <1>1, <1>3, <2>3 DEF Unnamed
    <2>5. Distinct(file.ids)' /\ Distinct(command.cfg.ids)'
      BY <1>1, <1>3, <2>3 DEF ConfigInv, Distinct
    <2>6. NamedHasSecret'
      BY <1>1, <2>1 DEF NamedHasSecret, Holds
    <2>7. CommandSound'
      BY <1>1, <1>3, <2>2, <2>3, <2>4, <2>5, OtherSteps DEF CommandSound
    <2> QED
      BY <1>1, <2>5, <2>6, <2>7 DEF ConfigInv
  <1> QED
    BY <1>5, <1>6 DEF PersistSecret

LEMMA ConfigSaves == ASSUME ConfigInv, SaveConfig PROVE ConfigInv'
  <1>1. /\ command # NoCommand /\ command \in Commands /\ Head(command.steps) = "save"
        /\ UNCHANGED <<vault, given>>
    BY DEF SaveConfig, Going, ConfigInv, CommandSound
  <1>2. command.steps \in {<<"save">>, <<"save", "delete">>, <<"save", "sync", "pin">>,
                           <<"save", "purge">>}
    BY <1>1, StepsHeads DEF Commands
  <1>3. command.steps # <<"persist", "save">> /\ command.steps # <<"undo">>
    BY <1>2
  <1>4. /\ Distinct(command.cfg.ids)
        /\ \A i \in command.cfg.ids : Holds(i)
    BY <1>1, <1>3 DEF ConfigInv, CommandSound
  <1>5. \A i \in command.cfg.ids : Holds(i)'
    BY <1>1, <1>4 DEF Holds
  <1>6. CASE Advance /\ file' = command.cfg
    <2>1. file' \in Configs
      BY <1>1, <1>6 DEF Commands
    <2>2. Distinct(file.ids)'
      BY <1>1, <1>4, <1>6 DEF Distinct
    <2>3. NamedHasSecret'
      BY <1>5, <1>6 DEF NamedHasSecret, Holds
    <2>4. CASE command' = NoCommand
      BY <1>1, <2>1, <2>2, <2>3, <2>4 DEF ConfigInv, CommandSound
    <2>5. CASE command' # NoCommand
      <3>1. /\ command' \in Commands /\ command'.steps = Tail(command.steps)
            /\ Len(command.steps) # 1
            /\ command'.kind = command.kind /\ command'.id = command.id
            /\ command'.key = command.key /\ command'.cfg = command.cfg
        BY <1>1, <1>6, <2>5, AdvanceIs
      <3>2. Distinct(command.cfg.ids)'
        BY <1>1, <1>4, <3>1 DEF Distinct
      <3>3. CASE command.steps = <<"save", "delete">>
        <4>1. command'.steps = <<"delete">>
          BY <3>1, <3>3, StepsHeads
        <4>2. /\ command.key \in Keypairs /\ command.kind # "new" /\ command.id <= given
              /\ command.id \in DOMAIN vault /\ vault[command.id] = command.key
              /\ \A i \in command.cfg.ids : i.id # command.id
          BY <1>1, <3>3 DEF ConfigInv, CommandSound
        <4>3. Unnamed(command.id)'
          BY <1>6, <3>1, <4>2 DEF Unnamed
        <4>4. CommandSound'
          BY <1>1, <1>4, <1>5, <3>1, <3>2, <4>1, <4>2, <4>3 DEF CommandSound
        <4> QED
          BY <1>1, <2>1, <2>2, <2>3, <4>4 DEF ConfigInv
      <3>4. CASE command.steps \in {<<"save", "sync", "pin">>, <<"save", "purge">>}
        <4>1. command'.steps \in {<<"sync", "pin">>, <<"purge">>}
          BY <3>1, <3>4, StepsHeads
        <4>2. command.kind # "new"
          BY <1>1, <3>4 DEF ConfigInv, CommandSound
        <4>3. /\ command'.steps \notin {<<"persist", "save">>, <<"undo">>, <<"save", "delete">>,
                                        <<"delete">>}
              /\ command'.steps # <<"save">>
          BY <4>1, OtherSteps
        <4>4. CommandSound'
          BY <1>1, <1>4, <1>5, <3>1, <3>2, <4>2, <4>3 DEF CommandSound
        <4> QED
          BY <1>1, <2>1, <2>2, <2>3, <4>4 DEF ConfigInv
      <3> QED
        BY <1>2, <3>1, <3>3, <3>4, StepsHeads
    <2> QED
      BY <2>4, <2>5
  <1>7. CASE GiveUp /\ UNCHANGED file
    BY <1>1, <1>7, ConfigIdles DEF GiveUp
  <1>8. CASE /\ command.kind = "new" /\ UNCHANGED file
             /\ command' = [command EXCEPT !.steps = <<"undo">>]
    <2>1. command.steps = <<"save">>
      BY <1>1, <1>2, <1>8 DEF ConfigInv, CommandSound
    <2>2. Unnamed(command.id)
      BY <1>1, <1>8, <2>1 DEF ConfigInv, CommandSound
    <2>3. /\ command' \in Commands /\ command'.steps = <<"undo">> /\ command'.kind = "new"
          /\ command'.id = command.id /\ command'.cfg = command.cfg
      <3>1. <<"undo">> \in StepsLeft
        BY DEF StepsLeft
      <3> QED
        BY <1>1, <1>8, <3>1 DEF Commands
    <2>4. Unnamed(command.id)' /\ Distinct(command.cfg.ids)' /\ Distinct(file.ids)'
      BY <1>1, <1>4, <1>8, <2>2, <2>3 DEF Unnamed, Distinct, ConfigInv
    <2>5. NamedHasSecret'
      BY <1>1, <1>8 DEF ConfigInv, NamedHasSecret
    <2>6. /\ <<"undo">> # <<"persist", "save">> /\ <<"undo">> # <<"save">>
          /\ <<"undo">> \notin {<<"save", "delete">>, <<"delete">>}
          /\ <<"undo">> \notin {<<"save", "sync", "pin">>, <<"save", "purge">>, <<"purge", "save">>,
                                <<"purge">>, <<"sync", "pin">>, <<"pin">>}
      BY OtherSteps
    <2>7. CommandSound'
      BY <1>1, <1>4, <1>5, <2>3, <2>4, <2>6 DEF CommandSound
    <2> QED
      BY <1>1, <1>8, <2>4, <2>5, <2>7 DEF ConfigInv
  <1> QED
    BY <1>6, <1>7, <1>8 DEF SaveConfig

LEMMA ConfigUndoes == ASSUME ConfigInv, UndoSecret PROVE ConfigInv'
  <1>1. /\ command # NoCommand /\ command \in Commands /\ Head(command.steps) = "undo"
        /\ UNCHANGED <<file, given>> /\ command' = NoCommand
        /\ vault' \in {vault, WithoutSecret(command.id)}
    BY DEF UndoSecret, Going, ConfigInv, CommandSound, GiveUp
  <1>2. command.steps = <<"undo">>
    BY <1>1, StepsHeads DEF Commands
  <1>3. \A i \in file.ids : Holds(i) /\ i.id # command.id
    BY <1>1, <1>2, NamedIs DEF ConfigInv, CommandSound, Unnamed
  <1>4. \A i \in file.ids : Holds(i)'
    BY <1>1, <1>3, WithoutHolds DEF Holds
  <1> QED
    BY <1>1, <1>4, ConfigEnds

LEMMA ConfigDeletes == ASSUME ConfigInv, DeleteSecret PROVE ConfigInv'
  <1>1. /\ command # NoCommand /\ command \in Commands /\ Head(command.steps) = "delete"
        /\ UNCHANGED <<file, given>>
    BY DEF DeleteSecret, Going, ConfigInv, CommandSound
  <1>2. command.steps = <<"delete">>
    BY <1>1, StepsHeads DEF Commands
  <1>3. /\ command.key \in Keypairs /\ command.kind # "new" /\ command.id <= given
        /\ command.id \in DOMAIN vault /\ vault[command.id] = command.key
        /\ Unnamed(command.id) /\ Distinct(command.cfg.ids)
        /\ \A i \in command.cfg.ids : Holds(i) /\ i.id # command.id
    <2>1. command.steps # <<"persist", "save">>
      BY <1>2
    <2> QED
      BY <1>1, <1>2, <2>1 DEF ConfigInv, CommandSound
  <1>4. \A i \in file.ids : Holds(i) /\ i.id # command.id
    BY <1>3, NamedIs DEF ConfigInv, Unnamed
  <1>5. CASE Advance /\ vault' = WithoutSecret(command.id)
    <2>1. \A i \in file.ids : Holds(i)'
      BY <1>4, <1>5, WithoutHolds
    <2>2. command' = NoCommand
      BY <1>1, <1>2, <1>5, AdvanceIs, StepsHeads
    <2> QED
      BY <1>1, <2>1, <2>2, ConfigEnds
  <1>6. CASE /\ UNCHANGED vault
             /\ command' = [command EXCEPT !.steps = <<"save">>,
                              !.cfg.ids = @ \cup {[id |-> command.id, key |-> command.key]}]
    <2> DEFINE back == [id |-> command.id, key |-> command.key]
    <2>1. back \in Identities /\ back.id = command.id /\ back.key = command.key
      BY <1>1, <1>3 DEF Identities, Commands
    <2> HIDE DEF back
    <2>2. <<"save">> \in StepsLeft
      BY DEF StepsLeft
    <2>3. /\ command.cfg \in Configs /\ command.cfg.ids \subseteq Identities
          /\ command'.cfg = [command.cfg EXCEPT !.ids = @ \cup {back}]
          /\ command' = [command EXCEPT !.steps = <<"save">>, !.cfg = command'.cfg]
      BY <1>1, <1>6 DEF Commands, Configs, back
    <2>4. command'.cfg \in Configs /\ command'.cfg.ids = command.cfg.ids \cup {back}
      BY <2>1, <2>3 DEF Configs
    <2>5. /\ command' \in Commands /\ command'.steps = <<"save">>
          /\ command'.kind = command.kind /\ command'.id = command.id
      BY <1>1, <2>2, <2>3, <2>4 DEF Commands
    <2>6. \A i \in command'.cfg.ids : Holds(i)'
      BY <1>3, <1>6, <2>1, <2>4 DEF Holds
    <2>7. Distinct(command.cfg.ids)' /\ Distinct(file.ids)'
      BY <1>1, <1>3, <2>1, <2>4 DEF Distinct, ConfigInv
    <2>8. NamedHasSecret'
      BY <1>1, <1>6 DEF ConfigInv, NamedHasSecret
    <2>9. /\ <<"save">> # <<"persist", "save">> /\ <<"save">> # <<"undo">>
          /\ <<"save">> \notin {<<"save", "delete">>, <<"delete">>}
      BY OtherSteps
    <2>10. CommandSound'
      BY <1>1, <1>3, <2>5, <2>6, <2>7, <2>9 DEF CommandSound
    <2> QED
      BY <1>1, <2>7, <2>8, <2>10 DEF ConfigInv
  <1> QED
    BY <1>5, <1>6 DEF DeleteSecret

\* The steps that touch only the database.
LEMMA ConfigGoesOn ==
    ASSUME ConfigInv, command # NoCommand, UNCHANGED <<file, vault, given>>, Advance,
           command.steps \in {<<"sync", "pin">>, <<"pin">>, <<"purge">>, <<"purge", "save">>}
    PROVE  ConfigInv'
  <1>1. command \in Commands /\ command.kind # "new"
        /\ Distinct(command.cfg.ids)
    BY DEF ConfigInv, CommandSound
  <1>2. command.steps # <<"persist", "save">>
    BY OtherSteps
  <1>3. \A i \in command.cfg.ids : Holds(i)
    BY <1>2 DEF ConfigInv, CommandSound
  <1>4. CASE command' = NoCommand
    BY <1>4, ConfigIdles
  <1>5. CASE command' # NoCommand
    <2>1. /\ command' \in Commands /\ command'.steps = Tail(command.steps)
          /\ Len(command.steps) # 1
          /\ command'.kind = command.kind /\ command'.id = command.id
          /\ command'.key = command.key /\ command'.cfg = command.cfg
      BY <1>1, <1>5, AdvanceIs
    <2>2. command'.steps \in {<<"pin">>, <<"save">>}
      BY <2>1, StepsHeads
    <2>3. command'.steps \notin {<<"persist", "save">>, <<"undo">>, <<"save", "delete">>, <<"delete">>}
      BY <2>2, OtherSteps
    <2>4. \A i \in command'.cfg.ids : Holds(i)'
      BY <1>3, <2>1 DEF Holds
    <2>5. Distinct(file.ids)' /\ Distinct(command.cfg.ids)'
      BY <1>1, <2>1 DEF ConfigInv, Distinct
    <2>6. CommandSound'
      BY <1>1, <2>1, <2>3, <2>4, <2>5 DEF CommandSound
    <2>7. NamedHasSecret'
      BY DEF ConfigInv, NamedHasSecret
    <2> QED
      BY <2>5, <2>6, <2>7 DEF ConfigInv
  <1> QED
    BY <1>4, <1>5

LEMMA ConfigTables == ASSUME ConfigInv, SyncConfig \/ PinRelay \/ PurgeCommunity PROVE ConfigInv'
  <1>1. /\ command # NoCommand /\ command \in Commands
        /\ UNCHANGED <<file, vault, given>>
        /\ GiveUp \/ (Advance /\ Head(command.steps) \in {"sync", "pin", "purge"})
    BY DEF SyncConfig, PinRelay, PurgeCommunity, Going, ConfigInv, CommandSound
  <1>2. CASE GiveUp
    BY <1>1, <1>2, ConfigIdles DEF GiveUp
  <1>3. CASE Advance /\ Head(command.steps) \in {"sync", "pin", "purge"}
    <2>1. command.steps \in {<<"sync", "pin">>, <<"pin">>, <<"purge">>, <<"purge", "save">>}
      BY <1>1, <1>3, StepsHeads DEF Commands
    <2> QED
      BY <1>1, <1>3, <2>1, ConfigGoesOn
  <1> QED
    BY <1>1, <1>2, <1>3

LEMMA ConfigNumbers ==
    ASSUME ConfigInv
    PROVE  /\ given \in Nat /\ file \in Configs /\ file.ids \subseteq Identities
           /\ file.coms \subseteq [id : Nat, relay : Relays, owner : Nat]
           /\ \A i \in file.ids : i.id \in Nat /\ i.key \in Keypairs /\ i.id <= given
           /\ \A i, j \in file.ids : i.id = j.id => i = j
           /\ given' = given + 1 =>
                /\ given' \in Nat /\ given <= given'
                /\ \A i \in file.ids : i.id <= given' /\ i.id # given'
  <1>1. /\ given \in Nat /\ file \in Configs /\ Distinct(file.ids) /\ file.ids \subseteq Identities
        /\ file.coms \subseteq [id : Nat, relay : Relays, owner : Nat]
    BY DEF ConfigInv, Configs
  <1>2. \A i \in file.ids : i.id \in Nat /\ i.key \in Keypairs /\ i.id <= given
    BY <1>1 DEF Identities, Distinct
  <1>3. \A i, j \in file.ids : i.id = j.id => i = j
    BY <1>1 DEF Distinct
  <1>4. given' = given + 1 =>
           /\ given' \in Nat /\ given <= given'
           /\ \A i \in file.ids : i.id <= given' /\ i.id # given'
    BY <1>1, <1>2, NextNumber
  <1> QED
    BY <1>1, <1>2, <1>3, <1>4

LEMMA CommandMade ==
    \A kind \in Kinds, id \in Nat, key \in Keypairs \cup {0}, cfg \in Configs, steps \in StepsLeft :
        command' = [kind |-> kind, id |-> id, key |-> key, cfg |-> cfg, steps |-> steps] =>
            /\ command' \in Commands /\ command'.kind = kind /\ command'.id = id
            /\ command'.key = key /\ command'.cfg = cfg /\ command'.steps = steps
  BY DEF Commands

LEMMA ConfigNew ==
    ASSUME ConfigInv, NEW k \in Keypairs, NewIdentity(k) PROVE ConfigInv'
  <1> DEFINE new == [id |-> given', key |-> k]
             cfg == [file EXCEPT !.ids = @ \cup {new}]
  <1>1. /\ given' = given + 1 /\ UNCHANGED <<file, vault>>
        /\ command' = [kind |-> "new", id |-> given', key |-> k, cfg |-> cfg, steps |-> Steps("new")]
    BY DEF NewIdentity, Begin
  <1>2. given' \in Nat /\ given <= given' /\ \A i \in file.ids : i.id <= given' /\ i.id # given'
    BY ConfigNumbers, <1>1
  <1>3. new \in Identities /\ new.id = given' /\ new.key = k
    BY <1>2 DEF Identities
  <1> HIDE DEF new
  <1>4. cfg \in Configs /\ cfg.ids = file.ids \cup {new}
    BY ConfigNumbers, <1>3 DEF Configs
  <1> HIDE DEF cfg
  <1>5. \A i, j \in cfg.ids : i.id = j.id => i = j
    BY ConfigNumbers, <1>2, <1>3, <1>4
  <1>6. \A i \in cfg.ids : i \in file.ids \/ i = new
    BY <1>4
  <1>7. Steps("new") = <<"persist", "save">> /\ Steps("new") \in StepsLeft
    BY DEF Steps, StepsLeft
  <1>8. /\ command' \in Commands /\ command'.kind = "new" /\ command'.steps = <<"persist", "save">>
        /\ command'.id = given' /\ command'.key = k /\ command'.cfg = cfg
    BY <1>1, <1>2, <1>4, <1>7, CommandMade DEF Kinds
  <1>9. \A n \in Nat : n <= n
    OBVIOUS
  <1>10. \A i \in cfg.ids : i.id <= given'
    BY <1>2, <1>3, <1>6, <1>9
  <1> QED
    BY <1>1, <1>2, <1>3, <1>5, <1>6, <1>8, <1>10, ConfigBegins

LEMMA ConfigRemove ==
    ASSUME ConfigInv, NEW i \in file.ids, RemoveIdentity(i) PROVE ConfigInv'
  <1> DEFINE cfg == [file EXCEPT !.ids = @ \ {i}]
  <1>1. /\ UNCHANGED <<file, vault, given>>
        /\ command' = [kind |-> "remove", id |-> i.id, key |-> i.key, cfg |-> cfg,
                       steps |-> Steps("remove")]
    BY DEF RemoveIdentity, Begin
  <1>2. cfg \in Configs /\ cfg.ids = file.ids \ {i}
    BY ConfigNumbers DEF Configs
  <1> HIDE DEF cfg
  <1>3. \A j \in cfg.ids : j.id # i.id
    BY ConfigNumbers, <1>2
  <1>4. Steps("remove") = <<"save", "delete">> /\ Steps("remove") \in StepsLeft
    BY DEF Steps, StepsLeft
  <1>5. /\ command' \in Commands /\ command'.kind = "remove"
        /\ command'.steps = <<"save", "delete">>
        /\ command'.id = i.id /\ command'.key = i.key /\ command'.cfg = cfg
    BY ConfigNumbers, <1>1, <1>2, <1>4, CommandMade DEF Kinds
  <1>6. given' \in Nat /\ given <= given'
    BY ConfigNumbers, <1>1
  <1>7. \A a \in cfg.ids : a.id <= given'
    BY ConfigNumbers, <1>1, <1>2
  <1>8. \A a, b \in cfg.ids : a.id = b.id => a = b
    BY ConfigNumbers, <1>2
  <1>9. i.key \in Keypairs /\ cfg.ids \subseteq file.ids
    BY ConfigNumbers, <1>2
  <1> QED
    BY <1>1, <1>3, <1>5, <1>6, <1>7, <1>8, <1>9, ConfigBegins

LEMMA ConfigAdd ==
    ASSUME ConfigInv, NEW r \in Relays, NEW i \in file.ids, AddCommunity(r, i)
    PROVE  ConfigInv'
  <1> DEFINE new == [id |-> given', relay |-> r, owner |-> i.id]
             cfg == [file EXCEPT !.coms = @ \cup {new}]
  <1>1. /\ given' = given + 1 /\ UNCHANGED <<file, vault>>
        /\ command' = [kind |-> "add", id |-> given', key |-> i.key, cfg |-> cfg,
                       steps |-> Steps("add")]
    BY DEF AddCommunity, Begin
  <1>2. given' \in Nat /\ given <= given' /\ \A j \in file.ids : j.id <= given' /\ j.id # given'
    BY ConfigNumbers, <1>1
  <1>3. new \in [id : Nat, relay : Relays, owner : Nat]
    BY ConfigNumbers, <1>2
  <1> HIDE DEF new
  <1>4. cfg \in Configs /\ cfg.ids = file.ids
    BY ConfigNumbers, <1>3 DEF Configs
  <1> HIDE DEF cfg
  <1>5. Steps("add") = <<"save", "sync", "pin">> /\ Steps("add") \in StepsLeft
    BY DEF Steps, StepsLeft
  <1>6. /\ command' \in Commands /\ command'.kind = "add"
        /\ command'.steps = <<"save", "sync", "pin">> /\ command'.cfg = cfg
    BY ConfigNumbers, <1>1, <1>2, <1>4, <1>5, CommandMade DEF Kinds
  <1> QED
    BY ConfigNumbers, <1>1, <1>2, <1>4, <1>6, ConfigBegins

LEMMA ConfigLeave ==
    ASSUME ConfigInv, NEW c \in file.coms, NEW kind \in {"leave", "leave and purge", "purge"},
           RemoveCommunity(c, kind)
    PROVE  ConfigInv'
  <1> DEFINE cfg == [file EXCEPT !.coms = @ \ {c}]
  <1>1. /\ UNCHANGED <<file, vault, given>>
        /\ command' = [kind |-> kind, id |-> c.id, key |-> 0, cfg |-> cfg, steps |-> Steps(kind)]
    BY DEF RemoveCommunity, Begin
  <1>2. cfg \in Configs /\ cfg.ids = file.ids
    BY ConfigNumbers DEF Configs
  <1> HIDE DEF cfg
  <1>3. c.id \in Nat /\ kind \in Kinds
    BY ConfigNumbers DEF Kinds
  <1>4. /\ Steps(kind) \in {<<"save">>, <<"save", "purge">>, <<"purge", "save">>}
        /\ Steps(kind) \in StepsLeft
    BY DEF Steps, StepsLeft
  <1>5. /\ command' \in Commands /\ command'.kind = kind
        /\ command'.steps = Steps(kind) /\ command'.cfg = cfg
    <2>1. /\ kind \in Kinds /\ c.id \in Nat /\ 0 \in Keypairs \cup {0} /\ cfg \in Configs
          /\ Steps(kind) \in StepsLeft
      BY <1>2, <1>3, <1>4
    <2> DEFINE steps == Steps(kind)
    <2>2. steps \in StepsLeft /\ command' = [kind |-> kind, id |-> c.id, key |-> 0, cfg |-> cfg, steps |-> steps]
      BY <1>1, <2>1
    <2>4. steps = Steps(kind)
      OBVIOUS
    <2> HIDE DEF steps
    <2>3. /\ command' \in Commands /\ command'.kind = kind /\ command'.steps = steps
          /\ command'.cfg = cfg
      BY <2>1, <2>2, CommandMade
    <2> QED
      BY <2>3, <2>4
  <1>6. given' \in Nat /\ given <= given'
    <2>1. given \in Nat
      BY DEF ConfigInv
    <2>2. given' = given
      BY <1>1
    <2> QED
      BY <2>1, <2>2, AtMostItself
  <1>7. command'.kind # "new"
    BY <1>5
  <1> QED
    BY ConfigNumbers, <1>1, <1>2, <1>4, <1>5, <1>6, <1>7, ConfigBegins

LEMMA ConfigRestores ==
    ASSUME Backend = "keychain", ConfigInv, NEW i \in file.ids, RestoreIdentity(i)
    PROVE  ConfigInv'
  <1>1. command = NoCommand /\ UNCHANGED <<file, given, command>>
    BY DEF RestoreIdentity
  <1>2. vault' = Holding(i.id, i.key) \/ vault' = vault
    BY DEF RestoreIdentity, NotStored
  <1>3. \A j \in file.ids : Holds(j)'
    <2>1. CASE vault' = Holding(i.id, i.key)
      <3>1. \A j \in file.ids : j.id = i.id => j = i
        BY ConfigNumbers
      <3>2. \A j \in file.ids : Holds(j)
        BY NamedIs DEF ConfigInv
      <3>3. \A j : j.id # i.id => (Holds(j)' <=> Holds(j))
        BY <2>1, HoldingHolds
      <3>4. Holds(i)'
        BY <2>1, HoldingHolds
      <3> QED
        BY <3>1, <3>2, <3>3, <3>4
    <2>2. CASE vault' = vault
      BY <2>2, NamedIs DEF ConfigInv, Holds
    <2> QED
      BY <1>2, <2>1, <2>2
  <1>5. /\ given' = given /\ file' = file /\ command' = NoCommand
    BY <1>1
  <1> QED
    BY <1>3, <1>5, ConfigEnds

\* The order of writing and deleting matters only where a secret is replaced:
\* the keychain puts the previous secret back when a new one does not read back
\* as written, the encrypted file does not.
LEMMA ConfigStep ==
    ASSUME Backend = "keychain", ConfigInv, [ConfigNext]_configVars PROVE ConfigInv'
  <1>1. CASE UNCHANGED configVars
    BY <1>1, ConfigIdles DEF configVars
  <1>2. CASE \E k \in Keypairs : NewIdentity(k)
    BY <1>2, ConfigNew
  <1>3. CASE \E i \in file.ids : RemoveIdentity(i)
    BY <1>3, ConfigRemove
  <1>4. CASE \E i \in file.ids : RestoreIdentity(i)
    BY <1>4, ConfigRestores
  <1>5. CASE \E r \in Relays, i \in file.ids : AddCommunity(r, i)
    BY <1>5, ConfigAdd
  <1>6. CASE \E c \in file.coms, kind \in {"leave", "leave and purge", "purge"} :
               RemoveCommunity(c, kind)
    BY <1>6, ConfigLeave
  <1>7. CASE PersistSecret
    BY <1>7, ConfigPersists
  <1>8. CASE SaveConfig
    BY <1>8, ConfigSaves
  <1>9. CASE UndoSecret
    BY <1>9, ConfigUndoes
  <1>10. CASE DeleteSecret
    BY <1>10, ConfigDeletes
  <1>11. CASE SyncConfig \/ PinRelay \/ PurgeCommunity
    BY <1>11, ConfigTables
  <1>12. CASE PurgeAll \/ Die \/ Start \/ (\E c \in file.coms : Connect(c))
              \/ (\E r \in Relays : RelayChangesKey(r))
    BY <1>12, ConfigIdles DEF PurgeAll, Die, GiveUp, Start, Connect, RelayChangesKey
  <1> QED
    BY <1>1, <1>2, <1>3, <1>4, <1>5, <1>6, <1>7, <1>8, <1>9, <1>10, <1>11, <1>12 DEF ConfigNext

\* Whatever command fails or dies where, an identity that config.toml names has
\* the secret of its key in the keychain: the snapshot a command saves names only
\* identities whose secrets stay (identity.rs, new, remove, restore and their
\* undoing; config.rs, save).  With the encrypted file a restore that does not read
\* back removes the secret it replaces, so the hypothesis cannot be left out.
THEOREM NamedCorrect == ASSUME Backend = "keychain" PROVE ConfigSpec => []NamedHasSecret
  <1>1. ConfigInit => ConfigInv
    BY DEF ConfigInit, ConfigInv, Configs, Identities, Distinct, NamedHasSecret, CommandSound
  <1>2. ConfigInv /\ [ConfigNext]_configVars => ConfigInv'
    BY ConfigStep
  <1>3. ConfigInv => NamedHasSecret
    BY DEF ConfigInv
  <1> QED
    BY <1>1, <1>2, <1>3, PTL DEF ConfigSpec

-----------------------------------------------------------------------------
(* The migrations *)

Steppings == {"off", "copying", "pruning", "migrating", "deriving", "rederiving",
              "reconciling", "open"}

\* The file is at one version whoever wrote it last, and nobody has read a newer
\* one; a process is past the search projection only with its version in place.
MigrateInv ==
    /\ userVersion \in Schemas /\ shipped \in Schemas
    /\ ledger = 1..userVersion
    /\ executed = [v \in Schemas |-> IF v <= userVersion THEN 1 ELSE 0]
    /\ opener \in [Openers -> [at : Steppings, build : Nat, read : Nat]]
    /\ \A p \in Openers : /\ opener[p].read <= userVersion
                          /\ opener[p].build <= LastSchema
                          /\ opener[p].at \in {"reconciling", "open"} => searchDerived

\* The first version a process misses is the next of the file, or the ledger has it.
LEMMA NextVersion ==
    \A u, r, b, v \in Nat :
        /\ u \in Schemas /\ r <= u /\ b <= LastSchema /\ v \in Schemas /\ v \notin 1..u
        /\ r < v /\ v <= b
        /\ \A w \in Schemas : r < w /\ w <= b => v <= w
        => v = u + 1
  <1> SUFFICES ASSUME NEW u \in Nat, NEW r \in Nat, NEW b \in Nat, NEW v \in Nat,
                      u \in Schemas, r <= u, b <= LastSchema, v \in Schemas, v \notin 1..u,
                      r < v, v <= b,
                      \A w \in Schemas : r < w /\ w <= b => v <= w
               PROVE  v = u + 1
    OBVIOUS
  <1>1. v >= u + 1
    BY DEF Schemas
  <1>2. u + 1 \in Schemas /\ r < u + 1 /\ u + 1 <= b
    BY <1>1, MigrateAssumption DEF Schemas
  <1>3. v <= u + 1
    BY <1>2
  <1> QED
    BY <1>1, <1>3

LEMMA MigrateOthers ==
    ASSUME MigrateInv, NEW p \in Openers, NEW o \in [at : Steppings, build : Nat, read : Nat],
           opener' = [opener EXCEPT ![p] = o],
           o.read <= userVersion, o.build <= LastSchema,
           o.at \in {"reconciling", "open"} => searchDerived',
           searchDerived => searchDerived',
           UNCHANGED <<userVersion, ledger, executed>>, shipped' \in Schemas
    PROVE  MigrateInv'
  <1>1. opener' \in [Openers -> [at : Steppings, build : Nat, read : Nat]]
    BY DEF MigrateInv
  <1>2. \A q \in Openers : opener'[q] = IF q = p THEN o ELSE opener[q]
    BY DEF MigrateInv
  <1>3. \A q \in Openers : /\ opener'[q].read <= userVersion
                           /\ opener'[q].build <= LastSchema
                           /\ opener'[q].at \in {"reconciling", "open"} => searchDerived'
    BY <1>2 DEF MigrateInv
  <1> QED
    BY <1>1, <1>3 DEF MigrateInv

\* A step of one process that only says where it is.
LEMMA MigrateGoes ==
    ASSUME MigrateInv, NEW p \in Openers, NEW at \in Steppings, Goes(p, at),
           at \in {"reconciling", "open"} => searchDerived',
           searchDerived => searchDerived',
           UNCHANGED <<userVersion, ledger, executed, shipped>>
    PROVE  MigrateInv'
  <1> DEFINE o == [opener[p] EXCEPT !.at = at]
  <1>1. /\ opener' = [opener EXCEPT ![p] = o]
        /\ o \in [at : Steppings, build : Nat, read : Nat]
        /\ o.read = opener[p].read /\ o.build = opener[p].build /\ o.at = at
    BY DEF MigrateInv, Goes
  <1> HIDE DEF o
  <1>2. o.read <= userVersion /\ o.build <= LastSchema /\ shipped' \in Schemas
    BY <1>1 DEF MigrateInv
  <1> QED
    BY <1>1, <1>2, MigrateOthers

LEMMA MigrateLeaves ==
    ASSUME MigrateInv, NEW p \in Openers, opener' = [opener EXCEPT ![p] = Gone],
           UNCHANGED <<fileState, shipped>>
    PROVE  MigrateInv'
  <1>1. /\ Gone \in [at : Steppings, build : Nat, read : Nat]
        /\ Gone.read = 0 /\ Gone.build = 0 /\ Gone.at = "off"
    BY DEF Gone, Steppings
  <1>2. 0 <= userVersion /\ 0 <= LastSchema /\ shipped' \in Schemas
    BY MigrateAssumption DEF MigrateInv, Schemas
  <1>3. UNCHANGED <<userVersion, ledger, executed, searchDerived>>
    BY DEF fileState
  <1> QED
    BY <1>1, <1>2, <1>3, MigrateOthers

LEMMA MigrateOpens == ASSUME MigrateInv, NEW p \in Openers, Open(p) PROVE MigrateInv'
  <1> DEFINE o == [at |-> IF userVersion < shipped THEN "copying" ELSE "deriving",
                   build |-> shipped, read |-> userVersion]
  <1>1. /\ opener' = [opener EXCEPT ![p] = o] /\ UNCHANGED <<fileState, shipped>>
    BY DEF Open
  <1>2. /\ userVersion \in Nat /\ shipped \in Nat /\ shipped <= LastSchema
        /\ userVersion <= userVersion /\ shipped' \in Schemas
    BY <1>1, MigrateAssumption DEF MigrateInv, Schemas
  <1>3. /\ o \in [at : Steppings, build : Nat, read : Nat]
        /\ o.read = userVersion /\ o.build = shipped /\ o.at \notin {"reconciling", "open"}
    BY <1>2 DEF Steppings
  <1> HIDE DEF o
  <1>4. UNCHANGED <<userVersion, ledger, executed, searchDerived>>
    BY <1>1 DEF fileState
  <1> QED
    BY <1>1, <1>2, <1>3, <1>4, MigrateOthers

LEMMA MigrateRuns ==
    ASSUME MigrateInv, NEW p \in Openers, NEW v \in Schemas, MigrateNext(p, v)
    PROVE  MigrateInv'
  <1>1. /\ opener[p].at = "migrating" /\ opener[p].read < v /\ v <= opener[p].build
        /\ \A w \in Schemas : opener[p].read < w /\ w <= opener[p].build => v <= w
        /\ UNCHANGED <<searchDerived, shipped>>
    BY DEF MigrateNext, Wanted
  <1>2. CASE ~Recordable(v)
    <2>1. opener' = [opener EXCEPT ![p] = Gone] /\ UNCHANGED <<fileState, shipped>>
      BY <1>2 DEF MigrateNext, fileState
    <2> QED
      BY <2>1, MigrateLeaves
  <1>3. CASE Recordable(v)
    <2> DEFINE at == IF v = opener[p].build THEN "rederiving" ELSE "migrating"
               o == [opener[p] EXCEPT !.read = v, !.at = at]
    <2>1. /\ executed' = [executed EXCEPT ![v] = @ + 1]
          /\ ledger' = ledger \cup {v} /\ userVersion' = v
          /\ opener' = [opener EXCEPT ![p] = o]
      BY <1>3 DEF MigrateNext, MigrateInv
    <2>2. /\ o \in [at : Steppings, build : Nat, read : Nat]
          /\ o.read = v /\ o.build = opener[p].build /\ o.at \notin {"reconciling", "open"}
      <3>1. at \in Steppings /\ at \notin {"reconciling", "open"}
        BY DEF Steppings
      <3>2. opener[p] \in [at : Steppings, build : Nat, read : Nat] /\ v \in Nat
        BY DEF MigrateInv, Schemas
      <3> HIDE DEF at
      <3> QED
        BY <3>1, <3>2
    <2> HIDE DEF o, at
    <2>3. v \notin 1..userVersion
      BY <1>3 DEF Recordable, MigrateInv
    <2>4. /\ userVersion \in Nat /\ userVersion \in Schemas /\ v \in Nat
          /\ opener[p].read \in Nat /\ opener[p].build \in Nat
          /\ opener[p].read <= userVersion /\ opener[p].build <= LastSchema
      BY DEF MigrateInv, Schemas
    <2>5. v = userVersion + 1
      BY <1>1, <2>3, <2>4, NextVersion
    <2>6. ledger' = 1..v
      BY <2>1, <2>4, <2>5 DEF MigrateInv
    <2>7. executed' = [w \in Schemas |-> IF w <= v THEN 1 ELSE 0]
      <3>1. executed = [w \in Schemas |-> IF w <= userVersion THEN 1 ELSE 0]
        BY DEF MigrateInv
      <3>2. executed' = [w \in Schemas |-> IF w = v THEN executed[w] + 1 ELSE executed[w]]
        BY <2>1, <3>1
      <3>3. \A w \in Schemas : (IF w = v THEN executed[w] + 1 ELSE executed[w])
                                 = IF w <= v THEN 1 ELSE 0
        BY <2>4, <2>5, <3>1 DEF Schemas
      <3> QED
        BY <3>2, <3>3
    <2>8. opener' \in [Openers -> [at : Steppings, build : Nat, read : Nat]]
      BY <2>1, <2>2 DEF MigrateInv
    <2>9. \A q \in Openers : opener'[q] = IF q = p THEN o ELSE opener[q]
      BY <2>1 DEF MigrateInv
    <2>10. \A q \in Openers : opener[q].read \in Nat /\ opener[q].read <= userVersion
      BY DEF MigrateInv
    <2>11. \A n \in Nat : n <= userVersion => n <= v
      BY <2>4, <2>5
    <2>12. \A q \in Openers : /\ opener'[q].read <= v
                              /\ opener'[q].build <= LastSchema
                              /\ opener'[q].at \in {"reconciling", "open"} => searchDerived'
      BY <1>1, <2>2, <2>4, <2>9, <2>10, <2>11, AtMostItself DEF MigrateInv
    <2> QED
      BY <1>1, <2>1, <2>6, <2>7, <2>8, <2>12 DEF MigrateInv
  <1> QED
    BY <1>2, <1>3

LEMMA MigrateDerives ==
    ASSUME MigrateInv, NEW p \in Openers, DeriveSearch(p) PROVE MigrateInv'
  <1>1. searchDerived'
    BY DEF DeriveSearch, NeedsSearch
  <1>2. Goes(p, IF opener[p].at = "rederiving" THEN "reconciling" ELSE "open")
        /\ UNCHANGED <<userVersion, ledger, executed, shipped>>
    BY DEF DeriveSearch
  <1>3. "reconciling" \in Steppings /\ "open" \in Steppings
    BY DEF Steppings
  <1> QED
    BY <1>1, <1>2, <1>3, MigrateGoes

LEMMA MigrateCopies ==
    ASSUME MigrateInv, NEW p \in Openers, BeginCopy(p) \/ CompleteCopy(p) PROVE MigrateInv'
  <1>1. Goes(p, "pruning") \/ Goes(p, "migrating")
    BY DEF BeginCopy, CompleteCopy
  <1>2. UNCHANGED <<userVersion, ledger, executed, searchDerived, shipped>>
    BY DEF BeginCopy, CompleteCopy, fileState
  <1>3. "pruning" \in Steppings /\ "migrating" \in Steppings
    BY DEF Steppings
  <1> QED
    BY <1>1, <1>2, <1>3, MigrateGoes

LEMMA MigrateReconciles ==
    ASSUME MigrateInv, NEW p \in Openers, ReconcileAgents(p) PROVE MigrateInv'
  <1>1. searchDerived
    BY DEF MigrateInv, ReconcileAgents
  <1>2. Goes(p, "open") /\ UNCHANGED <<userVersion, ledger, executed, searchDerived, shipped>>
    BY DEF ReconcileAgents
  <1>3. "open" \in Steppings
    BY DEF Steppings
  <1> QED
    BY <1>1, <1>2, <1>3, MigrateGoes

LEMMA MigrateInstalls == ASSUME MigrateInv, Install PROVE MigrateInv'
  <1>1. shipped' \in Schemas
    BY MigrateAssumption DEF Install, MigrateInv, Schemas
  <1> QED
    BY <1>1 DEF Install, MigrateInv, fileState

\* However many processes open the file together, of whatever builds, and wherever
\* they fail or are killed, each migration took effect exactly once, the ledger
\* and user_version name what was run, and a program that opened the store has the
\* search projection of its version (store/migrate.rs, migrate; store/search.rs).
THEOREM SchemaCorrect == MigrateSpec => []SchemaSound
  <1>1. MigrateInit => MigrateInv
    BY MigrateAssumption DEF MigrateInit, MigrateInv, Schemas, Steppings, Gone
  <1>2. MigrateInv /\ [MigrateNextStep]_migrateVars => MigrateInv'
    <2> SUFFICES ASSUME MigrateInv, [MigrateNextStep]_migrateVars PROVE MigrateInv'
      OBVIOUS
    <2>1. CASE UNCHANGED migrateVars \/ ClockTicks
      BY <2>1 DEF migrateVars, fileState, MigrateInv, ClockTicks
    <2>2. CASE \E p \in Openers : Open(p)
      BY <2>2, MigrateOpens
    <2>3. CASE \E p \in Openers : BeginCopy(p) \/ CompleteCopy(p)
      BY <2>3, MigrateCopies
    <2>4. CASE \E p \in Openers, v \in Schemas : MigrateNext(p, v)
      BY <2>4, MigrateRuns
    <2>5. CASE \E p \in Openers : DeriveSearch(p)
      BY <2>5, MigrateDerives
    <2>6. CASE \E p \in Openers : ReconcileAgents(p)
      BY <2>6, MigrateReconciles
    <2>7. CASE \E p \in Openers : Quit(p) \/ Kill(p)
      BY <2>7, MigrateLeaves DEF Quit, Kill
    <2>8. CASE Install
      BY <2>8, MigrateInstalls
    <2> QED
      BY <2>1, <2>2, <2>3, <2>4, <2>5, <2>6, <2>7, <2>8 DEF MigrateNextStep
  <1>3. MigrateInv => SchemaSound
    BY DEF MigrateInv, SchemaSound
  <1> QED
    BY <1>1, <1>2, <1>3, PTL DEF MigrateSpec

-----------------------------------------------------------------------------
(* The typing indicator *)

\* There is a place for the silence of every agent in every scope.
RoomForSilences ==
    /\ IsFiniteSet(Typists \X TypingScopes)
    /\ Cardinality(Typists \X TypingScopes) <= Entries

\* The entries are of the room on the screen and ahead of what was seen; what was
\* seen is silenced, or so long ago that no signal before it is fresh; a silence
\* is kept until then.
TypingInv ==
    /\ typingNow \in Nat
    /\ typing \subseteq [agent : Typists, room : TypingRooms, scope : TypingScopes, at : Nat]
    /\ DOMAIN muted \subseteq Typists \X TypingScopes
    /\ \A k \in DOMAIN muted : /\ muted[k].at \in Nat /\ muted[k].retainUntil \in Nat
                               /\ muted[k].at + Lifetime <= muted[k].retainUntil
    /\ \A k \in DOMAIN said : /\ said[k] \in Nat
                              /\ \/ k \in DOMAIN muted /\ muted[k].at = said[k]
                                 \/ said[k] + Lifetime <= typingNow
    /\ \A e \in typing : /\ e.room = typingRoom
                         /\ KeyOf(e) \in DOMAIN said => said[KeyOf(e)] < e.at

LEMMA TypingClears == ASSUME TypingInv, Clear, typingNow' = typingNow PROVE TypingInv'
  BY DEF TypingInv, Clear, Nobody

\* Entries, silences and memories go; a silence that has not run out goes only
\* together with the memory it stands for.
LEMMA TypingShrinks ==
    ASSUME TypingInv, typingNow' = typingNow, typingRoom' = typingRoom,
           typing' \subseteq typing,
           DOMAIN said' \subseteq DOMAIN said, \A k \in DOMAIN said' : said'[k] = said[k],
           DOMAIN muted' \subseteq DOMAIN muted, \A k \in DOMAIN muted' : muted'[k] = muted[k],
           \A k \in DOMAIN said' : k \in DOMAIN muted =>
               k \in DOMAIN muted' \/ muted[k].retainUntil <= typingNow
    PROVE  TypingInv'
  <1>1. \A k \in DOMAIN said' : /\ said'[k] \in Nat
                                /\ \/ k \in DOMAIN muted' /\ muted'[k].at = said'[k]
                                   \/ said'[k] + Lifetime <= typingNow'
    <2> SUFFICES ASSUME NEW k \in DOMAIN said'
                 PROVE  /\ said'[k] \in Nat
                        /\ \/ k \in DOMAIN muted' /\ muted'[k].at = said'[k]
                           \/ said'[k] + Lifetime <= typingNow'
      OBVIOUS
    <2>1. k \in DOMAIN said /\ said'[k] = said[k] /\ said[k] \in Nat /\ typingNow \in Nat
      BY DEF TypingInv
    <2>2. CASE said[k] + Lifetime <= typingNow
      BY <2>1, <2>2
    <2>3. CASE k \in DOMAIN muted /\ muted[k].at = said[k]
      <3>1. CASE k \in DOMAIN muted'
        BY <2>1, <2>3, <3>1
      <3>2. CASE muted[k].retainUntil <= typingNow
        <4>1. muted[k].retainUntil \in Nat /\ said[k] + Lifetime <= muted[k].retainUntil
          BY <2>3 DEF TypingInv
        <4> QED
          BY <2>1, <3>2, <4>1, TypingAssumption
      <3> QED
        BY <2>3, <3>1, <3>2
    <2> QED
      BY <2>1, <2>2, <2>3 DEF TypingInv
  <1>2. \A e \in typing' : /\ e.room = typingRoom'
                           /\ KeyOf(e) \in DOMAIN said' => said'[KeyOf(e)] < e.at
    BY DEF TypingInv
  <1> QED
    BY <1>1, <1>2 DEF TypingInv, KeyOf

LEMMA TypingSignals ==
    ASSUME TypingInv, NEW a \in Typists, NEW r \in TypingRooms, NEW s \in TypingScopes, NEW at \in Nat,
           Signal(a, r, s, at)
    PROVE  TypingInv'
  <1>1. /\ typingNow' = typingNow /\ typingRoom' = typingRoom /\ said' = said
    BY DEF Signal
  <1>2. CASE UNCHANGED <<typing, muted>>
    BY <1>1, <1>2, TypingShrinks
  <1>3. CASE /\ Fresh(r, at)
             /\ typing' = AppliedSignal([agent |-> a, room |-> r, scope |-> s, at |-> at])
             /\ muted' = PrunedSilence(muted)
    <2> DEFINE new == [agent |-> a, room |-> r, scope |-> s, at |-> at]
    <2>1. /\ new \in [agent : Typists, room : TypingRooms, scope : TypingScopes, at : Nat]
          /\ new.room = typingRoom /\ new.at = at /\ KeyOf(new) = <<a, s>>
      BY <1>3 DEF Fresh, KeyOf
    <2>2. typing' = AppliedSignal(new)
      BY <1>3
    <2> HIDE DEF new
    <2>3. /\ DOMAIN muted' \subseteq DOMAIN muted /\ \A k \in DOMAIN muted' : muted'[k] = muted[k]
          /\ \A k \in DOMAIN muted : k \in DOMAIN muted' \/ ~(muted[k].retainUntil > typingNow)
      BY <1>3 DEF PrunedSilence, Restricted
    <2>4. \A k \in DOMAIN muted : muted[k].retainUntil \in Nat
      BY DEF TypingInv
    <2>5. \A k \in DOMAIN muted : k \in DOMAIN muted' \/ muted[k].retainUntil <= typingNow
      BY <2>3, <2>4 DEF TypingInv
    <2>6. CASE typing' = typing
      BY <1>1, <2>3, <2>5, <2>6, TypingShrinks
    <2>7. CASE ~Silenced(new, PrunedSilence(muted)) /\ typing' \subseteq typing \cup {new}
      <3>1. \A k \in DOMAIN said : /\ said[k] \in Nat
                                   /\ \/ k \in DOMAIN muted' /\ muted'[k].at = said[k]
                                      \/ said[k] + Lifetime <= typingNow
        <4> SUFFICES ASSUME NEW k \in DOMAIN said
                     PROVE  /\ said[k] \in Nat
                            /\ \/ k \in DOMAIN muted' /\ muted'[k].at = said[k]
                               \/ said[k] + Lifetime <= typingNow
          OBVIOUS
        <4>1. said[k] \in Nat /\ typingNow \in Nat
          BY DEF TypingInv
        <4>2. CASE k \in DOMAIN muted /\ muted[k].at = said[k] /\ muted[k].retainUntil <= typingNow
          <5>1. muted[k].retainUntil \in Nat /\ said[k] + Lifetime <= muted[k].retainUntil
            BY <4>2 DEF TypingInv
          <5> QED
            BY <4>1, <4>2, <5>1, TypingAssumption
        <4> QED
          BY <2>3, <2>5, <4>1, <4>2 DEF TypingInv
      <3>2. KeyOf(new) \in DOMAIN said => said[KeyOf(new)] < new.at
        <4> SUFFICES ASSUME KeyOf(new) \in DOMAIN said PROVE said[KeyOf(new)] < at
          BY <2>1
        <4>1. said[KeyOf(new)] \in Nat /\ typingNow \in Nat /\ at + Lifetime > typingNow
          BY <1>3 DEF TypingInv, Fresh
        <4>2. CASE KeyOf(new) \in DOMAIN muted' /\ muted'[KeyOf(new)].at = said[KeyOf(new)]
          <5>1. ~(at <= said[KeyOf(new)])
            BY <1>3, <2>1, <2>7, <4>2 DEF Silenced
          <5> QED
            BY <4>1, <5>1
        <4>3. CASE said[KeyOf(new)] + Lifetime <= typingNow
          BY <4>1, <4>3, TypingAssumption
        <4> QED
          BY <3>1, <4>2, <4>3
      <3>3. \A e \in typing' : /\ e.room = typingRoom
                               /\ KeyOf(e) \in DOMAIN said => said[KeyOf(e)] < e.at
        BY <2>1, <2>7, <3>2 DEF TypingInv
      <3>4. /\ DOMAIN muted' \subseteq Typists \X TypingScopes
            /\ \A k \in DOMAIN muted' : /\ muted'[k].at \in Nat /\ muted'[k].retainUntil \in Nat
                                        /\ muted'[k].at + Lifetime <= muted'[k].retainUntil
        BY <2>3 DEF TypingInv
      <3>5. typing' \subseteq [agent : Typists, room : TypingRooms, scope : TypingScopes, at : Nat]
        BY <2>1, <2>7 DEF TypingInv
      <3> QED
        BY <1>1, <3>1, <3>3, <3>4, <3>5 DEF TypingInv, KeyOf
    <2> QED
      BY <2>2, <2>6, <2>7 DEF AppliedSignal
  <1> QED
    BY <1>2, <1>3 DEF Signal

LEMMA TypingMessages ==
    ASSUME RoomForSilences, TypingInv, NEW a \in Typists, NEW r \in TypingRooms,
           NEW s \in TypingScopes, NEW at \in Nat, at <= typingNow, Message(a, r, s, at)
    PROVE  TypingInv'
  <1> DEFINE key == <<a, s>>
             note == [at |-> at, until |-> typingNow + Quiet, retainUntil |-> typingNow + Lifetime]
  <1>1. /\ typingNow' = typingNow /\ typingRoom' = typingRoom
        /\ said' = With(said, key, at)
        /\ typing' = {e \in typing : KeyOf(e) # key}
        /\ muted' = IF Cardinality(DOMAIN muted) < Entries \/ key \in DOMAIN muted
                    THEN With(muted, key, note) ELSE muted
    BY DEF Message, ObserveMessage
  <1>2. key \in Typists \X TypingScopes
    OBVIOUS
  <1>3. /\ note.at = at /\ note.retainUntil = typingNow + Lifetime
        /\ note.at \in Nat /\ note.retainUntil \in Nat
        /\ note.at + Lifetime <= note.retainUntil
    BY TypingAssumption DEF TypingInv
  <1> HIDE DEF key, note
  <1>4. key \in DOMAIN muted \/ Cardinality(DOMAIN muted) < Entries
    <2> DEFINE keys == Typists \X TypingScopes
    <2> SUFFICES ASSUME key \notin DOMAIN muted PROVE Cardinality(DOMAIN muted) < Entries
      OBVIOUS
    <2>1. IsFiniteSet(keys) /\ Cardinality(keys) <= Entries /\ key \in keys
      BY <1>2 DEF RoomForSilences
    <2>2. DOMAIN muted \subseteq keys \ {key}
      BY DEF TypingInv
    <2> HIDE DEF keys
    <2>3. /\ IsFiniteSet(keys \ {key}) /\ Cardinality(keys \ {key}) = Cardinality(keys) - 1
      BY <2>1, FS_RemoveElement
    <2>4. Cardinality(DOMAIN muted) <= Cardinality(keys \ {key})
      BY <2>2, <2>3, FS_Subset
    <2>5. /\ Cardinality(keys) \in Nat /\ Cardinality(keys \ {key}) \in Nat
          /\ Cardinality(DOMAIN muted) \in Nat
      BY <2>1, <2>2, <2>3, FS_CardinalityType, FS_Subset
    <2> QED
      BY <2>1, <2>3, <2>4, <2>5, TypingAssumption
  <1>5. muted' = With(muted, key, note)
    BY <1>1, <1>4
  <1>6. /\ DOMAIN muted' = DOMAIN muted \cup {key} /\ muted'[key] = note
        /\ \A k \in DOMAIN muted' : k # key => muted'[k] = muted[k]
        /\ DOMAIN said' = DOMAIN said \cup {key} /\ said'[key] = at
        /\ \A k \in DOMAIN said' : k # key => said'[k] = said[k]
    BY <1>1, <1>5 DEF With
  <1>7. \A k \in DOMAIN muted' : /\ muted'[k].at \in Nat /\ muted'[k].retainUntil \in Nat
                                 /\ muted'[k].at + Lifetime <= muted'[k].retainUntil
    BY <1>3, <1>6 DEF TypingInv
  <1>8. \A k \in DOMAIN said' : /\ said'[k] \in Nat
                                /\ \/ k \in DOMAIN muted' /\ muted'[k].at = said'[k]
                                   \/ said'[k] + Lifetime <= typingNow
    BY <1>3, <1>6 DEF TypingInv
  <1>9. \A e \in typing' : /\ e.room = typingRoom
                           /\ KeyOf(e) \in DOMAIN said' => said'[KeyOf(e)] < e.at
    BY <1>1, <1>6 DEF TypingInv
  <1>10. DOMAIN muted' \subseteq Typists \X TypingScopes
    BY <1>2, <1>6 DEF TypingInv
  <1>11. typing' \subseteq [agent : Typists, room : TypingRooms, scope : TypingScopes, at : Nat]
    BY <1>1 DEF TypingInv
  <1> QED
    BY <1>1, <1>7, <1>8, <1>9, <1>10, <1>11 DEF TypingInv, KeyOf

LEMMA TypingTicks == ASSUME TypingInv, OnTick PROVE TypingInv'
  <1>1. typingNow' = typingNow /\ typingRoom' = typingRoom
    BY DEF OnTick
  <1>2. CASE Clear
    BY <1>1, <1>2, TypingClears
  <1>3. CASE /\ typing' = EntriesHeld(Unexpired(typing))
             /\ muted' = RetainedKeys(PrunedSilence(muted))
             /\ said' = RetainedKeys(said)
    <2>1. typing' \subseteq typing
      BY <1>3 DEF EntriesHeld, Unexpired
    <2>2. /\ DOMAIN said' \subseteq DOMAIN said /\ \A k \in DOMAIN said' : said'[k] = said[k]
          /\ \A k \in DOMAIN said' : directoryStale => k \in granted \X TypingScopes
      BY <1>3 DEF RetainedKeys, Restricted
    <2> DEFINE kept == PrunedSilence(muted)
    <2>3. /\ DOMAIN kept \subseteq DOMAIN muted /\ \A k \in DOMAIN kept : kept[k] = muted[k]
          /\ \A k \in DOMAIN muted : k \in DOMAIN kept \/ ~(muted[k].retainUntil > typingNow)
      BY DEF PrunedSilence, Restricted
    <2>4. muted' = RetainedKeys(kept)
      BY <1>3
    <2> HIDE DEF kept
    <2>5. /\ DOMAIN muted' \subseteq DOMAIN kept /\ \A k \in DOMAIN muted' : muted'[k] = kept[k]
          /\ \A k \in DOMAIN kept :
               k \in DOMAIN muted' \/ (directoryStale /\ k \notin granted \X TypingScopes)
      BY <2>4 DEF RetainedKeys, Restricted
    <2>6. \A k \in DOMAIN muted : muted[k].retainUntil \in Nat
      BY DEF TypingInv
    <2>7. \A k \in DOMAIN said' : k \in DOMAIN muted =>
             k \in DOMAIN muted' \/ muted[k].retainUntil <= typingNow
      BY <2>2, <2>3, <2>5, <2>6 DEF TypingInv
    <2>8. DOMAIN muted' \subseteq DOMAIN muted /\ \A k \in DOMAIN muted' : muted'[k] = muted[k]
      BY <2>3, <2>5
    <2> QED
      BY <1>1, <2>1, <2>2, <2>7, <2>8, TypingShrinks
  <1> QED
    BY <1>2, <1>3 DEF OnTick, ReconcileTyping

LEMMA TypingAges == ASSUME TypingInv, TypingSecond PROVE TypingInv'
  <1>1. typingNow \in Nat /\ typingNow' = typingNow + 1
    BY DEF TypingInv, TypingSecond
  <1>2. \A k \in DOMAIN said : said[k] \in Nat /\ (said[k] + Lifetime <= typingNow =>
                                                     said[k] + Lifetime <= typingNow')
    BY <1>1, TypingAssumption DEF TypingInv
  <1> QED
    BY <1>1, <1>2 DEF TypingInv, TypingSecond, KeyOf

\* An agent is shown typing only in the room on the screen, and only by a signal
\* made after the last message of its that was seen there, for every number of
\* agents, scopes and delays, as long as the table of silences does not overflow
\* (typing.rs, observe_message, apply, prune_suppressions).  Beyond its places a
\* message is not noted and an older signal may be shown after it.
THEOREM TypingCorrect == ASSUME RoomForSilences PROVE TypingSpec => []TypingIsAhead
  <1>1. TypingInit => TypingInv
    BY DEF TypingInit, TypingInv, Nobody
  <1>2. TypingInv /\ [TypingNext]_typingVars => TypingInv'
    <2> SUFFICES ASSUME TypingInv, [TypingNext]_typingVars PROVE TypingInv'
      OBVIOUS
    <2>1. CASE UNCHANGED typingVars \/ RefreshWrites \/ RefreshReports \/ CloseContext \/ RelayTakesReq
      <3>1. UNCHANGED <<typingNow, typingRoom, typing, muted, said>>
        BY <2>1 DEF typingVars, RefreshWrites, RefreshReports, CloseContext, RelayTakesReq
      <3> QED
        BY <3>1, TypingShrinks
    <2>2. CASE LoadSelectedChannel \/ ReloadChannel \/ ToggleThread \/ ClosedByRelay \/ SessionAuthenticated
      <3>1. Clear /\ typingNow' = typingNow
        BY <2>2 DEF LoadSelectedChannel, ReloadChannel, ToggleThread, ClosedByRelay,
                    SessionAuthenticated, ReconcileTyping
      <3> QED
        BY <3>1, TypingClears
    <2>3. ASSUME NEW a \in Typists, NEW r \in TypingRooms, NEW s \in TypingScopes,
                 NEW at \in 0..typingNow, Signal(a, r, s, at) \/ Message(a, r, s, at)
          PROVE  TypingInv'
      <3>1. at \in Nat /\ at <= typingNow
        BY DEF TypingInv
      <3> QED
        BY <2>3, <3>1, TypingSignals, TypingMessages
    <2>4. CASE OnTick
      BY <2>4, TypingTicks
    <2>5. CASE TypingSecond
      BY <2>5, TypingAges
    <2> QED
      BY <2>1, <2>2, <2>3, <2>4, <2>5 DEF TypingNext
  <1>3. TypingInv => TypingIsAhead
    BY DEF TypingInv, TypingIsAhead, TypingShown, Unexpired
  <1> QED
    BY <1>1, <1>2, <1>3, PTL DEF TypingSpec

-----------------------------------------------------------------------------
(* The telemetry exporter.  Its invariant: an emitting thread has a record   *)
(* of its own; a waiting record is in one place; what was lost is counted.   *)

EmitterStages == {"idle", "checked", "reserved", "counted"}
LoopStages == {"recv", "batching", "flush", "sending", "left", "right", "done"}
Fates == {"new", "emitting", "queued", "dropped", "expired", "delivered", "half"}

NoTwice(s) == \A i, j \in 1..Len(s) : s[i] = s[j] => i = j

ExporterTypeOK ==
    /\ emitter \in [Emitters -> [at : EmitterStages, rec : Records \cup {NoRecord}]]
    /\ commandQueue \in Seq(Records \cup {Shutdown})
    /\ dropped \in Nat /\ health \in [dropped : Nat, stopped : BOOLEAN]
    /\ loop \in [at : LoopStages, batch : Seq(Records), attempt : Nat,
                 left : BatchOutcomes \cup {"none"}]
    /\ pending \in Records \cup {NoRecord} /\ stopped \in BOOLEAN
    /\ fate \in [Records -> Fates]

\* A record is with one thread, or in one place of the exporter.
EmittersInv ==
    /\ \A e \in Emitters : emitter[e].at # "idle" =>
         emitter[e].rec \in Records /\ fate[emitter[e].rec] = "emitting"
    /\ \A e, f \in Emitters : emitter[e].at # "idle" /\ emitter[f].at # "idle"
         /\ emitter[e].rec = emitter[f].rec => e = f

PlacesInv ==
    /\ NoTwice(commandQueue) /\ NoTwice(loop.batch)
    /\ \A r \in Waiting \cup Range(loop.batch) \cup ({pending} \ {NoRecord}) : fate[r] = "queued"
    /\ Range(loop.batch) \cap Range(commandQueue) = {}
    /\ pending # NoRecord => pending \notin Range(loop.batch) \cup Range(commandQueue)
    /\ loop.at = "recv" => loop.batch = <<>>
    /\ loop.at = "batching" => pending = NoRecord

Counted == {r \in Records : fate[r] \in {"dropped", "half"}}
Known == {r \in Records : fate[r] # "new"}

CountedInv == IsFiniteSet(Known) /\ dropped + health.dropped = Cardinality(Counted)

ExporterInv ==
    /\ ExporterTypeOK /\ EmittersInv /\ CountedInv
    /\ loop.at # "done" => PlacesInv
    /\ BudgetExact

\* Sets that do not meet.
LEMMA JoinIs ==
    ASSUME NEW S, IsFiniteSet(S), NEW T, IsFiniteSet(T), S \cap T = {}
    PROVE  /\ IsFiniteSet(S \cup T) /\ Cardinality(S) \in Nat /\ Cardinality(T) \in Nat
           /\ Cardinality(S \cup T) = Cardinality(S) + Cardinality(T)
  <1>1. Cardinality(S) \in Nat /\ Cardinality(T) \in Nat /\ Cardinality({}) = 0
    BY FS_CardinalityType, FS_EmptySet
  <1>2. /\ IsFiniteSet(S \cup T)
        /\ Cardinality(S \cup T) = Cardinality(S) + Cardinality(T) - Cardinality(S \cap T)
    BY FS_Union, Zenon
  <1>3. Cardinality(S \cap T) = 0
    BY <1>1, Zenon
  <1> QED
    BY <1>1, <1>2, <1>3

\* A set of records is as large as its parts together.
LEMMA SizeIs ==
    ASSUME NEW S \in SUBSET Records, IsFiniteSet(S), NEW T \in SUBSET Records, IsFiniteSet(T),
           S \cap T = {}
    PROVE  /\ SizeOfAll(S) \in Nat /\ SizeOfAll(S \cup T) = SizeOfAll(S) + SizeOfAll(T)
           /\ \A r \in Records : SizeOfAll({r}) = Estimate[r] /\ Estimate[r] \in Nat
           /\ SizeOfAll({}) = 0
  <1> DEFINE Bytes(R) == UNION {{r} \X (1..Estimate[r]) : r \in R}
  <1>1. \A r \in Records : /\ Estimate[r] \in Nat /\ IsFiniteSet({r} \X (1..Estimate[r]))
                           /\ Cardinality({r} \X (1..Estimate[r])) = Estimate[r]
    <2> TAKE r \in Records
    <2>1. Estimate[r] \in Nat
      BY ExporterAssumption
    <2>2. IsFiniteSet({r}) /\ Cardinality({r}) = 1
      BY FS_Singleton
    <2>3. IsFiniteSet(1..Estimate[r]) /\ Cardinality(1..Estimate[r]) = Estimate[r]
      BY <2>1, FS_Interval
    <2>4. /\ IsFiniteSet({r} \X (1..Estimate[r]))
          /\ Cardinality({r} \X (1..Estimate[r])) = Cardinality({r}) * Cardinality(1..Estimate[r])
      BY <2>2, <2>3, FS_Product, Zenon
    <2> QED
      BY <2>1, <2>2, <2>3, <2>4
  <1>2. ASSUME NEW R \in SUBSET Records, IsFiniteSet(R) PROVE IsFiniteSet(Bytes(R))
    <2> DEFINE I == {{r} \X (1..Estimate[r]) : r \in R}
               f == [r \in R |-> {r} \X (1..Estimate[r])]
    <2>1. f \in Surjection(R, I)
      BY DEF Surjection
    <2>2. IsFiniteSet(I)
      <3> HIDE DEF f, I
      <3> QED
        BY <1>2, <2>1, FS_Surjection
    <2>3. \A b \in I : IsFiniteSet(b)
      BY <1>1
    <2> HIDE DEF I
    <2> QED
      BY <2>2, <2>3, FS_UNION DEF I
  <1>3. Bytes(S \cup T) = Bytes(S) \cup Bytes(T) /\ Bytes(S) \cap Bytes(T) = {}
    OBVIOUS
  <1>4. \A R : SizeOfAll(R) = Cardinality(Bytes(R))
    BY DEF SizeOfAll
  <1>5. \A r \in Records : Bytes({r}) = {r} \X (1..Estimate[r])
    OBVIOUS
  <1>6. Bytes({}) = {}
    OBVIOUS
  <1> HIDE DEF Bytes
  <1>7. IsFiniteSet(Bytes(S)) /\ IsFiniteSet(Bytes(T))
    BY <1>2
  <1>8. /\ Cardinality(Bytes(S)) \in Nat /\ Cardinality(Bytes(T)) \in Nat
        /\ Cardinality({}) = 0
    BY <1>7, FS_CardinalityType, FS_EmptySet
  <1>9. Cardinality(Bytes(S) \cup Bytes(T)) = Cardinality(Bytes(S)) + Cardinality(Bytes(T))
    BY <1>3, <1>7, JoinIs, Zenon
  <1>10. SizeOfAll(S) \in Nat /\ SizeOfAll(S \cup T) = SizeOfAll(S) + SizeOfAll(T)
    BY <1>3, <1>4, <1>8, <1>9, Zenon
  <1>11. \A r \in Records : SizeOfAll({r}) = Estimate[r] /\ Estimate[r] \in Nat
    BY <1>1, <1>4, <1>5
  <1>12. SizeOfAll({}) = 0
    BY <1>4, <1>6, <1>8
  <1> QED
    BY <1>10, <1>11, <1>12

\* Sequences without repetition.
LEMMA RangeIs ==
    ASSUME NEW S, NEW s \in Seq(S)
    PROVE  /\ Range(s) = {s[i] : i \in 1..Len(s)} /\ Range(s) \subseteq S
           /\ IsFiniteSet(Range(s))
           /\ NoTwice(s) => Cardinality(Range(s)) = Len(s)
  <1>1. DOMAIN s = 1..Len(s) /\ Len(s) \in Nat /\ \A i \in 1..Len(s) : s[i] \in S
    OBVIOUS
  <1>2. Range(s) = {s[i] : i \in 1..Len(s)} /\ Range(s) \subseteq S
    BY <1>1 DEF Range
  <1>3. IsFiniteSet(1..Len(s)) /\ Cardinality(1..Len(s)) = Len(s)
    <2>1. 1 \in Int /\ Len(s) \in Int /\ Len(s) >= 0
      BY <1>1
    <2>2. /\ IsFiniteSet(1..Len(s))
          /\ Cardinality(1..Len(s)) = IF 1 > Len(s) THEN 0 ELSE Len(s) - 1 + 1
      BY <2>1, FS_Interval, Zenon
    <2> QED
      BY <2>1, <2>2
  <1> DEFINE f == [i \in 1..Len(s) |-> s[i]]
  <1>4. f \in Surjection(1..Len(s), Range(s)) /\ (NoTwice(s) => f \in Injection(1..Len(s), Range(s)))
    BY <1>2 DEF Surjection, Injection, IsInjective, NoTwice
  <1> HIDE DEF f
  <1>5. /\ IsFiniteSet(Range(s))
        /\ f \in Injection(1..Len(s), Range(s)) => Cardinality(Range(s)) = Cardinality(1..Len(s))
    BY <1>3, <1>4, FS_Surjection
  <1> QED
    BY <1>2, <1>3, <1>4, <1>5

LEMMA AppendIs ==
    ASSUME NEW S, NEW s \in Seq(S), NEW e \in S
    PROVE  /\ Append(s, e) \in Seq(S) /\ Range(Append(s, e)) = Range(s) \cup {e}
           /\ NoTwice(s) /\ e \notin Range(s) => NoTwice(Append(s, e))
  <1>1. Append(s, e) \in Seq(S) /\ Len(Append(s, e)) = Len(s) + 1 /\ Len(s) \in Nat
    OBVIOUS
  <1>2. /\ DOMAIN Append(s, e) = 1..Len(s) + 1 /\ DOMAIN s = 1..Len(s)
        /\ \A i \in 1..Len(s) : Append(s, e)[i] = s[i]
        /\ Append(s, e)[Len(s) + 1] = e
    OBVIOUS
  <1>3. Range(Append(s, e)) = Range(s) \cup {e}
    BY <1>1, <1>2 DEF Range
  <1>4. ASSUME NoTwice(s), e \notin Range(s) PROVE NoTwice(Append(s, e))
    <2>1. \A i \in 1..Len(s) : s[i] # e
      BY <1>2, <1>4 DEF Range
    <2> QED
      BY <1>1, <1>2, <1>4, <2>1 DEF NoTwice
  <1> QED
    BY <1>1, <1>3, <1>4

LEMMA TailIs ==
    ASSUME NEW S, NEW s \in Seq(S), s # <<>>
    PROVE  /\ Tail(s) \in Seq(S) /\ Head(s) \in S /\ Range(s) = Range(Tail(s)) \cup {Head(s)}
           /\ NoTwice(s) => NoTwice(Tail(s)) /\ Head(s) \notin Range(Tail(s))
  <1>1. /\ Tail(s) \in Seq(S) /\ Len(s) \in Nat /\ Len(s) >= 1 /\ Len(Tail(s)) = Len(s) - 1
        /\ Head(s) = s[1] /\ Head(s) \in S
    OBVIOUS
  <1>2. /\ DOMAIN Tail(s) = 1..Len(s) - 1 /\ DOMAIN s = 1..Len(s)
        /\ \A i \in 1..Len(s) - 1 : Tail(s)[i] = s[i + 1]
    OBVIOUS
  <1>3. Range(s) = Range(Tail(s)) \cup {Head(s)}
    <2>1. \A i \in 1..Len(s) : i = 1 \/ (i - 1 \in 1..Len(s) - 1 /\ Tail(s)[i - 1] = s[i])
      BY <1>1, <1>2
    <2>2. \A i \in 1..Len(s) - 1 : i + 1 \in 1..Len(s)
      BY <1>1
    <2>3. Range(Tail(s)) \cup {Head(s)} \subseteq Range(s)
      BY <1>1, <1>2, <2>2 DEF Range
    <2>4. Range(s) \subseteq Range(Tail(s)) \cup {Head(s)}
      <3> SUFFICES ASSUME NEW i \in 1..Len(s) PROVE s[i] \in Range(Tail(s)) \cup {Head(s)}
        BY <1>2 DEF Range
      <3>1. CASE i = 1
        BY <1>1, <3>1
      <3>2. CASE i - 1 \in 1..Len(s) - 1 /\ Tail(s)[i - 1] = s[i]
        BY <1>2, <3>2 DEF Range
      <3> QED
        BY <2>1, <3>1, <3>2
    <2> QED
      BY <2>3, <2>4
  <1>4. ASSUME NoTwice(s) PROVE NoTwice(Tail(s)) /\ Head(s) \notin Range(Tail(s))
    BY <1>1, <1>2, <1>4 DEF NoTwice, Range
  <1> QED
    BY <1>1, <1>3, <1>4

\* A sequence cut in two.
LEMMA CutIs ==
    ASSUME NEW S, NEW s \in Seq(S), NEW n \in 0..Len(s)
    PROVE  LET old == SubSeq(s, 1, n)
               rest == SubSeq(s, n + 1, Len(s)) IN
           /\ rest \in Seq(S) /\ Len(rest) = Len(s) - n
           /\ Range(s) = Range(old) \cup Range(rest)
           /\ NoTwice(s) => NoTwice(rest) /\ Range(old) \cap Range(rest) = {}
  <1> DEFINE old == SubSeq(s, 1, n)
             rest == SubSeq(s, n + 1, Len(s))
  <1>1. Len(s) \in Nat /\ n \in Nat /\ n <= Len(s) /\ DOMAIN s = 1..Len(s)
    OBVIOUS
  <1>2. /\ old \in Seq(S) /\ Len(old) = n /\ DOMAIN old = 1..n
        /\ \A i \in 1..n : old[i] = s[i]
    BY <1>1
  <1>3. /\ rest \in Seq(S) /\ Len(rest) = Len(s) - n /\ DOMAIN rest = 1..Len(s) - n
        /\ \A i \in 1..Len(s) - n : rest[i] = s[n + i]
    OBVIOUS
  <1> HIDE DEF old, rest
  <1>4. Range(s) = Range(old) \cup Range(rest)
    <2>1. \A i \in 1..Len(s) : i \in 1..n \/ (i - n \in 1..Len(s) - n /\ rest[i - n] = s[i])
      BY <1>1, <1>3
    <2>2. \A i \in 1..Len(s) - n : n + i \in 1..Len(s)
      BY <1>1
    <2>3. \A i \in 1..n : i \in 1..Len(s)
      BY <1>1
    <2>4. Range(old) \cup Range(rest) \subseteq Range(s)
      <3>1. \A i \in 1..n : old[i] \in Range(s)
        BY <1>1, <1>2, <2>3 DEF Range
      <3>2. \A i \in 1..Len(s) - n : rest[i] \in Range(s)
        BY <1>1, <1>3, <2>2 DEF Range
      <3> QED
        BY <1>2, <1>3, <3>1, <3>2 DEF Range
    <2>5. Range(s) \subseteq Range(old) \cup Range(rest)
      <3> SUFFICES ASSUME NEW i \in 1..Len(s) PROVE s[i] \in Range(old) \cup Range(rest)
        BY <1>1 DEF Range
      <3>1. CASE i \in 1..n
        BY <1>2, <3>1 DEF Range
      <3>2. CASE i - n \in 1..Len(s) - n /\ rest[i - n] = s[i]
        BY <1>3, <3>2 DEF Range
      <3> QED
        BY <2>1, <3>1, <3>2
    <2> QED
      BY <2>4, <2>5
  <1>5. ASSUME NoTwice(s) PROVE NoTwice(rest) /\ Range(old) \cap Range(rest) = {}
    <2>1. \A i \in 1..Len(s) - n : n + i \in 1..Len(s)
      BY <1>1
    <2>2. \A i \in 1..n : i \in 1..Len(s)
      BY <1>1
    <2>3. NoTwice(rest)
      BY <1>1, <1>3, <1>5, <2>1 DEF NoTwice
    <2>4. \A i \in 1..n, j \in 1..Len(s) - n : s[i] # s[n + j]
      BY <1>1, <1>5, <2>1, <2>2 DEF NoTwice
    <2>5. \A i \in 1..n, j \in 1..Len(s) - n : old[i] # rest[j]
      <3>1. \A i \in 1..n : old[i] = s[i]
        BY <1>2
      <3>2. \A j \in 1..Len(s) - n : rest[j] = s[n + j]
        BY <1>3
      <3> QED
        BY <2>4, <3>1, <3>2
    <2>6. Range(old) = {old[i] : i \in 1..n} /\ Range(rest) = {rest[j] : j \in 1..Len(s) - n}
      BY <1>2, <1>3 DEF Range
    <2>7. Range(old) \cap Range(rest) = {}
      BY <2>5, <2>6, Zenon
    <2> QED
      BY <2>3, <2>7
  <1> QED
    BY <1>3, <1>4, <1>5 DEF old, rest

-----------------------------------------------------------------------------
(* What the steps of the exporter have in common *)

Held == Waiting \cup InTask \cup Claimed({"reserved", "counted"})
Numbered == Waiting \cup InTask \cup Claimed({"counted"})

LEMMA HeldIs ==
    ASSUME ExporterTypeOK, EmittersInv, CountedInv, PlacesInv
    PROVE  /\ Held \in SUBSET Records /\ IsFiniteSet(Held)
           /\ Numbered \in SUBSET Records /\ IsFiniteSet(Numbered) /\ Numbered \subseteq Held
           /\ \A r \in Held : fate[r] \in {"queued", "emitting"}
           /\ \A r \in Waiting \cup InTask : fate[r] = "queued"
           /\ Waiting \cup InTask \in SUBSET Records
           /\ \A r \in Claimed({"reserved", "counted"}) : r \in Records /\ fate[r] = "emitting"
  <1>1. Waiting \subseteq Records
    BY RangeIs DEF ExporterTypeOK, Waiting
  <1>2. Range(loop.batch) \subseteq Records
    BY RangeIs DEF ExporterTypeOK
  <1>3. InTask \subseteq Records /\ \A r \in Waiting \cup InTask : fate[r] = "queued"
    BY <1>2 DEF ExporterTypeOK, InTask, PlacesInv
  <1>4. \A r \in Claimed({"reserved", "counted"}) : r \in Records /\ fate[r] = "emitting"
    BY DEF Claimed, EmittersInv
  <1>5. Numbered \subseteq Held
    BY DEF Numbered, Held, Claimed
  <1>6. Held \in SUBSET Records /\ \A r \in Held : fate[r] \in {"queued", "emitting"}
    BY <1>1, <1>3, <1>4 DEF Held
  <1>7. Held \subseteq Known
    BY <1>6 DEF Known
  <1>8. IsFiniteSet(Held) /\ IsFiniteSet(Numbered)
    BY <1>5, <1>7, FS_Subset DEF CountedInv
  <1> QED
    BY <1>1, <1>3, <1>4, <1>5, <1>6, <1>8

LEMMA BudgetSame ==
    ASSUME BudgetExact, UNCHANGED budget, loop'.at # "done" => loop.at # "done",
           loop'.at # "done" => Held' = Held /\ Numbered' = Numbered
    PROVE  BudgetExact'
  BY DEF BudgetExact, Held, Numbered, budget

\* What is given back was held, and counted.
LEMMA BudgetShrinks ==
    ASSUME BudgetExact, ExporterTypeOK, EmittersInv, CountedInv, PlacesInv, loop.at # "done",
           NEW R, R \subseteq Numbered, Release(R),
           Held' = Held \ R, Numbered' = Numbered \ R
    PROVE  BudgetExact'
  <1>1. /\ Held \in SUBSET Records /\ IsFiniteSet(Held) /\ Numbered \in SUBSET Records
        /\ IsFiniteSet(Numbered) /\ Numbered \subseteq Held
    BY HeldIs
  <1>2. /\ R \in SUBSET Records /\ IsFiniteSet(R)
        /\ Held \ R \in SUBSET Records /\ IsFiniteSet(Held \ R)
        /\ IsFiniteSet(Numbered \ R)
    BY <1>1, FS_Subset
  <1>3. Held = (Held \ R) \cup R /\ Numbered = (Numbered \ R) \cup R
        /\ (Held \ R) \cap R = {} /\ (Numbered \ R) \cap R = {}
    BY <1>1
  <1>4. /\ SizeOfAll(Held \ R) \in Nat
        /\ SizeOfAll((Held \ R) \cup R) = SizeOfAll(Held \ R) + SizeOfAll(R)
    BY <1>2, <1>3, SizeIs
  <1>5. SizeOfAll(R) \in Nat
    <2>1. R \cap {} = {} /\ IsFiniteSet({}) /\ {} \in SUBSET Records
      BY FS_EmptySet
    <2> QED
      BY <1>2, <2>1, SizeIs
  <1>6. /\ Cardinality(Numbered \ R) \in Nat /\ Cardinality(R) \in Nat
        /\ Cardinality((Numbered \ R) \cup R) = Cardinality(Numbered \ R) + Cardinality(R)
    BY <1>2, <1>3, JoinIs
  <1>7. usedBytes = SizeOfAll(Held) /\ usedRecords = Cardinality(Numbered) /\ usedBytes <= QueueBytes
    BY DEF BudgetExact, Held, Numbered
  <1>8. usedBytes' = SizeOfAll(Held \ R) /\ usedRecords' = Cardinality(Numbered \ R)
    <2>1. SizeOfAll(Held) = SizeOfAll(Held \ R) + SizeOfAll(R)
      BY <1>3, <1>4, Zenon
    <2>2. Cardinality(Numbered) = Cardinality(Numbered \ R) + Cardinality(R)
      BY <1>3, <1>6, Zenon
    <2>3. usedBytes' = usedBytes - SizeOfAll(R) /\ usedRecords' = usedRecords - Cardinality(R)
      BY DEF Release
    <2> QED
      BY <1>4, <1>5, <1>6, <1>7, <2>1, <2>2, <2>3
  <1>9. usedBytes' <= QueueBytes
    <2>1. QueueBytes \in Nat
      BY ExporterAssumption
    <2>2. SizeOfAll(Held) = SizeOfAll(Held \ R) + SizeOfAll(R)
      BY <1>3, <1>4, Zenon
    <2> QED
      BY <1>4, <1>5, <1>7, <1>8, <2>1, <2>2
  <1> QED
    BY <1>8, <1>9 DEF BudgetExact, Held, Numbered

LEMMA CountedKeeps ==
    ASSUME CountedInv, NEW M, IsFiniteSet(M), Known' \subseteq Known \cup M,
           Counted' = Counted, dropped' + health'.dropped = dropped + health.dropped
    PROVE  CountedInv'
  <1>1. IsFiniteSet(Known \cup M)
    BY FS_Union DEF CountedInv
  <1>2. IsFiniteSet(Known')
    BY <1>1, FS_Subset
  <1> QED
    BY <1>2 DEF CountedInv

LEMMA CountedGrows ==
    ASSUME CountedInv, NEW N, IsFiniteSet(N), Known' \subseteq Known \cup N,
           Counted' = Counted \cup N, Counted \cap N = {},
           dropped' + health'.dropped = dropped + health.dropped + Cardinality(N)
    PROVE  CountedInv'
  <1>1. IsFiniteSet(Known \cup N)
    BY FS_Union DEF CountedInv
  <1>2. IsFiniteSet(Known')
    BY <1>1, FS_Subset
  <1>3. Counted \subseteq Known
    BY DEF Counted, Known
  <1>4. IsFiniteSet(Counted)
    BY <1>3, FS_Subset DEF CountedInv
  <1>5. Cardinality(Counted \cup N) = Cardinality(Counted) + Cardinality(N)
    BY <1>4, JoinIs
  <1> QED
    BY <1>2, <1>5 DEF CountedInv

-----------------------------------------------------------------------------
(* Emitting *)

LEMMA EmitterMoves ==
    ASSUME ExporterTypeOK, EmittersInv, NEW e \in Emitters, emitter[e].at # "idle",
           NEW a \in EmitterStages, emitter' = [emitter EXCEPT ![e].at = a],
           \A s \in Records : s # emitter[e].rec => fate'[s] = fate[s],
           a # "idle" => fate' = fate
    PROVE  /\ emitter' \in [Emitters -> [at : EmitterStages, rec : Records \cup {NoRecord}]]
           /\ emitter[e].rec \in Records /\ fate[emitter[e].rec] = "emitting"
           /\ EmittersInv'
           /\ emitter'[e].at = a /\ emitter'[e].rec = emitter[e].rec
           /\ \A f \in Emitters \ {e} : emitter'[f] = emitter[f]
  <1>1. /\ emitter' \in [Emitters -> [at : EmitterStages, rec : Records \cup {NoRecord}]]
        /\ emitter'[e].at = a /\ emitter'[e].rec = emitter[e].rec
        /\ \A f \in Emitters \ {e} : emitter'[f] = emitter[f]
    BY DEF ExporterTypeOK
  <1>2. emitter[e].rec \in Records /\ fate[emitter[e].rec] = "emitting"
    BY DEF EmittersInv
  <1>3. EmittersInv'
    <2>1. \A f \in Emitters : emitter'[f].at # "idle" => f = e \/ emitter'[f].rec # emitter[e].rec
      BY <1>1 DEF EmittersInv
    <2>2. \A f \in Emitters : emitter'[f].at # "idle" =>
             emitter'[f].rec \in Records /\ fate'[emitter'[f].rec] = "emitting"
      BY <1>1, <1>2, <2>1 DEF EmittersInv
    <2>3. \A f, g \in Emitters : emitter'[f].at # "idle" /\ emitter'[g].at # "idle"
             /\ emitter'[f].rec = emitter'[g].rec => f = g
      BY <1>1 DEF EmittersInv
    <2> QED
      BY <2>2, <2>3 DEF EmittersInv
  <1> QED
    BY <1>1, <1>2, <1>3

LEMMA ClaimMoves ==
    ASSUME EmittersInv, NEW e \in Emitters, emitter[e].at # "idle",
           emitter'[e].rec = emitter[e].rec,
           \A f \in Emitters \ {e} : emitter'[f] = emitter[f],
           NEW St, St \subseteq {"reserved", "counted"}
    PROVE  /\ emitter'[e].at \in St => Claimed(St)' = Claimed(St) \cup {emitter[e].rec}
           /\ emitter'[e].at \notin St => Claimed(St)' = Claimed(St) \ {emitter[e].rec}
  <1>1. \A f \in Emitters \ {e} : emitter[f].at \in St => emitter[f].rec # emitter[e].rec
    BY DEF EmittersInv
  <1> QED
    BY <1>1 DEF Claimed

LEMMA TryEmitKeeps ==
    ASSUME ExporterInv, NEW e \in Emitters, NEW r \in Records, TryEmit(e, r)
    PROVE  ExporterInv'
  <1>1. /\ ExporterTypeOK /\ EmittersInv /\ CountedInv /\ BudgetExact
        /\ loop.at # "done" => PlacesInv
    BY DEF ExporterInv
  <1>2. /\ emitter[e].at = "idle" /\ fate[r] = "new"
        /\ UNCHANGED <<commandQueue, usedBytes, usedRecords, health, loop, pending, stopped>>
        /\ UNCHANGED budget
    BY DEF TryEmit, budget, exporterTask
  <1>3. \E a \in {"idle", "checked"}, w \in {"dropped", "emitting"} :
          /\ a = "idle" <=> w = "dropped"
          /\ emitter' = [emitter EXCEPT ![e] = [at |-> a, rec |-> r]]
          /\ fate' = [s \in Records |-> IF s \in {r} THEN w ELSE fate[s]]
          /\ dropped' = IF a = "idle" THEN dropped + 1 ELSE dropped
    <2>1. CASE Estimate[r] > BatchBytes \/ ~NumberAllows(r)
      <3>1. emitter' = [emitter EXCEPT ![e] = [at |-> "idle", rec |-> r]] /\ NoteDrop(e)
        BY <2>1 DEF TryEmit
      <3>2. emitter'[e].rec = r
        BY <1>1, <3>1 DEF ExporterTypeOK
      <3> QED
        BY <3>1, <3>2 DEF NoteDrop, Become
    <2>2. CASE ~(Estimate[r] > BatchBytes \/ ~NumberAllows(r))
      BY <2>2 DEF TryEmit, Become
    <2> QED
      BY <2>1, <2>2
  <1>4. PICK a \in {"idle", "checked"}, w \in {"dropped", "emitting"} :
          /\ a = "idle" <=> w = "dropped"
          /\ emitter' = [emitter EXCEPT ![e] = [at |-> a, rec |-> r]]
          /\ fate' = [s \in Records |-> IF s \in {r} THEN w ELSE fate[s]]
          /\ dropped' = IF a = "idle" THEN dropped + 1 ELSE dropped
    BY <1>3
  <1>5. /\ emitter'[e].at = a /\ emitter'[e].rec = r
        /\ \A f \in Emitters \ {e} : emitter'[f] = emitter[f]
        /\ emitter' \in [Emitters -> [at : EmitterStages, rec : Records \cup {NoRecord}]]
    BY <1>1, <1>4 DEF ExporterTypeOK, EmitterStages
  <1>6. ExporterTypeOK'
    BY <1>1, <1>2, <1>4, <1>5 DEF ExporterTypeOK, Fates
  <1>7. EmittersInv'
    <2>1. \A f \in Emitters : emitter[f].at # "idle" => emitter[f].rec # r
      BY <1>1, <1>2 DEF EmittersInv
    <2>2. \A f \in Emitters : emitter'[f].at # "idle" =>
             emitter'[f].rec \in Records /\ fate'[emitter'[f].rec] = "emitting"
      BY <1>1, <1>4, <1>5, <2>1 DEF EmittersInv
    <2>3. \A f, g \in Emitters : emitter'[f].at # "idle" /\ emitter'[g].at # "idle"
             /\ emitter'[f].rec = emitter'[g].rec => f = g
      BY <1>1, <1>5, <2>1 DEF EmittersInv
    <2> QED
      BY <2>2, <2>3 DEF EmittersInv
  <1>8. CountedInv'
    <2>1. IsFiniteSet({r}) /\ Cardinality({r}) = 1
      BY FS_Singleton
    <2>2. Known' \subseteq Known \cup {r}
      BY <1>4 DEF Known
    <2>3. Counted \cap {r} = {}
      BY <1>2 DEF Counted
    <2>4. CASE a = "checked"
      <3>1. Counted' = Counted /\ dropped' = dropped
        BY <1>2, <1>4, <2>4 DEF Counted
      <3> QED
        BY <1>1, <1>2, <2>1, <2>2, <3>1, CountedKeeps
    <2>5. CASE a = "idle"
      <3>1. Counted' = Counted \cup {r}
        BY <1>4, <2>5 DEF Counted
      <3>2. dropped' + health'.dropped = dropped + health.dropped + Cardinality({r})
        BY <1>1, <1>2, <1>4, <2>1, <2>5 DEF ExporterTypeOK
      <3> QED
        BY <1>1, <2>1, <2>2, <2>3, <3>1, <3>2, CountedGrows
    <2> QED
      BY <2>4, <2>5
  <1>9. loop'.at # "done" => PlacesInv'
    <2> SUFFICES ASSUME loop.at # "done" PROVE PlacesInv'
      BY <1>2
    <2>1. PlacesInv
      BY <1>1
    <2>2. Waiting' = Waiting
      BY <1>2 DEF Waiting
    <2>3. Waiting \cup Range(loop.batch) \cup ({pending} \ {NoRecord}) \subseteq Records
      BY <1>1, RangeIs DEF ExporterTypeOK, Waiting
    <2>4. \A s \in Records : fate[s] = "queued" => fate'[s] = "queued"
      BY <1>2, <1>4
    <2> QED
      BY <1>2, <2>1, <2>2, <2>3, <2>4 DEF PlacesInv
  <1>10. Held' = Held /\ Numbered' = Numbered
    <2>1. /\ Claimed({"reserved", "counted"})' = Claimed({"reserved", "counted"})
          /\ Claimed({"counted"})' = Claimed({"counted"})
      BY <1>2, <1>5 DEF Claimed
    <2> QED
      BY <1>2, <2>1 DEF Held, Numbered, Waiting, InTask
  <1>11. BudgetExact'
    BY <1>1, <1>2, <1>10, BudgetSame
  <1> QED
    BY <1>6, <1>7, <1>8, <1>9, <1>11 DEF ExporterInv

\* The places of records that wait do not depend on the threads.
LEMMA PlacesBeside ==
    ASSUME PlacesInv, ExporterTypeOK, UNCHANGED <<commandQueue, loop, pending>>,
           \A s \in Records : fate[s] = "queued" => fate'[s] = "queued"
    PROVE  PlacesInv' /\ Waiting' = Waiting /\ InTask' = InTask
  <1>1. Waiting' = Waiting /\ InTask' = InTask
    BY DEF Waiting, InTask
  <1>2. Waiting \cup Range(loop.batch) \cup ({pending} \ {NoRecord}) \subseteq Records
    BY RangeIs DEF ExporterTypeOK, Waiting
  <1> QED
    BY <1>1, <1>2 DEF PlacesInv

LEMMA DropKeepsCount ==
    ASSUME ExporterTypeOK, CountedInv, NEW r \in Records, fate[r] = "emitting",
           fate' = [s \in Records |-> IF s \in {r} THEN "dropped" ELSE fate[s]],
           dropped' = dropped + 1, health' = health
    PROVE  CountedInv'
  <1>1. IsFiniteSet({r}) /\ Cardinality({r}) = 1
    BY FS_Singleton
  <1>2. Known' \subseteq Known \cup {r}
    BY DEF Known
  <1>3. Counted \cap {r} = {} /\ Counted' = Counted \cup {r}
    BY DEF Counted
  <1>4. dropped' + health'.dropped = dropped + health.dropped + Cardinality({r})
    BY <1>1 DEF ExporterTypeOK
  <1> QED
    BY <1>1, <1>2, <1>3, <1>4, CountedGrows

LEMMA SameKeepsCount ==
    ASSUME CountedInv, UNCHANGED <<dropped, health>>,
           \A s \in Records : fate[s] \in {"emitting", "queued"} /\ fate'[s] # fate[s] =>
             fate'[s] \in {"queued", "expired", "delivered"},
           \A s \in Records : fate[s] \notin {"emitting", "queued"} => fate'[s] = fate[s]
    PROVE  CountedInv'
  <1>1. Known' \subseteq Known \cup {} /\ IsFiniteSet({})
    BY FS_EmptySet DEF Known
  <1>2. Counted' = Counted
    BY DEF Counted
  <1> QED
    BY <1>1, <1>2, CountedKeeps

LEMMA ReserveKeeps ==
    ASSUME ExporterInv, NEW e \in Emitters, Reserve(e)
    PROVE  ExporterInv'
  <1>1. /\ ExporterTypeOK /\ EmittersInv /\ CountedInv /\ BudgetExact
        /\ loop.at # "done" => PlacesInv
    BY DEF ExporterInv
  <1>2. /\ emitter[e].at = "checked"
        /\ UNCHANGED <<commandQueue, usedRecords, health, loop, pending, stopped>>
    BY DEF Reserve, exporterTask
  <1>3. PICK r \in Records : r = emitter[e].rec /\ fate[r] = "emitting"
    BY <1>1, <1>2 DEF EmittersInv
  <1>4. CASE usedBytes + Estimate[emitter[e].rec] > QueueBytes
    <2>1. emitter' = [emitter EXCEPT ![e].at = "idle"] /\ NoteDrop(e) /\ UNCHANGED budget
      BY <1>2, <1>4 DEF Reserve, Rest, budget
    <2>2. emitter'[e].rec = r
      BY <1>1, <1>3, <2>1 DEF ExporterTypeOK
    <2>3. /\ fate' = [s \in Records |-> IF s \in {emitter[e].rec} THEN "dropped" ELSE fate[s]]
          /\ dropped' = dropped + 1
      BY <1>3, <2>1, <2>2 DEF NoteDrop, Become
    <2>4. "idle" \in EmitterStages /\ emitter[e].at # "idle"
      BY <1>2 DEF EmitterStages
    <2>12. \A s \in Records : s # emitter[e].rec => fate'[s] = fate[s]
      BY <2>3
    <2>5. /\ emitter' \in [Emitters -> [at : EmitterStages, rec : Records \cup {NoRecord}]]
          /\ EmittersInv' /\ emitter'[e].at = "idle" /\ emitter'[e].rec = emitter[e].rec
          /\ \A f \in Emitters \ {e} : emitter'[f] = emitter[f]
      BY <1>1, <2>1, <2>12, <2>4, EmitterMoves
    <2>6. ExporterTypeOK'
      BY <1>1, <1>2, <2>3, <2>5 DEF ExporterTypeOK, Fates
    <2>7. CountedInv'
      BY <1>1, <1>2, <1>3, <2>3, DropKeepsCount
    <2>8. loop.at # "done" => PlacesInv' /\ Waiting' = Waiting /\ InTask' = InTask
      BY <1>1, <1>2, <1>3, <2>3, PlacesBeside
    <2>9. /\ Claimed({"reserved", "counted"})' = Claimed({"reserved", "counted"})
          /\ Claimed({"counted"})' = Claimed({"counted"})
      BY <1>2, <2>5 DEF Claimed
    <2>10. loop'.at # "done" => Held' = Held /\ Numbered' = Numbered
      BY <1>2, <2>8, <2>9 DEF Held, Numbered
    <2>11. BudgetExact'
      BY <1>1, <1>2, <2>1, <2>10, BudgetSame
    <2> QED
      BY <1>2, <2>5, <2>6, <2>7, <2>8, <2>11 DEF ExporterInv
  <1>5. CASE ~(usedBytes + Estimate[emitter[e].rec] > QueueBytes)
    <2>1. /\ emitter' = [emitter EXCEPT ![e].at = "reserved"]
          /\ usedBytes' = usedBytes + Estimate[r] /\ UNCHANGED <<dropped, fate>>
      BY <1>3, <1>5 DEF Reserve
    <2>3. "reserved" \in EmitterStages /\ emitter[e].at # "idle"
      BY <1>2 DEF EmitterStages
    <2>4. /\ emitter' \in [Emitters -> [at : EmitterStages, rec : Records \cup {NoRecord}]]
          /\ EmittersInv' /\ emitter'[e].at = "reserved" /\ emitter'[e].rec = emitter[e].rec
          /\ \A f \in Emitters \ {e} : emitter'[f] = emitter[f]
      BY <1>1, <2>1, <2>3, EmitterMoves
    <2>5. ExporterTypeOK'
      BY <1>1, <1>2, <2>1, <2>4 DEF ExporterTypeOK
    <2>6. CountedInv'
      BY <1>1, <1>2, <2>1, SameKeepsCount
    <2>7. loop.at # "done" => PlacesInv' /\ Waiting' = Waiting /\ InTask' = InTask
      BY <1>1, <1>2, <2>1, PlacesBeside
    <2>8. /\ Claimed({"reserved", "counted"})' = Claimed({"reserved", "counted"}) \cup {r}
          /\ Claimed({"counted"})' = Claimed({"counted"}) \ {r}
      BY <1>1, <1>3, <2>3, <2>4, ClaimMoves
    <2>9. r \notin Claimed({"reserved", "counted"}) /\ r \notin Claimed({"counted"})
      BY <1>1, <1>2, <1>3 DEF Claimed, EmittersInv
    <2>10. BudgetExact'
      <3> SUFFICES ASSUME loop.at # "done" PROVE BudgetExact'
        BY <1>2 DEF BudgetExact
      <3>1. Held' = Held \cup {r} /\ Numbered' = Numbered
        BY <2>7, <2>8, <2>9 DEF Held, Numbered
      <3>2. /\ Held \in SUBSET Records /\ IsFiniteSet(Held)
            /\ \A s \in Waiting \cup InTask : fate[s] = "queued"
        BY <1>1, HeldIs
      <3>3. Held \cap {r} = {}
        BY <1>3, <2>9, <3>2 DEF Held
      <3>4. IsFiniteSet({r}) /\ {r} \in SUBSET Records
        BY FS_Singleton
      <3>5. /\ SizeOfAll(Held \cup {r}) = SizeOfAll(Held) + SizeOfAll({r})
            /\ SizeOfAll({r}) = Estimate[r]
        BY <3>2, <3>3, <3>4, SizeIs
      <3>6. usedBytes = SizeOfAll(Held) /\ usedRecords = Cardinality(Numbered)
        BY <1>1 DEF BudgetExact, Held, Numbered
      <3>7. SizeOfAll(Held) \in Nat /\ Estimate[r] \in Nat /\ QueueBytes \in Nat
        BY <3>2, <3>3, <3>4, SizeIs, ExporterAssumption
      <3>8. usedBytes' = SizeOfAll(Held') /\ usedRecords' = Cardinality(Numbered')
        BY <1>2, <2>1, <3>1, <3>5, <3>6
      <3>9. usedBytes' <= QueueBytes
        BY <1>3, <1>5, <2>1, <3>6, <3>7
      <3> QED
        BY <3>8, <3>9 DEF BudgetExact, Held, Numbered
    <2> QED
      BY <1>2, <2>4, <2>5, <2>6, <2>7, <2>10 DEF ExporterInv
  <1> QED
    BY <1>4, <1>5

LEMMA CountRecordKeeps ==
    ASSUME ExporterInv, NEW e \in Emitters, CountRecord(e)
    PROVE  ExporterInv'
  <1>1. /\ ExporterTypeOK /\ EmittersInv /\ CountedInv /\ BudgetExact
        /\ loop.at # "done" => PlacesInv
    BY DEF ExporterInv
  <1>2. /\ emitter[e].at = "reserved" /\ usedRecords' = usedRecords + 1
        /\ emitter' = [emitter EXCEPT ![e].at = "counted"]
        /\ UNCHANGED <<commandQueue, usedBytes, dropped, health, loop, pending, stopped, fate>>
    BY DEF CountRecord, exporterTask
  <1>3. PICK r \in Records : r = emitter[e].rec /\ fate[r] = "emitting"
    BY <1>1, <1>2 DEF EmittersInv
  <1>5. "counted" \in EmitterStages /\ emitter[e].at # "idle"
    BY <1>2 DEF EmitterStages
  <1>6. /\ emitter' \in [Emitters -> [at : EmitterStages, rec : Records \cup {NoRecord}]]
        /\ EmittersInv' /\ emitter'[e].at = "counted" /\ emitter'[e].rec = emitter[e].rec
        /\ \A f \in Emitters \ {e} : emitter'[f] = emitter[f]
    BY <1>1, <1>2, <1>5, EmitterMoves
  <1>7. ExporterTypeOK'
    BY <1>1, <1>2, <1>6 DEF ExporterTypeOK
  <1>8. CountedInv'
    BY <1>1, <1>2, SameKeepsCount
  <1>9. loop.at # "done" => PlacesInv' /\ Waiting' = Waiting /\ InTask' = InTask
    BY <1>1, <1>2, PlacesBeside
  <1>10. /\ Claimed({"reserved", "counted"})' = Claimed({"reserved", "counted"}) \cup {r}
         /\ Claimed({"counted"})' = Claimed({"counted"}) \cup {r}
    BY <1>1, <1>3, <1>5, <1>6, ClaimMoves
  <1>11. r \in Claimed({"reserved", "counted"}) /\ r \notin Claimed({"counted"})
    BY <1>1, <1>2, <1>3 DEF Claimed, EmittersInv
  <1>12. BudgetExact'
    <2> SUFFICES ASSUME loop.at # "done" PROVE BudgetExact'
      BY <1>2 DEF BudgetExact
    <2>1. Held' = Held /\ Numbered' = Numbered \cup {r}
      BY <1>9, <1>10, <1>11 DEF Held, Numbered
    <2>2. /\ IsFiniteSet(Numbered) /\ \A s \in Waiting \cup InTask : fate[s] = "queued"
      BY <1>1, HeldIs
    <2>3. r \notin Numbered
      BY <1>3, <1>11, <2>2 DEF Numbered
    <2>4. Cardinality(Numbered \cup {r}) = Cardinality(Numbered) + 1
      BY <2>2, <2>3, FS_AddElement
    <2>5. usedBytes = SizeOfAll(Held) /\ usedRecords = Cardinality(Numbered)
          /\ usedBytes <= QueueBytes
      BY <1>1 DEF BudgetExact, Held, Numbered
    <2>6. usedBytes' = SizeOfAll(Held') /\ usedRecords' = Cardinality(Numbered')
      BY <1>2, <2>1, <2>4, <2>5
    <2> QED
      BY <1>2, <2>5, <2>6 DEF BudgetExact, Held, Numbered
  <1> QED
    BY <1>2, <1>6, <1>7, <1>8, <1>9, <1>12 DEF ExporterInv

LEMMA TrySendKeeps ==
    ASSUME ExporterInv, NEW e \in Emitters, TrySend(e)
    PROVE  ExporterInv'
  <1>1. /\ ExporterTypeOK /\ EmittersInv /\ CountedInv /\ BudgetExact
        /\ loop.at # "done" => PlacesInv
    BY DEF ExporterInv
  <1>2. /\ emitter[e].at = "counted" /\ emitter' = [emitter EXCEPT ![e].at = "idle"]
        /\ UNCHANGED <<health, loop, pending, stopped>>
    BY DEF TrySend, Rest, exporterTask
  <1>3. PICK r \in Records : r = emitter[e].rec /\ fate[r] = "emitting"
    BY <1>1, <1>2 DEF EmittersInv
  <1>4. \A s \in Records : s # emitter[e].rec => fate'[s] = fate[s]
    <2>1. emitter'[e].rec = emitter[e].rec
      BY <1>1, <1>2 DEF ExporterTypeOK
    <2> QED
      BY <2>1 DEF TrySend, NoteDrop, Become
  <1>5. "idle" \in EmitterStages /\ emitter[e].at # "idle"
    BY <1>2 DEF EmitterStages
  <1>6. /\ emitter' \in [Emitters -> [at : EmitterStages, rec : Records \cup {NoRecord}]]
        /\ EmittersInv' /\ emitter'[e].at = "idle" /\ emitter'[e].rec = emitter[e].rec
        /\ \A f \in Emitters \ {e} : emitter'[f] = emitter[f]
    BY <1>1, <1>2, <1>4, <1>5, EmitterMoves
  <1>7. /\ Claimed({"reserved", "counted"})' = Claimed({"reserved", "counted"}) \ {r}
        /\ Claimed({"counted"})' = Claimed({"counted"}) \ {r}
    BY <1>1, <1>3, <1>5, <1>6, ClaimMoves
  <1>8. r \in Claimed({"reserved", "counted"}) /\ r \in Claimed({"counted"})
    BY <1>2, <1>3 DEF Claimed
  <1>9. loop.at # "done" => /\ \A s \in Waiting \cup InTask : fate[s] = "queued"
                            /\ r \notin Waiting \cup InTask
                            /\ r \notin Range(loop.batch) /\ r # pending
    <2> SUFFICES ASSUME loop.at # "done" PROVE /\ \A s \in Waiting \cup InTask : fate[s] = "queued"
                            /\ r \notin Waiting \cup InTask
                            /\ r \notin Range(loop.batch) /\ r # pending
      OBVIOUS
    <2>1. \A s \in Waiting \cup InTask : fate[s] = "queued"
      BY <1>1, HeldIs
    <2>2. r # NoRecord
      BY ExporterAssumption
    <2> QED
      BY <1>1, <1>3, <2>1, <2>2 DEF PlacesInv
  <1>10. CASE loop.at = "done" \/ Len(commandQueue) >= QueueRecords
    <2>1. Release({r}) /\ NoteDrop(e) /\ UNCHANGED commandQueue
      BY <1>3, <1>10 DEF TrySend
    <2>2. /\ fate' = [s \in Records |-> IF s \in {r} THEN "dropped" ELSE fate[s]]
          /\ dropped' = dropped + 1
      BY <1>3, <1>6, <2>1 DEF NoteDrop, Become
    <2>3. ExporterTypeOK'
      BY <1>1, <1>2, <1>6, <2>1, <2>2 DEF ExporterTypeOK, Fates
    <2>4. CountedInv'
      BY <1>1, <1>2, <1>3, <2>2, DropKeepsCount
    <2>5. loop.at # "done" => PlacesInv' /\ Waiting' = Waiting /\ InTask' = InTask
      BY <1>1, <1>2, <1>3, <2>1, <2>2, PlacesBeside
    <2>6. BudgetExact'
      <3> SUFFICES ASSUME loop.at # "done" PROVE BudgetExact'
        BY <1>2 DEF BudgetExact
      <3>1. Held' = Held \ {r} /\ Numbered' = Numbered \ {r} /\ {r} \subseteq Numbered
        BY <1>7, <1>8, <1>9, <2>5 DEF Held, Numbered
      <3> QED
        BY <1>1, <2>1, <3>1, BudgetShrinks
    <2> QED
      BY <1>2, <1>6, <2>3, <2>4, <2>5, <2>6 DEF ExporterInv
  <1>11. CASE ~(loop.at = "done" \/ Len(commandQueue) >= QueueRecords)
    <2>1. /\ commandQueue' = Append(commandQueue, r) /\ UNCHANGED <<dropped, usedBytes, usedRecords>>
          /\ fate' = [s \in Records |-> IF s \in {r} THEN "queued" ELSE fate[s]]
          /\ loop.at # "done" /\ PlacesInv /\ UNCHANGED budget
      BY <1>1, <1>3, <1>11 DEF TrySend, Become, budget
    <2>2. r # Shutdown /\ r # NoRecord
      BY ExporterAssumption
    <2>3. r \notin Range(commandQueue)
      BY <1>9, <2>1, <2>2 DEF Waiting
    <2>4. commandQueue \in Seq(Records \cup {Shutdown}) /\ r \in Records \cup {Shutdown}
      BY <1>1 DEF ExporterTypeOK
    <2>5. /\ commandQueue' \in Seq(Records \cup {Shutdown})
          /\ Range(commandQueue') = Range(commandQueue) \cup {r}
          /\ NoTwice(commandQueue')
      BY <2>1, <2>3, <2>4, AppendIs DEF PlacesInv
    <2>6. ExporterTypeOK'
      BY <1>1, <1>2, <1>6, <2>1, <2>5 DEF ExporterTypeOK, Fates
    <2>7. CountedInv'
      BY <1>1, <1>2, <1>3, <2>1, SameKeepsCount
    <2>8. Waiting' = Waiting \cup {r} /\ InTask' = InTask
      BY <1>2, <2>2, <2>5 DEF Waiting, InTask
    <2>9. PlacesInv'
      <3>1. Waiting \cup Range(loop.batch) \cup ({pending} \ {NoRecord}) \subseteq Records
        BY <1>1, RangeIs DEF ExporterTypeOK, Waiting
      <3>2. \A s \in Records : fate[s] = "queued" => fate'[s] = "queued"
        BY <1>3, <2>1
      <3>3. fate'[r] = "queued"
        BY <2>1
      <3> QED
        BY <1>2, <1>9, <2>1, <2>5, <2>8, <3>1, <3>2, <3>3 DEF PlacesInv
    <2>10. Held' = Held /\ Numbered' = Numbered
      BY <1>7, <1>8, <1>9, <2>1, <2>8 DEF Held, Numbered
    <2>11. BudgetExact'
      BY <1>1, <1>2, <2>1, <2>10, BudgetSame
    <2> QED
      BY <1>6, <2>6, <2>7, <2>9, <2>11 DEF ExporterInv
  <1> QED
    BY <1>10, <1>11

-----------------------------------------------------------------------------
(* The task *)

\* Records that only change places.
LEMMA MovedKeeps ==
    ASSUME ExporterInv, ExporterTypeOK', loop.at # "done",
           UNCHANGED <<emitter, usedBytes, usedRecords, dropped, health, fate>>,
           loop'.at # "done" => PlacesInv' /\ Waiting' \cup InTask' = Waiting \cup InTask
    PROVE  ExporterInv'
  <1>1. ExporterTypeOK /\ EmittersInv /\ CountedInv /\ BudgetExact
    BY DEF ExporterInv
  <1>2. EmittersInv'
    BY <1>1 DEF EmittersInv
  <1>3. CountedInv'
    BY <1>1, SameKeepsCount
  <1>4. /\ Claimed({"reserved", "counted"})' = Claimed({"reserved", "counted"})
        /\ Claimed({"counted"})' = Claimed({"counted"})
    BY DEF Claimed
  <1>5. loop'.at # "done" => Held' = Held /\ Numbered' = Numbered
    BY <1>4 DEF Held, Numbered
  <1>6. BudgetExact'
    <2>1. UNCHANGED budget
      BY DEF budget
    <2> QED
      BY <1>1, <1>5, <2>1, BudgetSame
  <1> QED
    BY <1>1, <1>2, <1>3, <1>6 DEF ExporterInv

LEMMA AskShutdownKeeps ==
    ASSUME ExporterInv, AskShutdown
    PROVE  ExporterInv'
  <1>1. ExporterTypeOK /\ PlacesInv /\ loop.at # "done"
    BY DEF ExporterInv, AskShutdown
  <1>2. /\ commandQueue' = Append(commandQueue, Shutdown)
        /\ \A i \in DOMAIN commandQueue : commandQueue[i] # Shutdown
        /\ UNCHANGED <<emitter, usedBytes, usedRecords, dropped, health, fate, loop, pending, stopped>>
    BY DEF AskShutdown, budget, exporterTask
  <1>3. commandQueue \in Seq(Records \cup {Shutdown}) /\ Shutdown \in Records \cup {Shutdown}
    BY <1>1 DEF ExporterTypeOK
  <1>4. Shutdown \notin Range(commandQueue)
    BY <1>2 DEF Range
  <1>5. /\ commandQueue' \in Seq(Records \cup {Shutdown})
        /\ Range(commandQueue') = Range(commandQueue) \cup {Shutdown}
        /\ NoTwice(commandQueue')
    BY <1>1, <1>2, <1>3, <1>4, AppendIs DEF PlacesInv
  <1>6. ExporterTypeOK'
    BY <1>1, <1>2, <1>5 DEF ExporterTypeOK
  <1>7. Waiting' = Waiting /\ InTask' = InTask
    BY <1>2, <1>5 DEF Waiting, InTask
  <1>8. Shutdown \notin Range(loop.batch) /\ (pending # NoRecord => pending # Shutdown)
    <2>1. loop.batch \in Seq(Records) /\ Shutdown \notin Records /\ pending \in Records \cup {NoRecord}
      BY <1>1, ExporterAssumption DEF ExporterTypeOK
    <2>2. Range(loop.batch) \subseteq Records
      BY <2>1, RangeIs
    <2>3. pending # NoRecord => pending # Shutdown
      BY <2>1
    <2> QED
      BY <2>1, <2>2, <2>3
  <1>9. PlacesInv'
    BY <1>1, <1>2, <1>5, <1>7, <1>8 DEF PlacesInv
  <1> QED
    BY <1>1, <1>2, <1>6, <1>7, <1>9, MovedKeeps

\* One record is a batch.
LEMMA OneIs ==
    ASSUME NEW r \in Records
    PROVE  <<r>> \in Seq(Records) /\ Range(<<r>>) = {r} /\ NoTwice(<<r>>)
  <1>1. <<r>> \in Seq(Records) /\ DOMAIN <<r>> = {1} /\ Len(<<r>>) = 1 /\ <<r>>[1] = r
    OBVIOUS
  <1> QED
    BY <1>1 DEF Range, NoTwice

LEMMA ReceivePendingKeeps ==
    ASSUME ExporterInv, ReceivePending
    PROVE  ExporterInv'
  <1>1. ExporterTypeOK /\ PlacesInv /\ loop.at = "recv" /\ pending # NoRecord
    BY DEF ExporterInv, ReceivePending
  <1>2. /\ loop' = [at |-> "batching", batch |-> <<pending>>, attempt |-> 0, left |-> "none"]
        /\ pending' = NoRecord
        /\ UNCHANGED <<emitter, usedBytes, usedRecords, dropped, health, fate, commandQueue, stopped>>
    BY DEF ReceivePending, Loop, outsideExporter, budget
  <1>3. PICK p \in Records : p = pending
    BY <1>1 DEF ExporterTypeOK
  <1>4. <<p>> \in Seq(Records) /\ Range(<<p>>) = {p} /\ NoTwice(<<p>>)
    BY OneIs
  <1>5. loop'.at = "batching" /\ loop'.batch = <<p>>
    BY <1>2, <1>3
  <1>6. ExporterTypeOK'
    BY <1>1, <1>2, <1>3, <1>4 DEF ExporterTypeOK, LoopStages
  <1>7. Range(loop.batch) = {} /\ Range(loop'.batch) = {p}
    BY <1>1, <1>4, <1>5 DEF PlacesInv, Range
  <1>8. Waiting' = Waiting /\ InTask' = {p} /\ InTask = {p}
    BY <1>1, <1>2, <1>3, <1>5, <1>7 DEF Waiting, InTask
  <1>9. PlacesInv'
    BY <1>1, <1>2, <1>3, <1>4, <1>5, <1>7, <1>8 DEF PlacesInv
  <1> QED
    BY <1>1, <1>2, <1>6, <1>8, <1>9, MovedKeeps

LEMMA ReceiveCommandKeeps ==
    ASSUME ExporterInv, ReceiveCommand
    PROVE  ExporterInv'
  <1>1. /\ ExporterTypeOK /\ PlacesInv /\ loop.at = "recv" /\ pending = NoRecord
        /\ commandQueue # <<>>
    BY DEF ExporterInv, ReceiveCommand
  <1>2. /\ commandQueue' = Tail(commandQueue)
        /\ UNCHANGED <<emitter, usedBytes, usedRecords, dropped, health, fate, pending, stopped>>
    BY DEF ReceiveCommand, outsideExporter, budget
  <1>3. commandQueue \in Seq(Records \cup {Shutdown})
    BY <1>1 DEF ExporterTypeOK
  <1>4. PICK h \in Records \cup {Shutdown} : h = Head(commandQueue)
    BY <1>1, <1>3
  <1>5. /\ commandQueue' \in Seq(Records \cup {Shutdown}) /\ NoTwice(commandQueue')
        /\ Range(commandQueue) = Range(commandQueue') \cup {h} /\ h \notin Range(commandQueue')
    BY <1>1, <1>2, <1>3, <1>4, TailIs DEF PlacesInv
  <1>6. CASE h = Shutdown
    <2>1. loop' = [at |-> "done", batch |-> <<>>, attempt |-> 0, left |-> "none"]
      BY <1>4, <1>6 DEF ReceiveCommand, Loop
    <2>2. <<>> \in Seq(Records)
      OBVIOUS
    <2>3. ExporterTypeOK' /\ loop'.at = "done"
      BY <1>1, <1>2, <1>5, <2>1, <2>2 DEF ExporterTypeOK, LoopStages
    <2> QED
      BY <1>1, <1>2, <2>3, MovedKeeps
  <1>7. CASE h # Shutdown
    <2>1. loop' = [at |-> "batching", batch |-> <<h>>, attempt |-> 0, left |-> "none"]
      BY <1>4, <1>7 DEF ReceiveCommand, Loop
    <2>2. h \in Records /\ <<h>> \in Seq(Records) /\ Range(<<h>>) = {h} /\ NoTwice(<<h>>)
      BY <1>7, OneIs
    <2>3. ExporterTypeOK' /\ loop'.at = "batching" /\ loop'.batch = <<h>>
      BY <1>1, <1>2, <1>5, <2>1, <2>2 DEF ExporterTypeOK, LoopStages
    <2>4. Range(loop.batch) = {} /\ Range(loop'.batch) = {h}
      BY <1>1, <2>2, <2>3 DEF PlacesInv, Range
    <2>5. Waiting = Waiting' \cup {h} /\ InTask' = {h} /\ InTask = {}
      BY <1>1, <1>2, <1>5, <1>7, <2>3, <2>4 DEF Waiting, InTask
    <2>6. PlacesInv'
      BY <1>1, <1>2, <1>5, <2>2, <2>3, <2>4, <2>5 DEF PlacesInv
    <2> QED
      BY <1>1, <1>2, <2>3, <2>5, <2>6, MovedKeeps
  <1> QED
    BY <1>6, <1>7

LEMMA GatherKeeps ==
    ASSUME ExporterInv, Gather
    PROVE  ExporterInv'
  <1>1. /\ ExporterTypeOK /\ PlacesInv /\ loop.at = "batching" /\ pending = NoRecord
        /\ commandQueue # <<>>
    BY DEF ExporterInv, Gather, PlacesInv
  <1>2. /\ commandQueue' = Tail(commandQueue) /\ Head(commandQueue) # Shutdown
        /\ loop' = [loop EXCEPT !.batch = Append(loop.batch, Head(commandQueue))]
        /\ UNCHANGED <<emitter, usedBytes, usedRecords, dropped, health, fate, pending, stopped>>
    BY DEF Gather, outsideExporter, budget
  <1>3. commandQueue \in Seq(Records \cup {Shutdown}) /\ loop.batch \in Seq(Records)
    BY <1>1 DEF ExporterTypeOK
  <1>4. PICK h \in Records \cup {Shutdown} : h = Head(commandQueue)
    BY <1>1, <1>3
  <1>5. /\ commandQueue' \in Seq(Records \cup {Shutdown}) /\ NoTwice(commandQueue')
        /\ Range(commandQueue) = Range(commandQueue') \cup {h} /\ h \notin Range(commandQueue')
    BY <1>1, <1>2, <1>3, <1>4, TailIs DEF PlacesInv
  <1>6. h \in Records /\ h # Shutdown /\ h \notin Range(loop.batch)
    BY <1>1, <1>2, <1>4, <1>5 DEF PlacesInv
  <1>7. /\ loop'.batch = Append(loop.batch, h) /\ loop'.at = "batching"
        /\ loop'.batch \in Seq(Records) /\ Range(loop'.batch) = Range(loop.batch) \cup {h}
        /\ NoTwice(loop'.batch)
    BY <1>1, <1>2, <1>3, <1>4, <1>6, AppendIs DEF ExporterTypeOK, PlacesInv
  <1>8. ExporterTypeOK'
    BY <1>1, <1>2, <1>4, <1>5, <1>7 DEF ExporterTypeOK
  <1>9. Waiting = Waiting' \cup {h} /\ InTask' = InTask \cup {h}
    BY <1>1, <1>2, <1>5, <1>6, <1>7 DEF Waiting, InTask
  <1>10. PlacesInv'
    BY <1>1, <1>2, <1>5, <1>6, <1>7, <1>9 DEF PlacesInv
  <1> QED
    BY <1>1, <1>2, <1>8, <1>9, <1>10, MovedKeeps

LEMMA GatherOverflowKeeps ==
    ASSUME ExporterInv, GatherOverflow
    PROVE  ExporterInv'
  <1>1. /\ ExporterTypeOK /\ PlacesInv /\ loop.at = "batching" /\ pending = NoRecord
        /\ commandQueue # <<>>
    BY DEF ExporterInv, GatherOverflow, PlacesInv
  <1>2. /\ commandQueue' = Tail(commandQueue) /\ Head(commandQueue) # Shutdown
        /\ loop' = [loop EXCEPT !.at = "flush"] /\ pending' = Head(commandQueue)
        /\ UNCHANGED <<emitter, usedBytes, usedRecords, dropped, health, fate, stopped>>
    BY DEF GatherOverflow, outsideExporter, budget
  <1>3. commandQueue \in Seq(Records \cup {Shutdown}) /\ loop.batch \in Seq(Records)
    BY <1>1 DEF ExporterTypeOK
  <1>4. PICK h \in Records \cup {Shutdown} : h = Head(commandQueue)
    BY <1>1, <1>3
  <1>5. /\ commandQueue' \in Seq(Records \cup {Shutdown}) /\ NoTwice(commandQueue')
        /\ Range(commandQueue) = Range(commandQueue') \cup {h} /\ h \notin Range(commandQueue')
    BY <1>1, <1>2, <1>3, <1>4, TailIs DEF PlacesInv
  <1>6. h \in Records /\ h # Shutdown /\ h # NoRecord /\ h \notin Range(loop.batch) /\ pending' = h
    BY <1>1, <1>2, <1>4, <1>5, ExporterAssumption DEF PlacesInv
  <1>7. loop'.batch = loop.batch /\ loop'.at = "flush"
    BY <1>1, <1>2 DEF ExporterTypeOK
  <1>8. ExporterTypeOK'
    BY <1>1, <1>2, <1>5, <1>6 DEF ExporterTypeOK, LoopStages
  <1>9. Waiting = Waiting' \cup {h} /\ InTask' = InTask \cup {h}
    BY <1>1, <1>2, <1>5, <1>6, <1>7 DEF Waiting, InTask
  <1>10. PlacesInv'
    BY <1>1, <1>2, <1>5, <1>6, <1>7, <1>9 DEF PlacesInv
  <1> QED
    BY <1>1, <1>2, <1>8, <1>9, <1>10, MovedKeeps

LEMMA ShutdownWhileBatchingKeeps ==
    ASSUME ExporterInv, ShutdownWhileBatching
    PROVE  ExporterInv'
  <1>1. ExporterTypeOK /\ loop.at = "batching" /\ commandQueue # <<>>
    BY DEF ExporterInv, ShutdownWhileBatching
  <1>2. /\ commandQueue' = Tail(commandQueue) /\ loop' = [loop EXCEPT !.at = "done"]
        /\ UNCHANGED <<emitter, usedBytes, usedRecords, dropped, health, fate, pending, stopped>>
    BY DEF ShutdownWhileBatching, outsideExporter, budget
  <1>3. Tail(commandQueue) \in Seq(Records \cup {Shutdown})
    BY <1>1, TailIs DEF ExporterTypeOK
  <1>4. ExporterTypeOK' /\ loop'.at = "done"
    BY <1>1, <1>2, <1>3 DEF ExporterTypeOK, LoopStages
  <1> QED
    BY <1>1, <1>2, <1>4, MovedKeeps

\* The batch goes on to its next stage.
LEMMA StageKeeps ==
    ASSUME ExporterInv, FlushDue \/ Retry429 \/ Split \/ \E o \in BatchOutcomes : SentLeft(o)
    PROVE  ExporterInv'
  <1>1. /\ ExporterTypeOK /\ loop.at \notin {"done", "recv"} /\ PlacesInv
        /\ loop.at = "batching" => pending = NoRecord
    BY DEF ExporterInv, FlushDue, Retry429, Split, SentLeft, PlacesInv
  <1>2. /\ UNCHANGED <<emitter, usedBytes, usedRecords, dropped, health, fate, pending, stopped,
                       commandQueue>>
    BY DEF FlushDue, Retry429, Split, SentLeft, outsideExporter, budget, lent
  <1>3. /\ loop' \in [at : LoopStages, batch : Seq(Records), attempt : Nat,
                      left : BatchOutcomes \cup {"none"}]
        /\ loop'.batch = loop.batch /\ loop'.at \notin {"done", "recv", "batching"}
        /\ loop.at \in {"batching", "flush"} <=> loop'.at \in {"batching", "flush"}
    <2>1. CASE FlushDue
      <3>1. loop.at = "batching" /\ loop' = [loop EXCEPT !.at = "flush"]
        BY <2>1 DEF FlushDue
      <3> QED
        BY <1>1, <3>1 DEF ExporterTypeOK, LoopStages
    <2>2. CASE Retry429
      <3>1. loop.at = "sending" /\ loop' = [loop EXCEPT !.attempt = loop.attempt + 1]
        BY <2>2 DEF Retry429
      <3>2. loop.attempt + 1 \in Nat
        BY <1>1 DEF ExporterTypeOK
      <3> QED
        BY <1>1, <3>1, <3>2 DEF ExporterTypeOK
    <2>3. CASE Split
      BY <1>1, <2>3 DEF ExporterTypeOK, Split, LoopStages
    <2>4. CASE \E o \in BatchOutcomes : SentLeft(o)
      BY <1>1, <2>4 DEF ExporterTypeOK, SentLeft, LoopStages
    <2> QED
      BY <2>1, <2>2, <2>3, <2>4
  <1>4. ExporterTypeOK'
    BY <1>1, <1>2, <1>3 DEF ExporterTypeOK
  <1>5. Waiting' = Waiting /\ InTask' = InTask
    BY <1>2, <1>3 DEF Waiting, InTask
  <1>6. PlacesInv'
    BY <1>1, <1>2, <1>3, <1>5 DEF PlacesInv
  <1> QED
    BY <1>1, <1>2, <1>4, <1>5, <1>6, MovedKeeps

\* What becomes of a batch: some of it is counted, the rest is not lost.
LEMMA FatesKeep ==
    ASSUME ExporterInv, PlacesInv, UNCHANGED emitter,
           fate' \in [Records -> Fates],
           NEW D, D \subseteq Range(loop.batch),
           dropped' + health'.dropped = dropped + health.dropped + Cardinality(D),
           \A r \in D : fate'[r] \in {"dropped", "half"},
           \A r \in Range(loop.batch) \ D : fate'[r] \in {"queued", "expired", "delivered"},
           \A r \in Records \ Range(loop.batch) : fate'[r] = fate[r]
    PROVE  /\ EmittersInv' /\ CountedInv'
           /\ Claimed({"reserved", "counted"})' = Claimed({"reserved", "counted"})
           /\ Claimed({"counted"})' = Claimed({"counted"})
           /\ \A r \in Waiting \cup ({pending} \ {NoRecord}) :
                r \in Records \ Range(loop.batch) /\ fate'[r] = "queued"
  <1>1. ExporterTypeOK /\ EmittersInv /\ CountedInv
    BY DEF ExporterInv
  <1>2. Range(loop.batch) \subseteq Records /\ \A r \in Range(loop.batch) : fate[r] = "queued"
    BY <1>1, RangeIs DEF ExporterTypeOK, PlacesInv
  <1>3. EmittersInv'
    BY <1>1, <1>2 DEF EmittersInv
  <1>4. CountedInv'
    <2>1. Known' \subseteq Known \cup D
      BY <1>2 DEF Known
    <2>2. IsFiniteSet(D)
      <3>1. D \subseteq Known
        BY <1>2 DEF Known
      <3> QED
        BY <1>1, <3>1, FS_Subset DEF CountedInv
    <2>3. Counted' = Counted \cup D /\ Counted \cap D = {}
      BY <1>2 DEF Counted
    <2> QED
      BY <1>1, <2>1, <2>2, <2>3, CountedGrows
  <1>5. \A r \in Waiting \cup ({pending} \ {NoRecord}) :
          r \in Records \ Range(loop.batch) /\ fate'[r] = "queued"
    <2>1. Waiting \cup ({pending} \ {NoRecord}) \subseteq Records
      BY <1>1, RangeIs DEF ExporterTypeOK, Waiting
    <2>2. \A r \in Waiting \cup ({pending} \ {NoRecord}) : r \notin Range(loop.batch)
      BY DEF PlacesInv, Waiting
    <2> QED
      BY <2>1, <2>2 DEF PlacesInv
  <1>6. /\ Claimed({"reserved", "counted"})' = Claimed({"reserved", "counted"})
        /\ Claimed({"counted"})' = Claimed({"counted"})
    BY DEF Claimed
  <1> QED
    BY <1>3, <1>4, <1>5, <1>6

LEMMA FlushKeeps ==
    ASSUME ExporterInv, Flush
    PROVE  ExporterInv'
  <1>1. /\ ExporterTypeOK /\ EmittersInv /\ CountedInv /\ PlacesInv /\ BudgetExact
        /\ loop.at = "flush" /\ loop.batch \in Seq(Records)
    BY DEF ExporterInv, Flush, ExporterTypeOK
  <1>2. PICK n \in 0..Len(loop.batch) :
          LET old == Range(SubSeq(loop.batch, 1, n))
              rest == SubSeq(loop.batch, n + 1, Len(loop.batch)) IN
          /\ Release(Range(loop.batch))
          /\ fate' = [r \in Records |-> IF r \in old THEN "expired"
                        ELSE IF stopped /\ r \in Range(rest) THEN "dropped" ELSE fate[r]]
          /\ dropped' = IF stopped THEN dropped + Len(rest) ELSE dropped
          /\ loop' = IF rest = <<>> \/ stopped THEN Loop("recv", <<>>)
                     ELSE [Loop("sending", rest) EXCEPT !.attempt = 1]
          /\ UNCHANGED <<emitter, commandQueue, health, pending, stopped>>
    BY DEF Flush
  <1>3. PICK old, rest : old = Range(SubSeq(loop.batch, 1, n))
                         /\ rest = SubSeq(loop.batch, n + 1, Len(loop.batch))
    OBVIOUS
  <1>4. /\ rest \in Seq(Records) /\ Range(loop.batch) = old \cup Range(rest)
        /\ NoTwice(rest) /\ old \cap Range(rest) = {}
    BY <1>1, <1>3, CutIs DEF PlacesInv
  <1>5. /\ Release(Range(loop.batch))
        /\ fate' = [r \in Records |-> IF r \in old THEN "expired"
                      ELSE IF stopped /\ r \in Range(rest) THEN "dropped" ELSE fate[r]]
        /\ dropped' = IF stopped THEN dropped + Len(rest) ELSE dropped
        /\ loop' = IF rest = <<>> \/ stopped THEN Loop("recv", <<>>)
                   ELSE [Loop("sending", rest) EXCEPT !.attempt = 1]
        /\ UNCHANGED <<emitter, commandQueue, health, pending, stopped>>
    BY <1>2, <1>3
  <1>6. Cardinality(Range(rest)) = Len(rest) /\ Len(rest) \in Nat /\ Cardinality({}) = 0
    BY <1>4, RangeIs, FS_EmptySet
  <1>7. fate' \in [Records -> Fates]
    BY <1>1, <1>5 DEF ExporterTypeOK, Fates
  <1>8. Range(loop.batch) \subseteq Records /\ \A r \in Range(loop.batch) : fate[r] = "queued"
    BY <1>1, RangeIs DEF PlacesInv
  <1>9. /\ EmittersInv' /\ CountedInv'
        /\ Claimed({"reserved", "counted"})' = Claimed({"reserved", "counted"})
        /\ Claimed({"counted"})' = Claimed({"counted"})
        /\ \A r \in Waiting \cup ({pending} \ {NoRecord}) :
             r \in Records \ Range(loop.batch) /\ fate'[r] = "queued"
    <2>1. \A r \in Records \ Range(loop.batch) : fate'[r] = fate[r]
      BY <1>4, <1>5
    <2>2. CASE stopped
      <3>1. dropped' + health'.dropped = dropped + health.dropped + Cardinality(Range(rest))
        BY <1>1, <1>5, <1>6, <2>2 DEF ExporterTypeOK
      <3>2. /\ Range(rest) \subseteq Range(loop.batch)
            /\ \A r \in Range(rest) : fate'[r] \in {"dropped", "half"}
            /\ \A r \in Range(loop.batch) \ Range(rest) :
                 fate'[r] \in {"queued", "expired", "delivered"}
        BY <1>4, <1>5, <1>8, <2>2
      <3> QED
        BY <1>1, <1>5, <1>7, <2>1, <3>1, <3>2, FatesKeep
    <2>3. CASE ~stopped
      <3>1. PICK none : none = {}
        OBVIOUS
      <3>2. dropped' + health'.dropped = dropped + health.dropped + Cardinality(none)
        BY <1>1, <1>5, <1>6, <2>3, <3>1 DEF ExporterTypeOK
      <3>3. /\ none \subseteq Range(loop.batch)
            /\ \A r \in none : fate'[r] \in {"dropped", "half"}
            /\ \A r \in Range(loop.batch) \ none : fate'[r] \in {"queued", "expired", "delivered"}
        BY <1>4, <1>5, <1>8, <2>3, <3>1
      <3> QED
        BY <1>1, <1>5, <1>7, <2>1, <3>2, <3>3, FatesKeep
    <2> QED
      BY <2>2, <2>3
  <1>10. /\ loop' \in [at : LoopStages, batch : Seq(Records), attempt : Nat,
                       left : BatchOutcomes \cup {"none"}]
         /\ loop'.at \in {"recv", "sending"}
         /\ loop'.at = "recv" => loop'.batch = <<>>
         /\ loop'.batch = <<>> \/ (loop'.batch = rest /\ ~stopped)
    <2>1. CASE rest = <<>> \/ stopped
      <3>1. loop' = [at |-> "recv", batch |-> <<>>, attempt |-> 0, left |-> "none"]
        BY <1>5, <2>1 DEF Loop
      <3>2. <<>> \in Seq(Records)
        OBVIOUS
      <3> QED
        BY <3>1, <3>2 DEF LoopStages
    <2>2. CASE ~(rest = <<>> \/ stopped)
      <3>1. loop' = [at |-> "sending", batch |-> rest, attempt |-> 1, left |-> "none"]
        BY <1>5, <2>2 DEF Loop
      <3> QED
        BY <1>4, <2>2, <3>1 DEF LoopStages
    <2> QED
      BY <2>1, <2>2
  <1>11. ExporterTypeOK'
    <2>1. dropped' \in Nat
      BY <1>1, <1>5, <1>6 DEF ExporterTypeOK
    <2> QED
      BY <1>1, <1>5, <1>7, <1>10, <2>1 DEF ExporterTypeOK
  <1>12. Range(loop'.batch) \subseteq Range(loop.batch) /\ NoTwice(loop'.batch)
         /\ \A r \in Range(loop'.batch) : fate'[r] = "queued"
    <2>1. CASE loop'.batch = <<>>
      <3>1. Len(<<>>) = 0 /\ Range(<<>>) = {}
        BY DEF Range
      <3> QED
        BY <2>1, <3>1 DEF NoTwice
    <2>2. CASE loop'.batch = rest /\ ~stopped
      BY <1>4, <1>5, <1>8, <2>2
    <2> QED
      BY <1>10, <2>1, <2>2
  <1>13. Waiting' = Waiting /\ InTask' = {pending} \ {NoRecord}
    BY <1>5, <1>10 DEF Waiting, InTask
  <1>14. PlacesInv'
    BY <1>1, <1>5, <1>9, <1>10, <1>12, <1>13 DEF PlacesInv
  <1>15. BudgetExact'
    <2>1. InTask = Range(loop.batch) \cup ({pending} \ {NoRecord})
      BY <1>1 DEF InTask
    <2>2. \A r \in Claimed({"reserved", "counted"}) \cup Claimed({"counted"}) : r \notin Range(loop.batch)
      BY <1>1, <1>8 DEF Claimed, EmittersInv
    <2>3. /\ Held' = Held \ Range(loop.batch) /\ Numbered' = Numbered \ Range(loop.batch)
          /\ Range(loop.batch) \subseteq Numbered
      BY <1>9, <1>13, <2>1, <2>2 DEF Held, Numbered
    <2>4. loop.at # "done" /\ Release(Range(loop.batch))
      BY <1>1, <1>5
    <2> QED
      BY <1>1, <2>3, <2>4, BudgetShrinks
  <1> QED
    BY <1>9, <1>11, <1>14, <1>15 DEF ExporterInv

\* A batch has been sent, as far as it can be: the task waits for the next.
LEMMA AfterKeeps ==
    ASSUME ExporterInv, loop.at \in {"sending", "right"}, AfterSend, UNCHANGED lent,
           stopped' \in BOOLEAN, fate' \in [Records -> Fates],
           NEW lost \in Nat, NEW halt \in BOOLEAN, UpdateHealth(lost, halt),
           NEW D, D \subseteq Range(loop.batch), lost = Cardinality(D),
           \A r \in D : fate'[r] \in {"dropped", "half"},
           \A r \in Range(loop.batch) \ D : fate'[r] = "delivered",
           \A r \in Records \ Range(loop.batch) : fate'[r] = fate[r]
    PROVE  ExporterInv'
  <1>1. ExporterTypeOK /\ EmittersInv /\ CountedInv /\ PlacesInv /\ BudgetExact /\ loop.at # "done"
    BY DEF ExporterInv
  <1>2. UNCHANGED <<emitter, commandQueue, usedBytes, usedRecords, pending>> /\ UNCHANGED budget
    BY DEF lent, budget
  <1>3. loop' = [at |-> "recv", batch |-> <<>>, attempt |-> 0, left |-> "none"]
    BY DEF AfterSend, Loop
  <1>4. /\ dropped' = 0
        /\ health' = [dropped |-> health.dropped + lost + dropped, stopped |-> health.stopped \/ halt]
    BY DEF UpdateHealth
  <1>5. dropped' + health'.dropped = dropped + health.dropped + Cardinality(D)
    BY <1>1, <1>4 DEF ExporterTypeOK
  <1>6. /\ EmittersInv' /\ CountedInv'
        /\ Claimed({"reserved", "counted"})' = Claimed({"reserved", "counted"})
        /\ Claimed({"counted"})' = Claimed({"counted"})
        /\ \A r \in Waiting \cup ({pending} \ {NoRecord}) :
             r \in Records \ Range(loop.batch) /\ fate'[r] = "queued"
    BY <1>1, <1>2, <1>5, FatesKeep
  <1>7. loop'.at = "recv" /\ loop'.batch = <<>> /\ Len(<<>>) = 0 /\ Range(<<>>) = {}
        /\ <<>> \in Seq(Records)
    BY <1>3 DEF Range
  <1>8. ExporterTypeOK'
    <2>1. dropped' \in Nat /\ health' \in [dropped : Nat, stopped : BOOLEAN]
      BY <1>1, <1>4 DEF ExporterTypeOK
    <2>2. loop' \in [at : LoopStages, batch : Seq(Records), attempt : Nat,
                     left : BatchOutcomes \cup {"none"}]
      BY <1>3, <1>7 DEF LoopStages
    <2> QED
      BY <1>1, <1>2, <2>1, <2>2 DEF ExporterTypeOK
  <1>9. Waiting' = Waiting /\ InTask' = {pending} \ {NoRecord} /\ InTask = {pending} \ {NoRecord}
    BY <1>2, <1>7 DEF Waiting, InTask
  <1>10. PlacesInv'
    BY <1>1, <1>2, <1>6, <1>7, <1>9 DEF PlacesInv, NoTwice
  <1>11. BudgetExact'
    <2>1. Held' = Held /\ Numbered' = Numbered
      BY <1>6, <1>9 DEF Held, Numbered
    <2> QED
      BY <1>1, <1>2, <2>1, BudgetSame
  <1> QED
    BY <1>6, <1>8, <1>10, <1>11 DEF ExporterInv

LEMMA SentKeeps ==
    ASSUME ExporterInv, NEW outcome \in BatchOutcomes, Sent(outcome)
    PROVE  ExporterInv'
  <1>1. /\ ExporterTypeOK /\ PlacesInv /\ loop.at = "sending" /\ loop.batch \in Seq(Records)
    BY DEF ExporterInv, ExporterTypeOK, Sent
  <1>2. AfterSend /\ UNCHANGED lent /\ stopped' \in BOOLEAN
    BY <1>1 DEF Sent, ExporterTypeOK
  <1>3. /\ Range(loop.batch) \subseteq Records /\ Cardinality(Range(loop.batch)) = Len(loop.batch)
        /\ Len(loop.batch) \in Nat /\ Cardinality({}) = 0
    BY <1>1, RangeIs, FS_EmptySet DEF PlacesInv
  <1>4. CASE outcome = "delivered"
    <2>1. PICK none : none = {}
      OBVIOUS
    <2>5. PICK no \in BOOLEAN, zero \in Nat : no = FALSE /\ zero = 0
      OBVIOUS
    <2>2. UpdateHealth(zero, no) /\ Cardinality(none) = zero
      BY <1>3, <1>4, <2>1, <2>5 DEF Sent
    <2>3. fate' = [r \in Records |-> IF r \in Range(loop.batch) THEN "delivered" ELSE fate[r]]
      BY <1>4 DEF Sent, Become
    <2>4. /\ fate' \in [Records -> Fates] /\ none \subseteq Range(loop.batch)
          /\ \A r \in none : fate'[r] \in {"dropped", "half"}
          /\ \A r \in Range(loop.batch) \ none : fate'[r] = "delivered"
          /\ \A r \in Records \ Range(loop.batch) : fate'[r] = fate[r]
      BY <1>1, <1>3, <2>1, <2>3 DEF ExporterTypeOK, Fates
    <2> QED
      BY <1>1, <1>2, <2>2, <2>4, AfterKeeps
  <1>5. CASE outcome # "delivered"
    <2>1. PICK halt \in BOOLEAN : halt = (outcome = "stop")
      OBVIOUS
    <2>2. UpdateHealth(Len(loop.batch), halt)
      BY <1>5, <2>1 DEF Sent
    <2>3. fate' = [r \in Records |-> IF r \in Range(loop.batch) THEN "dropped" ELSE fate[r]]
      BY <1>5 DEF Sent, Become
    <2>4. /\ fate' \in [Records -> Fates]
          /\ \A r \in Range(loop.batch) : fate'[r] \in {"dropped", "half"}
          /\ \A r \in Range(loop.batch) \ Range(loop.batch) : fate'[r] = "delivered"
          /\ \A r \in Records \ Range(loop.batch) : fate'[r] = fate[r]
      BY <1>1, <1>3, <2>3 DEF ExporterTypeOK, Fates
    <2> QED
      BY <1>1, <1>2, <1>3, <2>2, <2>4, AfterKeeps
  <1> QED
    BY <1>4, <1>5

\* Both halves of a split batch are accounted for.
LEMMA SentRightKeeps ==
    ASSUME ExporterInv, NEW right \in BatchOutcomes, SentRight(right)
    PROVE  ExporterInv'
  <1>1. /\ ExporterTypeOK /\ PlacesInv /\ loop.at = "right" /\ loop.batch \in Seq(Records)
    BY DEF ExporterInv, ExporterTypeOK, SentRight
  <1>2. AfterSend /\ UNCHANGED lent /\ stopped' \in BOOLEAN
    BY <1>1 DEF SentRight, ExporterTypeOK
  <1>3. /\ Range(loop.batch) \subseteq Records /\ Cardinality(Range(loop.batch)) = Len(loop.batch)
        /\ Len(loop.batch) \in Nat /\ Cardinality({}) = 0
    BY <1>1, RangeIs, FS_EmptySet DEF PlacesInv
  <1>4. PICK middle \in 0..Len(loop.batch) : middle = Len(loop.batch) \div 2
    <2>1. \A n \in Nat : n \div 2 \in 0..n
      OBVIOUS
    <2> QED
      BY <1>3, <2>1
  <1>5. PICK front, back : /\ front = Range(SubSeq(loop.batch, 1, middle))
                             /\ back = Range(SubSeq(loop.batch, middle + 1, Len(loop.batch)))
    OBVIOUS
  <1>6. Range(loop.batch) = front \cup back
    BY <1>1, <1>5, CutIs
  <1>7. PICK arrived : arrived = [h \in {front, back} |->
          IF 1 \in DOMAIN loop.batch /\ loop.batch[1] \in h
          THEN loop.left = "delivered" ELSE right = "delivered"]
    OBVIOUS
  <1>8. PICK both \in BOOLEAN : both = (right = "delivered" /\ loop.left = "delivered")
    OBVIOUS
  <1>9. fate' = [r \in Records |->
                  IF \E h \in {front, back} : r \in h /\ arrived[h]
                  THEN IF both THEN "delivered" ELSE "half"
                  ELSE IF r \in Range(loop.batch) THEN "dropped" ELSE fate[r]]
    BY <1>4, <1>5, <1>7, <1>8 DEF SentRight
  <1>10. both => \A h \in {front, back} : arrived[h]
    BY <1>7, <1>8
  <1>11. /\ fate' \in [Records -> Fates]
         /\ \A r \in Records \ Range(loop.batch) : fate'[r] = fate[r]
         /\ ~both => \A r \in Range(loop.batch) : fate'[r] \in {"dropped", "half"}
         /\ both => \A r \in Range(loop.batch) : fate'[r] = "delivered"
    <2>1. \A r \in Records \ Range(loop.batch) : ~\E h \in {front, back} : r \in h /\ arrived[h]
      BY <1>6
    <2>2. \A r \in Range(loop.batch) : \E h \in {front, back} : r \in h
      BY <1>6
    <2>3. fate' \in [Records -> Fates]
      BY <1>1, <1>9 DEF ExporterTypeOK, Fates
    <2>4. \A r \in Records \ Range(loop.batch) : fate'[r] = fate[r]
      BY <1>9, <2>1
    <2>5. ~both => \A r \in Range(loop.batch) : fate'[r] \in {"dropped", "half"}
      BY <1>3, <1>9
    <2>6. both => \A r \in Range(loop.batch) : fate'[r] = "delivered"
      BY <1>3, <1>9, <1>10, <2>2
    <2> QED
      BY <2>3, <2>4, <2>5, <2>6
  <1>12. CASE both
    <2>1. PICK none : none = {}
      OBVIOUS
    <2>4. PICK no \in BOOLEAN, zero \in Nat : no = FALSE /\ zero = 0
      OBVIOUS
    <2>2. UpdateHealth(zero, no) /\ Cardinality(none) = zero
      BY <1>3, <1>8, <1>12, <2>1, <2>4 DEF SentRight
    <2>3. /\ none \subseteq Range(loop.batch)
          /\ \A r \in none : fate'[r] \in {"dropped", "half"}
          /\ \A r \in Range(loop.batch) \ none : fate'[r] = "delivered"
      BY <1>11, <1>12, <2>1
    <2> QED
      BY <1>1, <1>2, <1>11, <2>2, <2>3, AfterKeeps
  <1>13. CASE ~both
    <2>4. ("stop" \in {loop.left, right}) \in BOOLEAN
      OBVIOUS
    <2>1. PICK halt \in BOOLEAN : halt = ("stop" \in {loop.left, right})
      BY <2>4, Zenon
    <2>2. UpdateHealth(Len(loop.batch), halt)
      BY <1>8, <1>13, <2>1 DEF SentRight
    <2>3. /\ \A r \in Range(loop.batch) : fate'[r] \in {"dropped", "half"}
          /\ \A r \in Range(loop.batch) \ Range(loop.batch) : fate'[r] = "delivered"
      BY <1>11, <1>13
    <2> QED
      BY <1>1, <1>2, <1>3, <1>11, <2>2, <2>3, AfterKeeps
  <1> QED
    BY <1>12, <1>13

LEMMA ExporterStarts == ExporterInit => ExporterInv
  <1> SUFFICES ASSUME ExporterInit PROVE ExporterInv
    OBVIOUS
  <1>1. <<>> \in Seq(Records) /\ <<>> \in Seq(Records \cup {Shutdown}) /\ Len(<<>>) = 0
        /\ Range(<<>>) = {}
    BY DEF Range
  <1>2. ExporterTypeOK
    BY <1>1 DEF ExporterInit, ExporterTypeOK, Resting, Loop, EmitterStages, LoopStages, Fates
  <1>3. EmittersInv
    BY DEF ExporterInit, EmittersInv, Resting
  <1>4. IsFiniteSet({}) /\ Cardinality({}) = 0 /\ SizeOfAll({}) = 0
    <2>1. IsFiniteSet({}) /\ Cardinality({}) = 0 /\ {} \in SUBSET Records /\ {} \cap {} = {}
      BY FS_EmptySet
    <2> QED
      BY <2>1, SizeIs
  <1>5. Known = {} /\ Counted = {}
    BY DEF ExporterInit, Known, Counted
  <1>6. CountedInv
    BY <1>4, <1>5 DEF ExporterInit, CountedInv
  <1>7. Waiting = {} /\ InTask = {}
    BY <1>1 DEF ExporterInit, Waiting, InTask, Loop
  <1>8. PlacesInv
    BY <1>1, <1>7 DEF ExporterInit, PlacesInv, Loop, NoTwice
  <1>9. Claimed({"reserved", "counted"}) = {} /\ Claimed({"counted"}) = {}
    BY DEF ExporterInit, Claimed, Resting
  <1>10. BudgetExact
    <2>1. Held = {} /\ Numbered = {}
      BY <1>7, <1>9 DEF Held, Numbered
    <2>2. SizeOfAll(Held) = 0 /\ Cardinality(Numbered) = 0
      BY <1>4, <2>1, Zenon
    <2>3. 0 <= QueueBytes
      BY ExporterAssumption
    <2> QED
      BY <2>2, <2>3 DEF ExporterInit, BudgetExact, Held, Numbered
  <1> QED
    BY <1>2, <1>3, <1>6, <1>8, <1>10 DEF ExporterInv

LEMMA ExporterStutters ==
    ASSUME ExporterInv, UNCHANGED exporterVars
    PROVE  ExporterInv'
  <1>1. UNCHANGED <<emitter, commandQueue, usedBytes, usedRecords, dropped, health, loop, pending,
                    stopped, fate>>
    BY DEF exporterVars, budget, exporterTask
  <1>2. /\ ExporterTypeOK' /\ EmittersInv' /\ CountedInv'
    BY <1>1 DEF ExporterInv, ExporterTypeOK, EmittersInv, CountedInv, Known, Counted
  <1>3. Waiting' = Waiting /\ InTask' = InTask
        /\ Claimed({"reserved", "counted"})' = Claimed({"reserved", "counted"})
        /\ Claimed({"counted"})' = Claimed({"counted"})
    BY <1>1 DEF Waiting, InTask, Claimed
  <1>4. loop'.at # "done" => PlacesInv'
    BY <1>1, <1>3 DEF ExporterInv, PlacesInv
  <1>5. BudgetExact'
    BY <1>1, <1>3 DEF ExporterInv, BudgetExact
  <1> QED
    BY <1>2, <1>4, <1>5 DEF ExporterInv

\* Every record holds exactly its share of the two budgets of the telemetry
\* exporter, or has been given up and counted once, between any two steps of
\* any threads (telemetry/exporter.rs: TelemetryHandle, run, update_health).
THEOREM RecordsCorrect == ExporterSpec => []RecordsAccounted
  <1>1. ExporterInit => ExporterInv
    BY ExporterStarts
  <1>2. ExporterInv /\ [ExporterNext]_exporterVars => ExporterInv'
    <2> SUFFICES ASSUME ExporterInv, [ExporterNext]_exporterVars PROVE ExporterInv'
      OBVIOUS
    <2>1. ASSUME NEW e \in Emitters, EmitterStep(e) PROVE ExporterInv'
      BY <2>1, ReserveKeeps, CountRecordKeeps, TrySendKeeps DEF EmitterStep
    <2>2. ASSUME NEW e \in Emitters, NEW r \in Records, TryEmit(e, r) PROVE ExporterInv'
      BY <2>2, TryEmitKeeps
    <2>3. CASE AskShutdown
      BY <2>3, AskShutdownKeeps
    <2>4. CASE ExporterStep
      BY <2>4, ReceivePendingKeeps, ReceiveCommandKeeps, GatherKeeps, GatherOverflowKeeps,
         ShutdownWhileBatchingKeeps, StageKeeps, FlushKeeps, SentKeeps, SentRightKeeps
         DEF ExporterStep
    <2>5. CASE UNCHANGED exporterVars
      BY <2>5, ExporterStutters
    <2> QED
      BY <2>1, <2>2, <2>3, <2>4, <2>5 DEF ExporterNext
  <1>3. ExporterInv => RecordsAccounted
    <2> SUFFICES ASSUME ExporterInv PROVE DropsAreCounted
      BY DEF RecordsAccounted, ExporterInv
    <2> DEFINE lost == {r \in Records : fate[r] = "dropped"}
               half == {r \in Records : fate[r] = "half"}
    <2>1. Counted = lost \cup half /\ lost \cap half = {} /\ Counted \subseteq Known
      BY DEF Counted, Known
    <2>2. IsFiniteSet(Known) /\ dropped + health.dropped = Cardinality(Counted)
      BY DEF ExporterInv, CountedInv
    <2>3. lost \subseteq Known /\ half \subseteq Known
      BY DEF Known
    <2>4. IsFiniteSet(lost) /\ IsFiniteSet(half)
      BY <2>2, <2>3, FS_Subset
    <2> HIDE DEF lost, half
    <2>5. Cardinality(lost \cup half) = Cardinality(lost) + Cardinality(half)
      BY <2>1, <2>4, JoinIs
    <2> QED
      BY <2>1, <2>2, <2>5 DEF DropsAreCounted, lost, half
  <1> QED
    BY <1>1, <1>2, <1>3, PTL DEF ExporterSpec

-----------------------------------------------------------------------------
(* The caches of the media runtime *)

\* Each member knows those before it, and they theirs.
IsOrder(order) ==
    /\ IsFiniteSet(DOMAIN order)
    /\ \A x \in DOMAIN order :
         /\ order[x] \subseteq DOMAIN order /\ x \notin order[x]
         /\ \A y \in order[x] : order[y] \subseteq order[x]

MediaTypeOK ==
    /\ bound \in MediaScopes \cup {NoScope} /\ mediaClient \in {"none", "live", "locked"}
    /\ states \in [Keys -> {"none", "loading", "ready", "failed"}]
    /\ from \in [Keys -> MediaScopes \cup {NoScope}]
    /\ inFlight \subseteq Keys /\ IsFiniteSet(inFlight)
    /\ weighed \subseteq DOMAIN recent /\ DOMAIN recent \subseteq Keys
    /\ job \in [Jobs -> Job \cup {NoJob}]
    /\ DOMAIN disk \subseteq MediaScopes \X Files
    /\ IsOrder(recent) /\ IsOrder(disk)

\* A job that counts works for what is bound.
JobsInv ==
    \A j \in Jobs : job[j] # NoJob =>
      /\ job[j].current => job[j].scope = bound
      /\ job[j].stage = "ready" => WeightOf[job[j].key] <= MemoryLimit

\* What has a weight is shown.
WeighedInv == \A k \in weighed : states[k] \in {"ready", "failed"}

\* Files for which there is still to be made room; the others fit.
Newcomers == {Mine(j) : j \in {i \in Jobs : job[i] # NoJob /\ job[i].stage = "prune"}}
RoomInv == DiskLimit > 0 => Total(DurableKept \ Newcomers) <= DiskLimit

MediaInv ==
    /\ MediaTypeOK /\ JobsInv /\ WeighedInv
    /\ ShownIsOwn /\ LoadingHasJob /\ MemoryBounded /\ RoomInv

\* A sum as the size of a set of units.
Units(w, S) == UNION {{x} \X (1..w[x]) : x \in S}

LEMMA Sums ==
    ASSUME NEW U, NEW w \in [U -> Nat], NEW S \in SUBSET U, IsFiniteSet(S)
    PROVE  /\ IsFiniteSet(Units(w, S)) /\ Cardinality(Units(w, S)) \in Nat
           /\ \A T \in SUBSET S : /\ Cardinality(Units(w, T)) \in Nat
                                  /\ Cardinality(Units(w, T)) <= Cardinality(Units(w, S))
           /\ Cardinality(Units(w, {})) = 0
           /\ \A x \in U : Cardinality(Units(w, {x})) = w[x]
  <1>1. ASSUME NEW x \in U
        PROVE  IsFiniteSet({x} \X (1..w[x])) /\ Cardinality({x} \X (1..w[x])) = w[x]
    <2>1. w[x] \in Nat
      OBVIOUS
    <2>2. IsFiniteSet({x}) /\ Cardinality({x}) = 1
      BY FS_Singleton
    <2>3. IsFiniteSet(1..w[x]) /\ Cardinality(1..w[x]) = w[x]
      BY <2>1, FS_Interval
    <2>4. /\ IsFiniteSet({x} \X (1..w[x]))
          /\ Cardinality({x} \X (1..w[x])) = Cardinality({x}) * Cardinality(1..w[x])
      BY <2>2, <2>3, FS_Product, Zenon
    <2> QED
      BY <2>1, <2>2, <2>3, <2>4
  <1>2. IsFiniteSet(Units(w, S))
    <2> DEFINE I == {{x} \X (1..w[x]) : x \in S}
               f == [x \in S |-> {x} \X (1..w[x])]
    <2>1. f \in Surjection(S, I)
      BY DEF Surjection
    <2>2. IsFiniteSet(I)
      <3> HIDE DEF f, I
      <3> QED
        BY <2>1, FS_Surjection
    <2>3. \A b \in I : IsFiniteSet(b)
      BY <1>1
    <2>4. Units(w, S) = UNION I
      BY DEF Units
    <2> HIDE DEF I
    <2> QED
      BY <2>2, <2>3, <2>4, FS_UNION
  <1>3. ASSUME NEW T \in SUBSET S
        PROVE  /\ Cardinality(Units(w, T)) \in Nat
               /\ Cardinality(Units(w, T)) <= Cardinality(Units(w, S))
    <2>1. Units(w, T) \in SUBSET Units(w, S)
      BY DEF Units
    <2> QED
      BY <1>2, <2>1, FS_Subset, FS_CardinalityType
  <1>4. Units(w, {}) = {}
    BY DEF Units
  <1>5. \A x \in U : Units(w, {x}) = {x} \X (1..w[x])
    BY DEF Units
  <1>6. Cardinality({}) = 0
    BY FS_EmptySet
  <1> QED
    BY <1>1, <1>2, <1>3, <1>4, <1>5, <1>6, FS_CardinalityType

\* Of some members of an order one comes first.
LEMMA FirstOfAll ==
    ASSUME NEW order, IsOrder(order), NEW S \in SUBSET DOMAIN order, S # {}
    PROVE  \E x \in S : order[x] \cap S = {}
  <1> DEFINE R == StrictSubsetOrdering(DOMAIN order)
             T == {order[x] : x \in S}
  <1>1. IsWellFoundedOn(R, FiniteSubsetsOf(DOMAIN order))
    BY FS_StrictSubsetOrderingWellFounded
  <1>2. T \subseteq FiniteSubsetsOf(DOMAIN order) /\ T # {}
    <2>1. \A x \in S : order[x] \in SUBSET DOMAIN order /\ IsFiniteSet(DOMAIN order)
      BY DEF IsOrder
    <2>2. \A x \in S : IsFiniteSet(order[x])
      BY <2>1, FS_Subset
    <2> QED
      BY <2>1, <2>2 DEF FiniteSubsetsOf
  <1>3. \E X \in T : \A Y \in T : ~(<<Y, X>> \in R)
    <2> HIDE DEF R, T
    <2> QED
      BY <1>1, <1>2, WFMin, Zenon
  <1>4. PICK x \in S : \A y \in S : ~(<<order[y], order[x]>> \in R)
    BY <1>3
  <1>5. ASSUME NEW y \in S, y \in order[x] PROVE FALSE
    <2>1. order[y] \subseteq order[x] /\ y \notin order[y]
      BY <1>5 DEF IsOrder
    <2>2. order[x] \in SUBSET DOMAIN order /\ order[y] \in SUBSET DOMAIN order
      BY DEF IsOrder
    <2>3. order[y] # order[x]
      BY <1>5, <2>1
    <2>4. <<order[y], order[x]>> \in R
      BY <2>1, <2>2, <2>3 DEF StrictSubsetOrdering
    <2> QED
      BY <1>4, <2>4
  <1> QED
    BY <1>5

LEMMA OrdersKept ==
    ASSUME NEW order, IsOrder(order)
    PROVE  /\ \A S : /\ IsOrder(Without(order, S)) /\ DOMAIN Without(order, S) = DOMAIN order \ S
           /\ \A x : /\ IsOrder(MovedToEnd(order, x))
                     /\ DOMAIN MovedToEnd(order, x) = DOMAIN order \cup {x}
                     /\ \A y \in DOMAIN order \ {x} : x \notin MovedToEnd(order, x)[y]
  <1>1. ASSUME NEW S
        PROVE  IsOrder(Without(order, S)) /\ DOMAIN Without(order, S) = DOMAIN order \ S
    <2> DEFINE new == Without(order, S)
    <2>1. DOMAIN new = DOMAIN order \ S /\ \A x \in DOMAIN new : new[x] = order[x] \ S
      BY DEF Without
    <2>2. IsFiniteSet(DOMAIN new)
      BY <2>1, FS_Subset DEF IsOrder
    <2> HIDE DEF new
    <2>3. \A x \in DOMAIN new : /\ new[x] \subseteq DOMAIN new /\ x \notin new[x]
                                /\ \A y \in new[x] : new[y] \subseteq new[x]
      BY <2>1 DEF IsOrder
    <2>4. IsOrder(new)
      BY <2>2, <2>3 DEF IsOrder
    <2> QED
      BY <2>1, <2>4 DEF new
  <1>2. ASSUME NEW x
        PROVE  /\ IsOrder(MovedToEnd(order, x)) /\ DOMAIN MovedToEnd(order, x) = DOMAIN order \cup {x}
               /\ \A y \in DOMAIN order \ {x} : x \notin MovedToEnd(order, x)[y]
    <2> DEFINE new == MovedToEnd(order, x)
    <2>1. DOMAIN new = DOMAIN order \cup {x} /\ new[x] = DOMAIN order \ {x}
          /\ \A y \in DOMAIN order \ {x} : new[y] = order[y] \ {x}
      BY DEF MovedToEnd
    <2>2. IsFiniteSet(DOMAIN new)
      BY <2>1, FS_AddElement DEF IsOrder
    <2> HIDE DEF new
    <2>3. \A y \in DOMAIN new : /\ new[y] \subseteq DOMAIN new /\ y \notin new[y]
                                /\ \A z \in new[y] : new[z] \subseteq new[y]
      BY <2>1 DEF IsOrder
    <2>4. IsOrder(new)
      BY <2>2, <2>3 DEF IsOrder
    <2> QED
      BY <2>1, <2>4 DEF new
  <1> QED
    BY <1>1, <1>2

\* Of all, gone is what goes in this order, except keep, until the rest weighs
\* no more than L.
Cut(w, L, order, all, keep, gone) ==
    /\ all \subseteq DOMAIN order
    /\ \A x \in all \ {keep} :
         /\ keep \notin order[x]
         /\ x \in gone <=> Cardinality(Units(w, all \ order[x])) > L

\* What is left weighs no more, or nothing else is left.
LEMMA CutFits ==
    ASSUME NEW U, NEW w \in [U -> Nat], NEW L \in Nat, NEW order, IsOrder(order),
           NEW All \in SUBSET U, NEW keep, NEW gone, Cut(w, L, order, All, keep, gone)
    PROVE  All \ gone \subseteq {keep} \/ Cardinality(Units(w, All \ gone)) <= L
  <1>0. /\ All \subseteq DOMAIN order
        /\ \A x \in All \ {keep} : keep \notin order[x]
        /\ \A x \in All \ {keep} : x \in gone <=> Cardinality(Units(w, All \ order[x])) > L
    BY DEF Cut
  <1> SUFFICES ASSUME ~(All \ gone \subseteq {keep}) PROVE Cardinality(Units(w, All \ gone)) <= L
    OBVIOUS
  <1> DEFINE left == (All \ gone) \ {keep}
  <1>1. left \in SUBSET DOMAIN order /\ left # {}
    BY <1>0
  <1>2. PICK x \in left : order[x] \cap left = {}
    <2> HIDE DEF left
    <2> QED
      BY <1>1, FirstOfAll
  <1>3. IsFiniteSet(All) /\ IsFiniteSet(All \ order[x])
    <2>1. IsFiniteSet(DOMAIN order)
      BY DEF IsOrder
    <2>2. IsFiniteSet(All)
      BY <1>0, <2>1, FS_Subset
    <2> QED
      BY <2>2, FS_Subset
  <1>4. ~(Cardinality(Units(w, All \ order[x])) > L)
    BY <1>0, <1>2
  <1>5. All \ gone \in SUBSET (All \ order[x])
    BY <1>0, <1>2
  <1>6. /\ Cardinality(Units(w, All \ order[x])) \in Nat
        /\ Cardinality(Units(w, All \ gone)) \in Nat
        /\ Cardinality(Units(w, All \ gone)) <= Cardinality(Units(w, All \ order[x]))
    <2>1. All \ order[x] \in SUBSET U
      OBVIOUS
    <2> QED
      BY <1>3, <1>5, <2>1, Sums
  <1> QED
    BY <1>4, <1>6

SizeAt == [p \in MediaScopes \X Files |-> SizeOf[p[2]]]

LEMMA MediaSums ==
    /\ \A S \in SUBSET Keys : Weight(S) = Cardinality(Units(WeightOf, S))
    /\ \A S \in SUBSET (MediaScopes \X Files) : Total(S) = Cardinality(Units(SizeAt, S))
    /\ SizeAt \in [MediaScopes \X Files -> Nat] /\ WeightOf \in [Keys -> Nat]
  <1>1. ASSUME NEW S \in SUBSET (MediaScopes \X Files)
        PROVE  Total(S) = Cardinality(Units(SizeAt, S))
    <2>1. \A p \in S : SizeAt[p] = SizeOf[p[2]]
      BY DEF SizeAt
    <2>2. {{p} \X (1..SizeAt[p]) : p \in S} = {{p} \X (1..SizeOf[p[2]]) : p \in S}
      BY <2>1
    <2> QED
      BY <2>2 DEF Total, Units
  <1>2. SizeAt \in [MediaScopes \X Files -> Nat]
    BY MediaAssumption DEF SizeAt
  <1> QED
    BY <1>1, <1>2, MediaAssumption DEF Weight, Units

\* What a job has.
LEMMA JobIs ==
    ASSUME MediaTypeOK, NEW j \in Jobs, job[j] # NoJob
    PROVE  /\ job[j] \in Job /\ job[j].key \in Keys /\ job[j].scope \in MediaScopes
           /\ Mine(j) \in MediaScopes \X Files
           /\ \A st \in {"fetch", "prune", "decode", "ready", "failed"} :
                GoTo(j, st) =>
                  /\ job' \in [Jobs -> Job \cup {NoJob}] /\ job'[j] \in Job /\ job'[j] # NoJob
                  /\ job'[j].stage = st /\ job'[j].key = job[j].key
                  /\ job'[j].scope = job[j].scope /\ job'[j].current = job[j].current
                  /\ \A i \in Jobs \ {j} : job'[i] = job[i]
  <1>1. job[j] \in Job
    BY DEF MediaTypeOK
  <1>2. FileOf[job[j].key] \in Files
    BY <1>1, MediaAssumption DEF Job, Files
  <1>3. ASSUME NEW st \in {"fetch", "prune", "decode", "ready", "failed"}, GoTo(j, st)
        PROVE  /\ job' \in [Jobs -> Job \cup {NoJob}] /\ job'[j] \in Job /\ job'[j] # NoJob
               /\ job'[j].stage = st /\ job'[j].key = job[j].key
               /\ job'[j].scope = job[j].scope /\ job'[j].current = job[j].current
               /\ \A i \in Jobs \ {j} : job'[i] = job[i]
    <2> DEFINE r == [job[j] EXCEPT !.stage = st]
    <2>1. /\ r \in Job /\ r.stage = st /\ r.key = job[j].key /\ r.scope = job[j].scope
          /\ r.current = job[j].current
      BY <1>1 DEF Job
    <2>2. job' = [job EXCEPT ![j] = r] /\ job \in [Jobs -> Job \cup {NoJob}]
      BY <1>3 DEF GoTo, MediaTypeOK
    <2> HIDE DEF r
    <2>3. job'[j] = r /\ \A i \in Jobs \ {j} : job'[i] = job[i]
      BY <2>2
    <2>4. job' \in [Jobs -> Job \cup {NoJob}]
      BY <2>1, <2>2
    <2> QED
      BY <2>1, <2>3, <2>4, MediaAssumption
  <1> QED
    BY <1>1, <1>2, <1>3 DEF Job, Mine, Path

\* Fewer files, or more of them in hands: they fit as before.
LEMMA RoomKept ==
    ASSUME MediaInv, (DurableKept \ Newcomers)' \subseteq DurableKept \ Newcomers
    PROVE  RoomInv'
  <1> SUFFICES ASSUME DiskLimit > 0 PROVE (Total(DurableKept \ Newcomers) <= DiskLimit)'
    BY DEF RoomInv
  <1> DEFINE S == DurableKept \ Newcomers
  <1>1. S \in SUBSET (MediaScopes \X Files) /\ IsFiniteSet(S)
    <2>1. S \in SUBSET DOMAIN disk
      BY DEF DurableKept
    <2> QED
      BY <2>1, FS_Subset DEF MediaInv, MediaTypeOK, IsOrder
  <1>2. S' \in SUBSET S
    OBVIOUS
  <1>3. Total(S) <= DiskLimit
    BY DEF MediaInv, RoomInv
  <1>4. Total(S)' = Cardinality(Units(SizeAt, S')) /\ Total(S) = Cardinality(Units(SizeAt, S))
    BY <1>1, <1>2, MediaSums DEF Total
  <1> HIDE DEF S
  <1>5. /\ Cardinality(Units(SizeAt, S)) \in Nat /\ Cardinality(Units(SizeAt, S')) \in Nat
        /\ Cardinality(Units(SizeAt, S')) <= Cardinality(Units(SizeAt, S))
    BY <1>1, <1>2, MediaSums, Sums
  <1>6. (Total(S) <= DiskLimit)'
    BY <1>3, <1>4, <1>5, MediaAssumption
  <1> QED
    BY <1>6 DEF S

\* Nothing moves on disk and no job is given up while it has to make room.
LEMMA RoomSame ==
    ASSUME MediaInv, DOMAIN disk' \subseteq DOMAIN disk, Newcomers \cap DOMAIN disk' \subseteq Newcomers'
    PROVE  RoomInv'
  <1>1. (DurableKept \ Newcomers)' \subseteq DurableKept \ Newcomers
    BY DEF DurableKept
  <1> QED
    BY <1>1, RoomKept

LEMMA MediaStarts == MediaInit => MediaInv
  <1> SUFFICES ASSUME MediaInit PROVE MediaInv
    OBVIOUS
  <1>1. DOMAIN recent = {} /\ DOMAIN disk = {} /\ inFlight = {} /\ weighed = {}
    BY DEF MediaInit, Nothing
  <1>2. IsFiniteSet({}) /\ Cardinality({}) = 0
    BY FS_EmptySet
  <1>3. MediaTypeOK
    BY <1>1, <1>2 DEF MediaInit, MediaTypeOK, IsOrder
  <1>4. JobsInv /\ WeighedInv /\ ShownIsOwn
    BY <1>1 DEF MediaInit, JobsInv, WeighedInv, ShownIsOwn
  <1>5. LoadingHasJob
    BY <1>1, <1>2, MediaAssumption DEF MediaInit, LoadingHasJob
  <1>6. Weight({}) = 0 /\ Total({}) = 0
    BY <1>2, MediaSums, Sums
  <1>7. DurableKept = {}
    BY <1>1 DEF DurableKept
  <1>8. MemoryBounded /\ RoomInv
    BY <1>1, <1>6, <1>7, MediaAssumption DEF MemoryBounded, RoomInv
  <1> QED
    BY <1>3, <1>4, <1>5, <1>8 DEF MediaInv

LEMMA ResetKeeps ==
    ASSUME MediaInv, NextGeneration, ClearMemoryState, disk' = disk,
           bound' \in MediaScopes \cup {NoScope}, mediaClient' \in {"none", "live", "locked"}
    PROVE  MediaInv'
  <1>1. DOMAIN recent' = {} /\ inFlight' = {} /\ weighed' = {}
    BY DEF ClearMemoryState, Nothing
  <1>2. IsFiniteSet({}) /\ Cardinality({}) = 0
    BY FS_EmptySet
  <1>3. \A j \in Jobs : IF job[j] = NoJob THEN job'[j] = NoJob
                        ELSE /\ job'[j] \in Job /\ ~job'[j].current /\ job'[j].key = job[j].key
                             /\ job'[j].scope = job[j].scope /\ job'[j].stage = job[j].stage
    <2> TAKE j \in Jobs
    <2>1. CASE job[j] = NoJob
      BY <2>1 DEF NextGeneration
    <2>2. CASE job[j] # NoJob
      <3>1. job[j] \in Job /\ job'[j] = [job[j] EXCEPT !.current = FALSE]
        BY <2>2 DEF NextGeneration, MediaInv, MediaTypeOK
      <3>2. job'[j] \in Job /\ ~job'[j].current /\ job'[j].key = job[j].key
            /\ job'[j].scope = job[j].scope /\ job'[j].stage = job[j].stage
        BY <3>1 DEF Job
      <3> QED
        BY <2>2, <3>2
    <2> QED
      BY <2>1, <2>2
  <1>4. job' \in [Jobs -> Job \cup {NoJob}]
    <2>1. job' = [j \in Jobs |-> job'[j]]
      BY DEF NextGeneration
    <2> QED
      BY <1>3, <2>1
  <1>5. MediaTypeOK'
    BY <1>1, <1>2, <1>4 DEF MediaInv, MediaTypeOK, ClearMemoryState, IsOrder
  <1>6. JobsInv'
    BY <1>3 DEF MediaInv, JobsInv
  <1>7. (WeighedInv /\ ShownIsOwn)'
    BY <1>1 DEF ClearMemoryState, WeighedInv, ShownIsOwn
  <1>8. LoadingHasJob'
    BY <1>1, <1>2, MediaAssumption DEF ClearMemoryState, LoadingHasJob
  <1>9. Weight({}) = 0
    BY <1>2, MediaSums, Sums
  <1>10. MemoryBounded'
    BY <1>1, <1>9, MediaAssumption DEF MemoryBounded, Weight
  <1>11. Newcomers' = Newcomers
    BY <1>3, MediaAssumption DEF Newcomers, Mine, Path
  <1>12. RoomInv'
    BY <1>11, RoomSame
  <1> QED
    BY <1>5, <1>6, <1>7, <1>8, <1>10, <1>12 DEF MediaInv

LEMMA AskKeeps ==
    ASSUME MediaInv, NEW k, Lock \/ (k \in Keys /\ (RequestKnown(k) \/ RequestOffline(k)))
    PROVE  MediaInv'
  <1>1. UNCHANGED <<bound, inFlight, weighed, job, disk>>
    BY DEF RequestKnown, RequestOffline, Lock, mediaMemory
  <1>2. /\ UNCHANGED <<states, from>>
        \/ /\ states[k] = "none" /\ states' = [states EXCEPT ![k] = "failed"]
           /\ from' = [from EXCEPT ![k] = bound]
    BY DEF RequestKnown, RequestOffline, Lock, mediaMemory, Admissible, Show
  <1>3. recent' = recent \/ (k \in Keys /\ recent' = MovedToEnd(recent, k))
    BY DEF RequestKnown, RequestOffline, Lock, mediaMemory
  <1>4. /\ IsOrder(recent') /\ weighed' \subseteq DOMAIN recent' /\ DOMAIN recent' \subseteq Keys
    <2>1. IsOrder(recent) /\ weighed \subseteq DOMAIN recent /\ DOMAIN recent \subseteq Keys
      BY DEF MediaInv, MediaTypeOK
    <2>2. IsOrder(MovedToEnd(recent, k)) /\ DOMAIN MovedToEnd(recent, k) = DOMAIN recent \cup {k}
      BY <2>1, OrdersKept
    <2> QED
      BY <1>1, <1>3, <2>1, <2>2
  <1>5. mediaClient' \in {"none", "live", "locked"}
    BY DEF RequestKnown, RequestOffline, Lock, MediaInv, MediaTypeOK
  <1>6. MediaTypeOK'
    BY <1>1, <1>2, <1>4, <1>5 DEF MediaInv, MediaTypeOK
  <1>7. JobsInv' /\ WeighedInv'
    BY <1>1, <1>2 DEF MediaInv, MediaTypeOK, JobsInv, WeighedInv
  <1>8. ShownIsOwn' /\ LoadingHasJob'
    BY <1>1, <1>2 DEF MediaInv, MediaTypeOK, ShownIsOwn, LoadingHasJob
  <1>9. MemoryBounded'
    BY <1>1 DEF MediaInv, MemoryBounded, Weight
  <1>10. RoomInv'
    BY <1>1, RoomSame DEF Newcomers, Mine
  <1> QED
    BY <1>6, <1>7, <1>8, <1>9, <1>10 DEF MediaInv

LEMMA RequestKeeps ==
    ASSUME MediaInv, NEW j \in Jobs, NEW k \in Keys, Request(j, k)
    PROVE  MediaInv'
  <1>1. /\ UNCHANGED <<bound, mediaClient, weighed, recent, disk>> /\ bound \in MediaScopes
        /\ states[k] = "none" /\ states' = [states EXCEPT ![k] = "loading"]
        /\ from' = [from EXCEPT ![k] = bound] /\ job[j] = NoJob
        /\ inFlight' = inFlight \cup {k} /\ k \notin inFlight /\ Cardinality(inFlight) < MaxInFlight
    BY DEF Request, Admissible, Show, CanAsk, MediaInv, MediaTypeOK
  <1>2. /\ job'[j] \in Job /\ job'[j] # NoJob /\ job'[j].key = k /\ job'[j].scope = bound
        /\ job'[j].current /\ job'[j].stage = "fetch"
        /\ \A i \in Jobs \ {j} : job'[i] = job[i]
        /\ job' \in [Jobs -> Job \cup {NoJob}]
    <2> DEFINE r == [key |-> k, scope |-> bound, current |-> TRUE,
                     online |-> mediaClient # "none", stage |-> "fetch"]
    <2>1. r \in Job /\ r.key = k /\ r.scope = bound /\ r.current /\ r.stage = "fetch"
      BY <1>1 DEF Job
    <2>2. job' = [job EXCEPT ![j] = r] /\ job \in [Jobs -> Job \cup {NoJob}]
      BY DEF Request, Spawn, MediaInv, MediaTypeOK
    <2> HIDE DEF r
    <2> QED
      BY <2>1, <2>2, MediaAssumption
  <1>3. /\ IsFiniteSet(inFlight') /\ Cardinality(inFlight') = Cardinality(inFlight) + 1
        /\ Cardinality(inFlight) \in Nat
    BY <1>1, FS_AddElement, FS_CardinalityType DEF MediaInv, MediaTypeOK
  <1>4. MediaTypeOK'
    BY <1>1, <1>2, <1>3 DEF MediaInv, MediaTypeOK
  <1>5. JobsInv' /\ WeighedInv'
    BY <1>1, <1>2 DEF MediaInv, MediaTypeOK, JobsInv, WeighedInv
  <1>6. ShownIsOwn'
    BY <1>1 DEF MediaInv, MediaTypeOK, ShownIsOwn
  <1>7. LoadingHasJob'
    <2>1. inFlight' = {i \in Keys : states'[i] = "loading"}
      BY <1>1 DEF MediaInv, MediaTypeOK, LoadingHasJob
    <2>2. Cardinality(inFlight') <= MaxInFlight
      BY <1>1, <1>3, MediaAssumption
    <2>3. \A i \in inFlight' : \E l \in Jobs :
            job'[l] # NoJob /\ job'[l].key = i /\ job'[l].current
      BY <1>1, <1>2 DEF MediaInv, LoadingHasJob
    <2> QED
      BY <2>1, <2>2, <2>3 DEF LoadingHasJob
  <1>8. MemoryBounded'
    BY <1>1 DEF MediaInv, MemoryBounded, Weight
  <1>9. Newcomers \subseteq Newcomers'
    BY <1>1, <1>2 DEF Newcomers, Mine
  <1>10. RoomInv'
    BY <1>1, <1>9, RoomSame
  <1> QED
    BY <1>4, <1>5, <1>6, <1>7, <1>8, <1>10 DEF MediaInv

LEMMA RetryKeeps ==
    ASSUME MediaInv, NEW k \in Keys, RetryImage(k)
    PROVE  MediaInv'
  <1> DEFINE them == {i \in Images : FileOf[i] = FileOf[k]}
  <1>1. /\ UNCHANGED <<bound, mediaClient, from, job, disk>>
        /\ states' = [i \in Keys |-> IF i \in them THEN "none" ELSE states[i]]
        /\ inFlight' = inFlight \ them /\ weighed' = weighed \ them
        /\ recent' = Without(recent, them)
    BY DEF RetryImage
  <1> HIDE DEF them
  <1>2. IsOrder(recent') /\ DOMAIN recent' = DOMAIN recent \ them
    BY <1>1, OrdersKept DEF MediaInv, MediaTypeOK
  <1>3. inFlight' \in SUBSET inFlight /\ weighed' \in SUBSET weighed
    BY <1>1
  <1>4. /\ IsFiniteSet(inFlight') /\ Cardinality(inFlight') <= Cardinality(inFlight)
        /\ Cardinality(inFlight) \in Nat /\ Cardinality(inFlight') \in Nat
    BY <1>3, FS_Subset, FS_CardinalityType DEF MediaInv, MediaTypeOK
  <1>5. MediaTypeOK'
    BY <1>1, <1>2, <1>4 DEF MediaInv, MediaTypeOK
  <1>6. JobsInv' /\ WeighedInv' /\ ShownIsOwn'
    BY <1>1 DEF MediaInv, MediaTypeOK, JobsInv, WeighedInv, ShownIsOwn
  <1>7. LoadingHasJob'
    <2>1. inFlight' = {i \in Keys : states'[i] = "loading"}
      BY <1>1 DEF MediaInv, MediaTypeOK, LoadingHasJob
    <2>2. Cardinality(inFlight') <= MaxInFlight
      BY <1>4, MediaAssumption DEF MediaInv, LoadingHasJob
    <2> QED
      BY <1>1, <2>1, <2>2 DEF MediaInv, LoadingHasJob
  <1>8. MemoryBounded'
    <2>1. weighed \in SUBSET Keys /\ IsFiniteSet(weighed)
      BY FS_Subset DEF MediaInv, MediaTypeOK, IsOrder
    <2>2. /\ Weight(weighed') \in Nat /\ Weight(weighed) \in Nat /\ Weight(weighed') <= Weight(weighed)
      <3>1. weighed' \in SUBSET Keys
        BY <1>3, <2>1
      <3> QED
        BY <1>3, <2>1, <3>1, MediaSums, Sums
    <2>3. Weight(weighed) <= MemoryLimit
      BY DEF MediaInv, MemoryBounded
    <2>4. Weight(weighed') <= MemoryLimit
      BY <2>2, <2>3, MediaAssumption
    <2> QED
      BY <2>4 DEF MemoryBounded, Weight
  <1>9. RoomInv'
    BY <1>1, RoomSame DEF Newcomers, Mine
  <1> QED
    BY <1>5, <1>6, <1>7, <1>8, <1>9 DEF MediaInv

\* A job goes on, and only files change beside it.
LEMMA JobGoesOn ==
    ASSUME MediaInv, NEW j \in Jobs, job[j] # NoJob,
           NEW st \in {"fetch", "prune", "decode", "ready", "failed"}, GoTo(j, st),
           st = "ready" => WeightOf[job[j].key] <= MemoryLimit,
           UNCHANGED <<bound, mediaClient, mediaMemory>>,
           IsOrder(disk'), DOMAIN disk' \subseteq MediaScopes \X Files
    PROVE  /\ MediaTypeOK' /\ JobsInv' /\ WeighedInv' /\ ShownIsOwn' /\ LoadingHasJob' /\ MemoryBounded'
           /\ Newcomers \ {Mine(j)} \subseteq Newcomers'
           /\ st = "prune" => Newcomers \cup {Mine(j)} \subseteq Newcomers'
           /\ job[j].stage # "prune" => Newcomers \subseteq Newcomers'
  <1>1. /\ job' \in [Jobs -> Job \cup {NoJob}] /\ job'[j] \in Job /\ job'[j] # NoJob
        /\ job'[j].stage = st /\ job'[j].key = job[j].key
        /\ job'[j].scope = job[j].scope /\ job'[j].current = job[j].current
        /\ \A i \in Jobs \ {j} : job'[i] = job[i]
    BY JobIs DEF MediaInv
  <1>2. UNCHANGED <<bound, mediaClient, states, from, inFlight, weighed, recent>>
    BY DEF mediaMemory
  <1>3. MediaTypeOK'
    BY <1>1, <1>2 DEF MediaInv, MediaTypeOK
  <1>4. JobsInv'
    BY <1>1, <1>2 DEF MediaInv, JobsInv
  <1>5. WeighedInv' /\ ShownIsOwn' /\ MemoryBounded'
    BY <1>2 DEF MediaInv, WeighedInv, ShownIsOwn, MemoryBounded, Weight
  <1>6. LoadingHasJob'
    <2>1. \A k \in inFlight : \E i \in Jobs :
            job'[i] # NoJob /\ job'[i].key = k /\ job'[i].current
      BY <1>1 DEF MediaInv, LoadingHasJob
    <2> QED
      BY <1>2, <2>1 DEF MediaInv, LoadingHasJob
  <1>7. \A i \in Jobs : Mine(i)' = Mine(i)
    BY <1>1 DEF Mine, Path
  <1>8. /\ Newcomers \ {Mine(j)} \subseteq Newcomers'
        /\ st = "prune" => Newcomers \cup {Mine(j)} \subseteq Newcomers'
        /\ job[j].stage # "prune" => Newcomers \subseteq Newcomers'
    <2>1. Newcomers' = {Mine(i) : i \in {l \in Jobs : job'[l] # NoJob /\ job'[l].stage = "prune"}}
      BY <1>7 DEF Newcomers
    <2>2. Newcomers = {Mine(i) : i \in {l \in Jobs : job[l] # NoJob /\ job[l].stage = "prune"}}
      BY DEF Newcomers
    <2>3. \A i \in Jobs : i # j \/ job[j].stage # "prune" =>
            (job[i] # NoJob /\ job[i].stage = "prune" => job'[i] # NoJob /\ job'[i].stage = "prune")
      BY <1>1
    <2> QED
      BY <1>1, <2>1, <2>2, <2>3
  <1> QED
    BY <1>3, <1>4, <1>5, <1>6, <1>8

LEMMA FetchedKeeps ==
    ASSUME MediaInv, NEW j \in Jobs, Fetched(j) \/ FetchFails(j)
    PROVE  MediaInv'
  <1>1. /\ job[j] # NoJob /\ job[j].stage = "fetch"
        /\ UNCHANGED <<bound, mediaClient, mediaMemory>>
    BY DEF Fetched, FetchFails
  <1>2. PICK st \in {"prune", "decode", "failed"} :
          /\ GoTo(j, st)
          /\ st = "decode" => job[j].key \in Avatars
          /\ disk' = disk \/ (st # "failed" /\ disk' = MovedToEnd(disk, Mine(j)))
    BY DEF Fetched, FetchFails
  <1>3. IsOrder(disk) /\ DOMAIN disk \subseteq MediaScopes \X Files /\ Mine(j) \in MediaScopes \X Files
    BY <1>1, JobIs DEF MediaInv, MediaTypeOK
  <1>4. IsOrder(MovedToEnd(disk, Mine(j))) /\ DOMAIN MovedToEnd(disk, Mine(j)) = DOMAIN disk \cup {Mine(j)}
    BY <1>3, OrdersKept
  <1>5. /\ IsOrder(disk') /\ DOMAIN disk' \subseteq MediaScopes \X Files
        /\ DOMAIN disk' \subseteq DOMAIN disk \cup {Mine(j)}
        /\ st = "failed" => disk' = disk
    BY <1>2, <1>3, <1>4
  <1>6. /\ MediaTypeOK' /\ JobsInv' /\ WeighedInv' /\ ShownIsOwn' /\ LoadingHasJob' /\ MemoryBounded'
        /\ st = "prune" => Newcomers \cup {Mine(j)} \subseteq Newcomers'
        /\ Newcomers \subseteq Newcomers'
    BY <1>1, <1>2, <1>5, JobGoesOn
  <1>7. st = "decode" => IsPhotograph(Mine(j))
    BY <1>2 DEF IsPhotograph, Mine, Path
  <1>8. (DurableKept \ Newcomers)' \subseteq DurableKept \ Newcomers
    <2>1. DurableKept' = {p \in DOMAIN disk' : ~IsPhotograph(p) /\ SizeOf[p[2]] <= DiskLimit}
      BY DEF DurableKept, IsPhotograph
    <2> HIDE DEF Newcomers
    <2> QED
      BY <1>2, <1>5, <1>6, <1>7, <2>1 DEF DurableKept
  <1> QED
    BY <1>6, <1>8, RoomKept DEF MediaInv

LEMMA DecodeKeeps ==
    ASSUME MediaInv, NEW j \in Jobs, Decode(j)
    PROVE  MediaInv'
  <1>1. /\ job[j] # NoJob /\ job[j].stage = "decode"
        /\ UNCHANGED <<bound, mediaClient, mediaMemory>>
    BY DEF Decode
  <1>2. PICK st \in {"ready", "failed"} :
          GoTo(j, st) /\ (st = "ready" => WeightOf[job[j].key] <= MemoryLimit)
    BY DEF Decode
  <1>3. disk' = disk \/ disk' = Without(disk, {Mine(j)})
    BY DEF Decode
  <1>4. IsOrder(disk) /\ DOMAIN disk \subseteq MediaScopes \X Files
    BY DEF MediaInv, MediaTypeOK
  <1>5. /\ IsOrder(Without(disk, {Mine(j)}))
        /\ DOMAIN Without(disk, {Mine(j)}) = DOMAIN disk \ {Mine(j)}
    BY <1>4, OrdersKept
  <1>6. /\ IsOrder(disk') /\ DOMAIN disk' \subseteq DOMAIN disk
        /\ DOMAIN disk' \subseteq MediaScopes \X Files
    BY <1>3, <1>4, <1>5
  <1>7. /\ MediaTypeOK' /\ JobsInv' /\ WeighedInv' /\ ShownIsOwn' /\ LoadingHasJob' /\ MemoryBounded'
        /\ Newcomers \subseteq Newcomers'
    BY <1>1, <1>2, <1>6, JobGoesOn
  <1>8. RoomInv'
    BY <1>6, <1>7, RoomSame
  <1> QED
    BY <1>7, <1>8 DEF MediaInv

LEMMA PruneKeeps ==
    ASSUME MediaInv, NEW j \in Jobs, Prune(j)
    PROVE  MediaInv'
  <1> DEFINE keep == Mine(j)
             order == MovedToEnd(disk, keep)
             files == {p \in DOMAIN order : ~IsPhotograph(p)}
             gone == {p \in files \ {keep} : Total(files \ order[p]) > DiskLimit}
  <1>1. /\ job[j] # NoJob /\ job[j].stage = "prune"
        /\ UNCHANGED <<bound, mediaClient, mediaMemory>>
    BY DEF Prune
  <1>2. /\ IsOrder(disk) /\ DOMAIN disk \subseteq MediaScopes \X Files
        /\ keep \in MediaScopes \X Files
    BY <1>1, JobIs DEF MediaInv, MediaTypeOK
  <1>3. CASE ~OnDisk(keep)
    <2>1. GoTo(j, "failed") /\ disk' = disk
      BY <1>3 DEF Prune
    <2>2. /\ MediaTypeOK' /\ JobsInv' /\ WeighedInv' /\ ShownIsOwn' /\ LoadingHasJob' /\ MemoryBounded'
          /\ Newcomers \ {keep} \subseteq Newcomers'
      BY <1>1, <1>2, <2>1, JobGoesOn
    <2>3. RoomInv'
      BY <1>3, <2>1, <2>2, RoomSame DEF OnDisk
    <2> QED
      BY <2>2, <2>3 DEF MediaInv
  <1>4. CASE OnDisk(keep)
    <2>1. GoTo(j, "decode") /\ disk' = PrunedFiles(order, keep)
      BY <1>4 DEF Prune
    <2>2. /\ IsOrder(order) /\ DOMAIN order = DOMAIN disk \cup {keep}
          /\ \A x \in DOMAIN disk \ {keep} : keep \notin order[x]
      BY <1>2, OrdersKept
    <2>3. /\ IsOrder(Without(order, gone))
          /\ DOMAIN Without(order, gone) = DOMAIN order \ gone
      <3> HIDE DEF gone, order
      <3> QED
        BY <2>2, OrdersKept
    <2>4. disk' = IF DiskLimit = 0 THEN order ELSE Without(order, gone)
      BY <2>1 DEF PrunedFiles
    <2>5. DOMAIN order = DOMAIN disk
      BY <1>4, <2>2 DEF OnDisk
    <2> HIDE DEF gone, order
    <2>6. /\ IsOrder(disk') /\ DOMAIN disk' \subseteq DOMAIN disk
          /\ DOMAIN disk' \subseteq MediaScopes \X Files
      BY <1>2, <2>2, <2>3, <2>4, <2>5
    <2>7. MediaTypeOK' /\ JobsInv' /\ WeighedInv' /\ ShownIsOwn' /\ LoadingHasJob' /\ MemoryBounded'
      BY <1>1, <2>1, <2>6, JobGoesOn
    <2>8. ASSUME DiskLimit > 0 PROVE (Total(DurableKept \ Newcomers) <= DiskLimit)'
      <3> DEFINE S == DurableKept'
                 T == (DurableKept \ Newcomers)'
                 W(R) == Cardinality(Units(SizeAt, R))
      <3>1. files \in SUBSET (MediaScopes \X Files) /\ files \subseteq DOMAIN order
            /\ \A x \in files \ {keep} : keep \notin order[x]
        BY <1>2, <2>2, <2>5
      <3>2. \A x \in files \ {keep} : x \in gone <=> Cardinality(Units(SizeAt, files \ order[x])) > DiskLimit
        <4>1. \A p : files \ order[p] \in SUBSET (MediaScopes \X Files)
          BY <3>1
        <4>2. \A p : Total(files \ order[p]) = Cardinality(Units(SizeAt, files \ order[p]))
          BY <4>1, MediaSums
        <4>3. gone = {p \in files \ {keep} : Total(files \ order[p]) > DiskLimit}
          BY DEF gone
        <4> HIDE DEF files, keep
        <4> QED
          BY <4>2, <4>3
      <3>3. files \ gone \subseteq {keep} \/ Cardinality(Units(SizeAt, files \ gone)) <= DiskLimit
        <4>1. DiskLimit \in Nat /\ SizeAt \in [MediaScopes \X Files -> Nat]
          BY MediaSums, MediaAssumption
        <4>2. IsOrder(order) /\ files \in SUBSET (MediaScopes \X Files)
          BY <2>2, <3>1
        <4> HIDE DEF files, keep
        <4>3. Cut(SizeAt, DiskLimit, order, files, keep, gone)
          BY <3>1, <3>2 DEF Cut
        <4> QED
          BY <4>1, <4>2, <4>3, CutFits
      <3>4. /\ DOMAIN disk' = DOMAIN order \ gone
            /\ S = {p \in DOMAIN disk' : ~IsPhotograph(p) /\ SizeOf[p[2]] <= DiskLimit}
        <4>1. disk' = Without(order, gone)
          BY <2>4, <2>8, MediaAssumption
        <4> QED
          BY <2>3, <4>1 DEF DurableKept, IsPhotograph
      <3>5. /\ S \subseteq files \ gone /\ T \in SUBSET S
            /\ \A p \in S : SizeOf[p[2]] <= DiskLimit
        BY <3>4
      <3>6. IsFiniteSet(files \ gone) /\ files \ gone \in SUBSET (MediaScopes \X Files)
        <4>1. IsFiniteSet(DOMAIN order)
          BY <2>2 DEF IsOrder
        <4>2. files \ gone \in SUBSET DOMAIN order
          BY <3>1
        <4> QED
          BY <3>1, <4>1, <4>2, FS_Subset
      <3>7. T \in SUBSET (files \ gone)
        BY <3>5
      <3> HIDE DEF S, T, files
      <3>8. W(files \ gone) \in Nat /\ W(T) \in Nat /\ W(T) <= W(files \ gone)
        BY <3>6, <3>7, MediaSums, Sums
      <3>9. W(T) <= DiskLimit
        <4>1. CASE W(files \ gone) <= DiskLimit
          <5> HIDE DEF W
          <5> QED
            BY <3>8, <4>1, MediaAssumption
        <4>2. CASE files \ gone \subseteq {keep}
          <5>1. CASE T = {}
            <6>1. W({}) = 0
              BY <3>6, MediaSums, Sums
            <6> QED
              BY <5>1, <6>1, <2>8, MediaAssumption
          <5>2. CASE T # {}
            <6>1. T = {keep} /\ SizeOf[keep[2]] <= DiskLimit
              BY <3>5, <3>7, <4>2, <5>2
            <6>2. W({keep}) = SizeAt[keep] /\ SizeAt[keep] = SizeOf[keep[2]]
              <7>1. W({keep}) = SizeAt[keep]
                <8>1. \A x \in MediaScopes \X Files : W({x}) = SizeAt[x]
                  BY <3>6, MediaSums, Sums
                <8> QED
                  BY <1>2, <8>1
              <7> QED
                BY <1>2, <7>1 DEF SizeAt
            <6> HIDE DEF W, keep
            <6> QED
              BY <6>1, <6>2
          <5> QED
            BY <5>1, <5>2
        <4> QED
          BY <3>3, <4>1, <4>2
      <3>10. (Total(DurableKept \ Newcomers))' = W(T)
        <4>1. T \in SUBSET (MediaScopes \X Files)
          BY <3>6, <3>7
        <4>2. Total(T) = W(T)
          BY <4>1, MediaSums
        <4> QED
          BY <4>2 DEF T, Total
      <3> QED
        BY <3>9, <3>10
    <2>9. RoomInv'
      BY <2>8 DEF RoomInv
    <2> QED
      BY <2>7, <2>9 DEF MediaInv
  <1> QED
    BY <1>3, <1>4

\* A job that is polled is gone, and what it reports counts as the others'.
LEMMA JobEnds ==
    ASSUME MediaInv, NEW j \in Jobs, job[j] # NoJob, job[j].stage # "prune", Finished(j),
           UNCHANGED <<bound, mediaClient, disk>>
    PROVE  /\ job' \in [Jobs -> Job \cup {NoJob}] /\ job'[j] = NoJob
           /\ \A i \in Jobs \ {j} : job'[i] = job[i]
           /\ JobsInv' /\ RoomInv'
  <1>1. /\ job' \in [Jobs -> Job \cup {NoJob}] /\ job'[j] = NoJob
        /\ \A i \in Jobs \ {j} : job'[i] = job[i]
    BY DEF MediaInv, MediaTypeOK, Finished
  <1>2. JobsInv'
    BY <1>1 DEF MediaInv, JobsInv
  <1>3. Newcomers \subseteq Newcomers'
    BY <1>1 DEF Newcomers, Mine
  <1>4. RoomInv'
    BY <1>3, RoomSame
  <1> QED
    BY <1>1, <1>2, <1>4

\* What still loads after a poll has its job.
LEMMA StillLoading ==
    ASSUME MediaInv, NEW j \in Jobs, job[j] # NoJob, bound' = bound,
           \A i \in Jobs \ {j} : job'[i] = job[i],
           inFlight' = inFlight \ {job[j].key},
           \A i \in Keys : states'[i] = "loading" <=> (states[i] = "loading" /\ i # job[j].key)
    PROVE  LoadingHasJob' /\ inFlight' \subseteq Keys /\ IsFiniteSet(inFlight')
  <1>1. inFlight' \in SUBSET inFlight
    OBVIOUS
  <1>2. /\ IsFiniteSet(inFlight') /\ Cardinality(inFlight') <= Cardinality(inFlight)
        /\ Cardinality(inFlight) \in Nat /\ Cardinality(inFlight') \in Nat
    BY <1>1, FS_Subset, FS_CardinalityType DEF MediaInv, MediaTypeOK
  <1>3. inFlight' = {i \in Keys : states'[i] = "loading"}
    BY DEF MediaInv, LoadingHasJob
  <1>4. Cardinality(inFlight') <= MaxInFlight
    BY <1>2, MediaAssumption DEF MediaInv, LoadingHasJob
  <1>5. \A i \in inFlight' : \E l \in Jobs : job'[l] # NoJob /\ job'[l].key = i /\ job'[l].current
    <2> TAKE i \in inFlight'
    <2>1. PICK l \in Jobs : job[l] # NoJob /\ job[l].key = i /\ job[l].current
      BY DEF MediaInv, LoadingHasJob
    <2>2. l # j
      BY <2>1
    <2> QED
      BY <2>1, <2>2
  <1> QED
    BY <1>2, <1>3, <1>4, <1>5 DEF LoadingHasJob

LEMMA PollFailedKeeps ==
    ASSUME MediaInv, NEW j \in Jobs, PollFailed(j)
    PROVE  MediaInv'
  <1>1. /\ job[j] # NoJob /\ job[j].stage = "failed" /\ job[j].current /\ Finished(j)
        /\ inFlight' = inFlight \ {job[j].key}
        /\ states' = [states EXCEPT ![job[j].key] = "failed"]
        /\ from' = [from EXCEPT ![job[j].key] = job[j].scope]
        /\ UNCHANGED <<bound, mediaClient, weighed, recent, disk>>
    BY DEF PollFailed, Reported, Show
  <1>2. job[j].key \in Keys /\ job[j].scope \in MediaScopes /\ job[j].scope = bound
    BY <1>1, JobIs DEF MediaInv, JobsInv
  <1>3. /\ job' \in [Jobs -> Job \cup {NoJob}] /\ \A i \in Jobs \ {j} : job'[i] = job[i]
        /\ JobsInv' /\ RoomInv'
    BY <1>1, JobEnds
  <1>4. \A i \in Keys : states'[i] = "loading" <=> (states[i] = "loading" /\ i # job[j].key)
    BY <1>1 DEF MediaInv, MediaTypeOK
  <1>5. LoadingHasJob' /\ inFlight' \subseteq Keys /\ IsFiniteSet(inFlight')
    BY <1>1, <1>3, <1>4, StillLoading
  <1>6. MediaTypeOK'
    BY <1>1, <1>2, <1>3, <1>5 DEF MediaInv, MediaTypeOK
  <1>7. WeighedInv' /\ ShownIsOwn'
    BY <1>1, <1>2 DEF MediaInv, MediaTypeOK, WeighedInv, ShownIsOwn
  <1>8. MemoryBounded'
    BY <1>1 DEF MediaInv, MemoryBounded, Weight
  <1> QED
    BY <1>3, <1>5, <1>6, <1>7, <1>8 DEF MediaInv

LEMMA PollStaleKeeps ==
    ASSUME MediaInv, NEW j \in Jobs, PollStale(j)
    PROVE  MediaInv'
  <1>1. /\ job[j] # NoJob /\ job[j].stage # "prune" /\ ~job[j].current /\ Finished(j)
        /\ UNCHANGED <<bound, mediaClient, states, from, inFlight, weighed, recent, disk>>
    BY DEF PollStale, mediaMemory
  <1>2. /\ job' \in [Jobs -> Job \cup {NoJob}] /\ \A i \in Jobs \ {j} : job'[i] = job[i]
        /\ JobsInv' /\ RoomInv'
    BY <1>1, JobEnds
  <1>3. MediaTypeOK'
    BY <1>1, <1>2 DEF MediaInv, MediaTypeOK
  <1>4. WeighedInv' /\ ShownIsOwn' /\ MemoryBounded'
    BY <1>1 DEF MediaInv, WeighedInv, ShownIsOwn, MemoryBounded, Weight
  <1>5. LoadingHasJob'
    <2>1. \A i \in inFlight : \E l \in Jobs : job'[l] # NoJob /\ job'[l].key = i /\ job'[l].current
      BY <1>1, <1>2 DEF MediaInv, LoadingHasJob
    <2> QED
      BY <1>1, <2>1 DEF MediaInv, LoadingHasJob
  <1> QED
    BY <1>2, <1>3, <1>4, <1>5 DEF MediaInv

LEMMA PollReadyKeeps ==
    ASSUME MediaInv, NEW j \in Jobs, PollReady(j)
    PROVE  MediaInv'
  <1> DEFINE k == job[j].key
             used == MovedToEnd(recent, k)
             gone == Evicted(k, used)
             all == weighed \cup {k}
  <1>1. /\ job[j] # NoJob /\ job[j].stage = "ready" /\ job[j].current /\ Finished(j)
        /\ inFlight' = inFlight \ {k}
        /\ weighed' = all \ gone
        /\ recent' = Without(used, gone)
        /\ states' = [i \in Keys |-> IF i = k THEN "ready"
                                     ELSE IF i \in gone THEN "none" ELSE states[i]]
        /\ from' = [from EXCEPT ![k] = job[j].scope]
        /\ UNCHANGED <<bound, mediaClient, disk>>
    BY DEF PollReady, Reported
  <1>2. /\ k \in Keys /\ job[j].scope \in MediaScopes /\ job[j].scope = bound
        /\ WeightOf[k] <= MemoryLimit
    BY <1>1, JobIs DEF MediaInv, JobsInv
  <1>3. /\ job' \in [Jobs -> Job \cup {NoJob}] /\ \A i \in Jobs \ {j} : job'[i] = job[i]
        /\ JobsInv' /\ RoomInv'
    BY <1>1, JobEnds
  <1>4. IsOrder(recent) /\ weighed \subseteq DOMAIN recent /\ DOMAIN recent \subseteq Keys
    BY DEF MediaInv, MediaTypeOK
  <1>5. /\ IsOrder(used) /\ DOMAIN used = DOMAIN recent \cup {k}
        /\ \A x \in DOMAIN recent \ {k} : k \notin used[x]
    BY <1>4, OrdersKept
  <1>6. all \in SUBSET Keys /\ all \subseteq DOMAIN used /\ IsFiniteSet(all)
    <2>1. all \in SUBSET DOMAIN used
      BY <1>4, <1>5
    <2> QED
      BY <1>2, <1>4, <1>5, <2>1, FS_Subset DEF IsOrder
  <1>7. /\ gone \subseteq weighed \ {k}
        /\ \A x \in all \ {k} : x \in gone <=> Weight(all \ used[x]) > MemoryLimit
    BY DEF Evicted
  <1> HIDE DEF k, used, gone
  <1>8. IsOrder(recent') /\ DOMAIN recent' = DOMAIN used \ gone
    BY <1>1, <1>5, OrdersKept
  <1>9. \A i \in Keys : states'[i] = "loading" <=> (states[i] = "loading" /\ i # k)
    BY <1>1, <1>7 DEF MediaInv, MediaTypeOK, WeighedInv
  <1>10. LoadingHasJob' /\ inFlight' \subseteq Keys /\ IsFiniteSet(inFlight')
    BY <1>1, <1>3, <1>9, StillLoading DEF k
  <1>11. MediaTypeOK'
    <2>1. states' \in [Keys -> {"none", "loading", "ready", "failed"}]
      BY <1>1 DEF MediaInv, MediaTypeOK
    <2>2. weighed' \subseteq DOMAIN recent' /\ DOMAIN recent' \subseteq Keys
      BY <1>1, <1>2, <1>4, <1>5, <1>6, <1>8
    <2> QED
      BY <1>1, <1>2, <1>3, <1>8, <1>10, <2>1, <2>2 DEF MediaInv, MediaTypeOK
  <1>12. WeighedInv' /\ ShownIsOwn'
    BY <1>1, <1>2, <1>4, <1>6, <1>7 DEF MediaInv, MediaTypeOK, WeighedInv, ShownIsOwn
  <1>13. MemoryBounded'
    <2>1. Cut(WeightOf, MemoryLimit, used, all, k, gone)
      <3>1. \A x : all \ used[x] \in SUBSET Keys
        BY <1>6
      <3>2. \A x : Weight(all \ used[x]) = Cardinality(Units(WeightOf, all \ used[x]))
        BY <3>1, MediaSums
      <3>3. \A x \in all \ {k} : k \notin used[x]
        BY <1>4, <1>5
      <3> HIDE DEF all
      <3> QED
        BY <1>6, <1>7, <3>2, <3>3 DEF Cut
    <2>2. WeightOf \in [Keys -> Nat] /\ MemoryLimit \in Nat
      BY MediaAssumption
    <2> HIDE DEF all
    <2>3. all \ gone \subseteq {k} \/ Cardinality(Units(WeightOf, all \ gone)) <= MemoryLimit
      BY <1>5, <1>6, <2>1, <2>2, CutFits
    <2>4. all \ gone \in SUBSET Keys
      BY <1>6
    <2>5. Weight(all \ gone) = Cardinality(Units(WeightOf, all \ gone))
      BY <2>4, MediaSums
    <2>6. /\ Cardinality(Units(WeightOf, {})) = 0
          /\ \A x \in Keys : Cardinality(Units(WeightOf, {x})) = WeightOf[x]
      BY <1>6, <2>2, Sums
    <2>7. Weight(all \ gone) <= MemoryLimit
      <3>1. all \ gone \subseteq {k} => all \ gone = {} \/ all \ gone = {k}
        OBVIOUS
      <3> QED
        BY <1>2, <2>2, <2>3, <2>5, <2>6, <3>1
    <2> QED
      BY <1>1, <2>7 DEF MemoryBounded, Weight
  <1> QED
    BY <1>3, <1>10, <1>11, <1>12, <1>13 DEF MediaInv

\* A step of the runtime, its jobs included.
LEMMA MediaStep == MediaInv /\ [MediaNext]_mediaVars => MediaInv'
  <1> SUFFICES ASSUME MediaInv, [MediaNext]_mediaVars PROVE MediaInv'
    OBVIOUS
  <1>1. ASSUME NEW s \in MediaScopes, Bind(s) \/ SelectCached(s) PROVE MediaInv'
    BY <1>1, ResetKeeps DEF Bind, SelectCached
  <1>2. CASE InitializeTerminal
    BY <1>2, ResetKeeps DEF InitializeTerminal, MediaInv, MediaTypeOK
  <1>3. CASE Lock
    BY <1>3, AskKeeps
  <1>4. ASSUME NEW k \in Keys, RequestKnown(k) \/ RequestOffline(k) PROVE MediaInv'
    BY <1>4, AskKeeps
  <1>5. ASSUME NEW k \in Keys, RetryImage(k) PROVE MediaInv'
    BY <1>5, RetryKeeps
  <1>6. ASSUME NEW j \in Jobs, NEW k \in Keys, Request(j, k) PROVE MediaInv'
    BY <1>6, RequestKeeps
  <1>7. ASSUME NEW j \in Jobs, JobStep(j) PROVE MediaInv'
    BY <1>7, FetchedKeeps, PruneKeeps, DecodeKeeps DEF JobStep
  <1>8. ASSUME NEW j \in Jobs, Poll(j) PROVE MediaInv'
    BY <1>8, PollReadyKeeps, PollFailedKeeps, PollStaleKeeps DEF Poll
  <1>9. CASE UNCHANGED mediaVars
    <2>1. UNCHANGED <<bound, mediaClient, states, from, inFlight, weighed, recent, job, disk>>
      BY <1>9 DEF mediaVars, mediaMemory
    <2> QED
      BY <2>1 DEF MediaInv, MediaTypeOK, JobsInv, WeighedInv, ShownIsOwn, LoadingHasJob, MemoryBounded,
                  Weight, RoomInv, Newcomers, Mine, Path, DurableKept, IsPhotograph, Total, IsOrder
  <1> QED
    BY <1>1, <1>2, <1>3, <1>4, <1>5, <1>6, <1>7, <1>8, <1>9 DEF MediaNext

LEMMA MediaInvIsSound == MediaInv => MediaSound
  <1> SUFFICES ASSUME MediaInv PROVE MediaSound
    OBVIOUS
  <1>1. ASSUME DiskLimit > 0, \A j \in Jobs : job[j] = NoJob PROVE Total(DurableKept) <= DiskLimit
    <2>1. Newcomers = {}
      BY <1>1 DEF Newcomers
    <2>2. DurableKept \ Newcomers = DurableKept
      BY <2>1
    <2>3. Total(DurableKept \ Newcomers) <= DiskLimit
      BY <1>1 DEF MediaInv, RoomInv
    <2> QED
      BY <2>2, <2>3
  <1>2. DiskBounded
    BY <1>1 DEF DiskBounded
  <1> QED
    BY <1>2 DEF MediaInv, MediaSound, CachesBounded

\* Whatever is asked for, tried again or left while its jobs run, and with
\* any files, weights and limits: what is shown is of the community that is
\* bound, what loads has its job, and both caches keep to their limits
\* (media/runtime.rs).
THEOREM MediaCorrect == MediaSpec => []MediaSound
  <1>1. MediaSpec => []MediaInv
    BY MediaStarts, MediaStep, PTL DEF MediaSpec
  <1> QED
    BY <1>1, MediaInvIsSound, PTL
=============================================================================
