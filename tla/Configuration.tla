----------------------------- MODULE Configuration -----------------------------
(***************************************************************************)
(* What bzz keeps outside the relay and in which order the command line    *)
(* changes it: config.toml (src/config.rs), the secrets (src/auth), and    *)
(* the tables identities and communities of the database, which every     *)
(* start brings up to date with the file (src/store/mod.rs).  A command is *)
(* a sequence of steps on these three; any of them may fail, and the       *)
(* process may die between two.                                            *)
(*                                                                         *)
(* One process at a time: nothing locks config.toml.  A secret is the key  *)
(* it holds; its encryption, the interface settings, the default community *)
(* and the messages of a community are left out.                           *)
(***************************************************************************)
EXTENDS Naturals, Sequences, FiniteSets

CONSTANTS
    Keypairs,
    Relays,
    Backend,     \* "keychain" or "encrypted-file"
    MostIds,     \* bound on the identifiers given out
    KeyChanges   \* bound on the changes of a relay's own key

VARIABLES
    file,        \* config.toml: identities and communities
    vault,       \* the key each stored secret holds, by identity
    db,          \* rows of the tables identities and communities
    command,     \* the running command, its snapshot and its remaining steps
    given,       \* identifiers given out
    relayKey     \* the signing key each relay announces

configVars == <<file, vault, db, command, given, relayKey>>

NoCommand == [kind |-> "none"]
NoSecrets == [i \in {} |-> 0]

ConfigInit ==
    /\ file = [ids |-> {}, coms |-> {}] /\ vault = NoSecrets
    /\ db = [ids |-> {}, coms |-> {}] /\ command = NoCommand
    /\ given = 0 /\ relayKey = [r \in Relays |-> 1]

\* Config::validate, of what a command may change: every community has its
\* identity, and its relay to itself. It is asked at every load and save.
Valid(cfg) ==
    \A c \in cfg.coms :
        /\ \E i \in cfg.ids : i.id = c.owner
        /\ \A d \in cfg.coms : d.relay = c.relay => d = c

-----------------------------------------------------------------------------
(* The database.                                                           *)

\* UNIQUE: a key is in one row, and so is the address of a relay.
Conflicts(cfg) ==
    \/ \E i \in cfg.ids, tuple \in db.ids : tuple.id # i.id /\ tuple.key = i.key
    \/ \E i, j \in cfg.ids : i.id # j.id /\ i.key = j.key
    \/ \E c \in cfg.coms, tuple \in db.coms : tuple.id # c.id /\ tuple.relay = c.relay

\* sync_config: rows of the file are inserted or updated, and none is removed.
Synced(cfg) ==
    [ids |-> cfg.ids \cup {tuple \in db.ids : \A i \in cfg.ids : i.id # tuple.id},
     coms |-> db.coms \cup {[id |-> c.id, relay |-> c.relay, pin |-> 0] :
                c \in {d \in cfg.coms : \A tuple \in db.coms : tuple.id # d.id}}]

\* purge_community.
Purged(id) == [db EXCEPT !.coms = {tuple \in db.coms : tuple.id # id}]

\* pin_relay_pubkey: the first key seen stays.
Pinned(id) ==
    [db EXCEPT !.coms = {IF tuple.id = id /\ tuple.pin = 0
                         THEN [tuple EXCEPT !.pin = relayKey[tuple.relay]] ELSE tuple :
                         tuple \in db.coms}]

-----------------------------------------------------------------------------
(* Secrets.  What is written is read back; if it is not the same, keychain   *)
(* puts the previous secret back, and encrypted_file removes the file (the   *)
(* copy of the previous one is kept on Windows only).                        *)

Holding(id, key) ==
    [j \in DOMAIN vault \cup {id} |-> IF j = id THEN key ELSE vault[j]]
WithoutSecret(id) == [j \in DOMAIN vault \ {id} |-> vault[j]]

\* keychain::store and encrypted_file::seal, when they fail.
NotStored(id) == IF Backend = "keychain" THEN {vault} ELSE {vault, WithoutSecret(id)}

-----------------------------------------------------------------------------
(* Commands.  Each starts by reading the file.                             *)

\* Steps of a removal that begins with the secret.
StepsSecretFirst(kind) ==
    CASE kind = "new" -> <<"persist", "save">>
      [] kind = "remove" -> <<"delete", "save">>
      [] kind = "add" -> <<"save", "sync", "pin">>
      [] kind = "leave" -> <<"save">>
      [] kind = "leave and purge" -> <<"save", "purge">>
      [] kind = "purge" -> <<"purge", "save">>

\* The steps of each command, in their order.
Steps(kind) ==
    CASE kind = "new" -> <<"persist", "save">>
      [] kind = "remove" -> <<"save", "delete">>
      [] kind = "add" -> <<"save", "sync", "pin">>
      [] kind = "leave" -> <<"save">>
      [] kind = "leave and purge" -> <<"save", "purge">>
      [] kind = "purge" -> <<"purge", "save">>

Begin(kind, id, key, cfg) ==
    /\ command = NoCommand /\ Valid(file)
    /\ command' = [kind |-> kind, id |-> id, key |-> key, cfg |-> cfg,
                   steps |-> Steps(kind)]

\* identity new, import, import-backup.
NewIdentity(key) ==
    /\ given < MostIds /\ given' = given + 1
    /\ Begin("new", given', key,
             [file EXCEPT !.ids = @ \cup {[id |-> given', key |-> key]}])
    /\ UNCHANGED <<file, vault, db, relayKey>>

\* identity remove: not while a community uses it.
RemoveIdentity(i) ==
    /\ \A c \in file.coms : c.owner # i.id
    /\ Begin("remove", i.id, i.key, [file EXCEPT !.ids = @ \ {i}])
    /\ UNCHANGED <<file, vault, db, given, relayKey>>

\* identity restore, restore-backup: the same key only.
RestoreIdentity(i) ==
    /\ command = NoCommand
    /\ vault' \in {Holding(i.id, i.key)} \cup NotStored(i.id)
    /\ UNCHANGED <<file, db, command, given, relayKey>>

\* community add: a relay is configured once.
AddCommunity(relay, i) ==
    /\ given < MostIds /\ given' = given + 1
    /\ \A c \in file.coms : c.relay # relay
    /\ Begin("add", given', i.key,
             [file EXCEPT !.coms = @ \cup
                 {[id |-> given', relay |-> relay, owner |-> i.id]}])
    /\ UNCHANGED <<file, vault, db, relayKey>>

\* community remove, with or without --purge, and cache purge --community.
RemoveCommunity(c, kind) ==
    /\ Begin(kind, c.id, 0, [file EXCEPT !.coms = @ \ {c}])
    /\ UNCHANGED <<file, vault, db, given, relayKey>>

\* cache purge --all removes the database.
PurgeAll ==
    /\ command = NoCommand
    /\ db' = [ids |-> {}, coms |-> {}]
    /\ UNCHANGED <<file, vault, command, given, relayKey>>

Going(step) == command # NoCommand /\ Head(command.steps) = step
Advance ==
    command' = IF Len(command.steps) = 1 THEN NoCommand
               ELSE [command EXCEPT !.steps = Tail(@)]
GiveUp == command' = NoCommand

\* persist_secret: the secret is written and read back before it is named.
PersistSecret ==
    /\ Going("persist")
    /\ \/ Advance /\ vault' = Holding(command.id, command.key)
       \/ GiveUp /\ vault' \in NotStored(command.id)
    /\ UNCHANGED <<file, db, given, relayKey>>

\* Config::save: a new file takes the place of the old one, or nothing happens;
\* a new identity that cannot be saved takes its secret back.
SaveConfig ==
    /\ Going("save")
    /\ \/ Advance /\ Valid(command.cfg) /\ file' = command.cfg
       \/ /\ IF command.kind = "new"
             THEN command' = [command EXCEPT !.steps = <<"undo">>] ELSE GiveUp
          /\ UNCHANGED file
    /\ UNCHANGED <<vault, db, given, relayKey>>

UndoSecret ==
    /\ Going("undo") /\ GiveUp
    /\ vault' \in {vault, WithoutSecret(command.id)}
    /\ UNCHANGED <<file, db, given, relayKey>>

\* A removal whose secret stays puts the identity back, if that can be saved.
DeleteSecret ==
    /\ Going("delete")
    /\ \/ Advance /\ vault' = WithoutSecret(command.id)
       \/ /\ UNCHANGED vault
          /\ command' = [command EXCEPT !.steps = <<"save">>,
                           !.cfg.ids = @ \cup {[id |-> command.id, key |-> command.key]}]
    /\ UNCHANGED <<file, db, given, relayKey>>

\* Store::open and sync_config after a community was saved.
SyncConfig ==
    /\ Going("sync")
    /\ IF Conflicts(command.cfg) THEN GiveUp /\ UNCHANGED db
       ELSE Advance /\ db' = Synced(command.cfg)
    /\ UNCHANGED <<file, vault, given, relayKey>>

PinRelay ==
    /\ Going("pin") /\ Advance
    /\ db' = Pinned(command.id)
    /\ UNCHANGED <<file, vault, given, relayKey>>

PurgeCommunity ==
    /\ Going("purge")
    /\ \/ Advance /\ db' = Purged(command.id)
       \/ GiveUp /\ UNCHANGED db
    /\ UNCHANGED <<file, vault, given, relayKey>>

Die == /\ command # NoCommand /\ GiveUp
       /\ UNCHANGED <<file, vault, db, given, relayKey>>

-----------------------------------------------------------------------------

\* Without a command the client starts: the tables follow the file, or it ends
\* with an error. Each community it connects to is pinned.
Start ==
    /\ command = NoCommand /\ ~Conflicts(file)
    /\ db' = Synced(file)
    /\ UNCHANGED <<file, vault, command, given, relayKey>>

\* A community whose relay answers with the pinned key, or with its first.
Connect(c) ==
    /\ command = NoCommand
    /\ \E tuple \in db.coms : tuple.id = c.id
    /\ db' = Pinned(c.id)
    /\ UNCHANGED <<file, vault, command, given, relayKey>>

RelayChangesKey(r) ==
    /\ relayKey[r] <= KeyChanges
    /\ relayKey' = [relayKey EXCEPT ![r] = @ + 1]
    /\ UNCHANGED <<file, vault, db, command, given>>

ConfigNext ==
    \/ \E k \in Keypairs : NewIdentity(k)
    \/ \E i \in file.ids : RemoveIdentity(i) \/ RestoreIdentity(i)
    \/ \E r \in Relays, i \in file.ids : AddCommunity(r, i)
    \/ \E c \in file.coms : \/ \E kind \in {"leave", "leave and purge", "purge"} :
                                 RemoveCommunity(c, kind)
                            \/ Connect(c)
    \/ PurgeAll \/ PersistSecret \/ SaveConfig \/ UndoSecret \/ DeleteSecret
    \/ SyncConfig \/ PinRelay \/ PurgeCommunity \/ Die \/ Start
    \/ \E r \in Relays : RelayChangesKey(r)

ConfigSpec == ConfigInit /\ [][ConfigNext]_configVars

-----------------------------------------------------------------------------

\* An identity that config.toml names has its secret, whichever command failed
\* or died where: a community is never left with a key that is gone
\* (the order of persist_secret, save and delete, and their undoing).
NamedHasSecret ==
    \A i \in file.ids : i.id \in DOMAIN vault /\ vault[i.id] = i.key

-----------------------------------------------------------------------------
(* Refuted: what is said or expected and the code does not do; in no run.    *)

\* Removing a community and adding it again pins the key its relay has now: no
\* row that outlived its community holds the address (the error of
\* pin_relay_pubkey, and docs/troubleshooting.md, recommend it).
ReaddPins ==
    command = NoCommand =>
        \A c \in file.coms, tuple \in db.coms : tuple.relay = c.relay => tuple.id = c.id
=============================================================================
