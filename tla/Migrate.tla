------------------------------ MODULE Migrate ------------------------------
(***************************************************************************)
(* Opening the database (store/mod.rs, store/migrate.rs): the versions are *)
(* compared, a file that is behind is copied aside and old copies pruned,  *)
(* each missing migration runs in a transaction of its own together with   *)
(* its row of the ledger and user_version, and the projections a new       *)
(* version derives differently are rebuilt.                                *)
(*                                                                         *)
(* Any process that opens the store does this, the client or a command,    *)
(* also at the same time, of an older or a newer build, and any of them    *)
(* may fail or be killed between two steps.                                *)
(***************************************************************************)
EXTENDS Integers, FiniteSets, FiniteSetsExt

CONSTANTS
  Openers,       \* processes
  FirstSchema,   \* the version of the file at the beginning
  LastSchema,    \* the version of the newest build
  LastSecond,    \* bound: seconds (backups are named after them)
  MostKills      \* bound: processes that stop between two steps

ASSUME MigrateAssumption ==
  /\ FirstSchema \in Nat \ {0} /\ LastSchema \in Nat /\ FirstSchema <= LastSchema
  /\ LastSecond \in Nat /\ MostKills \in Nat

Schemas == 1..LastSchema

VARIABLES
  userVersion,  \* PRAGMA user_version
  ledger,       \* versions in schema_migrations
  executed,     \* how often each migration's statements took effect
  searchDerived,\* the version of the search projection is in its table
  agentsDerived,\* agent rows are reconciled since the last migration
  copies,       \* per second, the copy named after it: a set, none or one
  second,       \* unix_now
  shipped,      \* the newest version installed
  opener,       \* per process: where it is, its build, the version it read
  kills

fileState == <<userVersion, ledger, executed, searchDerived, agentsDerived>>
migrateVars == <<fileState, copies, second, shipped, opener, kills>>

Gone == [at |-> "off", build |-> 0, read |-> 0]

MigrateInit ==
  /\ userVersion = FirstSchema /\ ledger = 1..FirstSchema
  /\ executed = [v \in Schemas |-> IF v <= FirstSchema THEN 1 ELSE 0]
  /\ searchDerived \in BOOLEAN /\ agentsDerived = TRUE
  /\ copies = [s \in 0..LastSecond |-> {}]
  /\ second = 0 /\ shipped \in FirstSchema..LastSchema
  /\ opener = [p \in Openers |-> Gone] /\ kills = 0

Goes(p, step) == opener' = [opener EXCEPT ![p].at = step]

----------------------------------------------------------------------------
(* Store::open *)

\* A file of a newer build is refused; one that is behind is copied first.
Open(p) ==
  /\ opener[p].at = "off"
  /\ userVersion <= shipped
  /\ opener' = [opener EXCEPT ![p] =
       [at |-> IF userVersion < shipped THEN "copying" ELSE "deriving",
        build |-> shipped, read |-> userVersion]]
  /\ UNCHANGED <<fileState, copies, second, shipped, kills>>

\* backup: the copy is opened under its final name and filled page by page.
BeginCopy(p) ==
  /\ opener[p].at = "copying"
  /\ copies' = [copies EXCEPT ![second] = {[schema |-> userVersion, whole |-> FALSE, by |-> p]}]
  /\ Goes(p, "pruning")
  /\ UNCHANGED <<fileState, second, shipped, kills>>

\* prune_backups keeps the two newest names.
PrunedCopies(c) ==
  LET named == {s \in DOMAIN c : c[s] # {}}
  IN  [s \in DOMAIN c |-> IF Cardinality({t \in named : t > s}) < 2 THEN c[s] ELSE {}]

CompleteCopy(p) ==
  /\ opener[p].at = "pruning"
  /\ copies' = PrunedCopies([s \in DOMAIN copies |->
                  {[c EXCEPT !.whole = c.whole \/ c.by = p] : c \in copies[s]}])
  /\ Goes(p, "migrating")
  /\ UNCHANGED <<fileState, second, shipped, kills>>

\* Mutant: The ledger takes a version it has.
RecordableTwice(v) == v \in Schemas

\* The ledger's primary key (and every CREATE TABLE) refuses a second run.
Recordable(v) == v \notin ledger

Wanted(p) == {v \in Schemas : opener[p].read < v /\ v <= opener[p].build}

\* One transaction: the statements, the ledger row, user_version.
MigrateNext(p, v) ==
  /\ opener[p].at = "migrating" /\ v \in Wanted(p)
  /\ \A w \in Wanted(p) : v <= w
  /\ IF Recordable(v)
     THEN /\ executed' = [executed EXCEPT ![v] = @ + 1]
          /\ ledger' = ledger \cup {v} /\ userVersion' = v
          /\ agentsDerived' = FALSE
          /\ opener' = [opener EXCEPT ![p].read = v,
                                      ![p].at = IF v = opener[p].build THEN "rederiving" ELSE "migrating"]
     ELSE /\ UNCHANGED <<executed, ledger, userVersion, agentsDerived>>
          /\ opener' = [opener EXCEPT ![p] = Gone]
  /\ UNCHANGED <<searchDerived, copies, second, shipped, kills>>

\* ensure_search_projections looks at the version kept with the projection.
NeedsSearch(p) == ~searchDerived /\ opener[p].at \in {"deriving", "rederiving"}

DeriveSearch(p) ==
  /\ opener[p].at \in {"deriving", "rederiving"}
  /\ searchDerived' = (searchDerived \/ NeedsSearch(p))
  /\ Goes(p, IF opener[p].at = "rederiving" THEN "reconciling" ELSE "open")
  /\ UNCHANGED <<userVersion, ledger, executed, agentsDerived, copies, second, shipped, kills>>

\* reconcile_all_remote_agents: only in the process that migrated.
ReconcileAgents(p) ==
  /\ opener[p].at = "reconciling"
  /\ agentsDerived' = TRUE
  /\ Goes(p, "open")
  /\ UNCHANGED <<userVersion, ledger, executed, searchDerived, copies, second, shipped, kills>>

Quit(p) ==
  /\ opener[p].at = "open"
  /\ opener' = [opener EXCEPT ![p] = Gone]
  /\ UNCHANGED <<fileState, copies, second, shipped, kills>>

\* A failed statement, a full disk, a signal: transactions roll back.
Kill(p) ==
  /\ opener[p].at \notin {"off", "open"} /\ kills < MostKills
  /\ opener' = [opener EXCEPT ![p] = Gone] /\ kills' = kills + 1
  /\ UNCHANGED <<fileState, copies, second, shipped>>

Install ==
  /\ shipped < LastSchema /\ shipped' = shipped + 1
  /\ UNCHANGED <<fileState, copies, second, opener, kills>>

ClockTicks ==
  /\ second < LastSecond /\ second' = second + 1
  /\ UNCHANGED <<fileState, copies, shipped, opener, kills>>

MigrateNextStep ==
  \/ \E p \in Openers :
       \/ Open(p) \/ BeginCopy(p) \/ CompleteCopy(p)
       \/ \E v \in Schemas : MigrateNext(p, v)
       \/ DeriveSearch(p) \/ ReconcileAgents(p) \/ Quit(p) \/ Kill(p)
  \/ Install \/ ClockTicks

MigrateSpec == MigrateInit /\ [][MigrateNextStep]_migrateVars

----------------------------------------------------------------------------
(* Properties *)

\* Whatever processes open the file together and wherever they stop, each
\* migration took effect exactly once, the ledger and user_version name what
\* was run, and a program that opened the store has the search projection of
\* its version (store/migrate.rs, migrate; store/search.rs).
SchemaSound ==
  /\ ledger = 1..userVersion
  /\ \A v \in Schemas : executed[v] = IF v <= userVersion THEN 1 ELSE 0
  /\ \A p \in Openers : opener[p].at = "open" => searchDerived
-----------------------------------------------------------------------------
(* Refuted: what is said or expected and the code does not do; in no run.    *)

\* A program that opened the store shows agent rows of the present schema.
AgentsReconciled ==
  \A p \in Openers : opener[p].at = "open" =>
    agentsDerived \/ \E q \in Openers : opener[q].at \in {"migrating", "rederiving", "reconciling"}

\* The copy a migration made of the file it started from is there, whole,
\* as long as the migration runs.
CopyStands ==
  \A p \in Openers : opener[p].at = "migrating" =>
    \E s \in DOMAIN copies : \E c \in copies[s] : c.whole /\ c.schema <= opener[p].read
=============================================================================
