----------------------------- MODULE ConsoleStore -----------------------------
(***************************************************************************)
(* The operator console's database as a file: schema versions and           *)
(* migration (console/migrations.py), online backup, offline restore and    *)
(* retention (console/ops.py), while the web service and maintenance cycles *)
(* use it.  One operator runs one command at a time; a command may die at    *)
(* any step.                                                                 *)
(*                                                                         *)
(* The schema script commits statement by statement.  How far it got is     *)
(* "tables": 0 none, 1 some of the first version's, 2 all eleven of them,   *)
(* 3 also console_settings, which the script creates last.                  *)
(***************************************************************************)
EXTENDS Naturals, FiniteSets

CONSTANTS
    Missing,      \* no file
    MaxBackups,   \* BOUND: backup directories created
    KeepLast,     \* --keep-last of prune-retention
    MaxWrites     \* BOUND: writes of the console

ASSUME StoreAssumption ==
    /\ MaxBackups \in Nat /\ MaxWrites \in Nat
    /\ KeepLast \in Nat \ {0}

CURRENT_SCHEMA_VERSION == 3

Stores == [tables : 0..3, version : {0, 2, 3}, admin : BOOLEAN, rows : 0..MaxWrites,
           fresh : BOOLEAN]
ASSUME MissingAssumption == Missing \notin Stores

Slots == 1..MaxBackups

VARIABLES
    db,        \* the file at database_path
    saved,     \* database_path.pre-restore
    temp,      \* restored.db in the restore's temporary directory
    stage,     \* of each backup: "none", "dir", "copied" or "done"
    snapshot,  \* the database file in each backup
    pc,        \* where the operator's command is
    slot,      \* the backup made last, or being made
    doomed,    \* backups a prune has decided to remove
    up,        \* whether the web service runs
    cycle,     \* a maintenance cycle: "idle", "bootstrapping" or "running"
    was        \* history: database_path when the restore under way began

backupVars == <<stage, snapshot>>
consoleVars == <<up, cycle>>
vars == <<db, saved, temp, backupVars, pc, slot, doomed, consoleVars, was>>

EmptyStore == [tables |-> 0, version |-> 0, admin |-> FALSE, rows |-> 0, fresh |-> TRUE]

-----------------------------------------------------------------------------
\* SLIP: the table added last is required of a legacy store, too.
Inspect_AllTables(store) ==
    CASE store = Missing -> "missing"
      [] store # Missing /\ store.version = CURRENT_SCHEMA_VERSION -> "current"
      [] store # Missing /\ store.version \in 1..(CURRENT_SCHEMA_VERSION - 1) -> "needs-migration"
      [] store # Missing /\ store.version = 0 /\ store.tables = 3 -> "legacy-v1"
      [] store # Missing /\ store.version = 0 /\ store.tables = 0 -> "empty"
      [] OTHER -> "unknown"

\* inspect_operator_store
Inspect(store) ==
    CASE store = Missing -> "missing"
      [] store # Missing /\ store.version = CURRENT_SCHEMA_VERSION -> "current"
      [] store # Missing /\ store.version \in 1..(CURRENT_SCHEMA_VERSION - 1) -> "needs-migration"
      [] store # Missing /\ store.version = 0 /\ store.tables >= 2 -> "legacy-v1"
      [] store # Missing /\ store.version = 0 /\ store.tables = 0 -> "empty"
      [] OTHER -> "unknown"

\* assert_runtime_ready
RuntimeReady(store) == Inspect(store) = "current" /\ store.admin

\* The schema script, CREATE ... IF NOT EXISTS, one more part of it.
Extended(store) == [store EXCEPT !.tables = IF @ < 3 THEN @ + 1 ELSE @]

\* _load_manifest, _load_backup_integrity and the digest: an unfinished backup
\* has no integrity file.
Restorable(b) == stage[b] = "done"

Directories == {b \in Slots : stage[b] # "none"}

-----------------------------------------------------------------------------
Init ==
    /\ db \in {Missing,
               [tables |-> 2, version |-> 0, admin |-> TRUE, rows |-> 0, fresh |-> FALSE],
               [tables |-> 2, version |-> 2, admin |-> FALSE, rows |-> 0, fresh |-> FALSE],
               [tables |-> 3, version |-> 3, admin |-> TRUE, rows |-> 0, fresh |-> FALSE]}
    /\ saved = Missing /\ temp = Missing /\ was = Missing
    /\ stage = [b \in Slots |-> "none"] /\ snapshot = [b \in Slots |-> Missing]
    /\ pc = "idle" /\ slot = 0 /\ doomed = {}
    /\ up = FALSE /\ cycle = "idle"

(* migrate and bootstrap-admin.                                            *)

BeginMigrate(allowBootstrap) ==
    /\ pc = "idle"
    /\ Inspect(db) # "unknown"
    /\ Inspect(db) \in {"missing", "empty"} => allowBootstrap
    /\ db' = IF db = Missing THEN EmptyStore ELSE db
    /\ pc' = CASE Inspect(db) \in {"missing", "empty", "legacy-v1"} -> "scripting"
               [] Inspect(db) = "needs-migration" -> "adding settings"
               [] OTHER -> "stamping"
    /\ UNCHANGED <<saved, temp, backupVars, slot, doomed, consoleVars, was>>

\* SLIP: the version is written once the first version's tables are there.
RunScript_StampsEarly ==
    /\ pc = "scripting"
    /\ db' = Extended(db)
    /\ pc' = IF db'.tables >= 2 THEN "stamping" ELSE pc
    /\ UNCHANGED <<saved, temp, backupVars, slot, doomed, consoleVars, was>>

\* bootstrap_operator_store: executescript commits and then runs on its own.
RunScript ==
    /\ pc = "scripting"
    /\ db' = Extended(db)
    /\ pc' = IF db'.tables = 3 THEN "stamping" ELSE pc
    /\ UNCHANGED <<saved, temp, backupVars, slot, doomed, consoleVars, was>>

\* _migrate_v2_to_v3
AddSettings ==
    /\ pc = "adding settings"
    /\ db' = [db EXCEPT !.tables = 3]
    /\ pc' = "stamping"
    /\ UNCHANGED <<saved, temp, backupVars, slot, doomed, consoleVars, was>>

\* _write_schema_version, committed when the with block ends.
StampVersion ==
    /\ pc = "stamping"
    /\ db' = [db EXCEPT !.version = CURRENT_SCHEMA_VERSION]
    /\ pc' = "idle"
    /\ UNCHANGED <<saved, temp, backupVars, slot, doomed, consoleVars, was>>

BootstrapAdmin ==
    /\ pc = "idle" /\ Inspect(db) = "current"
    /\ db' = [db EXCEPT !.admin = TRUE]
    /\ UNCHANGED <<saved, temp, backupVars, pc, slot, doomed, consoleVars, was>>

(* backup, restore and prune-retention.                                    *)

\* SLIP: a backup may be taken of any store there is.
BeginBackup_Unchecked ==
    /\ pc = "idle" /\ db # Missing
    /\ slot < MaxBackups
    /\ slot' = slot + 1
    /\ stage' = [stage EXCEPT ![slot'] = "dir"]
    /\ pc' = "copying"
    /\ UNCHANGED <<db, saved, temp, snapshot, doomed, consoleVars, was>>

\* build_backup_manifest asserts that the store is ready; then the directory is
\* made.  Directories are numbered in the order of their timestamps.
BeginBackup ==
    /\ pc = "idle" /\ RuntimeReady(db)
    /\ slot < MaxBackups
    /\ slot' = slot + 1
    /\ stage' = [stage EXCEPT ![slot'] = "dir"]
    /\ pc' = "copying"
    /\ UNCHANGED <<db, saved, temp, snapshot, doomed, consoleVars, was>>

CopyStore ==
    /\ pc = "copying"
    /\ snapshot' = [snapshot EXCEPT ![slot] = db]
    /\ stage' = [stage EXCEPT ![slot] = "copied"]
    /\ pc' = "recording"
    /\ UNCHANGED <<db, saved, temp, slot, doomed, consoleVars, was>>

\* The manifest, then the integrity file that a restore asks for.
FinishBackup ==
    /\ pc = "recording"
    /\ stage' = [stage EXCEPT ![slot] = "done"]
    /\ pc' = "idle"
    /\ UNCHANGED <<db, saved, temp, snapshot, slot, doomed, consoleVars, was>>

\* The checks of restore_backup and the copy into a temporary directory.  The
\* operator confirms --service-stopped having stopped the services.
BeginRestore(b) ==
    /\ pc = "idle" /\ ~up /\ cycle = "idle"
    /\ Restorable(b) /\ Inspect(snapshot[b]) = "current"
    /\ temp' = snapshot[b]
    /\ was' = db
    /\ pc' = "unlinking"
    /\ UNCHANGED <<db, saved, backupVars, slot, doomed, consoleVars>>

UnlinkSaved ==
    /\ pc = "unlinking"
    /\ saved' = Missing
    /\ pc' = "moving aside"
    /\ UNCHANGED <<db, temp, backupVars, slot, doomed, consoleVars, was>>

\* SLIP: the old database is deleted instead of moved aside.
MoveAside_Deletes ==
    /\ pc = "moving aside"
    /\ db' = Missing
    /\ pc' = "placing"
    /\ UNCHANGED <<saved, temp, backupVars, slot, doomed, consoleVars, was>>

MoveAside ==
    /\ pc = "moving aside"
    /\ db' = Missing
    /\ saved' = IF db = Missing THEN saved ELSE db
    /\ pc' = "placing"
    /\ UNCHANGED <<temp, backupVars, slot, doomed, consoleVars, was>>

PlaceRestored ==
    /\ pc = "placing"
    /\ db' = temp /\ temp' = Missing /\ was' = Missing
    /\ pc' = "idle"
    /\ UNCHANGED <<saved, backupVars, slot, doomed, consoleVars>>

\* The second rename raises: the old database is put back.  (If the unlink or
\* the first rename raises, nothing more happens, as in Crash.)
PlaceFails ==
    /\ pc = "placing"
    /\ IF saved # Missing THEN db' = saved /\ saved' = Missing ELSE UNCHANGED <<db, saved>>
    /\ temp' = Missing /\ was' = Missing
    /\ pc' = "idle"
    /\ UNCHANGED <<backupVars, slot, doomed, consoleVars>>

\* backup_dirs[keep_last:]
Stale == {b \in Directories : Cardinality({c \in Directories : c > b}) >= KeepLast}

\* prune_backup_retention lists the directories, finished or not, once.
BeginPrune ==
    /\ pc = "idle" /\ Stale # {}
    /\ doomed' = Stale
    /\ pc' = "pruning"
    /\ UNCHANGED <<db, saved, temp, backupVars, slot, consoleVars, was>>

\* The newest first: the integrity file, then the directory.
PruneNext ==
    /\ pc = "pruning"
    /\ \E b \in doomed :
         /\ \A c \in doomed : c <= b
         /\ IF stage[b] = "done"
            THEN /\ stage' = [stage EXCEPT ![b] = "copied"]
                 /\ UNCHANGED <<snapshot, doomed>>
            ELSE /\ stage' = [stage EXCEPT ![b] = "none"]
                 /\ snapshot' = [snapshot EXCEPT ![b] = Missing]
                 /\ doomed' = doomed \ {b}
    /\ pc' = IF doomed' = {} THEN "idle" ELSE pc
    /\ UNCHANGED <<db, saved, temp, slot, consoleVars, was>>

\* The command is killed: its connection and its list are gone, a temporary
\* directory is left behind.
Crash ==
    /\ pc # "idle"
    /\ pc' = "idle" /\ doomed' = {} /\ temp' = Missing /\ was' = Missing
    /\ UNCHANGED <<db, saved, backupVars, slot, consoleVars>>

(* The console at work.  Nothing of it starts while a restore runs.        *)

Offline == pc \in {"unlinking", "moving aside", "placing"}

StartWeb ==
    /\ ~up /\ ~Offline /\ RuntimeReady(db)
    /\ up' = TRUE
    /\ UNCHANGED <<db, saved, temp, backupVars, pc, slot, doomed, cycle, was>>

StopWeb ==
    /\ up
    /\ up' = FALSE
    /\ UNCHANGED <<db, saved, temp, backupVars, pc, slot, doomed, cycle, was>>

\* Operators' requests and maintenance cycles write rows.
WriteRow ==
    /\ up \/ cycle = "running"
    /\ db.rows < MaxWrites
    /\ db' = [db EXCEPT !.rows = @ + 1]
    /\ UNCHANGED <<saved, temp, backupVars, pc, slot, doomed, consoleVars, was>>

\* open_operator_store: a notify-run-once opens, and creates, whatever is there.
BeginCycle ==
    /\ cycle = "idle" /\ ~Offline
    /\ db' = IF db = Missing THEN EmptyStore ELSE db
    /\ cycle' = "bootstrapping"
    /\ UNCHANGED <<saved, temp, backupVars, pc, slot, doomed, up, was>>

BootstrapStore ==
    /\ cycle = "bootstrapping"
    /\ db' = Extended(db)
    /\ cycle' = IF db'.tables = 3 THEN "running" ELSE cycle
    /\ UNCHANGED <<saved, temp, backupVars, pc, slot, doomed, up, was>>

\* The cycle ends, or its process dies.
EndCycle ==
    /\ cycle # "idle"
    /\ cycle' = "idle"
    /\ UNCHANGED <<db, saved, temp, backupVars, pc, slot, doomed, up, was>>

Next ==
    \/ \E allowBootstrap \in BOOLEAN : BeginMigrate(allowBootstrap)
    \/ RunScript \/ AddSettings \/ StampVersion \/ BootstrapAdmin
    \/ BeginBackup \/ CopyStore \/ FinishBackup
    \/ \E b \in Slots : BeginRestore(b)
    \/ UnlinkSaved \/ MoveAside \/ PlaceRestored \/ PlaceFails
    \/ BeginPrune \/ PruneNext \/ Crash
    \/ StartWeb \/ StopWeb \/ WriteRow \/ BeginCycle \/ BootstrapStore \/ EndCycle

Spec == Init /\ [][Next]_vars

-----------------------------------------------------------------------------
TypeOK ==
    /\ {db, saved, temp, was} \subseteq Stores \cup {Missing}
    /\ stage \in [Slots -> {"none", "dir", "copied", "done"}]
    /\ snapshot \in [Slots -> Stores \cup {Missing}]
    /\ pc \in {"idle", "scripting", "adding settings", "stamping", "copying", "recording",
               "unlinking", "moving aside", "placing", "pruning"}
    /\ slot \in 0..MaxBackups /\ doomed \subseteq Slots
    /\ up \in BOOLEAN /\ cycle \in {"idle", "bootstrapping", "running"}

Everywhere == ({db, saved, temp} \cup {snapshot[b] : b \in Slots}) \ {Missing}

\* A store that carries the current version has the current tables, wherever a
\* migration died and whoever else ran the schema script.
VersionMeansTables ==
    \A store \in Everywhere : store.version = CURRENT_SCHEMA_VERSION => store.tables = 3

\* A store that ever had an operator schema is never left in a state migrate
\* refuses, however often a migration dies.  (One created from nothing may be.)
UpgradeResumable == db # Missing /\ Inspect(db) = "unknown" => db.fresh

\* The service can start on whatever restore would accept, and it never runs
\* on anything else.
RestorableIsReady ==
    /\ \A b \in Slots : Restorable(b) => RuntimeReady(snapshot[b])
    /\ up => RuntimeReady(db)

\* From its first step to its last, a restore leaves the database it found at
\* database_path or at .pre-restore, in one piece.
RestoreKeepsOld == Offline => was \in {db, saved}
=============================================================================
