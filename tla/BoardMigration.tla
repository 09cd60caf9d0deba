---------------------------- MODULE BoardMigration ----------------------------
(***************************************************************************)
(* The migration of a board to the next version of its schema              *)
(* (workgraph_migrate.py): a backup of the board and of every file of its  *)
(* sidecar, a journal, the replacement of the board, and a recovery that   *)
(* takes up what was left behind.  It has a lock of its own, which neither *)
(* the adapter nor the log's writers take, and goes on only while the      *)
(* inventory of the sidecar is the one it began with.                      *)
(*                                                                         *)
(* An inventory lists device, inode, size and digest of each file, so that *)
(* any write to one of them, or a new one, is seen for ever.  What matters *)
(* of it is whether there was any since a backup was taken: intact holds   *)
(* the backups for which there was none by another program, and soiled     *)
(* those after which the migration was itself cut short while it wrote its *)
(* journal, which leaves the temporary file in the sidecar.                *)
(***************************************************************************)
EXTENDS GoalBuddyAdapter

CONSTANTS NoMigration, Idle

VARIABLES backups,    \* the boards that have a backup
          intact,     \* those since whose backup no other program wrote the sidecar
          soiled,     \* those since whose backup a temporary file was left behind
          migration,  \* the migration journal
          migrator    \* what the process with the migration lock is about to do

migrationVars == <<backups, intact, soiled, migration, migrator>>
sidecarVars == <<backups, soiled, migration, migrator>>

MigrationTypeOK ==
    /\ backups \subseteq BoardFile
    /\ intact \subseteq backups
    /\ soiled \subseteq backups
    /\ migration \in [source : BoardFile,
                      phase : {"backup_ready", "state_prepared", "state_replaced", "complete"}]
                     \cup {NoMigration}
    /\ migrator \in [pc : {"journal", "adopt", "prepare", "compare", "replace", "note", "complete"},
                     source : BoardFile] \cup {Idle}

MigrationInit ==
    /\ backups = {} /\ intact = {} /\ soiled = {}
    /\ migration = NoMigration
    /\ migrator = Idle

Migrated(b) == [b EXCEPT !.version = 3]

(* The inventory is the one that was taken for the backup of this board.   *)
Unchanged(source) == source \in intact \ soiled

Migrating(pc) == migrator # Idle /\ migrator.pc = pc
Proceeds(pc) == migrator' = [migrator EXCEPT !.pc = pc]
Stops == migrator' = Idle

Phases(phase) == migration' = [source |-> migrator.source, phase |-> phase]

(***************************************************************************)
(* migrate                                                                 *)
(***************************************************************************)
(* A backup that is there already serves only if it is the same.           *)
BackUp ==
    /\ migrator = Idle
    /\ board.version = 2
    /\ migration = NoMigration
    /\ board \in backups => Unchanged(board)
    /\ backups' = backups \cup {board}
    /\ intact' = intact \cup {board}
    /\ migrator' = [pc |-> "journal", source |-> board]
    /\ UNCHANGED <<adapterVars, soiled, migration>>

WriteMigration ==
    /\ Migrating("journal")
    /\ Phases("backup_ready")
    /\ Proceeds("prepare")
    /\ UNCHANGED <<adapterVars, backups, intact, soiled>>

PrepareState ==
    /\ Migrating("prepare")
    /\ Phases("state_prepared")
    /\ Proceeds("compare")
    /\ UNCHANGED <<adapterVars, backups, intact, soiled>>

Compare ==
    /\ Migrating("compare")
    /\ \/ board = migrator.source /\ Unchanged(board) /\ Proceeds("replace")
       \/ ~(board = migrator.source /\ Unchanged(board)) /\ Stops
    /\ UNCHANGED <<adapterVars, backups, intact, soiled, migration>>

ReplaceState ==
    /\ Migrating("replace")
    /\ board' = Migrated(migrator.source)
    /\ placed' = placed \cap migrator.source.marks
    /\ Proceeds("note")
    /\ UNCHANGED <<lineages, journals, lockFile, adapter, backups, intact, soiled, migration>>

NoteReplaced ==
    /\ Migrating("note")
    /\ Phases("state_replaced")
    /\ Proceeds("complete")
    /\ UNCHANGED <<adapterVars, backups, intact, soiled>>

Complete ==
    /\ Migrating("complete")
    /\ IF Unchanged(migrator.source) THEN Phases("complete") ELSE UNCHANGED migration
    /\ Stops
    /\ UNCHANGED <<adapterVars, backups, intact, soiled>>

(***************************************************************************)
(* recover                                                                 *)
(***************************************************************************)
(* A backup without a journal, of the board as it is, is taken up.         *)
Adopt ==
    /\ migrator = Idle
    /\ migration = NoMigration
    /\ board.version = 2
    /\ board \in backups /\ Unchanged(board)
    /\ migrator' = [pc |-> "adopt", source |-> board]
    /\ UNCHANGED <<adapterVars, backups, intact, soiled, migration>>

AdoptBackup ==
    /\ Migrating("adopt")
    /\ Phases("backup_ready")
    /\ Proceeds("compare")
    /\ UNCHANGED <<adapterVars, backups, intact, soiled>>

Resume ==
    /\ migrator = Idle
    /\ migration # NoMigration /\ migration.phase # "complete"
    /\ Unchanged(migration.source)
    /\ \/ board = migration.source
          /\ migrator' = [pc |-> "compare", source |-> migration.source]
       \/ board = Migrated(migration.source)
          /\ migrator' = [pc |-> "complete", source |-> migration.source]
    /\ UNCHANGED <<adapterVars, backups, intact, soiled, migration>>

(* Each write of the journal goes to a temporary file in the sidecar and   *)
(* replaces the journal with it; a kill in between leaves that file.       *)
WritesJournal == migrator.pc \in {"journal", "adopt", "prepare", "note", "complete"}

KillMigrator ==
    /\ migrator # Idle
    /\ \/ UNCHANGED soiled
       \/ WritesJournal /\ soiled' = backups
    /\ Stops
    /\ UNCHANGED <<adapterVars, backups, intact, migration>>
===============================================================================
