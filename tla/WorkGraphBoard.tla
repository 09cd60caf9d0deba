---------------------------- MODULE WorkGraphBoard ----------------------------
(***************************************************************************)
(* A board, its sidecar and all who write them: processes of the adapter,  *)
(* the writers of the updates log, GoalBuddy, and the migration.  They     *)
(* share no lock: the adapter holds one beside the board, an append the    *)
(* log's, the migration its own, and GoalBuddy none.                       *)
(***************************************************************************)
EXTENDS BoardMigration

CONSTANTS MaxEdits,   \* bound on the edits of GoalBuddy
          MaxKills    \* bound on the processes that are killed

VARIABLES edits, kills

boardVars == <<adapterVars, migrationVars, edits, kills>>

BoardTypeOK ==
    /\ AdapterTypeOK
    /\ MigrationTypeOK
    /\ edits \in 0..MaxEdits
    /\ kills \in 0..MaxKills

BoardInit == AdapterInit /\ MigrationInit /\ edits = 0 /\ kills = 0

(***************************************************************************)
(* What each step does to the inventory of the migration                   *)
(***************************************************************************)
WritesSidecar == intact' = {} /\ UNCHANGED <<sidecarVars, edits, kills>>
LeavesSidecar == UNCHANGED <<migrationVars, edits, kills>>

Apply == \E u \in Update, j \in Journal : Prepare(u, j) /\ WritesSidecar

Work(job) ==
    \/ (Reread(job) \/ Replace(job)) /\ LeavesSidecar
    \/ (Note(job) \/ Finish(job)) /\ WritesSidecar
    \/ /\ AppendApplied(job) \/ AppendReconciled(job)
       /\ IF lineages' = lineages THEN LeavesSidecar ELSE WritesSidecar

WorkSome == \E job \in adapter : Work(job)

RecoverJournal(j) ==
    \/ TakeUp(j) /\ LeavesSidecar
    \/ (ResolveUnwritten(j) \/ Confirm(j)) /\ WritesSidecar

RefuseSome == Refuse /\ WritesSidecar
ProposeSome == \E u \in Update : Propose(u) /\ WritesSidecar

EditSome ==
    /\ edits < MaxEdits /\ edits' = edits + 1
    /\ \E m \in Mark : Edit(m)
    /\ UNCHANGED <<migrationVars, kills>>

(* A process of the adapter that is killed as it writes the journal leaves *)
(* a temporary file in the sidecar too.                                    *)
Kill ==
    /\ kills < MaxKills /\ kills' = kills + 1
    /\ UNCHANGED edits
    /\ \/ KillMigrator
       \/ \E job \in adapter :
            /\ \/ UNCHANGED intact
               \/ job.pc \in {"note", "finish"} /\ intact' = {}
            /\ KillAdapter(job)
            /\ UNCHANGED sidecarVars

MigrationWorks ==
    /\ WriteMigration \/ PrepareState \/ Compare \/ ReplaceState \/ NoteReplaced \/ Complete
        \/ AdoptBackup
    /\ UNCHANGED <<edits, kills>>

MigrationStarts == (BackUp \/ Adopt) /\ UNCHANGED <<edits, kills>>
MigrationResumes == Resume /\ UNCHANGED <<edits, kills>>

BoardNext ==
    \/ Apply
    \/ WorkSome
    \/ \E j \in Journal : RecoverJournal(j)
    \/ RefuseSome \/ ProposeSome \/ EditSome \/ Kill
    \/ MigrationStarts \/ MigrationWorks \/ MigrationResumes

BoardSpec == BoardInit /\ [][BoardNext]_boardVars

(***************************************************************************)
(* A process that is not killed goes on, and recovery is called again as   *)
(* long as it is needed.  Nothing is assumed of those who start anything.  *)
(***************************************************************************)
Open(j) == journals[j] # NoJournal /\ journals[j].phase \notin Closed

Fairness ==
    /\ WF_boardVars(WorkSome)
    /\ \A j \in Journal : WF_boardVars(Open(j) /\ RecoverJournal(j))
    /\ WF_boardVars(MigrationWorks)
    /\ WF_boardVars(MigrationResumes)

BoardLiveSpec == BoardSpec /\ Fairness

(***************************************************************************)
(* Properties                                                              *)
(***************************************************************************)
(* An update that the adapter put on the board, and that nobody has taken  *)
(* off it, has its applied row in the log, or a journal from which         *)
(* recovery will append it, whatever was killed, whatever others wrote to  *)
(* the log meanwhile, and also when other updates followed.                *)
WrittenIsAccounted ==
    \A u \in placed :
        \/ HasOwn(u, "applied")
        \/ \E j \in Journal : Open(j) /\ journals[j].update = u

(* A process of the adapter that is about to replace the board does not    *)
(* take off it what another of its processes put there.                    *)
NoApplicationLost ==
    \A job \in adapter : job.pc = "replace" => placed \subseteq job.base.marks

(* What recovery cannot take up: the board was edited, or went back to its *)
(* base after it was replaced, or someone else ended the lineage.          *)
Diverged(j) == board \notin {journals[j].base, Result(journals[j])}
Reverted(j) == board = journals[j].base /\ ~Untouched(j)
Overruled(j) ==
    LET u == journals[j].update IN ~Approved(u) /\ ~Newest(u).own

MigrationPending == migration # NoMigration /\ migration.phase # "complete"
AsBackedUp == board \in {migration.source, Migrated(migration.source)}

(* Every journal that an application or a migration leaves open is closed  *)
(* by the recoveries that follow, unless the board or the lineage was      *)
(* changed in one of the ways that make recovery refuse it.                *)
RecoverySettles ==
    /\ \A j \in Journal :
        Open(j) ~> (~Open(j) \/ Diverged(j) \/ Reverted(j) \/ Overruled(j))
    /\ MigrationPending ~>
        (~MigrationPending \/ ~AsBackedUp \/ ~Unchanged(migration.source))

(* The contract of the migration: its own lock, journal, temporary and     *)
(* backup paths do not count as history, and a journal left before the end *)
(* is completed by recovery while board and history are as they were.      *)
OwnFilesDoNotCount ==
    MigrationPending ~>
        (~MigrationPending \/ ~AsBackedUp \/ migration.source \notin intact)
===============================================================================
