--------------------------- MODULE GoalBuddyAdapter ---------------------------
(***************************************************************************)
(* The adapter that carries an approved update into the GoalBuddy board    *)
(* (workgraph_goalbuddy_adapter.py).  An application writes a journal,     *)
(* reads the board again, replaces it, notes that in the journal, appends  *)
(* the applied row to the log and closes the journal; recovery takes up a  *)
(* journal that was left behind.  Both hold the lock beside the board from *)
(* their first read to their last write; GoalBuddy, which edits the board, *)
(* and the log's other writers do not take it.                             *)
(*                                                                         *)
(* A board is the version of its schema and the marks that updates and     *)
(* edits left on it.  The journal is a file that the caller names.  An     *)
(* exception after a write leaves what a kill there leaves.                *)
(***************************************************************************)
EXTENDS WorkGraphUpdates

CONSTANTS Journal,
          Mark         \* bound: the marks that GoalBuddy sets and takes away

VARIABLES board,     \* state.yaml
          journals,  \* the journal file of each name
          lockFile,  \* the lock file lies in the sidecar
          adapter,   \* what the process with the lock is about to do: no job, or one
          placed     \* the marks on the board that the adapter put there

adapterVars == <<board, lineages, journals, lockFile, adapter, placed>>

BoardFile == [version : {2, 3}, marks : SUBSET (Update \cup Mark)]
Phase == {"prepared", "board_written", "ledger_written", "resolved_pre_write"}
Job == [pc : {"reread", "replace", "note", "append", "reconcile", "finish"},
        journal : Journal, update : Update, base : BoardFile, recovering : BOOLEAN]

(* The log's rows, and a name under which no journal was written.          *)
Row == [transition : {"proposed", "reviewed", "rejected", "applied", "reconciled", "superseded"},
        decision : {"none", "approve", "reject", "supersede"},
        base : BoardFile, replacement : Update \cup {NoUpdate}, own : BOOLEAN]
NoJournal == [phase |-> "none"]

AdapterTypeOK ==
    /\ board \in BoardFile
    /\ lineages \in [Update -> Seq(Row)]
    /\ journals \in [Journal -> [update : Update, base : BoardFile, phase : Phase] \cup {NoJournal}]
    /\ lockFile \in BOOLEAN
    /\ adapter \in SUBSET Job
    /\ placed \subseteq Update

AdapterInit ==
    /\ board = [version |-> 2, marks |-> {}]
    /\ LogInit
    /\ journals = [j \in Journal |-> NoJournal]
    /\ lockFile = FALSE
    /\ adapter = {}
    /\ placed = {}

(* Wrong: the lock would not keep another process out.                     *)
LockIgnored == TRUE

LockFree == adapter = {}

Patchable(u, b) == b.version = 2 /\ u \notin b.marks
Patched(u, b) == [b EXCEPT !.marks = @ \cup {u}]

Begins(job) == LockFree /\ adapter' = adapter \cup {job}
Goes(job, pc) == adapter' = (adapter \ {job}) \cup {[job EXCEPT !.pc = pc]}
Ends(job) == adapter' = adapter \ {job}

WriteJournal(job, phase) ==
    journals' = [journals EXCEPT
        ![job.journal] = [update |-> job.update, base |-> job.base, phase |-> phase]]

(***************************************************************************)
(* apply_update                                                            *)
(***************************************************************************)
(* Wrong: a journal whose board was written would not ask for recovery.    *)
ClosedOnceWritten == {"board_written", "ledger_written", "resolved_pre_write"}

Closed == {"ledger_written", "resolved_pre_write"}

Vacant(j) == journals[j] # NoJournal => journals[j].phase \in Closed

(* What is read under the lock is approved, current and patchable; the     *)
(* journal says what will be done before anything is.                      *)
Prepare(u, j) ==
    LET job == [pc |-> "reread", journal |-> j, update |-> u, base |-> board, recovering |-> FALSE]
    IN  /\ Begins(job)
        /\ Approved(u) /\ Newest(u).base = board /\ Patchable(u, board)
        /\ Vacant(j)
        /\ WriteJournal(job, "prepared")
        /\ lockFile' = TRUE
        /\ UNCHANGED <<board, lineages, placed>>

Reread(job) ==
    /\ job.pc = "reread"
    /\ \/ board = job.base /\ Goes(job, "replace")
       \/ board # job.base /\ Ends(job)
    /\ UNCHANGED <<board, lineages, journals, lockFile, placed>>

Replace(job) ==
    /\ job.pc = "replace"
    /\ board' = Patched(job.update, job.base)
    /\ placed' = (placed \cap job.base.marks) \cup {job.update}
    /\ Goes(job, "note")
    /\ UNCHANGED <<lineages, journals, lockFile>>

Note(job) ==
    /\ job.pc = "note"
    /\ WriteJournal(job, "board_written")
    /\ Goes(job, "append")
    /\ UNCHANGED <<board, lineages, lockFile, placed>>

(* The append reads the log again under its own lock, and may be refused.  *)
AppendOwn(job, transition, next) ==
    LET row == OwnRow(job.base, transition)
    IN  /\ \/ AppendRow(job.update, row) /\ Goes(job, next)
           \/ ~Admits(job.update, row) /\ Ends(job) /\ UNCHANGED lineages
        /\ UNCHANGED <<board, journals, lockFile, placed>>

AppendApplied(job) ==
    /\ job.pc = "append"
    /\ AppendOwn(job, "applied", IF job.recovering THEN "reconcile" ELSE "finish")

Finish(job) ==
    /\ job.pc = "finish"
    /\ WriteJournal(job, "ledger_written")
    /\ Ends(job)
    /\ UNCHANGED <<board, lineages, lockFile, placed>>

(***************************************************************************)
(* recover                                                                 *)
(***************************************************************************)
Result(journal) == Patched(journal.update, journal.base)

(* Wrong: a row that is there already would be appended again.             *)
OwesBoth(u) == "append"

(* The first row that recovery finds missing.                              *)
Owes(u) == IF HasOwn(u, "applied") THEN "reconcile" ELSE "append"

Untouched(j) ==
    /\ journals[j].phase = "prepared"
    /\ board = journals[j].base
    /\ ~HasOwn(journals[j].update, "applied")

Landed(j) ==
    /\ journals[j].phase # "resolved_pre_write"
    /\ board = Result(journals[j])

Examines(j) ==
    /\ LockFree
    /\ journals[j] # NoJournal
    /\ lockFile' = TRUE
    /\ UNCHANGED <<board, placed>>

(* The board is as it was: nothing was done.                               *)
ResolveUnwritten(j) ==
    /\ Examines(j)
    /\ Untouched(j)
    /\ journals' = [journals EXCEPT ![j].phase = "resolved_pre_write"]
    /\ UNCHANGED <<lineages, adapter>>

(* The board is as intended: the rows that are missing are appended.       *)
TakeUp(j) ==
    LET u == journals[j].update
    IN  /\ Examines(j)
        /\ Landed(j)
        /\ ~HasOwn(u, "reconciled")
        /\ Begins([pc |-> Owes(u), journal |-> j, update |-> u, base |-> journals[j].base,
                   recovering |-> TRUE])
        /\ UNCHANGED <<lineages, journals>>

(* Nothing is missing; the journal is written all the same.                *)
Confirm(j) ==
    /\ Examines(j)
    /\ Landed(j)
    /\ HasOwn(journals[j].update, "reconciled")
    /\ journals' = [journals EXCEPT ![j].phase = "ledger_written"]
    /\ UNCHANGED <<lineages, adapter>>

AppendReconciled(job) == job.pc = "reconcile" /\ AppendOwn(job, "reconciled", "finish")

(* Any other call is refused, and leaves the lock file if it was the first.*)
Refuse ==
    /\ LockFree
    /\ ~lockFile /\ lockFile' = TRUE
    /\ UNCHANGED <<board, lineages, journals, adapter, placed>>

KillAdapter(job) ==
    /\ Ends(job)
    /\ UNCHANGED <<board, lineages, journals, lockFile, placed>>

(***************************************************************************)
(* The others                                                              *)
(***************************************************************************)
(* GoalBuddy sets a mark or takes one away.                                *)
Edit(m) ==
    /\ board' = [board EXCEPT !.marks = IF m \in @ THEN @ \ {m} ELSE @ \cup {m}]
    /\ placed' = placed \ {m}
    /\ UNCHANGED <<lineages, journals, lockFile, adapter>>

Propose(u) ==
    /\ AppendByHand(u, board)
    /\ UNCHANGED <<board, journals, lockFile, adapter, placed>>
===============================================================================
