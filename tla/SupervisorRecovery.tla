-------------------------- MODULE SupervisorRecovery --------------------------
(***************************************************************************)
(* The files behind the Supervisor loop while its recovery layer governs it*)
(* (recover_supervisor_runtime.py with run_goalbuddy_supervisor.py).       *)
(*                                                                         *)
(* A loop event goes through a handshake over two stores.  The recovery    *)
(* store - a state file, an event log, a cursor log and a journal file -   *)
(* records that the event is prepared, the loop store - an event log and a *)
(* state file - takes the event, and the recovery store records that it is *)
(* committed.  Each change of the recovery store is journal, event record, *)
(* cursor record, state, journal removed, one file after the other.        *)
(* Commands are processes.  The loop's apply holds a lock on the loop      *)
(* store; nothing serialises the commands on the recovery store.  A        *)
(* process may stop between any two writes.                                *)
(*                                                                         *)
(* What one command reads it reads in one step.  A log is known by the     *)
(* state its last record names and by whether its chain is sound: every    *)
(* reader verifies the chain and refuses an unsound one for ever.  A       *)
(* cursor record is known by its number.                                   *)
(***************************************************************************)
EXTENDS SupervisorLanes, Sequences

CONSTANTS
    Process,
    Control,        \* control event files of the Parent and the Supervisor
    Order,          \* what each control event says
    SyncPaused,     \* whether the accepted synchronization state was paused
    MaxRaces,       \* bound: how often two processes change the recovery store at once
    MaxCrashes      \* bound: how often a process stops within a command

Snapshot == "snapshot"
Missing == "absent"     \* no revision, authorization, command or lock holder

OrderTypes == {"reconcile", "pause", "resume", "revise", "authorize",
               "acknowledge", "stop", "restart", "cursor"}
ASSUME OrderAssumption == \A c \in Control : Order[c].type \in OrderTypes
ASSUME CommandAssumption == /\ Event \cap Control = {}
                            /\ {Snapshot, Missing} \cap (Event \cup Control) = {}
                            /\ Missing \notin Process

VARIABLES
    loopLog,    \* loop events
    loopFile,   \* loop state file: the state after the first n events
    rec,        \* recovery state file
    recLog,     \* recovery event log
    curLog,     \* recovery cursor log
    journal,    \* the change of the recovery store that is under way, if there is one
    lock,       \* the process that holds the loop lock
    proc,       \* where each process is
    races,      \* history: how often a process set out to change the recovery store
                \* while another was changing it
    crashes

loopStore == <<loopLog, loopFile>>
recStore == <<rec, recLog, curLog, journal>>
vars == <<loopStore, recStore, lock, proc, races, crashes>>

NoChange == [before |-> {}, after |-> {}]
NoRevision == [id |-> Missing, scope |-> {}, auth |-> Missing, status |-> Missing]

(* After initialize_files of both runtimes.                                *)
Init ==
    /\ loopLog = <<>>
    /\ loopFile = [n |-> 0, loop |-> InitialLoop]
    /\ rec = [seq |-> 1, status |-> "reconciliation_required", revision |-> NoRevision,
              pending |-> {}, used |-> {}, bound |-> [n |-> 0, loop |-> InitialLoop],
              cursor |-> 1]
    /\ recLog = [after |-> rec, sound |-> TRUE]
    /\ curLog = [head |-> rec.cursor, sound |-> TRUE]
    /\ journal = {}
    /\ lock = Missing
    /\ proc = [p \in Process |-> [at |-> "idle", op |-> Missing, tx |-> NoChange]]
    /\ races = 0
    /\ crashes = 0

-------------------------------------------------------------------------------
(* What a reader makes of the stores.                                      *)

(* _bind_state: state file, event log and cursor log name one another.     *)
Agree == /\ recLog.sound /\ curLog.sound
         /\ rec = recLog.after /\ rec.cursor = curLog.head

(* _recover_pending_journal: only a change whose log records are all       *)
(* written is finished; any other is uncertain for good.                   *)
(* Wrong: the logs would not be compared with the journal.                 *)
FinishableUnread(j) == rec \in {j.before, j.after}
(* Wrong: a change whose state is already written is not finished.         *)
FinishableBefore(j) ==
    /\ recLog.sound /\ curLog.sound /\ rec = j.before
    /\ recLog.after = j.after /\ curLog.head = j.after.cursor
Finishable(j) ==
    /\ recLog.sound /\ curLog.sound
    /\ rec \in {j.before, j.after}
    /\ recLog.after = j.after /\ curLog.head = j.after.cursor

LoopWhole == loopFile.n = Len(loopLog)
Logged(e) == \E i \in DOMAIN loopLog : loopLog[i] = e

(* A change of the recovery state, as the journal holds it.                *)
Change(after) == [before |-> rec, after |-> [after EXCEPT !.seq = rec.seq + 1]]

-------------------------------------------------------------------------------
(* Control events (_transition).                                           *)

OpenFailure(loop, a) ==
    {l \in Present(loop) : loop.lanes[l].assignment = a /\ loop.lanes[l].phase = "repair_required"}

(* _repair_authorization: a repair of an open failure, fresh and no wider. *)
Authorizable(s, o) ==
    /\ s.status = "revision_required" /\ o.revision = s.revision.id
    /\ o.repair # o.predecessor /\ o.repair \notin Consumed(s.bound.loop)
    /\ OpenFailure(s.bound.loop, o.predecessor) = {o.lane}
    /\ o.artifact \notin Reserved(s.bound.loop)
    /\ o.scope \subseteq s.revision.scope \cap Terms[o.predecessor].scope

Acknowledged(s, o) ==
    /\ s.status = "active"
    /\ s.revision.status \in {"assignment_committed", "result_prepared", "result_committed"}
    /\ Order[s.revision.auth].predecessor = o.predecessor
    /\ Order[s.revision.auth].repair = o.repair
    /\ \E l \in Lane : /\ s.bound.loop.lanes[l].assignment = o.repair
                       /\ o.predecessor \in s.bound.loop.lanes[l].replaced

(* Wrong: a control event would not wait for the pending loop event.       *)
PermittedWhilePending(s, c) ==
    LET o == Order[c] IN
    /\ c \notin s.used
    /\ s.status = "reconciliation_required" => o.type \in {"reconcile", "stop", "cursor"}
    /\ s.status = "stopped" => o.type = "cursor"
    /\ o.type = "pause" => s.status = "active"
    /\ o.type = "resume" => s.status = "paused"
(* Wrong: a stopped Supervisor could be resumed.                           *)
PermittedAfterStop(s, c) ==
    LET o == Order[c] IN
    /\ c \notin s.used
    /\ s.pending = {}
    /\ s.status = "reconciliation_required" => o.type \in {"reconcile", "stop", "cursor"}
    /\ o.type = "revise" => s.status \in {"active", "paused"}
    /\ o.type = "authorize" => Authorizable(s, o)
    /\ o.type = "acknowledge" => Acknowledged(s, o)
Permitted(s, c) ==
    LET o == Order[c] IN
    /\ c \notin s.used
    /\ s.pending = {}
    /\ s.status = "reconciliation_required" => o.type \in {"reconcile", "stop", "cursor"}
    /\ s.status = "stopped" => o.type = "cursor"
    /\ CASE o.type = "pause" -> s.status = "active"
         [] o.type = "resume" -> s.status = "paused"
         [] o.type = "revise" -> s.status \in {"active", "paused"}
         [] o.type = "authorize" -> Authorizable(s, o)
         [] o.type = "acknowledge" -> Acknowledged(s, o)
         [] OTHER -> TRUE

Controlled(s, c) ==
    LET o == Order[c] IN
    [s EXCEPT
        !.used = @ \cup {c},
        !.status = CASE o.type = "reconcile" -> IF SyncPaused THEN "paused" ELSE "active"
                     [] o.type = "pause" -> "paused"
                     [] o.type \in {"resume", "authorize"} -> "active"
                     [] o.type = "revise" -> "revision_required"
                     [] o.type = "stop" -> "stopped"
                     [] OTHER -> @,
        !.revision =
            CASE o.type = "revise" -> [NoRevision EXCEPT !.id = c, !.scope = o.scope]
              [] o.type = "authorize" -> [@ EXCEPT !.auth = c, !.status = "authorized"]
              [] o.type = "stop" -> [@ EXCEPT !.status = IF @ = Missing THEN @ ELSE "invalidated"]
              [] OTHER -> @,
        !.cursor = IF o.type = "cursor" THEN @ + 1 ELSE @]

-------------------------------------------------------------------------------
(* The handshake (begin_ and complete_loop_transition_files).              *)

CurrentLane(loop) == loop.lanes[loop.active]

(* _validate_lane_authorization.                                           *)
Authorizes(c, a) ==
    /\ Order[c].repair = a /\ Order[c].lane = Terms[a].lane
    /\ Order[c].artifact = Terms[a].artifact /\ Order[c].scope = Terms[a].scope

(* _repair_authorization_use: which use of the authorization the event is, *)
(* judged by the phase and the lane of the event before it.                *)
Uses(s, loop, e) ==
    LET c == Content[e]
        auth == s.revision.auth
        opening == c.type = "assignment_created" /\ loop.phase = "repair_required"
        repairing == ~opening /\ loop.active # Nothing /\ CurrentLane(loop).repair IN
    IF opening
    THEN {u \in {"assignment"} :
            /\ s.revision.status = "authorized" /\ Authorizes(auth, c.value)
            /\ CurrentLane(loop).assignment = Order[auth].predecessor
            /\ OpenFailure(loop, Order[auth].predecessor) # {}}
    ELSE IF repairing
    THEN {u \in {IF c.type = "repair_result" THEN "result" ELSE Nothing} :
            /\ auth # Missing /\ Authorizes(auth, CurrentLane(loop).assignment)
            /\ u = "result" => /\ s.revision.status = "assignment_committed"
                               /\ c.artifact = Order[auth].artifact}
    ELSE {Nothing}

PreparedUse == [assignment |-> "assignment_prepared", result |-> "result_prepared"]
CommittedUse == [assignment |-> "assignment_committed", result |-> "result_committed"]
Spend(revision, use, stage) ==
    IF use = Nothing THEN revision ELSE [revision EXCEPT !.status = stage[use]]

Preparable(e) ==
    /\ rec.pending = {} /\ rec.status = "active"
    /\ rec.bound = loopFile /\ e \notin rec.used
    /\ ~Logged(e) /\ Accepts(loopFile.loop, e)
    /\ Uses(rec, loopFile.loop, e) # {}

Prepared(e) ==
    LET use == CHOOSE u \in Uses(rec, loopFile.loop, e) : TRUE IN
    Change([rec EXCEPT !.pending = {[event |-> e, n |-> loopFile.n, use |-> use]},
                       !.used = @ \cup {e},
                       !.revision = Spend(@, use, PreparedUse)])

(* The pending event is in the loop's log, and so is the repair it opened. *)
Committable(w) ==
    /\ w \in rec.pending /\ loopFile.n = w.n + 1 /\ loopLog[loopFile.n] = w.event
    /\ w.use # Nothing =>
          /\ rec.revision.status = PreparedUse[w.use]
          /\ Authorizes(rec.revision.auth, CurrentLane(loopFile.loop).assignment)

Committed(w) ==
    Change([rec EXCEPT !.pending = {}, !.bound = loopFile,
                       !.revision = Spend(@, w.use, CommittedUse)])

(* Wrong: an event that was already written would be resumed.              *)
ResumableWritten(e) == rec.status = "active" /\ \E w \in rec.pending : w.event = e
(* A retry of the event that was prepared and not written.                 *)
Resumable(e) ==
    /\ \E w \in rec.pending : w.event = e /\ w.n = loopFile.n
    /\ rec.status = "active" /\ Accepts(loopFile.loop, e)

-------------------------------------------------------------------------------
(* Commands.                                                               *)

At(p, s) == proc[p].at = s
Goes(p, s) == [proc EXCEPT ![p].at = s]
Takes(p, s, op, tx) == [proc EXCEPT ![p] = [at |-> s, op |-> op, tx |-> tx]]
Quits(p) == [proc EXCEPT ![p] = [at |-> "idle", op |-> Missing, tx |-> NoChange]]
Release(p) == lock' = IF lock = p THEN Missing ELSE lock

(* The places of a process that is about to change the recovery store on   *)
(* the strength of what it read.                                           *)
Changing == {"restore", "unjournal", "claim", "journal", "append", "cursor", "replace", "clear"}
Others(p) == \E q \in Process \ {p} : proc[q].at \in Changing
Sets(p, s, op, tx) ==
    /\ IF Others(p) THEN races < MaxRaces /\ races' = races + 1 ELSE UNCHANGED races
    /\ proc' = Takes(p, s, op, tx)
Step(next) == proc' = next /\ UNCHANGED races

(* A command is about to read: it begins - a loop event once it has the    *)
(* lock - or it starts over after it recovered a journal or committed the  *)
(* event of another command.                                               *)
Reads(p, op) ==
    \/ At(p, "idle") /\ (op \in Event => lock = Missing)
    \/ At(p, "read") /\ proc[p].op = op
Locks(p, op) == lock' = IF op \in Event THEN p ELSE lock

(* A loop command looks at its own pair before it opens the recovery store.*)
FindJournal(p, op) ==
    /\ Reads(p, op) /\ (op \in Event => LoopWhole)
    /\ \E j \in journal :
          /\ Finishable(j)
          /\ Sets(p, IF rec = j.after THEN "unjournal" ELSE "restore", op, j)
    /\ Locks(p, op)
    /\ UNCHANGED <<loopStore, recStore, crashes>>

Restore(p) ==
    /\ At(p, "restore")
    /\ rec' = proc[p].tx.after
    /\ Step(Goes(p, "unjournal"))
    /\ UNCHANGED <<loopStore, recLog, curLog, journal, lock, crashes>>

Unjournal(p) ==
    /\ At(p, "unjournal")
    /\ journal' = {}
    /\ Step(Takes(p, "read", proc[p].op, NoChange))
    /\ UNCHANGED <<loopStore, rec, recLog, curLog, lock, crashes>>

(* _verified_recovery_context, with no journal left to recover.            *)
Verified == LoopWhole /\ journal = {} /\ Agree

DecideControl(p, c) ==
    /\ Reads(p, c) /\ Verified /\ Permitted(rec, c)
    /\ Sets(p, "claim", c, Change(Controlled(rec, c)))
    /\ UNCHANGED <<loopStore, recStore, lock, crashes>>

DecidePrepare(p, e) ==
    /\ Reads(p, e) /\ Verified /\ Preparable(e)
    /\ Sets(p, "claim", e, Prepared(e))
    /\ Locks(p, e)
    /\ UNCHANGED <<loopStore, recStore, crashes>>

(* complete_, or reconcile_pending_loop_transition_files of a later event. *)
DecideCommit(p, e) ==
    /\ Reads(p, e) /\ Verified
    /\ \E w \in rec.pending : Committable(w) /\ Sets(p, "claim", e, Committed(w))
    /\ Locks(p, e)
    /\ UNCHANGED <<loopStore, recStore, crashes>>

Resume(p, e) ==
    /\ Reads(p, e) /\ Verified /\ Resumable(e)
    /\ Step(Takes(p, "loop_append", e, NoChange))
    /\ Locks(p, e)
    /\ UNCHANGED <<loopStore, recStore, crashes>>

(* A command that has already written something has nothing more to do, or *)
(* is refused; one that has not leaves no trace when it is.                *)
Return(p) ==
    LET op == proc[p].op IN
    /\ At(p, "read")
    /\ \/ \E j \in journal : ~Finishable(j)
       \/ op \in Event /\ ~LoopWhole
       \/ journal = {} /\ ~Verified
       \/ /\ Verified
          /\ op \in Control => ~Permitted(rec, op)
          /\ op \in Event => /\ ~\E w \in rec.pending : Committable(w)
                             /\ ~Preparable(op) /\ ~Resumable(op)
    /\ Step(Quits(p))
    /\ Release(p)
    /\ UNCHANGED <<loopStore, recStore, crashes>>

(* _write_journal: the look for a journal, then the file.                  *)
ClaimJournal(p) ==
    /\ At(p, "claim")
    /\ IF journal = {}
       THEN /\ Step(Goes(p, "journal"))
            /\ UNCHANGED <<loopStore, recStore, lock, crashes>>
       ELSE /\ Step(Quits(p))
            /\ Release(p)
            /\ UNCHANGED <<loopStore, recStore, crashes>>

WriteJournal(p) ==
    /\ At(p, "journal")
    /\ journal' = {proc[p].tx}
    /\ Step(Goes(p, "append"))
    /\ UNCHANGED <<loopStore, rec, recLog, curLog, lock, crashes>>

(* A record follows the state it was made from, or breaks the chain.       *)
AppendEvent(p) ==
    LET tx == proc[p].tx IN
    /\ At(p, "append")
    /\ recLog' = [after |-> tx.after, sound |-> recLog.sound /\ recLog.after = tx.before]
    /\ Step(Goes(p, IF tx.after.cursor = tx.before.cursor THEN "replace" ELSE "cursor"))
    /\ UNCHANGED <<loopStore, rec, curLog, journal, lock, crashes>>

AppendCursor(p) ==
    LET tx == proc[p].tx IN
    /\ At(p, "cursor")
    /\ curLog' = [head |-> tx.after.cursor, sound |-> curLog.sound /\ curLog.head = tx.before.cursor]
    /\ Step(Goes(p, "replace"))
    /\ UNCHANGED <<loopStore, rec, recLog, journal, lock, crashes>>

ReplaceState(p) ==
    /\ At(p, "replace")
    /\ rec' = proc[p].tx.after
    /\ Step(Goes(p, "clear"))
    /\ UNCHANGED <<loopStore, recLog, curLog, journal, lock, crashes>>

(* The change is done: a control event returns, a prepared event is        *)
(* written, and a commit of another event leads back to the own one.       *)
ClearJournal(p) ==
    LET tx == proc[p].tx
        op == proc[p].op IN
    /\ At(p, "clear")
    /\ journal' = {}
    /\ IF op \in Event /\ tx.after.pending # {}
       THEN Step(Takes(p, "loop_append", op, NoChange)) /\ UNCHANGED lock
       ELSE IF \E w \in tx.before.pending : w.event # op
       THEN Step(Takes(p, "read", op, NoChange)) /\ UNCHANGED lock
       ELSE Step(Quits(p)) /\ Release(p)
    /\ UNCHANGED <<loopStore, rec, recLog, curLog, crashes>>

AppendLoop(p) ==
    /\ At(p, "loop_append")
    /\ loopLog' = Append(loopLog, proc[p].op)
    /\ Step(Goes(p, "loop_replace"))
    /\ UNCHANGED <<loopFile, recStore, lock, crashes>>

ReplaceLoop(p) ==
    /\ At(p, "loop_replace")
    /\ loopFile' = [n |-> loopFile.n + 1, loop |-> After(loopFile.loop, proc[p].op)]
    /\ Step(Goes(p, "read"))
    /\ UNCHANGED <<loopLog, recStore, lock, crashes>>

(* The process is killed, or a write of it fails.                          *)
Crash(p) ==
    /\ ~At(p, "idle") /\ crashes < MaxCrashes
    /\ crashes' = crashes + 1
    /\ Step(Quits(p))
    /\ Release(p)
    /\ UNCHANGED <<loopStore, recStore>>

Decides(p) ==
    \/ \E op \in Event \cup Control \cup {Snapshot} : FindJournal(p, op)
    \/ \E c \in Control : DecideControl(p, c)
    \/ \E e \in Event : DecidePrepare(p, e) \/ DecideCommit(p, e) \/ Resume(p, e)

Writes(p) ==
    \/ Restore(p) \/ Unjournal(p) \/ ClaimJournal(p) \/ WriteJournal(p)
    \/ AppendEvent(p) \/ AppendCursor(p) \/ ReplaceState(p) \/ ClearJournal(p)
    \/ AppendLoop(p) \/ ReplaceLoop(p) \/ Return(p)

Next == \E p \in Process : Decides(p) \/ Writes(p) \/ Crash(p)

Spec == Init /\ [][Next]_vars

(* A command that has begun goes on unless it is killed, and the caller    *)
(* that is told recovery_commit_pending repeats its event.                 *)
Retries(e) == \E p \in Process : FindJournal(p, e) \/ DecideCommit(p, e) \/ Resume(p, e)
LiveSpec ==
    /\ Spec
    /\ \A p \in Process : WF_vars(Writes(p))
    /\ \A e \in Event : WF_vars(Retries(e))

-------------------------------------------------------------------------------
(* Properties.                                                             *)

(* The state the loop's history leads to, while the state file may be one  *)
(* event behind.                                                           *)
LoopNow == IF LoopWhole THEN loopFile.loop ELSE After(loopFile.loop, loopLog[Len(loopLog)])
Loop == INSTANCE SupervisorLoop WITH loop <- LoopNow, log <- loopLog

(* Whatever the recovery store goes through - crashes, retries, commands   *)
(* that overwrite one another's state - the loop's own history stays one   *)
(* the loop accepts, event by event, and no event enters it twice.         *)
LoopImplemented == Loop!Spec

WritersApart == Loop!WritersApart
DoneIsVerified == Loop!DoneIsVerified
AssignmentsUsedOnce == Loop!AssignmentsUsedOnce

(* The files of the recovery store explain one another at every moment:    *)
(* without a journal they agree, and with one each of them is as it was    *)
(* before the journal's change or after it, written in the order event     *)
(* record, cursor record, state.                                           *)
StoreExplained ==
    \/ races > 0
    \/ /\ recLog.sound /\ curLog.sound
       /\ journal = {} => Agree
       /\ \A j \in journal :
             <<recLog.after, curLog.head, rec>> \in
                LET b == j.before
                    a == j.after IN
                {<<b, b.cursor, b>>, <<a, b.cursor, b>>, <<a, a.cursor, b>>, <<a, a.cursor, a>>}

(* A loop event is written only while the recovery state is active and has *)
(* exactly this event prepared.                                            *)
WrittenWhenPrepared ==
    [][loopLog' # loopLog =>
          \/ races > 0
          \/ /\ rec.status = "active"
             /\ \E w \in rec.pending : w.event = loopLog'[Len(loopLog')]]_vars

(* stop is terminal, and an authorization is spent in one direction: a     *)
(* restored state never gives back what it paid for.                       *)
Spending == <<"authorized", "assignment_prepared", "assignment_committed",
              "result_prepared", "result_committed", "invalidated">>
Rank(revision) ==
    IF revision.status = Missing THEN 0 ELSE CHOOSE i \in DOMAIN Spending : Spending[i] = revision.status
NothingGivenBack ==
    [][races' = 0 =>
          /\ rec.status = "stopped" => rec'.status = "stopped" /\ loopLog' = loopLog
          /\ rec.revision.id = rec'.revision.id => Rank(rec.revision) <= Rank(rec'.revision)
          /\ rec.used \subseteq rec'.used]_vars

(* The windows in which a crash leaves stores that every later command     *)
(* refuses: a journal whose event or cursor record was never written, and  *)
(* a loop event without its state.                                         *)
Unwritten == \E j \in journal :
    /\ recLog.after = j.before \/ curLog.head # j.after.cursor
    /\ \A p \in Process : proc[p].at \notin Changing
Torn == ~LoopWhole /\ \A p \in Process : ~At(p, "loop_replace")

(* A prepared event is committed in the end when it is retried, unless two *)
(* commands overlapped or a crash hit one of these windows: no other crash *)
(* and no order of commands leaves the handshake half done for good.       *)
PendingSettles ==
    rec.pending # {} ~> (rec.pending = {} \/ races > 0 \/ Unwritten \/ Torn)

===============================================================================
