---------------------------- MODULE ApplyDispatch ----------------------------
(***************************************************************************)
(* The application of results to the Supervisor runtime as a resumable     *)
(* transaction over four files: a write-ahead recovery file, the           *)
(* Supervisor's event log, its state file and the dispatch ledger, closed  *)
(* by a receipt. Worker results are applied as they were admitted          *)
(* (apply_scheduled_dispatch.py); the later stages of a lane through a     *)
(* packet compiled against the Supervisor's state of the day               *)
(* (compile_role_lifecycle.py, apply_role_lifecycle.py). Among these, self *)
(* test and closeout have no lease and leave no row in the ledger.         *)
(*                                                                         *)
(* An invocation holds the Supervisor lock from its first check to its     *)
(* end, and the scheduler lock unless its result has no lease, so nothing  *)
(* else writes what it writes; but it may stop between any two writes, and *)
(* until it is retried operators work on the lease and other Supervisor    *)
(* events are applied.                                                     *)
(*                                                                         *)
(* A state of the Supervisor is identified by the number of log records it *)
(* reflects: it carries the hash of the last one, and a stored snapshot of *)
(* the recovery file is the state after so many records.                   *)
(***************************************************************************)
EXTENDS DispatchLedger, FiniteSets

CONSTANTS
    App,          \* the results to apply, each to a receipt of its own
    Packets,      \* those that are applied through a lifecycle packet
    Control,      \* those of the packets that have no lease
    Events,       \* how many Supervisor events a result consists of
    MaxLeases,    \* bound on the results that are admitted
    MaxStops,     \* bound on the invocations that stop half way
    MaxForeign    \* bound on Supervisor events that are not part of a result

ASSUME ConstantsAssumption ==
    /\ Control \subseteq Packets /\ Packets \subseteq App
    /\ Events \in [App -> Nat \ {0}] /\ MaxLeases \in Nat /\ MaxStops \in Nat
    /\ MaxForeign \in Nat

Nobody == "nobody"
Supervisor == "supervisor"
ASSUME NamesAssumption == Nobody \notin App /\ Supervisor \notin App

VARIABLES
    ledger,     \* rows of the leases in the dispatch ledger
    log,        \* records of the Supervisor's event log
    state,      \* how many of them the Supervisor's state reflects
    bound,      \* the state each result was bound to, if it was
    wal,        \* the recovery file of each result, if there is one
    receipt,    \* the receipt of each result, if there is one
    board,      \* whether the board is still the one the results were bound to
    running,    \* who holds the Supervisor lock
    step,       \* where the running invocation is
    stage,      \* ledger stages it has gone through
    missing,    \* whether it has found a stage missing
    stops       \* invocations of an application that stopped half way

files == <<ledger, log, state, wal, receipt>>
process == <<running, step, stage, missing>>
vars == <<files, process, bound, board, stops>>

(* A value that may be absent is a set of at most one element.             *)
AtMostOne(S) == \A x, y \in S : x = y

(* The ledger rows of a successful application, in the order of appending. *)
Stages == <<"dispatch_finished", "quality_accepted", "schedule_closed",
            "lease_released">>
Stage == {Stages[i] : i \in DOMAIN Stages}

(* A row of the application names the schedule manifest of its result.     *)
LedgerRow == [type : EventTypes \cup Stage, lease : App, manifest : BOOLEAN, at : Nat]
LogRecord == [by : App \cup {Supervisor}, event : Nat]

Recovery == [before : Nat, from : Nat, started : Nat, counted : Nat, rows : Seq(Nat),
             receipted : BOOLEAN]
Receipt == [rows : Seq(Nat), before : Nat]

-----------------------------------------------------------------------------
(* What an invocation reads.                                               *)

LeaseRows(a) == {i \in DOMAIN ledger : ledger[i].lease = a}
LeaseActive(a) == \E i \in ActiveRows(ledger) : ledger[i].lease = a
Terminal(a) == {i \in LeaseRows(a) : ledger[i].type \in TerminalLeaseEvents}

(* Wrong: an unknown execution would not stop the application.             *)
LeaseUsableUnknown(a) ==
    \/ Terminal(a) = {} /\ LeaseActive(a)
    \/ \E i \in Terminal(a) :
           Terminal(a) = {i} /\ ledger[i].type = "lease_released" /\ ledger[i].manifest

(* _verify_ledger: the execution is not unknown, and the lease is active   *)
(* or was ended by this very application.                                  *)
LeaseUsable(a) ==
    /\ \A i \in LeaseRows(a) : ledger[i].type # "execution_unknown"
    /\ \/ Terminal(a) = {} /\ LeaseActive(a)
       \/ \E i \in Terminal(a) :
              Terminal(a) = {i} /\ ledger[i].type = "lease_released" /\ ledger[i].manifest

(* _application_row: the rows of a stage.                                  *)
StageRows(a, type) == {i \in LeaseRows(a) : ledger[i].type = type}

Bundle(a) == [k \in 1 .. Events[a] |-> [by |-> a, event |-> k]]
Since(w) == SubSeq(log, w.before + 1, Len(log))
Prefix(w) == Len(log) - w.before

(* Wrong: the records since the recovery file would not be compared.       *)
OwnSinceUnchecked(a, w) == w.before <= Len(log) /\ Prefix(w) <= Events[a]

(* What was logged since the recovery file is a prefix of the bundle.      *)
OwnSince(a, w) ==
    /\ w.before <= Len(log)
    /\ Prefix(w) <= Events[a]
    /\ Since(w) = SubSeq(Bundle(a), 1, Prefix(w))

(* Wrong: a record without its state would not be repaired.                *)
RepairableNever(w) == FALSE

(* The state lacks exactly the last record of the bundle's prefix: it is   *)
(* the stored state after one event less.                                  *)
Repairable(w) == Prefix(w) > 0 /\ state = w.from + Prefix(w) - 1

(* The state is the stored one and reflects the whole log.                 *)
Settled(w) == state = w.from + Prefix(w) /\ state = Len(log)

BundleComplete(a, w) == Prefix(w) = Events[a]

-----------------------------------------------------------------------------
(* An invocation.                                                          *)

Goto(next) == step' = next /\ UNCHANGED <<running, stage, missing>>

Leave == running' = Nobody /\ step' = "idle" /\ stage' = 0 /\ missing' = FALSE

(* Once its events are in, a result with a lease goes through the ledger.  *)
AfterEvents(a) == IF a \in Control THEN "receipt" ELSE "stages"

Enter(a) ==
    /\ running = Nobody /\ running' = a
    /\ a \notin Control => LeaseUsable(a)
    /\ board
    /\ step' = IF receipt[a] = {} THEN "reconcile" ELSE AfterEvents(a)
    /\ stage' = 0 /\ missing' = FALSE

(* The time a caller injects: all that matters of it here is that it has   *)
(* moved on when an invocation that stopped is retried.                    *)
Now == stops + 1

(* The first invocation: the Supervisor is in the very state the result    *)
(* was bound to, and the recovery file is created.                         *)
Create(a) ==
    /\ wal[a] = {} /\ receipt[a] = {} /\ bound[a] = {state}
    /\ Enter(a)
    /\ wal' = [wal EXCEPT ![a] = {[before |-> Len(log), from |-> state, started |-> Now,
                   counted |-> 0, rows |-> <<>>, receipted |-> FALSE]}]
    /\ UNCHANGED <<ledger, log, state, receipt, bound, board, stops>>

(* Of a Worker result nothing is in the ledger yet, and the Supervisor's   *)
(* state reflects the whole log.                                           *)
Prepare(a) ==
    /\ a \notin Packets
    /\ \A type \in Stage : StageRows(a, type) = {}
    /\ state = Len(log)
    /\ Create(a)

(* A packet was recompiled, and its state compared with the log, before    *)
(* the lock was taken: a writer that stops half way in between leaves the  *)
(* state as it was, and this is not noticed here.                          *)
PreparePacket(a) == a \in Packets /\ Create(a)

(* A retry finds the recovery file.                                        *)
Resume(a) ==
    /\ \E w \in wal[a] : receipt[a] # {} => w.counted = Events[a]
    /\ Enter(a)
    /\ UNCHANGED <<files, bound, board, stops>>

(* _reconcile_supervisor_locked: a logged event whose state was not        *)
(* written gets its stored state.                                          *)
Repair(a) ==
    /\ running = a /\ step = "reconcile"
    /\ \E w \in wal[a] :
           /\ OwnSince(a, w) /\ Repairable(w)
           /\ state' = w.from + Prefix(w)
    /\ UNCHANGED <<ledger, log, wal, receipt, process, bound, board, stops>>

(* The recovery file counts the events found in the log.                   *)
Count(a) ==
    /\ running = a /\ step = "reconcile"
    /\ \E w \in wal[a] :
           /\ OwnSince(a, w) /\ Settled(w)
           /\ wal' = [wal EXCEPT ![a] = {[w EXCEPT !.counted = Prefix(w)]}]
           /\ Goto(IF BundleComplete(a, w) THEN AfterEvents(a) ELSE "append")
    /\ UNCHANGED <<ledger, log, state, receipt, bound, board, stops>>

(* _apply_event_files_unlocked: the record first, then the state.          *)
AppendEvent(a) ==
    /\ running = a /\ step = "append" /\ state = Len(log)
    /\ \E w \in wal[a] : LET record == Bundle(a)[Prefix(w) + 1] IN
           /\ \A i \in DOMAIN log : log[i] # record
           /\ log' = Append(log, record)
    /\ Goto("state")
    /\ UNCHANGED <<ledger, state, wal, receipt, bound, board, stops>>

WriteState(a) ==
    /\ running = a /\ step = "state"
    /\ state' = Len(log)
    /\ Goto("reconcile")
    /\ UNCHANGED <<ledger, log, wal, receipt, bound, board, stops>>

(* Wrong: the row would be dated by the invocation that appends it.        *)
AppendStageRetryClock(a) ==
    /\ running = a /\ step = "stages" /\ stage < Len(Stages)
    /\ StageRows(a, Stages[stage + 1]) = {}
    /\ ledger' = Append(ledger, [type |-> Stages[stage + 1], lease |-> a,
                                 manifest |-> TRUE, at |-> Now])
    /\ step' = "record" /\ missing' = TRUE
    /\ UNCHANGED <<running, stage, log, state, wal, receipt, bound, board, stops>>

(* A stage that has no row is appended, dated by the first invocation.     *)
AppendStage(a) ==
    /\ running = a /\ step = "stages" /\ stage < Len(Stages)
    /\ StageRows(a, Stages[stage + 1]) = {}
    /\ \E w \in wal[a] :
           ledger' = Append(ledger, [type |-> Stages[stage + 1], lease |-> a,
                                     manifest |-> TRUE, at |-> w.started])
    /\ step' = "record" /\ missing' = TRUE
    /\ UNCHANGED <<running, stage, log, state, wal, receipt, bound, board, stops>>

(* A stage that has its row is taken over, unless an earlier one lacked.   *)
ReuseStage(a) ==
    /\ running = a /\ step = "stages" /\ stage < Len(Stages) /\ ~missing
    /\ \E i \in LeaseRows(a) :
           StageRows(a, Stages[stage + 1]) = {i} /\ ledger[i].manifest
    /\ Goto("record")
    /\ UNCHANGED <<files, bound, board, stops>>

(* The recovery file notes the position of the stage's row.                *)
RecordStage(a) ==
    /\ running = a /\ step = "record"
    /\ \E w \in wal[a], i \in LeaseRows(a) :
           /\ ledger[i].type = Stages[stage + 1]
           /\ \A j \in LeaseRows(a) : j > i => ledger[j].type # Stages[stage + 1]
           /\ wal' = [wal EXCEPT ![a] = {[w EXCEPT !.rows =
                  IF stage < Len(w.rows) THEN [w.rows EXCEPT ![stage + 1] = i]
                                         ELSE Append(w.rows, i)]}]
    /\ stage' = stage + 1
    /\ step' = IF stage + 1 = Len(Stages) THEN "receipt" ELSE "stages"
    /\ UNCHANGED <<running, missing, ledger, log, state, receipt, bound, board, stops>>

(* The receipt is created, or the existing one must say the same.          *)
IssueReceipt(a) ==
    /\ running = a /\ step = "receipt"
    /\ \E w \in wal[a] : LET result == [rows |-> w.rows, before |-> w.before] IN
           /\ receipt[a] \subseteq {result}
           /\ receipt' = [receipt EXCEPT ![a] = {result}]
    /\ Goto("close")
    /\ UNCHANGED <<ledger, log, state, wal, bound, board, stops>>

Close(a) ==
    /\ running = a /\ step = "close"
    /\ \E w \in wal[a] :
           wal' = [wal EXCEPT ![a] = {[w EXCEPT !.receipted = TRUE]}]
    /\ Leave
    /\ UNCHANGED <<ledger, log, state, receipt, bound, board, stops>>

(* What the files hold contradicts the recovery file: the Supervisor's     *)
(* records or state, the row of a stage, or an existing receipt.           *)
Conflict(a) ==
    \/ /\ step = "reconcile"
       /\ \A w \in wal[a] : ~(OwnSince(a, w) /\ (Settled(w) \/ Repairable(w)))
    \/ /\ step = "stages"
       /\ StageRows(a, Stages[stage + 1]) # {}
       /\ ~missing => \A i \in LeaseRows(a) :
              ~(StageRows(a, Stages[stage + 1]) = {i} /\ ledger[i].manifest)
    \/ /\ step = "receipt"
       /\ \A w \in wal[a] : receipt[a] # {}
              /\ receipt[a] # {[rows |-> w.rows, before |-> w.before]}

Refuse(a) ==
    /\ running = a /\ Conflict(a)
    /\ Leave
    /\ UNCHANGED <<files, bound, board, stops>>

(* The process dies, and the system releases its locks.                    *)
Stop(a) ==
    /\ running = a /\ stops < MaxStops
    /\ stops' = stops + 1
    /\ Leave
    /\ UNCHANGED <<files, bound, board>>

-----------------------------------------------------------------------------
(* The others: the scheduler lock is free unless an invocation runs whose  *)
(* result has a lease.                                                     *)

LedgerAppend(a, type) ==
    /\ running \notin App \ Control
    /\ ledger' = Append(ledger, [type |-> type, lease |-> a, manifest |-> FALSE, at |-> 0])
    /\ UNCHANGED <<log, state, wal, receipt, process, board, stops>>

(* Admission binds a Worker result to the state of the Supervisor it saw.  *)
Admit(a) ==
    /\ a \notin Control /\ LeaseRows(a) = {}
    /\ Cardinality({b \in App : LeaseRows(b) # {}}) < MaxLeases
    /\ LedgerAppend(a, "lease_granted")
    /\ bound' = IF a \in Packets THEN bound ELSE [bound EXCEPT ![a] = {state}]

(* A packet is bound to the Supervisor's state, under its shared lock. One *)
(* that went stale is compiled again, unless its application was prepared. *)
BindState(a) ==
    /\ wal[a] = {} /\ running = Nobody
    /\ state = Len(log) /\ board
    /\ bound' = [bound EXCEPT ![a] = {state}]
    /\ UNCHANGED <<files, process, board, stops>>

(* A scheduled stage comes with the manifest of its admission.             *)
CompileScheduled(a) == a \in Packets \ Control /\ LeaseRows(a) # {} /\ BindState(a)

(* A self test comes with a trusted receipt, a closeout with an artifact.  *)
CompileControl(a) == a \in Control /\ BindState(a)

(* schedule release and recover, by their effect on the lease.             *)
EndLease(a, type) == LeaseActive(a) /\ LedgerAppend(a, type) /\ UNCHANGED bound

(* schedule execution_unknown, once per result in the model.               *)
DeclareUnknown(a) ==
    /\ LeaseActive(a) /\ StageRows(a, "execution_unknown") = {}
    /\ LedgerAppend(a, "execution_unknown")
    /\ UNCHANGED bound

Foreign == {i \in DOMAIN log : log[i].by = Supervisor}

(* apply_event_files: any other Supervisor event, record first.            *)
ForeignEvent ==
    /\ running = Nobody /\ running' = Supervisor
    /\ state = Len(log)
    /\ Cardinality(Foreign) < MaxForeign
    /\ log' = Append(log, [by |-> Supervisor, event |-> Len(log)])
    /\ UNCHANGED <<ledger, state, wal, receipt, step, stage, missing, bound, board, stops>>

ForeignState ==
    /\ running = Supervisor /\ running' = Nobody
    /\ state' = Len(log)
    /\ UNCHANGED <<ledger, log, wal, receipt, step, stage, missing, bound, board, stops>>

ForeignStop ==
    /\ running = Supervisor /\ running' = Nobody
    /\ UNCHANGED <<files, step, stage, missing, bound, board, stops>>

BoardMoves ==
    /\ board /\ board' = FALSE
    /\ UNCHANGED <<files, process, bound, stops>>

Init ==
    /\ ledger = <<>> /\ log = <<>> /\ state = 0
    /\ bound = [a \in App |-> {}]
    /\ wal = [a \in App |-> {}] /\ receipt = [a \in App |-> {}]
    /\ board = TRUE
    /\ running = Nobody /\ step = "idle" /\ stage = 0 /\ missing = FALSE
    /\ stops = 0

Begin(a) == Resume(a) \/ Prepare(a) \/ PreparePacket(a)

Proceed(a) ==
    \/ Repair(a) \/ Count(a) \/ AppendEvent(a) \/ WriteState(a)
    \/ AppendStage(a) \/ ReuseStage(a) \/ RecordStage(a)
    \/ IssueReceipt(a) \/ Close(a) \/ Refuse(a)

Operate(a) ==
    \/ Admit(a) \/ CompileScheduled(a) \/ CompileControl(a) \/ DeclareUnknown(a)
    \/ \E type \in {"lease_released", "lease_recovered"} : EndLease(a, type)

Next ==
    \/ \E a \in App : Begin(a) \/ Proceed(a) \/ Stop(a) \/ Operate(a)
    \/ ForeignEvent \/ ForeignState \/ ForeignStop \/ BoardMoves

Spec == Init /\ [][Next]_vars

(* A started process runs on unless it stops, and a half applied result is *)
(* retried until it is applied; a retry gets the locks in the end although *)
(* others take them in between.                                            *)
LiveSpec ==
    /\ Spec
    /\ WF_vars(ForeignState)
    /\ \A a \in App : WF_vars(Proceed(a)) /\ SF_vars(Resume(a))

-----------------------------------------------------------------------------
(* Properties.                                                             *)

(* Every file holds what its readers expect, and counters stay in range.   *)
TypeOK ==
    /\ ledger \in Seq(LedgerRow) /\ log \in Seq(LogRecord) /\ state \in 0 .. Len(log)
    /\ bound \in [App -> SUBSET Nat]
    /\ wal \in [App -> SUBSET Recovery] /\ receipt \in [App -> SUBSET Receipt]
    /\ \A a \in App : AtMostOne(bound[a]) /\ AtMostOne(wal[a]) /\ AtMostOne(receipt[a])
    /\ board \in BOOLEAN /\ running \in App \cup {Nobody, Supervisor}
    /\ step \in {"idle", "reconcile", "append", "state", "stages", "record",
                 "receipt", "close"}
    /\ stage \in 0 .. Len(Stages) /\ missing \in BOOLEAN /\ stops \in 0 .. MaxStops

(* However often an application stops and is retried, each of its ledger   *)
(* rows is written once, in the order of the stages, and all of them carry *)
(* the time of the invocation that prepared it, never a retry's            *)
(* (_finalize_ledger_locked).                                              *)
StagesOnceInOrder ==
    \A a \in App :
        LET own == {i \in LeaseRows(a) : ledger[i].manifest} IN
        /\ \A i, j \in own : ledger[i].at = ledger[j].at
        /\ \A i \in own :
               ledger[i].type = Stages[Cardinality({j \in own : j <= i})]

(* Only the writer that logged a record writes the state that reflects it: *)
(* a retry never adopts somebody else's half applied event as its own      *)
(* (_reconcile_supervisor_locked).                                         *)
RepairsOwnOnly ==
    [][\A i \in DOMAIN log : state < i /\ i <= state' => log[i].by = running]_vars

(* Something that the application does not undo: the board moved, an       *)
(* operator ended the lease or declared the execution unknown, another     *)
(* event entered the Supervisor's log, or the pair was torn already when a *)
(* packet's application was prepared.                                      *)
Overtaken(a) ==
    \/ ~board
    \/ a \notin Control /\ ~LeaseUsable(a)
    \/ \E w \in wal[a] : ~OwnSince(a, w) \/ w.from # w.before

(* Once prepared, an application ends with its receipt, wherever its       *)
(* invocations stop, unless it was overtaken (apply_scheduled_dispatch,    *)
(* apply_role_lifecycle).                                                  *)
PreparedIsReceipted ==
    \A a \in App : wal[a] # {} ~> receipt[a] # {} \/ Overtaken(a)

(* The files implement the promise of ResultApplication: a result is in    *)
(* the Supervisor as a whole before its quality is accepted, accepted      *)
(* before its lease is freed, freed before its receipt exists, and nothing *)
(* of this follows an operator's release, recovery or unknown execution.   *)
Supervised(a) ==
    \A k \in 1 .. Events[a] : \E i \in 1 .. state : log[i] = [by |-> a, event |-> k]

LeaseOutcome(a) ==
    IF LeaseRows(a) = {} THEN "none"
    ELSE IF Terminal(a) = {} THEN "held"
    ELSE IF \A i \in Terminal(a) : ledger[i].manifest THEN "applied"
    ELSE "operator"

Promise == INSTANCE ResultApplication WITH
    supervised <- {a \in App : Supervised(a)},
    accepted <- {a \in App : StageRows(a, "quality_accepted") # {}},
    lease <- [a \in App |-> LeaseOutcome(a)],
    unknown <- {a \in App : StageRows(a, "execution_unknown") # {}},
    receipted <- {a \in App : receipt[a] # {}}

ImplementsPromise == Promise!Spec
=============================================================================
