------------------------- MODULE ApplyDispatchProofs -------------------------
(***************************************************************************)
(* Theorems about ApplyDispatch, for any number of results, events, stops  *)
(* and other Supervisor events.                                            *)
(*                                                                         *)
(* The inductive invariant Inv says, beside the types, what the files can  *)
(* be trusted for whoever stopped where: a row of an application stands on *)
(* the recovery file that dates it, on a supervised result and on the row  *)
(* of the stage before; a record of an application lies behind the place   *)
(* its recovery file remembers; and what the running invocation has found  *)
(* out on its way still holds, because the locks keep the others from the  *)
(* files it read.                                                          *)
(***************************************************************************)
EXTENDS ApplyDispatch, FiniteSetTheorems, SequenceTheorems, TLAPS

(* An application has written the row of its k-th stage.                   *)
HasStage(a, k) ==
    \E i \in LeaseRows(a) : ledger[i].manifest /\ ledger[i].type = Stages[k]

(* Results without a lease have no rows; a grant is its lease's first row. *)
GrantsComeFirst ==
    \A i \in DOMAIN ledger :
        /\ ledger[i].lease \notin Control
        /\ ledger[i].type = "lease_granted" =>
               \A j \in DOMAIN ledger : j < i => ledger[j].lease # ledger[i].lease

(* The rows of an application: each once, each after the stage before.     *)
RowsInOrder ==
    \A i \in DOMAIN ledger : ledger[i].manifest =>
        /\ \E k \in 1 .. 4 :
               /\ ledger[i].type = Stages[k]
               /\ k > 1 => \E j \in DOMAIN ledger :
                      /\ j < i /\ ledger[j].manifest
                      /\ ledger[j].lease = ledger[i].lease
                      /\ ledger[j].type = Stages[k - 1]
        /\ \A j \in DOMAIN ledger :
               /\ ledger[j].manifest /\ ledger[j].lease = ledger[i].lease
               /\ ledger[j].type = ledger[i].type
               => j = i

(* They follow the events, and carry the time of the recovery file.        *)
RowsArePrepared ==
    \A i \in DOMAIN ledger : ledger[i].manifest =>
        /\ Supervised(ledger[i].lease)
        /\ wal[ledger[i].lease] # {}
        /\ \A w \in wal[ledger[i].lease] : ledger[i].at = w.started

(* A result's records follow what its recovery file found in the log, and  *)
(* a pair that was torn when it was prepared gets none.                    *)
RecordsArePrepared ==
    \A i \in DOMAIN log : log[i].by \in App =>
        /\ wal[log[i].by] # {}
        /\ \A w \in wal[log[i].by] : w.from = w.before /\ w.before < i

ReceiptsAreSupervised == \A a \in App : receipt[a] # {} => Supervised(a)

(* Whoever has logged a record and not yet written the state.              *)
HalfWritten == state + 1 = Len(log) /\ log[Len(log)].by = running

(* What a running invocation knows at each of its steps.                   *)
InvocationKnows(a) ==
    /\ step # "idle" /\ wal[a] # {}
    /\ step \in {"reconcile", "append", "state"} => stage = 0
    /\ a \notin Control => LeaseUsable(a)
    /\ step \in {"stages", "record"} => stage < 4 /\ a \notin Control
    /\ step \in {"stages", "record", "receipt", "close"} => Supervised(a)
    /\ step \in {"stages", "record", "receipt"} => \A k \in 1 .. stage : HasStage(a, k)
    /\ step = "record" => HasStage(a, stage + 1)
    /\ step = "receipt" => a \in Control \/ stage = 4
    /\ step = "append" => \A w \in wal[a] :
           OwnSince(a, w) /\ Settled(w) /\ ~BundleComplete(a, w)
    /\ step = "state" => HalfWritten

ProcessInPlace ==
    /\ running \notin App => step = "idle"
    /\ running = Supervisor => HalfWritten
    /\ \A a \in App : running = a => InvocationKnows(a)

Inv ==
    /\ TypeOK /\ GrantsComeFirst /\ RowsInOrder /\ RowsArePrepared
    /\ RecordsArePrepared /\ ReceiptsAreSupervised /\ ProcessInPlace

-----------------------------------------------------------------------------
(* What a step does to each file.                                          *)

LEMMA StageFacts ==
    /\ Len(Stages) = 4 /\ DOMAIN Stages = 1 .. 4
    /\ Stages[1] = "dispatch_finished" /\ Stages[2] = "quality_accepted"
    /\ Stages[3] = "schedule_closed" /\ Stages[4] = "lease_released"
    /\ Stage = {"dispatch_finished", "quality_accepted", "schedule_closed",
                "lease_released"}
  <1>1. /\ Len(Stages) = 4 /\ DOMAIN Stages = 1 .. 4
        /\ Stages[1] = "dispatch_finished" /\ Stages[2] = "quality_accepted"
        /\ Stages[3] = "schedule_closed" /\ Stages[4] = "lease_released"
    BY DEF Stages
  <1>2. \A i \in 1 .. 4 : i = 1 \/ i = 2 \/ i = 3 \/ i = 4
    OBVIOUS
  <1>. QED  BY <1>1, <1>2 DEF Stage

(* The stages are different, so a row tells which one it is.               *)
LEMMA StagesDiffer ==
    /\ \A k, m \in 1 .. 4 : Stages[k] = Stages[m] => k = m
    /\ \A k \in 1 .. 4 : Stages[k] \in Stage
  <1>1. \A i \in 1 .. 4 : i = 1 \/ i = 2 \/ i = 3 \/ i = 4
    OBVIOUS
  <1>. QED  BY <1>1, StageFacts

(* A row that others append is not one of an application.                  *)
OthersRow(row) ==
    /\ running \notin App \ Control
    /\ row \in LedgerRow /\ row.lease \notin Control
    /\ ~row.manifest
    /\ row.type \in {"lease_granted", "lease_released", "lease_recovered",
                     "execution_unknown"}
    /\ IF row.type = "lease_granted" THEN LeaseRows(row.lease) = {}
                                     ELSE LeaseActive(row.lease)
    /\ ledger' = Append(ledger, row)
    /\ UNCHANGED <<log, state, wal, receipt, process>>

(* The row that the running invocation appends.                            *)
OwnRow(row) ==
    /\ running \in App \ Control /\ step = "stages"
    /\ row \in LedgerRow /\ row.lease = running /\ row.manifest
    /\ row.type = Stages[stage + 1]
    /\ StageRows(running, Stages[stage + 1]) = {}
    /\ \E w \in wal[running] : row.at = w.started
    /\ ledger' = Append(ledger, row)
    /\ UNCHANGED <<log, state, wal, receipt, running, stage>>

(* The ledger only grows, by a row of one of the two kinds.                *)
LEMMA LedgerMoves ==
    ASSUME TypeOK, GrantsComeFirst, ProcessInPlace, Next
    PROVE  \/ UNCHANGED ledger
           \/ \E row : OthersRow(row)
           \/ \E row : OwnRow(row)
  <1>1. ASSUME NEW a \in App, AppendStage(a)
        PROVE  \E row : OwnRow(row)
    <2>1. PICK w \in wal[a] :
              ledger' = Append(ledger, [type |-> Stages[stage + 1], lease |-> a,
                                        manifest |-> TRUE, at |-> w.started])
      BY <1>1 DEF AppendStage
    <2>. DEFINE row == [type |-> Stages[stage + 1], lease |-> a,
                        manifest |-> TRUE, at |-> w.started]
    <2>2. stage + 1 \in DOMAIN Stages /\ w.started \in Nat
      BY <1>1, StageFacts DEF AppendStage, TypeOK, Recovery
    <2>3. row \in LedgerRow
      BY <2>2 DEF LedgerRow, Stage
    <2>4. OwnRow(row)
      BY <1>1, <2>1, <2>3 DEF OwnRow, AppendStage, ProcessInPlace, InvocationKnows
    <2>. QED  BY <2>4
  <1>2. ASSUME NEW a \in App, NEW type, LedgerAppend(a, type), a \notin Control,
               type \in {"lease_granted", "lease_released", "lease_recovered",
                         "execution_unknown"},
               IF type = "lease_granted" THEN LeaseRows(a) = {} ELSE LeaseActive(a)
        PROVE  \E row : OthersRow(row)
    <2>. DEFINE row == [type |-> type, lease |-> a, manifest |-> FALSE, at |-> 0]
    <2>1. row \in LedgerRow
      BY <1>2 DEF LedgerRow, EventTypes, TerminalLeaseEvents
    <2>2. OthersRow(row)
      BY <1>2, <2>1 DEF OthersRow, LedgerAppend
    <2>. QED  BY <2>2
  <1>3. ASSUME NEW a \in App, LeaseActive(a)
        PROVE  a \notin Control
    BY <1>3 DEF LeaseActive, ActiveRows, RowsOfType, GrantsComeFirst
  <1>4. ASSUME NEW a \in App, Begin(a) \/ Stop(a)
        PROVE  UNCHANGED ledger
    BY <1>4 DEF Begin, Resume, Prepare, PreparePacket, Create, Stop, files
  <1>5. ASSUME NEW a \in App, Proceed(a), ~AppendStage(a)
        PROVE  UNCHANGED ledger
    BY <1>5 DEF Proceed, Repair, Count, AppendEvent, WriteState, ReuseStage, RecordStage,
                IssueReceipt, Close, Refuse, files
  <1>6. ASSUME NEW a \in App, Operate(a)
        PROVE  UNCHANGED ledger \/ \E row : OthersRow(row)
    <2>1. CASE Admit(a)
      BY <1>2, <2>1 DEF Admit
    <2>2. CASE CompileScheduled(a) \/ CompileControl(a)
      BY <2>2 DEF CompileScheduled, CompileControl, BindState, files
    <2>3. CASE DeclareUnknown(a)
      BY <1>2, <1>3, <2>3 DEF DeclareUnknown
    <2>4. ASSUME NEW type \in {"lease_released", "lease_recovered"}, EndLease(a, type)
          PROVE  \E row : OthersRow(row)
      BY <1>2, <1>3, <2>4 DEF EndLease
    <2>. QED  BY <1>6, <2>1, <2>2, <2>3, <2>4 DEF Operate
  <1>7. CASE ForeignEvent \/ ForeignState \/ ForeignStop \/ BoardMoves
    BY <1>7 DEF ForeignEvent, ForeignState, ForeignStop, BoardMoves, files
  <1>. QED  BY <1>1, <1>4, <1>5, <1>6, <1>7 DEF Next

(* The log only grows, by a record of the process that then has the lock,  *)
(* and only when the state reflects all of it.                             *)
Logs(record) ==
    /\ record \in LogRecord /\ log' = Append(log, record)
    /\ state = Len(log) /\ running' = record.by
    /\ record.by \in App => running = record.by /\ step = "append" /\ wal[running] # {}
    /\ UNCHANGED <<ledger, state, wal, receipt>>

LEMMA LogMoves ==
    ASSUME TypeOK, ProcessInPlace, Next
    PROVE  UNCHANGED log \/ \E record : Logs(record)
  <1>1. ASSUME NEW a \in App, AppendEvent(a)
        PROVE  \E record : Logs(record)
    <2>1. PICK w \in wal[a] : log' = Append(log, Bundle(a)[Prefix(w) + 1])
      BY <1>1 DEF AppendEvent
    <2>2. /\ w.before \in Nat /\ Events[a] \in Nat /\ Len(log) \in Nat
          /\ w.before <= Len(log) /\ Prefix(w) <= Events[a] /\ Prefix(w) # Events[a]
      BY <1>1, <2>1, ConstantsAssumption
         DEF TypeOK, Recovery, AppendEvent, ProcessInPlace, InvocationKnows, OwnSince,
             BundleComplete
    <2>3. Prefix(w) + 1 \in 1 .. Events[a]
      BY <2>2 DEF Prefix
    <2>4. Bundle(a)[Prefix(w) + 1] = [by |-> a, event |-> Prefix(w) + 1]
      BY <2>3 DEF Bundle
    <2>. DEFINE record == [by |-> a, event |-> Prefix(w) + 1]
    <2>5. record \in LogRecord /\ record.by = a
      BY <2>3 DEF LogRecord
    <2>6. running = a /\ running' = a /\ step = "append" /\ wal[running] # {}
      BY <1>1, <2>1 DEF AppendEvent, Goto
    <2>. HIDE DEF record
    <2>7. log' = Append(log, record)
      BY <2>1, <2>4 DEF record
    <2>8. Logs(record)
      BY <1>1, <2>5, <2>6, <2>7 DEF Logs, AppendEvent
    <2>. QED  BY <2>8
  <1>2. ASSUME ForeignEvent
        PROVE  \E record : Logs(record)
    <2>. DEFINE record == [by |-> Supervisor, event |-> Len(log)]
    <2>1. record \in LogRecord
      BY DEF LogRecord, TypeOK
    <2>2. Logs(record)
      BY <1>2, <2>1, NamesAssumption DEF Logs, ForeignEvent
    <2>. QED  BY <2>2
  <1>3. ASSUME NEW a \in App, Begin(a) \/ Stop(a)
        PROVE  UNCHANGED log
    BY <1>3 DEF Begin, Resume, Prepare, PreparePacket, Create, Stop, files
  <1>4. ASSUME NEW a \in App, Proceed(a), ~AppendEvent(a)
        PROVE  UNCHANGED log
    BY <1>4 DEF Proceed, Repair, Count, WriteState, AppendStage, ReuseStage, RecordStage,
                IssueReceipt, Close, Refuse, files
  <1>5. ASSUME NEW a \in App, Operate(a)
        PROVE  UNCHANGED log
    BY <1>5 DEF Operate, Admit, CompileScheduled, CompileControl, BindState,
                DeclareUnknown, EndLease, LedgerAppend, files
  <1>6. CASE ForeignState \/ ForeignStop \/ BoardMoves
    BY <1>6 DEF ForeignState, ForeignStop, BoardMoves, files
  <1>. QED  BY <1>1, <1>2, <1>3, <1>4, <1>5, <1>6 DEF Next

(* The records since the recovery file, when they are the result's own.    *)
LEMMA OwnRecords ==
    ASSUME TypeOK, NEW a \in App, NEW w \in wal[a], OwnSince(a, w)
    PROVE  /\ Prefix(w) \in 0 .. Events[a] /\ w.before + Prefix(w) = Len(log)
           /\ \A i \in 1 .. Prefix(w) : log[w.before + i] = [by |-> a, event |-> i]
  <1>1. /\ w.before \in Nat /\ Len(log) \in Nat /\ log \in Seq(LogRecord)
        /\ Events[a] \in Nat
    BY ConstantsAssumption DEF TypeOK, Recovery
  <1>2. /\ w.before <= Len(log) /\ Prefix(w) <= Events[a] /\ Prefix(w) = Len(log) - w.before
        /\ SubSeq(log, w.before + 1, Len(log)) = SubSeq(Bundle(a), 1, Prefix(w))
    BY DEF OwnSince, Since, Prefix
  <1>3. Prefix(w) \in 0 .. Events[a] /\ w.before + Prefix(w) = Len(log)
    BY <1>1, <1>2
  <1>4. Bundle(a) \in Seq(LogRecord) /\ Len(Bundle(a)) = Events[a]
    <2>. DEFINE f == [k \in 1 .. Events[a] |-> [by |-> a, event |-> k]]
    <2>1. f \in [1 .. Events[a] -> LogRecord]
      BY <1>1 DEF LogRecord
    <2>. HIDE DEF f
    <2>2. f \in Seq(LogRecord) /\ Len(f) = Events[a]
      BY <2>1, <1>1
    <2>. QED  BY <2>2 DEF Bundle, f
  <1>5. Prefix(w) \in Nat /\ Prefix(w) <= Len(Bundle(a))
    BY <1>1, <1>3, <1>4
  <1>6. \A i \in 1 .. Prefix(w) : log[w.before + i] = Bundle(a)[i]
    <2>. DEFINE n == Prefix(w)
                b == w.before
                t == Bundle(a)
    <2>1. /\ log \in Seq(LogRecord) /\ t \in Seq(LogRecord) /\ b \in Nat /\ n \in Nat
          /\ b + n = Len(log) /\ n <= Len(t)
          /\ SubSeq(log, b + 1, Len(log)) = SubSeq(t, 1, n)
      BY <1>1, <1>2, <1>3, <1>4, <1>5
    <2>. HIDE DEF n, b, t
    <2>2. \A i \in 1 .. n : log[b + i] = t[i]
      <3>. SUFFICES ASSUME NEW i \in 1 .. n
                    PROVE  log[b + i] = t[i]
        OBVIOUS
      <3>1. SubSeq(log, b + 1, Len(log))[i] = log[b + i]
        BY <2>1, SMT
      <3>2. SubSeq(t, 1, n)[i] = t[i]
        BY <2>1, SMT
      <3>. QED  BY <2>1, <3>1, <3>2
    <2>. QED  BY <2>2 DEF n, b, t
  <1>7. \A i \in 1 .. Events[a] : Bundle(a)[i] = [by |-> a, event |-> i]
    BY DEF Bundle
  <1>8. \A i \in 1 .. Prefix(w) : i \in 1 .. Events[a]
    BY <1>1, <1>3
  <1>. QED  BY <1>3, <1>6, <1>7, <1>8

(* The state only moves on by the last record of the log, and by the hand  *)
(* of who has logged it: a record of the result is behind the place that   *)
(* its recovery file remembers, so the stored state is that of the log.    *)
Settles ==
    /\ HalfWritten /\ state' = state + 1 /\ Len(log) > 0
    /\ running \in App \cup {Supervisor}
    /\ running \in App => step \in {"reconcile", "state"}
    /\ UNCHANGED <<ledger, log, wal, receipt>>

LEMMA StateMoves ==
    ASSUME TypeOK, RecordsArePrepared, ProcessInPlace, Next
    PROVE  UNCHANGED state \/ Settles
  <1>. USE DEF HalfWritten
  <1>1. ASSUME NEW a \in App, Repair(a)
        PROVE  Settles
    <2>1. PICK w \in wal[a] :
              OwnSince(a, w) /\ Repairable(w) /\ state' = w.from + Prefix(w)
      BY <1>1 DEF Repair
    <2>2. /\ w.before \in Nat /\ w.from \in Nat /\ state \in Nat
          /\ Prefix(w) \in 0 .. Events[a] /\ w.before + Prefix(w) = Len(log)
          /\ \A i \in 1 .. Prefix(w) : log[w.before + i] = [by |-> a, event |-> i]
      BY <2>1, OwnRecords DEF TypeOK, Recovery
    <2>3. Events[a] \in Nat
      BY ConstantsAssumption
    <2>4. Prefix(w) \in Nat \ {0} /\ Prefix(w) \in 1 .. Prefix(w)
      BY <2>1, <2>2, <2>3 DEF Repairable
    <2>5. log[Len(log)] = [by |-> a, event |-> Prefix(w)]
      BY <2>2, <2>4
    <2>7. Len(log) > 0 /\ Len(log) \in DOMAIN log /\ log[Len(log)].by = a
      BY <2>2, <2>4, <2>5 DEF TypeOK
    <2>8. w.from = w.before
      BY <2>7 DEF RecordsArePrepared
    <2>9. state + 1 = Len(log) /\ state' = state + 1
      BY <2>1, <2>2, <2>4, <2>8 DEF Repairable
    <2>. QED  BY <1>1, <2>7, <2>9 DEF Settles, Repair
  <1>2. ASSUME NEW a \in App, WriteState(a)
        PROVE  Settles
    BY <1>2 DEF Settles, WriteState, ProcessInPlace, InvocationKnows, TypeOK
  <1>3. ASSUME ForeignState
        PROVE  Settles
    BY <1>3, NamesAssumption DEF Settles, ForeignState, ProcessInPlace, TypeOK
  <1>4. ASSUME NEW a \in App, Begin(a) \/ Stop(a)
        PROVE  UNCHANGED state
    BY <1>4 DEF Begin, Resume, Prepare, PreparePacket, Create, Stop, files
  <1>5. ASSUME NEW a \in App, Proceed(a), ~Repair(a), ~WriteState(a)
        PROVE  UNCHANGED state
    BY <1>5 DEF Proceed, Count, AppendEvent, AppendStage, ReuseStage, RecordStage,
                IssueReceipt, Close, Refuse, files
  <1>6. ASSUME NEW a \in App, Operate(a)
        PROVE  UNCHANGED state
    BY <1>6 DEF Operate, Admit, CompileScheduled, CompileControl, BindState,
                DeclareUnknown, EndLease, LedgerAppend, files
  <1>7. CASE ForeignEvent \/ ForeignStop \/ BoardMoves
    BY <1>7 DEF ForeignEvent, ForeignStop, BoardMoves, files
  <1>. QED  BY <1>1, <1>2, <1>3, <1>4, <1>5, <1>6, <1>7 DEF Next

(* A recovery file is created over the log and the state as they are, and  *)
(* then never forgets where it began.                                      *)
Notes(a, w) ==
    /\ a \in App /\ w \in Recovery /\ wal' = [wal EXCEPT ![a] = {w}]
    /\ \/ wal[a] = {} /\ w.before = Len(log) /\ w.from = state
       \/ \E v \in wal[a] :
              w.before = v.before /\ w.from = v.from /\ w.started = v.started
    /\ UNCHANGED <<ledger, log, state, receipt>>

LEMMA WalMoves ==
    ASSUME TypeOK, Next
    PROVE  UNCHANGED wal \/ \E a, w : Notes(a, w)
  <1>1. ASSUME NEW a \in App, Create(a)
        PROVE  \E w : Notes(a, w)
    <2>. DEFINE w == [before |-> Len(log), from |-> state, started |-> Now,
                      counted |-> 0, rows |-> <<>>, receipted |-> FALSE]
    <2>1. w \in Recovery
      <3>1. stops \in Nat /\ state \in Nat /\ Len(log) \in Nat /\ <<>> \in Seq(Nat)
        BY ConstantsAssumption DEF TypeOK
      <3>. QED  BY <3>1 DEF Recovery, Now
    <2>2. Notes(a, w)
      BY <1>1, <2>1 DEF Notes, Create
    <2>. QED  BY <2>2
  <1>2. ASSUME NEW a \in App, NEW v \in wal[a], NEW w \in Recovery,
               wal' = [wal EXCEPT ![a] = {w}],
               w.before = v.before, w.from = v.from, w.started = v.started,
               UNCHANGED <<ledger, log, state, receipt>>
        PROVE  \E u : Notes(a, u)
    BY <1>2 DEF Notes
  <1>3. ASSUME NEW a \in App, Count(a)
        PROVE  \E w : Notes(a, w)
    <2>1. PICK v \in wal[a] :
              /\ OwnSince(a, v)
              /\ wal' = [wal EXCEPT ![a] = {[v EXCEPT !.counted = Prefix(v)]}]
      BY <1>3 DEF Count
    <2>2. Prefix(v) \in Nat /\ v \in Recovery
      BY <2>1 DEF OwnSince, Prefix, TypeOK, Recovery
    <2>. QED  BY <1>2, <1>3, <2>1, <2>2 DEF Count, Recovery
  <1>4. ASSUME NEW a \in App, RecordStage(a)
        PROVE  \E w : Notes(a, w)
    <2>1. PICK v \in wal[a], i \in LeaseRows(a) :
              wal' = [wal EXCEPT ![a] = {[v EXCEPT !.rows =
                  IF stage < Len(v.rows) THEN [v.rows EXCEPT ![stage + 1] = i]
                                         ELSE Append(v.rows, i)]}]
      BY <1>4 DEF RecordStage
    <2>2. v \in Recovery /\ v.rows \in Seq(Nat) /\ i \in Nat /\ stage \in Nat
      BY StageFacts DEF TypeOK, Recovery, LeaseRows
    <2>. DEFINE rows == IF stage < Len(v.rows) THEN [v.rows EXCEPT ![stage + 1] = i]
                                               ELSE Append(v.rows, i)
    <2>3. rows \in Seq(Nat)
      BY <2>2, ExceptSeq
    <2>. HIDE DEF rows
    <2>4. wal' = [wal EXCEPT ![a] = {[v EXCEPT !.rows = rows]}]
      BY <2>1 DEF rows
    <2>. QED  BY <1>2, <1>4, <2>2, <2>3, <2>4 DEF RecordStage, Recovery
  <1>5. ASSUME NEW a \in App, Close(a)
        PROVE  \E w : Notes(a, w)
    <2>1. PICK v \in wal[a] : wal' = [wal EXCEPT ![a] = {[v EXCEPT !.receipted = TRUE]}]
      BY <1>5 DEF Close
    <2>2. v \in Recovery
      BY DEF TypeOK
    <2>. QED  BY <1>2, <1>5, <2>1, <2>2 DEF Close, Recovery
  <1>6. ASSUME NEW a \in App, Begin(a) \/ Stop(a)
        PROVE  UNCHANGED wal \/ Create(a)
    BY <1>6 DEF Begin, Resume, Prepare, PreparePacket, Stop, files
  <1>7. ASSUME NEW a \in App, Proceed(a), ~Count(a), ~RecordStage(a), ~Close(a)
        PROVE  UNCHANGED wal
    BY <1>7 DEF Proceed, Repair, AppendEvent, WriteState, AppendStage, ReuseStage,
                IssueReceipt, Refuse, files
  <1>8. ASSUME NEW a \in App, Operate(a)
        PROVE  UNCHANGED wal
    BY <1>8 DEF Operate, Admit, CompileScheduled, CompileControl, BindState,
                DeclareUnknown, EndLease, LedgerAppend, files
  <1>9. CASE ForeignEvent \/ ForeignState \/ ForeignStop \/ BoardMoves
    BY <1>9 DEF ForeignEvent, ForeignState, ForeignStop, BoardMoves, files
  <1>. QED  BY <1>1, <1>3, <1>4, <1>5, <1>6, <1>7, <1>8, <1>9 DEF Next

(* A receipt is written at the end of the way, and nothing else with it.   *)
Receipts(result) ==
    /\ running \in App /\ step = "receipt" /\ wal[running] # {}
    /\ result \in Receipt /\ receipt' = [receipt EXCEPT ![running] = {result}]
    /\ UNCHANGED <<ledger, log, state, wal, running>>

LEMMA ReceiptMoves ==
    ASSUME TypeOK, Next
    PROVE  UNCHANGED receipt \/ \E result : Receipts(result)
  <1>1. ASSUME NEW a \in App, IssueReceipt(a)
        PROVE  \E result : Receipts(result)
    <2>1. PICK w \in wal[a] :
              receipt' = [receipt EXCEPT ![a] = {[rows |-> w.rows, before |-> w.before]}]
      BY <1>1 DEF IssueReceipt
    <2>2. [rows |-> w.rows, before |-> w.before] \in Receipt
      BY DEF TypeOK, Recovery, Receipt
    <2>3. Receipts([rows |-> w.rows, before |-> w.before])
      BY <1>1, <2>1, <2>2 DEF Receipts, IssueReceipt, Goto
    <2>. QED  BY <2>3
  <1>2. ASSUME NEW a \in App, Begin(a) \/ Stop(a)
        PROVE  UNCHANGED receipt
    BY <1>2 DEF Begin, Resume, Prepare, PreparePacket, Create, Stop, files
  <1>3. ASSUME NEW a \in App, Proceed(a), ~IssueReceipt(a)
        PROVE  UNCHANGED receipt
    BY <1>3 DEF Proceed, Repair, Count, AppendEvent, WriteState, AppendStage, ReuseStage,
                RecordStage, Close, Refuse, files
  <1>4. ASSUME NEW a \in App, Operate(a)
        PROVE  UNCHANGED receipt
    BY <1>4 DEF Operate, Admit, CompileScheduled, CompileControl, BindState,
                DeclareUnknown, EndLease, LedgerAppend, files
  <1>5. CASE ForeignEvent \/ ForeignState \/ ForeignStop \/ BoardMoves
    BY <1>5 DEF ForeignEvent, ForeignState, ForeignStop, BoardMoves, files
  <1>. QED  BY <1>1, <1>2, <1>3, <1>4, <1>5 DEF Next

-----------------------------------------------------------------------------
(* The ledger and the log keep what the invariant says of them.            *)

LEMMA RowsAfter ==
    ASSUME NEW row, ledger \in Seq(LedgerRow), row \in LedgerRow,
           ledger' = Append(ledger, row)
    PROVE  LET n == Len(ledger) + 1 IN
           /\ n \notin DOMAIN ledger /\ DOMAIN ledger' = DOMAIN ledger \cup {n}
           /\ \A i \in DOMAIN ledger : ledger'[i] = ledger[i] /\ i < n /\ i \in Nat
           /\ ledger'[n] = row /\ ledger' \in Seq(LedgerRow)
  OBVIOUS

LEMMA RecordsAfter ==
    ASSUME NEW record, log \in Seq(LogRecord), record \in LogRecord,
           log' = Append(log, record)
    PROVE  LET n == Len(log) + 1 IN
           /\ Len(log) \in Nat /\ Len(log') = n
           /\ n \notin DOMAIN log /\ DOMAIN log' = DOMAIN log \cup {n}
           /\ \A i \in DOMAIN log : log'[i] = log[i] /\ i < n /\ i \in Nat
           /\ log'[n] = record /\ log' \in Seq(LogRecord)
  OBVIOUS

(* A result that the Supervisor has stays there.                           *)
LEMMA SupervisedStays ==
    ASSUME TypeOK, RecordsArePrepared, ProcessInPlace, Next, NEW a \in App, Supervised(a)
    PROVE  Supervised(a)'
  <1>1. log \in Seq(LogRecord) /\ state \in Nat /\ state <= Len(log)
    BY DEF TypeOK
  <1>2. \A i \in 1 .. state : log'[i] = log[i]
    <2>1. CASE UNCHANGED log
      BY <2>1
    <2>2. ASSUME NEW record, Logs(record)
          PROVE  \A i \in 1 .. state : log'[i] = log[i]
      BY <1>1, <2>2, RecordsAfter DEF Logs
    <2>. QED  BY <2>1, <2>2, LogMoves
  <1>3. \A i \in 1 .. state : i \in 1 .. state'
    BY <1>1, StateMoves DEF Settles
  <1>. QED  BY <1>2, <1>3 DEF Supervised

LEMMA GrantsStep ==
    ASSUME TypeOK, GrantsComeFirst, ProcessInPlace, Next
    PROVE  GrantsComeFirst'
  <1>1. CASE UNCHANGED ledger
    BY <1>1 DEF GrantsComeFirst
  <1>2. ASSUME NEW row, OthersRow(row) \/ OwnRow(row)
        PROVE  GrantsComeFirst'
    <2>. DEFINE n == Len(ledger) + 1
    <2>1. row \in LedgerRow /\ ledger' = Append(ledger, row) /\ row.lease \notin Control
      BY <1>2 DEF OthersRow, OwnRow
    <2>2. /\ n \notin DOMAIN ledger /\ DOMAIN ledger' = DOMAIN ledger \cup {n}
          /\ \A i \in DOMAIN ledger : ledger'[i] = ledger[i] /\ i < n /\ i \in Nat
          /\ ledger'[n] = row
      BY <2>1, RowsAfter DEF TypeOK
    <2>3. row.type = "lease_granted" =>
              \A j \in DOMAIN ledger : ledger[j].lease # row.lease
      <3>1. CASE OthersRow(row)
        BY <3>1 DEF OthersRow, LeaseRows
      <3>2. CASE OwnRow(row)
        <4>1. stage + 1 \in 1 .. 4
          BY <3>2, StageFacts DEF OwnRow, ProcessInPlace, InvocationKnows, TypeOK
        <4>2. row.type \in Stage
          BY <3>2, <4>1, StagesDiffer DEF OwnRow
        <4>. QED  BY <4>2, StageFacts
      <3>. QED  BY <1>2, <3>1, <3>2
    <2>4. n \in Nat
      BY DEF TypeOK
    <2>. HIDE DEF n
    <2>. QED  BY <2>1, <2>2, <2>3, <2>4 DEF GrantsComeFirst
  <1>. QED  BY <1>1, <1>2, LedgerMoves

LEMMA OwnStageInRange ==
    ASSUME TypeOK, ProcessInPlace, NEW row, OwnRow(row)
    PROVE  stage + 1 \in 1 .. 4 /\ stage \in 0 .. 4
  BY StageFacts DEF OwnRow, ProcessInPlace, InvocationKnows, TypeOK

LEMMA RowsInOrderStep ==
    ASSUME TypeOK, GrantsComeFirst, RowsInOrder, ProcessInPlace, Next
    PROVE  RowsInOrder'
  <1>1. CASE UNCHANGED ledger
    BY <1>1 DEF RowsInOrder
  <1>2. ASSUME NEW row, OthersRow(row)
        PROVE  RowsInOrder'
    <2>. DEFINE n == Len(ledger) + 1
    <2>1. row \in LedgerRow /\ ledger' = Append(ledger, row) /\ ~row.manifest
      BY <1>2 DEF OthersRow
    <2>2. /\ n \notin DOMAIN ledger /\ DOMAIN ledger' = DOMAIN ledger \cup {n}
          /\ \A i \in DOMAIN ledger : ledger'[i] = ledger[i]
          /\ ledger'[n] = row
      BY <2>1, RowsAfter DEF TypeOK
    <2>. HIDE DEF n
    <2>. QED  BY <2>1, <2>2 DEF RowsInOrder
  <1>3. ASSUME NEW row, OwnRow(row)
        PROVE  RowsInOrder'
    <2>. DEFINE n == Len(ledger) + 1
    <2>1. /\ row \in LedgerRow /\ ledger' = Append(ledger, row) /\ row.manifest
          /\ row.lease = running /\ row.type = Stages[stage + 1]
      BY <1>3 DEF OwnRow
    <2>2. /\ n \notin DOMAIN ledger /\ DOMAIN ledger' = DOMAIN ledger \cup {n}
          /\ \A i \in DOMAIN ledger : ledger'[i] = ledger[i] /\ i < n
          /\ ledger'[n] = row
      BY <2>1, RowsAfter DEF TypeOK
    <2>. HIDE DEF n
    <2>3. \A i \in DOMAIN ledger : ledger[i].lease = running => ledger[i].type # row.type
      BY <1>3, <2>1 DEF OwnRow, StageRows, LeaseRows
    <2>4. stage + 1 > 1 => \E j \in DOMAIN ledger :
              /\ ledger[j].manifest /\ ledger[j].lease = running
              /\ ledger[j].type = Stages[stage]
      BY <1>3, OwnStageInRange DEF OwnRow, ProcessInPlace, InvocationKnows, HasStage, LeaseRows
    <2>5. /\ stage + 1 \in 1 .. 4 /\ (stage + 1) - 1 = stage
      BY <1>3, OwnStageInRange
    <2>6. ASSUME NEW i \in DOMAIN ledger', ledger'[i].manifest
          PROVE  \E k \in 1 .. 4 :
                     /\ ledger'[i].type = Stages[k]
                     /\ k > 1 => \E j \in DOMAIN ledger' :
                            /\ j < i /\ ledger'[j].manifest
                            /\ ledger'[j].lease = ledger'[i].lease
                            /\ ledger'[j].type = Stages[k - 1]
      <3>1. CASE i \in DOMAIN ledger
        BY <2>2, <2>6, <3>1 DEF RowsInOrder
      <3>2. CASE i = n
        BY <2>1, <2>2, <2>4, <2>5, <3>2
      <3>. QED  BY <2>2, <3>1, <3>2
    <2>7. ASSUME NEW i \in DOMAIN ledger', NEW j \in DOMAIN ledger',
                 ledger'[i].manifest, ledger'[j].manifest,
                 ledger'[j].lease = ledger'[i].lease, ledger'[j].type = ledger'[i].type
          PROVE  j = i
      BY <2>1, <2>2, <2>3, <2>7 DEF RowsInOrder
    <2>. QED  BY <2>6, <2>7 DEF RowsInOrder
  <1>. QED  BY <1>1, <1>2, <1>3, LedgerMoves

(* A recovery file stays, and remembers what it was created over.          *)
LEMMA WalStays ==
    ASSUME TypeOK, Next, NEW a \in App, wal[a] # {}
    PROVE  /\ wal'[a] # {}
           /\ \A w \in wal'[a] : \E v \in wal[a] :
                  w.before = v.before /\ w.from = v.from /\ w.started = v.started
  <1>1. CASE UNCHANGED wal
    BY <1>1
  <1>2. ASSUME NEW b, NEW w, Notes(b, w)
        PROVE  /\ wal'[a] # {}
               /\ \A u \in wal'[a] : \E v \in wal[a] :
                      u.before = v.before /\ u.from = v.from /\ u.started = v.started
    <2>1. wal'[b] = {w} /\ (a # b => wal'[a] = wal[a])
      BY <1>2 DEF Notes, TypeOK
    <2>2. CASE a = b
      BY <1>2, <2>1, <2>2 DEF Notes
    <2>3. CASE a # b
      BY <2>1, <2>3
    <2>. QED  BY <2>2, <2>3
  <1>. QED  BY <1>1, <1>2, WalMoves

LEMMA PreparedStep ==
    ASSUME TypeOK, GrantsComeFirst, RowsArePrepared, RecordsArePrepared, ProcessInPlace, Next
    PROVE  RowsArePrepared'
  <1>1. ASSUME NEW a \in App, NEW at, Supervised(a), wal[a] # {},
               \A w \in wal[a] : at = w.started
        PROVE  Supervised(a)' /\ wal'[a] # {} /\ \A w \in wal'[a] : at = w.started
    BY <1>1, SupervisedStays, WalStays
  <1>2. ledger \in Seq(LedgerRow) /\ \A i \in DOMAIN ledger : ledger[i].lease \in App
    <2>1. ledger \in Seq(LedgerRow)
      BY DEF TypeOK
    <2>2. \A i \in DOMAIN ledger : ledger[i] \in LedgerRow
      BY <2>1
    <2>. QED  BY <2>1, <2>2 DEF LedgerRow
  <1>3. \A a \in App, i \in DOMAIN ledger : ledger[i].manifest /\ ledger[i].lease = a =>
            Supervised(a)' /\ wal'[a] # {} /\ \A w \in wal'[a] : ledger[i].at = w.started
    <2>. SUFFICES ASSUME NEW a \in App, NEW i \in DOMAIN ledger,
                         ledger[i].manifest, ledger[i].lease = a
                  PROVE  /\ Supervised(a)' /\ wal'[a] # {}
                         /\ \A w \in wal'[a] : ledger[i].at = w.started
      OBVIOUS
    <2>1. Supervised(a) /\ wal[a] # {} /\ \A w \in wal[a] : ledger[i].at = w.started
      BY DEF RowsArePrepared
    <2>. QED  BY <1>1, <2>1
  <1>4. CASE UNCHANGED ledger
    BY <1>2, <1>3, <1>4 DEF RowsArePrepared, Supervised
  <1>5. ASSUME NEW row, row \in LedgerRow, ledger' = Append(ledger, row),
               row.manifest => /\ Supervised(row.lease)' /\ wal'[row.lease] # {}
                               /\ \A w \in wal'[row.lease] : row.at = w.started
        PROVE  RowsArePrepared'
    <2>. DEFINE n == Len(ledger) + 1
    <2>1. /\ n \notin DOMAIN ledger /\ DOMAIN ledger' = DOMAIN ledger \cup {n}
          /\ \A i \in DOMAIN ledger : ledger'[i] = ledger[i]
          /\ ledger'[n] = row
      BY <1>2, <1>5, RowsAfter
    <2>. HIDE DEF n
    <2>. QED  BY <1>2, <1>3, <1>5, <2>1 DEF RowsArePrepared, Supervised
  <1>6. ASSUME NEW row, OwnRow(row)
        PROVE  /\ row \in LedgerRow /\ ledger' = Append(ledger, row)
               /\ Supervised(row.lease)' /\ wal'[row.lease] # {}
               /\ \A w \in wal'[row.lease] : row.at = w.started
    <2>1. /\ row \in LedgerRow /\ ledger' = Append(ledger, row) /\ row.lease = running
          /\ running \in App /\ step = "stages" /\ (\E w \in wal[running] : row.at = w.started)
          /\ UNCHANGED <<log, state, wal>>
      BY <1>6 DEF OwnRow
    <2>2. Supervised(running) /\ wal[running] # {} /\ AtMostOne(wal[running])
      BY <2>1 DEF ProcessInPlace, InvocationKnows, TypeOK
    <2>3. \A w \in wal[running] : row.at = w.started
      BY <2>1, <2>2 DEF AtMostOne
    <2>. QED  BY <2>1, <2>2, <2>3 DEF Supervised
  <1>7. ASSUME NEW row, OthersRow(row)
        PROVE  row \in LedgerRow /\ ledger' = Append(ledger, row) /\ ~row.manifest
    BY <1>7 DEF OthersRow
  <1>. QED  BY <1>4, <1>5, <1>6, <1>7, LedgerMoves

LEMMA RecordsStep ==
    ASSUME TypeOK, RecordsArePrepared, ProcessInPlace, Next
    PROVE  RecordsArePrepared'
  <1>1. CASE UNCHANGED log
    <2>. SUFFICES ASSUME NEW i \in DOMAIN log, NEW a \in App, a = log[i].by
                  PROVE  wal'[a] # {} /\ \A w \in wal'[a] : w.from = w.before /\ w.before < i
      BY <1>1 DEF RecordsArePrepared
    <2>1. wal[a] # {} /\ \A w \in wal[a] : w.from = w.before /\ w.before < i
      BY DEF RecordsArePrepared
    <2>. QED  BY <2>1, WalStays
  <1>2. ASSUME NEW record, Logs(record)
        PROVE  RecordsArePrepared'
    <2>. DEFINE n == Len(log) + 1
    <2>1. /\ n \notin DOMAIN log /\ DOMAIN log' = DOMAIN log \cup {n}
          /\ \A i \in DOMAIN log : log'[i] = log[i]
          /\ log'[n] = record
      BY <1>2, RecordsAfter DEF Logs, TypeOK
    <2>2. record.by \in App => \A w \in wal[record.by] : w.from = w.before /\ w.before < n
      <3>. SUFFICES ASSUME record.by \in App, NEW w \in wal[record.by]
                    PROVE  w.from = w.before /\ w.before < n
        OBVIOUS
      <3>1. running \in App /\ record.by = running /\ step = "append"
        BY <1>2 DEF Logs
      <3>2. OwnSince(running, w) /\ Settled(w)
        BY <3>1 DEF ProcessInPlace, InvocationKnows
      <3>3. w.before \in Nat /\ w.from \in Nat /\ Len(log) \in Nat
        BY <3>1 DEF TypeOK, Recovery
      <3>. QED  BY <3>2, <3>3 DEF OwnSince, Settled, Prefix
    <2>. HIDE DEF n
    <2>. QED  BY <1>2, <2>1, <2>2 DEF RecordsArePrepared, Logs
  <1>. QED  BY <1>1, <1>2, LogMoves

LEMMA ReceiptsStep ==
    ASSUME TypeOK, RecordsArePrepared, ReceiptsAreSupervised, ProcessInPlace, Next
    PROVE  ReceiptsAreSupervised'
  <1>. SUFFICES ASSUME NEW a \in App, receipt'[a] # {}
                PROVE  Supervised(a)'
    BY DEF ReceiptsAreSupervised
  <1>1. CASE receipt[a] # {}
    BY <1>1, SupervisedStays DEF ReceiptsAreSupervised
  <1>2. CASE receipt[a] = {}
    <2>1. PICK result : Receipts(result)
      BY <1>2, ReceiptMoves
    <2>2. a = running /\ step = "receipt"
      BY <1>2, <2>1 DEF Receipts, TypeOK
    <2>3. Supervised(a)
      BY <2>2 DEF ProcessInPlace, InvocationKnows
    <2>. QED  BY <2>3, SupervisedStays
  <1>. QED  BY <1>1, <1>2

-----------------------------------------------------------------------------
(* The running invocation.                                                 *)

ProcessTyped ==
    /\ running \in App \cup {Nobody, Supervisor}
    /\ step \in {"idle", "reconcile", "append", "state", "stages", "record",
                 "receipt", "close"}
    /\ stage \in 0 .. 4 /\ missing \in BOOLEAN

LEMMA ProcessMoves ==
    ASSUME TypeOK, ProcessInPlace, Next
    PROVE  ProcessTyped'
  <1>1. ProcessTyped
    BY StageFacts DEF ProcessTyped, TypeOK
  <1>2. ASSUME NEW a \in App, Begin(a) \/ Stop(a)
        PROVE  ProcessTyped'
    <2>1. CASE Begin(a)
      <3>1. Enter(a)
        BY <2>1 DEF Begin, Resume, Prepare, PreparePacket, Create
      <3>2. missing' \in BOOLEAN
        BY <3>1, Zenon DEF Enter
      <3>. QED  BY <3>1, <3>2 DEF ProcessTyped, Enter, AfterEvents
    <2>2. CASE Stop(a)
      <3>1. missing' \in BOOLEAN
        BY <2>2, Zenon DEF Stop, Leave
      <3>. QED  BY <2>2, <3>1 DEF ProcessTyped, Stop, Leave
    <2>. QED  BY <1>2, <2>1, <2>2
  <1>3. ASSUME NEW a \in App, RecordStage(a)
        PROVE  ProcessTyped'
    <2>1. stage < 4
      BY <1>3 DEF RecordStage, ProcessInPlace, InvocationKnows
    <2>. QED  BY <1>1, <1>3, <2>1 DEF ProcessTyped, RecordStage
  <1>4. ASSUME NEW a \in App, Proceed(a), ~RecordStage(a)
        PROVE  ProcessTyped'
    <2>1. CASE Close(a) \/ Refuse(a)
      <3>1. missing' \in BOOLEAN
        BY <2>1, Zenon DEF Close, Refuse, Leave
      <3>. QED  BY <2>1, <3>1 DEF ProcessTyped, Close, Refuse, Leave
    <2>2. CASE Count(a)
      BY <1>1, <2>2 DEF ProcessTyped, Count, Goto, AfterEvents
    <2>3. CASE Repair(a) \/ AppendEvent(a) \/ WriteState(a) \/ IssueReceipt(a)
      BY <1>1, <2>3 DEF ProcessTyped, Repair, AppendEvent, WriteState, IssueReceipt, Goto,
                        process
    <2>4. CASE AppendStage(a) \/ ReuseStage(a)
      BY <1>1, <2>4 DEF ProcessTyped, AppendStage, ReuseStage, Goto
    <2>. QED  BY <1>4, <2>1, <2>2, <2>3, <2>4 DEF Proceed
  <1>5. ASSUME NEW a \in App, Operate(a)
        PROVE  ProcessTyped'
    BY <1>1, <1>5 DEF ProcessTyped, Operate, Admit, CompileScheduled, CompileControl,
           BindState, DeclareUnknown, EndLease, LedgerAppend, process
  <1>6. CASE ForeignEvent \/ ForeignState \/ ForeignStop \/ BoardMoves
    BY <1>1, <1>6 DEF ProcessTyped, ForeignEvent, ForeignState, ForeignStop, BoardMoves,
           process
  <1>. QED  BY <1>2, <1>3, <1>4, <1>5, <1>6 DEF Next

BoundTyped ==
    /\ bound \in [App -> SUBSET Nat] /\ \A a \in App : AtMostOne(bound[a])
    /\ board \in BOOLEAN /\ stops \in 0 .. MaxStops

LEMMA BoundMoves ==
    ASSUME TypeOK, Next
    PROVE  BoundTyped'
  <1>1. UNCHANGED <<bound, board, stops>> => BoundTyped'
    BY DEF TypeOK, BoundTyped
  <1>2. ASSUME NEW a \in App, bound' = [bound EXCEPT ![a] = {state}],
               UNCHANGED <<board, stops>>
        PROVE  BoundTyped'
    BY <1>2 DEF TypeOK, BoundTyped, AtMostOne
  <1>3. ASSUME NEW a \in App, Stop(a)
        PROVE  BoundTyped'
    BY <1>3, ConstantsAssumption DEF Stop, TypeOK, BoundTyped
  <1>4. CASE BoardMoves
    BY <1>4 DEF BoardMoves, TypeOK, BoundTyped
  <1>5. ASSUME NEW a \in App, Begin(a)
        PROVE  UNCHANGED <<bound, board, stops>>
    BY <1>5 DEF Begin, Resume, Prepare, PreparePacket, Create
  <1>6. ASSUME NEW a \in App, Proceed(a)
        PROVE  UNCHANGED <<bound, board, stops>>
    BY <1>6 DEF Proceed, Repair, Count, AppendEvent, WriteState, AppendStage, ReuseStage,
                RecordStage, IssueReceipt, Close, Refuse
  <1>7. ASSUME NEW a \in App, Operate(a)
        PROVE  BoundTyped'
    <2>1. \/ UNCHANGED <<bound, board, stops>>
          \/ bound' = [bound EXCEPT ![a] = {state}] /\ UNCHANGED <<board, stops>>
      BY <1>7 DEF Operate, Admit, CompileScheduled, CompileControl, BindState,
                  DeclareUnknown, EndLease, LedgerAppend
    <2>. QED  BY <1>1, <1>2, <2>1
  <1>8. ForeignEvent \/ ForeignState \/ ForeignStop => UNCHANGED <<bound, board, stops>>
    BY DEF ForeignEvent, ForeignState, ForeignStop
  <1>. QED  BY <1>1, <1>2, <1>3, <1>4, <1>5, <1>6, <1>7, <1>8 DEF Next

LEMMA TypeStep ==
    ASSUME TypeOK, GrantsComeFirst, RecordsArePrepared, ProcessInPlace, Next
    PROVE  TypeOK'
  <1>1. ledger' \in Seq(LedgerRow)
    <2>1. ledger \in Seq(LedgerRow)
      BY DEF TypeOK
    <2>2. ASSUME NEW row, OthersRow(row) \/ OwnRow(row)
          PROVE  ledger' \in Seq(LedgerRow)
      BY <2>1, <2>2, RowsAfter DEF OthersRow, OwnRow
    <2>. QED  BY <2>1, <2>2, LedgerMoves
  <1>2. log' \in Seq(LogRecord) /\ state' \in 0 .. Len(log')
    <2>1. log \in Seq(LogRecord) /\ state \in 0 .. Len(log) /\ Len(log) \in Nat
      BY DEF TypeOK
    <2>2. CASE UNCHANGED log
      BY <2>1, <2>2, StateMoves DEF Settles, HalfWritten
    <2>3. ASSUME NEW record, Logs(record)
          PROVE  log' \in Seq(LogRecord) /\ state' \in 0 .. Len(log')
      BY <2>1, <2>3, RecordsAfter DEF Logs
    <2>. QED  BY <2>2, <2>3, LogMoves
  <1>3. wal' \in [App -> SUBSET Recovery] /\ \A a \in App : AtMostOne(wal'[a])
    <2>1. wal \in [App -> SUBSET Recovery] /\ \A a \in App : AtMostOne(wal[a])
      BY DEF TypeOK
    <2>2. ASSUME NEW b, NEW w, Notes(b, w)
          PROVE  wal' \in [App -> SUBSET Recovery] /\ \A a \in App : AtMostOne(wal'[a])
      BY <2>1, <2>2 DEF Notes, AtMostOne
    <2>. QED  BY <2>1, <2>2, WalMoves
  <1>4. receipt' \in [App -> SUBSET Receipt] /\ \A a \in App : AtMostOne(receipt'[a])
    <2>1. receipt \in [App -> SUBSET Receipt] /\ \A a \in App : AtMostOne(receipt[a])
      BY DEF TypeOK
    <2>2. ASSUME NEW result, Receipts(result)
          PROVE  /\ receipt' \in [App -> SUBSET Receipt]
                 /\ \A a \in App : AtMostOne(receipt'[a])
      BY <2>1, <2>2 DEF Receipts, AtMostOne
    <2>. QED  BY <2>1, <2>2, ReceiptMoves
  <1>5. ProcessTyped'
    BY ProcessMoves
  <1>6. Len(Stages) = 4 /\ Len(Stages)' = 4
    BY StageFacts DEF Stages
  <1>. QED  BY <1>1, <1>2, <1>3, <1>4, <1>5, <1>6, BoundMoves
            DEF TypeOK, ProcessTyped, BoundTyped

LEMMA HasStageStays ==
    ASSUME TypeOK, GrantsComeFirst, ProcessInPlace, Next, NEW a, NEW k, HasStage(a, k)
    PROVE  HasStage(a, k)'
  <1>1. CASE UNCHANGED ledger
    BY <1>1 DEF HasStage, LeaseRows
  <1>2. ASSUME NEW row, OthersRow(row) \/ OwnRow(row)
        PROVE  HasStage(a, k)'
    <2>1. row \in LedgerRow /\ ledger' = Append(ledger, row)
      BY <1>2 DEF OthersRow, OwnRow
    <2>2. \A i \in DOMAIN ledger : i \in DOMAIN ledger' /\ ledger'[i] = ledger[i]
      BY <2>1, RowsAfter DEF TypeOK
    <2>. QED  BY <2>2 DEF HasStage, LeaseRows
  <1>. QED  BY <1>1, <1>2, LedgerMoves

(* A lease that the running invocation may use stays usable for it: nobody *)
(* else writes to the ledger, and the invocation's own rows do not matter  *)
(* or end the lease themselves.                                            *)
LEMMA UsableStays ==
    ASSUME TypeOK, ProcessInPlace, NEW a \in App, LeaseUsable(a),
           UNCHANGED ledger \/ \E row : OwnRow(row) /\ row.lease = a
    PROVE  LeaseUsable(a)'
  <1>1. CASE UNCHANGED ledger
    BY <1>1 DEF LeaseUsable, LeaseRows, Terminal, LeaseActive, ActiveRows, RowsOfType,
                SettlesLease
  <1>2. ASSUME NEW row, OwnRow(row), row.lease = a
        PROVE  LeaseUsable(a)'
    <2>. DEFINE n == Len(ledger) + 1
    <2>1. row \in LedgerRow /\ ledger' = Append(ledger, row) /\ row.manifest
      BY <1>2 DEF OwnRow
    <2>2. /\ n \notin DOMAIN ledger /\ DOMAIN ledger' = DOMAIN ledger \cup {n}
          /\ \A i \in DOMAIN ledger : ledger'[i] = ledger[i] /\ i < n /\ i \in Nat
          /\ ledger'[n] = row /\ n \in Nat
      BY <2>1, RowsAfter DEF TypeOK
    <2>3. row.type \in Stage
      BY <1>2, OwnStageInRange, StagesDiffer DEF OwnRow
    <2>4. \A i \in LeaseRows(a) : ledger[i].type # row.type
      BY <1>2 DEF OwnRow, StageRows
    <2>. HIDE DEF n
    <2>5. LeaseRows(a)' = LeaseRows(a) \cup {n} /\ n \notin LeaseRows(a)
      BY <1>2, <2>2 DEF LeaseRows
    <2>6. \A i \in LeaseRows(a)' : ledger'[i].type # "execution_unknown"
      BY <2>2, <2>3, <2>5, StageFacts DEF LeaseUsable, LeaseRows
    <2>7. CASE row.type \notin TerminalLeaseEvents
      <3>1. Terminal(a)' = Terminal(a)
        BY <2>2, <2>5, <2>7 DEF Terminal, LeaseRows
      <3>2. \A i \in Terminal(a) : ledger'[i] = ledger[i]
        BY <2>2 DEF Terminal, LeaseRows
      <3>3. LeaseActive(a) => LeaseActive(a)'
        <4>1. row.type # "lease_granted"
          BY <2>3, StageFacts
        <4>. QED  BY <2>2, <2>7, <4>1
                  DEF LeaseActive, ActiveRows, RowsOfType, SettlesLease
      <3>. QED  BY <2>6, <3>1, <3>2, <3>3 DEF LeaseUsable
    <2>8. CASE row.type \in TerminalLeaseEvents
      <3>1. row.type = "lease_released"
        BY <2>3, <2>8, StageFacts DEF TerminalLeaseEvents
      <3>2. Terminal(a) = {}
        BY <2>4, <3>1 DEF LeaseUsable, Terminal
      <3>3. Terminal(a)' = {n}
        BY <2>2, <2>5, <2>8, <3>2 DEF Terminal, LeaseRows
      <3>. QED  BY <2>1, <2>2, <2>6, <3>1, <3>3 DEF LeaseUsable
    <2>. QED  BY <2>7, <2>8
  <1>. QED  BY <1>1, <1>2

(* What a running invocation knows is not lost by a step, its own or, of a *)
(* result without a lease, another's.                                      *)
LEMMA Carried ==
    ASSUME TypeOK, GrantsComeFirst, RecordsArePrepared, ProcessInPlace, Next,
           NEW a \in App, running = a
    PROVE  /\ InvocationKnows(a) /\ wal'[a] # {}
           /\ a \notin Control => LeaseUsable(a)'
           /\ Supervised(a) => Supervised(a)'
           /\ \A k \in 1 .. 4 : HasStage(a, k) => HasStage(a, k)'
  <1>1. InvocationKnows(a)
    BY DEF ProcessInPlace
  <1>2. wal'[a] # {}
    BY <1>1, WalStays DEF InvocationKnows
  <1>3. ASSUME a \notin Control
        PROVE  LeaseUsable(a)'
    <2>1. LeaseUsable(a)
      BY <1>1, <1>3 DEF InvocationKnows
    <2>2. UNCHANGED ledger \/ \E row : OwnRow(row) /\ row.lease = a
      BY <1>3, LedgerMoves DEF OthersRow, OwnRow
    <2>. QED  BY <2>1, <2>2, UsableStays
  <1>. QED  BY <1>1, <1>2, <1>3, SupervisedStays, HasStageStays

LEMMA Running ==
    ASSUME NEW a \in App, running' = a, InvocationKnows(a)'
    PROVE  ProcessInPlace'
  BY NamesAssumption DEF ProcessInPlace

LEMMA NotRunning ==
    ASSUME running' = Nobody, step' = "idle"
    PROVE  ProcessInPlace'
  BY NamesAssumption DEF ProcessInPlace, Nobody, Supervisor

LEMMA EnterStep ==
    ASSUME TypeOK, GrantsComeFirst, RecordsArePrepared, ReceiptsAreSupervised,
           ProcessInPlace, Next, NEW a \in App, Begin(a)
    PROVE  ProcessInPlace'
  <1>1. /\ Enter(a) /\ UNCHANGED <<ledger, log, state, receipt>>
        /\ wal'[a] # {}
    BY DEF Begin, Resume, Prepare, PreparePacket, Create, files, TypeOK
  <1>2. a \notin Control => LeaseUsable(a)'
    BY <1>1, UsableStays DEF Enter
  <1>3. CASE receipt[a] = {}
    BY <1>1, <1>2, <1>3, Running DEF Enter, InvocationKnows
  <1>4. CASE receipt[a] # {}
    <2>1. Supervised(a)'
      BY <1>4, SupervisedStays DEF ReceiptsAreSupervised
    <2>2. stage' = 0 /\ running' = a /\ step' = IF a \in Control THEN "receipt" ELSE "stages"
      BY <1>1, <1>4 DEF Enter, AfterEvents
    <2>3. \A k \in 1 .. stage' : HasStage(a, k)'
      BY <2>2
    <2>4. InvocationKnows(a)'
      BY <1>1, <1>2, <2>1, <2>2, <2>3 DEF InvocationKnows
    <2>. QED  BY <2>2, <2>4, Running
  <1>. QED  BY <1>3, <1>4

LEMMA CountStep ==
    ASSUME TypeOK, GrantsComeFirst, RecordsArePrepared, ProcessInPlace, Next,
           NEW a \in App, Count(a)
    PROVE  ProcessInPlace'
  <1>. USE Carried
  <1>1. PICK v \in wal[a] :
            /\ OwnSince(a, v) /\ Settled(v)
            /\ wal' = [wal EXCEPT ![a] = {[v EXCEPT !.counted = Prefix(v)]}]
            /\ step' = IF BundleComplete(a, v) THEN AfterEvents(a) ELSE "append"
    BY DEF Count, Goto
  <1>2. /\ running = a /\ running' = a /\ step = "reconcile" /\ UNCHANGED <<log, state, stage>>
    BY DEF Count, Goto
  <1>3. stage' = 0
    BY <1>2 DEF InvocationKnows
  <1>4. CASE BundleComplete(a, v)
    <2>1. Supervised(a)
      <3>1. /\ v.before \in Nat /\ Prefix(v) = Events[a] /\ Events[a] \in Nat
            /\ v.before + Prefix(v) = Len(log) /\ state = Len(log)
            /\ \A i \in 1 .. Prefix(v) : log[v.before + i] = [by |-> a, event |-> i]
        <4>1. v.before \in Nat /\ Events[a] \in Nat
          BY ConstantsAssumption DEF TypeOK, Recovery
        <4>2. Prefix(v) = Events[a] /\ state = Len(log)
          BY <1>1, <1>4 DEF Settled, BundleComplete
        <4>3. /\ v.before + Prefix(v) = Len(log)
              /\ \A i \in 1 .. Prefix(v) : log[v.before + i] = [by |-> a, event |-> i]
          BY <1>1, OwnRecords
        <4>. QED  BY <4>1, <4>2, <4>3
      <3>2. ASSUME NEW k \in 1 .. Events[a]
            PROVE  \E i \in 1 .. state : log[i] = [by |-> a, event |-> k]
        <4>1. v.before + k \in 1 .. state
          BY <3>1
        <4>. QED  BY <3>1, <4>1
      <3>. QED  BY <3>2 DEF Supervised
    <2>2. step' = IF a \in Control THEN "receipt" ELSE "stages"
      BY <1>1, <1>4 DEF AfterEvents
    <2>3. \A k \in 1 .. stage' : HasStage(a, k)'
      BY <1>3
    <2>4. InvocationKnows(a)'
      BY <1>2, <1>3, <2>1, <2>2, <2>3 DEF InvocationKnows
    <2>. QED  BY <1>2, <2>4, Running
  <1>5. CASE ~BundleComplete(a, v)
    <2>1. wal'[a] = {[v EXCEPT !.counted = Prefix(v)]}
      BY <1>1 DEF TypeOK
    <2>2. ASSUME NEW w \in wal'[a]
          PROVE  /\ w.before = v.before /\ w.from = v.from
      BY <2>1, <2>2 DEF TypeOK, Recovery
    <2>3. \A w \in wal'[a] : OwnSince(a, w)' /\ Settled(w)' /\ ~BundleComplete(a, w)'
      BY <1>1, <1>2, <1>5, <2>2
         DEF OwnSince, Settled, BundleComplete, Prefix, Since, Bundle
    <2>4. InvocationKnows(a)'
      BY <1>1, <1>2, <1>3, <1>5, <2>3 DEF InvocationKnows
    <2>. QED  BY <1>2, <2>4, Running
  <1>. QED  BY <1>4, <1>5

LEMMA EventsStep ==
    ASSUME TypeOK, GrantsComeFirst, RecordsArePrepared, ProcessInPlace, Next,
           NEW a \in App, Repair(a) \/ AppendEvent(a) \/ WriteState(a)
    PROVE  ProcessInPlace'
  <1>. USE Carried
  <1>1. CASE Repair(a)
    <2>1. running = a /\ running' = a /\ step' = "reconcile" /\ UNCHANGED stage /\ step = "reconcile"
      BY <1>1 DEF Repair, process
    <2>2. InvocationKnows(a)'
      BY <2>1 DEF InvocationKnows
    <2>. QED  BY <2>1, <2>2, Running
  <1>2. CASE WriteState(a)
    <2>1. running = a /\ running' = a /\ step' = "reconcile" /\ UNCHANGED stage /\ step = "state"
      BY <1>2 DEF WriteState, Goto
    <2>2. InvocationKnows(a)'
      BY <2>1 DEF InvocationKnows
    <2>. QED  BY <2>1, <2>2, Running
  <1>3. CASE AppendEvent(a)
    <2>1. running = a /\ running' = a /\ step' = "state" /\ UNCHANGED stage /\ step = "append"
      BY <1>3 DEF AppendEvent, Goto
    <2>2. PICK record : Logs(record)
      <3>1. \A r : log # Append(log, r)
        BY DEF TypeOK
      <3>2. PICK r : log' = Append(log, r)
        BY <1>3 DEF AppendEvent
      <3>. QED  BY <3>1, <3>2, LogMoves
    <2>3. /\ Len(log') = Len(log) + 1 /\ log'[Len(log')] = record /\ state' = Len(log)
          /\ record.by = a
      BY <2>1, <2>2, RecordsAfter DEF Logs, TypeOK
    <2>4. HalfWritten'
      BY <2>1, <2>3 DEF HalfWritten
    <2>5. InvocationKnows(a)'
      BY <2>1, <2>4 DEF InvocationKnows
    <2>. QED  BY <2>1, <2>5, Running
  <1>. QED  BY <1>1, <1>2, <1>3

LEMMA StagesStep ==
    ASSUME TypeOK, GrantsComeFirst, RecordsArePrepared, ProcessInPlace, Next,
           NEW a \in App, AppendStage(a) \/ ReuseStage(a) \/ RecordStage(a) \/ IssueReceipt(a)
    PROVE  ProcessInPlace'
  <1>. USE Carried
  <1>1. CASE AppendStage(a)
    <2>1. running = a /\ running' = a /\ step' = "record" /\ UNCHANGED stage /\ step = "stages"
      BY <1>1 DEF AppendStage
    <2>2. PICK row : OwnRow(row)
      <3>1. \A r : ledger # Append(ledger, r)
        BY DEF TypeOK
      <3>2. PICK r : ledger' = Append(ledger, r)
        BY <1>1 DEF AppendStage
      <3>3. a \notin Control
        BY <2>1 DEF InvocationKnows
      <3>. QED  BY <2>1, <3>1, <3>2, <3>3, LedgerMoves DEF OthersRow
    <2>3. HasStage(a, stage + 1)'
      <3>. DEFINE n == Len(ledger) + 1
      <3>1. n \in DOMAIN ledger' /\ ledger'[n] = row
        BY <2>2, RowsAfter DEF OwnRow, TypeOK
      <3>2. Stages' = Stages
        BY DEF Stages
      <3>. HIDE DEF n
      <3>. QED  BY <2>1, <2>2, <3>1, <3>2 DEF HasStage, LeaseRows, OwnRow
    <2>4. stage < 4 /\ stage \in 0 .. 4 /\ a \notin Control /\ Supervised(a)
          /\ \A k \in 1 .. stage : HasStage(a, k)
      BY <2>1, StageFacts DEF InvocationKnows, TypeOK
    <2>5. \A k \in 1 .. stage : HasStage(a, k)'
      BY <2>1, <2>4
    <2>6. InvocationKnows(a)'
      BY <2>1, <2>3, <2>4, <2>5 DEF InvocationKnows
    <2>. QED  BY <2>1, <2>6, Running
  <1>2. CASE ReuseStage(a)
    <2>1. running = a /\ running' = a /\ step' = "record" /\ UNCHANGED stage /\ step = "stages"
      BY <1>2 DEF ReuseStage, Goto
    <2>2. HasStage(a, stage + 1)
      BY <1>2 DEF ReuseStage, HasStage, StageRows
    <2>3. stage < 4 /\ stage \in 0 .. 4 /\ a \notin Control /\ Supervised(a)
          /\ \A k \in 1 .. stage : HasStage(a, k)
      BY <2>1, StageFacts DEF InvocationKnows, TypeOK
    <2>4. stage + 1 \in 1 .. 4 /\ \A k \in 1 .. stage : k \in 1 .. 4
      BY <2>3
    <2>5. HasStage(a, stage + 1)' /\ \A k \in 1 .. stage : HasStage(a, k)'
      <3>1. UNCHANGED ledger
        BY <1>2 DEF ReuseStage, files
      <3>2. Stages' = Stages
        BY DEF Stages
      <3>. QED  BY <2>1, <2>2, <2>3, <3>1, <3>2 DEF HasStage, LeaseRows
    <2>6. InvocationKnows(a)'
      BY <2>1, <2>3, <2>5 DEF InvocationKnows
    <2>. QED  BY <2>1, <2>6, Running
  <1>3. CASE RecordStage(a)
    <2>1. /\ running = a /\ running' = a /\ step = "record" /\ stage' = stage + 1
          /\ step' = IF stage + 1 = 4 THEN "receipt" ELSE "stages"
      BY <1>3, StageFacts DEF RecordStage
    <2>2. /\ stage < 4 /\ stage \in 0 .. 4 /\ a \notin Control /\ Supervised(a)
          /\ HasStage(a, stage + 1) /\ \A k \in 1 .. stage : HasStage(a, k)
      BY <2>1, StageFacts DEF InvocationKnows, TypeOK
    <2>3. \A k \in 1 .. stage' : HasStage(a, k)
      <3>1. \A k \in 1 .. stage' : k \in 1 .. stage \/ k = stage + 1
        BY <2>1, <2>2
      <3>. QED  BY <2>2, <3>1
    <2>4. \A k \in 1 .. stage' : k \in 1 .. 4
      BY <2>1, <2>2
    <2>5. \A k \in 1 .. stage' : HasStage(a, k)'
      BY <2>1, <2>3, <2>4
    <2>6. step' = "stages" => stage' < 4
      BY <2>1, <2>2
    <2>7. InvocationKnows(a)'
      BY <2>1, <2>2, <2>5, <2>6 DEF InvocationKnows
    <2>. QED  BY <2>1, <2>7, Running
  <1>4. CASE IssueReceipt(a)
    <2>1. running = a /\ running' = a /\ step' = "close" /\ step = "receipt"
      BY <1>4 DEF IssueReceipt, Goto
    <2>2. InvocationKnows(a)'
      BY <2>1 DEF InvocationKnows
    <2>. QED  BY <2>1, <2>2, Running
  <1>. QED  BY <1>1, <1>2, <1>3, <1>4

LEMMA OthersStep ==
    ASSUME TypeOK, GrantsComeFirst, RecordsArePrepared, ProcessInPlace, Next,
           (\E a \in App : Operate(a)) \/ BoardMoves
    PROVE  ProcessInPlace'
  <1>1. /\ UNCHANGED <<log, state, wal, running, step, stage>>
        /\ UNCHANGED ledger \/ running \notin App \ Control
    <2>1. ASSUME NEW a \in App, Operate(a)
          PROVE  /\ UNCHANGED <<log, state, wal, running, step, stage>>
                 /\ UNCHANGED ledger \/ running \notin App \ Control
      BY <2>1 DEF Operate, Admit, CompileScheduled, CompileControl, BindState,
                  DeclareUnknown, EndLease, LedgerAppend, files, process
    <2>2. CASE BoardMoves
      BY <2>2 DEF BoardMoves, files, process
    <2>. QED  BY <2>1, <2>2
  <1>2. HalfWritten' <=> HalfWritten
    BY <1>1 DEF HalfWritten
  <1>3. ASSUME NEW a \in App, running' = a
        PROVE  InvocationKnows(a)'
    <2>1. /\ InvocationKnows(a)
          /\ a \notin Control => LeaseUsable(a)'
          /\ Supervised(a) => Supervised(a)'
          /\ \A k \in 1 .. 4 : HasStage(a, k) => HasStage(a, k)'
      BY <1>1, <1>3, Carried
    <2>2. \A w : /\ OwnSince(a, w) <=> OwnSince(a, w)'
                 /\ Settled(w) <=> Settled(w)'
                 /\ BundleComplete(a, w) <=> BundleComplete(a, w)'
      BY <1>1 DEF OwnSince, Settled, BundleComplete, Prefix, Since, Bundle
    <2>3. stage \in 0 .. 4
      BY StageFacts DEF TypeOK
    <2>4. \A k \in 1 .. stage : HasStage(a, k) => HasStage(a, k)'
      BY <2>1, <2>3
    <2>5. stage < 4 => (HasStage(a, stage + 1) => HasStage(a, stage + 1)')
      <3>. SUFFICES ASSUME stage < 4, HasStage(a, stage + 1)
                    PROVE  HasStage(a, stage + 1)'
        OBVIOUS
      <3>1. PICK m : m = stage + 1
        OBVIOUS
      <3>2. m \in 1 .. 4 /\ HasStage(a, m)
        BY <2>3, <3>1
      <3>3. HasStage(a, m)'
        BY <2>1, <3>2
      <3>. QED  BY <1>1, <3>1, <3>3 DEF HasStage
    <2>6. step' \in {"stages", "record", "receipt"} =>
              \A k \in 1 .. stage' : HasStage(a, k)'
      BY <1>1, <2>1, <2>4 DEF InvocationKnows
    <2>7. step' = "record" => HasStage(a, stage + 1)'
      BY <1>1, <2>1, <2>5 DEF InvocationKnows
    <2>8. step' = "append" => \A w \in wal'[a] :
              OwnSince(a, w)' /\ Settled(w)' /\ ~BundleComplete(a, w)'
      BY <1>1, <2>1, <2>2 DEF InvocationKnows
    <2>9. step' = "state" => HalfWritten'
      BY <1>1, <1>2, <2>1 DEF InvocationKnows
    <2>10. /\ step' # "idle" /\ wal'[a] # {}
           /\ step' \in {"reconcile", "append", "state"} => stage' = 0
           /\ step' \in {"stages", "record"} => stage' < 4 /\ a \notin Control
           /\ step' \in {"stages", "record", "receipt", "close"} => Supervised(a)'
           /\ step' = "receipt" => a \in Control \/ stage' = 4
      BY <1>1, <2>1 DEF InvocationKnows
    <2>. QED  BY <2>1, <2>6, <2>7, <2>8, <2>9, <2>10 DEF InvocationKnows
  <1>. QED  BY <1>1, <1>2, <1>3 DEF ProcessInPlace

LEMMA ProcessStep ==
    ASSUME TypeOK, GrantsComeFirst, RecordsArePrepared, ReceiptsAreSupervised,
           ProcessInPlace, Next
    PROVE  ProcessInPlace'
  <1>1. ASSUME NEW a \in App, Begin(a)
        PROVE  ProcessInPlace'
    BY <1>1, EnterStep
  <1>2. ASSUME NEW a \in App, Proceed(a)
        PROVE  ProcessInPlace'
    <2>1. CASE Close(a) \/ Refuse(a)
      BY <2>1, NotRunning DEF Close, Refuse, Leave
    <2>. QED  BY <1>2, <2>1, CountStep, EventsStep, StagesStep DEF Proceed
  <1>3. ASSUME NEW a \in App, Stop(a)
        PROVE  ProcessInPlace'
    BY <1>3, NotRunning DEF Stop, Leave
  <1>4. ASSUME ForeignEvent
        PROVE  ProcessInPlace'
    <2>1. running' = Supervisor /\ step' = "idle"
      BY <1>4, NamesAssumption DEF ForeignEvent, ProcessInPlace
    <2>2. HalfWritten'
      <3>1. PICK record : Logs(record)
        <4>1. \A r : log # Append(log, r)
          BY DEF TypeOK
        <4>. QED  BY <1>4, <4>1, LogMoves DEF ForeignEvent
      <3>. QED  BY <3>1, RecordsAfter DEF Logs, HalfWritten, TypeOK
    <2>. QED  BY <2>1, <2>2, NamesAssumption DEF ProcessInPlace
  <1>5. CASE ForeignState \/ ForeignStop
    <2>1. running' = Nobody /\ step' = "idle"
      BY <1>5, NamesAssumption DEF ForeignState, ForeignStop, ProcessInPlace
    <2>. QED  BY <2>1, NotRunning
  <1>. QED  BY <1>1, <1>2, <1>3, <1>4, <1>5, OthersStep DEF Next

-----------------------------------------------------------------------------
(* The theorems.                                                           *)

LEMMA InvInit == Init => Inv
  <1>. SUFFICES ASSUME Init
                PROVE  Inv
    OBVIOUS
  <1>. USE DEF Init
  <1>1. TypeOK
    <2>1. <<>> \in Seq(LedgerRow) /\ <<>> \in Seq(LogRecord) /\ Len(<<>>) = 0
      OBVIOUS
    <2>2. bound \in [App -> SUBSET Nat] /\ \A a \in App : AtMostOne(bound[a])
      BY DEF AtMostOne
    <2>3. wal \in [App -> SUBSET Recovery] /\ \A a \in App : AtMostOne(wal[a])
      BY DEF AtMostOne
    <2>4. receipt \in [App -> SUBSET Receipt] /\ \A a \in App : AtMostOne(receipt[a])
      BY DEF AtMostOne
    <2>5. ledger \in Seq(LedgerRow) /\ log \in Seq(LogRecord) /\ state \in 0 .. Len(log)
      BY <2>1
    <2>6. stage \in 0 .. Len(Stages) /\ stops \in 0 .. MaxStops
      BY StageFacts, ConstantsAssumption
    <2>7. board \in BOOLEAN /\ missing \in BOOLEAN
      BY Zenon
    <2>. QED  BY <2>2, <2>3, <2>4, <2>5, <2>6, <2>7 DEF TypeOK
  <1>2. DOMAIN ledger = {} /\ DOMAIN log = {}
    OBVIOUS
  <1>3. GrantsComeFirst /\ RowsInOrder /\ RowsArePrepared /\ RecordsArePrepared
    BY <1>2 DEF GrantsComeFirst, RowsInOrder, RowsArePrepared, RecordsArePrepared
  <1>4. ReceiptsAreSupervised
    BY DEF ReceiptsAreSupervised
  <1>5. ProcessInPlace
    BY NamesAssumption DEF ProcessInPlace, Nobody, Supervisor
  <1>. QED  BY <1>1, <1>3, <1>4, <1>5 DEF Inv

LEMMA InvStep == Inv /\ [Next]_vars => Inv'
  <1>1. ASSUME Inv, Next
        PROVE  Inv'
    BY <1>1, TypeStep, GrantsStep, RowsInOrderStep, PreparedStep, RecordsStep,
       ReceiptsStep, ProcessStep DEF Inv
  <1>2. ASSUME Inv, UNCHANGED vars
        PROVE  Inv'
    <2>. USE <1>2 DEF Inv, vars, files, process
    <2>1. TypeOK'
      BY DEF TypeOK, Stages
    <2>2. GrantsComeFirst' /\ RowsInOrder'
      BY DEF GrantsComeFirst, RowsInOrder, Stages
    <2>3. RowsArePrepared' /\ RecordsArePrepared' /\ ReceiptsAreSupervised'
      BY DEF RowsArePrepared, RecordsArePrepared, ReceiptsAreSupervised, Supervised
    <2>4. \A a, k : /\ HasStage(a, k)' <=> HasStage(a, k)
                    /\ Supervised(a)' <=> Supervised(a)
                    /\ LeaseUsable(a)' <=> LeaseUsable(a)
      BY DEF HasStage, LeaseRows, Supervised, LeaseUsable, Terminal, LeaseActive,
             ActiveRows, RowsOfType, SettlesLease, Stages
    <2>5. \A a, w : /\ OwnSince(a, w) <=> OwnSince(a, w)'
                    /\ Settled(w) <=> Settled(w)'
                    /\ BundleComplete(a, w) <=> BundleComplete(a, w)'
      BY DEF OwnSince, Settled, BundleComplete, Prefix, Since, Bundle
    <2>6. HalfWritten' <=> HalfWritten
      BY DEF HalfWritten
    <2>7. ASSUME NEW a \in App, InvocationKnows(a)
          PROVE  InvocationKnows(a)'
      <3>1. HasStage(a, stage + 1)' <=> HasStage(a, stage + 1)
        BY DEF HasStage, LeaseRows, Stages
      <3>. QED  BY <2>4, <2>5, <2>6, <2>7, <3>1 DEF InvocationKnows
    <2>8. ProcessInPlace'
      BY <2>6, <2>7 DEF ProcessInPlace
    <2>. QED  BY <2>1, <2>2, <2>3, <2>8
  <1>. QED  BY <1>1, <1>2

THEOREM Invariance == Spec => []Inv
  BY InvInit, InvStep, PTL DEF Spec

(* Every file holds what its readers expect, whatever stops where.         *)
THEOREM TypeCorrect == Spec => []TypeOK
  <1>1. Inv => TypeOK
    BY DEF Inv
  <1>. QED  BY <1>1, Invariance, PTL

(* Only the writer that logged a record writes the state that reflects it  *)
(* (_reconcile_supervisor_locked).                                         *)
THEOREM OnlyOwnRepairs == Spec => RepairsOwnOnly
  <1>1. ASSUME Inv, [Next]_vars
        PROVE  [\A i \in DOMAIN log : state < i /\ i <= state' => log[i].by = running]_vars
    <2>1. CASE Next
      <3>1. UNCHANGED state \/ Settles
        BY <1>1, <2>1, StateMoves DEF Inv
      <3>2. state \in Nat /\ \A i \in DOMAIN log : i \in Nat
        BY <1>1 DEF Inv, TypeOK
      <3>. QED  BY <3>1, <3>2 DEF Settles, HalfWritten
    <2>2. CASE UNCHANGED vars
      BY <2>2
    <2>. QED  BY <1>1, <2>1, <2>2
  <1>. QED  BY <1>1, Invariance, PTL DEF Spec, RepairsOwnOnly

-----------------------------------------------------------------------------
(* The rows of an application, counted.                                    *)

OwnRows(a) == {i \in LeaseRows(a) : ledger[i].manifest}
UpTo(a, i) == {j \in OwnRows(a) : j <= i}

LEMMA Predecessor ==
    ASSUME TypeOK, RowsInOrder, NEW a, NEW i \in OwnRows(a), NEW k \in 1 .. 4,
           ledger[i].type = Stages[k], k > 1
    PROVE  \E j \in OwnRows(a) : j < i /\ ledger[j].type = Stages[k - 1]
  <1>1. i \in DOMAIN ledger /\ ledger[i].manifest /\ ledger[i].lease = a
    BY DEF OwnRows, LeaseRows
  <1>2. PICK m \in 1 .. 4 :
            /\ ledger[i].type = Stages[m]
            /\ m > 1 => \E j \in DOMAIN ledger :
                   /\ j < i /\ ledger[j].manifest
                   /\ ledger[j].lease = ledger[i].lease /\ ledger[j].type = Stages[m - 1]
    BY <1>1 DEF RowsInOrder
  <1>3. m = k
    BY <1>2, StagesDiffer
  <1>. QED  BY <1>1, <1>2, <1>3 DEF OwnRows, LeaseRows

LEMMA OnePerStage ==
    ASSUME RowsInOrder, NEW a, NEW i \in OwnRows(a), NEW j \in OwnRows(a),
           ledger[i].type = ledger[j].type
    PROVE  i = j
  BY DEF RowsInOrder, OwnRows, LeaseRows

LEMMA OwnRowsPlaced ==
    ASSUME TypeOK, RowsInOrder, NEW a, NEW i \in OwnRows(a)
    PROVE  i \in Nat /\ \E k \in 1 .. 4 : ledger[i].type = Stages[k]
  BY DEF RowsInOrder, OwnRows, LeaseRows, TypeOK

(* Of two rows of an application, the one of the earlier stage is first.   *)
LEMMA EarlierStageFirst ==
    ASSUME TypeOK, RowsInOrder, NEW a, NEW i \in OwnRows(a), NEW j \in OwnRows(a),
           NEW k \in 1 .. 4, NEW m \in 1 .. 4, m < k,
           ledger[i].type = Stages[k], ledger[j].type = Stages[m]
    PROVE  j < i
  <1>1. PICK p \in OwnRows(a) : p < i /\ ledger[p].type = Stages[k - 1]
    BY Predecessor
  <1>2. k - 1 \in 1 .. 4 /\ i \in Nat /\ j \in Nat /\ p \in Nat
    BY OwnRowsPlaced
  <1>3. CASE m = k - 1
    BY <1>1, <1>3, OnePerStage
  <1>4. CASE m < k - 1
    <2>1. PICK q \in OwnRows(a) : q < p /\ ledger[q].type = Stages[(k - 1) - 1]
      BY <1>1, <1>2, <1>4, Predecessor
    <2>2. k - 2 \in 1 .. 4 /\ (k - 1) - 1 = k - 2 /\ q \in Nat
      BY <1>4, OwnRowsPlaced
    <2>3. CASE m = k - 2
      BY <1>1, <1>2, <2>1, <2>2, <2>3, OnePerStage
    <2>4. CASE m < k - 2
      <3>1. PICK r \in OwnRows(a) : r < q /\ ledger[r].type = Stages[(k - 2) - 1]
        BY <2>1, <2>2, <2>4, Predecessor
      <3>2. m = (k - 2) - 1 /\ r \in Nat
        BY <2>4, OwnRowsPlaced
      <3>3. r = j
        BY <3>1, <3>2, OnePerStage
      <3>. QED  BY <1>1, <1>2, <2>1, <2>2, <3>1, <3>2, <3>3
    <2>. QED  BY <1>4, <2>2, <2>3, <2>4
  <1>. QED  BY <1>2, <1>3, <1>4

LEMMA OneMore ==
    ASSUME TypeOK, RowsInOrder, NEW a, NEW i \in OwnRows(a), NEW k \in 1 .. 3,
           ledger[i].type = Stages[k + 1],
           \A p \in OwnRows(a) : ledger[p].type = Stages[k] =>
               IsFiniteSet(UpTo(a, p)) /\ Cardinality(UpTo(a, p)) = k
    PROVE  IsFiniteSet(UpTo(a, i)) /\ Cardinality(UpTo(a, i)) = k + 1
  <1>1. k + 1 \in 1 .. 4 /\ k \in 1 .. 4 /\ (k + 1) - 1 = k /\ k + 1 > 1
    OBVIOUS
  <1>2. PICK p \in OwnRows(a) : p < i /\ ledger[p].type = Stages[k]
    BY <1>1, Predecessor
  <1>3. i \in Nat /\ p \in Nat
    BY OwnRowsPlaced
  <1>4. i \notin UpTo(a, p)
    BY <1>2, <1>3 DEF UpTo
  <1>5. UpTo(a, i) = UpTo(a, p) \cup {i}
    <2>1. ASSUME NEW j \in OwnRows(a), j <= i, j # i
          PROVE  j <= p
      <3>1. PICK m \in 1 .. 4 : ledger[j].type = Stages[m]
        BY OwnRowsPlaced
      <3>2. j \in Nat
        BY OwnRowsPlaced
      <3>3. CASE m > k + 1
        BY <1>1, <1>3, <2>1, <3>1, <3>2, <3>3, EarlierStageFirst
      <3>4. CASE m = k + 1
        BY <2>1, <3>1, <3>4, OnePerStage
      <3>5. CASE m = k
        BY <1>2, <1>3, <3>1, <3>5, OnePerStage
      <3>6. CASE m < k
        BY <1>1, <1>2, <1>3, <3>1, <3>2, <3>6, EarlierStageFirst
      <3>. QED  BY <3>3, <3>4, <3>5, <3>6
    <2>2. \A j \in OwnRows(a) : j \in Nat
      BY OwnRowsPlaced
    <2>3. \A j \in OwnRows(a) : j <= i <=> j <= p \/ j = i
      BY <1>2, <1>3, <2>1, <2>2
    <2>. QED  BY <2>3 DEF UpTo
  <1>6. IsFiniteSet(UpTo(a, p)) /\ Cardinality(UpTo(a, p)) = k
    BY <1>2
  <1>7. IsFiniteSet(UpTo(a, p) \cup {i})
    BY <1>6, FS_AddElement
  <1>8. Cardinality(UpTo(a, p) \cup {i}) = Cardinality(UpTo(a, p)) + 1
    BY <1>4, <1>6, FS_AddElement
  <1>. QED  BY <1>5, <1>6, <1>7, <1>8

LEMMA RowsCounted ==
    ASSUME TypeOK, RowsInOrder, NEW a
    PROVE  \A k \in 1 .. 4, i \in OwnRows(a) : ledger[i].type = Stages[k] =>
               IsFiniteSet(UpTo(a, i)) /\ Cardinality(UpTo(a, i)) = k
  <1>. DEFINE Counted(k) == \A i \in OwnRows(a) : ledger[i].type = Stages[k] =>
                  IsFiniteSet(UpTo(a, i)) /\ Cardinality(UpTo(a, i)) = k
  <1>1. Counted(1)
    <2>. SUFFICES ASSUME NEW i \in OwnRows(a), ledger[i].type = Stages[1]
                  PROVE  IsFiniteSet(UpTo(a, i)) /\ Cardinality(UpTo(a, i)) = 1
      OBVIOUS
    <2>1. i \in Nat
      BY OwnRowsPlaced
    <2>2. ASSUME NEW j \in OwnRows(a), j <= i
          PROVE  j = i
      <3>1. PICK m \in 1 .. 4 : ledger[j].type = Stages[m]
        BY OwnRowsPlaced
      <3>2. j \in Nat
        BY OwnRowsPlaced
      <3>3. CASE m > 1
        BY <2>1, <2>2, <3>1, <3>2, <3>3, EarlierStageFirst
      <3>4. CASE m = 1
        BY <3>1, <3>4, OnePerStage
      <3>. QED  BY <3>3, <3>4
    <2>3. \A j \in OwnRows(a) : j <= i <=> j = i
      BY <2>1, <2>2
    <2>4. UpTo(a, i) = {i}
      BY <2>3 DEF UpTo
    <2>. QED  BY <2>4, FS_Singleton
  <1>2. ASSUME NEW k \in 1 .. 3, Counted(k)
        PROVE  Counted(k + 1)
    BY <1>2, OneMore
  <1>. HIDE DEF Counted
  <1>3. Counted(2)
    <2>1. 1 + 1 = 2 /\ 1 \in 1 .. 3
      OBVIOUS
    <2>. QED  BY <1>1, <1>2, <2>1
  <1>4. Counted(3)
    <2>1. 2 + 1 = 3 /\ 2 \in 1 .. 3
      OBVIOUS
    <2>. QED  BY <1>2, <1>3, <2>1
  <1>5. Counted(4)
    <2>1. 3 + 1 = 4 /\ 3 \in 1 .. 3
      OBVIOUS
    <2>. QED  BY <1>2, <1>4, <2>1
  <1>6. \A k \in 1 .. 4 : Counted(k)
    <2>1. \A k \in 1 .. 4 : k = 1 \/ k = 2 \/ k = 3 \/ k = 4
      OBVIOUS
    <2>. QED  BY <1>1, <1>3, <1>4, <1>5, <2>1
  <1>. QED  BY <1>6 DEF Counted

(* However often an application stops and is retried, each of its ledger   *)
(* rows is written once, in the order of the stages, with the time of the  *)
(* invocation that prepared it (_finalize_ledger_locked).                  *)
THEOREM StagesInOrder == Spec => []StagesOnceInOrder
  <1>1. ASSUME Inv
        PROVE  StagesOnceInOrder
    <2>. USE <1>1 DEF Inv
    <2>1. ASSUME NEW a \in App, NEW i \in OwnRows(a)
          PROVE  /\ ledger[i].type = Stages[Cardinality(UpTo(a, i))]
                 /\ \A j \in OwnRows(a) : ledger[i].at = ledger[j].at
      <3>1. ledger[i].type = Stages[Cardinality(UpTo(a, i))]
        BY OwnRowsPlaced, RowsCounted
      <3>2. \A j \in OwnRows(a) :
                wal[a] # {} /\ \A w \in wal[a] : ledger[j].at = w.started
        BY DEF RowsArePrepared, OwnRows, LeaseRows
      <3>. QED  BY <3>1, <3>2
    <2>. QED  BY <2>1 DEF StagesOnceInOrder, OwnRows, UpTo
  <1>. QED  BY <1>1, Invariance, PTL

-----------------------------------------------------------------------------
(* The files implement the promise of ResultApplication.                   *)

SupervisedResults == {a \in App : Supervised(a)}
AcceptedResults == {a \in App : StageRows(a, "quality_accepted") # {}}
Leases == [a \in App |-> LeaseOutcome(a)]
UnknownResults == {a \in App : StageRows(a, "execution_unknown") # {}}
ReceiptedResults == {a \in App : receipt[a] # {}}

promised == <<SupervisedResults, AcceptedResults, Leases, UnknownResults, ReceiptedResults>>

LEMMA PromisedVars == ASSUME UNCHANGED promised PROVE UNCHANGED Promise!vars
  BY DEF promised, Promise!vars, SupervisedResults, AcceptedResults, Leases,
         UnknownResults, ReceiptedResults

(* What a row changes of its own lease, and that it changes no other.      *)
LEMMA LeaseAfter ==
    ASSUME ledger \in Seq(LedgerRow), NEW row \in LedgerRow, ledger' = Append(ledger, row)
    PROVE  LET n == Len(ledger) + 1 IN
           \A b : /\ b # row.lease => /\ LeaseOutcome(b)' = LeaseOutcome(b)
                                      /\ \A type : StageRows(b, type)' = StageRows(b, type)
                  /\ b = row.lease =>
                       /\ LeaseRows(b)' = LeaseRows(b) \cup {n}
                       /\ \A i \in LeaseRows(b) : ledger'[i] = ledger[i]
                       /\ ledger'[n] = row
                       /\ \A type : StageRows(b, type)' =
                              StageRows(b, type) \cup (IF row.type = type THEN {n} ELSE {})
                       /\ Terminal(b)' = Terminal(b) \cup
                              (IF row.type \in TerminalLeaseEvents THEN {n} ELSE {})
  <1>. DEFINE n == Len(ledger) + 1
  <1>1. /\ n \notin DOMAIN ledger /\ DOMAIN ledger' = DOMAIN ledger \cup {n}
        /\ \A i \in DOMAIN ledger : ledger'[i] = ledger[i]
        /\ ledger'[n] = row
    BY RowsAfter
  <1>. HIDE DEF n
  <1>. SUFFICES ASSUME NEW b
                PROVE  /\ b # row.lease => /\ LeaseOutcome(b)' = LeaseOutcome(b)
                                           /\ \A type : StageRows(b, type)' = StageRows(b, type)
                       /\ b = row.lease =>
                            /\ LeaseRows(b)' = LeaseRows(b) \cup {n}
                            /\ \A i \in LeaseRows(b) : ledger'[i] = ledger[i]
                            /\ ledger'[n] = row
                            /\ \A type : StageRows(b, type)' =
                                   StageRows(b, type) \cup (IF row.type = type THEN {n} ELSE {})
                            /\ Terminal(b)' = Terminal(b) \cup
                                   (IF row.type \in TerminalLeaseEvents THEN {n} ELSE {})
    BY DEF n
  <1>2. ASSUME b # row.lease
        PROVE  /\ LeaseOutcome(b)' = LeaseOutcome(b)
               /\ \A type : StageRows(b, type)' = StageRows(b, type)
    <2>1. LeaseRows(b)' = LeaseRows(b) /\ \A i \in LeaseRows(b) : ledger'[i] = ledger[i]
      BY <1>1, <1>2 DEF LeaseRows
    <2>2. Terminal(b)' = Terminal(b) /\ \A i \in Terminal(b) : ledger'[i] = ledger[i]
      BY <2>1 DEF Terminal
    <2>3. LeaseOutcome(b)' = LeaseOutcome(b)
      BY <2>1, <2>2 DEF LeaseOutcome
    <2>4. \A type : StageRows(b, type)' = StageRows(b, type)
      BY <2>1 DEF StageRows
    <2>. QED  BY <2>3, <2>4
  <1>3. ASSUME b = row.lease
        PROVE  /\ LeaseRows(b)' = LeaseRows(b) \cup {n}
               /\ \A i \in LeaseRows(b) : ledger'[i] = ledger[i]
    BY <1>1, <1>3 DEF LeaseRows
  <1>4. ASSUME b = row.lease
        PROVE  /\ \A type : StageRows(b, type)' =
                      StageRows(b, type) \cup (IF row.type = type THEN {n} ELSE {})
               /\ Terminal(b)' = Terminal(b) \cup
                      (IF row.type \in TerminalLeaseEvents THEN {n} ELSE {})
    BY <1>1, <1>3, <1>4 DEF StageRows, Terminal
  <1>. QED  BY <1>1, <1>2, <1>3, <1>4

LEMMA ActiveIsHeld ==
    ASSUME TypeOK, GrantsComeFirst, NEW a \in App, LeaseActive(a)
    PROVE  LeaseRows(a) # {} /\ Terminal(a) = {} /\ LeaseOutcome(a) = "held"
  <1>1. PICK g \in DOMAIN ledger :
            /\ ledger[g].lease = a /\ ledger[g].type = "lease_granted"
            /\ \A j \in DOMAIN ledger : j > g => ~SettlesLease(ledger[j], a)
    BY DEF LeaseActive, ActiveRows, RowsOfType
  <1>2. \A j \in DOMAIN ledger : ledger[j].lease = a => j >= g
    <2>1. \A j \in DOMAIN ledger : j \in Nat
      BY DEF TypeOK
    <2>2. \A j \in DOMAIN ledger : j < g => ledger[j].lease # a
      BY <1>1 DEF GrantsComeFirst
    <2>. QED  BY <2>1, <2>2
  <1>3. ASSUME NEW j \in Terminal(a)
        PROVE  FALSE
    <2>1. j \in DOMAIN ledger /\ ledger[j].lease = a /\ ledger[j].type \in TerminalLeaseEvents
      BY <1>3 DEF Terminal, LeaseRows
    <2>2. j # g
      BY <1>1, <2>1 DEF TerminalLeaseEvents
    <2>3. j > g
      BY <1>2, <2>1, <2>2 DEF TypeOK
    <2>. QED  BY <1>1, <2>1, <2>3 DEF SettlesLease
  <1>4. LeaseRows(a) # {}
    BY <1>1 DEF LeaseRows
  <1>. QED  BY <1>3, <1>4 DEF LeaseOutcome

(* An application that has freed the lease has been through every stage.   *)
LEMMA StagesBefore ==
    ASSUME TypeOK, RowsInOrder, NEW a, HasStage(a, 4)
    PROVE  \A k \in 1 .. 4 : StageRows(a, Stages[k]) # {}
  <1>1. PICK i \in OwnRows(a) : ledger[i].type = Stages[4]
    BY DEF HasStage, OwnRows
  <1>2. PICK j \in OwnRows(a) : ledger[j].type = Stages[3]
    <2>1. 4 \in 1 .. 4 /\ 4 > 1 /\ 4 - 1 = 3
      OBVIOUS
    <2>. QED  BY <1>1, <2>1, Predecessor
  <1>3. PICK p \in OwnRows(a) : ledger[p].type = Stages[2]
    <2>1. 3 \in 1 .. 4 /\ 3 > 1 /\ 3 - 1 = 2
      OBVIOUS
    <2>. QED  BY <1>2, <2>1, Predecessor
  <1>4. PICK q \in OwnRows(a) : ledger[q].type = Stages[1]
    <2>1. 2 \in 1 .. 4 /\ 2 > 1 /\ 2 - 1 = 1
      OBVIOUS
    <2>. QED  BY <1>3, <2>1, Predecessor
  <1>5. \A k \in 1 .. 4 : k = 1 \/ k = 2 \/ k = 3 \/ k = 4
    OBVIOUS
  <1>. QED  BY <1>1, <1>2, <1>3, <1>4, <1>5 DEF StageRows, OwnRows

(* A usable lease is held, and its execution is not unknown, unless the    *)
(* application itself has freed it.                                        *)
LEMMA UsableIsOpen ==
    ASSUME TypeOK, GrantsComeFirst, NEW a \in App, LeaseUsable(a)
    PROVE  /\ a \notin UnknownResults
           /\ \/ LeaseOutcome(a) = "held"
              \/ LeaseOutcome(a) = "applied" /\ HasStage(a, 4)
  <1>1. a \notin UnknownResults
    BY DEF LeaseUsable, UnknownResults, StageRows
  <1>2. CASE LeaseActive(a)
    BY <1>1, <1>2, ActiveIsHeld
  <1>3. ASSUME NEW i \in Terminal(a), Terminal(a) = {i},
               ledger[i].type = "lease_released", ledger[i].manifest
        PROVE  LeaseOutcome(a) = "applied" /\ HasStage(a, 4)
    <2>1. i \in LeaseRows(a)
      BY DEF Terminal
    <2>2. LeaseOutcome(a) = "applied"
      BY <1>3, <2>1 DEF LeaseOutcome
    <2>. QED  BY <1>3, <2>1, <2>2, StageFacts DEF HasStage
  <1>. QED  BY <1>1, <1>2, <1>3 DEF LeaseUsable

(* The row of another: a grant, the end of a lease, an unknown execution.  *)
LEMMA OthersRowPromised ==
    ASSUME TypeOK, GrantsComeFirst, NEW row, OthersRow(row)
    PROVE  [Promise!Next]_(Promise!vars)
  <1>. DEFINE a == row.lease
              n == Len(ledger) + 1
  <1>1. /\ row \in LedgerRow /\ ledger' = Append(ledger, row) /\ ~row.manifest
        /\ a \in App /\ a \notin Control /\ UNCHANGED <<log, state, receipt>>
        /\ row.type \in {"lease_granted", "lease_released", "lease_recovered",
                         "execution_unknown"}
        /\ IF row.type = "lease_granted" THEN LeaseRows(a) = {} ELSE LeaseActive(a)
    BY DEF OthersRow, LedgerRow
  <1>2. UNCHANGED <<SupervisedResults, ReceiptedResults>>
    BY <1>1 DEF SupervisedResults, Supervised, ReceiptedResults
  <1>3. /\ \A b \in App : b # a => /\ LeaseOutcome(b)' = LeaseOutcome(b)
                                   /\ \A type : StageRows(b, type)' = StageRows(b, type)
        /\ LeaseRows(a)' = LeaseRows(a) \cup {n}
        /\ \A i \in LeaseRows(a) : ledger'[i] = ledger[i]
        /\ ledger'[n] = row
        /\ \A type : StageRows(a, type)' =
               StageRows(a, type) \cup (IF row.type = type THEN {n} ELSE {})
        /\ Terminal(a)' = Terminal(a) \cup
               (IF row.type \in TerminalLeaseEvents THEN {n} ELSE {})
    BY <1>1, LeaseAfter DEF TypeOK
  <1>. HIDE DEF a, n
  <1>4. UNCHANGED AcceptedResults
    BY <1>1, <1>3 DEF AcceptedResults
  <1>5. CASE row.type = "lease_granted"
    <2>1. UNCHANGED UnknownResults
      BY <1>1, <1>3, <1>5 DEF UnknownResults
    <2>2. LeaseOutcome(a) = "none" /\ Terminal(a) = {}
      BY <1>1, <1>5 DEF LeaseOutcome, Terminal
    <2>3. LeaseOutcome(a)' = "held"
      BY <1>3, <1>5, <2>2 DEF LeaseOutcome, TerminalLeaseEvents
    <2>4. Leases[a] = "none" /\ Leases' = [Leases EXCEPT ![a] = "held"]
      BY <1>1, <1>3, <2>2, <2>3 DEF Leases
    <2>5. Promise!Grant(a)
      BY <1>1, <1>2, <1>4, <2>1, <2>4
         DEF Promise!Grant, SupervisedResults, AcceptedResults, Leases, UnknownResults,
             ReceiptedResults
    <2>. QED  BY <1>1, <2>5 DEF Promise!Next
  <1>6. CASE row.type \in {"lease_released", "lease_recovered"}
    <2>1. UNCHANGED UnknownResults
      BY <1>1, <1>3, <1>6 DEF UnknownResults
    <2>2. LeaseOutcome(a) = "held" /\ Terminal(a) = {}
      BY <1>1, <1>6, ActiveIsHeld
    <2>3. Terminal(a)' = {n}
      BY <1>3, <1>6, <2>2 DEF TerminalLeaseEvents
    <2>4. LeaseOutcome(a)' = "operator"
      BY <1>1, <1>3, <2>3 DEF LeaseOutcome
    <2>5. Leases[a] = "held" /\ Leases' = [Leases EXCEPT ![a] = "operator"]
      BY <1>1, <1>3, <2>2, <2>4 DEF Leases
    <2>6. Promise!OperatorFrees(a)
      BY <1>1, <1>2, <1>4, <2>1, <2>5
         DEF Promise!OperatorFrees, SupervisedResults, AcceptedResults, Leases,
             UnknownResults, ReceiptedResults
    <2>. QED  BY <1>1, <2>6 DEF Promise!Next
  <1>7. CASE row.type = "execution_unknown"
    <2>1. LeaseOutcome(a) = "held" /\ Terminal(a) = {} /\ LeaseRows(a) # {}
      BY <1>1, <1>7, ActiveIsHeld
    <2>2. LeaseOutcome(a)' = "held"
      BY <1>3, <1>7, <2>1 DEF LeaseOutcome, TerminalLeaseEvents
    <2>3. Leases[a] = "held" /\ UNCHANGED Leases
      BY <1>1, <1>3, <2>1, <2>2 DEF Leases
    <2>4. UnknownResults' = UnknownResults \cup {a}
      BY <1>1, <1>3, <1>7 DEF UnknownResults
    <2>5. Promise!DeclareUnknown(a)
      BY <1>1, <1>2, <1>4, <2>3, <2>4
         DEF Promise!DeclareUnknown, SupervisedResults, AcceptedResults, Leases,
             UnknownResults, ReceiptedResults
    <2>. QED  BY <1>1, <2>5 DEF Promise!Next
  <1>. QED  BY <1>1, <1>5, <1>6, <1>7

(* A row of the application: of the four, one accepts and one frees.       *)
LEMMA OwnRowPromised ==
    ASSUME Inv, NEW row, OwnRow(row)
    PROVE  [Promise!Next]_(Promise!vars)
  <1>. USE DEF Inv
  <1>. DEFINE a == running
              n == Len(ledger) + 1
  <1>1. /\ row \in LedgerRow /\ ledger' = Append(ledger, row) /\ row.manifest
        /\ a \in App /\ a \notin Control /\ row.lease = a /\ step = "stages"
        /\ row.type = Stages[stage + 1] /\ StageRows(a, Stages[stage + 1]) = {}
        /\ UNCHANGED <<log, state, receipt>>
    BY DEF OwnRow
  <1>2. UNCHANGED <<SupervisedResults, ReceiptedResults>>
    BY <1>1 DEF SupervisedResults, Supervised, ReceiptedResults
  <1>3. /\ \A b \in App : b # row.lease =>
               /\ LeaseOutcome(b)' = LeaseOutcome(b)
               /\ \A type : StageRows(b, type)' = StageRows(b, type)
        /\ \A type : StageRows(row.lease, type)' =
               StageRows(row.lease, type) \cup (IF row.type = type THEN {n} ELSE {})
        /\ LeaseRows(row.lease)' = LeaseRows(row.lease) \cup {n}
        /\ ledger'[n] = row
        /\ Terminal(row.lease)' = Terminal(row.lease) \cup
               (IF row.type \in TerminalLeaseEvents THEN {n} ELSE {})
    BY <1>1, LeaseAfter DEF TypeOK
  <1>4. stage + 1 \in 1 .. 4 /\ stage \in 0 .. 3
    BY OwnStageInRange
  <1>5. PICK r \in App : r = running
    BY <1>1
  <1>. HIDE DEF a, n
  <1>6. InvocationKnows(r)
    BY <1>5 DEF ProcessInPlace
  <1>7. /\ LeaseUsable(r) /\ Supervised(r) /\ \A k \in 1 .. stage : HasStage(r, k)
    BY <1>1, <1>5, <1>6 DEF InvocationKnows, a
  <1>8. /\ \A b \in App : b # r => /\ LeaseOutcome(b)' = LeaseOutcome(b)
                                   /\ \A type : StageRows(b, type)' = StageRows(b, type)
        /\ \A type : StageRows(r, type)' =
               StageRows(r, type) \cup (IF row.type = type THEN {n} ELSE {})
        /\ LeaseRows(r)' = LeaseRows(r) \cup {n} /\ ledger'[n] = row
        /\ Terminal(r)' = Terminal(r) \cup
               (IF row.type \in TerminalLeaseEvents THEN {n} ELSE {})
        /\ row.type = Stages[stage + 1] /\ StageRows(r, Stages[stage + 1]) = {}
    BY <1>1, <1>3, <1>5 DEF a
  <1>9. LeaseOutcome(r) = "held" /\ r \notin UnknownResults /\ r \in SupervisedResults
    BY <1>4, <1>7, <1>8, UsableIsOpen, StagesBefore DEF SupervisedResults
  <1>10. LeaseRows(r) # {} /\ Terminal(r) = {}
    <2>1. LeaseRows(r) # {} /\ (Terminal(r) = {} \/ \A i \in Terminal(r) : ledger[i].manifest)
      BY <1>9, <1>7 DEF LeaseUsable, LeaseOutcome
    <2>. QED  BY <1>9, <2>1 DEF LeaseOutcome
  <1>11. row.type # "execution_unknown"
    BY <1>4, <1>8, StagesDiffer, StageFacts
  <1>12. UNCHANGED UnknownResults
    BY <1>8, <1>11 DEF UnknownResults
  <1>13. CASE stage + 1 # 2 /\ stage + 1 # 4
    <2>1. row.type \in {"dispatch_finished", "schedule_closed"}
      <3>1. stage + 1 = 1 \/ stage + 1 = 3
        BY <1>4, <1>13
      <3>. QED  BY <1>8, <3>1, StageFacts
    <2>2. UNCHANGED AcceptedResults
      BY <1>8, <2>1 DEF AcceptedResults
    <2>3. LeaseOutcome(r)' = "held"
      BY <1>8, <1>10, <2>1 DEF LeaseOutcome, TerminalLeaseEvents
    <2>4. UNCHANGED Leases
      BY <1>8, <1>9, <2>3 DEF Leases
    <2>. QED  BY <1>2, <1>12, <2>2, <2>4, PromisedVars DEF promised
  <1>14. CASE stage + 1 = 2
    <2>1. row.type = "quality_accepted"
      BY <1>8, <1>14, StageFacts
    <2>2. AcceptedResults' = AcceptedResults \cup {r}
      BY <1>8, <2>1 DEF AcceptedResults
    <2>3. LeaseOutcome(r)' = "held"
      BY <1>8, <1>10, <2>1 DEF LeaseOutcome, TerminalLeaseEvents
    <2>4. Leases[r] = "held" /\ UNCHANGED Leases
      BY <1>8, <1>9, <2>3 DEF Leases
    <2>5. Promise!Accept(r)
      BY <1>2, <1>9, <1>12, <2>2, <2>4
         DEF Promise!Accept, Promise!Open, SupervisedResults, AcceptedResults, Leases,
             UnknownResults, ReceiptedResults
    <2>. QED  BY <2>5 DEF Promise!Next
  <1>15. CASE stage + 1 = 4
    <2>1. row.type = "lease_released"
      BY <1>8, <1>15, StageFacts
    <2>2. UNCHANGED AcceptedResults
      BY <1>8, <2>1 DEF AcceptedResults
    <2>3. r \in AcceptedResults
      <3>1. HasStage(r, 2)
        BY <1>4, <1>7, <1>15
      <3>. QED  BY <3>1, StageFacts DEF HasStage, AcceptedResults, StageRows
    <2>4. Terminal(r)' = {n} /\ LeaseRows(r)' # {}
      BY <1>8, <1>10, <2>1 DEF TerminalLeaseEvents
    <2>5. LeaseOutcome(r)' = "applied"
      BY <1>1, <1>8, <2>4 DEF LeaseOutcome
    <2>6. Leases[r] = "held" /\ Leases' = [Leases EXCEPT ![r] = "applied"]
      BY <1>8, <1>9, <2>5 DEF Leases
    <2>7. Promise!Free(r)
      BY <1>2, <1>9, <1>12, <2>2, <2>3, <2>6
         DEF Promise!Free, Promise!Open, SupervisedResults, AcceptedResults, Leases,
             UnknownResults, ReceiptedResults
    <2>. QED  BY <2>7 DEF Promise!Next
  <1>. QED  BY <1>13, <1>14, <1>15

(* Nothing that the ledger says has changed.                               *)
LEMMA LedgerPromises ==
    ASSUME UNCHANGED ledger
    PROVE  UNCHANGED <<AcceptedResults, Leases, UnknownResults>>
  <1>1. \A b : /\ LeaseOutcome(b)' = LeaseOutcome(b)
               /\ \A type : StageRows(b, type)' = StageRows(b, type)
    BY DEF LeaseOutcome, StageRows, LeaseRows, Terminal
  <1>. QED  BY <1>1 DEF AcceptedResults, Leases, UnknownResults

(* The state catches up with the last record: the result whose record it   *)
(* is may be supervised now, and then its lease is open.                   *)
LEMMA SettlesPromised ==
    ASSUME Inv, Settles
    PROVE  [Promise!Next]_(Promise!vars)
  <1>. USE DEF Inv
  <1>1. /\ state + 1 = Len(log) /\ log[Len(log)].by = running /\ state' = state + 1
        /\ state \in Nat /\ UNCHANGED <<ledger, log, receipt>>
    BY DEF Settles, HalfWritten, TypeOK
  <1>2. UNCHANGED <<AcceptedResults, Leases, UnknownResults, ReceiptedResults>>
    BY <1>1, LedgerPromises DEF ReceiptedResults
  <1>3. \A i \in 1 .. state' : i \in 1 .. state \/ i = Len(log)
    BY <1>1
  <1>4. \A i \in 1 .. state : i \in 1 .. state'
    BY <1>1
  <1>5. \A b \in App : Supervised(b) => Supervised(b)'
    BY <1>1, <1>4 DEF Supervised
  <1>6. \A b \in App : b # running /\ Supervised(b)' => Supervised(b)
    BY <1>1, <1>3 DEF Supervised
  <1>7. CASE SupervisedResults' = SupervisedResults
    BY <1>2, <1>7, PromisedVars DEF promised
  <1>8. CASE SupervisedResults' # SupervisedResults
    <2>1. PICK a \in App : a = running /\ ~Supervised(a) /\ Supervised(a)'
      BY <1>5, <1>6, <1>8 DEF SupervisedResults
    <2>2. SupervisedResults' = SupervisedResults \cup {a}
      BY <1>5, <1>6, <2>1 DEF SupervisedResults
    <2>3. a \in Control \/ (Leases[a] = "held" /\ a \notin UnknownResults)
      <3>. SUFFICES ASSUME a \notin Control
                    PROVE  Leases[a] = "held" /\ a \notin UnknownResults
        OBVIOUS
      <3>1. LeaseUsable(a)
        BY <2>1 DEF ProcessInPlace, InvocationKnows
      <3>2. ~HasStage(a, 4)
        BY <2>1 DEF HasStage, LeaseRows, RowsArePrepared
      <3>. QED  BY <3>1, <3>2, UsableIsOpen DEF Leases
    <2>4. Promise!Supervise(a)
      BY <1>2, <2>2, <2>3
         DEF Promise!Supervise, Promise!Open, SupervisedResults, AcceptedResults, Leases,
             UnknownResults, ReceiptedResults
    <2>. QED  BY <2>4 DEF Promise!Next
  <1>. QED  BY <1>7, <1>8

LEMMA LogsPromised ==
    ASSUME TypeOK, NEW record, Logs(record)
    PROVE  UNCHANGED Promise!vars
  <1>1. /\ log \in Seq(LogRecord) /\ record \in LogRecord /\ log' = Append(log, record)
        /\ state \in Nat /\ state <= Len(log) /\ UNCHANGED <<ledger, state, receipt>>
    BY DEF Logs, TypeOK
  <1>2. \A i \in 1 .. state : log'[i] = log[i]
    BY <1>1
  <1>3. UNCHANGED SupervisedResults
    BY <1>1, <1>2 DEF SupervisedResults, Supervised
  <1>4. UNCHANGED ReceiptedResults
    BY <1>1 DEF ReceiptedResults
  <1>. QED  BY <1>1, <1>3, <1>4, LedgerPromises, PromisedVars DEF promised

LEMMA ReceiptsPromised ==
    ASSUME Inv, NEW result, Receipts(result)
    PROVE  [Promise!Next]_(Promise!vars)
  <1>. USE DEF Inv
  <1>1. PICK a \in App :
            /\ a = running /\ step = "receipt" /\ receipt' = [receipt EXCEPT ![a] = {result}]
            /\ UNCHANGED <<ledger, log, state>>
    BY DEF Receipts
  <1>2. UNCHANGED <<AcceptedResults, Leases, UnknownResults>>
    BY <1>1, LedgerPromises
  <1>3. UNCHANGED SupervisedResults
    BY <1>1 DEF SupervisedResults, Supervised
  <1>4. ReceiptedResults' = ReceiptedResults \cup {a}
    BY <1>1 DEF ReceiptedResults, TypeOK
  <1>5. InvocationKnows(a)
    BY <1>1 DEF ProcessInPlace
  <1>6. IF a \in Control THEN a \in SupervisedResults ELSE Leases[a] = "applied"
    <2>1. Supervised(a)
      BY <1>1, <1>5 DEF InvocationKnows
    <2>2. ASSUME a \notin Control
          PROVE  LeaseOutcome(a) = "applied"
      <3>1. stage = 4 /\ LeaseUsable(a) /\ \A k \in 1 .. stage : HasStage(a, k)
        BY <1>1, <1>5, <2>2 DEF InvocationKnows
      <3>2. HasStage(a, 4)
        BY <3>1
      <3>3. Terminal(a) # {}
        BY <3>2, StageFacts DEF HasStage, Terminal, TerminalLeaseEvents
      <3>4. LeaseOutcome(a) # "held"
        BY <3>3 DEF LeaseOutcome
      <3>. QED  BY <3>1, <3>4, UsableIsOpen
    <2>. QED  BY <2>1, <2>2 DEF SupervisedResults, Leases
  <1>7. Promise!Receipt(a)
    BY <1>2, <1>3, <1>4, <1>6
       DEF Promise!Receipt, SupervisedResults, AcceptedResults, Leases, UnknownResults,
           ReceiptedResults
  <1>. QED  BY <1>7 DEF Promise!Next

LEMMA PromiseInit == Init => Promise!Init
  <1>. SUFFICES ASSUME Init
                PROVE  Promise!Init
    OBVIOUS
  <1>1. \A a : LeaseRows(a) = {}
    BY DEF Init, LeaseRows
  <1>2. AcceptedResults = {} /\ UnknownResults = {} /\ ReceiptedResults = {}
    BY <1>1 DEF AcceptedResults, UnknownResults, ReceiptedResults, StageRows, Init
  <1>3. Leases = [a \in App |-> "none"]
    BY <1>1 DEF Leases, LeaseOutcome
  <1>4. SupervisedResults = {}
    <2>1. ASSUME NEW a \in App
          PROVE  ~Supervised(a)
      <3>1. 1 \in 1 .. Events[a]
        BY ConstantsAssumption
      <3>2. 1 .. state = {}
        BY DEF Init
      <3>. QED  BY <3>1, <3>2 DEF Supervised
    <2>. QED  BY <2>1 DEF SupervisedResults
  <1>. QED  BY <1>2, <1>3, <1>4
            DEF Promise!Init, SupervisedResults, AcceptedResults, Leases, UnknownResults,
                ReceiptedResults

LEMMA PromiseStep == Inv /\ [Next]_vars => [Promise!Next]_(Promise!vars)
  <1>1. ASSUME UNCHANGED <<ledger, log, state, receipt>>
        PROVE  UNCHANGED Promise!vars
    <2>1. UNCHANGED SupervisedResults
      BY <1>1 DEF SupervisedResults, Supervised
    <2>2. UNCHANGED ReceiptedResults
      BY <1>1 DEF ReceiptedResults
    <2>. QED  BY <1>1, <2>1, <2>2, LedgerPromises, PromisedVars DEF promised
  <1>2. ASSUME Inv, Next
        PROVE  [Promise!Next]_(Promise!vars)
    <2>1. CASE ~UNCHANGED ledger
      BY <1>2, <2>1, LedgerMoves, OthersRowPromised, OwnRowPromised DEF Inv
    <2>2. CASE ~UNCHANGED log
      BY <1>2, <2>2, LogMoves, LogsPromised DEF Inv
    <2>3. CASE ~UNCHANGED state
      BY <1>2, <2>3, StateMoves, SettlesPromised DEF Inv
    <2>4. CASE ~UNCHANGED receipt
      BY <1>2, <2>4, ReceiptMoves, ReceiptsPromised DEF Inv
    <2>5. CASE UNCHANGED <<ledger, log, state, receipt>>
      BY <1>1, <2>5
    <2>. QED  BY <2>1, <2>2, <2>3, <2>4, <2>5
  <1>. QED  BY <1>1, <1>2 DEF vars, files

(* Whatever crashes, retries and operators do, the files implement the     *)
(* promise: supervised as a whole, then accepted, then freed, then         *)
(* receipted, and nothing of it after an operator has stopped the lease    *)
(* (apply_scheduled_dispatch, apply_role_lifecycle).                       *)
THEOREM FilesImplementPromise == Spec => ImplementsPromise
  BY PromiseInit, PromiseStep, Invariance, PTL DEF Spec, ImplementsPromise, Promise!Spec
=============================================================================
