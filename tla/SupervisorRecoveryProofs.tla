----------------------- MODULE SupervisorRecoveryProofs -----------------------
(***************************************************************************)
(* Proofs about SupervisorRecovery, for any number of processes, events,   *)
(* controls, races and crashes: the loop's own history stays one the loop  *)
(* accepts, and with it whatever is proved of SupervisorLoop holds of the  *)
(* files.                                                                  *)
(*                                                                         *)
(* The argument: whoever is about to write a loop event holds the loop     *)
(* lock since it read the loop state that accepts the event, and an event  *)
(* that a recovery state has pending was not in the loop's log up to the   *)
(* position the pending record names, whichever of several overlapping     *)
(* commands wrote that state and however old the copy of it is.            *)
(*                                                                         *)
(* Of the recovery store itself more holds while no two commands have      *)
(* overlapped on it: StoreInv says that at most one process changes it,    *)
(* and that this process's place, or the journal that a crash has left,    *)
(* determines which of its files are those before the change and which     *)
(* those after it.                                                         *)
(***************************************************************************)
EXTENDS SupervisorRecovery, TLAPS

Proven == INSTANCE SupervisorLoopProofs WITH loop <- LoopNow, log <- loopLog

(* The places of a process that has decided on a change of its own.        *)
Deciding == {"claim", "journal", "append", "cursor", "replace", "clear"}

(* A recovery state has a pending field, whatever else it has.             *)
IsState(s) == "pending" \in DOMAIN s

(* A pending event was not in the log when its record was made.            *)
Sane(s) ==
    /\ IsState(s)
    /\ \A w \in s.pending :
          /\ w.n \in 0 .. Len(loopLog)
          /\ \A i \in 1 .. w.n : loopLog[i] # w.event

Free(e) == LoopWhole /\ Accepts(loopFile.loop, e) /\ ~Logged(e)

FilesInv ==
    /\ loopLog \in Seq(Event)
    /\ loopFile.n \in Nat /\ Len(loopLog) \in {loopFile.n, loopFile.n + 1}
    /\ Sane(rec)
    /\ \A j \in journal : Sane(j.after)

ProcessInv(p) ==
    LET q == proc[p] IN
    /\ q.op \in Event => lock = p
    /\ q.at \in {"loop_append", "loop_replace"} => q.op \in Event
    /\ q.at \in Changing => Sane(q.tx.after)
    /\ q.at = "loop_append" => Free(q.op)
    /\ q.at \in Deciding /\ q.op \in Event /\ q.tx.after.pending # {} => Free(q.op)
    /\ q.at = "loop_replace" =>
          loopFile.n + 1 = Len(loopLog) /\ loopLog[Len(loopLog)] = q.op

Inv ==
    /\ FilesInv
    /\ proc = [p \in Process |-> [at |-> proc[p].at, op |-> proc[p].op, tx |-> proc[p].tx]]
    /\ \A p \in Process : ProcessInv(p)

-----------------------------------------------------------------------------
(* Steps that leave the loop's files alone.                                *)

LEMMA Quiet ==
    ASSUME Inv, NEW p \in Process, UNCHANGED loopStore,
           NEW s, NEW op, NEW tx,
           proc' = Takes(p, s, op, tx),
           rec' = rec \/ Sane(rec'),
           \A j \in journal' : j \in journal \/ Sane(j.after),
           \/ lock' = lock
           \/ lock' = p /\ lock = Missing
           \/ lock' = Missing /\ lock = p,
           op \in Event => lock' = p,
           s \in Changing => Sane(tx.after),
           s = "loop_append" \/ (s \in Deciding /\ op \in Event /\ tx.after.pending # {}) =>
              op \in Event /\ Free(op),
           s # "loop_replace"
    PROVE  Inv'
<1>1. /\ proc'[p] = [at |-> s, op |-> op, tx |-> tx]
      /\ \A q \in Process \ {p} : proc'[q] = proc[q]
      /\ proc' = [q \in Process |-> [at |-> proc'[q].at, op |-> proc'[q].op, tx |-> proc'[q].tx]]
  BY DEF Inv, Takes
<1>2. \A e : Free(e)' <=> Free(e)
  BY DEF loopStore, Free, LoopWhole, Logged
<1>3. ASSUME NEW r, Sane(r) PROVE Sane(r)'
  BY <1>3 DEF loopStore, Sane
<1>4. FilesInv'
  <2>1. Sane(rec')
    BY DEF Inv, FilesInv
  <2>2. Sane(rec)'
    BY <2>1 DEF loopStore, Sane, IsState
  <2>3. \A j \in journal' : Sane(j.after)
    BY DEF Inv, FilesInv
  <2>4. (\A j \in journal : Sane(j.after))'
    BY <2>3 DEF loopStore, Sane, IsState
  <2> QED  BY <2>2, <2>4 DEF loopStore, Inv, FilesInv
<1>5. ProcessInv(p)'
  BY <1>1, <1>2, <1>3 DEF ProcessInv, Changing, Deciding
<1>6. ASSUME NEW q \in Process \ {p} PROVE ProcessInv(q)'
  <2>1. ProcessInv(q) /\ proc'[q] = proc[q]
    BY <1>1 DEF Inv
  <2>2. proc[q].op \in Event => lock' = q
    BY <2>1, CommandAssumption DEF ProcessInv
  <2> QED  BY <1>2, <1>3, <2>1, <2>2 DEF ProcessInv, loopStore
<1> QED  BY <1>1, <1>4, <1>5, <1>6 DEF Inv

(* A step of a process from one place to the next.                         *)
LEMMA GoesTakes ==
    ASSUME Inv, NEW p \in Process, NEW s
    PROVE  Goes(p, s) = Takes(p, s, proc[p].op, proc[p].tx)
<1>1. [proc[p] EXCEPT !.at = s] = [at |-> s, op |-> proc[p].op, tx |-> proc[p].tx]
  <2>1. proc[p] = [at |-> proc[p].at, op |-> proc[p].op, tx |-> proc[p].tx]
    BY DEF Inv
  <2> QED  BY <2>1
<1>2. [proc EXCEPT ![p].at = s] = [proc EXCEPT ![p] = [proc[p] EXCEPT !.at = s]]
  OBVIOUS
<1> QED  BY <1>1, <1>2 DEF Goes, Takes

(* The changes that the commands decide on, as far as it matters here.     *)
LEMMA SaneChange ==
    ASSUME Inv
    PROVE  /\ \A c : Sane(Change(Controlled(rec, c)).after)
           /\ \A e \in Event : ~Logged(e) /\ LoopWhole => Sane(Prepared(e).after)
           /\ \A w : Sane(Committed(w).after) /\ Committed(w).after.pending = {}
<1>1. Sane(rec) /\ IsState(rec)
  BY DEF Inv, FilesInv, Sane
<1>2. ASSUME NEW s, IsState(s)
      PROVE  /\ IsState(Change(s).after)
             /\ Change(s).after.pending = s.pending
  BY <1>2 DEF IsState, Change
<1>3. ASSUME NEW c PROVE Sane(Change(Controlled(rec, c)).after)
  <2>1. /\ IsState(Controlled(rec, c)) /\ Controlled(rec, c).pending = rec.pending
    BY <1>1 DEF IsState, Controlled
  <2> QED  BY <1>1, <1>2, <2>1 DEF Sane
<1>4. ASSUME NEW e \in Event, ~Logged(e), LoopWhole PROVE Sane(Prepared(e).after)
  <2> DEFINE use == CHOOSE u \in Uses(rec, loopFile.loop, e) : TRUE
             w == [event |-> e, n |-> loopFile.n, use |-> use]
             s == [rec EXCEPT !.pending = {w}, !.used = @ \cup {e},
                              !.revision = Spend(@, use, PreparedUse)]
  <2>1. IsState(s) /\ s.pending = {w} /\ Prepared(e) = Change(s)
    BY <1>1 DEF IsState, Prepared
  <2>2. w.n \in 0 .. Len(loopLog) /\ \A i \in 1 .. w.n : loopLog[i] # w.event
    <3>1. w.n = Len(loopLog) /\ w.event = e /\ loopLog \in Seq(Event)
      BY <1>4 DEF LoopWhole, Inv, FilesInv
    <3> QED  BY <1>4, <3>1 DEF Logged
  <2> HIDE DEF s, w
  <2> QED  BY <1>2, <2>1, <2>2 DEF Sane
<1>5. ASSUME NEW w PROVE Sane(Committed(w).after) /\ Committed(w).after.pending = {}
  <2> DEFINE s == [rec EXCEPT !.pending = {}, !.bound = loopFile,
                              !.revision = Spend(@, w.use, CommittedUse)]
  <2>1. IsState(s) /\ s.pending = {} /\ Committed(w) = Change(s)
    BY <1>1 DEF IsState, Committed
  <2> HIDE DEF s
  <2> QED  BY <1>2, <2>1 DEF Sane
<1> QED  BY <1>3, <1>4, <1>5

-----------------------------------------------------------------------------
(* Every step keeps the invariant.                                         *)

LEMMA DecidesInv ==
    ASSUME Inv, NEW p \in Process, Decides(p)
    PROVE  Inv' /\ UNCHANGED loopStore
<1> USE DEF Sets, Step, Locks, Reads, At
<1>1. /\ Missing \notin Event /\ Event \cap Control = {}
      /\ \A r \in Event : proc[p].op = r => lock = p
  BY CommandAssumption DEF Inv, ProcessInv
<1>2. ASSUME NEW op \in Event \cup Control \cup {Snapshot}, FindJournal(p, op)
      PROVE  Inv' /\ UNCHANGED loopStore
  <2>1. PICK j \in journal :
           proc' = Takes(p, IF rec = j.after THEN "unjournal" ELSE "restore", op, j)
    BY <1>2 DEF FindJournal
  <2>2. /\ UNCHANGED loopStore /\ UNCHANGED recStore
        /\ lock' = IF op \in Event THEN p ELSE lock
        /\ op \in Event => lock \in {Missing, p}
    BY <1>1, <1>2 DEF FindJournal
  <2>3. Sane(j.after)
    BY DEF Inv, FilesInv
  <2> DEFINE s == IF rec = j.after THEN "unjournal" ELSE "restore"
  <2>4. s \notin Deciding /\ s \notin {"loop_append", "loop_replace"}
    BY DEF Deciding
  <2> HIDE DEF s
  <2> QED  BY <2>1, <2>2, <2>3, <2>4, Quiet DEF recStore, s
<1>3. ASSUME NEW c \in Control, DecideControl(p, c) PROVE Inv' /\ UNCHANGED loopStore
  <2>1. /\ proc' = Takes(p, "claim", c, Change(Controlled(rec, c)))
        /\ UNCHANGED loopStore /\ UNCHANGED recStore /\ lock' = lock
    BY <1>3 DEF DecideControl
  <2>2. Sane(Change(Controlled(rec, c)).after) /\ c \notin Event
    BY <1>1, SaneChange
  <2> QED  BY <2>1, <2>2, Quiet DEF recStore
<1>4. ASSUME NEW e \in Event, DecidePrepare(p, e) PROVE Inv' /\ UNCHANGED loopStore
  <2>1. /\ proc' = Takes(p, "claim", e, Prepared(e))
        /\ UNCHANGED loopStore /\ UNCHANGED recStore /\ lock' = p /\ lock \in {Missing, p}
        /\ LoopWhole /\ Preparable(e)
    BY <1>1, <1>4 DEF DecidePrepare, Verified
  <2>2. Sane(Prepared(e).after) /\ Free(e)
    BY <2>1, SaneChange DEF Preparable, Free
  <2> QED  BY <2>1, <2>2, Quiet DEF recStore
<1>5. ASSUME NEW e \in Event, DecideCommit(p, e) PROVE Inv' /\ UNCHANGED loopStore
  <2>1. PICK w \in rec.pending : proc' = Takes(p, "claim", e, Committed(w))
    BY <1>5 DEF DecideCommit
  <2>2. UNCHANGED loopStore /\ UNCHANGED recStore /\ lock' = p /\ lock \in {Missing, p}
    BY <1>1, <1>5 DEF DecideCommit
  <2>3. Sane(Committed(w).after) /\ Committed(w).after.pending = {}
    BY SaneChange
  <2> QED  BY <2>1, <2>2, <2>3, Quiet DEF recStore
<1>6. ASSUME NEW e \in Event, Resume(p, e) PROVE Inv' /\ UNCHANGED loopStore
  <2>1. /\ proc' = Takes(p, "loop_append", e, NoChange)
        /\ UNCHANGED loopStore /\ UNCHANGED recStore /\ lock' = p /\ lock \in {Missing, p}
        /\ LoopWhole /\ Resumable(e)
    BY <1>1, <1>6 DEF Resume, Verified
  <2>2. Free(e)
    <3>1. PICK w \in rec.pending : w.event = e /\ w.n = loopFile.n
      BY <2>1 DEF Resumable
    <3>2. \A i \in 1 .. Len(loopLog) : loopLog[i] # e
      BY <2>1, <3>1 DEF Inv, FilesInv, Sane, LoopWhole
    <3>3. ~Logged(e)
      BY <3>2 DEF Logged, Inv, FilesInv
    <3> QED  BY <2>1, <3>3 DEF Free, Resumable
  <2>3. "loop_append" \notin Changing
    BY DEF Changing
  <2> QED  BY <2>1, <2>2, <2>3, Quiet DEF recStore
<1> QED  BY <1>2, <1>3, <1>4, <1>5, <1>6 DEF Decides

(* A process that stops, or ends its command.                              *)
LEMMA QuitsInv ==
    ASSUME Inv, NEW p \in Process, UNCHANGED loopStore, UNCHANGED recStore,
           proc' = Quits(p), Release(p)
    PROVE  Inv'
<1>1. proc' = Takes(p, "idle", Missing, NoChange)
  BY DEF Quits, Takes
<1>2. lock' = lock \/ (lock' = Missing /\ lock = p)
  BY DEF Release
<1>3. "idle" \notin Changing /\ Missing \notin Event
  BY CommandAssumption DEF Changing
<1> QED  BY <1>1, <1>2, <1>3, Quiet DEF recStore, Deciding

LEMMA WritesInv ==
    ASSUME Inv, NEW p \in Process, Writes(p)
    PROVE  Inv' /\ (UNCHANGED loopStore \/ AppendLoop(p) \/ ReplaceLoop(p))
<1> USE DEF Step, At
<1> DEFINE q == proc[p]
<1>1. ProcessInv(p) /\ Missing \notin Event
  BY CommandAssumption DEF Inv
<1>2. ASSUME NEW s, Goes(p, s) = proc' PROVE proc' = Takes(p, s, q.op, q.tx)
  BY <1>2, GoesTakes
<1>3. CASE Restore(p)
  <2>1. /\ proc' = Takes(p, "unjournal", q.op, q.tx) /\ rec' = q.tx.after
        /\ UNCHANGED <<loopStore, journal, lock>> /\ q.at = "restore"
    BY <1>2, <1>3 DEF Restore
  <2>2. Sane(q.tx.after)
    BY <1>1, <2>1 DEF ProcessInv, Changing
  <2> QED  BY <1>1, <2>1, <2>2, Quiet DEF ProcessInv, Deciding
<1>4. CASE Unjournal(p)
  <2>1. /\ proc' = Takes(p, "read", q.op, NoChange) /\ journal' = {}
        /\ UNCHANGED <<loopStore, rec, lock>>
    BY <1>4 DEF Unjournal
  <2> QED  BY <1>1, <2>1, Quiet DEF ProcessInv, Deciding, Changing
<1>5. CASE ClaimJournal(p)
  <2>1. UNCHANGED loopStore /\ UNCHANGED recStore /\ q.at = "claim"
    BY <1>5 DEF ClaimJournal
  <2>2. CASE proc' = Goes(p, "journal") /\ lock' = lock
    <3>1. proc' = Takes(p, "journal", q.op, q.tx)
      BY <1>2, <2>2
    <3> QED  BY <1>1, <2>1, <2>2, <3>1, Quiet DEF ProcessInv, Deciding, Changing, recStore
  <2>3. CASE proc' = Quits(p) /\ Release(p)
    BY <2>1, <2>3, QuitsInv
  <2> QED  BY <1>5, <2>1, <2>2, <2>3 DEF ClaimJournal
<1>6. CASE WriteJournal(p)
  <2>1. /\ proc' = Takes(p, "append", q.op, q.tx) /\ journal' = {q.tx} /\ q.at = "journal"
        /\ UNCHANGED <<loopStore, rec, lock>>
    BY <1>2, <1>6 DEF WriteJournal
  <2> QED  BY <1>1, <2>1, Quiet DEF ProcessInv, Deciding, Changing
<1>7. CASE AppendEvent(p)
  <2> DEFINE s == IF q.tx.after.cursor = q.tx.before.cursor THEN "replace" ELSE "cursor"
  <2>1. /\ proc' = Takes(p, s, q.op, q.tx) /\ q.at = "append"
        /\ UNCHANGED <<loopStore, rec, journal, lock>>
    BY <1>2, <1>7 DEF AppendEvent
  <2>2. s \in {"replace", "cursor"}
    OBVIOUS
  <2> HIDE DEF s
  <2> QED  BY <1>1, <2>1, <2>2, Quiet DEF ProcessInv, Deciding, Changing
<1>8. CASE AppendCursor(p)
  <2>1. /\ proc' = Takes(p, "replace", q.op, q.tx) /\ q.at = "cursor"
        /\ UNCHANGED <<loopStore, rec, journal, lock>>
    BY <1>2, <1>8 DEF AppendCursor
  <2> QED  BY <1>1, <2>1, Quiet DEF ProcessInv, Deciding, Changing
<1>9. CASE ReplaceState(p)
  <2>1. /\ proc' = Takes(p, "clear", q.op, q.tx) /\ q.at = "replace" /\ rec' = q.tx.after
        /\ UNCHANGED <<loopStore, journal, lock>>
    BY <1>2, <1>9 DEF ReplaceState
  <2> QED  BY <1>1, <2>1, Quiet DEF ProcessInv, Deciding, Changing
<1>10. CASE ClearJournal(p)
  <2>1. journal' = {} /\ UNCHANGED <<loopStore, rec>> /\ q.at = "clear"
    BY <1>10 DEF ClearJournal
  <2>2. CASE /\ q.op \in Event /\ q.tx.after.pending # {}
             /\ proc' = Takes(p, "loop_append", q.op, NoChange) /\ lock' = lock
    BY <1>1, <2>1, <2>2, Quiet DEF ProcessInv, Deciding, Changing
  <2>3. CASE proc' = Takes(p, "read", q.op, NoChange) /\ lock' = lock
    BY <1>1, <2>1, <2>3, Quiet DEF ProcessInv, Deciding, Changing
  <2>4. CASE proc' = Quits(p) /\ Release(p)
    <3>1. proc' = Takes(p, "idle", Missing, NoChange)
      BY <2>4 DEF Quits, Takes
    <3>2. lock' = lock \/ (lock' = Missing /\ lock = p)
      BY <2>4 DEF Release
    <3> QED  BY <1>1, <2>1, <3>1, <3>2, Quiet DEF Deciding, Changing
  <2> QED  BY <1>10, <2>1, <2>2, <2>3, <2>4 DEF ClearJournal
<1>11. CASE Return(p)
  BY <1>11, QuitsInv DEF Return
<1>12. CASE AppendLoop(p)
  <2>1. /\ loopLog' = Append(loopLog, q.op) /\ q.at = "loop_append"
        /\ proc' = Takes(p, "loop_replace", q.op, q.tx)
        /\ UNCHANGED <<loopFile, recStore, lock>>
    BY <1>2, <1>12 DEF AppendLoop
  <2>2. q.op \in Event /\ lock = p /\ Free(q.op)
    BY <1>1, <2>1 DEF ProcessInv
  <2>3. /\ loopLog \in Seq(Event) /\ loopLog' \in Seq(Event)
        /\ Len(loopLog') = Len(loopLog) + 1 /\ Len(loopLog) \in Nat
        /\ \A i \in 1 .. Len(loopLog) : loopLog'[i] = loopLog[i]
        /\ loopLog'[Len(loopLog')] = q.op /\ loopFile.n = Len(loopLog)
    BY <2>1, <2>2 DEF Inv, FilesInv, Free, LoopWhole
  <2>4. ASSUME NEW s, Sane(s) PROVE Sane(s)'
    BY <2>3, <2>4 DEF Sane, IsState
  <2>5. FilesInv'
    <3>1. Sane(rec)'
      <4>1. Sane(rec) /\ rec' = rec
        BY <2>1 DEF Inv, FilesInv, recStore
      <4> QED  BY <2>3, <4>1 DEF Sane, IsState
    <3>2. \A j \in journal : Sane(j.after)'
      BY <2>4 DEF Inv, FilesInv
    <3> QED  BY <2>1, <2>3, <3>1, <3>2 DEF Inv, FilesInv, recStore
  <2>6. /\ proc'[p] = [at |-> "loop_replace", op |-> q.op, tx |-> q.tx]
        /\ \A r \in Process \ {p} : proc'[r] = proc[r]
        /\ proc' = [r \in Process |-> [at |-> proc'[r].at, op |-> proc'[r].op, tx |-> proc'[r].tx]]
    BY <2>1 DEF Inv, Takes
  <2>7. ProcessInv(p)'
    BY <2>1, <2>2, <2>3, <2>6 DEF ProcessInv, Changing, Deciding
  <2>8. ASSUME NEW r \in Process \ {p} PROVE ProcessInv(r)'
    <3>1. ProcessInv(r) /\ proc'[r] = proc[r] /\ lock' = lock
      BY <2>1, <2>6 DEF Inv
    <3>2. proc[r].op \notin Event
      BY <2>2, <3>1 DEF ProcessInv
    <3> QED  BY <2>4, <3>1, <3>2 DEF ProcessInv
  <2> QED  BY <1>12, <2>5, <2>6, <2>7, <2>8 DEF Inv
<1>13. CASE ReplaceLoop(p)
  <2>1. /\ loopFile' = [n |-> loopFile.n + 1, loop |-> After(loopFile.loop, q.op)]
        /\ proc' = Takes(p, "read", q.op, q.tx) /\ q.at = "loop_replace"
        /\ UNCHANGED <<loopLog, recStore, lock>>
    BY <1>2, <1>13 DEF ReplaceLoop
  <2>2. q.op \in Event /\ lock = p /\ loopFile.n + 1 = Len(loopLog)
    BY <1>1, <2>1 DEF ProcessInv
  <2>3. FilesInv'
    BY <2>1, <2>2 DEF Inv, FilesInv, Sane, recStore, IsState
  <2>4. /\ proc'[p] = [at |-> "read", op |-> q.op, tx |-> q.tx]
        /\ \A r \in Process \ {p} : proc'[r] = proc[r]
        /\ proc' = [r \in Process |-> [at |-> proc'[r].at, op |-> proc'[r].op, tx |-> proc'[r].tx]]
    BY <2>1 DEF Inv, Takes
  <2>5. ProcessInv(p)'
    BY <2>1, <2>2, <2>4 DEF ProcessInv, Changing, Deciding
  <2>6. ASSUME NEW r \in Process \ {p} PROVE ProcessInv(r)'
    <3>1. ProcessInv(r) /\ proc'[r] = proc[r] /\ lock' = lock /\ loopLog' = loopLog
      BY <2>1, <2>4 DEF Inv
    <3>2. proc[r].op \notin Event
      BY <2>2, <3>1 DEF ProcessInv
    <3> QED  BY <3>1, <3>2 DEF ProcessInv, Sane, IsState
  <2> QED  BY <1>13, <2>3, <2>4, <2>5, <2>6 DEF Inv
<1>14. /\ Restore(p) \/ Unjournal(p) \/ ClaimJournal(p) \/ WriteJournal(p) \/ AppendEvent(p)
             \/ AppendCursor(p) \/ ReplaceState(p) \/ ClearJournal(p) \/ Return(p)
             => UNCHANGED loopStore
  BY DEF Restore, Unjournal, ClaimJournal, WriteJournal, AppendEvent, AppendCursor,
         ReplaceState, ClearJournal, Return
<1> QED
  BY <1>3, <1>4, <1>5, <1>6, <1>7, <1>8, <1>9, <1>10, <1>11, <1>12, <1>13, <1>14 DEF Writes

-----------------------------------------------------------------------------
(* The lanes as this module, as the loop's module and as its proofs know   *)
(* them are the same.                                                      *)

LEMMA SameLanes ==
    /\ Loop!InitialLoop = InitialLoop
    /\ \A l, e : (Loop!Accepts(l, e) <=> Accepts(l, e)) /\ Loop!After(l, e) = After(l, e)
<1>1. Loop!Initial = Initial /\ Loop!Repairing = Repairing /\ Loop!Nothing = Nothing
  BY DEF Loop!Initial, Initial, Loop!Repairing, Repairing, Loop!Nothing, Nothing
<1>2. Loop!Ladder = Ladder
  BY <1>1 DEF Loop!Ladder, Ladder
<1>3. /\ Loop!Results = Results /\ Loop!Tests = Tests /\ Loop!Verdicts = Verdicts
      /\ Loop!NotWriting = NotWriting
  BY DEF Loop!Results, Results, Loop!Tests, Tests, Loop!Verdicts, Verdicts,
         Loop!NotWriting, NotWriting
<1>4. Loop!Phases = Phases
  BY <1>2 DEF Loop!Phases, Phases
<1>5. Loop!NoLane = NoLane
  BY <1>1 DEF Loop!NoLane, NoLane
<1>6. Loop!InitialLoop = InitialLoop
  BY <1>1, <1>5 DEF Loop!InitialLoop, InitialLoop
<1>7. ASSUME NEW l PROVE Loop!Present(l) = Present(l)
  BY DEF Loop!Present, Present
<1>8. ASSUME NEW l, NEW m PROVE Loop!TermsOf(l, m) = TermsOf(l, m)
  BY DEF Loop!TermsOf, TermsOf
<1>9. ASSUME NEW l PROVE Loop!Consumed(l) = Consumed(l) /\ Loop!Reserved(l) = Reserved(l)
  BY <1>7 DEF Loop!Consumed, Consumed, Loop!Reserved, Reserved
<1>10. ASSUME NEW l PROVE Loop!Writers(l) = Writers(l)
  BY <1>3, <1>7, <1>8 DEF Loop!Writers, Writers
<1>11. ASSUME NEW l, NEW a PROVE Loop!Assignable(l, a) <=> Assignable(l, a)
  <2>1. \A S : Loop!Cardinality(S) = Cardinality(S)
    BY DEF Loop!Cardinality, Cardinality
  <2> QED  BY <1>8, <1>9, <1>10, <2>1 DEF Loop!Assignable, Assignable
<1>12. ASSUME NEW l, NEW a PROVE Loop!AssignedLane(l, a) = AssignedLane(l, a)
  BY <1>1 DEF Loop!AssignedLane, AssignedLane
<1>13. ASSUME NEW lane, NEW c PROVE Loop!Climbs(lane, c) <=> Climbs(lane, c)
  BY <1>2 DEF Loop!Climbs, Climbs
<1>14. ASSUME NEW lane, NEW c PROVE Loop!Climbed(lane, c) = Climbed(lane, c)
  BY <1>1, <1>2, <1>3, <1>4 DEF Loop!Climbed, Climbed
<1>15. ASSUME NEW l, NEW m, NEW lane PROVE Loop!Touched(l, m, lane) = Touched(l, m, lane)
  BY DEF Loop!Touched, Touched
<1>16. ASSUME NEW l PROVE Loop!Closed(l) = Closed(l)
  BY <1>7 DEF Loop!Closed, Closed
<1>17. ASSUME NEW lane PROVE Loop!Ready(lane) <=> Ready(lane)
  BY <1>3 DEF Loop!Ready, Ready
<1>18. ASSUME NEW l, NEW e PROVE Loop!Accepts(l, e) <=> Accepts(l, e)
  BY <1>3, <1>7, <1>11, <1>13, <1>17 DEF Loop!Accepts, Accepts
<1>19. ASSUME NEW l, NEW e PROVE Loop!After(l, e) = After(l, e)
  BY <1>12, <1>14, <1>15, <1>16 DEF Loop!After, After
<1> QED  BY <1>6, <1>18, <1>19

LEMMA InvInit == Init => Inv
<1> SUFFICES ASSUME Init PROVE Inv
  OBVIOUS
<1>1. FilesInv
  BY DEF Init, FilesInv, Sane, IsState
<1>2. proc = [p \in Process |-> [at |-> "idle", op |-> Missing, tx |-> NoChange]]
  BY DEF Init
<1>3. \A p \in Process : ProcessInv(p)
  BY <1>2, CommandAssumption DEF ProcessInv, Changing, Deciding
<1> QED  BY <1>1, <1>2, <1>3 DEF Inv

(* A step of the files is a step of the loop, or none.                     *)
LEMMA StepImplements ==
    Inv /\ [Next]_vars => Inv' /\ [Loop!Next]_(Loop!vars)
<1> SUFFICES ASSUME Inv, [Next]_vars PROVE Inv' /\ [Loop!Next]_(Loop!vars)
  OBVIOUS
<1>1. ASSUME UNCHANGED loopStore PROVE UNCHANGED Loop!vars
  BY <1>1 DEF loopStore, Loop!vars, LoopNow, LoopWhole
<1>2. CASE UNCHANGED vars
  <2>1. Inv'
    BY <1>2 DEF vars, loopStore, recStore, Inv, FilesInv, ProcessInv, Sane, IsState, Free,
                LoopWhole, Logged
  <2> QED  BY <1>1, <1>2, <2>1 DEF vars
<1>3. ASSUME NEW p \in Process, Decides(p) PROVE Inv' /\ [Loop!Next]_(Loop!vars)
  BY <1>1, <1>3, DecidesInv
<1>4. ASSUME NEW p \in Process, Crash(p) PROVE Inv' /\ [Loop!Next]_(Loop!vars)
  BY <1>1, <1>4, QuitsInv DEF Crash, Step
<1>5. ASSUME NEW p \in Process, AppendLoop(p) PROVE Loop!Next
  <2> DEFINE e == proc[p].op
  <2>1. loopLog' = Append(loopLog, e) /\ loopFile' = loopFile /\ e \in Event /\ Free(e)
    BY <1>5 DEF AppendLoop, Inv, ProcessInv, At
  <2>2. LoopNow = loopFile.loop /\ Len(loopLog') = Len(loopLog) + 1 /\ ~LoopWhole'
        /\ loopLog'[Len(loopLog')] = e
    BY <2>1 DEF LoopNow, Free, LoopWhole, Inv, FilesInv
  <2>3. LoopNow' = After(LoopNow, e)
    BY <2>1, <2>2 DEF LoopNow
  <2>4. Loop!Apply(e)
    BY <2>1, <2>2, <2>3, SameLanes DEF Loop!Apply, Free, Logged
  <2> QED  BY <2>1, <2>4 DEF Loop!Next
<1>6. ASSUME NEW p \in Process, ReplaceLoop(p) PROVE UNCHANGED Loop!vars
  <2> DEFINE e == proc[p].op
  <2>1. /\ loopFile' = [n |-> loopFile.n + 1, loop |-> After(loopFile.loop, e)]
        /\ loopLog' = loopLog
    BY <1>6 DEF ReplaceLoop
  <2>2. loopFile.n + 1 = Len(loopLog) /\ loopLog[Len(loopLog)] = e /\ loopFile.n \in Nat
    BY <1>6 DEF ReplaceLoop, At, Inv, ProcessInv, FilesInv
  <2>3. LoopNow = After(loopFile.loop, e) /\ LoopNow' = After(loopFile.loop, e)
    BY <2>1, <2>2 DEF LoopNow, LoopWhole
  <2> QED  BY <2>1, <2>3 DEF Loop!vars
<1>7. ASSUME NEW p \in Process, Writes(p) PROVE Inv' /\ [Loop!Next]_(Loop!vars)
  BY <1>1, <1>5, <1>6, <1>7, WritesInv
<1> QED  BY <1>2, <1>3, <1>4, <1>7 DEF Next

(* Whatever the commands on the recovery store do to one another, and      *)
(* wherever they are killed, the loop's own files hold a history that the  *)
(* loop accepts, event by event, and no event enters it twice.             *)
THEOREM FilesImplementLoop == Spec => LoopImplemented
<1>1. Init => Loop!Init
  BY SameLanes DEF Init, Loop!Init, LoopNow, LoopWhole
<1>2. Inv /\ [Next]_vars => Inv'
  BY StepImplements
<1>3. Inv /\ [Next]_vars => [Loop!Next]_(Loop!vars)
  BY StepImplements
<1> QED  BY <1>1, <1>2, <1>3, InvInit, PTL DEF Spec, LoopImplemented, Loop!Spec

-----------------------------------------------------------------------------
(* What is proved of the loop holds of its files.                          *)

LEMMA SameInProofs ==
    /\ Proven!InitialLoop = InitialLoop
    /\ \A l, e : (Proven!Accepts(l, e) <=> Accepts(l, e)) /\ Proven!After(l, e) = After(l, e)
<1>1. Proven!Initial = Initial /\ Proven!Repairing = Repairing /\ Proven!Nothing = Nothing
  BY DEF Proven!Initial, Initial, Proven!Repairing, Repairing, Proven!Nothing, Nothing
<1>2. Proven!Ladder = Ladder
  BY <1>1 DEF Proven!Ladder, Ladder
<1>3. /\ Proven!Results = Results /\ Proven!Tests = Tests /\ Proven!Verdicts = Verdicts
      /\ Proven!NotWriting = NotWriting
  BY DEF Proven!Results, Results, Proven!Tests, Tests, Proven!Verdicts, Verdicts,
         Proven!NotWriting, NotWriting
<1>4. Proven!Phases = Phases
  BY <1>2 DEF Proven!Phases, Phases
<1>5. Proven!NoLane = NoLane
  BY <1>1 DEF Proven!NoLane, NoLane
<1>6. Proven!InitialLoop = InitialLoop
  BY <1>1, <1>5 DEF Proven!InitialLoop, InitialLoop
<1>7. ASSUME NEW l PROVE Proven!Present(l) = Present(l)
  BY DEF Proven!Present, Present
<1>8. ASSUME NEW l, NEW m PROVE Proven!TermsOf(l, m) = TermsOf(l, m)
  BY DEF Proven!TermsOf, TermsOf
<1>9. ASSUME NEW l PROVE Proven!Consumed(l) = Consumed(l) /\ Proven!Reserved(l) = Reserved(l)
  BY <1>7 DEF Proven!Consumed, Consumed, Proven!Reserved, Reserved
<1>10. ASSUME NEW l PROVE Proven!Writers(l) = Writers(l)
  BY <1>3, <1>7, <1>8 DEF Proven!Writers, Writers
<1>11. ASSUME NEW l, NEW a PROVE Proven!Assignable(l, a) <=> Assignable(l, a)
  <2>1. \A S : Proven!Cardinality(S) = Cardinality(S)
    BY DEF Proven!Cardinality, Cardinality
  <2> QED  BY <1>8, <1>9, <1>10, <2>1 DEF Proven!Assignable, Assignable
<1>12. ASSUME NEW l, NEW a PROVE Proven!AssignedLane(l, a) = AssignedLane(l, a)
  BY <1>1 DEF Proven!AssignedLane, AssignedLane
<1>13. ASSUME NEW lane, NEW c PROVE Proven!Climbs(lane, c) <=> Climbs(lane, c)
  BY <1>2 DEF Proven!Climbs, Climbs
<1>14. ASSUME NEW lane, NEW c PROVE Proven!Climbed(lane, c) = Climbed(lane, c)
  BY <1>1, <1>2, <1>3, <1>4 DEF Proven!Climbed, Climbed
<1>15. ASSUME NEW l, NEW m, NEW lane PROVE Proven!Touched(l, m, lane) = Touched(l, m, lane)
  BY DEF Proven!Touched, Touched
<1>16. ASSUME NEW l PROVE Proven!Closed(l) = Closed(l)
  BY <1>7 DEF Proven!Closed, Closed
<1>17. ASSUME NEW lane PROVE Proven!Ready(lane) <=> Ready(lane)
  BY <1>3 DEF Proven!Ready, Ready
<1>18. ASSUME NEW l, NEW e PROVE Proven!Accepts(l, e) <=> Accepts(l, e)
  BY <1>3, <1>7, <1>11, <1>13, <1>17 DEF Proven!Accepts, Accepts
<1>19. ASSUME NEW l, NEW e PROVE Proven!After(l, e) = After(l, e)
  BY <1>12, <1>14, <1>15, <1>16 DEF Proven!After, After
<1> QED  BY <1>6, <1>18, <1>19

LEMMA SameLoop ==
    /\ Loop!Init <=> Proven!Init
    /\ Loop!Next <=> Proven!Next
    /\ Loop!vars = Proven!vars
    /\ Proven!WritersApart <=> Loop!WritersApart
    /\ Proven!DoneIsVerified <=> Loop!DoneIsVerified
    /\ Proven!AssignmentsUsedOnce <=> Loop!AssignmentsUsedOnce
<1>1. Loop!Init <=> Proven!Init
  BY SameLanes, SameInProofs DEF Loop!Init, Proven!Init
<1>2. ASSUME NEW e PROVE Loop!Apply(e) <=> Proven!Apply(e)
  BY SameLanes, SameInProofs DEF Loop!Apply, Proven!Apply
<1>3. Loop!Next <=> Proven!Next
  BY <1>2 DEF Loop!Next, Proven!Next
<1>4. Loop!vars = Proven!vars
  BY DEF Loop!vars, Proven!vars
<1>5. ASSUME NEW l, NEW m
      PROVE  Proven!TermsOf(l, m) = Loop!TermsOf(l, m) /\ Proven!Present(l) = Loop!Present(l)
  BY DEF Proven!TermsOf, Loop!TermsOf, Proven!Present, Loop!Present
<1>6. \A S : Proven!Cardinality(S) = Loop!Cardinality(S)
  BY DEF Proven!Cardinality, Loop!Cardinality
<1>7. Proven!WritersApart <=> Loop!WritersApart
  <2>1. Proven!AtWork = Loop!AtWork
    <3>1. Proven!Initial = Loop!Initial /\ Proven!Repairing = Loop!Repairing
      BY DEF Proven!Initial, Loop!Initial, Proven!Repairing, Loop!Repairing
    <3> QED  BY <1>5, <3>1 DEF Proven!AtWork, Loop!AtWork
  <2> QED  BY <1>5, <1>6, <2>1 DEF Proven!WritersApart, Loop!WritersApart
<1>8. Proven!DoneIsVerified <=> Loop!DoneIsVerified
  <2>1. Proven!Verdicts = Loop!Verdicts
    BY DEF Proven!Verdicts, Loop!Verdicts, Proven!Tests, Loop!Tests
  <2> QED  BY <1>5, <2>1 DEF Proven!DoneIsVerified, Loop!DoneIsVerified
<1>9. Proven!AssignmentsUsedOnce <=> Loop!AssignmentsUsedOnce
  BY <1>5, <1>6 DEF Proven!AssignmentsUsedOnce, Loop!AssignmentsUsedOnce
<1> QED  BY <1>1, <1>3, <1>4, <1>7, <1>8, <1>9

LEMMA FilesRefineProven == Spec => Proven!Spec
<1>1. Init => Proven!Init
  BY SameInProofs DEF Init, Proven!Init, LoopNow, LoopWhole
<1>2. Inv /\ [Next]_vars => Inv' /\ [Proven!Next]_(Proven!vars)
  BY StepImplements, SameLoop DEF Loop!vars, Proven!vars
<1> QED  BY <1>1, <1>2, InvInit, PTL DEF Spec, Proven!Spec

LEMMA ProvenAssumptions == Proven!LanesAssumption /\ Proven!NothingAssumption
<1>1. /\ Proven!Types = Types /\ Proven!Results = Results /\ Proven!Reported = Reported
      /\ Proven!Nothing = Nothing /\ \A S : Proven!IsFiniteSet(S) <=> IsFiniteSet(S)
  BY DEF Proven!Types, Types, Proven!Ladder, Ladder, Proven!Initial, Initial, Proven!Repairing,
         Repairing, Proven!Results, Results, Proven!Reported, Reported, Proven!Nothing, Nothing,
         Proven!IsFiniteSet, IsFiniteSet
<1> QED
  BY <1>1, LanesAssumption, NothingAssumption DEF Proven!LanesAssumption, Proven!NothingAssumption

(* At every moment of the files, crashes and overlapping commands          *)
(* included, no two Workers write to one file.                             *)
THEOREM FilesKeepWritersApart == Spec => []WritersApart
<1>1. Proven!Spec => []Proven!WritersApart
  BY ProvenAssumptions, Proven!WritersKeptApart
<1>2. Proven!WritersApart => WritersApart
  BY SameLoop DEF WritersApart
<1> QED  BY <1>1, <1>2, FilesRefineProven, PTL

(* At every moment of the files a lane that counts as done has passed      *)
(* every test with its last assignment.                                    *)
THEOREM FilesKeepDoneVerified == Spec => []DoneIsVerified
<1>1. Proven!Spec => []Proven!DoneIsVerified
  BY ProvenAssumptions, Proven!DoneMeansVerified
<1>2. Proven!DoneIsVerified => DoneIsVerified
  BY SameLoop DEF DoneIsVerified
<1> QED  BY <1>1, <1>2, FilesRefineProven, PTL

(* At every moment of the files no assignment has been given twice.        *)
THEOREM FilesNeverReuseAssignments == Spec => []AssignmentsUsedOnce
<1>1. Proven!Spec => []Proven!AssignmentsUsedOnce
  BY ProvenAssumptions, Proven!AssignmentsNeverReused
<1>2. Proven!AssignmentsUsedOnce => AssignmentsUsedOnce
  BY SameLoop DEF AssignmentsUsedOnce
<1> QED  BY <1>1, <1>2, FilesRefineProven, PTL

-----------------------------------------------------------------------------
(* The recovery store.                                                     *)

StateFields == {"seq", "status", "revision", "pending", "used", "bound", "cursor"}

(* What every recovery state that was ever made satisfies: an event is     *)
(* pending only while the Supervisor is active, a revision that is         *)
(* required has spent nothing, and its name is a used control event.       *)
StateOK(s) ==
    /\ DOMAIN s = StateFields
    /\ DOMAIN s.revision = {"id", "scope", "auth", "status"}
    /\ s.revision.status \in {Missing} \cup {Spending[i] : i \in DOMAIN Spending}
    /\ s.revision.id \in s.used \cup {Missing}
    /\ s.pending # {} => s.status = "active"
    /\ \A w \in s.pending : w.use \in {"assignment", "result", Nothing}
    /\ s.status = "revision_required" => s.revision.status = Missing

(* A change leads from one such state to the next and gives nothing back.  *)
Forward(t) ==
    /\ StateOK(t.after)
    /\ t.before.status = "stopped" => t.after.status = "stopped"
    /\ t.before.revision.id = t.after.revision.id =>
           Rank(t.before.revision) <= Rank(t.after.revision)
    /\ t.before.used \subseteq t.after.used

(* What a process has decided on.                                          *)
Decided(p) ==
    LET q == proc[p] IN
    /\ q.at \in Changing => Forward(q.tx)
    /\ q.at \in Deciding /\ q.op \notin Event => q.tx.before.pending = {}
    /\ q.at \in Deciding /\ q.op \in Event /\ q.tx.after.pending # {} =>
           \E w \in q.tx.after.pending : w.event = q.op

(* The journal holds the change, and the other files are at these states.  *)
Written(t, logged, cursor, state) ==
    /\ journal = {t}
    /\ recLog.after = logged /\ curLog.head = cursor /\ rec = state

(* How far the only process that changes the store has come with it, and   *)
(* what holds while a loop event is about to be written.                   *)
Place(p) ==
    LET at == proc[p].at
        t == proc[p].tx
        b == t.before
        a == t.after IN
    /\ at \in {"claim", "journal"} => journal = {} /\ rec = b
    /\ at = "append" => Written(t, b, b.cursor, b)
    /\ at = "cursor" => Written(t, a, b.cursor, b)
    /\ at \in {"replace", "restore"} => Written(t, a, a.cursor, b)
    /\ at \in {"clear", "unjournal"} => Written(t, a, a.cursor, a)
    /\ at = "loop_append" =>
          /\ journal = {} /\ rec.status = "active"
          /\ \E w \in rec.pending : w.event = proc[p].op
          /\ \A q \in Process : proc[q].at \notin Changing

(* The four ways in which the files may stand to the change in the journal.*)
Explains(j) ==
    \/ Written(j, j.before, j.before.cursor, j.before)
    \/ Written(j, j.after, j.before.cursor, j.before)
    \/ Written(j, j.after, j.after.cursor, j.before)
    \/ Written(j, j.after, j.after.cursor, j.after)

(* While no two processes have overlapped.                                 *)
Calm ==
    /\ recLog.sound /\ curLog.sound
    /\ journal = {} => Agree
    /\ \A j \in journal : Explains(j)
    /\ \A p, q \in Process : proc[p].at \in Changing /\ proc[q].at \in Changing => p = q
    /\ \A p \in Process : Place(p)

StoreInv ==
    /\ Inv
    /\ races \in Nat
    /\ StateOK(rec)
    /\ \A j \in journal : Forward(j)
    /\ \A p \in Process : Decided(p)
    /\ races = 0 => Calm

(* How far each status of a revision has been spent.                       *)
LEMMA RankFacts ==
    ASSUME NEW r
    PROVE  /\ r.status = Missing => Rank(r) = 0
           /\ r.status = "authorized" => Rank(r) = 1
           /\ r.status = "assignment_prepared" => Rank(r) = 2
           /\ r.status = "assignment_committed" => Rank(r) = 3
           /\ r.status = "result_prepared" => Rank(r) = 4
           /\ r.status = "result_committed" => Rank(r) = 5
           /\ r.status = "invalidated" => Rank(r) = 6
           /\ {Spending[i] : i \in DOMAIN Spending} =
                 {"authorized", "assignment_prepared", "assignment_committed",
                  "result_prepared", "result_committed", "invalidated"}
<1>1. /\ DOMAIN Spending = 1 .. 6
      /\ Spending[1] = "authorized" /\ Spending[2] = "assignment_prepared"
      /\ Spending[3] = "assignment_committed" /\ Spending[4] = "result_prepared"
      /\ Spending[5] = "result_committed" /\ Spending[6] = "invalidated"
  BY DEF Spending
<1>2. /\ Spending[1] # Missing /\ Spending[2] # Missing /\ Spending[3] # Missing
      /\ Spending[4] # Missing /\ Spending[5] # Missing /\ Spending[6] # Missing
  BY <1>1 DEF Missing
<1>3. DOMAIN Spending = {1, 2, 3, 4, 5, 6}
  BY <1>1
<1>4. ASSUME NEW i \in DOMAIN Spending, r.status = Spending[i] PROVE Rank(r) = i
  <2>1. \A k \in DOMAIN Spending : Spending[k] = r.status => k = i
    BY <1>1, <1>3, <1>4
  <2>2. (CHOOSE k \in DOMAIN Spending : Spending[k] = r.status) = i
    BY <1>4, <2>1
  <2> QED  BY <1>2, <1>3, <1>4, <2>2 DEF Rank
<1>5. r.status = Missing => Rank(r) = 0
  BY DEF Rank
<1>6. {Spending[i] : i \in DOMAIN Spending} =
        {Spending[1], Spending[2], Spending[3], Spending[4], Spending[5], Spending[6]}
  BY <1>3
<1> QED  BY <1>1, <1>3, <1>4, <1>5, <1>6

(* A change records the state it was made from.                            *)
LEMMA ChangeFacts ==
    ASSUME NEW s, DOMAIN s = StateFields
    PROVE  /\ Change(s).before = rec
           /\ DOMAIN Change(s).after = StateFields
           /\ Change(s).after.status = s.status /\ Change(s).after.revision = s.revision
           /\ Change(s).after.pending = s.pending /\ Change(s).after.used = s.used
           /\ StateOK(s) => StateOK(Change(s).after)
<1>1. /\ Change(s).before = rec
      /\ DOMAIN Change(s).after = StateFields
      /\ Change(s).after.status = s.status /\ Change(s).after.revision = s.revision
      /\ Change(s).after.pending = s.pending /\ Change(s).after.used = s.used
  BY DEF Change, StateFields
<1> QED  BY <1>1 DEF StateOK

(* A control event makes such a change.                                    *)
LEMMA ControlForward ==
    ASSUME StateOK(rec), NEW c \in Control, Permitted(rec, c)
    PROVE  /\ Forward(Change(Controlled(rec, c)))
           /\ Change(Controlled(rec, c)).before = rec /\ rec.pending = {}
<1> DEFINE s == Controlled(rec, c)
           o == Order[c]
<1>1. c \notin rec.used /\ c # Missing /\ c # rec.revision.id /\ rec.pending = {}
  BY CommandAssumption DEF Permitted, StateOK
<1>2. DOMAIN s = StateFields /\ s.used = rec.used \cup {c} /\ s.pending = rec.pending
  BY DEF Controlled, StateOK, StateFields
<1>3. s.status = CASE o.type = "reconcile" -> IF SyncPaused THEN "paused" ELSE "active"
                   [] o.type = "pause" -> "paused"
                   [] o.type \in {"resume", "authorize"} -> "active"
                   [] o.type = "revise" -> "revision_required"
                   [] o.type = "stop" -> "stopped"
                   [] OTHER -> rec.status
  BY DEF Controlled, StateOK, StateFields
<1>4. s.revision =
            CASE o.type = "revise" -> [NoRevision EXCEPT !.id = c, !.scope = o.scope]
              [] o.type = "authorize" -> [rec.revision EXCEPT !.auth = c, !.status = "authorized"]
              [] o.type = "stop" ->
                   [rec.revision EXCEPT !.status = IF @ = Missing THEN @ ELSE "invalidated"]
              [] OTHER -> rec.revision
  <2> DEFINE R == CASE o.type = "revise" -> [NoRevision EXCEPT !.id = c, !.scope = o.scope]
                    [] o.type = "authorize" ->
                         [rec.revision EXCEPT !.auth = c, !.status = "authorized"]
                    [] o.type = "stop" ->
                         [rec.revision EXCEPT !.status = IF @ = Missing THEN @ ELSE "invalidated"]
                    [] OTHER -> rec.revision
             T == CASE o.type = "reconcile" -> IF SyncPaused THEN "paused" ELSE "active"
                    [] o.type = "pause" -> "paused"
                    [] o.type \in {"resume", "authorize"} -> "active"
                    [] o.type = "revise" -> "revision_required"
                    [] o.type = "stop" -> "stopped"
                    [] OTHER -> rec.status
  <2>1. s = [rec EXCEPT !.used = rec.used \cup {c}, !.status = T, !.revision = R,
                        !.cursor = IF o.type = "cursor" THEN rec.cursor + 1 ELSE rec.cursor]
    BY DEF Controlled
  <2> HIDE DEF R, T, s
  <2>2. s.revision = R
    BY <2>1 DEF StateOK, StateFields
  <2> QED  BY <2>2 DEF R
<1> HIDE DEF s
<1>5. /\ DOMAIN s.revision = {"id", "scope", "auth", "status"}
      /\ o.type = "revise" => s.revision.id = c /\ s.revision.status = Missing
      /\ o.type # "revise" => s.revision.id = rec.revision.id
      /\ o.type = "authorize" => s.revision.status = "authorized"
      /\ o.type = "stop" => s.revision.status =
            IF rec.revision.status = Missing THEN Missing ELSE "invalidated"
      /\ o.type \notin {"revise", "authorize", "stop"} => s.revision = rec.revision
  BY <1>4 DEF StateOK, NoRevision
<1>6. /\ rec.status = "stopped" => s.status = "stopped"
      /\ s.status = "revision_required" =>
           o.type = "revise" \/ (o.type \notin {"authorize"} /\ rec.status = "revision_required")
      /\ o.type = "authorize" => rec.status = "revision_required"
  BY <1>3 DEF Permitted, Authorizable
<1>7. StateOK(s)
  <2>1. s.revision.status \in {Missing} \cup {Spending[i] : i \in DOMAIN Spending}
    BY <1>5, RankFacts DEF StateOK
  <2>2. s.status = "revision_required" => s.revision.status = Missing
    BY <1>5, <1>6 DEF StateOK
  <2> QED  BY <1>1, <1>2, <1>5, <2>1, <2>2 DEF StateOK
<1>8. rec.revision.id = s.revision.id => Rank(rec.revision) <= Rank(s.revision)
  <2> SUFFICES ASSUME rec.revision.id = s.revision.id
               PROVE  Rank(rec.revision) <= Rank(s.revision)
    OBVIOUS
  <2>1. o.type # "revise"
    BY <1>1, <1>5
  <2>2. Rank(rec.revision) \in 0 .. 6
    BY RankFacts DEF StateOK
  <2>3. CASE o.type = "authorize"
    <3>1. Rank(rec.revision) = 0 /\ Rank(s.revision) = 1
      BY <1>5, <1>6, <2>3, RankFacts DEF StateOK
    <3> QED  BY <3>1
  <2>4. CASE o.type = "stop"
    <3>1. Rank(s.revision) = IF rec.revision.status = Missing THEN 0 ELSE 6
      BY <1>5, <2>4, RankFacts
    <3>2. rec.revision.status = Missing => Rank(rec.revision) = 0
      BY RankFacts
    <3> QED  BY <2>2, <3>1, <3>2
  <2>5. CASE o.type \notin {"revise", "authorize", "stop"}
    BY <1>5, <2>2, <2>5
  <2> QED  BY <2>1, <2>3, <2>4, <2>5
<1> QED  BY <1>1, <1>2, <1>6, <1>7, <1>8, ChangeFacts DEF Forward, s

(* A prepared event makes such a change, and has itself pending.           *)
LEMMA PrepareForward ==
    ASSUME StateOK(rec), NEW e \in Event, Preparable(e)
    PROVE  /\ Forward(Prepared(e)) /\ Prepared(e).before = rec
           /\ \E w \in Prepared(e).after.pending : w.event = e
<1> DEFINE use == CHOOSE u \in Uses(rec, loopFile.loop, e) : TRUE
           w == [event |-> e, n |-> loopFile.n, use |-> use]
           s == [rec EXCEPT !.pending = {w}, !.used = @ \cup {e},
                            !.revision = Spend(@, use, PreparedUse)]
<1>1. use \in Uses(rec, loopFile.loop, e) /\ rec.status = "active"
  BY DEF Preparable
<1>2. /\ use \in {"assignment", "result", Nothing}
      /\ use = "assignment" => rec.revision.status = "authorized"
      /\ use = "result" => rec.revision.status = "assignment_committed"
  BY <1>1 DEF Uses, Nothing
<1> HIDE DEF use
<1>3. /\ DOMAIN s = StateFields /\ s.used = rec.used \cup {e} /\ s.status = rec.status
      /\ s.pending = {w} /\ s.revision = Spend(rec.revision, use, PreparedUse)
      /\ Prepared(e) = Change(s)
  BY DEF StateOK, StateFields, Prepared, use
<1> HIDE DEF s
<1>4. /\ DOMAIN s.revision = {"id", "scope", "auth", "status"}
      /\ s.revision.id = rec.revision.id
      /\ use = "assignment" => s.revision.status = "assignment_prepared"
      /\ use = "result" => s.revision.status = "result_prepared"
      /\ use = Nothing => s.revision = rec.revision
  BY <1>3 DEF Spend, PreparedUse, StateOK, Nothing
<1>5. /\ Rank(rec.revision) <= Rank(s.revision)
      /\ s.revision.status \in {Missing} \cup {Spending[i] : i \in DOMAIN Spending}
  <2>1. Rank(rec.revision) \in 0 .. 6
    BY RankFacts DEF StateOK
  <2>2. CASE use = "assignment"
    <3>1. Rank(rec.revision) = 1 /\ Rank(s.revision) = 2
      BY <1>2, <1>4, <2>2, RankFacts
    <3> QED  BY <1>4, <2>2, <3>1, RankFacts
  <2>3. CASE use = "result"
    <3>1. Rank(rec.revision) = 3 /\ Rank(s.revision) = 4
      BY <1>2, <1>4, <2>3, RankFacts
    <3> QED  BY <1>4, <2>3, <3>1, RankFacts
  <2>4. CASE use = Nothing
    BY <1>4, <2>1, <2>4 DEF StateOK
  <2> QED  BY <1>2, <2>2, <2>3, <2>4
<1>6. StateOK(s)
  BY <1>1, <1>2, <1>3, <1>4, <1>5 DEF StateOK
<1>7. w.event = e
  OBVIOUS
<1> HIDE DEF w
<1> QED  BY <1>1, <1>3, <1>4, <1>5, <1>6, <1>7, ChangeFacts DEF Forward

(* So does a commit, which leaves nothing pending.                         *)
LEMMA CommitForward ==
    ASSUME StateOK(rec), NEW w \in rec.pending, Committable(w)
    PROVE  /\ Forward(Committed(w)) /\ Committed(w).before = rec
           /\ Committed(w).after.pending = {}
<1> DEFINE s == [rec EXCEPT !.pending = {}, !.bound = loopFile,
                            !.revision = Spend(@, w.use, CommittedUse)]
<1>1. /\ DOMAIN s = StateFields /\ s.used = rec.used /\ s.status = rec.status
      /\ s.pending = {} /\ s.revision = Spend(rec.revision, w.use, CommittedUse)
      /\ Committed(w) = Change(s) /\ rec.status = "active"
  BY DEF StateOK, StateFields, Committed
<1> HIDE DEF s
<1>2. w.use # Nothing => rec.revision.status = PreparedUse[w.use]
  BY DEF Committable
<1>3. /\ DOMAIN s.revision = {"id", "scope", "auth", "status"}
      /\ s.revision.id = rec.revision.id
      /\ w.use # Nothing => s.revision.status = CommittedUse[w.use]
      /\ w.use = Nothing => s.revision = rec.revision
  BY <1>1 DEF Spend, StateOK
<1>4. /\ w.use \in {"assignment", "result", Nothing}
      /\ PreparedUse["assignment"] = "assignment_prepared"
      /\ PreparedUse["result"] = "result_prepared"
      /\ CommittedUse["assignment"] = "assignment_committed"
      /\ CommittedUse["result"] = "result_committed"
      /\ Nothing # "assignment" /\ Nothing # "result"
  BY DEF StateOK, PreparedUse, CommittedUse, Nothing
<1>5. /\ Rank(rec.revision) <= Rank(s.revision)
      /\ s.revision.status \in {Missing} \cup {Spending[i] : i \in DOMAIN Spending}
  <2>1. CASE w.use = "assignment"
    <3>1. Rank(rec.revision) = 2 /\ Rank(s.revision) = 3
      BY <1>2, <1>3, <1>4, <2>1, RankFacts
    <3> QED  BY <1>3, <1>4, <2>1, <3>1, RankFacts
  <2>2. CASE w.use = "result"
    <3>1. Rank(rec.revision) = 4 /\ Rank(s.revision) = 5
      BY <1>2, <1>3, <1>4, <2>2, RankFacts
    <3> QED  BY <1>3, <1>4, <2>2, <3>1, RankFacts
  <2>3. CASE w.use = Nothing
    <3>1. Rank(rec.revision) \in 0 .. 6
      BY RankFacts DEF StateOK
    <3> QED  BY <1>3, <2>3, <3>1 DEF StateOK
  <2> QED  BY <1>4, <2>1, <2>2, <2>3
<1>6. StateOK(s)
  BY <1>1, <1>3, <1>5 DEF StateOK
<1> QED  BY <1>1, <1>3, <1>5, <1>6, ChangeFacts DEF Forward


LEMMA StoreInit == Init => StoreInv
<1> SUFFICES ASSUME Init PROVE StoreInv
  OBVIOUS
<1>1. /\ journal = {} /\ races = 0
      /\ \A p \in Process : proc[p].at = "idle"
      /\ recLog.sound /\ curLog.sound /\ Agree
  BY DEF Init, Agree
<1>2. StateOK(rec)
  BY RankFacts DEF Init, StateOK, StateFields, NoRevision
<1>3. "idle" \notin Changing /\ "idle" \notin Deciding
  BY DEF Changing, Deciding
<1>4. \A p \in Process : Decided(p) /\ Place(p)
  BY <1>1, <1>3 DEF Decided, Place
<1> QED  BY <1>1, <1>2, <1>3, <1>4, InvInit DEF StoreInv, Calm

(* A process moves, the others stay where they are.                        *)
LEMMA Moves ==
    ASSUME Inv, NEW p \in Process, NEW s, NEW op, NEW tx, proc' = Takes(p, s, op, tx)
    PROVE  /\ proc'[p].at = s /\ proc'[p].op = op /\ proc'[p].tx = tx
           /\ \A q \in Process \ {p} : proc'[q] = proc[q]
  BY DEF Inv, Takes

(* A step that touches no file of the recovery store.                      *)
LEMMA StoreStill ==
    ASSUME StoreInv, Inv', NEW p \in Process, NEW s, NEW op, NEW tx,
           proc' = Takes(p, s, op, tx), UNCHANGED recStore, UNCHANGED races,
           s \notin Changing, races = 0 => Place(p)'
    PROVE  StoreInv'
<1>1. /\ proc'[p].at = s
      /\ \A q \in Process \ {p} : proc'[q] = proc[q]
      /\ s \notin Deciding
  BY Moves DEF StoreInv, Changing, Deciding
<1>2. rec' = rec /\ recLog' = recLog /\ curLog' = curLog /\ journal' = journal
  BY DEF recStore
<1>3. \A q \in Process : Decided(q)'
  BY <1>1 DEF StoreInv, Decided
<1>4. ASSUME races = 0 PROVE Calm'
  <2>1. Calm
    BY <1>4 DEF StoreInv
  <2>2. \A q \in Process \ {p} : Place(q)'
    BY <1>1, <1>2, <2>1 DEF Calm, Place, Written
  <2>3. /\ recLog'.sound /\ curLog'.sound /\ (journal = {} => Agree)'
        /\ (\A j \in journal : Explains(j))'
    BY <1>2, <2>1 DEF Calm, Agree, Explains, Written
  <2>4. \A q, r \in Process : proc'[q].at \in Changing /\ proc'[r].at \in Changing => q = r
    BY <1>1, <2>1 DEF Calm
  <2> QED  BY <1>4, <2>2, <2>3, <2>4 DEF Calm
<1> QED  BY <1>2, <1>3, <1>4 DEF StoreInv, StateOK, Forward

(* A process sets out to change the store.                                 *)
LEMMA StoreSets ==
    ASSUME StoreInv, Inv', NEW p \in Process, NEW s, NEW op, NEW tx,
           Sets(p, s, op, tx), UNCHANGED recStore, Forward(tx), s \in Changing,
           Decided(p)',
           races = 0 /\ ~Others(p) => Place(p)',
           races = 0 => \A q \in Process \ {p} : proc[q].at # "loop_append"
    PROVE  StoreInv'
<1>1. /\ proc'[p].at = s /\ proc' = Takes(p, s, op, tx)
      /\ \A q \in Process \ {p} : proc'[q] = proc[q]
  BY Moves DEF StoreInv, Sets
<1>2. rec' = rec /\ recLog' = recLog /\ curLog' = curLog /\ journal' = journal
  BY DEF recStore
<1>3. \A q \in Process : Decided(q)'
  BY <1>1 DEF StoreInv, Decided
<1>4. races' \in Nat /\ (races' = 0 => races = 0 /\ ~Others(p))
  BY DEF StoreInv, Sets
<1>5. ASSUME races' = 0 PROVE Calm'
  <2>1. Calm /\ ~Others(p) /\ races = 0
    BY <1>4, <1>5 DEF StoreInv
  <2>2. \A q \in Process \ {p} : Place(q)'
    BY <1>1, <1>2, <2>1 DEF Others, Place, Changing
  <2>3. /\ recLog'.sound /\ curLog'.sound /\ (journal = {} => Agree)'
        /\ (\A j \in journal : Explains(j))'
    BY <1>2, <2>1 DEF Calm, Agree, Explains, Written
  <2>4. \A q, r \in Process : proc'[q].at \in Changing /\ proc'[r].at \in Changing => q = r
    BY <1>1, <2>1 DEF Others
  <2> QED  BY <2>1, <2>2, <2>3, <2>4 DEF Calm
<1> QED  BY <1>2, <1>3, <1>4, <1>5 DEF StoreInv, StateOK, Forward

(* The process that changes the store takes its next step.                 *)
LEMMA StoreWrites ==
    ASSUME StoreInv, Inv', NEW p \in Process, NEW s, NEW op, NEW tx,
           proc' = Takes(p, s, op, tx), UNCHANGED races,
           proc[p].at \in Changing, StateOK(rec'),
           \A j \in journal' : j \in journal \/ Forward(j),
           Decided(p)',
           Calm /\ (\A q \in Process \ {p} : proc[q].at \notin Changing) =>
              /\ recLog'.sound /\ curLog'.sound
              /\ (journal = {} => Agree)'
              /\ (\A j \in journal : Explains(j))'
              /\ Place(p)'
    PROVE  StoreInv'
<1>1. /\ proc'[p].at = s
      /\ \A q \in Process \ {p} : proc'[q] = proc[q]
  BY Moves DEF StoreInv
<1>2. \A q \in Process : Decided(q)'
  BY <1>1 DEF StoreInv, Decided
<1>3. ASSUME races = 0 PROVE Calm'
  <2>1. Calm /\ \A q \in Process \ {p} : proc[q].at \notin Changing
    BY <1>3 DEF StoreInv, Calm
  <2>2. \A q \in Process \ {p} : proc[q].at # "loop_append"
    BY <2>1 DEF Calm, Place
  <2>3. \A q \in Process \ {p} : Place(q)'
    BY <1>1, <2>1, <2>2 DEF Place, Changing
  <2>4. \A q, r \in Process : proc'[q].at \in Changing /\ proc'[r].at \in Changing => q = r
    BY <1>1, <2>1
  <2> QED  BY <2>1, <2>3, <2>4 DEF Calm
<1>4. StateOK(rec)'
  BY DEF StateOK
<1>5. (\A j \in journal : Forward(j))'
  BY DEF StoreInv, Forward, StateOK
<1> QED  BY <1>2, <1>3, <1>4, <1>5 DEF StoreInv

(* Whoever may write a loop event has the lock to itself.                  *)
LEMMA LockKeepsOut ==
    ASSUME Inv, NEW p \in Process, NEW e \in Event, Reads(p, e),
           NEW q \in Process \ {p}
    PROVE  proc[q].op \notin Event
  BY CommandAssumption DEF Inv, ProcessInv, Reads, At

LEMMA StoreDecides ==
    ASSUME StoreInv, Inv', NEW p \in Process, Decides(p)
    PROVE  StoreInv'
<1>1. /\ Event \cap Control = {} /\ Missing \notin Event
      /\ Inv /\ StateOK(rec)
  BY CommandAssumption DEF StoreInv
<1>2. /\ {"claim", "restore", "unjournal"} \subseteq Changing
      /\ "claim" \in Deciding /\ "restore" \notin Deciding /\ "unjournal" \notin Deciding
  BY DEF Changing, Deciding
<1>3. ASSUME NEW op \in Event \cup Control \cup {Snapshot}, FindJournal(p, op)
      PROVE  StoreInv'
  <2>1. PICK j \in journal :
          Finishable(j) /\ Sets(p, IF rec = j.after THEN "unjournal" ELSE "restore", op, j)
    BY <1>3 DEF FindJournal
  <2> DEFINE s == IF rec = j.after THEN "unjournal" ELSE "restore"
  <2>2. UNCHANGED recStore /\ Forward(j) /\ s \in Changing
    BY <1>2, <1>3 DEF FindJournal, StoreInv
  <2>3. /\ proc'[p].at = s /\ proc'[p].op = op /\ proc'[p].tx = j
    BY <1>1, <2>1, Moves DEF Sets
  <2>4. Decided(p)'
    BY <1>2, <2>2, <2>3 DEF Decided, Forward, StateOK
  <2>5. races = 0 => Place(p)'
    <3> SUFFICES ASSUME races = 0 PROVE Place(p)'
      OBVIOUS
    <3>1. Explains(j) /\ journal = {j}
      BY DEF StoreInv, Calm, Explains, Written
    <3>2. recLog.after = j.after /\ curLog.head = j.after.cursor /\ rec \in {j.before, j.after}
      BY <2>1 DEF Finishable
    <3> QED  BY <2>2, <2>3, <3>1, <3>2 DEF Place, Written, recStore
  <2>6. races = 0 => \A q \in Process \ {p} : proc[q].at # "loop_append"
    BY DEF StoreInv, Calm, Place
  <2> HIDE DEF s
  <2> QED  BY <2>1, <2>2, <2>4, <2>5, <2>6, StoreSets DEF s
<1>4. ASSUME NEW c \in Control, DecideControl(p, c) PROVE StoreInv'
  <2> DEFINE t == Change(Controlled(rec, c))
  <2>1. /\ Sets(p, "claim", c, t) /\ UNCHANGED recStore /\ Verified /\ Permitted(rec, c)
    BY <1>4 DEF DecideControl
  <2>2. Forward(t) /\ t.before = rec /\ rec.pending = {}
    BY <1>1, <2>1, ControlForward
  <2> HIDE DEF t
  <2>3. proc'[p].at = "claim" /\ proc'[p].op = c /\ proc'[p].tx = t
    BY <1>1, <2>1, Moves DEF Sets
  <2>4. Decided(p)'
    BY <1>1, <2>2, <2>3 DEF Decided, Forward, StateOK
  <2>5. Place(p)'
    BY <2>1, <2>2, <2>3 DEF Place, Verified, recStore
  <2>6. races = 0 => \A q \in Process \ {p} : proc[q].at # "loop_append"
    BY <2>2 DEF StoreInv, Calm, Place
  <2> QED  BY <1>2, <2>1, <2>2, <2>4, <2>5, <2>6, StoreSets
<1>5. ASSUME NEW e \in Event, DecidePrepare(p, e) PROVE StoreInv'
  <2> DEFINE t == Prepared(e)
  <2>1. /\ Sets(p, "claim", e, t) /\ UNCHANGED recStore /\ Verified /\ Preparable(e)
        /\ Reads(p, e)
    BY <1>5 DEF DecidePrepare
  <2>2. Forward(t) /\ t.before = rec /\ \E w \in t.after.pending : w.event = e
    BY <1>1, <2>1, PrepareForward
  <2> HIDE DEF t
  <2>3. proc'[p].at = "claim" /\ proc'[p].op = e /\ proc'[p].tx = t
    BY <1>1, <2>1, Moves DEF Sets
  <2>4. Decided(p)'
    BY <2>2, <2>3 DEF Decided, Forward, StateOK
  <2>5. Place(p)'
    BY <2>1, <2>2, <2>3 DEF Place, Verified, recStore
  <2>6. \A q \in Process \ {p} : proc[q].at # "loop_append"
    BY <1>1, <2>1, LockKeepsOut DEF Inv, ProcessInv
  <2> QED  BY <1>2, <2>1, <2>2, <2>4, <2>5, <2>6, StoreSets
<1>6. ASSUME NEW e \in Event, DecideCommit(p, e) PROVE StoreInv'
  <2>1. PICK w \in rec.pending : Committable(w) /\ Sets(p, "claim", e, Committed(w))
    BY <1>6 DEF DecideCommit
  <2> DEFINE t == Committed(w)
  <2>2. /\ Sets(p, "claim", e, t) /\ UNCHANGED recStore /\ Verified /\ Reads(p, e)
    BY <1>6, <2>1 DEF DecideCommit
  <2>3. Forward(t) /\ t.before = rec /\ t.after.pending = {}
    BY <1>1, <2>1, CommitForward
  <2> HIDE DEF t
  <2>4. proc'[p].at = "claim" /\ proc'[p].op = e /\ proc'[p].tx = t
    BY <1>1, <2>2, Moves DEF Sets
  <2>5. Decided(p)'
    BY <2>3, <2>4 DEF Decided, Forward, StateOK
  <2>6. Place(p)'
    BY <2>2, <2>3, <2>4 DEF Place, Verified, recStore
  <2>7. \A q \in Process \ {p} : proc[q].at # "loop_append"
    BY <1>1, <2>2, LockKeepsOut DEF Inv, ProcessInv
  <2> QED  BY <1>2, <2>2, <2>3, <2>5, <2>6, <2>7, StoreSets
<1>7. ASSUME NEW e \in Event, Resume(p, e) PROVE StoreInv'
  <2>1. /\ proc' = Takes(p, "loop_append", e, NoChange) /\ UNCHANGED recStore
        /\ UNCHANGED races /\ journal = {} /\ Resumable(e) /\ Reads(p, e)
    BY <1>7 DEF Resume, Step, Verified
  <2>2. "loop_append" \notin Changing
    BY DEF Changing
  <2>3. /\ proc'[p].at = "loop_append" /\ proc'[p].op = e
        /\ \A q \in Process \ {p} : proc'[q] = proc[q]
    BY <1>1, <2>1, Moves
  <2>4. ASSUME races = 0 PROVE Place(p)'
    <3>1. rec.status = "active" /\ \E w \in rec.pending : w.event = e
      BY <2>1 DEF Resumable
    <3>2. ASSUME NEW q \in Process \ {p} PROVE proc[q].at \notin Changing
      <4>1. proc[q].op \notin Event
        BY <1>1, <2>1, LockKeepsOut
      <4>2. Place(q) /\ Decided(q)
        BY <2>4 DEF StoreInv, Calm
      <4>3. proc[q].at \in {"claim", "journal"} => FALSE
        BY <3>1, <4>1, <4>2 DEF Place, Decided, Deciding
      <4> QED  BY <2>1, <4>2, <4>3 DEF Place, Written, Changing
    <3> QED  BY <2>1, <2>2, <2>3, <3>1, <3>2 DEF Place, recStore
  <2> QED  BY <2>1, <2>2, <2>4, StoreStill
<1> QED  BY <1>3, <1>4, <1>5, <1>6, <1>7 DEF Decides

(* A process that stops, or ends its command.                              *)
LEMMA StoreQuits ==
    ASSUME StoreInv, Inv', NEW p \in Process, UNCHANGED recStore, UNCHANGED races,
           proc' = Quits(p)
    PROVE  StoreInv'
<1>1. proc' = Takes(p, "idle", Missing, NoChange)
  BY DEF Quits, Takes
<1>2. proc'[p].at = "idle" /\ "idle" \notin Changing
  BY <1>1, Moves DEF StoreInv, Changing
<1>3. Place(p)'
  BY <1>2 DEF Place
<1> QED  BY <1>1, <1>2, <1>3, StoreStill

LEMMA StoreWritten ==
    ASSUME StoreInv, Inv', NEW p \in Process, Writes(p)
    PROVE  StoreInv'
<1> USE DEF Step, At
<1> DEFINE q == proc[p]
           t == q.tx
<1>1. Inv /\ StateOK(rec) /\ Decided(p) /\ ProcessInv(p)
  BY DEF StoreInv, Inv
<1>2. ASSUME NEW s, Goes(p, s) = proc' PROVE proc' = Takes(p, s, q.op, t)
  BY <1>1, <1>2, GoesTakes
<1>3. ASSUME q.at \in Changing
      PROVE  Forward(t) /\ StateOK(t.after) /\ (Calm => Place(p))
  BY <1>1, <1>3 DEF Decided, Forward, Calm
<1>4. CASE Restore(p)
  <2>1. /\ proc' = Takes(p, "unjournal", q.op, t) /\ rec' = t.after /\ UNCHANGED races
        /\ recLog' = recLog /\ curLog' = curLog /\ journal' = journal
        /\ q.at = "restore" /\ q.at \in Changing
    BY <1>2, <1>4 DEF Restore, Changing
  <2>2. proc'[p].at = "unjournal" /\ proc'[p].op = q.op /\ proc'[p].tx = t
    BY <1>1, <2>1, Moves
  <2>3. Decided(p)'
    BY <1>3, <2>1, <2>2 DEF Decided, Changing, Deciding, Forward, StateOK
  <2>4. ASSUME Calm
        PROVE  /\ recLog'.sound /\ curLog'.sound /\ (journal = {} => Agree)'
               /\ (\A j \in journal : Explains(j))' /\ Place(p)'
    <3>1. Written(t, t.after, t.after.cursor, t.before)
      BY <1>3, <2>1, <2>4 DEF Place
    <3>2. /\ journal' = {t} /\ recLog'.after = t.after /\ curLog'.head = t.after.cursor
          /\ rec' = t.after
      BY <2>1, <3>1 DEF Written
    <3> QED  BY <2>1, <2>2, <2>4, <3>2 DEF Calm, Place, Explains, Written
  <2> QED  BY <1>3, <2>1, <2>3, <2>4, StoreWrites
<1>5. CASE Unjournal(p)
  <2>1. /\ proc' = Takes(p, "read", q.op, NoChange) /\ rec' = rec /\ UNCHANGED races
        /\ recLog' = recLog /\ curLog' = curLog /\ journal' = {}
        /\ q.at = "unjournal" /\ q.at \in Changing
    BY <1>5 DEF Unjournal, Changing
  <2>2. proc'[p].at = "read" /\ proc'[p].op = q.op
    BY <1>1, <2>1, Moves
  <2>3. Decided(p)'
    BY <2>2 DEF Decided, Changing, Deciding
  <2>4. ASSUME Calm
        PROVE  /\ recLog'.sound /\ curLog'.sound /\ (journal = {} => Agree)'
               /\ (\A j \in journal : Explains(j))' /\ Place(p)'
    <3>1. Written(t, t.after, t.after.cursor, t.after)
      BY <1>3, <2>1, <2>4 DEF Place
    <3> QED  BY <2>1, <2>2, <2>4, <3>1 DEF Calm, Place, Written, Agree
  <2> QED  BY <1>1, <2>1, <2>3, <2>4, StoreWrites
<1>6. CASE ClaimJournal(p)
  <2>1. UNCHANGED recStore /\ UNCHANGED races /\ q.at = "claim" /\ q.at \in Changing
    BY <1>6 DEF ClaimJournal, Changing
  <2>2. CASE proc' = Goes(p, "journal")
    <3>1. /\ proc' = Takes(p, "journal", q.op, t) /\ rec' = rec
          /\ recLog' = recLog /\ curLog' = curLog /\ journal' = journal
      BY <1>2, <2>1, <2>2 DEF recStore
    <3>2. proc'[p].at = "journal" /\ proc'[p].op = q.op /\ proc'[p].tx = t
      BY <1>1, <3>1, Moves
    <3>3. Decided(p)'
      BY <1>1, <2>1, <3>2 DEF Decided, Changing, Deciding, Forward, StateOK
    <3>4. ASSUME Calm
          PROVE  /\ recLog'.sound /\ curLog'.sound /\ (journal = {} => Agree)'
                 /\ (\A j \in journal : Explains(j))' /\ Place(p)'
      <4>1. journal = {} /\ rec = t.before
        BY <1>3, <2>1, <3>4 DEF Place
      <4> QED  BY <3>1, <3>2, <3>4, <4>1 DEF Calm, Place, Agree
    <3> QED  BY <1>1, <2>1, <3>1, <3>3, <3>4, StoreWrites
  <2>3. CASE proc' = Quits(p)
    BY <2>1, <2>3, StoreQuits
  <2> QED  BY <1>6, <2>2, <2>3 DEF ClaimJournal
<1>7. CASE WriteJournal(p)
  <2>1. /\ proc' = Takes(p, "append", q.op, t) /\ rec' = rec /\ UNCHANGED races
        /\ recLog' = recLog /\ curLog' = curLog /\ journal' = {t}
        /\ q.at = "journal" /\ q.at \in Changing
    BY <1>2, <1>7 DEF WriteJournal, Changing
  <2>2. proc'[p].at = "append" /\ proc'[p].op = q.op /\ proc'[p].tx = t
    BY <1>1, <2>1, Moves
  <2>3. Decided(p)'
    BY <1>1, <2>1, <2>2 DEF Decided, Changing, Deciding, Forward, StateOK
  <2>4. ASSUME Calm
        PROVE  /\ recLog'.sound /\ curLog'.sound /\ (journal = {} => Agree)'
               /\ (\A j \in journal : Explains(j))' /\ Place(p)'
    <3>1. journal = {} /\ rec = t.before /\ Agree
      BY <1>3, <2>1, <2>4 DEF Place, Calm
    <3>2. /\ recLog'.after = t.before /\ curLog'.head = t.before.cursor /\ rec' = t.before
      BY <2>1, <3>1 DEF Agree
    <3> QED  BY <2>1, <2>2, <2>4, <3>2 DEF Calm, Place, Explains, Written
  <2> QED  BY <1>1, <1>3, <2>1, <2>3, <2>4, StoreWrites
<1>8. CASE AppendEvent(p)
  <2> DEFINE s == IF t.after.cursor = t.before.cursor THEN "replace" ELSE "cursor"
  <2>1. /\ proc' = Takes(p, s, q.op, t) /\ rec' = rec /\ UNCHANGED races
        /\ recLog' = [after |-> t.after, sound |-> recLog.sound /\ recLog.after = t.before]
        /\ curLog' = curLog /\ journal' = journal
        /\ q.at = "append" /\ q.at \in Changing
    BY <1>2, <1>8 DEF AppendEvent, Changing
  <2>2. proc'[p].at = s /\ proc'[p].op = q.op /\ proc'[p].tx = t /\ s \in {"replace", "cursor"}
    BY <1>1, <2>1, Moves
  <2>3. Decided(p)'
    BY <1>1, <2>1, <2>2 DEF Decided, Changing, Deciding, Forward, StateOK
  <2>4. ASSUME Calm
        PROVE  /\ recLog'.sound /\ curLog'.sound /\ (journal = {} => Agree)'
               /\ (\A j \in journal : Explains(j))' /\ Place(p)'
    <3>1. Written(t, t.before, t.before.cursor, t.before)
      BY <1>3, <2>1, <2>4 DEF Place
    <3>2. /\ journal' = {t} /\ recLog'.after = t.after /\ recLog'.sound
          /\ curLog'.head = t.before.cursor /\ rec' = t.before
      BY <2>1, <2>4, <3>1 DEF Written, Calm
    <3>3. s = "replace" => t.before.cursor = t.after.cursor
      OBVIOUS
    <3> HIDE DEF s
    <3> QED  BY <2>1, <2>2, <2>4, <3>2, <3>3 DEF Calm, Place, Explains, Written
  <2> HIDE DEF s
  <2> QED  BY <1>1, <2>1, <2>3, <2>4, StoreWrites
<1>9. CASE AppendCursor(p)
  <2>1. /\ proc' = Takes(p, "replace", q.op, t) /\ rec' = rec /\ UNCHANGED races
        /\ curLog' = [head |-> t.after.cursor,
                      sound |-> curLog.sound /\ curLog.head = t.before.cursor]
        /\ recLog' = recLog /\ journal' = journal
        /\ q.at = "cursor" /\ q.at \in Changing
    BY <1>2, <1>9 DEF AppendCursor, Changing
  <2>2. proc'[p].at = "replace" /\ proc'[p].op = q.op /\ proc'[p].tx = t
    BY <1>1, <2>1, Moves
  <2>3. Decided(p)'
    BY <1>1, <2>1, <2>2 DEF Decided, Changing, Deciding, Forward, StateOK
  <2>4. ASSUME Calm
        PROVE  /\ recLog'.sound /\ curLog'.sound /\ (journal = {} => Agree)'
               /\ (\A j \in journal : Explains(j))' /\ Place(p)'
    <3>1. Written(t, t.after, t.before.cursor, t.before)
      BY <1>3, <2>1, <2>4 DEF Place
    <3>2. /\ journal' = {t} /\ recLog'.after = t.after /\ curLog'.sound
          /\ curLog'.head = t.after.cursor /\ rec' = t.before
      BY <2>1, <2>4, <3>1 DEF Written, Calm
    <3> QED  BY <2>1, <2>2, <2>4, <3>2 DEF Calm, Place, Explains, Written
  <2> QED  BY <1>1, <2>1, <2>3, <2>4, StoreWrites
<1>10. CASE ReplaceState(p)
  <2>1. /\ proc' = Takes(p, "clear", q.op, t) /\ rec' = t.after /\ UNCHANGED races
        /\ recLog' = recLog /\ curLog' = curLog /\ journal' = journal
        /\ q.at = "replace" /\ q.at \in Changing
    BY <1>2, <1>10 DEF ReplaceState, Changing
  <2>2. proc'[p].at = "clear" /\ proc'[p].op = q.op /\ proc'[p].tx = t
    BY <1>1, <2>1, Moves
  <2>3. Decided(p)'
    BY <1>1, <2>1, <2>2 DEF Decided, Changing, Deciding, Forward, StateOK
  <2>4. ASSUME Calm
        PROVE  /\ recLog'.sound /\ curLog'.sound /\ (journal = {} => Agree)'
               /\ (\A j \in journal : Explains(j))' /\ Place(p)'
    <3>1. Written(t, t.after, t.after.cursor, t.before)
      BY <1>3, <2>1, <2>4 DEF Place
    <3>2. /\ journal' = {t} /\ recLog'.after = t.after /\ curLog'.head = t.after.cursor
          /\ rec' = t.after
      BY <2>1, <3>1 DEF Written
    <3> QED  BY <2>1, <2>2, <2>4, <3>2 DEF Calm, Place, Explains, Written
  <2> QED  BY <1>3, <2>1, <2>3, <2>4, StoreWrites
<1>11. CASE ClearJournal(p)
  <2>1. /\ rec' = rec /\ recLog' = recLog /\ curLog' = curLog /\ journal' = {}
        /\ UNCHANGED races /\ q.at = "clear" /\ q.at \in Changing /\ q.at \in Deciding
    BY <1>11 DEF ClearJournal, Changing, Deciding
  <2>2. ASSUME Calm PROVE Agree' /\ recLog'.sound /\ curLog'.sound /\ rec = t.after
    <3>1. Written(t, t.after, t.after.cursor, t.after)
      BY <1>3, <2>1, <2>2 DEF Place
    <3> QED  BY <2>1, <2>2, <3>1 DEF Written, Agree, Calm
  <2>3. CASE q.op \in Event /\ t.after.pending # {}
             /\ proc' = Takes(p, "loop_append", q.op, NoChange)
    <3>1. proc'[p].at = "loop_append" /\ proc'[p].op = q.op
          /\ \A r \in Process \ {p} : proc'[r] = proc[r]
      BY <1>1, <2>3, Moves
    <3>2. Decided(p)'
      BY <3>1 DEF Decided, Changing, Deciding
    <3>3. t.after.status = "active" /\ \E w \in t.after.pending : w.event = q.op
      BY <1>1, <1>3, <2>1, <2>3 DEF Decided, StateOK
    <3>4. ASSUME Calm, \A r \in Process \ {p} : proc[r].at \notin Changing PROVE Place(p)'
      <4>1. \A r \in Process : proc'[r].at \notin Changing
        BY <3>1, <3>4 DEF Changing
      <4> QED  BY <2>1, <2>2, <3>1, <3>3, <3>4, <4>1 DEF Place
    <3> QED  BY <1>1, <2>1, <2>2, <2>3, <3>2, <3>4, StoreWrites
  <2>4. ASSUME NEW s \in {"read", "idle"}, NEW op, proc' = Takes(p, s, op, NoChange)
        PROVE  Decided(p)' /\ Place(p)'
    <3>1. proc'[p].at \in {"read", "idle"}
      BY <1>1, <2>4, Moves
    <3> QED  BY <3>1 DEF Decided, Place, Changing, Deciding
  <2>5. CASE proc' = Takes(p, "read", q.op, NoChange)
    BY <1>1, <2>1, <2>2, <2>4, <2>5, StoreWrites
  <2>6. CASE proc' = Quits(p)
    <3>1. proc' = Takes(p, "idle", Missing, NoChange)
      BY <2>6 DEF Quits, Takes
    <3> QED  BY <1>1, <2>1, <2>2, <2>4, <3>1, StoreWrites
  <2> QED  BY <1>11, <2>3, <2>5, <2>6 DEF ClearJournal
<1>12. CASE Return(p)
  BY <1>12, StoreQuits DEF Return
<1>13. CASE AppendLoop(p) \/ ReplaceLoop(p)
  <2>1. PICK s \in {"loop_replace", "read"} : proc' = Takes(p, s, q.op, t)
    BY <1>2, <1>13 DEF AppendLoop, ReplaceLoop
  <2>2. UNCHANGED recStore /\ UNCHANGED races /\ s \notin Changing
    BY <1>13 DEF AppendLoop, ReplaceLoop, Changing
  <2>3. proc'[p].at = s
    BY <1>1, <2>1, Moves
  <2>4. Place(p)'
    BY <2>3 DEF Place
  <2> QED  BY <2>1, <2>2, <2>4, StoreStill
<1> QED
  BY <1>4, <1>5, <1>6, <1>7, <1>8, <1>9, <1>10, <1>11, <1>12, <1>13 DEF Writes

LEMMA StoreStep == StoreInv /\ [Next]_vars => StoreInv'
<1> SUFFICES ASSUME StoreInv, [Next]_vars PROVE StoreInv'
  OBVIOUS
<1>1. Inv /\ Inv'
  BY StepImplements DEF StoreInv
<1>2. CASE UNCHANGED vars
  BY <1>1, <1>2 DEF vars, recStore, StoreInv, StateOK, Forward, Decided, Calm, Agree,
                    Explains, Written, Place
<1>3. ASSUME NEW p \in Process, Crash(p) PROVE StoreInv'
  BY <1>1, <1>3, StoreQuits DEF Crash, Step
<1> QED  BY <1>1, <1>2, <1>3, StoreDecides, StoreWritten DEF Next

LEMMA StoreCorrect == Spec => []StoreInv
  BY StoreInit, StoreStep, PTL DEF Spec

(* Wherever commands are killed, as long as no two of them have overlapped *)
(* on it, the recovery store is whole or one of the four ways to leave a   *)
(* change half written (_write_journal and _recover_pending_journal).      *)
THEOREM FilesExplainOneAnother == Spec => []StoreExplained
<1>1. StoreInv => StoreExplained
  <2> SUFFICES ASSUME StoreInv, ~(races > 0) PROVE StoreExplained
    BY DEF StoreExplained
  <2>1. races = 0
    BY DEF StoreInv
  <2>2. Calm
    BY <2>1 DEF StoreInv
  <2>3. ASSUME NEW j \in journal
        PROVE  <<recLog.after, curLog.head, rec>> \in
                 {<<j.before, j.before.cursor, j.before>>, <<j.after, j.before.cursor, j.before>>,
                  <<j.after, j.after.cursor, j.before>>, <<j.after, j.after.cursor, j.after>>}
    BY <2>2 DEF Calm, Explains, Written
  <2> QED  BY <2>2, <2>3 DEF Calm, StoreExplained
<1> QED  BY <1>1, StoreCorrect, PTL

(* The step that writes a loop event.                                      *)
LEMMA LoopWriter ==
    ASSUME StoreInv, [Next]_vars, loopLog' # loopLog
    PROVE  \E p \in Process : AppendLoop(p) /\ loopLog'[Len(loopLog')] = proc[p].op
<1>1. PICK p \in Process : Decides(p) \/ Writes(p) \/ Crash(p)
  BY DEF Next, vars, loopStore
<1>2. Decides(p) \/ Crash(p) => UNCHANGED loopStore
  BY <1>1, DecidesInv DEF StoreInv, Crash
<1>3. Writes(p) => UNCHANGED loopStore \/ AppendLoop(p) \/ ReplaceLoop(p)
  BY <1>1, WritesInv DEF StoreInv
<1>4. AppendLoop(p)
  BY <1>1, <1>2, <1>3 DEF loopStore, ReplaceLoop
<1>5. loopLog \in Seq(Event) /\ proc[p].op \in Event /\ loopLog' = Append(loopLog, proc[p].op)
  BY <1>4 DEF AppendLoop, At, StoreInv, Inv, FilesInv, ProcessInv
<1> QED  BY <1>4, <1>5

(* A loop event is written only while the recovery state is active and has *)
(* this event prepared (begin_loop_transition_files), unless two commands  *)
(* overlapped on the recovery store.                                       *)
THEOREM OnlyPreparedIsWritten == Spec => WrittenWhenPrepared
<1>1. StoreInv /\ [Next]_vars =>
        [loopLog' # loopLog =>
            \/ races > 0
            \/ /\ rec.status = "active"
               /\ \E w \in rec.pending : w.event = loopLog'[Len(loopLog')]]_vars
  <2> SUFFICES ASSUME StoreInv, [Next]_vars, loopLog' # loopLog, ~(races > 0)
               PROVE  /\ rec.status = "active"
                      /\ \E w \in rec.pending : w.event = loopLog'[Len(loopLog')]
    OBVIOUS
  <2>1. PICK p \in Process : AppendLoop(p) /\ loopLog'[Len(loopLog')] = proc[p].op
    BY LoopWriter
  <2>2. races = 0
    BY DEF StoreInv
  <2>3. Place(p) /\ proc[p].at = "loop_append"
    BY <2>1, <2>2 DEF StoreInv, Calm, AppendLoop, At
  <2> QED  BY <2>1, <2>3 DEF Place
<1> QED  BY <1>1, StoreCorrect, PTL DEF Spec, WrittenWhenPrepared

(* How a step changes the recovery state: not, or from the state before a  *)
(* change to the state after it.                                           *)
LEMMA StateMoves ==
    ASSUME StoreInv, [Next]_vars, races' = 0
    PROVE  rec' = rec \/ \E t : Forward(t) /\ rec = t.before /\ rec' = t.after
<1>1. races = 0
  BY DEF StoreInv, Next, Decides, Writes, vars, FindJournal, DecideControl, DecidePrepare,
         DecideCommit, Resume, Sets, Step, Restore, Unjournal, ClaimJournal, WriteJournal,
         AppendEvent, AppendCursor, ReplaceState, ClearJournal, AppendLoop, ReplaceLoop,
         Return, Crash
<1>2. ASSUME NEW p \in Process, Restore(p) \/ ReplaceState(p)
      PROVE  \E t : Forward(t) /\ rec = t.before /\ rec' = t.after
  <2>1. proc[p].at \in {"restore", "replace"} /\ rec' = proc[p].tx.after
    BY <1>2 DEF Restore, ReplaceState, At
  <2>2. Place(p) /\ Decided(p)
    BY <1>1 DEF StoreInv, Calm
  <2> QED  BY <2>1, <2>2 DEF Place, Written, Decided, Changing
<1>3. ASSUME NEW p \in Process, Writes(p), ~Restore(p), ~ReplaceState(p) PROVE rec' = rec
  BY <1>3 DEF Writes, Unjournal, ClaimJournal, WriteJournal, AppendEvent, AppendCursor,
              ClearJournal, AppendLoop, ReplaceLoop, Return, recStore
<1>4. ASSUME NEW p \in Process, Decides(p) \/ Crash(p) PROVE rec' = rec
  BY <1>4 DEF Decides, FindJournal, DecideControl, DecidePrepare, DecideCommit, Resume,
              Crash, recStore
<1> QED  BY <1>2, <1>3, <1>4 DEF Next, vars, recStore

(* A stop is never undone and nothing is written after it, a revision is   *)
(* spent in one direction and no used event becomes usable again, unless   *)
(* two commands overlapped: neither a crash nor the restoring of a state   *)
(* gives anything back (_recover_pending_journal).                         *)
THEOREM NothingIsGivenBack == Spec => NothingGivenBack
<1>1. StoreInv /\ [Next]_vars =>
        [races' = 0 =>
          /\ rec.status = "stopped" => rec'.status = "stopped" /\ loopLog' = loopLog
          /\ rec.revision.id = rec'.revision.id => Rank(rec.revision) <= Rank(rec'.revision)
          /\ rec.used \subseteq rec'.used]_vars
  <2> SUFFICES ASSUME StoreInv, [Next]_vars, races' = 0
               PROVE  /\ rec.status = "stopped" => rec'.status = "stopped" /\ loopLog' = loopLog
                      /\ rec.revision.id = rec'.revision.id =>
                            Rank(rec.revision) <= Rank(rec'.revision)
                      /\ rec.used \subseteq rec'.used
    OBVIOUS
  <2>1. ASSUME rec.status = "stopped" PROVE loopLog' = loopLog
    <3> SUFFICES ASSUME loopLog' # loopLog PROVE FALSE
      OBVIOUS
    <3>1. PICK p \in Process : AppendLoop(p)
      BY LoopWriter
    <3>2. races = 0 /\ proc[p].at = "loop_append"
      BY <3>1 DEF AppendLoop, Step, At
    <3> QED  BY <2>1, <3>2 DEF StoreInv, Calm, Place
  <2>2. Rank(rec.revision) \in 0 .. 6
    BY RankFacts DEF StoreInv, StateOK
  <2> QED  BY <2>1, <2>2, StateMoves DEF Forward
<1> QED  BY <1>1, StoreCorrect, PTL DEF Spec, NothingGivenBack

===============================================================================
