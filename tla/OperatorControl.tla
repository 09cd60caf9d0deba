---------------------------- MODULE OperatorControl ----------------------------
(***************************************************************************)
(* The operator's Run and Cancel (operator_submit_workspace): the record   *)
(* is read without the lock, the submission is checked under it, reserved  *)
(* under it, executed under it by the effect kernel, and retained under it,*)
(* and the lock is free between these.  Several submissions overlap, each  *)
(* may be sent again, and other callers execute effects of their own.      *)
(*                                                                         *)
(* What an operator saw is the record and the version of the effect state: *)
(* the projection digest and the view nonce are derived from both.  Select *)
(* writes neither and is left out, and Recover is never offered: see       *)
(* UnknownNeverRetained.                                                   *)
(***************************************************************************)
EXTENDS EffectKernel, FiniteSets

CONSTANTS Call,          \* calls in flight
          Submission,    \* submission ids
          Wants,         \* the action of each submission, "run" or "cancel"
          NoCall, NoRecord, NoView, NoSubmission,
          Direct         \* stands for the submission of a caller that is not the operator

VARIABLES record,      \* the binding record, or NoRecord
          call,        \* what each call has in hand
          made,        \* what the operator saw when it made a submission
          effected     \* history: the submissions that left a receipt

operatorVars == <<record, call, made, effected>>
vars == <<kernelVars, operatorVars>>

Record == [receipt : Receipt, replays : SUBSET Submission, used : Nat,
           pending : Submission \cup {NoSubmission}]
Step == {"read", "reserving", "cleared", "executing", "executed"}
View == [record : Record \cup {NoRecord}, version : Nat]
CallRow == [step : Step, sub : Submission \cup {Direct},
            seen : Record \cup {NoRecord}, receipt : Receipt \cup {NoReceipt}]

ASSUME ControlAssumption ==
    /\ Wants \in [Submission -> {"run", "cancel"}]
    /\ Direct \notin Submission
    /\ NoSubmission \notin Submission
    /\ NoRecord \notin Record
    /\ NoCall \notin CallRow
    /\ NoView \notin View

ControlTypeOK ==
    /\ KernelTypeOK
    /\ record \in Record \cup {NoRecord}
    /\ call \in [Call -> CallRow \cup {NoCall}]
    /\ made \in [Submission -> View \cup {NoView}]
    /\ effected \subseteq Submission

Init ==
    /\ KernelInit
    /\ record = NoRecord
    /\ call = [c \in Call |-> NoCall]
    /\ made = [s \in Submission |-> NoView]
    /\ effected = {}

(***************************************************************************)
(* The controls a status offers, derived under the lock from the record    *)
(* and the effect state.                                                   *)
(***************************************************************************)
Exact ==
    LET receipt == record.receipt
        row == effects.runs[receipt.request.run]
    IN  /\ row # Absent
        /\ effects.version = receipt.after
        /\ effects.index[receipt.request.key] = receipt
        /\ row.origin = receipt.request

CancelOffered ==
    /\ record # NoRecord
    /\ Exact
    /\ effects.runs[record.receipt.request.run].life = "running"
    /\ record.receipt.observed

RunOffered == record = NoRecord /\ effects.version = 0

Offered(action) == IF action = "run" THEN RunOffered ELSE CancelOffered

(***************************************************************************)
(* A submission, from the operator's status to the transport receipt       *)
(***************************************************************************)
At(c, step) == call[c] # NoCall /\ call[c].step = step
Goes(c, step) == call' = [call EXCEPT ![c].step = step]
Ends(c) == call' = [call EXCEPT ![c] = NoCall]

Seen == [record |-> record, version |-> effects.version]

(* A submission arrives, made from the current status or sent again.  One  *)
(* that the record lists as completed is answered from there.              *)
Submit(c, s) ==
    /\ call[c] = NoCall
    /\ record # NoRecord => s \notin record.replays
    /\ made' = IF made[s] = NoView THEN [made EXCEPT ![s] = Seen] ELSE made
    /\ call' = [call EXCEPT ![c] = [step |-> "read", sub |-> s, seen |-> record,
                                    receipt |-> NoReceipt]]
    /\ UNCHANGED <<kernelVars, record, effected>>

(* Under the lock: the record must be the one read, the status the one the *)
(* operator saw, and the control offered.  There is nothing to reserve     *)
(* before the first Run.                                                   *)
Check(c) ==
    /\ LockFree
    /\ At(c, "read")
    /\ record = call[c].seen
    /\ made[call[c].sub] = Seen
    /\ Offered(Wants[call[c].sub])
    /\ Goes(c, IF record = NoRecord THEN "cleared" ELSE "reserving")
    /\ UNCHANGED <<kernelVars, record, made, effected>>

Reservation(seen, s) == [seen EXCEPT !.used = @ + 1, !.pending = s]

Reserve(c) ==
    /\ LockFree
    /\ At(c, "reserving")
    /\ record = call[c].seen
    /\ record' = Reservation(record, call[c].sub)
    /\ Goes(c, "cleared")
    /\ UNCHANGED <<kernelVars, made, effected>>

(* The package host mints the request of a submission: its action, the run *)
(* and lease of the record it cancels, the version of the grant.  Whether  *)
(* two submissions get one idempotency key is the host's choice.           *)
Authorised(seen) == IF seen = NoRecord THEN 0 ELSE seen.receipt.after

Minted(c) ==
    {q \in [key : Key, op : {Wants[call[c].sub]}, run : Run, lease : Lease,
            version : {Authorised(call[c].seen)}] :
        q.op = "cancel" => /\ q.run = call[c].seen.receipt.request.run
                           /\ q.lease = call[c].seen.receipt.request.lease}

Execute(c) ==
    /\ At(c, "cleared")
    /\ \E q \in Minted(c) : Invoke(q)
    /\ Goes(c, "executing")
    /\ UNCHANGED <<record, made, effected>>

(* Wrong: a receipt that says execution_unknown would be retained as well. *)
ReplayAny(c) ==
    /\ LockFree
    /\ At(c, "cleared")
    /\ \E q \in Minted(c) :
          /\ Replays(q)
          /\ call' = [call EXCEPT ![c].step = "executed",
                                  ![c].receipt = effects.index[q.key]]
    /\ UNCHANGED <<kernelVars, record, made, effected>>

(* The request was executed before: the kernel returns its receipt.        *)
Replay(c) ==
    /\ LockFree
    /\ At(c, "cleared")
    /\ \E q \in Minted(c) :
          /\ Replays(q)
          /\ effects.index[q.key].observed
          /\ call' = [call EXCEPT ![c].step = "executed",
                                  ![c].receipt = effects.index[q.key]]
    /\ UNCHANGED <<kernelVars, record, made, effected>>

(* The effect is observed and recorded; the operator's record follows.     *)
Observe(c) ==
    /\ At(c, "executing")
    /\ call' = [call EXCEPT ![c] =
                   IF @.sub = Direct THEN NoCall
                   ELSE [@ EXCEPT !.step = "executed", !.receipt = ReceiptOf(working, TRUE)]]
    /\ Settle(TRUE)
    /\ effected' = effected \cup ({call[c].sub} \ {Direct})
    /\ UNCHANGED <<record, made>>

(* It is recorded as unknown, and the submission ends with an error.       *)
LoseSight(c) ==
    /\ At(c, "executing")
    /\ Ends(c)
    /\ Settle(FALSE)
    /\ effected' = effected \cup ({call[c].sub} \ {Direct})
    /\ UNCHANGED <<record, made>>

(* Wrong: a write that failed would go unnoticed.                          *)
CutUnnoticed(c) ==
    /\ At(c, "executing")
    /\ call' = [call EXCEPT ![c] =
                   IF @.sub = Direct THEN NoCall
                   ELSE [@ EXCEPT !.step = "executed", !.receipt = ReceiptOf(working, TRUE)]]
    /\ Cut
    /\ UNCHANGED <<record, made, effected>>

CutShort(c) ==
    /\ At(c, "executing")
    /\ Ends(c)
    /\ Cut
    /\ UNCHANGED <<record, made, effected>>

(* The record is replaced by the new artifacts, provided the reservation   *)
(* still stands; there is none to compare after the first Run.             *)
Retained(seen, s, receipt) ==
    [receipt |-> receipt, pending |-> NoSubmission,
     replays |-> (IF seen = NoRecord THEN {} ELSE seen.replays) \cup {s},
     used |-> IF seen = NoRecord THEN 1 ELSE seen.used + 1]

(* Wrong: the reservation would not be looked for again.                   *)
RetainUnchecked(c) ==
    /\ LockFree
    /\ At(c, "executed")
    /\ record' = Retained(call[c].seen, call[c].sub, call[c].receipt)
    /\ Ends(c)
    /\ UNCHANGED <<kernelVars, made, effected>>

Retain(c) ==
    /\ LockFree
    /\ At(c, "executed")
    /\ call[c].seen # NoRecord => record = Reservation(call[c].seen, call[c].sub)
    /\ record' = Retained(call[c].seen, call[c].sub, call[c].receipt)
    /\ Ends(c)
    /\ UNCHANGED <<kernelVars, made, effected>>

(* A submission is refused, fails or is killed between its locked steps.   *)
Stop(c) ==
    /\ call[c] # NoCall
    /\ call[c].step # "executing"
    /\ Ends(c)
    /\ UNCHANGED <<kernelVars, record, made, effected>>

(* Another caller of the kernel, with a request of its own.                *)
ExecuteDirectly(c) ==
    /\ call[c] = NoCall
    /\ \E q \in [key : Key, op : {"run", "cancel"}, run : Run, lease : Lease,
                 version : {effects.version}] : Invoke(q)
    /\ call' = [call EXCEPT ![c] = [step |-> "executing", sub |-> Direct,
                                    seen |-> NoRecord, receipt |-> NoReceipt]]
    /\ UNCHANGED <<record, made, effected>>

HostPerforms == (\E k \in Key : Perform(k)) /\ UNCHANGED operatorVars

CallStep(c) ==
    \/ \E s \in Submission : Submit(c, s)
    \/ Check(c)
    \/ Reserve(c)
    \/ Execute(c)
    \/ Replay(c)
    \/ Observe(c)
    \/ LoseSight(c)
    \/ CutShort(c)
    \/ Retain(c)
    \/ Stop(c)
    \/ ExecuteDirectly(c)

Next == HostPerforms \/ \E c \in Call : CallStep(c)

Spec == Init /\ [][Next]_vars

(***************************************************************************)
(* Properties                                                              *)
(***************************************************************************)
(* What the operator is shown trails the effect state and never runs ahead *)
(* of it: the record holds a receipt the kernel wrote, a run it calls      *)
(* cancelled is cancelled, and one it calls running did start.             *)
RecordTrailsState ==
    record # NoRecord =>
        LET receipt == record.receipt
            row == effects.runs[receipt.request.run]
        IN  /\ effects.index[receipt.request.key] = receipt
            /\ receipt.after <= effects.version
            /\ row # Absent
            /\ PostState(receipt) = "cancelled" => row.life = "cancelled"

(* A Run that was checked before there was a record is retained whatever   *)
(* the record has become meanwhile: it has no reservation to compare.      *)
RetainsFirstRun(c) ==
    /\ At(c, "executed") /\ call[c].seen = NoRecord
    /\ record' = Retained(NoRecord, call[c].sub, call[c].receipt)

(* The record never goes back: what replaces it lists every submission     *)
(* that was listed as completed, so that each of them is still answered    *)
(* from it, and rests on a receipt that is no older.  A submission works   *)
(* from the record it read before it gave the lock up four times, and only *)
(* its reservation tells whether another has replaced that record.  The    *)
(* retention of a first Run is the one exception.                          *)
RecordMovesOn ==
    [][record # NoRecord =>
          \/ /\ record' # NoRecord
             /\ record.replays \subseteq record'.replays
             /\ record.receipt.after <= record'.receipt.after
          \/ \E c \in Call : RetainsFirstRun(c)]_record

(* The record never retains an execution_unknown receipt, because every    *)
(* submission that meets one ends with an error first.  Recover is offered *)
(* for such a record alone, so the operator never gets to recover a run.   *)
UnknownNeverRetained == record # NoRecord => record.receipt.observed

(* Once an execution on behalf of a submission left a receipt, no later or *)
(* concurrent delivery of that submission asks the host for anything.      *)
EachSubmissionActsOnce ==
    \A c \in Call : At(c, "executing") => call[c].sub \notin effected
===============================================================================
