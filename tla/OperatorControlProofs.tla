------------------------- MODULE OperatorControlProofs -------------------------
(***************************************************************************)
(* Proofs about the effect kernel and the operator's submissions, for any  *)
(* keys, runs, leases, calls and submissions.                              *)
(*                                                                         *)
(* The kernel's own invariant (KernelInv) is proved over its five moves,   *)
(* whoever makes them.  The invariant of the submissions (CallInv,         *)
(* RecordInv, EffectInv) ties what a call holds to what the kernel wrote:  *)
(* the executing call is the one that holds the lock, the version a call   *)
(* was authorised for is the one its submission was made from, and a       *)
(* submission that left a receipt was made from an older state.            *)
(***************************************************************************)
EXTENDS OperatorControl, TLAPS

KernelMove ==
    \/ UNCHANGED kernelVars
    \/ \E q \in Request : Invoke(q)
    \/ \E k \in Key : Perform(k)
    \/ Settle(TRUE)
    \/ Settle(FALSE)
    \/ Cut

(* A receipt is filed under its own key, takes the version after the one   *)
(* it was asked for, and its run exists: cancelled if it says so.          *)
Filed(k) ==
    LET receipt == effects.index[k]
    IN  receipt # NoReceipt =>
            /\ receipt.request.key = k
            /\ receipt.after \in 1 .. effects.version
            /\ receipt.request.version + 1 = receipt.after
            /\ effects.runs[receipt.request.run] # Absent
            /\ receipt.observed /\ receipt.request.op = "cancel" =>
                   effects.runs[receipt.request.run].life = "cancelled"

Apart ==
    \A j, k \in Key :
        effects.index[j] # NoReceipt /\ effects.index[k] # NoReceipt
            /\ effects.index[j].after = effects.index[k].after => j = k

KernelInv ==
    /\ EffectsAccounted
    /\ \A k \in Key : Filed(k)
    /\ Apart
    /\ working # NoRequest => Admits(working)

(* What the kernel may do to its records: receipts are only added, and at  *)
(* a version above all earlier ones.                                       *)
Grows ==
    /\ \A k \in Key : effects.index[k] # NoReceipt => effects'.index[k] = effects.index[k]
    /\ effects'.version >= effects.version

(* What settling the request under the lock writes.                        *)
Writes(observed) ==
    /\ working \in Request
    /\ ReceiptOf(working, observed) \in Receipt
    /\ PostState(ReceiptOf(working, observed)) \in Life
    /\ observed /\ working.op = "cancel" =>
           PostState(ReceiptOf(working, observed)) = "cancelled"
    /\ effects'.version = effects.version + 1
    /\ effects'.index = [effects.index EXCEPT ![working.key] = ReceiptOf(working, observed)]
    /\ effects'.runs = [effects.runs EXCEPT ![working.run] =
           [life |-> PostState(ReceiptOf(working, observed)),
            origin |-> IF working.op = "run" THEN working
                       ELSE effects.runs[working.run].origin]]

LEMMA SettleWrites ==
    ASSUME KernelTypeOK, NEW observed \in BOOLEAN, Settle(observed)
    PROVE  Writes(observed)
<1>1. working \in Request
  BY DEF Settle, LockFree, KernelTypeOK
<1>2. ReceiptOf(working, observed) \in Receipt
  BY <1>1 DEF ReceiptOf, Receipt, KernelTypeOK
<1>3. /\ PostState(ReceiptOf(working, observed)) \in Life
      /\ observed /\ working.op = "cancel" =>
             PostState(ReceiptOf(working, observed)) = "cancelled"
  BY <1>1 DEF ReceiptOf, PostState, Life, Request
<1>4. effects' = Recorded(working, observed)
  BY DEF Settle
<1>5. QED
  BY <1>1, <1>2, <1>3, <1>4 DEF Recorded, ReceiptOf, Writes

(* The kernel's state stays well typed under each of its moves.            *)
LEMMA KernelTyped ==
    ASSUME KernelTypeOK, KernelInv, KernelMove
    PROVE  KernelTypeOK'
<1>1. CASE UNCHANGED kernelVars
  BY <1>1 DEF KernelTypeOK, kernelVars
<1>2. CASE \E q \in Request : Invoke(q)
  BY <1>2 DEF KernelTypeOK, Invoke, Request
<1>3. CASE \E k \in Key : Perform(k)
  BY <1>3 DEF KernelTypeOK, Perform
<1>4. ASSUME NEW observed \in BOOLEAN, Settle(observed)
      PROVE  KernelTypeOK'
  <2> Writes(observed)
    BY <1>4, SettleWrites
  <2>0. Admits(working)
    BY <1>4 DEF KernelInv, Settle, LockFree
  <2>1. working.op = "cancel" => effects.runs[working.run] \in RunRow
    BY <2>0 DEF Admits, Cancellable, KernelTypeOK, Request, Writes
  <2>2. [life |-> PostState(ReceiptOf(working, observed)),
         origin |-> IF working.op = "run" THEN working ELSE effects.runs[working.run].origin]
            \in RunRow
    BY <2>1 DEF RunRow, Request, Writes
  <2>3. effects'.runs \in [Run -> RunRow \cup {Absent}]
    BY <2>2 DEF KernelTypeOK, Writes
  <2>4. effects'.index \in [Key -> Receipt \cup {NoReceipt}]
    BY DEF KernelTypeOK, Writes
  <2>5. effects'.version \in Nat
    BY DEF KernelTypeOK, Writes
  <2>6. effects' \in [version : Nat, runs : [Run -> RunRow \cup {Absent}],
                      index : [Key -> Receipt \cup {NoReceipt}]]
    BY <1>4, <2>3, <2>4, <2>5 DEF Settle, Recorded
  <2>7. QED
    BY <1>4, <2>6 DEF KernelTypeOK, Settle
<1>5. CASE Cut
  BY <1>5 DEF KernelTypeOK, Cut, LockFree, Request
<1>6. QED
  BY <1>1, <1>2, <1>3, <1>4, <1>5 DEF KernelMove

(* Every invocation of the host stays accounted for.                       *)
LEMMA AccountsKept ==
    ASSUME KernelTypeOK, KernelInv, KernelMove
    PROVE  EffectsAccounted'
<1> USE DEF EffectsAccounted, Holding, Written, LockFree
<1>1. CASE UNCHANGED kernelVars
  BY <1>1 DEF KernelInv, kernelVars
<1>2. ASSUME NEW q \in Request, Invoke(q)
      PROVE  EffectsAccounted'
  <2>1. q # NoRequest /\ q.key \in Key
    BY KernelAssumption DEF Request
  <2>2. QED
    BY <1>2, <2>1 DEF KernelInv, KernelTypeOK, Invoke
<1>3. CASE \E k \in Key : Perform(k)
  BY <1>3 DEF KernelInv, KernelTypeOK, Perform
<1>4. ASSUME NEW observed \in BOOLEAN, Settle(observed)
      PROVE  EffectsAccounted'
  <2> Writes(observed)
    BY <1>4, SettleWrites
  <2>1. effects.index[working.key] = NoReceipt
    BY <1>4 DEF KernelInv, Admits, Settle
  <2>2. ReceiptOf(working, observed) # NoReceipt
    BY KernelAssumption DEF Writes
  <2>3. working.key \in Key
    BY DEF Request, Writes
  <2>4. /\ effects'.index[working.key] # NoReceipt
        /\ \A k \in Key \ {working.key} : effects'.index[k] = effects.index[k]
    BY <2>2, <2>3 DEF KernelTypeOK, Writes
  <2>5. QED
    BY <1>4, <2>1, <2>3, <2>4 DEF KernelInv, KernelTypeOK, Settle
<1>5. CASE Cut
  <2>1. working.key \in Key
    BY <1>5 DEF Cut, KernelTypeOK, Request
  <2>2. QED
    BY <1>5, <2>1 DEF KernelInv, KernelTypeOK, Cut
<1>6. QED
  BY <1>1, <1>2, <1>3, <1>4, <1>5 DEF KernelMove

(* Receipts are only added, at versions of their own, and no run that has  *)
(* ended changes again.                                                    *)
LEMMA HistoryGrows ==
    ASSUME KernelTypeOK, KernelInv, KernelMove
    PROVE  /\ Grows
           /\ \A k \in Key : Filed(k)'
           /\ Apart'
           /\ \A r \in Run :
                 effects.runs[r] # Absent =>
                     /\ effects'.runs[r] # Absent
                     /\ effects'.runs[r].origin = effects.runs[r].origin
                     /\ effects.runs[r].life # "running" =>
                            effects'.runs[r].life = effects.runs[r].life
<1>1. CASE effects' = effects
  BY <1>1 DEF Grows, KernelInv, Filed, Apart, KernelTypeOK
<1>2. ASSUME NEW observed \in BOOLEAN, Settle(observed)
      PROVE  /\ Grows
             /\ \A k \in Key : Filed(k)'
             /\ Apart'
             /\ \A r \in Run :
                   effects.runs[r] # Absent =>
                       /\ effects'.runs[r] # Absent
                       /\ effects'.runs[r].origin = effects.runs[r].origin
                       /\ effects.runs[r].life # "running" =>
                              effects'.runs[r].life = effects.runs[r].life
  <2> DEFINE new == ReceiptOf(working, observed)
  <2> Writes(observed)
    BY <1>2, SettleWrites
  <2>1. /\ working \in Request
        /\ working.key \in Key
        /\ working.run \in Run
        /\ working.op \in {"run", "cancel"}
        /\ effects.version \in Nat
        /\ Admits(working)
    BY <1>2 DEF Request, KernelTypeOK, KernelInv, Settle, LockFree, Writes
  <2>2. /\ effects'.version = effects.version + 1
        /\ effects'.index[working.key] = new
        /\ \A k \in Key \ {working.key} : effects'.index[k] = effects.index[k]
        /\ effects.index[working.key] = NoReceipt
    BY <2>1 DEF KernelTypeOK, Admits, Writes
  <2>3. /\ effects'.runs[working.run].life = PostState(new)
        /\ effects'.runs[working.run].origin =
               IF working.op = "run" THEN working ELSE effects.runs[working.run].origin
        /\ effects'.runs[working.run] # Absent
        /\ \A r \in Run \ {working.run} : effects'.runs[r] = effects.runs[r]
    <3>1. effects'.runs[working.run] =
             [life |-> PostState(new), origin |-> IF working.op = "run" THEN working
                                                  ELSE effects.runs[working.run].origin]
      BY <2>1 DEF KernelTypeOK, Writes
    <3>2. \A r \in Run \ {working.run} : effects'.runs[r] = effects.runs[r]
      BY <2>1 DEF KernelTypeOK, Writes
    <3>3. working.op = "cancel" => effects.runs[working.run] \in RunRow
      BY <2>1 DEF Admits, Cancellable, KernelTypeOK
    <3>4. effects'.runs[working.run] \in RunRow
      BY <2>1, <3>1, <3>3 DEF RunRow, Writes
    <3>5. QED
      BY <3>1, <3>2, <3>4, KernelAssumption
  <2>4. /\ new.request = working
        /\ new.observed = observed
        /\ new.after = effects.version + 1
        /\ working.version = effects.version
    BY <2>1 DEF ReceiptOf, Admits
  <2>5. \A k \in Key : effects.index[k] # NoReceipt =>
             /\ effects.index[k].after \in 1 .. effects.version
             /\ effects.index[k].request.run \in Run
             /\ k # working.key
    BY <2>2 DEF KernelInv, Filed, KernelTypeOK, Receipt, Request
  <2>6. Grows
    BY <2>1, <2>2, <2>5 DEF Grows
  <2>7. \A r \in Run :
            effects.runs[r] # Absent =>
                /\ effects'.runs[r] # Absent
                /\ effects'.runs[r].origin = effects.runs[r].origin
                /\ effects.runs[r].life # "running" =>
                       effects'.runs[r].life = effects.runs[r].life
    BY <2>1, <2>3 DEF Admits, Startable, Cancellable
  <2>8. \A k \in Key \ {working.key} : Filed(k)'
    <3> SUFFICES ASSUME NEW k \in Key \ {working.key}, effects.index[k] # NoReceipt
                 PROVE  Filed(k)'
      BY <2>2 DEF Filed
    <3>1. Filed(k)
      BY DEF KernelInv
    <3>2. effects'.index[k] = effects.index[k]
      BY <2>2
    <3>3. effects.index[k].after \in 1 .. effects'.version
      BY <2>1, <2>2, <2>5
    <3>4. effects.runs[effects.index[k].request.run] # Absent
      BY <3>1 DEF Filed
    <3>5. effects'.runs[effects.index[k].request.run] # Absent
      BY <2>5, <2>7, <3>4
    <3>6. effects.index[k].observed /\ effects.index[k].request.op = "cancel" =>
              effects'.runs[effects.index[k].request.run].life = "cancelled"
      BY <2>5, <2>7, <3>1, <3>4 DEF Filed
    <3>7. QED
      BY <3>1, <3>2, <3>3, <3>5, <3>6 DEF Filed
  <2>9. \A k \in Key : k = working.key => Filed(k)'
    <3>1. new.observed /\ new.request.op = "cancel" =>
              effects'.runs[new.request.run].life = "cancelled"
      BY <2>3, <2>4 DEF Writes
    <3>2. new.after \in 1 .. effects'.version /\ new.request.version + 1 = new.after
      BY <2>1, <2>2, <2>4
    <3>3. effects'.runs[new.request.run] # Absent /\ new.request.key = working.key
      BY <2>3, <2>4
    <3> HIDE DEF new
    <3>4. QED
      BY <2>2, <3>1, <3>2, <3>3 DEF Filed
  <2>10. Apart'
    <3> HIDE DEF new
    <3>1. \A k \in Key \ {working.key} :
              effects'.index[k] # NoReceipt => effects'.index[k].after # new.after
      BY <2>1, <2>2, <2>4, <2>5
    <3>2. QED
      BY <2>2, <3>1 DEF Apart, KernelInv
  <2>11. \A k \in Key : Filed(k)'
    BY <2>8, <2>9
  <2>12. QED
    BY <2>6, <2>7, <2>10, <2>11
<1>3. effects' = effects \/ Settle(TRUE) \/ Settle(FALSE)
  BY DEF KernelMove, kernelVars, Invoke, Perform, Cut
<1>4. QED
  BY <1>1, <1>2, <1>3

(* The request under the lock stays admissible until it is settled.        *)
LEMMA HeldStaysAdmitted ==
    ASSUME KernelTypeOK, KernelInv, KernelMove, working' # NoRequest
    PROVE  Admits(working)'
<1>1. effects' = effects /\ (working' = working \/ \E q \in Request : working' = q /\ Admits(q))
  BY DEF KernelMove, kernelVars, Invoke, Perform, Settle, Cut
<1>2. Admits(working')
  BY <1>1 DEF KernelInv
<1>3. QED
  BY <1>1, <1>2 DEF Admits, Startable, Cancellable

(* The kernel's invariant holds whoever moves the kernel.                  *)
LEMMA KernelKept ==
    ASSUME KernelTypeOK, KernelInv, KernelMove
    PROVE  KernelTypeOK' /\ KernelInv'
BY KernelTyped, AccountsKept, HistoryGrows, HeldStaysAdmitted DEF KernelInv

-------------------------------------------------------------------------------
(***************************************************************************)
(* The submissions                                                         *)
(***************************************************************************)
OnRecord(receipt) ==
    /\ receipt \in Receipt
    /\ receipt.observed
    /\ effects.index[receipt.request.key] = receipt

LockInv ==
    /\ \A c \in Call : At(c, "executing") => ~LockFree
    /\ \A c, d \in Call : At(c, "executing") /\ At(d, "executing") => c = d

(* What a call holds: a direct one only executes; another works for a      *)
(* submission that was made, since its check with the authority of the     *)
(* very state the operator saw, and ends with a receipt on record that was *)
(* asked for with that authority.                                          *)
Sound(c) ==
    LET row == call[c]
    IN  /\ row.sub = Direct => row.step = "executing"
        /\ row.sub # Direct => made[row.sub] # NoView
        /\ row.sub # Direct /\ row.step # "read" =>
               Authorised(row.seen) = made[row.sub].version
        /\ row.sub # Direct /\ row.step = "executing" =>
               working.version = Authorised(row.seen)
        /\ row.step = "reserving" => row.seen # NoRecord
        /\ row.step = "executed" =>
               /\ OnRecord(row.receipt)
               /\ row.receipt.request.version = Authorised(row.seen)

CallInv == \A c \in Call : call[c] # NoCall => Sound(c)

RecordInv == record # NoRecord => OnRecord(record.receipt)

EffectInv ==
    \A s \in effected : made[s] # NoView /\ made[s].version < effects.version

IInv == ControlTypeOK /\ KernelInv /\ LockInv /\ CallInv /\ RecordInv /\ EffectInv

LEMMA AuthorisedNat ==
    ASSUME NEW seen \in Record \cup {NoRecord}
    PROVE  Authorised(seen) \in Nat
BY DEF Authorised, Record, Receipt

LEMMA CallTyped ==
    ASSUME ControlTypeOK, NEW c \in Call, call[c] # NoCall
    PROVE  /\ call[c] \in CallRow
           /\ call[c].sub # Direct => call[c].sub \in Submission
BY DEF ControlTypeOK, CallRow

(* The requests the host mints for a submission.                           *)
LEMMA MintedAre ==
    ASSUME ControlTypeOK, NEW c \in Call, call[c] # NoCall, call[c].sub # Direct,
           NEW q \in Minted(c)
    PROVE  q \in Request /\ q.version = Authorised(call[c].seen)
<1>1. call[c].seen \in Record \cup {NoRecord} /\ call[c].sub \in Submission
  BY CallTyped DEF CallRow
<1>2. Authorised(call[c].seen) \in Nat
  BY <1>1, AuthorisedNat
<1>3. Wants[call[c].sub] \in {"run", "cancel"}
  BY <1>1, ControlAssumption
<1>4. QED
  BY <1>2, <1>3 DEF Minted, Request

LEMMA NotDirect ==
    ASSUME IInv, NEW c \in Call, NEW step \in Step, At(c, step), step # "executing"
    PROVE  call[c] # NoCall /\ call[c].sub # Direct
BY DEF IInv, CallInv, Sound, At

(* Whatever a step does, to the kernel it is one of its moves.             *)
LEMMA StepMovesKernel ==
    ASSUME IInv, [Next]_vars
    PROVE  KernelMove
<1>1. CASE UNCHANGED vars
  BY <1>1 DEF vars, KernelMove
<1>2. CASE HostPerforms
  BY <1>2 DEF HostPerforms, KernelMove
<1>3. ASSUME NEW c \in Call, CallStep(c)
      PROVE  KernelMove
  <2>1. ASSUME Execute(c)
        PROVE  KernelMove
    <3>1. call[c] # NoCall /\ call[c].sub # Direct
      BY <2>1, NotDirect DEF Execute, Step
    <3>2. \A q \in Minted(c) : q \in Request
      BY <3>1, MintedAre DEF IInv
    <3>3. QED
      BY <2>1, <3>2 DEF Execute, KernelMove
  <2>2. ASSUME ExecuteDirectly(c)
        PROVE  KernelMove
    <3>1. effects.version \in Nat
      BY DEF IInv, ControlTypeOK, KernelTypeOK
    <3>2. PICK q \in [key : Key, op : {"run", "cancel"}, run : Run, lease : Lease,
                      version : {effects.version}] : Invoke(q)
      BY <2>2 DEF ExecuteDirectly
    <3>3. q \in Request
      BY <3>1 DEF Request
    <3>4. QED
      BY <3>2, <3>3 DEF KernelMove
  <2>3. CASE Observe(c) \/ LoseSight(c) \/ CutShort(c)
    BY <2>3 DEF Observe, LoseSight, CutShort, KernelMove
  <2>4. CASE (\E s \in Submission : Submit(c, s)) \/ Check(c) \/ Reserve(c)
                 \/ Replay(c) \/ Retain(c) \/ Stop(c)
    BY <2>4 DEF Submit, Check, Reserve, Replay, Retain, Stop, KernelMove
  <2>5. QED
    BY <1>3, <2>1, <2>2, <2>3, <2>4 DEF CallStep
<1>4. QED
  BY <1>1, <1>2, <1>3 DEF Next

(* A receipt on record stays there.                                        *)
LEMMA RecordsStay ==
    ASSUME KernelTypeOK, KernelInv, KernelMove, NEW receipt, OnRecord(receipt)
    PROVE  OnRecord(receipt)'
<1>1. Grows
  BY HistoryGrows
<1>2. receipt.request.key \in Key /\ receipt # NoReceipt
  BY KernelAssumption DEF OnRecord, Receipt, Request
<1>3. QED
  BY <1>1, <1>2 DEF Grows, OnRecord

(***************************************************************************)
(* Types                                                                   *)
(***************************************************************************)
LEMMA Typed ==
    ASSUME IInv, [Next]_vars
    PROVE  ControlTypeOK'
<1> KernelTypeOK'
  BY StepMovesKernel, KernelKept DEF IInv, ControlTypeOK
<1> ControlTypeOK /\ KernelTypeOK
  BY DEF IInv, ControlTypeOK
<1>1. CASE UNCHANGED vars
  BY <1>1 DEF vars, operatorVars, ControlTypeOK
<1>2. CASE HostPerforms
  BY <1>2 DEF HostPerforms, operatorVars, ControlTypeOK
<1>3. ASSUME NEW c \in Call, CallStep(c)
      PROVE  ControlTypeOK'
  <2>1. ASSUME NEW s \in Submission, Submit(c, s)
        PROVE  ControlTypeOK'
    <3>1. Seen \in View
      BY DEF Seen, View, ControlTypeOK, KernelTypeOK
    <3>2. made' \in [Submission -> View \cup {NoView}]
      BY <2>1, <3>1 DEF Submit, ControlTypeOK
    <3>3. [step |-> "read", sub |-> s, seen |-> record, receipt |-> NoReceipt] \in CallRow
      BY DEF CallRow, Step, ControlTypeOK
    <3>4. call' \in [Call -> CallRow \cup {NoCall}]
      BY <2>1, <3>3 DEF Submit, ControlTypeOK
    <3>5. QED
      BY <2>1, <3>2, <3>4 DEF Submit, ControlTypeOK
  <2>2. ASSUME NEW step \in Step, call[c] # NoCall, Goes(c, step)
        PROVE  call' \in [Call -> CallRow \cup {NoCall}]
    BY <2>2 DEF Goes, ControlTypeOK, CallRow
  <2>3. ASSUME Ends(c)
        PROVE  call' \in [Call -> CallRow \cup {NoCall}]
    BY <2>3 DEF Ends, ControlTypeOK
  <2>4. ASSUME Check(c)
        PROVE  ControlTypeOK'
    <3>1. call' \in [Call -> CallRow \cup {NoCall}]
      BY <2>2, <2>4 DEF Check, At, Step
    <3>2. QED
      BY <2>4, <3>1 DEF Check, ControlTypeOK
  <2>5. ASSUME Reserve(c)
        PROVE  ControlTypeOK'
    <3>1. call' \in [Call -> CallRow \cup {NoCall}]
      BY <2>2, <2>5 DEF Reserve, At, Step
    <3>2. call[c] # NoCall /\ call[c].sub # Direct
      BY <2>5, NotDirect DEF Reserve, Step
    <3>3. call[c].sub \in Submission /\ call[c].seen \in Record \cup {NoRecord}
      BY <3>2, CallTyped DEF CallRow
    <3>4. Authorised(call[c].seen) \in Nat
      BY <3>3, AuthorisedNat
    <3>5. call[c].seen # NoRecord
      BY <2>5 DEF Reserve, At, IInv, CallInv, Sound
    <3>6. Reservation(record, call[c].sub) \in Record
      <4>1. record \in Record
        BY <2>5, <3>3, <3>5 DEF Reserve
      <4>2. record.used + 1 \in Nat
        BY <4>1 DEF Record
      <4>3. QED
        BY <3>3, <4>1, <4>2 DEF Reservation, Record
    <3>7. QED
      BY <2>5, <3>1, <3>6 DEF Reserve, ControlTypeOK
  <2>6. ASSUME Execute(c)
        PROVE  ControlTypeOK'
    <3>1. call' \in [Call -> CallRow \cup {NoCall}]
      BY <2>2, <2>6 DEF Execute, At, Step
    <3>2. QED
      BY <2>6, <3>1 DEF Execute, ControlTypeOK
  <2>7. ASSUME Replay(c)
        PROVE  ControlTypeOK'
    <3>1. PICK q \in Minted(c) :
              /\ Replays(q)
              /\ call' = [call EXCEPT ![c].step = "executed",
                                      ![c].receipt = effects.index[q.key]]
      BY <2>7 DEF Replay
    <3>2. effects.index[q.key] \in Receipt \cup {NoReceipt}
      BY <3>1 DEF KernelTypeOK, Minted
    <3>3. call' \in [Call -> CallRow \cup {NoCall}]
      <4>1. call[c] \in CallRow
        BY <2>7 DEF Replay, At, ControlTypeOK
      <4>2. [call[c] EXCEPT !.step = "executed", !.receipt = effects.index[q.key]] \in CallRow
        BY <3>2, <4>1 DEF CallRow, Step
      <4>3. call' = [call EXCEPT ![c] =
                [call[c] EXCEPT !.step = "executed", !.receipt = effects.index[q.key]]]
        BY <3>1 DEF ControlTypeOK
      <4>4. QED
        BY <4>2, <4>3 DEF ControlTypeOK
    <3>4. QED
      BY <2>7, <3>3 DEF Replay, ControlTypeOK
  <2>8. ASSUME Observe(c)
        PROVE  ControlTypeOK'
    <3>1. ReceiptOf(working, TRUE) \in Receipt
      BY <2>8, SettleWrites DEF Observe, Writes
    <3>2. call' \in [Call -> CallRow \cup {NoCall}]
      BY <2>8, <3>1 DEF Observe, At, ControlTypeOK, CallRow, Step
    <3>3. effected' \subseteq Submission
      BY <2>8, CallTyped DEF Observe, At, ControlTypeOK
    <3>4. QED
      BY <2>8, <3>2, <3>3 DEF Observe, ControlTypeOK
  <2>9. ASSUME LoseSight(c)
        PROVE  ControlTypeOK'
    <3>1. effected' \subseteq Submission
      BY <2>9, CallTyped DEF LoseSight, At, ControlTypeOK
    <3>2. QED
      BY <2>3, <2>9, <3>1 DEF LoseSight, ControlTypeOK
  <2>10. ASSUME CutShort(c)
         PROVE  ControlTypeOK'
    BY <2>3, <2>10 DEF CutShort, ControlTypeOK
  <2>11. ASSUME Retain(c)
         PROVE  ControlTypeOK'
    <3>1. call[c] # NoCall /\ call[c].sub # Direct
      BY <2>11, NotDirect DEF Retain, Step
    <3>2. call[c].sub \in Submission /\ call[c].seen \in Record \cup {NoRecord}
      BY <3>1, CallTyped DEF CallRow
    <3>3. call[c].receipt \in Receipt
      BY <2>11 DEF Retain, At, IInv, CallInv, Sound, OnRecord
    <3>4. Retained(call[c].seen, call[c].sub, call[c].receipt) \in Record
      BY <3>2, <3>3 DEF Retained, Record
    <3>5. QED
      BY <2>3, <2>11, <3>4 DEF Retain, ControlTypeOK
  <2>12. ASSUME Stop(c)
         PROVE  ControlTypeOK'
    BY <2>3, <2>12 DEF Stop, ControlTypeOK
  <2>13. ASSUME ExecuteDirectly(c)
         PROVE  ControlTypeOK'
    <3>1. [step |-> "executing", sub |-> Direct, seen |-> NoRecord, receipt |-> NoReceipt]
              \in CallRow
      BY DEF CallRow, Step
    <3>2. QED
      BY <2>13, <3>1 DEF ExecuteDirectly, ControlTypeOK
  <2>14. QED
    BY <1>3, <2>1, <2>4, <2>5, <2>6, <2>7, <2>8, <2>9, <2>10, <2>11, <2>12, <2>13 DEF CallStep
<1>4. QED
  BY <1>1, <1>2, <1>3 DEF Next

(***************************************************************************)
(* The call that executes is the one that holds the lock.                  *)
(***************************************************************************)
LEMMA LockKept ==
    ASSUME IInv, [Next]_vars
    PROVE  LockInv'
<1> LockInv /\ ControlTypeOK
  BY DEF IInv
<1>1. CASE UNCHANGED <<call, working>>
  BY <1>1 DEF LockInv, At, LockFree
<1>2. ASSUME NEW c \in Call, working' = working, ~At(c, "executing")',
             \A d \in Call \ {c} : call'[d] = call[d]
      PROVE  LockInv'
  BY <1>2 DEF LockInv, At, LockFree
<1>3. ASSUME NEW c \in Call, At(c, "executing"), ~At(c, "executing")',
             \A d \in Call \ {c} : call'[d] = call[d]
      PROVE  LockInv'
  <2>1. \A d \in Call : ~At(d, "executing")'
    BY <1>3 DEF LockInv, At
  <2>2. QED
    BY <2>1 DEF LockInv
<1>4. ASSUME NEW c \in Call, LockFree, ~LockFree', \A d \in Call \ {c} : call'[d] = call[d]
      PROVE  LockInv'
  <2>1. \A d \in Call \ {c} : ~At(d, "executing")'
    BY <1>4 DEF LockInv, At
  <2>2. QED
    BY <1>4, <2>1 DEF LockInv
<1>5. CASE HostPerforms
  BY <1>1, <1>5 DEF HostPerforms, operatorVars, Perform
<1>6. ASSUME NEW c \in Call, CallStep(c)
      PROVE  LockInv'
  <2> \A d \in Call : call[d] # NoCall => call[d] \in CallRow
    BY DEF ControlTypeOK
  <2>1. ASSUME NEW s \in Submission, Submit(c, s)
        PROVE  LockInv'
    <3>1. call'[c].step # "executing" /\ \A d \in Call \ {c} : call'[d] = call[d]
      BY <2>1 DEF Submit, ControlTypeOK
    <3>2. QED
      BY <1>2, <2>1, <3>1 DEF Submit, At, kernelVars
  <2>2. CASE Check(c) \/ Reserve(c) \/ Replay(c)
    <3>1. call'[c].step # "executing" /\ \A d \in Call \ {c} : call'[d] = call[d]
      BY <2>2 DEF Check, Reserve, Replay, Goes, At, ControlTypeOK, CallRow
    <3>2. QED
      BY <1>2, <2>2, <3>1 DEF Check, Reserve, Replay, At, kernelVars
  <2>3. CASE Retain(c) \/ Stop(c)
    <3>1. working' = working
      BY <2>3 DEF Retain, Stop, kernelVars
    <3>2. ~At(c, "executing")' /\ \A d \in Call \ {c} : call'[d] = call[d]
      BY <2>3 DEF Retain, Stop, Ends, At, ControlTypeOK
    <3>3. QED
      BY <1>2, <3>1, <3>2
  <2>4. CASE Observe(c) \/ LoseSight(c) \/ CutShort(c)
    <3>1. At(c, "executing")
      BY <2>4 DEF Observe, LoseSight, CutShort
    <3>2. ~At(c, "executing")' /\ \A d \in Call \ {c} : call'[d] = call[d]
      BY <2>4 DEF Observe, LoseSight, CutShort, Ends, At, ControlTypeOK, CallRow
    <3>3. QED
      BY <1>3, <3>1, <3>2
  <2>5. CASE Execute(c)
    <3>1. \A d \in Call \ {c} : call'[d] = call[d]
      BY <2>5 DEF Execute, Goes, ControlTypeOK
    <3>2. call[c] # NoCall /\ call[c].sub # Direct
      BY <2>5, NotDirect DEF Execute, Step
    <3>3. \A q \in Minted(c) : q \in Request
      BY <3>2, MintedAre
    <3>4. LockFree /\ ~LockFree'
      BY <2>5, <3>3, KernelAssumption DEF Execute, Invoke, LockFree
    <3>5. QED
      BY <1>4, <3>1, <3>4
  <2>6. CASE ExecuteDirectly(c)
    <3>1. \A d \in Call \ {c} : call'[d] = call[d]
      BY <2>6 DEF ExecuteDirectly, ControlTypeOK
    <3>2. PICK q \in [key : Key, op : {"run", "cancel"}, run : Run, lease : Lease,
                      version : {effects.version}] : Invoke(q)
      BY <2>6 DEF ExecuteDirectly
    <3>3. q \in Request
      BY DEF Request, ControlTypeOK, KernelTypeOK
    <3>4. LockFree /\ ~LockFree'
      BY <3>2, <3>3, KernelAssumption DEF Invoke, LockFree
    <3>5. QED
      BY <1>4, <3>1, <3>4
  <2>7. QED
    BY <1>6, <2>1, <2>2, <2>3, <2>4, <2>5, <2>6 DEF CallStep
<1>7. QED
  BY <1>1, <1>5, <1>6 DEF Next, vars, operatorVars, kernelVars

(***************************************************************************)
(* What every call holds, and the record                                   *)
(***************************************************************************)
(* The calls that a step does not touch stay sound.                        *)
LEMMA OthersSound ==
    ASSUME IInv, [Next]_vars, NEW d \in Call, call[d] # NoCall, call'[d] = call[d],
           At(d, "executing") => working' = working,
           \A s \in Submission : made[s] # NoView => made'[s] = made[s]
    PROVE  Sound(d)'
<1>1. Sound(d) /\ call[d].sub \in Submission \cup {Direct}
  BY CallTyped DEF IInv, CallInv
<1>2. \A receipt : OnRecord(receipt) => OnRecord(receipt)'
  BY StepMovesKernel, RecordsStay DEF IInv, ControlTypeOK
<1>3. call[d].step = "executed" => OnRecord(call[d].receipt)'
  BY <1>1, <1>2 DEF Sound, OnRecord
<1>4. QED
  BY <1>1, <1>3, StepMovesKernel DEF Sound, At, Authorised

LEMMA CallsKept ==
    ASSUME IInv, [Next]_vars
    PROVE  CallInv'
<1> ControlTypeOK /\ KernelTypeOK /\ CallInv /\ LockInv
  BY DEF IInv, ControlTypeOK
<1> USE DEF CallInv
<1>1. CASE UNCHANGED <<call, made, working>>
  BY <1>1, OthersSound
<1>2. CASE HostPerforms
  BY <1>1, <1>2 DEF HostPerforms, operatorVars, Perform
<1>3. ASSUME NEW c \in Call, CallStep(c)
      PROVE  CallInv'
  <2>1. \A s \in Submission : made[s] # NoView => made'[s] = made[s]
    <3>1. made' = made \/ \E s \in Submission :
                              made' = IF made[s] = NoView THEN [made EXCEPT ![s] = Seen] ELSE made
      BY <1>3 DEF CallStep, Submit, Check, Reserve, Execute, Replay, Observe, LoseSight,
                  CutShort, Retain, Stop, ExecuteDirectly
    <3>2. QED
      BY <3>1 DEF ControlTypeOK
  <2>2. \A d \in Call \ {c} : call'[d] = call[d]
    BY <1>3 DEF CallStep, Submit, Check, Reserve, Execute, Replay, Observe, LoseSight,
                CutShort, Retain, Stop, ExecuteDirectly, Goes, Ends, ControlTypeOK
  <2>3. \A d \in Call \ {c} : At(d, "executing") => working' = working
    BY <1>3 DEF CallStep, Submit, Check, Reserve, Execute, Replay, Observe, LoseSight,
                CutShort, Retain, Stop, ExecuteDirectly, kernelVars, Invoke, LockInv
  <2>4. \A d \in Call \ {c} : call'[d] # NoCall => Sound(d)'
    BY <2>1, <2>2, <2>3, OthersSound
  <2>5. call'[c] # NoCall => Sound(c)'
    <3>1. ASSUME NEW s \in Submission, Submit(c, s)
          PROVE  Sound(c)'
      <4>1. call'[c] = [step |-> "read", sub |-> s, seen |-> record, receipt |-> NoReceipt]
        BY <3>1 DEF Submit, ControlTypeOK
      <4>2. made'[s] # NoView
        <5>1. Seen # NoView
          BY ControlAssumption DEF Seen, View, ControlTypeOK, KernelTypeOK
        <5>2. QED
          BY <3>1, <5>1 DEF Submit, ControlTypeOK
      <4>3. QED
        BY <4>1, <4>2, ControlAssumption DEF Sound
    <3>2. ASSUME Check(c)
          PROVE  Sound(c)'
      <4>1. call[c] # NoCall /\ call[c].sub # Direct
        BY <3>2, NotDirect DEF Check, Step
      <4>2. call'[c] = [call[c] EXCEPT !.step = IF record = NoRecord THEN "cleared" ELSE "reserving"]
        BY <3>2 DEF Check, Goes, ControlTypeOK
      <4>3. call[c] \in CallRow /\ call[c].sub \in Submission
        BY <4>1, CallTyped
      <4>4. Authorised(record) = effects.version
        BY <3>2 DEF Check, Offered, RunOffered, CancelOffered, Exact, Authorised
      <4>5. made[call[c].sub].version = effects.version /\ record = call[c].seen
        BY <3>2 DEF Check, Seen
      <4>6. made' = made
        BY <3>2 DEF Check
      <4>7. made[call[c].sub] # NoView
        BY <4>1 DEF Sound
      <4>8. QED
        BY <4>1, <4>2, <4>3, <4>4, <4>5, <4>6, <4>7 DEF Sound, CallRow, Authorised
    <3>3. ASSUME Reserve(c)
          PROVE  Sound(c)'
      <4>1. call[c] # NoCall /\ call[c].sub # Direct
        BY <3>3, NotDirect DEF Reserve, Step
      <4>2. call'[c] = [call[c] EXCEPT !.step = "cleared"] /\ made' = made
        BY <3>3 DEF Reserve, Goes, ControlTypeOK
      <4>3. call[c] \in CallRow /\ call[c].step = "reserving" /\ Sound(c)
        BY <3>3, <4>1, CallTyped DEF Reserve, At
      <4>4. QED
        BY <4>1, <4>2, <4>3 DEF Sound, CallRow, Authorised
    <3>4. ASSUME Execute(c)
          PROVE  Sound(c)'
      <4>1. call[c] # NoCall /\ call[c].sub # Direct
        BY <3>4, NotDirect DEF Execute, Step
      <4>2. call'[c] = [call[c] EXCEPT !.step = "executing"] /\ made' = made
        BY <3>4 DEF Execute, Goes, ControlTypeOK
      <4>3. call[c] \in CallRow /\ call[c].step = "cleared" /\ Sound(c)
        BY <3>4, <4>1, CallTyped DEF Execute, At
      <4>4. working'.version = Authorised(call[c].seen)
        BY <3>4, <4>1, MintedAre DEF Execute, Invoke
      <4>5. QED
        BY <4>1, <4>2, <4>3, <4>4 DEF Sound, CallRow, Authorised
    <3>5. ASSUME Replay(c)
          PROVE  Sound(c)'
      <4>1. call[c] # NoCall /\ call[c].sub # Direct
        BY <3>5, NotDirect DEF Replay, Step
      <4>2. call[c] \in CallRow /\ call[c].step = "cleared" /\ Sound(c)
        BY <3>5, <4>1, CallTyped DEF Replay, At
      <4>3. PICK q \in Minted(c) :
                /\ Replays(q)
                /\ effects.index[q.key].observed
                /\ call' = [call EXCEPT ![c].step = "executed",
                                        ![c].receipt = effects.index[q.key]]
        BY <3>5 DEF Replay
      <4>4. q.key \in Key
        BY DEF Minted
      <4>5. OnRecord(effects.index[q.key])
        <5>1. Filed(q.key)
          BY <4>4 DEF IInv, KernelInv
        <5>2. QED
          BY <4>3, <4>4, <5>1 DEF Replays, Filed, OnRecord, KernelTypeOK
      <4>6. /\ call'[c].step = "executed"
            /\ call'[c].sub = call[c].sub
            /\ call'[c].seen = call[c].seen
            /\ call'[c].receipt = effects.index[q.key]
        BY <4>2, <4>3 DEF ControlTypeOK, CallRow
      <4>7. made' = made /\ effects' = effects
        BY <3>5 DEF Replay, kernelVars
      <4>8. OnRecord(call[c].receipt)'
        BY <4>5, <4>6, <4>7 DEF OnRecord
      <4>9. call'[c].receipt.request.version = Authorised(call[c].seen)
        BY <4>1, <4>3, <4>6, MintedAre DEF Replays
      <4>10. QED
        BY <4>1, <4>2, <4>6, <4>7, <4>8, <4>9 DEF Sound, Authorised
    <3>6. ASSUME Observe(c), call'[c] # NoCall
          PROVE  Sound(c)'
      <4>1. call[c] \in CallRow /\ call[c].step = "executing" /\ Sound(c)
        BY <3>6, CallTyped DEF Observe, At
      <4>2. call[c].sub # Direct
        BY <3>6 DEF Observe, ControlTypeOK
      <4>3. call'[c] = [call[c] EXCEPT !.step = "executed", !.receipt = ReceiptOf(working, TRUE)]
        BY <3>6, <4>2 DEF Observe, ControlTypeOK
      <4>4. Writes(TRUE)
        BY <3>6, SettleWrites DEF Observe
      <4>5. /\ ReceiptOf(working, TRUE) \in Receipt
            /\ ReceiptOf(working, TRUE).observed
            /\ ReceiptOf(working, TRUE).request.key = working.key
            /\ working.key \in Key
        BY <4>4 DEF Writes, ReceiptOf, Request
      <4>6. effects'.index[working.key] = ReceiptOf(working, TRUE)
        BY <4>4, <4>5 DEF Writes, KernelTypeOK
      <4>7. call'[c].receipt = ReceiptOf(working, TRUE)
        BY <4>1, <4>3 DEF CallRow
      <4>8. OnRecord(call[c].receipt)'
        BY <4>5, <4>6, <4>7 DEF OnRecord
      <4>9. /\ call'[c].step = "executed"
            /\ call'[c].sub = call[c].sub
            /\ call'[c].seen = call[c].seen
        BY <4>1, <4>3 DEF CallRow
      <4>10. made' = made
        BY <3>6 DEF Observe
      <4>11. call'[c].receipt.request.version = Authorised(call[c].seen)
        BY <4>1, <4>2, <4>7 DEF Sound, ReceiptOf
      <4>12. QED
        BY <4>1, <4>2, <4>8, <4>9, <4>10, <4>11 DEF Sound, Authorised
    <3>7. ASSUME ExecuteDirectly(c)
          PROVE  Sound(c)'
      <4>1. call'[c] = [step |-> "executing", sub |-> Direct, seen |-> NoRecord,
                        receipt |-> NoReceipt]
        BY <3>7 DEF ExecuteDirectly, ControlTypeOK
      <4>2. QED
        BY <4>1 DEF Sound
    <3>8. ASSUME LoseSight(c) \/ CutShort(c) \/ Retain(c) \/ Stop(c)
          PROVE  call'[c] = NoCall
      BY <3>8 DEF LoseSight, CutShort, Retain, Stop, Ends, ControlTypeOK
    <3>9. QED
      BY <1>3, <3>1, <3>2, <3>3, <3>4, <3>5, <3>6, <3>7, <3>8 DEF CallStep
  <2>6. QED
    BY <2>4, <2>5
<1>4. QED
  BY <1>1, <1>2, <1>3 DEF Next, vars, operatorVars, kernelVars

(* The record only ever takes a receipt that is on record.                 *)
LEMMA RecordKept ==
    ASSUME IInv, [Next]_vars
    PROVE  RecordInv'
<1> ControlTypeOK /\ KernelTypeOK /\ KernelInv /\ RecordInv
  BY DEF IInv, ControlTypeOK
<1>1. \A receipt : OnRecord(receipt) => OnRecord(receipt)'
  BY StepMovesKernel, RecordsStay
<1>2. ASSUME record' = record
      PROVE  RecordInv'
  BY <1>1, <1>2 DEF RecordInv, OnRecord
<1>3. ASSUME NEW c \in Call, Reserve(c)
      PROVE  RecordInv'
  <2>1. record # NoRecord /\ record \in Record
    BY <1>3 DEF Reserve, At, IInv, CallInv, Sound, ControlTypeOK
  <2>2. record'.receipt = record.receipt /\ effects' = effects
    BY <1>3, <2>1 DEF Reserve, Reservation, Record, kernelVars
  <2>3. QED
    BY <2>1, <2>2 DEF RecordInv, OnRecord
<1>4. ASSUME NEW c \in Call, Retain(c)
      PROVE  RecordInv'
  <2>1. OnRecord(call[c].receipt)
    BY <1>4 DEF Retain, At, IInv, CallInv, Sound
  <2>2. record'.receipt = call[c].receipt /\ effects' = effects
    BY <1>4 DEF Retain, Retained, kernelVars
  <2>3. QED
    BY <2>1, <2>2 DEF RecordInv, OnRecord
<1>5. record' = record \/ \E c \in Call : Reserve(c) \/ Retain(c)
  BY DEF Next, vars, operatorVars, HostPerforms, CallStep, Submit, Check, Execute, Replay,
         Observe, LoseSight, CutShort, Stop, ExecuteDirectly
<1>6. QED
  BY <1>2, <1>3, <1>4, <1>5

(* A submission that leaves a receipt was made from the state before it.   *)
LEMMA EffectsKept ==
    ASSUME IInv, [Next]_vars
    PROVE  EffectInv'
<1> ControlTypeOK /\ KernelTypeOK /\ KernelInv /\ EffectInv /\ CallInv
  BY DEF IInv, ControlTypeOK
<1>1. \A s \in Submission : made[s] # NoView => made'[s] = made[s]
  <2>1. made' = made \/ \E s \in Submission :
                            made' = IF made[s] = NoView THEN [made EXCEPT ![s] = Seen] ELSE made
    BY DEF Next, vars, operatorVars, HostPerforms, CallStep, Submit, Check, Reserve, Execute,
           Replay, Observe, LoseSight, CutShort, Retain, Stop, ExecuteDirectly
  <2>2. QED
    BY <2>1 DEF ControlTypeOK
<1>2. effects'.version >= effects.version /\ effects'.version \in Nat /\ effects.version \in Nat
  BY StepMovesKernel, HistoryGrows, KernelTyped DEF Grows, KernelTypeOK
<1>3. \A s \in effected : s \in Submission /\ made[s] # NoView => made[s].version \in Nat
  BY DEF ControlTypeOK, View
<1>4. \A s \in effected : made'[s] # NoView /\ made'[s].version < effects'.version
  <2> SUFFICES ASSUME NEW s \in effected
               PROVE  made'[s] # NoView /\ made'[s].version < effects'.version
    OBVIOUS
  <2>1. s \in Submission /\ made[s] # NoView /\ made[s].version < effects.version
    BY DEF ControlTypeOK, EffectInv
  <2>2. made'[s] = made[s] /\ made[s].version \in Nat
    BY <1>1, <1>3, <2>1
  <2>3. QED
    BY <1>2, <2>1, <2>2
<1>5. ASSUME NEW c \in Call, Observe(c) \/ LoseSight(c)
      PROVE  \A s \in {call[c].sub} \ {Direct} :
                 made'[s] # NoView /\ made'[s].version < effects'.version
  <2> SUFFICES ASSUME call[c].sub # Direct
               PROVE  made'[call[c].sub] # NoView /\ made'[call[c].sub].version < effects'.version
    OBVIOUS
  <2>1. PICK observed \in BOOLEAN : Settle(observed)
    BY <1>5 DEF Observe, LoseSight
  <2>2. effects'.version = effects.version + 1
    BY <2>1, SettleWrites DEF Writes
  <2>0. call[c] # NoCall /\ call[c].step = "executing"
    BY <1>5 DEF Observe, LoseSight, At
  <2>3. Sound(c) /\ call[c].sub \in Submission
    BY <2>0, CallTyped DEF CallInv
  <2>4. working.version = made[call[c].sub].version /\ made[call[c].sub] # NoView
    BY <2>0, <2>3 DEF Sound
  <2>5. working.version = effects.version
    BY <2>1 DEF KernelInv, Admits, Settle, LockFree
  <2>6. made'[call[c].sub] = made[call[c].sub]
    BY <1>1, <2>3, <2>4
  <2>7. made'[call[c].sub].version = effects.version
    BY <2>4, <2>5, <2>6
  <2>8. effects.version < effects'.version
    BY <1>2, <2>2
  <2>9. QED
    BY <2>4, <2>6, <2>7, <2>8
<1>6. effected' = effected \/ \E c \in Call :
          (Observe(c) \/ LoseSight(c)) /\ effected' = effected \cup ({call[c].sub} \ {Direct})
  BY DEF Next, vars, operatorVars, HostPerforms, CallStep, Submit, Check, Reserve, Execute,
         Replay, Observe, LoseSight, CutShort, Retain, Stop, ExecuteDirectly
<1>7. QED
  BY <1>4, <1>5, <1>6 DEF EffectInv

-------------------------------------------------------------------------------
(***************************************************************************)
(* The theorems                                                            *)
(***************************************************************************)
(* The invariant holds at every moment of any number of overlapping calls, *)
(* repeated submissions and other callers of the kernel.                   *)
THEOREM Invariance == Spec => []IInv
<1>1. Init => IInv
  <2> SUFFICES ASSUME Init
               PROVE  IInv
    OBVIOUS
  <2>1. KernelTypeOK
    BY DEF Init, KernelInit, KernelTypeOK
  <2>2. ControlTypeOK
    BY <2>1 DEF Init, ControlTypeOK
  <2>3. KernelInv
    BY DEF Init, KernelInit, KernelInv, EffectsAccounted, Holding, Written, LockFree, Filed, Apart
  <2>4. LockInv /\ CallInv /\ RecordInv /\ EffectInv
    BY DEF Init, LockInv, At, CallInv, RecordInv, EffectInv
  <2>5. QED
    BY <2>2, <2>3, <2>4 DEF IInv
<1>2. IInv /\ [Next]_vars => IInv'
  <2> SUFFICES ASSUME IInv, [Next]_vars
               PROVE  IInv'
    OBVIOUS
  <2>1. KernelInv'
    BY StepMovesKernel, KernelKept DEF IInv, ControlTypeOK
  <2>2. QED
    BY <2>1, Typed, LockKept, CallsKept, RecordKept, EffectsKept DEF IInv
<1>3. QED
  BY <1>1, <1>2, PTL DEF Spec

(* The effect state, the record and the calls in flight only ever hold     *)
(* what their readers know.                                                *)
THEOREM TypeCorrect == Spec => []ControlTypeOK
<1>1. IInv => ControlTypeOK
  BY DEF IInv
<1>2. QED
  BY <1>1, Invariance, PTL

(* Every time the host was asked is accounted for by a receipt, a cut or   *)
(* the execution under way.                                                *)
THEOREM EveryEffectAccounted == Spec => []EffectsAccounted
<1>1. IInv => EffectsAccounted
  BY DEF IInv, KernelInv
<1>2. QED
  BY <1>1, Invariance, PTL

(* The receipts are a history of the versions of the effect state.         *)
THEOREM ReceiptsAreOrdered == Spec => []ReceiptsInOrder
<1>1. IInv => ReceiptsInOrder
  BY DEF IInv, KernelInv, Filed, Apart, ReceiptsInOrder
<1>2. QED
  BY <1>1, Invariance, PTL

(* A run that ended, or whose outcome is unknown, stays so whoever calls.  *)
THEOREM EndedStay == Spec => EndedRunsStay
<1>1. IInv /\ [Next]_vars =>
          [\A r \in Run :
              effects.runs[r] # Absent =>
                  /\ effects'.runs[r] # Absent
                  /\ effects'.runs[r].origin = effects.runs[r].origin
                  /\ effects.runs[r].life # "running" =>
                         effects'.runs[r].life = effects.runs[r].life]_kernelVars
  <2> SUFFICES ASSUME IInv, [Next]_vars
               PROVE  \A r \in Run :
                          effects.runs[r] # Absent =>
                              /\ effects'.runs[r] # Absent
                              /\ effects'.runs[r].origin = effects.runs[r].origin
                              /\ effects.runs[r].life # "running" =>
                                     effects'.runs[r].life = effects.runs[r].life
    OBVIOUS
  <2>1. QED
    BY StepMovesKernel, HistoryGrows DEF IInv, ControlTypeOK
<1>2. QED
  BY <1>1, Invariance, PTL DEF Spec, EndedRunsStay

(* The operator's record trails the effect state.                          *)
THEOREM RecordTrails == Spec => []RecordTrailsState
<1>1. IInv => RecordTrailsState
  <2> SUFFICES ASSUME IInv, record # NoRecord
               PROVE  LET receipt == record.receipt
                          row == effects.runs[receipt.request.run]
                      IN  /\ effects.index[receipt.request.key] = receipt
                          /\ receipt.after <= effects.version
                          /\ row # Absent
                          /\ PostState(receipt) = "cancelled" => row.life = "cancelled"
    BY DEF RecordTrailsState
  <2> DEFINE receipt == record.receipt
  <2>1. OnRecord(receipt) /\ receipt.request.key \in Key /\ receipt # NoReceipt
    BY KernelAssumption DEF IInv, RecordInv, OnRecord, Receipt, Request
  <2>2. Filed(receipt.request.key)
    BY <2>1 DEF IInv, KernelInv
  <2>3. PostState(receipt) = "cancelled" => receipt.request.op = "cancel"
    BY <2>1 DEF PostState, OnRecord, Receipt, Request
  <2>4. effects.version \in Nat
    BY DEF IInv, ControlTypeOK, KernelTypeOK
  <2>5. QED
    BY <2>1, <2>2, <2>3, <2>4 DEF Filed, OnRecord
<1>2. QED
  BY <1>1, Invariance, PTL

(* The record never holds a receipt of unknown outcome.                    *)
THEOREM NeverRetainsUnknown == Spec => []UnknownNeverRetained
<1>1. IInv => UnknownNeverRetained
  BY DEF IInv, RecordInv, OnRecord, UnknownNeverRetained
<1>2. QED
  BY <1>1, Invariance, PTL

(* The record moves on only, except by the retention of a first Run.       *)
THEOREM RecordOnlyMovesOn == Spec => RecordMovesOn
<1> DEFINE MovesOn ==
               record # NoRecord =>
                   \/ /\ record' # NoRecord
                      /\ record.replays \subseteq record'.replays
                      /\ record.receipt.after <= record'.receipt.after
                   \/ \E c \in Call : RetainsFirstRun(c)
<1>1. IInv /\ [Next]_vars => [MovesOn]_record
  <2> SUFFICES ASSUME IInv, [Next]_vars, record # NoRecord, record' # record
               PROVE  MovesOn
    OBVIOUS
  <2>1. record \in Record /\ record' \in Record \cup {NoRecord} /\ record.receipt.after \in Nat
    BY Typed DEF IInv, ControlTypeOK, Record, Receipt
  <2>2. PICK c \in Call : Reserve(c) \/ Retain(c)
    BY DEF Next, vars, operatorVars, HostPerforms, CallStep, Submit, Check, Execute, Replay,
           Observe, LoseSight, CutShort, Stop, ExecuteDirectly
  <2>3. CASE Reserve(c)
    <3>1. record' = [record EXCEPT !.used = @ + 1, !.pending = call[c].sub]
      BY <2>3 DEF Reserve, Reservation
    <3>2. record'.replays = record.replays /\ record'.receipt = record.receipt
      BY <2>1, <3>1 DEF Record
    <3>3. call[c].sub \in Submission
      BY <2>3, NotDirect, CallTyped DEF Reserve, Step, IInv
    <3>4. record' \in Record
      <4>1. record.used + 1 \in Nat
        BY <2>1 DEF Record
      <4>2. QED
        BY <2>1, <3>1, <3>3, <4>1 DEF Record
    <3>5. QED
      BY <2>1, <3>2, <3>4, ControlAssumption
  <2>4. CASE Retain(c) /\ call[c].seen = NoRecord
    BY <2>4 DEF Retain, RetainsFirstRun
  <2>5. CASE Retain(c) /\ call[c].seen # NoRecord
    <3> DEFINE seen == call[c].seen
               receipt == call[c].receipt
    <3>1. call[c] # NoCall /\ call[c].step = "executed" /\ call[c].sub # Direct
      BY <2>5, NotDirect DEF Retain, At, Step
    <3>2. seen \in Record /\ call[c].sub \in Submission
      BY <2>5, <3>1, CallTyped DEF IInv, CallRow
    <3>3. OnRecord(receipt) /\ receipt.request.version = seen.receipt.after
      BY <2>5, <3>1 DEF IInv, CallInv, Sound, Authorised
    <3>4. receipt.after = seen.receipt.after + 1 /\ seen.receipt.after \in Nat
      <4>1. receipt.request.key \in Key /\ receipt # NoReceipt
        BY <3>3, KernelAssumption DEF OnRecord, Receipt, Request
      <4>2. Filed(receipt.request.key)
        BY <4>1 DEF IInv, KernelInv
      <4>3. QED
        BY <3>2, <3>3, <4>1, <4>2 DEF Filed, OnRecord, Record, Receipt
    <3>5. record = [seen EXCEPT !.used = @ + 1, !.pending = call[c].sub]
      BY <2>5 DEF Retain, Reservation
    <3>6. record.replays = seen.replays /\ record.receipt = seen.receipt
      BY <3>2, <3>5 DEF Record
    <3>7. record' = [receipt |-> receipt, pending |-> NoSubmission,
                     replays |-> seen.replays \cup {call[c].sub}, used |-> seen.used + 1]
      BY <2>5 DEF Retain, Retained
    <3>8. record' # NoRecord
      <4>1. record' \in Record
        BY <3>2, <3>3, <3>7 DEF Record, OnRecord
      <4>2. QED
        BY <4>1, ControlAssumption
    <3>9. QED
      BY <3>4, <3>6, <3>7, <3>8
  <2>6. QED
    BY <2>2, <2>3, <2>4, <2>5
<1>2. QED
  BY <1>1, Invariance, PTL DEF Spec, RecordMovesOn

(* A submission that left a receipt never asks the host again.             *)
THEOREM SubmissionsActOnce == Spec => []EachSubmissionActsOnce
<1>1. IInv => EachSubmissionActsOnce
  <2> SUFFICES ASSUME IInv, NEW c \in Call, At(c, "executing"), call[c].sub \in effected
               PROVE  FALSE
    BY DEF EachSubmissionActsOnce
  <2>1. call[c].sub \in Submission /\ call[c].sub # Direct /\ Sound(c)
    BY ControlAssumption DEF IInv, ControlTypeOK, CallInv, At
  <2>2. working.version = made[call[c].sub].version
    BY <2>1 DEF Sound, At
  <2>3. working.version = effects.version
    BY DEF IInv, LockInv, LockFree, KernelInv, Admits
  <2>4. made[call[c].sub].version < effects.version /\ effects.version \in Nat
    BY DEF IInv, EffectInv, ControlTypeOK, KernelTypeOK
  <2>5. QED
    BY <2>2, <2>3, <2>4
<1>2. QED
  BY <1>1, Invariance, PTL
===============================================================================
