----------------------------- MODULE EffectKernel -----------------------------
(***************************************************************************)
(* The single effect kernel of the standalone runtime                      *)
(* (runtime_execution_gateway.py and the locked execution of               *)
(* standalone_runtime_service.py).  A caller takes the effect lock, the    *)
(* kernel admits its request against the persisted state, asks the package *)
(* host for the action while it holds the lock, and writes the outcome:    *)
(* observed, or execution_unknown.  A kill or a failed write in between    *)
(* leaves no record of what the host was asked for.                        *)
(*                                                                         *)
(* A request is the record that its digest seals; a lease is the closed    *)
(* lease object.  The thread generation, which never changes once an       *)
(* effect is recorded, and the snapshots and expiries a request carries    *)
(* are left out: each of them can only refuse it.                          *)
(***************************************************************************)
EXTENDS Naturals

CONSTANTS Key, Run, Lease,
          Absent, NoReceipt, NoRequest,
          MaxCuts     \* bound on the executions of one key that leave no record

VARIABLES effects,    \* the persisted effect state: version, runs, receipts by key
          working,    \* the request executed under the lock, or NoRequest
          asked,      \* how often the host was asked for the action of a key
          done,       \* how often the host performed it
          cut         \* executions of a key that ended before anything was written

kernelVars == <<effects, working, asked, done, cut>>

Life == {"running", "cancelled", "execution_unknown"}
Request == [key : Key, op : {"run", "cancel"}, run : Run, lease : Lease, version : Nat]
Receipt == [request : Request, observed : BOOLEAN, after : Nat]
RunRow == [life : Life, origin : Request]

ASSUME KernelAssumption ==
    /\ MaxCuts \in Nat
    /\ Absent \notin RunRow
    /\ NoReceipt \notin Receipt
    /\ NoRequest \notin Request

KernelTypeOK ==
    /\ effects \in [version : Nat, runs : [Run -> RunRow \cup {Absent}],
                    index : [Key -> Receipt \cup {NoReceipt}]]
    /\ working \in Request \cup {NoRequest}
    /\ asked \in [Key -> Nat]
    /\ done \in [Key -> Nat]
    /\ cut \in [Key -> Nat]

KernelInit ==
    /\ effects = [version |-> 0, runs |-> [r \in Run |-> Absent],
                  index |-> [k \in Key |-> NoReceipt]]
    /\ working = NoRequest
    /\ asked = [k \in Key |-> 0]
    /\ done = [k \in Key |-> 0]
    /\ cut = [k \in Key |-> 0]

(***************************************************************************)
(* Admission.  A key with a receipt is answered with it and never admitted *)
(* again; a new one must name the current version of the state.            *)
(***************************************************************************)
Startable(q) == effects.runs[q.run] = Absent

(* Wrong: any run that was started could be cancelled.                     *)
CancellableAlways(q) ==
    /\ effects.runs[q.run] # Absent
    /\ effects.runs[q.run].origin.lease = q.lease

Cancellable(q) ==
    /\ effects.runs[q.run] # Absent
    /\ effects.runs[q.run].life = "running"
    /\ effects.runs[q.run].origin.lease = q.lease

(* Wrong: a key with a receipt would be admitted again.                    *)
AdmitsAgain(q) ==
    /\ q.version = effects.version
    /\ q.op = "run" => Startable(q)
    /\ q.op = "cancel" => Cancellable(q)

(* Wrong: the version the request was made for would not be compared.      *)
AdmitsStale(q) ==
    /\ effects.index[q.key] = NoReceipt
    /\ q.op = "run" => Startable(q)
    /\ q.op = "cancel" => Cancellable(q)

Admits(q) ==
    /\ effects.index[q.key] = NoReceipt
    /\ q.version = effects.version
    /\ q.op = "run" => Startable(q)
    /\ q.op = "cancel" => Cancellable(q)

Replays(q) == effects.index[q.key] # NoReceipt /\ effects.index[q.key].request = q

PostState(receipt) ==
    CASE ~receipt.observed -> "execution_unknown"
      [] receipt.observed /\ receipt.request.op = "run" -> "running"
      [] receipt.observed /\ receipt.request.op = "cancel" -> "cancelled"

(***************************************************************************)
(* One execution                                                           *)
(***************************************************************************)
LockFree == working = NoRequest

(* The host is asked before anything is written.                           *)
Invoke(q) ==
    /\ LockFree
    /\ Admits(q)
    /\ working' = q
    /\ asked' = [asked EXCEPT ![q.key] = @ + 1]
    /\ UNCHANGED <<effects, done, cut>>

(* The host performs what it was asked, during the call or after it.       *)
Perform(k) ==
    /\ done[k] < asked[k]
    /\ done' = [done EXCEPT ![k] = @ + 1]
    /\ UNCHANGED <<effects, working, asked, cut>>

ReceiptOf(q, observed) ==
    [request |-> q, observed |-> observed, after |-> effects.version + 1]

(* Wrong: an unknown outcome would leave the version of the state alone.   *)
RecordedInPlace(q, observed) ==
    LET receipt == ReceiptOf(q, observed)
        origin == IF q.op = "run" THEN q ELSE effects.runs[q.run].origin
    IN  [version |-> effects.version + (IF observed THEN 1 ELSE 0),
         runs |-> [effects.runs EXCEPT ![q.run] =
                      [life |-> PostState(receipt), origin |-> origin]],
         index |-> [effects.index EXCEPT ![q.key] = receipt]]

Recorded(q, observed) ==
    LET receipt == ReceiptOf(q, observed)
        origin == IF q.op = "run" THEN q ELSE effects.runs[q.run].origin
    IN  [version |-> effects.version + 1,
         runs |-> [effects.runs EXCEPT ![q.run] =
                      [life |-> PostState(receipt), origin |-> origin]],
         index |-> [effects.index EXCEPT ![q.key] = receipt]]

(* The outcome is written and the lock released.  An answer that does not  *)
(* come, is malformed or repeats the identity of another effect counts as  *)
(* no observation; the host vouches for an action only once performed.     *)
Settle(observed) ==
    /\ ~LockFree
    /\ observed => done[working.key] > 0
    /\ effects' = Recorded(working, observed)
    /\ working' = NoRequest
    /\ UNCHANGED <<asked, done, cut>>

(* The process is killed, or its write fails, after it asked the host.     *)
Cut ==
    /\ ~LockFree
    /\ cut[working.key] < MaxCuts
    /\ cut' = [cut EXCEPT ![working.key] = @ + 1]
    /\ working' = NoRequest
    /\ UNCHANGED <<effects, asked, done>>

(***************************************************************************)
(* Properties                                                              *)
(***************************************************************************)
(* Every time the host was asked is accounted for: by the one receipt of   *)
(* the key, by an execution that was cut short, or by the one under way.   *)
(* The host never performs more than it was asked.  So nothing is done     *)
(* twice for a key unless an execution of it was cut before its write.     *)
Holding(k) == IF ~LockFree /\ working.key = k THEN 1 ELSE 0
Written(k) == IF effects.index[k] = NoReceipt THEN 0 ELSE 1
EffectsAccounted ==
    \A k \in Key : /\ asked[k] = Written(k) + cut[k] + Holding(k)
                   /\ done[k] <= asked[k]

(* The receipts are a history: each takes a place of its own in the        *)
(* versions of the state, so that no two executions, whoever called them,  *)
(* were admitted against the same state.                                   *)
ReceiptsInOrder ==
    \A j, k \in Key :
        effects.index[j] # NoReceipt /\ effects.index[k] # NoReceipt =>
            /\ effects.index[j].after \in 1 .. effects.version
            /\ effects.index[j].request.version + 1 = effects.index[j].after
            /\ effects.index[j].after = effects.index[k].after => j = k

(* A run that was cancelled, or whose outcome is unknown, stays so:        *)
(* execution_unknown never turns into success and blocks every retry.      *)
EndedRunsStay ==
    [][\A r \in Run :
          effects.runs[r] # Absent =>
              /\ effects'.runs[r] # Absent
              /\ effects'.runs[r].origin = effects.runs[r].origin
              /\ effects.runs[r].life # "running" =>
                     effects'.runs[r].life = effects.runs[r].life]_kernelVars
===============================================================================
