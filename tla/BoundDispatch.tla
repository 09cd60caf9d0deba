---------------------------- MODULE BoundDispatch ----------------------------
(***************************************************************************)
(* From callability evidence to a provider process: the scheduler admits a *)
(* route on a current observation of the broker, the binder turns the      *)
(* admission into a binding for one attempt, and a dispatcher starts the   *)
(* provider under it (schedule_headless_dispatch.py, preflight_broker.py,  *)
(* bind_scheduled_dispatch.py, run_headless_provider_dispatch.py).         *)
(*                                                                         *)
(* The dispatcher never looks at the ledger: a lease may be released or    *)
(* recovered, and a successor admitted, while a binding waits and while a  *)
(* provider runs.  What stands between a recovered lease and its provider  *)
(* is time: the dispatcher ends the process before the lease expires.      *)
(*                                                                         *)
(* The model is of adapters with an execution profile, whose deadline is   *)
(* bound to the lease.  Times are injected up to Lag behind the clock,     *)
(* except the dispatcher's, which reads the clock itself.                  *)
(***************************************************************************)
EXTENDS DispatchScheduler

CONSTANTS
    Owner,       \* owner tokens of probes
    Duration,    \* durations of probe leases and observations
    MaxEvents,   \* bound on the broker's history; recordings may exceed it
    Guard        \* DEADLINE_GUARD_SECONDS: what terminating a process takes

(* The guard of one second is what _terminate takes at most: half a second *)
(* to end the process group, half a second to kill it.                     *)
ASSUME DispatchAssumption == Duration \subseteq Nat \ {0} /\ Guard \in Nat \ {0}

(* Which candidates are compiled is open: an offer less some is an offer.  *)
ASSUME OffersAssumption ==
    \A e \in Envelope : \A offer \in Offers[e], routes \in SUBSET Route :
        SelectSeq(offer, LAMBDA c : c.route \in routes) \in Offers[e]

(* The broker vouches for every candidate of the offer.  Dropping those it *)
(* does not vouch for leaves an offer, by the assumption: to select from   *)
(* what is left of any offer is to select from one it vouches for.         *)
Vouched(offer, routes) == \A k \in DOMAIN offer : offer[k].route \in routes

VARIABLES
    entries, history,   \* the broker's state file
    admission,          \* the broker state each admission named, as a set of
                        \* at most one cursor
    bound,              \* leases a binding was issued for
    provider            \* the dispatch of each lease

Broker == INSTANCE PreflightBroker WITH Key <- Route

evidence == <<entries, history>>
dispatch == <<admission, bound, provider>>
all == <<vars, evidence, dispatch>>

DispatchStates == {"none", "preparing", "running", "orphan", "ended"}

BoundInit ==
    /\ Init /\ Broker!Init
    /\ admission = [l \in LeaseId |-> {}]
    /\ bound = {}
    /\ provider = [l \in LeaseId |-> "none"]

----------------------------------------------------------------------------
(* Wrong: the observation would be taken as the candidate copied it.       *)
CallableOnce(r, now) == \E o \in Broker!CurrentEver(r, now) : o.verdict = "callable"

(* _verify_broker_binding and _observation_callable: the state is read     *)
(* again under the broker's lock at the time of the admission.  A          *)
(* candidate names the state it was compiled from and is refused in any    *)
(* other, so it may as well have been compiled from this one.  The grant   *)
(* follows without the broker's lock; a probe that comes in between writes *)
(* nothing the grant reads, and may as well come after it.                 *)
Callable(r, now) == \E o \in Broker!Current(r, now) : o.verdict = "callable"

CallableAt(now) == {r \in Route : Callable(r, now)}

AdmitCurrent(e, offer, lease, fence, now) ==
    /\ Vouched(offer, CallableAt(now))
    /\ Admit(e, offer, lease, fence, now)
    /\ admission' = [admission EXCEPT ![lease] = {Broker!Cursor}]
    /\ UNCHANGED <<evidence, bound, provider>>

GrantsOf(lease) == {i \in RowsOfType(ledger, "lease_granted") : ledger[i].lease = lease}

(* _validate_ledger: nothing has become of the lease, and nobody succeeded *)
(* it in its task.                                                         *)
StillGranted(i) ==
    \A j \in DOMAIN ledger : j > i =>
        /\ ledger[j].lease # ledger[i].lease
        /\ ledger[j].task = ledger[i].task =>
              /\ ledger[j].type \notin {"lease_granted", "execution_unknown"}
              /\ ledger[j].fence <= ledger[i].fence

(* bind_scheduled_dispatch, under shared locks of scheduler and ledger.    *)
Bind(lease, now) ==
    /\ \E i \in GrantsOf(lease) :
          /\ StillGranted(i)
          /\ ledger[i].at <= now /\ now < ledger[i].expires
          /\ Broker!Current(ledger[i].route, now) # {}
    /\ Broker!Cursor \in admission[lease]
    /\ bound' = bound \cup {lease}
    /\ UNCHANGED <<vars, evidence, admission, provider>>

----------------------------------------------------------------------------
(* Wrong: the process would be ended when the lease expires, not before.   *)
DeadlineUnguarded(lease) == {ledger[i].expires : i \in GrantsOf(lease)}

(* When the dispatcher ends the process (a set of one, once granted).      *)
Deadline(lease) == {ledger[i].expires - Guard : i \in GrantsOf(lease)}

(* run_dispatch claims the single-use evidence directory.                  *)
Start(lease) ==
    /\ lease \in bound /\ provider[lease] = "none"
    /\ provider' = [provider EXCEPT ![lease] = "preparing"]
    /\ UNCHANGED <<vars, evidence, admission, bound>>

(* Wrong: the binding would be trusted to be in time.                      *)
SpawnUnchecked(lease) ==
    /\ provider[lease] = "preparing"
    /\ provider' = [provider EXCEPT ![lease] = "running"]
    /\ UNCHANGED <<vars, evidence, admission, bound>>

(* The clock is read again after all preparation, and no process is        *)
(* started without time left.                                              *)
Spawn(lease) ==
    /\ provider[lease] = "preparing"
    /\ \A d \in Deadline(lease) : clock < d
    /\ provider' = [provider EXCEPT ![lease] = "running"]
    /\ UNCHANGED <<vars, evidence, admission, bound>>

(* The process ended or was terminated, or it was never started.           *)
Finish(lease) ==
    /\ provider[lease] \in {"preparing", "running", "orphan"}
    /\ provider' = [provider EXCEPT ![lease] = "ended"]
    /\ UNCHANGED <<vars, evidence, admission, bound>>

(* The dispatcher is killed: its provider has a session of its own and     *)
(* runs on, with nobody to terminate it.                                   *)
Killed(lease) ==
    /\ provider[lease] = "running"
    /\ provider' = [provider EXCEPT ![lease] = "orphan"]
    /\ UNCHANGED <<vars, evidence, admission, bound>>

(* A dispatcher terminates its process within the guard of the deadline:   *)
(* time does not pass the deadline before.                                 *)
TimePasses ==
    /\ \A l \in LeaseId : provider[l] = "running" =>
           \A d \in Deadline(l) : clock < d
    /\ Tick
    /\ UNCHANGED <<evidence, dispatch>>

----------------------------------------------------------------------------
AdmitAny ==
    /\ Room /\ Horizon
    /\ \E e \in Envelope, lease \in LeaseId, fence \in Fence, now \in Injected :
           \E offer \in Offers[e] : AdmitCurrent(e, offer, lease, fence, now)

(* The other operations of the scheduler read and write the ledger only.   *)
Schedule ==
    /\ ReleaseSome \/ RecoverSome \/ UnknownSome \/ AcceptSome
    /\ UNCHANGED <<evidence, dispatch>>

Probe == Broker!Step /\ UNCHANGED <<vars, dispatch>>

BindAny == \E lease \in LeaseId, now \in Injected : Bind(lease, now)

Dispatch(lease) == Start(lease) \/ Spawn(lease) \/ Finish(lease) \/ Killed(lease)

BoundNext ==
    \/ AdmitAny \/ Schedule \/ Probe \/ BindAny
    \/ \E lease \in LeaseId : Dispatch(lease)
    \/ TimePasses

BoundSpec == BoundInit /\ [][BoundNext]_all

----------------------------------------------------------------------------
(* Every variable stays in its range.                                      *)
BoundTypeOK ==
    /\ TypeOK /\ Broker!TypeOK
    /\ admission \in [LeaseId -> SUBSET Nat]
    /\ bound \subseteq LeaseId
    /\ provider \in [LeaseId -> DispatchStates]

(* The broker's history and entries agree (PreflightBroker).               *)
BrokerHistoryExplains == Broker!HistoryExplainsEntries

(* One probe at a time (PreflightBroker).                                  *)
ProbesFlyAlone == Broker!SingleFlight

Ended(lease, type) ==
    \E i \in DOMAIN ledger : ledger[i].lease = lease /\ ledger[i].type = type

(* A recovered lease has no provider: although the dispatcher never reads  *)
(* the ledger and the recoverer never asks the dispatcher, by the time an  *)
(* operator can recover a lease no dispatcher runs or will start its       *)
(* process (an orphan of a killed dispatcher excepted).                    *)
RecoveredHasNoProvider ==
    \A l \in LeaseId : Ended(l, "lease_recovered") => provider[l] # "running"

WriteGrantsOf(l) == {i \in GrantsOf(l) : EnvelopeInfo[ledger[i].envelope].writer}
WriteScope(l) == UNION {EnvelopeInfo[ledger[i].envelope].scope : i \in WriteGrantsOf(l)}

(* The isolation the scheduler grants to writers holds for their processes *)
(* as well: two running providers with overlapping write scopes are only   *)
(* possible after a coordinator released the lease of a running one.       *)
ProvidersIsolated ==
    \A a, b \in LeaseId :
       /\ a # b /\ provider[a] = "running" /\ provider[b] = "running"
       /\ WriteScope(a) \cap WriteScope(b) # {}
       => Ended(a, "lease_released") \/ Ended(b, "lease_released")

(* Evidence events on the route of a granted row, up to the admission.     *)
EvidenceFor(i) ==
    LET lease == ledger[i].lease IN
    {j \in DOMAIN history : history[j].key = ledger[i].route
                               /\ \E c \in admission[lease] : j <= c}

(* Every grant, and so every provider ever started, rests on an            *)
(* observation of its route that was the broker's last word on it and not  *)
(* older than the longest permitted time to live.                          *)
GrantsRestOnFreshEvidence ==
    \A i \in RowsOfType(ledger, "lease_granted") :
       \E j \in EvidenceFor(i) :
          /\ \A k \in EvidenceFor(i) : k <= j
          /\ history[j].kind = "observation_recorded"
          /\ history[j].at <= ledger[i].at
          /\ \E seconds \in Duration : ledger[i].at < history[j].at + seconds
=============================================================================
