-------------------------- MODULE DispatchScheduler --------------------------
(***************************************************************************)
(* The headless dispatch scheduler (schedule_headless_dispatch.py): leases *)
(* are granted, released, recovered and marked execution_unknown by        *)
(* appending rows to the dispatch ledger.  Every operation holds the       *)
(* exclusive .scheduler.lock from its first read of the ledger to its      *)
(* append, so an operation is one atomic step.                             *)
(*                                                                         *)
(* Callers inject the time.  It is read before the lock is obtained, so an *)
(* operation may run with a time up to Lag behind the clock, and rows need *)
(* not be in timestamp order.                                              *)
(***************************************************************************)
EXTENDS DispatchLedger, FiniteSets, FiniteSetsExt

CONSTANTS
    Task, Envelope, LeaseId, Route, Evidence, Group, Reason,
    EnvelopeInfo,   \* what each task envelope asks for
    RouteInfo,      \* the candidate facts of each route; its token
                    \* reservation is a set, empty when it is unknown
    Offers,         \* the ordered candidate lists compiled for each envelope
    Policy,         \* the scheduler policy and the board/config writer limits;
                    \* its token capacity is a set, empty when there is none
    Lag,            \* how far an injected time may be behind the clock
    MaxTime,        \* bound on the clock
    MaxFence,       \* bound on the WorkGraph fencing tokens presented
    MaxRows         \* bound on the ledger; rows that free a lease may exceed it

Time == 0 .. MaxTime
Fence == 1 .. MaxFence
NoReason == "none"

(* What the constants are taken to be; the writer ceiling is 2.            *)
ASSUME ConstantsAssumption ==
    /\ Lag \in Nat /\ MaxTime \in Nat /\ MaxFence \in Nat /\ MaxRows \in Nat
    /\ EnvelopeInfo \in [Envelope -> [task : Task, writer : BOOLEAN,
           scope : SUBSET STRING, displacement : {0, 1},
           independent : BOOLEAN, excluded : SUBSET Group,
           allowance : STRING, cash : BOOLEAN,
           enqueued : Nat, maxAge : Nat, deadline : Nat]]
    /\ \A r \in Route : /\ RouteInfo[r].group \in Group
                         /\ RouteInfo[r].limit \in Nat
                         /\ Policy.providerLimit[RouteInfo[r].provider] \in Nat
                         /\ Policy.hostLimit[RouteInfo[r].host] \in Nat
                         /\ RouteInfo[r].units \in Nat
                         /\ RouteInfo[r].tokens \subseteq Nat
                         /\ \A a, b \in RouteInfo[r].tokens : a = b
    /\ \A e \in Envelope : \A offer \in Offers[e] :
           offer \in Seq([route : Route, evidence : Evidence])
    /\ \A class \in DOMAIN Policy.allowance : Policy.allowance[class] \in Nat
    /\ Policy.tokenCapacity \subseteq Nat
    /\ Policy.ttl \in Nat \ {0}
    /\ Policy.globalLimit \in Nat \ {0}
    /\ Policy.boardWriters \in Nat \ {0} /\ Policy.configWriters \in Nat \ {0}

VARIABLES
    ledger,   \* the rows of the dispatch ledger
    clock     \* the real time

vars == <<ledger, clock>>

Row == [type : EventTypes, lease : LeaseId, task : Task, envelope : Envelope,
        route : Route, evidence : Evidence, fence : Nat, at : Nat,
        expires : Nat, reason : Reason \cup {NoReason}]

Injected == {t \in Time : t <= clock /\ clock <= t + Lag}

-----------------------------------------------------------------------------
(* What a candidate must pass, with the active rows of the ledger.         *)

Active == ActiveRows(ledger)
Where(P(_)) == {i \in Active : P(ledger[i])}
Reserved(units(_), P(_)) ==
    MapThenSumSet(LAMBDA i : units(ledger[i]), Where(P))

CeilingWriteWorkers == 2
WriterLimit == Min({CeilingWriteWorkers, Policy.boardWriters, Policy.configWriters})

(* Envelope timing: not expired, not from the future, not queued too long. *)
EnvelopeCurrent(e, now) ==
    LET info == EnvelopeInfo[e] IN
    /\ info.enqueued <= now /\ now < info.deadline
    /\ now <= info.enqueued + info.maxAge
    /\ info.maxAge <= Policy.maxQueueAge

(* An envelope and an evidence path are granted at most once, ever.        *)
HistoryClear(e, c) ==
    \A i \in RowsOfType(ledger, "lease_granted") :
        ledger[i].envelope # e /\ ledger[i].evidence # c.evidence

(* Wrong: only equal scopes would exclude each other.                      *)
WriterClearUnequal(e) ==
    EnvelopeInfo[e].writer =>
        /\ Policy.directWrites
        /\ Cardinality(Where(LAMBDA row : EnvelopeInfo[row.envelope].writer))
               < WriterLimit
        /\ \A i \in Active :
               EnvelopeInfo[ledger[i].envelope].writer =>
                   EnvelopeInfo[e].scope # EnvelopeInfo[ledger[i].envelope].scope

WriterClear(e) ==
    EnvelopeInfo[e].writer =>
        /\ Policy.directWrites
        /\ Cardinality(Where(LAMBDA row : EnvelopeInfo[row.envelope].writer))
               < WriterLimit
        /\ \A i \in Active :
               EnvelopeInfo[ledger[i].envelope].writer =>
                   EnvelopeInfo[e].scope
                       \cap EnvelopeInfo[ledger[i].envelope].scope = {}

CapacityClear(r) ==
    LET provider == RouteInfo[r].provider
        host == RouteInfo[r].host
    IN  /\ Cardinality(Active) < Policy.globalLimit
        /\ Cardinality(Where(LAMBDA row : row.route = r)) < RouteInfo[r].limit
        /\ Cardinality(Where(LAMBDA row : RouteInfo[row.route].provider = provider))
               < Policy.providerLimit[provider]
        /\ Cardinality(Where(LAMBDA row : RouteInfo[row.route].host = host))
               < Policy.hostLimit[host]

IndependenceClear(e, r) ==
    EnvelopeInfo[e].independent =>
        /\ RouteInfo[r].group \notin EnvelopeInfo[e].excluded
        /\ \A i \in Active : RouteInfo[ledger[i].route].group # RouteInfo[r].group

(* Wrong: only the offered route's own reservation would be compared.      *)
BudgetClearAlone(e, r) ==
    LET class == EnvelopeInfo[e].allowance IN
    /\ class \in DOMAIN Policy.allowance
    /\ RouteInfo[r].units <= Policy.allowance[class]
    /\ RouteInfo[r].cash => EnvelopeInfo[e].cash
    /\ \A capacity \in Policy.tokenCapacity : \E tokens \in RouteInfo[r].tokens :
           tokens <= capacity

BudgetClear(e, r) ==
    LET class == EnvelopeInfo[e].allowance IN
    /\ class \in DOMAIN Policy.allowance
    /\ Reserved(LAMBDA row : RouteInfo[row.route].units,
                LAMBDA row : EnvelopeInfo[row.envelope].allowance = class)
           + RouteInfo[r].units <= Policy.allowance[class]
    /\ RouteInfo[r].cash => EnvelopeInfo[e].cash
    /\ \A capacity \in Policy.tokenCapacity : \E tokens \in RouteInfo[r].tokens :
           Reserved(LAMBDA row : SumSet(RouteInfo[row.route].tokens),
                    LAMBDA row : TRUE) + tokens <= capacity

Eligible(e, c) ==
    /\ HistoryClear(e, c)
    /\ WriterClear(e)
    /\ CapacityClear(c.route)
    /\ IndependenceClear(e, c.route)
    /\ BudgetClear(e, c.route)

-----------------------------------------------------------------------------
(* Selection: the first eligible candidate, or, once enough results have   *)
(* been accepted and the role allows it, the least used among the first    *)
(* displacement + 1 eligible ones.                                         *)

AcceptedBy(P(_)) ==
    Cardinality({i \in RowsOfType(ledger, "quality_accepted") : P(ledger[i])})

(* Candidate i of the offer ranks before candidate j.                      *)
RanksBefore(offer, i, j) ==
    LET Provider(k) == RouteInfo[offer[k].route].provider
        ByProvider(k) == AcceptedBy(LAMBDA row :
                             RouteInfo[row.route].provider = Provider(k))
        ByRoute(k) == AcceptedBy(LAMBDA row : row.route = offer[k].route)
    IN  \/ ByProvider(i) < ByProvider(j)
        \/ /\ ByProvider(i) = ByProvider(j)
           /\ \/ ByRoute(i) < ByRoute(j)
              \/ ByRoute(i) = ByRoute(j) /\ i < j

(* The positions among which diversity may choose.                         *)
Window(e, eligible) ==
    LET settled == AcceptedBy(LAMBDA row : TRUE) >= Policy.diversityMin
        reach == IF settled THEN EnvelopeInfo[e].displacement ELSE 0
    IN  {i \in eligible : Cardinality({j \in eligible : j < i}) <= reach}

Selected(e, offer, eligible) ==
    {i \in Window(e, eligible) :
        \A j \in Window(e, eligible) \ {i} : RanksBefore(offer, i, j)}

-----------------------------------------------------------------------------
(* Operations.                                                             *)

(* append_event: the row is added once.                                    *)
Record(row) == Appendable(ledger, row) /\ ledger' = Append(ledger, row)

Grant(e, c, lease, fence, now) ==
    [type |-> "lease_granted", lease |-> lease, task |-> EnvelopeInfo[e].task,
     envelope |-> e, route |-> c.route, evidence |-> c.evidence,
     fence |-> fence, at |-> now, expires |-> now + Policy.ttl,
     reason |-> NoReason]

LeaseUnused(lease) == \A i \in DOMAIN ledger : ledger[i].lease # lease

(* The WorkGraph token must be at least every token seen for the task.     *)
FenceCurrent(task, fence) == \A f \in TokensOf(ledger, task) : f <= fence

(* admit: plan against the ledger, select, reserve.                        *)
Admit(e, offer, lease, fence, now) ==
    LET eligible == {k \in DOMAIN offer : Eligible(e, offer[k])} IN
    /\ EnvelopeCurrent(e, now)
    /\ LeaseUnused(lease)
    /\ FenceCurrent(EnvelopeInfo[e].task, fence)
    /\ \E k \in Selected(e, offer, eligible) :
           Record(Grant(e, offer[k], lease, fence, now))
    /\ UNCHANGED clock

(* Wrong: any grant with the token would do, active or not.                *)
CurrentEver(lease, fence) ==
    {i \in RowsOfType(ledger, "lease_granted") :
        ledger[i].lease = lease /\ ledger[i].fence = fence}

(* The active row of a lease, when the presented token is its own.         *)
Current(lease, fence) ==
    {i \in Active : ledger[i].lease = lease /\ ledger[i].fence = fence}

(* release: no look at the expiry or at an unknown execution.              *)
Release(lease, fence, now) ==
    /\ \E i \in Current(lease, fence) :
           Record([ledger[i] EXCEPT !.type = "lease_released", !.at = now])
    /\ UNCHANGED clock

(* Wrong: a lease with an unknown execution could not be recovered.        *)
RecoverGuardKnown(row, now) ==
    /\ row.expires <= now
    /\ \A i \in RowsOfType(ledger, "execution_unknown") : ledger[i].lease # row.lease

RecoverGuard(row, now) == row.expires <= now

(* Wrong: the recovered row would keep the old token.                      *)
RecoverSameFence(lease, fence, now) ==
    /\ \E i \in Current(lease, fence) :
           /\ RecoverGuard(ledger[i], now)
           /\ Record([ledger[i] EXCEPT !.type = "lease_recovered", !.at = now])
    /\ UNCHANGED clock

(* recover: only an expired lease; the row carries the next token.         *)
Recover(lease, fence, now) ==
    /\ \E i \in Current(lease, fence) :
           /\ RecoverGuard(ledger[i], now)
           /\ Record([ledger[i] EXCEPT !.type = "lease_recovered", !.at = now,
                                            !.fence = fence + 1])
    /\ UNCHANGED clock

(* execution_unknown: the lease keeps its reservation.                     *)
ExecutionUnknown(lease, fence, now, reason) ==
    /\ \E i \in Current(lease, fence) :
           Record([ledger[i] EXCEPT !.type = "execution_unknown",
                                    !.at = now, !.reason = reason])
    /\ UNCHANGED clock

(* The application of a result records its accepted quality once, for an   *)
(* active lease whose execution is not unknown.  Of the rows it writes,    *)
(* the scheduler reads only this one and the release.                      *)
QualityAccepted(lease, fence, now) ==
    /\ \A i \in DOMAIN ledger : ledger[i].lease = lease =>
           ledger[i].type \notin {"execution_unknown", "quality_accepted"}
    /\ \E i \in Current(lease, fence) :
           Record([ledger[i] EXCEPT !.type = "quality_accepted", !.at = now])
    /\ UNCHANGED clock

Tick == clock < MaxTime /\ clock' = clock + 1 /\ UNCHANGED ledger

(* Bounds of the model: rows, and leases that end within the clock.        *)
Room == Len(ledger) < MaxRows
Horizon == clock + Policy.ttl <= MaxTime

Init == ledger = <<>> /\ clock = 0

AdmitSome ==
    /\ Room /\ Horizon
    /\ \E e \in Envelope, lease \in LeaseId, fence \in Fence, now \in Injected :
           \E offer \in Offers[e] : Admit(e, offer, lease, fence, now)

ReleaseSome == \E lease \in LeaseId, fence \in Fence, now \in Injected :
                   Release(lease, fence, now)

RecoverSome == \E lease \in LeaseId, fence \in Fence, now \in Injected :
                   Recover(lease, fence, now)

UnknownSome ==
    /\ Room
    /\ \E lease \in LeaseId, fence \in Fence, now \in Injected, reason \in Reason :
           ExecutionUnknown(lease, fence, now, reason)

AcceptSome ==
    /\ Room
    /\ \E lease \in LeaseId, fence \in Fence, now \in Injected :
           QualityAccepted(lease, fence, now)

Next == AdmitSome \/ ReleaseSome \/ RecoverSome \/ UnknownSome \/ AcceptSome \/ Tick

Spec == Init /\ [][Next]_vars

(* Operators recover expired leases, and time passes: what it takes for a  *)
(* reservation to end when nothing else ends it.                           *)
LiveSpec ==
    /\ Spec
    /\ WF_vars(Tick)
    /\ \A lease \in LeaseId :
           WF_vars(\E fence \in Fence, now \in Injected : Recover(lease, fence, now))

-----------------------------------------------------------------------------
(* Properties.                                                             *)

(* Every row of the ledger has the shape the readers expect.               *)
TypeOK == ledger \in Seq(Row) /\ clock \in Time

(* The grants that no terminal row has ended, whatever the operations      *)
(* take to be active.                                                      *)
Held ==
    {i \in RowsOfType(ledger, "lease_granted") :
        \A j \in DOMAIN ledger :
            ledger[j].lease = ledger[i].lease =>
                ledger[j].type \notin TerminalLeaseEvents}

HeldWhere(P(_)) == {i \in Held : P(ledger[i])}

(* However grants, unknown executions, releases and recoveries interleave, *)
(* the leases that are held never exceed a limit on their number: global,  *)
(* per route, per provider or per runtime host (_resource_rejection).      *)
CapacityRespected ==
    /\ Cardinality(Held) <= Policy.globalLimit
    /\ \A r \in Route :
         LET provider == RouteInfo[r].provider
             host == RouteInfo[r].host
         IN  /\ Cardinality(HeldWhere(LAMBDA row : row.route = r)) <= RouteInfo[r].limit
             /\ Cardinality(HeldWhere(LAMBDA row : RouteInfo[row.route].provider = provider))
                    <= Policy.providerLimit[provider]
             /\ Cardinality(HeldWhere(LAMBDA row : RouteInfo[row.route].host = host))
                    <= Policy.hostLimit[host]

(* What the held leases have reserved never exceeds the allowance of their *)
(* class, nor the token capacity (_resource_rejection).                    *)
BudgetRespected ==
    /\ \A class \in DOMAIN Policy.allowance :
         MapThenSumSet(LAMBDA i : RouteInfo[ledger[i].route].units,
                       HeldWhere(LAMBDA row : EnvelopeInfo[row.envelope].allowance = class))
             <= Policy.allowance[class]
    /\ \A capacity \in Policy.tokenCapacity :
         MapThenSumSet(LAMBDA i : SumSet(RouteInfo[ledger[i].route].tokens), Held)
             <= capacity

(* At most two repository writers hold a lease at once, never more than    *)
(* the board or the configuration allow, and their scopes are disjoint     *)
(* (_resource_rejection).                                                  *)
WritersIsolated ==
    LET writers == HeldWhere(LAMBDA row : EnvelopeInfo[row.envelope].writer) IN
    /\ Cardinality(writers) <= 2
    /\ Cardinality(writers) <= Policy.boardWriters
    /\ Cardinality(writers) <= Policy.configWriters
    /\ \A i, j \in writers : i # j =>
           EnvelopeInfo[ledger[i].envelope].scope
               \cap EnvelopeInfo[ledger[j].envelope].scope = {}

(* An envelope that requires independence never joins a held lease of its  *)
(* own route's group or of an excluded group's route.                      *)
IndependenceKept ==
    \A i, j \in Held :
        i < j /\ EnvelopeInfo[ledger[j].envelope].independent =>
            /\ RouteInfo[ledger[i].route].group # RouteInfo[ledger[j].route].group
            /\ RouteInfo[ledger[j].route].group
                   \notin EnvelopeInfo[ledger[j].envelope].excluded

(* A lease, an envelope and an evidence path are each granted at most once *)
(* over the life of the ledger, even after the lease was released or       *)
(* recovered: no attempt is silently dispatched again (_history_conflicts).*)
GrantedOnce ==
    \A i, j \in RowsOfType(ledger, "lease_granted") : i # j =>
        /\ ledger[i].lease # ledger[j].lease
        /\ ledger[i].envelope # ledger[j].envelope
        /\ ledger[i].evidence # ledger[j].evidence

(* Once a lease is released or recovered the ledger says nothing more      *)
(* about it: no second release frees capacity that a successor took, and   *)
(* no late execution_unknown or quality row follows (_find_active).        *)
SettledOnce ==
    \A i, j \in DOMAIN ledger :
        ledger[i].lease = ledger[j].lease /\ ledger[i].type \in TerminalLeaseEvents
            => j <= i

(* A grant never carries a lower token than anything the ledger recorded   *)
(* before for the task, by a grant or by a recovery (admit).               *)
GrantsNeverRegress ==
    \A i, j \in DOMAIN ledger :
        i < j /\ ledger[j].type = "lease_granted" /\ ledger[i].task = ledger[j].task
            => ledger[i].fence <= ledger[j].fence

(* Whoever is admitted for a task after one of its leases was recovered    *)
(* holds a strictly higher token than the recovered owner (recover).       *)
RecoveredOwnerFenced ==
    \A i, k, j \in DOMAIN ledger :
        /\ i < k /\ k < j
        /\ ledger[i].type = "lease_granted" /\ ledger[k].type = "lease_recovered"
        /\ ledger[j].type = "lease_granted"
        /\ ledger[k].lease = ledger[i].lease /\ ledger[j].task = ledger[i].task
        => ledger[i].fence < ledger[j].fence

(* A lease leaves the held set in one way only before its expiry: its own  *)
(* release.  Neither an unknown execution nor the passing of time frees    *)
(* it, and no recovery with a time behind the clock takes it early.        *)
NeverReclaimedEarly ==
    [][\A i \in Held : i \notin Held' =>
         \/ ledger'[Len(ledger')].type = "lease_released"
         \/ ledger'[Len(ledger')].type = "lease_recovered" /\ ledger[i].expires <= clock]_vars

(* Every held lease can be freed and, when expired leases are recovered,   *)
(* is: no sequence of unknown executions or accepted results wedges it.    *)
EveryLeaseEnds ==
    \A lease \in LeaseId :
        (\E i \in Held : ledger[i].lease = lease)
            ~> ~(\E i \in Held : ledger[i].lease = lease)
=============================================================================
