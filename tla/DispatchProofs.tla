---------------------------- MODULE DispatchProofs ----------------------------
(***************************************************************************)
(* Proofs about DispatchScheduler and BoundDispatch, for every policy,     *)
(* every set of routes, tasks, envelopes and owners, every guard of at     *)
(* least one, and every bound of the models.                               *)
(*                                                                         *)
(* The scheduler: StepShape reduces Next to what a step appends to the     *)
(* ledger, and the safety invariants are proved from facts about one       *)
(* appended row.  What has been reserved is a sum over the held leases; the*)
(* lemmas on sums are by induction on the size of the set summed over.     *)
(*                                                                         *)
(* The composition with evidence, bindings and dispatchers takes only the  *)
(* scheduler's steps on its ledger, so its theorems carry over.  Invariants*)
(* about deadlines and about what the broker's log explains show that time *)
(* alone keeps recovered leases and running providers apart, and that      *)
(* every grant rests on evidence that was fresh.                           *)
(***************************************************************************)
EXTENDS BoundDispatch, FiniteSetTheorems, WellFoundedInduction, TLAPS

-----------------------------------------------------------------------------
(* What a step appends.                                                    *)

(* The row of a grant passed every test of admission.                      *)
Granting(row) ==
    /\ row \in Row
    /\ row.type = "lease_granted"
    /\ row.task = EnvelopeInfo[row.envelope].task
    /\ LeaseUnused(row.lease)
    /\ FenceCurrent(row.task, row.fence)
    /\ HistoryClear(row.envelope, row)
    /\ WriterClear(row.envelope)
    /\ CapacityClear(row.route)
    /\ IndependenceClear(row.envelope, row.route)
    /\ BudgetClear(row.envelope, row.route)

(* Any other row continues an active lease.                                *)
Continuing(row) ==
    /\ row \in Row
    /\ row.type # "lease_granted"
    /\ \E i \in Active :
         /\ row.lease = ledger[i].lease
         /\ row.task = ledger[i].task
         /\ row.type = "lease_recovered" =>
                row.fence = ledger[i].fence + 1 /\ ledger[i].expires <= clock
         /\ row.type \in TerminalLeaseEvents =>
                row.type \in {"lease_released", "lease_recovered"}

Appends(row) == Granting(row) \/ Continuing(row)

(* An appended row is the last one, the others are where they were.        *)
LEMMA AppendFacts ==
    ASSUME NEW S, NEW s \in Seq(S), NEW x \in S
    PROVE  /\ Append(s, x) \in Seq(S)
           /\ Len(Append(s, x)) = Len(s) + 1
           /\ DOMAIN Append(s, x) = DOMAIN s \cup {Len(s) + 1}
           /\ \A i \in DOMAIN s : Append(s, x)[i] = s[i] /\ i \in Nat /\ i <= Len(s)
           /\ Append(s, x)[Len(s) + 1] = x
           /\ Len(s) + 1 \notin DOMAIN s
  OBVIOUS

(* An element of a typed sequence has the type.                            *)
LEMMA ElementFacts ==
    ASSUME NEW S, NEW s \in Seq(S), NEW k \in DOMAIN s
    PROVE  s[k] \in S
  OBVIOUS

(* The active rows of a typed ledger are grant rows of it.                 *)
LEMMA ActiveFacts ==
    ASSUME ledger \in Seq(Row), NEW i \in Active
    PROVE  /\ i \in DOMAIN ledger
           /\ ledger[i] \in Row
           /\ ledger[i].type = "lease_granted"
  BY DEF Active, ActiveRows, RowsOfType

(* Times and tokens are natural numbers.                                   *)
LEMMA InjectedFacts ==
    ASSUME NEW now \in Injected, clock \in Time
    PROVE  now \in Nat /\ clock \in Nat /\ now <= clock
  BY ConstantsAssumption DEF Injected, Time

(* Every step appends one row of the two kinds, or leaves the ledger.      *)
LEMMA StepShape ==
    ASSUME TypeOK, [Next]_vars
    PROVE  \/ UNCHANGED ledger
           \/ \E row \in Row : Appends(row) /\ ledger' = Append(ledger, row)
<1> USE DEF TypeOK
<1>1. CASE AdmitSome
  <2>1. PICK e \in Envelope, lease \in LeaseId, fence \in Fence, now \in Injected :
            \E offer \in Offers[e] : Admit(e, offer, lease, fence, now)
    BY <1>1 DEF AdmitSome
  <2>2. PICK offer \in Offers[e] : Admit(e, offer, lease, fence, now)
    BY <2>1
  <2> DEFINE eligible == {k \in DOMAIN offer : Eligible(e, offer[k])}
  <2>3. PICK k \in Selected(e, offer, eligible) :
            Record(Grant(e, offer[k], lease, fence, now))
    BY <2>2 DEF Admit
  <2>4. k \in DOMAIN offer /\ Eligible(e, offer[k])
    BY <2>3 DEF Selected, Window
  <2>5. offer[k] \in [route : Route, evidence : Evidence]
    <3>1. offer \in Seq([route : Route, evidence : Evidence])
      BY <2>2, ConstantsAssumption
    <3> QED
      BY <2>4, <3>1, ElementFacts
  <2> DEFINE row == Grant(e, offer[k], lease, fence, now)
  <2>6. row \in Row
    <3>1. now \in Nat /\ now + Policy.ttl \in Nat /\ fence \in Nat
      BY InjectedFacts, ConstantsAssumption DEF Fence
    <3>2. EnvelopeInfo[e].task \in Task
      BY ConstantsAssumption
    <3> QED
      BY <2>5, <3>1, <3>2 DEF Row, Grant, EventTypes, TerminalLeaseEvents
  <2>7. Granting(row)
    <3>1. /\ row.type = "lease_granted" /\ row.task = EnvelopeInfo[e].task
          /\ row.envelope = e /\ row.lease = lease /\ row.fence = fence
          /\ row.route = offer[k].route /\ row.evidence = offer[k].evidence
      BY DEF Grant
    <3>2. LeaseUnused(row.lease) /\ FenceCurrent(row.task, row.fence)
      BY <2>2, <3>1 DEF Admit
    <3>3. HistoryClear(row.envelope, row)
      BY <2>4, <3>1 DEF Eligible, HistoryClear
    <3>4. /\ WriterClear(row.envelope) /\ CapacityClear(row.route)
          /\ IndependenceClear(row.envelope, row.route)
          /\ BudgetClear(row.envelope, row.route)
      BY <2>4, <3>1 DEF Eligible
    <3> HIDE DEF row
    <3> QED
      BY <2>6, <3>1, <3>2, <3>3, <3>4 DEF Granting
  <2> QED
    BY <2>3, <2>6, <2>7 DEF Appends, Record
<1>2. CASE ReleaseSome
  <2>1. PICK lease \in LeaseId, fence \in Fence, now \in Injected :
            Release(lease, fence, now)
    BY <1>2 DEF ReleaseSome
  <2>2. PICK i \in Current(lease, fence) :
            Record([ledger[i] EXCEPT !.type = "lease_released", !.at = now])
    BY <2>1 DEF Release
  <2>3. i \in Active /\ ledger[i] \in Row /\ now \in Nat
    BY <2>2, ActiveFacts, InjectedFacts DEF Current
  <2> DEFINE row == [ledger[i] EXCEPT !.type = "lease_released", !.at = now]
  <2>4. row \in Row
    BY <2>3 DEF Row, EventTypes, TerminalLeaseEvents
  <2>5. Continuing(row)
    BY <2>3, <2>4 DEF Continuing, Row, TerminalLeaseEvents
  <2> QED
    BY <2>2, <2>4, <2>5 DEF Appends, Record
<1>3. CASE RecoverSome
  <2>1. PICK lease \in LeaseId, fence \in Fence, now \in Injected :
            Recover(lease, fence, now)
    BY <1>3 DEF RecoverSome
  <2>2. PICK i \in Current(lease, fence) :
            /\ RecoverGuard(ledger[i], now)
            /\ Record([ledger[i] EXCEPT !.type = "lease_recovered", !.at = now,
                                        !.fence = fence + 1])
    BY <2>1 DEF Recover
  <2>3. /\ i \in Active /\ ledger[i] \in Row /\ ledger[i].fence = fence
        /\ now \in Nat /\ clock \in Nat /\ now <= clock
    BY <2>2, ActiveFacts, InjectedFacts DEF Current
  <2>4. ledger[i].expires <= clock
    BY <2>2, <2>3 DEF RecoverGuard, Row
  <2> DEFINE row == [ledger[i] EXCEPT !.type = "lease_recovered", !.at = now,
                                      !.fence = fence + 1]
  <2>5. row \in Row
    <3>1. fence + 1 \in Nat
      BY <2>3 DEF Row
    <3> QED
      BY <2>3, <3>1 DEF Row, EventTypes, TerminalLeaseEvents
  <2>6. Continuing(row)
    BY <2>3, <2>4, <2>5 DEF Continuing, Row, TerminalLeaseEvents
  <2> QED
    BY <2>2, <2>5, <2>6 DEF Appends, Record
<1>4. CASE UnknownSome
  <2>1. PICK lease \in LeaseId, fence \in Fence, now \in Injected, reason \in Reason :
            ExecutionUnknown(lease, fence, now, reason)
    BY <1>4 DEF UnknownSome
  <2>2. PICK i \in Current(lease, fence) :
            Record([ledger[i] EXCEPT !.type = "execution_unknown",
                                     !.at = now, !.reason = reason])
    BY <2>1 DEF ExecutionUnknown
  <2>3. i \in Active /\ ledger[i] \in Row /\ now \in Nat
    BY <2>2, ActiveFacts, InjectedFacts DEF Current
  <2> DEFINE row == [ledger[i] EXCEPT !.type = "execution_unknown",
                                      !.at = now, !.reason = reason]
  <2>4. row \in Row
    BY <2>3 DEF Row, EventTypes
  <2>5. Continuing(row)
    BY <2>3, <2>4 DEF Continuing, Row, TerminalLeaseEvents
  <2> QED
    BY <2>2, <2>4, <2>5 DEF Appends, Record
<1>5. CASE AcceptSome
  <2>1. PICK lease \in LeaseId, fence \in Fence, now \in Injected :
            QualityAccepted(lease, fence, now)
    BY <1>5 DEF AcceptSome
  <2>2. PICK i \in Current(lease, fence) :
            Record([ledger[i] EXCEPT !.type = "quality_accepted", !.at = now])
    BY <2>1 DEF QualityAccepted
  <2>3. i \in Active /\ ledger[i] \in Row /\ now \in Nat
    BY <2>2, ActiveFacts, InjectedFacts DEF Current
  <2> DEFINE row == [ledger[i] EXCEPT !.type = "quality_accepted", !.at = now]
  <2>4. row \in Row
    BY <2>3 DEF Row, EventTypes
  <2>5. Continuing(row)
    BY <2>3, <2>4 DEF Continuing, Row, TerminalLeaseEvents
  <2> QED
    BY <2>2, <2>4, <2>5 DEF Appends, Record
<1>6. CASE Tick
  BY <1>6 DEF Tick
<1>7. CASE UNCHANGED vars
  BY <1>7 DEF vars
<1> QED
  BY <1>1, <1>2, <1>3, <1>4, <1>5, <1>6, <1>7 DEF Next

-----------------------------------------------------------------------------
(* Types and the history of the ledger.                                    *)

(* Every reachable ledger is a sequence of well-formed rows and the clock  *)
(* stays within its bound, whatever operations ran.                        *)
THEOREM TypeCorrect == Spec => []TypeOK
<1>1. Init => TypeOK
  BY ConstantsAssumption DEF Init, TypeOK, Time
<1>2. TypeOK /\ [Next]_vars => TypeOK'
  <2> SUFFICES ASSUME TypeOK, [Next]_vars PROVE TypeOK'
    OBVIOUS
  <2>1. ledger' \in Seq(Row)
    BY StepShape, AppendFacts DEF TypeOK
  <2>2. clock' \in Time
    <3>1. AdmitSome \/ ReleaseSome \/ RecoverSome => UNCHANGED clock
      BY DEF AdmitSome, Admit, ReleaseSome, Release, RecoverSome, Recover
    <3>2. UnknownSome \/ AcceptSome => UNCHANGED clock
      BY DEF UnknownSome, ExecutionUnknown, AcceptSome, QualityAccepted
    <3>3. Tick => clock' \in Time
      BY ConstantsAssumption DEF Tick, TypeOK, Time
    <3> QED
      BY <3>1, <3>2, <3>3 DEF Next, TypeOK, vars
  <2> QED
    BY <2>1, <2>2 DEF TypeOK
<1> QED
  BY <1>1, <1>2, PTL DEF Spec

(* The rows of a lease follow its grant, keep its task, and carry the next *)
(* token when they recover it.                                             *)
Lineage ==
    \A i, j \in DOMAIN ledger :
        ledger[i].type = "lease_granted" /\ ledger[j].lease = ledger[i].lease =>
            /\ i <= j
            /\ ledger[j].task = ledger[i].task
            /\ ledger[j].type = "lease_recovered" =>
                   ledger[j].fence = ledger[i].fence + 1

(* The invariants of the ledger's history, together inductive.             *)
HistoryInv ==
    /\ TypeOK
    /\ Lineage
    /\ GrantedOnce
    /\ SettledOnce
    /\ GrantsNeverRegress

(* Every operation keeps the history of grants sound.                      *)
LEMMA HistoryStep ==
    ASSUME HistoryInv, TypeOK', NEW row \in Row, Appends(row),
           ledger' = Append(ledger, row)
    PROVE  HistoryInv'
<1> DEFINE n == Len(ledger) + 1
<1>1. /\ DOMAIN ledger' = DOMAIN ledger \cup {n}
      /\ \A i \in DOMAIN ledger : ledger'[i] = ledger[i] /\ i \in Nat /\ i < n
      /\ ledger'[n] = row /\ n \in Nat /\ n \notin DOMAIN ledger
  BY AppendFacts DEF HistoryInv, TypeOK
<1> HIDE DEF n
<1>2. Lineage'
  <2>1. CASE Granting(row)
    BY <1>1, <2>1 DEF HistoryInv, Lineage, Granting, LeaseUnused
  <2>2. CASE Continuing(row)
    <3>1. PICK i \in Active :
            /\ row.lease = ledger[i].lease /\ row.task = ledger[i].task
            /\ row.type = "lease_recovered" => row.fence = ledger[i].fence + 1
      BY <2>2 DEF Continuing
    <3>2. i \in DOMAIN ledger /\ ledger[i].type = "lease_granted"
      BY <3>1, ActiveFacts DEF HistoryInv, TypeOK
    <3>3. \A j \in DOMAIN ledger :
            ledger[j].type = "lease_granted" /\ ledger[j].lease = row.lease => j = i
      BY <3>1, <3>2, <1>1 DEF HistoryInv, Lineage
    <3> QED
      BY <1>1, <2>2, <3>1, <3>3 DEF HistoryInv, Lineage, Continuing
  <2> QED
    BY <2>1, <2>2 DEF Appends
<1>3. GrantedOnce'
  <2>1. CASE Granting(row)
    BY <1>1, <2>1 DEF HistoryInv, GrantedOnce, Granting, LeaseUnused,
       HistoryClear, RowsOfType
  <2>2. CASE Continuing(row)
    BY <1>1, <2>2 DEF HistoryInv, GrantedOnce, Continuing, RowsOfType
  <2> QED
    BY <2>1, <2>2 DEF Appends
<1>4. SettledOnce'
  <2>1. CASE Granting(row)
    BY <1>1, <2>1 DEF HistoryInv, SettledOnce, Granting, LeaseUnused,
       TerminalLeaseEvents
  <2>2. CASE Continuing(row)
    <3>1. PICK i \in Active : row.lease = ledger[i].lease
      BY <2>2 DEF Continuing
    <3>2. i \in DOMAIN ledger /\ ledger[i].type = "lease_granted"
      BY <3>1, ActiveFacts DEF HistoryInv, TypeOK
    <3>3. \A j \in DOMAIN ledger :
            ledger[j].lease = row.lease => ledger[j].type \notin TerminalLeaseEvents
      BY <3>1, <3>2, <1>1
         DEF HistoryInv, Lineage, Active, ActiveRows, SettlesLease, TerminalLeaseEvents
    <3> QED
      BY <1>1, <3>3 DEF HistoryInv, SettledOnce
  <2> QED
    BY <2>1, <2>2 DEF Appends
<1>5. GrantsNeverRegress'
  BY <1>1 DEF HistoryInv, GrantsNeverRegress, Appends, Granting, Continuing,
     FenceCurrent, TokensOf
<1> QED
  BY <1>2, <1>3, <1>4, <1>5 DEF HistoryInv

(* The history of grants is sound in every reachable state.                *)
THEOREM HistoryCorrect == Spec => []HistoryInv
<1>1. Init => HistoryInv
  BY ConstantsAssumption DEF Init, HistoryInv, TypeOK, Time, Lineage, GrantedOnce,
     SettledOnce, GrantsNeverRegress, RowsOfType
<1>2. HistoryInv /\ TypeOK' /\ [Next]_vars => HistoryInv'
  <2> SUFFICES ASSUME HistoryInv, TypeOK', [Next]_vars PROVE HistoryInv'
    OBVIOUS
  <2>1. CASE UNCHANGED ledger
    BY <2>1 DEF HistoryInv, Lineage, GrantedOnce, SettledOnce,
       GrantsNeverRegress, RowsOfType
  <2>2. CASE \E row \in Row : Appends(row) /\ ledger' = Append(ledger, row)
    BY <2>2, HistoryStep
  <2> QED
    BY <2>1, <2>2, StepShape DEF HistoryInv
<1> QED
  BY <1>1, <1>2, TypeCorrect, PTL DEF Spec

(* A lease, an envelope and an evidence path are each granted at most      *)
(* once over the life of the ledger (_history_conflicts).                  *)
THEOREM GrantedAtMostOnce == Spec => []GrantedOnce
  BY HistoryCorrect, PTL DEF HistoryInv

(* The ledger says nothing more about a lease that was released or         *)
(* recovered (_find_active).                                               *)
THEOREM SettledAtMostOnce == Spec => []SettledOnce
  BY HistoryCorrect, PTL DEF HistoryInv

(* A grant never carries a lower token than what was recorded for its task *)
(* before (admit).                                                         *)
THEOREM TokensNeverRegress == Spec => []GrantsNeverRegress
  BY HistoryCorrect, PTL DEF HistoryInv

(* A recovered owner's token is below the token of every later grant of    *)
(* the task: the recovery's own row raised it (recover, admit).            *)
THEOREM RecoveredOwnersFenced == Spec => []RecoveredOwnerFenced
<1>1. HistoryInv => RecoveredOwnerFenced
  <2> SUFFICES ASSUME HistoryInv,
                      NEW i \in DOMAIN ledger, NEW k \in DOMAIN ledger,
                      NEW j \in DOMAIN ledger, i < k, k < j,
                      ledger[i].type = "lease_granted",
                      ledger[k].type = "lease_recovered",
                      ledger[j].type = "lease_granted",
                      ledger[k].lease = ledger[i].lease,
                      ledger[j].task = ledger[i].task
               PROVE  ledger[i].fence < ledger[j].fence
    BY DEF RecoveredOwnerFenced
  <2>1. ledger[k].task = ledger[i].task /\ ledger[k].fence = ledger[i].fence + 1
    BY DEF HistoryInv, Lineage
  <2>2. ledger[k].fence <= ledger[j].fence
    BY <2>1 DEF HistoryInv, GrantsNeverRegress
  <2>3. ledger[i].fence \in Nat /\ ledger[j].fence \in Nat
    <3>1. ledger[i] \in Row /\ ledger[j] \in Row
      BY ElementFacts DEF HistoryInv, TypeOK
    <3> QED
      BY <3>1 DEF Row
  <2> QED
    BY <2>1, <2>2, <2>3
<1> QED
  BY <1>1, HistoryCorrect, PTL

-----------------------------------------------------------------------------
(* Held leases.                                                            *)

(* The reader of the ledger computes exactly the held leases.              *)
LEMMA ActiveIsHeld ==
    ASSUME HistoryInv
    PROVE  Active = Held
<1>1. Active \subseteq Held
  <2> SUFFICES ASSUME NEW i \in Active PROVE i \in Held
    OBVIOUS
  <2>1. i \in DOMAIN ledger /\ ledger[i].type = "lease_granted"
    BY ActiveFacts DEF HistoryInv, TypeOK
  <2>2. ASSUME NEW j \in DOMAIN ledger, ledger[j].lease = ledger[i].lease
        PROVE  ledger[j].type \notin TerminalLeaseEvents
    <3>1. i <= j /\ i \in Nat /\ j \in Nat
      BY <2>1, <2>2 DEF HistoryInv, Lineage, TypeOK
    <3>2. j > i => ledger[j].type \notin TerminalLeaseEvents
      BY <2>2 DEF Active, ActiveRows, SettlesLease
    <3>3. i = j => ledger[j].type \notin TerminalLeaseEvents
      BY <2>1 DEF TerminalLeaseEvents
    <3> QED
      BY <3>1, <3>2, <3>3
  <2> QED
    BY <2>1, <2>2 DEF Held, RowsOfType
<1>2. Held \subseteq Active
  <2> SUFFICES ASSUME NEW i \in Held, NEW j \in DOMAIN ledger, j > i,
                      ledger[j].lease = ledger[i].lease
               PROVE  ledger[j].type \notin TerminalLeaseEvents \cup {"lease_granted"}
    BY DEF Held, Active, ActiveRows, SettlesLease
  <2>1. i \in DOMAIN ledger /\ ledger[i].type = "lease_granted" /\ i # j
    BY DEF Held, RowsOfType, HistoryInv, TypeOK
  <2>2. ledger[j].type \notin TerminalLeaseEvents
    BY DEF Held
  <2>3. ledger[j].type # "lease_granted"
    BY <2>1 DEF HistoryInv, GrantedOnce, RowsOfType
  <2> QED
    BY <2>2, <2>3
<1> QED
  BY <1>1, <1>2

(* How one appended row changes the held leases.                           *)
LEMMA HeldStep ==
    ASSUME HistoryInv, NEW row \in Row, Appends(row), ledger' = Append(ledger, row)
    PROVE  LET n == Len(ledger) + 1 IN
           /\ n \notin DOMAIN ledger /\ n \in Nat /\ ledger'[n] = row
           /\ \A i \in Held : i \in Nat /\ i < n /\ ledger'[i] = ledger[i]
           /\ Granting(row) => Held' = Held \cup {n}
           /\ Continuing(row) => Held' \subseteq Held
<1> DEFINE n == Len(ledger) + 1
<1>1. /\ DOMAIN ledger' = DOMAIN ledger \cup {n}
      /\ \A i \in DOMAIN ledger : ledger'[i] = ledger[i] /\ i \in Nat /\ i < n
      /\ ledger'[n] = row /\ n \in Nat /\ n \notin DOMAIN ledger
  BY AppendFacts DEF HistoryInv, TypeOK
<1> HIDE DEF n
<1>2. \A i \in Held : i \in DOMAIN ledger
  BY DEF Held, RowsOfType
<1>3. ASSUME Granting(row) PROVE Held' = Held \cup {n}
  <2>1. \A i \in DOMAIN ledger : i \in Held' <=> i \in Held
    BY <1>1, <1>3 DEF Held, RowsOfType, Granting, TerminalLeaseEvents
  <2>2. n \in Held'
    BY <1>1, <1>3 DEF Held, RowsOfType, Granting, LeaseUnused, TerminalLeaseEvents
  <2>3. Held' \subseteq DOMAIN ledger \cup {n}
    BY <1>1 DEF Held, RowsOfType
  <2> QED
    BY <1>2, <2>1, <2>2, <2>3
<1>4. ASSUME Continuing(row) PROVE Held' \subseteq Held
  BY <1>1, <1>4 DEF Held, RowsOfType, Continuing
<1> QED
  BY <1>1, <1>2, <1>3, <1>4 DEF n

(* A step grants a lease that no held lease's limit excludes, or only      *)
(* removes held leases.                                                    *)
LEMMA HeldCases ==
    ASSUME HistoryInv, [Next]_vars
    PROVE  \/ /\ Held' \subseteq Held
              /\ \A i \in Held : ledger'[i] = ledger[i]
           \/ \E row \in Row :
                /\ Granting(row)
                /\ ledger'[Len(ledger) + 1] = row
                /\ Held' = Held \cup {Len(ledger) + 1}
                /\ Len(ledger) + 1 \in Nat
                /\ \A i \in Held : i \in Nat /\ i < Len(ledger) + 1 /\ ledger'[i] = ledger[i]
<1>1. CASE UNCHANGED ledger
  BY <1>1 DEF Held, RowsOfType
<1>2. CASE \E row \in Row : Appends(row) /\ ledger' = Append(ledger, row)
  <2>1. PICK row \in Row : Appends(row) /\ ledger' = Append(ledger, row)
    BY <1>2
  <2>2. CASE Granting(row)
    BY <2>1, <2>2, HeldStep
  <2>3. CASE Continuing(row)
    BY <2>1, <2>3, HeldStep
  <2> QED
    BY <2>1, <2>2, <2>3 DEF Appends
<1> QED
  BY <1>1, <1>2, StepShape DEF HistoryInv

(* Only finitely many grants can be held at once.                          *)
LEMMA HeldFinite ==
    ASSUME TypeOK
    PROVE  IsFiniteSet(Held)
<1>1. Len(ledger) \in Nat /\ DOMAIN ledger = 1 .. Len(ledger)
  BY DEF TypeOK
<1>2. IsFiniteSet(1 .. Len(ledger))
  BY <1>1, FS_Interval
<1>3. Held \subseteq 1 .. Len(ledger)
  BY <1>1 DEF Held, RowsOfType
<1> QED
  BY <1>2, <1>3, FS_Subset

(* An independent envelope never joined a held lease of its own group, and *)
(* none of its excluded groups serves it (_resource_rejection).            *)
THEOREM IndependenceHolds == Spec => []IndependenceKept
<1>1. Init => IndependenceKept
  BY DEF Init, IndependenceKept, Held, RowsOfType
<1>2. HistoryInv /\ IndependenceKept /\ [Next]_vars => IndependenceKept'
  <2> SUFFICES ASSUME HistoryInv, IndependenceKept, [Next]_vars
               PROVE  IndependenceKept'
    OBVIOUS
  <2>1. CASE Held' \subseteq Held /\ \A i \in Held : ledger'[i] = ledger[i]
    BY <2>1 DEF IndependenceKept
  <2>2. CASE \E row \in Row :
                /\ Granting(row)
                /\ ledger'[Len(ledger) + 1] = row
                /\ Held' = Held \cup {Len(ledger) + 1}
                /\ Len(ledger) + 1 \in Nat
                /\ \A i \in Held : i \in Nat /\ i < Len(ledger) + 1 /\ ledger'[i] = ledger[i]
    BY <2>2, ActiveIsHeld DEF IndependenceKept, Granting, IndependenceClear
  <2> QED
    BY <2>1, <2>2, HeldCases
<1> QED
  BY <1>1, <1>2, HistoryCorrect, PTL DEF Spec

(* A lease leaves the held set before its expiry only by its own release   *)
(* (release, recover).                                                     *)
THEOREM NeverReclaimedBeforeExpiry == Spec => NeverReclaimedEarly
<1>1. HistoryInv /\ [Next]_vars =>
        [\A i \in Held : i \notin Held' =>
           \/ ledger'[Len(ledger')].type = "lease_released"
           \/ ledger'[Len(ledger')].type = "lease_recovered"
              /\ ledger[i].expires <= clock]_vars
  <2> SUFFICES ASSUME HistoryInv, [Next]_vars, NEW i \in Held, i \notin Held'
               PROVE  \/ ledger'[Len(ledger')].type = "lease_released"
                      \/ ledger'[Len(ledger')].type = "lease_recovered"
                         /\ ledger[i].expires <= clock
    OBVIOUS
  <2>1. PICK row \in Row : Appends(row) /\ ledger' = Append(ledger, row)
    BY StepShape DEF Held, RowsOfType, HistoryInv
  <2>2. Continuing(row)
    BY <2>1, HeldStep DEF Appends
  <2>3. PICK k \in Active :
          /\ row.lease = ledger[k].lease
          /\ row.type = "lease_recovered" => ledger[k].expires <= clock
          /\ row.type \in TerminalLeaseEvents =>
                 row.type \in {"lease_released", "lease_recovered"}
    BY <2>2 DEF Continuing
  <2>4. /\ DOMAIN ledger' = DOMAIN ledger \cup {Len(ledger) + 1}
        /\ \A j \in DOMAIN ledger : ledger'[j] = ledger[j]
        /\ ledger'[Len(ledger')] = row /\ ledger'[Len(ledger) + 1] = row
    BY <2>1, AppendFacts DEF HistoryInv, TypeOK
  <2>5. ledger[i].lease = row.lease /\ row.type \in TerminalLeaseEvents
    BY <2>4 DEF Held, RowsOfType
  <2>6. k = i
    BY <2>3, <2>5, ActiveFacts DEF HistoryInv, TypeOK, GrantedOnce, Held, RowsOfType
  <2> QED
    BY <2>3, <2>4, <2>5, <2>6
<1> QED
  BY <1>1, HistoryCorrect, PTL DEF Spec, NeverReclaimedEarly

-----------------------------------------------------------------------------
(* Limits.                                                                 *)

(* A set that grows by at most one element grows in size by at most one.   *)
LEMMA GrowByOne ==
    ASSUME NEW S, NEW T, NEW x, IsFiniteSet(S), T \subseteq S \cup {x}
    PROVE  /\ IsFiniteSet(T) /\ Cardinality(T) \in Nat /\ Cardinality(S) \in Nat
           /\ Cardinality(T) <= Cardinality(S) + 1
           /\ T \subseteq S => Cardinality(T) <= Cardinality(S)
<1>1. IsFiniteSet(S \cup {x}) /\ Cardinality(S \cup {x}) <= Cardinality(S) + 1
      /\ Cardinality(S) \in Nat
  BY FS_AddElement, FS_CardinalityType
<1>2. IsFiniteSet(T) /\ Cardinality(T) <= Cardinality(S \cup {x})
  BY <1>1, FS_Subset
<1>3. Cardinality(T) \in Nat /\ Cardinality(S \cup {x}) \in Nat
  BY <1>1, <1>2, FS_CardinalityType
<1>4. T \subseteq S => Cardinality(T) <= Cardinality(S)
  BY FS_Subset
<1> QED
  BY <1>1, <1>2, <1>3, <1>4

(* The rows of a class that are held, before and after a step: the class   *)
(* grows only by a grant of the class, and then by that row alone.         *)
LEMMA ClassStep ==
    ASSUME HistoryInv, [Next]_vars, NEW Class, NEW limit \in Nat,
           Cardinality({i \in Held : ledger[i] \in Class}) <= limit,
           \A row \in Row : Granting(row) /\ row \in Class =>
               Cardinality({i \in Active : ledger[i] \in Class}) < limit
    PROVE  Cardinality({i \in Held : ledger[i] \in Class}') <= limit
<1> DEFINE S == {i \in Held : ledger[i] \in Class}
           T == {i \in Held' : ledger'[i] \in Class}
<1>1. IsFiniteSet(S)
  BY HeldFinite, FS_Subset DEF HistoryInv
<1>2. CASE T \subseteq S
  <2>1. Cardinality(T) <= Cardinality(S) /\ Cardinality(T) \in Nat /\ Cardinality(S) \in Nat
    BY <1>1, <1>2, GrowByOne
  <2> QED
    BY <2>1
<1>3. CASE \E row \in Row : Granting(row) /\ row \in Class /\ T \subseteq S \cup {Len(ledger) + 1}
  <2>1. Cardinality(T) <= Cardinality(S) + 1 /\ Cardinality(T) \in Nat /\ Cardinality(S) \in Nat
    BY <1>1, <1>3, GrowByOne
  <2>2. Cardinality(S) < limit
    BY <1>3, ActiveIsHeld
  <2> QED
    BY <2>1, <2>2
<1>4. T \subseteq S \/ \E row \in Row : Granting(row) /\ row \in Class
                                   /\ T \subseteq S \cup {Len(ledger) + 1}
  BY HeldCases
<1> QED
  BY <1>2, <1>3, <1>4

(* What admission counted for the route of a granted row.                  *)
LEMMA CountedAtGrant ==
    ASSUME NEW row, Granting(row)
    PROVE  /\ Cardinality(Active) < Policy.globalLimit
           /\ Cardinality({i \in Active : ledger[i].route = row.route})
                < RouteInfo[row.route].limit
           /\ Cardinality({i \in Active : RouteInfo[ledger[i].route].provider
                                            = RouteInfo[row.route].provider})
                < Policy.providerLimit[RouteInfo[row.route].provider]
           /\ Cardinality({i \in Active : RouteInfo[ledger[i].route].host
                                            = RouteInfo[row.route].host})
                < Policy.hostLimit[RouteInfo[row.route].host]
  BY DEF Granting, CapacityClear, Where

(* The number of held leases respects the global limit, the limit of every *)
(* route, of its provider and of its runtime host (_resource_rejection).   *)
THEOREM CapacityHolds == Spec => []CapacityRespected
<1> DEFINE OfRoute(r) == {row \in Row : row.route = r}
           OfProvider(r) == {row \in Row : RouteInfo[row.route].provider = RouteInfo[r].provider}
           OfHost(r) == {row \in Row : RouteInfo[row.route].host = RouteInfo[r].host}
           Count(Class) == Cardinality({i \in Held : ledger[i] \in Class})
           Inv == /\ Count(Row) <= Policy.globalLimit
                  /\ \A r \in Route :
                       /\ Count(OfRoute(r)) <= RouteInfo[r].limit
                       /\ Count(OfProvider(r)) <= Policy.providerLimit[RouteInfo[r].provider]
                       /\ Count(OfHost(r)) <= Policy.hostLimit[RouteInfo[r].host]
<1>1. Init => Inv
  <2> SUFFICES ASSUME Init PROVE Inv
    OBVIOUS
  <2>1. \A Class : {i \in Held : ledger[i] \in Class} = {}
    BY DEF Init, Held, RowsOfType
  <2>2. \A Class : Count(Class) = 0
    BY <2>1, FS_EmptySet
  <2> HIDE DEF Count, OfRoute, OfProvider, OfHost
  <2> QED
    BY <2>2, ConstantsAssumption
<1>2. HistoryInv /\ Inv /\ [Next]_vars => Inv'
  <2> SUFFICES ASSUME HistoryInv, Inv, [Next]_vars PROVE Inv'
    OBVIOUS
  <2>1. \A i \in Active : ledger[i] \in Row
    BY ActiveFacts DEF HistoryInv, TypeOK
  <2>2. Count(Row)' <= Policy.globalLimit
    <3>1. \A row \in Row : Granting(row) /\ row \in Row =>
            Cardinality({i \in Active : ledger[i] \in Row}) < Policy.globalLimit
      <4>1. {i \in Active : ledger[i] \in Row} = Active
        BY <2>1
      <4> QED
        BY <4>1, CountedAtGrant
    <3>2. Policy.globalLimit \in Nat
      BY ConstantsAssumption
    <3> QED
      BY <3>1, <3>2, ClassStep
  <2>3. ASSUME NEW r \in Route PROVE Count(OfRoute(r))' <= RouteInfo[r].limit
    <3>1. ASSUME NEW row \in Row, Granting(row), row \in OfRoute(r)
          PROVE  Cardinality({i \in Active : ledger[i] \in OfRoute(r)}) < RouteInfo[r].limit
      <4>1. {i \in Active : ledger[i] \in OfRoute(r)} =
              {i \in Active : ledger[i].route = row.route}
        BY <2>1, <3>1
      <4>2. RouteInfo[row.route].limit = RouteInfo[r].limit
        BY <3>1
      <4> HIDE DEF OfRoute
      <4> QED
        BY <3>1, <4>1, <4>2, CountedAtGrant
    <3>2. RouteInfo[r].limit \in Nat
      BY ConstantsAssumption
    <3> QED
      BY <3>1, <3>2, ClassStep
  <2>4. ASSUME NEW r \in Route
        PROVE  Count(OfProvider(r))' <= Policy.providerLimit[RouteInfo[r].provider]
    <3>1. ASSUME NEW row \in Row, Granting(row), row \in OfProvider(r)
          PROVE  Cardinality({i \in Active : ledger[i] \in OfProvider(r)}) < Policy.providerLimit[RouteInfo[r].provider]
      <4>1. {i \in Active : ledger[i] \in OfProvider(r)} =
              {i \in Active : RouteInfo[ledger[i].route].provider = RouteInfo[row.route].provider}
        BY <2>1, <3>1
      <4>2. RouteInfo[row.route].provider = RouteInfo[r].provider
        BY <3>1
      <4> HIDE DEF OfProvider
      <4> QED
        BY <3>1, <4>1, <4>2, CountedAtGrant
    <3>2. Policy.providerLimit[RouteInfo[r].provider] \in Nat
      BY ConstantsAssumption
    <3> QED
      BY <3>1, <3>2, ClassStep
  <2>5. ASSUME NEW r \in Route
        PROVE  Count(OfHost(r))' <= Policy.hostLimit[RouteInfo[r].host]
    <3>1. ASSUME NEW row \in Row, Granting(row), row \in OfHost(r)
          PROVE  Cardinality({i \in Active : ledger[i] \in OfHost(r)}) < Policy.hostLimit[RouteInfo[r].host]
      <4>1. {i \in Active : ledger[i] \in OfHost(r)} =
              {i \in Active : RouteInfo[ledger[i].route].host = RouteInfo[row.route].host}
        BY <2>1, <3>1
      <4>2. RouteInfo[row.route].host = RouteInfo[r].host
        BY <3>1
      <4> HIDE DEF OfHost
      <4> QED
        BY <3>1, <4>1, <4>2, CountedAtGrant
    <3>2. Policy.hostLimit[RouteInfo[r].host] \in Nat
      BY ConstantsAssumption
    <3> QED
      BY <3>1, <3>2, ClassStep
  <2> QED
    BY <2>2, <2>3, <2>4, <2>5
<1>3. HistoryInv /\ Inv => CapacityRespected
  <2> SUFFICES ASSUME HistoryInv, Inv PROVE CapacityRespected
    OBVIOUS
  <2>1. \A i \in Held : ledger[i] \in Row
    BY ElementFacts DEF HistoryInv, TypeOK, Held, RowsOfType
  <2>2. {i \in Held : ledger[i] \in Row} = Held
    BY <2>1
  <2>3. ASSUME NEW r \in Route
        PROVE  /\ {i \in Held : ledger[i] \in OfRoute(r)}
                     = HeldWhere(LAMBDA row : row.route = r)
               /\ {i \in Held : ledger[i] \in OfProvider(r)}
                     = HeldWhere(LAMBDA row : RouteInfo[row.route].provider = RouteInfo[r].provider)
               /\ {i \in Held : ledger[i] \in OfHost(r)}
                     = HeldWhere(LAMBDA row : RouteInfo[row.route].host = RouteInfo[r].host)
    BY <2>1 DEF HeldWhere
  <2> QED
    BY <2>2, <2>3 DEF CapacityRespected
<1> QED
  BY <1>1, <1>2, <1>3, HistoryCorrect, PTL DEF Spec

(* The writer limit is below the ceiling, the board's and the              *)
(* configuration's limit.                                                  *)
LEMMA WriterLimitFacts ==
    /\ WriterLimit \in Nat /\ WriterLimit <= 2
    /\ WriterLimit <= Policy.boardWriters /\ WriterLimit <= Policy.configWriters
<1> DEFINE b == Policy.boardWriters
           c == Policy.configWriters
           S == {CeilingWriteWorkers, b, c}
<1>1. CeilingWriteWorkers = 2 /\ b \in Nat /\ c \in Nat
  BY ConstantsAssumption DEF CeilingWriteWorkers
<1> HIDE DEF b, c
<1>2. \E x \in S : \A y \in S : x <= y
  <2>1. CASE b <= c /\ b <= 2
    BY <1>1, <2>1
  <2>2. CASE c <= b /\ c <= 2
    BY <1>1, <2>2
  <2>3. CASE 2 <= b /\ 2 <= c
    BY <1>1, <2>3
  <2> QED
    BY <1>1, <2>1, <2>2, <2>3
<1>3. Min(S) \in S /\ \A y \in S : Min(S) <= y
  BY <1>2 DEF Min
<1>4. WriterLimit = Min(S)
  BY DEF WriterLimit, b, c
<1> QED
  BY <1>1, <1>3, <1>4 DEF b, c

(* Held writers stay within the ceiling of two, the board's and the        *)
(* configuration's limit, and their scopes are disjoint                    *)
(* (_resource_rejection).                                                  *)
THEOREM WritersHold == Spec => []WritersIsolated
<1> DEFINE Writer(row) == EnvelopeInfo[row.envelope].writer
           Scope(row) == EnvelopeInfo[row.envelope].scope
           Writers == {row \in Row : Writer(row)}
           Few == Cardinality({i \in Held : ledger[i] \in Writers}) <= WriterLimit
           Apart == \A i, j \in Held :
                      i # j /\ Writer(ledger[i]) /\ Writer(ledger[j]) =>
                          Scope(ledger[i]) \cap Scope(ledger[j]) = {}
<1>1. Init => Few /\ Apart
  <2> SUFFICES ASSUME Init PROVE Few /\ Apart
    OBVIOUS
  <2>1. Held = {}
    BY DEF Init, Held, RowsOfType
  <2>2. {i \in Held : ledger[i] \in Writers} = {}
    BY <2>1
  <2>3. Few
    BY <2>2, FS_EmptySet, WriterLimitFacts
  <2> QED
    BY <2>1, <2>3
<1>2. HistoryInv /\ Few /\ Apart /\ [Next]_vars => Few' /\ Apart'
  <2> SUFFICES ASSUME HistoryInv, Few, Apart, [Next]_vars PROVE Few' /\ Apart'
    OBVIOUS
  <2>1. ASSUME NEW row \in Row, Granting(row), row \in Writers
        PROVE  Cardinality({i \in Active : ledger[i] \in Writers}) < WriterLimit
    <3>1. {i \in Active : ledger[i] \in Writers}
            = Where(LAMBDA r : EnvelopeInfo[r.envelope].writer)
      BY ActiveFacts DEF Where, HistoryInv, TypeOK
    <3> QED
      BY <2>1, <3>1 DEF Granting, WriterClear
  <2>2. Few'
    <3> HIDE DEF Writers
    <3> QED
      BY <2>1, WriterLimitFacts, ClassStep
  <2>3. Apart'
    <3>1. CASE Held' \subseteq Held /\ \A i \in Held : ledger'[i] = ledger[i]
      BY <3>1
    <3>2. CASE \E row \in Row :
                /\ Granting(row)
                /\ ledger'[Len(ledger) + 1] = row
                /\ Held' = Held \cup {Len(ledger) + 1}
                /\ Len(ledger) + 1 \in Nat
                /\ \A i \in Held : i \in Nat /\ i < Len(ledger) + 1 /\ ledger'[i] = ledger[i]
      <4>1. PICK row \in Row :
                /\ Granting(row)
                /\ ledger'[Len(ledger) + 1] = row
                /\ Held' = Held \cup {Len(ledger) + 1}
                /\ \A i \in Held : ledger'[i] = ledger[i]
        BY <3>2
      <4>2. \A i \in Held : Writer(row) /\ Writer(ledger[i]) =>
                Scope(row) \cap Scope(ledger[i]) = {}
        BY <4>1, ActiveIsHeld DEF Granting, WriterClear
      <4> QED
        BY <4>1, <4>2
    <3> QED
      BY <3>1, <3>2, HeldCases
  <2> QED
    BY <2>2, <2>3
<1>3. HistoryInv /\ Few /\ Apart => WritersIsolated
  <2> SUFFICES ASSUME HistoryInv, Few, Apart PROVE WritersIsolated
    OBVIOUS
  <2> DEFINE W == HeldWhere(LAMBDA row : EnvelopeInfo[row.envelope].writer)
  <2>1. {i \in Held : ledger[i] \in Writers} = W
    BY ElementFacts DEF HeldWhere, HistoryInv, TypeOK, Held, RowsOfType
  <2>2. Cardinality(W) \in Nat
    BY HeldFinite, FS_Subset, FS_CardinalityType DEF HeldWhere, HistoryInv
  <2>3. /\ Cardinality(W) <= 2
        /\ Cardinality(W) <= Policy.boardWriters
        /\ Cardinality(W) <= Policy.configWriters
    <3>1. Cardinality(W) <= WriterLimit
      BY <2>1
    <3>2. Policy.boardWriters \in Nat /\ Policy.configWriters \in Nat
      BY ConstantsAssumption
    <3> HIDE DEF W
    <3> QED
      BY <2>2, <3>1, <3>2, WriterLimitFacts
  <2>4. \A i, j \in W : i # j =>
            EnvelopeInfo[ledger[i].envelope].scope
                \cap EnvelopeInfo[ledger[j].envelope].scope = {}
    BY DEF HeldWhere
  <2> QED
    BY <2>3, <2>4 DEF WritersIsolated
<1> QED
  BY <1>1, <1>2, <1>3, HistoryCorrect, PTL DEF Spec

-----------------------------------------------------------------------------
(* Sums: what the folds of the community modules compute, by induction.    *)

(* What holds of zero, and of a number's successor with the number, holds  *)
(* of every natural number.                                                *)
LEMMA Induction ==
    ASSUME NEW N, 0 \in N, \A n \in Nat : n \in N => n + 1 \in N
    PROVE  Nat \subseteq N
<1> SUFFICES ASSUME Nat \ N # {} PROVE FALSE
  OBVIOUS
<1>1. IsWellFoundedOn({ss \in Nat \X Nat : ss[1] < ss[2]}, Nat)
  BY NatLessThanWellFounded DEF OpToRel
<1>2. PICK n \in Nat \ N : \A m \in Nat \ N : <<m, n>> \notin {ss \in Nat \X Nat : ss[1] < ss[2]}
  BY <1>1, WFMin, Nat \ N \subseteq Nat
<1>3. \A m \in Nat \ N : ~(m < n)
  BY <1>2
<1>4. n - 1 \in Nat /\ n - 1 \in N
  BY <1>3
<1>5. (n - 1) + 1 \in N
  BY <1>4
<1> QED
  BY <1>5

(* An element of a set, as the folds choose it.                            *)
Pick(s) == CHOOSE x \in s : TRUE

(* The sums of f over the subsets of S that D has, as the folds compute    *)
(* them.                                                                   *)
IsSum(iter, f, D) ==
    iter = [s \in D |-> IF s = {} THEN 0 ELSE f[Pick(s)] + iter[s \ {Pick(s)}]]

LEMMA PickIn == ASSUME NEW s, s # {} PROVE Pick(s) \in s
  BY DEF Pick

(* Removing an element of a finite set leaves one less.                    *)
LEMMA OneLess ==
    ASSUME NEW S, IsFiniteSet(S), NEW T \in SUBSET S, NEW x \in T, NEW n \in Nat
    PROVE  /\ IsFiniteSet(T) /\ Cardinality(T) \in Nat
           /\ Cardinality(T) = n + 1 <=> Cardinality(T \ {x}) = n
           /\ Cardinality(T) <= n + 1 <=> Cardinality(T \ {x}) <= n
           /\ Cardinality(T) > 0
<1>1. IsFiniteSet(T) /\ Cardinality(T) \in Nat
  BY FS_Subset, FS_CardinalityType
<1>2. Cardinality(T \ {x}) = Cardinality(T) - 1 /\ IsFiniteSet(T \ {x})
  BY <1>1, FS_RemoveElement
<1>3. Cardinality(T \ {x}) \in Nat
  BY <1>2, FS_CardinalityType
<1> QED
  BY <1>1, <1>2, <1>3

(* The recursion of the folds has a solution over the subsets of a finite  *)
(* set.                                                                    *)
LEMMA SumExists ==
    ASSUME NEW S, IsFiniteSet(S), NEW f
    PROVE  \E iter : IsSum(iter, f, SUBSET S)
<1> DEFINE D(n) == {T \in SUBSET S : Cardinality(T) <= n}
           N == {n \in Nat : \E iter : IsSum(iter, f, D(n))}
<1>1. 0 \in N
  <2>1. \A s \in D(0) : s = {}
    <3> SUFFICES ASSUME NEW s \in SUBSET S, Cardinality(s) <= 0, s # {} PROVE FALSE
      OBVIOUS
    <3>1. Pick(s) \in s
      BY PickIn
    <3>2. Cardinality(s) \in Nat /\ Cardinality(s) > 0
      BY <3>1, OneLess, 0 \in Nat
    <3> QED
      BY <3>2
  <2>2. IsSum([s \in D(0) |-> 0], f, D(0))
    BY <2>1 DEF IsSum
  <2> QED
    BY <2>2
<1>2. ASSUME NEW n \in Nat, n \in N PROVE n + 1 \in N
  <2>1. PICK g : IsSum(g, f, D(n))
    BY <1>2
  <2> DEFINE h == [s \in D(n + 1) |-> IF s = {} THEN 0 ELSE f[Pick(s)] + g[s \ {Pick(s)}]]
  <2>2. ASSUME NEW s \in D(n + 1), s # {} PROVE s \ {Pick(s)} \in D(n) /\ s \ {Pick(s)} \in D(n + 1)
    <3>1. Cardinality(s \ {Pick(s)}) <= n
      BY <2>2, PickIn, OneLess
    <3>2. s \ {Pick(s)} \in SUBSET S
      BY <2>2
    <3>3. Cardinality(s \ {Pick(s)}) \in Nat
      BY <3>2, FS_Subset, FS_CardinalityType
    <3> QED
      BY <3>1, <3>2, <3>3
  <2>3. \A s \in D(n) : g[s] = IF s = {} THEN 0 ELSE f[Pick(s)] + g[s \ {Pick(s)}]
    BY <2>1 DEF IsSum
  <2>4. \A s \in D(n + 1) : s # {} => h[s \ {Pick(s)}] = g[s \ {Pick(s)}]
    BY <2>2, <2>3
  <2>5. h = [s \in D(n + 1) |-> IF s = {} THEN 0 ELSE f[Pick(s)] + h[s \ {Pick(s)}]]
    BY <2>4
  <2> HIDE DEF h
  <2> HIDE DEF D
  <2>6. IsSum(h, f, D(n + 1))
    BY <2>5 DEF IsSum
  <2>7. n + 1 \in Nat
    OBVIOUS
  <2> QED
    BY <2>6, <2>7
<1>3. Cardinality(S) \in N
  <2> HIDE DEF N
  <2> QED
    BY <1>1, <1>2, Induction, FS_CardinalityType
<1>4. D(Cardinality(S)) = SUBSET S
  BY FS_Subset
<1> QED
  BY <1>3, <1>4

(* Any element of a subset may be taken out first.                         *)
LEMMA SumTakesAny ==
    ASSUME NEW S, IsFiniteSet(S), NEW f, \A x \in S : f[x] \in Nat,
           NEW iter, IsSum(iter, f, SUBSET S)
    PROVE  /\ iter[{}] = 0
           /\ \A T \in SUBSET S : iter[T] \in Nat
           /\ \A T \in SUBSET S, x \in S : x \in T => iter[T] = f[x] + iter[T \ {x}]
<1> DEFINE Law(T) == iter[T] \in Nat /\ \A x \in S : x \in T => iter[T] = f[x] + iter[T \ {x}]
           N == {n \in Nat : \A T \in SUBSET S : Cardinality(T) <= n => Law(T)}
<1>1. iter[{}] = 0
  BY DEF IsSum
<1>2. \A T \in SUBSET S : T # {} => iter[T] = f[Pick(T)] + iter[T \ {Pick(T)}]
  BY DEF IsSum
<1>3. 0 \in N
  <2>1. \A T \in SUBSET S : Cardinality(T) <= 0 => T = {}
    BY FS_EmptySet, FS_Subset, FS_CardinalityType
  <2>2. Law({})
    BY <1>1
  <2> HIDE DEF Law
  <2> QED
    BY <2>1, <2>2
<1>4. ASSUME NEW n \in Nat, n \in N PROVE n + 1 \in N
  <2> SUFFICES ASSUME NEW T \in SUBSET S, Cardinality(T) <= n + 1 PROVE Law(T)
    OBVIOUS
  <2>1. \A U \in SUBSET T, x \in T : Law(U \ {x})
    <3> SUFFICES ASSUME NEW U \in SUBSET T, NEW x \in T PROVE Law(U \ {x})
      OBVIOUS
    <3>1. Cardinality(T \ {x}) <= n /\ IsFiniteSet(T \ {x})
      BY OneLess, FS_Subset
    <3>2. Cardinality(U \ {x}) <= Cardinality(T \ {x}) /\ Cardinality(U \ {x}) \in Nat
          /\ Cardinality(T \ {x}) \in Nat
      BY <3>1, FS_Subset, FS_CardinalityType, U \ {x} \in SUBSET (T \ {x})
    <3>3. Cardinality(U \ {x}) <= n
      BY <3>1, <3>2
    <3> HIDE DEF Law
    <3> QED
      BY <1>4, <3>3
  <2>2. CASE T = {}
    BY <1>1, <2>2
  <2>3. CASE T # {}
    <3> DEFINE c == Pick(T)
    <3>1. c \in T /\ iter[T] = f[c] + iter[T \ {c}]
      BY <1>2, <2>3, PickIn
    <3> HIDE DEF c
    <3>2. f[c] \in Nat /\ iter[T \ {c}] \in Nat
      BY <2>1, <3>1, T \in SUBSET T
    <3>3. iter[T] \in Nat
      BY <3>1, <3>2
    <3>4. ASSUME NEW x \in T, x # c PROVE iter[T] = f[x] + iter[T \ {x}]
      <4> DEFINE w == iter[(T \ {c}) \ {x}]
      <4>1. iter[T \ {c}] = f[x] + w
        BY <2>1, <3>1, <3>4, T \in SUBSET T
      <4>2. (T \ {c}) \ {x} = (T \ {x}) \ {c}
        OBVIOUS
      <4>3. iter[T \ {x}] = f[c] + w
        <5>1. Law(T \ {x})
          BY <2>1, T \in SUBSET T
        <5>2. c \in T \ {x} /\ c \in S
          BY <3>1, <3>4
        <5> QED
          BY <4>2, <5>1, <5>2
      <4>4. w \in Nat
        BY <2>1, T \ {c} \in SUBSET T
      <4>5. f[x] \in Nat
        OBVIOUS
      <4> HIDE DEF w
      <4> QED
        BY <3>1, <3>2, <4>1, <4>3, <4>4, <4>5
    <3> QED
      BY <3>1, <3>3, <3>4
  <2> QED
    BY <2>2, <2>3
<1>5. ASSUME NEW T \in SUBSET S PROVE Law(T)
  <2>1. Cardinality(T) \in Nat
    BY FS_Subset, FS_CardinalityType
  <2>2. Cardinality(T) \in N
    <3> HIDE DEF N
    <3> QED
      BY <1>3, <1>4, <2>1, Induction
  <2> HIDE DEF Law
  <2> QED
    BY <2>1, <2>2
<1> QED
  BY <1>1, <1>5

(* Any summand may be counted first.                                       *)
LEMMA SumWithout ==
    ASSUME NEW S, IsFiniteSet(S), NEW f, \A y \in S : f[y] \in Nat,
           NEW iter, IsSum(iter, f, SUBSET S), NEW x \in S
    PROVE  iter[S] = f[x] + iter[S \ {x}] /\ iter[S] \in Nat /\ iter[S \ {x}] \in Nat
<1>1. /\ \A T \in SUBSET S : iter[T] \in Nat
      /\ \A T \in SUBSET S, y \in S : y \in T => iter[T] = f[y] + iter[T \ {y}]
  BY SumTakesAny
<1>2. S \in SUBSET S /\ S \ {x} \in SUBSET S
  OBVIOUS
<1> QED
  BY <1>1, <1>2

(* Two sums of the same summands are equal.                                *)
LEMMA SumsAgree ==
    ASSUME NEW S, IsFiniteSet(S), NEW T \in SUBSET S,
           NEW f, NEW g, IsSum(g, f, SUBSET S),
           NEW e, NEW h, IsSum(h, e, SUBSET T), \A x \in T : e[x] = f[x]
    PROVE  h[T] = g[T]
<1> DEFINE N == {n \in Nat : \A U \in SUBSET T : Cardinality(U) <= n => h[U] = g[U]}
<1>1. /\ \A U \in SUBSET T : U # {} => h[U] = e[Pick(U)] + h[U \ {Pick(U)}]
      /\ \A U \in SUBSET S : U # {} => g[U] = f[Pick(U)] + g[U \ {Pick(U)}]
      /\ h[{}] = 0 /\ g[{}] = 0
  BY DEF IsSum
<1>2. 0 \in N
  <2>1. \A U \in SUBSET T : Cardinality(U) <= 0 => U = {}
    BY FS_EmptySet, FS_Subset, FS_CardinalityType
  <2> QED
    BY <1>1, <2>1
<1>3. ASSUME NEW n \in Nat, n \in N PROVE n + 1 \in N
  <2> SUFFICES ASSUME NEW U \in SUBSET T, Cardinality(U) <= n + 1 PROVE h[U] = g[U]
    OBVIOUS
  <2>1. CASE U = {}
    BY <1>1, <2>1
  <2>2. CASE U # {}
    <3>1. Pick(U) \in U
      BY <2>2, PickIn
    <3>2. Cardinality(U \ {Pick(U)}) <= n
      BY <3>1, OneLess, U \in SUBSET S
    <3>3. h[U \ {Pick(U)}] = g[U \ {Pick(U)}]
      BY <1>3, <3>2
    <3> QED
      BY <1>1, <2>2, <3>1, <3>3
  <2> QED
    BY <2>1, <2>2
<1>4. Cardinality(T) \in N
  <2>1. Cardinality(T) \in Nat
    BY FS_Subset, FS_CardinalityType
  <2> HIDE DEF N
  <2> QED
    BY <1>2, <1>3, <2>1, Induction
<1>5. Cardinality(T) \in Nat
  BY <1>4
<1> QED
  BY <1>4, <1>5

(* A subset sums up to no more.                                            *)
LEMMA SumOfSubset ==
    ASSUME NEW S, IsFiniteSet(S), NEW T \in SUBSET S, NEW f, \A x \in S : f[x] \in Nat,
           NEW g, IsSum(g, f, SUBSET S)
    PROVE  g[T] <= g[S]
<1> DEFINE N == {n \in Nat : \A U \in SUBSET S :
                    T \subseteq U /\ Cardinality(U) <= n => g[T] <= g[U]}
<1>1. /\ \A U \in SUBSET S : g[U] \in Nat
      /\ \A U \in SUBSET S, x \in S : x \in U => g[U] = f[x] + g[U \ {x}]
  BY SumTakesAny
<1>2. 0 \in N
  <2> SUFFICES ASSUME NEW U \in SUBSET S, T \subseteq U, Cardinality(U) <= 0
               PROVE  g[T] <= g[U]
    OBVIOUS
  <2>1. U = {}
    BY FS_EmptySet, FS_Subset, FS_CardinalityType
  <2>2. T = U
    BY <2>1
  <2> QED
    BY <1>1, <2>2
<1>3. ASSUME NEW n \in Nat, n \in N PROVE n + 1 \in N
  <2> SUFFICES ASSUME NEW U \in SUBSET S, T \subseteq U, Cardinality(U) <= n + 1
               PROVE  g[T] <= g[U]
    OBVIOUS
  <2>1. CASE T = U
    BY <1>1, <2>1
  <2>2. ASSUME NEW x \in U \ T PROVE g[T] <= g[U]
    <3>1. Cardinality(U \ {x}) <= n
      BY OneLess
    <3>2. g[T] <= g[U \ {x}]
      BY <1>3, <3>1, T \subseteq U \ {x}
    <3>3. g[U] = f[x] + g[U \ {x}] /\ f[x] \in Nat
      BY <1>1
    <3>4. g[T] \in Nat /\ g[U \ {x}] \in Nat
      BY <1>1, U \ {x} \in SUBSET S
    <3> QED
      BY <3>2, <3>3, <3>4
  <2> QED
    BY <2>1, <2>2
<1>4. Cardinality(S) \in N
  <2> HIDE DEF N
  <2> QED
    BY <1>2, <1>3, Induction, FS_CardinalityType
<1>5. Cardinality(S) \in Nat
  BY FS_CardinalityType
<1> QED
  BY <1>4, <1>5

(* A sum over a set with at most one element more, the other summands as   *)
(* before, grows by at most the summand of that element.                   *)
LEMMA SumGrows ==
    ASSUME NEW S, IsFiniteSet(S), NEW x, NEW T, T \subseteq S \cup {x}, x \notin S,
           NEW f, \A i \in S : f[i] \in Nat, NEW g, IsSum(g, f, SUBSET S),
           NEW e, NEW h, IsSum(h, e, SUBSET T),
           \A i \in T : e[i] \in Nat, \A i \in T \cap S : e[i] = f[i]
    PROVE  /\ g[S] \in Nat /\ h[T] \in Nat
           /\ x \notin T => h[T] <= g[S]
           /\ x \in T => h[T] <= g[S] + e[x]
<1>1. IsFiniteSet(T)
  BY FS_AddElement, FS_Subset
<1> DEFINE U == T \ {x}
<1>2. IsFiniteSet(U) /\ U \in SUBSET S /\ U \in SUBSET T
  BY <1>1, FS_RemoveElement
<1>3. x \notin T => U = T
  OBVIOUS
<1>4. /\ \A V \in SUBSET S : g[V] \in Nat
      /\ \A V \in SUBSET T : h[V] \in Nat
      /\ x \in T => h[T] = e[x] + h[U]
  <2>1. \A V \in SUBSET S : g[V] \in Nat
    BY SumTakesAny
  <2>2. \A V \in SUBSET T : h[V] \in Nat
    BY <1>1, SumTakesAny
  <2>3. ASSUME x \in T PROVE h[T] = e[x] + h[T \ {x}]
    BY <1>1, <2>3, SumWithout
  <2> QED
    BY <2>1, <2>2, <2>3
<1>5. \A i \in U : f[i] = e[i] /\ e[i] = f[i]
  OBVIOUS
<1> HIDE DEF U
<1>6. PICK k : IsSum(k, f, SUBSET U)
  BY <1>2, SumExists
<1>7. k[U] = g[U]
  BY <1>2, <1>6, SumsAgree
<1>8. k[U] = h[U]
  BY <1>1, <1>2, <1>5, <1>6, SumsAgree
<1>9. g[U] <= g[S]
  BY <1>2, SumOfSubset
<1>10. g[U] \in Nat /\ g[S] \in Nat /\ h[T] \in Nat /\ (x \in T => e[x] \in Nat)
  BY <1>2, <1>4, S \in SUBSET S, T \in SUBSET T
<1>11. ASSUME x \notin T PROVE h[T] <= g[S]
  BY <1>3, <1>7, <1>8, <1>9, <1>11
<1>12. ASSUME x \in T PROVE h[T] <= g[S] + e[x]
  BY <1>4, <1>7, <1>8, <1>9, <1>10, <1>12
<1> QED
  BY <1>10, <1>11, <1>12

-----------------------------------------------------------------------------
(* Budgets.                                                                *)

(* The number total is the sum of the weights w of the routes of the rows  *)
(* at S.                                                                   *)
Weighs(w, rows, S, total) ==
    \E iter : /\ IsSum(iter, [i \in S |-> w[rows[i].route]], SUBSET S)
              /\ total = iter[S]

Units == [r \in Route |-> RouteInfo[r].units]
Tokens == [r \in Route |-> SumSet(RouteInfo[r].tokens)]

(* What the rows at S have reserved.                                       *)
UnitsOf(rows, S) == MapThenSumSet(LAMBDA i : RouteInfo[rows[i].route].units, S)
ReservedTokens(rows, S) ==
    MapThenSumSet(LAMBDA i : SumSet(RouteInfo[rows[i].route].tokens), S)

(* The fold computes the sum of the units.                                 *)
LEMMA UnitsWeigh ==
    ASSUME NEW rows, NEW S, IsFiniteSet(S), \A i \in S : rows[i].route \in Route
    PROVE  Weighs(Units, rows, S, UnitsOf(rows, S))
<1> DEFINE f == [i \in S |-> Units[rows[i].route]]
           Q(iter) == iter = [s \in SUBSET S |->
               IF s = {} THEN 0
               ELSE RouteInfo[rows[Pick(s)].route].units + iter[s \ {Pick(s)}]]
<1>1. \A s \in SUBSET S : s # {} => f[Pick(s)] = RouteInfo[rows[Pick(s)].route].units
  BY PickIn DEF Units
<1>2. ASSUME NEW iter PROVE IsSum(iter, f, SUBSET S) <=> Q(iter)
  <2> HIDE DEF f
  <2> QED
    BY <1>1 DEF IsSum
<1>3. Q(CHOOSE iter : Q(iter))
  <2>1. \E iter : Q(iter)
    BY <1>2, SumExists
  <2> HIDE DEF Q
  <2> QED
    BY <2>1
<1>4. UnitsOf(rows, S) = (CHOOSE iter : Q(iter))[S]
  BY DEF UnitsOf, MapThenSumSet, MapThenFoldSet, Pick
<1> QED
  BY <1>2, <1>3, <1>4 DEF Weighs

(* The fold computes the sum of the tokens.                                *)
LEMMA TokensWeigh ==
    ASSUME NEW rows, NEW S, IsFiniteSet(S), \A i \in S : rows[i].route \in Route
    PROVE  Weighs(Tokens, rows, S, ReservedTokens(rows, S))
<1> DEFINE f == [i \in S |-> Tokens[rows[i].route]]
           Q(iter) == iter = [s \in SUBSET S |->
               IF s = {} THEN 0
               ELSE SumSet(RouteInfo[rows[Pick(s)].route].tokens) + iter[s \ {Pick(s)}]]
<1>1. \A s \in SUBSET S :
        s # {} => f[Pick(s)] = SumSet(RouteInfo[rows[Pick(s)].route].tokens)
  BY PickIn DEF Tokens
<1>2. ASSUME NEW iter PROVE IsSum(iter, f, SUBSET S) <=> Q(iter)
  <2> HIDE DEF f
  <2> QED
    BY <1>1 DEF IsSum
<1>3. Q(CHOOSE iter : Q(iter))
  <2>1. \E iter : Q(iter)
    BY <1>2, SumExists
  <2> HIDE DEF Q
  <2> QED
    BY <2>1
<1>4. ReservedTokens(rows, S) = (CHOOSE iter : Q(iter))[S]
  BY DEF ReservedTokens, MapThenSumSet, MapThenFoldSet, Pick
<1> QED
  BY <1>2, <1>3, <1>4 DEF Weighs

(* The sum of a set of at most one number is a number, and that number.    *)
LEMMA SumOfOne ==
    ASSUME NEW S, S \subseteq Nat, \A a, b \in S : a = b
    PROVE  SumSet(S) \in Nat /\ \A a \in S : SumSet(S) = a
<1> DEFINE f == [a \in S |-> a]
           Q(iter) == iter = [s \in SUBSET S |->
               IF s = {} THEN 0 ELSE Pick(s) + iter[s \ {Pick(s)}]]
<1>1. IsFiniteSet(S)
  <2>1. CASE S = {}
    BY <2>1, FS_EmptySet
  <2>2. ASSUME NEW a \in S PROVE IsFiniteSet(S)
    BY <2>2, FS_Singleton, S = {a}
  <2> QED
    BY <2>1, <2>2
<1>2. ASSUME NEW iter PROVE IsSum(iter, f, SUBSET S) <=> Q(iter)
  <2>1. \A s \in SUBSET S : s # {} => f[Pick(s)] = Pick(s)
    BY PickIn
  <2> HIDE DEF f
  <2> QED
    BY <2>1 DEF IsSum
<1>3. Q(CHOOSE iter : Q(iter))
  <2>1. \E iter : Q(iter)
    BY <1>1, <1>2, SumExists
  <2> HIDE DEF Q
  <2> QED
    BY <2>1
<1>4. SumSet(S) = (CHOOSE iter : Q(iter))[S]
  BY DEF SumSet, FoldSet, MapThenFoldSet, Pick
<1>5. PICK iter : Q(iter) /\ SumSet(S) = iter[S]
  BY <1>3, <1>4
<1>6. iter[{}] = 0 /\ \A a \in S : iter[S] = a
  <2>1. iter[{}] = 0
    BY <1>5
  <2>2. ASSUME NEW a \in S PROVE iter[S] = a
    <3>1. Pick(S) = a /\ S \ {Pick(S)} = {}
      BY PickIn
    <3>2. iter[S] = Pick(S) + iter[S \ {Pick(S)}]
      BY <1>5
    <3>3. iter[S \ {Pick(S)}] = 0
      BY <2>1, <3>1
    <3>4. iter[S] = a + 0 /\ a \in Nat
      BY <3>1, <3>2, <3>3
    <3> QED
      BY <3>4
  <2> QED
    BY <2>1, <2>2
<1> QED
  BY <1>5, <1>6

(* Reservations are natural numbers; a route with a known token            *)
(* reservation weighs it.                                                  *)
LEMMA WeightFacts ==
    /\ Units \in [Route -> Nat] /\ Tokens \in [Route -> Nat]
    /\ \A r \in Route : \A tokens \in RouteInfo[r].tokens : Tokens[r] = tokens
<1>1. \A r \in Route : /\ RouteInfo[r].units \in Nat
                       /\ SumSet(RouteInfo[r].tokens) \in Nat
                       /\ \A tokens \in RouteInfo[r].tokens :
                              SumSet(RouteInfo[r].tokens) = tokens
  BY ConstantsAssumption, SumOfOne
<1> QED
  BY <1>1 DEF Units, Tokens

(* One more row adds at most the weight of its route.                      *)
LEMMA WeightGrows ==
    ASSUME NEW w \in [Route -> Nat], NEW rows, NEW next,
           NEW S, IsFiniteSet(S), NEW x, x \notin S, NEW T, T \subseteq S \cup {x},
           \A i \in S : rows[i].route \in Route,
           \A i \in T \cap S : next[i] = rows[i],
           x \in T => next[x].route \in Route,
           NEW a, Weighs(w, rows, S, a), NEW b, Weighs(w, next, T, b)
    PROVE  /\ a \in Nat /\ b \in Nat
           /\ x \notin T => b <= a
           /\ x \in T => b <= a + w[next[x].route]
<1> DEFINE f == [i \in S |-> w[rows[i].route]]
           e == [i \in T |-> w[next[i].route]]
<1>1. \A i \in S : f[i] \in Nat
  OBVIOUS
<1>2. /\ \A i \in T : e[i] \in Nat
      /\ \A i \in T \cap S : e[i] = f[i]
      /\ x \in T => e[x] = w[next[x].route]
  OBVIOUS
<1>3. PICK g : IsSum(g, f, SUBSET S) /\ a = g[S]
  BY DEF Weighs
<1>4. PICK h : IsSum(h, e, SUBSET T) /\ b = h[T]
  BY DEF Weighs
<1> HIDE DEF f, e
<1>5. /\ g[S] \in Nat /\ h[T] \in Nat
      /\ x \notin T => h[T] <= g[S]
      /\ x \in T => h[T] <= g[S] + e[x]
  BY <1>1, <1>2, <1>3, <1>4, SumGrows
<1> QED
  BY <1>2, <1>3, <1>4, <1>5

(* The weight of a class of held leases, before and after a step: it grows *)
(* only by a grant of the class, and then by the weight of its route.      *)
LEMMA WeightStep ==
    ASSUME HistoryInv, TypeOK', [Next]_vars, NEW Class,
           NEW w \in [Route -> Nat], NEW limit \in Nat,
           NEW a, Weighs(w, ledger, {i \in Held : ledger[i] \in Class}, a), a <= limit,
           NEW b, Weighs(w, ledger', {i \in Held : ledger[i] \in Class}', b),
           \A row \in Row : Granting(row) /\ row \in Class => a + w[row.route] <= limit
    PROVE  b <= limit
<1> DEFINE S == {i \in Held : ledger[i] \in Class}
           T == {i \in Held' : ledger'[i] \in Class}
           x == Len(ledger) + 1
<1>1. IsFiniteSet(S)
  BY HeldFinite, FS_Subset DEF HistoryInv
<1>2. \A i \in S : ledger[i] \in Row /\ ledger[i].route \in Route
  <2>1. \A i \in Held : ledger[i] \in Row
    BY ElementFacts DEF HistoryInv, TypeOK, Held, RowsOfType
  <2>2. \A row \in Row : row.route \in Route
    BY DEF Row
  <2> QED
    BY <2>1, <2>2
<1>3. /\ x \notin S /\ T \subseteq S \cup {x}
      /\ \A i \in T \cap S : ledger'[i] = ledger[i]
      /\ x \in T => \E row \in Row : /\ Granting(row) /\ row \in Class
                                     /\ ledger'[x] = row /\ row.route \in Route
  <2>1. x \notin DOMAIN ledger /\ x \in Nat
    BY AppendFacts DEF HistoryInv, TypeOK
  <2>2. x \notin Held
    BY <2>1 DEF Held, RowsOfType
  <2>3. CASE Held' \subseteq Held /\ \A i \in Held : ledger'[i] = ledger[i]
    <3> HIDE DEF x
    <3> QED
      BY <2>2, <2>3
  <2>4. ASSUME NEW row \in Row, Granting(row), ledger'[x] = row,
               Held' = Held \cup {x}, \A i \in Held : ledger'[i] = ledger[i]
        PROVE  /\ T \subseteq S \cup {x}
               /\ \A i \in T \cap S : ledger'[i] = ledger[i]
               /\ x \in T => row \in Class /\ row.route \in Route
    <3>1. row.route \in Route
      BY <2>4 DEF Row
    <3> HIDE DEF x
    <3> QED
      BY <2>4, <3>1
  <2> QED
    BY <2>2, <2>3, <2>4, HeldCases
<1> HIDE DEF x
<1>4. \A i \in S : ledger[i].route \in Route
  BY <1>2
<1>5. x \in T => ledger'[x].route \in Route
  BY <1>3
<1>6. Weighs(w, ledger, S, a) /\ Weighs(w, ledger', T, b)
  OBVIOUS
<1> HIDE DEF S, T
<1>7. /\ a \in Nat /\ b \in Nat
      /\ x \notin T => b <= a
      /\ x \in T => b <= a + w[ledger'[x].route]
  BY <1>1, <1>3, <1>4, <1>5, <1>6, WeightGrows
<1>8. CASE x \notin T
  BY <1>7, <1>8
<1>9. CASE x \in T
  <2>1. PICK row \in Row : /\ Granting(row) /\ row \in Class
                           /\ ledger'[x] = row /\ row.route \in Route
    BY <1>3, <1>9
  <2>2. a + w[row.route] <= limit /\ w[row.route] \in Nat
    BY <2>1
  <2>3. b <= a + w[row.route]
    BY <1>7, <1>9, <2>1
  <2> QED
    BY <1>7, <2>2, <2>3
<1> QED
  BY <1>8, <1>9

(* What admission summed for the route and the allowance of a granted row. *)
LEMMA SummedAtGrant ==
    ASSUME HistoryInv, NEW row, Granting(row)
    PROVE  LET class == EnvelopeInfo[row.envelope].allowance
               peers == {i \in Held : EnvelopeInfo[ledger[i].envelope].allowance = class}
           IN  /\ class \in DOMAIN Policy.allowance
               /\ UnitsOf(ledger, peers) + RouteInfo[row.route].units
                      <= Policy.allowance[class]
               /\ \A capacity \in Policy.tokenCapacity :
                      \E tokens \in RouteInfo[row.route].tokens :
                          ReservedTokens(ledger, Held) + tokens <= capacity
<1> DEFINE class == EnvelopeInfo[row.envelope].allowance
           peers == {i \in Held : EnvelopeInfo[ledger[i].envelope].allowance = class}
<1>1. BudgetClear(row.envelope, row.route)
  BY DEF Granting
<1>2. Where(LAMBDA r : EnvelopeInfo[r.envelope].allowance = class) = peers
  BY ActiveIsHeld DEF Where
<1>3. Where(LAMBDA r : TRUE) = Held
  BY ActiveIsHeld DEF Where
<1>4. Reserved(LAMBDA r : RouteInfo[r.route].units,
               LAMBDA r : EnvelopeInfo[r.envelope].allowance = class)
        = UnitsOf(ledger, peers)
  BY <1>2 DEF Reserved, UnitsOf
<1>5. Reserved(LAMBDA r : SumSet(RouteInfo[r.route].tokens), LAMBDA r : TRUE)
        = ReservedTokens(ledger, Held)
  BY <1>3 DEF Reserved, ReservedTokens
<1> QED
  BY <1>1, <1>4, <1>5 DEF BudgetClear

(* What the held leases have reserved stays within the allowance of their  *)
(* class and within the token capacity (_resource_rejection).              *)
THEOREM BudgetHolds == Spec => []BudgetRespected
<1> DEFINE Peers(class) ==
             {row \in Row : EnvelopeInfo[row.envelope].allowance = class}
           Within(w, Class, limit) ==
             \A total : Weighs(w, ledger, {i \in Held : ledger[i] \in Class}, total)
                          => total <= limit
           Inv == /\ \A class \in DOMAIN Policy.allowance :
                       Within(Units, Peers(class), Policy.allowance[class])
                  /\ \A capacity \in Policy.tokenCapacity : Within(Tokens, Row, capacity)
<1>1. Init => Inv
  <2> SUFFICES ASSUME Init PROVE Inv
    OBVIOUS
  <2>1. \A Class : {i \in Held : ledger[i] \in Class} = {}
    BY DEF Init, Held, RowsOfType
  <2>2. \A w, total : Weighs(w, ledger, {}, total) => total = 0
    BY DEF Weighs, IsSum
  <2>3. ASSUME NEW w, NEW Class, NEW limit \in Nat PROVE Within(w, Class, limit)
    BY <2>1, <2>2
  <2>4. /\ \A class \in DOMAIN Policy.allowance : Policy.allowance[class] \in Nat
        /\ \A capacity \in Policy.tokenCapacity : capacity \in Nat
    BY ConstantsAssumption
  <2> HIDE DEF Within, Peers
  <2> QED
    BY <2>3, <2>4
<1>2. HistoryInv /\ TypeOK' /\ Inv /\ [Next]_vars => Inv'
  <2> SUFFICES ASSUME HistoryInv, TypeOK', Inv, [Next]_vars PROVE Inv'
    OBVIOUS
  <2>1. IsFiniteSet(Held) /\ \A i \in Held : ledger[i] \in Row
    BY ElementFacts, HeldFinite DEF HistoryInv, TypeOK, Held, RowsOfType
  <2>2. \A row \in Row : row.route \in Route
    BY DEF Row
  <2>3. ASSUME NEW w \in [Route -> Nat], NEW Class, NEW limit \in Nat, NEW a,
               Within(w, Class, limit),
               Weighs(w, ledger, {i \in Held : ledger[i] \in Class}, a),
               \A row \in Row : Granting(row) /\ row \in Class => a + w[row.route] <= limit
        PROVE  Within(w, Class, limit)'
    <3>1. a <= limit
      BY <2>3
    <3> SUFFICES ASSUME NEW b, Weighs(w, ledger', {i \in Held : ledger[i] \in Class}', b)
                 PROVE  b <= limit
      BY DEF Weighs, IsSum
    <3> QED
      BY <2>3, <3>1, WeightStep
  <2>4. ASSUME NEW class \in DOMAIN Policy.allowance
        PROVE  Within(Units, Peers(class), Policy.allowance[class])'
    <3> DEFINE S == {i \in Held : ledger[i] \in Peers(class)}
               a == UnitsOf(ledger, S)
    <3>1. Weighs(Units, ledger, S, a)
      <4>1. IsFiniteSet(S) /\ \A i \in S : ledger[i].route \in Route
        BY <2>1, <2>2, FS_Subset
      <4> HIDE DEF S
      <4> QED
        BY <4>1, UnitsWeigh
    <3>2. ASSUME NEW row \in Row, Granting(row), row \in Peers(class)
          PROVE  a + Units[row.route] <= Policy.allowance[class]
      <4>1. {i \in Held : EnvelopeInfo[ledger[i].envelope].allowance
                            = EnvelopeInfo[row.envelope].allowance} = S
        BY <2>1, <3>2
      <4>2. Units[row.route] = RouteInfo[row.route].units
        BY <2>2 DEF Units
      <4>3. EnvelopeInfo[row.envelope].allowance = class
        BY <3>2
      <4> HIDE DEF S, Peers
      <4> QED
        BY <3>2, <4>1, <4>2, <4>3, SummedAtGrant
    <3>3. Policy.allowance[class] \in Nat
      BY ConstantsAssumption
    <3>4. Within(Units, Peers(class), Policy.allowance[class])
      OBVIOUS
    <3> HIDE DEF Within, Peers, a
    <3> QED
      BY <2>3, <3>1, <3>2, <3>3, <3>4, WeightFacts
  <2>5. ASSUME NEW capacity \in Policy.tokenCapacity
        PROVE  Within(Tokens, Row, capacity)'
    <3> DEFINE S == {i \in Held : ledger[i] \in Row}
               a == ReservedTokens(ledger, S)
    <3>1. Weighs(Tokens, ledger, S, a)
      <4>1. IsFiniteSet(S) /\ \A i \in S : ledger[i].route \in Route
        BY <2>1, <2>2, FS_Subset
      <4> HIDE DEF S
      <4> QED
        BY <4>1, TokensWeigh
    <3>2. ASSUME NEW row \in Row, Granting(row), row \in Row
          PROVE  a + Tokens[row.route] <= capacity
      <4>1. S = Held
        BY <2>1
      <4>2. PICK tokens \in RouteInfo[row.route].tokens :
              ReservedTokens(ledger, Held) + tokens <= capacity
        BY <3>2, SummedAtGrant
      <4>3. Tokens[row.route] = tokens
        BY <2>2, WeightFacts
      <4> HIDE DEF S
      <4> QED
        BY <4>1, <4>2, <4>3
    <3>3. capacity \in Nat
      BY ConstantsAssumption
    <3>4. Within(Tokens, Row, capacity)
      OBVIOUS
    <3> HIDE DEF Within, a
    <3> QED
      BY <2>3, <3>1, <3>2, <3>3, <3>4, WeightFacts
  <2> QED
    BY <2>4, <2>5
<1>3. HistoryInv /\ Inv => BudgetRespected
  <2> SUFFICES ASSUME HistoryInv, Inv PROVE BudgetRespected
    OBVIOUS
  <2>1. IsFiniteSet(Held) /\ \A i \in Held : ledger[i] \in Row /\ ledger[i].route \in Route
    <3>1. IsFiniteSet(Held) /\ \A i \in Held : ledger[i] \in Row
      BY ElementFacts, HeldFinite DEF HistoryInv, TypeOK, Held, RowsOfType
    <3> QED
      BY <3>1 DEF Row
  <2>2. ASSUME NEW class \in DOMAIN Policy.allowance
        PROVE  MapThenSumSet(LAMBDA i : RouteInfo[ledger[i].route].units,
                 HeldWhere(LAMBDA row : EnvelopeInfo[row.envelope].allowance = class))
                   <= Policy.allowance[class]
    <3> DEFINE S == {i \in Held : EnvelopeInfo[ledger[i].envelope].allowance = class}
    <3>1. S = {i \in Held : ledger[i] \in Peers(class)}
      BY <2>1
    <3>2. Weighs(Units, ledger, S, UnitsOf(ledger, S))
      BY <2>1, UnitsWeigh, FS_Subset
    <3>3. UnitsOf(ledger, S) <= Policy.allowance[class]
      BY <3>1, <3>2
    <3> QED
      BY <3>3 DEF UnitsOf, HeldWhere
  <2>3. ASSUME NEW capacity \in Policy.tokenCapacity
        PROVE  MapThenSumSet(LAMBDA i : SumSet(RouteInfo[ledger[i].route].tokens), Held)
                   <= capacity
    <3>1. Held = {i \in Held : ledger[i] \in Row}
      BY <2>1
    <3>2. Weighs(Tokens, ledger, Held, ReservedTokens(ledger, Held))
      BY <2>1, TokensWeigh
    <3>3. ReservedTokens(ledger, Held) <= capacity
      BY <3>1, <3>2
    <3> QED
      BY <3>3 DEF ReservedTokens
  <2> QED
    BY <2>2, <2>3 DEF BudgetRespected
<1> QED
  BY <1>1, <1>2, <1>3, HistoryCorrect, TypeCorrect, PTL DEF Spec

----------------------------------------------------------------------------
(* Refinement.                                                             *)

(* An admission on current evidence is an admission of the scheduler.      *)
LEMMA AdmissionRefines == AdmitAny => AdmitSome
  BY DEF AdmitAny, AdmitCurrent, AdmitSome

(* Every step is a step of the scheduler or leaves ledger and clock alone. *)
LEMMA StepRefines == [BoundNext]_all => [Next]_vars
<1> SUFFICES ASSUME [BoundNext]_all PROVE [Next]_vars
  OBVIOUS
<1>1. CASE AdmitAny
  BY <1>1, AdmissionRefines DEF Next
<1>2. CASE Schedule
  BY <1>2 DEF Schedule, Next
<1>3. CASE Probe
  BY <1>3 DEF Probe
<1>4. CASE BindAny
  BY <1>4 DEF BindAny, Bind
<1>5. ASSUME NEW lease \in LeaseId, Dispatch(lease) PROVE [Next]_vars
  BY <1>5 DEF Dispatch, Start, Spawn, Finish, Killed
<1>6. CASE TimePasses
  BY <1>6 DEF TimePasses, Next
<1>7. CASE UNCHANGED all
  BY <1>7 DEF all
<1> QED
  BY <1>1, <1>2, <1>3, <1>4, <1>5, <1>6, <1>7 DEF BoundNext

(* Every step of the composition is one of the scheduler's or leaves its   *)
(* variables alone, by the form of its actions: what was proved of the     *)
(* ledger need not be proved again.                                        *)
LEMMA SchedulerSteps == BoundSpec => Spec
<1>1. BoundInit => Init
  BY DEF BoundInit
<1> QED
  BY <1>1, StepRefines, PTL DEF BoundSpec, Spec

----------------------------------------------------------------------------
(* The invariant about leases, clock and dispatchers.                      *)

(* A dispatch rests on a binding, and a binding on a grant.                *)
Rested ==
    /\ bound \subseteq LeaseId
    /\ provider \in [LeaseId -> DispatchStates]
    /\ \A l \in LeaseId : provider[l] # "none" => l \in bound
    /\ \A l \in bound : GrantsOf(l) # {}

(* A provider that runs has not passed its deadline.                       *)
InTime ==
    \A l \in LeaseId : provider[l] = "running" =>
        \A i \in GrantsOf(l) : clock <= ledger[i].expires - Guard

(* A lease was recovered after its expiry only.                            *)
RecoveredLate ==
    \A i, j \in DOMAIN ledger :
        /\ ledger[i].type = "lease_granted" /\ ledger[j].type = "lease_recovered"
        /\ ledger[i].lease = ledger[j].lease
        => ledger[i].expires <= clock

(* Leases end by release or recovery.                                      *)
NoneExpired == \A i \in DOMAIN ledger : ledger[i].type # "lease_expired"

DispatchInv == Rested /\ InTime /\ RecoveredLate /\ NoneExpired

(* Time stands still, or it passes with every process before its deadline. *)
LEMMA ClockStep ==
    ASSUME [BoundNext]_all
    PROVE  clock' = clock \/ (TimePasses /\ clock' = clock + 1)
<1>1. CASE AdmitAny
  BY <1>1 DEF AdmitAny, AdmitCurrent, Admit
<1>2. CASE Schedule
  BY <1>2 DEF Schedule, ReleaseSome, Release, RecoverSome, Recover,
              UnknownSome, ExecutionUnknown, AcceptSome, QualityAccepted
<1>3. CASE Probe \/ BindAny
  BY <1>3 DEF Probe, BindAny, Bind, vars
<1>4. ASSUME NEW lease \in LeaseId, Dispatch(lease) PROVE clock' = clock
  BY <1>4 DEF Dispatch, Start, Spawn, Finish, Killed, vars
<1>5. CASE TimePasses
  BY <1>5 DEF TimePasses, Tick
<1>6. CASE UNCHANGED all
  BY <1>6 DEF all, vars
<1> QED
  BY <1>1, <1>2, <1>3, <1>4, <1>5, <1>6 DEF BoundNext

(* The grant rows of a lease stay, and a granted lease gets no others.     *)
LEMMA GrantsStay ==
    ASSUME TypeOK, [Next]_vars, NEW l \in LeaseId
    PROVE  /\ \A i \in GrantsOf(l) : i \in GrantsOf(l)' /\ ledger'[i] = ledger[i]
           /\ GrantsOf(l) # {} => GrantsOf(l)' = GrantsOf(l)
<1>1. CASE UNCHANGED ledger
  BY <1>1 DEF GrantsOf, RowsOfType
<1>2. CASE \E row \in Row : Appends(row) /\ ledger' = Append(ledger, row)
  <2>1. PICK row \in Row : Appends(row) /\ ledger' = Append(ledger, row)
    BY <1>2
  <2>2. /\ DOMAIN ledger' = DOMAIN ledger \cup {Len(ledger) + 1}
        /\ \A i \in DOMAIN ledger : ledger'[i] = ledger[i]
        /\ ledger'[Len(ledger) + 1] = row
    BY <2>1, AppendFacts DEF TypeOK
  <2>3. \A i \in GrantsOf(l) : i \in GrantsOf(l)' /\ ledger'[i] = ledger[i]
    BY <2>2 DEF GrantsOf, RowsOfType
  <2>4. ASSUME GrantsOf(l) # {}, row.type = "lease_granted" PROVE row.lease # l
    BY <2>1, <2>4 DEF Appends, Granting, Continuing, LeaseUnused, GrantsOf, RowsOfType
  <2>5. ASSUME GrantsOf(l) # {}, NEW i \in GrantsOf(l)' PROVE i \in GrantsOf(l)
    BY <2>2, <2>4, <2>5 DEF GrantsOf, RowsOfType
  <2> QED
    BY <2>3, <2>5
<1> QED
  BY <1>1, <1>2, StepShape

(* Every step keeps dispatches resting on bindings and grants.             *)
LEMMA RestedStep ==
    ASSUME TypeOK, Rested, [BoundNext]_all
    PROVE  Rested'
<1> USE DEF Rested
<1>1. ASSUME NEW l \in LeaseId, GrantsOf(l) # {} PROVE GrantsOf(l)' # {}
  BY <1>1, StepRefines, GrantsStay
<1>2. CASE UNCHANGED <<bound, provider>>
  BY <1>1, <1>2
<1>3. ASSUME NEW lease \in LeaseId, NEW now \in Injected, Bind(lease, now) PROVE Rested'
  <2>1. GrantsOf(lease) # {} /\ bound' = bound \cup {lease} /\ provider' = provider
    BY <1>3 DEF Bind
  <2> QED
    BY <1>1, <2>1
<1>4. ASSUME NEW lease \in LeaseId, Dispatch(lease) PROVE Rested'
  <2>1. lease \in bound /\ bound' = bound
    BY <1>4 DEF Dispatch, Start, Spawn, Finish, Killed
  <2>2. \E s \in DispatchStates : provider' = [provider EXCEPT ![lease] = s]
    BY <1>4 DEF Dispatch, Start, Spawn, Finish, Killed, DispatchStates
  <2>3. provider' \in [LeaseId -> DispatchStates]
    BY <2>2
  <2>4. \A l \in LeaseId : provider'[l] # "none" => l \in bound'
    BY <2>1, <2>2
  <2>5. \A l \in bound' : GrantsOf(l)' # {}
    BY <2>1, <1>1
  <2> QED
    BY <2>1, <2>3, <2>4, <2>5
<1>5. AdmitAny \/ Schedule \/ Probe \/ TimePasses \/ UNCHANGED all
          => UNCHANGED <<bound, provider>>
  BY DEF AdmitAny, AdmitCurrent, Schedule, Probe, TimePasses, all, dispatch
<1> QED
  BY <1>2, <1>3, <1>4, <1>5 DEF BoundNext, BindAny

(* Every step keeps processes within their deadlines.                      *)
LEMMA InTimeStep ==
    ASSUME TypeOK, Rested, InTime, [BoundNext]_all
    PROVE  InTime'
<1> SUFFICES ASSUME NEW l \in LeaseId, provider'[l] = "running",
                    NEW i \in GrantsOf(l)'
             PROVE  clock' <= ledger'[i].expires - Guard
  BY DEF InTime
<1>1. l \in bound => i \in GrantsOf(l) /\ ledger'[i] = ledger[i]
  <2>1. l \in bound => GrantsOf(l) # {}
    BY DEF Rested
  <2> QED
    BY <2>1, StepRefines, GrantsStay
<1>2. ASSUME l \in bound, clock' = clock, clock <= ledger[i].expires - Guard
      PROVE  clock' <= ledger'[i].expires - Guard
  BY <1>1, <1>2
<1>3. CASE \E lease \in LeaseId : Spawn(lease)
  <2>1. PICK lease \in LeaseId : Spawn(lease)
    BY <1>3
  <2>2. UNCHANGED <<ledger, clock>>
    BY <2>1 DEF Spawn, vars
  <2>3. CASE l = lease
    <3>1. l \in bound
      BY <2>1, <2>3 DEF Rested, Spawn
    <3>2. clock < ledger[i].expires - Guard
      BY <2>1, <2>3, <3>1, <1>1 DEF Spawn, Deadline
    <3>3. ledger[i] \in Row
      BY <1>1, <3>1, ElementFacts DEF TypeOK, GrantsOf, RowsOfType
    <3> QED
      BY <3>1, <3>2, <3>3, <1>2, <2>2, ConstantsAssumption, DispatchAssumption
         DEF TypeOK, Time, Row
  <2>4. CASE l # lease
    <3>1. provider[l] = "running"
      BY <2>1, <2>4 DEF Spawn, Rested
    <3> QED
      BY <3>1, <2>2, <1>1, <1>2 DEF InTime, Rested
  <2> QED
    BY <2>3, <2>4
<1>4. CASE ~\E lease \in LeaseId : Spawn(lease)
  <2>1. provider[l] = "running"
    <3>1. ASSUME NEW lease \in LeaseId, Dispatch(lease) PROVE provider[l] = "running"
      BY <3>1, <1>4 DEF Dispatch, Start, Finish, Killed, Rested
    <3>2. AdmitAny \/ Schedule \/ Probe \/ BindAny \/ TimePasses \/ UNCHANGED all
              => provider' = provider
      BY DEF AdmitAny, AdmitCurrent, Schedule, Probe, BindAny, Bind, TimePasses, all, dispatch
    <3> QED
      BY <3>1, <3>2 DEF BoundNext
  <2>2. l \in bound
    BY <2>1 DEF Rested
  <2>3. CASE clock' = clock
    BY <2>1, <2>2, <2>3, <1>1, <1>2 DEF InTime
  <2>4. CASE TimePasses /\ clock' = clock + 1
    <3>1. clock < ledger[i].expires - Guard
      BY <2>1, <2>2, <2>4, <1>1 DEF TimePasses, Deadline
    <3>2. ledger[i] \in Row
      BY <1>1, <2>2, ElementFacts DEF TypeOK, GrantsOf, RowsOfType
    <3>3. clock \in Nat /\ ledger[i].expires \in Nat /\ Guard \in Nat
      BY <3>2, ConstantsAssumption, DispatchAssumption DEF TypeOK, Time, Row
    <3>4. clock' = clock + 1
      BY <2>4
    <3>5. clock' <= ledger[i].expires - Guard
      BY <3>1, <3>3, <3>4
    <3> QED
      BY <3>5, <2>2, <1>1
  <2> QED
    BY <2>3, <2>4, ClockStep
<1> QED
  BY <1>3, <1>4

(* Every step keeps recoveries late and adds no expired row.               *)
LEMMA RecoveredLateStep ==
    ASSUME HistoryInv, RecoveredLate, NoneExpired, [BoundNext]_all
    PROVE  RecoveredLate' /\ NoneExpired'
<1> USE DEF HistoryInv
<1>1. clock \in Nat /\ clock <= clock' /\ clock' \in Nat
  BY ClockStep, ConstantsAssumption DEF TypeOK, Time
<1>2. \A k \in DOMAIN ledger : ledger[k] \in Row
  BY ElementFacts DEF TypeOK
<1>3. CASE UNCHANGED ledger
  BY <1>1, <1>2, <1>3 DEF RecoveredLate, NoneExpired, Row
<1>4. CASE \E row \in Row : Appends(row) /\ ledger' = Append(ledger, row)
  <2>1. PICK row \in Row : Appends(row) /\ ledger' = Append(ledger, row)
    BY <1>4
  <2>2. /\ DOMAIN ledger' = DOMAIN ledger \cup {Len(ledger) + 1}
        /\ \A i \in DOMAIN ledger : ledger'[i] = ledger[i]
        /\ ledger'[Len(ledger) + 1] = row
    BY <2>1, AppendFacts DEF TypeOK
  <2>3. row.type # "lease_expired"
    BY <2>1 DEF Appends, Granting, Continuing, TerminalLeaseEvents
  <2>4. NoneExpired'
    BY <2>2, <2>3 DEF NoneExpired
  <2>5. ASSUME NEW i \in DOMAIN ledger, ledger[i].type = "lease_granted",
               row.type = "lease_recovered", row.lease = ledger[i].lease
        PROVE  ledger[i].expires <= clock
    <3>1. PICK k \in Active : row.lease = ledger[k].lease /\ ledger[k].expires <= clock
      BY <2>1, <2>5 DEF Appends, Granting, Continuing
    <3>2. k \in RowsOfType(ledger, "lease_granted") /\ i \in RowsOfType(ledger, "lease_granted")
      BY <3>1, <2>5 DEF Active, ActiveRows, RowsOfType
    <3> QED
      BY <3>1, <3>2, <2>5 DEF GrantedOnce
  <2>6. ASSUME NEW j \in DOMAIN ledger, row.type = "lease_granted",
               ledger[j].type = "lease_recovered"
        PROVE  row.lease # ledger[j].lease
    BY <2>1, <2>6 DEF Appends, Granting, Continuing, LeaseUnused
  <2>7. ASSUME NEW i \in DOMAIN ledger', NEW j \in DOMAIN ledger',
               ledger'[i].type = "lease_granted", ledger'[j].type = "lease_recovered",
               ledger'[i].lease = ledger'[j].lease
        PROVE  ledger'[i].expires <= clock'
    <3>1. CASE i \in DOMAIN ledger
      <4>1. ledger[i].expires <= clock
        BY <2>2, <2>5, <2>7, <3>1 DEF RecoveredLate
      <4> QED
        BY <4>1, <3>1, <2>2, <1>1, <1>2 DEF Row
    <3>2. CASE i \notin DOMAIN ledger
      BY <2>2, <2>6, <2>7, <3>2
    <3> QED
      BY <3>1, <3>2
  <2>8. RecoveredLate'
    BY <2>7 DEF RecoveredLate
  <2> QED
    BY <2>4, <2>8
<1> QED
  BY <1>3, <1>4, StepRefines, StepShape

(* The invariant holds in every reachable state.                           *)
THEOREM DispatchInvariant == BoundSpec => []DispatchInv
<1>1. BoundInit => DispatchInv
  BY DEF BoundInit, Init, DispatchInv, Rested, InTime, RecoveredLate, NoneExpired, DispatchStates
<1>2. HistoryInv /\ DispatchInv /\ [BoundNext]_all => DispatchInv'
  BY RestedStep, InTimeStep, RecoveredLateStep DEF DispatchInv, HistoryInv
<1>3. BoundSpec => []HistoryInv
  BY SchedulerSteps, HistoryCorrect, PTL
<1> QED
  BY <1>1, <1>2, <1>3, PTL DEF BoundSpec

----------------------------------------------------------------------------
(* A running provider's lease was not recovered: it would have been before *)
(* the deadline and after the expiry.                                      *)
LEMMA RunningUnrecovered ==
    ASSUME TypeOK, DispatchInv, NEW l \in LeaseId, provider[l] = "running"
    PROVE  /\ ~Ended(l, "lease_recovered")
           /\ \E i \in GrantsOf(l) : TRUE
<1>1. PICK i \in GrantsOf(l) : TRUE
  BY DEF DispatchInv, Rested
<1>2. i \in DOMAIN ledger /\ ledger[i].type = "lease_granted" /\ ledger[i].lease = l
  BY <1>1 DEF GrantsOf, RowsOfType
<1>3. ledger[i] \in Row
  BY <1>2, ElementFacts DEF TypeOK
<1>4. clock <= ledger[i].expires - Guard
  BY <1>1 DEF DispatchInv, InTime
<1>5. ~(ledger[i].expires <= clock)
  BY <1>3, <1>4, ConstantsAssumption, DispatchAssumption DEF TypeOK, Time, Row
<1> QED
  BY <1>1, <1>2, <1>5 DEF DispatchInv, RecoveredLate, Ended

(* A recovered lease has no running provider, for any guard of at least    *)
(* one: recovery waits for the expiry, the dispatcher does not.            *)
THEOREM RecoveredAreStopped == BoundSpec => []RecoveredHasNoProvider
<1>1. TypeOK /\ DispatchInv => RecoveredHasNoProvider
  BY RunningUnrecovered DEF RecoveredHasNoProvider
<1>2. BoundSpec => []TypeOK
  BY SchedulerSteps, TypeCorrect, PTL
<1> QED
  BY <1>1, <1>2, DispatchInvariant, PTL

(* Two running providers write to overlapping scopes only if the lease of  *)
(* one was released: otherwise both leases are held, and the scheduler     *)
(* keeps the scopes of held writers apart.                                 *)
THEOREM ProvidersStayApart == BoundSpec => []ProvidersIsolated
<1>1. TypeOK /\ HistoryInv /\ DispatchInv /\ WritersIsolated => ProvidersIsolated
  <2> SUFFICES ASSUME TypeOK, HistoryInv, DispatchInv, WritersIsolated,
                      NEW a \in LeaseId, NEW b \in LeaseId, a # b,
                      provider[a] = "running", provider[b] = "running",
                      WriteScope(a) \cap WriteScope(b) # {},
                      ~Ended(a, "lease_released"), ~Ended(b, "lease_released")
               PROVE  FALSE
    BY DEF ProvidersIsolated
  <2>1. ~Ended(a, "lease_recovered") /\ ~Ended(b, "lease_recovered")
    BY RunningUnrecovered
  <2>2. PICK i \in WriteGrantsOf(a), j \in WriteGrantsOf(b) :
            EnvelopeInfo[ledger[i].envelope].scope
                \cap EnvelopeInfo[ledger[j].envelope].scope # {}
    BY DEF WriteScope
  <2>3. /\ i \in RowsOfType(ledger, "lease_granted") /\ ledger[i].lease = a
        /\ j \in RowsOfType(ledger, "lease_granted") /\ ledger[j].lease = b
        /\ EnvelopeInfo[ledger[i].envelope].writer /\ EnvelopeInfo[ledger[j].envelope].writer
    BY DEF WriteGrantsOf, GrantsOf
  <2>4. i \in Held /\ j \in Held
    BY <2>1, <2>3 DEF Held, Ended, DispatchInv, NoneExpired, TerminalLeaseEvents, RowsOfType
  <2>5. i # j
    BY <2>3
  <2> QED
    BY <2>2, <2>3, <2>4, <2>5 DEF WritersIsolated, HeldWhere
<1>2. BoundSpec => []TypeOK /\ []HistoryInv /\ []WritersIsolated
  BY SchedulerSteps, TypeCorrect, HistoryCorrect, WritersHold, PTL
<1> QED
  BY <1>1, <1>2, DispatchInvariant, PTL

----------------------------------------------------------------------------
(* The broker's state file.                                                *)

(* The events of a key have a last one, and an observation expires a       *)
(* permitted duration after it was made.                                   *)
LastKnown ==
    \A k \in Route : Broker!EventsOf(k) # {} =>
        \E i \in DOMAIN history : Broker!IsLast(Broker!EventsOf(k), i)

Dated ==
    \A k \in Route : \A o \in entries[k].observation :
        \E seconds \in Duration : o.expires = o.observed + seconds

BrokerInv ==
    Broker!TypeOK /\ Broker!HistoryExplainsEntries /\ LastKnown /\ Dated

(* An event was appended about one key, whose entry alone may change.      *)
Noted(event) ==
    /\ event \in Broker!Event
    /\ history' = Append(history, event)
    /\ \A k \in Route : k # event.key => entries'[k] = entries[k]

(* What a probe's claim or recovery wrote.                                 *)
Claimed(event) ==
    /\ Noted(event)
    /\ event.kind = IF entries[event.key].lease = {} THEN "probe_claimed"
                                                      ELSE "probe_recovered"
    /\ entries'[event.key].observation = {}
    /\ \E l \in Broker!Lease :
          /\ entries'[event.key].lease = {l}
          /\ l.owner = event.owner /\ l.acquired = event.at

(* What a recording wrote, under a lease of the recorder.                  *)
Recorded(event) ==
    /\ Noted(event)
    /\ event.kind = "observation_recorded"
    /\ entries'[event.key].lease = {}
    /\ \E l \in entries[event.key].lease : l.owner = event.owner
    /\ \E o \in Broker!Observation, seconds \in Duration :
          /\ entries'[event.key].observation = {o}
          /\ o.observed = event.at /\ o.expires = event.at + seconds

(* A step of the broker is a claim, a recovery or a recording.             *)
LEMMA BrokerStepShape ==
    ASSUME Broker!TypeOK, clock \in Nat, Broker!Step
    PROVE  /\ Broker!TypeOK'
           /\ \E event \in Broker!Event : Claimed(event) \/ Recorded(event)
<1> USE DEF Broker!TypeOK
<1>1. PICK k \in Route, owner \in Owner, now \in Broker!Injected, seconds \in Duration :
          \/ Broker!ClaimProbe(k, owner, now, seconds)
          \/ \E verdict \in Broker!Verdict :
                Broker!RecordObservation(k, owner, verdict, now, seconds)
  BY DEF Broker!Step
<1>2. now \in Nat /\ seconds \in Nat /\ now + seconds \in Nat
  BY DispatchAssumption DEF Broker!Injected
<1>3. entries[k] \in Broker!Entry
  OBVIOUS
<1>4. CASE Broker!ClaimProbe(k, owner, now, seconds)
  <2> DEFINE l == [owner |-> owner, acquired |-> now, expires |-> now + seconds]
             new == [lease |-> {l}, observation |-> {}]
             event == [kind |-> IF entries[k].lease = {} THEN "probe_claimed"
                                                         ELSE "probe_recovered",
                       key |-> k, at |-> now, owner |-> owner]
  <2>1. l \in Broker!Lease /\ new \in Broker!Entry
    BY <1>2 DEF Broker!Lease, Broker!Entry
  <2>2. event \in Broker!Event
    BY <1>2 DEF Broker!Event, Broker!Kinds
  <2>3. entries' = [entries EXCEPT ![k] = new] /\ history' = Append(history, event)
    BY <1>4 DEF Broker!ClaimProbe, Broker!AppendEvent
  <2>4. entries' \in [Route -> Broker!Entry] /\ history' \in Seq(Broker!Event)
    BY <2>1, <2>2, <2>3, AppendFacts
  <2>5. entries'[k] = new /\ \A m \in Route : m # k => entries'[m] = entries[m]
    BY <2>3
  <2>6. Claimed(event)
    BY <2>1, <2>2, <2>3, <2>5 DEF Claimed, Noted
  <2> QED
    BY <2>2, <2>4, <2>6
<1>5. ASSUME NEW verdict \in Broker!Verdict,
             Broker!RecordObservation(k, owner, verdict, now, seconds)
      PROVE  /\ Broker!TypeOK'
             /\ \E event \in Broker!Event : Recorded(event)
  <2> DEFINE o == [verdict |-> verdict, observed |-> now, expires |-> now + seconds]
             new == [lease |-> {}, observation |-> {o}]
             event == [kind |-> "observation_recorded", key |-> k, at |-> now,
                       owner |-> owner]
  <2>1. o \in Broker!Observation /\ new \in Broker!Entry
    BY <1>2 DEF Broker!Observation, Broker!Entry
  <2>2. event \in Broker!Event
    BY <1>2 DEF Broker!Event, Broker!Kinds
  <2>3. entries' = [entries EXCEPT ![k] = new] /\ history' = Append(history, event)
    BY <1>5 DEF Broker!RecordObservation, Broker!AppendEvent
  <2>4. entries' \in [Route -> Broker!Entry] /\ history' \in Seq(Broker!Event)
    BY <2>1, <2>2, <2>3, AppendFacts
  <2>5. entries'[k] = new /\ \A m \in Route : m # k => entries'[m] = entries[m]
    BY <2>3
  <2>6. \E l \in entries[k].lease : l.owner = owner
    BY <1>5 DEF Broker!RecordObservation
  <2>7. Recorded(event)
    BY <2>1, <2>2, <2>3, <2>5, <2>6 DEF Recorded, Noted
  <2> QED
    BY <2>2, <2>4, <2>7
<1> QED
  BY <1>1, <1>4, <1>5

(* An appended event is the last of its key and leaves the others' events. *)
LEMMA EventsStep ==
    ASSUME Broker!TypeOK, NEW event, Noted(event)
    PROVE  LET n == Len(history) + 1 IN
           /\ n \in Nat /\ n \notin DOMAIN history /\ DOMAIN history' = DOMAIN history \cup {n}
           /\ history'[n] = event
           /\ \A i \in DOMAIN history : history'[i] = history[i] /\ i \in Nat /\ i < n
           /\ \A k \in Route : k # event.key => Broker!EventsOf(k)' = Broker!EventsOf(k)
           /\ Broker!EventsOf(event.key)' = Broker!EventsOf(event.key) \cup {n}
           /\ \A k \in Route, i \in DOMAIN history : Broker!Before(k, i)' = Broker!Before(k, i)
           /\ {j \in Broker!EventsOf(event.key)' : j < n} = Broker!EventsOf(event.key)
<1> DEFINE n == Len(history) + 1
<1>1. /\ DOMAIN history' = DOMAIN history \cup {n}
      /\ \A i \in DOMAIN history : history'[i] = history[i] /\ i \in Nat /\ i < n
      /\ history'[n] = event /\ n \in Nat /\ n \notin DOMAIN history
  BY AppendFacts DEF Noted, Broker!TypeOK
<1> HIDE DEF n
<1>2. \A k \in Route : k # event.key => Broker!EventsOf(k)' = Broker!EventsOf(k)
  BY <1>1 DEF Broker!EventsOf
<1>3. Broker!EventsOf(event.key)' = Broker!EventsOf(event.key) \cup {n}
  BY <1>1 DEF Broker!EventsOf
<1>4. \A k \in Route, i \in DOMAIN history : Broker!Before(k, i)' = Broker!Before(k, i)
  BY <1>1 DEF Broker!EventsOf, Broker!Before
<1>5. {j \in Broker!EventsOf(event.key)' : j < n} = Broker!EventsOf(event.key)
  BY <1>1 DEF Broker!EventsOf
<1> QED
  BY <1>1, <1>2, <1>3, <1>4, <1>5 DEF n

(* Where an entry says a probe is in flight or an observation stands, the  *)
(* last event of the key tells the same.                                   *)
LEMMA LastEvent ==
    ASSUME BrokerInv, NEW k \in Route
    PROVE  /\ entries[k].lease # {} =>
                \E i \in DOMAIN history :
                   /\ Broker!IsLast(Broker!EventsOf(k), i) /\ Broker!Probing(i)
                   /\ \A l \in entries[k].lease : l.owner = history[i].owner
           /\ entries[k].lease = {} =>
                \A i \in DOMAIN history :
                   Broker!IsLast(Broker!EventsOf(k), i) => ~Broker!Probing(i)
           /\ \A o \in entries[k].observation :
                \E i \in DOMAIN history :
                   /\ Broker!IsLast(Broker!EventsOf(k), i) /\ ~Broker!Probing(i)
                   /\ o.observed = history[i].at
<1>1. entries[k] # Broker!NoEntry => Broker!EventsOf(k) # {}
  BY DEF BrokerInv, Broker!HistoryExplainsEntries
<1>2. Broker!NoEntry.lease = {} /\ Broker!NoEntry.observation = {}
  BY DEF Broker!NoEntry
<1>3. \A i \in DOMAIN history : Broker!IsLast(Broker!EventsOf(k), i) =>
         IF Broker!Probing(i)
         THEN /\ entries[k].observation = {}
              /\ \E l \in entries[k].lease : entries[k].lease = {l} /\ l.owner = history[i].owner
         ELSE /\ entries[k].lease = {}
              /\ \E o \in entries[k].observation :
                    entries[k].observation = {o} /\ o.observed = history[i].at
  BY DEF BrokerInv, Broker!HistoryExplainsEntries
<1>4. ASSUME entries[k].lease # {} \/ entries[k].observation # {}
      PROVE  \E i \in DOMAIN history : Broker!IsLast(Broker!EventsOf(k), i)
  BY <1>1, <1>2, <1>4 DEF BrokerInv, LastKnown
<1> QED
  BY <1>3, <1>4

(* Every step of the broker keeps its history an explanation of entries.   *)
LEMMA BrokerStep ==
    ASSUME BrokerInv, clock \in Nat, Broker!Step
    PROVE  BrokerInv'
<1>1. PICK event \in Broker!Event : Claimed(event) \/ Recorded(event)
  BY BrokerStepShape DEF BrokerInv
<1> DEFINE n == Len(history) + 1
           key == event.key
<1>2. Noted(event) /\ key \in Route
  BY <1>1 DEF Claimed, Recorded, Broker!Event
<1>3. /\ n \in Nat /\ n \notin DOMAIN history /\ DOMAIN history' = DOMAIN history \cup {n}
      /\ history'[n] = event
      /\ \A i \in DOMAIN history : history'[i] = history[i] /\ i \in Nat /\ i < n
      /\ \A k \in Route : k # key => Broker!EventsOf(k)' = Broker!EventsOf(k)
      /\ Broker!EventsOf(key)' = Broker!EventsOf(key) \cup {n}
      /\ \A k \in Route, i \in DOMAIN history : Broker!Before(k, i)' = Broker!Before(k, i)
      /\ {j \in Broker!EventsOf(key)' : j < n} = Broker!EventsOf(key)
  BY <1>2, EventsStep DEF BrokerInv
<1>4. \A k \in Route : k # key => entries'[k] = entries[k]
  BY <1>2 DEF Noted
<1> HIDE DEF n
<1>5. \A k \in Route : Broker!EventsOf(k) \subseteq DOMAIN history
  BY DEF Broker!EventsOf
<1>6. \A i \in DOMAIN history' : Broker!IsLast(Broker!EventsOf(key), i)' <=> i = n
  BY <1>2, <1>3, <1>5 DEF Broker!IsLast
<1>7. \A k \in Route : k # key =>
        \A i \in DOMAIN history' : Broker!IsLast(Broker!EventsOf(k), i)' <=>
            i \in DOMAIN history /\ Broker!IsLast(Broker!EventsOf(k), i)
  BY <1>3, <1>5 DEF Broker!IsLast
<1>8. LastKnown'
  <2> SUFFICES ASSUME NEW k \in Route, Broker!EventsOf(k)' # {}
               PROVE  \E i \in DOMAIN history' : Broker!IsLast(Broker!EventsOf(k), i)'
    BY DEF LastKnown
  <2>1. CASE k = key
    BY <2>1, <1>3, <1>6
  <2>2. CASE k # key
    BY <2>2, <1>3, <1>7 DEF BrokerInv, LastKnown
  <2> QED
    BY <2>1, <2>2
<1>9. Dated'
  BY <1>1, <1>4 DEF Dated, BrokerInv, Claimed, Recorded
<1>10. ASSUME NEW k \in Route, Broker!EventsOf(k)' = {}
       PROVE  entries'[k] = Broker!NoEntry
  BY <1>3, <1>4, <1>10 DEF BrokerInv, Broker!HistoryExplainsEntries
<1>11. ASSUME NEW k \in Route, NEW i \in DOMAIN history', Broker!IsLast(Broker!EventsOf(k), i)'
       PROVE  IF Broker!Probing(i)'
              THEN /\ entries'[k].observation = {}
                   /\ \E l \in entries'[k].lease :
                         /\ entries'[k].lease = {l}
                         /\ l.owner = history'[i].owner /\ l.acquired = history'[i].at
              ELSE /\ entries'[k].lease = {}
                   /\ \E o \in entries'[k].observation :
                         entries'[k].observation = {o} /\ o.observed = history'[i].at
  <2>1. CASE k = key
    <3>1. i = n /\ history'[i] = event
      BY <2>1, <1>3, <1>6, <1>11
    <3>2. CASE Claimed(event)
      BY <2>1, <3>1, <3>2 DEF Claimed, Broker!Probing
    <3>3. CASE Recorded(event)
      BY <2>1, <3>1, <3>3 DEF Recorded, Broker!Probing
    <3> QED
      BY <1>1, <3>2, <3>3
  <2>2. CASE k # key
    <3>1. /\ i \in DOMAIN history /\ Broker!IsLast(Broker!EventsOf(k), i)
          /\ history'[i] = history[i] /\ entries'[k] = entries[k]
      BY <2>2, <1>3, <1>4, <1>7, <1>11
    <3> QED
      BY <3>1 DEF BrokerInv, Broker!HistoryExplainsEntries, Broker!Probing
  <2> QED
    BY <2>1, <2>2
<1> DEFINE Told(k, i) ==
        CASE history[i].kind = "probe_claimed" ->
               \A j \in DOMAIN history :
                  Broker!IsLast(Broker!Before(k, i), j) => ~Broker!Probing(j)
          [] history[i].kind = "probe_recovered" ->
               \E j \in DOMAIN history :
                  Broker!IsLast(Broker!Before(k, i), j) /\ Broker!Probing(j)
          [] OTHER ->
               \E j \in DOMAIN history :
                  Broker!IsLast(Broker!Before(k, i), j) /\ Broker!Probing(j)
                     /\ history[j].owner = history[i].owner
<1>12. ASSUME NEW k \in Route, NEW i \in Broker!EventsOf(k)' PROVE Told(k, i)'
  <2>1. i \in DOMAIN history' /\ history'[i].key = k
    BY <1>12 DEF Broker!EventsOf
  <2>2. CASE i \in DOMAIN history
    <3>1. Broker!Before(k, i)' = Broker!Before(k, i) /\ history'[i] = history[i]
      BY <2>2, <1>3
    <3>2. Broker!Before(k, i) \subseteq DOMAIN history
      BY DEF Broker!Before, Broker!EventsOf
    <3>3. \A j \in DOMAIN history' : Broker!IsLast(Broker!Before(k, i), j)' <=>
             j \in DOMAIN history /\ Broker!IsLast(Broker!Before(k, i), j)
      BY <3>1, <3>2 DEF Broker!IsLast
    <3>4. \A j \in DOMAIN history : Broker!Probing(j)' = Broker!Probing(j)
      BY <1>3 DEF Broker!Probing
    <3>5. i \in Broker!EventsOf(k)
      BY <2>1, <2>2, <3>1 DEF Broker!EventsOf
    <3>6. Told(k, i)
      BY <3>5 DEF BrokerInv, Broker!HistoryExplainsEntries
    <3> QED
      BY <3>1, <3>3, <3>4, <3>6, <1>3
  <2>3. CASE i = n
    <3>1. k = key /\ history'[i] = event
      BY <2>1, <2>3, <1>3
    <3>2. Broker!Before(k, i)' = Broker!EventsOf(k)
      BY <3>1, <2>3, <1>3 DEF Broker!Before
    <3>3. \A j \in DOMAIN history' : Broker!IsLast(Broker!Before(k, i), j)' <=>
             j \in DOMAIN history /\ Broker!IsLast(Broker!EventsOf(k), j)
      BY <3>1, <3>2, <1>2, <1>5 DEF Broker!IsLast
    <3>4. \A j \in DOMAIN history : Broker!Probing(j)' = Broker!Probing(j)
      BY <1>3 DEF Broker!Probing
    <3>5. CASE event.kind = "probe_claimed"
      <4>1. entries[key].lease = {}
        BY <1>1, <3>5 DEF Claimed, Recorded
      <4> QED
        BY <4>1, <3>1, <3>3, <3>4, <3>5, <1>2, LastEvent
    <3>6. CASE event.kind = "probe_recovered"
      <4>1. entries[key].lease # {}
        BY <1>1, <3>6 DEF Claimed, Recorded
      <4> QED
        BY <4>1, <3>1, <3>3, <3>4, <3>6, <1>2, <1>3, LastEvent
    <3>7. CASE event.kind = "observation_recorded"
      <4>1. \E l \in entries[key].lease : l.owner = event.owner
        BY <1>1, <3>7 DEF Claimed, Recorded
      <4>2. PICK j \in DOMAIN history :
              /\ Broker!IsLast(Broker!EventsOf(k), j) /\ Broker!Probing(j)
              /\ \A l \in entries[key].lease : l.owner = history[j].owner
        BY <4>1, <3>1, <1>2, LastEvent
      <4> QED
        BY <4>1, <4>2, <3>1, <3>3, <3>4, <3>7, <1>3
    <3> QED
      BY <3>5, <3>6, <3>7 DEF Broker!Event, Broker!Kinds
  <2> QED
    BY <2>1, <2>2, <2>3, <1>3
<1>13. Broker!HistoryExplainsEntries'
  BY <1>10, <1>11, <1>12 DEF Broker!HistoryExplainsEntries<1> QED
  BY <1>8, <1>9, <1>13, BrokerStepShape DEF BrokerInv

(* Only a probe's claim or recording touches the broker's state file.      *)
LEMMA EvidenceStep ==
    ASSUME [BoundNext]_all
    PROVE  UNCHANGED evidence \/ (Broker!Step /\ UNCHANGED <<vars, dispatch>>)
<1>1. ASSUME NEW lease \in LeaseId, Dispatch(lease) PROVE UNCHANGED evidence
  BY <1>1 DEF Dispatch, Start, Spawn, Finish, Killed
<1>2. AdmitAny \/ Schedule \/ BindAny \/ TimePasses \/ UNCHANGED all => UNCHANGED evidence
  BY DEF AdmitAny, AdmitCurrent, Schedule, BindAny, Bind, TimePasses, all
<1> QED
  BY <1>1, <1>2 DEF BoundNext, Probe

(* The broker's invariant holds with schedulers and dispatchers around it. *)
LEMMA BrokerCorrect == BoundSpec => []BrokerInv
<1>1. BoundInit => BrokerInv
  <2> SUFFICES ASSUME BoundInit PROVE BrokerInv
    OBVIOUS
  <2>1. entries = [k \in Route |-> Broker!NoEntry] /\ history = <<>>
    BY DEF BoundInit, Broker!Init
  <2>2. DOMAIN history = {} /\ \A k \in Route : Broker!EventsOf(k) = {}
    BY <2>1 DEF Broker!EventsOf
  <2>3. Broker!NoEntry \in Broker!Entry /\ Broker!NoEntry.observation = {}
    BY DEF Broker!NoEntry, Broker!Entry
  <2> QED
    BY <2>1, <2>2, <2>3 DEF BrokerInv, Broker!TypeOK, Broker!HistoryExplainsEntries,
                            LastKnown, Dated
<1>2. TypeOK /\ BrokerInv /\ [BoundNext]_all => BrokerInv'
  <2> SUFFICES ASSUME TypeOK, BrokerInv, [BoundNext]_all PROVE BrokerInv'
    OBVIOUS
  <2>1. clock \in Nat
    BY ConstantsAssumption DEF TypeOK, Time
  <2>2. CASE UNCHANGED evidence
    <3>1. entries' = entries /\ history' = history
      BY <2>2 DEF evidence
    <3>2. /\ \A k : Broker!EventsOf(k)' = Broker!EventsOf(k)
          /\ \A k, i : Broker!Before(k, i)' = Broker!Before(k, i)
          /\ \A S, i : Broker!IsLast(S, i)' = Broker!IsLast(S, i)
          /\ \A i : Broker!Probing(i)' = Broker!Probing(i)
      BY <3>1 DEF Broker!EventsOf, Broker!Before, Broker!IsLast, Broker!Probing
    <3>3. Broker!HistoryExplainsEntries' = Broker!HistoryExplainsEntries
      BY <3>1, <3>2 DEF Broker!HistoryExplainsEntries
    <3>4. LastKnown' = LastKnown /\ Dated' = Dated /\ Broker!TypeOK' = Broker!TypeOK
      BY <3>1, <3>2 DEF LastKnown, Dated, Broker!TypeOK
    <3> QED
      BY <3>3, <3>4 DEF BrokerInv
  <2>3. CASE Broker!Step
    BY <2>1, <2>3, BrokerStep
  <2> QED
    BY <2>2, <2>3, EvidenceStep
<1>3. BoundSpec => []TypeOK
  BY SchedulerSteps, TypeCorrect, PTL
<1> QED
  BY <1>1, <1>2, <1>3, PTL DEF BoundSpec

(* The history of the broker's state file explains the entry of every      *)
(* route: a lease stands exactly after its own claim or recovery, an       *)
(* observation exactly after its recording (request_probe,                 *)
(* record_observation).                                                    *)
THEOREM BrokerHistoryCorrect == BoundSpec => []BrokerHistoryExplains
<1>1. BrokerInv => BrokerHistoryExplains
  BY DEF BrokerInv, BrokerHistoryExplains
<1> QED
  BY <1>1, BrokerCorrect, PTL

(* An exact route is probed once at a time: an unexpired observation is    *)
(* not replaced, and an unexpired lease ends by its owner's recording,     *)
(* whatever times the callers inject (request_probe, record_observation).  *)
THEOREM ProbesAreSingle == BoundSpec => ProbesFlyAlone
<1> DEFINE Flight(k) ==
        /\ \A o \in entries[k].observation :
              clock < o.expires => entries'[k] = entries[k]
        /\ \A l \in entries[k].lease :
              clock < l.expires /\ entries'[k] # entries[k] =>
                 /\ entries'[k].lease = {} /\ entries'[k].observation # {}
                 /\ history'[Len(history')].owner = l.owner
<1>1. ASSUME TypeOK, BrokerInv, Broker!Step, NEW k \in Route PROVE Flight(k)
  <2>1. PICK m \in Route, owner \in Owner, now \in Broker!Injected, seconds \in Duration :
            \/ Broker!ClaimProbe(m, owner, now, seconds)
            \/ \E verdict \in Broker!Verdict :
                  Broker!RecordObservation(m, owner, verdict, now, seconds)
    BY <1>1 DEF Broker!Step
  <2>2. now <= clock /\ now \in Int /\ clock \in Int
    BY <1>1, ConstantsAssumption DEF Broker!Injected, TypeOK, Time
  <2>3. entries[k] \in Broker!Entry /\ entries \in [Route -> Broker!Entry]
    BY <1>1 DEF BrokerInv, Broker!TypeOK
  <2>4. /\ \A o \in entries[k].observation : o.expires \in Int
        /\ \A l \in entries[k].lease : l.expires \in Int
    BY <2>3 DEF Broker!Entry, Broker!Observation, Broker!Lease
  <2>5. m # k => entries'[k] = entries[k]
    BY <2>1, <2>3 DEF Broker!ClaimProbe, Broker!RecordObservation
  <2>6. CASE m = k /\ Broker!ClaimProbe(m, owner, now, seconds)
    BY <2>2, <2>4, <2>6 DEF Broker!ClaimProbe
  <2>7. ASSUME m = k, NEW verdict \in Broker!Verdict,
               Broker!RecordObservation(m, owner, verdict, now, seconds)
        PROVE  Flight(k)
    <3>1. \E l \in entries[k].lease : l.owner = owner
      BY <2>7 DEF Broker!RecordObservation
    <3>2. entries[k].observation = {} /\ \A l \in entries[k].lease : l.owner = owner
      <4>1. PICK i \in DOMAIN history :
              /\ Broker!IsLast(Broker!EventsOf(k), i) /\ Broker!Probing(i)
              /\ \A l \in entries[k].lease : l.owner = history[i].owner
        BY <1>1, <3>1, LastEvent
      <4>2. entries[k].observation = {}
        BY <1>1, <4>1 DEF BrokerInv, Broker!HistoryExplainsEntries
      <4> QED
        BY <3>1, <4>1, <4>2
    <3>3. entries'[k].lease = {} /\ entries'[k].observation # {}
      BY <2>3, <2>7 DEF Broker!RecordObservation
    <3>4. history'[Len(history')].owner = owner
      <4> DEFINE event == [kind |-> "observation_recorded", key |-> m, at |-> now,
                           owner |-> owner]
      <4>1. history' = Append(history, event)
        BY <2>7 DEF Broker!RecordObservation, Broker!AppendEvent
      <4>2. event \in Broker!Event
        BY <2>2 DEF Broker!Event, Broker!Kinds, Broker!Injected
      <4>3. Len(history') = Len(history) + 1 /\ history'[Len(history) + 1] = event
        BY <1>1, <4>1, <4>2, AppendFacts DEF BrokerInv, Broker!TypeOK
      <4> QED
        BY <4>3
    <3> QED
      BY <3>2, <3>3, <3>4
  <2>8. CASE m # k
    BY <2>5, <2>8
  <2> QED
    BY <2>1, <2>6, <2>7, <2>8
<1>2. TypeOK /\ BrokerInv /\ [BoundNext]_all => [\A k \in Route : Flight(k)]_<<entries, history, clock>>
  <2> SUFFICES ASSUME TypeOK, BrokerInv, [BoundNext]_all
               PROVE  \A k \in Route : Flight(k)
    OBVIOUS
  <2>1. CASE UNCHANGED evidence
    BY <2>1 DEF evidence
  <2> QED
    BY <1>1, <2>1, EvidenceStep
<1>3. BoundSpec => []TypeOK
  BY SchedulerSteps, TypeCorrect, PTL
<1> QED
  BY <1>2, <1>3, BrokerCorrect, PTL DEF BoundSpec, ProbesFlyAlone, Broker!SingleFlight

----------------------------------------------------------------------------
(* What grants rest on.                                                    *)

(* An admission named a state of the broker that had been reached.         *)
Named ==
    /\ admission \in [LeaseId -> SUBSET Nat]
    /\ \A l \in LeaseId : \A c \in admission[l] : c <= Len(history)

(* The evidence one granted row rests on, as GrantsRestOnFreshEvidence     *)
(* says of all of them.                                                    *)
Rests(i) ==
    \E j \in EvidenceFor(i) :
       /\ \A k \in EvidenceFor(i) : k <= j
       /\ history[j].kind = "observation_recorded"
       /\ history[j].at <= ledger[i].at
       /\ \E seconds \in Duration : ledger[i].at < history[j].at + seconds

(* What an admission writes: the grant of an unused lease, on a route with *)
(* a callable current observation, naming the broker's state of now.       *)
LEMMA AdmissionFacts ==
    ASSUME TypeOK, AdmitAny
    PROVE  \E row \in Row, now \in Injected :
             /\ ledger' = Append(ledger, row) /\ row.at = now
             /\ row.type = "lease_granted" /\ LeaseUnused(row.lease)
             /\ Broker!Current(row.route, now) # {}
             /\ admission' = [admission EXCEPT ![row.lease] = {Len(history)}]
             /\ UNCHANGED evidence
<1>1. PICK e \in Envelope, lease \in LeaseId, fence \in Fence, now \in Injected :
          \E offer \in Offers[e] : AdmitCurrent(e, offer, lease, fence, now)
  BY DEF AdmitAny
<1>2. PICK offer \in Offers[e] : AdmitCurrent(e, offer, lease, fence, now)
  BY <1>1
<1> DEFINE eligible == {k \in DOMAIN offer : Eligible(e, offer[k])}
<1>3. PICK k \in Selected(e, offer, eligible) :
          Record(Grant(e, offer[k], lease, fence, now))
  BY <1>2 DEF AdmitCurrent, Admit
<1>4. k \in DOMAIN offer
  BY <1>3 DEF Selected, Window
<1> DEFINE row == Grant(e, offer[k], lease, fence, now)
<1>5. row \in Row
  <2>1. offer[k] \in [route : Route, evidence : Evidence]
    BY <1>2, <1>4, ConstantsAssumption, ElementFacts
  <2>2. now \in Nat /\ now + Policy.ttl \in Nat /\ fence \in Nat
    BY InjectedFacts, ConstantsAssumption DEF Fence, TypeOK
  <2>3. EnvelopeInfo[e].task \in Task
    BY ConstantsAssumption
  <2> QED
    BY <2>1, <2>2, <2>3 DEF Row, Grant, EventTypes, TerminalLeaseEvents
<1>6. /\ row.type = "lease_granted" /\ row.lease = lease
      /\ row.at = now /\ row.route = offer[k].route
  BY DEF Grant
<1>7. ledger' = Append(ledger, row)
  BY <1>3 DEF Record
<1>8. Broker!Current(offer[k].route, now) # {}
  BY <1>2, <1>4 DEF AdmitCurrent, Vouched, CallableAt, Callable
<1>9. /\ LeaseUnused(lease) /\ UNCHANGED evidence
      /\ admission' = [admission EXCEPT ![lease] = {Len(history)}]
  BY <1>2 DEF AdmitCurrent, Admit, Broker!Cursor
<1> HIDE DEF row
<1> QED
  BY <1>5, <1>6, <1>7, <1>8, <1>9

(* Any other step appends no grant and names nothing anew.                 *)
LEMMA NoAdmission ==
    ASSUME TypeOK, [BoundNext]_all, ~AdmitAny
    PROVE  /\ admission' = admission
           /\ \/ ledger' = ledger
              \/ \E row \in Row : row.type # "lease_granted" /\ ledger' = Append(ledger, row)
<1>1. admission' = admission
  <2>1. ASSUME NEW lease \in LeaseId, Dispatch(lease) PROVE admission' = admission
    BY <2>1 DEF Dispatch, Start, Spawn, Finish, Killed
  <2> QED
    BY <2>1 DEF BoundNext, Schedule, Probe, BindAny, Bind, TimePasses, all, dispatch
<1>2. CASE Schedule
  <2>1. PICK lease \in LeaseId, fence \in Fence, now \in Injected :
            \/ Release(lease, fence, now) \/ Recover(lease, fence, now)
            \/ \E reason \in Reason : ExecutionUnknown(lease, fence, now, reason)
            \/ QualityAccepted(lease, fence, now)
    BY <1>2 DEF Schedule, ReleaseSome, RecoverSome, UnknownSome, AcceptSome
  <2>2. ~(\E row \in Row : row.type = "lease_granted" /\ ledger' = Append(ledger, row))
    <3> SUFFICES ASSUME NEW row \in Row, row.type = "lease_granted",
                        ledger' = Append(ledger, row)
                 PROVE  FALSE
      OBVIOUS
    <3>1. \A x : ledger' = Append(ledger, x) => x = row
      <4> SUFFICES ASSUME NEW x, Append(ledger, x) = Append(ledger, row) PROVE x = row
        OBVIOUS
      <4>1. ledger \in Seq(Row \cup {x}) /\ row \in Row \cup {x}
        BY DEF TypeOK
      <4> QED
        BY <4>1, AppendFacts
    <3>2. \A i \in Active : ledger[i] \in Row
      BY ActiveFacts DEF TypeOK
    <3>3. Current(lease, fence) \subseteq Active
      BY DEF Current
    <3>4. CASE Release(lease, fence, now)
      BY <3>1, <3>2, <3>3, <3>4 DEF Release, Record, Row
    <3>5. CASE Recover(lease, fence, now)
      BY <3>1, <3>2, <3>3, <3>5 DEF Recover, Record, Row
    <3>6. CASE \E reason \in Reason : ExecutionUnknown(lease, fence, now, reason)
      BY <3>1, <3>2, <3>3, <3>6 DEF ExecutionUnknown, Record, Row
    <3>7. CASE QualityAccepted(lease, fence, now)
      BY <3>1, <3>2, <3>3, <3>7 DEF QualityAccepted, Record, Row
    <3> QED
      BY <2>1, <3>4, <3>5, <3>6, <3>7
  <2>3. [Next]_vars
    BY StepRefines
  <2> QED
    BY <1>1, <2>2, <2>3, StepShape
<1>3. CASE ~Schedule
  <2>1. ASSUME NEW lease \in LeaseId, Dispatch(lease) PROVE ledger' = ledger
    BY <2>1 DEF Dispatch, Start, Spawn, Finish, Killed, vars
  <2>2. ledger' = ledger
    BY <1>3, <2>1 DEF BoundNext, Probe, BindAny, Bind, TimePasses, Tick, all, vars
  <2> QED
    BY <1>1, <2>2
<1> QED
  BY <1>2, <1>3

(* The history of the broker only grows.                                   *)
LEMMA HistoryGrows ==
    ASSUME TypeOK, BrokerInv, [BoundNext]_all
    PROVE  /\ Len(history) \in Nat /\ Len(history') \in Nat /\ Len(history) <= Len(history')
           /\ DOMAIN history = 1 .. Len(history) /\ DOMAIN history' = 1 .. Len(history')
           /\ \A j \in DOMAIN history : history'[j] = history[j]
<1>1. clock \in Nat
  BY ConstantsAssumption DEF TypeOK, Time
<1>2. CASE UNCHANGED evidence
  BY <1>2 DEF evidence, BrokerInv, Broker!TypeOK
<1>3. CASE Broker!Step
  <2>1. PICK event \in Broker!Event : history' = Append(history, event)
    BY <1>1, <1>3, BrokerStepShape DEF BrokerInv, Claimed, Recorded, Noted
  <2> QED
    BY <2>1, AppendFacts DEF BrokerInv, Broker!TypeOK
<1> QED
  BY <1>2, <1>3, EvidenceStep

(* What a grant rests on does not change after its admission.              *)
LEMMA RestsStay ==
    ASSUME TypeOK, BrokerInv, Named, [BoundNext]_all, NEW i \in DOMAIN ledger, Rests(i),
           ledger'[i] = ledger[i], admission'[ledger[i].lease] = admission[ledger[i].lease]
    PROVE  Rests(i)'
<1> DEFINE lease == ledger[i].lease
<1>1. lease \in LeaseId
  <2>1. ledger[i] \in Row
    BY ElementFacts DEF TypeOK
  <2> QED
    BY <2>1 DEF Row
<1>2. /\ Len(history) \in Nat /\ Len(history') \in Nat /\ Len(history) <= Len(history')
      /\ DOMAIN history = 1 .. Len(history) /\ DOMAIN history' = 1 .. Len(history')
      /\ \A j \in DOMAIN history : history'[j] = history[j]
  BY HistoryGrows
<1>3. \A c \in admission[lease] : c \in Nat /\ c <= Len(history)
  BY <1>1 DEF Named
<1>4. EvidenceFor(i)' = EvidenceFor(i)
  BY <1>2, <1>3 DEF EvidenceFor
<1>5. EvidenceFor(i) \subseteq DOMAIN history
  BY DEF EvidenceFor
<1> QED
  BY <1>2, <1>4, <1>5 DEF Rests

(* A fresh admission rests on the last observation of its route.           *)
LEMMA AdmissionRests ==
    ASSUME TypeOK, BrokerInv, Named, AdmitAny,
           NEW row \in Row, NEW now \in Injected, ledger' = Append(ledger, row),
           row.at = now, Broker!Current(row.route, now) # {},
           admission' = [admission EXCEPT ![row.lease] = {Len(history)}],
           UNCHANGED evidence, NEW n, n = Len(ledger) + 1
    PROVE  Rests(n)'
<1> DEFINE r == row.route
<1>1. row.lease \in LeaseId /\ r \in Route /\ now \in Nat
  BY ConstantsAssumption DEF Row, Injected, Time
<1>2. ledger'[n] = row
  BY AppendFacts DEF TypeOK
<1>3. history \in Seq(Broker!Event) /\ entries[r] \in Broker!Entry
  BY <1>1 DEF BrokerInv, Broker!TypeOK
<1>4. history' = history /\ Len(history) \in Nat /\ DOMAIN history = 1 .. Len(history)
  BY <1>3 DEF evidence
<1>5. admission'[row.lease] = {Len(history)}
  BY <1>1 DEF Named
<1>6. EvidenceFor(n)' = Broker!EventsOf(r)
  BY <1>2, <1>4, <1>5 DEF EvidenceFor, Broker!EventsOf
<1>7. PICK o \in entries[r].observation : o.observed <= now /\ now < o.expires
  BY DEF Broker!Current
<1>8. PICK j \in DOMAIN history :
        /\ Broker!IsLast(Broker!EventsOf(r), j) /\ ~Broker!Probing(j)
        /\ o.observed = history[j].at
  BY <1>1, LastEvent
<1>9. PICK seconds \in Duration : o.expires = o.observed + seconds
  BY <1>1 DEF BrokerInv, Dated
<1>10. history[j].kind = "observation_recorded"
  <2>1. history[j] \in Broker!Event
    BY <1>3, ElementFacts
  <2> QED
    BY <1>8, <2>1 DEF Broker!Event, Broker!Kinds, Broker!Probing
<1>11. j \in Broker!EventsOf(r) /\ \A k \in Broker!EventsOf(r) : k <= j
  BY <1>8 DEF Broker!IsLast
<1> QED
  BY <1>2, <1>4, <1>6, <1>7, <1>8, <1>9, <1>10, <1>11 DEF Rests

(* The rows that grant.                                                    *)
Grants == RowsOfType(ledger, "lease_granted")

AdmissionInv == Named /\ \A i \in Grants : Rests(i)

(* Every admission rested on fresh evidence, and still does.               *)
LEMMA AdmissionsCorrect == BoundSpec => []AdmissionInv
<1>1. BoundInit => AdmissionInv
  BY DEF BoundInit, Init, AdmissionInv, Named, Grants, RowsOfType
<1>2. TypeOK /\ BrokerInv /\ AdmissionInv /\ [BoundNext]_all => AdmissionInv'
  <2> SUFFICES ASSUME TypeOK, BrokerInv, AdmissionInv, [BoundNext]_all
               PROVE  AdmissionInv'
    OBVIOUS
  <2> USE DEF AdmissionInv, Grants
  <2>1. Grants \subseteq DOMAIN ledger
    BY DEF RowsOfType
  <2>2. CASE AdmitAny
    <3>1. PICK row \in Row, now \in Injected :
             /\ ledger' = Append(ledger, row) /\ row.at = now
             /\ row.type = "lease_granted" /\ LeaseUnused(row.lease)
             /\ Broker!Current(row.route, now) # {}
             /\ admission' = [admission EXCEPT ![row.lease] = {Len(history)}]
             /\ UNCHANGED evidence
      BY <2>2, AdmissionFacts
    <3>2. Named'
      BY <3>1, HistoryGrows DEF Named, Row, evidence
    <3>3. ASSUME NEW i \in DOMAIN ledger, i \in Grants PROVE Rests(i)'
      <4>1. ledger'[i] = ledger[i] /\ ledger[i].lease # row.lease
        BY <3>1, AppendFacts DEF TypeOK, LeaseUnused
      <4>2. ledger[i] \in Row
        BY ElementFacts DEF TypeOK
      <4>3. admission'[ledger[i].lease] = admission[ledger[i].lease]
        BY <3>1, <4>1, <4>2 DEF Named, Row
      <4> QED
        BY <3>3, <4>1, <4>3, RestsStay
    <3>4. ASSUME NEW n, n = Len(ledger) + 1 PROVE Rests(n)'
      BY <2>2, <3>1, <3>4, AdmissionRests
    <3>5. Grants' \subseteq Grants \cup {Len(ledger) + 1}
      BY <3>1, AppendFacts DEF TypeOK, RowsOfType
    <3> QED
      BY <2>1, <3>2, <3>3, <3>4, <3>5
  <2>3. CASE ~AdmitAny
    <3>1. admission' = admission
      BY <2>3, NoAdmission
    <3>2. Named'
      BY <3>1, HistoryGrows DEF Named
    <3>3. CASE ledger' = ledger
      BY <2>1, <3>1, <3>2, <3>3, RestsStay
    <3>4. ASSUME NEW row \in Row, row.type # "lease_granted", ledger' = Append(ledger, row)
          PROVE  AdmissionInv'
      <4>1. \A i \in DOMAIN ledger : ledger'[i] = ledger[i]
        BY <3>4, AppendFacts DEF TypeOK
      <4>2. Grants' \subseteq Grants
        BY <3>4, AppendFacts DEF TypeOK, RowsOfType
      <4> QED
        BY <2>1, <3>1, <3>2, <4>1, <4>2, RestsStay
    <3> QED
      BY <2>3, <3>3, <3>4, NoAdmission
  <2> QED
    BY <2>2, <2>3
<1>3. BoundSpec => []TypeOK
  BY SchedulerSteps, TypeCorrect, PTL
<1> QED
  BY <1>1, <1>2, <1>3, BrokerCorrect, PTL DEF BoundSpec

(* Every grant, and so every provider ever started, rests on an            *)
(* observation of its route that was the broker's last word on it and was  *)
(* within its time to live when it was admitted (_verify_broker_binding,   *)
(* _observation_callable, admit).                                          *)
THEOREM GrantsAreFresh == BoundSpec => []GrantsRestOnFreshEvidence
<1>1. AdmissionInv => GrantsRestOnFreshEvidence
  BY DEF AdmissionInv, Grants, Rests, GrantsRestOnFreshEvidence
<1> QED
  BY <1>1, AdmissionsCorrect, PTL

(* Ledger, clock, broker's state, admissions, bindings and dispatches stay *)
(* in their ranges.                                                        *)
THEOREM BoundTypeCorrect == BoundSpec => []BoundTypeOK
<1>1. TypeOK /\ BrokerInv /\ AdmissionInv /\ DispatchInv => BoundTypeOK
  BY DEF BrokerInv, AdmissionInv, Named, DispatchInv, Rested, BoundTypeOK
<1>2. BoundSpec => []TypeOK
  BY SchedulerSteps, TypeCorrect, PTL
<1> QED
  BY <1>1, <1>2, BrokerCorrect, AdmissionsCorrect, DispatchInvariant, PTL
=============================================================================
