----------------------------- MODULE CustodyProofs -----------------------------
(***************************************************************************)
(* Theorems of the two models whose files explain one another after any    *)
(* crash: the scoped attempt, with its lease, its journal and its evidence *)
(* directory, and the protected facts, with the writer's log, the anchor's *)
(* log and the owner's journal.                                            *)
(***************************************************************************)
EXTENDS ScopedAttempt, ProtectedFacts, SequenceTheorems, FiniteSetTheorems, TLAPS

--------------------------------------------------------------------------------
(* Scoped attempts, for every set of dispatchers, attempts and authority   *)
(* records.  One inductive invariant carries all the theorems: an evidence *)
(* directory gives an attempt to one dispatcher for good, so what that     *)
(* dispatcher has done so far determines what the stores may hold.         *)


(* An attempt belongs to at most one dispatcher at a time.                 *)
Exclusive ==
    /\ \A p \in Runs : At(p, "idle") <=> attempt[p] = NoAttempt
    /\ \A p, q \in Runs : attempt[p] = attempt[q] /\ attempt[p] # NoAttempt => p = q

(* Nothing was done for an attempt without an evidence directory.          *)
Untouched(a) ==
    /\ lease[a] = "absent" /\ journal[a] = "absent" /\ manifest[a] = "absent"
    /\ tree[a] = "absent" /\ provider[a] = "none" /\ starts[a] = 0
    /\ a \notin artifact

Fresh == \A a \in Attempts \ evidence : Untouched(a)

(* A provider process was paid for with the authority record, once.        *)
Paid ==
    /\ \A r \in Authorities : \A a, b \in consumed[r] : a = b
    /\ \A a \in Attempts : starts[a] <= 1
    /\ \A a \in Attempts : starts[a] > 0 => a \in consumed[AuthorityOf[a]]

Preparing == {"leased", "authorised", "copied", "journalled", "begun", "unprepared"}
Authorised == {"authorised", "copied", "journalled", "begun", "ready"}
Working == {"ready", "capturing", "captured", "completing", "receipting", "final_journal"}
Recording == {"final_journal", "final_lease"}

(* What a dispatcher knows of the attempt it works on.                     *)
Holding(p) ==
    LET a == attempt[p] IN
    /\ a \in evidence /\ manifest[a] = "absent"
    /\ ~At(p, "selected") => a \notin artifact
    /\ place[p] \in Preparing \cup {"bound", "ready"} =>
          starts[a] = 0 /\ provider[a] = "none" /\ tree[a] # "changed"
    /\ place[p] \in Authorised => a \in consumed[AuthorityOf[a]]
    /\ At(p, "bound") => lease[a] = "absent" /\ journal[a] = "absent"
    /\ place[p] \in Preparing =>
          lease[a] = "started" /\ journal[a] \in {"absent", "prepared", "consuming"}
    /\ place[p] \in {"leased", "authorised", "copied"} => journal[a] = "absent"
    /\ At(p, "begun") => journal[a] = "consuming"
    /\ place[p] \in Working => lease[a] = "started" /\ journal[a] = "consuming"
    /\ place[p] \in {"captured", "completing", "receipting"} => provider[a] # "running"
    /\ place[p] \in Recording /\ aim[p] = "failed" =>
          provider[a] # "running" /\ tree[a] # "changed"
    /\ place[p] \in Recording /\ aim[p] = "succeeded" => a \in receipt
    /\ At(p, "final_lease") =>
          /\ lease[a] = "started"
          /\ journal[a] \in {"consuming", JournalEnd(aim[p])}
          /\ ~errors[p] => journal[a] = JournalEnd(aim[p])
    /\ place[p] \in {"unknown_journal", "unknown_lease"} =>
          /\ lease[a] \in {"started", aim[p]}
          /\ journal[a] \in {"consuming", JournalEnd(aim[p]), Unknown}
          /\ raising[p]
    /\ At(p, "unknown_lease") /\ ~errors[p] => journal[a] = Unknown
    /\ At(p, "terminal") /\ ~raising[p] =>
          /\ lease[a] = aim[p] /\ journal[a] = JournalEnd(aim[p])
          /\ aim[p] = "succeeded" => a \in receipt
    /\ At(p, "selected") =>
          lease[a] = "succeeded" /\ journal[a] = "consumed_success" /\ a \in receipt

Held == \A p \in Runs : ~At(p, "idle") => Holding(p)

(* The safety properties of one attempt.                                   *)
SettledAt(a) ==
    /\ a \in artifact \/ manifest[a] = "selected" =>
          a \in receipt /\ lease[a] = "succeeded" /\ journal[a] = "consumed_success"
    /\ manifest[a] = "stopped" =>
          lease[a] \in {"failed", Unknown} /\ journal[a] = JournalEnd(lease[a])
    /\ lease[a] = "failed" \/ journal[a] = "consumed_failure" =>
          tree[a] # "changed" /\ provider[a] # "running"
    /\ ~(lease[a] = "succeeded" /\ journal[a] = "consumed_failure")
    /\ ~(lease[a] = "failed" /\ journal[a] = "consumed_success")

Settled == \A a \in Attempts : SettledAt(a)

IInv == TypeOK /\ Exclusive /\ Fresh /\ Paid /\ Held /\ Settled

----------------------------------------------------------------------------
(* A step of a dispatcher touches its own attempt only.                    *)

SameAttempt(b) ==
    /\ lease'[b] = lease[b] /\ journal'[b] = journal[b] /\ manifest'[b] = manifest[b]
    /\ tree'[b] = tree[b] /\ provider'[b] = provider[b] /\ starts'[b] = starts[b]
    /\ b \in receipt' <=> b \in receipt
    /\ b \in artifact' <=> b \in artifact

SameRun(q) ==
    /\ place'[q] = place[q] /\ attempt'[q] = attempt[q] /\ aim'[q] = aim[q]
    /\ errors'[q] = errors[q] /\ raising'[q] = raising[q]

Local(p) ==
    /\ evidence' = evidence
    /\ \A r \in Authorities : consumed[r] \subseteq consumed'[r]
    /\ \A b \in Attempts : b # attempt[p] => SameAttempt(b)
    /\ \A q \in Runs : q # p => SameRun(q)

(* The dispatcher has left its attempt, or holds it still.                 *)
Onward(p) ==
    \/ place'[p] = "idle" /\ attempt'[p] = NoAttempt
    \/ place'[p] # "idle" /\ attempt'[p] = attempt[p] /\ Holding(p)'

(* What a step must show of its own attempt.                               *)
Keeps(p) ==
    /\ TypeOK' /\ Paid' /\ Local(p) /\ Onward(p)
    /\ \A a \in Attempts : a = attempt[p] => SettledAt(a)'

(* A dispatcher that works on an attempt holds it.                         *)
LEMMA HolderFacts ==
    ASSUME IInv, NEW p \in Runs, ~At(p, "idle")
    PROVE  /\ attempt[p] \in Attempts /\ Holding(p) /\ SettledAt(attempt[p])
           /\ AuthorityOf[attempt[p]] \in Authorities
  BY AuthorityAssumption DEF IInv, TypeOK, Exclusive, Held, Settled

(* What is known of a run carries over when neither it nor its attempt     *)
(* changes.                                                                *)
LEMMA HoldingCarries ==
    ASSUME IInv, NEW q \in Runs, ~At(q, "idle"), SameRun(q), SameAttempt(attempt[q]),
           evidence' = evidence, \A r \in Authorities : consumed[r] \subseteq consumed'[r]
    PROVE  Holding(q)'
<1>1. attempt[q] \in Attempts /\ Holding(q) /\ AuthorityOf[attempt[q]] \in Authorities
  BY HolderFacts
<1> QED
  BY <1>1 DEF Holding, SameRun, SameAttempt, At, JournalEnd

(* A step that keeps its own attempt in order preserves the invariant.     *)
LEMMA LocalStep ==
    ASSUME IInv, NEW p \in Runs, ~At(p, "idle"), Keeps(p)
    PROVE  IInv'
<1> USE DEF Keeps
<1>1. attempt[p] \in Attempts /\ attempt[p] \in evidence
  BY HolderFacts DEF Holding
<1>2. \A q \in Runs : q # p => attempt[q] # attempt[p]
  BY <1>1, NamesAssumption DEF IInv, Exclusive
<1>3. Exclusive'
  BY <1>1, <1>2, NamesAssumption DEF IInv, Exclusive, Local, SameRun, Onward, At
<1>4. Fresh'
  BY <1>1 DEF IInv, Fresh, Local, SameAttempt, Untouched
<1>5. ASSUME NEW q \in Runs, ~At(q, "idle")'
      PROVE  Holding(q)'
  <2>1. CASE q = p
    BY <1>5, <2>1 DEF Onward, At
  <2>2. CASE q # p
    <3>1. ~At(q, "idle") /\ SameRun(q)
      BY <1>5, <2>2 DEF Local, SameRun, At
    <3>2. attempt[q] \in Attempts
      BY <3>1, HolderFacts
    <3>3. SameAttempt(attempt[q])
      BY <1>2, <2>2, <3>2 DEF Local
    <3> QED
      BY <3>1, <3>3, HoldingCarries DEF Local
  <2> QED
    BY <2>1, <2>2
<1>6. ASSUME NEW b \in Attempts PROVE SettledAt(b)'
  <2>1. CASE b = attempt[p]
    BY <2>1
  <2>2. CASE b # attempt[p]
    BY <2>2 DEF IInv, Settled, SettledAt, Local, SameAttempt, JournalEnd
  <2> QED
    BY <2>1, <2>2
<1> QED
  BY <1>3, <1>4, <1>5, <1>6 DEF IInv, Held, Settled

----------------------------------------------------------------------------

(* The invariant holds at first.                                           *)
LEMMA InitInvariant == Init => IInv
<1> SUFFICES ASSUME Init PROVE IInv OBVIOUS
<1> USE DEF Init
<1>1. TypeOK
  BY DEF TypeOK, LeaseStates, JournalStates, Places, Outcomes, Ends, Unknown
<1>2. Exclusive /\ Held
  BY DEF Exclusive, Held, At
<1>3. Fresh
  BY DEF Fresh, Untouched
<1>4. Paid
  BY DEF Paid
<1>5. Settled
  BY DEF Settled, SettledAt
<1> QED
  BY <1>1, <1>2, <1>3, <1>4, <1>5 DEF IInv

(* The preparation of an attempt preserves the invariant.                  *)
LEMMA Preparation ==
    ASSUME IInv, NEW p \in Runs, ~At(p, "idle"), Prepare(p)
    PROVE  Keeps(p)
<1>1. /\ attempt[p] \in Attempts /\ Holding(p) /\ SettledAt(attempt[p])
      /\ AuthorityOf[attempt[p]] \in Authorities
      /\ TypeOK /\ Paid
  BY HolderFacts DEF IInv
<1> USE DEF At, Go, Leave, Record, Written, stores, published, effects, verdict,
        JournalEnd, Unknown, Outcomes, Ends
<1>2. CASE StartLease(p)
  <2> USE <1>1, <1>2 DEF StartLease
  <2>1. TypeOK'
    BY NamesAssumption DEF TypeOK, LeaseStates, JournalStates, Places
  <2>2. Local(p)
    BY DEF TypeOK, Local, SameAttempt, SameRun
  <2>3. Paid'
    BY DEF TypeOK, Paid, Holding, Authorised, Preparing
  <2>4. Onward(p)
    BY DEF TypeOK, Onward, Holding, Authorised, Preparing, Working, Recording
  <2>5. \A a \in Attempts : a = attempt[p] => SettledAt(a)'
    BY DEF TypeOK, SettledAt, Holding, Preparing, Working, Recording
  <2> QED
    BY <2>1, <2>2, <2>3, <2>4, <2>5 DEF Keeps
<1>3. CASE ConsumeAuthority(p)
  <2> USE <1>1, <1>3 DEF ConsumeAuthority
  <2>1. TypeOK'
    BY NamesAssumption DEF TypeOK, LeaseStates, JournalStates, Places
  <2>2. Local(p)
    BY DEF TypeOK, Local, SameAttempt, SameRun
  <2>3. Paid'
    <3>1. /\ starts' = starts
          /\ \A r \in Authorities :
                \/ consumed'[r] = consumed[r]
                \/ consumed[r] = {} /\ consumed'[r] = {attempt[p]}
      BY DEF TypeOK
    <3> QED
      BY <3>1, AuthorityAssumption DEF Paid
  <2>4. Onward(p)
    BY DEF TypeOK, Onward, Holding, Authorised, Preparing, Working, Recording
  <2>5. \A a \in Attempts : a = attempt[p] => SettledAt(a)'
    BY DEF TypeOK, SettledAt, Holding, Preparing, Working, Recording
  <2> QED
    BY <2>1, <2>2, <2>3, <2>4, <2>5 DEF Keeps
<1>4. CASE CopyWorktree(p)
  <2> USE <1>1, <1>4 DEF CopyWorktree
  <2>1. TypeOK'
    BY NamesAssumption DEF TypeOK, LeaseStates, JournalStates, Places
  <2>2. Local(p)
    BY DEF TypeOK, Local, SameAttempt, SameRun
  <2>3. Paid'
    BY DEF TypeOK, Paid, Holding, Authorised, Preparing
  <2>4. Onward(p)
    BY DEF TypeOK, Onward, Holding, Authorised, Preparing, Working, Recording
  <2>5. \A a \in Attempts : a = attempt[p] => SettledAt(a)'
    BY DEF TypeOK, SettledAt, Holding, Preparing, Working, Recording
  <2> QED
    BY <2>1, <2>2, <2>3, <2>4, <2>5 DEF Keeps
<1>5. CASE OpenJournal(p)
  <2> USE <1>1, <1>5 DEF OpenJournal
  <2>1. TypeOK'
    BY NamesAssumption DEF TypeOK, LeaseStates, JournalStates, Places
  <2>2. Local(p)
    BY DEF TypeOK, Local, SameAttempt, SameRun
  <2>3. Paid'
    BY DEF TypeOK, Paid, Holding, Authorised, Preparing
  <2>4. Onward(p)
    BY DEF TypeOK, Onward, Holding, Authorised, Preparing, Working, Recording
  <2>5. \A a \in Attempts : a = attempt[p] => SettledAt(a)'
    BY DEF TypeOK, SettledAt, Holding, Preparing, Working, Recording
  <2> QED
    BY <2>1, <2>2, <2>3, <2>4, <2>5 DEF Keeps
<1>6. CASE EnterConsuming(p)
  <2> USE <1>1, <1>6 DEF EnterConsuming
  <2>1. TypeOK'
    BY NamesAssumption DEF TypeOK, LeaseStates, JournalStates, Places
  <2>2. Local(p)
    BY DEF TypeOK, Local, SameAttempt, SameRun
  <2>3. Paid'
    BY DEF TypeOK, Paid, Holding, Authorised, Preparing
  <2>4. Onward(p)
    BY DEF TypeOK, Onward, Holding, Authorised, Preparing, Working, Recording
  <2>5. \A a \in Attempts : a = attempt[p] => SettledAt(a)'
    BY DEF TypeOK, SettledAt, Holding, Preparing, Working, Recording
  <2> QED
    BY <2>1, <2>2, <2>3, <2>4, <2>5 DEF Keeps
<1>7. CASE TakeSnapshot(p)
  <2> USE <1>1, <1>7 DEF TakeSnapshot
  <2>1. TypeOK'
    BY NamesAssumption DEF TypeOK, LeaseStates, JournalStates, Places
  <2>2. Local(p)
    BY DEF TypeOK, Local, SameAttempt, SameRun
  <2>3. Paid'
    BY DEF TypeOK, Paid, Holding, Authorised, Preparing
  <2>4. Onward(p)
    BY DEF TypeOK, Onward, Holding, Authorised, Preparing, Working, Recording
  <2>5. \A a \in Attempts : a = attempt[p] => SettledAt(a)'
    BY DEF TypeOK, SettledAt, Holding, Preparing, Working, Recording
  <2> QED
    BY <2>1, <2>2, <2>3, <2>4, <2>5 DEF Keeps
<1>8. CASE PreparationFails(p)
  <2> USE <1>1, <1>8 DEF PreparationFails
  <2>1. TypeOK'
    BY NamesAssumption DEF TypeOK, LeaseStates, JournalStates, Places
  <2>2. Local(p)
    BY DEF TypeOK, Local, SameAttempt, SameRun
  <2>3. Paid'
    BY DEF TypeOK, Paid, Holding, Authorised, Preparing
  <2>4. Onward(p)
    BY DEF TypeOK, Onward, Holding, Authorised, Preparing, Working, Recording
  <2>5. \A a \in Attempts : a = attempt[p] => SettledAt(a)'
    BY DEF TypeOK, SettledAt, Holding, Preparing, Working, Recording
  <2> QED
    BY <2>1, <2>2, <2>3, <2>4, <2>5 DEF Keeps
<1>9. CASE CloseLease(p)
  <2> USE <1>1, <1>9 DEF CloseLease
  <2>1. TypeOK'
    BY NamesAssumption DEF TypeOK, LeaseStates, JournalStates, Places
  <2>2. Local(p)
    BY DEF TypeOK, Local, SameAttempt, SameRun
  <2>3. Paid'
    BY DEF TypeOK, Paid, Holding, Authorised, Preparing
  <2>4. Onward(p)
    BY DEF TypeOK, Onward, Holding, Authorised, Preparing, Working, Recording
  <2>5. \A a \in Attempts : a = attempt[p] => SettledAt(a)'
    BY DEF TypeOK, SettledAt, Holding, Preparing, Working, Recording
  <2> QED
    BY <2>1, <2>2, <2>3, <2>4, <2>5 DEF Keeps
<1> QED
  BY <1>2, <1>3, <1>4, <1>5, <1>6, <1>7, <1>8, <1>9 DEF Prepare, Bind

(* So do the provider's execution and the judgement of its result.         *)
LEMMA Execution ==
    ASSUME IInv, NEW p \in Runs, ~At(p, "idle"), Execute(p)
    PROVE  Keeps(p)
<1>1. /\ attempt[p] \in Attempts /\ Holding(p) /\ SettledAt(attempt[p])
      /\ AuthorityOf[attempt[p]] \in Authorities
      /\ TypeOK /\ Paid
  BY HolderFacts DEF IInv
<1> USE DEF At, Go, Leave, Record, Written, stores, published, effects, verdict,
        JournalEnd, Unknown, Outcomes, Ends
<1>2. CASE Spawn(p)
  <2> USE <1>1, <1>2 DEF Spawn
  <2>1. TypeOK'
    BY NamesAssumption DEF TypeOK, LeaseStates, JournalStates, Places
  <2>2. Local(p)
    BY DEF TypeOK, Local, SameAttempt, SameRun
  <2>3. Paid'
    BY DEF TypeOK, Paid, Holding, Authorised, Preparing
  <2>4. Onward(p)
    BY DEF TypeOK, Onward, Holding, Authorised, Preparing, Working, Recording
  <2>5. \A a \in Attempts : a = attempt[p] => SettledAt(a)'
    BY DEF TypeOK, SettledAt, Holding, Preparing, Working, Recording
  <2> QED
    BY <2>1, <2>2, <2>3, <2>4, <2>5 DEF Keeps
<1>3. CASE SpawnFails(p)
  <2> USE <1>1, <1>3 DEF SpawnFails
  <2>1. TypeOK'
    BY NamesAssumption DEF TypeOK, LeaseStates, JournalStates, Places
  <2>2. Local(p)
    BY DEF TypeOK, Local, SameAttempt, SameRun
  <2>3. Paid'
    BY DEF TypeOK, Paid, Holding, Authorised, Preparing
  <2>4. Onward(p)
    BY DEF TypeOK, Onward, Holding, Authorised, Preparing, Working, Recording
  <2>5. \A a \in Attempts : a = attempt[p] => SettledAt(a)'
    BY DEF TypeOK, SettledAt, Holding, Preparing, Working, Recording
  <2> QED
    BY <2>1, <2>2, <2>3, <2>4, <2>5 DEF Keeps
<1>4. CASE Capture(p)
  <2> USE <1>1, <1>4 DEF Capture
  <2>1. TypeOK'
    BY NamesAssumption DEF TypeOK, LeaseStates, JournalStates, Places
  <2>2. Local(p)
    BY DEF TypeOK, Local, SameAttempt, SameRun
  <2>3. Paid'
    BY DEF TypeOK, Paid, Holding, Authorised, Preparing
  <2>4. Onward(p)
    BY DEF TypeOK, Onward, Holding, Authorised, Preparing, Working, Recording
  <2>5. \A a \in Attempts : a = attempt[p] => SettledAt(a)'
    BY DEF TypeOK, SettledAt, Holding, Preparing, Working, Recording
  <2> QED
    BY <2>1, <2>2, <2>3, <2>4, <2>5 DEF Keeps
<1>5. CASE Normalise(p)
  <2> USE <1>1, <1>5 DEF Normalise
  <2>1. TypeOK'
    BY NamesAssumption DEF TypeOK, LeaseStates, JournalStates, Places
  <2>2. Local(p)
    BY DEF TypeOK, Local, SameAttempt, SameRun
  <2>3. Paid'
    BY DEF TypeOK, Paid, Holding, Authorised, Preparing
  <2>4. Onward(p)
    BY DEF TypeOK, Onward, Holding, Authorised, Preparing, Working, Recording
  <2>5. \A a \in Attempts : a = attempt[p] => SettledAt(a)'
    BY DEF TypeOK, SettledAt, Holding, Preparing, Working, Recording
  <2> QED
    BY <2>1, <2>2, <2>3, <2>4, <2>5 DEF Keeps
<1>6. CASE Forsake(p)
  <2> USE <1>1, <1>6 DEF Forsake
  <2>1. TypeOK'
    BY NamesAssumption DEF TypeOK, LeaseStates, JournalStates, Places
  <2>2. Local(p)
    BY DEF TypeOK, Local, SameAttempt, SameRun
  <2>3. Paid'
    BY DEF TypeOK, Paid, Holding, Authorised, Preparing
  <2>4. Onward(p)
    BY DEF TypeOK, Onward, Holding, Authorised, Preparing, Working, Recording
  <2>5. \A a \in Attempts : a = attempt[p] => SettledAt(a)'
    BY DEF TypeOK, SettledAt, Holding, Preparing, Working, Recording
  <2> QED
    BY <2>1, <2>2, <2>3, <2>4, <2>5 DEF Keeps
<1>7. CASE CompleteWithoutResult(p)
  <2> USE <1>1, <1>7 DEF CompleteWithoutResult
  <2>1. TypeOK'
    BY NamesAssumption DEF TypeOK, LeaseStates, JournalStates, Places
  <2>2. Local(p)
    BY DEF TypeOK, Local, SameAttempt, SameRun
  <2>3. Paid'
    BY DEF TypeOK, Paid, Holding, Authorised, Preparing
  <2>4. Onward(p)
    BY DEF TypeOK, Onward, Holding, Authorised, Preparing, Working, Recording
  <2>5. \A a \in Attempts : a = attempt[p] => SettledAt(a)'
    BY DEF TypeOK, SettledAt, Holding, Preparing, Working, Recording
  <2> QED
    BY <2>1, <2>2, <2>3, <2>4, <2>5 DEF Keeps
<1>8. CASE CompleteWithResult(p)
  <2> USE <1>1, <1>8 DEF CompleteWithResult
  <2>1. TypeOK'
    BY NamesAssumption DEF TypeOK, LeaseStates, JournalStates, Places
  <2>2. Local(p)
    BY DEF TypeOK, Local, SameAttempt, SameRun
  <2>3. Paid'
    BY DEF TypeOK, Paid, Holding, Authorised, Preparing
  <2>4. Onward(p)
    BY DEF TypeOK, Onward, Holding, Authorised, Preparing, Working, Recording
  <2>5. \A a \in Attempts : a = attempt[p] => SettledAt(a)'
    BY DEF TypeOK, SettledAt, Holding, Preparing, Working, Recording
  <2> QED
    BY <2>1, <2>2, <2>3, <2>4, <2>5 DEF Keeps
<1>9. CASE WriteReceipt(p)
  <2> USE <1>1, <1>9 DEF WriteReceipt
  <2>1. TypeOK'
    BY NamesAssumption DEF TypeOK, LeaseStates, JournalStates, Places
  <2>2. Local(p)
    BY DEF TypeOK, Local, SameAttempt, SameRun
  <2>3. Paid'
    BY DEF TypeOK, Paid, Holding, Authorised, Preparing
  <2>4. Onward(p)
    BY DEF TypeOK, Onward, Holding, Authorised, Preparing, Working, Recording
  <2>5. \A a \in Attempts : a = attempt[p] => SettledAt(a)'
    BY DEF TypeOK, SettledAt, Holding, Preparing, Working, Recording
  <2> QED
    BY <2>1, <2>2, <2>3, <2>4, <2>5 DEF Keeps
<1> QED
  BY <1>2, <1>3, <1>4, <1>5, <1>6, <1>7, <1>8, <1>9 DEF Execute

(* So do the recording of the end in both stores and the publication.      *)
LEMMA Settlement ==
    ASSUME IInv, NEW p \in Runs, ~At(p, "idle"), Settle(p)
    PROVE  Keeps(p)
<1>1. /\ attempt[p] \in Attempts /\ Holding(p) /\ SettledAt(attempt[p])
      /\ AuthorityOf[attempt[p]] \in Authorities
      /\ TypeOK /\ Paid
  BY HolderFacts DEF IInv
<1> USE DEF At, Go, Leave, Record, Written, stores, published, effects, verdict,
        JournalEnd, Unknown, Outcomes, Ends
<1>2. CASE FinaliseJournal(p)
  <2> USE <1>1, <1>2 DEF FinaliseJournal
  <2>1. TypeOK'
    BY NamesAssumption DEF TypeOK, LeaseStates, JournalStates, Places
  <2>2. Local(p)
    BY DEF TypeOK, Local, SameAttempt, SameRun
  <2>3. Paid'
    BY DEF TypeOK, Paid, Holding, Authorised, Preparing
  <2>4. Onward(p)
    BY DEF TypeOK, Onward, Holding, Authorised, Preparing, Working, Recording
  <2>5. \A a \in Attempts : a = attempt[p] => SettledAt(a)'
    BY DEF TypeOK, SettledAt, Holding, Preparing, Working, Recording
  <2> QED
    BY <2>1, <2>2, <2>3, <2>4, <2>5 DEF Keeps
<1>3. CASE FinaliseLease(p)
  <2> USE <1>1, <1>3 DEF FinaliseLease
  <2>1. TypeOK'
    <3>1. lease' \in [Attempts -> LeaseStates]
      <4>1. /\ lease \in [Attempts -> LeaseStates]
            /\ aim[p] \in LeaseStates /\ Unknown \in LeaseStates
        BY DEF TypeOK, LeaseStates
      <4>2. \/ lease' = lease
            \/ lease' = [lease EXCEPT ![attempt[p]] = aim[p]]
            \/ lease' = [lease EXCEPT ![attempt[p]] = Unknown]
        OBVIOUS
      <4> HIDE DEF Unknown, Ends, FinaliseLease
      <4> QED
        BY <4>1, <4>2
    <3>2. place' \in [Runs -> Places]
      BY DEF TypeOK, Places
    <3>3. attempt' \in [Runs -> Attempts \cup {NoAttempt}]
      BY DEF TypeOK
    <3>4. raising' \in [Runs -> BOOLEAN]
      BY DEF TypeOK
    <3> QED
      BY <3>1, <3>2, <3>3, <3>4 DEF TypeOK
  <2>2. Local(p)
    BY DEF TypeOK, Local, SameAttempt, SameRun
  <2>3. Paid'
    BY DEF TypeOK, Paid, Holding, Authorised, Preparing
  <2>4. Onward(p)
    BY DEF TypeOK, Onward, Holding, Authorised, Preparing, Working, Recording
  <2>5. \A a \in Attempts : a = attempt[p] => SettledAt(a)'
    BY DEF TypeOK, SettledAt, Holding, Preparing, Working, Recording
  <2> QED
    BY <2>1, <2>2, <2>3, <2>4, <2>5 DEF Keeps
<1>4. CASE ReconcileJournal(p)
  <2> USE <1>1, <1>4 DEF ReconcileJournal
  <2>1. TypeOK'
    BY NamesAssumption DEF TypeOK, LeaseStates, JournalStates, Places
  <2>2. Local(p)
    BY DEF TypeOK, Local, SameAttempt, SameRun
  <2>3. Paid'
    BY DEF TypeOK, Paid, Holding, Authorised, Preparing
  <2>4. Onward(p)
    BY DEF TypeOK, Onward, Holding, Authorised, Preparing, Working, Recording
  <2>5. \A a \in Attempts : a = attempt[p] => SettledAt(a)'
    BY DEF TypeOK, SettledAt, Holding, Preparing, Working, Recording
  <2> QED
    BY <2>1, <2>2, <2>3, <2>4, <2>5 DEF Keeps
<1>5. CASE ReconcileLease(p)
  <2> USE <1>1, <1>5 DEF ReconcileLease
  <2>1. TypeOK'
    <3>1. lease' \in [Attempts -> LeaseStates]
      <4>1. /\ lease \in [Attempts -> LeaseStates]
            /\ aim[p] \in LeaseStates /\ Unknown \in LeaseStates
        BY DEF TypeOK, LeaseStates
      <4>2. \/ lease' = lease
            \/ lease' = [lease EXCEPT ![attempt[p]] = aim[p]]
            \/ lease' = [lease EXCEPT ![attempt[p]] = Unknown]
        OBVIOUS
      <4> HIDE DEF Unknown, Ends, ReconcileLease
      <4> QED
        BY <4>1, <4>2
    <3>2. place' \in [Runs -> Places]
      BY DEF TypeOK, Places
    <3>3. attempt' \in [Runs -> Attempts \cup {NoAttempt}]
      BY DEF TypeOK
    <3>4. raising' \in [Runs -> BOOLEAN]
      BY DEF TypeOK
    <3> QED
      BY <3>1, <3>2, <3>3, <3>4 DEF TypeOK
  <2>2. Local(p)
    BY DEF TypeOK, Local, SameAttempt, SameRun
  <2>3. Paid'
    BY DEF TypeOK, Paid, Holding, Authorised, Preparing
  <2>4. Onward(p)
    BY DEF TypeOK, Onward, Holding, Authorised, Preparing, Working, Recording
  <2>5. \A a \in Attempts : a = attempt[p] => SettledAt(a)'
    BY DEF TypeOK, SettledAt, Holding, Preparing, Working, Recording
  <2> QED
    BY <2>1, <2>2, <2>3, <2>4, <2>5 DEF Keeps
<1>6. CASE PublishArtifact(p)
  <2> USE <1>1, <1>6 DEF PublishArtifact
  <2>1. TypeOK'
    BY NamesAssumption DEF TypeOK, LeaseStates, JournalStates, Places
  <2>2. Local(p)
    BY DEF TypeOK, Local, SameAttempt, SameRun
  <2>3. Paid'
    BY DEF TypeOK, Paid, Holding, Authorised, Preparing
  <2>4. Onward(p)
    BY DEF TypeOK, Onward, Holding, Authorised, Preparing, Working, Recording
  <2>5. \A a \in Attempts : a = attempt[p] => SettledAt(a)'
    BY DEF TypeOK, SettledAt, Holding, Preparing, Working, Recording
  <2> QED
    BY <2>1, <2>2, <2>3, <2>4, <2>5 DEF Keeps
<1>7. CASE PublishManifest(p)
  <2> USE <1>1, <1>7 DEF PublishManifest
  <2>1. TypeOK'
    BY NamesAssumption DEF TypeOK, LeaseStates, JournalStates, Places
  <2>2. Local(p)
    BY DEF TypeOK, Local, SameAttempt, SameRun
  <2>3. Paid'
    BY DEF TypeOK, Paid, Holding, Authorised, Preparing
  <2>4. Onward(p)
    BY DEF TypeOK, Onward, Holding, Authorised, Preparing, Working, Recording
  <2>5. \A a \in Attempts : a = attempt[p] => SettledAt(a)'
    BY DEF TypeOK, SettledAt, Holding, Preparing, Working, Recording
  <2> QED
    BY <2>1, <2>2, <2>3, <2>4, <2>5 DEF Keeps
<1>8. CASE RaiseAfterEnd(p)
  <2> USE <1>1, <1>8 DEF RaiseAfterEnd
  <2>1. TypeOK'
    BY NamesAssumption DEF TypeOK, LeaseStates, JournalStates, Places
  <2>2. Local(p)
    BY DEF TypeOK, Local, SameAttempt, SameRun
  <2>3. Paid'
    BY DEF TypeOK, Paid, Holding, Authorised, Preparing
  <2>4. Onward(p)
    BY DEF TypeOK, Onward, Holding, Authorised, Preparing, Working, Recording
  <2>5. \A a \in Attempts : a = attempt[p] => SettledAt(a)'
    BY DEF TypeOK, SettledAt, Holding, Preparing, Working, Recording
  <2> QED
    BY <2>1, <2>2, <2>3, <2>4, <2>5 DEF Keeps
<1> QED
  BY <1>2, <1>3, <1>4, <1>5, <1>6, <1>7, <1>8 DEF Settle

(* A free dispatcher takes an attempt nobody has touched.                  *)
LEMMA Binding ==
    ASSUME IInv, NEW p \in Runs, NEW a \in Attempts, Bind(p, a)
    PROVE  IInv'
<1> USE DEF At, stores, published, effects, verdict, Bind
<1>1. /\ TypeOK /\ Exclusive /\ Fresh /\ Paid /\ Held /\ Settled
      /\ Untouched(a) /\ a # NoAttempt
  BY NamesAssumption DEF IInv, Fresh
<1>2. TypeOK'
  BY <1>1 DEF TypeOK, Places
<1>3. \A q \in Runs : q # p => place'[q] = place[q] /\ attempt'[q] = attempt[q]
  BY <1>1 DEF TypeOK
<1>4. place'[p] = "bound" /\ attempt'[p] = a
  BY <1>1 DEF TypeOK
<1>5. \A q \in Runs : attempt[q] # a
  BY <1>1 DEF Exclusive, Held, Holding
<1>6. Exclusive'
  BY <1>1, <1>3, <1>4, <1>5 DEF Exclusive
<1>7. Fresh' /\ Paid'
  BY <1>1 DEF Fresh, Untouched, Paid
<1>8. ASSUME NEW q \in Runs, ~At(q, "idle")'
      PROVE  Holding(q)'
  <2>1. CASE q = p
    BY <1>1, <1>4, <2>1 DEF Holding, Untouched, Preparing, Authorised, Working, Recording
  <2>2. CASE q # p
    BY <1>1, <1>3, <1>8, <2>2 DEF Held, Holding, JournalEnd
  <2> QED
    BY <2>1, <2>2
<1>9. Settled'
  BY <1>1 DEF Settled, SettledAt, JournalEnd
<1> QED
  BY <1>2, <1>6, <1>7, <1>8, <1>9 DEF IInv, Held

(* A dispatcher may stop anywhere.                                         *)
LEMMA Stopping ==
    ASSUME IInv, NEW p \in Runs, Stop(p)
    PROVE  Keeps(p)
<1>1. TypeOK /\ Paid /\ ~At(p, "idle")
  BY DEF IInv, Stop
<1>2. attempt[p] \in Attempts /\ SettledAt(attempt[p])
  BY <1>1, HolderFacts
<1> USE DEF Stop, Leave, stores, published, effects, verdict
<1>3. TypeOK' /\ Local(p) /\ Onward(p)
  BY <1>1 DEF TypeOK, Places, Local, SameAttempt, SameRun, Onward
<1>4. Paid'
  BY <1>1 DEF Paid
<1>5. \A a \in Attempts : a = attempt[p] => SettledAt(a)'
  BY <1>2 DEF SettledAt, JournalEnd
<1> QED
  BY <1>3, <1>4, <1>5 DEF Keeps

(* A provider, orphaned or not, only writes to its worktree and exits.     *)
LEMMA Providing ==
    ASSUME IInv, NEW a \in Attempts, Provider(a)
    PROVE  IInv'
<1> USE DEF Provider, ProviderWrites, ProviderExits, At, stores, published, effects, verdict
<1>1. TypeOK /\ Exclusive /\ Fresh /\ Paid /\ Held /\ Settled /\ provider[a] = "running"
  BY DEF IInv
<1>2. TypeOK'
  BY <1>1 DEF TypeOK
<1>3. Exclusive' /\ Paid'
  BY <1>1 DEF Exclusive, Paid
<1>4. Fresh'
  BY <1>1 DEF Fresh, Untouched, TypeOK
<1>5. ASSUME NEW q \in Runs, ~At(q, "idle") PROVE Holding(q)'
  BY <1>1, <1>5 DEF Held, Holding, TypeOK, Preparing, Recording, JournalEnd
<1>6. Settled'
  BY <1>1 DEF Settled, SettledAt, TypeOK, JournalEnd
<1> QED
  BY <1>2, <1>3, <1>4, <1>5, <1>6 DEF IInv, Held

(* Every step preserves the invariant.                                     *)
LEMMA NextInvariant == IInv /\ [Next]_vars => IInv'
<1> SUFFICES ASSUME IInv, [Next]_vars PROVE IInv'
  OBVIOUS
<1>1. CASE UNCHANGED vars
  BY <1>1 DEF vars, stores, published, effects, verdict, IInv, TypeOK, Exclusive, At, Fresh,
     Untouched, Paid, Held, Holding, Settled, SettledAt, JournalEnd
<1>2. ASSUME NEW p \in Runs, NEW a \in Attempts, Bind(p, a) PROVE IInv'
  BY <1>2, Binding
<1>3. ASSUME NEW p \in Runs, ~At(p, "idle"), Dispatch(p) PROVE IInv'
  BY <1>3, Preparation, Execution, Settlement, LocalStep DEF Dispatch
<1>4. ASSUME NEW p \in Runs, At(p, "idle"), Dispatch(p) PROVE \E a \in Attempts : Bind(p, a)
  BY <1>4 DEF At, Dispatch, Prepare, Execute, Settle, StartLease, ConsumeAuthority,
     CopyWorktree, OpenJournal, EnterConsuming, TakeSnapshot, PreparationFails, CloseLease,
     Spawn, SpawnFails, Capture, Normalise, Forsake, CompleteWithoutResult,
     CompleteWithResult, WriteReceipt, FinaliseJournal, FinaliseLease, ReconcileJournal,
     ReconcileLease, PublishArtifact, PublishManifest, RaiseAfterEnd
<1>5. ASSUME NEW p \in Runs, Stop(p) PROVE IInv'
  BY <1>5, Stopping, LocalStep DEF Stop
<1>6. ASSUME NEW a \in Attempts, Provider(a) PROVE IInv'
  BY <1>6, Providing
<1> QED
  BY <1>1, <1>2, <1>3, <1>4, <1>5, <1>6 DEF Next

(* The inductive invariant holds in every reachable state.                 *)
THEOREM Invariance == Spec => []IInv
  BY InitInvariant, NextInvariant, PTL DEF Spec

(* Every variable of the custody stays in its range.                       *)
THEOREM TypeCorrect == Spec => []TypeOK
<1>1. IInv => TypeOK
  BY DEF IInv
<1> QED
  BY <1>1, Invariance, PTL

(* An authority record pays for one provider process, however many         *)
(* dispatchers race for it, stop and try again.                            *)
THEOREM StartsOnce == Spec => []ProviderStartsOnce
<1>1. IInv => ProviderStartsOnce
  BY AuthorityAssumption DEF IInv, Paid, ProviderStartsOnce
<1> QED
  BY <1>1, Invariance, PTL

(* What is published rests on the same end in both custody stores, and a   *)
(* success on a change receipt.                                            *)
THEOREM PublishedSettled == Spec => []PublishedIsSettled
<1>1. IInv => PublishedIsSettled
  BY DEF IInv, Settled, SettledAt, PublishedIsSettled
<1> QED
  BY <1>1, Invariance, PTL

(* An attempt recorded as failed left no change and no provider behind.    *)
THEOREM FailedClean == Spec => []FailedLeftNothing
<1>1. IInv => FailedLeftNothing
  BY DEF IInv, Settled, SettledAt, FailedLeftNothing
<1> QED
  BY <1>1, Invariance, PTL

(* The stores never hold success and failure of one attempt.               *)
THEOREM NoContradiction == Spec => []StoresNeverContradict
<1>1. IInv => StoresNeverContradict
  BY DEF IInv, Settled, SettledAt, StoresNeverContradict
<1> QED
  BY <1>1, Invariance, PTL

--------------------------------------------------------------------------------
(* Protected facts, for every set of reads, observations and kills.  Two   *)
(* invariants carry the theorems.  Of the stores: whatever an anchor       *)
(* process was ever asked to retain is an event of the writer, or is its   *)
(* intent; so the next record of the anchor can only be the next event.    *)
(* Of the source: the scratch of a runner continues the journal, and each  *)
(* derives an observation once.                                            *)

-----------------------------------------------------------------------------
(* The invariant of the stores.                                            *)

Fact == [obs : Observation, at : Nat, place : Nat \ {0}]
Entry == [fact : Fact, seq : Nat \ {0}]
Stands == {"off", "serving", "write", "head", "unlink", "retained", "failed"}

StoreTyped ==
    /\ events \in Seq(Fact) /\ anchors \in Seq(Fact)
    /\ head \in Nat /\ anchorHead \in Nat
    /\ head <= Len(events) /\ anchorHead <= Len(anchors)
    /\ pending \in Fact \cup {NoFact}
    /\ holder \in Reader \cup {Nobody}
    /\ retaining \in Entry \cup {NoEntry}
    /\ sent \in [Reader -> Entry \cup {NoEntry}]
    /\ job \in [Reader -> Entry \cup {NoEntry}]
    /\ at \in [Reader -> Stands]
    /\ phase \in [Reader -> Phases]
    /\ fact \in [Reader -> Fact \cup {NoFact}]
    /\ clock \in Nat

(* Whatever the anchor was ever asked to retain is an event of the writer, *)
(* or is to be the next one, of the writer's intent.                       *)
Known(e) ==
    \/ e = NoEntry
    \/ e.seq <= Len(events) /\ events[e.seq] = e.fact
    \/ e.seq = Len(events) + 1 /\ e.fact = pending

Entries == {retaining} \cup {sent[r] : r \in Reader} \cup {job[r] : r \in Reader}
EntriesKnown == \A e \in Entries : Known(e)

IsSettled(e) == e = NoEntry \/ e.seq <= Len(events)
AllSettled == \A e \in Entries : IsSettled(e)

FreeIsSettled == pending = NoFact => AllSettled

Logs ==
    /\ Len(events) <= Len(anchors) /\ Len(anchors) <= Len(events) + 1
    /\ \A i \in DOMAIN events : events[i] = anchors[i]
    /\ Len(anchors) > Len(events) => anchors[Len(anchors)] = pending /\ pending # NoFact

New(f) == \A i \in DOMAIN events : events[i] # f
Distinct == \A i, j \in DOMAIN events : events[i] = events[j] => i = j

IsCommitted(f) == \E i \in 1..head : events[i] = f

(* Where a read stands says who serves it, and whether it has the lock.    *)
Place(r) ==
    /\ phase[r] \in InLock <=> holder = r
    /\ phase[r] \notin {"idle", "retaining"} => sent[r] = NoEntry
    /\ phase[r] \notin {"idle", "retaining", "corroborating"} => at[r] = "off"
    /\ phase[r] = "acquired" => fact[r] # NoFact
    /\ phase[r] = "corroborating" => IsCommitted(fact[r])

(* How far the one who has the lock is with its append.                    *)
Appending(r) ==
    /\ phase[r] \in InLock => pending = fact[r] /\ pending # NoFact
    /\ phase[r] \in {"retaining", "anchored"} => head = Len(events) /\ New(fact[r])
    /\ phase[r] = "retaining" => sent[r] = [fact |-> fact[r], seq |-> Len(events) + 1]
    /\ phase[r] = "anchored" => Len(anchors) = Len(events) + 1
    /\ phase[r] \in {"written", "headed"} =>
          /\ Len(events) > 0 /\ events[Len(events)] = fact[r]
          /\ Len(anchors) = Len(events)
          /\ AllSettled
    /\ phase[r] = "headed" => head = Len(events)

(* How far an anchor process is with the intent it completes.              *)
Serving(r) ==
    /\ at[r] \in {"write", "head", "unlink"} <=> job[r] # NoEntry
    /\ at[r] \in {"head", "unlink"} => job[r].seq <= Len(anchors)
    /\ at[r] = "retained" => sent[r].seq <= Len(anchors)

Standing(r) == Place(r) /\ Appending(r) /\ Serving(r)

Given == \A f \in answered : IsCommitted(f)

StoreInv ==
    /\ StoreTyped
    /\ EntriesKnown
    /\ FreeIsSettled
    /\ Logs
    /\ Distinct
    /\ \A r \in Reader : Standing(r)
    /\ Given

(* The committed facts are the events up to the head.                      *)
LEMMA CommittedFacts ==
    ASSUME StoreTyped
    PROVE  /\ \A f \in Ranged(Committed) : f \in Fact /\ IsCommitted(f)
           /\ \A f : IsCommitted(f) => f \in Ranged(Committed)
<1>1. events \in Seq(Fact) /\ head \in Nat /\ head <= Len(events)
  BY DEF StoreTyped
<1>2. /\ DOMAIN Committed = 1..head
      /\ \A i \in 1..head : Committed[i] = events[i] /\ events[i] \in Fact
  BY <1>1 DEF Committed
<1> QED
  BY <1>2 DEF Ranged, IsCommitted

-----------------------------------------------------------------------------
(* Steps that leave the files of the two logs alone.                       *)

SameFiles == UNCHANGED <<events, head, pending, anchors>>

(* What is said of an entry or of a fact is said of the files.             *)
LEMMA FilesSay ==
    ASSUME SameFiles
    PROVE  /\ \A e : (Known(e)' <=> Known(e)) /\ (IsSettled(e)' <=> IsSettled(e))
           /\ \A f : (IsCommitted(f)' <=> IsCommitted(f)) /\ (New(f)' <=> New(f))
           /\ Logs' <=> Logs
           /\ Distinct' <=> Distinct
  BY DEF SameFiles, Known, IsSettled, IsCommitted, New, Logs, Distinct

(* A reader whose exchange does not move stands where it stood.            *)
Still(q) ==
    /\ phase'[q] = phase[q] /\ fact'[q] = fact[q]
    /\ sent'[q] = sent[q] /\ at'[q] = at[q] /\ job'[q] = job[q]
    /\ holder' = q <=> holder = q

(* A step of one read that moves none of the files: what has to be seen is *)
(* where the read stands then.                                             *)
LEMMA LocalKeeps ==
    ASSUME StoreInv, NEW r \in Reader, SameFiles, StoreTyped',
           \A q \in Reader : q # r => Still(q),
           retaining' \in {retaining, sent[r], NoEntry},
           sent'[r] \in {sent[r], NoEntry},
           job'[r] \in {job[r], retaining, sent[r], NoEntry},
           (AllSettled => AllSettled') => Standing(r)',
           \A f \in answered' : f \in answered \/ IsCommitted(f)
    PROVE  StoreInv'
<1>1. /\ \A e : (Known(e)' <=> Known(e)) /\ (IsSettled(e)' <=> IsSettled(e))
      /\ \A f : (IsCommitted(f)' <=> IsCommitted(f)) /\ (New(f)' <=> New(f))
      /\ Logs' <=> Logs
      /\ Distinct' <=> Distinct
  BY FilesSay
<1>2. /\ EntriesKnown /\ FreeIsSettled /\ Logs /\ Distinct /\ Given
      /\ \A q \in Reader : Standing(q)
  BY DEF StoreInv
<1>3. \A e \in Entries' : e \in Entries \/ e = NoEntry
  BY DEF Entries, Still, SameFiles
<1>4. EntriesKnown'
  BY <1>1, <1>2, <1>3 DEF EntriesKnown, Known
<1>5. AllSettled => AllSettled'
  BY <1>1, <1>3 DEF AllSettled, IsSettled
<1>6. FreeIsSettled'
  BY <1>2, <1>5 DEF FreeIsSettled, SameFiles
<1>7. ASSUME NEW q \in Reader PROVE Standing(q)'
  <2>1. CASE q = r
    BY <1>5, <2>1
  <2>2. CASE q # r
    <3>1. Still(q) /\ Standing(q)
      BY <1>2, <2>2
    <3>2. Place(q)'
      BY <3>1 DEF Standing, Place, Still, SameFiles, IsCommitted
    <3>3. Appending(q)'
      BY <1>5, <3>1 DEF Standing, Appending, Still, SameFiles, New
    <3>4. Serving(q)'
      BY <3>1 DEF Standing, Serving, Still, SameFiles
    <3> QED
      BY <3>2, <3>3, <3>4 DEF Standing
  <2> QED
    BY <2>1, <2>2
<1>8. Given'
  BY <1>1, <1>2 DEF Given
<1> QED
  BY <1>1, <1>2, <1>4, <1>6, <1>7, <1>8 DEF StoreInv

(* A client asks.                                                          *)
LEMMA RequestKeeps ==
    ASSUME StoreInv, NEW r \in Reader, Request(r)
    PROVE  StoreInv'
<1>1. StoreTyped /\ Standing(r) /\ Logs
  BY DEF StoreInv
<1> USE DEF Request, Goes, writerVars, anchorVars
<1>2. SameFiles
  BY DEF SameFiles
<1>3. StoreTyped'
  BY <1>1, NobodyAssumption DEF StoreTyped, Phases, InLock, Stands
<1>4. \A q \in Reader : q # r => Still(q)
  BY <1>1, NobodyAssumption DEF StoreTyped, Still
<1>5. /\ retaining' \in {retaining, sent[r], NoEntry}
      /\ sent'[r] \in {sent[r], NoEntry}
      /\ job'[r] \in {job[r], retaining, sent[r], NoEntry}
  BY <1>1 DEF StoreTyped
<1>6. Place(r)'
  BY <1>1, NobodyAssumption DEF StoreTyped, Standing, Place, InLock, IsCommitted
<1>7. (AllSettled => AllSettled') => Appending(r)'
  BY <1>1 DEF StoreTyped, Standing, Place, Appending, Serving, Logs, InLock, New
<1>8. Serving(r)'
  BY <1>1 DEF StoreTyped, Standing, Place, Appending, Serving, InLock, NoEntry
<1>9. \A f \in answered' : f \in answered \/ IsCommitted(f)
  BY <1>1 DEF Standing, Place
<1> QED
  BY <1>2, <1>3, <1>4, <1>5, <1>6, <1>7, <1>8, <1>9, LocalKeeps DEF Standing

(* An anchor process begins, and takes up an intent it finds.              *)
LEMMA OpenKeeps ==
    ASSUME StoreInv, NEW r \in Reader, OpenAnchor(r), UNCHANGED readVars,
           sent[r] # NoEntry \/ phase[r] = "corroborating"
    PROVE  StoreInv'
<1>1. StoreTyped /\ Standing(r) /\ Logs
  BY DEF StoreInv
<1> USE DEF OpenAnchor, Completed, readVars, writerVars
<1>2. SameFiles
  BY DEF SameFiles
<1>3. StoreTyped'
  BY <1>1, NobodyAssumption DEF StoreTyped, Phases, InLock, Stands
<1>4. \A q \in Reader : q # r => Still(q)
  BY <1>1, NobodyAssumption DEF StoreTyped, Still
<1>5. /\ retaining' \in {retaining, sent[r], NoEntry}
      /\ sent'[r] \in {sent[r], NoEntry}
      /\ job'[r] \in {job[r], retaining, sent[r], NoEntry}
  BY <1>1 DEF StoreTyped
<1>6. Place(r)'
  BY <1>1, NobodyAssumption DEF StoreTyped, Standing, Place, InLock, IsCommitted
<1>7. (AllSettled => AllSettled') => Appending(r)'
  BY <1>1 DEF StoreTyped, Standing, Place, Appending, Serving, Logs, InLock, New
<1>8. Serving(r)'
  BY <1>1 DEF StoreTyped, Standing, Place, Appending, Serving, InLock, NoEntry
<1>9. \A f \in answered' : f \in answered \/ IsCommitted(f)
  BY <1>1 DEF Standing, Place
<1> QED
  BY <1>2, <1>3, <1>4, <1>5, <1>6, <1>7, <1>8, <1>9, LocalKeeps DEF Standing

(* The receipt says that the anchor has the record.                        *)
LEMMA AnswersKeeps ==
    ASSUME StoreInv, NEW r \in Reader, AnchorAnswers(r)
    PROVE  StoreInv'
<1>1. StoreTyped /\ Standing(r) /\ Logs
  BY DEF StoreInv
<1> USE DEF AnchorAnswers, EndAnchor, Goes, writerVars
<1>2. SameFiles
  BY DEF SameFiles
<1>3. StoreTyped'
  BY <1>1, NobodyAssumption DEF StoreTyped, Phases, InLock, Stands
<1>4. \A q \in Reader : q # r => Still(q)
  BY <1>1, NobodyAssumption DEF StoreTyped, Still
<1>5. /\ retaining' \in {retaining, sent[r], NoEntry}
      /\ sent'[r] \in {sent[r], NoEntry}
      /\ job'[r] \in {job[r], retaining, sent[r], NoEntry}
  BY <1>1 DEF StoreTyped
<1>6. Place(r)'
  BY <1>1, NobodyAssumption DEF StoreTyped, Standing, Place, InLock, IsCommitted
<1>7. (AllSettled => AllSettled') => Appending(r)'
  BY <1>1 DEF StoreTyped, Standing, Place, Appending, Serving, Logs, InLock, New
<1>8. Serving(r)'
  BY <1>1 DEF StoreTyped, Standing, Place, Appending, Serving, InLock, NoEntry
<1>9. \A f \in answered' : f \in answered \/ IsCommitted(f)
  BY <1>1 DEF Standing, Place
<1> QED
  BY <1>2, <1>3, <1>4, <1>5, <1>6, <1>7, <1>8, <1>9, LocalKeeps DEF Standing

(* What is answered is committed.                                          *)
LEMMA CorroborateKeeps ==
    ASSUME StoreInv, NEW r \in Reader, Corroborate(r)
    PROVE  StoreInv'
<1>1. StoreTyped /\ Standing(r) /\ Logs
  BY DEF StoreInv
<1> USE DEF Corroborate, EndAnchor, Leaves, Goes, writerVars
<1>2. SameFiles
  BY DEF SameFiles
<1>3. StoreTyped'
  BY <1>1, NobodyAssumption DEF StoreTyped, Phases, InLock, Stands
<1>4. \A q \in Reader : q # r => Still(q)
  BY <1>1, NobodyAssumption DEF StoreTyped, Still
<1>5. /\ retaining' \in {retaining, sent[r], NoEntry}
      /\ sent'[r] \in {sent[r], NoEntry}
      /\ job'[r] \in {job[r], retaining, sent[r], NoEntry}
  BY <1>1 DEF StoreTyped
<1>6. Place(r)'
  BY <1>1, NobodyAssumption DEF StoreTyped, Standing, Place, InLock, IsCommitted
<1>7. (AllSettled => AllSettled') => Appending(r)'
  BY <1>1 DEF StoreTyped, Standing, Place, Appending, Serving, Logs, InLock, New
<1>8. Serving(r)'
  BY <1>1 DEF StoreTyped, Standing, Place, Appending, Serving, InLock, NoEntry
<1>9. \A f \in answered' : f \in answered \/ IsCommitted(f)
  BY <1>1 DEF Standing, Place
<1> QED
  BY <1>2, <1>3, <1>4, <1>5, <1>6, <1>7, <1>8, <1>9, LocalKeeps DEF Standing

(* A refusal without the lock leaves everything.                           *)
LEMMA RefuseKeeps ==
    ASSUME StoreInv, NEW r \in Reader, Refuse(r)
    PROVE  StoreInv'
<1>1. StoreTyped /\ Standing(r) /\ Logs
  BY DEF StoreInv
<1> USE DEF Refuse, Refused, Unlock, Leaves, Goes, anchorVars
<1>2. SameFiles
  BY DEF SameFiles
<1>3. StoreTyped'
  BY <1>1, NobodyAssumption DEF StoreTyped, Phases, InLock, Stands
<1>4. \A q \in Reader : q # r => Still(q)
  BY <1>1, NobodyAssumption DEF StoreTyped, Still
<1>5. /\ retaining' \in {retaining, sent[r], NoEntry}
      /\ sent'[r] \in {sent[r], NoEntry}
      /\ job'[r] \in {job[r], retaining, sent[r], NoEntry}
  BY <1>1 DEF StoreTyped
<1>6. Place(r)'
  BY <1>1, NobodyAssumption DEF StoreTyped, Standing, Place, InLock, IsCommitted
<1>7. (AllSettled => AllSettled') => Appending(r)'
  BY <1>1 DEF StoreTyped, Standing, Place, Appending, Serving, Logs, InLock, New
<1>8. Serving(r)'
  BY <1>1 DEF StoreTyped, Standing, Place, Appending, Serving, InLock, NoEntry
<1>9. \A f \in answered' : f \in answered \/ IsCommitted(f)
  BY <1>1 DEF Standing, Place
<1> QED
  BY <1>2, <1>3, <1>4, <1>5, <1>6, <1>7, <1>8, <1>9, LocalKeeps DEF Standing

(* A refusal of the anchor releases the lock and leaves the intent.        *)
LEMMA AnchorRefusesKeeps ==
    ASSUME StoreInv, NEW r \in Reader, AnchorRefuses(r)
    PROVE  StoreInv'
<1>1. StoreTyped /\ Standing(r) /\ Logs
  BY DEF StoreInv
<1> USE DEF AnchorRefuses, EndAnchor, Refused, Unlock, Leaves, Goes
<1>2. SameFiles
  BY DEF SameFiles
<1>3. StoreTyped'
  BY <1>1, NobodyAssumption DEF StoreTyped, Phases, InLock, Stands
<1>4. \A q \in Reader : q # r => Still(q)
  BY <1>1, NobodyAssumption DEF StoreTyped, Still
<1>5. /\ retaining' \in {retaining, sent[r], NoEntry}
      /\ sent'[r] \in {sent[r], NoEntry}
      /\ job'[r] \in {job[r], retaining, sent[r], NoEntry}
  BY <1>1 DEF StoreTyped
<1>6. Place(r)'
  BY <1>1, NobodyAssumption DEF StoreTyped, Standing, Place, InLock, IsCommitted
<1>7. (AllSettled => AllSettled') => Appending(r)'
  BY <1>1 DEF StoreTyped, Standing, Place, Appending, Serving, Logs, InLock, New
<1>8. Serving(r)'
  BY <1>1 DEF StoreTyped, Standing, Place, Appending, Serving, InLock, NoEntry
<1>9. \A f \in answered' : f \in answered \/ IsCommitted(f)
  BY <1>1 DEF Standing, Place
<1> QED
  BY <1>2, <1>3, <1>4, <1>5, <1>6, <1>7, <1>8, <1>9, LocalKeeps DEF Standing

(* So does the end of the writer, while what it sent is still delivered.   *)
LEMMA KillWriterKeeps ==
    ASSUME StoreInv, NEW r \in Reader, KillWriter(r), UNCHANGED <<clock, answered>>
    PROVE  StoreInv'
<1>1. StoreTyped /\ Standing(r) /\ Logs
  BY DEF StoreInv
<1> USE DEF KillWriter, Refused, Unlock, Leaves, Goes, anchorVars
<1>2. SameFiles
  BY DEF SameFiles
<1>3. StoreTyped'
  BY <1>1, NobodyAssumption DEF StoreTyped, Phases, InLock, Stands
<1>4. \A q \in Reader : q # r => Still(q)
  BY <1>1, NobodyAssumption DEF StoreTyped, Still
<1>5. /\ retaining' \in {retaining, sent[r], NoEntry}
      /\ sent'[r] \in {sent[r], NoEntry}
      /\ job'[r] \in {job[r], retaining, sent[r], NoEntry}
  BY <1>1 DEF StoreTyped
<1>6. Place(r)'
  BY <1>1, NobodyAssumption DEF StoreTyped, Standing, Place, InLock, IsCommitted
<1>7. (AllSettled => AllSettled') => Appending(r)'
  BY <1>1 DEF StoreTyped, Standing, Place, Appending, Serving, Logs, InLock, New
<1>8. Serving(r)'
  BY <1>1 DEF StoreTyped, Standing, Place, Appending, Serving, InLock, NoEntry
<1>9. \A f \in answered' : f \in answered \/ IsCommitted(f)
  BY <1>1 DEF Standing, Place
<1> QED
  BY <1>2, <1>3, <1>4, <1>5, <1>6, <1>7, <1>8, <1>9, LocalKeeps DEF Standing

(* And the end of the anchor process.                                      *)
LEMMA KillAnchorKeeps ==
    ASSUME StoreInv, NEW r \in Reader, KillAnchor(r), UNCHANGED <<clock, answered>>
    PROVE  StoreInv'
<1>1. StoreTyped /\ Standing(r) /\ Logs
  BY DEF StoreInv
<1> USE DEF KillAnchor, EndAnchor, Refused, Unlock, Leaves, Goes
<1>2. SameFiles
  BY DEF SameFiles
<1>3. StoreTyped'
  BY <1>1, NobodyAssumption DEF StoreTyped, Phases, InLock, Stands
<1>4. \A q \in Reader : q # r => Still(q)
  BY <1>1, NobodyAssumption DEF StoreTyped, Still
<1>5. /\ retaining' \in {retaining, sent[r], NoEntry}
      /\ sent'[r] \in {sent[r], NoEntry}
      /\ job'[r] \in {job[r], retaining, sent[r], NoEntry}
  BY <1>1 DEF StoreTyped
<1>6. Place(r)'
  BY <1>1, NobodyAssumption DEF StoreTyped, Standing, Place, InLock, IsCommitted
<1>7. (AllSettled => AllSettled') => Appending(r)'
  BY <1>1 DEF StoreTyped, Standing, Place, Appending, Serving, Logs, InLock, New
<1>8. Serving(r)'
  BY <1>1 DEF StoreTyped, Standing, Place, Appending, Serving, InLock, NoEntry
<1>9. \A f \in answered' : f \in answered \/ IsCommitted(f)
  BY <1>1 DEF Standing, Place
<1> QED
  BY <1>2, <1>3, <1>4, <1>5, <1>6, <1>7, <1>8, <1>9, LocalKeeps DEF Standing

(* The anchor writes its intent.                                           *)
LEMMA RetainKeeps ==
    ASSUME StoreInv, NEW r \in Reader, Retain(r), UNCHANGED readVars
    PROVE  StoreInv'
<1>1. StoreTyped /\ Standing(r) /\ Logs
  BY DEF StoreInv
<1> USE DEF Retain, readVars, writerVars
<1>2. SameFiles
  BY DEF SameFiles
<1>3. StoreTyped'
  BY <1>1, NobodyAssumption DEF StoreTyped, Phases, InLock, Stands
<1>4. \A q \in Reader : q # r => Still(q)
  BY <1>1, NobodyAssumption DEF StoreTyped, Still
<1>5. /\ retaining' \in {retaining, sent[r], NoEntry}
      /\ sent'[r] \in {sent[r], NoEntry}
      /\ job'[r] \in {job[r], retaining, sent[r], NoEntry}
  BY <1>1 DEF StoreTyped
<1>6. Place(r)'
  BY <1>1, NobodyAssumption DEF StoreTyped, Standing, Place, InLock, IsCommitted
<1>7. (AllSettled => AllSettled') => Appending(r)'
  BY <1>1 DEF StoreTyped, Standing, Place, Appending, Serving, Logs, InLock, New
<1>8. Serving(r)'
  BY <1>1 DEF StoreTyped, Standing, Place, Appending, Serving, InLock, NoEntry
<1>9. \A f \in answered' : f \in answered \/ IsCommitted(f)
  BY <1>1 DEF Standing, Place
<1> QED
  BY <1>2, <1>3, <1>4, <1>5, <1>6, <1>7, <1>8, <1>9, LocalKeeps DEF Standing

(* Its head follows its log.                                               *)
LEMMA AnchorHeadKeeps ==
    ASSUME StoreInv, NEW r \in Reader, ReplaceAnchorHead(r), UNCHANGED readVars
    PROVE  StoreInv'
<1>1. StoreTyped /\ Standing(r) /\ Logs
  BY DEF StoreInv
<1> USE DEF ReplaceAnchorHead, readVars, writerVars
<1>2. SameFiles
  BY DEF SameFiles
<1>0. job[r] \in Entry /\ job[r].seq \in Nat /\ job[r].seq <= Len(anchors)
  BY <1>1 DEF StoreTyped, Standing, Serving, Entry
<1>3. StoreTyped'
  BY <1>0, <1>1, NobodyAssumption DEF StoreTyped, Phases, InLock, Stands
<1>4. \A q \in Reader : q # r => Still(q)
  BY <1>1, NobodyAssumption DEF StoreTyped, Still
<1>5. /\ retaining' \in {retaining, sent[r], NoEntry}
      /\ sent'[r] \in {sent[r], NoEntry}
      /\ job'[r] \in {job[r], retaining, sent[r], NoEntry}
  BY <1>1 DEF StoreTyped
<1>6. Place(r)'
  BY <1>1, NobodyAssumption DEF StoreTyped, Standing, Place, InLock, IsCommitted
<1>7. (AllSettled => AllSettled') => Appending(r)'
  BY <1>1 DEF StoreTyped, Standing, Place, Appending, Serving, Logs, InLock, New
<1>8. Serving(r)'
  BY <1>1 DEF StoreTyped, Standing, Place, Appending, Serving, InLock, NoEntry
<1>9. \A f \in answered' : f \in answered \/ IsCommitted(f)
  BY <1>1 DEF Standing, Place
<1> QED
  BY <1>2, <1>3, <1>4, <1>5, <1>6, <1>7, <1>8, <1>9, LocalKeeps DEF Standing

(* Its intent is removed, which another process may have written.          *)
LEMMA RemoveKeeps ==
    ASSUME StoreInv, NEW r \in Reader, RemoveRetaining(r), UNCHANGED readVars
    PROVE  StoreInv'
<1>1. StoreTyped /\ Standing(r) /\ Logs
  BY DEF StoreInv
<1> USE DEF RemoveRetaining, readVars, writerVars
<1>2. SameFiles
  BY DEF SameFiles
<1>3. StoreTyped'
  BY <1>1, NobodyAssumption DEF StoreTyped, Phases, InLock, Stands
<1>4. \A q \in Reader : q # r => Still(q)
  BY <1>1, NobodyAssumption DEF StoreTyped, Still
<1>5. /\ retaining' \in {retaining, sent[r], NoEntry}
      /\ sent'[r] \in {sent[r], NoEntry}
      /\ job'[r] \in {job[r], retaining, sent[r], NoEntry}
  BY <1>1 DEF StoreTyped
<1>6. Place(r)'
  BY <1>1, NobodyAssumption DEF StoreTyped, Standing, Place, InLock, IsCommitted
<1>7. (AllSettled => AllSettled') => Appending(r)'
  BY <1>1 DEF StoreTyped, Standing, Place, Appending, Serving, Logs, InLock, New
<1>8. Serving(r)'
  BY <1>1 DEF StoreTyped, Standing, Place, Appending, Serving, InLock, NoEntry
<1>9. \A f \in answered' : f \in answered \/ IsCommitted(f)
  BY <1>1 DEF Standing, Place
<1> QED
  BY <1>2, <1>3, <1>4, <1>5, <1>6, <1>7, <1>8, <1>9, LocalKeeps DEF Standing

(* A read finds a committed fact, or goes to its owner.                    *)
LEMMA ReadFactKeeps ==
    ASSUME StoreInv, NEW r \in Reader, ReadFact(r)
    PROVE  StoreInv'
<1>1. StoreTyped /\ Standing(r) /\ Logs
  BY DEF StoreInv
<1>2. /\ phase[r] = "asked" /\ SameFiles
      /\ UNCHANGED <<writerVars, anchorVars, clock, answered>>
  BY DEF ReadFact, SameFiles, writerVars, anchorVars
<1>3. \/ phase' = [phase EXCEPT ![r] = "acquiring"] /\ fact' = fact
      \/ \E f \in Fact : /\ IsCommitted(f)
                         /\ phase' = [phase EXCEPT ![r] = "corroborating"]
                         /\ fact' = [fact EXCEPT ![r] = f]
  <2>1. CASE CurrentAt(requested[r]) = {} /\ Goes(r, "acquiring") /\ UNCHANGED fact
    BY <2>1 DEF Goes
  <2>2. CASE /\ Cardinality(CurrentAt(requested[r])) = 1
             /\ fact' = [fact EXCEPT ![r] = CHOOSE f \in CurrentAt(requested[r]) : TRUE]
             /\ Goes(r, "corroborating")
    <3>1. CurrentAt(requested[r]) # {}
      BY <2>2, FS_EmptySet
    <3>2. PICK f : f = CHOOSE g \in CurrentAt(requested[r]) : TRUE
      OBVIOUS
    <3>3. f \in CurrentAt(requested[r])
      BY <3>1, <3>2
    <3>4. f \in Ranged(Committed)
      BY <3>3 DEF CurrentAt
    <3>5. f \in Fact /\ IsCommitted(f)
      BY <3>4, <1>1, CommittedFacts
    <3> QED
      BY <2>2, <3>2, <3>5 DEF Goes
  <2> QED
    BY <2>1, <2>2 DEF ReadFact
<1>4. StoreTyped'
  BY <1>1, <1>2, <1>3 DEF StoreTyped, Phases, InLock, Stands, writerVars, anchorVars
<1>5. \A q \in Reader : q # r => Still(q)
  BY <1>1, <1>2, <1>3 DEF StoreTyped, Still, writerVars, anchorVars
<1>6. Place(r)'
  BY <1>1, <1>2, <1>3 DEF StoreTyped, Standing, Place, InLock, IsCommitted, writerVars, anchorVars
<1>7. Appending(r)' /\ Serving(r)'
  BY <1>1, <1>2, <1>3 DEF StoreTyped, Standing, Place, Appending, Serving, InLock, NoEntry,
     writerVars, anchorVars
<1>8. /\ retaining' \in {retaining, sent[r], NoEntry}
      /\ sent'[r] \in {sent[r], NoEntry}
      /\ job'[r] \in {job[r], retaining, sent[r], NoEntry}
  BY <1>2 DEF writerVars, anchorVars
<1> QED
  BY <1>2, <1>4, <1>5, <1>6, <1>7, <1>8, LocalKeeps DEF Standing

-----------------------------------------------------------------------------
(* Steps that move the files of the two logs.                              *)

(* The one who takes the lock finds nothing in progress, so that what the  *)
(* anchor still serves is settled and the new intent is the only one.      *)
LEMMA BeginKeeps ==
    ASSUME StoreInv, NEW r \in Reader, Begin(r)
    PROVE  StoreInv'
<1>1. /\ StoreTyped /\ EntriesKnown /\ FreeIsSettled /\ Logs /\ Distinct /\ Given
      /\ \A q \in Reader : Standing(q)
  BY DEF StoreInv
<1>2. PICK f : f = fact[r]
  OBVIOUS
<1>3. /\ phase[r] = "acquired" /\ holder = Nobody /\ pending = NoFact
      /\ Len(events) = head /\ f \notin Ranged(Committed)
      /\ phase' = [phase EXCEPT ![r] = "retaining"]
      /\ holder' = r /\ pending' = f
      /\ sent' = [sent EXCEPT ![r] = [fact |-> f, seq |-> head + 1]]
      /\ UNCHANGED <<events, head, anchors, anchorHead, retaining, at, job, clock, fact, answered>>
  BY <1>2 DEF Begin, BeginAppend, Appendable, WriterReadable, Goes
<1>4. f \in Fact /\ f # NoFact /\ New(f) /\ at[r] = "off"
  <2>1. f \in Fact /\ f # NoFact /\ at[r] = "off"
    BY <1>1, <1>2, <1>3 DEF Standing, Place, StoreTyped
  <2>2. ~IsCommitted(f)
    BY <1>1, <1>3, CommittedFacts
  <2> QED
    BY <1>1, <1>3, <2>1, <2>2 DEF New, IsCommitted, StoreTyped
<1>5. AllSettled
  BY <1>1, <1>3 DEF FreeIsSettled
<1>6. \A e \in Entries' : e \in Entries \/ e = [fact |-> f, seq |-> Len(events) + 1]
  BY <1>1, <1>3 DEF Entries, StoreTyped
<1>7. StoreTyped'
  BY <1>1, <1>3, <1>4 DEF StoreTyped, Entry, Phases, InLock
<1>8. EntriesKnown'
  <2>1. \A e \in Entries : Known(e) /\ IsSettled(e)
    BY <1>1, <1>5 DEF EntriesKnown, AllSettled
  <2>2. ASSUME NEW e \in Entries' PROVE Known(e)'
    <3>1. CASE e \in Entries
      <4>1. e = NoEntry \/ (e.seq <= Len(events) /\ events[e.seq] = e.fact)
        <5>1. e = NoEntry \/ e.seq <= Len(events)
          BY <2>1, <3>1 DEF IsSettled
        <5>2. e = NoEntry \/ e \in Entry
          BY <1>1, <3>1 DEF Entries, StoreTyped
        <5> QED
          BY <1>1, <2>1, <3>1, <5>1, <5>2 DEF Known, StoreTyped, Entry
      <4> QED
        BY <1>3, <4>1 DEF Known
    <3>2. CASE e = [fact |-> f, seq |-> Len(events) + 1]
      BY <1>3, <3>2 DEF Known
    <3> QED
      BY <1>6, <2>2, <3>1, <3>2
  <2> QED
    BY <2>2 DEF EntriesKnown
<1>9. FreeIsSettled'
  BY <1>3, <1>4 DEF FreeIsSettled
<1>10. Logs'
  BY <1>1, <1>3 DEF Logs, StoreTyped
<1>11. Distinct' /\ Given'
  BY <1>1, <1>3 DEF Distinct, Given, IsCommitted
<1>12. ASSUME NEW q \in Reader PROVE Standing(q)'
  <2>1. CASE q = r
    <3>1. Place(r)'
      BY <1>1, <1>3, <1>4 DEF Standing, Place, StoreTyped, InLock
    <3>2. Appending(r)'
      BY <1>1, <1>2, <1>3, <1>4 DEF Appending, StoreTyped, InLock, New
    <3>3. Serving(r)'
      BY <1>1, <1>3, <1>4 DEF Standing, Serving
    <3> QED
      BY <2>1, <3>1, <3>2, <3>3 DEF Standing
  <2>2. CASE q # r
    <3>1. Standing(q) /\ holder # q /\ phase[q] \notin InLock
      BY <1>1, <1>3, NobodyAssumption DEF Standing, Place
    <3>2. Place(q)'
      BY <1>1, <1>3, <2>2, <3>1 DEF Standing, Place, StoreTyped, IsCommitted
    <3>3. Appending(q)'
      BY <1>1, <1>3, <2>2, <3>1 DEF Appending, StoreTyped, InLock
    <3>4. Serving(q)'
      BY <1>1, <1>3, <2>2, <3>1 DEF Standing, Serving, StoreTyped
    <3> QED
      BY <3>2, <3>3, <3>4 DEF Standing
  <2> QED
    BY <2>1, <2>2
<1> QED
  BY <1>7, <1>8, <1>9, <1>10, <1>11, <1>12 DEF StoreInv

(* A read without the lock stands through what its holder does.            *)
LEMMA OthersStand ==
    ASSUME NEW q \in Reader, StoreTyped, StoreTyped', Standing(q), phase[q] \notin InLock,
           phase'[q] = phase[q], fact'[q] = fact[q],
           sent'[q] = sent[q], at'[q] = at[q], job'[q] = job[q],
           holder' # q, UNCHANGED anchors,
           \A f : IsCommitted(f) => IsCommitted(f)'
    PROVE  Standing(q)'
<1>1. Place(q)'
  <2>1. PICK f : f = fact[q]
    OBVIOUS
  <2>2. IsCommitted(f) => IsCommitted(f)'
    OBVIOUS
  <2>3. fact'[q] = f
    BY <2>1
  <2> QED
    BY <2>1, <2>2, <2>3 DEF Standing, Place, IsCommitted
<1>2. Appending(q)'
  BY DEF Appending, InLock
<1>3. Serving(q)'
  BY DEF Standing, Serving
<1> QED
  BY <1>1, <1>2, <1>3 DEF Standing

(* The event is the anchor's last record: the logs are level, and all the  *)
(* anchor may still serve is settled.                                      *)
LEMMA WriteEventKeeps ==
    ASSUME StoreInv, NEW r \in Reader, phase[r] = "anchored", WriteEvent(r), Goes(r, "written"),
           UNCHANGED <<anchorVars, clock, fact, answered>>
    PROVE  StoreInv'
<1>1. /\ StoreTyped /\ EntriesKnown /\ Logs /\ Distinct /\ Given
      /\ \A q \in Reader : Standing(q)
  BY DEF StoreInv
<1>2. PICK f : f = pending
  OBVIOUS
<1>3. /\ holder = r /\ Len(events) = head
      /\ phase' = [phase EXCEPT ![r] = "written"]
      /\ events' = Append(events, f)
      /\ UNCHANGED <<head, pending, holder, anchors, anchorHead, retaining, sent, at, job,
                     clock, fact, answered>>
  BY <1>2 DEF WriteEvent, Goes, anchorVars
<1>4. /\ fact[r] = f /\ f # NoFact /\ f \in Fact /\ New(f)
      /\ Len(anchors) = Len(events) + 1 /\ anchors[Len(anchors)] = f
      /\ at[r] = "off" /\ sent[r] = NoEntry
  BY <1>1, <1>2 DEF Standing, Place, Appending, StoreTyped, Logs, InLock
<1>5. /\ Len(events') = Len(events) + 1
      /\ events' \in Seq(Fact)
      /\ \A i \in 1..Len(events) : events'[i] = events[i]
      /\ events'[Len(events) + 1] = f
  BY <1>1, <1>3, <1>4, AppendProperties DEF StoreTyped
<1>6. Entries' = Entries
  BY <1>3 DEF Entries
<1>7. StoreTyped'
  BY <1>1, <1>3, <1>4, <1>5 DEF StoreTyped, Phases, InLock
<1>8. \A e \in Entries : Known(e)' /\ IsSettled(e)'
  <2>1. ASSUME NEW e \in Entries PROVE Known(e)' /\ IsSettled(e)'
    <3>1. Known(e) /\ (e = NoEntry \/ e \in Entry)
      BY <1>1 DEF EntriesKnown, Entries, StoreTyped
    <3> QED
      BY <1>1, <1>2, <1>3, <1>5, <3>1 DEF Known, IsSettled, Entry, StoreTyped
  <2> QED
    BY <2>1
<1>9. EntriesKnown' /\ AllSettled'
  BY <1>6, <1>8 DEF EntriesKnown, AllSettled
<1>10. FreeIsSettled'
  BY <1>9 DEF FreeIsSettled
<1>11. Logs'
  <2>1. /\ Len(events) \in Nat /\ DOMAIN events' = 1..Len(events) + 1
        /\ Len(anchors') = Len(events') /\ anchors' = anchors
    BY <1>1, <1>3, <1>4, <1>5 DEF StoreTyped
  <2>2. \A i \in 1..Len(events) : events[i] = anchors[i]
    BY <1>1 DEF Logs, StoreTyped
  <2>3. \A i \in 1..Len(events) + 1 : events'[i] = anchors'[i]
    BY <1>4, <1>5, <2>1, <2>2
  <2> QED
    BY <2>1, <2>3 DEF Logs
<1>12. Distinct'
  <2>1. Len(events) \in Nat /\ DOMAIN events' = 1..Len(events) + 1
    BY <1>1, <1>5 DEF StoreTyped
  <2>2. \A i, j \in 1..Len(events) : events[i] = events[j] => i = j
    BY <1>1 DEF Distinct, StoreTyped
  <2>3. \A i \in 1..Len(events) : events[i] # f
    BY <1>1, <1>4 DEF New, StoreTyped
  <2>4. \A i, j \in 1..Len(events) + 1 : events'[i] = events'[j] => i = j
    BY <1>5, <2>1, <2>2, <2>3
  <2> QED
    BY <2>1, <2>4 DEF Distinct
<1>13. \A g : IsCommitted(g) => IsCommitted(g)'
  BY <1>1, <1>3, <1>5 DEF IsCommitted, StoreTyped
<1>14. Given'
  BY <1>1, <1>3, <1>13 DEF Given
<1>15. ASSUME NEW q \in Reader PROVE Standing(q)'
  <2>1. CASE q = r
    <3>1. Place(r)'
      BY <1>1, <1>3, <1>4 DEF Standing, Place, StoreTyped, InLock
    <3>2. Appending(r)'
      BY <1>1, <1>2, <1>3, <1>4, <1>5, <1>9 DEF Appending, StoreTyped, InLock
    <3>3. Serving(r)'
      BY <1>1, <1>3, <1>4 DEF Standing, Serving
    <3> QED
      BY <2>1, <3>1, <3>2, <3>3 DEF Standing
  <2>2. CASE q # r
    <3>1. Standing(q) /\ phase[q] \notin InLock /\ phase'[q] = phase[q]
      BY <1>1, <1>3, <2>2 DEF Standing, Place, StoreTyped
    <3> QED
      BY <1>1, <1>3, <1>7, <1>13, <2>2, <3>1, OthersStand
  <2> QED
    BY <2>1, <2>2
<1> QED
  BY <1>7, <1>9, <1>10, <1>11, <1>12, <1>14, <1>15 DEF StoreInv

(* The head takes the event in.                                            *)
LEMMA ReplaceHeadKeeps ==
    ASSUME StoreInv, NEW r \in Reader, phase[r] = "written", ReplaceHead(r), Goes(r, "headed"),
           UNCHANGED <<anchorVars, clock, fact, answered>>
    PROVE  StoreInv'
<1>1. /\ StoreTyped /\ EntriesKnown /\ FreeIsSettled /\ Logs /\ Distinct /\ Given
      /\ \A q \in Reader : Standing(q)
  BY DEF StoreInv
<1>2. /\ holder = r
      /\ phase' = [phase EXCEPT ![r] = "headed"]
      /\ head' = Len(events)
      /\ UNCHANGED <<events, pending, holder, anchors, anchorHead, retaining, sent, at, job,
                     clock, fact, answered>>
  BY DEF ReplaceHead, Goes, anchorVars
<1>3. StoreTyped'
  BY <1>1, <1>2 DEF StoreTyped, Phases, InLock
<1>4. EntriesKnown' /\ FreeIsSettled' /\ Logs' /\ Distinct' /\ (AllSettled => AllSettled')
  BY <1>1, <1>2 DEF EntriesKnown, FreeIsSettled, Logs, Distinct, AllSettled, Entries, Known,
     IsSettled
<1>5. \A g : IsCommitted(g) => IsCommitted(g)'
  BY <1>1, <1>2 DEF IsCommitted, StoreTyped
<1>6. Given'
  BY <1>1, <1>2, <1>5 DEF Given
<1>7. ASSUME NEW q \in Reader PROVE Standing(q)'
  <2>1. CASE q = r
    <3>1. Place(r)'
      BY <1>1, <1>2 DEF Standing, Place, StoreTyped, InLock
    <3>2. Appending(r)'
      BY <1>1, <1>2, <1>4 DEF Standing, Appending, StoreTyped, InLock
    <3>3. Serving(r)'
      BY <1>1, <1>2 DEF Standing, Serving
    <3> QED
      BY <2>1, <3>1, <3>2, <3>3 DEF Standing
  <2>2. CASE q # r
    <3>1. Standing(q) /\ phase[q] \notin InLock /\ phase'[q] = phase[q]
      BY <1>1, <1>2, <2>2 DEF Standing, Place, StoreTyped
    <3> QED
      BY <1>1, <1>2, <1>3, <1>5, <2>2, <3>1, OthersStand
  <2> QED
    BY <2>1, <2>2
<1> QED
  BY <1>3, <1>4, <1>6, <1>7 DEF StoreInv

(* The lock and the intent are given back when all is settled.             *)
LEMMA RemovePendingKeeps ==
    ASSUME StoreInv, NEW r \in Reader, phase[r] = "headed", RemovePending(r),
           Goes(r, "corroborating"), UNCHANGED <<anchorVars, clock, fact, answered>>
    PROVE  StoreInv'
<1>1. /\ StoreTyped /\ EntriesKnown /\ Logs /\ Distinct /\ Given
      /\ \A q \in Reader : Standing(q)
  BY DEF StoreInv
<1>2. /\ holder = r
      /\ phase' = [phase EXCEPT ![r] = "corroborating"]
      /\ pending' = NoFact /\ holder' = Nobody
      /\ UNCHANGED <<events, head, anchors, anchorHead, retaining, sent, at, job,
                     clock, fact, answered>>
  BY DEF RemovePending, Goes, anchorVars
<1>3. /\ AllSettled /\ Len(anchors) = Len(events) /\ head = Len(events)
      /\ Len(events) > 0 /\ events[Len(events)] = fact[r]
      /\ sent[r] = NoEntry
  BY <1>1 DEF Standing, Place, Appending, InLock
<1>4. StoreTyped'
  BY <1>1, <1>2 DEF StoreTyped, Phases, InLock
<1>5. Entries' = Entries
  BY <1>2 DEF Entries
<1>6. \A e \in Entries : Known(e)' /\ IsSettled(e)'
  <2>1. ASSUME NEW e \in Entries PROVE Known(e)' /\ IsSettled(e)'
    <3>1. Known(e) /\ IsSettled(e) /\ (e = NoEntry \/ e \in Entry)
      BY <1>1, <1>3 DEF EntriesKnown, AllSettled, Entries, StoreTyped
    <3> QED
      BY <1>1, <1>2, <3>1 DEF Known, IsSettled, Entry, StoreTyped
  <2> QED
    BY <2>1
<1>7. EntriesKnown' /\ AllSettled' /\ FreeIsSettled'
  BY <1>5, <1>6 DEF EntriesKnown, AllSettled, FreeIsSettled
<1>8. Logs' /\ Distinct'
  BY <1>1, <1>2, <1>3 DEF Logs, Distinct, StoreTyped
<1>9. \A g : IsCommitted(g) <=> IsCommitted(g)'
  BY <1>2 DEF IsCommitted
<1>10. Given'
  BY <1>1, <1>2, <1>9 DEF Given
<1>11. ASSUME NEW q \in Reader PROVE Standing(q)'
  <2>1. CASE q = r
    <3>1. IsCommitted(fact[r])
      BY <1>1, <1>3 DEF IsCommitted, StoreTyped
    <3>2. Place(r)'
      BY <1>1, <1>2, <1>3, <3>1, NobodyAssumption DEF Standing, Place, StoreTyped, InLock,
         IsCommitted
    <3>3. Appending(r)'
      BY <1>1, <1>2 DEF Appending, StoreTyped, InLock
    <3>4. Serving(r)'
      BY <1>1, <1>2 DEF Standing, Serving
    <3> QED
      BY <2>1, <3>2, <3>3, <3>4 DEF Standing
  <2>2. CASE q # r
    <3>1. Standing(q) /\ phase[q] \notin InLock /\ phase'[q] = phase[q] /\ q # Nobody
      BY <1>1, <1>2, <2>2, NobodyAssumption DEF Standing, Place, StoreTyped
    <3> QED
      BY <1>1, <1>2, <1>4, <1>9, <2>2, <3>1, OthersStand
  <2> QED
    BY <2>1, <2>2
<1> QED
  BY <1>4, <1>7, <1>8, <1>10, <1>11 DEF StoreInv

(* What the anchor appends is the writer's intent: everything it serves    *)
(* that is not settled is.                                                 *)
LEMMA WriteAnchorKeeps ==
    ASSUME StoreInv, NEW r \in Reader, WriteAnchor(r), UNCHANGED readVars
    PROVE  StoreInv'
<1>1. /\ StoreTyped /\ EntriesKnown /\ FreeIsSettled /\ Logs /\ Distinct /\ Given
      /\ \A q \in Reader : Standing(q)
  BY DEF StoreInv
<1>2. PICK e : e = job[r]
  OBVIOUS
<1>3. /\ at[r] = "write" /\ at' = [at EXCEPT ![r] = "head"]
      /\ \/ Len(anchors) = e.seq - 1 /\ anchors' = Append(anchors, e.fact)
         \/ Len(anchors) >= e.seq /\ anchors' = anchors
      /\ UNCHANGED <<events, head, pending, holder, anchorHead, retaining, sent, job,
                     phase, clock, fact, answered>>
  BY <1>2 DEF WriteAnchor, writerVars, readVars
<1>4. e \in Entry /\ e \in Entries /\ Known(e) /\ e.fact # NoFact
  <2>1. e # NoEntry
    BY <1>1, <1>2, <1>3 DEF Standing, Serving
  <2>2. e \in Entry /\ e \in Entries
    BY <1>1, <1>2, <2>1 DEF StoreTyped, Entries
  <2> QED
    BY <1>1, <2>2 DEF EntriesKnown, Entry, Fact, NoFact
<1>5. /\ anchors' \in Seq(Fact) /\ e.seq <= Len(anchors')
      /\ Len(anchors) <= Len(anchors')
  <2>1. e.fact \in Fact /\ e.seq \in Nat /\ anchors \in Seq(Fact)
    BY <1>1, <1>4 DEF StoreTyped, Entry
  <2>2. CASE Len(anchors) = e.seq - 1 /\ anchors' = Append(anchors, e.fact)
    BY <2>1, <2>2, AppendProperties
  <2>3. CASE Len(anchors) >= e.seq /\ anchors' = anchors
    BY <2>1, <2>3
  <2> QED
    BY <1>3, <2>2, <2>3
<1>6. CASE anchors' = anchors
  <2>1. SameFiles /\ retaining' = retaining /\ sent'[r] = sent[r] /\ job'[r] = job[r]
    BY <1>3, <1>6 DEF SameFiles
  <2>2. StoreTyped'
    BY <1>1, <1>3, <1>6 DEF StoreTyped, Stands
  <2>3. \A q \in Reader : q # r => Still(q)
    BY <1>1, <1>3 DEF StoreTyped, Still
  <2>4. (AllSettled => AllSettled') => Standing(r)'
    <3>1. Place(r)'
      BY <1>1, <1>3 DEF Standing, Place, StoreTyped, IsCommitted
    <3>2. (AllSettled => AllSettled') => Appending(r)'
      BY <1>1, <1>3, <1>6 DEF Standing, Appending, StoreTyped, New
    <3>3. Serving(r)'
      BY <1>1, <1>2, <1>3, <1>5 DEF Standing, Serving, StoreTyped
    <3> QED
      BY <3>1, <3>2, <3>3 DEF Standing
  <2>5. answered' = answered
    BY <1>3
  <2> QED
    BY <2>1, <2>2, <2>3, <2>4, <2>5, LocalKeeps
<1>7. CASE Len(anchors) = e.seq - 1 /\ anchors' = Append(anchors, e.fact)
  <2>1. /\ Len(anchors') = Len(anchors) + 1
        /\ \A i \in 1..Len(anchors) : anchors'[i] = anchors[i]
        /\ anchors'[Len(anchors) + 1] = e.fact
    BY <1>1, <1>4, <1>7, AppendProperties DEF StoreTyped, Entry
  <2>2. /\ e.seq = Len(events) + 1 /\ e.fact = pending
        /\ Len(anchors) = Len(events)
        /\ ~AllSettled
    <3>1. e.seq \in Nat /\ e # NoEntry
      BY <1>4 DEF Entry, NoEntry
    <3>2. e.seq > Len(events)
      BY <1>1, <1>7, <3>1 DEF Logs, StoreTyped
    <3> QED
      BY <1>1, <1>4, <1>7, <3>1, <3>2 DEF Known, Logs, StoreTyped, AllSettled, IsSettled
  <2>3. StoreTyped'
    BY <1>1, <1>3, <1>5 DEF StoreTyped, Stands
  <2>4. Entries' = Entries
    BY <1>3 DEF Entries
  <2>5. EntriesKnown' /\ (AllSettled <=> AllSettled') /\ FreeIsSettled' /\ Distinct'
    BY <1>1, <1>3, <2>4 DEF EntriesKnown, Known, AllSettled, IsSettled, FreeIsSettled, Distinct
  <2>6. Logs'
    BY <1>1, <1>3, <1>4, <2>1, <2>2 DEF Logs, StoreTyped
  <2>7. Given'
    BY <1>1, <1>3 DEF Given, IsCommitted
  <2>8. ASSUME NEW q \in Reader PROVE Standing(q)'
    <3>1. Standing(q)
      BY <1>1
    <3>2. Place(q)'
      BY <1>1, <1>3, <3>1 DEF Standing, Place, StoreTyped, IsCommitted
    <3>3. phase[q] \notin {"anchored", "written", "headed"}
      BY <1>1, <2>2, <3>1 DEF Standing, Appending, StoreTyped
    <3>4. Appending(q)'
      BY <1>3, <3>1, <3>3 DEF Standing, Appending, New
    <3>5. Serving(q)'
      <4>1. CASE q = r
        BY <1>1, <1>2, <1>3, <1>5, <3>1, <4>1 DEF Standing, Serving, StoreTyped
      <4>2. CASE q # r
        <5>1. /\ at[q] \in {"head", "unlink"} => job[q].seq \in Nat
              /\ at[q] = "retained" => sent[q].seq \in Nat
          BY <1>1, <3>1 DEF Standing, Serving, StoreTyped, Entry, NoEntry
        <5> QED
          BY <1>1, <1>3, <2>1, <3>1, <4>2, <5>1 DEF Standing, Serving, StoreTyped
      <4> QED
        BY <4>1, <4>2
    <3> QED
      BY <3>2, <3>4, <3>5 DEF Standing
  <2> QED
    BY <2>3, <2>5, <2>6, <2>7, <2>8 DEF StoreInv
<1> QED
  BY <1>3, <1>6, <1>7

-----------------------------------------------------------------------------
(* The invariant of the owner's journal and its runner.                    *)

Kind == {"raw_observation", "decision_issue", "derived_value"}
Event == [kind : Kind, obs : Observation, at : Nat]

DerivedOnce(rows) ==
    \A i, j \in DOMAIN rows :
        /\ rows[i].kind = "derived_value" /\ rows[j].kind = "derived_value"
        /\ rows[i].obs = rows[j].obs
        => i = j

(* The scratch continues the journal it was copied from.                   *)
Copied ==
    IF runner.on THEN /\ Len(ownerJournal) <= Len(runner.scratch)
                      /\ \A i \in DOMAIN ownerJournal : ownerJournal[i] = runner.scratch[i]
    ELSE runner.scratch = <<>>

SourceInv ==
    /\ ownerJournal \in Seq(Event)
    /\ runner \in [on : BOOLEAN, scratch : Seq(Event)]
    /\ Copied
    /\ DerivedOnce(ownerJournal) /\ DerivedOnce(runner.scratch)

(* Where a fact may come from, and that every fact on its way to the logs  *)
(* comes from there.                                                       *)
Sources == Derived(ownerJournal) \cup Derived(runner.scratch) \cup lost

AllSourced ==
    /\ \A i \in DOMAIN events : events[i] \in Sources
    /\ pending # NoFact => pending \in Sources
    /\ \A r \in Reader : phase[r] = "acquired" => fact[r] \in Sources

(* A fact is the row it was derived as.                                    *)
LEMMA DerivedFacts ==
    ASSUME NEW rows
    PROVE  /\ \A f : f \in Derived(rows) <=>
                 \E i \in DOMAIN rows :
                    /\ rows[i].kind = "derived_value"
                    /\ f = [obs |-> rows[i].obs, at |-> rows[i].at, place |-> i]
           /\ Derived(<<>>) = {}
  BY DEF Derived

(* What a runner derives continues the journal, and derives the            *)
(* observation once.                                                       *)
LEMMA AcquiredRows ==
    ASSUME SourceInv, NEW o \in Observation, NEW now \in Nat
    PROVE  /\ Acquired(o, now) \in Seq(Event)
           /\ Len(ownerJournal) <= Len(Acquired(o, now))
           /\ \A i \in DOMAIN ownerJournal : ownerJournal[i] = Acquired(o, now)[i]
           /\ DerivedOnce(Acquired(o, now))
           /\ \E i \in DOMAIN Acquired(o, now) :
                 Acquired(o, now)[i].kind = "derived_value" /\ Acquired(o, now)[i].obs = o
<1>1. ownerJournal \in Seq(Event) /\ DerivedOnce(ownerJournal)
  BY DEF SourceInv
<1>2. PICK rows : rows = Acquired(o, now)
  OBVIOUS
<1>3. CASE Has(ownerJournal, "derived_value", o)
  <2>1. rows = ownerJournal
    BY <1>2, <1>3 DEF Acquired
  <2> QED
    BY <1>1, <1>2, <1>3, <2>1 DEF Has
<1>4. CASE ~Has(ownerJournal, "derived_value", o)
  <2>1. PICK raw : raw = Row("raw_observation", o, 0)
    OBVIOUS
  <2>2. PICK made : made = <<Row("decision_issue", o, now), Row("derived_value", o, now)>>
    OBVIOUS
  <2>3. PICK seen : seen = IF Has(ownerJournal, "raw_observation", o) THEN ownerJournal
                           ELSE Append(ownerJournal, raw)
    OBVIOUS
  <2>4. rows = seen \o made
    BY <1>2, <1>4, <2>1, <2>2, <2>3 DEF Acquired
  <2>5. /\ raw \in Event /\ raw.kind # "derived_value"
        /\ made \in Seq(Event) /\ Len(made) = 2
        /\ made[1].kind # "derived_value"
        /\ made[2].kind = "derived_value" /\ made[2].obs = o
    BY <2>1, <2>2 DEF Row, Event, Kind
  <2>6. /\ seen \in Seq(Event) /\ Len(ownerJournal) <= Len(seen)
        /\ \A i \in 1..Len(ownerJournal) : seen[i] = ownerJournal[i]
        /\ \A i \in 1..Len(seen) :
              seen[i].kind = "derived_value" => i \in 1..Len(ownerJournal)
    <3>1. CASE seen = ownerJournal
      BY <1>1, <3>1
    <3>2. CASE seen = Append(ownerJournal, raw)
      BY <1>1, <2>5, <3>2, AppendProperties
    <3> QED
      BY <2>3, <3>1, <3>2
  <2>7. /\ rows \in Seq(Event) /\ Len(rows) = Len(seen) + 2
        /\ \A i \in 1..Len(seen) : rows[i] = seen[i]
        /\ rows[Len(seen) + 1] = made[1] /\ rows[Len(seen) + 2] = made[2]
    <3>1. /\ seen \o made \in Seq(Event) /\ Len(seen \o made) = Len(seen) + Len(made)
          /\ \A i \in 1..Len(seen) + Len(made) :
                (seen \o made)[i] = IF i <= Len(seen) THEN seen[i] ELSE made[i - Len(seen)]
      BY <2>5, <2>6, ConcatProperties
    <3>2. PICK l : l = Len(seen)
      OBVIOUS
    <3>3. /\ l \in Nat /\ l + 1 - l = 1 /\ l + 2 - l = 2
          /\ \A i \in 1..l + 2 : rows[i] = IF i <= l THEN seen[i] ELSE made[i - l]
      BY <2>4, <2>5, <2>6, <3>1, <3>2
    <3> QED
      BY <2>4, <2>5, <3>1, <3>2, <3>3
  <2>8. \A i \in 1..Len(rows) :
           rows[i].kind = "derived_value" =>
              \/ i \in 1..Len(ownerJournal) /\ rows[i] = ownerJournal[i]
              \/ i = Len(seen) + 2 /\ rows[i].obs = o
    <3>1. ASSUME NEW i \in 1..Len(rows), rows[i].kind = "derived_value"
          PROVE  \/ i \in 1..Len(ownerJournal) /\ rows[i] = ownerJournal[i]
                 \/ i = Len(seen) + 2 /\ rows[i].obs = o
      <4>1. i \in 1..Len(seen) \/ i = Len(seen) + 1 \/ i = Len(seen) + 2
        BY <2>6, <2>7
      <4>2. i # Len(seen) + 1
        BY <2>5, <2>7, <3>1
      <4> QED
        BY <2>5, <2>6, <2>7, <3>1, <4>1, <4>2
    <3> QED
      BY <3>1
  <2>9. \A i \in 1..Len(ownerJournal) :
           ~(ownerJournal[i].kind = "derived_value" /\ ownerJournal[i].obs = o)
    BY <1>1, <1>4 DEF Has
  <2>10. DerivedOnce(rows)
    BY <1>1, <2>7, <2>8, <2>9 DEF DerivedOnce
  <2>11. \A i \in DOMAIN ownerJournal : ownerJournal[i] = rows[i]
    BY <1>1, <2>6, <2>7
  <2> QED
    BY <1>1, <1>2, <2>5, <2>6, <2>7, <2>10, <2>11
<1> QED
  BY <1>3, <1>4

(* The answer is the one fact derived from the observation.                *)
LEMMA AnswerFacts ==
    ASSUME SourceInv, NEW o \in Observation, NEW now \in Nat
    PROVE  /\ Answer(o, now) \in Derived(Acquired(o, now))
           /\ Answer(o, now) \in Fact /\ Answer(o, now) # NoFact
<1>1. PICK rows : rows = Acquired(o, now)
  OBVIOUS
<1>2. PICK i \in DOMAIN rows : rows[i].kind = "derived_value" /\ rows[i].obs = o
  BY <1>1, AcquiredRows
<1>3. rows \in Seq(Event) /\ DerivedOnce(rows)
  BY <1>1, AcquiredRows
<1>4. PICK f : f = [obs |-> rows[i].obs, at |-> rows[i].at, place |-> i]
  OBVIOUS
<1>5. PICK facts : facts = {g \in Derived(rows) : g.obs = o}
  OBVIOUS
<1>6. f \in facts
  BY <1>2, <1>4, <1>5, DerivedFacts
<1>7. \A g \in facts : g = f
  <2>1. ASSUME NEW g \in facts PROVE g = f
    <3>1. PICK j \in DOMAIN rows :
             /\ rows[j].kind = "derived_value"
             /\ g = [obs |-> rows[j].obs, at |-> rows[j].at, place |-> j]
      BY <1>5, DerivedFacts
    <3>2. rows[j].obs = o
      BY <1>5, <3>1
    <3>3. i = j
      BY <1>2, <1>3, <3>1, <3>2 DEF DerivedOnce
    <3> QED
      BY <1>4, <3>1, <3>3
  <2> QED
    BY <2>1
<1>8. f.place <= f.place
  BY <1>3, <1>4
<1>9. Answer(o, now) = f
  <2>1. Answer(o, now) = CHOOSE g \in facts : \A h \in facts : h.place <= g.place
    BY <1>1, <1>5 DEF Answer
  <2>2. \A h \in facts : h.place <= f.place
    BY <1>7, <1>8
  <2> QED
    BY <1>6, <1>7, <2>1, <2>2
<1>10. f \in Fact /\ f # NoFact
  <2>1. i \in Nat \ {0} /\ rows[i] \in Event
    BY <1>3
  <2>2. rows[i].obs \in Observation /\ rows[i].at \in Nat
    BY <2>1 DEF Event
  <2>3. f \in Fact
    BY <1>4, <2>1, <2>2 DEF Fact
  <2>4. f.place # 0 /\ NoFact.place = 0
    BY <1>4, <2>1 DEF NoFact
  <2> QED
    BY <2>3, <2>4
<1> QED
  BY <1>1, <1>5, <1>6, <1>9, <1>10

-----------------------------------------------------------------------------
(* The steps of the source.                                                *)

(* No source is forgotten.                                                 *)
KeepsSources == Sources \subseteq Sources' /\ lost \subseteq lost'

(* A runner begins: its scratch continues the journal.                     *)
LEMMA AcquireSource ==
    ASSUME SourceInv, clock \in Nat, NEW o \in Observation, Acquire(o, clock), UNCHANGED lost
    PROVE  SourceInv' /\ KeepsSources /\ Derived(Acquired(o, clock)) \subseteq Sources'
<1>1. PICK rows : rows = Acquired(o, clock)
  OBVIOUS
<1>2. /\ rows \in Seq(Event) /\ DerivedOnce(rows)
      /\ Len(ownerJournal) <= Len(rows)
      /\ \A i \in DOMAIN ownerJournal : ownerJournal[i] = rows[i]
  BY <1>1, AcquiredRows
<1>3. /\ runner.on = FALSE /\ runner' = [on |-> TRUE, scratch |-> rows]
      /\ ownerJournal' = ownerJournal
  BY <1>1 DEF Acquire, SourceInv
<1>4. runner.scratch = <<>>
  BY <1>3 DEF SourceInv, Copied
<1>5. SourceInv'
  BY <1>2, <1>3 DEF SourceInv, Copied, DerivedOnce
<1>6. Derived(runner.scratch) = {}
  BY <1>4, DerivedFacts
<1>7. Sources' = Derived(ownerJournal) \cup Derived(rows) \cup lost
  BY <1>3 DEF Sources
<1> QED
  BY <1>1, <1>5, <1>6, <1>7 DEF Sources, KeepsSources

(* A row is published, or the last was and the scratch is given up.        *)
LEMMA PublishSource ==
    ASSUME SourceInv, Publish, UNCHANGED lost
    PROVE  SourceInv' /\ KeepsSources
<1>1. /\ ownerJournal \in Seq(Event) /\ runner.scratch \in Seq(Event)
      /\ DerivedOnce(ownerJournal) /\ DerivedOnce(runner.scratch)
  BY DEF SourceInv
<1>2. CASE PublishEvent
  <2>1. PICK n, row : n = Len(ownerJournal) + 1 /\ row = runner.scratch[n]
    OBVIOUS
  <2>2. /\ runner.on = TRUE /\ n <= Len(runner.scratch) /\ row \in Event
        /\ ownerJournal' = Append(ownerJournal, row) /\ runner' = runner
        /\ \A i \in DOMAIN ownerJournal : ownerJournal[i] = runner.scratch[i]
    BY <1>1, <1>2, <2>1 DEF PublishEvent, SourceInv, Copied
  <2>3. /\ ownerJournal' \in Seq(Event) /\ Len(ownerJournal') = n
        /\ \A i \in 1..Len(ownerJournal) : ownerJournal'[i] = ownerJournal[i]
        /\ \A i \in 1..n : ownerJournal'[i] = runner.scratch[i]
    BY <1>1, <2>1, <2>2, AppendProperties
  <2>4. SourceInv'
    BY <1>1, <2>1, <2>2, <2>3 DEF SourceInv, Copied, DerivedOnce
  <2>5. PICK new : new = ownerJournal'
    OBVIOUS
  <2>6. Derived(ownerJournal) \subseteq Derived(new)
    <3>1. \A i \in DOMAIN ownerJournal : i \in DOMAIN new /\ new[i] = ownerJournal[i]
      BY <1>1, <2>1, <2>3, <2>5
    <3>2. \A f : f \in Derived(ownerJournal) => f \in Derived(new)
      BY <3>1, DerivedFacts
    <3> QED
      BY <3>2
  <2>7. Sources' = Derived(new) \cup Derived(runner.scratch) \cup lost
    BY <2>2, <2>5 DEF Sources
  <2> QED
    BY <2>4, <2>6, <2>7 DEF Sources, KeepsSources
<1>3. CASE PublishFamily
  <2>1. /\ runner.on = TRUE /\ Len(ownerJournal) = Len(runner.scratch)
        /\ ownerJournal' = ownerJournal /\ runner' = [on |-> FALSE, scratch |-> <<>>]
    BY <1>3 DEF PublishFamily, NoRunner, SourceInv
  <2>2. SourceInv'
    BY <1>1, <2>1 DEF SourceInv, Copied, DerivedOnce
  <2>3. ownerJournal = runner.scratch
    BY <1>1, <2>1, SeqEqual DEF SourceInv, Copied
  <2>4. Sources' = Derived(ownerJournal) \cup Derived(<<>>) \cup lost
    BY <2>1 DEF Sources
  <2> QED
    BY <2>2, <2>3, <2>4 DEF Sources, KeepsSources
<1> QED
  BY <1>2, <1>3 DEF Publish

(* What a killed runner had answered is remembered as lost.                *)
LEMMA KillSource ==
    ASSUME SourceInv, KillOwner
    PROVE  SourceInv' /\ KeepsSources
<1>1. /\ ownerJournal' = ownerJournal /\ runner' = [on |-> FALSE, scratch |-> <<>>]
      /\ lost' = lost \cup (Derived(runner.scratch) \ Derived(ownerJournal))
  BY DEF KillOwner, KillRunner, NoRunner, Unpublished
<1>2. SourceInv'
  BY <1>1 DEF SourceInv, Copied, DerivedOnce
<1>3. Sources' = Derived(ownerJournal) \cup Derived(<<>>) \cup lost'
  BY <1>1 DEF Sources
<1> QED
  BY <1>1, <1>2, <1>3 DEF Sources, KeepsSources

-----------------------------------------------------------------------------
(* Every fact on its way has a source.                                     *)

(* A fact comes to the logs from an intent, and to an intent from a read   *)
(* that acquired it.                                                       *)
LEMMA SourcedCarries ==
    ASSUME AllSourced, KeepsSources,
           \A i \in DOMAIN events' : \/ events'[i] = pending /\ pending # NoFact
                                     \/ i \in DOMAIN events /\ events'[i] = events[i],
           \/ pending' \in {pending, NoFact}
           \/ \E r \in Reader : phase[r] = "acquired" /\ pending' = fact[r],
           \A r \in Reader : phase'[r] = "acquired" =>
               \/ phase[r] = "acquired" /\ fact'[r] = fact[r]
               \/ fact'[r] \in Sources'
    PROVE  AllSourced'
<1>1. \A f : f \in Sources => f \in Sources'
  BY DEF KeepsSources
<1>2. \A i \in DOMAIN events' : events'[i] \in Sources'
  BY <1>1 DEF AllSourced
<1>3. pending' # NoFact => pending' \in Sources'
  BY <1>1 DEF AllSourced
<1>4. \A r \in Reader : phase'[r] = "acquired" => fact'[r] \in Sources'
  BY <1>1 DEF AllSourced
<1> QED
  BY <1>2, <1>3, <1>4 DEF AllSourced

(* Torn says of each directory whether a temporary name was left there.    *)
TornTyped == writerTorn \in BOOLEAN /\ anchorTorn \in BOOLEAN /\ sourceTorn \in BOOLEAN

FactsInv == StoreInv /\ SourceInv /\ AllSourced /\ TornTyped

(* Nothing is written yet.                                                 *)
LEMMA InitFacts == FactsInit => FactsInv
<1> SUFFICES ASSUME FactsInit PROVE FactsInv
  OBVIOUS
<1> USE DEF FactsInit, SourceInit, StoresInit, NoRunner
<1>1. StoreTyped
  <2>1. /\ events \in Seq(Fact) /\ anchors \in Seq(Fact)
        /\ head <= Len(events) /\ anchorHead <= Len(anchors)
    OBVIOUS
  <2>2. /\ sent \in [Reader -> Entry \cup {NoEntry}] /\ job \in [Reader -> Entry \cup {NoEntry}]
        /\ fact \in [Reader -> Fact \cup {NoFact}]
        /\ at \in [Reader -> Stands] /\ phase \in [Reader -> Phases]
    BY DEF Phases, Stands
  <2> QED
    BY <2>1, <2>2 DEF StoreTyped
<1>2. Entries \subseteq {NoEntry}
  BY DEF Entries
<1>3. EntriesKnown /\ FreeIsSettled
  BY <1>2 DEF EntriesKnown, FreeIsSettled, AllSettled, Known, IsSettled
<1>4. Logs /\ Distinct /\ Given
  BY DEF Logs, Distinct, Given
<1>5. ASSUME NEW r \in Reader PROVE Standing(r)
  <2>1. Place(r)
    BY NobodyAssumption DEF Place, InLock
  <2>2. Appending(r) /\ Serving(r)
    BY DEF Appending, Serving, InLock
  <2> QED
    BY <2>1, <2>2 DEF Standing
<1>6. StoreInv
  BY <1>1, <1>3, <1>4, <1>5 DEF StoreInv
<1>7. SourceInv
  BY DEF SourceInv, Copied, DerivedOnce
<1>8. AllSourced
  BY DEF AllSourced
<1>9. TornTyped
  BY Zenon DEF TornTyped
<1> QED
  BY <1>6, <1>7, <1>8, <1>9 DEF FactsInv

(* One step of the service: of the clock, of a read, of a runner's copy,   *)
(* or the end of a process.                                                *)
LEMMA ReadStep ==
    ASSUME FactsInv, NEW r \in Reader, Request(r) \/ Serve(r)
    PROVE  FactsInv'
<1>1. /\ StoreInv /\ SourceInv /\ AllSourced /\ TornTyped
      /\ StoreTyped /\ Standing(r) /\ EntriesKnown
  BY DEF FactsInv, StoreInv
<1>2. CASE AcquireFact(r)
  <2>1. PICK o \in Observation : /\ Acquire(o, clock)
                                 /\ fact' = [fact EXCEPT ![r] = Answer(o, clock)]
    BY <1>2 DEF AcquireFact
  <2>2. PICK f : f = Answer(o, clock)
    OBVIOUS
  <2>3. /\ phase[r] = "acquiring" /\ phase' = [phase EXCEPT ![r] = "acquired"]
        /\ fact' = [fact EXCEPT ![r] = f]
        /\ UNCHANGED <<writerVars, anchorVars, clock, answered, lost, sourceTorn>>
    BY <1>2, <2>1, <2>2 DEF AcquireFact, Goes, Acquire
  <2>4. clock \in Nat
    BY <1>1 DEF StoreTyped
  <2>5. f \in Derived(Acquired(o, clock)) /\ f \in Fact /\ f # NoFact
    BY <1>1, <2>2, <2>4, AnswerFacts
  <2>6. SourceInv' /\ KeepsSources /\ Derived(Acquired(o, clock)) \subseteq Sources'
    BY <1>1, <2>1, <2>3, <2>4, AcquireSource
  <2>7. StoreInv'
    <3>1. SameFiles /\ retaining' = retaining /\ sent'[r] = sent[r] /\ job'[r] = job[r]
      BY <2>3 DEF SameFiles, writerVars, anchorVars
    <3>2. StoreTyped'
      BY <1>1, <2>3, <2>5 DEF StoreTyped, Phases, InLock, writerVars, anchorVars
    <3>3. \A q \in Reader : q # r => Still(q)
      BY <1>1, <2>3 DEF StoreTyped, Still, writerVars, anchorVars
    <3>4. Place(r)'
      BY <1>1, <2>3, <2>5 DEF StoreTyped, Standing, Place, InLock, writerVars, anchorVars
    <3>5. Appending(r)' /\ Serving(r)'
      BY <1>1, <2>3 DEF StoreTyped, Standing, Appending, Serving, InLock, writerVars, anchorVars
    <3>6. answered' = answered
      BY <2>3
    <3> QED
      BY <1>1, <3>1, <3>2, <3>3, <3>4, <3>5, <3>6, LocalKeeps DEF Standing
  <2>8. AllSourced'
    <3>1. \A q \in Reader : phase'[q] = "acquired" =>
             \/ phase[q] = "acquired" /\ fact'[q] = fact[q]
             \/ fact'[q] \in Sources'
      BY <1>1, <2>3, <2>5, <2>6 DEF StoreTyped
    <3>2. UNCHANGED <<events, pending>>
      BY <2>3 DEF writerVars
    <3> QED
      BY <1>1, <2>6, <3>1, <3>2, SourcedCarries
  <2>9. TornTyped'
    BY Zenon, <1>1, <2>3 DEF TornTyped, writerVars, anchorVars
  <2> QED
    BY <2>6, <2>7, <2>8, <2>9 DEF FactsInv
<1>3. CASE ~AcquireFact(r)
  <2>1. UNCHANGED <<sourceVars, lost, writerTorn, anchorTorn>>
    BY <1>3 DEF Serve, Request, ReadFact, Begin, BeginAppend, Commit, WriteEvent, ReplaceHead,
       RemovePending, Anchor, OpenAnchor, Retain, WriteAnchor, ReplaceAnchorHead, RemoveRetaining,
       AnchorAnswers, Corroborate, Refuse, Refused, AnchorRefuses, writerVars, anchorVars, readVars
  <2>2. SourceInv' /\ KeepsSources
    BY <1>1, <2>1 DEF SourceInv, Copied, DerivedOnce, sourceVars, KeepsSources, Sources, Derived
  <2>3. TornTyped'
    BY Zenon, <1>1, <2>1 DEF TornTyped, sourceVars
  <2>4. StoreInv'
    <3>1. CASE Commit(r)
      BY <1>1, <3>1, WriteEventKeeps, ReplaceHeadKeeps, RemovePendingKeeps DEF Commit
    <3>2. CASE Anchor(r)
      BY <1>1, <3>2, OpenKeeps, RetainKeeps, WriteAnchorKeeps, AnchorHeadKeeps, RemoveKeeps
         DEF Anchor
    <3> QED
      BY <1>1, <1>3, <3>1, <3>2, RequestKeeps, ReadFactKeeps, BeginKeeps, AnswersKeeps,
         CorroborateKeeps, RefuseKeeps, AnchorRefusesKeeps DEF Serve
  <2>5. AllSourced'
    <3>1. CASE Begin(r)
      <4>1. /\ phase[r] = "acquired" /\ pending' = fact[r] /\ events' = events
            /\ phase' = [phase EXCEPT ![r] = "retaining"] /\ fact' = fact
        BY <3>1 DEF Begin, BeginAppend, Goes
      <4>2. \A q \in Reader : phase'[q] = "acquired" => phase[q] = "acquired" /\ fact'[q] = fact[q]
        BY <1>1, <4>1 DEF StoreTyped
      <4> QED
        BY <1>1, <2>2, <4>1, <4>2, SourcedCarries
    <3>2. CASE ~Begin(r)
      <4>1. /\ pending' \in {pending, NoFact}
            /\ \/ events' = events
               \/ phase[r] = "anchored" /\ events' = Append(events, pending)
        BY <1>3, <3>2 DEF Serve, Request, ReadFact, Commit, WriteEvent, ReplaceHead,
           RemovePending, Anchor, OpenAnchor, Retain, WriteAnchor, ReplaceAnchorHead,
           RemoveRetaining, AnchorAnswers, Corroborate, Refuse, Refused, AnchorRefuses,
           writerVars, anchorVars, readVars
      <4>2. \A i \in DOMAIN events' : \/ events'[i] = pending /\ pending # NoFact
                                      \/ i \in DOMAIN events /\ events'[i] = events[i]
        <5>1. CASE events' = events
          BY <5>1
        <5>2. CASE phase[r] = "anchored" /\ events' = Append(events, pending)
          <6>1. pending # NoFact /\ pending \in Fact /\ events \in Seq(Fact)
            BY <1>1, <5>2 DEF Standing, Appending, StoreTyped, InLock
          <6> QED
            BY <5>2, <6>1, AppendProperties
        <5> QED
          BY <4>1, <5>1, <5>2
      <4>3. /\ phase' = phase /\ fact' = fact
            \/ \E p : /\ p # "acquired" /\ phase' = [phase EXCEPT ![r] = p]
                      /\ \A q \in Reader \ {r} : fact'[q] = fact[q]
        <5>1. phase \in [Reader -> Phases] /\ fact \in [Reader -> Fact \cup {NoFact}]
          BY <1>1 DEF StoreTyped
        <5>2. CASE AnchorAnswers(r)
          <6>1. phase[r] # "acquired"
            BY <1>1, <5>2 DEF AnchorAnswers, Standing, Place
          <6> QED
            BY <5>1, <5>2, <6>1 DEF AnchorAnswers, Goes
        <5>3. CASE Anchor(r)
          BY <5>3 DEF Anchor, readVars
        <5>4. CASE ReadFact(r) \/ Request(r) \/ Commit(r)
          BY <5>1, <5>4 DEF ReadFact, Request, Commit, Goes
        <5>5. CASE Corroborate(r) \/ Refuse(r) \/ AnchorRefuses(r)
          BY <5>1, <5>5 DEF Corroborate, Refuse, AnchorRefuses, Refused, Leaves, Goes
        <5> QED
          BY <1>3, <3>2, <5>2, <5>3, <5>4, <5>5 DEF Serve
      <4>4. \A q \in Reader : phase'[q] = "acquired" => phase[q] = "acquired" /\ fact'[q] = fact[q]
        BY <1>1, <4>3 DEF StoreTyped
      <4> QED
        BY <1>1, <2>2, <4>1, <4>2, <4>4, SourcedCarries
    <3> QED
      BY <3>1, <3>2
  <2> QED
    BY <2>2, <2>3, <2>4, <2>5 DEF FactsInv
<1> QED
  BY <1>2, <1>3

(* A step that moves no reader's exchange leaves the stores as they are.   *)
LEMMA StoresStand ==
    ASSUME StoreInv, clock' \in Nat,
           UNCHANGED <<writerVars, anchorVars, phase, fact, answered>>
    PROVE  StoreInv'
<1>1. SameFiles /\ StoreTyped /\ Entries' = Entries
  BY DEF SameFiles, StoreInv, Entries, writerVars, anchorVars
<1>2. StoreTyped'
  BY <1>1 DEF StoreTyped, writerVars, anchorVars
<1>3. /\ Logs' <=> Logs
      /\ Distinct' <=> Distinct
  BY <1>1, FilesSay
<1>4. EntriesKnown' /\ (AllSettled' <=> AllSettled) /\ FreeIsSettled'
  BY <1>1 DEF StoreInv, EntriesKnown, AllSettled, FreeIsSettled, Known, IsSettled, SameFiles
<1>5. ASSUME NEW q \in Reader PROVE Standing(q)'
  <2>1. Standing(q)
    BY DEF StoreInv
  <2>2. Place(q)'
    BY <2>1 DEF Standing, Place, IsCommitted, writerVars, anchorVars
  <2>3. Appending(q)'
    BY <1>4, <2>1 DEF Standing, Appending, New, writerVars, anchorVars
  <2>4. Serving(q)'
    BY <2>1 DEF Standing, Serving, anchorVars
  <2> QED
    BY <2>2, <2>3, <2>4 DEF Standing
<1>6. Given'
  BY DEF StoreInv, Given, IsCommitted, writerVars
<1> QED
  BY <1>2, <1>3, <1>4, <1>5, <1>6 DEF StoreInv

(* The end of a process that serves a read.                                *)
LEMMA KillStep ==
    ASSUME FactsInv, NEW r \in Reader, KillWriter(r) \/ KillAnchor(r), UNCHANGED <<clock, answered>>
    PROVE  FactsInv'
<1>1. /\ StoreInv /\ SourceInv /\ AllSourced /\ TornTyped
      /\ StoreTyped
  BY DEF FactsInv, StoreInv
<1>2. /\ UNCHANGED <<events, pending, sourceVars, lost>>
      /\ phase' = [phase EXCEPT ![r] = "idle"] /\ fact' = [fact EXCEPT ![r] = NoFact]
  BY DEF KillWriter, KillAnchor, Refused, Leaves, Goes
<1>3. StoreInv'
  BY <1>1, KillWriterKeeps, KillAnchorKeeps
<1>4. SourceInv' /\ KeepsSources
  BY <1>1, <1>2 DEF SourceInv, Copied, DerivedOnce, sourceVars, KeepsSources, Sources, Derived
<1>5. AllSourced'
  <2>1. \A q \in Reader : phase'[q] = "acquired" => phase[q] = "acquired" /\ fact'[q] = fact[q]
    BY <1>1, <1>2 DEF StoreTyped
  <2> QED
    BY <1>1, <1>2, <1>4, <2>1, SourcedCarries
<1>6. TornTyped'
  <2>1. sourceTorn' = sourceTorn
    BY <1>2 DEF sourceVars
  <2>2. \/ anchorTorn' = anchorTorn /\ writerTorn' \in {writerTorn, writerTorn \/ Publishing(r)}
        \/ /\ writerTorn' = writerTorn
           /\ anchorTorn' \in {anchorTorn, anchorTorn \/ at[r] \in {"write", "head"}}
    BY Zenon DEF KillWriter, KillAnchor, anchorVars
  <2> QED
    BY Zenon, <1>1, <2>1, <2>2 DEF TornTyped
<1> QED
  BY <1>3, <1>4, <1>5, <1>6 DEF FactsInv

(* A step that no read takes.                                              *)
LEMMA HostStep ==
    ASSUME FactsInv,
           \/ Tick \/ PublishScratch \/ UNCHANGED factsVars
           \/ KillOwner /\ UNCHANGED <<clock, answered>>
    PROVE  FactsInv'
<1>1. /\ StoreInv /\ SourceInv /\ AllSourced /\ TornTyped
      /\ StoreTyped /\ clock \in Nat
  BY DEF FactsInv, StoreInv, StoreTyped
<1>2. UNCHANGED <<writerVars, anchorVars, phase, fact, answered>> /\ clock' \in Nat
  BY <1>1 DEF Tick, PublishScratch, KillOwner, factsVars, readVars
<1>3. StoreInv'
  BY <1>1, <1>2, StoresStand
<1>4. SourceInv' /\ KeepsSources
  <2>1. CASE Tick \/ UNCHANGED factsVars
    <3>1. UNCHANGED <<sourceVars, lost>>
      BY <2>1 DEF Tick, factsVars, readVars
    <3> QED
      BY <1>1, <3>1 DEF SourceInv, Copied, DerivedOnce, sourceVars, KeepsSources, Sources, Derived
  <2>2. CASE PublishScratch
    <3>1. Publish /\ UNCHANGED lost
      BY <2>2 DEF PublishScratch, readVars
    <3> QED
      BY <1>1, <3>1, PublishSource
  <2>3. CASE KillOwner
    BY <1>1, <2>3, KillSource
  <2> QED
    BY <2>1, <2>2, <2>3
<1>5. AllSourced'
  BY <1>1, <1>2, <1>4, SourcedCarries DEF writerVars
<1>6. TornTyped'
  <2>1. sourceTorn' \in {sourceTorn, TRUE}
    BY Zenon DEF Tick, PublishScratch, Publish, PublishEvent, PublishFamily, KillOwner, KillRunner,
       factsVars, sourceVars
  <2> QED
    BY Zenon, <1>1, <1>2, <2>1 DEF TornTyped, writerVars, anchorVars
<1> QED
  BY <1>3, <1>4, <1>5, <1>6 DEF FactsInv

(* Every step keeps the invariant.                                         *)
LEMMA NextFacts == FactsInv /\ [FactsNext]_factsVars => FactsInv'
<1> SUFFICES ASSUME FactsInv, [FactsNext]_factsVars PROVE FactsInv'
  OBVIOUS
<1>1. CASE \E r \in Reader : Request(r) \/ Serve(r)
  BY <1>1, ReadStep
<1>2. CASE Kill
  BY <1>2, KillStep, HostStep DEF Kill
<1>3. CASE Tick \/ PublishScratch
  BY <1>3, HostStep
<1>4. CASE UNCHANGED factsVars
  BY <1>4, HostStep
<1> QED
  BY <1>1, <1>2, <1>3, <1>4 DEF FactsNext

(* What the stores and the journal tell of one another, at every moment.   *)
THEOREM FactsInvariance == FactsSpec => []FactsInv
<1>1. FactsInit => FactsInv
  BY InitFacts
<1>2. FactsInv /\ [FactsNext]_factsVars => FactsInv'
  BY NextFacts
<1> QED
  BY <1>1, <1>2, PTL DEF FactsSpec

(* FactsTypeOK: the variables of the two stores, of the journal and of the *)
(* reads keep their types, and a head never runs ahead of its log.         *)
THEOREM FactsTypeCorrect == FactsSpec => []FactsTypeOK
<1>1. FactsInv => FactsTypeOK
  <2> SUFFICES ASSUME FactsInv PROVE FactsTypeOK
    OBVIOUS
  <2>1. StoreTyped /\ ownerJournal \in Seq(Event) /\ TornTyped
    BY DEF FactsInv, StoreInv, SourceInv
  <2>2. \A i \in DOMAIN ownerJournal : ownerJournal[i] \in Event
    BY <2>1
  <2>3. \A i \in DOMAIN ownerJournal : ownerJournal[i].kind \in Kind
    BY <2>2 DEF Event
  <2> QED
    BY <2>1, <2>3 DEF StoreTyped, TornTyped, Stands, Kind, FactsTypeOK
<1> QED
  BY <1>1, FactsInvariance, PTL

(* LogsAgree: wherever the processes of the client, the writer, the owner  *)
(* and the anchor are killed, the anchor's log is the writer's or one      *)
(* record ahead of it, that record is the writer's intent, and what a      *)
(* client was given is committed in both.                                  *)
THEOREM BothLogsAgree == FactsSpec => []LogsAgree
<1>1. FactsInv => LogsAgree
  <2> SUFFICES ASSUME FactsInv PROVE LogsAgree
    OBVIOUS
  <2>1. /\ StoreTyped /\ EntriesKnown /\ Logs /\ Given
        /\ events \in Seq(Fact) /\ anchors \in Seq(Fact)
        /\ head \in Nat /\ head <= Len(events)
    BY DEF FactsInv, StoreInv, StoreTyped
  <2>2. events = SubSeq(anchors, 1, Len(events))
    <3>1. /\ SubSeq(anchors, 1, Len(events)) \in Seq(Fact)
          /\ Len(SubSeq(anchors, 1, Len(events))) = Len(events)
          /\ \A i \in 1..Len(events) : SubSeq(anchors, 1, Len(events))[i] = anchors[i]
      BY <2>1 DEF Logs
    <3> QED
      BY <2>1, <3>1, SeqEqual DEF Logs
  <2>3. retaining # NoEntry => retaining.fact \in {pending} \cup Ranged(events)
    <3>1. Known(retaining)
      BY <2>1 DEF EntriesKnown, Entries
    <3>2. retaining # NoEntry => retaining.seq \in Nat \ {0}
      BY <2>1 DEF StoreTyped, Entry
    <3> QED
      BY <2>1, <3>1, <3>2 DEF Known, Ranged
  <2>4. \A f \in answered : f \in Ranged(Committed) /\ f \in Ranged(anchors)
    <3>1. ASSUME NEW f \in answered PROVE f \in Ranged(Committed) /\ f \in Ranged(anchors)
      <4>1. IsCommitted(f)
        BY <2>1 DEF Given
      <4>2. f \in Ranged(Committed)
        BY <2>1, <4>1, CommittedFacts
      <4>3. f \in Ranged(anchors)
        BY <2>1, <4>1 DEF IsCommitted, Ranged, Logs
      <4> QED
        BY <4>2, <4>3
    <3> QED
      BY <3>1
  <2> QED
    BY <2>1, <2>2, <2>3, <2>4 DEF LogsAgree, Logs
<1> QED
  BY <1>1, FactsInvariance, PTL

(* RecordsHaveSources: every record rests on its owner's journal, or on    *)
(* one that is about to be published, or on a runner's answer that was     *)
(* lost with the runner; without such a loss no observation becomes two    *)
(* records.                                                                *)
THEOREM RecordsAreSourced == FactsSpec => []RecordsHaveSources
<1>1. FactsInv => RecordsHaveSources
  <2> SUFFICES ASSUME FactsInv PROVE RecordsHaveSources
    OBVIOUS
  <2>1. /\ SourceInv /\ AllSourced /\ Distinct
        /\ ownerJournal \in Seq(Event) /\ runner.scratch \in Seq(Event)
    BY DEF FactsInv, StoreInv, SourceInv
  <2>2. Ranged(events) \subseteq Sources
    BY <2>1 DEF AllSourced, Ranged
  <2>3. PICK rows : /\ DerivedOnce(rows)
                    /\ Derived(ownerJournal) \cup Derived(runner.scratch) = Derived(rows)
    <3>1. CASE runner.on
      <4>1. \A i \in DOMAIN ownerJournal :
               i \in DOMAIN runner.scratch /\ ownerJournal[i] = runner.scratch[i]
        BY <2>1, <3>1 DEF SourceInv, Copied
      <4>2. \A f : f \in Derived(ownerJournal) => f \in Derived(runner.scratch)
        BY <4>1, DerivedFacts
      <4>3. Derived(ownerJournal) \cup Derived(runner.scratch) = Derived(runner.scratch)
        BY <4>2
      <4> QED
        BY <2>1, <4>3 DEF SourceInv
    <3>2. CASE ~runner.on
      <4>1. runner.scratch = <<>>
        BY <2>1, <3>2 DEF SourceInv, Copied
      <4>2. Derived(ownerJournal) \cup Derived(runner.scratch) = Derived(ownerJournal)
        BY <4>1, DerivedFacts
      <4> QED
        BY <2>1, <4>2 DEF SourceInv
    <3> QED
      BY <3>1, <3>2
  <2>4. ASSUME NEW i \in DOMAIN events, NEW j \in DOMAIN events,
               i # j, events[i].obs = events[j].obs
        PROVE  {events[i], events[j]} \cap lost # {}
    <3>1. SUFFICES ASSUME events[i] \notin lost, events[j] \notin lost PROVE FALSE
      OBVIOUS
    <3>2. events[i] \in Derived(rows) /\ events[j] \in Derived(rows)
      BY <2>1, <2>3, <3>1 DEF AllSourced, Sources
    <3>3. PICK k \in DOMAIN rows :
             /\ rows[k].kind = "derived_value"
             /\ events[i] = [obs |-> rows[k].obs, at |-> rows[k].at, place |-> k]
      BY <3>2, DerivedFacts
    <3>4. PICK l \in DOMAIN rows :
             /\ rows[l].kind = "derived_value"
             /\ events[j] = [obs |-> rows[l].obs, at |-> rows[l].at, place |-> l]
      BY <3>2, DerivedFacts
    <3>5. rows[k].obs = rows[l].obs
      BY <2>4, <3>3, <3>4
    <3>6. k = l
      BY <2>3, <3>3, <3>4, <3>5 DEF DerivedOnce
    <3>7. events[i] = events[j]
      BY <3>3, <3>4, <3>6
    <3> QED
      BY <2>1, <2>4, <3>7 DEF Distinct
  <2> QED
    BY <2>2, <2>4 DEF RecordsHaveSources, Sources
<1> QED
  BY <1>1, FactsInvariance, PTL
================================================================================
