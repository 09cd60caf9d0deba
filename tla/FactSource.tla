------------------------------- MODULE FactSource -------------------------------
(***************************************************************************)
(* The journal of one operation owner of the supported host, and the       *)
(* runner that serves it (supported_host_operation_sources_v1.py and       *)
(* supported_host_protected_service_v1.py).                                *)
(*                                                                         *)
(* A runner holds .runner.lock, copies the owner's root to a scratch       *)
(* directory, derives the fact there, answers the writer, and only then    *)
(* copies the scratch back, file by file in the order of their names: the  *)
(* numbered events, family-state.json, head.json.  A runner killed in      *)
(* between has answered with a fact its root does not hold.                *)
(*                                                                         *)
(* An observation is an identity whose content is fixed.  head.json is     *)
(* left out: recover repairs it from the events.  The transaction file     *)
(* and the steps of _append_locked are inside the scratch, which does not  *)
(* survive its runner.                                                     *)
(***************************************************************************)
EXTENDS Naturals, Sequences

CONSTANTS
    Observation,    \* what the external observer may send
    Life            \* how long a derived fact is current

ASSUME LifeAssumption == Life \in Nat \ {0}

VARIABLES
    ownerJournal,   \* the events of the owner's root
    family,         \* the decisions family-state.json accounts for
    sourceTorn,     \* a temporary file was left among the events
    runner          \* who holds .runner.lock, and its scratch events

sourceVars == <<ownerJournal, family, sourceTorn, runner>>

NoRunner == [on |-> FALSE, scratch |-> <<>>]
Row(kind, o, t) == [kind |-> kind, obs |-> o, at |-> t]
Has(rows, kind, o) == \E i \in DOMAIN rows : rows[i].kind = kind /\ rows[i].obs = o
Decisions(rows) == Len(SelectSeq(rows, LAMBDA row : row.kind = "decision_issue"))

(* A fact is known by its derived event: what was observed, when it was    *)
(* derived, and where in the journal.                                      *)
NoFact == [obs |-> "none", at |-> 0, place |-> 0]
Derived(rows) ==
    {[obs |-> rows[i].obs, at |-> rows[i].at, place |-> i] :
        i \in {j \in DOMAIN rows : rows[j].kind = "derived_value"}}

SourceInit ==
    /\ ownerJournal = <<>>
    /\ family = 0
    /\ sourceTorn = FALSE
    /\ runner = NoRunner

(* recover: the names are contiguous and the family is at the last         *)
(* decision.                                                               *)
Recoverable == ~sourceTorn /\ family = Decisions(ownerJournal)

(* Wrong: an observation sent again would be derived again.                *)
AcquiredAgain(o, now) ==
    ownerJournal \o <<Row("raw_observation", o, 0), Row("decision_issue", o, now), Row("derived_value", o, now)>>

(* acquire_accepted on a copy of the journal: the observation is retained  *)
(* once, and a fact already derived from it is the answer again.           *)
Acquired(o, now) ==
    LET observed == IF Has(ownerJournal, "raw_observation", o) THEN ownerJournal
                    ELSE Append(ownerJournal, Row("raw_observation", o, 0))
    IN IF Has(ownerJournal, "derived_value", o) THEN ownerJournal
       ELSE observed \o <<Row("decision_issue", o, now), Row("derived_value", o, now)>>

Answer(o, now) ==
    LET facts == {f \in Derived(Acquired(o, now)) : f.obs = o}
    IN CHOOSE f \in facts : \A g \in facts : g.place <= f.place

(* The runner answers the writer before it publishes anything.             *)
Acquire(o, now) ==
    /\ ~runner.on
    /\ Recoverable
    /\ now < Answer(o, now).at + Life
    /\ runner' = [on |-> TRUE, scratch |-> Acquired(o, now)]
    /\ UNCHANGED <<ownerJournal, family, sourceTorn>>

(* _publish_scratch_tree_to_dirfd.                                         *)
PublishEvent ==
    /\ runner.on
    /\ Len(ownerJournal) < Len(runner.scratch)
    /\ ownerJournal' = Append(ownerJournal, runner.scratch[Len(ownerJournal) + 1])
    /\ UNCHANGED <<family, sourceTorn, runner>>

PublishFamily ==
    /\ runner.on
    /\ Len(ownerJournal) = Len(runner.scratch)
    /\ family' = Decisions(ownerJournal)
    /\ runner' = NoRunner
    /\ UNCHANGED <<ownerJournal, sourceTorn>>

Publish == PublishEvent \/ PublishFamily

(* Killed after its answer.  Every event is rewritten through a temporary  *)
(* name in the same directory, which stays when the rename does not come.  *)
KillRunner ==
    /\ runner.on
    /\ runner' = NoRunner
    /\ sourceTorn' \in {sourceTorn, TRUE}
    /\ UNCHANGED <<ownerJournal, family>>

Unpublished == Derived(runner.scratch) \ Derived(ownerJournal)
================================================================================
