----------------------------- MODULE ProtectedFacts -----------------------------
(***************************************************************************)
(* How the supported host reads a protected fact: the client's             *)
(* OsBoundProtectedFactSource.read_fact, the writer process that answers   *)
(* it, the owner's runner the writer asks when it has no current fact, the *)
(* anchor process that retains the new record, and a second anchor process *)
(* that corroborates the answer (supported_host_protected_service_v1.py).  *)
(*                                                                         *)
(* Every exchange is served by processes of its own and every channel is   *)
(* used once, so what outlives a process is the files alone.  Any process  *)
(* may be killed between two steps; the others go on with what they were   *)
(* sent.  Reads are of one operation with one query; revocations and       *)
(* consumptions, which nothing in this path writes, are left out.          *)
(***************************************************************************)
EXTENDS Naturals, Sequences, FiniteSets, FactStores

CONSTANTS
    MaxTime,        \* the clock stops here
    MaxReads,       \* reads the clients make
    MaxKills        \* processes that are killed

ASSUME BoundsAssumption == MaxTime \in Nat /\ MaxReads \in Nat /\ MaxKills \in Nat

VARIABLES
    clock,
    phase,          \* where each read stands
    requested,      \* the time its request names
    fact,           \* the fact it is about
    answered,       \* history: the facts clients were given
    lost,           \* history: facts whose runner was killed before it kept them
    reads, kills    \* reads made, processes killed

readVars == <<clock, phase, requested, fact, answered, lost, reads, kills>>
factsVars == <<sourceVars, writerVars, anchorVars, readVars>>

InLock == {"retaining", "anchored", "written", "headed"}
Phases == {"idle", "asked", "acquiring", "acquired", "corroborating"} \cup InLock

FactsInit ==
    /\ SourceInit
    /\ StoresInit
    /\ clock = 0
    /\ phase = [r \in Reader |-> "idle"]
    /\ requested = [r \in Reader |-> 0]
    /\ fact = [r \in Reader |-> NoFact]
    /\ answered = {} /\ lost = {}
    /\ reads = 0 /\ kills = 0

Goes(r, p) == phase' = [phase EXCEPT ![r] = p]
Leaves(r) ==
    /\ Goes(r, "idle")
    /\ requested' = [requested EXCEPT ![r] = 0]
    /\ fact' = [fact EXCEPT ![r] = NoFact]

Tick ==
    /\ clock < MaxTime
    /\ clock' = clock + 1
    /\ UNCHANGED <<sourceVars, writerVars, anchorVars, phase, requested, fact, answered, lost, reads, kills>>

(* The client stamps its request and sends it to the writer.               *)
Request(r) ==
    /\ phase[r] = "idle" /\ at[r] = "off" /\ sent[r] = NoEntry
    /\ reads < MaxReads
    /\ reads' = reads + 1
    /\ requested' = [requested EXCEPT ![r] = clock]
    /\ Goes(r, "asked")
    /\ UNCHANGED <<sourceVars, writerVars, anchorVars, clock, fact, answered, lost, kills>>

(* read_fact: the committed facts that were current at the request.        *)
CurrentAt(t) == {f \in Ranged(Committed) : f.at <= t /\ t < f.at + Life}

ReadFact(r) ==
    /\ phase[r] = "asked"
    /\ WriterReadable
    /\ \/ /\ CurrentAt(requested[r]) = {}
          /\ Goes(r, "acquiring")
          /\ UNCHANGED fact
       \/ /\ Cardinality(CurrentAt(requested[r])) = 1
          /\ fact' = [fact EXCEPT ![r] = CHOOSE f \in CurrentAt(requested[r]) : TRUE]
          /\ Goes(r, "corroborating")
    /\ UNCHANGED <<sourceVars, writerVars, anchorVars, clock, requested, answered, lost, reads, kills>>

(* The owner's runner takes the lock, derives and answers.                 *)
AcquireFact(r) ==
    /\ phase[r] = "acquiring"
    /\ \E o \in Observation :
          /\ Acquire(o, clock)
          /\ fact' = [fact EXCEPT ![r] = Answer(o, clock)]
    /\ Goes(r, "acquired")
    /\ UNCHANGED <<writerVars, anchorVars, clock, requested, answered, lost, reads, kills>>

PublishScratch ==
    /\ Publish
    /\ UNCHANGED <<writerVars, anchorVars, readVars>>

(* The records are not searched again once the lock is held.               *)
Begin(r) ==
    /\ phase[r] = "acquired"
    /\ BeginAppend(r, fact[r])
    /\ Goes(r, "retaining")
    /\ UNCHANGED <<sourceVars, clock, requested, fact, answered, lost, reads, kills>>

Commit(r) ==
    /\ \/ phase[r] = "anchored" /\ WriteEvent(r) /\ Goes(r, "written")
       \/ phase[r] = "written" /\ ReplaceHead(r) /\ Goes(r, "headed")
       \/ phase[r] = "headed" /\ RemovePending(r) /\ Goes(r, "corroborating")
    /\ UNCHANGED <<sourceVars, anchorVars, clock, requested, fact, answered, lost, reads, kills>>

(* An anchor process is started for a command and for a corroboration.     *)
Anchor(r) ==
    /\ \/ (sent[r] # NoEntry \/ phase[r] = "corroborating") /\ OpenAnchor(r)
       \/ Retain(r) \/ WriteAnchor(r) \/ ReplaceAnchorHead(r) \/ RemoveRetaining(r)
    /\ UNCHANGED <<sourceVars, readVars>>

(* The receipt reaches the writer, if it still waits.                      *)
AnchorAnswers(r) ==
    /\ at[r] = "retained"
    /\ EndAnchor(r)
    /\ Goes(r, IF phase[r] = "retaining" THEN "anchored" ELSE phase[r])
    /\ UNCHANGED <<sourceVars, writerVars, anchors, anchorHead, retaining, anchorTorn>>
    /\ UNCHANGED <<clock, requested, fact, answered, lost, reads, kills>>

(* The second anchor process must know the record.                         *)
Corroborate(r) ==
    /\ phase[r] = "corroborating" /\ at[r] = "serving"
    /\ AnchorReadable
    /\ answered' = answered \cup ({fact[r]} \cap Ranged(Retained))
    /\ EndAnchor(r)
    /\ Leaves(r)
    /\ UNCHANGED <<sourceVars, writerVars, anchors, anchorHead, retaining, anchorTorn>>
    /\ UNCHANGED <<clock, lost, reads, kills>>

--------------------------------------------------------------------------------
(* Refusals.  An exchange that fails unlocks the namespace and leaves the  *)
(* intent it wrote.                                                        *)

Refused(r) ==
    /\ Unlock(r)
    /\ UNCHANGED <<events, head, pending>>
    /\ Leaves(r)

(* The store cannot be read (or is between two steps of the lock's holder),*)
(* two facts are current, the source is unavailable, or the namespace      *)
(* cannot be appended to.                                                  *)
Refuse(r) ==
    /\ \/ phase[r] = "asked" /\ (~WriterReadable \/ holder # Nobody
                                    \/ Cardinality(CurrentAt(requested[r])) > 1)
       \/ phase[r] = "acquiring"
       \/ phase[r] = "acquired" /\ holder = Nobody /\ ~Appendable(fact[r])
    /\ Refused(r)
    /\ UNCHANGED <<sourceVars, writerTorn, anchorVars, clock, answered, lost, reads, kills>>

AnchorRefuses(r) ==
    /\ sent[r] # NoEntry \/ phase[r] = "corroborating" \/ at[r] # "off"
    /\ AnchorFails(r)
    /\ EndAnchor(r)
    /\ Refused(r)
    /\ UNCHANGED <<sourceVars, writerTorn, anchors, anchorHead, retaining, anchorTorn>>
    /\ UNCHANGED <<clock, answered, lost, reads, kills>>

(* A writer process dies; what it sent to the anchor is still delivered.   *)
(* A file it was publishing may leave its temporary name: the intent, the  *)
(* event, the head.  One that dies before it has a fact is as one that     *)
(* refuses.                                                                *)
Publishing(r) ==
    \/ phase[r] = "acquired" /\ holder = Nobody /\ Appendable(fact[r])
    \/ phase[r] \in {"anchored", "written"}

KillWriter(r) ==
    /\ phase[r] \in InLock \cup {"acquired"}
    /\ Refused(r)
    /\ writerTorn' \in {writerTorn, writerTorn \/ Publishing(r)}
    /\ UNCHANGED <<sourceVars, anchorVars, lost>>

KillAnchor(r) ==
    /\ at[r] # "off"
    /\ EndAnchor(r)
    /\ Refused(r)
    /\ anchorTorn' \in {anchorTorn, anchorTorn \/ at[r] \in {"write", "head"}}
    /\ UNCHANGED <<sourceVars, writerTorn, anchors, anchorHead, retaining, lost>>

KillOwner ==
    /\ KillRunner
    /\ lost' = lost \cup Unpublished
    /\ UNCHANGED <<writerVars, anchorVars, phase, requested, fact>>

Kill ==
    /\ kills < MaxKills
    /\ kills' = kills + 1
    /\ KillOwner \/ \E r \in Reader : KillWriter(r) \/ KillAnchor(r)
    /\ UNCHANGED <<clock, answered, reads>>

--------------------------------------------------------------------------------
Serve(r) ==
    \/ ReadFact(r) \/ AcquireFact(r) \/ Begin(r) \/ Commit(r)
    \/ Anchor(r) \/ AnchorAnswers(r) \/ Corroborate(r) \/ Refuse(r) \/ AnchorRefuses(r)

FactsNext ==
    \/ Tick
    \/ \E r \in Reader : Request(r) \/ Serve(r)
    \/ PublishScratch
    \/ Kill

FactsSpec == FactsInit /\ [][FactsNext]_factsVars

(* A started process runs on; nothing makes a client ask.                  *)
FactsLiveSpec == FactsSpec /\ WF_factsVars(PublishScratch) /\ \A r \in Reader : WF_factsVars(Serve(r))

FactsTypeOK ==
    /\ holder \in Reader \cup {Nobody}
    /\ phase \in [Reader -> Phases]
    /\ at \in [Reader -> {"off", "serving", "write", "head", "unlink", "retained", "failed"}]
    /\ {ownerJournal[i].kind : i \in DOMAIN ownerJournal} \subseteq
          {"raw_observation", "decision_issue", "derived_value"}
    /\ head <= Len(events) /\ anchorHead <= Len(anchors)
    /\ writerTorn \in BOOLEAN /\ anchorTorn \in BOOLEAN /\ sourceTorn \in BOOLEAN

(* Wherever the processes are killed, and although two anchor processes    *)
(* may complete one intent at once, the anchor's log is the writer's or    *)
(* one record ahead of it; that record, and whatever the anchor is         *)
(* retaining, is the writer's intent, so an interrupted append can still   *)
(* be continued and never as anything else.  What a client was given is    *)
(* committed in the one log and in the other.                              *)
LogsAgree ==
    /\ Len(events) <= Len(anchors) /\ Len(anchors) <= Len(events) + 1
    /\ events = SubSeq(anchors, 1, Len(events))
    /\ Len(anchors) > Len(events) => anchors[Len(anchors)] = pending
    /\ retaining # NoEntry => retaining.fact \in {pending} \cup Ranged(events)
    /\ answered \subseteq Ranged(Committed) \cap Ranged(anchors)

(* Every record rests on its owner's journal: its derived event is there,  *)
(* or its runner is at publishing it, or was killed before; and no         *)
(* observation becomes two records but for such a loss, however often the  *)
(* observer sends it and whoever reads at the same time.                   *)
RecordsHaveSources ==
    /\ Ranged(events) \subseteq Derived(ownerJournal) \cup Derived(runner.scratch) \cup lost
    /\ \A i, j \in DOMAIN events :
          i # j /\ events[i].obs = events[j].obs => {events[i], events[j]} \cap lost # {}

(* Every read ends, although each waits for the runner's lock, the         *)
(* namespace lock and two anchor processes, and any of them may be killed. *)
ReadsEnd == \A r \in Reader : phase[r] # "idle" ~> phase[r] = "idle"
================================================================================
