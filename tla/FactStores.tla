------------------------------- MODULE FactStores -------------------------------
(***************************************************************************)
(* The two stores of the supported host's facts, one namespace of them     *)
(* (supported_host_service_store_v1.py): the protected writer's log, and   *)
(* the log of the independent anchor, which retains each record before     *)
(* the writer commits it.                                                  *)
(*                                                                         *)
(* Each store is a directory of numbered files, a head, and one intent:    *)
(* .pending-append.json of the writer, .pending-retain.json of the anchor. *)
(* The writer works under the namespace lock.  The anchor has no lock: a   *)
(* process of its own serves each exchange, and every one of them starts   *)
(* by completing an intent it finds, also one another process is at.       *)
(***************************************************************************)
EXTENDS Naturals, Sequences, FactSource

CONSTANT Reader

Nobody == "nobody"
ASSUME NobodyAssumption == Nobody \notin Reader

VARIABLES
    events,         \* the writer's event files
    head,           \* the writer's head.json
    pending,        \* its intent, or NoFact
    holder,         \* who holds the namespace lock
    writerTorn,     \* a temporary file was left in the namespace
    anchors,        \* the anchor's record files
    anchorHead,
    retaining,      \* its intent, or NoEntry
    anchorTorn,
    sent,           \* per exchange: what the anchor is asked to retain
    at,             \* per exchange: where its anchor process stands
    job             \* the intent that process is completing

writerVars == <<events, head, pending, holder, writerTorn>>
anchorVars == <<anchors, anchorHead, retaining, anchorTorn, sent, at, job>>

NoEntry == [fact |-> NoFact, seq |-> 0]
Ranged(log) == {log[i] : i \in DOMAIN log}
Committed == SubSeq(events, 1, head)
Retained == SubSeq(anchors, 1, anchorHead)

StoresInit ==
    /\ events = <<>> /\ head = 0 /\ pending = NoFact /\ holder = Nobody /\ writerTorn = FALSE
    /\ anchors = <<>> /\ anchorHead = 0 /\ retaining = NoEntry /\ anchorTorn = FALSE
    /\ sent = [r \in Reader |-> NoEntry]
    /\ at = [r \in Reader |-> "off"]
    /\ job = [r \in Reader |-> NoEntry]

(* _recover_committed and _recover: one file beyond the head is accepted   *)
(* only beside an intent.                                                  *)
WriterReadable ==
    /\ ~writerTorn
    /\ Len(events) = head \/ (Len(events) = head + 1 /\ pending # NoFact)
AnchorReads(intent) ==
    /\ ~anchorTorn
    /\ Len(anchors) = anchorHead \/ (Len(anchors) = anchorHead + 1 /\ intent # NoEntry)
AnchorReadable == AnchorReads(retaining)

--------------------------------------------------------------------------------
(* The writer, under the namespace lock.                                   *)

(* Wrong: an intent left by an earlier append would not stop the next.     *)
AppendableOverIntent(f) == WriterReadable /\ f \notin Ranged(Committed)

Appendable(f) == WriterReadable /\ f \notin Ranged(Committed) /\ pending = NoFact

(* begin_append: the intent is published, and the anchor is asked.         *)
BeginAppend(r, f) ==
    /\ holder = Nobody
    /\ Appendable(f)
    /\ holder' = r
    /\ pending' = f
    /\ sent' = [sent EXCEPT ![r] = [fact |-> f, seq |-> head + 1]]
    /\ UNCHANGED <<events, head, writerTorn, anchors, anchorHead, retaining, anchorTorn, at, job>>

(* commit_append.                                                          *)
WriteEvent(r) ==
    /\ holder = r
    /\ Len(events) = head
    /\ events' = Append(events, pending)
    /\ UNCHANGED <<head, pending, holder, writerTorn>>

ReplaceHead(r) ==
    /\ holder = r
    /\ head' = Len(events)
    /\ UNCHANGED <<events, pending, holder, writerTorn>>

RemovePending(r) ==
    /\ holder = r
    /\ pending' = NoFact
    /\ holder' = Nobody
    /\ UNCHANGED <<events, head, writerTorn>>

(* Wrong: a failed exchange would keep the lock.                           *)
KeepLock(r) == r \in Reader /\ UNCHANGED holder

(* The lock is released however the exchange ends.                         *)
Unlock(r) == holder' = IF holder = r THEN Nobody ELSE holder

--------------------------------------------------------------------------------
(* An anchor process.  opening -> serving, or through the three steps of   *)
(* _commit_pending when it finds an intent.                                *)

Completed(entry) == anchorHead = entry.seq /\ anchors[entry.seq] = entry.fact

(* recover_all when the process starts: _commit_pending reads the intent   *)
(* and the head once, and acts on what it read.                            *)
OpenAnchor(r) ==
    /\ at[r] = "off"
    /\ AnchorReadable
    /\ \/ /\ retaining = NoEntry
          /\ at' = [at EXCEPT ![r] = "serving"]
          /\ UNCHANGED job
       \/ /\ retaining # NoEntry
          /\ Completed(retaining) \/ retaining.seq = anchorHead + 1
          /\ at' = [at EXCEPT ![r] = IF Completed(retaining) THEN "unlink" ELSE "write"]
          /\ job' = [job EXCEPT ![r] = retaining]
    /\ UNCHANGED <<writerVars, anchors, anchorHead, retaining, anchorTorn, sent>>

(* _retain: the entry must be the next one, and its intent must not        *)
(* collide.  (One retained before would be acknowledged again; a writer    *)
(* asks once, so that does not come.)                                      *)
Retainable(entry) == AnchorReadable /\ entry.seq = anchorHead + 1 /\ retaining = NoEntry

Retain(r) ==
    /\ at[r] = "serving"
    /\ sent[r] # NoEntry
    /\ Retainable(sent[r])
    /\ retaining' = sent[r]
    /\ job' = [job EXCEPT ![r] = sent[r]]
    /\ at' = [at EXCEPT ![r] = "write"]
    /\ UNCHANGED <<writerVars, anchors, anchorHead, anchorTorn, sent>>

WriteAnchor(r) ==
    /\ at[r] = "write"
    /\ \/ Len(anchors) = job[r].seq - 1 /\ anchors' = Append(anchors, job[r].fact)
       \/ Len(anchors) >= job[r].seq /\ anchors[job[r].seq] = job[r].fact /\ UNCHANGED anchors
    /\ at' = [at EXCEPT ![r] = "head"]
    /\ UNCHANGED <<writerVars, anchorHead, retaining, anchorTorn, sent, job>>

ReplaceAnchorHead(r) ==
    /\ at[r] = "head"
    /\ anchorHead' = job[r].seq
    /\ at' = [at EXCEPT ![r] = "unlink"]
    /\ UNCHANGED <<writerVars, anchors, retaining, anchorTorn, sent, job>>

(* The intent is removed, whoever wrote it, and the log is read again.     *)
RemoveRetaining(r) ==
    /\ at[r] = "unlink"
    /\ retaining' = NoEntry
    /\ at' = [at EXCEPT ![r] = IF ~AnchorReads(NoEntry) THEN "failed"
                               ELSE IF job[r] = sent[r] THEN "retained" ELSE "serving"]
    /\ job' = [job EXCEPT ![r] = NoEntry]
    /\ UNCHANGED <<writerVars, anchors, anchorHead, anchorTorn, sent>>

(* What a process refuses on its own; beside another one it may also read  *)
(* a file between two of the other's steps.                                *)
AnchorFails(r) ==
    \/ at[r] = "failed"
    \/ at[r] \in {"off", "serving"} /\ ~AnchorReadable
    \/ at[r] = "serving" /\ sent[r] # NoEntry /\ ~Retainable(sent[r])
    \/ at[r] = "off" /\ retaining # NoEntry /\ ~Completed(retaining) /\ retaining.seq # anchorHead + 1
    \/ \E q \in Reader \ {r} : at[q] # "off" /\ at[r] # "off"

EndAnchor(r) ==
    /\ at' = [at EXCEPT ![r] = "off"]
    /\ job' = [job EXCEPT ![r] = NoEntry]
    /\ sent' = [sent EXCEPT ![r] = NoEntry]
================================================================================
