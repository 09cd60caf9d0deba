---------------------------- MODULE ScopedAttempt ----------------------------
(***************************************************************************)
(* The custody of one scoped-write provider attempt (run_dispatch of       *)
(* run_headless_provider_dispatch.py with provider_execution_backend.py).  *)
(*                                                                         *)
(* A dispatcher process that was handed a binding claims, one exclusive    *)
(* file after the other, an evidence directory, a lease file, the          *)
(* authority record and a worktree, opens an attempt journal, starts the   *)
(* provider in the worktree, and then records what came of it in the two   *)
(* custody stores - the journal and the lease file - before it publishes.  *)
(* Nothing is shared but these files, and no lock spans two of them.  The  *)
(* process may stop between any two writes (its provider then runs on),    *)
(* any write may fail with or without effect, and any check may fail.      *)
(***************************************************************************)
EXTENDS Naturals, FiniteSets

CONSTANTS
    Runs,           \* dispatcher processes
    Attempts,       \* attempt identities, one to a binding
    Authorities,    \* authority records of the receiver
    AuthorityOf     \* the record the binding of an attempt refers to

ASSUME AuthorityAssumption == AuthorityOf \in [Attempts -> Authorities]

Unknown == "execution_unknown"
NoAttempt == "no attempt"
ASSUME NamesAssumption == NoAttempt \notin Attempts

Outcomes == {"success", "failure", Unknown}
Ends == {"succeeded", "failed", Unknown}
LeaseStates == Ends \cup {"absent", "empty", "started"}
JournalStates == {"absent", "prepared", "consuming",
                  "consumed_success", "consumed_failure", Unknown}
Places == {"idle", "bound", "leased", "authorised", "copied", "journalled",
           "begun", "unprepared", "ready", "capturing", "captured",
           "completing", "receipting", "final_journal", "final_lease",
           "unknown_journal", "unknown_lease", "terminal", "selected"}

VARIABLES
    evidence,   \* attempts whose evidence directory exists
    lease,      \* state of the last row of each lease file
    consumed,   \* the attempts that wrote the marker of each authority record
    journal,    \* state of the last event of each attempt journal
    tree,       \* the worktree of each attempt
    receipt,    \* attempts with a provider change receipt
    artifact,   \* attempts whose artifact is published
    manifest,   \* status of the return manifest of each attempt
    provider,   \* the provider process of each attempt
    starts,     \* how often each attempt has started a provider
    place,      \* where each dispatcher is
    attempt,    \* the attempt it works on
    outcome,    \* the outcome it normalised
    aim,        \* the end it is recording
    errors,     \* whether recording it in one of the stores failed
    raising     \* whether it will raise once the end is recorded

stores == <<lease, journal>>
published == <<receipt, artifact, manifest>>
effects == <<tree, provider, starts>>
verdict == <<outcome, aim, errors, raising>>
vars == <<evidence, consumed, stores, published, effects, place, attempt, verdict>>

Init ==
    /\ evidence = {} /\ receipt = {} /\ artifact = {}
    /\ lease = [a \in Attempts |-> "absent"]
    /\ journal = [a \in Attempts |-> "absent"]
    /\ consumed = [r \in Authorities |-> {}]
    /\ tree = [a \in Attempts |-> "absent"]
    /\ manifest = [a \in Attempts |-> "absent"]
    /\ provider = [a \in Attempts |-> "none"]
    /\ starts = [a \in Attempts |-> 0]
    /\ place = [p \in Runs |-> "idle"]
    /\ attempt = [p \in Runs |-> NoAttempt]
    /\ outcome = [p \in Runs |-> "failure"]
    /\ aim = [p \in Runs |-> Unknown]
    /\ errors = [p \in Runs |-> FALSE]
    /\ raising = [p \in Runs |-> FALSE]

At(p, s) == place[p] = s
Go(p, s) == place' = [place EXCEPT ![p] = s] /\ UNCHANGED attempt

(* The process is gone, whether it returned, raised or was killed.         *)
Leave(p) ==
    /\ place' = [place EXCEPT ![p] = "idle"]
    /\ attempt' = [attempt EXCEPT ![p] = NoAttempt]

----------------------------------------------------------------------------
(* Claiming the attempt.                                                   *)

(* The evidence directory is single-use: mkdir refuses an existing one.    *)
Bind(p, a) ==
    /\ At(p, "idle") /\ a \notin evidence
    /\ evidence' = evidence \cup {a}
    /\ place' = [place EXCEPT ![p] = "bound"]
    /\ attempt' = [attempt EXCEPT ![p] = a]
    /\ UNCHANGED <<consumed, stores, published, effects, verdict>>

(* Lease files are created exclusively; the row may fail to follow.        *)
StartLease(p) ==
    /\ At(p, "bound")
    /\ \E row \in {"started", "empty"} :
          LET a == attempt[p] IN
          IF lease[a] = "absent"
          THEN /\ lease' = [lease EXCEPT ![a] = row]
               /\ IF row = "started" THEN Go(p, "leased") ELSE Leave(p)
          ELSE /\ Leave(p) /\ UNCHANGED lease
    /\ UNCHANGED <<evidence, consumed, journal, published, effects, verdict>>

(* Wrong: the marker would be overwritten by the next attempt.             *)
ConsumeAuthorityAgain(p) ==
    /\ At(p, "leased")
    /\ consumed' = [consumed EXCEPT ![AuthorityOf[attempt[p]]] = {attempt[p]}]
    /\ Go(p, "authorised")
    /\ UNCHANGED <<evidence, stores, published, effects, verdict>>

(* The marker of an authority record is created exclusively as well, so a  *)
(* record serves one attempt across every journal and worktree.            *)
ConsumeAuthority(p) ==
    /\ At(p, "leased")
    /\ LET r == AuthorityOf[attempt[p]] IN
       IF consumed[r] = {}
       THEN /\ consumed' = [consumed EXCEPT ![r] = {attempt[p]}]
            /\ Go(p, "authorised")
       ELSE /\ Go(p, "unprepared") /\ UNCHANGED consumed
    /\ UNCHANGED <<evidence, stores, published, effects, verdict>>

CopyWorktree(p) ==
    /\ At(p, "authorised")
    /\ LET a == attempt[p] IN
       IF tree[a] = "absent"
       THEN /\ tree' = [tree EXCEPT ![a] = "clean"] /\ Go(p, "copied")
       ELSE /\ Go(p, "unprepared") /\ UNCHANGED tree
    /\ UNCHANGED <<evidence, consumed, stores, published, provider, starts, verdict>>

(* A journal found consuming is made unknown and any journal found at all  *)
(* refuses the attempt; a fresh one gets the four preparatory events.      *)
OpenJournal(p) ==
    /\ At(p, "copied")
    /\ LET a == attempt[p] IN
       /\ journal' = [journal EXCEPT ![a] =
              CASE @ = "absent" -> "prepared" [] @ = "consuming" -> Unknown [] OTHER -> @]
       /\ Go(p, IF journal[a] = "absent" THEN "journalled" ELSE "unprepared")
    /\ UNCHANGED <<evidence, consumed, lease, published, effects, verdict>>

EnterConsuming(p) ==
    /\ At(p, "journalled")
    /\ journal' = [journal EXCEPT ![attempt[p]] = "consuming"]
    /\ Go(p, "begun")
    /\ UNCHANGED <<evidence, consumed, lease, published, effects, verdict>>

(* The snapshot the result is compared with is taken after consuming.      *)
TakeSnapshot(p) ==
    /\ At(p, "begun")
    /\ Go(p, "ready")
    /\ UNCHANGED <<evidence, consumed, stores, published, effects, verdict>>

(* Any step of the preparation may fail.                                   *)
PreparationFails(p) ==
    /\ place[p] \in {"leased", "authorised", "copied", "journalled", "begun"}
    /\ Go(p, "unprepared")
    /\ UNCHANGED <<evidence, consumed, stores, published, effects, verdict>>

(* The lease alone is then closed as unknown, if that succeeds, and the    *)
(* error is raised: a journal may not exist yet.                           *)
CloseLease(p) ==
    /\ At(p, "unprepared")
    /\ \/ /\ lease[attempt[p]] = "started"
          /\ lease' = [lease EXCEPT ![attempt[p]] = Unknown]
       \/ UNCHANGED lease
    /\ Leave(p)
    /\ UNCHANGED <<evidence, consumed, journal, published, effects, verdict>>

----------------------------------------------------------------------------
(* The provider process.                                                   *)

Spawn(p) ==
    /\ At(p, "ready")
    /\ LET a == attempt[p] IN
       /\ provider' = [provider EXCEPT ![a] = "running"]
       /\ starts' = [starts EXCEPT ![a] = @ + 1]
    /\ Go(p, "capturing")
    /\ UNCHANGED <<evidence, consumed, stores, published, tree, verdict>>

(* The executable could not be started.                                    *)
SpawnFails(p) ==
    /\ At(p, "ready")
    /\ outcome' = [outcome EXCEPT ![p] = "failure"]
    /\ Go(p, "completing")
    /\ UNCHANGED <<evidence, consumed, stores, published, effects, aim, errors, raising>>

ProviderWrites(a) ==
    /\ provider[a] = "running"
    /\ tree' = [tree EXCEPT ![a] = "changed"]
    /\ UNCHANGED <<evidence, consumed, stores, published, provider, starts, place,
                   attempt, verdict>>

ProviderExits(a) ==
    /\ provider[a] = "running"
    /\ provider' = [provider EXCEPT ![a] = "exited"]
    /\ UNCHANGED <<evidence, consumed, stores, published, tree, starts, place,
                   attempt, verdict>>

(* The output is complete, or the deadline or a limit was reached and the  *)
(* process terminated: the capture ends with no process left.              *)
Capture(p) ==
    /\ At(p, "capturing")
    /\ provider' = [provider EXCEPT ![attempt[p]] = "exited"]
    /\ Go(p, "captured")
    /\ UNCHANGED <<evidence, consumed, stores, published, tree, starts, verdict>>

Normalise(p) ==
    /\ At(p, "captured")
    /\ \E o \in Outcomes : outcome' = [outcome EXCEPT ![p] = o]
    /\ Go(p, "completing")
    /\ UNCHANGED <<evidence, consumed, stores, published, effects, aim, errors, raising>>

----------------------------------------------------------------------------
(* Recording the end of the attempt in both stores.                        *)

Record(p, end, raise) ==
    /\ aim' = [aim EXCEPT ![p] = end]
    /\ errors' = [errors EXCEPT ![p] = FALSE]
    /\ raising' = [raising EXCEPT ![p] = raise]
    /\ Go(p, "final_journal")
    /\ UNCHANGED outcome

(* An exception once the backend is prepared: both stores become unknown.  *)
(* The capture terminates its process on the way out, if it can.           *)
Forsake(p) ==
    /\ place[p] \in {"ready", "capturing", "captured", "completing", "receipting"}
    /\ \/ UNCHANGED provider
       \/ /\ At(p, "capturing")
          /\ provider' = [provider EXCEPT ![attempt[p]] = "exited"]
    /\ Record(p, Unknown, TRUE)
    /\ UNCHANGED <<evidence, consumed, stores, published, tree, starts>>

(* Wrong: the worktree would not be looked at.                             *)
CompleteWithoutLooking(p) ==
    /\ At(p, "completing") /\ outcome[p] # "success"
    /\ Record(p, IF outcome[p] = Unknown THEN Unknown ELSE "failed", FALSE)
    /\ UNCHANGED <<evidence, consumed, stores, published, effects>>

(* An attempt without a result failed if its worktree is as it was, and is *)
(* unknown if not.                                                         *)
CompleteWithoutResult(p) ==
    /\ At(p, "completing") /\ outcome[p] # "success"
    /\ LET changed == tree[attempt[p]] = "changed" IN
       Record(p, IF outcome[p] = Unknown \/ changed THEN Unknown ELSE "failed",
              changed /\ outcome[p] # Unknown)
    /\ UNCHANGED <<evidence, consumed, stores, published, effects>>

CompleteWithResult(p) ==
    /\ At(p, "completing") /\ outcome[p] = "success"
    /\ Go(p, "receipting")
    /\ UNCHANGED <<evidence, consumed, stores, published, effects, verdict>>

WriteReceipt(p) ==
    /\ At(p, "receipting")
    /\ receipt' = receipt \cup {attempt[p]}
    /\ Record(p, "succeeded", FALSE)
    /\ UNCHANGED <<evidence, consumed, stores, artifact, manifest, effects>>

JournalEnd(end) ==
    CASE end = "succeeded" -> "consumed_success"
      [] end = "failed" -> "consumed_failure"
      [] OTHER -> Unknown

(* A row is written or not, and the write is reported as failed or not:    *)
(* rows are refused unless allowed, one may be appended and the call still *)
(* fail, and where there is nothing to write the call may return at once.  *)
Written(row, failure, allowed, settled) ==
    /\ row => allowed
    /\ ~row => failure \/ settled

(* Both stores are tried, whatever becomes of the first.  Recovering a     *)
(* journal that is not consuming does nothing.                             *)
FinaliseJournal(p) ==
    /\ At(p, "final_journal")
    /\ LET a == attempt[p] IN
       \E row, failure \in BOOLEAN :
          /\ Written(row, failure, journal[a] = "consuming",
                     aim[p] = Unknown /\ journal[a] # "consuming")
          /\ journal' = IF row THEN [journal EXCEPT ![a] = JournalEnd(aim[p])] ELSE journal
          /\ errors' = [errors EXCEPT ![p] = failure]
    /\ Go(p, "final_lease")
    /\ UNCHANGED <<evidence, consumed, lease, published, effects, outcome, aim, raising>>

(* Wrong: an error of the journal would be recorded as a failure.          *)
FinaliseLeaseAsFailed(p) ==
    /\ At(p, "final_lease")
    /\ LET a == attempt[p] IN
       \E row, failure \in BOOLEAN :
          /\ Written(row, failure, lease[a] = "started", FALSE)
          /\ lease' = IF row THEN [lease EXCEPT ![a] = IF errors[p] THEN "failed" ELSE aim[p]]
                      ELSE lease
          /\ IF failure
             THEN /\ Go(p, "unknown_journal")
                  /\ raising' = [raising EXCEPT ![p] = TRUE]
             ELSE Go(p, "terminal") /\ UNCHANGED raising
    /\ UNCHANGED <<evidence, consumed, journal, published, effects, outcome, aim, errors>>

(* Wrong: only the error of the last store would count.                    *)
FinaliseLeaseAlone(p) ==
    /\ At(p, "final_lease")
    /\ LET a == attempt[p] IN
       \E row, failure \in BOOLEAN :
          /\ Written(row, failure, lease[a] = "started", FALSE)
          /\ lease' = IF row THEN [lease EXCEPT ![a] = aim[p]] ELSE lease
          /\ IF failure
             THEN /\ Go(p, "unknown_journal")
                  /\ raising' = [raising EXCEPT ![p] = TRUE]
             ELSE Go(p, "terminal") /\ UNCHANGED raising
    /\ UNCHANGED <<evidence, consumed, journal, published, effects, outcome, aim, errors>>

(* An error in either store sends the attempt to its reconciliation.       *)
FinaliseLease(p) ==
    /\ At(p, "final_lease")
    /\ LET a == attempt[p] IN
       \E row, failure \in BOOLEAN :
          /\ Written(row, failure, lease[a] = "started", FALSE)
          /\ lease' = IF row THEN [lease EXCEPT ![a] = aim[p]] ELSE lease
          /\ IF errors[p] \/ failure
             THEN /\ Go(p, "unknown_journal")
                  /\ raising' = [raising EXCEPT ![p] = TRUE]
             ELSE Go(p, "terminal") /\ UNCHANGED raising
    /\ UNCHANGED <<evidence, consumed, journal, published, effects, outcome, aim, errors>>

ReconcileJournal(p) ==
    /\ At(p, "unknown_journal")
    /\ LET a == attempt[p] IN
       \E row, failure \in BOOLEAN :
          /\ Written(row, failure,
                     journal[a] \in {"consuming", "consumed_success", "consumed_failure"},
                     journal[a] = Unknown)
          /\ journal' = IF row THEN [journal EXCEPT ![a] = Unknown] ELSE journal
          /\ errors' = [errors EXCEPT ![p] = failure]
    /\ Go(p, "unknown_lease")
    /\ UNCHANGED <<evidence, consumed, lease, published, effects, outcome, aim, raising>>

(* A second error is raised, and the stores stay as they are.              *)
ReconcileLease(p) ==
    /\ At(p, "unknown_lease")
    /\ LET a == attempt[p] IN
       \E row, failure \in BOOLEAN :
          /\ Written(row, failure, lease[a] \in {"started", "succeeded", "failed"},
                     lease[a] = Unknown)
          /\ lease' = IF row THEN [lease EXCEPT ![a] = Unknown] ELSE lease
          /\ IF errors[p] \/ failure THEN Leave(p) ELSE Go(p, "terminal")
    /\ UNCHANGED <<evidence, consumed, journal, published, effects, verdict>>

----------------------------------------------------------------------------
(* Publishing.                                                             *)

PublishArtifact(p) ==
    /\ At(p, "terminal") /\ ~raising[p] /\ aim[p] = "succeeded"
    /\ artifact' = artifact \cup {attempt[p]}
    /\ Go(p, "selected")
    /\ UNCHANGED <<evidence, consumed, stores, receipt, manifest, effects, verdict>>

PublishManifest(p) ==
    /\ \/ At(p, "selected")
       \/ At(p, "terminal") /\ ~raising[p] /\ aim[p] # "succeeded"
    /\ manifest' = [manifest EXCEPT ![attempt[p]] =
                       IF At(p, "selected") THEN "selected" ELSE "stopped"]
    /\ Leave(p)
    /\ UNCHANGED <<evidence, consumed, stores, receipt, artifact, effects, verdict>>

RaiseAfterEnd(p) ==
    /\ At(p, "terminal") /\ raising[p]
    /\ Leave(p)
    /\ UNCHANGED <<evidence, consumed, stores, published, effects, verdict>>

(* The process is killed, or raises where no handler stands; the stores    *)
(* and a running provider are left as they are.                            *)
Stop(p) ==
    /\ ~At(p, "idle")
    /\ Leave(p)
    /\ UNCHANGED <<evidence, consumed, stores, published, effects, verdict>>

----------------------------------------------------------------------------
Prepare(p) ==
    \/ \E a \in Attempts : Bind(p, a)
    \/ StartLease(p) \/ ConsumeAuthority(p) \/ CopyWorktree(p) \/ OpenJournal(p)
    \/ EnterConsuming(p) \/ TakeSnapshot(p) \/ PreparationFails(p) \/ CloseLease(p)

Execute(p) ==
    \/ Spawn(p) \/ SpawnFails(p) \/ Capture(p) \/ Normalise(p) \/ Forsake(p)
    \/ CompleteWithoutResult(p) \/ CompleteWithResult(p) \/ WriteReceipt(p)

Settle(p) ==
    \/ FinaliseJournal(p) \/ FinaliseLease(p) \/ ReconcileJournal(p) \/ ReconcileLease(p)
    \/ PublishArtifact(p) \/ PublishManifest(p) \/ RaiseAfterEnd(p)

Dispatch(p) == Prepare(p) \/ Execute(p) \/ Settle(p)
Provider(a) == ProviderWrites(a) \/ ProviderExits(a)

Next ==
    \/ \E p \in Runs : Dispatch(p) \/ Stop(p)
    \/ \E a \in Attempts : Provider(a)

Spec == Init /\ [][Next]_vars

(* A dispatcher that is not stopped goes on, and one that is free takes    *)
(* whatever binding it can: the operator tries every attempt again.        *)
LiveSpec == Spec /\ \A p \in Runs : WF_vars(Dispatch(p))

----------------------------------------------------------------------------
(* Every variable stays in its range.                                      *)
TypeOK ==
    /\ evidence \subseteq Attempts /\ receipt \subseteq Attempts
    /\ artifact \subseteq Attempts
    /\ lease \in [Attempts -> LeaseStates]
    /\ journal \in [Attempts -> JournalStates]
    /\ consumed \in [Authorities -> SUBSET Attempts]
    /\ tree \in [Attempts -> {"absent", "clean", "changed"}]
    /\ manifest \in [Attempts -> {"absent", "selected", "stopped"}]
    /\ provider \in [Attempts -> {"none", "running", "exited"}]
    /\ starts \in [Attempts -> Nat]
    /\ place \in [Runs -> Places]
    /\ attempt \in [Runs -> Attempts \cup {NoAttempt}]
    /\ outcome \in [Runs -> Outcomes] /\ aim \in [Runs -> Ends]
    /\ errors \in [Runs -> BOOLEAN] /\ raising \in [Runs -> BOOLEAN]

(* However dispatchers race, stop and are repeated, an authority record    *)
(* pays for one provider process: no attempt starts a second one, and no   *)
(* two attempts under one record both start one.                           *)
ProviderStartsOnce ==
    /\ \A a \in Attempts : starts[a] <= 1
    /\ \A a, b \in Attempts :
          starts[a] > 0 /\ starts[b] > 0 /\ AuthorityOf[a] = AuthorityOf[b] => a = b

(* What is published is settled: an artifact or a selected manifest stands *)
(* on a change receipt and on success in both stores, and a manifest of    *)
(* any other status on the same other end in both, for good.               *)
PublishedIsSettled ==
    \A a \in Attempts :
       /\ a \in artifact \/ manifest[a] = "selected" =>
            a \in receipt /\ lease[a] = "succeeded" /\ journal[a] = "consumed_success"
       /\ manifest[a] = "stopped" =>
            lease[a] \in {"failed", Unknown} /\ journal[a] = JournalEnd(lease[a])

(* A failure on record - what an operator may retry under a new lease - is *)
(* of an attempt whose provider left nothing behind and can write no more. *)
FailedLeftNothing ==
    \A a \in Attempts :
       lease[a] = "failed" \/ journal[a] = "consumed_failure" =>
          tree[a] # "changed" /\ provider[a] # "running"

(* Failed writes and stopped dispatchers may leave the stores different,   *)
(* but never one with success and the other with failure.                  *)
StoresNeverContradict ==
    \A a \in Attempts :
       /\ ~(lease[a] = "succeeded" /\ journal[a] = "consumed_failure")
       /\ ~(lease[a] = "failed" /\ journal[a] = "consumed_success")

(* "Any interrupted consuming state becomes unknown"                       *)
(* (provider_execution_backend.py:171): a journal left consuming by a      *)
(* dispatcher that is gone is in the end marked unknown.                   *)
InterruptedBecomesUnknown ==
    \A a \in Attempts :
       (journal[a] = "consuming" /\ \A p \in Runs : attempt[p] # a)
          ~> journal[a] = Unknown
==============================================================================
