---------------------------- MODULE GuardedMerge ----------------------------
(***************************************************************************)
(* One exact pull-request merge for each task (github_guarded_merge.py).   *)
(* Under the task's lock: an outcome that is not known is reconciled and   *)
(* nothing else; otherwise the evidence and the gates are checked, the     *)
(* state is written, the pull request is read again, and one PUT is sent.  *)
(***************************************************************************)
EXTENDS GithubRemote

CONSTANTS
    Audited,   \* the head that each task's request and audit bind
    MaxStops   \* bound: how many executions are cut short

ASSUME MergeAssumption ==
    /\ Audited \in [Task -> Commit \ {0}]
    /\ MaxStops \in Nat

VARIABLES
    evidence,     \* the audit and the board of each task
    mergeState,   \* status of each task's state file
    mergeStep,    \* where the execution under each task's lock is
    owed,         \* history: a PUT was sent and nobody knows what came of it
    stops         \* how many executions were cut short

mergeVars == <<evidence, mergeState, mergeStep, owed, stops>>

(* A file that was created exclusively and not written is "torn": every    *)
(* later execution refuses it.                                             *)
MergeTypeOK ==
    /\ evidence \in [Task -> {"none", "accepted", "stale"}]
    /\ mergeState \in [Task -> {"none", "torn", "effect_started", "unknown",
                                "reconciled_unmerged", "bound"}]
    /\ mergeStep \in [Task -> {"idle", "reconciling", "gates", "prepared", "sent"}]
    /\ owed \in [Task -> BOOLEAN]
    /\ stops \in 0 .. MaxStops

MergeInit ==
    /\ evidence = [t \in Task |-> "none"]
    /\ mergeState = [t \in Task |-> "none"]
    /\ mergeStep = [t \in Task |-> "idle"]
    /\ owed = [t \in Task |-> FALSE]
    /\ stops = 0

(* Wrong: a state written before the PUT would not need reconciliation.    *)
PendingUnknownOnly(t) == mergeState[t] = "unknown"

(* An effect may have happened that nobody has seen the outcome of.        *)
Pending(t) == mergeState[t] \in {"effect_started", "unknown"}

(* The pull request is the one that was audited, with its base and head.   *)
Exact(t) == pull.state # "absent" /\ pull.head = Audited[t] /\ ~pull.drifted

(* The task's execution is at step s, with its state at status.            *)
MergeGoesOn(t, s, status) ==
    /\ mergeStep' = [mergeStep EXCEPT ![t] = s]
    /\ mergeState' = [mergeState EXCEPT ![t] = status]
Settles(t, status) ==
    /\ MergeGoesOn(t, "idle", status)
    /\ owed' = [owed EXCEPT ![t] = FALSE]

-----------------------------------------------------------------------------
(* The independent auditor accepts the head it was given; later the board  *)
(* moves on and no longer has the digest that the audit binds.             *)

Audit(t) ==
    /\ evidence[t] = "none" /\ pull.state = "open" /\ Exact(t)
    /\ evidence' = [evidence EXCEPT ![t] = "accepted"]
    /\ UNCHANGED <<mergeState, mergeStep, owed, stops>> /\ Unseen /\ Quiet

BoardMovesOn(t) ==
    /\ evidence[t] = "accepted"
    /\ evidence' = [evidence EXCEPT ![t] = "stale"]
    /\ UNCHANGED <<mergeState, mergeStep, owed, stops>> /\ Unseen /\ Quiet

-----------------------------------------------------------------------------
(* One execution.                                                          *)

(* Wrong: evidence would be asked for even to learn what has happened.     *)
ReconcilableAudited(t) == Pending(t) /\ evidence[t] = "accepted"

Reconcilable(t) == Pending(t)

(* Board, audit and projection have the digests that the request binds, and *)
(* the auditor accepted its head.                                          *)
EvidenceHolds(t) == evidence[t] = "accepted"

(* A request exists once there was something to audit.  A bound task is    *)
(* only read again, which changes nothing.                                 *)
MergeBegin(t) ==
    /\ mergeStep[t] = "idle"
    /\ \/ Reconcilable(t) /\ MergeGoesOn(t, "reconciling", mergeState[t])
       \/ /\ ~Pending(t) /\ mergeState[t] \notin {"torn", "bound"}
          /\ EvidenceHolds(t)
          /\ MergeGoesOn(t, "gates", mergeState[t])
    /\ UNCHANGED <<evidence, owed, stops>> /\ Unseen /\ Quiet

(* Drift leaves the outcome open.                                          *)
Reconcile(t) ==
    /\ mergeStep[t] = "reconciling" /\ Exact(t)
    /\ Settles(t, IF pull.state = "merged" THEN "bound" ELSE "reconciled_unmerged")
    /\ UNCHANGED <<evidence, stops>> /\ Unseen /\ Quiet

(* Whatever else checks, reviews and diff are asked for, a gate that does  *)
(* not pass refuses.                                                       *)
GatesPass(t) == Exact(t) /\ pull.state = "open"

(* After the gates effect_started is written; the first time exclusively.  *)
Prepare(t) ==
    /\ mergeStep[t] = "gates" /\ GatesPass(t)
    /\ \/ MergeGoesOn(t, "prepared", "effect_started")
       \/ mergeState[t] = "none" /\ MergeGoesOn(t, "idle", "torn")
    /\ UNCHANGED <<evidence, owed, stops>> /\ Unseen /\ Quiet

(* Wrong: the PUT would not name the commit.                               *)
MergeHeadAny(t) == 0
MergeHead(t) == Audited[t]

(* The last read finds the pull request merged, closed or not mergeable.   *)
FinalReadSettles(t) ==
    /\ mergeStep[t] = "prepared" /\ Exact(t)
    /\ Settles(t, IF pull.state = "merged" THEN "bound" ELSE "reconciled_unmerged")
    /\ UNCHANGED <<evidence, stops>> /\ Unseen /\ Quiet

(* Or as it should be: the one PUT is sent.                                *)
Put(t) ==
    /\ mergeStep[t] = "prepared" /\ Exact(t) /\ pull.state = "open"
    /\ MergeGoesOn(t, "sent", mergeState[t])
    /\ owed' = [owed EXCEPT ![t] = TRUE]
    /\ Send("merge", MergeHead(t), t)
    /\ UNCHANGED <<evidence, stops>> /\ Unseen

(* GitHub says that it is merged, or that it is not.                       *)
PutAnswered(t) ==
    /\ mergeStep[t] = "sent" /\ reply[t] # "none"
    /\ Settles(t, IF reply[t] = "ok" THEN "bound" ELSE "reconciled_unmerged")
    /\ HangUp(t)
    /\ UNCHANGED <<evidence, stops>> /\ Unseen

(* gh fails or times out, whatever becomes of the request.                 *)
PutUnknown(t) ==
    /\ mergeStep[t] = "sent"
    /\ MergeGoesOn(t, "idle", "unknown")
    /\ HangUp(t)
    /\ UNCHANGED <<evidence, owed, stops>> /\ Unseen

(* Gates that do not pass, or drift, end the execution with its state.     *)
MergeRefused(t) ==
    /\ \/ mergeStep[t] = "gates"
       \/ mergeStep[t] \in {"reconciling", "prepared"} /\ ~Exact(t)
    /\ MergeGoesOn(t, "idle", mergeState[t])
    /\ UNCHANGED <<evidence, owed, stops>> /\ Unseen /\ Quiet

(* Killed, a failed read, or a state that could not be written; the lock   *)
(* goes with the process.                                                  *)
MergeStops(t) ==
    /\ mergeStep[t] # "idle" /\ stops < MaxStops
    /\ stops' = stops + 1
    /\ MergeGoesOn(t, "idle", mergeState[t])
    /\ HangUp(t)
    /\ UNCHANGED <<evidence, owed>> /\ Unseen

MergeExecution(t) ==
    \/ MergeBegin(t) \/ Reconcile(t) \/ Prepare(t) \/ FinalReadSettles(t)
    \/ Put(t) \/ PutAnswered(t) \/ PutUnknown(t) \/ MergeRefused(t) \/ MergeStops(t)

(* Who is told merge_reconciliation_required calls again, and every call   *)
(* that is not cut short runs to its end.                                  *)
MergeFairness ==
    \A t \in Task :
        /\ WF_mergeVars(Pending(t) /\ MergeBegin(t))
        /\ WF_mergeVars(Reconcile(t) \/ MergeRefused(t))
        /\ WF_mergeVars(FinalReadSettles(t) \/ Put(t))
        /\ WF_mergeVars(PutAnswered(t) \/ PutUnknown(t))
=============================================================================
