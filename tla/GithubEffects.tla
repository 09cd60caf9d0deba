---------------------------- MODULE GithubEffects ----------------------------
(***************************************************************************)
(* The three effect adapters on one GitHub: an issue is created, a pull    *)
(* request for it is published and repaired, and its head is merged.       *)
(* Each adapter has its own state files; what they have in common is what  *)
(* they find on GitHub.                                                    *)
(***************************************************************************)
EXTENDS IssueEffect, PullRequestLifecycle, GuardedMerge

vars == <<remoteVars, issueVars, publishVars, mergeVars>>

TypeOK == RemoteTypeOK /\ IssueTypeOK /\ PublishTypeOK /\ MergeTypeOK

Init == RemoteInit /\ IssueInit /\ PublishInit /\ MergeInit

IssueStep ==
    /\ \E c \in Poster : IssueExecution(c)
    /\ UNCHANGED <<publishVars, mergeVars>>

(* The request of a publication names the issue that was bound.  That no    *)
(* execution of the issue effect is still running then loses nothing: it   *)
(* shares nothing with a publication.                                      *)
IssueDone == issueState = "bound" /\ \A c \in Poster : issueStep[c] = "idle"

PublishStep ==
    /\ \/ IssueDone /\ \E mode \in {"publish", "repair"} : PublishBegin(mode)
       \/ PublishExecution
       \/ Edit
       \/ ClaimEnds
    /\ UNCHANGED <<issueVars, mergeVars>>

MergeStep ==
    /\ \E t \in Task : Audit(t) \/ BoardMovesOn(t) \/ MergeExecution(t)
    /\ UNCHANGED <<issueVars, publishVars>>

RemoteStep ==
    /\ Meddle \/ \E r \in wire : Deliver(r) \/ Refuse(r)
    /\ UNCHANGED <<issueVars, publishVars, mergeVars>>

Next == IssueStep \/ PublishStep \/ MergeStep \/ RemoteStep
Spec == Init /\ [][Next]_vars
LiveSpec == Spec /\ MergeFairness

-----------------------------------------------------------------------------
(* Properties.                                                             *)

(* However often the issue effect is executed, by how many at once, and    *)
(* whatever happens to its POST and its answer, one issue is created.      *)
IssueCreatedOnce == issues <= 1

(* However often a publication is executed, and wherever it was cut short, *)
(* the pull request is asked for once; nothing is pushed, not even by a    *)
(* push that was given up, that the state file does not know of; and what  *)
(* is bound is what GitHub has.                                            *)
PublishedAsRecorded ==
    /\ posts <= 1
    /\ branch <= prState.head
    /\ prState.status = "bound" => opened = 1 /\ pull.head = prState.head

(* A merge is bound only if it happened, to the audited head; and nothing  *)
(* is merged by a task that was not audited at exactly that head, although *)
(* repairs push to the branch up to and after the PUT.                     *)
MergedAsAudited ==
    /\ \A t \in Task : mergeState[t] = "bound" =>
          pull.state = "merged" /\ pull.head = Audited[t]
    /\ pull.state = "merged" /\ ~pull.byHand =>
          \E t \in Task : evidence[t] # "none" /\ pull.head = Audited[t]

(* No second PUT is sent while nobody has established what came of the     *)
(* first, wherever the first execution was cut short.                      *)
UnknownMergeNotRetried ==
    [][\A t \in Task :
          mergeStep'[t] = "sent" /\ mergeStep[t] # "sent" => ~owed[t]]_vars

(* A merge that was started comes to a known end, if who asked for it asks *)
(* again; unless the pull request is no longer the audited one.            *)
PendingMergeSettles ==
    \A t \in Task :
        mergeState[t] \in {"effect_started", "unknown"} ~>
            mergeState[t] \in {"reconciled_unmerged", "bound"} \/ ~Exact(t)
=============================================================================
