------------------------- MODULE PullRequestLifecycle -------------------------
(***************************************************************************)
(* One issue-to-pull-request seam (github_pr_lifecycle.py, publish and     *)
(* repair; observe changes nothing): commit, record the commit, push,      *)
(* record the creation, create the pull request, bind it.  An execution    *)
(* that meets what an earlier one recorded only goes on where GitHub shows *)
(* what the record says.  The holder of the WorkGraph claim is taken to    *)
(* run one execution at a time: the code has no lock.                      *)
(***************************************************************************)
EXTENDS GithubRemote

VARIABLES
    leased,   \* the WorkGraph claim that the request names is active
    dirty,    \* the worktree has allowed changes that are not committed
    local,    \* the commit that the worktree's head branch is at
    prState,  \* the state file: its status and commit
    pubStep,  \* where the execution is
    pubMode,  \* the mode of its request
    pubHead,  \* the commit it will bind
    posts     \* history: how often a creation was requested

publishVars == <<leased, dirty, local, prState, pubStep, pubMode, pubHead, posts>>

PrStatus == {"none", "torn", "push_started", "pr_create_started", "unknown", "bound"}
Record(status, head) == [status |-> status, head |-> head]

PublishTypeOK ==
    /\ leased \in BOOLEAN /\ dirty \in BOOLEAN
    /\ local \in Commit /\ posts \in Nat
    /\ prState \in [status : PrStatus, head : Commit]
    /\ pubStep \in {"idle", "looking", "committing", "marking", "pushing", "posting"}
    /\ pubMode \in {"publish", "repair"}
    /\ pubHead \in Commit

PublishInit ==
    /\ leased = TRUE /\ dirty = TRUE /\ local = 0 /\ prState = Record("none", 0)
    /\ pubStep = "idle" /\ pubMode = "publish" /\ pubHead = 0 /\ posts = 0

GoesOn(step, head) == pubStep' = step /\ pubHead' = head /\ UNCHANGED pubMode
Ends == pubStep' = "idle" /\ pubHead' = 0 /\ pubMode' = "publish"

-----------------------------------------------------------------------------
(* The Worker that edits the worktree, and the claim.                      *)

Edit ==
    /\ ~dirty /\ local < MaxCommits /\ dirty' = TRUE
    /\ UNCHANGED <<leased, local, prState, pubStep, pubMode, pubHead, posts>>
    /\ Unseen /\ Quiet

ClaimEnds ==
    /\ leased /\ leased' = FALSE
    /\ UNCHANGED <<dirty, local, prState, pubStep, pubMode, pubHead, posts>>
    /\ Unseen /\ Quiet

-----------------------------------------------------------------------------
(* One execution.                                                          *)

(* The claim is looked at once, here.                                      *)
PublishBegin(mode) ==
    /\ pubStep = "idle" /\ leased /\ prState.status # "torn"
    /\ pubStep' = "looking" /\ pubMode' = mode
    /\ UNCHANGED <<leased, dirty, local, prState, pubHead, posts>>
    /\ Unseen /\ Quiet

(* The one pull request that is listed is at the commit expected of it.    *)
HeadKnown(head) == opened = 1 /\ pull.head = head

(* The heads it may be expected at: without a record the request names one.*)
KnownHeads == IF prState.status = "none" THEN Commit ELSE {prState.head}

Binds(head) ==
    /\ prState' = Record("bound", head)
    /\ Ends
    /\ UNCHANGED <<leased, dirty, local, posts>> /\ Unseen

LookBinds ==
    /\ pubStep = "looking"
    /\ pubMode = "publish" \/ prState.status = "push_started"
    /\ \E head \in KnownHeads : HeadKnown(head) /\ Binds(head)
    /\ Quiet

(* Nothing is recorded and nothing listed, or a repair of what is listed.  *)
LookFresh ==
    /\ pubStep = "looking"
    /\ \/ opened = 0 /\ prState.status = "none"
       \/ /\ pubMode = "repair" /\ prState.status # "push_started"
          /\ \E head \in KnownHeads : HeadKnown(head)
    /\ GoesOn("committing", 0)
    /\ UNCHANGED <<leased, dirty, local, prState, posts>> /\ Unseen /\ Quiet

(* Wrong: a recorded creation would be started again.                      *)
CreationOpenAlways == prState.status # "none"

(* A recorded push goes on to the creation, any later record does not.     *)
CreationOpen == prState.status = "push_started"

(* Write pr_create_started and send the one POST.                          *)
Posts(head) ==
    /\ prState' = Record("pr_create_started", head)
    /\ posts' = posts + 1
    /\ GoesOn("posting", head)
    /\ Send("open", 0, publisher)
    /\ UNCHANGED <<leased, dirty, local>> /\ Unseen

(* The push is reconciled when the remote branch is at the recorded commit.*)
LookCreates ==
    /\ pubStep = "looking" /\ opened = 0
    /\ CreationOpen /\ branch = prState.head
    /\ Posts(prState.head)

CommitChanges ==
    /\ pubStep = "committing" /\ dirty
    /\ dirty' = FALSE /\ local' = local + 1
    /\ GoesOn("marking", local + 1)
    /\ UNCHANGED <<leased, prState, posts>> /\ Unseen /\ Quiet

PushStarted == Record("push_started", pubHead)

(* Record the commit, the first time exclusively, and push it.             *)
PushHead ==
    /\ pubStep = "marking"
    /\ \/ /\ prState' = PushStarted
          /\ GoesOn("pushing", pubHead)
          /\ Send("push", pubHead, publisher)
       \/ /\ prState.status = "none" /\ prState' = Record("torn", 0)
          /\ Ends /\ Quiet
    /\ UNCHANGED <<leased, dirty, local, posts>> /\ Unseen

PushedBinds ==
    /\ pubStep = "pushing" /\ reply[publisher] = "ok" /\ HeadKnown(pubHead)
    /\ Binds(pubHead) /\ HangUp(publisher)

PushedCreates ==
    /\ pubStep = "pushing" /\ reply[publisher] = "ok" /\ opened = 0
    /\ Posts(pubHead)

(* The created pull request has to be at the recorded commit.              *)
PostAnswered ==
    /\ pubStep = "posting" /\ reply[publisher] = "ok" /\ pull.head = pubHead
    /\ Binds(pubHead) /\ HangUp(publisher)

PostUnknown ==
    /\ pubStep = "posting"
    /\ prState' = Record("unknown", pubHead)
    /\ Ends /\ HangUp(publisher)
    /\ UNCHANGED <<leased, dirty, local, posts>> /\ Unseen

(* Killed, a failed command or read, or a refusal that changes nothing.    *)
PublishStops ==
    /\ pubStep # "idle"
    /\ Ends /\ HangUp(publisher)
    /\ UNCHANGED <<leased, dirty, local, prState, posts>> /\ Unseen

PublishExecution ==
    \/ LookBinds \/ LookFresh \/ LookCreates \/ CommitChanges \/ PushHead
    \/ PushedBinds \/ PushedCreates \/ PostAnswered \/ PostUnknown \/ PublishStops
=============================================================================
