----------------------------- MODULE IssueEffect -----------------------------
(***************************************************************************)
(* One idempotent issue effect (github_issue_live.py): observe by marker,  *)
(* write effect_started before the one POST, and after that only observe.  *)
(* Executions share a state file and no lock.                              *)
(***************************************************************************)
EXTENDS GithubRemote

VARIABLES
    issueState,   \* status of the state file
    issueStep,    \* where each execution is
    issuePrior    \* the status each execution has loaded

issueVars == <<issueState, issueStep, issuePrior>>

(* A file that was created exclusively and not written is "torn": every    *)
(* later execution refuses it.                                             *)
IssueTypeOK ==
    /\ issueState \in {"none", "torn", "effect_started", "unknown", "bound"}
    /\ issueStep \in [Poster -> {"idle", "observing", "posting"}]
    /\ issuePrior \in [Poster -> {"none", "effect_started", "unknown"}]

IssueInit ==
    /\ issueState = "none"
    /\ issueStep = [c \in Poster |-> "idle"]
    /\ issuePrior = [c \in Poster |-> "none"]

IssueEnds(c) ==
    /\ issueStep' = [issueStep EXCEPT ![c] = "idle"]
    /\ issuePrior' = [issuePrior EXCEPT ![c] = "none"]

(* The state is loaded before the issues are searched.  A bound issue is   *)
(* only looked for again, which changes nothing.                           *)
IssueBegin(c) ==
    /\ issueStep[c] = "idle" /\ issueState \notin {"torn", "bound"}
    /\ issueStep' = [issueStep EXCEPT ![c] = "observing"]
    /\ issuePrior' = [issuePrior EXCEPT ![c] = issueState]
    /\ UNCHANGED issueState /\ Unseen /\ Quiet

(* Wrong: an unknown outcome would be tried again.                         *)
IssueFreshRetried(c) ==
    \/ issuePrior[c] = "none" /\ issueState = "none"
    \/ issuePrior[c] = "unknown"

(* Nothing was loaded, and the exclusive creation of the file succeeds.    *)
IssueFresh(c) == issuePrior[c] = "none" /\ issueState = "none"

(* The search has found the one issue.  Without a prior state the file is  *)
(* created, which fails when another execution has created it since.       *)
IssueFound(c) ==
    /\ issueStep[c] = "observing" /\ issues = 1
    /\ issuePrior[c] = "none" => issueState = "none"
    /\ issueState' = "bound"
    /\ IssueEnds(c) /\ Unseen /\ Quiet

(* The search found nothing, which it may while an issue is not indexed.   *)
IssueCreate(c) ==
    /\ issueStep[c] = "observing" /\ IssueFresh(c)
    /\ \/ /\ issueState' = "effect_started"
          /\ issueStep' = [issueStep EXCEPT ![c] = "posting"]
          /\ UNCHANGED issuePrior
          /\ Send("issue", 0, c)
       \/ issueState' = "torn" /\ IssueEnds(c) /\ Quiet
    /\ Unseen

IssueAnswered(c) ==
    /\ issueStep[c] = "posting" /\ reply[c] = "ok"
    /\ issueState' = "bound"
    /\ IssueEnds(c) /\ HangUp(c) /\ Unseen

(* The POST failed, timed out, or its answer could not be read.            *)
IssueUnknown(c) ==
    /\ issueStep[c] = "posting"
    /\ issueState' = "unknown"
    /\ IssueEnds(c) /\ HangUp(c) /\ Unseen

(* Killed, a failed read, a refusal, or a state that could not be written. *)
IssueStops(c) ==
    /\ issueStep[c] # "idle"
    /\ UNCHANGED issueState
    /\ IssueEnds(c) /\ HangUp(c) /\ Unseen

IssueExecution(c) ==
    \/ IssueBegin(c) \/ IssueFound(c) \/ IssueCreate(c)
    \/ IssueAnswered(c) \/ IssueUnknown(c) \/ IssueStops(c)
=============================================================================
