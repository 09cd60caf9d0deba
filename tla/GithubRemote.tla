---------------------------- MODULE GithubRemote ----------------------------
(***************************************************************************)
(* GitHub as the effect adapters meet it: requests that change something   *)
(* are on their way for a while, take effect or are refused, and are       *)
(* answered only to a caller that still waits.  A request whose caller was *)
(* killed or timed out may take effect at any later time, or never.        *)
(* Commits of the one head branch are numbered in the order they are made. *)
(***************************************************************************)
EXTENDS Naturals, FiniteSets

CONSTANTS
    Poster,      \* executions of the issue effect
    publisher,   \* the caller of the pull-request lifecycle
    Task,        \* tasks whose guarded merge may run
    Nobody,      \* the caller of a request that no one waits for
    MaxCommits,  \* bound: commits of the worktree
    MaxOpened    \* bound: pull requests ever opened for the head branch

Caller == Poster \cup {publisher} \cup Task
ASSUME RemoteAssumption ==
    /\ Nobody \notin Caller
    /\ publisher \notin Poster /\ publisher \notin Task /\ Poster \cap Task = {}
    /\ MaxCommits \in Nat \ {0} /\ MaxOpened \in Nat \ {0}

VARIABLES
    issues,   \* how many issues carry the marker
    branch,   \* the commit the remote head branch is at, 0 when there is none
    opened,   \* how many pull requests were ever opened for the branch
    pull,     \* the last of them
    wire,     \* requests on their way
    reply     \* what each caller was answered last

remoteVars == <<issues, branch, opened, pull, wire, reply>>

Commit == 0 .. MaxCommits
Request == [op : {"issue", "push", "open", "merge"}, sha : Commit, by : Caller \cup {Nobody}]

(* drifted: the base is no longer the one the requests bind; byHand: it    *)
(* was merged by somebody else than a guarded merge.                       *)
PullRequest ==
    [state : {"absent", "open", "closed", "merged"}, head : Commit,
     drifted : BOOLEAN, byHand : BOOLEAN]
NoPull == [state |-> "absent", head |-> 0, drifted |-> FALSE, byHand |-> FALSE]

RemoteTypeOK ==
    /\ issues \in Nat /\ branch \in Commit /\ opened \in 0 .. MaxOpened
    /\ pull \in PullRequest
    /\ wire \in SUBSET Request
    /\ reply \in [Caller -> {"none", "ok", "refused"}]

RemoteInit ==
    /\ issues = 0 /\ branch = 0 /\ opened = 0 /\ pull = NoPull
    /\ wire = {} /\ reply = [c \in Caller |-> "none"]

-----------------------------------------------------------------------------
(* What a caller does to its connection.                                   *)

Send(op, sha, c) ==
    /\ wire' = wire \cup {[op |-> op, sha |-> sha, by |-> c]}
    /\ reply' = [reply EXCEPT ![c] = "none"]

(* The process ends, or gh times out: what it sent stays on its way.       *)
HangUp(c) ==
    /\ wire' = {IF r.by = c THEN [r EXCEPT !.by = Nobody] ELSE r : r \in wire}
    /\ reply' = [reply EXCEPT ![c] = "none"]

Quiet == UNCHANGED <<wire, reply>>

(* What a caller sees is there until somebody changes it.                  *)
Unseen == UNCHANGED <<issues, branch, opened, pull>>

-----------------------------------------------------------------------------
(* What GitHub does with a request.                                        *)

Answer(r, what) ==
    /\ wire' = wire \ {r}
    /\ reply' = IF r.by = Nobody THEN reply ELSE [reply EXCEPT ![r.by] = what]

IssueCreated(r) ==
    /\ r.op = "issue"
    /\ issues' = issues + 1
    /\ UNCHANGED <<branch, opened, pull>>

(* A push without force moves the branch forward only.  The head of an     *)
(* open pull request follows it.                                           *)
BranchPushed(r) ==
    /\ r.op = "push" /\ branch <= r.sha
    /\ branch' = r.sha
    /\ pull' = IF pull.state = "open" THEN [pull EXCEPT !.head = r.sha] ELSE pull
    /\ UNCHANGED <<issues, opened>>

(* There is at most one open pull request of a branch, with something new. *)
PullOpened(r) ==
    /\ r.op = "open" /\ branch > 0 /\ opened < MaxOpened
    /\ pull.state \in {"absent", "closed"}
    /\ pull' = [NoPull EXCEPT !.state = "open", !.head = branch]
    /\ opened' = opened + 1
    /\ UNCHANGED <<issues, branch>>

(* A merge that names a commit, as opposed to 0, is of that head only.     *)
PullMerged(r) ==
    /\ r.op = "merge" /\ pull.state = "open" /\ r.sha \in {0, pull.head}
    /\ pull' = [pull EXCEPT !.state = "merged"]
    /\ UNCHANGED <<issues, branch, opened>>

Deliver(r) ==
    /\ Answer(r, "ok")
    /\ IssueCreated(r) \/ BranchPushed(r) \/ PullOpened(r) \/ PullMerged(r)

Refuse(r) == Answer(r, "refused") /\ Unseen

(* Others close or merge the pull request, or move its base.               *)
Meddle ==
    /\ pull.state = "open"
    /\ \/ pull' = [pull EXCEPT !.state = "closed"]
       \/ pull' = [pull EXCEPT !.state = "merged", !.byHand = TRUE]
       \/ ~pull.drifted /\ pull' = [pull EXCEPT !.drifted = TRUE]
    /\ UNCHANGED <<issues, branch, opened>> /\ Quiet
=============================================================================
