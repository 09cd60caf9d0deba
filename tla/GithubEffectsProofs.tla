------------------------- MODULE GithubEffectsProofs -------------------------
(***************************************************************************)
(* Proofs about GithubEffects, for any executions, tasks and bounds: types,*)
(* then one inductive invariant for each adapter.  What an adapter shares  *)
(* with the others is the wire, so the first lemmas say what a step of one *)
(* may do to the requests of another.                                      *)
(***************************************************************************)
EXTENDS GithubEffects, TLAPS

(* There is room for one more commit while something is not committed.     *)
TypeInv == TypeOK /\ (dirty => local < MaxCommits)

-----------------------------------------------------------------------------
(* Requests.                                                               *)

(* At most one request of a kind is on its way.                            *)
OneOf(op) == \A r, s \in wire : r.op = op /\ s.op = op => r = s

(* A step adds no request of a kind: what is on its way was so before, or  *)
(* has only lost its caller.                                               *)
Carried(op) ==
    \A x \in wire' : x.op = op =>
        \E r \in wire : r.op = op /\ r.sha = x.sha /\ x.by \in {r.by, Nobody}

(* A caller that hangs up leaves every request on its way.                 *)
LEMMA HangUpCarries ==
    ASSUME NEW c \in Caller, NEW op, wire \in SUBSET Request, HangUp(c)
    PROVE  Carried(op) /\ (OneOf(op) => OneOf(op)')
<1> DEFINE hung(r) == IF r.by = c THEN [r EXCEPT !.by = Nobody] ELSE r
<1>1. \A x \in wire' : \E r \in wire : x = hung(r)
  BY DEF HangUp
<1>2. \A r \in wire : /\ hung(r).op = r.op /\ hung(r).sha = r.sha
                      /\ hung(r).by \in {r.by, Nobody}
  BY DEF Request
<1>3. Carried(op)
  <2> SUFFICES ASSUME NEW x \in wire', x.op = op
               PROVE  \E r \in wire : r.op = op /\ r.sha = x.sha /\ x.by \in {r.by, Nobody}
    BY DEF Carried
  <2>1. PICK r \in wire : x = hung(r)
    BY <1>1
  <2> QED  BY <1>2, <2>1
<1>4. ASSUME OneOf(op), NEW x \in wire', NEW y \in wire', x.op = op, y.op = op
      PROVE  x = y
  <2>1. PICK r \in wire : x = hung(r)
    BY <1>1
  <2>2. PICK s \in wire : y = hung(s)
    BY <1>1
  <2>3. r.op = op /\ s.op = op
    BY <1>2, <1>4, <2>1, <2>2
  <2>4. r = s
    BY <1>4, <2>3 DEF OneOf
  <2> QED  BY <2>1, <2>2, <2>4
<1> QED  BY <1>3, <1>4 DEF OneOf

(* So does a step that leaves the wire alone, or takes a request from it.  *)
LEMMA FewerCarries ==
    ASSUME NEW op, wire' \subseteq wire
    PROVE  Carried(op) /\ (OneOf(op) => OneOf(op)')
BY DEF Carried, OneOf

(* And the sending of a request of another kind.                           *)
LEMMA SendCarries ==
    ASSUME NEW c \in Caller, NEW op, NEW other, NEW sha, op # other, Send(other, sha, c)
    PROVE  Carried(op) /\ (OneOf(op) => OneOf(op)')
BY DEF Send, Carried, OneOf

(* The wire stays well typed.                                              *)
LEMMA HangUpTyped ==
    ASSUME NEW c \in Caller, RemoteTypeOK, HangUp(c)
    PROVE  wire' \in SUBSET Request /\ reply' \in [Caller -> {"none", "ok", "refused"}]
BY DEF HangUp, RemoteTypeOK, Request

LEMMA SendTyped ==
    ASSUME NEW c \in Caller, NEW op \in {"issue", "push", "open", "merge"},
           NEW sha \in Commit, RemoteTypeOK, Send(op, sha, c)
    PROVE  wire' \in SUBSET Request /\ reply' \in [Caller -> {"none", "ok", "refused"}]
BY DEF Send, RemoteTypeOK, Request

-----------------------------------------------------------------------------
(* Types.                                                                  *)

LEMMA InitTyped == Init => TypeInv
<1> SUFFICES ASSUME Init PROVE TypeInv
  OBVIOUS
<1> USE DEF Init
<1>1. RemoteTypeOK
  BY RemoteAssumption DEF RemoteInit, RemoteTypeOK, Commit, NoPull, PullRequest
<1>2. IssueTypeOK
  BY DEF IssueInit, IssueTypeOK
<1>3. PublishTypeOK /\ local < MaxCommits
  BY RemoteAssumption DEF PublishInit, PublishTypeOK, Record, PrStatus, Commit
<1>4. MergeTypeOK
  BY MergeAssumption DEF MergeInit, MergeTypeOK
<1> QED  BY <1>1, <1>2, <1>3, <1>4 DEF TypeInv, TypeOK

LEMMA IssueTyped ==
    ASSUME TypeInv, NEW c \in Poster, IssueExecution(c), UNCHANGED <<publishVars, mergeVars>>
    PROVE  TypeInv'
<1> USE DEF TypeInv, TypeOK
<1>1. c \in Caller
  BY DEF Caller
<1>2. PublishTypeOK' /\ MergeTypeOK' /\ (dirty' => local' < MaxCommits)
  BY DEF PublishTypeOK, MergeTypeOK, publishVars, mergeVars
<1>3. CASE IssueBegin(c)
  BY <1>2, <1>3 DEF IssueBegin, IssueTypeOK, RemoteTypeOK, Unseen, Quiet
<1>4. CASE IssueFound(c)
  BY <1>2, <1>4 DEF IssueFound, IssueEnds, IssueTypeOK, RemoteTypeOK, Unseen, Quiet
<1>5. CASE IssueCreate(c)
  <2>1. 0 \in Commit
    BY RemoteAssumption DEF Commit
  <2>2. CASE Send("issue", 0, c)
    BY <1>1, <1>2, <1>5, <2>1, <2>2, SendTyped
       DEF IssueCreate, IssueEnds, IssueTypeOK, RemoteTypeOK, Unseen, Quiet
  <2>3. CASE Quiet
    BY <1>2, <1>5, <2>3 DEF IssueCreate, IssueEnds, IssueTypeOK, RemoteTypeOK, Unseen, Quiet
  <2> QED  BY <1>5, <2>2, <2>3 DEF IssueCreate
<1>6. CASE IssueAnswered(c) \/ IssueUnknown(c) \/ IssueStops(c)
  <2>1. HangUp(c) /\ Unseen /\ IssueEnds(c)
    BY <1>6 DEF IssueAnswered, IssueUnknown, IssueStops
  <2> QED
    BY <1>1, <1>2, <1>6, <2>1, HangUpTyped
       DEF IssueAnswered, IssueUnknown, IssueStops, IssueEnds, IssueTypeOK, RemoteTypeOK, Unseen
<1> QED  BY <1>3, <1>4, <1>5, <1>6 DEF IssueExecution

(* What a step of the publication leaves to prove of its types.            *)
LEMMA PublishTyped ==
    ASSUME TypeInv, PublishStep
    PROVE  TypeInv'
<1> USE DEF TypeInv, TypeOK
<1>1. publisher \in Caller /\ 0 \in Commit
  BY RemoteAssumption DEF Caller, Commit
<1>2. IssueTypeOK' /\ MergeTypeOK'
  BY DEF PublishStep, IssueTypeOK, MergeTypeOK, issueVars, mergeVars
<1>3. ASSUME Unseen, Quiet \/ HangUp(publisher) \/ Send("open", 0, publisher)
                        \/ Send("push", pubHead, publisher)
      PROVE  RemoteTypeOK'
  <2>1. pubHead \in Commit
    BY DEF PublishTypeOK
  <2>2. wire' \in SUBSET Request /\ reply' \in [Caller -> {"none", "ok", "refused"}]
    BY <1>1, <1>3, <2>1, HangUpTyped, SendTyped DEF Quiet, RemoteTypeOK
  <2> QED  BY <1>3, <2>2 DEF RemoteTypeOK, Unseen
<1>4. CASE \E mode \in {"publish", "repair"} : PublishBegin(mode)
  BY <1>2, <1>3, <1>4 DEF PublishBegin, PublishTypeOK
<1>5. CASE Edit \/ ClaimEnds
  <2>1. RemoteTypeOK'
    BY <1>3, <1>5 DEF Edit, ClaimEnds
  <2>2. PublishTypeOK'
    BY <1>5 DEF Edit, ClaimEnds, PublishTypeOK
  <2>3. dirty' => local' < MaxCommits
    BY <1>5 DEF Edit, ClaimEnds
  <2> QED  BY <1>2, <2>1, <2>2, <2>3
<1>6. ASSUME NEW head \in Commit, Binds(head)
      PROVE  PublishTypeOK' /\ (dirty' => local' < MaxCommits)
  BY <1>1, <1>6 DEF Binds, Ends, Record, PrStatus, PublishTypeOK
<1>7. ASSUME NEW head \in Commit, Posts(head)
      PROVE  PublishTypeOK' /\ (dirty' => local' < MaxCommits)
  BY <1>1, <1>7 DEF Posts, GoesOn, Record, PrStatus, PublishTypeOK
<1>8. prState.head \in Commit /\ pubHead \in Commit
  BY DEF PublishTypeOK
<1>9. CASE LookBinds
  BY <1>2, <1>3, <1>6, <1>8, <1>9 DEF LookBinds, Binds, KnownHeads
<1>10. CASE LookFresh
  BY <1>1, <1>2, <1>3, <1>10 DEF LookFresh, GoesOn, PublishTypeOK
<1>11. CASE LookCreates
  BY <1>2, <1>3, <1>7, <1>8, <1>11 DEF LookCreates, Posts
<1>12. CASE CommitChanges
  <2>1. local + 1 \in Commit
    BY <1>12, RemoteAssumption DEF CommitChanges, PublishTypeOK, Commit
  <2>2. RemoteTypeOK'
    BY <1>3, <1>12 DEF CommitChanges
  <2>3. PublishTypeOK' /\ ~dirty'
    BY <1>12, <2>1 DEF CommitChanges, GoesOn, PublishTypeOK
  <2> QED  BY <1>2, <2>2, <2>3
<1>13. CASE PushHead
  <2>1. UNCHANGED <<leased, dirty, local, posts>> /\ Unseen
    BY <1>13 DEF PushHead
  <2>2. CASE /\ prState' = PushStarted
             /\ GoesOn("pushing", pubHead)
             /\ Send("push", pubHead, publisher)
    BY <1>2, <1>3, <1>8, <2>1, <2>2 DEF PushStarted, GoesOn, Record, PrStatus, PublishTypeOK
  <2>3. CASE prState' = Record("torn", 0) /\ Ends /\ Quiet
    BY <1>1, <1>2, <1>3, <2>1, <2>3 DEF Ends, Record, PrStatus, PublishTypeOK
  <2> QED  BY <1>13, <2>2, <2>3 DEF PushHead
<1>14. CASE PushedBinds \/ PostAnswered
  BY <1>2, <1>3, <1>6, <1>8, <1>14 DEF PushedBinds, PostAnswered, Binds
<1>15. CASE PushedCreates
  BY <1>2, <1>3, <1>7, <1>8, <1>15 DEF PushedCreates, Posts
<1>16. CASE PostUnknown
  BY <1>1, <1>2, <1>3, <1>8, <1>16 DEF PostUnknown, Ends, Record, PrStatus, PublishTypeOK
<1>17. CASE PublishStops
  BY <1>1, <1>2, <1>3, <1>17 DEF PublishStops, Ends, PublishTypeOK
<1> QED
  BY <1>4, <1>5, <1>9, <1>10, <1>11, <1>12, <1>13, <1>14, <1>15, <1>16, <1>17
     DEF PublishStep, PublishExecution

LEMMA MergeTyped ==
    ASSUME TypeInv, MergeStep
    PROVE  TypeInv'
<1> USE DEF TypeInv, TypeOK
<1>1. IssueTypeOK' /\ PublishTypeOK' /\ (dirty' => local' < MaxCommits)
  BY DEF MergeStep, IssueTypeOK, PublishTypeOK, issueVars, publishVars
<1>2. PICK t \in Task : Audit(t) \/ BoardMovesOn(t) \/ MergeExecution(t)
  BY DEF MergeStep
<1>3. t \in Caller /\ Audited[t] \in Commit
  BY MergeAssumption DEF Caller
<1>4. ASSUME Unseen, Quiet \/ HangUp(t) \/ Send("merge", MergeHead(t), t)
      PROVE  RemoteTypeOK'
  <2>1. wire' \in SUBSET Request /\ reply' \in [Caller -> {"none", "ok", "refused"}]
    BY <1>3, <1>4, HangUpTyped, SendTyped DEF Quiet, RemoteTypeOK, MergeHead
  <2> QED  BY <1>4, <2>1 DEF RemoteTypeOK, Unseen
<1>5. CASE Audit(t) \/ BoardMovesOn(t)
  BY <1>1, <1>4, <1>5 DEF Audit, BoardMovesOn, MergeTypeOK
<1>6. ASSUME NEW s \in {"idle", "reconciling", "gates", "prepared", "sent"},
             NEW status \in {"none", "torn", "effect_started", "unknown",
                             "reconciled_unmerged", "bound"},
             MergeGoesOn(t, s, status)
      PROVE  /\ mergeState' \in [Task -> {"none", "torn", "effect_started", "unknown",
                                         "reconciled_unmerged", "bound"}]
             /\ mergeStep' \in [Task -> {"idle", "reconciling", "gates", "prepared", "sent"}]
  BY <1>6 DEF MergeGoesOn, MergeTypeOK
<1>7. mergeState[t] \in {"none", "torn", "effect_started", "unknown",
                        "reconciled_unmerged", "bound"}
  BY DEF MergeTypeOK
<1>8. CASE MergeBegin(t) \/ MergeRefused(t)
  <2>1. MergeGoesOn(t, "reconciling", mergeState[t]) \/ MergeGoesOn(t, "gates", mergeState[t])
        \/ MergeGoesOn(t, "idle", mergeState[t])
    BY <1>8 DEF MergeBegin, MergeRefused
  <2> QED  BY <1>1, <1>4, <1>6, <1>7, <1>8, <2>1 DEF MergeBegin, MergeRefused, MergeTypeOK
<1>9. CASE Reconcile(t) \/ FinalReadSettles(t)
  <2>1. PICK status \in {"bound", "reconciled_unmerged"} : Settles(t, status)
    BY <1>9 DEF Reconcile, FinalReadSettles
  <2> QED
    BY <1>1, <1>4, <1>6, <1>9, <2>1 DEF Reconcile, FinalReadSettles, Settles, MergeTypeOK
<1>10. CASE Prepare(t)
  BY <1>1, <1>4, <1>6, <1>10 DEF Prepare, MergeTypeOK
<1>11. CASE Put(t)
  BY <1>1, <1>4, <1>6, <1>7, <1>11 DEF Put, MergeTypeOK
<1>12. CASE PutAnswered(t)
  <2>1. PICK status \in {"bound", "reconciled_unmerged"} : Settles(t, status)
    BY <1>12 DEF PutAnswered
  <2> QED  BY <1>1, <1>4, <1>6, <1>12, <2>1 DEF PutAnswered, Settles, MergeTypeOK
<1>13. CASE PutUnknown(t)
  BY <1>1, <1>4, <1>6, <1>13 DEF PutUnknown, MergeTypeOK
<1>14. CASE MergeStops(t)
  <2>1. stops' \in 0 .. MaxStops
    BY <1>14, MergeAssumption DEF MergeStops, MergeTypeOK
  <2> QED  BY <1>1, <1>4, <1>6, <1>7, <1>14, <2>1 DEF MergeStops, MergeTypeOK
<1> QED
  BY <1>2, <1>5, <1>8, <1>9, <1>10, <1>11, <1>12, <1>13, <1>14 DEF MergeExecution

LEMMA RemoteTyped ==
    ASSUME TypeInv, RemoteStep
    PROVE  TypeInv'
<1> USE DEF TypeInv, TypeOK
<1>1. IssueTypeOK' /\ PublishTypeOK' /\ MergeTypeOK' /\ (dirty' => local' < MaxCommits)
  BY DEF RemoteStep, IssueTypeOK, PublishTypeOK, MergeTypeOK, issueVars, publishVars, mergeVars
<1>2. CASE Meddle
  BY <1>1, <1>2 DEF Meddle, Quiet, RemoteTypeOK, PullRequest
<1>3. ASSUME NEW r \in wire, Deliver(r) \/ Refuse(r)
      PROVE  RemoteTypeOK'
  <2>1. r \in Request
    BY DEF RemoteTypeOK
  <2>2. wire' \in SUBSET Request /\ reply' \in [Caller -> {"none", "ok", "refused"}]
    BY <1>3, <2>1 DEF Deliver, Refuse, Answer, RemoteTypeOK, Request
  <2>3. CASE Refuse(r)
    BY <2>2, <2>3 DEF Refuse, Unseen, RemoteTypeOK
  <2>4. CASE Deliver(r) /\ IssueCreated(r)
    BY <2>2, <2>4 DEF IssueCreated, RemoteTypeOK
  <2>5. CASE Deliver(r) /\ BranchPushed(r)
    BY <2>1, <2>2, <2>5 DEF BranchPushed, RemoteTypeOK, Request, PullRequest
  <2>6. CASE Deliver(r) /\ PullOpened(r)
    <3>1. opened' \in 0 .. MaxOpened
      BY <2>6, RemoteAssumption DEF PullOpened, RemoteTypeOK
    <3>2. pull' \in PullRequest
      BY <2>6 DEF PullOpened, RemoteTypeOK, NoPull, PullRequest
    <3> QED  BY <2>2, <2>6, <3>1, <3>2 DEF PullOpened, RemoteTypeOK
  <2>7. CASE Deliver(r) /\ PullMerged(r)
    BY <2>2, <2>7 DEF PullMerged, RemoteTypeOK, PullRequest
  <2> QED  BY <1>3, <2>3, <2>4, <2>5, <2>6, <2>7 DEF Deliver
<1> QED  BY <1>1, <1>2, <1>3 DEF RemoteStep

LEMMA StepTyped == TypeInv /\ [Next]_vars => TypeInv'
<1> SUFFICES ASSUME TypeInv, [Next]_vars PROVE TypeInv'
  OBVIOUS
<1>1. CASE IssueStep
  BY <1>1, IssueTyped DEF IssueStep
<1>2. CASE PublishStep
  BY <1>2, PublishTyped
<1>3. CASE MergeStep
  BY <1>3, MergeTyped
<1>4. CASE RemoteStep
  BY <1>4, RemoteTyped
<1>5. CASE UNCHANGED vars
  BY <1>5 DEF vars, remoteVars, issueVars, publishVars, mergeVars, TypeInv, TypeOK,
       RemoteTypeOK, IssueTypeOK, PublishTypeOK, MergeTypeOK
<1> QED  BY <1>1, <1>2, <1>3, <1>4, <1>5 DEF Next

(* Every reachable state is well typed.                                    *)
THEOREM TypeCorrect == Spec => []TypeOK
<1>1. Spec => []TypeInv
  BY InitTyped, StepTyped, PTL DEF Spec
<1>2. TypeInv => TypeOK
  BY DEF TypeInv
<1> QED  BY <1>1, <1>2, PTL

-----------------------------------------------------------------------------
(* The issue effect.  While there is no state file nothing was sent, and a *)
(* request on its way is the only one and has not taken effect.            *)

IssueInv ==
    /\ issues <= 1
    /\ OneOf("issue")
    /\ issueState = "none" => issues = 0 /\ \A r \in wire : r.op # "issue"
    /\ \A r \in wire : r.op = "issue" => issues = 0

(* The other adapters send nothing of the kind.                            *)
LEMMA OthersCarryIssues ==
    ASSUME TypeInv, PublishStep \/ MergeStep
    PROVE  Carried("issue") /\ (OneOf("issue") => OneOf("issue")')
<1>1. wire \in SUBSET Request /\ publisher \in Caller /\ Task \subseteq Caller
  BY DEF TypeInv, TypeOK, RemoteTypeOK, Caller
<1>2. \/ Quiet
      \/ HangUp(publisher) \/ \E sha : Send("push", sha, publisher) \/ Send("open", sha, publisher)
      \/ \E t \in Task : HangUp(t) \/ \E sha : Send("merge", sha, t)
  <2>1. CASE PublishStep
    BY <2>1 DEF PublishStep, PublishBegin, Edit, ClaimEnds, PublishExecution, LookBinds, LookFresh,
         LookCreates, CommitChanges, PushHead, PushedBinds, PushedCreates, Posts, PostAnswered,
         PostUnknown, PublishStops
  <2>2. CASE MergeStep
    BY <2>2 DEF MergeStep, Audit, BoardMovesOn, MergeExecution, MergeBegin, Reconcile, Prepare,
         FinalReadSettles, Put, PutAnswered, PutUnknown, MergeRefused, MergeStops
  <2> QED  BY <2>1, <2>2
<1> QED  BY <1>1, <1>2, FewerCarries, HangUpCarries, SendCarries DEF Quiet

LEMMA IssueInvInit == Init => IssueInv
BY DEF Init, IssueInit, RemoteInit, IssueInv, OneOf

LEMMA IssueInvNext == TypeInv /\ IssueInv /\ [Next]_vars => IssueInv'
<1> SUFFICES ASSUME TypeInv, IssueInv, [Next]_vars
             PROVE  IssueInv'
  OBVIOUS
<1>1. wire \in SUBSET Request /\ issues \in Nat
  BY DEF TypeInv, TypeOK, RemoteTypeOK
<1>2. ASSUME Carried("issue"), OneOf("issue") => OneOf("issue")', issues' = issues,
             issueState' = "none" => issueState = "none"
      PROVE  IssueInv'
  BY <1>2 DEF IssueInv, Carried
<1>3. ASSUME NEW c \in Poster, IssueExecution(c)
      PROVE  IssueInv'
  <2>1. c \in Caller /\ issues' = issues
    BY <1>3 DEF Caller, IssueExecution, IssueBegin, IssueFound, IssueCreate, IssueAnswered,
         IssueUnknown, IssueStops, Unseen
  <2>2. CASE Quiet
    <3>1. issueState' = "none" => issueState = "none"
      BY <1>3 DEF IssueExecution, IssueBegin, IssueFound, IssueCreate, IssueAnswered,
           IssueUnknown, IssueStops
    <3> QED  BY <1>2, <2>1, <2>2, <3>1, FewerCarries DEF Quiet
  <2>3. CASE HangUp(c) /\ (IssueAnswered(c) \/ IssueUnknown(c) \/ IssueStops(c))
    <3>1. issueState' = "none" => issueState = "none"
      BY <2>3 DEF IssueAnswered, IssueUnknown, IssueStops
    <3> QED  BY <1>1, <1>2, <2>1, <2>3, <3>1, HangUpCarries
  <2>4. CASE IssueCreate(c) /\ Send("issue", 0, c) /\ issueState' = "effect_started"
    <3>1. issueState = "none"
      BY <2>4 DEF IssueCreate, IssueFresh
    <3>2. issues = 0 /\ \A r \in wire : r.op # "issue"
      BY <3>1 DEF IssueInv
    <3> QED  BY <2>1, <2>4, <3>2 DEF IssueInv, OneOf, Send
  <2> QED
    BY <1>3, <2>2, <2>3, <2>4 DEF IssueExecution, IssueBegin, IssueFound, IssueCreate,
       IssueAnswered, IssueUnknown, IssueStops
<1>4. CASE PublishStep \/ MergeStep
  <2>1. issues' = issues /\ issueState' = issueState
    BY <1>4 DEF PublishStep, PublishBegin, Edit, ClaimEnds, PublishExecution, LookBinds, LookFresh,
         LookCreates, CommitChanges, PushHead, PushedBinds, PushedCreates, Posts, PostAnswered,
         PostUnknown, PublishStops, Binds, MergeStep, Audit, BoardMovesOn, MergeExecution,
         MergeBegin, Reconcile, Prepare, FinalReadSettles, Put, PutAnswered, PutUnknown,
         MergeRefused, MergeStops, Unseen, issueVars
  <2> QED  BY <1>2, <1>4, <2>1, OthersCarryIssues
<1>5. CASE RemoteStep
  <2>1. issueState' = issueState
    BY <1>5 DEF RemoteStep, issueVars
  <2>2. CASE Meddle
    BY <1>2, <2>1, <2>2, FewerCarries DEF Meddle, Quiet
  <2>3. ASSUME NEW r \in wire, Deliver(r) \/ Refuse(r)
        PROVE  IssueInv'
    <3>1. wire' = wire \ {r}
      BY <2>3 DEF Deliver, Refuse, Answer
    <3>2. CASE issues' = issues
      BY <1>2, <2>1, <3>1, <3>2, FewerCarries
    <3>3. CASE Deliver(r) /\ IssueCreated(r)
      <4>1. issues = 0 /\ \A s \in wire' : s.op # "issue"
        BY <3>1, <3>3 DEF IssueInv, OneOf, IssueCreated
      <4>2. issueState # "none"
        BY <3>3 DEF IssueInv, IssueCreated
      <4>3. issues' = 1
        BY <3>3, <4>1 DEF IssueCreated
      <4> QED  BY <2>1, <4>1, <4>2, <4>3 DEF IssueInv, OneOf
    <3> QED
      BY <2>3, <3>2, <3>3 DEF Deliver, Refuse, Unseen, BranchPushed, PullOpened, PullMerged
  <2> QED  BY <1>5, <2>2, <2>3 DEF RemoteStep
<1>6. CASE UNCHANGED vars
  BY <1>2, <1>6, FewerCarries DEF vars, remoteVars, issueVars
<1> QED  BY <1>3, <1>4, <1>5, <1>6 DEF Next, IssueStep

(* However often and by how many the issue effect is executed, one issue   *)
(* is created.                                                             *)
THEOREM OneIssue == Spec => []IssueCreatedOnce
<1>1. Spec => []TypeInv
  BY InitTyped, StepTyped, PTL DEF Spec
<1>2. Spec => []IssueInv
  BY IssueInvInit, IssueInvNext, <1>1, PTL DEF Spec
<1>3. IssueInv => IssueCreatedOnce
  BY DEF IssueInv, IssueCreatedOnce
<1> QED  BY <1>2, <1>3, PTL

-----------------------------------------------------------------------------
(* One pull request, and what the wire and the record say of its commits.  *)
PublishInv ==
    /\ OneOf("open")
    /\ opened <= posts /\ posts <= 1
    /\ \A r \in wire : r.op = "open" => opened = 0 /\ posts = 1
    /\ \A r \in wire : r.op = "push" => r.sha <= prState.head
    /\ opened = 0 => pull = NoPull
    /\ prState.status \in {"none", "torn"} => posts = 0 /\ prState.head = 0
    /\ opened = 0 /\ prState.status = "push_started" => posts = 0
    /\ pubStep \in {"committing", "marking"} => opened = 1 \/ prState.status = "none"
    /\ pubStep = "marking" => pubHead = local /\ local > 0
    /\ pubStep = "pushing" => prState.status = "push_started"
    /\ pubStep = "posting" => prState.status = "pr_create_started"
    /\ pubStep \in {"pushing", "posting"} => pubHead = prState.head
    /\ prState.status \notin {"none", "torn"} => prState.head > 0
    /\ prState.head <= local /\ branch <= prState.head
    /\ pull.state = "open" => pull.head = branch
    /\ prState.status = "bound" => opened = 1 /\ pull.head = prState.head

(* The other adapters push nothing and open nothing.                       *)
LEMMA OthersCarryPublish ==
    ASSUME TypeInv, IssueStep \/ MergeStep
    PROVE  Carried("open") /\ Carried("push") /\ (OneOf("open") => OneOf("open")')
<1>1. wire \in SUBSET Request /\ Poster \subseteq Caller /\ Task \subseteq Caller
  BY DEF TypeInv, TypeOK, RemoteTypeOK, Caller
<1>2. \/ Quiet
      \/ \E c \in Poster : HangUp(c) \/ \E sha : Send("issue", sha, c)
      \/ \E t \in Task : HangUp(t) \/ \E sha : Send("merge", sha, t)
  <2>1. CASE IssueStep
    BY <2>1 DEF IssueStep, IssueExecution, IssueBegin, IssueFound, IssueCreate, IssueAnswered,
         IssueUnknown, IssueStops
  <2>2. CASE MergeStep
    BY <2>2 DEF MergeStep, Audit, BoardMovesOn, MergeExecution, MergeBegin, Reconcile, Prepare,
         FinalReadSettles, Put, PutAnswered, PutUnknown, MergeRefused, MergeStops
  <2> QED  BY <2>1, <2>2
<1> QED  BY <1>1, <1>2, FewerCarries, HangUpCarries, SendCarries DEF Quiet

LEMMA PublishInvInit == Init => PublishInv
BY DEF Init, RemoteInit, PublishInit, PublishInv, OneOf, Record, NoPull

LEMMA PublishStepKeeps ==
    ASSUME TypeInv, PublishInv, PublishStep
    PROVE  PublishInv'
<1>1. /\ wire \in SUBSET Request /\ publisher \in Caller
      /\ opened \in Nat /\ posts \in Nat /\ local \in Nat /\ branch \in Nat
      /\ prState \in [status : PrStatus, head : Nat] /\ pubHead \in Nat
      /\ pull.head \in Nat
  BY RemoteAssumption DEF TypeInv, TypeOK, RemoteTypeOK, PublishTypeOK, PullRequest, Commit, Caller
<1>2. Unseen
  BY DEF PublishStep, PublishBegin, Edit, ClaimEnds, PublishExecution, LookBinds, LookFresh,
     LookCreates, CommitChanges, PushHead, PushedBinds, PushedCreates, Posts, PostAnswered,
     PostUnknown, PublishStops, Binds
<1>3. ASSUME Quiet \/ HangUp(publisher), posts' = posts, prState.head <= prState'.head,
             prState' \in [status : PrStatus, head : Nat]
      PROVE  /\ OneOf("open")'
             /\ \A r \in wire' : r.op = "open" => opened = 0 /\ posts' = 1
             /\ \A r \in wire' : r.op = "push" => r.sha <= prState'.head
  <2>1. Carried("open") /\ Carried("push") /\ (OneOf("open") => OneOf("open")')
    BY <1>1, <1>3, FewerCarries, HangUpCarries DEF Quiet
  <2>2. ASSUME NEW x \in wire', x.op = "push"
        PROVE  x.sha <= prState'.head
    <3>1. PICK r \in wire : r.op = "push" /\ r.sha = x.sha
      BY <2>1, <2>2 DEF Carried
    <3>2. r.sha \in Nat /\ r.sha <= prState.head
      BY <1>1, <3>1, RemoteAssumption DEF PublishInv, Request, Commit
    <3> QED  BY <1>1, <1>3, <3>1, <3>2
  <2> QED  BY <1>3, <2>1, <2>2 DEF PublishInv, Carried
<1>4. ASSUME NEW head \in KnownHeads, HeadKnown(head)
      PROVE  head = prState.head /\ head > 0 /\ head \in Nat
  <2>1. opened = 1 /\ pull.head = head
    BY <1>4 DEF HeadKnown
  <2>2. prState.status # "none"
    BY <1>1, <2>1 DEF PublishInv
  <2>3. head = prState.head
    BY <1>4, <2>2 DEF KnownHeads
  <2> QED  BY <1>1, <2>1, <2>2, <2>3 DEF PublishInv
<1>5. ASSUME NEW head \in Nat, Binds(head), Quiet \/ HangUp(publisher), head = prState.head,
             opened = 1, pull.head = head, head > 0
      PROVE  PublishInv'
  <2>1. /\ prState' = [status |-> "bound", head |-> head] /\ pubStep' = "idle"
        /\ posts' = posts /\ local' = local
    BY <1>5 DEF Binds, Record, Ends
  <2>2. prState'.head = head /\ prState'.status = "bound"
    BY <2>1
  <2>3. prState' \in [status : PrStatus, head : Nat]
    BY <1>5, <2>1 DEF PrStatus
  <2> QED  BY <1>1, <1>2, <1>3, <1>5, <2>1, <2>2, <2>3 DEF PublishInv, Unseen
<1>6. ASSUME NEW head \in Nat, Posts(head), head = prState.head, opened = 0, head > 0,
             prState.status = "push_started"
      PROVE  PublishInv'
  <2>1. /\ prState' = [status |-> "pr_create_started", head |-> head] /\ pubStep' = "posting"
        /\ posts' = posts + 1 /\ local' = local /\ pubHead' = head
        /\ Send("open", 0, publisher)
    BY <1>6 DEF Posts, Record, GoesOn
  <2>2. posts = 0
    BY <1>6 DEF PublishInv
  <2>3. \A r \in wire : r.op # "open"
    BY <2>2 DEF PublishInv
  <2>4. OneOf("open")' /\ \A r \in wire' : r.op = "push" => r.sha <= prState'.head
    BY <1>6, <2>1, <2>3 DEF PublishInv, OneOf, Send
  <2> QED  BY <1>1, <1>2, <1>6, <2>1, <2>2, <2>4 DEF PublishInv, Unseen
<1>7. ASSUME Quiet \/ HangUp(publisher), posts' = posts, prState' = prState, local <= local',
             local' \in Nat,
             \/ pubStep' \in {"idle", "looking"}
             \/ pubStep' = "committing" /\ (opened = 1 \/ prState.status = "none")
             \/ pubStep' = "marking" /\ pubStep = "committing" /\ pubHead' = local' /\ local' > 0
             \/ pubStep' = pubStep /\ pubHead' = pubHead /\ local' = local
      PROVE  PublishInv'
  BY <1>1, <1>2, <1>3, <1>7 DEF PublishInv, Unseen
<1>8. CASE \E mode \in {"publish", "repair"} : PublishBegin(mode)
  BY <1>1, <1>7, <1>8 DEF PublishBegin
<1>9. CASE Edit \/ ClaimEnds
  BY <1>1, <1>7, <1>9 DEF Edit, ClaimEnds
<1>10. CASE LookBinds
  BY <1>1, <1>4, <1>5, <1>10 DEF LookBinds, HeadKnown
<1>11. CASE LookFresh
  BY <1>1, <1>7, <1>11 DEF LookFresh, GoesOn, HeadKnown
<1>12. CASE LookCreates
  BY <1>1, <1>6, <1>12 DEF LookCreates, CreationOpen, PublishInv
<1>13. CASE CommitChanges
  BY <1>1, <1>7, <1>13 DEF CommitChanges, GoesOn
<1>14. CASE PushHead
  <2>1. UNCHANGED <<local, posts>> /\ pubStep = "marking"
    BY <1>14 DEF PushHead
  <2>2. pubHead = local /\ local > 0 /\ (opened = 1 \/ prState.status = "none")
    BY <2>1 DEF PublishInv
  <2>3. CASE /\ prState' = PushStarted
             /\ GoesOn("pushing", pubHead)
             /\ Send("push", pubHead, publisher)
    <3>1. /\ prState' = [status |-> "push_started", head |-> local]
          /\ pubStep' = "pushing" /\ pubHead' = local
          /\ wire' = wire \cup {[op |-> "push", sha |-> local, by |-> publisher]}
      BY <2>2, <2>3 DEF PushStarted, Record, GoesOn, Send
    <3>2. prState'.status = "push_started" /\ prState'.head = local
      BY <3>1
    <3>3. \A r \in wire' : r.op = "push" => r.sha <= prState'.head
      <4> SUFFICES ASSUME NEW r \in wire, r.op = "push" PROVE r.sha <= local
        BY <1>1, <3>1, <3>2
      <4>1. r.sha \in Nat /\ r.sha <= prState.head
        BY <1>1, RemoteAssumption DEF PublishInv, Request, Commit
      <4> QED  BY <1>1, <4>1 DEF PublishInv
    <3>4. OneOf("open")' /\ \A r \in wire' : r.op = "open" => opened = 0 /\ posts = 1
      BY <3>1 DEF PublishInv, OneOf
    <3>5. opened = 0 => posts = 0
      BY <2>2 DEF PublishInv
    <3>6. prState.head <= local /\ branch <= local
      BY <1>1 DEF PublishInv
    <3> QED
      BY <1>1, <1>2, <2>1, <2>2, <3>1, <3>2, <3>3, <3>4, <3>5, <3>6 DEF PublishInv, Unseen
  <2>4. CASE prState.status = "none" /\ prState' = Record("torn", 0) /\ Ends /\ Quiet
    <3>1. prState' = [status |-> "torn", head |-> 0] /\ pubStep' = "idle"
      BY <2>4 DEF Record, Ends
    <3>2. prState.head = 0 /\ posts = 0
      BY <2>4 DEF PublishInv
    <3>3. prState' \in [status : PrStatus, head : Nat]
      BY <3>1 DEF PrStatus
    <3>4. prState'.status = "torn" /\ prState'.head = 0
      BY <3>1
    <3> QED
      BY <1>1, <1>2, <1>3, <2>1, <2>4, <3>1, <3>2, <3>3, <3>4 DEF PublishInv, Unseen
  <2> QED  BY <1>14, <2>3, <2>4 DEF PushHead
<1>15. CASE PushedBinds
  <2>1. pubHead = prState.head /\ prState.head > 0
    BY <1>15 DEF PushedBinds, PublishInv
  <2> QED  BY <1>1, <1>5, <1>15, <2>1 DEF PushedBinds, HeadKnown
<1>16. CASE PushedCreates
  BY <1>1, <1>6, <1>16 DEF PushedCreates, PublishInv
<1>17. CASE PostAnswered
  <2>1. pubHead = prState.head /\ prState.head > 0
    BY <1>17 DEF PostAnswered, PublishInv
  <2>2. opened = 1
    BY <1>1, <1>17, <2>1 DEF PostAnswered, PublishInv, NoPull
  <2> QED  BY <1>1, <1>5, <1>17, <2>1, <2>2 DEF PostAnswered
<1>18. CASE PostUnknown
  <2>1. pubHead = prState.head /\ prState.head > 0
    BY <1>18 DEF PostUnknown, PublishInv
  <2>2. prState' = [status |-> "unknown", head |-> prState.head] /\ pubStep' = "idle"
    BY <1>18, <2>1 DEF PostUnknown, Record, Ends
  <2>3. prState'.status = "unknown" /\ prState'.head = prState.head
        /\ prState' \in [status : PrStatus, head : Nat]
    BY <1>1, <2>2 DEF PrStatus
  <2> QED  BY <1>1, <1>2, <1>3, <1>18, <2>1, <2>2, <2>3 DEF PublishInv, PostUnknown, Unseen
<1>19. CASE PublishStops
  BY <1>1, <1>7, <1>19 DEF PublishStops, Ends
<1> QED
  BY <1>8, <1>9, <1>10, <1>11, <1>12, <1>13, <1>14, <1>15, <1>16, <1>17, <1>18, <1>19
     DEF PublishStep, PublishExecution

LEMMA PublishInvNext == TypeInv /\ PublishInv /\ [Next]_vars => PublishInv'
<1> SUFFICES ASSUME TypeInv, PublishInv, [Next]_vars
             PROVE  PublishInv'
  OBVIOUS
<1>1. /\ wire \in SUBSET Request
      /\ opened \in Nat /\ posts \in Nat /\ branch \in Nat
      /\ prState.head \in Nat /\ pull.head \in Nat /\ pull \in PullRequest
  BY RemoteAssumption DEF TypeInv, TypeOK, RemoteTypeOK, PublishTypeOK, PullRequest, Commit
<1>2. ASSUME UNCHANGED publishVars, Unseen, Carried("open"), Carried("push"),
             OneOf("open") => OneOf("open")'
      PROVE  PublishInv'
  BY <1>2 DEF PublishInv, Carried, Unseen, publishVars
<1>3. CASE IssueStep
  <2>1. UNCHANGED publishVars /\ Unseen
    BY <1>3 DEF IssueStep, IssueExecution, IssueBegin, IssueFound, IssueCreate, IssueAnswered,
         IssueUnknown, IssueStops
  <2> QED  BY <1>2, <1>3, <2>1, OthersCarryPublish
<1>4. CASE PublishStep
  BY <1>4, PublishStepKeeps
<1>5. CASE MergeStep
  <2>1. UNCHANGED publishVars /\ Unseen
    BY <1>5 DEF MergeStep, Audit, BoardMovesOn, MergeExecution, MergeBegin, Reconcile, Prepare,
         FinalReadSettles, Put, PutAnswered, PutUnknown, MergeRefused, MergeStops
  <2> QED  BY <1>2, <1>5, <2>1, OthersCarryPublish
<1>6. CASE RemoteStep
  <2>1. UNCHANGED publishVars
    BY <1>6 DEF RemoteStep
  <2>2. CASE Meddle
    <3>1. Carried("open") /\ Carried("push") /\ (OneOf("open") => OneOf("open")')
      BY <2>2, FewerCarries DEF Meddle, Quiet
    <3>2. opened # 0 /\ pull'.head = pull.head /\ UNCHANGED <<branch, opened>>
          /\ (pull'.state = "open" => pull.state = "open")
      <4>1. pull.state = "open" /\ UNCHANGED <<branch, opened>>
        BY <2>2 DEF Meddle
      <4>2. opened # 0
        BY <4>1 DEF PublishInv, NoPull
      <4>3. pull'.head = pull.head
        BY <1>1, <2>2 DEF Meddle, PullRequest
      <4> QED  BY <4>1, <4>2, <4>3
    <3> QED  BY <2>1, <3>1, <3>2 DEF PublishInv, Carried, publishVars
  <2>3. ASSUME NEW r \in wire, Deliver(r) \/ Refuse(r)
        PROVE  PublishInv'
    <3>1. wire' = wire \ {r}
      BY <2>3 DEF Deliver, Refuse, Answer
    <3>2. Carried("open") /\ Carried("push") /\ (OneOf("open") => OneOf("open")')
      BY <3>1, FewerCarries
    <3>3. r.sha \in Nat
      BY <1>1, RemoteAssumption DEF Request, Commit
    <3>4. CASE Unseen
      BY <1>2, <2>1, <3>2, <3>4
    <3>5. CASE IssueCreated(r)
      BY <2>1, <3>2, <3>5 DEF IssueCreated, PublishInv, Carried, publishVars
    <3>6. CASE BranchPushed(r)
      <4>1. /\ branch <= r.sha /\ r.sha <= prState.head /\ branch' = r.sha
            /\ opened' = opened
        BY <3>6 DEF BranchPushed, PublishInv
      <4>2. CASE pull.state = "open"
        <5>1. pull'.head = r.sha /\ pull'.state = "open" /\ pull.head = branch /\ opened # 0
          BY <1>1, <3>6, <4>2 DEF BranchPushed, PullRequest, PublishInv, NoPull
        <5>2. prState.status = "bound" => r.sha = prState.head
          BY <1>1, <3>3, <4>1, <5>1 DEF PublishInv
        <5> QED
          BY <1>1, <2>1, <3>2, <3>3, <4>1, <5>1, <5>2 DEF PublishInv, Carried, publishVars
      <4>3. CASE pull.state # "open"
        BY <1>1, <2>1, <3>2, <3>3, <3>6, <4>1, <4>3
           DEF BranchPushed, PublishInv, Carried, publishVars
      <4> QED  BY <4>2, <4>3
    <3>7. CASE PullOpened(r)
      <4>1. opened = 0 /\ posts = 1 /\ opened' = 1 /\ branch' = branch /\ branch > 0
        BY <1>1, <3>7 DEF PullOpened, PublishInv
      <4>2. pull' = [NoPull EXCEPT !.state = "open", !.head = branch]
        BY <3>7 DEF PullOpened
      <4>3. pull'.state = "open" /\ pull'.head = branch
        BY <4>2 DEF NoPull
      <4>4. \A s \in wire' : s.op # "open"
        BY <3>1, <3>7 DEF PullOpened, PublishInv, OneOf
      <4>5. prState.status # "bound"
        BY <4>1 DEF PublishInv
      <4> QED
        BY <1>1, <2>1, <3>2, <4>1, <4>3, <4>4, <4>5 DEF PublishInv, Carried, publishVars
    <3>8. CASE PullMerged(r)
      <4>1. opened # 0 /\ pull'.head = pull.head /\ pull'.state = "merged"
            /\ UNCHANGED <<branch, opened>>
        BY <1>1, <3>8 DEF PullMerged, PublishInv, NoPull, PullRequest
      <4> QED  BY <2>1, <3>2, <4>1 DEF PublishInv, Carried, publishVars
    <3> QED
      BY <2>3, <3>4, <3>5, <3>6, <3>7, <3>8 DEF Deliver, Refuse
  <2> QED  BY <1>6, <2>2, <2>3 DEF RemoteStep
<1>7. CASE UNCHANGED vars
  BY <1>2, <1>7, FewerCarries DEF vars, remoteVars, Unseen
<1> QED  BY <1>3, <1>4, <1>5, <1>6, <1>7 DEF Next

(* However often publications and repairs are executed and cut short, one  *)
(* pull request is asked for, and nothing is on GitHub but what the state  *)
(* file knows of.                                                          *)
THEOREM PublishedIsRecorded == Spec => []PublishedAsRecorded
<1>1. Spec => []TypeInv
  BY InitTyped, StepTyped, PTL DEF Spec
<1>2. Spec => []PublishInv
  BY PublishInvInit, PublishInvNext, <1>1, PTL DEF Spec
<1>3. PublishInv => PublishedAsRecorded
  BY DEF PublishInv, PublishedAsRecorded
<1> QED  BY <1>2, <1>3, PTL

-----------------------------------------------------------------------------
(* What is known of a task, of the merges on their way, and of a merge.    *)
TaskInv(t) ==
    /\ mergeState[t] # "none" \/ mergeStep[t] \in {"gates", "prepared", "sent"} =>
          evidence[t] # "none"
    /\ mergeStep[t] \in {"prepared", "sent"} => mergeState[t] = "effect_started"
    /\ mergeStep[t] = "reconciling" => Pending(t)
    /\ mergeStep[t] = "gates" => ~Pending(t)
    /\ owed[t] => Pending(t) /\ mergeStep[t] \notin {"gates", "prepared"}
    /\ mergeState[t] = "bound" \/ (mergeStep[t] = "sent" /\ reply[t] = "ok") =>
          pull.state = "merged" /\ pull.head = Audited[t]

AuditedMerge(sha) == \E t \in Task : sha = Audited[t] /\ evidence[t] # "none"

MergeInv ==
    /\ \A t \in Task : TaskInv(t)
    /\ \A r \in wire :
          /\ r.op = "merge" => AuditedMerge(r.sha)
          /\ r.by \in Task => r.op = "merge" /\ r.sha = Audited[r.by]
    /\ pull.state = "merged" /\ ~pull.byHand => AuditedMerge(pull.head)

LEMMA MergeInvInit == Init => MergeInv
BY DEF Init, RemoteInit, MergeInit, MergeInv, TaskInv, Pending, NoPull

(* The other adapters leave everything alone that is said of merges.       *)
LEMMA OthersKeepMergeInv ==
    ASSUME TypeInv, MergeInv, IssueStep \/ PublishStep
    PROVE  MergeInv'
<1>1. wire \in SUBSET Request /\ reply \in [Caller -> {"none", "ok", "refused"}]
  BY DEF TypeInv, TypeOK, RemoteTypeOK
<1>2. UNCHANGED mergeVars /\ Unseen
  BY DEF IssueStep, IssueExecution, IssueBegin, IssueFound, IssueCreate, IssueAnswered,
     IssueUnknown, IssueStops, PublishStep, PublishBegin, Edit, ClaimEnds, PublishExecution,
     LookBinds, LookFresh, LookCreates, CommitChanges, PushHead, PushedBinds, PushedCreates,
     Posts, PostAnswered, PostUnknown, PublishStops, Binds
<1>3. \/ Quiet
      \/ \E c \in Poster \cup {publisher} :
            HangUp(c) \/ \E op \in {"issue", "push", "open"} : \E sha : Send(op, sha, c)
  BY DEF IssueStep, IssueExecution, IssueBegin, IssueFound, IssueCreate, IssueAnswered,
     IssueUnknown, IssueStops, PublishStep, PublishBegin, Edit, ClaimEnds, PublishExecution,
     LookBinds, LookFresh, LookCreates, CommitChanges, PushHead, PushedBinds, PushedCreates,
     Posts, PostAnswered, PostUnknown, PublishStops
<1>4. /\ \A t \in Task : reply'[t] = reply[t]
      /\ \A x \in wire' :
            \/ x.op # "merge" /\ x.by \notin Task
            \/ \E r \in wire : r.op = x.op /\ r.sha = x.sha /\ (x.by = r.by \/ x.by = Nobody)
  <2>1. CASE Quiet
    BY <2>1 DEF Quiet
  <2>2. ASSUME NEW c \in Poster \cup {publisher}, HangUp(c)
        PROVE  /\ \A t \in Task : reply'[t] = reply[t]
               /\ \A x \in wire' : \E r \in wire :
                     r.op = x.op /\ r.sha = x.sha /\ (x.by = r.by \/ x.by = Nobody)
    <3>1. c \in Caller /\ c \notin Task
      BY RemoteAssumption DEF Caller
    <3>2. \A x \in wire' : Carried(x.op)
      BY <1>1, <2>2, <3>1, HangUpCarries
    <3>3. \A t \in Task : reply'[t] = reply[t]
      BY <1>1, <2>2, <3>1 DEF HangUp, Caller
    <3> QED  BY <3>2, <3>3 DEF Carried
  <2>3. ASSUME NEW c \in Poster \cup {publisher}, NEW op \in {"issue", "push", "open"}, NEW sha,
               Send(op, sha, c)
        PROVE  /\ \A t \in Task : reply'[t] = reply[t]
               /\ \A x \in wire' : x \in wire \/ (x.op # "merge" /\ x.by \notin Task)
    <3>1. c \in Caller /\ c \notin Task
      BY RemoteAssumption DEF Caller
    <3> QED  BY <1>1, <2>3, <3>1 DEF Send, Caller
  <2> QED  BY <1>3, <2>1, <2>2, <2>3
<1>5. \A t \in Task : TaskInv(t)'
  BY <1>2, <1>4 DEF MergeInv, TaskInv, Pending, Unseen, mergeVars
<1>6. \A sha : AuditedMerge(sha)' = AuditedMerge(sha)
  BY <1>2 DEF AuditedMerge, mergeVars
<1>7. Nobody \notin Task
  BY RemoteAssumption DEF Caller
<1>8. ASSUME NEW x \in wire'
      PROVE  (x.op = "merge" => AuditedMerge(x.sha)')
             /\ (x.by \in Task => x.op = "merge" /\ x.sha = Audited[x.by])
  BY <1>4, <1>6, <1>7, <1>8 DEF MergeInv
<1> QED  BY <1>2, <1>5, <1>6, <1>8 DEF MergeInv, Unseen

(* An execution changes what is known of its own task only, and sends      *)
(* nothing but a merge of the audited head.                                *)
LEMMA MergeStepKeeps ==
    ASSUME TypeInv, MergeInv, MergeStep
    PROVE  MergeInv'
<1>1. /\ wire \in SUBSET Request /\ reply \in [Caller -> {"none", "ok", "refused"}]
      /\ MergeTypeOK
  BY DEF TypeInv, TypeOK, RemoteTypeOK
<1>2. PICK t \in Task : Audit(t) \/ BoardMovesOn(t) \/ MergeExecution(t)
  BY DEF MergeStep
<1>3. t \in Caller /\ Nobody \notin Task /\ Audited[t] \in Nat \ {0}
  BY RemoteAssumption, MergeAssumption DEF Caller, Commit
<1>4. Unseen
  BY <1>2 DEF Audit, BoardMovesOn, MergeExecution, MergeBegin, Reconcile, Prepare,
     FinalReadSettles, Put, PutAnswered, PutUnknown, MergeRefused, MergeStops
<1>5. \A u \in Task \ {t} :
         /\ evidence'[u] = evidence[u] /\ mergeState'[u] = mergeState[u]
         /\ mergeStep'[u] = mergeStep[u] /\ owed'[u] = owed[u] /\ reply'[u] = reply[u]
  <2>1. ASSUME NEW u \in Task \ {t}
        PROVE  evidence'[u] = evidence[u] /\ mergeState'[u] = mergeState[u]
               /\ mergeStep'[u] = mergeStep[u] /\ owed'[u] = owed[u]
    BY <1>1, <1>2, <2>1 DEF Audit, BoardMovesOn, MergeExecution, MergeBegin, Reconcile, Prepare,
       FinalReadSettles, Put, PutAnswered, PutUnknown, MergeRefused, MergeStops, MergeGoesOn,
       Settles, MergeTypeOK
  <2>2. Quiet \/ HangUp(t) \/ Send("merge", MergeHead(t), t)
    BY <1>2 DEF Audit, BoardMovesOn, MergeExecution, MergeBegin, Reconcile, Prepare,
       FinalReadSettles, Put, PutAnswered, PutUnknown, MergeRefused, MergeStops
  <2>3. ASSUME NEW u \in Task \ {t} PROVE reply'[u] = reply[u]
    BY <1>1, <1>3, <2>2, <2>3 DEF Quiet, HangUp, Send, Caller
  <2> QED  BY <2>1, <2>3
<1>6. \A u \in Task \ {t} : TaskInv(u)'
  BY <1>4, <1>5 DEF MergeInv, TaskInv, Pending, Unseen
<1>7. evidence[t] # "none" => evidence'[t] # "none"
  BY <1>1, <1>2 DEF Audit, BoardMovesOn, MergeExecution, MergeBegin, Reconcile, Prepare,
     FinalReadSettles, Put, PutAnswered, PutUnknown, MergeRefused, MergeStops, MergeTypeOK
<1>8. \A sha : AuditedMerge(sha) => AuditedMerge(sha)'
  BY <1>5, <1>7 DEF AuditedMerge
<1>9. ASSUME Quiet \/ HangUp(t)
      PROVE  \A x \in wire' :
                /\ x.op = "merge" => AuditedMerge(x.sha)'
                /\ x.by \in Task => x.op = "merge" /\ x.sha = Audited[x.by]
  <2> SUFFICES ASSUME NEW x \in wire'
               PROVE  /\ x.op = "merge" => AuditedMerge(x.sha)'
                      /\ x.by \in Task => x.op = "merge" /\ x.sha = Audited[x.by]
    OBVIOUS
  <2>1. Carried(x.op)
    BY <1>1, <1>3, <1>9, FewerCarries, HangUpCarries DEF Quiet
  <2>2. PICK r \in wire : r.op = x.op /\ r.sha = x.sha /\ x.by \in {r.by, Nobody}
    BY <2>1 DEF Carried
  <2> QED  BY <1>3, <1>8, <2>2 DEF MergeInv
<1>10. ASSUME TaskInv(t)', Quiet \/ HangUp(t)
       PROVE  MergeInv'
  BY <1>4, <1>6, <1>8, <1>9, <1>10 DEF MergeInv, Unseen
<1>11. TaskInv(t)
  BY DEF MergeInv
<1>12. CASE Audit(t) \/ BoardMovesOn(t)
  BY <1>1, <1>4, <1>7, <1>10, <1>11, <1>12
     DEF Audit, BoardMovesOn, TaskInv, Pending, Quiet, Unseen, MergeTypeOK
<1>13. ASSUME NEW s, NEW status, MergeGoesOn(t, s, status)
       PROVE  mergeStep'[t] = s /\ mergeState'[t] = status
  BY <1>1, <1>13 DEF MergeGoesOn, MergeTypeOK
<1>14. ASSUME HangUp(t) PROVE reply'[t] = "none"
  BY <1>1, <1>3, <1>14 DEF HangUp
<1>15. CASE MergeBegin(t)
  <2>1. /\ UNCHANGED <<evidence, owed>> /\ Quiet
        /\ mergeState'[t] = mergeState[t] /\ mergeState[t] \notin {"torn", "bound"}
        /\ \/ Pending(t) /\ mergeStep'[t] = "reconciling"
           \/ ~Pending(t) /\ evidence[t] = "accepted" /\ mergeStep'[t] = "gates"
    BY <1>13, <1>15 DEF MergeBegin, Reconcilable, EvidenceHolds, Pending
  <2> QED  BY <1>4, <1>10, <1>11, <2>1 DEF TaskInv, Pending, Quiet, Unseen
<1>16. CASE Reconcile(t) \/ FinalReadSettles(t)
  <2>1. /\ mergeStep[t] \in {"reconciling", "prepared"} /\ Exact(t)
        /\ mergeStep'[t] = "idle" /\ owed'[t] = FALSE
        /\ mergeState'[t] = IF pull.state = "merged" THEN "bound" ELSE "reconciled_unmerged"
        /\ UNCHANGED evidence /\ Quiet
    BY <1>1, <1>13, <1>16 DEF Reconcile, FinalReadSettles, Settles, MergeTypeOK
  <2> QED  BY <1>4, <1>10, <1>11, <2>1 DEF TaskInv, Pending, Exact, Quiet, Unseen
<1>17. CASE Prepare(t)
  <2>1. /\ UNCHANGED <<evidence, owed>> /\ Quiet /\ mergeStep[t] = "gates"
        /\ \/ mergeStep'[t] = "prepared" /\ mergeState'[t] = "effect_started"
           \/ mergeStep'[t] = "idle" /\ mergeState'[t] = "torn"
    BY <1>13, <1>17 DEF Prepare
  <2> QED  BY <1>4, <1>10, <1>11, <2>1 DEF TaskInv, Pending, Quiet, Unseen
<1>18. CASE Put(t)
  <2>1. /\ UNCHANGED evidence /\ mergeStep[t] = "prepared" /\ mergeStep'[t] = "sent"
        /\ mergeState'[t] = mergeState[t] /\ reply'[t] = "none"
        /\ wire' = wire \cup {[op |-> "merge", sha |-> Audited[t], by |-> t]}
    BY <1>1, <1>3, <1>13, <1>18 DEF Put, Send, MergeHead
  <2>2. TaskInv(t)'
    BY <1>11, <2>1, <1>4 DEF TaskInv, Pending, Unseen
  <2>3. AuditedMerge(Audited[t])'
    BY <1>7, <1>11, <2>1 DEF AuditedMerge, TaskInv
  <2> QED  BY <1>3, <1>4, <1>6, <1>8, <2>1, <2>2, <2>3 DEF MergeInv, Unseen
<1>19. CASE PutAnswered(t)
  <2>1. /\ mergeStep[t] = "sent" /\ mergeStep'[t] = "idle" /\ owed'[t] = FALSE
        /\ mergeState'[t] = IF reply[t] = "ok" THEN "bound" ELSE "reconciled_unmerged"
        /\ UNCHANGED evidence /\ HangUp(t)
    BY <1>1, <1>13, <1>19 DEF PutAnswered, Settles, MergeTypeOK
  <2> QED  BY <1>4, <1>10, <1>11, <2>1 DEF TaskInv, Pending, Unseen
<1>20. CASE PutUnknown(t)
  <2>1. /\ mergeStep[t] = "sent" /\ mergeStep'[t] = "idle" /\ mergeState'[t] = "unknown"
        /\ UNCHANGED <<evidence, owed>> /\ HangUp(t)
    BY <1>13, <1>20 DEF PutUnknown
  <2> QED  BY <1>4, <1>10, <1>11, <2>1 DEF TaskInv, Pending, Unseen
<1>21. CASE MergeRefused(t) \/ MergeStops(t)
  <2>1. /\ mergeStep'[t] = "idle" /\ mergeState'[t] = mergeState[t]
        /\ UNCHANGED <<evidence, owed>> /\ (Quiet \/ HangUp(t))
    BY <1>13, <1>21 DEF MergeRefused, MergeStops
  <2> QED  BY <1>4, <1>10, <1>11, <2>1 DEF TaskInv, Pending, Unseen
<1> QED
  BY <1>2, <1>12, <1>15, <1>16, <1>17, <1>18, <1>19, <1>20, <1>21 DEF MergeExecution

(* A merge is of the head its request names, and it is answered to the     *)
(* task that sent it.                                                      *)
LEMMA RemoteStepKeeps ==
    ASSUME TypeInv, MergeInv, RemoteStep
    PROVE  MergeInv'
<1>1. /\ wire \in SUBSET Request /\ reply \in [Caller -> {"none", "ok", "refused"}]
      /\ pull \in PullRequest
  BY DEF TypeInv, TypeOK, RemoteTypeOK
<1>2. UNCHANGED mergeVars
  BY DEF RemoteStep
<1>3. \A sha : AuditedMerge(sha)' = AuditedMerge(sha)
  BY <1>2 DEF AuditedMerge, mergeVars
<1>4. pull.state = "merged" => UNCHANGED pull
  BY <1>1 DEF RemoteStep, Meddle, Deliver, Refuse, IssueCreated, BranchPushed, PullOpened,
     PullMerged, Unseen
<1>5. CASE Meddle
  <2>1. pull'.state = "merged" /\ ~pull'.byHand => UNCHANGED pull
    BY <1>1, <1>5 DEF Meddle, PullRequest
  <2> QED
    BY <1>2, <1>3, <1>4, <1>5, <2>1 DEF Meddle, Quiet, MergeInv, TaskInv, Pending, mergeVars
<1>6. ASSUME NEW r \in wire, NEW what \in {"ok", "refused"}, Answer(r, what),
             \A t \in Task : r.by = t /\ what = "ok" =>
                pull'.state = "merged" /\ pull'.head = Audited[t],
             pull'.state = "merged" /\ ~pull'.byHand => AuditedMerge(pull'.head)
      PROVE  MergeInv'
  <2>1. \A t \in Task : r.by # t => reply'[t] = reply[t]
    BY <1>1, <1>6 DEF Answer, Caller
  <2>2. \A t \in Task : r.by = t => reply'[t] = what
    BY <1>1, <1>6, RemoteAssumption DEF Answer, Caller
  <2>3. \A t \in Task : TaskInv(t)'
    <3> SUFFICES ASSUME NEW t \in Task PROVE TaskInv(t)'
      OBVIOUS
    <3>1. TaskInv(t)
      BY DEF MergeInv
    <3> QED  BY <1>2, <1>4, <1>6, <2>1, <2>2, <3>1 DEF TaskInv, Pending, mergeVars
  <2> QED  BY <1>3, <1>6, <2>3 DEF MergeInv, Answer
<1>7. ASSUME NEW r \in wire, Refuse(r)
      PROVE  MergeInv'
  BY <1>6, <1>7 DEF Refuse, Unseen, MergeInv
<1>8. ASSUME NEW r \in wire, Deliver(r)
      PROVE  MergeInv'
  <2>1. \A t \in Task : r.by = t => r.op = "merge" /\ r.sha = Audited[t] /\ r.sha # 0
    BY MergeAssumption DEF MergeInv
  <2>2. CASE PullMerged(r)
    <3>1. pull'.state = "merged" /\ pull'.head = pull.head /\ r.sha \in {0, pull.head}
      BY <1>1, <2>2 DEF PullMerged, PullRequest
    <3>2. \A t \in Task : r.by = t => pull'.head = Audited[t]
      BY <2>1, <3>1
    <3>3. AuditedMerge(r.sha)
      BY <2>2 DEF PullMerged, MergeInv
    <3>4. r.sha # 0
      BY <3>3, MergeAssumption DEF AuditedMerge
    <3> QED  BY <1>6, <1>8, <3>1, <3>2, <3>3, <3>4 DEF Deliver
  <2>3. CASE IssueCreated(r) \/ BranchPushed(r) \/ PullOpened(r)
    <3>1. r.op # "merge"
      BY <2>3 DEF IssueCreated, BranchPushed, PullOpened
    <3>2. pull'.state = "merged" => UNCHANGED pull
      BY <1>1, <2>3 DEF IssueCreated, BranchPushed, PullOpened, PullRequest, NoPull
    <3> QED  BY <1>6, <1>8, <2>1, <3>1, <3>2 DEF Deliver, MergeInv
  <2> QED  BY <1>8, <2>2, <2>3 DEF Deliver
<1> QED  BY <1>5, <1>7, <1>8 DEF RemoteStep

LEMMA MergeInvNext == TypeInv /\ MergeInv /\ [Next]_vars => MergeInv'
<1> SUFFICES ASSUME TypeInv, MergeInv, [Next]_vars
             PROVE  MergeInv'
  OBVIOUS
<1>1. CASE UNCHANGED vars
  BY <1>1 DEF vars, remoteVars, mergeVars, MergeInv, TaskInv, Pending, AuditedMerge
<1> QED  BY <1>1, OthersKeepMergeInv, MergeStepKeeps, RemoteStepKeeps DEF Next

LEMMA MergeCorrect == Spec => [](TypeInv /\ MergeInv)
<1>1. Init => TypeInv /\ MergeInv
  BY InitTyped, MergeInvInit
<1>2. TypeInv /\ MergeInv /\ [Next]_vars => (TypeInv /\ MergeInv)'
  BY StepTyped, MergeInvNext
<1> QED  BY <1>1, <1>2, PTL DEF Spec

(* What is bound was merged, and what a task merged was audited.           *)
THEOREM MergedIsAudited == Spec => []MergedAsAudited
<1>1. TypeInv /\ MergeInv => MergedAsAudited
  BY DEF MergeInv, TaskInv, MergedAsAudited, AuditedMerge
<1> QED  BY <1>1, MergeCorrect, PTL

(* No PUT follows one of which nobody knows what came of it.               *)
THEOREM MergeNotRetried == Spec => UnknownMergeNotRetried
<1>1. TypeInv /\ MergeInv /\ [Next]_vars =>
         [\A t \in Task : mergeStep'[t] = "sent" /\ mergeStep[t] # "sent" => ~owed[t]]_vars
  <2> SUFFICES ASSUME TypeInv, MergeInv, Next, NEW t \in Task,
                      mergeStep'[t] = "sent", mergeStep[t] # "sent"
               PROVE  ~owed[t]
    BY DEF Next
  <2>1. MergeStep
    BY DEF Next, IssueStep, PublishStep, RemoteStep, mergeVars
  <2>2. PICK u \in Task : Audit(u) \/ BoardMovesOn(u) \/ MergeExecution(u)
    BY <2>1 DEF MergeStep
  <2>3. mergeStep[t] = "prepared"
    BY <2>2 DEF Audit, BoardMovesOn, MergeExecution, MergeBegin, Reconcile, Prepare,
       FinalReadSettles, Put, PutAnswered, PutUnknown, MergeRefused, MergeStops, MergeGoesOn,
       Settles, TypeInv, TypeOK, MergeTypeOK
  <2> QED  BY <2>3 DEF MergeInv, TaskInv
<1> QED  BY <1>1, MergeCorrect, PTL DEF Spec, UnknownMergeNotRetried
=============================================================================
