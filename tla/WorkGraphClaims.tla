--------------------------- MODULE WorkGraphClaims ---------------------------
(***************************************************************************)
(* The fenced claim registry of the WorkGraph (workgraph_dependencies.py). *)
(* A holder claims a work item for a while, renews, releases or retries    *)
(* the claim, and anybody may recover a claim that expired.                *)
(*                                                                         *)
(* Every mutation holds the registry's lock file, verifies the registry it *)
(* reads, computes its successor, verifies that, and replaces the file     *)
(* atomically, so an operation is one step and a crash loses or keeps all  *)
(* of it.  The time is injected by the caller and may be up to Lag old.    *)
(*                                                                         *)
(* A repeated call returns the claim its request identifier already has    *)
(* and changes nothing: it is a stuttering step.                           *)
(***************************************************************************)
EXTENDS Naturals, Sequences

CONSTANTS
    Item, Request, Holder, Board, Artifact,
    Path,        \* repository paths, as sequences of path components
    View,        \* the graph and satisfaction snapshots callers present
    Duration,    \* the claim durations callers ask for
    Lag,         \* how far an injected time may be behind the clock
    MaxTime,     \* bound on the clock and on the expiry of a first claim
    MaxClaims    \* bound on the claims; recoveries may exceed it

Time == 0 .. MaxTime

ASSUME ClaimsAssumption ==
    /\ Lag \in Nat /\ MaxTime \in Nat /\ MaxClaims \in Nat
    /\ Duration \subseteq Nat \ {0}
    /\ View \subseteq
         [board : Board, satisfied : SUBSET Item, schedulable : SUBSET Item,
          blockedBy : [Item -> SUBSET Item], consumes : [Item -> SUBSET Artifact],
          validated : SUBSET Artifact, reads : [Item -> SUBSET Path],
          writes : [Item -> SUBSET Path], maxAttempts : [Item -> Nat \ {0}]]

VARIABLES
    claims,      \* the claims of the registry, in the order of their tokens
    nextToken,   \* next_fencing_token
    clock        \* the real time

vars == <<claims, nextToken, clock>>

States == {"active", "released", "failed", "recovered"}

(* prior holds the token of the replaced claim, if any; last is the kind   *)
(* of the last entry of the outcome history.                               *)
ClaimRow == [item : Item, request : Request, holder : Holder, attempt : Nat,
             reads : SUBSET Path, writes : SUBSET Path, board : Board,
             acquired : Nat, expires : Nat, token : Nat, state : States,
             prior : SUBSET Nat, last : States \cup {"claimed", "renewed"}]

Injected == {t \in Time : t <= clock /\ clock <= t + Lag}

-----------------------------------------------------------------------------
(* Readiness and conflicts.                                                *)

Ready(v, item) ==
    /\ item \notin v.satisfied
    /\ item \in v.schedulable
    /\ v.blockedBy[item] \subseteq v.satisfied
    /\ v.consumes[item] \subseteq v.validated

(* A path overlaps itself, its ancestors and its descendants.              *)
PathsOverlap(p, q) == \A k \in DOMAIN p \cap DOMAIN q : p[k] = q[k]

Touches(writes, paths) == \E p \in writes, q \in paths : PathsOverlap(p, q)

Conflict(a, b) == \/ Touches(a.writes, b.reads \cup b.writes)
                  \/ Touches(b.writes, a.reads)

Excludes(a, b) == a.item = b.item \/ Conflict(a, b)

(* Wrong: an expired claim would not count as active any more.             *)
ActiveInUnexpired(rows) ==
    {k \in DOMAIN rows : rows[k].state = "active" /\ clock < rows[k].expires}

ActiveIn(rows) == {k \in DOMAIN rows : rows[k].state = "active"}

-----------------------------------------------------------------------------
(* verify_registry: what every stored registry must satisfy.               *)

ExpectedLast(state) == IF state = "active" THEN {"claimed", "renewed"} ELSE {state}

Verified(rows, token) ==
    /\ token >= 1
    /\ \A k \in DOMAIN rows :
         /\ rows[k].attempt >= 1 /\ rows[k].token >= 1
         /\ rows[k].acquired < rows[k].expires
         /\ rows[k].last \in ExpectedLast(rows[k].state)
         /\ rows[k].token < token
    /\ \A j, k \in DOMAIN rows : j < k =>
         /\ rows[j].request # rows[k].request
         /\ rows[j].token < rows[k].token
    /\ \A k \in DOMAIN rows : \A t \in rows[k].prior :
         \E j \in DOMAIN rows :
            /\ rows[j].token = t /\ t < rows[k].token
            /\ rows[j].item = rows[k].item
            /\ rows[k].attempt = rows[j].attempt + 1
    /\ \A j, k \in ActiveIn(rows) : j # k => ~Excludes(rows[j], rows[k])

(* _mutate stores only a registry that verifies.                           *)
Commit(rows, token) ==
    /\ Verified(rows, token)
    /\ claims' = rows
    /\ nextToken' = token
    /\ UNCHANGED clock

-----------------------------------------------------------------------------
(* Operations: when the code lets one through, and what it computes.       *)

NewRow(v, item, req, holder, board, now, d, attempt, prior) ==
    [item |-> item, request |-> req, holder |-> holder, attempt |-> attempt,
     reads |-> v.reads[item], writes |-> v.writes[item], board |-> board,
     acquired |-> now, expires |-> now + d, token |-> nextToken,
     state |-> "active", prior |-> prior, last |-> "claimed"]

RequestUnused(req) == \A k \in DOMAIN claims : claims[k].request # req

(* Wrong: only the item itself would be looked for among active claims.    *)
FreeItemOnly(rows, row) == \A k \in ActiveIn(rows) : rows[k].item # row.item

(* Nothing active excludes the new claim.                                  *)
Free(rows, row) == \A k \in ActiveIn(rows) : ~Excludes(row, rows[k])

(* _check_current with the claim's own holder, board hash and token.       *)
HeldBy(k, holder, board, token) ==
    /\ claims[k].holder = holder
    /\ claims[k].board = board
    /\ claims[k].token = token

(* Wrong: a claim that was replaced could still be used.                   *)
UsableEver(k, now) == claims[k].acquired <= now /\ now < claims[k].expires

(* renew, release and retry need an active claim that has not expired.     *)
Usable(k, now) ==
    /\ claims[k].state = "active"
    /\ claims[k].acquired <= now /\ now < claims[k].expires

Recoverable(k, now) ==
    /\ claims[k].state = "active"
    /\ claims[k].acquired <= now /\ claims[k].expires <= now

AttemptLeft(v, k) == claims[k].attempt < v.maxAttempts[claims[k].item]

Ended(k, state) ==
    [claims EXCEPT ![k] = [@ EXCEPT !.state = state, !.last = state]]

Renewed(k, now, d) ==
    [claims EXCEPT ![k] = [@ EXCEPT !.expires = now + d, !.last = "renewed"]]

(* Wrong: the replacement would not be linked to the claim it replaces.    *)
ReplacedUnlinked(v, k, state, req, holder, now, d) ==
    Append(Ended(k, state),
           NewRow(v, claims[k].item, req, holder, claims[k].board, now, d,
                  claims[k].attempt + 1, {}))

(* The claim ends and the next attempt of its item follows it.             *)
Replaced(v, k, state, req, holder, now, d) ==
    Append(Ended(k, state),
           NewRow(v, claims[k].item, req, holder, claims[k].board, now, d,
                  claims[k].attempt + 1, {claims[k].token}))

Claim(v, item, req, holder, now, d) ==
    LET row == NewRow(v, item, req, holder, v.board, now, d, 1, {}) IN
    /\ Ready(v, item)
    /\ RequestUnused(req)
    /\ Free(claims, row)
    /\ Commit(Append(claims, row), nextToken + 1)

Renew(k, holder, board, token, now, d) ==
    /\ HeldBy(k, holder, board, token)
    /\ Usable(k, now)
    /\ Commit(Renewed(k, now, d), nextToken)

Release(k, holder, board, token, now) ==
    /\ HeldBy(k, holder, board, token)
    /\ Usable(k, now)
    /\ Commit(Ended(k, "released"), nextToken)

(* The conflict check of the next attempt sees the claim as ended.         *)
Retry(v, k, req, holder, board, token, now, d) ==
    LET rows == Replaced(v, k, "failed", req, holder, now, d) IN
    /\ RequestUnused(req)
    /\ HeldBy(k, holder, board, token)
    /\ Usable(k, now)
    /\ AttemptLeft(v, k)
    /\ Free(Ended(k, "failed"), rows[Len(rows)])
    /\ Commit(rows, nextToken + 1)

(* Wrong: the conflict check would find the claim being recovered.         *)
RecoverSeesItself(v, k, req, holder, board, now, d) ==
    LET rows == Replaced(v, k, "recovered", req, holder, now, d) IN
    /\ RequestUnused(req)
    /\ claims[k].board = board
    /\ Recoverable(k, now)
    /\ AttemptLeft(v, k)
    /\ Free(claims, rows[Len(rows)])
    /\ Commit(rows, nextToken + 1)

(* Recovery asks for the board hash only: any holder may take over.        *)
Recover(v, k, req, holder, board, now, d) ==
    LET rows == Replaced(v, k, "recovered", req, holder, now, d) IN
    /\ RequestUnused(req)
    /\ claims[k].board = board
    /\ Recoverable(k, now)
    /\ AttemptLeft(v, k)
    /\ Free(Ended(k, "recovered"), rows[Len(rows)])
    /\ Commit(rows, nextToken + 1)

Tick == clock < MaxTime /\ clock' = clock + 1 /\ UNCHANGED <<claims, nextToken>>

Init == claims = <<>> /\ nextToken = 1 /\ clock = 0

(* Bounds of the model.                                                    *)
Room == Len(claims) < MaxClaims
Within(now, d) == now + d <= MaxTime

(* The tokens a caller may know of.                                        *)
Token == 1 .. nextToken

ClaimSome ==
    /\ Room
    /\ \E v \in View, item \in Item, req \in Request, holder \in Holder,
          now \in Injected, d \in Duration :
            Within(now, d) /\ Claim(v, item, req, holder, now, d)

RenewSome ==
    \E k \in DOMAIN claims, holder \in Holder, board \in Board,
       token \in Token, now \in Injected, d \in Duration :
         Within(now, d) /\ Renew(k, holder, board, token, now, d)

ReleaseSome ==
    \E k \in DOMAIN claims, holder \in Holder, board \in Board,
       token \in Token, now \in Injected :
         Release(k, holder, board, token, now)

RetrySome ==
    /\ Room
    /\ \E v \in View, k \in DOMAIN claims, req \in Request, holder \in Holder,
          board \in Board, token \in Token, now \in Injected, d \in Duration :
            /\ Within(now, d)
            /\ Retry(v, k, req, holder, board, token, now, d)

RecoverAt(k) ==
    \E v \in View, req \in Request, holder \in Holder, board \in Board,
       now \in Injected, d \in Duration :
         Recover(v, k, req, holder, board, now, d)

RecoverSome == \E k \in DOMAIN claims : RecoverAt(k)

Next == ClaimSome \/ RenewSome \/ ReleaseSome \/ RetrySome \/ RecoverSome \/ Tick

Spec == Init /\ [][Next]_vars

(* Time passes, and somebody tries to recover each claim.                  *)
LiveSpec ==
    /\ Spec
    /\ WF_vars(Tick)
    /\ \A k \in 1 .. MaxClaims : WF_vars(k \in DOMAIN claims /\ RecoverAt(k))

-----------------------------------------------------------------------------
(* Properties.                                                             *)

TypeOK == /\ claims \in Seq(ClaimRow)
          /\ nextToken \in Nat
          /\ clock \in Time

(* No operation computes a registry that verify_registry would refuse: a   *)
(* legal call never fails at its second verification, and no sequence of   *)
(* legal calls produces a registry the next caller cannot read (_mutate).  *)
VerificationNeverRefuses ==
    /\ Verified(claims, nextToken)
    /\ \A v \in View, item \in Item, req \in Request, holder \in Holder,
          now \in Injected, d \in Duration :
         LET row == NewRow(v, item, req, holder, v.board, now, d, 1, {}) IN
         RequestUnused(req) /\ Free(claims, row)
             => Verified(Append(claims, row), nextToken + 1)
    /\ \A k \in DOMAIN claims, now \in Injected :
         /\ Usable(k, now) => Verified(Ended(k, "released"), nextToken)
         /\ \A d \in Duration : Usable(k, now) => Verified(Renewed(k, now, d), nextToken)
         /\ \A v \in View, req \in Request, holder \in Holder, d \in Duration,
               state \in {"failed", "recovered"} :
              LET rows == Replaced(v, k, state, req, holder, now, d) IN
              /\ RequestUnused(req)
              /\ Usable(k, now) \/ Recoverable(k, now)
              /\ Free(Ended(k, state), rows[Len(rows)])
              => Verified(rows, nextToken + 1)

(* An active claim is the newest of all claims it excludes: whoever holds  *)
(* an older token for the same item or for overlapping scopes has lost its *)
(* claim for good (_new_claim).                                            *)
OnlyNewestActive ==
    \A j, k \in DOMAIN claims :
        j < k /\ Excludes(claims[k], claims[j]) => claims[j].state # "active"

(* A claim is replaced at most once, by the next attempt of its item, and  *)
(* exactly when it failed or was recovered: no attempt is forked and no    *)
(* failed or recovered attempt is left without its successor.              *)
AttemptsFormChains ==
    \A j \in DOMAIN claims :
        LET next == {k \in DOMAIN claims : claims[j].token \in claims[k].prior} IN
        /\ \A k, l \in next : k = l
        /\ next # {} <=> claims[j].state \in {"failed", "recovered"}

(* Nobody loses a claim by recovery before the expiry last promised to it. *)
RecoveredOnlyExpired ==
    \A k \in DOMAIN claims :
        claims[k].state = "recovered" => claims[k].expires <= clock

(* The attempts of an item never exceed its retry maximum, however retries *)
(* and recoveries alternate.                                               *)
AttemptsWithinPolicy ==
    \A k \in DOMAIN claims :
        \E v \in View : claims[k].attempt <= v.maxAttempts[claims[k].item]

(* Preserved claims: an ended claim is never touched again, no claim       *)
(* disappears, and fencing tokens only grow.                               *)
EndedClaimsPreserved ==
    [][/\ \A k \in DOMAIN claims :
            /\ k \in DOMAIN claims'
            /\ claims[k].state # "active" => claims'[k] = claims[k]
       /\ nextToken' >= nextToken]_vars

(* A claim whose item has an attempt left does not stay active for ever.   *)
RecoverableClaimsEnd ==
    \A k \in 1 .. MaxClaims :
        (k \in ActiveIn(claims) /\ \A v \in View : AttemptLeft(v, k))
            ~> k \notin ActiveIn(claims)
=============================================================================
