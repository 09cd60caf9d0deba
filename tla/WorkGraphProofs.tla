--------------------------- MODULE WorkGraphProofs ---------------------------
(***************************************************************************)
(* Proofs about the WorkGraph: its claim registry and its board, which     *)
(* share no state.                                                         *)
(*                                                                         *)
(* The registry, for all graphs, holders, requests, durations and bounds:  *)
(* what it verifies before each write is what makes the next operation     *)
(* verify, and is the inductive invariant.                                 *)
(*                                                                         *)
(* The board, for all updates, journals, marks, edits and kills: the       *)
(* invariant says what the process with the lock knows of its journal, and *)
(* what the journals and the log say of what is on the board.  There is    *)
(* one lemma for each step; the steps of the migration that do not replace *)
(* the board are stutters of the adapter.                                  *)
(***************************************************************************)
EXTENDS WorkGraphClaims, WorkGraphBoard, TLAPS

-----------------------------------------------------------------------------
(* Sequences.                                                              *)

(* What appending a row to the registry does to its sequence.              *)
LEMMA AppendFacts ==
    ASSUME NEW S, NEW s \in Seq(S), NEW x \in S
    PROVE  /\ Append(s, x) \in Seq(S)
           /\ Len(Append(s, x)) = Len(s) + 1
           /\ DOMAIN Append(s, x) = DOMAIN s \cup {Len(s) + 1}
           /\ \A i \in DOMAIN s : Append(s, x)[i] = s[i] /\ i \in Nat /\ i < Len(s) + 1
           /\ Append(s, x)[Len(s) + 1] = x
           /\ Len(s) + 1 \notin DOMAIN s /\ Len(s) + 1 \in Nat
  OBVIOUS

(* What changing one row of the registry does to its sequence.             *)
LEMMA UpdateFacts ==
    ASSUME NEW S, NEW s \in Seq(S), NEW k \in DOMAIN s, NEW x \in S
    PROVE  LET t == [s EXCEPT ![k] = x] IN
           /\ t \in Seq(S)
           /\ Len(t) = Len(s) /\ DOMAIN t = DOMAIN s
           /\ t[k] = x
           /\ \A i \in DOMAIN s : i # k => t[i] = s[i]
  OBVIOUS

(* The rows of a typed sequence are typed.                                 *)
LEMMA ElementFacts ==
    ASSUME NEW S, NEW s \in Seq(S), NEW k \in DOMAIN s
    PROVE  s[k] \in S /\ k \in Nat
  OBVIOUS

-----------------------------------------------------------------------------
(* What the operations compute.                                            *)

(* An injected time is a natural number that is not ahead of the clock.    *)
LEMMA TimeFacts ==
    ASSUME clock \in Time, NEW now \in Injected, NEW d \in Duration
    PROVE  /\ clock \in Nat /\ now \in Nat /\ d \in Nat /\ now <= clock
           /\ now + d \in Nat /\ now < now + d
  BY ClaimsAssumption DEF Injected, Time

(* The fields of a stored claim have their types.                          *)
LEMMA RowFacts ==
    ASSUME TypeOK, NEW k \in DOMAIN claims
    PROVE  /\ claims[k] \in ClaimRow
           /\ claims[k].acquired \in Nat /\ claims[k].expires \in Nat
           /\ claims[k].attempt \in Nat /\ claims[k].token \in Nat
           /\ claims[k].item \in Item
<1>1. claims[k] \in ClaimRow
  BY ElementFacts DEF TypeOK
<1> QED
  BY <1>1 DEF ClaimRow

(* _new_claim builds a well-typed claim.                                   *)
LEMMA RowType ==
    ASSUME TypeOK, NEW v \in View, NEW item \in Item, NEW req \in Request,
           NEW holder \in Holder, NEW target \in Board, NEW now \in Injected,
           NEW d \in Duration, NEW attempt \in Nat, NEW prior \in SUBSET Nat
    PROVE  NewRow(v, item, req, holder, target, now, d, attempt, prior) \in ClaimRow
<1>1. now \in Nat /\ d \in Nat /\ now + d \in Nat
  BY TimeFacts DEF TypeOK
<1>2. v.reads[item] \in SUBSET Path /\ v.writes[item] \in SUBSET Path
  BY ClaimsAssumption
<1> QED
  BY <1>1, <1>2 DEF NewRow, ClaimRow, TypeOK, States

(* Ending a claim changes its state and the last entry of its history.     *)
LEMMA EndedFields ==
    ASSUME TypeOK, NEW k \in DOMAIN claims, NEW state \in States \ {"active"},
           NEW rows, rows = Ended(k, state)
    PROVE  /\ rows \in Seq(ClaimRow) /\ Len(rows) = Len(claims)
           /\ DOMAIN rows = DOMAIN claims
           /\ \A i \in DOMAIN claims :
                /\ rows[i].item = claims[i].item
                /\ rows[i].request = claims[i].request
                /\ rows[i].reads = claims[i].reads /\ rows[i].writes = claims[i].writes
                /\ rows[i].token = claims[i].token /\ rows[i].prior = claims[i].prior
                /\ rows[i].attempt = claims[i].attempt
                /\ rows[i].acquired = claims[i].acquired
                /\ rows[i].expires = claims[i].expires
                /\ rows[i].state = IF i = k THEN state ELSE claims[i].state
                /\ i # k => rows[i] = claims[i]
           /\ rows[k].last = state
<1> DEFINE row == [claims[k] EXCEPT !.state = state, !.last = state]
<1>1. claims[k] \in ClaimRow
  BY RowFacts
<1>2. row \in ClaimRow
  BY <1>1 DEF ClaimRow, States
<1>3. rows = [claims EXCEPT ![k] = row]
  BY DEF Ended
<1>4. /\ row.item = claims[k].item /\ row.request = claims[k].request
      /\ row.reads = claims[k].reads /\ row.writes = claims[k].writes
      /\ row.token = claims[k].token /\ row.prior = claims[k].prior
      /\ row.attempt = claims[k].attempt /\ row.acquired = claims[k].acquired
      /\ row.expires = claims[k].expires /\ row.state = state /\ row.last = state
  BY <1>1 DEF ClaimRow
<1> HIDE DEF row
<1>5. /\ rows \in Seq(ClaimRow) /\ Len(rows) = Len(claims) /\ DOMAIN rows = DOMAIN claims
      /\ rows[k] = row /\ \A i \in DOMAIN claims : i # k => rows[i] = claims[i]
  BY <1>2, <1>3, UpdateFacts DEF TypeOK
<1> QED
  BY <1>4, <1>5

(* Renewing a claim changes its expiry and the last entry of its history.  *)
LEMMA RenewedFacts ==
    ASSUME TypeOK, NEW k \in DOMAIN claims, NEW now \in Injected, NEW d \in Duration,
           NEW rows, rows = Renewed(k, now, d)
    PROVE  /\ rows \in Seq(ClaimRow)
           /\ Len(rows) = Len(claims) /\ DOMAIN rows = DOMAIN claims
           /\ \A i \in DOMAIN claims : i # k => rows[i] = claims[i]
           /\ rows[k].item = claims[k].item /\ rows[k].request = claims[k].request
           /\ rows[k].attempt = claims[k].attempt /\ rows[k].token = claims[k].token
           /\ rows[k].reads = claims[k].reads /\ rows[k].writes = claims[k].writes
           /\ rows[k].prior = claims[k].prior /\ rows[k].state = claims[k].state
           /\ rows[k].acquired = claims[k].acquired
           /\ rows[k].expires = now + d /\ rows[k].last = "renewed"
<1> DEFINE row == [claims[k] EXCEPT !.expires = now + d, !.last = "renewed"]
<1>1. claims[k] \in ClaimRow /\ now + d \in Nat
  BY ElementFacts, TimeFacts DEF TypeOK
<1>2. row \in ClaimRow
  BY <1>1 DEF ClaimRow
<1>3. rows = [claims EXCEPT ![k] = row]
  BY DEF Renewed
<1>4. /\ row.item = claims[k].item /\ row.request = claims[k].request
      /\ row.attempt = claims[k].attempt /\ row.token = claims[k].token
      /\ row.reads = claims[k].reads /\ row.writes = claims[k].writes
      /\ row.prior = claims[k].prior /\ row.state = claims[k].state
      /\ row.acquired = claims[k].acquired
      /\ row.expires = now + d /\ row.last = "renewed"
  BY <1>1 DEF ClaimRow
<1> HIDE DEF row
<1>5. /\ rows \in Seq(ClaimRow) /\ Len(rows) = Len(claims) /\ DOMAIN rows = DOMAIN claims
      /\ rows[k] = row /\ \A i \in DOMAIN claims : i # k => rows[i] = claims[i]
  BY <1>2, <1>3, UpdateFacts DEF TypeOK
<1> QED
  BY <1>4, <1>5

-----------------------------------------------------------------------------
(* Verification.                                                           *)

(* Exclusion does not depend on which of two claims is asked first.        *)
LEMMA ExcludesSymmetric ==
    ASSUME NEW a, NEW b
    PROVE  Excludes(a, b) <=> Excludes(b, a)
<1>1. \A p, q : PathsOverlap(p, q) <=> PathsOverlap(q, p)
  BY DEF PathsOverlap
<1>2. Conflict(a, b) <=> Conflict(b, a)
  BY <1>1 DEF Conflict, Touches
<1> QED
  BY <1>2 DEF Excludes

(* A new claim, with the next token and a request of its own.              *)
NewIn(rows, row) ==
    /\ row \in ClaimRow
    /\ row.state = "active" /\ row.last = "claimed"
    /\ row.acquired < row.expires
    /\ row.token = nextToken
    /\ \A k \in DOMAIN rows : rows[k].request # row.request
    /\ Free(rows, row)

(* A new claim with a sound lineage keeps a registry verified.             *)
LEMMA VerifiedAppend ==
    ASSUME NEW rows \in Seq(ClaimRow), nextToken \in Nat, Verified(rows, nextToken),
           NEW row, NewIn(rows, row), row.attempt >= 1,
           \A t \in row.prior : \E j \in DOMAIN rows :
               /\ rows[j].token = t /\ rows[j].item = row.item
               /\ row.attempt = rows[j].attempt + 1
    PROVE  Verified(Append(rows, row), nextToken + 1)
<1> DEFINE all == Append(rows, row)
           n == Len(rows) + 1
<1>1. /\ DOMAIN all = DOMAIN rows \cup {n}
      /\ \A i \in DOMAIN rows : all[i] = rows[i] /\ i \in Nat /\ i < n
      /\ all[n] = row /\ n \notin DOMAIN rows /\ n \in Nat
  BY AppendFacts DEF NewIn
<1>2. \A i \in DOMAIN rows : rows[i] \in ClaimRow
  BY ElementFacts
<1> HIDE DEF all, n
<1>3. nextToken + 1 >= 1 /\ nextToken >= 1
  BY DEF Verified
<1>4. \A k \in DOMAIN all :
        /\ all[k].attempt >= 1 /\ all[k].token >= 1
        /\ all[k].acquired < all[k].expires
        /\ all[k].last \in ExpectedLast(all[k].state)
        /\ all[k].token < nextToken + 1
  <2>1. ASSUME NEW k \in DOMAIN rows PROVE rows[k].token < nextToken + 1
    BY <1>2 DEF Verified, ClaimRow
  <2>2. /\ row.attempt >= 1 /\ row.token >= 1 /\ row.acquired < row.expires
        /\ row.last \in ExpectedLast(row.state) /\ row.token < nextToken + 1
    BY <1>3 DEF NewIn, ExpectedLast
  <2> QED
    BY <1>1, <2>1, <2>2 DEF Verified
<1>5. \A j, k \in DOMAIN all : j < k =>
        all[j].request # all[k].request /\ all[j].token < all[k].token
  <2>1. \A j \in DOMAIN rows : rows[j].request # row.request /\ rows[j].token < row.token
    BY DEF Verified, NewIn
  <2> QED
    BY <1>1, <2>1 DEF Verified
<1>6. \A k \in DOMAIN all : \A t \in all[k].prior :
        \E j \in DOMAIN all :
          /\ all[j].token = t /\ t < all[k].token
          /\ all[j].item = all[k].item
          /\ all[k].attempt = all[j].attempt + 1
  <2>1. ASSUME NEW k \in DOMAIN rows, NEW t \in rows[k].prior
        PROVE  \E j \in DOMAIN rows :
                 /\ all[j].token = t /\ t < all[k].token
                 /\ all[j].item = all[k].item
                 /\ all[k].attempt = all[j].attempt + 1
    BY <1>1, <2>1 DEF Verified
  <2>2. ASSUME NEW t \in row.prior
        PROVE  \E j \in DOMAIN rows :
                 /\ all[j].token = t /\ t < row.token
                 /\ all[j].item = row.item
                 /\ row.attempt = all[j].attempt + 1
    BY <1>1, <2>2 DEF Verified, NewIn
  <2> QED
    BY <1>1, <2>1, <2>2
<1>7. \A j, k \in ActiveIn(all) : j # k => ~Excludes(all[j], all[k])
  <2>1. \A j \in ActiveIn(rows) : ~Excludes(row, rows[j]) /\ ~Excludes(rows[j], row)
    BY ExcludesSymmetric DEF NewIn, Free
  <2>2. /\ ActiveIn(all) \subseteq ActiveIn(rows) \cup {n}
        /\ \A j \in ActiveIn(rows) : all[j] = rows[j]
    BY <1>1 DEF ActiveIn
  <2> QED
    BY <1>1, <2>1, <2>2 DEF Verified
<1> QED
  BY <1>3, <1>4, <1>5, <1>6, <1>7 DEF Verified, all

(* So does a change of one active claim that leaves its identity alone.    *)
LEMMA VerifiedUpdate ==
    ASSUME Verified(claims, nextToken), NEW rows, NEW k \in DOMAIN claims,
           claims[k].state = "active", DOMAIN rows = DOMAIN claims,
           \A i \in DOMAIN claims : i # k => rows[i] = claims[i],
           /\ rows[k].item = claims[k].item /\ rows[k].request = claims[k].request
           /\ rows[k].attempt = claims[k].attempt /\ rows[k].token = claims[k].token
           /\ rows[k].reads = claims[k].reads /\ rows[k].writes = claims[k].writes
           /\ rows[k].prior = claims[k].prior,
           rows[k].acquired < rows[k].expires,
           rows[k].last \in ExpectedLast(rows[k].state)
    PROVE  Verified(rows, nextToken)
<1>1. \A i \in DOMAIN rows :
        /\ rows[i].item = claims[i].item /\ rows[i].request = claims[i].request
        /\ rows[i].attempt = claims[i].attempt /\ rows[i].token = claims[i].token
        /\ rows[i].reads = claims[i].reads /\ rows[i].writes = claims[i].writes
        /\ rows[i].prior = claims[i].prior
  OBVIOUS
<1>2. ActiveIn(rows) \subseteq ActiveIn(claims)
  BY DEF ActiveIn
<1>3. \A i, j \in DOMAIN rows : Excludes(rows[i], rows[j]) <=> Excludes(claims[i], claims[j])
  BY <1>1 DEF Excludes, Conflict
<1>4. \A i, j \in ActiveIn(rows) : i # j => ~Excludes(rows[i], rows[j])
  BY <1>2, <1>3 DEF Verified, ActiveIn
<1>5. \A i \in DOMAIN rows :
        /\ rows[i].attempt >= 1 /\ rows[i].token >= 1
        /\ rows[i].acquired < rows[i].expires
        /\ rows[i].last \in ExpectedLast(rows[i].state)
        /\ rows[i].token < nextToken
  BY <1>1 DEF Verified
<1>6. \A i, j \in DOMAIN rows : i < j =>
        rows[i].request # rows[j].request /\ rows[i].token < rows[j].token
  BY <1>1 DEF Verified
<1>7. \A i \in DOMAIN rows : \A t \in rows[i].prior :
        \E j \in DOMAIN rows :
          /\ rows[j].token = t /\ t < rows[i].token
          /\ rows[j].item = rows[i].item
          /\ rows[i].attempt = rows[j].attempt + 1
  BY <1>1 DEF Verified
<1> QED
  BY <1>4, <1>5, <1>6, <1>7 DEF Verified

(* Ending an active claim keeps the registry verified.                     *)
LEMMA VerifiedEnded ==
    ASSUME TypeOK, Verified(claims, nextToken), NEW k \in DOMAIN claims,
           claims[k].state = "active", NEW state \in States \ {"active"},
           NEW rows, rows = Ended(k, state)
    PROVE  Verified(rows, nextToken)
<1>1. /\ DOMAIN rows = DOMAIN claims
      /\ \A i \in DOMAIN claims : i # k => rows[i] = claims[i]
      /\ rows[k].item = claims[k].item /\ rows[k].request = claims[k].request
      /\ rows[k].attempt = claims[k].attempt /\ rows[k].token = claims[k].token
      /\ rows[k].reads = claims[k].reads /\ rows[k].writes = claims[k].writes
      /\ rows[k].prior = claims[k].prior
      /\ rows[k].acquired = claims[k].acquired /\ rows[k].expires = claims[k].expires
      /\ rows[k].state = state /\ rows[k].last = state
  BY EndedFields
<1>2. rows[k].acquired < rows[k].expires
  BY <1>1 DEF Verified
<1>3. rows[k].last \in ExpectedLast(rows[k].state)
  BY <1>1 DEF ExpectedLast
<1> QED
  BY <1>1, <1>2, <1>3, VerifiedUpdate

(* Renewing a usable claim keeps the registry verified.                    *)
LEMMA VerifiedRenewed ==
    ASSUME TypeOK, Verified(claims, nextToken), NEW k \in DOMAIN claims,
           NEW now \in Injected, NEW d \in Duration, Usable(k, now)
    PROVE  Verified(Renewed(k, now, d), nextToken)
<1> DEFINE rows == Renewed(k, now, d)
<1>1. /\ claims[k].acquired \in Nat /\ claims[k].state = "active"
      /\ claims[k].acquired <= now
  BY RowFacts DEF Usable
<1>2. now \in Nat /\ now + d \in Nat /\ now < now + d
  BY TimeFacts DEF TypeOK
<1> HIDE DEF rows
<1>3. /\ DOMAIN rows = DOMAIN claims
      /\ \A i \in DOMAIN claims : i # k => rows[i] = claims[i]
      /\ rows[k].item = claims[k].item /\ rows[k].request = claims[k].request
      /\ rows[k].attempt = claims[k].attempt /\ rows[k].token = claims[k].token
      /\ rows[k].reads = claims[k].reads /\ rows[k].writes = claims[k].writes
      /\ rows[k].prior = claims[k].prior /\ rows[k].state = claims[k].state
      /\ rows[k].acquired = claims[k].acquired
      /\ rows[k].expires = now + d /\ rows[k].last = "renewed"
  BY RenewedFacts DEF rows
<1>4. rows[k].last \in ExpectedLast(rows[k].state)
  BY <1>1, <1>3 DEF ExpectedLast
<1>5. rows[k].acquired < rows[k].expires
  BY <1>1, <1>2, <1>3
<1>6. Verified(rows, nextToken)
  BY <1>1, <1>3, <1>4, <1>5, VerifiedUpdate
<1> QED
  BY <1>6 DEF rows

-----------------------------------------------------------------------------
(* What a step does to the registry.                                       *)

(* A first attempt joins the claims.                                       *)
Starts(row) ==
    /\ NewIn(claims, row)
    /\ row.attempt = 1 /\ row.prior = {}
    /\ \E v \in View : 1 <= v.maxAttempts[row.item]
    /\ claims' = Append(claims, row)
    /\ nextToken' = nextToken + 1

(* An active claim is renewed.                                             *)
Renews(k) ==
    /\ claims[k].state = "active"
    /\ \E now \in Injected, d \in Duration :
           Usable(k, now) /\ claims' = Renewed(k, now, d)
    /\ nextToken' = nextToken

(* An active claim is released.                                            *)
Releases(k) ==
    /\ claims[k].state = "active"
    /\ claims' = Ended(k, "released")
    /\ nextToken' = nextToken

(* An active claim fails or is recovered and its next attempt follows.     *)
Replaces(k, state, row) ==
    /\ claims[k].state = "active"
    /\ state = "recovered" => claims[k].expires <= clock
    /\ NewIn(Ended(k, state), row)
    /\ row.item = claims[k].item
    /\ row.attempt = claims[k].attempt + 1 /\ row.prior = {claims[k].token}
    /\ \E v \in View : AttemptLeft(v, k)
    /\ claims' = Append(Ended(k, state), row)
    /\ nextToken' = nextToken + 1

(* The row that a replacement appends is a new one.                        *)
LEMMA ReplacedFacts ==
    ASSUME TypeOK, NEW v \in View, NEW k \in DOMAIN claims,
           NEW state \in {"failed", "recovered"}, NEW req \in Request,
           NEW holder \in Holder, NEW now \in Injected, NEW d \in Duration,
           RequestUnused(req),
           NEW rows, rows = Replaced(v, k, state, req, holder, now, d),
           Free(Ended(k, state), rows[Len(rows)])
    PROVE  \E row : /\ rows = Append(Ended(k, state), row)
                    /\ NewIn(Ended(k, state), row)
                    /\ row.item = claims[k].item
                    /\ row.attempt = claims[k].attempt + 1
                    /\ row.prior = {claims[k].token}
<1> DEFINE old == Ended(k, state)
           row == NewRow(v, claims[k].item, req, holder, claims[k].board, now, d,
                         claims[k].attempt + 1, {claims[k].token})
<1>1. /\ claims[k].attempt + 1 \in Nat /\ {claims[k].token} \in SUBSET Nat
      /\ claims[k].item \in Item /\ claims[k].board \in Board
  BY RowFacts DEF ClaimRow
<1>2. row \in ClaimRow
  BY <1>1, RowType
<1>3. old \in Seq(ClaimRow) /\ \A i \in DOMAIN old : old[i].request # req
  <2>1. state \in States \ {"active"}
    BY DEF States
  <2>2. old = Ended(k, state)
    OBVIOUS
  <2> HIDE DEF old
  <2>3. /\ old \in Seq(ClaimRow) /\ DOMAIN old = DOMAIN claims
        /\ \A i \in DOMAIN claims : old[i].request = claims[i].request
    BY <2>1, <2>2, EndedFields
  <2> QED
    BY <2>3 DEF RequestUnused
<1>5. rows = Append(old, row)
  BY DEF Replaced
<1>6. rows[Len(rows)] = row
  BY <1>2, <1>3, <1>5, AppendFacts
<1>7. /\ row.state = "active" /\ row.last = "claimed" /\ row.token = nextToken
      /\ row.request = req /\ row.item = claims[k].item
      /\ row.attempt = claims[k].attempt + 1 /\ row.prior = {claims[k].token}
      /\ row.acquired = now /\ row.expires = now + d
  BY DEF NewRow
<1>8. row.acquired < row.expires
  BY <1>7, TimeFacts DEF TypeOK
<1> HIDE DEF row, old
<1>9. NewIn(old, row)
  BY <1>2, <1>3, <1>6, <1>7, <1>8 DEF NewIn, old
<1> QED
  BY <1>5, <1>7, <1>9 DEF old

(* A first claim appends a new row.                                        *)
LEMMA FirstFacts ==
    ASSUME TypeOK, NEW v \in View, NEW item \in Item, NEW req \in Request,
           NEW holder \in Holder, NEW now \in Injected, NEW d \in Duration,
           RequestUnused(req),
           NEW row, row = NewRow(v, item, req, holder, v.board, now, d, 1, {}),
           Free(claims, row)
    PROVE  /\ NewIn(claims, row) /\ row.attempt = 1 /\ row.prior = {}
           /\ row.item = item
<1>1. row \in ClaimRow
  <2>1. v.board \in Board
    BY ClaimsAssumption
  <2> QED
    BY <2>1, RowType
<1>2. /\ row.state = "active" /\ row.last = "claimed" /\ row.token = nextToken
      /\ row.request = req /\ row.item = item /\ row.attempt = 1 /\ row.prior = {}
      /\ row.acquired = now /\ row.expires = now + d
  BY DEF NewRow
<1>3. row.acquired < row.expires
  BY <1>2, TimeFacts DEF TypeOK
<1> QED
  BY <1>1, <1>2, <1>3 DEF NewIn, RequestUnused

(* Every step is one of five shapes.                                       *)
LEMMA StepShape ==
    ASSUME TypeOK, [Next]_vars
    PROVE  \/ claims' = claims /\ nextToken' = nextToken
           \/ \E row : Starts(row)
           \/ \E k \in DOMAIN claims : Renews(k) \/ Releases(k)
           \/ \E k \in DOMAIN claims, state \in {"failed", "recovered"} :
                 \E row : Replaces(k, state, row)
<1>1. CASE ClaimSome
  <2>1. PICK v \in View, item \in Item, req \in Request, holder \in Holder,
             now \in Injected, d \in Duration : Claim(v, item, req, holder, now, d)
    BY <1>1 DEF ClaimSome
  <2> DEFINE row == NewRow(v, item, req, holder, v.board, now, d, 1, {})
  <2>2. /\ RequestUnused(req) /\ Free(claims, row)
        /\ claims' = Append(claims, row) /\ nextToken' = nextToken + 1
    BY <2>1 DEF Claim, Commit
  <2>3. NewIn(claims, row) /\ row.attempt = 1 /\ row.prior = {} /\ row.item = item
    <3>1. row = NewRow(v, item, req, holder, v.board, now, d, 1, {})
      OBVIOUS
    <3> HIDE DEF row
    <3> QED
      BY <2>2, <3>1, FirstFacts
  <2>4. 1 <= v.maxAttempts[item]
    BY ClaimsAssumption
  <2> QED
    BY <2>2, <2>3, <2>4 DEF Starts
<1>2. CASE RenewSome
  BY <1>2 DEF RenewSome, Renew, Commit, Usable, Renews
<1>3. CASE ReleaseSome
  BY <1>3 DEF ReleaseSome, Release, Commit, Usable, Releases
<1>4. CASE RetrySome
  <2>1. PICK v \in View, k \in DOMAIN claims, req \in Request, holder \in Holder,
             target \in Board, token \in Token, now \in Injected, d \in Duration :
               Retry(v, k, req, holder, target, token, now, d)
    BY <1>4 DEF RetrySome
  <2> DEFINE rows == Replaced(v, k, "failed", req, holder, now, d)
  <2>2. /\ RequestUnused(req) /\ claims[k].state = "active" /\ AttemptLeft(v, k)
        /\ Free(Ended(k, "failed"), rows[Len(rows)])
        /\ claims' = rows /\ nextToken' = nextToken + 1
    BY <2>1 DEF Retry, Commit, Usable
  <2> HIDE DEF rows
  <2>3. PICK row : /\ rows = Append(Ended(k, "failed"), row)
                   /\ NewIn(Ended(k, "failed"), row)
                   /\ row.item = claims[k].item
                   /\ row.attempt = claims[k].attempt + 1
                   /\ row.prior = {claims[k].token}
    <3>1. rows = Replaced(v, k, "failed", req, holder, now, d)
      BY DEF rows
    <3>2. "failed" \in {"failed", "recovered"}
      OBVIOUS
    <3>3. RequestUnused(req) /\ Free(Ended(k, "failed"), rows[Len(rows)])
      BY <2>2
    <3> QED
      BY <3>1, <3>2, <3>3, ReplacedFacts
  <2>4. Replaces(k, "failed", row)
    BY <2>2, <2>3 DEF Replaces
  <2> QED
    BY <2>4
<1>5. CASE RecoverSome
  <2>1. PICK k \in DOMAIN claims, v \in View, req \in Request, holder \in Holder,
             target \in Board, now \in Injected, d \in Duration :
               Recover(v, k, req, holder, target, now, d)
    BY <1>5 DEF RecoverSome, RecoverAt
  <2> DEFINE rows == Replaced(v, k, "recovered", req, holder, now, d)
  <2>2. /\ RequestUnused(req) /\ claims[k].state = "active" /\ AttemptLeft(v, k)
        /\ claims[k].expires <= now
        /\ Free(Ended(k, "recovered"), rows[Len(rows)])
        /\ claims' = rows /\ nextToken' = nextToken + 1
    BY <2>1 DEF Recover, Commit, Recoverable
  <2>3. claims[k].expires <= clock
    BY <2>2, RowFacts, TimeFacts DEF TypeOK
  <2> HIDE DEF rows
  <2>4. PICK row : /\ rows = Append(Ended(k, "recovered"), row)
                   /\ NewIn(Ended(k, "recovered"), row)
                   /\ row.item = claims[k].item
                   /\ row.attempt = claims[k].attempt + 1
                   /\ row.prior = {claims[k].token}
    <3>1. rows = Replaced(v, k, "recovered", req, holder, now, d)
      BY DEF rows
    <3>2. "recovered" \in {"failed", "recovered"}
      OBVIOUS
    <3>3. RequestUnused(req) /\ Free(Ended(k, "recovered"), rows[Len(rows)])
      BY <2>2
    <3> QED
      BY <3>1, <3>2, <3>3, ReplacedFacts
  <2>5. Replaces(k, "recovered", row)
    BY <2>2, <2>3, <2>4 DEF Replaces
  <2> QED
    BY <2>5
<1>6. CASE Tick
  BY <1>6 DEF Tick
<1>7. CASE UNCHANGED vars
  BY <1>7 DEF vars
<1> QED
  BY <1>1, <1>2, <1>3, <1>4, <1>5, <1>6, <1>7 DEF Next

-----------------------------------------------------------------------------
(* Types and verification.                                                 *)

(* Time does not run backwards.                                            *)
LEMMA ClockStep ==
    ASSUME clock \in Time, [Next]_vars
    PROVE  clock' \in Time /\ clock' >= clock /\ clock \in Nat /\ clock' \in Nat
<1>1. ClaimSome \/ RenewSome \/ ReleaseSome => UNCHANGED clock
  BY DEF ClaimSome, Claim, RenewSome, Renew, ReleaseSome, Release, Commit
<1>2. RetrySome \/ RecoverSome => UNCHANGED clock
  BY DEF RetrySome, Retry, RecoverSome, RecoverAt, Recover, Commit
<1>3. Tick => clock' = clock + 1 /\ clock < MaxTime
  BY DEF Tick
<1> QED
  BY <1>1, <1>2, <1>3, ClaimsAssumption DEF Next, vars, Time

(* The registry is well typed and would always verify.                     *)
RegistryInv == TypeOK /\ Verified(claims, nextToken)

(* Every operation keeps the registry typed and verified.                  *)
LEMMA RegistryStep ==
    ASSUME RegistryInv, [Next]_vars
    PROVE  RegistryInv'
<1> USE DEF RegistryInv
<1>1. clock' \in Time
  BY ClockStep DEF TypeOK
<1>2. CASE claims' = claims /\ nextToken' = nextToken
  BY <1>1, <1>2 DEF TypeOK
<1>3. ASSUME NEW row, Starts(row) PROVE RegistryInv'
  <2>1. claims' \in Seq(ClaimRow) /\ nextToken' \in Nat
    BY <1>3, AppendFacts DEF Starts, NewIn, TypeOK
  <2>2. Verified(claims', nextToken')
    BY <1>3, VerifiedAppend DEF Starts, TypeOK
  <2> QED
    BY <1>1, <2>1, <2>2 DEF TypeOK
<1>4. ASSUME NEW k \in DOMAIN claims, Renews(k) PROVE RegistryInv'
  <2>1. PICK now \in Injected, d \in Duration :
            Usable(k, now) /\ claims' = Renewed(k, now, d)
    BY <1>4 DEF Renews
  <2>2. claims' \in Seq(ClaimRow) /\ nextToken' \in Nat
    BY <1>4, <2>1, RenewedFacts DEF TypeOK, Renews
  <2>3. Verified(claims', nextToken')
    BY <1>4, <2>1, VerifiedRenewed DEF Renews
  <2> QED
    BY <1>1, <2>2, <2>3 DEF TypeOK
<1>5. ASSUME NEW k \in DOMAIN claims, Releases(k) PROVE RegistryInv'
  <2>1. "released" \in States \ {"active"}
    BY DEF States
  <2>2. claims' \in Seq(ClaimRow) /\ nextToken' \in Nat
    BY <1>5, <2>1, EndedFields DEF TypeOK, Releases
  <2>3. Verified(claims', nextToken')
    BY <1>5, <2>1, VerifiedEnded DEF Releases
  <2> QED
    BY <1>1, <2>2, <2>3 DEF TypeOK
<1>6. ASSUME NEW k \in DOMAIN claims, NEW state \in {"failed", "recovered"}, NEW row,
             Replaces(k, state, row)
      PROVE  RegistryInv'
  <2> DEFINE old == Ended(k, state)
  <2>1. state \in States \ {"active"}
    BY DEF States
  <2>2. old = Ended(k, state)
    OBVIOUS
  <2> HIDE DEF old
  <2>3. /\ old \in Seq(ClaimRow) /\ DOMAIN old = DOMAIN claims
        /\ old[k].item = claims[k].item /\ old[k].token = claims[k].token
        /\ old[k].attempt = claims[k].attempt
        /\ Verified(old, nextToken)
    BY <1>6, <2>1, <2>2, EndedFields, VerifiedEnded DEF Replaces
  <2>4. /\ NewIn(old, row) /\ row.item = claims[k].item
        /\ row.attempt = claims[k].attempt + 1 /\ row.prior = {claims[k].token}
        /\ claims' = Append(old, row) /\ nextToken' = nextToken + 1
    BY <1>6 DEF Replaces, old
  <2>5. claims[k].attempt \in Nat /\ row.attempt >= 1
    BY <2>4, RowFacts
  <2>6. claims' \in Seq(ClaimRow) /\ nextToken' \in Nat
    BY <2>3, <2>4, AppendFacts DEF NewIn, TypeOK
  <2>7. \A t \in row.prior : \E j \in DOMAIN old :
            /\ old[j].token = t /\ old[j].item = row.item
            /\ row.attempt = old[j].attempt + 1
    BY <2>3, <2>4
  <2>8. Verified(claims', nextToken')
    BY <2>3, <2>4, <2>5, <2>7, VerifiedAppend DEF TypeOK
  <2> QED
    BY <1>1, <2>6, <2>8 DEF TypeOK
<1> QED
  BY <1>2, <1>3, <1>4, <1>5, <1>6, StepShape

(* Every reachable registry is well typed and passes verify_registry.      *)
THEOREM RegistryCorrect == Spec => []RegistryInv
<1>1. Init => RegistryInv
  BY ClaimsAssumption DEF Init, RegistryInv, TypeOK, Time, Verified, ActiveIn
<1>2. RegistryInv /\ [Next]_vars => RegistryInv'
  BY RegistryStep
<1> QED
  BY <1>1, <1>2, PTL DEF Spec

-----------------------------------------------------------------------------
(* Steps, claim by claim.                                                  *)

(* What no operation changes of a claim.                                   *)
Kept(k) ==
    /\ claims'[k].item = claims[k].item /\ claims'[k].token = claims[k].token
    /\ claims'[k].reads = claims[k].reads /\ claims'[k].writes = claims[k].writes
    /\ claims'[k].prior = claims[k].prior /\ claims'[k].attempt = claims[k].attempt

(* A renewal or a release touches one active claim.                        *)
Touched(k) ==
    /\ DOMAIN claims' = DOMAIN claims
    /\ k \in DOMAIN claims /\ claims[k].state = "active"
    /\ claims'[k].state \in {"active", "released"}
    /\ \A i \in DOMAIN claims : Kept(i) /\ (i # k => claims'[i] = claims[i])
    /\ nextToken' = nextToken

(* A new claim is appended; the claims in gone, at most one, end with it.  *)
Grown(n, row, gone) ==
    /\ n \in Nat /\ n \notin DOMAIN claims
    /\ \A i \in DOMAIN claims : i \in Nat /\ i < n
    /\ DOMAIN claims' = DOMAIN claims \cup {n}
    /\ claims'[n] = row /\ row.state = "active" /\ row.token = nextToken
    /\ gone \subseteq DOMAIN claims
    /\ \A i, j \in gone : i = j
    /\ row.prior = {claims[i].token : i \in gone}
    /\ \A i \in DOMAIN claims : Kept(i) /\ (i \notin gone => claims'[i] = claims[i])
    /\ \A i \in gone : /\ claims[i].state = "active"
                       /\ claims'[i].state \in {"failed", "recovered"}
                       /\ claims'[i].expires = claims[i].expires
                       /\ claims'[i].state = "recovered" => claims[i].expires <= clock
    /\ \A i \in DOMAIN claims : claims'[i].state = "active" => ~Excludes(row, claims[i])
    /\ \E v \in View : row.attempt <= v.maxAttempts[row.item]
    /\ nextToken' = nextToken + 1

(* Every step leaves the claims alone, touches one, or appends one.        *)
LEMMA RowsStep ==
    ASSUME TypeOK, [Next]_vars
    PROVE  \/ claims' = claims /\ nextToken' = nextToken
           \/ \E k : Touched(k)
           \/ \E n, row, gone : Grown(n, row, gone)
<1>1. ASSUME NEW row, Starts(row) PROVE \E n : Grown(n, row, {})
  <2> DEFINE n == Len(claims) + 1
  <2>1. /\ n \in Nat /\ n \notin DOMAIN claims
        /\ DOMAIN claims' = DOMAIN claims \cup {n}
        /\ \A i \in DOMAIN claims : claims'[i] = claims[i] /\ i \in Nat /\ i < n
        /\ claims'[n] = row
    BY <1>1, AppendFacts DEF Starts, NewIn, TypeOK
  <2>2. \A i \in DOMAIN claims : claims'[i].state = "active" => ~Excludes(row, claims[i])
    BY <1>1, <2>1 DEF Starts, NewIn, Free, ActiveIn
  <2>3. \A i \in DOMAIN claims : Kept(i)
    BY <2>1 DEF Kept
  <2>4. /\ row.state = "active" /\ row.token = nextToken /\ row.prior = {}
        /\ nextToken' = nextToken + 1
        /\ \E v \in View : row.attempt <= v.maxAttempts[row.item]
    BY <1>1 DEF Starts, NewIn
  <2> HIDE DEF n
  <2>5. Grown(n, row, {})
    BY <2>1, <2>2, <2>3, <2>4 DEF Grown
  <2> QED
    BY <2>5
<1>2. ASSUME NEW k \in DOMAIN claims, Renews(k) PROVE Touched(k)
  <2>1. PICK now \in Injected, d \in Duration : claims' = Renewed(k, now, d)
    BY <1>2 DEF Renews
  <2>2. /\ DOMAIN claims' = DOMAIN claims
        /\ \A i \in DOMAIN claims : i # k => claims'[i] = claims[i]
        /\ Kept(k) /\ claims'[k].state = claims[k].state
    BY <2>1, RenewedFacts DEF Kept
  <2> QED
    BY <1>2, <2>2 DEF Touched, Renews, Kept
<1>3. ASSUME NEW k \in DOMAIN claims, Releases(k) PROVE Touched(k)
  <2>1. claims' = Ended(k, "released") /\ "released" \in States \ {"active"}
    BY <1>3 DEF Releases, States
  <2>2. /\ DOMAIN claims' = DOMAIN claims
        /\ \A i \in DOMAIN claims : Kept(i) /\ (i # k => claims'[i] = claims[i])
        /\ claims'[k].state = "released"
    BY <2>1, EndedFields DEF Kept
  <2> QED
    BY <1>3, <2>2 DEF Touched, Releases
<1>4. ASSUME NEW k \in DOMAIN claims, NEW state \in {"failed", "recovered"}, NEW row,
             Replaces(k, state, row)
      PROVE  \E n : Grown(n, row, {k})
  <2> DEFINE old == Ended(k, state)
             n == Len(old) + 1
  <2>1. old = Ended(k, state) /\ state \in States \ {"active"}
    BY DEF States
  <2> HIDE DEF old
  <2>2. /\ old \in Seq(ClaimRow) /\ DOMAIN old = DOMAIN claims
        /\ \A i \in DOMAIN claims :
             /\ old[i].item = claims[i].item /\ old[i].token = claims[i].token
             /\ old[i].reads = claims[i].reads /\ old[i].writes = claims[i].writes
             /\ old[i].prior = claims[i].prior /\ old[i].attempt = claims[i].attempt
             /\ old[i].expires = claims[i].expires
             /\ i # k => old[i] = claims[i]
        /\ old[k].state = state
    BY <2>1, EndedFields
  <2>3. /\ NewIn(old, row) /\ claims' = Append(old, row) /\ claims[k].state = "active"
        /\ state = "recovered" => claims[k].expires <= clock
        /\ row.prior = {claims[k].token} /\ nextToken' = nextToken + 1
        /\ row.item = claims[k].item /\ row.attempt = claims[k].attempt + 1
        /\ \E v \in View : claims[k].attempt < v.maxAttempts[claims[k].item]
    BY <1>4, <2>1 DEF Replaces, AttemptLeft
  <2>4. /\ n \in Nat /\ n \notin DOMAIN claims
        /\ DOMAIN claims' = DOMAIN claims \cup {n}
        /\ \A i \in DOMAIN claims : claims'[i] = old[i] /\ i \in Nat /\ i < n
        /\ claims'[n] = row
    BY <2>2, <2>3, AppendFacts DEF NewIn
  <2>5. \A i \in DOMAIN claims : Kept(i) /\ (i # k => claims'[i] = claims[i])
    BY <2>2, <2>4 DEF Kept
  <2>6. ASSUME NEW i \in DOMAIN claims, claims'[i].state = "active"
        PROVE  ~Excludes(row, claims[i])
    <3>1. ~Excludes(row, old[i])
      BY <2>2, <2>3, <2>4, <2>6 DEF NewIn, Free, ActiveIn
    <3>2. old[i].item = claims[i].item /\ old[i].reads = claims[i].reads
          /\ old[i].writes = claims[i].writes
      BY <2>2
    <3> QED
      BY <3>1, <3>2, Zenon DEF Excludes, Conflict
  <2>7. \E v \in View : row.attempt <= v.maxAttempts[row.item]
    <3>1. PICK v \in View : claims[k].attempt < v.maxAttempts[claims[k].item]
      BY <2>3
    <3>2. claims[k].attempt \in Nat /\ v.maxAttempts[claims[k].item] \in Nat
      BY RowFacts, ClaimsAssumption
    <3> QED
      BY <2>3, <3>1, <3>2
  <2>8. row.state = "active" /\ row.token = nextToken
    BY <2>3 DEF NewIn
  <2>9. /\ claims'[k].state = state /\ claims'[k].expires = claims[k].expires
    BY <2>2, <2>4
  <2> HIDE DEF n
  <2>10. Grown(n, row, {k})
    BY <2>3, <2>4, <2>5, <2>6, <2>7, <2>8, <2>9 DEF Grown
  <2> QED
    BY <2>10
<1> QED
  BY <1>1, <1>2, <1>3, <1>4, StepShape

-----------------------------------------------------------------------------
(* The properties.                                                         *)

(* Every registry the operations write is well typed (RegistryCorrect).    *)
THEOREM TypeCorrect == Spec => []TypeOK
<1>1. RegistryInv => TypeOK
  BY DEF RegistryInv
<1> QED
  BY <1>1, RegistryCorrect, PTL

(* Ended claims are never touched again and no claim disappears, whatever  *)
(* the operations (_mutate, renew, release, retry, recover).               *)
THEOREM EndedArePreserved == Spec => EndedClaimsPreserved
<1> DEFINE Preserved ==
       /\ \A k \in DOMAIN claims :
            /\ k \in DOMAIN claims'
            /\ claims[k].state # "active" => claims'[k] = claims[k]
       /\ nextToken' >= nextToken
<1>1. ASSUME RegistryInv, [Next]_vars PROVE Preserved
  <2>1. TypeOK /\ nextToken \in Nat
    BY <1>1 DEF RegistryInv, TypeOK
  <2>2. CASE claims' = claims /\ nextToken' = nextToken
    BY <2>1, <2>2
  <2>3. ASSUME NEW k, Touched(k) PROVE Preserved
    BY <2>1, <2>3 DEF Touched
  <2>4. ASSUME NEW n, NEW row, NEW gone, Grown(n, row, gone) PROVE Preserved
    BY <2>1, <2>4 DEF Grown
  <2> QED
    BY <1>1, <2>1, <2>2, <2>3, <2>4, RowsStep
<1>2. RegistryInv /\ [Next]_vars => [Preserved]_vars
  BY <1>1
<1> QED
  BY <1>2, RegistryCorrect, PTL DEF Spec, EndedClaimsPreserved

(* The newest of the claims that exclude each other is the only one that   *)
(* can be active (_new_claim, _claim_conflict).                            *)
THEOREM OnlyNewestIsActive == Spec => []OnlyNewestActive
<1>1. Init => OnlyNewestActive
  BY DEF Init, OnlyNewestActive
<1>2. ASSUME RegistryInv, OnlyNewestActive, [Next]_vars PROVE OnlyNewestActive'
  <2>1. TypeOK
    BY <1>2 DEF RegistryInv
  <2>2. CASE claims' = claims /\ nextToken' = nextToken
    BY <1>2, <2>2 DEF OnlyNewestActive
  <2>3. ASSUME NEW i \in DOMAIN claims, NEW j \in DOMAIN claims, Kept(i), Kept(j)
        PROVE  Excludes(claims'[i], claims'[j]) <=> Excludes(claims[i], claims[j])
    BY <2>3 DEF Kept, Excludes, Conflict
  <2>4. ASSUME NEW k, Touched(k) PROVE OnlyNewestActive'
    BY <1>2, <2>3, <2>4 DEF OnlyNewestActive, Touched
  <2>5. ASSUME NEW n, NEW row, NEW gone, Grown(n, row, gone) PROVE OnlyNewestActive'
    <3> SUFFICES ASSUME NEW j \in DOMAIN claims', NEW k \in DOMAIN claims', j < k,
                        Excludes(claims'[k], claims'[j])
                 PROVE  claims'[j].state # "active"
      BY DEF OnlyNewestActive
    <3>1. j \in DOMAIN claims /\ (k \in DOMAIN claims \/ k = n)
      BY <2>5 DEF Grown
    <3>2. CASE k \in DOMAIN claims
      <4>1. Excludes(claims[k], claims[j])
        BY <2>3, <2>5, <3>1, <3>2 DEF Grown
      <4> QED
        BY <1>2, <2>5, <3>1, <3>2, <4>1 DEF OnlyNewestActive, Grown
    <3>3. CASE k = n
      <4>1. claims'[j].item = claims[j].item /\ claims'[j].reads = claims[j].reads
            /\ claims'[j].writes = claims[j].writes
        BY <2>5, <3>1 DEF Grown, Kept
      <4>2. claims'[k] = row
        BY <2>5, <3>3 DEF Grown
      <4>3. Excludes(row, claims[j])
        BY ONLY <4>1, <4>2, Excludes(claims'[k], claims'[j]) DEF Excludes, Conflict
      <4> QED
        BY <2>5, <3>1, <4>3 DEF Grown
    <3> QED
      BY <3>1, <3>2, <3>3
  <2> QED
    BY <2>1, <2>2, <2>4, <2>5, <1>2, RowsStep
<1> QED
  BY <1>1, <1>2, RegistryCorrect, PTL DEF Spec

(* Nobody loses a claim by recovery before its expiry (recover).           *)
THEOREM RecoveredWereExpired == Spec => []RecoveredOnlyExpired
<1>1. Init => RecoveredOnlyExpired
  BY DEF Init, RecoveredOnlyExpired
<1>2. ASSUME RegistryInv, RecoveredOnlyExpired, [Next]_vars PROVE RecoveredOnlyExpired'
  <2>1. TypeOK
    BY <1>2 DEF RegistryInv
  <2>2. clock' >= clock /\ clock \in Nat /\ clock' \in Nat
    BY <1>2, <2>1, ClockStep DEF TypeOK
  <2>3. \A i \in DOMAIN claims : claims[i].expires \in Nat
    BY <2>1, RowFacts
  <2>4. CASE claims' = claims /\ nextToken' = nextToken
    BY <1>2, <2>2, <2>3, <2>4 DEF RecoveredOnlyExpired
  <2>5. ASSUME NEW k, Touched(k) PROVE RecoveredOnlyExpired'
    BY <1>2, <2>2, <2>3, <2>5 DEF RecoveredOnlyExpired, Touched
  <2>6. ASSUME NEW n, NEW row, NEW gone, Grown(n, row, gone)
        PROVE  RecoveredOnlyExpired'
    BY <1>2, <2>2, <2>3, <2>6 DEF RecoveredOnlyExpired, Grown
  <2> QED
    BY <2>1, <2>4, <2>5, <2>6, <1>2, RowsStep
<1> QED
  BY <1>1, <1>2, RegistryCorrect, PTL DEF Spec

(* The attempts of an item stay within its retry maximum (retry, recover). *)
THEOREM AttemptsStayWithinPolicy == Spec => []AttemptsWithinPolicy
<1>1. Init => AttemptsWithinPolicy
  BY DEF Init, AttemptsWithinPolicy
<1>2. ASSUME RegistryInv, AttemptsWithinPolicy, [Next]_vars PROVE AttemptsWithinPolicy'
  <2>1. TypeOK
    BY <1>2 DEF RegistryInv
  <2>2. CASE claims' = claims /\ nextToken' = nextToken
    BY <1>2, <2>2 DEF AttemptsWithinPolicy
  <2>3. ASSUME NEW k, Touched(k) PROVE AttemptsWithinPolicy'
    BY <1>2, <2>3 DEF AttemptsWithinPolicy, Touched, Kept
  <2>4. ASSUME NEW n, NEW row, NEW gone, Grown(n, row, gone)
        PROVE  AttemptsWithinPolicy'
    BY <1>2, <2>4 DEF AttemptsWithinPolicy, Grown, Kept
  <2> QED
    BY <2>1, <2>2, <2>3, <2>4, <1>2, RowsStep
<1> QED
  BY <1>1, <1>2, RegistryCorrect, PTL DEF Spec

(* Attempts form chains: a claim has a successor exactly when it failed or *)
(* was recovered, and only one (retry, recover).                           *)
THEOREM AttemptsAreChained == Spec => []AttemptsFormChains
<1>1. Init => AttemptsFormChains
  BY DEF Init, AttemptsFormChains
<1>2. ASSUME RegistryInv, AttemptsFormChains, [Next]_vars PROVE AttemptsFormChains'
  <2>1. TypeOK /\ Verified(claims, nextToken)
    BY <1>2 DEF RegistryInv
  <2>2. CASE claims' = claims /\ nextToken' = nextToken
    BY <1>2, <2>2 DEF AttemptsFormChains
  <2>3. ASSUME NEW k, Touched(k) PROVE AttemptsFormChains'
    <3>1. /\ DOMAIN claims' = DOMAIN claims
          /\ \A i \in DOMAIN claims :
               /\ claims'[i].token = claims[i].token /\ claims'[i].prior = claims[i].prior
               /\ claims'[i].state \in {"failed", "recovered"}
                    <=> claims[i].state \in {"failed", "recovered"}
      BY <2>3 DEF Touched, Kept
    <3> QED
      BY <1>2, <3>1 DEF AttemptsFormChains
  <2>4. ASSUME NEW n, NEW row, NEW gone, Grown(n, row, gone)
        PROVE  AttemptsFormChains'
    <3> DEFINE Next0(j) == {k \in DOMAIN claims : claims[j].token \in claims[k].prior}
               Next1(j) == {k \in DOMAIN claims' : claims'[j].token \in claims'[k].prior}
    <3>1. /\ n \notin DOMAIN claims /\ DOMAIN claims' = DOMAIN claims \cup {n}
          /\ claims'[n].prior = {claims[i].token : i \in gone}
          /\ claims'[n].token = nextToken /\ claims'[n].state = "active"
          /\ gone \subseteq DOMAIN claims
          /\ \A i \in DOMAIN claims :
               /\ claims'[i].token = claims[i].token
               /\ claims'[i].prior = claims[i].prior
      BY <2>4 DEF Grown, Kept
    <3>2. /\ \A i, j \in DOMAIN claims : i # j => claims[i].token # claims[j].token
          /\ \A i \in DOMAIN claims : claims[i].token < nextToken
          /\ \A i \in DOMAIN claims : \A t \in claims[i].prior : t < claims[i].token
          /\ \A i \in DOMAIN claims : i \in Nat /\ claims[i].token \in Nat
      <4>1. \A i \in DOMAIN claims : i \in Nat /\ claims[i].token \in Nat
        BY <2>1, ElementFacts, RowFacts DEF TypeOK
      <4>2. \A i, j \in DOMAIN claims : i < j => claims[i].token < claims[j].token
        BY <2>1 DEF Verified
      <4> QED
        BY <2>1, <4>1, <4>2 DEF Verified
    <3>3. nextToken \in Nat /\ \A i \in DOMAIN claims : \A t \in claims[i].prior : t # nextToken
      BY <2>1, <3>2 DEF TypeOK, Verified
    <3>4. Next1(n) = {}
      BY <3>1, <3>2, <3>3
    <3>5. ASSUME NEW j \in gone PROVE Next1(j) = {n}
      <4>1. claims[j].state = "active"
        BY <2>4 DEF Grown
      <4>2. Next0(j) = {}
        BY <1>2, <3>1, <4>1 DEF AttemptsFormChains
      <4> QED
        BY <3>1, <4>2
    <3>6. ASSUME NEW j \in DOMAIN claims \ gone PROVE Next1(j) = Next0(j)
      BY <3>1, <3>2
    <3>7. \A j \in DOMAIN claims :
             /\ j \in gone => claims'[j].state \in {"failed", "recovered"}
             /\ j \notin gone => claims'[j].state = claims[j].state
      BY <2>4 DEF Grown
    <3>8. \A j \in DOMAIN claims :
            /\ \A k, l \in Next0(j) : k = l
            /\ Next0(j) # {} <=> claims[j].state \in {"failed", "recovered"}
      BY <1>2 DEF AttemptsFormChains
    <3> SUFFICES ASSUME NEW j \in DOMAIN claims'
                 PROVE  /\ \A k, l \in Next1(j) : k = l
                        /\ Next1(j) # {} <=> claims'[j].state \in {"failed", "recovered"}
      BY DEF AttemptsFormChains
    <3> HIDE DEF Next0, Next1
    <3>9. CASE j = n
      BY <3>1, <3>4, <3>9
    <3>10. CASE j \in gone
      BY <3>1, <3>5, <3>7, <3>10
    <3>11. CASE j \in DOMAIN claims \ gone
      BY <3>6, <3>7, <3>8, <3>11
    <3> QED
      BY <3>1, <3>9, <3>10, <3>11
  <2> QED
    BY <2>1, <2>2, <2>3, <2>4, <1>2, RowsStep
<1> QED
  BY <1>1, <1>2, RegistryCorrect, PTL DEF Spec

(* No operation computes a registry that verify_registry refuses: the      *)
(* second verification of _mutate never fails after a legal call.          *)
THEOREM NeverRefused == Spec => []VerificationNeverRefuses
<1>1. ASSUME RegistryInv PROVE VerificationNeverRefuses
  <2>1. TypeOK /\ Verified(claims, nextToken) /\ claims \in Seq(ClaimRow)
        /\ nextToken \in Nat
    BY <1>1 DEF RegistryInv, TypeOK
  <2>2. ASSUME NEW v \in View, NEW item \in Item, NEW req \in Request,
               NEW holder \in Holder, NEW now \in Injected, NEW d \in Duration,
               NEW row, row = NewRow(v, item, req, holder, v.board, now, d, 1, {}),
               RequestUnused(req), Free(claims, row)
        PROVE  Verified(Append(claims, row), nextToken + 1)
    <3>1. NewIn(claims, row) /\ row.attempt = 1 /\ row.prior = {}
      BY <2>1, <2>2, FirstFacts
    <3>2. row.attempt >= 1
      BY <3>1
    <3> QED
      BY <2>1, <3>1, <3>2, VerifiedAppend
  <2>3. ASSUME NEW k \in DOMAIN claims, NEW now \in Injected, Usable(k, now)
        PROVE  Verified(Ended(k, "released"), nextToken)
    <3>1. claims[k].state = "active" /\ "released" \in States \ {"active"}
      BY <2>3 DEF Usable, States
    <3> QED
      BY <2>1, <3>1, VerifiedEnded
  <2>4. ASSUME NEW k \in DOMAIN claims, NEW now \in Injected, NEW d \in Duration,
               Usable(k, now)
        PROVE  Verified(Renewed(k, now, d), nextToken)
    BY <2>1, <2>4, VerifiedRenewed
  <2>5. ASSUME NEW k \in DOMAIN claims, NEW now \in Injected, NEW v \in View,
               NEW req \in Request, NEW holder \in Holder, NEW d \in Duration,
               NEW state \in {"failed", "recovered"},
               NEW rows, rows = Replaced(v, k, state, req, holder, now, d),
               RequestUnused(req), Usable(k, now) \/ Recoverable(k, now),
               Free(Ended(k, state), rows[Len(rows)])
        PROVE  Verified(rows, nextToken + 1)
    <3>1. claims[k].state = "active" /\ state \in States \ {"active"}
      BY <2>5 DEF Usable, Recoverable, States
    <3>2. RequestUnused(req) /\ Free(Ended(k, state), rows[Len(rows)])
      BY <2>5
    <3> DEFINE old == Ended(k, state)
    <3>3. PICK row : /\ rows = Append(Ended(k, state), row)
                     /\ NewIn(Ended(k, state), row)
                     /\ row.item = claims[k].item
                     /\ row.attempt = claims[k].attempt + 1
                     /\ row.prior = {claims[k].token}
      <4>1. rows = Replaced(v, k, state, req, holder, now, d)
        BY <2>5
      <4>2. TypeOK
        BY <2>1
      <4>3. CASE state = "failed"
        <5>1. rows = Replaced(v, k, "failed", req, holder, now, d)
          BY <4>1, <4>3
        <5>2. Free(Ended(k, "failed"), rows[Len(rows)])
          BY <3>2, <4>3
        <5>3. "failed" \in {"failed", "recovered"} /\ RequestUnused(req)
          BY <3>2
        <5>4. \E row : /\ rows = Append(Ended(k, "failed"), row)
                      /\ NewIn(Ended(k, "failed"), row)
                      /\ row.item = claims[k].item
                      /\ row.attempt = claims[k].attempt + 1
                      /\ row.prior = {claims[k].token}
          BY <4>2, <5>1, <5>2, <5>3, ReplacedFacts
        <5> QED
          BY <4>3, <5>4
      <4>4. CASE state = "recovered"
        <5>1. rows = Replaced(v, k, "recovered", req, holder, now, d)
          BY <4>1, <4>4
        <5>2. Free(Ended(k, "recovered"), rows[Len(rows)])
          BY <3>2, <4>4
        <5>3. "recovered" \in {"failed", "recovered"} /\ RequestUnused(req)
          BY <3>2
        <5>4. \E row : /\ rows = Append(Ended(k, "recovered"), row)
                      /\ NewIn(Ended(k, "recovered"), row)
                      /\ row.item = claims[k].item
                      /\ row.attempt = claims[k].attempt + 1
                      /\ row.prior = {claims[k].token}
          BY <4>2, <5>1, <5>2, <5>3, ReplacedFacts
        <5> QED
          BY <4>4, <5>4
      <4> QED
        BY <4>3, <4>4
    <3>7. rows = Append(old, row) /\ NewIn(old, row) /\ old = Ended(k, state)
      BY <3>3
    <3> HIDE DEF old
    <3>4. /\ old \in Seq(ClaimRow) /\ DOMAIN old = DOMAIN claims
          /\ old[k].item = claims[k].item /\ old[k].token = claims[k].token
          /\ old[k].attempt = claims[k].attempt
          /\ Verified(old, nextToken)
      BY <2>1, <3>1, <3>7, EndedFields, VerifiedEnded
    <3>5. row.attempt >= 1
      BY <2>1, <3>3, RowFacts
    <3>6. \A t \in row.prior : \E j \in DOMAIN old :
            /\ old[j].token = t /\ old[j].item = row.item
            /\ row.attempt = old[j].attempt + 1
      BY <3>3, <3>4
    <3> QED
      BY <2>1, <3>4, <3>5, <3>6, <3>7, VerifiedAppend
  <2> QED
    BY <2>1, <2>2, <2>3, <2>4, <2>5 DEF VerificationNeverRefuses
<1> QED
  BY <1>1, RegistryCorrect, PTL

-----------------------------------------------------------------------------
(* The board: the types of the log's rows, and what a row adds.            *)

(* The newest row of a lineage that has begun is one of its rows.          *)
LEMMA NewestFacts ==
    ASSUME AdapterTypeOK, NEW u \in Update, lineages[u] # <<>>
    PROVE  Newest(u) \in Row
<1>1. lineages[u] \in Seq(Row)
  BY DEF AdapterTypeOK
<1>2. Len(lineages[u]) \in 1..Len(lineages[u])
  BY <1>1
<1> QED
  BY <1>1, <1>2 DEF Newest

(* What an appended row may be: one that its place in the lineage admits.  *)
LEMMA AdmittedFacts ==
    ASSUME AdapterTypeOK, NEW u \in Update, NEW row, Admits(u, row),
           row.own \in BOOLEAN, row.base \in BoardFile, 
           row = [transition |-> row.transition, decision |-> row.decision,
                  base |-> row.base, replacement |-> row.replacement, own |-> row.own]
    PROVE  row \in Row
<1>1. row.replacement \in Update \cup {NoUpdate}
  BY DEF Admits, Follows, Decides
<1>2. row.transition \in {"proposed", "reviewed", "rejected", "applied", "reconciled", "superseded"}
  BY DEF Admits, Follows
<1>3. row.decision \in {"none", "approve", "reject", "supersede"}
  BY DEF Admits, Follows, Decides
<1> QED
  BY <1>1, <1>2, <1>3 DEF Row

(* Appending a row keeps the log typed; what was there stays, and the row  *)
(* is the only one that is new.                                            *)
LEMMA LogAppendFacts ==
    ASSUME AdapterTypeOK, NEW u \in Update, NEW row \in Row, AppendRow(u, row)
    PROVE  /\ lineages' \in [Update -> Seq(Row)]
           /\ \A t : \A v \in Update : HasOwn(v, t) => HasOwn(v, t)'
           /\ \A t : \A v \in Update : HasOwn(v, t)' /\ ~HasOwn(v, t) =>
                 v = u /\ row.own /\ row.transition = t
           /\ \A t : row.own /\ row.transition = t => HasOwn(u, t)'
<1>1. /\ lineages \in [Update -> Seq(Row)]
      /\ lineages' = [lineages EXCEPT ![u] = Append(@, row)]
  BY DEF AdapterTypeOK, AppendRow
<1>2. \A v \in Update : v # u => lineages'[v] = lineages[v]
  BY <1>1
<1>3. /\ lineages'[u] = Append(lineages[u], row) /\ lineages[u] \in Seq(Row)
      /\ DOMAIN lineages'[u] = 1..Len(lineages[u]) + 1
      /\ DOMAIN lineages[u] = 1..Len(lineages[u]) /\ Len(lineages[u]) \in Nat
      /\ lineages'[u][Len(lineages[u]) + 1] = row
      /\ \A n \in DOMAIN lineages[u] : lineages'[u][n] = lineages[u][n]
  BY <1>1
<1>4. lineages' \in [Update -> Seq(Row)]
  BY <1>1, <1>3
<1>5. \A n \in DOMAIN lineages[u] : n \in DOMAIN lineages'[u]
  BY <1>3
<1>6. \A n \in DOMAIN lineages'[u] : n \in DOMAIN lineages[u] \/ n = Len(lineages[u]) + 1
  BY <1>3
<1>7. Len(lineages[u]) + 1 \in DOMAIN lineages'[u]
  BY <1>3
<1>8. ASSUME NEW v \in Update, NEW t, HasOwn(v, t) PROVE HasOwn(v, t)'
  BY <1>2, <1>3, <1>5, <1>8 DEF HasOwn
<1>9. ASSUME NEW v \in Update, NEW t, HasOwn(v, t)', ~HasOwn(v, t)
      PROVE  v = u /\ row.own /\ row.transition = t
  BY <1>2, <1>3, <1>6, <1>9 DEF HasOwn
<1>10. ASSUME NEW t, row.own, row.transition = t PROVE HasOwn(u, t)'
  BY <1>3, <1>7, <1>10 DEF HasOwn
<1> QED
  BY <1>4, <1>8, <1>9, <1>10

-----------------------------------------------------------------------------
(* The invariant of the adapter: what the process with the lock knows of   *)
(* its journal, and what journals and the log say of the board.            *)

Alone == \A a, b \in adapter : a = b

ReconciledWasApplied ==
    \A u \in Update : HasOwn(u, "reconciled") => HasOwn(u, "applied")

(* A journal is of an update that its base does not have, and is closed as *)
(* written only when the log says so too.                                  *)
JournalsTell ==
    \A j \in Journal, u \in Update :
        journals[j] # NoJournal /\ journals[j].update = u =>
            /\ u \notin journals[j].base.marks
            /\ journals[j].phase = "ledger_written" => HasOwn(u, "applied")

(* Until its board is noted a journal is prepared, until its row is in the *)
(* log it is open, and what is replaced is a board with all that is placed.*)
Knows(job) ==
    /\ journals[job.journal] # NoJournal
    /\ journals[job.journal].update = job.update
    /\ journals[job.journal].base = job.base
    /\ job.pc \in {"reread", "replace", "note"} => journals[job.journal].phase = "prepared"
    /\ job.pc = "append" => Open(job.journal)
    /\ job.pc \in {"reconcile", "finish"} => HasOwn(job.update, "applied")
    /\ job.pc = "replace" => placed \subseteq job.base.marks

JobsKnow == \A job \in adapter : Knows(job)

PlacedIsThere == placed \subseteq board.marks

AdapterInv ==
    /\ AdapterTypeOK
    /\ Alone
    /\ ReconciledWasApplied
    /\ JournalsTell
    /\ JobsKnow
    /\ PlacedIsThere
    /\ WrittenIsAccounted

(* Nothing is placed, no journal is written and no row is in the log.      *)
LEMMA AdapterInvInit == BoardInit => AdapterInv
<1> SUFFICES ASSUME BoardInit PROVE AdapterInv
  OBVIOUS
<1> USE DEF BoardInit, AdapterInit, LogInit
<1>1. AdapterTypeOK
  <2>1. board \in BoardFile
    BY DEF BoardFile
  <2>2. lineages \in [Update -> Seq(Row)] /\ adapter \in SUBSET Job /\ placed \subseteq Update
    OBVIOUS
  <2>3. lockFile \in BOOLEAN
    BY Zenon
  <2>4. journals \in [Journal -> [update : Update, base : BoardFile, phase : Phase] \cup {NoJournal}]
    OBVIOUS
  <2> QED
    BY <2>1, <2>2, <2>3, <2>4 DEF AdapterTypeOK
<1>2. \A u \in Update, t \in {"applied", "reconciled"} : ~HasOwn(u, t)
  BY DEF HasOwn
<1> QED
  BY <1>1, <1>2 DEF AdapterInv, Alone, ReconciledWasApplied, JournalsTell, JobsKnow, PlacedIsThere,
     WrittenIsAccounted

-----------------------------------------------------------------------------
(* What a step does to the job, to the journals and to the log.            *)

(* The process with the lock is the only one.                              *)
LEMMA JobFacts ==
    ASSUME AdapterInv, NEW job \in adapter
    PROVE  /\ adapter = {job}
           /\ job \in Job
           /\ Knows(job)
           /\ \A pc : Goes(job, pc) => adapter' = {[job EXCEPT !.pc = pc]}
           /\ Ends(job) => adapter' = {}
<1>1. adapter = {job}
  BY DEF AdapterInv, Alone
<1>2. job \in Job /\ Knows(job)
  BY DEF AdapterInv, AdapterTypeOK, JobsKnow
<1> QED
  BY <1>1, <1>2 DEF Goes, Ends

(* A job that goes on keeps what it is about.                              *)
LEMMA NextFacts ==
    ASSUME NEW job \in Job, NEW next,
           NEW pc \in {"reread", "replace", "note", "append", "reconcile", "finish"},
           next = [job EXCEPT !.pc = pc]
    PROVE  /\ next \in Job /\ next.pc = pc
           /\ next.journal = job.journal /\ next.update = job.update /\ next.base = job.base
           /\ next.recovering = job.recovering
  BY DEF Job

(* What a written journal says; the others stay.                           *)
LEMMA WriteFacts ==
    ASSUME AdapterTypeOK, NEW job \in Job, NEW phase \in Phase, WriteJournal(job, phase)
    PROVE  /\ journals' \in [Journal -> [update : Update, base : BoardFile, phase : Phase] \cup {NoJournal}]
           /\ journals'[job.journal] # NoJournal
           /\ journals'[job.journal].update = job.update
           /\ journals'[job.journal].base = job.base
           /\ journals'[job.journal].phase = phase
           /\ \A j \in Journal : j # job.journal => journals'[j] = journals[j]
<1> DEFINE new == [update |-> job.update, base |-> job.base, phase |-> phase]
<1>1. /\ job.journal \in Journal /\ job.update \in Update /\ job.base \in BoardFile
  BY DEF Job
<1>2. new \in [update : Update, base : BoardFile, phase : Phase]
  BY <1>1
<1>3. journals' = [journals EXCEPT ![job.journal] = new]
  BY DEF WriteJournal
<1>4. new.phase # "none"
  BY DEF Phase
<1>5. new # NoJournal
  BY <1>4 DEF NoJournal
<1> HIDE DEF new
<1>6. journals' \in [Journal -> [update : Update, base : BoardFile, phase : Phase] \cup {NoJournal}]
  BY <1>1, <1>2, <1>3 DEF AdapterTypeOK
<1>7. /\ journals'[job.journal] = new
      /\ \A j \in Journal : j # job.journal => journals'[j] = journals[j]
  BY <1>1, <1>3 DEF AdapterTypeOK
<1>8. new.update = job.update /\ new.base = job.base /\ new.phase = phase
  BY DEF new
<1> QED
  BY <1>5, <1>6, <1>7, <1>8

(* A journal that is there has its fields.                                 *)
LEMMA JournalFacts ==
    ASSUME AdapterTypeOK, NEW j \in Journal, journals[j] # NoJournal
    PROVE  /\ journals[j] \in [update : Update, base : BoardFile, phase : Phase]
           /\ journals[j].update \in Update /\ journals[j].base \in BoardFile
           /\ journals[j].phase \in Phase
  BY DEF AdapterTypeOK

(* The log knows no less afterwards.                                       *)
LogGrows == \A t : \A u \in Update : HasOwn(u, t) => HasOwn(u, t)'

(* A log that stays says the same.                                         *)
LEMMA LogStays ==
    ASSUME UNCHANGED lineages
    PROVE  \A t : \A u \in Update : HasOwn(u, t)' <=> HasOwn(u, t)
  BY DEF HasOwn

(* What nobody but a writer of the journals and the log can disturb.       *)
LEMMA RecordsStay ==
    ASSUME AdapterInv, UNCHANGED journals, LogGrows
    PROVE  /\ JournalsTell'
           /\ \A u \in Update : 
                 (\/ HasOwn(u, "applied")
                  \/ \E j \in Journal : Open(j) /\ journals[j].update = u) =>
                 (\/ HasOwn(u, "applied")
                  \/ \E j \in Journal : Open(j) /\ journals[j].update = u)'
<1>1. JournalsTell
  BY DEF AdapterInv
<1>2. AdapterTypeOK
  BY DEF AdapterInv
<1>3. \A u \in Update : HasOwn(u, "applied") => HasOwn(u, "applied")'
  BY DEF LogGrows
<1>4. \A j \in Journal : Open(j)' <=> Open(j)
  BY DEF Open
<1>5. JournalsTell'
  BY <1>1, <1>2, <1>3, JournalFacts DEF JournalsTell
<1> QED
  BY <1>3, <1>4, <1>5

-----------------------------------------------------------------------------
(* apply_update.                                                           *)

(* The journal that is overwritten was closed, so it accounted for nothing. *)
LEMMA PrepareKeeps ==
    ASSUME AdapterInv, NEW u \in Update, NEW j \in Journal, Prepare(u, j)
    PROVE  AdapterInv'
<1> DEFINE job == [pc |-> "reread", journal |-> j, update |-> u, base |-> board,
                   recovering |-> FALSE]
<1>1. /\ adapter = {} /\ adapter' = {job}
      /\ Patchable(u, board) /\ Vacant(j)
      /\ WriteJournal(job, "prepared")
      /\ lockFile' = TRUE
      /\ UNCHANGED <<board, lineages, placed>>
  BY DEF Prepare, Begins, LockFree
<1>2. /\ AdapterTypeOK /\ ReconciledWasApplied /\ JournalsTell /\ PlacedIsThere
      /\ WrittenIsAccounted
  BY DEF AdapterInv
<1>3. job \in Job
  BY <1>2 DEF AdapterTypeOK, Job
<1>4. /\ job.pc = "reread" /\ job.journal = j /\ job.update = u /\ job.base = board
  OBVIOUS
<1> HIDE DEF job
<1>5. "prepared" \in Phase
  BY DEF Phase
<1>6. /\ journals' \in [Journal -> [update : Update, base : BoardFile, phase : Phase] \cup {NoJournal}]
      /\ journals'[j] # NoJournal
      /\ journals'[j].update = u /\ journals'[j].base = board
      /\ journals'[j].phase = "prepared"
      /\ \A k \in Journal : k # j => journals'[k] = journals[k]
  BY <1>1, <1>2, <1>3, <1>4, <1>5, WriteFacts
<1>7. \A t : \A v \in Update : HasOwn(v, t)' <=> HasOwn(v, t)
  BY <1>1, LogStays
<1>8. AdapterTypeOK'
  <2>1. lockFile' \in BOOLEAN
    BY <1>1, Zenon
  <2> QED
    BY <1>1, <1>2, <1>3, <1>6, <2>1 DEF AdapterTypeOK
<1>9. Alone'
  BY <1>1 DEF Alone
<1>10. ReconciledWasApplied'
  BY <1>2, <1>7 DEF ReconciledWasApplied
<1>11. JournalsTell'
  <2> SUFFICES ASSUME NEW k \in Journal, NEW v \in Update,
                      journals'[k] # NoJournal, journals'[k].update = v
               PROVE  /\ v \notin journals'[k].base.marks
                      /\ journals'[k].phase = "ledger_written" => HasOwn(v, "applied")'
    BY DEF JournalsTell
  <2>1. CASE k = j
    BY <1>1, <1>6, <2>1 DEF Patchable
  <2>2. CASE k # j
    BY <1>2, <1>6, <1>7, <2>2 DEF JournalsTell
  <2> QED
    BY <2>1, <2>2
<1>12. JobsKnow'
  BY <1>1, <1>4, <1>6 DEF JobsKnow, Knows
<1>13. PlacedIsThere'
  BY <1>1, <1>2 DEF PlacedIsThere
<1>14. WrittenIsAccounted'
  <2> SUFFICES ASSUME NEW v \in placed'
               PROVE  \/ HasOwn(v, "applied")'
                      \/ \E k \in Journal : Open(k)' /\ journals'[k].update = v
    BY DEF WrittenIsAccounted
  <2>1. v \in placed /\ v \in Update
    BY <1>1, <1>2 DEF AdapterTypeOK
  <2>2. CASE HasOwn(v, "applied")
    BY <1>7, <2>1, <2>2
  <2>3. ASSUME NEW k \in Journal, Open(k), journals[k].update = v
        PROVE  Open(k)' /\ journals'[k].update = v
    BY <1>1, <1>6, <2>3 DEF Open, Vacant
  <2> QED
    BY <1>2, <2>1, <2>2, <2>3 DEF WrittenIsAccounted
<1> QED
  BY <1>8, <1>9, <1>10, <1>11, <1>12, <1>13, <1>14 DEF AdapterInv

(* A board that is still the base carries what is placed.                  *)
LEMMA RereadKeeps ==
    ASSUME AdapterInv, NEW job \in adapter, Reread(job)
    PROVE  AdapterInv'
<1>1. /\ job.pc = "reread"
      /\ \/ board = job.base /\ adapter' = {[job EXCEPT !.pc = "replace"]}
         \/ adapter' = {}
      /\ UNCHANGED <<board, lineages, journals, lockFile, placed>>
  BY JobFacts DEF Reread
<1>2. job \in Job /\ Knows(job)
  BY JobFacts
<1>3. /\ AdapterTypeOK /\ ReconciledWasApplied /\ PlacedIsThere /\ WrittenIsAccounted
  BY DEF AdapterInv
<1>4. \A t : \A v \in Update : HasOwn(v, t)' <=> HasOwn(v, t)
  BY <1>1, LogStays
<1>5. LogGrows
  BY <1>4 DEF LogGrows
<1>6. AdapterTypeOK'
  <2>1. [job EXCEPT !.pc = "replace"] \in Job
    BY <1>2 DEF Job
  <2> QED
    BY <1>1, <1>3, <2>1 DEF AdapterTypeOK
<1>7. Alone'
  BY <1>1 DEF Alone
<1>8. ReconciledWasApplied'
  BY <1>3, <1>4 DEF ReconciledWasApplied
<1>9. JobsKnow'
  <2> SUFFICES ASSUME adapter' = {[job EXCEPT !.pc = "replace"]}, board = job.base
               PROVE  Knows([job EXCEPT !.pc = "replace"])'
    BY <1>1 DEF JobsKnow
  <2> DEFINE next == [job EXCEPT !.pc = "replace"]
  <2>1. /\ next.pc = "replace" /\ next.journal = job.journal /\ next.update = job.update
        /\ next.base = job.base
    BY <1>2 DEF Job
  <2>2. placed' \subseteq job.base.marks
    BY <1>1, <1>3 DEF PlacedIsThere
  <2> HIDE DEF next
  <2>3. Knows(next)'
    BY <1>1, <1>2, <2>1, <2>2 DEF Knows
  <2> QED
    BY <2>3 DEF next
<1>10. PlacedIsThere'
  BY <1>1, <1>3 DEF PlacedIsThere
<1>11. WrittenIsAccounted'
  BY <1>1, <1>3, <1>5, RecordsStay DEF WrittenIsAccounted, AdapterTypeOK
<1>12. JournalsTell'
  BY <1>1, <1>5, RecordsStay
<1> QED
  BY <1>6, <1>7, <1>8, <1>9, <1>10, <1>11, <1>12 DEF AdapterInv

(* The update that is placed has the prepared journal of its job.          *)
LEMMA ReplaceKeeps ==
    ASSUME AdapterInv, NEW job \in adapter, Replace(job)
    PROVE  AdapterInv'
<1> DEFINE next == [job EXCEPT !.pc = "note"]
<1>1. /\ job.pc = "replace"
      /\ board' = Patched(job.update, job.base)
      /\ placed' = (placed \cap job.base.marks) \cup {job.update}
      /\ adapter' = {next}
      /\ UNCHANGED <<lineages, journals, lockFile>>
  BY JobFacts DEF Replace
<1>2. job \in Job /\ Knows(job)
  BY JobFacts
<1>3. /\ next \in Job /\ next.pc = "note"
      /\ next.journal = job.journal /\ next.update = job.update /\ next.base = job.base
  BY <1>2, NextFacts
<1> HIDE DEF next
<1>4. /\ AdapterTypeOK /\ ReconciledWasApplied /\ WrittenIsAccounted
  BY DEF AdapterInv
<1>5. \A t : \A v \in Update : HasOwn(v, t)' <=> HasOwn(v, t)
  BY <1>1, LogStays
<1>6. LogGrows
  BY <1>5 DEF LogGrows
<1>7. job.journal \in Journal /\ job.update \in Update /\ job.base \in BoardFile
  BY <1>2 DEF Job
<1>8. board' \in BoardFile /\ board'.marks = job.base.marks \cup {job.update}
  BY <1>1, <1>7 DEF BoardFile, Patched
<1>9. AdapterTypeOK'
  BY <1>1, <1>3, <1>4, <1>7, <1>8 DEF AdapterTypeOK
<1>10. Alone'
  BY <1>1 DEF Alone
<1>11. ReconciledWasApplied'
  BY <1>4, <1>5 DEF ReconciledWasApplied
<1>12. JobsKnow'
  BY <1>1, <1>2, <1>3 DEF JobsKnow, Knows
<1>13. PlacedIsThere'
  BY <1>1, <1>8 DEF PlacedIsThere
<1>14. WrittenIsAccounted'
  <2> SUFFICES ASSUME NEW v \in placed'
               PROVE  (\/ HasOwn(v, "applied")
                       \/ \E k \in Journal : Open(k) /\ journals[k].update = v)'
    BY DEF WrittenIsAccounted
  <2>1. CASE v = job.update
    <3>1. Open(job.journal)' /\ journals'[job.journal].update = v
      BY <1>1, <1>2, <2>1 DEF Knows, Open, Closed
    <3> QED
      BY <1>7, <3>1
  <2>2. CASE v \in placed
    BY <1>1, <1>4, <1>6, <2>2, RecordsStay DEF WrittenIsAccounted, AdapterTypeOK
  <2> QED
    BY <1>1, <2>1, <2>2
<1>15. JournalsTell'
  BY <1>1, <1>6, RecordsStay
<1> QED
  BY <1>9, <1>10, <1>11, <1>12, <1>13, <1>14, <1>15 DEF AdapterInv

(* Writing a journal again, as noted while it is open or as written when   *)
(* the log has its row, hides no update.                                   *)
LEMMA RewriteKeeps ==
    ASSUME AdapterInv, NEW job \in adapter, NEW phase \in Phase,
           WriteJournal(job, phase),
           \/ phase = "board_written"
           \/ phase = "ledger_written" /\ HasOwn(job.update, "applied"),
           UNCHANGED <<board, lineages, placed>>
    PROVE  /\ journals' \in [Journal -> [update : Update, base : BoardFile, phase : Phase] \cup {NoJournal}]
           /\ JournalsTell' /\ PlacedIsThere' /\ WrittenIsAccounted' /\ ReconciledWasApplied'
<1>1. job \in Job /\ Knows(job)
  BY JobFacts
<1>2. job.journal \in Journal /\ job.update \in Update
  BY <1>1 DEF Job
<1>3. /\ AdapterTypeOK /\ ReconciledWasApplied /\ JournalsTell /\ PlacedIsThere
      /\ WrittenIsAccounted
  BY DEF AdapterInv
<1>4. /\ journals' \in [Journal -> [update : Update, base : BoardFile, phase : Phase] \cup {NoJournal}]
      /\ journals'[job.journal] # NoJournal
      /\ journals'[job.journal].update = job.update
      /\ journals'[job.journal].base = job.base
      /\ journals'[job.journal].phase = phase
      /\ \A j \in Journal : j # job.journal => journals'[j] = journals[j]
  BY <1>1, <1>3, WriteFacts
<1>5. \A t : \A v \in Update : HasOwn(v, t)' <=> HasOwn(v, t)
  BY LogStays
<1>6. JournalsTell'
  <2> SUFFICES ASSUME NEW k \in Journal, NEW v \in Update,
                      journals'[k] # NoJournal, journals'[k].update = v
               PROVE  /\ v \notin journals'[k].base.marks
                      /\ journals'[k].phase = "ledger_written" => HasOwn(v, "applied")'
    BY DEF JournalsTell
  <2>1. CASE k = job.journal
    <3>1. v = job.update /\ v \notin job.base.marks
      BY <1>1, <1>2, <1>3, <1>4, <2>1 DEF JournalsTell, Knows
    <3> QED
      BY <1>4, <1>5, <2>1, <3>1
  <2>2. CASE k # job.journal
    BY <1>3, <1>4, <1>5, <2>2 DEF JournalsTell
  <2> QED
    BY <2>1, <2>2
<1>7. PlacedIsThere' /\ ReconciledWasApplied'
  BY <1>3, <1>5 DEF PlacedIsThere, ReconciledWasApplied
<1>8. WrittenIsAccounted'
  <2> SUFFICES ASSUME NEW v \in placed'
               PROVE  \/ HasOwn(v, "applied")'
                      \/ \E k \in Journal : Open(k)' /\ journals'[k].update = v
    BY DEF WrittenIsAccounted
  <2>1. v \in placed /\ v \in Update
    BY <1>3 DEF AdapterTypeOK
  <2>2. CASE HasOwn(v, "applied")
    BY <1>5, <2>1, <2>2
  <2>3. ASSUME NEW k \in Journal, Open(k), journals[k].update = v, ~HasOwn(v, "applied")
        PROVE  Open(k)' /\ journals'[k].update = v
    <3>1. CASE k # job.journal
      BY <1>4, <2>3, <3>1 DEF Open
    <3>2. CASE k = job.journal
      <4>1. v = job.update /\ phase = "board_written"
        BY <1>1, <2>3, <3>2 DEF Knows
      <4> QED
        BY <1>4, <3>2, <4>1 DEF Open, Closed
    <3> QED
      BY <3>1, <3>2
  <2> QED
    BY <1>3, <2>1, <2>2, <2>3 DEF WrittenIsAccounted
<1> QED
  BY <1>4, <1>6, <1>7, <1>8

(* A noted journal is as open as a prepared one.                           *)
LEMMA NoteKeeps ==
    ASSUME AdapterInv, NEW job \in adapter, Note(job)
    PROVE  AdapterInv'
<1> DEFINE next == [job EXCEPT !.pc = "append"]
<1>1. /\ WriteJournal(job, "board_written")
      /\ adapter' = {next}
      /\ UNCHANGED <<board, lineages, lockFile, placed>>
  BY JobFacts DEF Note
<1>2. job \in Job
  BY JobFacts
<1>3. /\ next \in Job /\ next.pc = "append"
      /\ next.journal = job.journal /\ next.update = job.update /\ next.base = job.base
  BY <1>2, NextFacts
<1> HIDE DEF next
<1>4. AdapterTypeOK /\ "board_written" \in Phase
  BY DEF AdapterInv, Phase
<1>5. /\ journals' \in [Journal -> [update : Update, base : BoardFile, phase : Phase] \cup {NoJournal}]
      /\ JournalsTell' /\ PlacedIsThere' /\ WrittenIsAccounted' /\ ReconciledWasApplied'
  BY <1>1, <1>4, RewriteKeeps
<1>6. AdapterTypeOK'
  BY <1>1, <1>3, <1>4, <1>5 DEF AdapterTypeOK
<1>7. Alone'
  BY <1>1 DEF Alone
<1>8. JobsKnow'
  <2>1. /\ journals'[job.journal] # NoJournal
        /\ journals'[job.journal].update = job.update
        /\ journals'[job.journal].base = job.base
        /\ journals'[job.journal].phase = "board_written"
    BY <1>1, <1>2, <1>4, WriteFacts
  <2> QED
    BY <1>1, <1>3, <2>1 DEF JobsKnow, Knows, Open, Closed
<1> QED
  BY <1>5, <1>6, <1>7, <1>8 DEF AdapterInv

(* A journal is closed when the log has its row.                           *)
LEMMA FinishKeeps ==
    ASSUME AdapterInv, NEW job \in adapter, Finish(job)
    PROVE  AdapterInv'
<1>1. /\ job.pc = "finish"
      /\ WriteJournal(job, "ledger_written")
      /\ adapter' = {}
      /\ UNCHANGED <<board, lineages, lockFile, placed>>
  BY JobFacts DEF Finish
<1>2. HasOwn(job.update, "applied")
  BY <1>1, JobFacts DEF Knows
<1>3. AdapterTypeOK /\ "ledger_written" \in Phase
  BY DEF AdapterInv, Phase
<1>4. /\ journals' \in [Journal -> [update : Update, base : BoardFile, phase : Phase] \cup {NoJournal}]
      /\ JournalsTell' /\ PlacedIsThere' /\ WrittenIsAccounted' /\ ReconciledWasApplied'
  BY <1>1, <1>2, <1>3, RewriteKeeps
<1> QED
  BY <1>1, <1>3, <1>4 DEF AdapterInv, AdapterTypeOK, Alone, JobsKnow

(* Whatever leaves board, journals and log alone leaves what is said of    *)
(* them.                                                                   *)
LEMMA QuietKeeps ==
    ASSUME AdapterInv, UNCHANGED <<board, lineages, journals, placed>>
    PROVE  JournalsTell' /\ PlacedIsThere' /\ WrittenIsAccounted' /\ ReconciledWasApplied'
<1>1. /\ AdapterTypeOK /\ ReconciledWasApplied /\ PlacedIsThere /\ WrittenIsAccounted
  BY DEF AdapterInv
<1>2. \A t : \A v \in Update : HasOwn(v, t)' <=> HasOwn(v, t)
  BY LogStays
<1>3. LogGrows
  BY <1>2 DEF LogGrows
<1>4. WrittenIsAccounted'
  BY <1>1, <1>3, RecordsStay DEF WrittenIsAccounted, AdapterTypeOK
<1> QED
  BY <1>1, <1>2, <1>3, <1>4, RecordsStay DEF PlacedIsThere, ReconciledWasApplied

(* Neither does a row of the log take anything back.  The adapter writes   *)
(* that an update was reconciled only after it wrote that it was applied.  *)
LEMMA AppendKeeps ==
    ASSUME AdapterInv, NEW u \in Update, NEW row \in Row, AppendRow(u, row),
           row.own /\ row.transition = "reconciled" => HasOwn(u, "applied"),
           UNCHANGED <<board, journals, placed>>
    PROVE  /\ lineages' \in [Update -> Seq(Row)]
           /\ LogGrows
           /\ \A t : row.own /\ row.transition = t => HasOwn(u, t)'
           /\ JournalsTell' /\ PlacedIsThere' /\ WrittenIsAccounted' /\ ReconciledWasApplied'
<1>1. /\ AdapterTypeOK /\ ReconciledWasApplied /\ PlacedIsThere /\ WrittenIsAccounted
  BY DEF AdapterInv
<1>2. /\ lineages' \in [Update -> Seq(Row)]
      /\ \A t : \A v \in Update : HasOwn(v, t) => HasOwn(v, t)'
      /\ \A t : \A v \in Update : HasOwn(v, t)' /\ ~HasOwn(v, t) =>
            v = u /\ row.own /\ row.transition = t
      /\ \A t : row.own /\ row.transition = t => HasOwn(u, t)'
  BY <1>1, LogAppendFacts
<1>3. LogGrows
  BY <1>2 DEF LogGrows
<1>4. WrittenIsAccounted'
  BY <1>1, <1>3, RecordsStay DEF WrittenIsAccounted, AdapterTypeOK
<1>5. ReconciledWasApplied'
  <2> SUFFICES ASSUME NEW v \in Update, HasOwn(v, "reconciled")'
               PROVE  HasOwn(v, "applied")'
    BY DEF ReconciledWasApplied
  <2>1. HasOwn(v, "applied")
    BY <1>1, <1>2 DEF ReconciledWasApplied
  <2> QED
    BY <1>2, <2>1
<1> QED
  BY <1>1, <1>2, <1>3, <1>4, <1>5, RecordsStay DEF PlacedIsThere

(* A row of the adapter is appended, or refused and the job ends.          *)
LEMMA AppendOwnKeeps ==
    ASSUME AdapterInv, NEW job \in adapter,
           NEW transition \in {"applied", "reconciled"}, NEW pc \in {"reconcile", "finish"},
           transition = "reconciled" => HasOwn(job.update, "applied"),
           AppendOwn(job, transition, pc)
    PROVE  AdapterInv'
<1> DEFINE row == OwnRow(job.base, transition)
           next == [job EXCEPT !.pc = pc]
<1>1. /\ job \in Job /\ Knows(job)
  BY JobFacts
<1>2. /\ \/ AppendRow(job.update, row) /\ adapter' = {next}
         \/ adapter' = {} /\ UNCHANGED lineages
      /\ UNCHANGED <<board, journals, lockFile, placed>>
  BY JobFacts DEF AppendOwn
<1>3. /\ next \in Job /\ next.pc = pc
      /\ next.journal = job.journal /\ next.update = job.update /\ next.base = job.base
  BY <1>1, NextFacts
<1> HIDE DEF next
<1>4. /\ row \in Row /\ row.own /\ row.transition = transition
      /\ job.update \in Update
  BY <1>1 DEF OwnRow, Row, Job
<1> HIDE DEF row
<1>5. AdapterTypeOK
  BY DEF AdapterInv
<1>6. CASE AppendRow(job.update, row) /\ adapter' = {next}
  <2>1. /\ lineages' \in [Update -> Seq(Row)]
        /\ LogGrows
        /\ \A t : row.own /\ row.transition = t => HasOwn(job.update, t)'
        /\ JournalsTell' /\ PlacedIsThere' /\ WrittenIsAccounted' /\ ReconciledWasApplied'
    BY <1>2, <1>4, <1>6, AppendKeeps
  <2>2. HasOwn(job.update, "applied")'
    <3>1. CASE transition = "applied"
      BY <1>4, <2>1, <3>1
    <3>2. CASE transition = "reconciled"
      BY <1>4, <2>1, <3>2 DEF LogGrows
    <3> QED
      BY <3>1, <3>2
  <2>3. JobsKnow'
    <3>1. Knows(next)'
      BY <1>1, <1>2, <1>3, <2>2 DEF Knows
    <3> QED
      BY <1>6, <3>1 DEF JobsKnow
  <2>4. AdapterTypeOK'
    BY <1>2, <1>3, <1>5, <1>6, <2>1 DEF AdapterTypeOK
  <2> QED
    BY <1>6, <2>1, <2>3, <2>4 DEF AdapterInv, Alone
<1>7. CASE adapter' = {} /\ UNCHANGED lineages
  <2>1. JournalsTell' /\ PlacedIsThere' /\ WrittenIsAccounted' /\ ReconciledWasApplied'
    BY <1>2, <1>7, QuietKeeps
  <2> QED
    BY <1>2, <1>5, <1>7, <2>1 DEF AdapterInv, AdapterTypeOK, Alone, JobsKnow
<1> QED
  BY <1>2, <1>6, <1>7

(* An update is reconciled by a recovery that found it applied.            *)
LEMMA AppendsKeep ==
    ASSUME AdapterInv, NEW job \in adapter, AppendApplied(job) \/ AppendReconciled(job)
    PROVE  AdapterInv'
<1>1. CASE AppendApplied(job)
  BY <1>1, AppendOwnKeeps DEF AppendApplied
<1>2. CASE AppendReconciled(job)
  <2>1. HasOwn(job.update, "applied")
    BY <1>2, JobFacts DEF AppendReconciled, Knows
  <2> QED
    BY <1>2, <2>1, AppendOwnKeeps DEF AppendReconciled
<1> QED
  BY <1>1, <1>2

-----------------------------------------------------------------------------
(* recover.                                                                *)

(* Closing a journal from outside: nothing of it is on the board, or the   *)
(* log has its row.                                                        *)
LEMMA CloseKeeps ==
    ASSUME AdapterInv, NEW j \in Journal, journals[j] # NoJournal, adapter = {},
           NEW phase \in Phase, journals' = [journals EXCEPT ![j].phase = phase],
           \/ phase = "resolved_pre_write" /\ journals[j].update \notin placed
           \/ phase = "ledger_written" /\ HasOwn(journals[j].update, "applied"),
           lockFile' = TRUE, UNCHANGED <<board, lineages, adapter, placed>>
    PROVE  AdapterInv'
<1>1. /\ AdapterTypeOK /\ ReconciledWasApplied /\ JournalsTell /\ PlacedIsThere
      /\ WrittenIsAccounted
  BY DEF AdapterInv
<1>2. /\ journals[j] \in [update : Update, base : BoardFile, phase : Phase]
      /\ journals[j].update \in Update
  BY <1>1, JournalFacts
<1> DEFINE new == [journals[j] EXCEPT !.phase = phase]
<1>3. /\ new \in [update : Update, base : BoardFile, phase : Phase]
      /\ new.update = journals[j].update /\ new.base = journals[j].base /\ new.phase = phase
  BY <1>2
<1>4. journals' = [journals EXCEPT ![j] = new]
  OBVIOUS
<1> HIDE DEF new
<1>5. /\ journals' \in [Journal -> [update : Update, base : BoardFile, phase : Phase] \cup {NoJournal}]
      /\ journals'[j] = new
      /\ \A k \in Journal : k # j => journals'[k] = journals[k]
  BY <1>1, <1>3, <1>4 DEF AdapterTypeOK
<1>6. \A t : \A v \in Update : HasOwn(v, t)' <=> HasOwn(v, t)
  BY LogStays
<1>7. AdapterTypeOK'
  <2>1. lockFile' \in BOOLEAN
    BY Zenon
  <2> QED
    BY <1>1, <1>5, <2>1 DEF AdapterTypeOK
<1>8. JournalsTell'
  <2> SUFFICES ASSUME NEW k \in Journal, NEW v \in Update,
                      journals'[k] # NoJournal, journals'[k].update = v
               PROVE  /\ v \notin journals'[k].base.marks
                      /\ journals'[k].phase = "ledger_written" => HasOwn(v, "applied")'
    BY DEF JournalsTell
  <2>1. CASE k = j
    BY <1>1, <1>3, <1>5, <1>6, <2>1 DEF JournalsTell
  <2>2. CASE k # j
    BY <1>1, <1>5, <1>6, <2>2 DEF JournalsTell
  <2> QED
    BY <2>1, <2>2
<1>9. WrittenIsAccounted'
  <2> SUFFICES ASSUME NEW v \in placed'
               PROVE  \/ HasOwn(v, "applied")'
                      \/ \E k \in Journal : Open(k)' /\ journals'[k].update = v
    BY DEF WrittenIsAccounted
  <2>1. v \in placed /\ v \in Update
    BY <1>1 DEF AdapterTypeOK
  <2>2. CASE HasOwn(v, "applied")
    BY <1>6, <2>1, <2>2
  <2>3. ASSUME NEW k \in Journal, Open(k), journals[k].update = v, ~HasOwn(v, "applied")
        PROVE  Open(k)' /\ journals'[k].update = v
    <3>1. k # j
      BY <2>1, <2>3
    <3> QED
      BY <1>5, <2>3, <3>1 DEF Open
  <2> QED
    BY <1>1, <2>1, <2>2, <2>3 DEF WrittenIsAccounted
<1> QED
  BY <1>1, <1>6, <1>7, <1>8, <1>9 DEF AdapterInv, Alone, JobsKnow, PlacedIsThere, ReconciledWasApplied

(* A board that is the base of a journal does not have its update.         *)
LEMMA ResolveKeeps ==
    ASSUME AdapterInv, NEW j \in Journal, ResolveUnwritten(j)
    PROVE  AdapterInv'
<1>1. /\ journals[j] # NoJournal /\ adapter = {} /\ lockFile' = TRUE
      /\ board = journals[j].base
      /\ journals' = [journals EXCEPT ![j].phase = "resolved_pre_write"]
      /\ UNCHANGED <<board, lineages, adapter, placed>>
  BY DEF ResolveUnwritten, Examines, Untouched, LockFree
<1>2. AdapterTypeOK /\ JournalsTell /\ PlacedIsThere
  BY DEF AdapterInv
<1>3. journals[j].update \in Update
  BY <1>1, <1>2, JournalFacts
<1>4. journals[j].update \notin board.marks
  BY <1>1, <1>2, <1>3 DEF JournalsTell
<1>5. journals[j].update \notin placed
  BY <1>2, <1>4 DEF PlacedIsThere
<1>6. "resolved_pre_write" \in Phase
  BY DEF Phase
<1> QED
  BY <1>1, <1>5, <1>6, CloseKeeps

(* An update that was reconciled was applied.                              *)
LEMMA ConfirmKeeps ==
    ASSUME AdapterInv, NEW j \in Journal, Confirm(j)
    PROVE  AdapterInv'
<1>1. /\ journals[j] # NoJournal /\ adapter = {} /\ lockFile' = TRUE
      /\ HasOwn(journals[j].update, "reconciled")
      /\ journals' = [journals EXCEPT ![j].phase = "ledger_written"]
      /\ UNCHANGED <<board, lineages, adapter, placed>>
  BY DEF Confirm, Examines, LockFree
<1>2. AdapterTypeOK /\ ReconciledWasApplied
  BY DEF AdapterInv
<1>3. journals[j].update \in Update
  BY <1>1, <1>2, JournalFacts
<1>4. HasOwn(journals[j].update, "applied")
  BY <1>1, <1>2, <1>3 DEF ReconciledWasApplied
<1>5. "ledger_written" \in Phase
  BY DEF Phase
<1> QED
  BY <1>1, <1>4, <1>5, CloseKeeps

(* A journal that owes its applied row is open.                            *)
LEMMA TakeUpKeeps ==
    ASSUME AdapterInv, NEW j \in Journal, TakeUp(j)
    PROVE  AdapterInv'
<1>u. PICK u : u = journals[j].update
  OBVIOUS
<1>job. PICK job : job = [pc |-> Owes(u), journal |-> j, update |-> u, base |-> journals[j].base,
                          recovering |-> TRUE]
  OBVIOUS
<1>1. /\ journals[j] # NoJournal /\ adapter = {} /\ adapter' = {job} /\ lockFile' = TRUE
      /\ journals[j].phase # "resolved_pre_write"
      /\ UNCHANGED <<board, lineages, journals, placed>>
  BY <1>u, <1>job DEF TakeUp, Examines, Begins, Landed, LockFree
<1>2. AdapterTypeOK /\ JournalsTell
  BY DEF AdapterInv
<1>3. u \in Update /\ journals[j].base \in BoardFile
  BY <1>u, <1>1, <1>2, JournalFacts
<1>4. /\ job.pc = Owes(u) /\ job.journal = j /\ job.update = u /\ job.base = journals[j].base
  BY <1>job
<1>5. \/ Owes(u) = "reconcile" /\ HasOwn(u, "applied")
      \/ Owes(u) = "append" /\ ~HasOwn(u, "applied")
  BY DEF Owes
<1>6. job \in Job
  BY <1>job, <1>3, <1>5 DEF Job
<1>7. ~HasOwn(u, "applied") => Open(j)
  BY <1>u, <1>1, <1>2, <1>3 DEF JournalsTell, Open, Closed
<1>8. Knows(job)
  BY <1>u, <1>1, <1>4, <1>5, <1>7 DEF Knows
<1>9. Knows(job)'
  <2>1. HasOwn(job.update, "applied")' <=> HasOwn(job.update, "applied")
    BY <1>1, <1>3, <1>4, LogStays
  <2> QED
    BY <1>1, <1>8, <2>1 DEF Knows, Open
<1>10. AdapterTypeOK'
  <2>1. lockFile' \in BOOLEAN
    BY <1>1, Zenon
  <2> QED
    BY <1>1, <1>2, <1>6, <2>1 DEF AdapterTypeOK
<1> QED
  BY <1>1, <1>9, <1>10, QuietKeeps DEF AdapterInv, Alone, JobsKnow

-----------------------------------------------------------------------------
(* Ends, refusals and the others.                                          *)

(* A killed process leaves its journal behind.                             *)
LEMMA KillKeeps ==
    ASSUME AdapterInv, NEW job \in adapter, KillAdapter(job)
    PROVE  AdapterInv'
<1>1. adapter' = {} /\ UNCHANGED <<board, lineages, journals, lockFile, placed>>
  BY JobFacts DEF KillAdapter
<1> QED
  BY <1>1, QuietKeeps DEF AdapterInv, AdapterTypeOK, Alone, JobsKnow

(* What a job knows it still knows when the log has grown and no more is   *)
(* placed.                                                                 *)
LEMMA KnowledgeStays ==
    ASSUME AdapterInv, UNCHANGED <<journals, adapter>>, LogGrows, placed' \subseteq placed
    PROVE  JobsKnow' /\ Alone'
<1>1. \A job \in adapter : job.update \in Update /\ Knows(job)
  BY DEF AdapterInv, AdapterTypeOK, JobsKnow, Job
<1>2. ASSUME NEW job \in adapter PROVE Knows(job)'
  BY <1>1, <1>2 DEF Knows, Open, LogGrows
<1>3. Alone'
  BY DEF AdapterInv, Alone
<1> QED
  BY <1>2, <1>3 DEF JobsKnow

(* A refused call leaves the lock file only.                               *)
LEMMA RefuseKeeps ==
    ASSUME AdapterInv, Refuse
    PROVE  AdapterInv'
<1>1. lockFile' = TRUE /\ UNCHANGED <<board, lineages, journals, adapter, placed>>
  BY DEF Refuse
<1>2. LogGrows
  BY <1>1 DEF LogGrows, HasOwn
<1>3. AdapterTypeOK'
  <2>1. lockFile' \in BOOLEAN
    BY <1>1, Zenon
  <2> QED
    BY <1>1, <2>1 DEF AdapterInv, AdapterTypeOK
<1>4. JobsKnow' /\ Alone'
  BY <1>1, <1>2, KnowledgeStays
<1> QED
  BY <1>1, <1>3, <1>4, QuietKeeps DEF AdapterInv

(* Rows of others carry none of the identifiers of the adapter.            *)
LEMMA ProposeKeeps ==
    ASSUME AdapterInv, NEW u \in Update, Propose(u)
    PROVE  AdapterInv'
<1>1. AdapterTypeOK
  BY DEF AdapterInv
<1>2. PICK row :
        /\ row.own = FALSE
        /\ row.base = IF lineages[u] = <<>> THEN board ELSE Newest(u).base
        /\ row = [transition |-> row.transition, decision |-> row.decision,
                  base |-> row.base, replacement |-> row.replacement, own |-> row.own]
        /\ AppendRow(u, row)
  BY DEF Propose, AppendByHand
<1>3. row.base \in BoardFile
  <2>1. CASE lineages[u] = <<>>
    BY <1>1, <1>2, <2>1 DEF AdapterTypeOK
  <2>2. CASE lineages[u] # <<>>
    <3>1. Newest(u) \in Row
      BY <1>1, <2>2, NewestFacts
    <3> QED
      BY <1>2, <2>2, <3>1 DEF Row
  <2> QED
    BY <2>1, <2>2
<1>4. row.own \in BOOLEAN
  BY <1>2, Zenon
<1>5. row \in Row
  BY <1>1, <1>2, <1>3, <1>4, AdmittedFacts DEF AppendRow
<1>6. UNCHANGED <<board, journals, lockFile, adapter, placed>>
  BY DEF Propose
<1>7. /\ lineages' \in [Update -> Seq(Row)]
      /\ LogGrows
      /\ JournalsTell' /\ PlacedIsThere' /\ WrittenIsAccounted' /\ ReconciledWasApplied'
  BY <1>2, <1>5, <1>6, AppendKeeps
<1>8. JobsKnow' /\ Alone'
  BY <1>6, <1>7, KnowledgeStays
<1>9. AdapterTypeOK'
  BY <1>1, <1>6, <1>7 DEF AdapterTypeOK
<1> QED
  BY <1>7, <1>8, <1>9 DEF AdapterInv

(* A board that keeps no less of what is placed than is said to be placed. *)
LEMMA OverwriteKeeps ==
    ASSUME AdapterInv, board' \in BoardFile, placed' \subseteq placed, placed' \subseteq board'.marks,
           UNCHANGED <<lineages, journals, lockFile, adapter>>
    PROVE  AdapterInv'
<1>1. AdapterTypeOK /\ ReconciledWasApplied /\ WrittenIsAccounted
  BY DEF AdapterInv
<1>2. \A t : \A v \in Update : HasOwn(v, t)' <=> HasOwn(v, t)
  BY LogStays
<1>3. LogGrows
  BY <1>2 DEF LogGrows
<1>4. AdapterTypeOK'
  BY <1>1 DEF AdapterTypeOK
<1>5. JobsKnow' /\ Alone'
  BY <1>3, KnowledgeStays
<1>6. ReconciledWasApplied'
  BY <1>1, <1>2 DEF ReconciledWasApplied
<1>7. WrittenIsAccounted'
  BY <1>1, <1>3, RecordsStay DEF WrittenIsAccounted, AdapterTypeOK
<1>8. JournalsTell' /\ PlacedIsThere'
  BY <1>3, RecordsStay DEF PlacedIsThere
<1> QED
  BY <1>4, <1>5, <1>6, <1>7, <1>8 DEF AdapterInv

(* GoalBuddy takes off what it takes off.                                  *)
LEMMA EditKeeps ==
    ASSUME AdapterInv, NEW m \in Mark, Edit(m)
    PROVE  AdapterInv'
<1>1. board \in BoardFile /\ placed \subseteq board.marks
  BY DEF AdapterInv, AdapterTypeOK, PlacedIsThere
<1>2. /\ board' \in BoardFile
      /\ placed' \subseteq board'.marks
      /\ placed' \subseteq placed
      /\ UNCHANGED <<lineages, journals, lockFile, adapter>>
  BY <1>1 DEF Edit, BoardFile
<1> QED
  BY <1>2, OverwriteKeeps

(* The migration puts back the marks that its source has, and no others.   *)
LEMMA ReplaceStateKeeps ==
    ASSUME AdapterInv, MigrationTypeOK, ReplaceState
    PROVE  AdapterInv'
<1>1. migrator.source \in BoardFile
  BY DEF MigrationTypeOK, ReplaceState, Migrating
<1>2. /\ board' \in BoardFile
      /\ placed' \subseteq board'.marks
      /\ placed' \subseteq placed
      /\ UNCHANGED <<lineages, journals, lockFile, adapter>>
  BY <1>1 DEF ReplaceState, Migrated, BoardFile
<1> QED
  BY <1>2, OverwriteKeeps

(* The other steps of the migration do not concern the adapter.            *)
LEMMA StutterKeeps ==
    ASSUME AdapterInv, UNCHANGED adapterVars
    PROVE  AdapterInv'
<1>1. UNCHANGED <<board, lineages, journals, lockFile, adapter, placed>>
  BY DEF adapterVars
<1>2. board \in BoardFile /\ placed \subseteq board.marks
  BY DEF AdapterInv, AdapterTypeOK, PlacedIsThere
<1> QED
  BY <1>1, <1>2, OverwriteKeeps

-----------------------------------------------------------------------------
(* The migration's files and processes stay in their ranges.               *)
LEMMA MigrationTyped ==
    ASSUME MigrationTypeOK, board \in BoardFile, BoardNext
    PROVE  MigrationTypeOK'
<1> USE DEF MigrationTypeOK
<1> DEFINE Pc == {"journal", "adopt", "prepare", "compare", "replace", "note", "complete"}
           MPhase == {"backup_ready", "state_prepared", "state_replaced", "complete"}
<1>1. \A pc \in Pc, phase \in MPhase :
        /\ migrator # Idle /\ Proceeds(pc) => migrator' \in [pc : Pc, source : BoardFile] \cup {Idle}
        /\ Stops => migrator' \in [pc : Pc, source : BoardFile] \cup {Idle}
        /\ migrator # Idle /\ Phases(phase) =>
             migration' \in [source : BoardFile, phase : MPhase] \cup {NoMigration}
  BY DEF Proceeds, Stops, Phases
<1>2. CASE WritesSidecar
  BY <1>2 DEF WritesSidecar, sidecarVars
<1>3. CASE LeavesSidecar
  BY <1>3 DEF LeavesSidecar, migrationVars
<1>4. CASE EditSome
  BY <1>4 DEF EditSome, migrationVars
<1>5. CASE Kill
  BY <1>1, <1>5 DEF Kill, KillMigrator, sidecarVars
<1>6. CASE MigrationStarts
  BY <1>6 DEF MigrationStarts, BackUp, Adopt
<1>7. CASE MigrationResumes
  BY <1>7 DEF MigrationResumes, Resume
<1>8. CASE MigrationWorks
  <2>1. CASE WriteMigration
    BY <1>1, <2>1 DEF WriteMigration, Migrating
  <2>2. CASE PrepareState
    BY <1>1, <2>2 DEF PrepareState, Migrating
  <2>3. CASE Compare
    BY <1>1, <2>3 DEF Compare, Migrating
  <2>4. CASE ReplaceState
    BY <1>1, <2>4 DEF ReplaceState, Migrating
  <2>5. CASE NoteReplaced
    BY <1>1, <2>5 DEF NoteReplaced, Migrating
  <2>6. CASE Complete
    BY <1>1, <2>6 DEF Complete, Migrating
  <2>7. CASE AdoptBackup
    BY <1>1, <2>7 DEF AdoptBackup, Migrating
  <2> QED
    BY <1>8, <2>1, <2>2, <2>3, <2>4, <2>5, <2>6, <2>7 DEF MigrationWorks
<1>9. WritesSidecar \/ LeavesSidecar \/ EditSome \/ Kill
        \/ MigrationStarts \/ MigrationResumes \/ MigrationWorks
  BY DEF BoardNext, Apply, WorkSome, Work, RecoverJournal, RefuseSome, ProposeSome
<1> QED
  BY <1>2, <1>3, <1>4, <1>5, <1>6, <1>7, <1>8, <1>9

BoardInv == AdapterInv /\ MigrationTypeOK

(* Every step of the adapter, of the others and of the migration keeps it. *)
LEMMA BoardInvStep == BoardInv /\ [BoardNext]_boardVars => BoardInv'
<1> SUFFICES ASSUME BoardInv, [BoardNext]_boardVars PROVE BoardInv'
  OBVIOUS
<1> USE DEF BoardInv
<1>1. CASE UNCHANGED boardVars
  <2>1. UNCHANGED adapterVars /\ UNCHANGED migrationVars
    BY <1>1 DEF boardVars
  <2>2. MigrationTypeOK'
    BY <2>1 DEF MigrationTypeOK, migrationVars
  <2> QED
    BY <2>1, <2>2, StutterKeeps
<1>2. CASE BoardNext
  <2>1. MigrationTypeOK'
    BY <1>2, MigrationTyped DEF AdapterInv, AdapterTypeOK
  <2> SUFFICES AdapterInv'
    BY <2>1
  <2>2. CASE Apply
    BY <2>2, PrepareKeeps DEF Apply
  <2>3. CASE WorkSome
    BY <2>3, RereadKeeps, ReplaceKeeps, NoteKeeps, FinishKeeps, AppendsKeep DEF WorkSome, Work
  <2>4. CASE \E j \in Journal : RecoverJournal(j)
    BY <2>4, TakeUpKeeps, ResolveKeeps, ConfirmKeeps DEF RecoverJournal
  <2>5. CASE RefuseSome
    BY <2>5, RefuseKeeps DEF RefuseSome
  <2>6. CASE ProposeSome
    BY <2>6, ProposeKeeps DEF ProposeSome
  <2>7. CASE EditSome
    BY <2>7, EditKeeps DEF EditSome
  <2>8. CASE Kill
    BY <2>8, KillKeeps, StutterKeeps DEF Kill, KillMigrator
  <2>9. CASE MigrationStarts \/ MigrationResumes
    BY <2>9, StutterKeeps DEF MigrationStarts, MigrationResumes, BackUp, Adopt, Resume
  <2>10. CASE MigrationWorks
    BY <2>10, StutterKeeps, ReplaceStateKeeps
    DEF MigrationWorks, WriteMigration, PrepareState, Compare, NoteReplaced, Complete, AdoptBackup
  <2> QED
    BY <1>2, <2>2, <2>3, <2>4, <2>5, <2>6, <2>7, <2>8, <2>9, <2>10 DEF BoardNext
<1> QED
  BY <1>1, <1>2

(* The invariant of the whole board.                                       *)
LEMMA BoardInvHolds == BoardSpec => []BoardInv
<1>1. BoardInit => BoardInv
  <2>1. BoardInit => MigrationTypeOK
    BY DEF BoardInit, MigrationInit, MigrationTypeOK
  <2> QED
    BY <2>1, AdapterInvInit DEF BoardInv
<1> QED
  BY <1>1, BoardInvStep, PTL DEF BoardSpec

(* What the adapter put on the board, and nobody took off it, has its own  *)
(* applied row in the log or an open journal that recovery will take up,   *)
(* whatever was killed between the five writes of an application and       *)
(* whatever others did to board and log.                                   *)
THEOREM EveryWriteAccounted == BoardSpec => []WrittenIsAccounted
<1>1. BoardInv => WrittenIsAccounted
  BY DEF BoardInv, AdapterInv
<1> QED
  BY <1>1, BoardInvHolds, PTL

(* The board that an application replaces carries every update that the    *)
(* adapter has on it: its lock is held from the comparison to the write.   *)
THEOREM NoApplicationIsLost == BoardSpec => []NoApplicationLost
<1>1. BoardInv => NoApplicationLost
  BY DEF BoardInv, AdapterInv, JobsKnow, Knows, NoApplicationLost
<1> QED
  BY <1>1, BoardInvHolds, PTL
=============================================================================
