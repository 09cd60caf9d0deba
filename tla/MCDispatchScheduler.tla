------------------------- MODULE MCDispatchScheduler -------------------------
(* The instance of DispatchScheduler for TLC.                              *)
EXTENDS DispatchScheduler, TLC

CONSTANTS t1, t2, e1, e2, e3, e4, r1, r2, v1, v2, v3, v4, l1, l2, l3

Ask(task, writer, scope, displacement, independent, excluded) ==
    [task |-> task, writer |-> writer, scope |-> scope,
     displacement |-> displacement, independent |-> independent,
     excluded |-> excluded, allowance |-> "standard", cash |-> FALSE,
     enqueued |-> 0, maxAge |-> 4, deadline |-> 9]

Candidate(r, v) == [route |-> r, evidence |-> v]

Shared(limit, units, tokens, group) ==
    [provider |-> "p", host |-> "h", group |-> group, limit |-> limit,
     units |-> units, tokens |-> tokens, cash |-> FALSE]

MCRouteInfo == r1 :> Shared(1, 1, {1}, "g1") @@ r2 :> Shared(2, 2, {2}, "g2")

(* Everything that competes for a lease at once: a displaceable           *)
(* independent reader and three writers, two of which overlap and two of   *)
(* which belong to the reader's task, on allowances and routes that not    *)
(* all of them fit; the fourth offers the reader's evidence path again.    *)
MixEnvelopeInfo ==
    e1 :> Ask(t1, FALSE, {}, 1, TRUE, {"g2"}) @@
    e2 :> Ask(t1, TRUE, {"a"}, 0, FALSE, {}) @@
    e3 :> [Ask(t2, TRUE, {"c", "a"}, 0, FALSE, {}) EXCEPT !.allowance = "small"] @@
    e4 :> [Ask(t1, TRUE, {"d"}, 0, FALSE, {}) EXCEPT !.allowance = "small"]

MixOffers ==
    e1 :> {<<Candidate(r1, v1), Candidate(r2, v1)>>} @@
    e2 :> {<<Candidate(r1, v2)>>} @@
    e3 :> {<<Candidate(r2, v3)>>} @@
    e4 :> {<<Candidate(r1, v1)>>}

MixPolicy ==
    [ttl |-> 1, maxQueueAge |-> 4, globalLimit |-> 3, directWrites |-> TRUE,
     boardWriters |-> 3, configWriters |-> 2,
     providerLimit |-> [p |-> 3], hostLimit |-> [h |-> 2],
     allowance |-> [standard |-> 3, small |-> 2], tokenCapacity |-> {4}, diversityMin |-> 1]
=============================================================================
