--------------------------- MODULE MCBoundDispatch ---------------------------
(* An instance of BoundDispatch for TLC: two writers of one task with      *)
(* overlapping scopes on one route.                                        *)
EXTENDS BoundDispatch, TLC

CONSTANTS t1, e1, e2, r1, v1, v2, l1, l2, o1, o2

Symmetry == Permutations(LeaseId) \cup Permutations(Owner)

Ask(scope) ==
    [task |-> t1, writer |-> TRUE, scope |-> scope, displacement |-> 0,
     independent |-> FALSE, excluded |-> {}, allowance |-> "standard",
     cash |-> FALSE, enqueued |-> 0, maxAge |-> 9, deadline |-> 9]

BoundEnvelopeInfo == e1 :> Ask({"a"}) @@ e2 :> Ask({"a", "b"})

BoundOffers ==
    e1 :> {<<>>, <<[route |-> r1, evidence |-> v1]>>} @@
    e2 :> {<<>>, <<[route |-> r1, evidence |-> v2]>>}

BoundRouteInfo ==
    r1 :> [provider |-> "p", host |-> "h", group |-> "g", limit |-> 2,
           units |-> 1, tokens |-> {}, cash |-> FALSE]

BoundPolicy ==
    [ttl |-> 2, maxQueueAge |-> 9, globalLimit |-> 2, directWrites |-> TRUE,
     boardWriters |-> 2, configWriters |-> 2, providerLimit |-> [p |-> 2],
     hostLimit |-> [h |-> 2], allowance |-> [standard |-> 2],
     tokenCapacity |-> {}, diversityMin |-> 1]
=============================================================================
