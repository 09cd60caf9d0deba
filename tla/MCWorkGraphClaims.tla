-------------------------- MODULE MCWorkGraphClaims --------------------------
(* Instances of WorkGraphClaims: two items, one of which reads below what  *)
(* the other writes, two attempts each, and a graph that blocks the second *)
(* item until the first is satisfied beside one that does not.             *)
EXTENDS WorkGraphClaims, TLC

CONSTANTS i1, i2, q1, q2, q3, q4, h1, h2, b1

Root == <<"src">>
Leaf == <<"src", "leaf">>

Snapshot(satisfied, blockers, attempts) ==
    [board |-> b1, satisfied |-> satisfied, schedulable |-> Item,
     blockedBy |-> (i1 :> {} @@ i2 :> blockers),
     consumes |-> [i \in Item |-> {}], validated |-> {},
     reads |-> (i1 :> {Leaf} @@ i2 :> {}),
     writes |-> (i1 :> {} @@ i2 :> {Root}),
     maxAttempts |-> [i \in Item |-> attempts]]

Paths == {Root, Leaf}
TwoAttempts == {Snapshot({}, {}, 2), Snapshot({i1}, {i1}, 2)}
=============================================================================
