------------------------- MODULE MCSupervisorRecovery -------------------------
(***************************************************************************)
(* Instances of SupervisorRecovery: two processes that overlap and crash   *)
(* on a short script of events, and one process that crashes while two     *)
(* lanes go through their lifecycle and one repair.                        *)
(***************************************************************************)
EXTENDS SupervisorRecovery, TLC

CONSTANTS laneA, laneB, a1, a2, b1, b2

Work(lane, scope, artifact, cap) ==
    [lane |-> lane, writes |-> TRUE, scope |-> scope, artifact |-> artifact,
     cap |-> cap, needs |-> {}]
MCTerms == a1 :> Work(laneA, {"x"}, "p1", 1) @@
           a2 :> Work(laneA, {"x"}, "p2", 1) @@
           b1 :> Work(laneB, {"x", "y"}, "p3", 0) @@
           b2 :> [Work(laneB, {"y"}, "p3", 0) EXCEPT !.needs = {laneA}]

Says(type, lane, value, artifact) ==
    [type |-> type, lane |-> lane, value |-> value, artifact |-> artifact]
Passes(type, lane) == Says(type, lane, "pass", Nothing)

(* Lane B may start once the Worker of lane A reported needs_reassignment, *)
(* and then stands in the way of the repair of lane A; or it follows lane A,*)
(* which its other assignment depends on.                                  *)
LifeContent == [
    assign |-> Says("assignment_created", laneA, a1, Nothing),
    route |-> Says("route_resolved", laneA, Nothing, Nothing),
    work |-> Says("worker_result", laneA, "needs_reassignment", "p1"),
    fail |-> Says("worker_self_test", laneA, "fail", Nothing),
    reassign |-> Says("assignment_created", laneA, a2, Nothing),
    reroute |-> Says("route_resolved", laneA, Nothing, Nothing),
    repair |-> Says("repair_result", laneA, "ready_for_review", "p2"),
    pass |-> Passes("worker_self_test", laneA),
    test |-> Passes("independent_test", laneA),
    document |-> Passes("documentation_result", laneA),
    audit |-> Passes("audit_result", laneA),
    refuse |-> Says("audit_result", laneA, "fail", Nothing),
    close |-> Says("candidate_closeout", laneA, Nothing, Nothing),
    assignB |-> Says("assignment_created", laneB, b1, Nothing),
    routeB |-> Says("route_resolved", laneB, Nothing, Nothing),
    workB |-> Says("worker_result", laneB, "waiting_external", "p3"),
    follow |-> Says("assignment_created", laneB, b2, Nothing)]

MCEvent == DOMAIN LifeContent
ShortContent == [e \in {"assign", "route", "work"} |-> LifeContent[e]]

MCOrder == [c \in {"reconcile", "pause", "resume", "revise", "authorize", "acknowledge", "stop", "cursor"} |->
    [type |-> c, revision |-> "revise", lane |-> laneA, predecessor |-> a1, repair |-> a2,
     artifact |-> "p2", scope |-> {"x"}]]
===============================================================================
