---------------------------- MODULE SupervisorLanes ----------------------------
(***************************************************************************)
(* The lanes of the GoalBuddy Supervisor loop (run_goalbuddy_supervisor.py)*)
(* as functions of the runtime state: which event the loop accepts and     *)
(* what it makes of it.  transition_runtime is pure; the modules that read *)
(* and write files use these definitions.                                  *)
(*                                                                         *)
(* An event file is an identity whose content is fixed.  Artifacts are     *)
(* paths, write scopes are sets of files, and everything about an event    *)
(* that no lane rule reads (routes, command rows, digests) is left out.    *)
(***************************************************************************)
EXTENDS Naturals, FiniteSets

CONSTANTS
    Lane,
    Assignment,
    Event,          \* event files
    Terms,          \* what each assignment says
    Content,        \* what each event file says
    MaxWriters      \* write Workers the board allows, at most two

Paths == {Terms[a].artifact : a \in Assignment} \cup {Content[e].artifact : e \in Event}
Initial == "assigned"
Repairing == "repair_assigned"

(* The verification ladder: from which phase an event leads to which.      *)
Ladder == {
    <<"route_resolved", Initial, "routed">>,
    <<"route_resolved", Repairing, "repair_routed">>,
    <<"worker_result", "routed", "result_received">>,
    <<"repair_result", "repair_routed", "repair_result_received">>,
    <<"worker_self_test", "result_received", "self_tested">>,
    <<"worker_self_test", "repair_result_received", "self_tested">>,
    <<"independent_test", "self_tested", "independently_tested">>,
    <<"documentation_result", "independently_tested", "documented">>,
    <<"audit_result", "documented", "audited">>}
Results == {"worker_result", "repair_result"}
Tests == {"worker_self_test", "independent_test", "audit_result"}
Verdicts == Tests \cup {"documentation_result"}
Types == {rung[1] : rung \in Ladder} \cup {"assignment_created", "candidate_closeout"}
Phases == {rung[2] : rung \in Ladder} \cup {"absent", "audited", "repair_required", "candidate_complete"}

(* CANONICAL_LANE_STATUSES; a worker may report any but the last.          *)
Reported == {"assigned", "in_progress", "ready_for_review", "needs_revision",
             "needs_reassignment", "needs_parent_repair", "waiting_external"}
Statuses == Reported \cup {"candidate_complete"}
NotWriting == {"candidate_complete", "needs_reassignment", "waiting_external"}

ASSUME LanesAssumption ==
    /\ MaxWriters \in 1 .. 2
    /\ IsFiniteSet(Lane)
    /\ \A a \in Assignment :
          /\ Terms[a].lane \in Lane /\ Terms[a].writes \in BOOLEAN
          /\ Terms[a].cap \in 0 .. 3 /\ Terms[a].needs \subseteq Lane
    /\ \A e \in Event :
          /\ Content[e].type \in Types /\ Content[e].lane \in Lane
          /\ Content[e].type = "assignment_created" => Content[e].value \in Assignment
          /\ Content[e].type \in Results => Content[e].value \in Reported

Nothing == "none"
ASSUME NothingAssumption == Nothing \notin Assignment \cup Lane

NoLane == [assignment |-> Nothing, phase |-> "absent", status |-> "assigned", repair |-> FALSE,
           cycles |-> 0, passed |-> {}, replaced |-> {}, reserved |-> {}]

(* initial_runtime_state.                                                  *)
InitialLoop == [status |-> "in_progress", phase |-> "initialized", active |-> Nothing,
                lanes |-> [l \in Lane |-> NoLane]]

Present(loop) == {l \in Lane : loop.lanes[l].phase # "absent"}
TermsOf(loop, l) == Terms[loop.lanes[l].assignment]

(* _lane_history: what the checkpoint has used up.                         *)
Consumed(loop) ==
    UNION {{loop.lanes[l].assignment} \cup loop.lanes[l].replaced : l \in Present(loop)}
Reserved(loop) == UNION {loop.lanes[l].reserved : l \in Lane}

(* Wrong: only lanes with work in progress would count.                    *)
WritersInProgress(loop) ==
    {l \in Present(loop) : TermsOf(loop, l).writes /\ loop.lanes[l].status = "in_progress"}
Writers(loop) ==
    {l \in Present(loop) : TermsOf(loop, l).writes /\ loop.lanes[l].status \notin NotWriting}

Assignable(loop, a) ==
    LET t == Terms[a]
        prior == loop.lanes[t.lane]
        others == Writers(loop) \ {t.lane} IN
    /\ t.writes =>
          /\ Cardinality(others) < MaxWriters
          /\ \A l \in others : TermsOf(loop, l).scope \cap t.scope = {}
    /\ \A l \in t.needs : loop.lanes[l].phase \in {"audited", "candidate_complete"}
    /\ a \notin Consumed(loop)
    /\ \/ prior.phase = "absent"
       \/ /\ prior.phase = "repair_required"
          /\ prior.cycles < Terms[prior.assignment].cap
          /\ t.artifact \notin Reserved(loop)

(* Wrong: the count of repairs would start again.                          *)
AssignedLaneUncounted(loop, a) ==
    LET prior == loop.lanes[Terms[a].lane] IN
    [NoLane EXCEPT
        !.assignment = a,
        !.phase = IF prior.phase = "repair_required" THEN Repairing ELSE Initial,
        !.repair = prior.phase = "repair_required",
        !.replaced = prior.replaced \cup ({prior.assignment} \ {Nothing}),
        !.reserved = prior.reserved \cup {Terms[a].artifact}]

(* A new lane, or the lane of the repair, which keeps its predecessors.    *)
AssignedLane(loop, a) ==
    LET prior == loop.lanes[Terms[a].lane]
        repair == prior.phase = "repair_required" IN
    [assignment |-> a,
     phase |-> IF repair THEN Repairing ELSE Initial,
     status |-> "assigned",
     repair |-> repair,
     cycles |-> IF repair THEN prior.cycles + 1 ELSE 0,
     passed |-> {},
     replaced |-> IF repair THEN prior.replaced \cup {prior.assignment} ELSE {},
     reserved |-> prior.reserved \cup {Terms[a].artifact}]

Ready(lane) == lane.phase = "audited" /\ lane.passed = Verdicts

Climbs(lane, c) == \E rung \in Ladder : rung[1] = c.type /\ rung[2] = lane.phase

(* The guards of transition_runtime, for one event.                        *)
Accepts(loop, e) ==
    LET c == Content[e]
        lane == loop.lanes[c.lane] IN
    /\ loop.status = "in_progress"
    /\ \/ /\ c.type = "assignment_created"
          /\ Terms[c.value].lane = c.lane
          /\ Assignable(loop, c.value)
       \/ /\ Climbs(lane, c)
          /\ c.type \in Results => c.artifact = Terms[lane.assignment].artifact
       \/ /\ c.type = "candidate_closeout"
          /\ lane.phase = "audited"
          /\ \A l \in Present(loop) : Ready(loop.lanes[l])

(* Wrong: a lane would close without the last verdict.                     *)
ClimbedPastAudit(lane, c) ==
    LET fails == c.type \in Tests \ {"audit_result"} /\ c.value = "fail" IN
    [lane EXCEPT
        !.phase = IF fails THEN "repair_required"
                  ELSE CHOOSE phase \in Phases : <<c.type, lane.phase, phase>> \in Ladder,
        !.passed = IF c.type \in Verdicts /\ c.value = "pass" THEN @ \cup {c.type} ELSE @,
        !.reserved = @ \cup IF c.artifact = Nothing THEN {} ELSE {c.artifact}]
Climbed(lane, c) ==
    LET fails == c.type \in Tests /\ c.value = "fail" IN
    [lane EXCEPT
        !.phase = IF fails THEN "repair_required"
                  ELSE CHOOSE phase \in Phases : <<c.type, lane.phase, phase>> \in Ladder,
        !.status = CASE c.type = "route_resolved" -> "in_progress"
                     [] c.type \in Results -> c.value
                     [] OTHER -> @,
        !.passed = IF c.type \in Verdicts /\ ~fails THEN @ \cup {c.type} ELSE @,
        !.reserved = @ \cup IF c.artifact = Nothing THEN {} ELSE {c.artifact}]

Touched(loop, l, lane) ==
    [loop EXCEPT !.active = l, !.phase = lane.phase, !.lanes[l] = lane]

Closed(loop) ==
    [loop EXCEPT !.status = "candidate_complete", !.phase = "candidate_complete",
        !.lanes = [l \in Lane |->
            IF l \in Present(loop)
            THEN [loop.lanes[l] EXCEPT !.status = "candidate_complete", !.phase = "candidate_complete"]
            ELSE loop.lanes[l]]]

After(loop, e) ==
    LET c == Content[e] IN
    CASE c.type = "assignment_created" -> Touched(loop, c.lane, AssignedLane(loop, c.value))
      [] c.type = "candidate_closeout" -> [Closed(loop) EXCEPT !.active = c.lane]
      [] OTHER -> Touched(loop, c.lane, Climbed(loop.lanes[c.lane], c))

==============================================================================
