------------------------- MODULE SupervisorLoopProofs -------------------------
(***************************************************************************)
(* Proofs about SupervisorLoop, for any lanes, assignments and event files.*)
(* The inductive invariant says of each lane what its phase tells of the   *)
(* rest of its record; the properties that relate lanes follow from it and *)
(* from what an assignment is checked against.                             *)
(***************************************************************************)
EXTENDS SupervisorLoop, FiniteSetTheorems, TLAPS

(* Phases in which the Worker of a lane has not reported yet.              *)
Open == {Initial, "routed", Repairing, "repair_routed"}

(* The verdicts that have passed when a lane is in a phase.                *)
PassedAt(phase) ==
    CASE phase = "self_tested" -> {"worker_self_test"}
      [] phase = "independently_tested" -> {"worker_self_test", "independent_test"}
      [] phase = "documented" -> Verdicts \ {"audit_result"}
      [] phase \in {"audited", "candidate_complete"} -> Verdicts
      [] OTHER -> {}

LaneInv(lane) ==
    /\ lane \in LaneTypes
    /\ lane.phase = "absent" <=> lane.assignment = Nothing
    /\ lane.phase \in Open => lane.status \in {"assigned", "in_progress"}
    /\ lane.phase # "repair_required" => lane.passed = PassedAt(lane.phase)
    /\ IsFiniteSet(lane.replaced) /\ lane.cycles = Cardinality(lane.replaced)
    /\ lane.assignment \notin lane.replaced
    /\ lane.cycles > 0 => \E a \in lane.replaced : lane.cycles <= Terms[a].cap

LoopInv ==
    /\ TypeOK
    /\ \A l \in Lane : LaneInv(loop.lanes[l])

-----------------------------------------------------------------------------
(* What one lane may become.                                               *)

(* A step up the ladder leads to a phase that the ladder names.            *)
LEMMA ClimbedPhase ==
    ASSUME NEW lane, NEW c, Climbs(lane, c)
    PROVE  LET phase == CHOOSE p \in Phases : <<c.type, lane.phase, p>> \in Ladder IN
           phase \in Phases /\ <<c.type, lane.phase, phase>> \in Ladder
<1>1. PICK rung \in Ladder : rung[1] = c.type /\ rung[2] = lane.phase
  BY DEF Climbs
<1>2. rung = <<c.type, lane.phase, rung[3]>> /\ rung[3] \in Phases
  BY <1>1 DEF Ladder, Phases, Initial, Repairing
<1>3. \E p \in Phases : <<c.type, lane.phase, p>> \in Ladder
  BY <1>1, <1>2
<1> QED  BY <1>3

(* A lane that is assigned, for the first time or for a repair.            *)
LEMMA AssignedLaneInv ==
    ASSUME NEW a \in Assignment, LoopInv, Assignable(loop, a)
    PROVE  /\ LaneInv(AssignedLane(loop, a))
           /\ AssignedLane(loop, a).phase \in {Initial, Repairing}
           /\ AssignedLane(loop, a).assignment = a
           /\ AssignedLane(loop, a).replaced \subseteq
                 LET prior == loop.lanes[Terms[a].lane] IN
                 IF prior.phase = "absent" THEN {} ELSE {prior.assignment} \cup prior.replaced
<1> DEFINE prior == loop.lanes[Terms[a].lane]
           new == AssignedLane(loop, a)
           repair == prior.phase = "repair_required"
<1>1. Terms[a].lane \in Lane /\ Terms[a].artifact \in Paths /\ Terms[a].cap \in 0 .. 3
  BY LanesAssumption DEF Paths
<1>2. LaneInv(prior)
  BY <1>1 DEF LoopInv
<1>3. /\ new.assignment = a /\ new.status = "assigned" /\ new.passed = {}
      /\ new.repair = repair
      /\ new.phase = IF repair THEN Repairing ELSE Initial
      /\ new.cycles = IF repair THEN prior.cycles + 1 ELSE 0
      /\ new.replaced = IF repair THEN prior.replaced \cup {prior.assignment} ELSE {}
      /\ new.reserved = prior.reserved \cup {Terms[a].artifact}
  BY DEF AssignedLane
<1>4. a # Nothing
  BY NothingAssumption
<1>5. CASE ~repair
  <2>1. prior.phase = "absent"
    BY <1>5 DEF Assignable
  <2>2. new \in LaneTypes
    BY <1>1, <1>2, <1>5
       DEF AssignedLane, LaneInv, LaneTypes, Phases, Ladder, Initial, Repairing, Statuses, Reported
  <2>3. IsFiniteSet({}) /\ Cardinality({}) = 0
    BY FS_EmptySet
  <2> QED
    BY <1>3, <1>4, <1>5, <2>1, <2>2, <2>3
       DEF LaneInv, Open, PassedAt, Initial, Repairing
<1>6. CASE repair
  <2>1. /\ prior.cycles < Terms[prior.assignment].cap /\ a \notin Consumed(loop)
        /\ prior.assignment \in Assignment
    BY <1>2, <1>6 DEF Assignable, LaneInv, LaneTypes
  <2>2. prior.cycles \in 0 .. 3 /\ Terms[prior.assignment].cap \in 0 .. 3
    BY <1>2, <2>1, LanesAssumption DEF LaneInv, LaneTypes
  <2>3. prior.cycles + 1 \in 0 .. 3 /\ prior.cycles + 1 <= Terms[prior.assignment].cap
    BY <2>1, <2>2
  <2>4. new \in LaneTypes
    BY <1>1, <1>2, <1>6, <2>1, <2>3
       DEF AssignedLane, LaneInv, LaneTypes, Phases, Ladder, Initial, Repairing, Statuses, Reported
  <2>5. /\ IsFiniteSet(prior.replaced \cup {prior.assignment})
        /\ Cardinality(prior.replaced \cup {prior.assignment}) = Cardinality(prior.replaced) + 1
    <3>1. IsFiniteSet(prior.replaced) /\ prior.assignment \notin prior.replaced
      BY <1>2 DEF LaneInv
    <3> QED  BY <3>1, FS_AddElement
  <2>6. new.cycles = Cardinality(new.replaced) /\ IsFiniteSet(new.replaced)
    BY <1>2, <1>3, <1>6, <2>5 DEF LaneInv
  <2>7. a \notin new.replaced
    <3>1. Terms[a].lane \in Present(loop)
      BY <1>1, <1>6 DEF Present
    <3>2. {prior.assignment} \cup prior.replaced \subseteq Consumed(loop)
      BY <3>1 DEF Consumed
    <3> QED  BY <1>3, <1>6, <2>1, <3>2
  <2>8. \E b \in new.replaced : new.cycles <= Terms[b].cap
    BY <1>3, <1>6, <2>3
  <2> QED
    BY <1>3, <1>4, <1>6, <2>4, <2>6, <2>7, <2>8
       DEF LaneInv, Open, PassedAt, Initial, Repairing
<1> QED  BY <1>5, <1>6

(* A lane that climbs, or falls back to the repair.                        *)
LEMMA ClimbedLaneInv ==
    ASSUME NEW lane, LaneInv(lane), NEW e \in Event, Climbs(lane, Content[e])
    PROVE  LET new == Climbed(lane, Content[e]) IN
           /\ LaneInv(new)
           /\ lane.phase \notin {"absent", "audited", "candidate_complete", "repair_required"}
           /\ new.phase \notin {"absent", "candidate_complete"}
           /\ new.phase \in Open => lane.phase \in Open
           /\ new.assignment = lane.assignment /\ new.replaced = lane.replaced
<1> DEFINE c == Content[e]
           fails == c.type \in Tests /\ c.value = "fail"
           up == CHOOSE p \in Phases : <<c.type, lane.phase, p>> \in Ladder
           new == Climbed(lane, c)
<1>1. up \in Phases /\ <<c.type, lane.phase, up>> \in Ladder
  BY ClimbedPhase
<1>2. /\ new.assignment = lane.assignment /\ new.replaced = lane.replaced
      /\ new.cycles = lane.cycles /\ new.repair = lane.repair
      /\ new.phase = IF fails THEN "repair_required" ELSE up
      /\ new.passed = IF c.type \in Verdicts /\ ~fails
                      THEN lane.passed \cup {c.type} ELSE lane.passed
      /\ new.status = CASE c.type = "route_resolved" -> "in_progress"
                        [] c.type \in Results -> c.value
                        [] OTHER -> lane.status
  BY DEF Climbed, LaneInv, LaneTypes
<1>3. new \in LaneTypes
  <2>1. c.artifact \in Paths /\ (c.type \in Results => c.value \in Reported)
    <3>1. c.artifact \in Paths
      <4>1. c.artifact \in {Content[f].artifact : f \in Event}
        OBVIOUS
      <4> QED  BY <4>1 DEF Paths
    <3>2. c.type \in Results => c.value \in Reported
      BY LanesAssumption
    <3> QED  BY <3>1, <3>2
  <2>2. (c.type \in Verdicts => {c.type} \subseteq Verdicts) /\ "repair_required" \in Phases
    BY DEF Phases
  <2>3. new.status \in Statuses
    BY <1>2, <2>1 DEF LaneInv, LaneTypes, Statuses, Reported
  <2>4. new.phase \in Phases
    BY <1>1, <1>2, <2>2
  <2>5. new.passed \in SUBSET Verdicts
    BY <1>2, <2>2 DEF LaneInv, LaneTypes
  <2>6. lane \in LaneTypes
    BY DEF LaneInv
  <2>7. ASSUME NEW phase \in Phases, NEW status \in Statuses, NEW passed \in SUBSET Verdicts,
               NEW reserved \in SUBSET Paths
        PROVE  [lane EXCEPT !.phase = phase, !.status = status, !.passed = passed,
                            !.reserved = reserved] \in LaneTypes
    BY <2>6 DEF LaneTypes
  <2>8. lane.reserved \cup (IF c.artifact = Nothing THEN {} ELSE {c.artifact}) \in SUBSET Paths
    BY <2>1, <2>6 DEF LaneTypes
  <2>9. new = [lane EXCEPT !.phase = new.phase, !.status = new.status, !.passed = new.passed,
                   !.reserved = lane.reserved \cup IF c.artifact = Nothing THEN {} ELSE {c.artifact}]
    BY <1>2, <2>6 DEF Climbed, LaneTypes
  <2> DEFINE reserved == lane.reserved \cup IF c.artifact = Nothing THEN {} ELSE {c.artifact}
  <2>10. reserved \in SUBSET Paths /\ new = [lane EXCEPT !.phase = new.phase,
              !.status = new.status, !.passed = new.passed, !.reserved = reserved]
    BY <2>8, <2>9
  <2> HIDE DEF new, reserved
  <2>11. [lane EXCEPT !.phase = new.phase, !.status = new.status, !.passed = new.passed,
                      !.reserved = reserved] \in LaneTypes
    BY <2>3, <2>4, <2>5, <2>7, <2>10
  <2> QED  BY <2>10, <2>11
<1>4. /\ lane.phase \notin {"absent", "audited", "candidate_complete", "repair_required"}
      /\ up \notin {"absent", "candidate_complete", "repair_required"}
      /\ up \in Open => c.type = "route_resolved" /\ lane.phase \in Open
  BY <1>1 DEF Ladder, Open, Initial, Repairing
<1>5. ~fails => new.passed = PassedAt(up)
  <2>1. lane.passed = PassedAt(lane.phase)
    BY <1>4 DEF LaneInv
  <2>2. ASSUME ~fails
        PROVE  IF c.type \in Verdicts THEN PassedAt(up) = PassedAt(lane.phase) \cup {c.type}
               ELSE PassedAt(up) = PassedAt(lane.phase)
    BY <1>1 DEF Ladder, PassedAt, Verdicts, Tests, Initial, Repairing
  <2> QED  BY <1>2, <2>1, <2>2
<1>6. new.phase \in Open => new.status = "in_progress"
  <2>1. ASSUME new.phase \in Open PROVE c.type = "route_resolved"
    BY <1>2, <1>4, <2>1 DEF Open, Initial, Repairing
  <2>2. c.type = "route_resolved" => new.status = "in_progress"
    BY <1>2 DEF Results
  <2> QED  BY <2>1, <2>2
<1> QED  BY <1>2, <1>3, <1>4, <1>5, <1>6 DEF LaneInv, Open, Initial, Repairing

-----------------------------------------------------------------------------
(* What an accepted event makes of the loop.                               *)

(* One lane becomes another, and the rest stays.                           *)
LEMMA TouchedInv ==
    ASSUME LoopInv, NEW l \in Lane, NEW lane, LaneInv(lane),
           loop' = Touched(loop, l, lane), NEW e \in Event, log' = Append(log, e)
    PROVE  /\ LoopInv'
           /\ loop'.lanes = [loop.lanes EXCEPT ![l] = lane]
           /\ loop'.status = loop.status
<1>1. /\ loop' = [loop EXCEPT !.active = l, !.phase = lane.phase, !.lanes[l] = lane]
      /\ TypeOK /\ lane \in LaneTypes
  BY DEF Touched, LoopInv, LaneInv
<1>2. loop'.lanes = [loop.lanes EXCEPT ![l] = lane] /\ loop'.status = loop.status
  BY <1>1 DEF TypeOK
<1>3. TypeOK'
  <2>1. lane.phase \in Phases
    BY <1>1 DEF LaneTypes
  <2>2. [loop.lanes EXCEPT ![l] = lane] \in [Lane -> LaneTypes]
    BY <1>1 DEF TypeOK
  <2>3. log' \in Seq(Event)
    BY <1>1 DEF TypeOK
  <2> QED  BY <1>1, <1>2, <2>1, <2>2, <2>3 DEF TypeOK
<1>4. \A m \in Lane : LaneInv(loop'.lanes[m])
  BY <1>1, <1>2 DEF LoopInv, TypeOK
<1> QED  BY <1>2, <1>3, <1>4 DEF LoopInv

(* The three kinds of accepted events, each in terms of the lanes.         *)
LEMMA Accepted ==
    ASSUME LoopInv, NEW e \in Event, Accepts(loop, e), loop' = After(loop, e),
           log' = Append(log, e)
    PROVE  /\ LoopInv'
           /\ loop.status = "in_progress"
           /\ LET c == Content[e] IN
              \/ /\ c.value \in Assignment /\ Terms[c.value].lane = c.lane
                 /\ Assignable(loop, c.value) /\ loop'.status = loop.status
                 /\ LaneInv(AssignedLane(loop, c.value))
                 /\ loop'.lanes = [loop.lanes EXCEPT ![c.lane] = AssignedLane(loop, c.value)]
              \/ /\ Climbs(loop.lanes[c.lane], c) /\ loop'.status = loop.status
                 /\ loop'.lanes = [loop.lanes EXCEPT ![c.lane] = Climbed(@, c)]
              \/ /\ \A l \in Present(loop) : Ready(loop.lanes[l])
                 /\ loop'.status = "candidate_complete"
                 /\ loop'.lanes = Closed(loop).lanes
<1> DEFINE c == Content[e]
<1>1. c.lane \in Lane /\ TypeOK
  BY LanesAssumption DEF LoopInv
<1>2. loop.status = "in_progress"
  BY DEF Accepts
<1>3. CASE c.type = "assignment_created"
  <2>1. c.value \in Assignment
    BY <1>3, LanesAssumption
  <2>2. Terms[c.value].lane = c.lane /\ Assignable(loop, c.value)
    BY <1>3 DEF Accepts, Climbs, Ladder
  <2>3. loop' = Touched(loop, c.lane, AssignedLane(loop, c.value))
    BY <1>3 DEF After
  <2>4. LaneInv(AssignedLane(loop, c.value))
    BY <2>1, <2>2, AssignedLaneInv
  <2> QED  BY <1>1, <1>2, <2>1, <2>2, <2>3, <2>4, TouchedInv
<1>4. CASE c.type = "candidate_closeout"
  <2>1. \A l \in Present(loop) : Ready(loop.lanes[l])
    BY <1>4 DEF Accepts, Climbs, Ladder
  <2>2. loop' = [Closed(loop) EXCEPT !.active = c.lane]
    BY <1>4 DEF After
  <2> DEFINE closed(l) == [loop.lanes[l] EXCEPT !.status = "candidate_complete",
                                               !.phase = "candidate_complete"]
             lanes == [l \in Lane |-> IF l \in Present(loop) THEN closed(l) ELSE loop.lanes[l]]
  <2>3. /\ loop'.status = "candidate_complete" /\ loop'.phase = "candidate_complete"
        /\ loop'.active = c.lane /\ loop'.lanes = lanes
        /\ Closed(loop).lanes = lanes
    BY <1>1, <2>2 DEF Closed, TypeOK
  <2>4. ASSUME NEW l \in Present(loop) PROVE LaneInv(closed(l))
    <3>1. LaneInv(loop.lanes[l]) /\ Ready(loop.lanes[l])
      BY <2>1 DEF Present, LoopInv
    <3>2. loop.lanes[l].passed = Verdicts /\ loop.lanes[l].assignment # Nothing
      BY <3>1 DEF LaneInv, Ready
    <3>3. closed(l) \in LaneTypes
      BY <3>1 DEF LaneInv, LaneTypes, Phases, Statuses
    <3>4. /\ closed(l).phase = "candidate_complete"
          /\ closed(l).assignment = loop.lanes[l].assignment
          /\ closed(l).passed = loop.lanes[l].passed
          /\ closed(l).replaced = loop.lanes[l].replaced
          /\ closed(l).cycles = loop.lanes[l].cycles
      BY <3>1 DEF LaneInv, LaneTypes
    <3>5. closed(l).phase \notin Open /\ PassedAt(closed(l).phase) = Verdicts
      BY <3>4 DEF Open, PassedAt, Initial, Repairing
    <3> HIDE DEF closed
    <3> QED  BY <3>1, <3>2, <3>3, <3>4, <3>5 DEF LaneInv
  <2>5. \A l \in Lane : LaneInv(lanes[l])
    BY <2>4 DEF LoopInv
  <2>6. lanes \in [Lane -> LaneTypes]
    BY <2>5 DEF LaneInv
  <2>7. loop' \in [status : {"in_progress", "candidate_complete"},
                   phase : Phases \cup {"initialized"},
                   active : Lane \cup {Nothing}, lanes : [Lane -> LaneTypes]]
    <3>1. loop' = [loop EXCEPT !.status = "candidate_complete", !.phase = "candidate_complete",
                              !.active = c.lane, !.lanes = lanes]
      BY <1>1, <2>2 DEF Closed, TypeOK
    <3> HIDE DEF lanes
    <3> QED  BY <1>1, <2>6, <3>1 DEF TypeOK, Phases
  <2>8. LoopInv'
    <3>1. log' \in Seq(Event)
      BY <1>1 DEF TypeOK
    <3> QED  BY <2>3, <2>5, <2>7, <3>1 DEF LoopInv, TypeOK
  <2> QED  BY <1>2, <2>1, <2>3, <2>8
<1>5. CASE c.type \notin {"assignment_created", "candidate_closeout"}
  <2>1. Climbs(loop.lanes[c.lane], c)
    BY <1>5 DEF Accepts
  <2>2. loop' = Touched(loop, c.lane, Climbed(loop.lanes[c.lane], c))
    BY <1>5 DEF After
  <2>3. LaneInv(Climbed(loop.lanes[c.lane], c))
    BY <1>1, <2>1, ClimbedLaneInv DEF LoopInv
  <2> QED  BY <1>1, <1>2, <2>1, <2>2, <2>3, TouchedInv
<1> QED  BY <1>3, <1>4, <1>5

LEMMA LoopInvInit == Init => LoopInv
<1> SUFFICES ASSUME Init PROVE LoopInv
  OBVIOUS
<1>1. /\ NoLane \in LaneTypes
      /\ NoLane.phase = "absent" /\ NoLane.assignment = Nothing /\ NoLane.passed = {}
      /\ NoLane.replaced = {} /\ NoLane.cycles = 0
  BY DEF NoLane, LaneTypes, Phases, Statuses, Reported
<1>2. LaneInv(NoLane)
  BY <1>1, FS_EmptySet DEF LaneInv, Open, PassedAt, Initial, Repairing
<1>3. TypeOK
  BY <1>1 DEF Init, TypeOK, InitialLoop
<1>4. \A l \in Lane : loop.lanes[l] = NoLane
  BY DEF Init, InitialLoop
<1> QED  BY <1>2, <1>3, <1>4 DEF LoopInv

LEMMA LoopInvNext == LoopInv /\ [Next]_vars => LoopInv'
<1> SUFFICES ASSUME LoopInv, [Next]_vars PROVE LoopInv'
  OBVIOUS
<1>1. CASE Next
  BY <1>1, Accepted DEF Next, Apply
<1>2. CASE UNCHANGED vars
  BY <1>2 DEF vars, LoopInv, TypeOK
<1> QED  BY <1>1, <1>2

(* Every state the loop reaches is well typed.                             *)
THEOREM LoopTyped == Spec => []TypeOK
<1>1. LoopInv => TypeOK
  BY DEF LoopInv
<1> QED  BY <1>1, LoopInvInit, LoopInvNext, PTL DEF Spec

(* The closeout marks every lane there is and changes nothing else of it.  *)
LEMMA ClosedLanes ==
    ASSUME TypeOK, NEW l \in Lane
    PROVE  LET closed == Closed(loop).lanes[l] IN
           /\ closed.assignment = loop.lanes[l].assignment
           /\ closed.replaced = loop.lanes[l].replaced
           /\ l \in Present(loop) => closed.phase = "candidate_complete"
           /\ l \notin Present(loop) => closed.phase = "absent" /\ loop.lanes[l].phase = "absent"
<1>1. loop.lanes[l] \in LaneTypes
  BY DEF TypeOK
<1>2. Closed(loop).lanes[l] =
         IF l \in Present(loop)
         THEN [loop.lanes[l] EXCEPT !.status = "candidate_complete", !.phase = "candidate_complete"]
         ELSE loop.lanes[l]
  BY DEF Closed, TypeOK
<1>3. CASE l \in Present(loop)
  BY <1>1, <1>2, <1>3 DEF LaneTypes
<1>4. CASE l \notin Present(loop)
  BY <1>2, <1>4 DEF Present
<1> QED  BY <1>3, <1>4

-----------------------------------------------------------------------------
(* No two Workers on one file, and no more than the board allows.          *)

LEMMA AtWorkCounts ==
    ASSUME LoopInv
    PROVE  AtWork \subseteq Writers(loop) /\ IsFiniteSet(Writers(loop))
<1>1. ASSUME NEW l \in AtWork PROVE l \in Writers(loop)
  <2>1. l \in Lane /\ loop.lanes[l].phase \in Open /\ TermsOf(loop, l).writes
    BY <1>1 DEF AtWork, Open
  <2>2. loop.lanes[l].status \in {"assigned", "in_progress"} /\ loop.lanes[l].phase # "absent"
    BY <2>1 DEF LoopInv, LaneInv, Open, Initial, Repairing
  <2> QED  BY <2>1, <2>2 DEF Writers, Present, NotWriting
<1>2. Writers(loop) \subseteq Lane
  BY DEF Writers, Present
<1> QED  BY <1>1, <1>2, LanesAssumption, FS_Subset

LEMMA WritersApartNext == LoopInv /\ WritersApart /\ [Next]_vars => WritersApart'
<1> SUFFICES ASSUME LoopInv, WritersApart, [Next]_vars PROVE WritersApart'
  OBVIOUS
<1>1. CASE UNCHANGED vars
  BY <1>1 DEF vars, WritersApart, AtWork, TermsOf
<1>2. ASSUME NEW e \in Event, Apply(e) PROVE WritersApart'
  <2> DEFINE c == Content[e]
  <2>1. /\ c.lane \in Lane /\ IsFiniteSet(Writers(loop)) /\ AtWork \subseteq Writers(loop)
        /\ loop.lanes \in [Lane -> LaneTypes] /\ MaxWriters \in 1 .. 2
    BY AtWorkCounts, LanesAssumption DEF LoopInv, TypeOK
  <2>2. CASE /\ c.value \in Assignment /\ Terms[c.value].lane = c.lane
             /\ Assignable(loop, c.value) /\ LaneInv(AssignedLane(loop, c.value))
             /\ loop'.lanes = [loop.lanes EXCEPT ![c.lane] = AssignedLane(loop, c.value)]
    <3> DEFINE others == Writers(loop) \ {c.lane}
    <3>1. /\ loop'.lanes[c.lane].assignment = c.value
          /\ \A l \in Lane \ {c.lane} : loop'.lanes[l] = loop.lanes[l]
      <4>1. AssignedLane(loop, c.value).assignment = c.value
        BY DEF AssignedLane
      <4> QED  BY <2>1, <2>2, <4>1
    <3>2. \A l \in AtWork' \ {c.lane} :
             l \in AtWork /\ l \in others /\ TermsOf(loop, l)' = TermsOf(loop, l)
      BY <2>1, <3>1 DEF AtWork, TermsOf
    <3>3. TermsOf(loop, c.lane)' = Terms[c.value]
      BY <3>1 DEF TermsOf
    <3>4. CASE Terms[c.value].writes
      <4>1. /\ Cardinality(others) < MaxWriters
            /\ \A l \in others : TermsOf(loop, l).scope \cap Terms[c.value].scope = {}
        BY <2>2, <3>4 DEF Assignable
      <4>2. AtWork' \subseteq others \cup {c.lane}
        BY <3>2
      <4>3. /\ IsFiniteSet(others) /\ IsFiniteSet(others \cup {c.lane})
            /\ Cardinality(others \cup {c.lane}) = Cardinality(others) + 1
            /\ Cardinality(others) \in Nat
        <5>1. IsFiniteSet(others)
          BY <2>1, FS_Subset
        <5> QED  BY <5>1, FS_AddElement, FS_CardinalityType
      <4>4. Cardinality(AtWork)' <= MaxWriters
        <5>1. IsFiniteSet(AtWork') /\ Cardinality(AtWork') <= Cardinality(others \cup {c.lane})
          BY <4>2, <4>3, FS_Subset
        <5>2. Cardinality(AtWork') \in Nat
          BY <5>1, FS_CardinalityType
        <5> QED  BY <2>1, <4>1, <4>3, <5>1, <5>2
      <4>5. ASSUME NEW l \in AtWork', NEW m \in AtWork', l # m
            PROVE  TermsOf(loop, l)'.scope \cap TermsOf(loop, m)'.scope = {}
        BY <3>2, <3>3, <4>1, <4>5 DEF WritersApart
      <4> QED  BY <4>4, <4>5 DEF WritersApart
    <3>5. CASE ~Terms[c.value].writes
      <4>1. AtWork' \subseteq AtWork
        BY <3>2, <3>3, <3>5 DEF AtWork
      <4>2. \A l \in AtWork' : TermsOf(loop, l)' = TermsOf(loop, l)
        BY <3>2, <3>3, <3>5 DEF AtWork
      <4>3. Cardinality(AtWork') <= MaxWriters
        BY <2>1, <4>1, FS_Subset, FS_CardinalityType DEF WritersApart
      <4> QED  BY <4>1, <4>2, <4>3 DEF WritersApart
    <3> QED  BY <3>4, <3>5
  <2>3. CASE /\ Climbs(loop.lanes[c.lane], c)
             /\ loop'.lanes = [loop.lanes EXCEPT ![c.lane] = Climbed(@, c)]
    <3>1. /\ loop'.lanes[c.lane].phase \in Open => loop.lanes[c.lane].phase \in Open
          /\ loop'.lanes[c.lane].assignment = loop.lanes[c.lane].assignment
          /\ \A l \in Lane \ {c.lane} : loop'.lanes[l] = loop.lanes[l]
      BY <2>1, <2>3, ClimbedLaneInv DEF LoopInv
    <3>2. \A l \in Lane : TermsOf(loop, l)' = TermsOf(loop, l)
      BY <3>1 DEF TermsOf
    <3>3. AtWork' \subseteq AtWork
      BY <3>1, <3>2 DEF AtWork, Open
    <3>4. Cardinality(AtWork') <= MaxWriters
      BY <2>1, <3>3, FS_Subset, FS_CardinalityType DEF WritersApart
    <3>5. AtWork' \subseteq Lane
      BY DEF AtWork
    <3> QED  BY <3>2, <3>3, <3>4, <3>5 DEF WritersApart
  <2>4. CASE loop'.lanes = Closed(loop).lanes
    <3>1. \A l \in Lane : loop'.lanes[l].phase \in {"absent", "candidate_complete"}
      BY <2>4, ClosedLanes DEF LoopInv
    <3>2. AtWork' = {}
      BY <3>1 DEF AtWork, Initial, Repairing
    <3> QED  BY <2>1, <3>2, FS_EmptySet DEF WritersApart
  <2> QED  BY <1>2, <2>2, <2>3, <2>4, Accepted DEF Apply
<1> QED  BY <1>1, <1>2 DEF Next

(* However many lanes are assigned, routed, reported and repaired, at most *)
(* MaxWriters Workers write and no two of them to one file.                *)
THEOREM WritersKeptApart == Spec => []WritersApart
<1>1. Init => WritersApart
  <2> SUFFICES ASSUME Init PROVE WritersApart
    OBVIOUS
  <2>1. AtWork = {}
    BY DEF Init, InitialLoop, NoLane, AtWork, Initial, Repairing
  <2> QED  BY <2>1, FS_EmptySet, LanesAssumption DEF WritersApart
<1> QED  BY <1>1, WritersApartNext, LoopInvInit, LoopInvNext, PTL DEF Spec

-----------------------------------------------------------------------------
(* Nothing counts as done that was not verified.                           *)

Done == {"audited", "candidate_complete"}

LEMMA DoneNext == LoopInv /\ DoneIsVerified /\ [Next]_vars => DoneIsVerified'
<1> SUFFICES ASSUME LoopInv, DoneIsVerified, [Next]_vars PROVE DoneIsVerified'
  OBVIOUS
<1>1. CASE UNCHANGED vars
  BY <1>1 DEF vars, DoneIsVerified, Present, TermsOf
<1>2. ASSUME NEW e \in Event, Apply(e) PROVE DoneIsVerified'
  <2> DEFINE c == Content[e]
             needed(l) == TermsOf(loop, l).needs \ {l}
  <2>1. c.lane \in Lane /\ loop.lanes \in [Lane -> LaneTypes]
    BY LanesAssumption DEF LoopInv, TypeOK
  <2>2. LoopInv' /\ loop.status = "in_progress"
    BY <1>2, Accepted DEF Apply
  <2>3. \A l \in Present(loop)' : loop'.lanes[l].phase \in Done => loop'.lanes[l].passed = Verdicts
    <3> SUFFICES ASSUME NEW l \in Present(loop)', loop'.lanes[l].phase \in Done
                 PROVE  loop'.lanes[l].passed = Verdicts
      OBVIOUS
    <3>1. LaneInv(loop.lanes[l])'
      BY <2>2 DEF LoopInv, Present
    <3> QED  BY <3>1 DEF LaneInv, Done, PassedAt
  <2>4. \A l \in Present(loop) : \A m \in needed(l) : m \in Lane /\ loop.lanes[m].phase \in Done
    <3>1. \A l \in Present(loop) : l \in Lane /\ loop.lanes[l].assignment \in Assignment
      BY <2>1 DEF Present, LoopInv, LaneInv, LaneTypes
    <3> QED  BY <3>1, LanesAssumption DEF DoneIsVerified, TermsOf, Done
  <2>5. CASE /\ c.value \in Assignment /\ Terms[c.value].lane = c.lane /\ loop'.status = loop.status
             /\ Assignable(loop, c.value)
             /\ loop'.lanes = [loop.lanes EXCEPT ![c.lane] = AssignedLane(loop, c.value)]
    <3>1. AssignedLane(loop, c.value).assignment = c.value
      BY DEF AssignedLane
    <3>2. /\ loop'.lanes[c.lane].assignment = c.value
          /\ \A l \in Lane \ {c.lane} : loop'.lanes[l] = loop.lanes[l]
      BY <2>1, <2>5, <3>1
    <3>3. \A m \in Terms[c.value].needs : m \in Lane /\ loop.lanes[m].phase \in Done
      BY <2>5, LanesAssumption DEF Assignable, Done
    <3>4. loop.lanes[c.lane].phase \notin Done
      BY <2>5 DEF Assignable, Done
    <3> SUFFICES ASSUME NEW l \in Present(loop)', NEW m \in TermsOf(loop, l)'.needs \ {l}
                 PROVE  loop'.lanes[m].phase \in Done
      BY <2>2, <2>3, <2>5 DEF DoneIsVerified, Done
    <3>5. CASE l = c.lane
      BY <3>2, <3>3, <3>5 DEF TermsOf
    <3>6. CASE l # c.lane
      <4>1. l \in Present(loop) /\ m \in needed(l)
        BY <3>2, <3>6 DEF Present, TermsOf
      <4> QED  BY <2>4, <3>2, <3>4, <4>1
    <3> QED  BY <3>5, <3>6
  <2>6. CASE /\ Climbs(loop.lanes[c.lane], c) /\ loop'.status = loop.status
             /\ loop'.lanes = [loop.lanes EXCEPT ![c.lane] = Climbed(@, c)]
    <3>1. /\ loop.lanes[c.lane].phase \notin Done \cup {"absent"}
          /\ loop'.lanes[c.lane].assignment = loop.lanes[c.lane].assignment
          /\ \A l \in Lane \ {c.lane} : loop'.lanes[l] = loop.lanes[l]
      BY <2>1, <2>6, ClimbedLaneInv DEF LoopInv, Done
    <3>2. /\ \A l \in Lane : TermsOf(loop, l)' = TermsOf(loop, l)
          /\ Present(loop)' \subseteq Present(loop)
      BY <3>1 DEF TermsOf, Present
    <3> SUFFICES ASSUME NEW l \in Present(loop)', NEW m \in TermsOf(loop, l)'.needs \ {l}
                 PROVE  loop'.lanes[m].phase \in Done
      BY <2>2, <2>3, <2>6 DEF DoneIsVerified, Done
    <3>3. l \in Present(loop) /\ m \in needed(l)
      BY <3>2 DEF Present
    <3> QED  BY <2>4, <3>1, <3>3
  <2>7. CASE loop'.lanes = Closed(loop).lanes
    <3>2. \A l \in Lane : /\ loop'.lanes[l].assignment = loop.lanes[l].assignment
                          /\ l \in Present(loop) => loop'.lanes[l].phase = "candidate_complete"
                          /\ l \notin Present(loop) => loop'.lanes[l].phase = "absent"
      BY <2>7, ClosedLanes DEF LoopInv
    <3>3. Present(loop)' = Present(loop) /\ \A l \in Lane : TermsOf(loop, l)' = TermsOf(loop, l)
      BY <3>2 DEF Present, TermsOf
    <3>4. \A l \in Present(loop) : \A m \in needed(l) : m \in Present(loop)
      BY <2>4 DEF Present, Done
    <3>5. Present(loop) \subseteq Lane
      BY DEF Present
    <3>6. \A l \in Present(loop)' : \A m \in TermsOf(loop, l)'.needs \ {l} :
             loop'.lanes[m].phase \in Done
      BY <3>2, <3>3, <3>4, <3>5 DEF Done
    <3>7. \A l \in Present(loop)' : loop'.lanes[l].phase = "candidate_complete"
      BY <3>2, <3>3, <3>5
    <3> QED  BY <2>3, <3>6, <3>7 DEF DoneIsVerified, Done
  <2> QED  BY <1>2, <2>5, <2>6, <2>7, Accepted DEF Apply
<1> QED  BY <1>1, <1>2 DEF Next

(* No lane closes, or serves another as a completed dependency, unless the *)
(* work of its last assignment passed every test.                          *)
THEOREM DoneMeansVerified == Spec => []DoneIsVerified
<1>1. Init => DoneIsVerified
  <2> SUFFICES ASSUME Init PROVE DoneIsVerified
    OBVIOUS
  <2>1. Present(loop) = {} /\ loop.status = "in_progress"
    BY DEF Init, InitialLoop, NoLane, Present
  <2> QED  BY <2>1 DEF DoneIsVerified
<1> QED  BY <1>1, DoneNext, LoopInvInit, LoopInvNext, PTL DEF Spec

-----------------------------------------------------------------------------
(* No assignment is given twice.                                           *)

Held(l) == {loop.lanes[l].assignment} \cup loop.lanes[l].replaced
HeldApart == \A l, m \in Present(loop) : l # m => Held(l) \cap Held(m) = {}

LEMMA HeldApartNext == LoopInv /\ HeldApart /\ [Next]_vars => HeldApart'
<1> SUFFICES ASSUME LoopInv, HeldApart, [Next]_vars PROVE HeldApart'
  OBVIOUS
<1>1. CASE UNCHANGED vars
  BY <1>1 DEF vars, HeldApart, Held, Present
<1>2. ASSUME NEW e \in Event, Apply(e) PROVE HeldApart'
  <2> DEFINE c == Content[e]
  <2>1. c.lane \in Lane /\ loop.lanes \in [Lane -> LaneTypes]
    BY LanesAssumption DEF LoopInv, TypeOK
  <2>2. CASE /\ c.value \in Assignment /\ Terms[c.value].lane = c.lane
             /\ Assignable(loop, c.value)
             /\ loop'.lanes = [loop.lanes EXCEPT ![c.lane] = AssignedLane(loop, c.value)]
    <3>1. /\ loop'.lanes[c.lane] = AssignedLane(loop, c.value)
          /\ \A l \in Lane \ {c.lane} : loop'.lanes[l] = loop.lanes[l]
      BY <2>1, <2>2
    <3>2. /\ Held(c.lane)' \subseteq {c.value} \cup
                IF loop.lanes[c.lane].phase = "absent" THEN {} ELSE Held(c.lane)
          /\ \A l \in Present(loop)' \ {c.lane} : l \in Present(loop) /\ Held(l)' = Held(l)
      BY <2>2, <3>1, AssignedLaneInv DEF Held, Present
    <3>3. \A l \in Present(loop) : c.value \notin Held(l)
      BY <2>2 DEF Assignable, Consumed, Held
    <3>4. ASSUME NEW l \in Present(loop)', l # c.lane
          PROVE  Held(c.lane)' \cap Held(l)' = {}
      <4>1. l \in Present(loop) /\ Held(l)' = Held(l) /\ c.value \notin Held(l)
        BY <3>2, <3>3, <3>4
      <4>2. CASE loop.lanes[c.lane].phase = "absent"
        BY <3>2, <4>1, <4>2
      <4>3. CASE loop.lanes[c.lane].phase # "absent"
        <5>1. c.lane \in Present(loop)
          BY <2>1, <4>3 DEF Present
        <5>2. Held(c.lane) \cap Held(l) = {}
          BY <3>4, <4>1, <5>1 DEF HeldApart
        <5> QED  BY <3>2, <4>1, <5>2
      <4> QED  BY <4>2, <4>3
    <3>5. ASSUME NEW l \in Present(loop)', NEW m \in Present(loop)', l # m
          PROVE  Held(l)' \cap Held(m)' = {}
      BY <3>2, <3>4, <3>5 DEF HeldApart
    <3> QED  BY <3>5 DEF HeldApart
  <2>3. CASE \A l \in Lane : /\ loop'.lanes[l].assignment = loop.lanes[l].assignment
                             /\ loop'.lanes[l].replaced = loop.lanes[l].replaced
                             /\ loop'.lanes[l].phase # "absent" => loop.lanes[l].phase # "absent"
    BY <2>3 DEF HeldApart, Held, Present
  <2>4. CASE /\ Climbs(loop.lanes[c.lane], c)
             /\ loop'.lanes = [loop.lanes EXCEPT ![c.lane] = Climbed(@, c)]
    BY <2>1, <2>3, <2>4, ClimbedLaneInv DEF LoopInv
  <2>5. CASE loop'.lanes = Closed(loop).lanes
    BY <2>3, <2>5, ClosedLanes DEF LoopInv, Present
  <2> QED  BY <1>2, <2>2, <2>4, <2>5, Accepted DEF Apply
<1> QED  BY <1>1, <1>2 DEF Next

(* No assignment file is ever given to two lanes, or twice to one, and the *)
(* repairs of a lane stay within what some assignment of it may have.      *)
THEOREM AssignmentsNeverReused == Spec => []AssignmentsUsedOnce
<1>1. LoopInv /\ HeldApart => AssignmentsUsedOnce
  BY DEF LoopInv, LaneInv, HeldApart, Held, AssignmentsUsedOnce, Present
<1>2. Init => HeldApart
  <2> SUFFICES ASSUME Init PROVE HeldApart
    OBVIOUS
  <2>1. Present(loop) = {}
    BY DEF Init, InitialLoop, NoLane, Present
  <2> QED  BY <2>1 DEF HeldApart
<1> QED  BY <1>1, <1>2, HeldApartNext, LoopInvInit, LoopInvNext, PTL DEF Spec

=============================================================================
