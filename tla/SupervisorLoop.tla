---------------------------- MODULE SupervisorLoop ----------------------------
(***************************************************************************)
(* What the Supervisor loop promises: its history is a sequence of event   *)
(* files, none of them twice, each accepted in the state that the ones     *)
(* before it led to.  One step is one whole apply_event_files.             *)
(***************************************************************************)
EXTENDS SupervisorLanes, Sequences

VARIABLES
    loop,       \* the runtime state after the history
    log         \* the event log, without its initialization record

vars == <<loop, log>>

Init == loop = InitialLoop /\ log = <<>>

Apply(e) ==
    /\ \A i \in DOMAIN log : log[i] # e
    /\ Accepts(loop, e)
    /\ loop' = After(loop, e)
    /\ log' = Append(log, e)

Next == \E e \in Event : Apply(e)
Spec == Init /\ [][Next]_vars

LaneTypes ==
    [assignment : Assignment \cup {Nothing}, phase : Phases, status : Statuses,
     repair : BOOLEAN, cycles : 0 .. 3, passed : SUBSET Verdicts,
     replaced : SUBSET Assignment, reserved : SUBSET Paths]
TypeOK ==
    /\ loop \in [status : {"in_progress", "candidate_complete"},
                 phase : Phases \cup {"initialized"},
                 active : Lane \cup {Nothing}, lanes : [Lane -> LaneTypes]]
    /\ log \in Seq(Event)

(* Lanes whose Worker may be writing.                                      *)
AtWork == {l \in Lane : /\ loop.lanes[l].phase \in {Initial, "routed", Repairing, "repair_routed"}
                        /\ TermsOf(loop, l).writes}

(* No more than MaxWriters Workers write, and no two of them to one file,  *)
(* although a lane that reported needs_reassignment or waiting_external no *)
(* longer counts, may fail its tests and be assigned a repair.             *)
WritersApart ==
    /\ Cardinality(AtWork) <= MaxWriters
    /\ \A l, m \in AtWork : l # m => TermsOf(loop, l).scope \cap TermsOf(loop, m).scope = {}

(* No lane is closed, and none serves another as a completed dependency,   *)
(* unless the work of its last assignment passed every test, whatever its  *)
(* earlier assignments failed.                                             *)
DoneIsVerified ==
    /\ loop.status = "candidate_complete" =>
          \A l \in Present(loop) : loop.lanes[l].phase = "candidate_complete"
    /\ \A l \in Present(loop) :
          /\ loop.lanes[l].phase \in {"audited", "candidate_complete"} => loop.lanes[l].passed = Verdicts
          /\ \A m \in TermsOf(loop, l).needs \ {l} :
                loop.lanes[m].phase \in {"audited", "candidate_complete"}

(* An assignment is used once: by one lane, as its work or as one of its   *)
(* predecessors.  A lane has had as many repairs as it has predecessors,   *)
(* and no more than the assignment it replaced last may have.              *)
AssignmentsUsedOnce ==
    /\ \A l \in Present(loop) :
          /\ loop.lanes[l].assignment \notin loop.lanes[l].replaced
          /\ loop.lanes[l].cycles = Cardinality(loop.lanes[l].replaced)
          /\ loop.lanes[l].cycles > 0 =>
                \E a \in loop.lanes[l].replaced : loop.lanes[l].cycles <= Terms[a].cap
    /\ \A l, m \in Present(loop) : l # m =>
          ({loop.lanes[l].assignment} \cup loop.lanes[l].replaced)
             \cap ({loop.lanes[m].assignment} \cup loop.lanes[m].replaced) = {}

==============================================================================
