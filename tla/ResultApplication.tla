-------------------------- MODULE ResultApplication --------------------------
(***************************************************************************)
(* What the application of results promises, whatever crashes and retries  *)
(* it takes: a result reaches the Supervisor as a whole, then its quality  *)
(* is accepted, then its lease is freed, then a receipt says so; and an    *)
(* operator who frees the lease or declares its execution unknown stops    *)
(* whatever part has not happened yet. A result without a lease has its    *)
(* receipt once the Supervisor has it.                                     *)
(***************************************************************************)
CONSTANTS
    App,        \* the results
    Control     \* those that were not produced under a lease

VARIABLES
    supervised,   \* results whose every event is in log and state
    accepted,     \* results whose quality the ledger accepts
    lease,        \* of each result: "none", "held", "applied" or "operator"
    unknown,      \* results whose execution was declared unknown
    receipted     \* results with a receipt

vars == <<supervised, accepted, lease, unknown, receipted>>

Init ==
    /\ supervised = {} /\ accepted = {} /\ unknown = {} /\ receipted = {}
    /\ lease = [a \in App |-> "none"]

Open(a) == lease[a] = "held" /\ a \notin unknown

Grant(a) ==
    /\ a \notin Control /\ lease[a] = "none"
    /\ lease' = [lease EXCEPT ![a] = "held"]
    /\ UNCHANGED <<supervised, accepted, unknown, receipted>>

Supervise(a) ==
    /\ a \in Control \/ Open(a)
    /\ supervised' = supervised \cup {a}
    /\ UNCHANGED <<accepted, lease, unknown, receipted>>

Accept(a) ==
    /\ Open(a) /\ a \in supervised
    /\ accepted' = accepted \cup {a}
    /\ UNCHANGED <<supervised, lease, unknown, receipted>>

Free(a) ==
    /\ Open(a) /\ a \in accepted
    /\ lease' = [lease EXCEPT ![a] = "applied"]
    /\ UNCHANGED <<supervised, accepted, unknown, receipted>>

Receipt(a) ==
    /\ IF a \in Control THEN a \in supervised ELSE lease[a] = "applied"
    /\ receipted' = receipted \cup {a}
    /\ UNCHANGED <<supervised, accepted, lease, unknown>>

OperatorFrees(a) ==
    /\ lease[a] = "held"
    /\ lease' = [lease EXCEPT ![a] = "operator"]
    /\ UNCHANGED <<supervised, accepted, unknown, receipted>>

DeclareUnknown(a) ==
    /\ lease[a] = "held"
    /\ unknown' = unknown \cup {a}
    /\ UNCHANGED <<supervised, accepted, lease, receipted>>

Next ==
    \E a \in App :
        \/ Grant(a) \/ Supervise(a) \/ Accept(a) \/ Free(a)
        \/ Receipt(a) \/ OperatorFrees(a) \/ DeclareUnknown(a)

Spec == Init /\ [][Next]_vars
=============================================================================
