--------------------------- MODULE WorkGraphUpdates ---------------------------
(***************************************************************************)
(* The updates log of a WorkGraph board (workgraph_updates.py): proposals  *)
(* to change the board, and what the Parent and others wrote of them.      *)
(*                                                                         *)
(* The log is one chain of rows that only grows; here it is one sequence   *)
(* of rows for each update, its lineage.  Every row of a lineage repeats   *)
(* the patch, the identities and the base it was proposed with, so a row   *)
(* keeps its transition, the Parent's decision, that base, the replacement *)
(* of a superseded update, and whether it carries the identifier that the  *)
(* adapter derives (own) or one that its author chose.                     *)
(***************************************************************************)
EXTENDS Naturals, Sequences, FiniteSets

CONSTANTS Update, NoUpdate,
          ByHand      \* bound: the transitions and decisions that others append, by update

VARIABLE lineages

LogInit == lineages = [u \in Update |-> <<>>]

Newest(u) == lineages[u][Len(lineages[u])]
Stands(u, transition) == lineages[u] # <<>> /\ Newest(u).transition = transition
Approved(u) == Stands(u, "reviewed") /\ Newest(u).decision = "approve"

HasOwn(u, transition) ==
    \E n \in DOMAIN lineages[u] :
        lineages[u][n].own /\ lineages[u][n].transition = transition

(* The updates that stand in for r, by one supersession or several.        *)
Heirs(r) ==
    LET heirs[n \in Nat] ==
            IF n = 0 THEN {r}
            ELSE heirs[n - 1] \cup
                 {Newest(v).replacement : v \in {w \in heirs[n - 1] : Stands(w, "superseded")}}
    IN heirs[Cardinality(Update)]

Decides(row, decision) == row.decision = decision /\ row.replacement = NoUpdate

(* What may follow in a lineage.  A review follows a proposal only, a row  *)
(* after the proposal rests on a decision, and nothing follows an end but  *)
(* the reconciliation of what was applied.                                 *)
Follows(u, row) ==
    \/ row.transition = "proposed" /\ lineages[u] = <<>> /\ Decides(row, "none")
    \/ /\ row.transition = "reviewed"
       /\ Stands(u, "proposed")
       /\ Decides(row, "approve") \/ Decides(row, "reject")
    \/ /\ row.transition = "rejected"
       /\ Stands(u, "reviewed") /\ ~Approved(u)
       /\ Decides(row, "reject")
    \/ row.transition = "applied" /\ Approved(u) /\ Decides(row, "approve")
    \/ row.transition = "reconciled" /\ Stands(u, "applied") /\ Decides(row, "approve")
    \/ /\ row.transition = "superseded"
       /\ Stands(u, "proposed") \/ Stands(u, "reviewed")
       /\ row.decision = "supersede"
       /\ row.replacement \in Update /\ lineages[row.replacement] # <<>>
       /\ u \notin Heirs(row.replacement)

Admits(u, row) ==
    /\ lineages[u] # <<>> => row.base = Newest(u).base
    /\ Follows(u, row)

AppendRow(u, row) == Admits(u, row) /\ lineages' = [lineages EXCEPT ![u] = Append(@, row)]

(* The row that the adapter drafts from the review it found.               *)
OwnRow(base, transition) ==
    [transition |-> transition, decision |-> "approve", base |-> base,
     replacement |-> NoUpdate, own |-> TRUE]

(* A row that a proposer, the Parent or another tool appends.  A proposal  *)
(* names the board its author saw.                                         *)
AppendByHand(u, seen) ==
    \E row \in ByHand[u], replacement \in Update \cup {NoUpdate} :
        AppendRow(u, [transition |-> row[1], decision |-> row[2],
                      base |-> IF lineages[u] = <<>> THEN seen ELSE Newest(u).base,
                      replacement |-> replacement, own |-> FALSE])
===============================================================================
