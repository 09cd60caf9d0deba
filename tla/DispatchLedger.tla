--------------------------- MODULE DispatchLedger ---------------------------
(***************************************************************************)
(* The append-only dispatch ledger (dispatch_ledger.py) as its readers see *)
(* it: a sequence of rows.  The hash chain is left out, because a row can  *)
(* only be appended under the ledger lock after the whole chain has been   *)
(* verified, so the chain's content is the order of the sequence.          *)
(*                                                                         *)
(* A row carries the event type, the lease with its fencing token and      *)
(* times, and the identity that admission bound to the lease.              *)
(***************************************************************************)
EXTENDS Naturals, Sequences

(* The event types by which a lease stops counting against capacity.       *)
TerminalLeaseEvents == {"lease_released", "lease_expired", "lease_recovered"}

EventTypes == TerminalLeaseEvents \cup
    {"lease_granted", "execution_unknown", "quality_accepted"}

RowsOfType(rows, type) == {i \in DOMAIN rows : rows[i].type = type}

(* The rows of a lease that decide whether it is active: a later grant     *)
(* replaces the entry in the reader's table, a terminal row removes it.    *)
SettlesLease(row, lease) ==
    /\ row.lease = lease
    /\ row.type \in TerminalLeaseEvents \cup {"lease_granted"}

(* A wrong reader, against which the properties are tried: an unknown      *)
(* execution would free the lease.                                         *)
ActiveRowsUnknownFrees(rows) ==
    {i \in RowsOfType(rows, "lease_granted") :
        \A j \in DOMAIN rows : j > i /\ rows[j].lease = rows[i].lease =>
            rows[j].type \notin TerminalLeaseEvents \cup {"execution_unknown"}}

(* Positions of the grant rows of the leases that are active.  Expiry      *)
(* alone never frees a lease: no time appears here.                        *)
ActiveRows(rows) ==
    {i \in RowsOfType(rows, "lease_granted") :
        \A j \in DOMAIN rows : j > i => ~SettlesLease(rows[j], rows[i].lease)}

(* A row's event identifier is a digest of these fields.                   *)
EventId(row) == <<row.type, row.lease, row.fence, row.at, row.reason>>

(* append_event refuses a row whose identifier the ledger already holds.   *)
Appendable(rows, row) == \A i \in DOMAIN rows : EventId(rows[i]) # EventId(row)

(* Every fencing token the ledger has recorded for a task, by any row.     *)
TokensOf(rows, task) ==
    {rows[i].fence : i \in {j \in DOMAIN rows : rows[j].task = task}}
=============================================================================
