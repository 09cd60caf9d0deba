--------------------------- MODULE PreflightBroker ---------------------------
(***************************************************************************)
(* The preflight broker (preflight_broker.py): a state file that holds,    *)
(* per exact route key, the lease of a probe in flight or the observation  *)
(* the last probe recorded, and the history of both.  request_probe and    *)
(* record_observation each hold the broker's lock from reading the file to *)
(* replacing it, so each is one step.  A request that hits the cache or    *)
(* meets a probe in flight changes nothing and is no step.                 *)
(*                                                                         *)
(* Callers inject the time, which may be up to Lag behind the clock.       *)
(***************************************************************************)
EXTENDS Integers, Sequences

CONSTANTS
    Key,         \* exact routes
    Owner,       \* owner tokens; callers choose them and may use one again
    Duration,    \* what lease_seconds and ttl_seconds may be
    Lag,         \* how far an injected time may be behind the clock
    MaxEvents    \* bound on the history; recordings may exceed it

VARIABLES
    entries,   \* the entry of each key; its lease and observation are sets
               \* of at most one, both empty for a key without an entry
    history,   \* the event chain
    clock      \* the real time

Verdict == {"callable", "other"}
Kinds == {"probe_claimed", "probe_recovered", "observation_recorded"}

Lease == [owner : Owner, acquired : Nat, expires : Nat]
Observation == [verdict : Verdict, observed : Nat, expires : Nat]
Entry == [lease : SUBSET Lease, observation : SUBSET Observation]
NoEntry == [lease |-> {}, observation |-> {}]
Event == [kind : Kinds, key : Key, at : Nat, owner : Owner]

Init == entries = [k \in Key |-> NoEntry] /\ history = <<>>

AppendEvent(kind, k, now, owner) ==
    history' = Append(history, [kind |-> kind, key |-> k, at |-> now, owner |-> owner])

(* request_probe with neither a current observation nor a probe in flight: *)
(* the caller's lease replaces the entry.                                  *)
ClaimProbe(k, owner, now, seconds) ==
    /\ \A o \in entries[k].observation : o.expires <= now
    /\ \A l \in entries[k].lease : l.expires <= now
    /\ entries' = [entries EXCEPT ![k] =
           [lease |-> {[owner |-> owner, acquired |-> now, expires |-> now + seconds]},
            observation |-> {}]]
    /\ AppendEvent(IF entries[k].lease = {} THEN "probe_claimed" ELSE "probe_recovered",
                   k, now, owner)

(* Wrong: the lease would outlive the observation it led to.               *)
RecordObservationKeepsLease(k, owner, verdict, now, seconds) ==
    /\ \E l \in entries[k].lease : l.owner = owner /\ now < l.expires
    /\ entries' = [entries EXCEPT ![k].observation =
           {[verdict |-> verdict, observed |-> now, expires |-> now + seconds]}]
    /\ AppendEvent("observation_recorded", k, now, owner)

(* record_observation: only the owner of the lease, before it expires.     *)
RecordObservation(k, owner, verdict, now, seconds) ==
    /\ \E l \in entries[k].lease : l.owner = owner /\ now < l.expires
    /\ entries' = [entries EXCEPT ![k] =
           [lease |-> {},
            observation |-> {[verdict |-> verdict, observed |-> now,
                              expires |-> now + seconds]}]]
    /\ AppendEvent("observation_recorded", k, now, owner)

(* Wrong: the expiry of the observation would not be looked at.            *)
CurrentEver(k, now) == {o \in entries[k].observation : o.observed <= now}

(* read_current_observation: what a reader at this time may rely on.       *)
Current(k, now) ==
    {o \in entries[k].observation : o.observed <= now /\ now < o.expires}

(* The digest of the state file names its whole history, and the events    *)
(* determine the entries up to durations and verdicts, which are of one    *)
(* run: two states of a run with the same history length are the same.     *)
Cursor == Len(history)

Injected == {t \in 0 .. clock : clock <= t + Lag}

Step ==
    \E k \in Key, owner \in Owner, now \in Injected, seconds \in Duration :
        \/ Cursor < MaxEvents /\ ClaimProbe(k, owner, now, seconds)
        \/ \E verdict \in Verdict : RecordObservation(k, owner, verdict, now, seconds)

TypeOK ==
    /\ entries \in [Key -> Entry]
    /\ history \in Seq(Event)

----------------------------------------------------------------------------
EventsOf(k) == {i \in DOMAIN history : history[i].key = k}
Before(k, i) == {j \in EventsOf(k) : j < i}
IsLast(s, i) == i \in s /\ \A j \in s : j <= i
Probing(i) == history[i].kind \in {"probe_claimed", "probe_recovered"}

(* The history explains the entry of every key: a lease stands exactly     *)
(* after its own claim or recovery, an observation exactly after its       *)
(* recording.  A recording follows a claim of the same owner that nobody   *)
(* took over, and a recovery is told from a claim by what it replaced.     *)
HistoryExplainsEntries ==
    \A k \in Key :
       /\ EventsOf(k) = {} => entries[k] = NoEntry
       /\ \A i \in DOMAIN history : IsLast(EventsOf(k), i) =>
             IF Probing(i)
             THEN /\ entries[k].observation = {}
                  /\ \E l \in entries[k].lease :
                        /\ entries[k].lease = {l}
                        /\ l.owner = history[i].owner /\ l.acquired = history[i].at
             ELSE /\ entries[k].lease = {}
                  /\ \E o \in entries[k].observation :
                        entries[k].observation = {o} /\ o.observed = history[i].at
       /\ \A i \in EventsOf(k) :
             CASE history[i].kind = "probe_claimed" ->
                    \A j \in DOMAIN history : IsLast(Before(k, i), j) => ~Probing(j)
               [] history[i].kind = "probe_recovered" ->
                    \E j \in DOMAIN history : IsLast(Before(k, i), j) /\ Probing(j)
               [] OTHER ->
                    \E j \in DOMAIN history :
                       IsLast(Before(k, i), j) /\ Probing(j)
                          /\ history[j].owner = history[i].owner

(* While a probe lease is unexpired on the clock it ends in one way, its   *)
(* owner's recording, and while an observation is unexpired nothing        *)
(* replaces it: an exact route is probed once at a time, whatever the      *)
(* callers' times.                                                         *)
SingleFlight ==
    [][\A k \in Key :
         /\ \A o \in entries[k].observation :
               clock < o.expires => entries'[k] = entries[k]
         /\ \A l \in entries[k].lease :
               clock < l.expires /\ entries'[k] # entries[k] =>
                  /\ entries'[k].lease = {} /\ entries'[k].observation # {}
                  /\ history'[Len(history')].owner = l.owner]_<<entries, history, clock>>
=============================================================================
