-------------------------- MODULE ProducerRegistry --------------------------
(***************************************************************************)
(* master/src/producers.rs, `ProducerRegistry`: the master's view of every *)
(* producer connection.  All of it sits behind one mutex, so every method  *)
(* is one atomic formula over the registry's variables.                    *)
(*                                                                         *)
(* A registry entry keeps what the matcher reads: the state, the consumer  *)
(* the producer was assigned to, the PRDY flag and the backlog of the last *)
(* heartbeat.  Messages have one size, so the bytes of a backlog are its   *)
(* message count; rates, addresses and drop counters are left out.         *)
(***************************************************************************)
EXTENDS Ids

VARIABLES
    producers,     \* id -> entry; the state "none" stands for an absent key
    ready_count,   \* atomic counter of entries in state Ready
    busy_count     \* atomic counter of entries in state Busy

regVars == <<producers, ready_count, busy_count>>

ProducerState == {"none", "Idle", "Ready", "Busy"}

\* `expired` says that busy_since_ms lies STALE_BUSY_MS or more in the past.
ProducerEntry ==
    [state   : ProducerState,
     pending : Consumers \cup {None},
     expired : BOOLEAN,
     prdy    : BOOLEAN,
     pend    : Nat,
     ring    : Nat]

NoEntry == [state |-> "none", pending |-> None, expired |-> FALSE,
            prdy |-> FALSE, pend |-> 0, ring |-> 0]

RegistryInit ==
    /\ producers = [p \in Producers |-> NoEntry]
    /\ ready_count = 0
    /\ busy_count = 0

InState(entries, s) == {p \in Producers : entries[p].state = s}

Registered(p) == producers[p].state # "none"

-----------------------------------------------------------------------------
(* State changes.  transition_entry moves one counter down and another one *)
(* up for every entry whose state changes.                                 *)

Entering(new, s) == Cardinality(InState(new, s) \ InState(producers, s))
Leaving(new, s)  == Cardinality(InState(producers, s) \ InState(new, s))

transition_entries(new) ==
    /\ producers' = new
    /\ ready_count' = ready_count + Entering(new, "Ready")
                                  - Leaving(new, "Ready")
    /\ busy_count' = busy_count + Entering(new, "Busy") - Leaving(new, "Busy")

\* if let Some(e) = inner.get_mut(&id) { *e = entry }
update(p, entry) ==
    transition_entries(
        [producers EXCEPT ![p] = IF Registered(p) THEN entry ELSE @])

release_busy_entry(e) ==
    [e EXCEPT !.state = "Idle", !.pending = None, !.expired = FALSE]

register_producer(p) ==
    transition_entries(
        [producers EXCEPT ![p] = [NoEntry EXCEPT !.state = "Idle"]])

\* Mutant: the entry goes, the counters stay.
remove_producer_uncounted(p) ==
    /\ producers' = [producers EXCEPT ![p] = NoEntry]
    /\ UNCHANGED <<ready_count, busy_count>>

\* The counters go down with the state the entry had.
remove_producer(p) ==
    /\ producers' = [producers EXCEPT ![p] = NoEntry]
    /\ ready_count' = IF producers[p].state = "Ready" THEN ready_count - 1
                                                      ELSE ready_count
    /\ busy_count' = IF producers[p].state = "Busy" THEN busy_count - 1
                                                    ELSE busy_count

set_state(p, s) == update(p, [producers[p] EXCEPT !.state = s])

mark_prdy(p) == update(p, [producers[p] EXCEPT !.prdy = TRUE])

mark_assigned(p, c) ==
    update(p, [producers[p] EXCEPT !.state = "Busy", !.pending = c,
                                   !.expired = FALSE])

clear_stale_busy(p) ==
    update(p, IF producers[p].state = "Busy"
              THEN release_busy_entry(producers[p])
              ELSE producers[p])

take_pending_consumer(p) == update(p, [producers[p] EXCEPT !.pending = None])

AssignedTo(c) == {p \in Producers : producers[p].pending = c}

clear_assignments_to_consumer(c) ==
    transition_entries(
        [p \in Producers |-> IF p \in AssignedTo(c)
                             THEN release_busy_entry(producers[p])
                             ELSE producers[p]])

\* record_delivery and record_failure: both end the assignment.
record_report(p) ==
    update(p, [release_busy_entry(producers[p]) EXCEPT !.prdy = FALSE])

-----------------------------------------------------------------------------
(* Heartbeats: hb.n is ring_messages, hb.pend is pending_messages.         *)

promote_ready(e) == [e EXCEPT !.prdy = TRUE, !.state = "Ready"]

\* Mutant: an empty heartbeat never ends an assignment.
heartbeat_entry_never_stale(e, hb) ==
    LET seen == [e EXCEPT !.pend = hb.pend, !.ring = hb.n]
    IN  CASE e.state = "Busy" /\ hb.n > 0 ->
                 promote_ready(release_busy_entry(seen))
          [] e.state = "Idle" /\ hb.n > 0 ->
                 promote_ready(seen)
          [] e.state # "Busy" /\ hb.n = 0 /\ hb.pend = 0 ->
                 [seen EXCEPT !.prdy = FALSE]
          [] OTHER -> seen

heartbeat_entry(e, hb) ==
    LET seen    == [e EXCEPT !.pend = hb.pend, !.ring = hb.n]
        backlog == hb.n > 0
    IN  CASE e.state = "Busy" /\ backlog ->
                 promote_ready(release_busy_entry(seen))
          [] e.state = "Busy" /\ ~backlog /\ e.expired ->
                 release_busy_entry(seen)
          [] e.state = "Idle" /\ backlog ->
                 promote_ready(seen)
          [] e.state # "Busy" /\ ~backlog /\ hb.pend = 0 ->
                 [seen EXCEPT !.prdy = FALSE]
          [] OTHER -> seen

record_heartbeat(p, hb) == update(p, heartbeat_entry(producers[p], hb))

\* The value record_heartbeat returns.
rematch(p, hb) == producers[p].state \in {"Busy", "Idle"} /\ hb.n > 0

-----------------------------------------------------------------------------
(* Ranking of the ready pool.                                              *)

\* Mutant: looks at the messages that are not in the ring yet.
entry_has_backlog_pending(e) == e.pend > 0

entry_has_backlog(e) == e.prdy \/ e.ring > 0

\* <<messages, bytes>>; a PRDY without a heartbeat counts as one message.
entry_backlog_weight(e) ==
    LET total == e.pend + e.ring
    IN  <<IF total = 0 /\ e.prdy THEN 1 ELSE total, total>>

Heavier(a, b) == a[1] > b[1] \/ (a[1] = b[1] /\ a[2] > b[2])

\* Candidates that left the registry or have nothing to deliver.
StaleAmong(candidates) ==
    {p \in candidates : ~entry_has_backlog(producers[p])}

\* Their entries lose the PRDY flag and fall back from Ready to Idle.
Pruned(candidates) ==
    [p \in Producers |->
        IF p \in StaleAmong(candidates)
        THEN [producers[p] EXCEPT !.prdy = FALSE,
                                  !.state = IF @ = "Ready" THEN "Idle" ELSE @]
        ELSE producers[p]]

\* The candidates no other candidate outweighs.
Tier(candidates) ==
    LET live == candidates \ StaleAmong(candidates)
    IN  {p \in live : \A q \in live :
            ~Heavier(entry_backlog_weight(producers[q]),
                     entry_backlog_weight(producers[p]))}

\* Round robin inside the tier, in the order of the ids.
PickFrom(tier, rr) ==
    IF tier = {} THEN None
    ELSE CHOOSE p \in tier :
            Cardinality({q \in tier : q < p}) = rr % Cardinality(tier)

NextRR(tier, rr) ==
    IF Cardinality(tier) <= 1 THEN rr ELSE (rr + 1) % Cardinality(tier)

rank_ready_candidates(candidates) == transition_entries(Pruned(candidates))

\* Maintenance: prune the pool, then promote every idle producer with backlog.
sync_matcher_ready_state(current) ==
    LET pruned == Pruned(current)
    IN  transition_entries(
            [p \in Producers |->
                IF entry_has_backlog(pruned[p]) /\ pruned[p].state = "Idle"
                THEN promote_ready(pruned[p])
                ELSE pruned[p]])

\* The ids sync_matcher_ready_state reports for insertion into the pool.
SyncAdd(current) ==
    {p \in Producers : /\ entry_has_backlog(Pruned(current)[p])
                       /\ producers[p].state \in {"Idle", "Ready"}}
=============================================================================
