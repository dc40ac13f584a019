-------------------------- MODULE ConsumerRegistry --------------------------
(***************************************************************************)
(* master/src/consumers.rs, `ConsumerRegistry`: the master's view of every *)
(* consumer connection, and the reverse index from a producer to the       *)
(* consumers that wait for its batch.  The map and the index have a mutex  *)
(* each; a method that takes them in turn is several atomic formulas here, *)
(* one per lock, and the tasks of the master take them one at a time.      *)
(* Rates, tags, EMAs and `unacked` are dashboard data and are left out.    *)
(***************************************************************************)
EXTENDS Ids

VARIABLES
    consumers,   \* id -> entry; the state "none" stands for an absent key
    awaiting     \* awaiting_by_producer: producer id -> set of consumer ids

consVars == <<consumers, awaiting>>

ConsumerPhase == {"none", "idle", "matcher_queue", "awaiting_batch",
                  "processing", "delivery_failed"}

ConsumerEntry == [state : ConsumerPhase, assigned : Producers \cup {None}]

NoConsumer == [state |-> "none", assigned |-> None]

ConsumersInit ==
    /\ consumers = [c \in Consumers |-> NoConsumer]
    /\ awaiting = [p \in Producers |-> {}]

Known(c) == consumers[c].state # "none"

put_consumer(c, e) ==
    consumers' = [consumers EXCEPT ![c] = IF Known(c) THEN e ELSE @]

register_consumer(c) ==
    consumers' = [consumers EXCEPT ![c] = [NoConsumer EXCEPT !.state = "idle"]]

\* The first lock of remove; the second one is untrack_awaiting.
remove_consumer(c) == consumers' = [consumers EXCEPT ![c] = NoConsumer]

\* The first lock of begin_cycle and of set_phase: assigned_producer_id.take().
take_assigned(c) == put_consumer(c, [consumers[c] EXCEPT !.assigned = None])

\* The last lock of begin_cycle and of set_phase.
set_consumer_state(c, s) == put_consumer(c, [consumers[c] EXCEPT !.state = s])

\* Mutant: the phase changes, the producer is not recorded.
mark_awaiting_unassigned(c, p) ==
    put_consumer(c, [consumers[c] EXCEPT !.state = "awaiting_batch"])

\* The first lock of mark_awaiting_batch; the second one is track_awaiting.
mark_awaiting_batch(c, p) ==
    put_consumer(c, [state |-> "awaiting_batch", assigned |-> p])

\* An empty report frees the consumer, another one puts it to work.
finish_batch(c, n) ==
    put_consumer(c, [state    |-> IF n = 0 THEN "idle" ELSE "processing",
                     assigned |-> None])

\* release_stale_assignments, first lock: what the index holds besides `keep`.
StaleAwaiting(p, keep) == awaiting[p] \ {keep}

\* Mutant: the producer is cleared, the phase is not.
release_stale_assigned(stale) ==
    consumers' = [c \in Consumers |->
        IF c \in stale THEN [consumers[c] EXCEPT !.assigned = None]
                       ELSE consumers[c]]

\* Second lock: those of them that still wait are freed.
release_stale_entries(stale) ==
    consumers' = [c \in Consumers |->
        IF c \in stale /\ consumers[c].state = "awaiting_batch"
        THEN [state |-> "idle", assigned |-> None]
        ELSE consumers[c]]

\* Third lock, and untrack_awaiting: the index forgets the consumers in cs.
untrack_awaiting(p, cs) == awaiting' = [awaiting EXCEPT ![p] = @ \ cs]

track_awaiting(p, c) == awaiting' = [awaiting EXCEPT ![p] = @ \cup {c}]

\* find_id_by_assigned_producer returns any of these (HashMap order).
AssignedConsumers(p) == {c \in Consumers : consumers[c].assigned = p}
=============================================================================
